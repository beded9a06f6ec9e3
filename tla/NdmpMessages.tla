---------------------------- MODULE NdmpMessages ----------------------------
(***************************************************************************)
(* The message layer, ndmp/src/ndmp_msg.c, with the handlers of the config *)
(* interface: a worker takes a request, finds or makes the information of  *)
(* its session, calls the handler, which numbers and fills in the reply,   *)
(* and cleans up; the listener marks the session of a client that is gone. *)
(*                                                                         *)
(* This module looks at what NdmpServer takes for granted: the queue of    *)
(* session infos, which get_session_queue creates when it is first called, *)
(* the sequence number, and what replies say.  In turn it takes the        *)
(* sockets and the two job queues as FIFO channels, gives every session a  *)
(* descriptor of its own, and cleans up in one step, which NdmpServer      *)
(* takes apart.  The locks of get_session_queue and get_session_info are   *)
(* new in every call and exclude nobody.                                   *)
(***************************************************************************)
EXTENDS ConfigInterface

CONSTANTS Sessions,     \* the sessions of clients, one connection each
          Workers,      \* the threads of the pool
          Listener,     \* the listener thread
          MaxRequests,  \* bound on the requests of a client
          MaxStreams,   \* streams the process can open besides its sockets
          Patient,      \* TRUE: clients hang up only after the notification
          Hosts         \* the hosts the server may run on

ASSUME NdmpMessagesAssumption ==
    /\ Listener \notin Workers
    /\ Patient \in BOOLEAN
    /\ {MaxRequests, MaxStreams} \subseteq Nat

Threads == Workers \cup {Listener}
Notify == "NOTIFY_CONNECTED"
Unknown == "unknown"
Requests == ConfigOps \cup {Unknown}

VARIABLES
    alive,       \* the process has not died
    host,        \* the host; it does not change
    leaked,      \* streams of /proc/scsi/scsi that are never closed
    client,      \* client[s]: not yet connected, up, gone, and seen to be gone
    sent,        \* sent[s]: number of requests the client has sent
    jobs,        \* the requests the workers have still to take
    static,      \* session_info_queue: 0 for NULL, or a queue of `queues'
    queues,      \* the queues that were made: sequences of infos
    infos,       \* the infos that were made
    number,      \* sequence_number
    thread,      \* what each thread does
    delivered,   \* the messages sent to each client
    outstanding  \* history: the jobs of an info when its end was marked

sessionVars == <<static, queues, infos>>
clientVars  == <<client, sent>>
vars == <<alive, host, leaked, clientVars, jobs, sessionVars, number, thread,
          delivered, outstanding>>

\* The outcomes of a thread's get_session_info, and of a worker's handler.
NoJob == [session |-> "none"]
NoMessage == [op |-> "none"]
Idle == [pc |-> "idle", job |-> NoJob, next |-> "none", queue |-> 0, info |-> 0,
         message |-> NoMessage]

Jobs == [session : Sessions, num : 0..MaxRequests, op : Requests \cup {Notify}]
Infos == [session : Sessions, terminated : BOOLEAN, jobs : SUBSET (0..MaxRequests),
          removed : BOOLEAN]

TypeOK ==
    /\ alive \in BOOLEAN
    /\ leaked \in 0..MaxStreams
    /\ client \in [Sessions -> {"none", "up", "gone", "seen"}]
    /\ sent \in [Sessions -> 0..MaxRequests]
    /\ ToSet(jobs) \subseteq Jobs
    /\ static \in 0..Len(queues)
    /\ \A q \in DOMAIN queues : ToSet(queues[q]) \subseteq DOMAIN infos
    /\ ToSet(infos) \subseteq Infos
    /\ number \in Nat \ {0}
    /\ \A t \in Threads :
          /\ thread[t] # Idle => thread[t].job \in Jobs
          /\ thread[t].pc \in {"create", "use"} => thread[t].queue \in DOMAIN queues
          /\ thread[t].pc = "use" => thread[t].info \in DOMAIN infos

Init ==
    /\ alive = TRUE
    /\ host \in Hosts
    /\ leaked = 0
    /\ client = [s \in Sessions |-> "none"]
    /\ sent = [s \in Sessions |-> 0]
    /\ jobs = <<>>
    /\ static = 0 /\ queues = <<>> /\ infos = <<>>
    /\ number = 1
    /\ thread = [t \in Threads |-> Idle]
    /\ delivered = [s \in Sessions |-> <<>>]
    /\ outstanding = {}

-----------------------------------------------------------------------------
(***************************************************************************)
(* Clients, and the listener as far as it hands on what they do.           *)
(***************************************************************************)

QueueJob(s, n, op) == jobs' = Append(jobs, [session |-> s, num |-> n, op |-> op])

\* A connection is accepted: the pseudo request for the notification is queued.
Connect(s) ==
    /\ client[s] = "none"
    /\ client' = [client EXCEPT ![s] = "up"]
    /\ QueueJob(s, 0, Notify)
    /\ UNCHANGED <<alive, host, leaked, sent, sessionVars, number, thread, delivered,
                   outstanding>>

Send(s, op) ==
    /\ client[s] = "up"
    /\ sent[s] < MaxRequests
    /\ sent' = [sent EXCEPT ![s] = @ + 1]
    /\ QueueJob(s, sent[s] + 1, op)
    /\ UNCHANGED <<alive, host, leaked, client, sessionVars, number, thread, delivered,
                   outstanding>>

HangUp(s) ==
    /\ client[s] = "up"
    /\ Patient => delivered[s] # <<>>
    /\ client' = [client EXCEPT ![s] = "gone"]
    /\ UNCHANGED <<alive, host, leaked, sent, jobs, sessionVars, number, thread, delivered,
                   outstanding>>

-----------------------------------------------------------------------------
(***************************************************************************)
(* get_session_info, which any thread calls.  A step of it by thread t     *)
(* leads to pc, and at last to "use", whence the caller goes on as `next'  *)
(* says.                                                                   *)
(***************************************************************************)

Goto(t, pc) == thread' = [thread EXCEPT ![t].pc = pc]
Got(t, queue, info) ==
    thread' = [thread EXCEPT ![t].pc = "use", ![t].queue = queue, ![t].info = info]
OnlySessions == UNCHANGED <<alive, host, leaked, clientVars, jobs, number, delivered, outstanding>>

\* Seeded bug: the queue is made in every call.
TestQueue_Never(t) ==
    /\ thread[t].pc = "test"
    /\ Goto(t, "make")
    /\ UNCHANGED sessionVars
    /\ OnlySessions

\* get_session_queue tests the static pointer ...
TestQueue(t) ==
    /\ thread[t].pc = "test"
    /\ Goto(t, IF static = 0 THEN "make" ELSE "lookup")
    /\ UNCHANGED sessionVars
    /\ OnlySessions

\* ... and may make the queue.
MakeQueue(t) ==
    /\ thread[t].pc = "make"
    /\ queues' = Append(queues, <<>>)
    /\ static' = Len(queues) + 1
    /\ Goto(t, "lookup")
    /\ UNCHANGED infos
    /\ OnlySessions

\* The places of a session in a queue; get_elem and remove_elem take the first.
Places(queue, s) == {i \in DOMAIN queue : infos[queue[i]].session = s}

\* Seeded bug: the NULL of get_elem is not tested for.
Lookup_NoTest(t) ==
    LET places == Places(queues[static], thread[t].job.session) IN
    /\ thread[t].pc = "lookup"
    /\ Got(t, static, IF places = {} THEN 0 ELSE queues[static][Min(places)])
    /\ UNCHANGED sessionVars
    /\ OnlySessions

\* get_session_queue reads the pointer again for its return, and get_elem looks
\* for the session in that queue.
Lookup(t) ==
    LET places == Places(queues[static], thread[t].job.session) IN
    /\ thread[t].pc = "lookup"
    /\ IF places = {}
       THEN thread' = [thread EXCEPT ![t].pc = "create", ![t].queue = static]
       ELSE Got(t, static, queues[static][Min(places)])
    /\ UNCHANGED sessionVars
    /\ OnlySessions

\* Nothing was found: a new info goes into the queue.
Create(t) ==
    /\ thread[t].pc = "create"
    /\ infos' = Append(infos, [session |-> thread[t].job.session, terminated |-> FALSE,
                               jobs |-> {}, removed |-> FALSE])
    /\ queues' = [queues EXCEPT ![thread[t].queue] = Append(@, Len(infos) + 1)]
    /\ Got(t, thread[t].queue, Len(infos) + 1)
    /\ UNCHANGED static
    /\ OnlySessions

Uses(t, next) == thread[t].pc = "use" /\ thread[t].next = next

-----------------------------------------------------------------------------
(***************************************************************************)
(* A worker: xdr_decode_encode.                                            *)
(***************************************************************************)

\* A request is taken; add_job_to_session calls get_session_info.
Take(w) ==
    /\ thread[w] = Idle
    /\ jobs # <<>>
    /\ jobs' = Tail(jobs)
    /\ thread' = [thread EXCEPT ![w].pc = "test", ![w].next = "add", ![w].job = Head(jobs)]
    /\ UNCHANGED <<alive, host, leaked, clientVars, sessionVars, number, delivered, outstanding>>

AddJob(w) ==
    /\ Uses(w, "add")
    /\ infos' = [infos EXCEPT ![thread[w].info].jobs = @ \cup {thread[w].job.num}]
    /\ thread' = [thread EXCEPT ![w].pc = "handle", ![w].queue = 0, ![w].info = 0]
    /\ UNCHANGED <<static, queues>>
    /\ OnlySessions

\* What the handler of a job may answer.
Outcomes(job) ==
    IF job.op = Notify THEN {Success("connected")}
    ELSE Answers(job.op, host, leaked < MaxStreams)

\* The handler.  ndmp_accept_notify, or the set_header of the others, reads the
\* sequence number ...
Handle(w) ==
    LET job == thread[w].job IN
    /\ thread[w].pc = "handle"
    /\ leaked' = IF job.op = "GET_SCSI_INFO" /\ host.procScsi /\ leaked < MaxStreams
                 THEN leaked + 1 ELSE leaked
    /\ \E answer \in Outcomes(job) :
          /\ alive' = (answer # Dies)
          /\ thread' = [thread EXCEPT
                ![w].pc = "count",
                ![w].message = [op |-> job.op, sequence |-> number,
                                replySequence |-> job.num, answer |-> answer]]
    /\ UNCHANGED <<host, clientVars, jobs, sessionVars, number, delivered, outstanding>>

\* Seeded bug: the notification does not count.
Count_RepliesOnly(w) ==
    /\ thread[w].pc = "count"
    /\ number' = thread[w].message.sequence + (IF thread[w].job.op = Notify THEN 0 ELSE 1)
    /\ thread' = [thread EXCEPT ![w].pc = "test", ![w].next = "end"]
    /\ UNCHANGED <<alive, host, leaked, clientVars, jobs, sessionVars, delivered, outstanding>>

\* ... and writes it back, incremented.  Then cleanup_session calls
\* get_session_info.
Count(w) ==
    /\ thread[w].pc = "count"
    /\ number' = thread[w].message.sequence + 1
    /\ thread' = [thread EXCEPT ![w].pc = "test", ![w].next = "end"]
    /\ UNCHANGED <<alive, host, leaked, clientVars, jobs, sessionVars, delivered, outstanding>>

\* Seeded bug: is_terminated is not looked at.
EndJob_Sends(w) ==
    LET s == thread[w].job.session IN
    /\ Uses(w, "end")
    /\ infos' = [infos EXCEPT ![thread[w].info].jobs = @ \ {thread[w].job.num}]
    /\ delivered' = [delivered EXCEPT ![s] = Append(@, thread[w].message)]
    /\ thread' = [thread EXCEPT ![w] = Idle]
    /\ UNCHANGED <<alive, host, leaked, clientVars, jobs, static, queues, number,
                   outstanding>>

\* cleanup_session takes the job out of the info.  The reply to a session that
\* is terminated is dropped, and the info of one without jobs is removed from
\* the queue and freed; another reply goes to the client.
EndJob(w) ==
    LET s == thread[w].job.session
        info == thread[w].info
        left == infos[info].jobs \ {thread[w].job.num}
        places == Places(queues[static], s)
        ends == infos[info].terminated /\ left = {}
    IN
    /\ Uses(w, "end")
    /\ infos' = [infos EXCEPT ![info].jobs = left, ![info].removed = ends]
    /\ queues' = IF ends /\ places # {}
                 THEN [queues EXCEPT ![static] = RemoveAt(@, Min(places))] ELSE queues
    /\ delivered' = IF infos[info].terminated THEN delivered
                    ELSE [delivered EXCEPT ![s] = Append(@, thread[w].message)]
    /\ thread' = [thread EXCEPT ![w] = Idle]
    /\ UNCHANGED <<alive, host, leaked, clientVars, jobs, static, number, outstanding>>

-----------------------------------------------------------------------------
(***************************************************************************)
(* The listener: terminate_session.                                        *)
(***************************************************************************)

\* The end of a connection is read; terminate_session calls get_session_info.
NoticeHangUp(s) ==
    /\ thread[Listener] = Idle
    /\ client[s] = "gone"
    /\ client' = [client EXCEPT ![s] = "seen"]
    /\ thread' = [thread EXCEPT
          ![Listener].pc = "test", ![Listener].next = "terminate",
          ![Listener].job = [session |-> s, num |-> 0, op |-> Notify]]
    /\ UNCHANGED <<alive, host, leaked, sent, jobs, sessionVars, number, delivered, outstanding>>

Terminate ==
    /\ Uses(Listener, "terminate")
    /\ infos' = [infos EXCEPT ![thread[Listener].info].terminated = TRUE]
    /\ thread' = [thread EXCEPT ![Listener] = Idle]
    /\ outstanding' = outstanding \cup
          {<<thread[Listener].job.session, n>> : n \in infos[thread[Listener].info].jobs}
    /\ UNCHANGED <<alive, host, leaked, clientVars, jobs, static, queues, number, delivered>>

-----------------------------------------------------------------------------
Next ==
    /\ alive
    /\ \/ \E s \in Sessions :
              Connect(s) \/ HangUp(s) \/ NoticeHangUp(s) \/ \E op \in Requests : Send(s, op)
       \/ \E t \in Threads : TestQueue(t) \/ MakeQueue(t) \/ Lookup(t) \/ Create(t)
       \/ \E w \in Workers : Take(w) \/ AddJob(w) \/ Handle(w) \/ Count(w) \/ EndJob(w)
       \/ Terminate

Spec == Init /\ [][Next]_vars

-----------------------------------------------------------------------------
(***************************************************************************)
(* Properties.                                                             *)
(***************************************************************************)

\* "get_session_queue can be called from different threads concurrently. Needs
\* to be thread-safe" (ndmp_msg.c:209): the infos are in one queue, the one that
\* later calls search, one for each session.  It is so where clients wait for
\* the notification before they hang up.
InfosReachable ==
    /\ \A i \in DOMAIN infos : ~infos[i].removed => i \in ToSet(queues[static])
    /\ \A i, j \in DOMAIN infos :
          infos[i].session = infos[j].session /\ i # j => infos[i].removed \/ infos[j].removed

\* The messages that a client receives carry growing sequence numbers, and no
\* number is on two messages of the server (ndmp_msg.c:190-206).
MessagesNumbered ==
    LET Numbered(s, i) == delivered[s][i].sequence IN
    \A s, r \in Sessions : \A i \in DOMAIN delivered[s], j \in DOMAIN delivered[r] :
        /\ s = r /\ i < j => Numbered(s, i) < Numbered(r, j)
        /\ s # r => Numbered(s, i) # Numbered(r, j)

\* "When a session is marked for termination, results/responses for outstanding
\* jobs are not sent back to comm layer" (ndmp_msg.c:346): whichever info the
\* listener has marked, the worker finds the same one when it ends the job.
OutstandingSilenced ==
    \A s \in Sessions : \A i \in DOMAIN delivered[s] :
        <<s, delivered[s][i].replySequence>> \notin outstanding

\* What a successful GET_FS_INFO or GET_SCSI_INFO tells is so: the sizes of file
\* systems that 32 bits can express, and every device, with nine properties in
\* their order, if a reply can hold them and each is of a type that has a name
\* of one word.
OneWordTypes(devices) == \A i \in DOMAIN devices : Len(devices[i].type) = 1
Truthful(message) ==
    message.answer.error = "NDMP_NO_ERR" =>
        CASE message.op = "GET_FS_INFO" /\ host.size < Word ->
               message.answer.content = [total |-> host.size, used |-> host.size - host.free]
          [] message.op = "GET_SCSI_INFO" /\ OneWordTypes(host.devices)
               /\ Len(host.devices) \in 1..ReplyDevices ->
               message.answer.content = [i \in DOMAIN host.devices |-> Described(host.devices[i])]
          [] OTHER -> TRUE
RepliesDescribeHost ==
    \A s \in Sessions : \A i \in DOMAIN delivered[s] : Truthful(delivered[s][i])

\* The config handlers survive on a host where nothing they ask for is missing
\* or too large, as long as the process has streams left.
Healthy ==
    /\ host.nameFits /\ host.statvfs /\ host.procScsi
    /\ Len(host.devices) \in 1..ReplyDevices
HealthyHostServed == [][Healthy /\ leaked < MaxStreams => alive']_vars

-----------------------------------------------------------------------------
(***************************************************************************)
(* What documents and comments say, and the program does not do.           *)
(***************************************************************************)

\* "The sequence number is a connection local counter that starts at one and
\* increases by one for every message sent" (draft, line 300).
ConnectionLocalNumbers ==
    \A s \in Sessions : \A i \in DOMAIN delivered[s] : delivered[s][i].sequence = i
=============================================================================
