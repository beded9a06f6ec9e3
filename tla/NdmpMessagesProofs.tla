------------------------- MODULE NdmpMessagesProofs -------------------------
(***************************************************************************)
(* What the functions of ndmp_msg.c make of the session infos, the jobs    *)
(* and the sequence number while the threads that call them interleave.    *)
(*                                                                         *)
(* Types, and what replies say, hold for any number of workers.  The rest  *)
(* takes what the server has, one worker, and where an info is concerned   *)
(* clients that wait for the notification: then only the worker makes the  *)
(* queue of infos, or an info, and the listener finds the one it looks for.*)
(***************************************************************************)
EXTENDS NdmpMessages, SeqLemmas

OneWorker == \A v, w \in Workers : v = w

(* Types.                                                                  *)

PCs == {"idle", "test", "make", "lookup", "create", "use", "handle", "count"}
HostReplies(op, h) == UNION {Answers(op, h, n < MaxStreams) : n \in 0..MaxStreams}
HandlerReplies(op) == UNION {HostReplies(op, h) : h \in Hosts}
Replies == {Success("connected")} \cup UNION {HandlerReplies(op) : op \in Requests}
Messages == [op : Requests \cup {Notify}, sequence : Nat \ {0},
             replySequence : 0..MaxRequests, answer : Replies]
ThreadStates ==
    [pc : PCs, job : Jobs \cup {NoJob}, next : {"none", "add", "end", "terminate"},
     queue : Nat, info : Nat, message : Messages \cup {NoMessage}]

\* What a thread holds where it is: a job while it is busy, a queue and an info once
\* it has found them, a message once the handler has made it.
Holds(t) ==
    /\ thread[t].pc = "idle" => thread[t] = Idle
    /\ thread[t] # Idle => thread[t].job \in Jobs
    /\ thread[t].pc \in {"lookup", "create", "use"} => static # 0
    /\ thread[t].pc \in {"create", "use"} => thread[t].queue \in DOMAIN queues
    /\ thread[t].pc = "use" => thread[t].info \in DOMAIN infos
    /\ thread[t].pc = "count" \/ thread[t].next = "end" => thread[t].message \in Messages
    /\ t = Listener /\ thread[t] # Idle =>
            thread[t].next = "terminate" /\ thread[t].pc \notin {"handle", "count"}
    /\ t \in Workers => thread[t].next # "terminate"
    /\ thread[t].pc \in {"handle", "count"} => thread[t].next = "add"

TypesInv ==
    /\ host \in Hosts
    /\ alive \in BOOLEAN
    /\ leaked \in 0..MaxStreams
    /\ client \in [Sessions -> {"none", "up", "gone", "seen"}]
    /\ sent \in [Sessions -> 0..MaxRequests]
    /\ jobs \in Seq(Jobs)
    /\ queues \in Seq(Seq(Nat))
    /\ static \in 0..Len(queues)
    /\ infos \in Seq(Infos)
    /\ \A q \in DOMAIN queues : \A i \in DOMAIN queues[q] : queues[q][i] \in DOMAIN infos
    /\ number \in Nat \ {0}
    /\ thread \in [Threads -> ThreadStates]
    /\ delivered \in [Sessions -> Seq(Messages)]
    /\ outstanding \subseteq Sessions \X (0..MaxRequests)
    /\ \A t \in Threads : Holds(t)

(* One worker numbers all messages.                                        *)

NumbersInv ==
    /\ MessagesNumbered
    /\ \A s \in Sessions : \A i \in DOMAIN delivered[s] : delivered[s][i].sequence < number
    /\ \A w \in Workers :
        /\ thread[w].pc = "count" => thread[w].message.sequence = number
        /\ thread[w].next = "end" =>
            /\ thread[w].message.sequence < number
            /\ \A s \in Sessions : \A i \in DOMAIN delivered[s] :
                    delivered[s][i].sequence < thread[w].message.sequence

(* Which infos there are.                                                  *)

Live == {i \in DOMAIN infos : ~infos[i].removed}
InfoOf(s) == {i \in Live : infos[i].session = s}
Registered(s) == \E i \in InfoOf(s) : ~infos[i].terminated
Serves(t, s) == thread[t] # Idle /\ thread[t].job.session = s

\* There is one queue at most, and it has every info that is not freed, once.
OneQueue ==
    /\ Len(queues) = static
    /\ static \in {0, 1}
    /\ static = 0 => infos = <<>>
    /\ static = 1 => ToSet(queues[1]) = Live /\ Distinct(queues[1])
    /\ \A i, j \in Live : infos[i].session = infos[j].session => i = j

\* A client that has the notification has an info until its end is marked; the
\* listener, which looks for no other, finds it.
InfoWaits ==
    /\ \A s \in Sessions : client[s] = "none" => delivered[s] = <<>>
    /\ \A s \in Sessions : client[s] = "gone" => delivered[s] # <<>>
    /\ \A s \in Sessions : client[s] \in {"up", "gone"} /\ delivered[s] # <<>> => Registered(s)
    /\ \A i \in DOMAIN jobs : client[jobs[i].session] # "none"
    /\ \A w \in Workers, s \in Sessions : Serves(w, s) => client[s] # "none"
    /\ \A s \in Sessions : Serves(Listener, s) => client[s] = "seen" /\ Registered(s)
    /\ thread[Listener].pc \in {"idle", "test", "lookup", "use"}

\* What a thread has found is the info of its session; what it did not find is not
\* there, for nobody else makes one.
Found(t) ==
    /\ thread[t].pc = "make" => static = 0
    /\ \A s \in Sessions : Serves(t, s) =>
        /\ thread[t].pc = "create" => InfoOf(s) = {}
        /\ thread[t].pc = "use" => thread[t].info \in InfoOf(s)

RegistryInv == OneQueue /\ InfoWaits /\ \A t \in Threads : Found(t)

(* Which jobs are under way.                                               *)

Handling(w, s, n) ==
    /\ Serves(w, s) /\ thread[w].job.num = n
    /\ thread[w].pc \in {"handle", "count"} \/ thread[w].next = "end"

\* The jobs of a session are taken and answered in the order of their numbers.
JobsInOrder ==
    /\ \A i \in DOMAIN jobs : jobs[i].num <= sent[jobs[i].session]
    /\ \A i, j \in DOMAIN jobs :
            i < j /\ jobs[i].session = jobs[j].session => jobs[i].num < jobs[j].num
    /\ \A w \in Workers, s \in Sessions : Serves(w, s) =>
        /\ thread[w].job.num <= sent[s]
        /\ \A i \in DOMAIN jobs : jobs[i].session = s => thread[w].job.num < jobs[i].num
        /\ \A i \in DOMAIN delivered[s] : delivered[s][i].replySequence < thread[w].job.num
        /\ thread[w].pc = "count" \/ thread[w].next = "end" =>
            thread[w].message.replySequence = thread[w].job.num
    /\ \A s \in Sessions : \A i \in DOMAIN delivered[s] :
        /\ delivered[s][i].replySequence <= sent[s]
        /\ \A j \in DOMAIN jobs :
            jobs[j].session = s => delivered[s][i].replySequence < jobs[j].num

\* An info lists the job that is being handled; one whose end was marked while
\* that job was outstanding stays marked until the job has ended.
JobsListed ==
    /\ \A s \in Sessions : \A i \in InfoOf(s) : \A n \in infos[i].jobs :
            \E w \in Workers : Handling(w, s, n)
    /\ \A s \in Sessions, n \in 0..MaxRequests : <<s, n>> \in outstanding =>
        /\ n <= sent[s] /\ client[s] = "seen"
        /\ \A i \in DOMAIN jobs : jobs[i].session = s => n < jobs[i].num
        /\ \A w \in Workers : Serves(w, s) =>
            \/ n < thread[w].job.num
            \/ Handling(w, s, n) /\ \E i \in InfoOf(s) : infos[i].terminated

SilenceInv == JobsInOrder /\ JobsListed /\ OutstandingSilenced
-----------------------------------------------------------------------------
(* The steps of a thread, by what they do to it.                           *)

LEMMA IdleState == Idle \in ThreadStates /\ Idle.pc = "idle" /\ Idle.next = "none"
BY DEF Idle, ThreadStates, PCs

LEMMA ThreadFacts ==
    ASSUME TypesInv, NEW t \in Threads
    PROVE  /\ thread[t] \in ThreadStates /\ Holds(t)
           /\ thread[t].pc # "idle" => thread[t] # Idle
BY IdleState DEF TypesInv

\* The job and the message of a thread stay, whoever calls get_session_info.
Keeps(t) == /\ thread'[t].job = thread[t].job /\ thread'[t].next = thread[t].next
            /\ thread'[t].message = thread[t].message
OthersStay(t) == \A u \in Threads \ {t} : thread'[u] = thread[u]

LEMMA GotoMoves ==
    ASSUME TypesInv, NEW t \in Threads, NEW pc \in PCs \ {"idle"}, Goto(t, pc)
    PROVE  /\ thread' \in [Threads -> ThreadStates] /\ OthersStay(t) /\ Keeps(t)
           /\ thread'[t].pc = pc /\ thread'[t] # Idle
           /\ thread'[t].queue = thread[t].queue /\ thread'[t].info = thread[t].info
<1> DEFINE x == [thread[t] EXCEPT !.pc = pc]
<1>1. thread[t] \in ThreadStates
  BY DEF TypesInv
<1>2. /\ x \in ThreadStates /\ x.pc = pc /\ x.job = thread[t].job /\ x.next = thread[t].next
      /\ x.message = thread[t].message /\ x.queue = thread[t].queue /\ x.info = thread[t].info
  BY <1>1 DEF ThreadStates
<1>3. thread' = [thread EXCEPT ![t] = x]
  BY DEF Goto
<1> HIDE DEF x
<1>4. /\ thread' \in [Threads -> ThreadStates] /\ thread'[t] = x
      /\ \A u \in Threads \ {t} : thread'[u] = thread[u]
  BY <1>2, <1>3 DEF TypesInv
<1> QED
  BY <1>2, <1>4, IdleState DEF Keeps, OthersStay

LEMMA GotMoves ==
    ASSUME TypesInv, NEW t \in Threads, NEW queue \in Nat, NEW info \in Nat,
           Got(t, queue, info)
    PROVE  /\ thread' \in [Threads -> ThreadStates] /\ OthersStay(t) /\ Keeps(t)
           /\ thread'[t].pc = "use" /\ thread'[t] # Idle
           /\ thread'[t].queue = queue /\ thread'[t].info = info
<1> DEFINE x == [thread[t] EXCEPT !.pc = "use", !.queue = queue, !.info = info]
<1>1. thread[t] \in ThreadStates
  BY DEF TypesInv
<1>2. /\ x \in ThreadStates /\ x.pc = "use" /\ x.job = thread[t].job
      /\ x.next = thread[t].next
      /\ x.message = thread[t].message /\ x.queue = queue /\ x.info = info
  BY <1>1 DEF ThreadStates, PCs
<1>3. thread' = [thread EXCEPT ![t] = x]
  BY DEF Got
<1> HIDE DEF x
<1>4. /\ thread' \in [Threads -> ThreadStates] /\ thread'[t] = x
      /\ \A u \in Threads \ {t} : thread'[u] = thread[u]
  BY <1>2, <1>3 DEF TypesInv
<1> QED
  BY <1>2, <1>4, IdleState DEF Keeps, OthersStay

\* A thread that a step leaves alone keeps what it holds.
LEMMA HoldsFrame ==
    ASSUME NEW t, Holds(t), thread'[t] = thread[t],
           static # 0 => static' # 0,
           DOMAIN queues \subseteq DOMAIN queues', DOMAIN infos \subseteq DOMAIN infos'
    PROVE  Holds(t)'
<1>1. /\ thread'[t].pc = "idle" => thread'[t] = Idle
      /\ thread'[t] # Idle => thread'[t].job \in Jobs
  BY DEF Holds
<1>2. /\ thread'[t].pc \in {"lookup", "create", "use"} => static' # 0
      /\ thread'[t].pc \in {"create", "use"} => thread'[t].queue \in DOMAIN queues'
      /\ thread'[t].pc = "use" => thread'[t].info \in DOMAIN infos'
  BY DEF Holds
<1>3. thread'[t].pc = "count" \/ thread'[t].next = "end" => thread'[t].message \in Messages
  BY DEF Holds
<1>4. /\ t = Listener /\ thread'[t] # Idle =>
            thread'[t].next = "terminate" /\ thread'[t].pc \notin {"handle", "count"}
      /\ t \in Workers => thread'[t].next # "terminate"
      /\ thread'[t].pc \in {"handle", "count"} => thread'[t].next = "add"
  BY DEF Holds
<1> QED
  BY <1>1, <1>2, <1>3, <1>4 DEF Holds

\* The places of a session in the queue that get_elem searches, and the first of them.
LEMMA PlacesFacts ==
    ASSUME TypesInv, static # 0, NEW s
    PROVE  /\ static \in DOMAIN queues /\ queues[static] \in Seq(Nat)
           /\ DOMAIN queues[static] = 1..Len(queues[static])
           /\ Places(queues[static], s) \subseteq DOMAIN queues[static]
           /\ Places(queues[static], s) # {} =>
                Min(Places(queues[static], s)) \in Places(queues[static], s)
<1>1. static \in DOMAIN queues /\ queues[static] \in Seq(Nat)
  BY LenProperties, ElementOfSeq DEF TypesInv
<1>2. DOMAIN queues[static] = 1..Len(queues[static]) /\ Len(queues[static]) \in Nat
  BY <1>1, LenProperties
<1>3. Places(queues[static], s) \subseteq DOMAIN queues[static]
  BY DEF Places
<1>4. Places(queues[static], s) \in SUBSET Nat
  BY <1>2, <1>3
<1> QED
  BY <1>1, <1>2, <1>3, <1>4, MinProperties
-----------------------------------------------------------------------------
(* The types, step by step.                                                *)

LEMMA InitTypes == Init => TypesInv
<1> SUFFICES ASSUME Init PROVE TypesInv
  OBVIOUS
<1>1. <<>> \in Seq(Jobs) /\ <<>> \in Seq(Seq(Nat)) /\ <<>> \in Seq(Infos)
      /\ <<>> \in Seq(Messages) /\ Len(<<>>) = 0 /\ DOMAIN <<>> = {}
  BY EmptySeq
<1>2. thread \in [Threads -> ThreadStates] /\ \A t \in Threads : thread[t] = Idle
  BY IdleState DEF Init
<1>3. \A t \in Threads : Holds(t)
  BY <1>2, IdleState DEF Holds
<1> QED
  BY <1>1, <1>2, <1>3, NdmpMessagesAssumption DEF Init, TypesInv

\* get_session_queue and get_session_info leave everything but their own variables.
LEMMA SessionsTypes ==
    ASSUME TypesInv, NEW t \in Threads, OnlySessions, OthersStay(t),
           thread' \in [Threads -> ThreadStates], Holds(t)',
           queues' \in Seq(Seq(Nat)), infos' \in Seq(Infos), static' \in 0..Len(queues'),
           static # 0 => static' # 0,
           DOMAIN queues \subseteq DOMAIN queues', DOMAIN infos \subseteq DOMAIN infos',
           \A q \in DOMAIN queues' : \A i \in DOMAIN queues'[q] :
                queues'[q][i] \in DOMAIN infos'
    PROVE  TypesInv'
<1>1. \A u \in Threads \ {t} : Holds(u)'
  BY HoldsFrame DEF OthersStay, TypesInv
<1> QED
  BY <1>1 DEF TypesInv, OnlySessions, clientVars

LEMMA TestQueueTypes ==
    ASSUME TypesInv, NEW t \in Threads, TestQueue(t)
    PROVE  TypesInv'
<1>1. PICK pc \in {"make", "lookup"} :
        Goto(t, pc) /\ (pc = "lookup" => static # 0) /\ UNCHANGED sessionVars
  BY DEF TestQueue
<1>2. /\ thread' \in [Threads -> ThreadStates] /\ OthersStay(t) /\ Keeps(t)
      /\ thread'[t].pc = pc /\ thread'[t] # Idle
  BY <1>1, GotoMoves DEF PCs
<1>3. thread[t].pc = "test" /\ thread[t] # Idle /\ Holds(t)
  BY ThreadFacts DEF TestQueue
<1>4. Holds(t)'
  BY <1>1, <1>2, <1>3 DEF Holds, Keeps, sessionVars
<1> QED
  BY <1>1, <1>2, <1>4, SessionsTypes DEF TestQueue, sessionVars, TypesInv

LEMMA MakeQueueTypes ==
    ASSUME TypesInv, NEW t \in Threads, MakeQueue(t)
    PROVE  TypesInv'
<1>1. /\ thread' \in [Threads -> ThreadStates] /\ OthersStay(t) /\ Keeps(t)
      /\ thread'[t].pc = "lookup" /\ thread'[t] # Idle
  BY GotoMoves DEF MakeQueue, PCs
<1>2. thread[t].pc = "make" /\ thread[t] # Idle /\ Holds(t)
  BY ThreadFacts DEF MakeQueue
<1>3. /\ queues' \in Seq(Seq(Nat)) /\ Len(queues') = Len(queues) + 1
      /\ DOMAIN queues = 1..Len(queues) /\ DOMAIN queues' = 1..(Len(queues) + 1)
      /\ \A q \in 1..Len(queues) : queues'[q] = queues[q]
      /\ queues'[Len(queues) + 1] = <<>> /\ Len(queues) \in Nat
  <2>1. <<>> \in Seq(Nat) /\ queues \in Seq(Seq(Nat))
    BY EmptySeq DEF TypesInv
  <2> QED
    BY <2>1, AppendProperties, LenProperties DEF MakeQueue
<1>4. static' = Len(queues) + 1 /\ static' \in 0..Len(queues') /\ static' # 0
  BY <1>3 DEF MakeQueue
<1>5. Holds(t)'
  BY <1>1, <1>2, <1>4 DEF Holds, Keeps
<1>6. \A q \in DOMAIN queues' : \A i \in DOMAIN queues'[q] : queues'[q][i] \in DOMAIN infos'
  <2>1. \A q \in DOMAIN queues' : q \in 1..Len(queues) \/ q = Len(queues) + 1
    BY <1>3
  <2>2. DOMAIN <<>> = {}
    OBVIOUS
  <2>3. infos' = infos
    BY DEF MakeQueue
  <2> QED
    BY <1>3, <2>1, <2>2, <2>3 DEF TypesInv
<1>7. DOMAIN queues \subseteq DOMAIN queues' /\ infos' = infos /\ infos \in Seq(Infos)
  BY <1>3 DEF MakeQueue, TypesInv
<1>8. OnlySessions
  BY DEF MakeQueue
<1> QED
  BY <1>1, <1>3, <1>4, <1>5, <1>6, <1>7, <1>8, SessionsTypes

\* What the listing of a lookup means: an info of the session, or none.
LEMMA LookupMoves ==
    ASSUME TypesInv, NEW t \in Threads, Lookup(t)
    PROVE  /\ thread[t].pc = "lookup" /\ thread[t] # Idle /\ Holds(t) /\ static # 0
           /\ thread' \in [Threads -> ThreadStates] /\ OthersStay(t) /\ Keeps(t)
           /\ thread'[t] # Idle
           /\ \/ /\ Places(queues[static], thread[t].job.session) = {}
                 /\ thread'[t].pc = "create" /\ thread'[t].queue = static
              \/ \E i \in Places(queues[static], thread[t].job.session) :
                 /\ thread'[t].pc = "use" /\ thread'[t].queue = static
                 /\ thread'[t].info = queues[static][i]
<1> DEFINE places == Places(queues[static], thread[t].job.session)
<1>1. thread[t].pc = "lookup" /\ thread[t] # Idle /\ Holds(t)
  BY ThreadFacts DEF Lookup
<1>2. static # 0 /\ static \in Nat
  BY <1>1, LenProperties DEF Holds, TypesInv
<1>3. CASE places = {}
  <2>1. thread' = [thread EXCEPT ![t].pc = "create", ![t].queue = static]
    BY <1>3 DEF Lookup
  <2> DEFINE x == [thread[t] EXCEPT !.pc = "create", !.queue = static]
  <2>2. thread[t] \in ThreadStates
    BY DEF TypesInv
  <2>3. /\ x \in ThreadStates /\ x.pc = "create" /\ x.job = thread[t].job
        /\ x.next = thread[t].next /\ x.message = thread[t].message /\ x.queue = static
    BY <1>2, <2>2 DEF ThreadStates, PCs
  <2>4. thread' = [thread EXCEPT ![t] = x]
    BY <2>1
  <2> HIDE DEF x
  <2>5. /\ thread' \in [Threads -> ThreadStates] /\ thread'[t] = x
        /\ \A u \in Threads \ {t} : thread'[u] = thread[u]
    BY <2>3, <2>4 DEF TypesInv
  <2> QED
    BY <1>1, <1>2, <1>3, <2>3, <2>5, IdleState DEF Keeps, OthersStay
<1>4. CASE places # {}
  <2>1. PICK i \in places : Got(t, static, queues[static][i])
    BY <1>2, <1>4, PlacesFacts DEF Lookup
  <2>2. queues[static][i] \in Nat
    BY <1>2, <2>1, PlacesFacts, ElementOfSeq
  <2> HIDE DEF places
  <2>3. /\ thread' \in [Threads -> ThreadStates] /\ OthersStay(t) /\ Keeps(t)
        /\ thread'[t].pc = "use" /\ thread'[t] # Idle
        /\ thread'[t].queue = static /\ thread'[t].info = queues[static][i]
    BY <1>2, <2>1, <2>2, GotMoves
  <2> QED
    BY <1>1, <1>2, <2>1, <2>3 DEF places
<1> QED
  BY <1>3, <1>4

LEMMA LookupTypes ==
    ASSUME TypesInv, NEW t \in Threads, Lookup(t)
    PROVE  TypesInv'
<1>1. /\ thread[t].pc = "lookup" /\ thread[t] # Idle /\ Holds(t) /\ static # 0
      /\ thread' \in [Threads -> ThreadStates] /\ OthersStay(t) /\ Keeps(t)
      /\ thread'[t] # Idle /\ thread'[t].pc \in {"create", "use"}
      /\ thread'[t].queue = static
  BY LookupMoves
<1>2. static \in DOMAIN queues
  BY <1>1, PlacesFacts
<1>3. thread'[t].pc = "use" => thread'[t].info \in DOMAIN infos
  <2>1. ASSUME thread'[t].pc = "use"
        PROVE  \E i \in DOMAIN queues[static] : thread'[t].info = queues[static][i]
    BY <1>1, <2>1, LookupMoves, PlacesFacts
  <2> QED
    BY <1>2, <2>1 DEF TypesInv
<1>4. UNCHANGED <<static, queues, infos>>
  BY DEF Lookup, sessionVars
<1>5. Holds(t)'
  BY <1>1, <1>2, <1>3, <1>4 DEF Holds, Keeps
<1> QED
  BY <1>1, <1>4, <1>5, SessionsTypes DEF Lookup, TypesInv

\* A new info, behind the others, and in the queue that was searched.
NewInfo(s) == [session |-> s, terminated |-> FALSE, jobs |-> {}, removed |-> FALSE]
LEMMA CreateMoves ==
    ASSUME TypesInv, NEW t \in Threads, Create(t)
    PROVE  /\ thread[t].pc = "create" /\ thread[t] # Idle /\ Holds(t)
           /\ thread[t].queue \in DOMAIN queues /\ Len(infos) \in Nat
           /\ thread' \in [Threads -> ThreadStates] /\ OthersStay(t) /\ Keeps(t)
           /\ thread'[t] # Idle /\ thread'[t].pc = "use"
           /\ thread'[t].queue = thread[t].queue /\ thread'[t].info = Len(infos) + 1
           /\ infos' \in Seq(Infos)
           /\ DOMAIN infos = 1..Len(infos) /\ DOMAIN infos' = 1..(Len(infos) + 1)
           /\ \A i \in DOMAIN infos : infos'[i] = infos[i]
           /\ infos'[Len(infos) + 1] = NewInfo(thread[t].job.session)
           /\ queues' = [queues EXCEPT ![thread[t].queue] = Append(@, Len(infos) + 1)]
<1>1. /\ thread[t].pc = "create" /\ thread[t] # Idle /\ Holds(t)
      /\ thread[t].queue \in DOMAIN queues /\ thread[t].job \in Jobs
  BY ThreadFacts DEF Create, Holds
<1>2. infos \in Seq(Infos) /\ Len(infos) \in Nat /\ DOMAIN infos = 1..Len(infos)
  BY LenProperties DEF TypesInv
<1>3. thread[t].queue \in Nat
  BY ThreadFacts DEF ThreadStates
<1>4. NewInfo(thread[t].job.session) \in Infos
  BY <1>1, NdmpMessagesAssumption DEF Jobs, Infos, NewInfo
<1>5. infos' = Append(infos, NewInfo(thread[t].job.session))
  BY DEF Create, NewInfo
<1>6. /\ infos' \in Seq(Infos) /\ DOMAIN infos' = 1..(Len(infos) + 1)
      /\ \A i \in 1..Len(infos) : infos'[i] = infos[i]
      /\ infos'[Len(infos) + 1] = NewInfo(thread[t].job.session)
  BY <1>2, <1>4, <1>5, AppendProperties, LenProperties
<1>7. Got(t, thread[t].queue, Len(infos) + 1) /\ Len(infos) + 1 \in Nat
  BY <1>2 DEF Create
<1>8. /\ thread' \in [Threads -> ThreadStates] /\ OthersStay(t) /\ Keeps(t)
      /\ thread'[t].pc = "use" /\ thread'[t] # Idle
      /\ thread'[t].queue = thread[t].queue /\ thread'[t].info = Len(infos) + 1
  BY <1>3, <1>7, GotMoves
<1>9. queues' = [queues EXCEPT ![thread[t].queue] = Append(@, Len(infos) + 1)]
  BY DEF Create
<1> QED
  BY <1>1, <1>2, <1>6, <1>8, <1>9

\* The queues, when one of them is replaced.
LEMMA QueueReplaced ==
    ASSUME NEW qs \in Seq(Seq(Nat)), NEW q \in DOMAIN qs, NEW r \in Seq(Nat),
           NEW new, new = [qs EXCEPT ![q] = r]
    PROVE  /\ new \in Seq(Seq(Nat)) /\ Len(new) = Len(qs) /\ DOMAIN new = DOMAIN qs
           /\ new[q] = r /\ \A p \in DOMAIN qs \ {q} : new[p] = qs[p]
<1>1. q \in 1..Len(qs) /\ DOMAIN qs = 1..Len(qs)
  BY LenProperties
<1>2. new \in Seq(Seq(Nat)) /\ Len(new) = Len(qs)
  BY <1>1, ExceptSeq
<1>3. DOMAIN new = DOMAIN qs /\ new[q] = r /\ \A p \in DOMAIN qs \ {q} : new[p] = qs[p]
  OBVIOUS
<1> QED
  BY <1>2, <1>3

LEMMA CreateTypes ==
    ASSUME TypesInv, NEW t \in Threads, Create(t)
    PROVE  TypesInv'
<1>1. /\ thread[t].pc = "create" /\ thread[t] # Idle /\ Holds(t)
      /\ thread[t].queue \in DOMAIN queues /\ Len(infos) \in Nat
      /\ thread' \in [Threads -> ThreadStates] /\ OthersStay(t) /\ Keeps(t)
      /\ thread'[t] # Idle /\ thread'[t].pc = "use"
      /\ thread'[t].queue = thread[t].queue /\ thread'[t].info = Len(infos) + 1
      /\ infos' \in Seq(Infos)
      /\ DOMAIN infos = 1..Len(infos) /\ DOMAIN infos' = 1..(Len(infos) + 1)
      /\ queues' = [queues EXCEPT ![thread[t].queue] = Append(@, Len(infos) + 1)]
  BY CreateMoves
<1> DEFINE r == Append(queues[thread[t].queue], Len(infos) + 1)
<1>2. queues \in Seq(Seq(Nat)) /\ queues[thread[t].queue] \in Seq(Nat)
  BY <1>1, ElementOfSeq, LenProperties DEF TypesInv
<1>3. /\ r \in Seq(Nat) /\ DOMAIN queues[thread[t].queue] = 1..Len(queues[thread[t].queue])
      /\ DOMAIN r = 1..(Len(queues[thread[t].queue]) + 1)
      /\ Len(queues[thread[t].queue]) \in Nat
      /\ \A i \in 1..Len(queues[thread[t].queue]) : r[i] = queues[thread[t].queue][i]
      /\ r[Len(queues[thread[t].queue]) + 1] = Len(infos) + 1
  BY <1>1, <1>2, AppendProperties, LenProperties
<1>4. queues' = [queues EXCEPT ![thread[t].queue] = r]
  BY <1>1
<1> HIDE DEF r
<1>5. /\ queues' \in Seq(Seq(Nat)) /\ Len(queues') = Len(queues)
      /\ DOMAIN queues' = DOMAIN queues /\ queues'[thread[t].queue] = r
      /\ \A p \in DOMAIN queues \ {thread[t].queue} : queues'[p] = queues[p]
  <2>1. thread[t].queue \in DOMAIN queues /\ queues \in Seq(Seq(Nat)) /\ r \in Seq(Nat)
    BY <1>1, <1>2, <1>3
  <2> QED
    BY <1>4, <2>1, QueueReplaced
<1>6. \A i \in DOMAIN r : r[i] \in DOMAIN infos'
  <2>1. \A i \in DOMAIN r :
            i \in 1..Len(queues[thread[t].queue]) \/ i = Len(queues[thread[t].queue]) + 1
    BY <1>3
  <2>2. \A i \in 1..Len(queues[thread[t].queue]) : r[i] \in DOMAIN infos
    BY <1>1, <1>3 DEF TypesInv
  <2>3. Len(infos) + 1 \in DOMAIN infos' /\ DOMAIN infos \subseteq DOMAIN infos'
    BY <1>1
  <2> QED
    BY <1>3, <2>1, <2>2, <2>3
<1>7. DOMAIN infos \subseteq DOMAIN infos' /\ Len(infos) + 1 \in DOMAIN infos'
  BY <1>1
<1>8. \A q \in DOMAIN queues' : \A i \in DOMAIN queues'[q] : queues'[q][i] \in DOMAIN infos'
  BY <1>1, <1>5, <1>6, <1>7 DEF TypesInv
<1>9. static' = static
  BY DEF Create
<1>10. Holds(t)'
  BY <1>1, <1>5, <1>7, <1>9 DEF Holds, Keeps
<1> QED
  BY <1>1, <1>5, <1>7, <1>8, <1>9, <1>10, SessionsTypes DEF Create, TypesInv
\* The thread that moves and the others.
LEMMA ThreadSet ==
    ASSUME TypesInv, NEW t \in Threads, NEW x \in ThreadStates,
           thread' = [thread EXCEPT ![t] = x]
    PROVE  thread' \in [Threads -> ThreadStates] /\ thread'[t] = x /\ OthersStay(t)
BY DEF TypesInv, OthersStay

LEMMA AllHold ==
    ASSUME TypesInv, NEW t \in Threads, OthersStay(t), Holds(t)', static' = static,
           DOMAIN queues' = DOMAIN queues, DOMAIN infos' = DOMAIN infos
    PROVE  \A u \in Threads : Holds(u)'
BY HoldsFrame DEF OthersStay, TypesInv

\* An info that is changed in place.
LEMMA InfoReplaced ==
    ASSUME TypesInv, NEW i \in DOMAIN infos, NEW y \in Infos,
           infos' = [infos EXCEPT ![i] = y]
    PROVE  /\ infos' \in Seq(Infos) /\ DOMAIN infos' = DOMAIN infos /\ infos'[i] = y
           /\ \A j \in DOMAIN infos \ {i} : infos'[j] = infos[j]
<1>1. i \in 1..Len(infos) /\ DOMAIN infos = 1..Len(infos) /\ infos \in Seq(Infos)
  BY LenProperties DEF TypesInv
<1>2. infos' \in Seq(Infos)
  BY <1>1, ExceptSeq
<1> QED
  BY <1>2

LEMMA InfoFacts ==
    ASSUME TypesInv, NEW i \in DOMAIN infos
    PROVE  infos[i] \in Infos
BY ElementOfSeq, LenProperties DEF TypesInv

\* What clients do, and the jobs they queue.
LEMMA JobQueued ==
    ASSUME TypesInv, NEW s \in Sessions, NEW n \in 0..MaxRequests,
           NEW op \in Requests \cup {Notify}, QueueJob(s, n, op)
    PROVE  /\ jobs' \in Seq(Jobs) /\ Len(jobs) \in Nat
           /\ DOMAIN jobs = 1..Len(jobs) /\ DOMAIN jobs' = 1..(Len(jobs) + 1)
           /\ \A i \in DOMAIN jobs : jobs'[i] = jobs[i]
           /\ jobs'[Len(jobs) + 1] = [session |-> s, num |-> n, op |-> op]
<1>1. [session |-> s, num |-> n, op |-> op] \in Jobs
  BY DEF Jobs
<1>2. jobs \in Seq(Jobs)
  BY DEF TypesInv
<1>3. jobs' = Append(jobs, [session |-> s, num |-> n, op |-> op])
  BY DEF QueueJob
<1> QED
  BY <1>1, <1>2, <1>3, AppendProperties, LenProperties

LEMMA ClientTypes ==
    ASSUME TypesInv, NEW s \in Sessions,
           Connect(s) \/ HangUp(s) \/ \E op \in Requests : Send(s, op)
    PROVE  TypesInv'
<1>1. UNCHANGED <<host, alive, leaked, static, queues, infos, number, thread, delivered,
                  outstanding>>
  BY DEF Connect, HangUp, Send, sessionVars
<1>2. \A t \in Threads : Holds(t)'
  BY <1>1, HoldsFrame DEF TypesInv
<1>3. CASE Connect(s)
  <2>1. jobs' \in Seq(Jobs) /\ sent' = sent
    <3>1. 0 \in 0..MaxRequests /\ Notify \in Requests \cup {Notify}
      BY NdmpMessagesAssumption
    <3>2. QueueJob(s, 0, Notify) /\ sent' = sent
      BY <1>3 DEF Connect
    <3> QED
      BY <3>1, <3>2, JobQueued
  <2>2. client' \in [Sessions -> {"none", "up", "gone", "seen"}]
    BY <1>3 DEF Connect, TypesInv
  <2> QED
    BY <1>1, <1>2, <2>1, <2>2 DEF TypesInv
<1>4. CASE HangUp(s)
  <2>1. client' \in [Sessions -> {"none", "up", "gone", "seen"}] /\ UNCHANGED <<sent, jobs>>
    BY <1>4 DEF HangUp, TypesInv
  <2> QED
    BY <1>1, <1>2, <2>1 DEF TypesInv
<1>5. ASSUME NEW op \in Requests, Send(s, op) PROVE TypesInv'
  <2>1. sent[s] + 1 \in 0..MaxRequests
    BY <1>5, NdmpMessagesAssumption DEF Send, TypesInv
  <2>2. jobs' \in Seq(Jobs)
    BY <1>5, <2>1, JobQueued DEF Send
  <2>3. sent' \in [Sessions -> 0..MaxRequests] /\ client' = client
    BY <1>5, <2>1 DEF Send, TypesInv
  <2> QED
    BY <1>1, <1>2, <2>2, <2>3 DEF TypesInv
<1> QED
  BY <1>3, <1>4, <1>5

LEMMA TakeMoves ==
    ASSUME TypesInv, NEW w \in Workers, Take(w)
    PROVE  /\ jobs \in Seq(Jobs) /\ jobs # <<>> /\ jobs' = Tail(jobs) /\ jobs[1] \in Jobs
           /\ thread[w] = Idle /\ w \in Threads
           /\ thread' \in [Threads -> ThreadStates] /\ OthersStay(w)
           /\ thread'[w].pc = "test" /\ thread'[w].next = "add" /\ thread'[w].job = jobs[1]
           /\ thread'[w] # Idle
<1>1. jobs \in Seq(Jobs) /\ jobs # <<>> /\ Head(jobs) \in Jobs /\ Head(jobs) = jobs[1]
  BY TailProperties DEF Take, TypesInv
<1> DEFINE x == [thread[w] EXCEPT !.pc = "test", !.next = "add", !.job = Head(jobs)]
<1>2. w \in Threads /\ thread[w] \in ThreadStates
  BY DEF TypesInv, Threads
<1>3. x \in ThreadStates /\ x.pc = "test" /\ x.next = "add" /\ x.job = Head(jobs)
  BY <1>1, <1>2 DEF ThreadStates, PCs
<1>4. thread' = [thread EXCEPT ![w] = x]
  BY DEF Take
<1> HIDE DEF x
<1>5. thread' \in [Threads -> ThreadStates] /\ thread'[w] = x /\ OthersStay(w)
  BY <1>2, <1>3, <1>4, ThreadSet
<1> QED
  BY <1>1, <1>2, <1>3, <1>5, IdleState DEF Take

LEMMA TakeTypes ==
    ASSUME TypesInv, NEW w \in Workers, Take(w)
    PROVE  TypesInv'
<1>1. /\ jobs \in Seq(Jobs) /\ jobs # <<>> /\ jobs' = Tail(jobs) /\ jobs[1] \in Jobs
      /\ w \in Threads
      /\ thread' \in [Threads -> ThreadStates] /\ OthersStay(w)
      /\ thread'[w].pc = "test" /\ thread'[w].next = "add" /\ thread'[w].job = jobs[1]
      /\ thread'[w] # Idle
  BY TakeMoves
<1>2. UNCHANGED <<alive, host, leaked, client, sent, static, queues, infos, number,
                  delivered, outstanding>>
  BY DEF Take, sessionVars, clientVars
<1>3. Holds(w)'
  BY <1>1, NdmpMessagesAssumption DEF Holds
<1>4. \A t \in Threads : Holds(t)'
  BY <1>1, <1>2, <1>3, AllHold
<1>5. jobs' \in Seq(Jobs)
  BY <1>1, TailProperties
<1> QED
  BY <1>1, <1>2, <1>4, <1>5 DEF TypesInv

LEMMA AddJobMoves ==
    ASSUME TypesInv, NEW w \in Workers, AddJob(w)
    PROVE  /\ w \in Threads /\ thread[w].pc = "use" /\ thread[w].next = "add"
           /\ thread[w] # Idle /\ thread[w].job \in Jobs /\ thread[w].info \in DOMAIN infos
           /\ thread' \in [Threads -> ThreadStates] /\ OthersStay(w) /\ Keeps(w)
           /\ thread'[w].pc = "handle" /\ thread'[w] # Idle
           /\ infos' \in Seq(Infos) /\ DOMAIN infos' = DOMAIN infos
           /\ infos'[thread[w].info] =
                [infos[thread[w].info] EXCEPT !.jobs = @ \cup {thread[w].job.num}]
           /\ \A j \in DOMAIN infos \ {thread[w].info} : infos'[j] = infos[j]
<1>1. /\ w \in Threads /\ thread[w].pc = "use" /\ thread[w].next = "add"
      /\ thread[w] \in ThreadStates
      /\ thread[w] # Idle /\ thread[w].job \in Jobs /\ thread[w].info \in DOMAIN infos
  BY ThreadFacts DEF AddJob, Uses, Threads, Holds
<1> DEFINE x == [thread[w] EXCEPT !.pc = "handle", !.queue = 0, !.info = 0]
           y == [infos[thread[w].info] EXCEPT !.jobs = @ \cup {thread[w].job.num}]
<1>2. /\ x \in ThreadStates /\ x.pc = "handle" /\ x.next = thread[w].next
      /\ x.job = thread[w].job /\ x.message = thread[w].message
  BY <1>1 DEF ThreadStates, PCs
<1>3. y \in Infos
  BY <1>1, InfoFacts DEF Infos, Jobs
<1>4. thread' = [thread EXCEPT ![w] = x] /\ infos' = [infos EXCEPT ![thread[w].info] = y]
  BY DEF AddJob
<1> HIDE DEF x, y
<1>5. thread' \in [Threads -> ThreadStates] /\ thread'[w] = x /\ OthersStay(w)
  BY <1>1, <1>2, <1>4, ThreadSet
<1>6. /\ infos' \in Seq(Infos) /\ DOMAIN infos' = DOMAIN infos
      /\ infos'[thread[w].info] = y
      /\ \A j \in DOMAIN infos \ {thread[w].info} : infos'[j] = infos[j]
  BY <1>1, <1>3, <1>4, InfoReplaced
<1> QED
  BY <1>1, <1>2, <1>5, <1>6, IdleState DEF Keeps, y

LEMMA AddJobTypes ==
    ASSUME TypesInv, NEW w \in Workers, AddJob(w)
    PROVE  TypesInv'
<1>1. /\ w \in Threads /\ thread[w].next = "add"
      /\ thread[w] # Idle /\ thread[w].job \in Jobs
      /\ thread' \in [Threads -> ThreadStates] /\ OthersStay(w) /\ Keeps(w)
      /\ thread'[w].pc = "handle" /\ thread'[w] # Idle
      /\ infos' \in Seq(Infos) /\ DOMAIN infos' = DOMAIN infos
  BY AddJobMoves
<1>2. UNCHANGED <<alive, host, leaked, client, sent, jobs, static, queues, number,
                  delivered, outstanding>>
  BY DEF AddJob, OnlySessions, clientVars
<1>3. Holds(w)'
  BY <1>1, NdmpMessagesAssumption DEF Holds, Keeps
<1>4. \A t \in Threads : Holds(t)'
  BY <1>1, <1>2, <1>3, AllHold
<1> QED
  BY <1>1, <1>2, <1>4 DEF TypesInv

\* Whatever the handler answers, its message has the number that was read.
LEMMA HandleMoves ==
    ASSUME TypesInv, NEW w \in Workers, Handle(w)
    PROVE  /\ w \in Threads /\ thread[w].pc = "handle" /\ thread[w].next = "add"
           /\ thread[w] # Idle /\ thread[w].job \in Jobs
           /\ thread' \in [Threads -> ThreadStates] /\ OthersStay(w)
           /\ thread'[w].job = thread[w].job /\ thread'[w].next = "add"
           /\ thread'[w].pc = "count" /\ thread'[w] # Idle
           /\ thread'[w].message \in Messages
           /\ thread'[w].message.sequence = number
           /\ thread'[w].message.replySequence = thread[w].job.num
<1>1. /\ w \in Threads /\ thread[w].pc = "handle" /\ thread[w].next = "add"
      /\ thread[w] \in ThreadStates /\ thread[w] # Idle /\ thread[w].job \in Jobs
  BY ThreadFacts DEF Handle, Threads, Holds
<1>2. PICK answer \in Outcomes(thread[w].job) :
        thread' = [thread EXCEPT
            ![w].pc = "count",
            ![w].message = [op |-> thread[w].job.op, sequence |-> number,
                            replySequence |-> thread[w].job.num, answer |-> answer]]
  BY DEF Handle
<1>3. answer \in Replies
  <2>1. CASE thread[w].job.op = Notify
    BY <1>2, <2>1 DEF Outcomes, Replies
  <2>2. CASE thread[w].job.op # Notify
    <3>1. thread[w].job.op \in Requests /\ leaked \in 0..MaxStreams /\ host \in Hosts
      BY <1>1, <2>2 DEF Jobs, TypesInv
    <3>2. answer \in Answers(thread[w].job.op, host, leaked < MaxStreams)
      BY <1>2, <2>2 DEF Outcomes
    <3>3. answer \in HostReplies(thread[w].job.op, host)
      BY <3>1, <3>2, Zenon DEF HostReplies
    <3>4. answer \in HandlerReplies(thread[w].job.op)
      BY <3>1, <3>3, Zenon DEF HandlerReplies
    <3> QED
      BY <3>1, <3>4, Zenon DEF Replies
  <2> QED
    BY <2>1, <2>2
<1> DEFINE m == [op |-> thread[w].job.op, sequence |-> number,
                 replySequence |-> thread[w].job.num, answer |-> answer]
           x == [thread[w] EXCEPT !.pc = "count", !.message = m]
<1>4. /\ m \in Messages /\ m.sequence = number /\ m.replySequence = thread[w].job.num
  BY <1>1, <1>3 DEF Messages, Jobs, TypesInv
<1>5. thread' = [thread EXCEPT ![w] = x]
  BY <1>2
<1> HIDE DEF m
<1>6. /\ x \in ThreadStates /\ x.pc = "count" /\ x.next = thread[w].next
      /\ x.job = thread[w].job /\ x.message = m
  BY <1>1, <1>4 DEF ThreadStates, PCs
<1> HIDE DEF x
<1>7. thread' \in [Threads -> ThreadStates] /\ thread'[w] = x /\ OthersStay(w)
  BY <1>1, <1>5, <1>6, ThreadSet
<1> QED
  BY <1>1, <1>4, <1>6, <1>7, IdleState

LEMMA HandleTypes ==
    ASSUME TypesInv, NEW w \in Workers, Handle(w)
    PROVE  TypesInv'
<1>1. /\ w \in Threads /\ thread[w].job \in Jobs
      /\ thread' \in [Threads -> ThreadStates] /\ OthersStay(w)
      /\ thread'[w].job = thread[w].job /\ thread'[w].next = "add"
      /\ thread'[w].pc = "count" /\ thread'[w] # Idle
      /\ thread'[w].message \in Messages
  BY HandleMoves
<1>2. UNCHANGED <<host, client, sent, jobs, static, queues, infos, number, delivered,
                  outstanding>> /\ alive' \in BOOLEAN
  BY DEF Handle, sessionVars, clientVars
<1>3. leaked' \in 0..MaxStreams
  BY NdmpMessagesAssumption DEF Handle, TypesInv
<1>4. Holds(w)'
  BY <1>1, NdmpMessagesAssumption DEF Holds
<1>5. \A t \in Threads : Holds(t)'
  BY <1>1, <1>2, <1>4, AllHold
<1> QED
  BY <1>1, <1>2, <1>3, <1>5 DEF TypesInv

LEMMA CountMoves ==
    ASSUME TypesInv, NEW w \in Workers, Count(w)
    PROVE  /\ w \in Threads /\ thread[w].pc = "count" /\ thread[w].message \in Messages
           /\ thread[w] # Idle /\ thread[w].job \in Jobs
           /\ thread' \in [Threads -> ThreadStates] /\ OthersStay(w)
           /\ thread'[w].job = thread[w].job /\ thread'[w].next = "end"
           /\ thread'[w].message = thread[w].message
           /\ thread'[w].pc = "test" /\ thread'[w] # Idle
           /\ number' = thread[w].message.sequence + 1
<1>1. /\ w \in Threads /\ thread[w].pc = "count" /\ thread[w].message \in Messages
      /\ thread[w] \in ThreadStates /\ thread[w] # Idle /\ thread[w].job \in Jobs
  BY ThreadFacts DEF Count, Threads, Holds
<1> DEFINE x == [thread[w] EXCEPT !.pc = "test", !.next = "end"]
<1>2. /\ x \in ThreadStates /\ x.pc = "test" /\ x.next = "end"
      /\ x.job = thread[w].job /\ x.message = thread[w].message
  BY <1>1 DEF ThreadStates, PCs
<1>3. thread' = [thread EXCEPT ![w] = x]
  BY DEF Count
<1> HIDE DEF x
<1>4. thread' \in [Threads -> ThreadStates] /\ thread'[w] = x /\ OthersStay(w)
  BY <1>1, <1>2, <1>3, ThreadSet
<1> QED
  BY <1>1, <1>2, <1>4, IdleState DEF Count

LEMMA CountTypes ==
    ASSUME TypesInv, NEW w \in Workers, Count(w)
    PROVE  TypesInv'
<1>1. /\ w \in Threads /\ thread[w].job \in Jobs /\ thread[w].message \in Messages
      /\ thread' \in [Threads -> ThreadStates] /\ OthersStay(w)
      /\ thread'[w].job = thread[w].job /\ thread'[w].next = "end"
      /\ thread'[w].message = thread[w].message
      /\ thread'[w].pc = "test" /\ thread'[w] # Idle
      /\ number' = thread[w].message.sequence + 1
  BY CountMoves
<1>2. UNCHANGED <<alive, host, leaked, client, sent, jobs, static, queues, infos,
                  delivered, outstanding>>
  BY DEF Count, sessionVars, clientVars
<1>3. number' \in Nat \ {0}
  BY <1>1 DEF Messages
<1>4. Holds(w)'
  BY <1>1, NdmpMessagesAssumption DEF Holds
<1>5. \A t \in Threads : Holds(t)'
  BY <1>1, <1>2, <1>4, AllHold
<1> QED
  BY <1>1, <1>2, <1>3, <1>5 DEF TypesInv
\* cleanup_session changes the info it found, and takes at most one info, the first
\* of the session, out of the queue.
LEMMA EndJobMoves ==
    ASSUME TypesInv, NEW w \in Workers, EndJob(w)
    PROVE  LET s == thread[w].job.session
               info == thread[w].info
               left == infos[info].jobs \ {thread[w].job.num}
               ends == infos[info].terminated /\ left = {}
           IN
           /\ w \in Threads /\ thread[w].pc = "use" /\ thread[w].next = "end"
           /\ thread[w] # Idle /\ thread[w].job \in Jobs /\ s \in Sessions
           /\ thread[w].message \in Messages /\ static # 0
           /\ thread' \in [Threads -> ThreadStates] /\ OthersStay(w) /\ thread'[w] = Idle
           /\ info \in DOMAIN infos
           /\ infos' \in Seq(Infos) /\ DOMAIN infos' = DOMAIN infos
           /\ infos'[info] = [infos[info] EXCEPT !.jobs = left, !.removed = ends]
           /\ \A j \in DOMAIN infos \ {info} : infos'[j] = infos[j]
           /\ \/ queues' = queues /\ (ends => Places(queues[static], s) = {})
              \/ /\ ends
                 /\ \E i \in Places(queues[static], s) :
                        queues' = [queues EXCEPT ![static] = RemoveAt(@, i)]
           /\ \/ infos[info].terminated /\ delivered' = delivered
              \/ ~infos[info].terminated /\
                 delivered' = [delivered EXCEPT ![s] = Append(@, thread[w].message)]
<1> DEFINE s == thread[w].job.session
           info == thread[w].info
           left == infos[info].jobs \ {thread[w].job.num}
           ends == infos[info].terminated /\ left = {}
           places == Places(queues[static], s)
           y == [infos[info] EXCEPT !.jobs = left, !.removed = ends]
<1>1. /\ w \in Threads /\ thread[w].pc = "use" /\ thread[w].next = "end"
      /\ thread[w] # Idle /\ thread[w].job \in Jobs /\ info \in DOMAIN infos
      /\ thread[w].message \in Messages /\ static # 0
  BY ThreadFacts DEF EndJob, Uses, Threads, Holds
<1>2. s \in Sessions
  BY <1>1 DEF Jobs
<1>3. thread' \in [Threads -> ThreadStates] /\ OthersStay(w) /\ thread'[w] = Idle
  <2>1. thread' = [thread EXCEPT ![w] = Idle]
    BY DEF EndJob
  <2> QED
    BY <1>1, <2>1, IdleState, ThreadSet
<1>4. y \in Infos
  <2>1. infos[info] \in Infos /\ left \subseteq infos[info].jobs
    BY <1>1, InfoFacts
  <2>2. ends \in BOOLEAN
    BY <2>1 DEF Infos
  <2> HIDE DEF left, ends
  <2> QED
    BY <2>1, <2>2 DEF Infos
<1>5. infos' = [infos EXCEPT ![info] = y]
  BY DEF EndJob
<1>6. /\ infos' \in Seq(Infos) /\ DOMAIN infos' = DOMAIN infos /\ infos'[info] = y
      /\ \A j \in DOMAIN infos \ {info} : infos'[j] = infos[j]
  <2> HIDE DEF y, info
  <2> QED
    BY <1>1, <1>4, <1>5, InfoReplaced
<1>7. \/ queues' = queues /\ (ends => places = {})
      \/ /\ ends
         /\ \E i \in places : queues' = [queues EXCEPT ![static] = RemoveAt(@, i)]
  <2>1. queues' = IF ends /\ places # {}
                  THEN [queues EXCEPT ![static] = RemoveAt(@, Min(places))] ELSE queues
    BY DEF EndJob
  <2>2. places # {} => Min(places) \in places
    BY <1>1, PlacesFacts
  <2> HIDE DEF places, ends
  <2> QED
    BY <2>1, <2>2
<1>8. \/ infos[info].terminated /\ delivered' = delivered
      \/ ~infos[info].terminated /\
         delivered' = [delivered EXCEPT ![s] = Append(@, thread[w].message)]
  BY DEF EndJob
<1> QED
  BY <1>1, <1>2, <1>3, <1>6, <1>7, <1>8

\* What a reply adds to what a client has.
LEMMA Sent ==
    ASSUME TypesInv, NEW s \in Sessions, NEW m \in Messages,
           delivered' = [delivered EXCEPT ![s] = Append(@, m)]
    PROVE  /\ delivered' \in [Sessions -> Seq(Messages)]
           /\ Len(delivered[s]) \in Nat /\ DOMAIN delivered[s] = 1..Len(delivered[s])
           /\ DOMAIN delivered'[s] = 1..(Len(delivered[s]) + 1)
           /\ \A i \in 1..Len(delivered[s]) : delivered'[s][i] = delivered[s][i]
           /\ delivered'[s][Len(delivered[s]) + 1] = m
           /\ \A r \in Sessions \ {s} : delivered'[r] = delivered[r]
<1>1. delivered[s] \in Seq(Messages) /\ delivered'[s] = Append(delivered[s], m)
  BY DEF TypesInv
<1>2. /\ Append(delivered[s], m) \in Seq(Messages)
      /\ Len(delivered[s]) \in Nat /\ DOMAIN delivered[s] = 1..Len(delivered[s])
      /\ DOMAIN delivered'[s] = 1..(Len(delivered[s]) + 1)
      /\ \A i \in 1..Len(delivered[s]) : delivered'[s][i] = delivered[s][i]
      /\ delivered'[s][Len(delivered[s]) + 1] = m
  BY <1>1, AppendProperties, LenProperties
<1> QED
  BY <1>2 DEF TypesInv

LEMMA EndJobTypes ==
    ASSUME TypesInv, NEW w \in Workers, EndJob(w)
    PROVE  TypesInv'
<1> DEFINE s == thread[w].job.session
<1>1. /\ w \in Threads /\ s \in Sessions /\ thread[w].message \in Messages /\ static # 0
      /\ thread' \in [Threads -> ThreadStates] /\ OthersStay(w) /\ thread'[w] = Idle
      /\ infos' \in Seq(Infos) /\ DOMAIN infos' = DOMAIN infos
  BY EndJobMoves
<1>2. \/ queues' = queues
      \/ \E i \in Places(queues[static], s) :
            queues' = [queues EXCEPT ![static] = RemoveAt(@, i)]
  BY EndJobMoves
<1>3. \/ delivered' = delivered
      \/ delivered' = [delivered EXCEPT ![s] = Append(@, thread[w].message)]
  BY EndJobMoves
<1>4. UNCHANGED <<alive, host, leaked, client, sent, jobs, static, number, outstanding>>
  BY DEF EndJob, clientVars
<1>5. delivered' \in [Sessions -> Seq(Messages)]
  BY <1>1, <1>3, Sent DEF TypesInv
<1>6. /\ queues' \in Seq(Seq(Nat)) /\ DOMAIN queues' = DOMAIN queues
      /\ Len(queues') = Len(queues)
      /\ \A q \in DOMAIN queues : \A i \in DOMAIN queues'[q] :
            \E j \in DOMAIN queues[q] : queues'[q][i] = queues[q][j]
  <2>1. CASE queues' = queues
    BY <2>1 DEF TypesInv
  <2>2. ASSUME NEW i \in Places(queues[static], s),
               queues' = [queues EXCEPT ![static] = RemoveAt(@, i)]
        PROVE  /\ queues' \in Seq(Seq(Nat)) /\ DOMAIN queues' = DOMAIN queues
               /\ Len(queues') = Len(queues)
               /\ \A q \in DOMAIN queues : \A k \in DOMAIN queues'[q] :
                    \E j \in DOMAIN queues[q] : queues'[q][k] = queues[q][j]
    <3>1. /\ static \in DOMAIN queues /\ queues[static] \in Seq(Nat)
          /\ DOMAIN queues[static] = 1..Len(queues[static]) /\ i \in 1..Len(queues[static])
      BY <1>1, <2>2, PlacesFacts
    <3> DEFINE r == RemoveAt(queues[static], i)
    <3>2. /\ r \in Seq(Nat) /\ Len(r) = Len(queues[static]) - 1
          /\ \A j \in 1..(Len(queues[static]) - 1) :
                r[j] = IF j < i THEN queues[static][j] ELSE queues[static][j + 1]
      BY <3>1, RemoveAtProperties
    <3>3. DOMAIN r = 1..(Len(queues[static]) - 1) /\ Len(queues[static]) \in Nat
      BY <3>1, <3>2, LenProperties
    <3>4. queues' = [queues EXCEPT ![static] = r]
      BY <2>2
    <3> HIDE DEF r
    <3>5. /\ queues' \in Seq(Seq(Nat)) /\ Len(queues') = Len(queues)
          /\ DOMAIN queues' = DOMAIN queues /\ queues'[static] = r
          /\ \A p \in DOMAIN queues \ {static} : queues'[p] = queues[p]
      <4>1. queues \in Seq(Seq(Nat))
        BY DEF TypesInv
      <4> QED
        BY <3>1, <3>2, <3>4, <4>1, QueueReplaced
    <3>6. \A k \in DOMAIN r : \E j \in DOMAIN queues[static] : r[k] = queues[static][j]
      <4>1. \A k \in DOMAIN r : k \in 1..Len(queues[static]) /\ k + 1 \in 1..Len(queues[static])
        BY <3>3
      <4> QED
        BY <3>1, <3>2, <3>3, <4>1
    <3> QED
      BY <3>5, <3>6
  <2> QED
    BY <1>2, <2>1, <2>2
<1>7. \A q \in DOMAIN queues' : \A i \in DOMAIN queues'[q] : queues'[q][i] \in DOMAIN infos'
  BY <1>1, <1>6 DEF TypesInv
<1>8. Holds(w)'
  BY <1>1, IdleState, NdmpMessagesAssumption DEF Holds
<1>9. \A t \in Threads : Holds(t)'
  BY <1>1, <1>4, <1>6, <1>8, AllHold
<1> QED
  BY <1>1, <1>4, <1>5, <1>6, <1>7, <1>9 DEF TypesInv

LEMMA NoticeMoves ==
    ASSUME TypesInv, NEW s \in Sessions, NoticeHangUp(s)
    PROVE  /\ Listener \in Threads /\ thread[Listener] = Idle
           /\ thread' \in [Threads -> ThreadStates] /\ OthersStay(Listener)
           /\ thread'[Listener].pc = "test" /\ thread'[Listener].next = "terminate"
           /\ thread'[Listener].job \in Jobs /\ thread'[Listener].job.session = s
           /\ thread'[Listener] # Idle
           /\ client[s] = "gone" /\ client' = [client EXCEPT ![s] = "seen"]
<1> DEFINE job == [session |-> s, num |-> 0, op |-> Notify]
           x == [thread[Listener] EXCEPT !.pc = "test", !.next = "terminate", !.job = job]
<1>1. Listener \in Threads /\ thread[Listener] \in ThreadStates
  BY DEF TypesInv, Threads
<1>2. job \in Jobs /\ job.session = s
  BY NdmpMessagesAssumption DEF Jobs
<1>3. x \in ThreadStates /\ x.pc = "test" /\ x.next = "terminate" /\ x.job = job
  BY <1>1, <1>2 DEF ThreadStates, PCs
<1>4. thread' = [thread EXCEPT ![Listener] = x]
  BY DEF NoticeHangUp
<1> HIDE DEF x
<1>5. thread' \in [Threads -> ThreadStates] /\ thread'[Listener] = x /\ OthersStay(Listener)
  BY <1>1, <1>3, <1>4, ThreadSet
<1> QED
  BY <1>1, <1>2, <1>3, <1>5, IdleState DEF NoticeHangUp

LEMMA NoticeTypes ==
    ASSUME TypesInv, NEW s \in Sessions, NoticeHangUp(s)
    PROVE  TypesInv'
<1>1. /\ Listener \in Threads
      /\ thread' \in [Threads -> ThreadStates] /\ OthersStay(Listener)
      /\ thread'[Listener].pc = "test" /\ thread'[Listener].next = "terminate"
      /\ thread'[Listener].job \in Jobs /\ thread'[Listener] # Idle
      /\ client' = [client EXCEPT ![s] = "seen"]
  BY NoticeMoves
<1>2. UNCHANGED <<alive, host, leaked, sent, jobs, static, queues, infos, number,
                  delivered, outstanding>>
  BY DEF NoticeHangUp, sessionVars
<1>3. Holds(Listener)'
  BY <1>1, NdmpMessagesAssumption DEF Holds
<1>4. \A t \in Threads : Holds(t)'
  BY <1>1, <1>2, <1>3, AllHold
<1>5. client' \in [Sessions -> {"none", "up", "gone", "seen"}]
  BY <1>1 DEF TypesInv
<1> QED
  BY <1>1, <1>2, <1>4, <1>5 DEF TypesInv

LEMMA TerminateMoves ==
    ASSUME TypesInv, Terminate
    PROVE  /\ Listener \in Threads /\ thread[Listener].pc = "use" /\ thread[Listener] # Idle
           /\ thread[Listener].job \in Jobs /\ thread[Listener].info \in DOMAIN infos
           /\ thread' \in [Threads -> ThreadStates] /\ OthersStay(Listener)
           /\ thread'[Listener] = Idle
           /\ infos' \in Seq(Infos) /\ DOMAIN infos' = DOMAIN infos
           /\ infos'[thread[Listener].info] =
                [infos[thread[Listener].info] EXCEPT !.terminated = TRUE]
           /\ \A j \in DOMAIN infos \ {thread[Listener].info} : infos'[j] = infos[j]
<1>1. /\ Listener \in Threads /\ thread[Listener].pc = "use" /\ thread[Listener] # Idle
      /\ thread[Listener].job \in Jobs /\ thread[Listener].info \in DOMAIN infos
  BY ThreadFacts DEF Terminate, Uses, Threads, Holds
<1>2. /\ thread' \in [Threads -> ThreadStates] /\ OthersStay(Listener)
      /\ thread'[Listener] = Idle
  <2>1. thread' = [thread EXCEPT ![Listener] = Idle]
    BY DEF Terminate
  <2> QED
    BY <1>1, <2>1, IdleState, ThreadSet
<1> DEFINE y == [infos[thread[Listener].info] EXCEPT !.terminated = TRUE]
<1>3. y \in Infos
  BY <1>1, InfoFacts DEF Infos
<1>4. infos' = [infos EXCEPT ![thread[Listener].info] = y]
  BY DEF Terminate
<1> HIDE DEF y
<1>5. /\ infos' \in Seq(Infos) /\ DOMAIN infos' = DOMAIN infos
      /\ infos'[thread[Listener].info] = y
      /\ \A j \in DOMAIN infos \ {thread[Listener].info} : infos'[j] = infos[j]
  BY <1>1, <1>3, <1>4, InfoReplaced
<1> QED
  BY <1>1, <1>2, <1>5 DEF y

LEMMA TerminateTypes ==
    ASSUME TypesInv, Terminate
    PROVE  TypesInv'
<1>1. /\ Listener \in Threads
      /\ thread[Listener].job \in Jobs /\ thread[Listener].info \in DOMAIN infos
      /\ thread' \in [Threads -> ThreadStates] /\ OthersStay(Listener)
      /\ thread'[Listener] = Idle
      /\ infos' \in Seq(Infos) /\ DOMAIN infos' = DOMAIN infos
  BY TerminateMoves
<1>2. UNCHANGED <<alive, host, leaked, client, sent, jobs, static, queues, number, delivered>>
  BY DEF Terminate, clientVars
<1>3. outstanding' \subseteq Sessions \X (0..MaxRequests)
  <2>1. infos[thread[Listener].info].jobs \subseteq 0..MaxRequests
        /\ thread[Listener].job.session \in Sessions
    BY <1>1, InfoFacts DEF Infos, Jobs
  <2> QED
    BY <2>1 DEF Terminate, TypesInv
<1>4. Holds(Listener)'
  BY <1>1, IdleState, NdmpMessagesAssumption DEF Holds
<1>5. \A t \in Threads : Holds(t)'
  BY <1>1, <1>2, <1>4, AllHold
<1> QED
  BY <1>1, <1>2, <1>3, <1>5 DEF TypesInv

LEMMA NextTypes ==
    ASSUME TypesInv, [Next]_vars
    PROVE  TypesInv'
<1>1. CASE UNCHANGED vars
  <2>1. \A t \in Threads : Holds(t)'
    BY <1>1, HoldsFrame DEF TypesInv, vars, sessionVars
  <2> QED
    BY <1>1, <2>1 DEF TypesInv, vars, sessionVars, clientVars
<1>2. CASE Next
  BY <1>2, ClientTypes, NoticeTypes, TestQueueTypes, MakeQueueTypes, LookupTypes,
     CreateTypes, TakeTypes, AddJobTypes, HandleTypes, CountTypes, EndJobTypes,
     TerminateTypes DEF Next
<1> QED
  BY <1>1, <1>2

\* The types of the message layer, for any number of workers: a thread uses only
\* infos that were made and queues that exist.
THEOREM TypeCorrect == Spec => []TypeOK
<1>1. TypesInv => TypeOK
  <2> SUFFICES ASSUME TypesInv PROVE TypeOK
    OBVIOUS
  <2>1. ToSet(jobs) \subseteq Jobs /\ ToSet(infos) \subseteq Infos
    BY ElementOfSeq, LenProperties DEF TypesInv, ToSet
  <2>2. \A q \in DOMAIN queues : ToSet(queues[q]) \subseteq DOMAIN infos
    BY DEF TypesInv, ToSet
  <2> QED
    BY <2>1, <2>2 DEF TypesInv, TypeOK, Holds
<1> QED
  BY <1>1, InitTypes, NextTypes, PTL DEF Spec
-----------------------------------------------------------------------------
(* With one worker nobody else reads or writes sequence_number between the *)
(* two accesses of set_header, and the message that has a number is sent   *)
(* or dropped before another gets one.                                     *)

LEMMA SequenceFacts ==
    ASSUME TypesInv, NEW s \in Sessions, NEW i \in DOMAIN delivered[s]
    PROVE  delivered[s][i] \in Messages /\ delivered[s][i].sequence \in Nat
<1>1. delivered[s] \in Seq(Messages) /\ i \in 1..Len(delivered[s])
  BY LenProperties DEF TypesInv
<1>2. delivered[s][i] \in Messages
  BY <1>1, ElementOfSeq
<1> QED
  BY <1>2 DEF Messages

LEMMA InitNumbers == Init => NumbersInv
<1> SUFFICES ASSUME Init PROVE NumbersInv
  OBVIOUS
<1>1. \A s \in Sessions : DOMAIN delivered[s] = {}
  BY DEF Init
<1>2. \A w \in Workers : thread[w] = Idle
  BY DEF Init, Threads
<1> QED
  BY <1>1, <1>2, IdleState DEF NumbersInv, MessagesNumbered

\* A step that neither makes a message nor sends one.
LEMMA NumbersFrame ==
    ASSUME NumbersInv, UNCHANGED <<number, delivered>>,
           \A w \in Workers :
                /\ thread'[w].pc = "count" =>
                    thread[w].pc = "count" /\ thread'[w].message = thread[w].message
                /\ thread'[w].next = "end" =>
                    thread[w].next = "end" /\ thread'[w].message = thread[w].message
    PROVE  NumbersInv'
<1>1. MessagesNumbered'
  BY DEF NumbersInv, MessagesNumbered
<1>2. \A s \in Sessions : \A i \in DOMAIN delivered'[s] : delivered'[s][i].sequence < number'
  BY DEF NumbersInv
<1>3. \A w \in Workers :
        /\ thread'[w].pc = "count" => thread'[w].message.sequence = number'
        /\ thread'[w].next = "end" =>
            /\ thread'[w].message.sequence < number'
            /\ \A s \in Sessions : \A i \in DOMAIN delivered'[s] :
                    delivered'[s][i].sequence < thread'[w].message.sequence
  BY DEF NumbersInv
<1> QED
  BY <1>1, <1>2, <1>3 DEF NumbersInv

\* The steps of get_session_info, by any thread.
LEMMA SessionStep ==
    ASSUME TypesInv, NEW t \in Threads,
           TestQueue(t) \/ MakeQueue(t) \/ Lookup(t) \/ Create(t)
    PROVE  /\ OnlySessions /\ OthersStay(t) /\ Keeps(t)
           /\ thread[t] # Idle /\ thread'[t] # Idle /\ thread'[t].job \in Jobs
           /\ thread[t].pc \notin {"handle", "count"}
           /\ thread'[t].pc \in {"make", "lookup", "create", "use"}
<1>1. OnlySessions
  BY DEF TestQueue, MakeQueue, Lookup, Create
<1>2. thread[t].pc \in {"test", "make", "lookup", "create"} /\ thread[t] # Idle
      /\ thread[t].job \in Jobs
  BY ThreadFacts DEF TestQueue, MakeQueue, Lookup, Create, Holds
<1>3. CASE TestQueue(t) \/ MakeQueue(t)
  <2>1. PICK pc \in {"make", "lookup"} : Goto(t, pc)
    BY <1>3 DEF TestQueue, MakeQueue
  <2> QED
    BY <1>1, <1>2, <2>1, GotoMoves DEF PCs, Keeps
<1>4. CASE Lookup(t)
  BY <1>1, <1>2, <1>4, LookupMoves DEF Keeps
<1>5. CASE Create(t)
  BY <1>1, <1>2, <1>5, CreateMoves DEF Keeps
<1> QED
  BY <1>3, <1>4, <1>5

LEMMA NextNumbers ==
    ASSUME OneWorker, TypesInv, NumbersInv, [Next]_vars
    PROVE  NumbersInv'
<1>1. CASE UNCHANGED vars
  BY <1>1, NumbersFrame DEF vars
<1>2. ASSUME NEW s \in Sessions, Connect(s) \/ HangUp(s) \/ \E op \in Requests : Send(s, op)
      PROVE  NumbersInv'
  <2>1. UNCHANGED <<number, delivered, thread>>
    BY <1>2 DEF Connect, HangUp, Send
  <2> QED
    BY <2>1, NumbersFrame
<1>3. ASSUME NEW s \in Sessions, NoticeHangUp(s) PROVE NumbersInv'
  <2>1. UNCHANGED <<number, delivered>> /\ \A w \in Workers : thread'[w] = thread[w]
    BY <1>3, NoticeMoves, NdmpMessagesAssumption DEF NoticeHangUp, OthersStay, Threads
  <2> QED
    BY <2>1, NumbersFrame
<1>4. CASE Terminate
  <2>1. UNCHANGED <<number, delivered>> /\ \A w \in Workers : thread'[w] = thread[w]
    BY <1>4, TerminateMoves, NdmpMessagesAssumption DEF Terminate, OthersStay, Threads
  <2> QED
    BY <2>1, NumbersFrame
<1>5. ASSUME NEW t \in Threads, TestQueue(t) \/ MakeQueue(t) \/ Lookup(t) \/ Create(t)
      PROVE  NumbersInv'
  <2>1. /\ UNCHANGED <<number, delivered>> /\ OthersStay(t) /\ Keeps(t)
        /\ thread'[t].pc # "count"
    BY <1>5, SessionStep DEF OnlySessions
  <2> QED
    BY <2>1, NumbersFrame DEF OthersStay, Keeps, Threads
<1>6. ASSUME NEW w \in Workers, Take(w) PROVE NumbersInv'
  <2>1. /\ UNCHANGED <<number, delivered>> /\ OthersStay(w)
        /\ thread'[w].pc = "test" /\ thread'[w].next = "add"
    BY <1>6, TakeMoves DEF Take
  <2> QED
    BY <2>1, NumbersFrame DEF OthersStay, Threads
<1>7. ASSUME NEW w \in Workers, AddJob(w) PROVE NumbersInv'
  <2>1. /\ UNCHANGED <<number, delivered>> /\ OthersStay(w)
        /\ thread'[w].pc = "handle" /\ thread'[w].next = "add"
    BY <1>7, AddJobMoves DEF AddJob, OnlySessions, Keeps
  <2> QED
    BY <2>1, NumbersFrame DEF OthersStay, Threads
<1>8. ASSUME NEW w \in Workers, Handle(w) PROVE NumbersInv'
  <2>1. /\ UNCHANGED <<number, delivered>> /\ Workers = {w}
        /\ thread'[w].next = "add" /\ thread'[w].message.sequence = number
    BY <1>8, HandleMoves DEF Handle, OneWorker
  <2> QED
    BY <2>1 DEF NumbersInv, MessagesNumbered
<1>9. ASSUME NEW w \in Workers, Count(w) PROVE NumbersInv'
  <2>1. /\ Workers = {w} /\ delivered' = delivered
        /\ thread[w].pc = "count" /\ thread'[w].message = thread[w].message
        /\ thread'[w].pc = "test" /\ number' = thread[w].message.sequence + 1
    BY <1>9, CountMoves DEF Count, OneWorker
  <2>2. number' = number + 1 /\ number \in Nat /\ thread[w].message.sequence = number
    BY <2>1 DEF NumbersInv, TypesInv
  <2>3. \A s \in Sessions : \A i \in DOMAIN delivered[s] : delivered[s][i].sequence < number
    BY DEF NumbersInv
  <2>4. \A s \in Sessions : \A i \in DOMAIN delivered[s] :
            delivered[s][i].sequence < number + 1
    BY <2>2, <2>3, SequenceFacts
  <2>5. MessagesNumbered'
    BY <2>1 DEF NumbersInv, MessagesNumbered
  <2> QED
    BY <2>1, <2>2, <2>3, <2>4, <2>5 DEF NumbersInv
<1>10. ASSUME NEW w \in Workers, EndJob(w) PROVE NumbersInv'
  <2> DEFINE s == thread[w].job.session
             m == thread[w].message
  <2>a. /\ thread'[w] = Idle /\ s \in Sessions
        /\ thread[w].next = "end" /\ m \in Messages
        /\ \/ delivered' = delivered
           \/ delivered' = [delivered EXCEPT ![s] = Append(@, m)]
    BY <1>10, EndJobMoves
  <2>b. Workers = {w} /\ number' = number
    BY <1>10 DEF EndJob, OneWorker
  <2>1. /\ Workers = {w} /\ number' = number /\ thread'[w] = Idle /\ s \in Sessions
        /\ thread[w].next = "end" /\ m \in Messages
        /\ \/ delivered' = delivered
           \/ delivered' = [delivered EXCEPT ![s] = Append(@, m)]
    BY <2>a, <2>b
  <2>2. CASE delivered' = delivered
    BY <2>1, <2>2, IdleState, NumbersFrame
  <2>3. CASE delivered' = [delivered EXCEPT ![s] = Append(@, m)]
    <3>1. PICK c : c = s
      OBVIOUS
    <3>2. PICK n : n = Len(delivered[c])
      OBVIOUS
    <3>3. PICK e : e = m
      OBVIOUS
    <3>4. /\ c \in Sessions /\ n \in Nat /\ DOMAIN delivered[c] = 1..n
          /\ DOMAIN delivered'[c] = 1..(n + 1)
          /\ \A i \in 1..n : delivered'[c][i] = delivered[c][i]
          /\ delivered'[c][n + 1] = e
          /\ \A r \in Sessions \ {c} : delivered'[r] = delivered[r]
      <4>1. c \in Sessions /\ e \in Messages
            /\ delivered' = [delivered EXCEPT ![c] = Append(@, e)]
        BY <2>1, <2>3, <3>1, <3>3
      <4> QED
        BY <3>2, <4>1, Sent
    <3>5. /\ e.sequence < number /\ e.sequence \in Nat
          /\ \A r \in Sessions : \A i \in DOMAIN delivered[r] :
                delivered[r][i].sequence < e.sequence
      BY <2>1, <3>3 DEF NumbersInv, Messages
    <3>6. \A r \in Sessions : \A i \in DOMAIN delivered'[r] :
            \/ i \in DOMAIN delivered[r] /\ delivered'[r][i] = delivered[r][i]
            \/ r = c /\ i = n + 1 /\ delivered'[r][i] = e
      <4>1. \A i \in DOMAIN delivered'[c] : i \in 1..n \/ i = n + 1
        BY <3>4
      <4> QED
        BY <3>4, <4>1
    <3>7. \A r \in Sessions : \A i \in DOMAIN delivered'[r] :
            delivered'[r][i].sequence < number'
      BY <2>1, <3>5, <3>6 DEF NumbersInv
    <3>8. MessagesNumbered'
      <4>1. ASSUME NEW q \in Sessions, NEW r \in Sessions,
                   NEW i \in DOMAIN delivered'[q], NEW j \in DOMAIN delivered'[r]
            PROVE  /\ q = r /\ i < j => delivered'[q][i].sequence < delivered'[r][j].sequence
                   /\ q # r => delivered'[q][i].sequence # delivered'[r][j].sequence
        <5>1. CASE /\ i \in DOMAIN delivered[q] /\ delivered'[q][i] = delivered[q][i]
                   /\ j \in DOMAIN delivered[r] /\ delivered'[r][j] = delivered[r][j]
          BY <5>1 DEF NumbersInv, MessagesNumbered
        <5>2. CASE /\ i \in DOMAIN delivered[q] /\ delivered'[q][i] = delivered[q][i]
                   /\ r = c /\ j = n + 1 /\ delivered'[r][j] = e
          BY <3>5, <5>2, SequenceFacts
        <5>3. CASE /\ j \in DOMAIN delivered[r] /\ delivered'[r][j] = delivered[r][j]
                   /\ q = c /\ i = n + 1 /\ delivered'[q][i] = e
          <6>1. delivered[r][j].sequence < e.sequence /\ delivered[r][j].sequence \in Nat
            BY <3>5, <5>3, SequenceFacts
          <6>2. q = r => ~(i < j)
            BY <3>4, <5>3
          <6> QED
            BY <3>5, <5>3, <6>1, <6>2
        <5>4. CASE /\ r = c /\ j = n + 1 /\ q = c /\ i = n + 1
          BY <3>4, <5>4
        <5> QED
          BY <3>6, <5>1, <5>2, <5>3, <5>4
      <4> QED
        BY <4>1 DEF MessagesNumbered
    <3> QED
      BY <2>1, <3>7, <3>8, IdleState DEF NumbersInv
  <2> QED
    BY <2>1, <2>2, <2>3
<1> QED
  BY <1>1, <1>2, <1>3, <1>4, <1>5, <1>6, <1>7, <1>8, <1>9, <1>10 DEF Next

\* With one worker, what a client receives is numbered upwards, and no number is on two
\* messages of the server, whatever the clients do.
THEOREM MessagesStayNumbered ==
    ASSUME OneWorker
    PROVE  Spec => []MessagesNumbered
<1>1. NumbersInv => MessagesNumbered
  BY DEF NumbersInv
<1> QED
  BY <1>1, InitTypes, NextTypes, InitNumbers, NextNumbers, PTL DEF Spec
-----------------------------------------------------------------------------
(* With one worker and patient clients, there is one queue of infos, and   *)
(* every session has one info in it.                                       *)

LEMMA ServesFrame ==
    ASSUME NEW t, thread'[t] = thread[t]
    PROVE  \A s : Serves(t, s)' <=> Serves(t, s)
BY DEF Serves

\* A step that makes and removes no info, and marks none.
LEMMA SameInfos ==
    ASSUME DOMAIN infos' = DOMAIN infos,
           \A i \in DOMAIN infos : /\ infos'[i].session = infos[i].session
                                   /\ infos'[i].removed = infos[i].removed
    PROVE  /\ Live' = Live /\ \A s : InfoOf(s)' = InfoOf(s)
           /\ (\A i \in DOMAIN infos : infos'[i].terminated = infos[i].terminated) =>
                \A s : Registered(s)' <=> Registered(s)
<1>1. Live' = Live
  BY DEF Live
<1>2. \A s : InfoOf(s)' = InfoOf(s)
  BY <1>1 DEF InfoOf, Live
<1>3. ASSUME \A i \in DOMAIN infos : infos'[i].terminated = infos[i].terminated
      PROVE  \A s : Registered(s)' <=> Registered(s)
  <2>1. \A s : \A i \in InfoOf(s) : i \in DOMAIN infos
    BY DEF InfoOf, Live
  <2> QED
    BY <1>2, <1>3, <2>1 DEF Registered
<1> QED
  BY <1>1, <1>2, <1>3

LEMMA SameQueue ==
    ASSUME TypesInv, OneQueue, UNCHANGED <<static, queues>>, infos' \in Seq(Infos),
           DOMAIN infos' = DOMAIN infos, Live' = Live,
           \A i \in DOMAIN infos : infos'[i].session = infos[i].session
    PROVE  OneQueue'
<1>1. static' = 0 => infos' = <<>>
  <2>1. static = 0 => DOMAIN infos' = {}
    BY DEF OneQueue
  <2>2. DOMAIN infos' = 1..Len(infos') /\ Len(infos') \in Nat
    BY LenProperties
  <2>3. static = 0 => Len(infos') = 0
    BY <2>1, <2>2
  <2> QED
    BY <2>3, EmptySeq
<1>2. static' = 1 => ToSet(queues'[1]) = Live' /\ Distinct(queues'[1])
  BY DEF OneQueue
<1>3. \A i, j \in Live' : infos'[i].session = infos'[j].session => i = j
  BY DEF OneQueue, Live
<1>4. Len(queues') = static' /\ static' \in {0, 1}
  BY DEF OneQueue
<1> QED
  BY <1>1, <1>2, <1>3, <1>4 DEF OneQueue

LEMMA FoundFrame ==
    ASSUME NEW t, Found(t), thread'[t] = thread[t],
           thread[t].pc = "make" => static' = static,
           \A s \in Sessions : InfoOf(s)' = InfoOf(s)
    PROVE  Found(t)'
<1>1. \A s : Serves(t, s)' <=> Serves(t, s)
  BY ServesFrame
<1>2. thread'[t].pc = "make" => static' = 0
  BY DEF Found
<1>3. \A s \in Sessions : Serves(t, s)' =>
        /\ thread'[t].pc = "create" => InfoOf(s)' = {}
        /\ thread'[t].pc = "use" => thread'[t].info \in InfoOf(s)'
  BY <1>1 DEF Found
<1> QED
  BY <1>2, <1>3 DEF Found

\* A session's info is one.
LEMMA SoleInfo ==
    ASSUME OneQueue, NEW s, NEW i \in InfoOf(s), NEW j \in InfoOf(s)
    PROVE  i = j
BY DEF OneQueue, InfoOf

LEMMA TwoThreads ==
    ASSUME OneWorker, NEW w \in Workers
    PROVE  /\ Threads = {w, Listener} /\ Workers = {w} /\ w # Listener
           /\ OthersStay(w) => thread'[Listener] = thread[Listener]
           /\ OthersStay(Listener) => thread'[w] = thread[w]
BY NdmpMessagesAssumption DEF OneWorker, Threads, OthersStay

LEMMA InitRegistry == Init => RegistryInv
<1> SUFFICES ASSUME Init PROVE RegistryInv
  OBVIOUS
<1>1. Len(<<>>) = 0 /\ DOMAIN <<>> = {}
  BY EmptySeq
<1>2. Live = {} /\ \A t \in Threads : thread[t] = Idle
  BY <1>1 DEF Init, Live
<1>3. Listener \in Threads /\ \A w \in Workers : w \in Threads
  BY DEF Threads
<1>4. OneQueue
  BY <1>1, <1>2 DEF Init, OneQueue
<1>5. InfoWaits
  BY <1>1, <1>2, <1>3, IdleState DEF Init, InfoWaits, Serves
<1>6. \A t \in Threads : Found(t)
  BY <1>2, IdleState DEF Found, Serves
<1> QED
  BY <1>4, <1>5, <1>6 DEF RegistryInv

\* What clients do changes no info and no thread.
LEMMA ClientRegistry ==
    ASSUME Patient, TypesInv, RegistryInv, NEW s \in Sessions,
           Connect(s) \/ HangUp(s) \/ \E op \in Requests : Send(s, op)
    PROVE  RegistryInv'
<1>1. UNCHANGED <<static, queues, infos, thread, delivered>>
  BY DEF Connect, HangUp, Send, sessionVars
<1>2. /\ OneQueue' /\ Live' = Live
      /\ \A r : InfoOf(r)' = InfoOf(r)
      /\ \A r : Registered(r)' <=> Registered(r)
  BY <1>1, SameInfos, SameQueue DEF RegistryInv, TypesInv
<1>3. \A t \in Threads : Found(t)'
  BY <1>1, <1>2, FoundFrame DEF RegistryInv
<1>4. \A t, r : Serves(t, r)' <=> Serves(t, r)
  BY <1>1, ServesFrame
<1>5. /\ \A r \in Sessions \ {s} : client'[r] = client[r]
      /\ client'[s] # "none" /\ client[s] # "seen"
      /\ client'[s] \in {"up", "gone"} /\ delivered[s] # <<>> => Registered(s)
      /\ client'[s] = "gone" => delivered[s] # <<>>
  BY DEF Connect, HangUp, Send, TypesInv, RegistryInv, InfoWaits
<1>6. \A i \in DOMAIN jobs' : client'[jobs'[i].session] # "none"
  <2>1. \A i \in DOMAIN jobs : jobs[i].session \in Sessions
    <3>1. \A i \in DOMAIN jobs : jobs[i] \in Jobs
      BY ElementOfSeq, LenProperties DEF TypesInv
    <3> QED
      BY <3>1 DEF Jobs
  <2>2. \A i \in DOMAIN jobs : client'[jobs[i].session] # "none"
    BY <1>5, <2>1 DEF RegistryInv, InfoWaits
  <2>3. \A i \in DOMAIN jobs' :
            (i \in DOMAIN jobs /\ jobs'[i] = jobs[i]) \/ jobs'[i].session = s
    <3>1. CASE UNCHANGED jobs
      BY <3>1
    <3>2. ASSUME NEW n \in 0..MaxRequests, NEW op \in Requests \cup {Notify},
                 QueueJob(s, n, op)
          PROVE  \A i \in DOMAIN jobs' :
                    (i \in DOMAIN jobs /\ jobs'[i] = jobs[i]) \/ jobs'[i].session = s
      <4>1. /\ Len(jobs) \in Nat /\ DOMAIN jobs = 1..Len(jobs)
            /\ DOMAIN jobs' = 1..(Len(jobs) + 1)
            /\ \A i \in DOMAIN jobs : jobs'[i] = jobs[i]
            /\ jobs'[Len(jobs) + 1] = [session |-> s, num |-> n, op |-> op]
        BY <3>2, JobQueued
      <4>2. \A i \in DOMAIN jobs' : i \in DOMAIN jobs \/ i = Len(jobs) + 1
        BY <4>1
      <4> QED
        BY <4>1, <4>2
    <3>3. 0 \in 0..MaxRequests /\ Notify \in Requests \cup {Notify}
      BY NdmpMessagesAssumption
    <3>4. ASSUME NEW op \in Requests, Send(s, op) PROVE sent[s] + 1 \in 0..MaxRequests
      BY <3>4, NdmpMessagesAssumption DEF Send, TypesInv
    <3> QED
      BY <3>1, <3>2, <3>3, <3>4 DEF Connect, HangUp, Send
  <2> QED
    BY <1>5, <2>2, <2>3
<1>7. InfoWaits'
  <2>1. \A r \in Sessions : client'[r] = "none" => delivered'[r] = <<>>
    BY <1>1, <1>5 DEF RegistryInv, InfoWaits
  <2>2. \A r \in Sessions : client'[r] = "gone" => delivered'[r] # <<>>
    BY <1>1, <1>5 DEF RegistryInv, InfoWaits
  <2>3. \A r \in Sessions : client'[r] \in {"up", "gone"} /\ delivered'[r] # <<>> =>
            Registered(r)'
    BY <1>1, <1>2, <1>5 DEF RegistryInv, InfoWaits
  <2>4. \A w \in Workers, r \in Sessions : Serves(w, r)' => client'[r] # "none"
    BY <1>4, <1>5 DEF RegistryInv, InfoWaits
  <2>5. \A r \in Sessions : Serves(Listener, r)' => client'[r] = "seen" /\ Registered(r)'
    BY <1>2, <1>4, <1>5 DEF RegistryInv, InfoWaits
  <2>6. thread'[Listener].pc \in {"idle", "test", "lookup", "use"}
    BY <1>1 DEF RegistryInv, InfoWaits
  <2> QED
    BY <1>6, <2>1, <2>2, <2>3, <2>4, <2>5, <2>6 DEF InfoWaits
<1> QED
  BY <1>2, <1>3, <1>7 DEF RegistryInv

\* The listener looks for the info of a client that was patient.
LEMMA NoticeRegistry ==
    ASSUME OneWorker, TypesInv, RegistryInv, NEW s \in Sessions, NoticeHangUp(s)
    PROVE  RegistryInv'
<1>1. UNCHANGED <<static, queues, infos, jobs, delivered>>
  BY DEF NoticeHangUp, sessionVars
<1>2. /\ OthersStay(Listener) /\ thread'[Listener].pc = "test"
      /\ thread'[Listener].job.session = s /\ thread'[Listener] # Idle
      /\ client[s] = "gone" /\ client' = [client EXCEPT ![s] = "seen"]
  BY NoticeMoves
<1>3. /\ OneQueue' /\ Live' = Live
      /\ \A r : InfoOf(r)' = InfoOf(r)
      /\ \A r : Registered(r)' <=> Registered(r)
  BY <1>1, SameInfos, SameQueue DEF RegistryInv, TypesInv
<1>4. \A w \in Workers : thread'[w] = thread[w]
  BY <1>2, NdmpMessagesAssumption DEF OthersStay, Threads
<1>5. \A t \in Threads : Found(t)'
  <2>1. Found(Listener)'
    BY <1>2 DEF Found
  <2>2. \A w \in Workers : Found(w)'
    BY <1>1, <1>3, <1>4, FoundFrame DEF RegistryInv, Threads
  <2> QED
    BY <2>1, <2>2 DEF Threads
<1>6. Registered(s)
  BY <1>2 DEF RegistryInv, InfoWaits
<1>7. client'[s] = "seen" /\ \A r \in Sessions \ {s} : client'[r] = client[r]
  BY <1>2 DEF TypesInv
<1>8. InfoWaits'
  <2>1. \A r \in Sessions : client'[r] = "none" => delivered'[r] = <<>>
    BY <1>1, <1>7 DEF RegistryInv, InfoWaits
  <2>2. \A r \in Sessions : client'[r] = "gone" => delivered'[r] # <<>>
    BY <1>1, <1>7 DEF RegistryInv, InfoWaits
  <2>3. \A r \in Sessions : client'[r] \in {"up", "gone"} /\ delivered'[r] # <<>> =>
            Registered(r)'
    BY <1>1, <1>3, <1>7 DEF RegistryInv, InfoWaits
  <2>4. \A w \in Workers, r \in Sessions : Serves(w, r)' => client'[r] # "none"
    BY <1>4, <1>7, ServesFrame DEF RegistryInv, InfoWaits
  <2>5. \A r \in Sessions : Serves(Listener, r)' => client'[r] = "seen" /\ Registered(r)'
    BY <1>2, <1>3, <1>6, <1>7 DEF Serves
  <2>6. \A i \in DOMAIN jobs' : client'[jobs'[i].session] # "none"
    BY <1>1, <1>2 DEF RegistryInv, InfoWaits, TypesInv
  <2> QED
    BY <1>2, <2>1, <2>2, <2>3, <2>4, <2>5, <2>6 DEF InfoWaits
<1> QED
  BY <1>3, <1>5, <1>8 DEF RegistryInv

\* A step of the worker that changes neither infos nor clients.
LEMMA WorkerFrame ==
    ASSUME OneWorker, TypesInv, RegistryInv, NEW w \in Workers, OthersStay(w),
           UNCHANGED <<static, queues, infos, client, delivered>>,
           \A i \in DOMAIN jobs' : \E j \in DOMAIN jobs : jobs'[i] = jobs[j],
           \A s \in Sessions : Serves(w, s)' => client[s] # "none",
           Found(w)'
    PROVE  RegistryInv'
<1>1. /\ OneQueue' /\ Live' = Live
      /\ \A r : InfoOf(r)' = InfoOf(r)
      /\ \A r : Registered(r)' <=> Registered(r)
  BY SameInfos, SameQueue DEF RegistryInv, TypesInv
<1>2. thread'[Listener] = thread[Listener] /\ Threads = {w, Listener} /\ Workers = {w}
  BY TwoThreads
<1>3. \A t \in Threads : Found(t)'
  BY <1>1, <1>2, FoundFrame DEF RegistryInv
<1>4. InfoWaits'
  <2>1. \A r \in Sessions : client'[r] = "none" => delivered'[r] = <<>>
    BY DEF RegistryInv, InfoWaits
  <2>2. \A r \in Sessions : client'[r] = "gone" => delivered'[r] # <<>>
    BY DEF RegistryInv, InfoWaits
  <2>3. \A r \in Sessions : client'[r] \in {"up", "gone"} /\ delivered'[r] # <<>> =>
            Registered(r)'
    BY <1>1 DEF RegistryInv, InfoWaits
  <2>4. \A v \in Workers, r \in Sessions : Serves(v, r)' => client'[r] # "none"
    BY <1>2
  <2>5. \A r \in Sessions : Serves(Listener, r)' => client'[r] = "seen" /\ Registered(r)'
    BY <1>1, <1>2, ServesFrame DEF RegistryInv, InfoWaits
  <2>6. \A i \in DOMAIN jobs' : client'[jobs'[i].session] # "none"
    BY DEF RegistryInv, InfoWaits
  <2>7. thread'[Listener].pc \in {"idle", "test", "lookup", "use"}
    BY <1>2 DEF RegistryInv, InfoWaits
  <2> QED
    BY <2>1, <2>2, <2>3, <2>4, <2>5, <2>6, <2>7 DEF InfoWaits
<1> QED
  BY <1>1, <1>3, <1>4 DEF RegistryInv

LEMMA TurnRegistry ==
    ASSUME OneWorker, TypesInv, RegistryInv, NEW w \in Workers,
           Take(w) \/ Handle(w) \/ Count(w)
    PROVE  RegistryInv'
<1>1. UNCHANGED <<static, queues, infos, client, delivered>>
  BY DEF Take, Handle, Count, sessionVars, clientVars
<1>2. OthersStay(w) /\ thread'[w].pc \in {"test", "count"}
  BY TakeMoves, HandleMoves, CountMoves
<1>3. Found(w)'
  BY <1>2 DEF Found
<1>4. CASE Take(w)
  <2>1. /\ jobs \in Seq(Jobs) /\ jobs # <<>> /\ jobs' = Tail(jobs)
        /\ thread'[w].job = jobs[1]
    BY <1>4, TakeMoves
  <2>2. 1 \in DOMAIN jobs /\ \A i \in DOMAIN jobs' : \E j \in DOMAIN jobs : jobs'[i] = jobs[j]
    BY <2>1, TailProperties
  <2>3. \A s \in Sessions : Serves(w, s)' => client[s] # "none"
    BY <2>1, <2>2 DEF Serves, RegistryInv, InfoWaits
  <2> QED
    BY <1>1, <1>2, <1>3, <2>2, <2>3, WorkerFrame
<1>5. CASE Handle(w) \/ Count(w)
  <2>1. jobs' = jobs /\ thread[w] # Idle /\ thread'[w].job = thread[w].job
    BY <1>5, HandleMoves, CountMoves DEF Handle, Count
  <2>2. \A s \in Sessions : Serves(w, s)' => client[s] # "none"
    BY <2>1 DEF Serves, RegistryInv, InfoWaits
  <2> QED
    BY <1>1, <1>2, <1>3, <2>1, <2>2, WorkerFrame
<1> QED
  BY <1>4, <1>5
\* A step of get_session_info that makes no info; the listener never makes a queue.
LEMMA SearchRegistry ==
    ASSUME OneWorker, TypesInv, RegistryInv, NEW t \in Threads,
           TestQueue(t) \/ MakeQueue(t) \/ Lookup(t), OneQueue', Found(t)',
           infos' = infos, thread'[t].pc \in {"make", "lookup", "create", "use"},
           t = Listener => thread'[t].pc \in {"lookup", "use"} /\ static' = static
    PROVE  RegistryInv'
<1>1. UNCHANGED <<jobs, client, delivered>> /\ OthersStay(t) /\ Keeps(t)
      /\ thread[t] # Idle /\ thread'[t] # Idle
  BY SessionStep DEF OnlySessions, clientVars
<1>2. \A r : InfoOf(r)' = InfoOf(r) /\ (Registered(r)' <=> Registered(r))
  BY SameInfos
<1>3. \A r : Serves(t, r)' <=> Serves(t, r)
  BY <1>1 DEF Serves, Keeps
<1>4. \A u \in Threads : Found(u)'
  <2>1. ASSUME NEW u \in Threads \ {t} PROVE Found(u)'
    <3>1. thread'[u] = thread[u] /\ Found(u)
      BY <1>1 DEF OthersStay, RegistryInv
    <3>2. thread[u].pc = "make" => static' = static
      <4>1. u = Listener => thread[u].pc # "make"
        BY DEF RegistryInv, InfoWaits
      <4>2. u # Listener => t = Listener
        BY TwoThreads DEF Threads
      <4> QED
        BY <4>1, <4>2
    <3> QED
      BY <1>2, <3>1, <3>2, FoundFrame
  <2> QED
    BY <2>1
<1>5. InfoWaits'
  <2>1. \A u \in Threads, r \in Sessions : Serves(u, r)' <=> Serves(u, r)
    BY <1>1, <1>3, ServesFrame DEF OthersStay
  <2>2. \A r \in Sessions : client'[r] \in {"up", "gone"} /\ delivered'[r] # <<>> =>
            Registered(r)'
    BY <1>1, <1>2 DEF RegistryInv, InfoWaits
  <2>3. \A w \in Workers, r \in Sessions : Serves(w, r)' => client'[r] # "none"
    BY <1>1, <2>1 DEF RegistryInv, InfoWaits, Threads
  <2>4. \A r \in Sessions : Serves(Listener, r)' => client'[r] = "seen" /\ Registered(r)'
    BY <1>1, <1>2, <2>1 DEF RegistryInv, InfoWaits, Threads
  <2>5. thread'[Listener].pc \in {"idle", "test", "lookup", "use"}
    BY <1>1 DEF RegistryInv, InfoWaits, OthersStay, Threads
  <2>6. /\ \A r \in Sessions : client'[r] = "none" => delivered'[r] = <<>>
        /\ \A r \in Sessions : client'[r] = "gone" => delivered'[r] # <<>>
        /\ \A i \in DOMAIN jobs' : client'[jobs'[i].session] # "none"
    BY <1>1 DEF RegistryInv, InfoWaits
  <2> QED
    BY <2>2, <2>3, <2>4, <2>5, <2>6 DEF InfoWaits
<1> QED
  BY <1>4, <1>5 DEF RegistryInv

\* What the listener serves has an info, so that there is a queue.
LEMMA ListenerServes ==
    ASSUME TypesInv, RegistryInv, thread[Listener] # Idle
    PROVE  \E s \in Sessions : Serves(Listener, s) /\ Registered(s) /\ static = 1
<1>1. thread[Listener].job \in Jobs
  BY DEF TypesInv, Holds, Threads
<1>2. PICK s \in Sessions : Serves(Listener, s)
  BY <1>1 DEF Serves, Jobs
<1>3. Registered(s)
  BY <1>2 DEF RegistryInv, InfoWaits
<1>4. DOMAIN infos # {}
  BY <1>3 DEF Registered, InfoOf, Live
<1>5. DOMAIN <<>> = {}
  OBVIOUS
<1>6. static # 0
  BY <1>4, <1>5 DEF RegistryInv, OneQueue
<1> QED
  BY <1>2, <1>3, <1>6 DEF RegistryInv, OneQueue

LEMMA TestQueueRegistry ==
    ASSUME OneWorker, TypesInv, RegistryInv, NEW t \in Threads, TestQueue(t)
    PROVE  RegistryInv'
<1>1. UNCHANGED <<static, queues, infos>>
  BY DEF TestQueue, sessionVars
<1>2. thread[t].pc = "test" /\ thread[t] # Idle
  BY ThreadFacts DEF TestQueue
<1>3. /\ static = 0 => thread'[t].pc = "make"
      /\ static # 0 => thread'[t].pc = "lookup"
  BY GotoMoves DEF TestQueue, PCs
<1>4. t = Listener => thread'[t].pc = "lookup"
  BY <1>2, <1>3, ListenerServes
<1>5. Found(t)'
  BY <1>1, <1>3 DEF Found
<1>6. OneQueue'
  BY <1>1, SameInfos, SameQueue DEF RegistryInv, TypesInv
<1> QED
  BY <1>1, <1>3, <1>4, <1>5, <1>6, SearchRegistry

LEMMA MakeQueueRegistry ==
    ASSUME OneWorker, TypesInv, RegistryInv, NEW t \in Threads, MakeQueue(t)
    PROVE  RegistryInv'
<1>1. thread[t].pc = "make" /\ infos' = infos /\ thread'[t].pc = "lookup"
  BY GotoMoves DEF MakeQueue, PCs
<1>2. t # Listener
  BY <1>1 DEF RegistryInv, InfoWaits
<1>3. static = 0 /\ Len(queues) = 0 /\ infos = <<>>
  BY <1>1 DEF RegistryInv, OneQueue, Found
<1>4. Found(t)'
  BY <1>1 DEF Found
<1>5. /\ static' = 1 /\ Len(queues') = 1 /\ queues'[1] = <<>>
  <2>1. <<>> \in Seq(Nat) /\ queues \in Seq(Seq(Nat)) /\ Len(queues) + 1 = 1
    BY <1>3, EmptySeq DEF TypesInv
  <2> QED
    BY <2>1, AppendProperties DEF MakeQueue
<1>6. OneQueue'
  <2>1. DOMAIN <<>> = {}
    OBVIOUS
  <2>2. Live' = {} /\ ToSet(<<>>) = {} /\ Distinct(<<>>)
    BY <1>1, <1>3, <2>1 DEF Live, ToSet, Distinct
  <2> QED
    BY <1>5, <2>2 DEF OneQueue
<1> QED
  BY <1>1, <1>2, <1>4, <1>6, SearchRegistry

\* What get_elem finds is the info of the session, and if it finds none there is none.
LEMMA LookupFinds ==
    ASSUME TypesInv, RegistryInv, NEW t \in Threads, Lookup(t)
    PROVE  Found(t)'
<1>1. /\ thread[t].pc = "lookup" /\ thread[t] # Idle /\ static # 0 /\ Keeps(t)
      /\ thread'[t] # Idle
      /\ \/ /\ Places(queues[static], thread[t].job.session) = {}
            /\ thread'[t].pc = "create"
         \/ \E i \in Places(queues[static], thread[t].job.session) :
            /\ thread'[t].pc = "use" /\ thread'[t].info = queues[static][i]
  BY LookupMoves
<1>2. infos' = infos /\ static = 1 /\ ToSet(queues[1]) = Live
  BY <1>1 DEF Lookup, sessionVars, RegistryInv, OneQueue
<1>3. \A s : InfoOf(s)' = InfoOf(s)
  BY <1>2, SameInfos
<1>4. ASSUME NEW s \in Sessions, Serves(t, s)'
      PROVE  /\ thread'[t].pc = "create" => InfoOf(s) = {}
             /\ thread'[t].pc = "use" => thread'[t].info \in InfoOf(s)
  <2>1. thread[t].job.session = s
    BY <1>1, <1>4 DEF Serves, Keeps
  <2>2. \A i : i \in Places(queues[1], s) <=>
            i \in DOMAIN queues[1] /\ infos[queues[1][i]].session = s
    BY DEF Places
  <2>3. CASE Places(queues[1], s) = {} /\ thread'[t].pc = "create"
    BY <1>2, <2>2, <2>3 DEF InfoOf, ToSet
  <2>4. ASSUME NEW i \in Places(queues[1], s),
               thread'[t].pc = "use", thread'[t].info = queues[1][i]
        PROVE  thread'[t].info \in InfoOf(s)
    <3>1. queues[1][i] \in Live
      BY <1>2, <2>2, <2>4 DEF ToSet
    <3> QED
      BY <2>2, <2>4, <3>1 DEF InfoOf
  <2> QED
    BY <1>1, <1>2, <2>1, <2>3, <2>4
<1>5. thread'[t].pc # "make"
  BY <1>1
<1> QED
  BY <1>3, <1>4, <1>5 DEF Found

LEMMA LookupRegistry ==
    ASSUME OneWorker, TypesInv, RegistryInv, NEW t \in Threads, Lookup(t)
    PROVE  RegistryInv'
<1>1. UNCHANGED <<static, queues, infos>>
  BY DEF Lookup, sessionVars
<1>2. OneQueue'
  BY <1>1, SameInfos, SameQueue DEF RegistryInv, TypesInv
<1>3. thread[t] # Idle /\ Keeps(t) /\ thread'[t] # Idle /\ thread'[t].pc \in {"create", "use"}
  BY LookupMoves
<1>4. t = Listener => thread'[t].pc = "use"
  <2>1. ASSUME t = Listener, thread'[t].pc = "create" PROVE FALSE
    <3>1. PICK s \in Sessions : Serves(t, s) /\ Registered(s)
      BY <1>3, <2>1, ListenerServes
    <3>2. Serves(t, s)'
      BY <1>3, <3>1 DEF Serves, Keeps
    <3>3. InfoOf(s)' = {}
      BY <2>1, <3>2, LookupFinds DEF Found
    <3>4. InfoOf(s) = {}
      BY <1>1, <3>3, SameInfos
    <3> QED
      BY <3>1, <3>4 DEF Registered
  <2> QED
    BY <1>3, <2>1
<1> QED
  BY <1>1, <1>2, <1>3, <1>4, LookupFinds, SearchRegistry

LEMMA CreateRegistry ==
    ASSUME OneWorker, TypesInv, RegistryInv, NEW t \in Threads, Create(t)
    PROVE  RegistryInv'
<1>1. PICK n : n = Len(infos) + 1
  OBVIOUS
<1>2. PICK s : s = thread[t].job.session
  OBVIOUS
<1>3. /\ thread[t].pc = "create" /\ thread[t] # Idle /\ Holds(t)
      /\ thread[t].queue \in DOMAIN queues /\ Len(infos) \in Nat
      /\ OthersStay(t) /\ Keeps(t)
      /\ thread'[t] # Idle /\ thread'[t].pc = "use" /\ thread'[t].info = n
      /\ DOMAIN infos = 1..Len(infos) /\ DOMAIN infos' = 1..n
      /\ \A i \in DOMAIN infos : infos'[i] = infos[i]
      /\ infos'[n] = NewInfo(s)
      /\ queues' = [queues EXCEPT ![thread[t].queue] = Append(@, n)]
  BY <1>1, <1>2, CreateMoves
<1>4. t \in Workers /\ t # Listener
  BY <1>3 DEF RegistryInv, InfoWaits, Threads
<1>5. s \in Sessions /\ Serves(t, s) /\ InfoOf(s) = {}
  <2>1. thread[t].job \in Jobs
    BY <1>3 DEF Holds
  <2> QED
    BY <1>2, <1>3, <2>1 DEF Jobs, Serves, RegistryInv, Found
<1>6. UNCHANGED <<static, client, delivered, jobs>>
  BY DEF Create, OnlySessions, clientVars
<1>7. static = 1 /\ Len(queues) = 1 /\ thread[t].queue = 1 /\ DOMAIN queues = 1..1
      /\ ToSet(queues[1]) = Live /\ Distinct(queues[1])
  <2>1. static = 1 /\ Len(queues) = 1
    BY <1>3 DEF RegistryInv, OneQueue, Holds
  <2>2. DOMAIN queues = 1..Len(queues)
    BY LenProperties DEF TypesInv
  <2> QED
    BY <1>3, <2>1, <2>2 DEF RegistryInv, OneQueue
<1>8. /\ n \notin DOMAIN infos /\ n \in Nat
      /\ DOMAIN infos' = DOMAIN infos \cup {n}
      /\ infos'[n].session = s /\ ~infos'[n].removed /\ ~infos'[n].terminated
  BY <1>1, <1>3 DEF NewInfo
<1>9. Live' = Live \cup {n} /\ n \notin Live
  BY <1>3, <1>8 DEF Live
<1>10. /\ InfoOf(s)' = {n}
       /\ \A r \in Sessions \ {s} : InfoOf(r)' = InfoOf(r)
  BY <1>3, <1>5, <1>8, <1>9 DEF InfoOf, Live
<1>11. \A r \in Sessions : Registered(r) => Registered(r)'
  <2>1. \A r \in Sessions : \A i \in InfoOf(r) : i \in DOMAIN infos
    BY DEF InfoOf, Live
  <2>2. Registered(s)'
    BY <1>8, <1>10 DEF Registered
  <2>3. \A r \in Sessions \ {s} : Registered(r) => Registered(r)'
    BY <1>3, <1>10, <2>1 DEF Registered
  <2> QED
    BY <2>2, <2>3
<1>12. queues' \in Seq(Seq(Nat)) /\ Len(queues') = 1 /\ queues'[1] = Append(queues[1], n)
       /\ queues[1] \in Seq(Nat)
  <2>1. queues \in Seq(Seq(Nat)) /\ 1 \in DOMAIN queues /\ queues[1] \in Seq(Nat)
    <3>1. queues \in Seq(Seq(Nat)) /\ 1 \in 1..Len(queues) /\ 1 \in DOMAIN queues
      BY <1>7 DEF TypesInv
    <3> QED
      BY <3>1, ElementOfSeq
  <2>2. Append(queues[1], n) \in Seq(Nat)
    BY <1>8, <2>1, AppendProperties
  <2>3. queues' = [queues EXCEPT ![1] = Append(queues[1], n)]
    BY <1>3, <1>7
  <2>4. /\ queues' \in Seq(Seq(Nat)) /\ Len(queues') = Len(queues)
        /\ queues'[1] = Append(queues[1], n)
    BY <2>1, <2>2, <2>3, QueueReplaced
  <2> QED
    BY <1>7, <2>1, <2>4
<1>13. OneQueue'
  <2>1. ToSet(queues'[1]) = Live' /\ Distinct(queues'[1])
    BY <1>7, <1>8, <1>9, <1>12, AppendRange
  <2>2. \A i, j \in Live' : infos'[i].session = infos'[j].session => i = j
    <3>1. \A i \in Live : infos[i].session # s
      BY <1>5 DEF InfoOf
    <3> QED
      BY <1>3, <1>8, <1>9, <3>1 DEF RegistryInv, OneQueue, Live
  <2> QED
    BY <1>6, <1>7, <1>12, <2>1, <2>2 DEF OneQueue
<1>14. \A u \in Threads : Found(u)'
  <2>1. Found(t)'
    <3>1. \A r : Serves(t, r)' => r = s
      BY <1>2, <1>3 DEF Serves, Keeps
    <3> QED
      BY <1>3, <1>10, <3>1 DEF Found
  <2>2. Found(Listener)'
    <3>1. thread'[Listener] = thread[Listener] /\ Found(Listener)
      BY <1>4, TwoThreads, <1>3 DEF RegistryInv, Threads
    <3>2. \A r \in Sessions : InfoOf(r) \subseteq InfoOf(r)'
      BY <1>5, <1>10
    <3>3. thread[Listener].pc \notin {"make", "create"}
      BY DEF RegistryInv, InfoWaits
    <3> QED
      BY <3>1, <3>2, <3>3, ServesFrame DEF Found
  <2> QED
    BY <1>4, <2>1, <2>2, TwoThreads
<1>15. InfoWaits'
  <2>1. \A u \in Threads, r \in Sessions : Serves(u, r)' <=> Serves(u, r)
    BY <1>3, ServesFrame DEF OthersStay, Serves, Keeps
  <2>2. \A r \in Sessions : client'[r] \in {"up", "gone"} /\ delivered'[r] # <<>> =>
            Registered(r)'
    BY <1>6, <1>11 DEF RegistryInv, InfoWaits
  <2>3. \A w \in Workers, r \in Sessions : Serves(w, r)' => client'[r] # "none"
    BY <1>6, <2>1 DEF RegistryInv, InfoWaits, Threads
  <2>4. \A r \in Sessions : Serves(Listener, r)' => client'[r] = "seen" /\ Registered(r)'
    BY <1>6, <1>11, <2>1 DEF RegistryInv, InfoWaits, Threads
  <2>5. thread'[Listener].pc \in {"idle", "test", "lookup", "use"}
    BY <1>3, <1>4 DEF RegistryInv, InfoWaits, OthersStay, Threads
  <2>6. /\ \A r \in Sessions : client'[r] = "none" => delivered'[r] = <<>>
        /\ \A r \in Sessions : client'[r] = "gone" => delivered'[r] # <<>>
        /\ \A i \in DOMAIN jobs' : client'[jobs'[i].session] # "none"
    BY <1>6 DEF RegistryInv, InfoWaits
  <2> QED
    BY <2>2, <2>3, <2>4, <2>5, <2>6 DEF InfoWaits
<1> QED
  BY <1>13, <1>14, <1>15 DEF RegistryInv
\* The info of the job is marked with it.
LEMMA AddJobRegistry ==
    ASSUME OneWorker, TypesInv, RegistryInv, NEW w \in Workers, AddJob(w)
    PROVE  RegistryInv'
<1>1. /\ thread[w].info \in DOMAIN infos /\ thread[w] # Idle
      /\ OthersStay(w) /\ Keeps(w) /\ thread'[w].pc = "handle"
      /\ infos' \in Seq(Infos) /\ DOMAIN infos' = DOMAIN infos
      /\ infos'[thread[w].info] =
            [infos[thread[w].info] EXCEPT !.jobs = @ \cup {thread[w].job.num}]
      /\ \A j \in DOMAIN infos \ {thread[w].info} : infos'[j] = infos[j]
  BY AddJobMoves
<1>2. \A i \in DOMAIN infos : /\ infos'[i].session = infos[i].session
                              /\ infos'[i].removed = infos[i].removed
                              /\ infos'[i].terminated = infos[i].terminated
  <2>1. infos[thread[w].info] \in Infos
    BY <1>1, InfoFacts
  <2>2. /\ infos'[thread[w].info].session = infos[thread[w].info].session
        /\ infos'[thread[w].info].removed = infos[thread[w].info].removed
        /\ infos'[thread[w].info].terminated = infos[thread[w].info].terminated
    BY <1>1, <2>1 DEF Infos
  <2> QED
    BY <1>1, <2>2
<1>3. Live' = Live /\ \A r : InfoOf(r)' = InfoOf(r) /\ (Registered(r)' <=> Registered(r))
  BY <1>1, <1>2, SameInfos
<1>4. UNCHANGED <<static, queues, client, delivered, jobs>>
  BY DEF AddJob, OnlySessions, clientVars
<1>5. OneQueue'
  BY <1>1, <1>2, <1>3, <1>4, SameQueue DEF RegistryInv
<1>6. thread'[Listener] = thread[Listener] /\ Threads = {w, Listener} /\ Workers = {w}
  BY <1>1, TwoThreads
<1>7. \A t \in Threads : Found(t)'
  <2>1. Found(w)'
    BY <1>1 DEF Found
  <2>2. Found(Listener)'
    BY <1>3, <1>4, <1>6, FoundFrame DEF RegistryInv
  <2> QED
    BY <1>6, <2>1, <2>2
<1>8. InfoWaits'
  <2>1. \A r \in Sessions : Serves(w, r)' => Serves(w, r)
    BY <1>1 DEF Serves, Keeps
  <2>2. \A r \in Sessions : client'[r] \in {"up", "gone"} /\ delivered'[r] # <<>> =>
            Registered(r)'
    BY <1>3, <1>4 DEF RegistryInv, InfoWaits
  <2>3. \A v \in Workers, r \in Sessions : Serves(v, r)' => client'[r] # "none"
    BY <1>4, <1>6, <2>1 DEF RegistryInv, InfoWaits
  <2>4. \A r \in Sessions : Serves(Listener, r)' => client'[r] = "seen" /\ Registered(r)'
    BY <1>3, <1>4, <1>6, ServesFrame DEF RegistryInv, InfoWaits
  <2>5. thread'[Listener].pc \in {"idle", "test", "lookup", "use"}
    BY <1>6 DEF RegistryInv, InfoWaits
  <2>6. /\ \A r \in Sessions : client'[r] = "none" => delivered'[r] = <<>>
        /\ \A r \in Sessions : client'[r] = "gone" => delivered'[r] # <<>>
        /\ \A i \in DOMAIN jobs' : client'[jobs'[i].session] # "none"
    BY <1>4 DEF RegistryInv, InfoWaits
  <2> QED
    BY <2>2, <2>3, <2>4, <2>5, <2>6 DEF InfoWaits
<1> QED
  BY <1>5, <1>7, <1>8 DEF RegistryInv

\* The end of a session is marked at the info that was found for it.
LEMMA TerminateRegistry ==
    ASSUME OneWorker, TypesInv, RegistryInv, Terminate
    PROVE  RegistryInv'
<1>1. PICK l : l = thread[Listener].info
  OBVIOUS
<1>2. /\ Listener \in Threads /\ thread[Listener].pc = "use" /\ thread[Listener] # Idle
      /\ l \in DOMAIN infos
      /\ OthersStay(Listener) /\ thread'[Listener] = Idle
      /\ infos' \in Seq(Infos) /\ DOMAIN infos' = DOMAIN infos
      /\ infos'[l] = [infos[l] EXCEPT !.terminated = TRUE]
      /\ \A j \in DOMAIN infos \ {l} : infos'[j] = infos[j]
  BY <1>1, TerminateMoves
<1>3. PICK s \in Sessions : Serves(Listener, s) /\ l \in InfoOf(s) /\ client[s] = "seen"
  BY <1>1, <1>2, ListenerServes DEF RegistryInv, Found, InfoWaits
<1>4. \A i \in DOMAIN infos : /\ infos'[i].session = infos[i].session
                              /\ infos'[i].removed = infos[i].removed
  <2>1. infos[l] \in Infos
    BY <1>2, InfoFacts
  <2>2. infos'[l].session = infos[l].session /\ infos'[l].removed = infos[l].removed
    BY <1>2, <2>1 DEF Infos
  <2> QED
    BY <1>2, <2>2
<1>5. Live' = Live /\ \A r : InfoOf(r)' = InfoOf(r)
  BY <1>2, <1>4, SameInfos
<1>6. \A r \in Sessions \ {s} : Registered(r) => Registered(r)'
  <2>1. \A r \in Sessions \ {s} : \A i \in InfoOf(r) : i \in DOMAIN infos /\ i # l
    BY <1>3 DEF InfoOf, Live
  <2> QED
    BY <1>2, <1>5, <2>1 DEF Registered
<1>7. UNCHANGED <<static, queues, client, delivered, jobs>>
  BY DEF Terminate, clientVars
<1>8. OneQueue'
  BY <1>2, <1>4, <1>5, <1>7, SameQueue DEF RegistryInv
<1>9. \A w \in Workers : thread'[w] = thread[w]
  BY <1>2, NdmpMessagesAssumption DEF OthersStay, Threads
<1>10. \A t \in Threads : Found(t)'
  <2>1. Found(Listener)'
    BY <1>2, IdleState DEF Found, Serves
  <2>2. \A w \in Workers : Found(w)'
    BY <1>5, <1>7, <1>9, FoundFrame DEF RegistryInv, Threads
  <2> QED
    BY <2>1, <2>2 DEF Threads
<1>11. InfoWaits'
  <2>1. \A w \in Workers, r \in Sessions : Serves(w, r)' => client'[r] # "none"
    BY <1>7, <1>9, ServesFrame DEF RegistryInv, InfoWaits
  <2>2. \A r \in Sessions : client'[r] \in {"up", "gone"} /\ delivered'[r] # <<>> =>
            Registered(r)'
    BY <1>3, <1>6, <1>7 DEF RegistryInv, InfoWaits
  <2>3. \A r \in Sessions : ~Serves(Listener, r)'
    BY <1>2 DEF Serves
  <2>4. thread'[Listener].pc \in {"idle", "test", "lookup", "use"}
    BY <1>2, IdleState
  <2>5. /\ \A r \in Sessions : client'[r] = "none" => delivered'[r] = <<>>
        /\ \A r \in Sessions : client'[r] = "gone" => delivered'[r] # <<>>
        /\ \A i \in DOMAIN jobs' : client'[jobs'[i].session] # "none"
    BY <1>7 DEF RegistryInv, InfoWaits
  <2> QED
    BY <2>1, <2>2, <2>3, <2>4, <2>5 DEF InfoWaits
<1> QED
  BY <1>8, <1>10, <1>11 DEF RegistryInv

\* What cleanup_session does, when the info that it found is the session's only one.
LEMMA EndJobMeans ==
    ASSUME OneWorker, TypesInv, RegistryInv, NEW w \in Workers, EndJob(w)
    PROVE  \E s \in Sessions, a \in DOMAIN infos, ends \in BOOLEAN :
           /\ Serves(w, s) /\ a = thread[w].info /\ InfoOf(s) = {a} /\ static = 1
           /\ infos' \in Seq(Infos) /\ DOMAIN infos' = DOMAIN infos
           /\ \A j \in DOMAIN infos \ {a} : infos'[j] = infos[j]
           /\ infos'[a] \in Infos /\ infos'[a].session = s
           /\ infos'[a].terminated = infos[a].terminated /\ infos'[a].removed = ends
           /\ infos'[a].jobs = infos[a].jobs \ {thread[w].job.num}
           /\ ends <=> infos[a].terminated /\ infos'[a].jobs = {}
           /\ ~ends => queues' = queues
           /\ ends => \E i \in DOMAIN queues[1] :
                queues[1][i] = a /\ queues' = [queues EXCEPT ![1] = RemoveAt(@, i)]
<1>1. PICK a : a = thread[w].info
  OBVIOUS
<1>2. PICK s : s = thread[w].job.session
  OBVIOUS
<1>3. PICK left : left = infos[a].jobs \ {thread[w].job.num}
  OBVIOUS
<1>4. /\ thread[w].pc = "use" /\ thread[w] # Idle /\ s \in Sessions /\ static # 0
      /\ a \in DOMAIN infos /\ infos' \in Seq(Infos) /\ DOMAIN infos' = DOMAIN infos
      /\ \A j \in DOMAIN infos \ {a} : infos'[j] = infos[j]
  BY <1>1, <1>2, EndJobMoves
<1>5. PICK ends \in BOOLEAN : ends <=> infos[a].terminated /\ left = {}
  OBVIOUS
<1>6. infos[a] \in Infos
  BY <1>4, InfoFacts
<1>7. infos'[a] = [infos[a] EXCEPT !.jobs = left,
                                   !.removed = infos[a].terminated /\ left = {}]
  BY <1>1, <1>3, EndJobMoves
<1>8. /\ infos'[a].session = infos[a].session /\ infos'[a].terminated = infos[a].terminated
      /\ infos'[a].jobs = left
  BY <1>6, <1>7 DEF Infos
<1>9. infos'[a].removed = ends
  <2>1. infos'[a].removed = (infos[a].terminated /\ left = {})
    BY <1>6, <1>7 DEF Infos
  <2> QED
    BY <1>5, <2>1
<1>10. Serves(w, s) /\ a \in InfoOf(s) /\ static = 1
  BY <1>1, <1>2, <1>4 DEF Serves, RegistryInv, Found, Threads, OneQueue
<1>11. InfoOf(s) = {a} /\ infos[a].session = s /\ ToSet(queues[1]) = Live
  <2>1. \A b \in InfoOf(s) : b = a
    BY <1>10, SoleInfo DEF RegistryInv
  <2> QED
    BY <1>10, <2>1 DEF InfoOf, RegistryInv, OneQueue
<1>12. \A i \in Places(queues[1], s) : i \in DOMAIN queues[1] /\ queues[1][i] = a
  <2>1. \A i \in Places(queues[1], s) :
            i \in DOMAIN queues[1] /\ infos[queues[1][i]].session = s
    BY DEF Places
  <2>2. \A i \in DOMAIN queues[1] : queues[1][i] \in Live
    BY <1>11 DEF ToSet
  <2> QED
    BY <1>11, <2>1, <2>2 DEF InfoOf
<1>13. Places(queues[1], s) # {}
  <2>1. PICK i \in DOMAIN queues[1] : queues[1][i] = a
    BY <1>10, <1>11 DEF InfoOf, ToSet
  <2> QED
    BY <1>11, <2>1 DEF Places
<1>14. \/ queues' = queues /\ (infos[a].terminated /\ left = {} => Places(queues[1], s) = {})
       \/ /\ infos[a].terminated /\ left = {}
          /\ \E i \in Places(queues[1], s) : queues' = [queues EXCEPT ![1] = RemoveAt(@, i)]
  <2>1. LET all == infos[thread[w].info].jobs \ {thread[w].job.num}
            last == infos[thread[w].info].terminated /\ all = {}
            places == Places(queues[static], thread[w].job.session)
        IN  \/ queues' = queues /\ (last => places = {})
            \/ last /\ \E i \in places : queues' = [queues EXCEPT ![static] = RemoveAt(@, i)]
    BY EndJobMoves
  <2> QED
    BY <1>1, <1>2, <1>3, <1>10, <2>1
<1>15. /\ ~ends => queues' = queues
       /\ ends => \E i \in DOMAIN queues[1] :
            queues[1][i] = a /\ queues' = [queues EXCEPT ![1] = RemoveAt(@, i)]
  BY <1>5, <1>12, <1>13, <1>14
<1>16. infos'[a] \in Infos
  BY <1>4, ElementOfSeq, LenProperties
<1>17. ends <=> infos[a].terminated /\ infos'[a].jobs = {}
  BY <1>5, <1>8
<1>18. infos'[a].jobs = infos[a].jobs \ {thread[w].job.num} /\ infos'[a].session = s
  BY <1>3, <1>8, <1>11
<1> QED
  BY <1>1, <1>4, <1>8, <1>9, <1>10, <1>11, <1>15, <1>16, <1>17, <1>18

LEMMA EndJobRegistry ==
    ASSUME OneWorker, TypesInv, RegistryInv, NEW w \in Workers, EndJob(w)
    PROVE  RegistryInv'
<1>1. PICK s \in Sessions, a \in DOMAIN infos, ends \in BOOLEAN :
        /\ Serves(w, s) /\ a = thread[w].info /\ InfoOf(s) = {a} /\ static = 1
        /\ infos' \in Seq(Infos) /\ DOMAIN infos' = DOMAIN infos
        /\ \A j \in DOMAIN infos \ {a} : infos'[j] = infos[j]
        /\ infos'[a] \in Infos /\ infos'[a].session = s
        /\ infos'[a].terminated = infos[a].terminated /\ infos'[a].removed = ends
        /\ infos'[a].jobs = infos[a].jobs \ {thread[w].job.num}
        /\ ends <=> infos[a].terminated /\ infos'[a].jobs = {}
        /\ ~ends => queues' = queues
        /\ ends => \E i \in DOMAIN queues[1] :
             queues[1][i] = a /\ queues' = [queues EXCEPT ![1] = RemoveAt(@, i)]
  BY EndJobMeans, Zenon
<1>2. thread'[w] = Idle /\ OthersStay(w)
  BY EndJobMoves
<1>3. thread'[Listener] = thread[Listener] /\ Threads = {w, Listener} /\ Workers = {w}
  BY <1>2, TwoThreads
<1>4. UNCHANGED <<static, client, jobs>>
  BY DEF EndJob, clientVars
<1>5. a \in Live /\ infos[a].session = s
  BY <1>1 DEF InfoOf
<1>6. /\ Live' = IF ends THEN Live \ {a} ELSE Live
      /\ \A r \in Sessions \ {s} : InfoOf(r)' = InfoOf(r)
      /\ InfoOf(s)' = IF ends THEN {} ELSE {a}
  <2>1. Live' = IF ends THEN Live \ {a} ELSE Live
    BY <1>1, <1>5 DEF Live
  <2>2. \A r \in Sessions \ {s} : InfoOf(r)' = InfoOf(r)
    BY <1>1, <1>5, <2>1 DEF InfoOf, Live
  <2>3. \A j \in Live \ {a} : infos[j].session # s
    BY <1>1 DEF InfoOf
  <2>4. InfoOf(s)' = IF ends THEN {} ELSE {a}
    BY <1>1, <1>5, <2>1, <2>3 DEF InfoOf, Live
  <2> QED
    BY <2>1, <2>2, <2>4
<1>7. \A r \in Sessions \ {s} : Registered(r) => Registered(r)'
  <2>1. \A r \in Sessions \ {s} : \A i \in InfoOf(r) : i \in DOMAIN infos /\ i # a
    BY <1>5 DEF InfoOf, Live
  <2> QED
    BY <1>1, <1>6, <2>1 DEF Registered
<1>8. \/ ~infos[a].terminated /\ Registered(s)'
      \/ infos[a].terminated /\ ~Registered(s) /\ delivered' = delivered
  <2>1. CASE infos[a].terminated
    <3>1. delivered' = delivered
      BY <1>1, <2>1, EndJobMoves
    <3>2. ~Registered(s)
      BY <1>1, <2>1 DEF Registered
    <3> QED
      BY <2>1, <3>1, <3>2
  <2>2. CASE ~infos[a].terminated
    BY <1>1, <1>6, <2>2 DEF Registered
  <2> QED
    BY <2>1, <2>2
<1>9. \A r \in Sessions \ {s} : delivered'[r] = delivered[r]
  <2>1. thread[w].job.session = s /\ thread[w].message \in Messages
    BY <1>1, EndJobMoves DEF Serves
  <2>2. \/ delivered' = delivered
        \/ delivered' = [delivered EXCEPT ![s] = Append(@, thread[w].message)]
    BY <2>1, EndJobMoves
  <2> QED
    BY <2>2 DEF TypesInv
<1>10. client[s] # "none"
  BY <1>1 DEF RegistryInv, InfoWaits
<1>11. OneQueue'
  <2>1. CASE ~ends
    <3>1. queues' = queues /\ Live' = Live
      BY <1>1, <1>6, <2>1
    <3>2. \A i \in DOMAIN infos : infos'[i].session = infos[i].session
      BY <1>1, <1>5
    <3> QED
      BY <1>1, <1>4, <3>1, <3>2, SameQueue DEF RegistryInv
  <2>2. CASE ends
    <3>1. PICK i \in DOMAIN queues[1] :
            queues[1][i] = a /\ queues' = [queues EXCEPT ![1] = RemoveAt(queues[1], i)]
      BY <1>1, <2>2
    <3>2. /\ queues \in Seq(Seq(Nat)) /\ Len(queues) = 1 /\ 1 \in DOMAIN queues
          /\ queues[1] \in Seq(Nat) /\ DOMAIN queues[1] = 1..Len(queues[1])
          /\ ToSet(queues[1]) = Live /\ Distinct(queues[1])
      <4>1. queues \in Seq(Seq(Nat)) /\ Len(queues) = 1 /\ 1 \in 1..Len(queues)
        BY <1>1 DEF TypesInv, RegistryInv, OneQueue
      <4>2. queues[1] \in Seq(Nat)
        BY <4>1, ElementOfSeq
      <4> QED
        BY <1>1, <4>1, <4>2, LenProperties DEF RegistryInv, OneQueue
    <3> DEFINE r == RemoveAt(queues[1], i)
    <3>3. r \in Seq(Nat) /\ Distinct(r) /\ ToSet(r) = Live \ {a}
      BY <3>1, <3>2, RemoveAtProperties, RemoveAtDistinct
    <3>4. queues' = [queues EXCEPT ![1] = r]
      BY <3>1
    <3> HIDE DEF r
    <3>5. Len(queues') = Len(queues) /\ queues'[1] = r
      BY <3>2, <3>3, <3>4, QueueReplaced
    <3>6. \A j \in Live' : infos'[j] = infos[j] /\ j \in Live
      BY <1>1, <1>6, <2>2 DEF Live
    <3>7. Live' = Live \ {a}
      BY <1>6, <2>2
    <3> QED
      BY <1>1, <1>4, <3>2, <3>3, <3>5, <3>6, <3>7 DEF RegistryInv, OneQueue
  <2> QED
    BY <2>1, <2>2
<1>12. \A t \in Threads : Found(t)'
  <2>1. Found(w)'
    BY <1>2, IdleState DEF Found, Serves
  <2>2. Found(Listener)'
    <3>1. \A r \in Sessions : Serves(Listener, r)' => Serves(Listener, r) /\ Registered(r)
      BY <1>3, ServesFrame DEF RegistryInv, InfoWaits
    <3>2. \A r \in Sessions : Serves(Listener, r)' => InfoOf(r)' = InfoOf(r)
      <4>1. ASSUME NEW r \in Sessions, Serves(Listener, r)' PROVE InfoOf(r)' = InfoOf(r)
        <5>1. r = s => ~infos[a].terminated
          BY <1>8, <3>1, <4>1
        <5>2. r = s => ~ends
          BY <1>1, <5>1
        <5> QED
          BY <1>1, <1>6, <5>2
      <4> QED
        BY <4>1
    <3>3. thread[Listener].pc \notin {"make", "create"}
      BY DEF RegistryInv, InfoWaits
    <3>4. Found(Listener)
      BY <1>3 DEF RegistryInv
    <3> QED
      BY <1>3, <3>1, <3>2, <3>3, <3>4 DEF Found
  <2> QED
    BY <1>3, <2>1, <2>2
<1>13. InfoWaits'
  <2>1. \A r \in Sessions : client'[r] = "none" => delivered'[r] = <<>>
    BY <1>4, <1>9, <1>10 DEF RegistryInv, InfoWaits
  <2>2. \A r \in Sessions : client'[r] = "gone" => delivered'[r] # <<>>
    <3>1. delivered[s] # <<>> => delivered'[s] # <<>>
      <4>1. thread[w].job.session = s /\ thread[w].message \in Messages
        BY <1>1, EndJobMoves DEF Serves
      <4>2. \/ delivered' = delivered
            \/ delivered' = [delivered EXCEPT ![s] = Append(@, thread[w].message)]
        BY <4>1, EndJobMoves
      <4>3. CASE delivered' = [delivered EXCEPT ![s] = Append(@, thread[w].message)]
        <5>1. Len(delivered[s]) \in Nat /\ DOMAIN delivered'[s] = 1..(Len(delivered[s]) + 1)
          BY <4>1, <4>3, Sent
        <5>2. 1 \in DOMAIN delivered'[s] /\ DOMAIN <<>> = {}
          BY <5>1
        <5> QED
          BY <5>2
      <4> QED
        BY <4>2, <4>3
    <3> QED
      BY <1>4, <1>9, <3>1 DEF RegistryInv, InfoWaits
  <2>3. \A r \in Sessions : client'[r] \in {"up", "gone"} /\ delivered'[r] # <<>> =>
            Registered(r)'
    BY <1>4, <1>7, <1>8, <1>9 DEF RegistryInv, InfoWaits
  <2>4. \A v \in Workers, r \in Sessions : Serves(v, r)' => client'[r] # "none"
    BY <1>2, <1>3 DEF Serves
  <2>5. \A r \in Sessions : Serves(Listener, r)' => client'[r] = "seen" /\ Registered(r)'
    BY <1>3, <1>4, <1>7, <1>8, ServesFrame DEF RegistryInv, InfoWaits
  <2>6. thread'[Listener].pc \in {"idle", "test", "lookup", "use"}
    BY <1>3 DEF RegistryInv, InfoWaits
  <2>7. \A i \in DOMAIN jobs' : client'[jobs'[i].session] # "none"
    BY <1>4 DEF RegistryInv, InfoWaits
  <2> QED
    BY <2>1, <2>2, <2>3, <2>4, <2>5, <2>6, <2>7 DEF InfoWaits
<1> QED
  BY <1>11, <1>12, <1>13 DEF RegistryInv

LEMMA NextRegistry ==
    ASSUME OneWorker, Patient, TypesInv, RegistryInv, [Next]_vars
    PROVE  RegistryInv'
<1>1. CASE UNCHANGED vars
  <2>1. UNCHANGED <<static, queues, infos, thread, client, jobs, delivered>>
    BY <1>1 DEF vars, sessionVars, clientVars
  <2>2. OneQueue' /\ \A r : InfoOf(r)' = InfoOf(r) /\ (Registered(r)' <=> Registered(r))
    BY <2>1, SameInfos, SameQueue DEF RegistryInv, TypesInv
  <2>3. \A t, r : Serves(t, r)' <=> Serves(t, r)
    BY <2>1, ServesFrame
  <2>4. \A t \in Threads : Found(t)'
    BY <2>1, <2>2, FoundFrame DEF RegistryInv
  <2>5. InfoWaits'
    BY <2>1, <2>2, <2>3 DEF RegistryInv, InfoWaits
  <2> QED
    BY <2>2, <2>4, <2>5 DEF RegistryInv
<1>2. CASE Next
  BY <1>2, ClientRegistry, NoticeRegistry, TestQueueRegistry, MakeQueueRegistry,
     LookupRegistry, CreateRegistry, TurnRegistry, AddJobRegistry, EndJobRegistry,
     TerminateRegistry DEF Next
<1> QED
  BY <1>1, <1>2

\* With one worker, and clients that hang up only after their notification, the infos
\* are in the one queue that later calls search, one for each session.
THEOREM InfosStayReachable ==
    ASSUME OneWorker, Patient
    PROVE  Spec => []InfosReachable
<1>1. TypesInv /\ RegistryInv => InfosReachable
  <2> SUFFICES ASSUME TypesInv, RegistryInv PROVE InfosReachable
    OBVIOUS
  <2>1. \A i \in DOMAIN infos : ~infos[i].removed => i \in ToSet(queues[static])
    <3>1. static = 0 => DOMAIN infos = {}
      <4>1. DOMAIN <<>> = {}
        OBVIOUS
      <4> QED
        BY <4>1 DEF RegistryInv, OneQueue
    <3> QED
      BY <3>1 DEF RegistryInv, OneQueue, Live
  <2>2. \A i, j \in DOMAIN infos :
          infos[i].session = infos[j].session /\ i # j => infos[i].removed \/ infos[j].removed
    BY DEF RegistryInv, OneQueue, Live
  <2> QED
    BY <2>1, <2>2 DEF InfosReachable
<1>2. Init => TypesInv /\ RegistryInv
  BY InitTypes, InitRegistry
<1>3. TypesInv /\ RegistryInv /\ [Next]_vars => TypesInv' /\ RegistryInv'
  BY NextTypes, NextRegistry
<1> QED
  BY <1>1, <1>2, <1>3, PTL DEF Spec
-----------------------------------------------------------------------------
(* A job that was outstanding when the end of its session was marked gets  *)
(* no reply: until it ends, its info is the session's only one, and marked.*)

LEMMA NumberFacts ==
    ASSUME TypesInv
    PROVE  /\ MaxRequests \in Nat
           /\ \A i \in DOMAIN jobs : jobs[i] \in Jobs /\ jobs[i].num \in Nat
                                     /\ jobs[i].session \in Sessions
           /\ \A s \in Sessions : sent[s] \in Nat
           /\ \A t \in Threads : thread[t] # Idle =>
                thread[t].job.num \in Nat /\ thread[t].job.session \in Sessions
           /\ \A s \in Sessions : \A i \in DOMAIN delivered[s] :
                delivered[s][i].replySequence \in Nat
<1>1. MaxRequests \in Nat
  BY NdmpMessagesAssumption
<1>2. \A i \in DOMAIN jobs : jobs[i] \in Jobs
  BY ElementOfSeq, LenProperties DEF TypesInv
<1>3. \A i \in DOMAIN jobs : jobs[i].num \in Nat /\ jobs[i].session \in Sessions
  BY <1>1, <1>2 DEF Jobs
<1>4. \A s \in Sessions : sent[s] \in Nat
  BY <1>1 DEF TypesInv
<1>5. \A t \in Threads : thread[t] # Idle =>
        thread[t].job.num \in Nat /\ thread[t].job.session \in Sessions
  BY <1>1 DEF TypesInv, Holds, Jobs
<1>6. \A s \in Sessions : \A i \in DOMAIN delivered[s] :
        delivered[s][i].replySequence \in Nat
  BY <1>1, SequenceFacts DEF Messages
<1> QED
  BY <1>1, <1>2, <1>3, <1>4, <1>5, <1>6

Marked(s) == \E i \in InfoOf(s) : infos[i].terminated

LEMMA InitSilence == Init => SilenceInv
<1> SUFFICES ASSUME Init PROVE SilenceInv
  OBVIOUS
<1>1. DOMAIN <<>> = {}
  OBVIOUS
<1>2. \A w \in Workers : thread[w] = Idle
  BY DEF Init, Threads
<1>3. JobsInOrder
  BY <1>1, <1>2 DEF Init, JobsInOrder, Serves
<1>4. JobsListed
  BY <1>1, <1>2 DEF Init, JobsListed, InfoOf, Live
<1> QED
  BY <1>1, <1>3, <1>4 DEF Init, SilenceInv, OutstandingSilenced

\* A step that takes, sends and queues nothing: which jobs are handled, and which infos
\* list and mark them, is all that counts.
LEMMA SilenceFrame ==
    ASSUME SilenceInv, UNCHANGED <<jobs, sent, delivered, outstanding>>,
           \A s \in Sessions : client[s] = "seen" => client'[s] = "seen",
           \A w \in Workers, s \in Sessions : Serves(w, s)' =>
                /\ Serves(w, s) /\ thread'[w].job.num = thread[w].job.num
                /\ thread'[w].pc = "count" \/ thread'[w].next = "end" =>
                    thread'[w].message.replySequence = thread[w].job.num
                /\ \A n \in 0..MaxRequests : Handling(w, s, n) => Handling(w, s, n)',
           \A s \in Sessions : \A i \in InfoOf(s)' : \A n \in infos'[i].jobs :
                \E w \in Workers : Handling(w, s, n)',
           \A s \in Sessions : Marked(s) => Marked(s)'
    PROVE  SilenceInv'
<1>1. JobsInOrder'
  <2>1. ASSUME NEW w \in Workers, NEW s \in Sessions, Serves(w, s)'
        PROVE  /\ thread'[w].job.num <= sent'[s]
               /\ \A i \in DOMAIN jobs' :
                    jobs'[i].session = s => thread'[w].job.num < jobs'[i].num
               /\ \A i \in DOMAIN delivered'[s] :
                    delivered'[s][i].replySequence < thread'[w].job.num
               /\ thread'[w].pc = "count" \/ thread'[w].next = "end" =>
                    thread'[w].message.replySequence = thread'[w].job.num
    BY <2>1 DEF SilenceInv, JobsInOrder
  <2>2. /\ \A i \in DOMAIN jobs' : jobs'[i].num <= sent'[jobs'[i].session]
        /\ \A i, j \in DOMAIN jobs' :
            i < j /\ jobs'[i].session = jobs'[j].session => jobs'[i].num < jobs'[j].num
        /\ \A s \in Sessions : \A i \in DOMAIN delivered'[s] :
            /\ delivered'[s][i].replySequence <= sent'[s]
            /\ \A j \in DOMAIN jobs' :
                jobs'[j].session = s => delivered'[s][i].replySequence < jobs'[j].num
    BY DEF SilenceInv, JobsInOrder
  <2> QED
    BY <2>1, <2>2 DEF JobsInOrder
<1>2. JobsListed'
  <2>1. ASSUME NEW s \in Sessions, NEW n \in 0..MaxRequests, <<s, n>> \in outstanding'
        PROVE  /\ n <= sent'[s] /\ client'[s] = "seen"
               /\ \A i \in DOMAIN jobs' : jobs'[i].session = s => n < jobs'[i].num
               /\ \A w \in Workers : Serves(w, s)' =>
                    n < thread'[w].job.num \/ (Handling(w, s, n)' /\ Marked(s)')
    <3>1. /\ n <= sent[s] /\ client[s] = "seen"
          /\ \A i \in DOMAIN jobs : jobs[i].session = s => n < jobs[i].num
          /\ \A w \in Workers : Serves(w, s) =>
                n < thread[w].job.num \/ (Handling(w, s, n) /\ Marked(s))
      BY <2>1 DEF SilenceInv, JobsListed, Marked
    <3> QED
      BY <3>1
  <2> QED
    BY <2>1 DEF JobsListed, Marked
<1>3. OutstandingSilenced'
  BY DEF SilenceInv, OutstandingSilenced
<1> QED
  BY <1>1, <1>2, <1>3 DEF SilenceInv

\* Only an idle or a waiting client connects or sends: it has no outstanding job.
LEMMA QueueSilence ==
    ASSUME OneWorker, TypesInv, RegistryInv, SilenceInv, NEW s \in Sessions,
           NEW n \in 0..MaxRequests, NEW op \in Requests \cup {Notify}, QueueJob(s, n, op),
           UNCHANGED <<infos, thread, delivered, outstanding>>,
           client[s] # "seen", \A r \in Sessions \ {s} : client'[r] = client[r],
           \A r \in Sessions : sent'[r] \in Nat /\ sent[r] <= sent'[r], n <= sent'[s],
           \A i \in DOMAIN jobs : jobs[i].session = s => jobs[i].num < n,
           \A w \in Workers : Serves(w, s) => thread[w].job.num < n,
           \A i \in DOMAIN delivered[s] : delivered[s][i].replySequence < n
    PROVE  SilenceInv'
<1>1. PICK k : k = Len(jobs)
  OBVIOUS
<1>2. /\ k \in Nat /\ DOMAIN jobs = 1..k /\ DOMAIN jobs' = 1..(k + 1)
      /\ \A i \in DOMAIN jobs : jobs'[i] = jobs[i]
      /\ jobs'[k + 1] = [session |-> s, num |-> n, op |-> op]
  BY <1>1, JobQueued
<1>3. \A i \in DOMAIN jobs' :
        \/ i \in DOMAIN jobs /\ i <= k /\ jobs'[i] = jobs[i]
        \/ i = k + 1 /\ jobs'[i].session = s /\ jobs'[i].num = n
  <2>1. \A i \in DOMAIN jobs' : i \in 1..k \/ i = k + 1
    BY <1>2
  <2> QED
    BY <1>2, <2>1
<1>4. \A w, r : Serves(w, r)' <=> Serves(w, r)
  BY ServesFrame
<1>5. JobsInOrder'
  <2>1. \A i \in DOMAIN jobs' : jobs'[i].num <= sent'[jobs'[i].session]
    <3>1. \A i \in DOMAIN jobs : jobs[i].num <= sent[jobs[i].session]
      BY DEF SilenceInv, JobsInOrder
    <3>2. \A i \in DOMAIN jobs : jobs[i].num <= sent'[jobs[i].session]
      BY <3>1, NumberFacts
    <3> QED
      BY <1>3, <3>2
  <2>2. \A i, j \in DOMAIN jobs' :
            i < j /\ jobs'[i].session = jobs'[j].session => jobs'[i].num < jobs'[j].num
    <3>1. \A i, j \in DOMAIN jobs :
            i < j /\ jobs[i].session = jobs[j].session => jobs[i].num < jobs[j].num
      BY DEF SilenceInv, JobsInOrder
    <3>2. \A i, j \in DOMAIN jobs' : i = k + 1 => ~(i < j)
      BY <1>2
    <3> QED
      BY <1>3, <3>1, <3>2
  <2>3. \A w \in Workers, r \in Sessions : Serves(w, r)' =>
        /\ thread'[w].job.num <= sent'[r]
        /\ \A i \in DOMAIN jobs' : jobs'[i].session = r => thread'[w].job.num < jobs'[i].num
        /\ \A i \in DOMAIN delivered'[r] :
            delivered'[r][i].replySequence < thread'[w].job.num
        /\ thread'[w].pc = "count" \/ thread'[w].next = "end" =>
            thread'[w].message.replySequence = thread'[w].job.num
    <3>1. ASSUME NEW w \in Workers, NEW r \in Sessions, Serves(w, r)
          PROVE  thread[w].job.num <= sent'[r]
      <4>1. thread[w].job.num <= sent[r]
        BY <3>1 DEF SilenceInv, JobsInOrder
      <4>2. thread[w].job.num \in Nat
        BY <3>1, NumberFacts DEF Serves, Threads
      <4> QED
        BY <4>1, <4>2, NumberFacts
    <3> QED
      BY <1>3, <1>4, <3>1 DEF SilenceInv, JobsInOrder
  <2>4. \A r \in Sessions : \A i \in DOMAIN delivered'[r] :
        /\ delivered'[r][i].replySequence <= sent'[r]
        /\ \A j \in DOMAIN jobs' :
            jobs'[j].session = r => delivered'[r][i].replySequence < jobs'[j].num
    <3>1. ASSUME NEW r \in Sessions, NEW i \in DOMAIN delivered[r]
          PROVE  delivered[r][i].replySequence <= sent'[r]
      <4>1. delivered[r][i].replySequence <= sent[r]
        BY DEF SilenceInv, JobsInOrder
      <4> QED
        BY <4>1, NumberFacts
    <3> QED
      BY <1>3, <3>1 DEF SilenceInv, JobsInOrder
  <2> QED
    BY <2>1, <2>2, <2>3, <2>4 DEF JobsInOrder
<1>6. JobsListed'
  <2>1. \A r : InfoOf(r)' = InfoOf(r)
    BY SameInfos
  <2>2. \A w, r, m : Handling(w, r, m)' <=> Handling(w, r, m)
    BY <1>4 DEF Handling
  <2>3. \A r \in Sessions : \A i \in InfoOf(r)' : \A m \in infos'[i].jobs :
            \E w \in Workers : Handling(w, r, m)'
    BY <2>1, <2>2 DEF SilenceInv, JobsListed
  <2>4. ASSUME NEW r \in Sessions, NEW m \in 0..MaxRequests, <<r, m>> \in outstanding'
        PROVE  /\ m <= sent'[r] /\ client'[r] = "seen"
               /\ \A i \in DOMAIN jobs' : jobs'[i].session = r => m < jobs'[i].num
               /\ \A w \in Workers : Serves(w, r)' =>
                    \/ m < thread'[w].job.num
                    \/ Handling(w, r, m)' /\ \E i \in InfoOf(r)' : infos'[i].terminated
    <3>1. /\ m <= sent[r] /\ client[r] = "seen"
          /\ \A i \in DOMAIN jobs : jobs[i].session = r => m < jobs[i].num
          /\ \A w \in Workers : Serves(w, r) =>
                \/ m < thread[w].job.num
                \/ Handling(w, r, m) /\ \E i \in InfoOf(r) : infos[i].terminated
      BY <2>4 DEF SilenceInv, JobsListed
    <3>2. r # s
      BY <3>1
    <3>3. m <= sent'[r]
      <4>1. m \in Nat
        BY NumberFacts
      <4> QED
        BY <3>1, <4>1, NumberFacts
    <3> QED
      BY <1>3, <1>4, <2>1, <2>2, <3>1, <3>2, <3>3
  <2> QED
    BY <2>3, <2>4 DEF JobsListed
<1>7. OutstandingSilenced'
  BY DEF SilenceInv, OutstandingSilenced
<1> QED
  BY <1>5, <1>6, <1>7 DEF SilenceInv

LEMMA ClientSilence ==
    ASSUME OneWorker, TypesInv, RegistryInv, SilenceInv, NEW s \in Sessions,
           Connect(s) \/ HangUp(s) \/ \E op \in Requests : Send(s, op)
    PROVE  SilenceInv'
<1>1. CASE Connect(s)
  <2>1. /\ QueueJob(s, 0, Notify) /\ UNCHANGED <<infos, thread, delivered, outstanding, sent>>
        /\ client[s] = "none" /\ client' = [client EXCEPT ![s] = "up"]
    BY <1>1 DEF Connect, sessionVars
  <2>2. 0 \in 0..MaxRequests /\ Notify \in Requests \cup {Notify}
    BY NumberFacts
  <2>3. /\ \A i \in DOMAIN jobs : jobs[i].session # s
        /\ \A w \in Workers : ~Serves(w, s)
        /\ delivered[s] = <<>>
    BY <2>1 DEF RegistryInv, InfoWaits
  <2>4. DOMAIN <<>> = {}
    OBVIOUS
  <2>5. \A r \in Sessions : sent'[r] \in Nat /\ sent[r] <= sent'[r] /\ 0 <= sent'[r]
    BY <2>1, NumberFacts
  <2>6. \A r \in Sessions \ {s} : client'[r] = client[r]
    BY <2>1 DEF TypesInv
  <2> QED
    BY <2>1, <2>2, <2>3, <2>4, <2>5, <2>6, QueueSilence
<1>2. ASSUME NEW op \in Requests, Send(s, op) PROVE SilenceInv'
  <2>1. PICK n : n = sent[s] + 1
    OBVIOUS
  <2>2. /\ QueueJob(s, n, op) /\ UNCHANGED <<infos, thread, delivered, outstanding, client>>
        /\ client[s] = "up" /\ sent' = [sent EXCEPT ![s] = n] /\ sent[s] < MaxRequests
    BY <1>2, <2>1 DEF Send, sessionVars
  <2>3. n \in 0..MaxRequests /\ sent[s] \in Nat /\ sent[s] < n
    BY <2>1, <2>2, NumberFacts
  <2>4. \A r \in Sessions : sent'[r] \in Nat /\ sent[r] <= sent'[r]
    <3>1. sent'[s] = n /\ \A r \in Sessions \ {s} : sent'[r] = sent[r]
      BY <2>2 DEF TypesInv
    <3> QED
      BY <2>3, <3>1, NumberFacts
  <2>5. n <= sent'[s]
    BY <2>2, <2>3 DEF TypesInv
  <2>6. \A i \in DOMAIN jobs : jobs[i].session = s => jobs[i].num < n
    <3>1. \A i \in DOMAIN jobs : jobs[i].session = s => jobs[i].num <= sent[s]
      BY DEF SilenceInv, JobsInOrder
    <3> QED
      BY <2>3, <3>1, NumberFacts
  <2>7. \A w \in Workers : Serves(w, s) => thread[w].job.num < n
    <3>1. \A w \in Workers : Serves(w, s) =>
            thread[w].job.num <= sent[s] /\ thread[w].job.num \in Nat
      BY NumberFacts DEF SilenceInv, JobsInOrder, Serves, Threads
    <3> QED
      BY <2>3, <3>1
  <2>8. \A i \in DOMAIN delivered[s] : delivered[s][i].replySequence < n
    <3>1. \A i \in DOMAIN delivered[s] : delivered[s][i].replySequence <= sent[s]
      BY DEF SilenceInv, JobsInOrder
    <3> QED
      BY <2>3, <3>1, NumberFacts
  <2> QED
    BY <2>2, <2>3, <2>4, <2>5, <2>6, <2>7, <2>8, QueueSilence
<1>3. CASE HangUp(s)
  <2>1. /\ UNCHANGED <<jobs, sent, delivered, outstanding, infos, thread>>
        /\ client[s] = "up" /\ client' = [client EXCEPT ![s] = "gone"]
    BY <1>3 DEF HangUp, sessionVars
  <2>2. \A r \in Sessions : client[r] = "seen" => client'[r] = "seen"
    BY <2>1 DEF TypesInv
  <2>3. \A w, r : Serves(w, r)' <=> Serves(w, r)
    BY <2>1, ServesFrame
  <2>4. \A w, r, m : Handling(w, r, m)' <=> Handling(w, r, m)
    BY <2>1, <2>3 DEF Handling
  <2>5. \A r : InfoOf(r)' = InfoOf(r) /\ (Marked(r)' <=> Marked(r))
    BY <2>1, SameInfos DEF Marked
  <2>6. \A r \in Sessions : \A i \in InfoOf(r)' : \A n \in infos'[i].jobs :
            \E w \in Workers : Handling(w, r, n)'
    BY <2>1, <2>4, <2>5 DEF SilenceInv, JobsListed
  <2>7. \A w \in Workers, r \in Sessions : Serves(w, r)' =>
            (thread'[w].pc = "count" \/ thread'[w].next = "end" =>
                thread'[w].message.replySequence = thread[w].job.num)
    BY <2>1, <2>3 DEF SilenceInv, JobsInOrder
  <2> QED
    BY <2>1, <2>2, <2>3, <2>4, <2>5, <2>6, <2>7, SilenceFrame
<1> QED
  BY <1>1, <1>2, <1>3

LEMMA NoticeSilence ==
    ASSUME OneWorker, TypesInv, RegistryInv, SilenceInv, NEW s \in Sessions, NoticeHangUp(s)
    PROVE  SilenceInv'
<1>1. UNCHANGED <<jobs, sent, delivered, outstanding, infos>>
  BY DEF NoticeHangUp, sessionVars
<1>2. OthersStay(Listener) /\ client' = [client EXCEPT ![s] = "seen"]
  BY NoticeMoves
<1>3. \A r \in Sessions : client[r] = "seen" => client'[r] = "seen"
  BY <1>2 DEF TypesInv
<1>4. \A w \in Workers : thread'[w] = thread[w]
  BY <1>2, NdmpMessagesAssumption DEF OthersStay, Threads
<1>5. \A w \in Workers : \A r : Serves(w, r)' <=> Serves(w, r)
  BY <1>4, ServesFrame
<1>6. \A w \in Workers : \A r, n : Handling(w, r, n)' <=> Handling(w, r, n)
  BY <1>4, <1>5 DEF Handling
<1>7. \A r : InfoOf(r)' = InfoOf(r) /\ (Marked(r)' <=> Marked(r))
  BY <1>1, SameInfos DEF Marked
<1>8. \A r \in Sessions : \A i \in InfoOf(r)' : \A n \in infos'[i].jobs :
        \E w \in Workers : Handling(w, r, n)'
  BY <1>1, <1>6, <1>7 DEF SilenceInv, JobsListed
<1>9. \A w \in Workers, r \in Sessions : Serves(w, r)' =>
        (thread'[w].pc = "count" \/ thread'[w].next = "end" =>
            thread'[w].message.replySequence = thread[w].job.num)
  BY <1>4, <1>5 DEF SilenceInv, JobsInOrder
<1> QED
  BY <1>1, <1>3, <1>4, <1>5, <1>6, <1>7, <1>8, <1>9, SilenceFrame

\* get_session_info marks no info and makes one without jobs.
LEMMA SessionSilence ==
    ASSUME OneWorker, TypesInv, RegistryInv, SilenceInv, NEW t \in Threads,
           TestQueue(t) \/ MakeQueue(t) \/ Lookup(t) \/ Create(t)
    PROVE  SilenceInv'
<1>1. UNCHANGED <<jobs, sent, delivered, outstanding, client>>
  BY SessionStep DEF OnlySessions, clientVars
<1>2. /\ OthersStay(t) /\ Keeps(t) /\ thread[t] # Idle /\ thread'[t] # Idle
      /\ thread[t].pc \notin {"handle", "count"} /\ thread'[t].pc \notin {"handle", "count"}
  BY SessionStep
<1>3. \A w \in Workers : /\ thread'[w].job = thread[w].job
                         /\ thread'[w].next = thread[w].next
                         /\ thread'[w].message = thread[w].message
                         /\ thread'[w] = Idle <=> thread[w] = Idle
                         /\ \A pc \in {"handle", "count"} :
                                thread'[w].pc = pc <=> thread[w].pc = pc
  <2>1. \A w \in Workers : w = t \/ w \in Threads \ {t}
    BY DEF Threads
  <2> QED
    BY <1>2, <2>1 DEF Keeps, OthersStay
<1>4. \A w \in Workers : \A r : Serves(w, r)' <=> Serves(w, r)
  BY <1>3 DEF Serves
<1>5. \A w \in Workers : \A r, n : Handling(w, r, n)' <=> Handling(w, r, n)
  BY <1>3, <1>4 DEF Handling
<1>6. /\ DOMAIN infos \subseteq DOMAIN infos'
      /\ \A i \in DOMAIN infos : infos'[i] = infos[i]
      /\ \A i \in DOMAIN infos' \ DOMAIN infos : infos'[i].jobs = {}
  <2>1. CASE Create(t)
    <3>1. /\ DOMAIN infos = 1..Len(infos) /\ DOMAIN infos' = 1..(Len(infos) + 1)
          /\ \A i \in DOMAIN infos : infos'[i] = infos[i]
          /\ infos'[Len(infos) + 1] = NewInfo(thread[t].job.session) /\ Len(infos) \in Nat
      BY <2>1, CreateMoves
    <3>2. infos'[Len(infos) + 1].jobs = {}
      BY <3>1 DEF NewInfo
    <3>3. \A i \in DOMAIN infos' \ DOMAIN infos : i = Len(infos) + 1
      BY <3>1
    <3> QED
      BY <3>1, <3>2, <3>3
  <2>2. CASE TestQueue(t) \/ MakeQueue(t) \/ Lookup(t)
    BY <2>2 DEF TestQueue, MakeQueue, Lookup, sessionVars
  <2> QED
    BY <2>1, <2>2
<1>7. \A r \in Sessions : \A i \in InfoOf(r) : i \in InfoOf(r)' /\ infos'[i] = infos[i]
  BY <1>6 DEF InfoOf, Live
<1>8. \A r \in Sessions : \A i \in InfoOf(r)' :
        (i \in InfoOf(r) /\ infos'[i] = infos[i]) \/ infos'[i].jobs = {}
  BY <1>6 DEF InfoOf, Live
<1>9. \A r \in Sessions : Marked(r) => Marked(r)'
  BY <1>7 DEF Marked
<1>10. \A r \in Sessions : \A i \in InfoOf(r)' : \A n \in infos'[i].jobs :
        \E w \in Workers : Handling(w, r, n)'
  BY <1>5, <1>8 DEF SilenceInv, JobsListed
<1>11. \A w \in Workers, r \in Sessions : Serves(w, r)' =>
        (thread'[w].pc = "count" \/ thread'[w].next = "end" =>
            thread'[w].message.replySequence = thread[w].job.num)
  BY <1>3, <1>4 DEF SilenceInv, JobsInOrder
<1> QED
  BY <1>1, <1>3, <1>4, <1>5, <1>9, <1>10, <1>11, SilenceFrame

\* A job is taken when no other is handled: no info lists any.
LEMMA TakeSilence ==
    ASSUME OneWorker, TypesInv, RegistryInv, SilenceInv, NEW w \in Workers, Take(w)
    PROVE  SilenceInv'
<1>1. PICK k : k = Len(jobs)
  OBVIOUS
<1>2. /\ jobs \in Seq(Jobs) /\ jobs # <<>> /\ jobs' = Tail(jobs) /\ jobs[1] \in Jobs
      /\ thread[w] = Idle /\ OthersStay(w) /\ thread'[w].pc = "test"
      /\ thread'[w].next = "add" /\ thread'[w].job = jobs[1] /\ thread'[w] # Idle
  BY TakeMoves
<1>3. UNCHANGED <<sent, delivered, outstanding, infos, client>>
  BY DEF Take, clientVars, sessionVars
<1>4. /\ k \in Nat /\ DOMAIN jobs = 1..k /\ 1 \in DOMAIN jobs /\ DOMAIN jobs' = 1..(k - 1)
      /\ \A i \in DOMAIN jobs' : jobs'[i] = jobs[i + 1]
  BY <1>1, <1>2, TailProperties, LenProperties, EmptySeq
<1>5. \A i \in DOMAIN jobs' : i + 1 \in DOMAIN jobs /\ i \in Nat /\ 1 < i + 1
  BY <1>4
<1>6. Workers = {w}
  BY TwoThreads
<1>7. \A r \in Sessions : ~Serves(w, r) /\ (Serves(w, r)' => jobs[1].session = r)
  BY <1>2 DEF Serves
<1>8. JobsInOrder'
  <2>1. \A i \in DOMAIN jobs' : jobs'[i].num <= sent'[jobs'[i].session]
    BY <1>3, <1>4, <1>5 DEF SilenceInv, JobsInOrder
  <2>2. \A i, j \in DOMAIN jobs' :
            i < j /\ jobs'[i].session = jobs'[j].session => jobs'[i].num < jobs'[j].num
    <3>1. \A i, j \in DOMAIN jobs' : i < j => i + 1 < j + 1
      BY <1>5
    <3> QED
      BY <1>4, <1>5, <3>1 DEF SilenceInv, JobsInOrder
  <2>3. ASSUME NEW r \in Sessions, Serves(w, r)'
        PROVE  /\ thread'[w].job.num <= sent'[r]
               /\ \A i \in DOMAIN jobs' :
                    jobs'[i].session = r => thread'[w].job.num < jobs'[i].num
               /\ \A i \in DOMAIN delivered'[r] :
                    delivered'[r][i].replySequence < thread'[w].job.num
               /\ ~(thread'[w].pc = "count" \/ thread'[w].next = "end")
    <3>1. jobs[1].session = r
      BY <1>7, <2>3
    <3>2. \A i \in DOMAIN jobs' : jobs'[i].session = r => jobs[1].num < jobs'[i].num
      BY <1>4, <1>5, <3>1 DEF SilenceInv, JobsInOrder
    <3>3. jobs[1].num <= sent[r]
      BY <1>4, <3>1 DEF SilenceInv, JobsInOrder
    <3>4. \A i \in DOMAIN delivered[r] : delivered[r][i].replySequence < jobs[1].num
      BY <1>4, <3>1 DEF SilenceInv, JobsInOrder
    <3> QED
      BY <1>2, <1>3, <3>2, <3>3, <3>4
  <2>4. \A r \in Sessions : \A i \in DOMAIN delivered'[r] :
        /\ delivered'[r][i].replySequence <= sent'[r]
        /\ \A j \in DOMAIN jobs' :
            jobs'[j].session = r => delivered'[r][i].replySequence < jobs'[j].num
    BY <1>3, <1>4, <1>5 DEF SilenceInv, JobsInOrder
  <2> QED
    BY <1>6, <2>1, <2>2, <2>3, <2>4 DEF JobsInOrder
<1>9. JobsListed'
  <2>1. \A r : InfoOf(r)' = InfoOf(r)
    BY <1>3, SameInfos
  <2>2. \A r \in Sessions : \A i \in InfoOf(r)' : infos'[i].jobs = {}
    BY <1>3, <1>6, <1>7, <2>1 DEF SilenceInv, JobsListed, Handling
  <2>3. ASSUME NEW r \in Sessions, NEW n \in 0..MaxRequests, <<r, n>> \in outstanding'
        PROVE  /\ n <= sent'[r] /\ client'[r] = "seen"
               /\ \A i \in DOMAIN jobs' : jobs'[i].session = r => n < jobs'[i].num
               /\ Serves(w, r)' => n < thread'[w].job.num
    <3>1. /\ n <= sent[r] /\ client[r] = "seen"
          /\ \A i \in DOMAIN jobs : jobs[i].session = r => n < jobs[i].num
      BY <1>3, <2>3 DEF SilenceInv, JobsListed
    <3> QED
      BY <1>2, <1>3, <1>4, <1>5, <1>7, <3>1
  <2> QED
    BY <1>6, <2>2, <2>3 DEF JobsListed
<1>10. OutstandingSilenced'
  BY <1>3 DEF SilenceInv, OutstandingSilenced
<1> QED
  BY <1>8, <1>9, <1>10 DEF SilenceInv

\* The job that an info now lists is the one that is handled from here on.
LEMMA AddJobSilence ==
    ASSUME OneWorker, TypesInv, RegistryInv, SilenceInv, NEW w \in Workers, AddJob(w)
    PROVE  SilenceInv'
<1>1. PICK a : a = thread[w].info
  OBVIOUS
<1>2. /\ w \in Threads /\ thread[w].pc = "use" /\ thread[w].next = "add"
      /\ thread[w] # Idle /\ thread[w].job \in Jobs /\ a \in DOMAIN infos
      /\ OthersStay(w) /\ Keeps(w) /\ thread'[w].pc = "handle" /\ thread'[w] # Idle
      /\ DOMAIN infos' = DOMAIN infos
      /\ infos'[a] = [infos[a] EXCEPT !.jobs = @ \cup {thread[w].job.num}]
      /\ \A j \in DOMAIN infos \ {a} : infos'[j] = infos[j]
  BY <1>1, AddJobMoves
<1>3. infos[a] \in Infos
  BY <1>2, InfoFacts
<1>4. /\ infos'[a].session = infos[a].session /\ infos'[a].removed = infos[a].removed
      /\ infos'[a].terminated = infos[a].terminated
      /\ infos'[a].jobs = infos[a].jobs \cup {thread[w].job.num}
  BY <1>2, <1>3 DEF Infos
<1>5. \A i \in DOMAIN infos : /\ infos'[i].session = infos[i].session
                              /\ infos'[i].removed = infos[i].removed
                              /\ infos'[i].terminated = infos[i].terminated
  BY <1>2, <1>4
<1>6. \A r : InfoOf(r)' = InfoOf(r)
  BY <1>2, <1>5, SameInfos
<1>7. UNCHANGED <<jobs, sent, delivered, outstanding, client>>
  BY DEF AddJob, OnlySessions, clientVars
<1>8. Workers = {w}
  BY TwoThreads
<1>9. \A r : Serves(w, r)' <=> Serves(w, r)
  BY <1>2 DEF Serves, Keeps
<1>10. \A r, n : ~Handling(w, r, n)
  BY <1>2 DEF Handling
<1>11. \A r \in Sessions : Serves(w, r) => a \in InfoOf(r)
  BY <1>1, <1>2 DEF RegistryInv, Found
<1>12. PICK s \in Sessions : Serves(w, s)
  BY <1>2 DEF Serves, Jobs
<1>13. a \in InfoOf(s) /\ infos[a].session = s
  BY <1>11, <1>12 DEF InfoOf
<1>14. \A r \in Sessions : \A i \in InfoOf(r)' : \A n \in infos'[i].jobs : Handling(w, r, n)'
  <2>1. \A r \in Sessions : \A i \in InfoOf(r) : infos[i].jobs = {}
    BY <1>8, <1>10 DEF SilenceInv, JobsListed
  <2>2. \A r \in Sessions : \A i \in InfoOf(r) : i = a => r = s
    BY <1>13 DEF InfoOf
  <2> PICK m : m = thread[w].job.num
    OBVIOUS
  <2>3. Handling(w, s, m)'
    BY <1>2, <1>9, <1>12 DEF Handling, Keeps
  <2>4. infos'[a].jobs = {m}
    BY <1>4, <1>13, <2>1
  <2>5. \A r \in Sessions : \A i \in InfoOf(r) : i # a => infos'[i].jobs = {}
    BY <1>2, <2>1 DEF InfoOf, Live
  <2>6. \A r \in Sessions : \A i \in InfoOf(r) : \A n \in infos'[i].jobs :
            r = s /\ n = m
    BY <2>2, <2>4, <2>5
  <2> QED
    BY <1>6, <2>3, <2>6
<1>15. \A r \in Sessions : Marked(r) => Marked(r)'
  BY <1>5, <1>6 DEF Marked, InfoOf, Live
<1>16. \A v \in Workers, r \in Sessions : Serves(v, r)' =>
        /\ Serves(v, r) /\ thread'[v].job.num = thread[v].job.num
        /\ thread'[v].pc = "count" \/ thread'[v].next = "end" =>
            thread'[v].message.replySequence = thread[v].job.num
        /\ \A n \in 0..MaxRequests : Handling(v, r, n) => Handling(v, r, n)'
  BY <1>2, <1>8, <1>9, <1>10 DEF Keeps
<1>17. \A r \in Sessions : \A i \in InfoOf(r)' : \A n \in infos'[i].jobs :
        \E v \in Workers : Handling(v, r, n)'
  BY <1>8, <1>14
<1> QED
  BY <1>7, <1>15, <1>16, <1>17, SilenceFrame

\* The handler answers the job that it has.
LEMMA TurnSilence ==
    ASSUME OneWorker, TypesInv, RegistryInv, SilenceInv, NEW w \in Workers,
           Handle(w) \/ Count(w)
    PROVE  SilenceInv'
<1>1. UNCHANGED <<jobs, sent, delivered, outstanding, client, infos>>
  BY DEF Handle, Count, clientVars, sessionVars
<1>2. Workers = {w}
  BY TwoThreads
<1>3. /\ thread[w] # Idle /\ thread'[w] # Idle /\ thread'[w].job = thread[w].job
      /\ thread'[w].pc = "count" \/ thread'[w].next = "end"
  BY HandleMoves, CountMoves
<1>4. \A r : Serves(w, r)' <=> Serves(w, r)
  BY <1>3 DEF Serves
<1>5. \A r, n : Handling(w, r, n) => Handling(w, r, n)'
  BY <1>3, <1>4 DEF Handling
<1>6. \A r \in Sessions : Serves(w, r) =>
        thread'[w].message.replySequence = thread[w].job.num
  <2>1. CASE Handle(w)
    BY <2>1, HandleMoves
  <2>2. CASE Count(w)
    <3>1. thread[w].pc = "count" /\ thread'[w].message = thread[w].message
      BY <2>2, CountMoves
    <3> QED
      BY <3>1 DEF SilenceInv, JobsInOrder
  <2> QED
    BY <2>1, <2>2
<1>7. \A r : InfoOf(r)' = InfoOf(r) /\ (Marked(r)' <=> Marked(r))
  BY <1>1, SameInfos DEF Marked
<1>8. \A r \in Sessions : \A i \in InfoOf(r)' : \A n \in infos'[i].jobs :
        \E v \in Workers : Handling(v, r, n)'
  BY <1>1, <1>2, <1>5, <1>7 DEF SilenceInv, JobsListed
<1>9. \A v \in Workers, r \in Sessions : Serves(v, r)' =>
        /\ Serves(v, r) /\ thread'[v].job.num = thread[v].job.num
        /\ thread'[v].pc = "count" \/ thread'[v].next = "end" =>
            thread'[v].message.replySequence = thread[v].job.num
        /\ \A n \in 0..MaxRequests : Handling(v, r, n) => Handling(v, r, n)'
  BY <1>2, <1>3, <1>4, <1>5, <1>6
<1>10. /\ \A r \in Sessions : Marked(r) => Marked(r)'
       /\ \A r \in Sessions : client[r] = "seen" => client'[r] = "seen"
       /\ UNCHANGED <<jobs, sent, delivered, outstanding>>
  BY <1>1, <1>7
<1> QED
  BY <1>8, <1>9, <1>10, SilenceFrame

\* The end of a session is marked while the job that is listed has no reply yet.
LEMMA TerminateSilence ==
    ASSUME OneWorker, TypesInv, RegistryInv, SilenceInv, Terminate
    PROVE  SilenceInv'
<1>1. PICK l : l = thread[Listener].info
  OBVIOUS
<1>2. /\ Listener \in Threads /\ thread[Listener].pc = "use" /\ thread[Listener] # Idle
      /\ l \in DOMAIN infos /\ OthersStay(Listener)
      /\ DOMAIN infos' = DOMAIN infos
      /\ infos'[l] = [infos[l] EXCEPT !.terminated = TRUE]
      /\ \A j \in DOMAIN infos \ {l} : infos'[j] = infos[j]
  BY <1>1, TerminateMoves
<1>3. PICK s \in Sessions : /\ Serves(Listener, s) /\ l \in InfoOf(s)
                            /\ client[s] = "seen" /\ thread[Listener].job.session = s
  <2>1. PICK s \in Sessions : Serves(Listener, s) /\ l \in InfoOf(s) /\ client[s] = "seen"
    BY <1>1, <1>2, ListenerServes DEF RegistryInv, Found, InfoWaits
  <2> QED
    BY <2>1 DEF Serves
<1>4. infos[l] \in Infos
  BY <1>2, InfoFacts
<1>5. /\ infos'[l].session = infos[l].session /\ infos'[l].removed = infos[l].removed
      /\ infos'[l].terminated /\ infos'[l].jobs = infos[l].jobs
  BY <1>2, <1>4 DEF Infos
<1>6. \A i \in DOMAIN infos : /\ infos'[i].session = infos[i].session
                              /\ infos'[i].removed = infos[i].removed
                              /\ infos'[i].jobs = infos[i].jobs
                              /\ infos[i].terminated => infos'[i].terminated
  BY <1>2, <1>5
<1>7. \A r : InfoOf(r)' = InfoOf(r)
  BY <1>2, <1>6, SameInfos
<1>8. UNCHANGED <<jobs, sent, delivered, client>>
  BY DEF Terminate, clientVars
<1>9. outstanding' = outstanding \cup {<<s, n>> : n \in infos[l].jobs}
  BY <1>1, <1>3 DEF Terminate
<1>10. \A w \in Workers : thread'[w] = thread[w]
  BY <1>2, NdmpMessagesAssumption DEF OthersStay, Threads
<1>11. \A w \in Workers : \A r : Serves(w, r)' <=> Serves(w, r)
  BY <1>10, ServesFrame
<1>12. \A w \in Workers : \A r, n : Handling(w, r, n)' <=> Handling(w, r, n)
  BY <1>10, <1>11 DEF Handling
<1>13. \A n \in infos[l].jobs : \A w \in Workers :
        Handling(w, s, n) /\ Serves(w, s) /\ thread[w].job.num = n
  <2>1. \A n \in infos[l].jobs : \E w \in Workers : Handling(w, s, n)
    BY <1>3 DEF SilenceInv, JobsListed
  <2> QED
    BY <2>1 DEF OneWorker, Handling
<1>14. \A r \in Sessions : Marked(r) => Marked(r)'
  BY <1>6, <1>7 DEF Marked, InfoOf, Live
<1>15. Marked(s)'
  BY <1>3, <1>5, <1>7 DEF Marked
<1>16. JobsInOrder'
  BY <1>8, <1>10, <1>11 DEF SilenceInv, JobsInOrder
<1>17. JobsListed'
  <2>1. \A r \in Sessions : \A i \in InfoOf(r)' : \A n \in infos'[i].jobs :
            \E w \in Workers : Handling(w, r, n)'
    <3>1. \A r \in Sessions : \A i \in InfoOf(r) : i \in DOMAIN infos
      BY DEF InfoOf, Live
    <3> QED
      BY <1>6, <1>7, <1>12, <3>1 DEF SilenceInv, JobsListed
  <2>2. ASSUME NEW r \in Sessions, NEW n \in 0..MaxRequests, <<r, n>> \in outstanding'
        PROVE  /\ n <= sent'[r] /\ client'[r] = "seen"
               /\ \A i \in DOMAIN jobs' : jobs'[i].session = r => n < jobs'[i].num
               /\ \A w \in Workers : Serves(w, r)' =>
                    n < thread'[w].job.num \/ (Handling(w, r, n)' /\ Marked(r)')
    <3>1. CASE <<r, n>> \in outstanding
      <4>1. /\ n <= sent[r] /\ client[r] = "seen"
            /\ \A i \in DOMAIN jobs : jobs[i].session = r => n < jobs[i].num
            /\ \A w \in Workers : Serves(w, r) =>
                n < thread[w].job.num \/ (Handling(w, r, n) /\ Marked(r))
        BY <3>1 DEF SilenceInv, JobsListed, Marked
      <4> QED
        BY <1>8, <1>10, <1>11, <1>12, <1>14, <4>1
    <3>2. CASE <<r, n>> \notin outstanding
      <4>1. r = s /\ n \in infos[l].jobs
        BY <1>9, <2>2, <3>2
      <4>2. \A w \in Workers : Handling(w, s, n) /\ Serves(w, s) /\ thread[w].job.num = n
        BY <1>13, <4>1
      <4>3. PICK w \in Workers : Serves(w, s) /\ thread[w].job.num = n
        BY <1>3, <4>1, <4>2 DEF SilenceInv, JobsListed
      <4>4. n <= sent[s] /\ \A i \in DOMAIN jobs : jobs[i].session = s => n < jobs[i].num
        BY <4>3 DEF SilenceInv, JobsInOrder
      <4> QED
        BY <1>3, <1>8, <1>12, <1>15, <4>1, <4>2, <4>4
    <3> QED
      BY <3>1, <3>2
  <2> QED
    BY <2>1, <2>2 DEF JobsListed, Marked
<1>18. OutstandingSilenced'
  <2>1. ASSUME NEW r \in Sessions, NEW i \in DOMAIN delivered[r],
               <<r, delivered[r][i].replySequence>> \in outstanding'
        PROVE  FALSE
    <3>1. <<r, delivered[r][i].replySequence>> \notin outstanding
      BY DEF SilenceInv, OutstandingSilenced
    <3>2. r = s /\ delivered[r][i].replySequence \in infos[l].jobs
      BY <1>9, <2>1, <3>1
    <3>3. PICK w \in Workers : Handling(w, s, delivered[r][i].replySequence)
      BY <1>3, <3>2 DEF SilenceInv, JobsListed
    <3>4. Serves(w, s) /\ thread[w].job.num = delivered[r][i].replySequence
      BY <3>3 DEF Handling
    <3>5. delivered[r][i].replySequence < thread[w].job.num
      BY <3>2, <3>4 DEF SilenceInv, JobsInOrder
    <3> QED
      BY <3>4, <3>5, NumberFacts
  <2> QED
    BY <1>8, <2>1 DEF OutstandingSilenced
<1> QED
  BY <1>16, <1>17, <1>18 DEF SilenceInv

\* A reply goes out with the number of the job that ends, if the end of its session was
\* not marked.
LEMMA EndJobSilence ==
    ASSUME OneWorker, TypesInv, RegistryInv, SilenceInv, NEW w \in Workers, EndJob(w)
    PROVE  SilenceInv'
<1>1. PICK s \in Sessions, a \in DOMAIN infos, ends \in BOOLEAN :
        /\ Serves(w, s) /\ a = thread[w].info /\ InfoOf(s) = {a} /\ static = 1
        /\ infos' \in Seq(Infos) /\ DOMAIN infos' = DOMAIN infos
        /\ \A j \in DOMAIN infos \ {a} : infos'[j] = infos[j]
        /\ infos'[a] \in Infos /\ infos'[a].session = s
        /\ infos'[a].terminated = infos[a].terminated /\ infos'[a].removed = ends
        /\ infos'[a].jobs = infos[a].jobs \ {thread[w].job.num}
        /\ ends <=> infos[a].terminated /\ infos'[a].jobs = {}
        /\ ~ends => queues' = queues
        /\ ends => \E i \in DOMAIN queues[1] :
             queues[1][i] = a /\ queues' = [queues EXCEPT ![1] = RemoveAt(@, i)]
  BY EndJobMeans, Zenon
<1>2. PICK n : n = thread[w].job.num
  OBVIOUS
<1>3. PICK m : m = thread[w].message
  OBVIOUS
<1>4. /\ w \in Threads /\ thread[w].next = "end" /\ thread[w] # Idle
      /\ thread[w].job.session = s /\ m \in Messages /\ thread'[w] = Idle /\ OthersStay(w)
  BY <1>1, <1>3, EndJobMoves DEF Serves
<1>5. UNCHANGED <<client, sent, jobs, outstanding>>
  BY DEF EndJob, clientVars
<1>6. Workers = {w}
  BY TwoThreads
<1>7. n \in Nat /\ m.replySequence = n
  BY <1>1, <1>2, <1>3, <1>4, NumberFacts DEF SilenceInv, JobsInOrder
<1>8. \A r : ~Serves(w, r)'
  BY <1>4 DEF Serves
<1>9. \/ infos[a].terminated /\ delivered' = delivered
      \/ ~infos[a].terminated /\ delivered' = [delivered EXCEPT ![s] = Append(@, m)]
  BY <1>1, <1>3, <1>4, EndJobMoves
\* What is sent is old, or the reply to this job.
<1>10. \A r \in Sessions : \A i \in DOMAIN delivered'[r] :
        \/ i \in DOMAIN delivered[r] /\ delivered'[r][i] = delivered[r][i]
        \/ r = s /\ ~infos[a].terminated /\ delivered'[r][i] = m
  <2>1. CASE delivered' = delivered
    BY <2>1
  <2>2. CASE ~infos[a].terminated /\ delivered' = [delivered EXCEPT ![s] = Append(@, m)]
    <3>1. PICK k : k = Len(delivered[s])
      OBVIOUS
    <3>2. /\ k \in Nat /\ DOMAIN delivered[s] = 1..k /\ DOMAIN delivered'[s] = 1..(k + 1)
          /\ \A i \in 1..k : delivered'[s][i] = delivered[s][i]
          /\ delivered'[s][k + 1] = m
          /\ \A r \in Sessions \ {s} : delivered'[r] = delivered[r]
      <4>1. m \in Messages /\ delivered' = [delivered EXCEPT ![s] = Append(@, m)]
        BY <1>4, <2>2
      <4>2. /\ Len(delivered[s]) \in Nat /\ DOMAIN delivered[s] = 1..Len(delivered[s])
            /\ DOMAIN delivered'[s] = 1..(Len(delivered[s]) + 1)
            /\ \A i \in 1..Len(delivered[s]) : delivered'[s][i] = delivered[s][i]
            /\ delivered'[s][Len(delivered[s]) + 1] = m
            /\ \A r \in Sessions \ {s} : delivered'[r] = delivered[r]
        BY <4>1, Sent
      <4> QED
        BY <3>1, <4>2
    <3>3. \A i \in 1..(k + 1) : i \in 1..k \/ i = k + 1
      BY <3>2
    <3> QED
      BY <2>2, <3>2, <3>3
  <2> QED
    BY <1>9, <2>1, <2>2
<1>11. JobsInOrder'
  <2>1. \A r \in Sessions : \A i \in DOMAIN delivered'[r] :
        /\ delivered'[r][i].replySequence <= sent'[r]
        /\ \A j \in DOMAIN jobs' :
            jobs'[j].session = r => delivered'[r][i].replySequence < jobs'[j].num
    <3>1. \A r \in Sessions : \A i \in DOMAIN delivered[r] :
            /\ delivered[r][i].replySequence <= sent[r]
            /\ \A j \in DOMAIN jobs :
                jobs[j].session = r => delivered[r][i].replySequence < jobs[j].num
      BY DEF SilenceInv, JobsInOrder
    <3>2. n <= sent[s] /\ \A j \in DOMAIN jobs : jobs[j].session = s => n < jobs[j].num
      BY <1>1, <1>2 DEF SilenceInv, JobsInOrder
    <3> QED
      BY <1>5, <1>7, <1>10, <3>1, <3>2
  <2>2. /\ \A i \in DOMAIN jobs' : jobs'[i].num <= sent'[jobs'[i].session]
        /\ \A i, j \in DOMAIN jobs' :
            i < j /\ jobs'[i].session = jobs'[j].session => jobs'[i].num < jobs'[j].num
    BY <1>5 DEF SilenceInv, JobsInOrder
  <2> QED
    BY <1>6, <1>8, <2>1, <2>2 DEF JobsInOrder
<1>12. JobsListed'
  <2>1. \A r \in Sessions : \A i \in InfoOf(r)' : \A k \in infos'[i].jobs :
            \E v \in Workers : Handling(v, r, k)'
    <3>1. \A r \in Sessions : \A i \in InfoOf(r) : \A k \in infos[i].jobs : r = s /\ k = n
      BY <1>2, <1>4, <1>6 DEF SilenceInv, JobsListed, Handling, Serves
    <3>2. \A r \in Sessions : \A i \in InfoOf(r)' :
            \/ i = a
            \/ r # s /\ i \in InfoOf(r) /\ infos'[i] = infos[i]
      BY <1>1 DEF InfoOf, Live
    <3>3. infos'[a].jobs = {}
      BY <1>1, <1>2, <3>1
    <3> QED
      BY <3>1, <3>2, <3>3
  <2>2. \A r \in Sessions, k \in 0..MaxRequests : <<r, k>> \in outstanding' =>
            /\ k <= sent'[r] /\ client'[r] = "seen"
            /\ \A i \in DOMAIN jobs' : jobs'[i].session = r => k < jobs'[i].num
    BY <1>5 DEF SilenceInv, JobsListed
  <2> QED
    BY <1>6, <1>8, <2>1, <2>2 DEF JobsListed
<1>13. OutstandingSilenced'
  <2>1. <<s, n>> \in outstanding => infos[a].terminated
    <3>1. ASSUME <<s, n>> \in outstanding PROVE infos[a].terminated
      <4>1. n \in 0..MaxRequests
        BY <1>2, <1>4, ThreadFacts DEF Holds, Jobs
      <4>2. n < thread[w].job.num \/ \E i \in InfoOf(s) : infos[i].terminated
        BY <1>1, <3>1, <4>1 DEF SilenceInv, JobsListed
      <4>3. ~(n < thread[w].job.num)
        BY <1>2, <1>7
      <4> QED
        BY <1>1, <4>2, <4>3
    <3> QED
      BY <3>1
  <2>2. \A r \in Sessions : \A i \in DOMAIN delivered[r] :
            <<r, delivered[r][i].replySequence>> \notin outstanding
    BY DEF SilenceInv, OutstandingSilenced
  <2>3. \A r \in Sessions : \A i \in DOMAIN delivered'[r] :
            <<r, delivered'[r][i].replySequence>> \notin outstanding
    BY <1>7, <1>10, <2>1, <2>2
  <2> QED
    BY <1>5, <2>3 DEF OutstandingSilenced
<1> QED
  BY <1>11, <1>12, <1>13 DEF SilenceInv

LEMMA NextSilence ==
    ASSUME OneWorker, TypesInv, RegistryInv, SilenceInv, [Next]_vars
    PROVE  SilenceInv'
<1>1. CASE UNCHANGED vars
  <2>1. UNCHANGED <<jobs, sent, delivered, outstanding, client, infos, thread>>
    BY <1>1 DEF vars, sessionVars, clientVars
  <2>2. \A w, r : Serves(w, r)' <=> Serves(w, r)
    BY <2>1, ServesFrame
  <2>3. \A w, r, n : Handling(w, r, n)' <=> Handling(w, r, n)
    BY <2>1, <2>2 DEF Handling
  <2>4. \A r : InfoOf(r)' = InfoOf(r)
    BY <2>1, SameInfos
  <2>5. JobsInOrder'
    BY <2>1, <2>2 DEF SilenceInv, JobsInOrder
  <2>6. JobsListed'
    BY <2>1, <2>2, <2>3, <2>4 DEF SilenceInv, JobsListed
  <2>7. OutstandingSilenced'
    BY <2>1 DEF SilenceInv, OutstandingSilenced
  <2> QED
    BY <2>5, <2>6, <2>7 DEF SilenceInv
<1>2. CASE Next
  BY <1>2, ClientSilence, NoticeSilence, SessionSilence, TakeSilence, AddJobSilence,
     TurnSilence, EndJobSilence, TerminateSilence DEF Next
<1> QED
  BY <1>1, <1>2

\* With one worker, and clients that hang up only after their notification, a job that
\* was outstanding when the end of its session was marked is never answered.
THEOREM EndedSessionsSilent ==
    ASSUME OneWorker, Patient
    PROVE  Spec => []OutstandingSilenced
<1>1. SilenceInv => OutstandingSilenced
  BY DEF SilenceInv
<1>2. Init => TypesInv /\ RegistryInv /\ SilenceInv
  BY InitTypes, InitRegistry, InitSilence
<1>3. TypesInv /\ RegistryInv /\ SilenceInv /\ [Next]_vars =>
        TypesInv' /\ RegistryInv' /\ SilenceInv'
  BY NextTypes, NextRegistry, NextSilence
<1> QED
  BY <1>1, <1>2, <1>3, PTL DEF Spec
-----------------------------------------------------------------------------
(* Replies say what the handler was told by the host, for any number of    *)
(* workers and sessions.  What the parser computes is a fold; HostsRead    *)
(* stands for it here.                                                     *)

\* What RepliesDescribeHost and HealthyHostServed rest on outside the handlers: the
\* parser finds every device of the host, with the properties that are written, and
\* the arrays it fills have room for what a reply can hold.
ReadAsWritten(h) ==
    LET read == GetScsiInfo(ProcScsi(h.devices)) IN
    /\ h.size \in Nat /\ h.free \in 0..h.size
    /\ Len(read) = Len(h.devices)
    /\ \A i \in DOMAIN read : Len(read[i].caps) \in 0..MaxProperties
    /\ OneWordTypes(h.devices) =>
            read = [i \in DOMAIN h.devices |-> Described(h.devices[i])]
HostsRead == ReplyDevices <= MaxDevices /\ \A h \in Hosts : ReadAsWritten(h)

TruthInv ==
    /\ \A s \in Sessions : \A i \in DOMAIN delivered[s] : Truthful(delivered[s][i])
    /\ \A w \in Workers : thread[w].pc = "count" \/ thread[w].next = "end" =>
            Truthful(thread[w].message)

\* A list that a reply can hold is within all limits, and not empty.
LEMMA ScsiAnswers ==
    ASSUME HostsRead, NEW h \in Hosts, NEW fopen \in BOOLEAN,
           Len(h.devices) \in 1..ReplyDevices
    PROVE  GetScsiInfoReply(h, fopen) =
            IF ~fopen \/ ~h.procScsi THEN {Dies}
            ELSE {Success(GetScsiInfo(ProcScsi(h.devices)))}
<1>1. PICK read : read = GetScsiInfo(ProcScsi(h.devices))
  OBVIOUS
<1>2. /\ Len(read) = Len(h.devices) /\ ReplyDevices <= MaxDevices
      /\ \A i \in DOMAIN read : Len(read[i].caps) \in 0..MaxProperties
  BY <1>1 DEF HostsRead, ReadAsWritten
<1>3. read # <<>>
  <2>1. Len(<<>>) = 0
    BY EmptySeq
  <2> QED
    BY <1>2, <2>1
<1>4. ~(Len(read) > MaxDevices) /\ ~(Len(read) > ReplyDevices)
  BY <1>2, ConfigAssumption
<1>5. \A i \in DOMAIN read : ~(Len(read[i].caps) > MaxProperties)
  BY <1>2, ConfigAssumption
<1>6. GetScsiInfoReply(h, fopen) =
        IF ~fopen \/ ~h.procScsi THEN {Dies}
        ELSE IF read = <<>> THEN {NotSupported, Garbage, Dies}
        ELSE IF \/ Len(read) > MaxDevices \/ Len(read) > ReplyDevices
                \/ \E i \in DOMAIN read : Len(read[i].caps) > MaxProperties
             THEN {Success(read), Garbage, Dies}
        ELSE {Success(read)}
  BY <1>1, Zenon DEF GetScsiInfoReply
<1> QED
  BY <1>1, <1>3, <1>4, <1>5, <1>6, Zenon

LEMMA AnswersTruthful ==
    ASSUME HostsRead, TypesInv, NEW m, NEW fopen \in BOOLEAN,
           m.answer \in Answers(m.op, host, fopen)
    PROVE  Truthful(m)
<1>1. host \in Hosts
  BY DEF TypesInv
<1>2. Dies.error # "NDMP_NO_ERR" /\ NotSupported.error # "NDMP_NO_ERR"
  BY DEF Dies, NotSupported
<1>3. CASE m.op = "GET_FS_INFO"
  <2>1. m.answer \in GetFsInfo(host)
    BY <1>3 DEF Answers
  <2>2. ASSUME m.answer.error = "NDMP_NO_ERR", host.size < Word
        PROVE  m.answer.content = [total |-> host.size, used |-> host.size - host.free]
    <3>1. m.answer =
            Success([total |-> host.size % Word, used |-> (host.size - host.free) % Word])
      BY <1>2, <2>1, <2>2 DEF GetFsInfo
    <3>2. host.size \in Nat /\ host.free \in 0..host.size
      BY <1>1 DEF HostsRead, ReadAsWritten
    <3>3. host.size % Word = host.size /\ (host.size - host.free) % Word = host.size - host.free
      BY <2>2, <3>2, ConfigAssumption
    <3> QED
      BY <3>1, <3>3 DEF Success
  <2> QED
    BY <1>3, <2>2 DEF Truthful
<1>4. CASE m.op = "GET_SCSI_INFO"
  <2>1. m.answer \in GetScsiInfoReply(host, fopen)
    BY <1>4 DEF Answers
  <2>2. ASSUME m.answer.error = "NDMP_NO_ERR", OneWordTypes(host.devices),
               Len(host.devices) \in 1..ReplyDevices
        PROVE  m.answer.content = [i \in DOMAIN host.devices |-> Described(host.devices[i])]
    <3>1. m.answer = Success(GetScsiInfo(ProcScsi(host.devices)))
      BY <1>1, <1>2, <2>1, <2>2, ScsiAnswers
    <3>2. GetScsiInfo(ProcScsi(host.devices)) =
            [i \in DOMAIN host.devices |-> Described(host.devices[i])]
      BY <1>1, <2>2 DEF HostsRead, ReadAsWritten
    <3> QED
      BY <3>1, <3>2 DEF Success
  <2> QED
    BY <1>4, <2>2 DEF Truthful
<1>5. CASE m.op \notin {"GET_FS_INFO", "GET_SCSI_INFO"}
  BY <1>5 DEF Truthful
<1> QED
  BY <1>3, <1>4, <1>5

\* What the handler puts into the message of the worker.
LEMMA HandleAnswers ==
    ASSUME TypesInv, NEW w \in Workers, Handle(w)
    PROVE  \E answer \in Outcomes(thread[w].job) :
            /\ alive' = (answer # Dies)
            /\ thread'[w].message.op = thread[w].job.op
            /\ thread'[w].message.answer = answer
<1>1. PICK answer \in Outcomes(thread[w].job) :
        /\ alive' = (answer # Dies)
        /\ thread' = [thread EXCEPT
            ![w].pc = "count",
            ![w].message = [op |-> thread[w].job.op, sequence |-> number,
                            replySequence |-> thread[w].job.num, answer |-> answer]]
  BY DEF Handle
<1>2. w \in Threads /\ thread[w] \in ThreadStates
  BY DEF TypesInv, Threads
<1> DEFINE m == [op |-> thread[w].job.op, sequence |-> number,
                 replySequence |-> thread[w].job.num, answer |-> answer]
           x == [thread[w] EXCEPT !.pc = "count", !.message = m]
<1>3. m.op = thread[w].job.op /\ m.answer = answer
  OBVIOUS
<1>4. thread' = [thread EXCEPT ![w] = x]
  BY <1>1
<1> HIDE DEF m
<1>5. x.message = m
  BY <1>2 DEF ThreadStates
<1> HIDE DEF x
<1>6. thread'[w] = x
  BY <1>2, <1>4 DEF TypesInv
<1> QED
  BY <1>1, <1>3, <1>5, <1>6

Answered(w) == thread[w].pc = "count" \/ thread[w].next = "end"

LEMMA TruthFrame ==
    ASSUME TruthInv, host' = host,
           \A s \in Sessions : \A i \in DOMAIN delivered'[s] :
                \/ i \in DOMAIN delivered[s] /\ delivered'[s][i] = delivered[s][i]
                \/ Truthful(delivered'[s][i]),
           \A w \in Workers : Answered(w)' =>
                \/ Answered(w) /\ thread'[w].message = thread[w].message
                \/ Truthful(thread'[w].message)
    PROVE  TruthInv'
<1>1. \A m : Truthful(m)' <=> Truthful(m)
  BY DEF Truthful
<1>2. \A s \in Sessions : \A i \in DOMAIN delivered'[s] : Truthful(delivered'[s][i])
  BY DEF TruthInv
<1>3. \A w \in Workers : Answered(w)' => Truthful(thread'[w].message)
  BY DEF TruthInv, Answered
<1>4. \A s \in Sessions : \A i \in DOMAIN delivered'[s] : Truthful(delivered[s][i])'
  BY <1>1, <1>2 DEF Truthful
<1>5. \A w \in Workers : Answered(w)' => Truthful(thread[w].message)'
  BY <1>1, <1>3 DEF Truthful
<1> QED
  BY <1>4, <1>5 DEF TruthInv, Answered

LEMMA NextTruth ==
    ASSUME HostsRead, TypesInv, TruthInv, [Next]_vars
    PROVE  TruthInv'
<1>1. CASE UNCHANGED vars
  BY <1>1, TruthFrame DEF vars, Answered
<1>2. ASSUME NEW s \in Sessions, Connect(s) \/ HangUp(s) \/ \E op \in Requests : Send(s, op)
      PROVE  TruthInv'
  <2>1. UNCHANGED <<host, delivered, thread>>
    BY <1>2 DEF Connect, HangUp, Send
  <2> QED
    BY <2>1, TruthFrame DEF Answered
<1>3. ASSUME NEW s \in Sessions, NoticeHangUp(s) PROVE TruthInv'
  <2>1. UNCHANGED <<host, delivered>> /\ \A w \in Workers : thread'[w] = thread[w]
    BY <1>3, NoticeMoves, NdmpMessagesAssumption DEF NoticeHangUp, OthersStay, Threads
  <2> QED
    BY <2>1, TruthFrame DEF Answered
<1>4. CASE Terminate
  <2>1. UNCHANGED <<host, delivered>> /\ \A w \in Workers : thread'[w] = thread[w]
    BY <1>4, TerminateMoves, NdmpMessagesAssumption DEF Terminate, OthersStay, Threads
  <2> QED
    BY <2>1, TruthFrame DEF Answered
<1>5. ASSUME NEW t \in Threads, TestQueue(t) \/ MakeQueue(t) \/ Lookup(t) \/ Create(t)
      PROVE  TruthInv'
  <2>1. /\ UNCHANGED <<host, delivered>> /\ OthersStay(t) /\ Keeps(t)
        /\ thread'[t].pc # "count"
    BY <1>5, SessionStep DEF OnlySessions
  <2> QED
    BY <2>1, TruthFrame DEF OthersStay, Keeps, Threads, Answered
<1>6. ASSUME NEW w \in Workers, Take(w) \/ AddJob(w) PROVE TruthInv'
  <2>1. /\ UNCHANGED <<host, delivered>> /\ OthersStay(w)
        /\ thread'[w].pc # "count" /\ thread'[w].next = "add"
    BY <1>6, TakeMoves, AddJobMoves DEF Take, AddJob, OnlySessions, Keeps
  <2> QED
    BY <2>1, TruthFrame DEF OthersStay, Threads, Answered
<1>7. ASSUME NEW w \in Workers, Handle(w) PROVE TruthInv'
  <2>1. UNCHANGED <<host, delivered>> /\ OthersStay(w) /\ w \in Threads
    BY <1>7, HandleMoves DEF Handle
  <2>2. PICK answer \in Outcomes(thread[w].job) :
            /\ thread'[w].message.op = thread[w].job.op
            /\ thread'[w].message.answer = answer
    BY <1>7, HandleAnswers
  <2>3. PICK m : m = thread'[w].message
    OBVIOUS
  <2>4. Truthful(m)
    <3>1. CASE thread[w].job.op = Notify
      BY <2>2, <2>3, <3>1 DEF Truthful, Notify
    <3>2. CASE thread[w].job.op # Notify
      <4>1. m.answer \in Answers(m.op, host, leaked < MaxStreams)
        BY <2>2, <2>3, <3>2 DEF Outcomes
      <4>2. (leaked < MaxStreams) \in BOOLEAN
        OBVIOUS
      <4> QED
        BY <4>1, <4>2, AnswersTruthful
    <3> QED
      BY <3>1, <3>2
  <2>5. \A v \in Workers : v = w \/ thread'[v] = thread[v]
    BY <2>1 DEF OthersStay, Threads
  <2> QED
    BY <2>1, <2>3, <2>4, <2>5, TruthFrame DEF Answered
<1>8. ASSUME NEW w \in Workers, Count(w) PROVE TruthInv'
  <2>1. /\ UNCHANGED <<host, delivered>> /\ OthersStay(w)
        /\ thread[w].pc = "count" /\ thread'[w].message = thread[w].message
    BY <1>8, CountMoves DEF Count
  <2> QED
    BY <2>1, TruthFrame DEF OthersStay, Threads, Answered
<1>9. ASSUME NEW w \in Workers, EndJob(w) PROVE TruthInv'
  <2>1. PICK s : s = thread[w].job.session
    OBVIOUS
  <2>2. PICK m : m = thread[w].message
    OBVIOUS
  <2>3. /\ host' = host /\ OthersStay(w) /\ thread'[w] = Idle /\ s \in Sessions
        /\ m \in Messages /\ thread[w].next = "end"
    BY <1>9, <2>1, <2>2, EndJobMoves DEF EndJob
  <2>4. delivered' = delivered \/ delivered' = [delivered EXCEPT ![s] = Append(@, m)]
    BY <1>9, <2>1, <2>2, EndJobMoves
  <2>5. Truthful(m)
    BY <2>2, <2>3 DEF TruthInv
  <2>6. \A r \in Sessions : \A i \in DOMAIN delivered'[r] :
            \/ i \in DOMAIN delivered[r] /\ delivered'[r][i] = delivered[r][i]
            \/ Truthful(delivered'[r][i])
    <3>1. CASE delivered' = delivered
      BY <3>1
    <3>2. CASE delivered' = [delivered EXCEPT ![s] = Append(@, m)]
      <4>1. /\ Len(delivered[s]) \in Nat /\ DOMAIN delivered[s] = 1..Len(delivered[s])
            /\ DOMAIN delivered'[s] = 1..(Len(delivered[s]) + 1)
            /\ \A i \in 1..Len(delivered[s]) : delivered'[s][i] = delivered[s][i]
            /\ delivered'[s][Len(delivered[s]) + 1] = m
            /\ \A r \in Sessions \ {s} : delivered'[r] = delivered[r]
        BY <2>3, <3>2, Sent
      <4>2. \A i \in 1..(Len(delivered[s]) + 1) :
                i \in 1..Len(delivered[s]) \/ i = Len(delivered[s]) + 1
        BY <4>1
      <4> QED
        BY <2>5, <4>1, <4>2
    <3> QED
      BY <2>4, <3>1, <3>2
  <2>7. \A v \in Workers : Answered(v)' => Answered(v) /\ thread'[v].message = thread[v].message
    BY <2>3, IdleState DEF OthersStay, Threads, Answered
  <2> QED
    BY <2>3, <2>6, <2>7, TruthFrame
<1> QED
  BY <1>1, <1>2, <1>3, <1>4, <1>5, <1>6, <1>7, <1>8, <1>9 DEF Next

\* Where the parser reads the devices of each host, a successful reply tells the sizes
\* and the devices of the host that the server runs on, however many workers answer.
THEOREM RepliesAreTrue ==
    ASSUME HostsRead
    PROVE  Spec => []RepliesDescribeHost
<1>1. Init => TypesInv /\ TruthInv
  <2>1. Init => \A s \in Sessions : DOMAIN delivered[s] = {}
    BY DEF Init
  <2>2. Init => \A w \in Workers : thread[w] = Idle
    BY DEF Init, Threads
  <2> QED
    BY <2>1, <2>2, InitTypes, IdleState DEF TruthInv
<1>2. TypesInv /\ TruthInv /\ [Next]_vars => TypesInv' /\ TruthInv'
  BY NextTypes, NextTruth
<1>3. TruthInv => RepliesDescribeHost
  BY DEF TruthInv, RepliesDescribeHost
<1> QED
  BY <1>1, <1>2, <1>3, PTL DEF Spec

\* On a host where nothing is missing or too large no handler ends the process, as
\* long as there are streams left.
THEOREM HealthyHostsServed ==
    ASSUME HostsRead
    PROVE  Spec => HealthyHostServed
<1>1. ASSUME TypesInv, Next, Healthy, leaked < MaxStreams PROVE alive'
  <2>1. ASSUME NEW w \in Workers, Handle(w) PROVE alive'
    <3>1. PICK answer \in Outcomes(thread[w].job) : alive' = (answer # Dies)
      BY <1>1, <2>1, HandleAnswers
    <3>2. host \in Hosts
      BY <1>1 DEF TypesInv
    <3>3. Dies.error = "died" /\ NotSupported.error # "died"
      BY DEF Dies, NotSupported
    <3>4. \A c : Success(c).error # "died"
      BY DEF Success
    <3>5. \A op : Dies \notin Answers(op, host, TRUE)
      <4>1. Dies \notin GetScsiInfoReply(host, TRUE)
        BY <1>1, <3>2, <3>3, <3>4, ScsiAnswers DEF Healthy
      <4>2. Dies \notin GetFsInfo(host) /\ Dies \notin GetHostInfo(host)
        BY <1>1, <3>3, <3>4 DEF GetFsInfo, GetHostInfo, Healthy
      <4>3. /\ Dies \notin GetAuthAttr("none") /\ Dies \notin GetAuthAttr("other")
            /\ Dies \notin ErrorMessage
        BY <3>3, <3>4 DEF GetAuthAttr, ErrorMessage
      <4>4. /\ Dies \notin GetConnectionType /\ Dies \notin GetButypeInfo
            /\ Dies \notin GetTapeInfo /\ Dies \notin GetServerInfo
        BY <3>3, <3>4 DEF GetConnectionType, GetButypeInfo, GetTapeInfo, GetServerInfo
      <4> QED
        BY <4>1, <4>2, <4>3, <4>4, Zenon DEF Answers
    <3>6. answer # Dies
      <4>1. (leaked < MaxStreams) = TRUE
        BY <1>1
      <4>2. Outcomes(thread[w].job) =
                IF thread[w].job.op = Notify THEN {Success("connected")}
                ELSE Answers(thread[w].job.op, host, TRUE)
        BY <4>1 DEF Outcomes
      <4> QED
        BY <3>1, <3>3, <3>4, <3>5, <4>2
    <3> QED
      BY <3>1, <3>6
  <2>2. \/ alive' = alive
        \/ \E w \in Workers : Handle(w)
    BY <1>1 DEF Next, Connect, HangUp, NoticeHangUp, Send, TestQueue, MakeQueue, Lookup,
       Create, OnlySessions, Take, AddJob, Count, EndJob, Terminate
  <2> QED
    BY <1>1, <2>1, <2>2 DEF Next
<1>2. TypesInv /\ [Next]_vars => [Healthy /\ leaked < MaxStreams => alive']_vars
  BY <1>1
<1> QED
  BY <1>2, InitTypes, NextTypes, PTL DEF Spec, HealthyHostServed
=============================================================================
