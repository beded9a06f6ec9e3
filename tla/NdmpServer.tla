----------------------------- MODULE NdmpServer -----------------------------
(***************************************************************************)
(* The concurrent core of the NDMP server: the listener thread (comm.c),   *)
(* the worker threads and the reply thread (worker.c), and the registry of *)
(* NDMP sessions the three of them share (ndmp_msg.c).                     *)
(*                                                                         *)
(* A step is the work a thread does between two accesses to state another  *)
(* thread can see.  enqueue, dequeue, get_elem, remove_elem and num_elems  *)
(* run under the queue's mutex and are atomic here; module LinkedQueue     *)
(* looks inside them.  The lock of get_session_info is created anew by     *)
(* every call, so it excludes nobody and has no counterpart here: its      *)
(* get_elem and its enqueue are two steps.                                 *)
(*                                                                         *)
(* The registry's queue is taken as created (get_session_queue), and a     *)
(* handler only decides whether there is a reply: module DataServer models *)
(* what it does to the state of a session.                                 *)
(***************************************************************************)
EXTENDS Integers, Sequences, FiniteSets, SequencesExt

CONSTANTS
    Conns,        \* the TCP connections clients may open
    Fds,          \* the descriptors accept() may return
    ListenFd,     \* the descriptor of the listening socket
    Workers,      \* the worker threads; the code creates one
    MaxRequests,  \* bound on the requests a client sends on a connection
    Pipelined,    \* may a client send before it has read the last reply?
    Resets,       \* may a connection be reset?
    NoTxn         \* the NULL client_txn pointer

Kinds    == {"call", "close"}        \* what a client may ask: with, without reply
JobKinds == Kinds \cup {"notify", "garbage"}
Request  == [num : 1..MaxRequests, kind : Kinds]
Txn      == [conn : Conns, num : 0..(MaxRequests + 1), kind : JobKinds]

ASSUME FdsAssumption     == Fds \subseteq Nat /\ ListenFd \in Nat \ Fds
ASSUME RequestAssumption == MaxRequests \in Nat
ASSUME FlagAssumption    == Pipelined \in BOOLEAN /\ Resets \in BOOLEAN
ASSUME NoTxnAssumption   == NoTxn \notin Txn

NoFd == -1
NULL == 0       \* no ndmp_session_info: addresses count from 1

VARIABLES
    phase,        \* of a connection: none, backlog, open, closed, dropped
    backlog,      \* connections the kernel has completed and not yet given out
    peer,         \* what the client's side did last: up, fin, rst, dead
    inbox,        \* requests received by the kernel and not yet by recv()
    sent,         \* number of requests the client has sent
    fdOf,         \* the descriptor a connection was accepted on
    delivered,    \* history: the replies a client has received
    sessions,     \* ctx->sessions: the session_id of each element
    requestJobs,  \* ctx->request_jobs
    replyJobs,    \* ctx->reply_jobs
    maxfds,       \* ctx->maxfds
    registry,     \* session_info_queue: addresses of ndmp_session_info
    infos,        \* the ndmp_session_info ever allocated, by address
    lpc,          \* the listener: where it is
    ready,        \*   the descriptors of read_socks it has still to handle
    lfd,          \*   the descriptor it is closing
    linfo,        \*   the result of its get_session_info
    wpc,          \* each worker: where it is
    wjob,         \*   its client_txn
    winfo,        \*   the result of its get_session_info
    wreply,       \*   did the handler leave reply.length > 0?
    rpc,          \* the reply thread: where it is
    rjob,         \*   its client_txn
    created,      \* history: the client_txn allocated and queued
    freed         \* history: the client_txn freed after that

clientVars   == <<phase, backlog, peer, inbox, sent, fdOf, delivered>>
registryVars == <<registry, infos>>
listenerVars == <<lpc, ready, lfd, linfo>>
workerVars   == <<wpc, wjob, winfo, wreply>>
replyVars    == <<rpc, rjob>>
history      == <<created, freed>>
serverVars   == <<sessions, requestJobs, replyJobs, maxfds, registryVars,
                  listenerVars, workerVars, replyVars, history>>
vars         == <<clientVars, serverVars>>

Init ==
    /\ phase = [c \in Conns |-> "none"]
    /\ backlog = <<>>
    /\ peer = [c \in Conns |-> "up"]
    /\ inbox = [c \in Conns |-> <<>>]
    /\ sent = [c \in Conns |-> 0]
    /\ fdOf = [c \in Conns |-> NoFd]
    /\ delivered = [c \in Conns |-> <<>>]
    /\ sessions = <<>> /\ requestJobs = <<>> /\ replyJobs = <<>>
    /\ maxfds = ListenFd
    /\ registry = <<>> /\ infos = <<>>
    /\ lpc = "select" /\ ready = {} /\ lfd = NoFd /\ linfo = NULL
    /\ wpc = [w \in Workers |-> "dequeue"]
    /\ wjob = [w \in Workers |-> NoTxn]
    /\ winfo = [w \in Workers |-> NULL]
    /\ wreply = [w \in Workers |-> FALSE]
    /\ rpc = "dequeue" /\ rjob = NoTxn
    /\ created = {} /\ freed = {}
-----------------------------------------------------------------------------
(* The clients and the network, as the server meets them.                  *)

\* SIGPIPE ends the process: no thread has a next step.
Alive == rpc # "dead"

\* A client connects; the kernel puts the connection in the backlog.
ClientConnect(c) ==
    /\ Alive /\ phase[c] = "none"
    /\ phase' = [phase EXCEPT ![c] = "backlog"]
    /\ backlog' = Append(backlog, c)
    /\ UNCHANGED <<peer, inbox, sent, fdOf, delivered, serverVars>>

\* One that does not pipeline waits for NOTIFY_CONNECTED and every reply.
ClientSend(c, kind) ==
    /\ Alive /\ phase[c] \in {"backlog", "open"} /\ peer[c] = "up"
    /\ sent[c] < MaxRequests
    /\ Pipelined \/ Len(delivered[c]) > sent[c]
    /\ sent' = [sent EXCEPT ![c] = @ + 1]
    /\ inbox' = [inbox EXCEPT ![c] = Append(@, [num |-> sent[c] + 1, kind |-> kind])]
    /\ UNCHANGED <<phase, backlog, peer, fdOf, delivered, serverVars>>

\* The client closes its end.
ClientClose(c) ==
    /\ Alive /\ phase[c] \in {"backlog", "open"} /\ peer[c] = "up"
    /\ peer' = [peer EXCEPT ![c] = "fin"]
    /\ UNCHANGED <<phase, backlog, inbox, sent, fdOf, delivered, serverVars>>

\* The connection is reset, by a client that gives up or has closed already.
ClientReset(c) ==
    /\ Resets
    /\ Alive /\ phase[c] \in {"backlog", "open"} /\ peer[c] \in {"up", "fin"}
    /\ peer' = [peer EXCEPT ![c] = "rst"]
    /\ UNCHANGED <<phase, backlog, inbox, sent, fdOf, delivered, serverVars>>
-----------------------------------------------------------------------------
(* The registry of sessions, ndmp_msg.c.                                   *)

\* Seeded bug: malloc leaves is_terminated as it is.
NewInfo_Dirty(fd) == [sid |-> fd, terminated |-> TRUE, jobs |-> {}, released |-> FALSE]

NewInfo(fd) == [sid |-> fd, terminated |-> FALSE, jobs |-> {}, released |-> FALSE]

\* The element of the queue at which get_elem and remove_elem stop, looking for a
\* session id with session_info_cmp: the first with this id.
InfoAt(i) == infos[registry[i]]
FirstInfo(fd, i) ==
    /\ i \in DOMAIN registry /\ InfoAt(i).sid = fd
    /\ \A j \in 1..(i - 1) : InfoAt(j).sid # fd

\* get_elem returns it, or NULL if there is none.
LookupInfo(fd, info) ==
    \/ \E i \in DOMAIN registry : FirstInfo(fd, i) /\ info = registry[i]
    \/ (\A i \in DOMAIN registry : InfoAt(i).sid # fd) /\ info = NULL

\* The new element is malloc'ed, initialised and enqueued, whatever another
\* thread has enqueued since the lookup.
CreateInfo(fd) ==
    /\ infos' = Append(infos, NewInfo(fd))
    /\ registry' = Append(registry, Len(infos) + 1)
-----------------------------------------------------------------------------
(* The listener thread, comm.c.                                            *)

OpenConns == {c \in Conns : phase[c] = "open"}
OpenFds   == {fdOf[c] : c \in OpenConns}
Owner(fd) == CHOOSE c \in OpenConns : fdOf[c] = fd

\* What select() reports: data, end of file or an error to be read, on one of
\* the descriptors set_fd_flags took from the sessions, below maxfds + 1.
ReadableFds ==
    {fd \in ToSet(sessions) \cap OpenFds :
        fd <= maxfds /\ (inbox[Owner(fd)] # <<>> \/ peer[Owner(fd)] # "up")}

\* Seeded bugs: maxfds follows the last descriptor; maxfds is never raised.
RaisedMaxfds_Last(fd)  == fd
RaisedMaxfds_Never(fd) == maxfds

RaisedMaxfds(fd) == IF fd > maxfds THEN fd ELSE maxfds

NotifyTxn(c)  == [conn |-> c, num |-> 0, kind |-> "notify"]
GarbageTxn(c) == [conn |-> c, num |-> MaxRequests + 1, kind |-> "garbage"]

\* Seeded bug: the newest request first.
QueueRequest_Lifo(txn) ==
    /\ requestJobs' = <<txn>> \o requestJobs
    /\ created' = created \cup {txn}

QueueRequest(txn) ==
    /\ requestJobs' = Append(requestJobs, txn)
    /\ created' = created \cup {txn}

\* select() reports the listening socket: one connection is accepted, and
\* nothing else is done in this turn of the loop.  A client can see nothing
\* between the two enqueues.
AcceptConnection(fd) ==
    /\ lpc = "select" /\ backlog # <<>> /\ fd \notin OpenFds
    /\ LET c == Head(backlog) IN
        /\ phase' = [phase EXCEPT ![c] = "open"]
        /\ fdOf' = [fdOf EXCEPT ![c] = fd]
        /\ QueueRequest(NotifyTxn(c))
    /\ backlog' = Tail(backlog)
    /\ sessions' = Append(sessions, fd)
    /\ maxfds' = RaisedMaxfds(fd)
    /\ UNCHANGED <<peer, inbox, sent, delivered, replyJobs, registryVars,
                   listenerVars, workerVars, replyVars, freed>>

\* Seeded bug: the session is created without a look at endpoint.fd.
AcceptFails_Unchecked ==
    /\ lpc = "select" /\ backlog # <<>>
    /\ phase' = [phase EXCEPT ![Head(backlog)] = "dropped"]
    /\ backlog' = Tail(backlog)
    /\ sessions' = Append(sessions, NoFd)
    /\ UNCHANGED <<peer, inbox, sent, fdOf, delivered, requestJobs, replyJobs,
                   maxfds, registryVars, listenerVars, workerVars, replyVars, history>>

\* accept() is given an uninitialised address length: with a negative one the
\* kernel takes the connection, fails with EINVAL and closes it.
AcceptFails ==
    /\ lpc = "select" /\ backlog # <<>>
    /\ phase' = [phase EXCEPT ![Head(backlog)] = "dropped"]
    /\ backlog' = Tail(backlog)
    /\ UNCHANGED <<peer, inbox, sent, fdOf, delivered, serverVars>>

\* select() reports sessions only: handle_client_requests will look at each.
WakeForClients ==
    /\ lpc = "select" /\ backlog = <<>> /\ ReadableFds # {}
    /\ ready' = ReadableFds
    /\ lpc' = "scan"
    /\ UNCHANGED <<clientVars, sessions, requestJobs, replyJobs, maxfds,
                   registryVars, lfd, linfo, workerVars, replyVars, history>>

\* The descriptors are taken from 0 up; after the last, back to select().
NextToScan(fd) == lpc = "scan" /\ fd \in ready /\ \A other \in ready : fd <= other
AfterScan(left) == IF left = {} THEN "select" ELSE "scan"
Scanned(fd) == ready' = ready \ {fd} /\ lpc' = AfterScan(ready \ {fd})

\* recv() returns what has arrived, up to 2048 bytes of it, as one message;
\* only the first request in a message is decoded.
ReceiveRequest(fd, n) ==
    /\ NextToScan(fd)
    /\ LET c == Owner(fd) IN
        /\ n \in DOMAIN inbox[c]
        /\ QueueRequest([conn |-> c, num |-> Head(inbox[c]).num,
                         kind |-> Head(inbox[c]).kind])
        /\ inbox' = [inbox EXCEPT ![c] = SubSeq(@, n + 1, Len(@))]
    /\ Scanned(fd)
    /\ UNCHANGED <<phase, backlog, peer, sent, fdOf, delivered, sessions,
                   replyJobs, maxfds, registryVars, lfd, linfo, workerVars,
                   replyVars, freed>>

\* Seeded bug: the error closes the descriptor and leaves the session.
ReceiveError_Closes(fd) ==
    /\ NextToScan(fd)
    /\ LET c == Owner(fd) IN
        /\ inbox[c] = <<>> /\ peer[c] = "rst"
        /\ phase' = [phase EXCEPT ![c] = "closed"]
    /\ Scanned(fd)
    /\ UNCHANGED <<backlog, peer, inbox, sent, fdOf, delivered, sessions,
                   requestJobs, replyJobs, maxfds, registryVars, lfd, linfo,
                   workerVars, replyVars, history>>

\* recv() returns -1: the length is not 0, so the message, which nothing has
\* written, is queued like any other.
ReceiveError(fd) ==
    /\ NextToScan(fd)
    /\ LET c == Owner(fd) IN
        /\ inbox[c] = <<>> /\ peer[c] = "rst"
        /\ peer' = [peer EXCEPT ![c] = "dead"]
        /\ QueueRequest(GarbageTxn(c))
    /\ Scanned(fd)
    /\ UNCHANGED <<phase, backlog, inbox, sent, fdOf, delivered, sessions,
                   replyJobs, maxfds, registryVars, lfd, linfo, workerVars,
                   replyVars, freed>>

\* recv() returns 0: close(fd).
ReceiveEof(fd) ==
    /\ NextToScan(fd)
    /\ LET c == Owner(fd) IN
        /\ inbox[c] = <<>> /\ peer[c] \in {"fin", "dead"}
        /\ phase' = [phase EXCEPT ![c] = "closed"]
    /\ lfd' = fd /\ ready' = ready \ {fd}
    /\ lpc' = "remove"
    /\ UNCHANGED <<backlog, peer, inbox, sent, fdOf, delivered, sessions,
                   requestJobs, replyJobs, maxfds, registryVars, linfo,
                   workerVars, replyVars, history>>

\* Seeded bug: the session stays.
RemoveSession_Keeps ==
    /\ lpc = "remove"
    /\ lpc' = "lookup"
    /\ UNCHANGED <<clientVars, sessions, requestJobs, replyJobs, maxfds,
                   registryVars, ready, lfd, linfo, workerVars, replyVars, history>>

\* remove_elem(ctx->sessions): the first session with this id.
RemoveSession ==
    /\ lpc = "remove"
    /\ \E i \in DOMAIN sessions :
        /\ sessions[i] = lfd /\ \A j \in 1..(i - 1) : sessions[j] # lfd
        /\ sessions' = RemoveAt(sessions, i)
    /\ lpc' = "lookup"
    /\ UNCHANGED <<clientVars, requestJobs, replyJobs, maxfds, registryVars,
                   ready, lfd, linfo, workerVars, replyVars, history>>

\* terminate_session, in its get_session_info: the lookup.
TerminateLookup ==
    /\ lpc = "lookup"
    /\ \E info \in DOMAIN infos \cup {NULL} :
        /\ LookupInfo(lfd, info)
        /\ linfo' = info
        /\ lpc' = IF info = NULL THEN "create" ELSE "mark"
    /\ UNCHANGED <<clientVars, sessions, requestJobs, replyJobs, maxfds,
                   registryVars, ready, lfd, workerVars, replyVars, history>>

\* terminate_session, in its get_session_info: nothing was found.
TerminateCreate ==
    /\ lpc = "create"
    /\ CreateInfo(lfd)
    /\ linfo' = Len(infos) + 1
    /\ lpc' = "mark"
    /\ UNCHANGED <<clientVars, sessions, requestJobs, replyJobs, maxfds,
                   ready, lfd, workerVars, replyVars, history>>

\* terminate_session writes is_terminated, through a pointer a worker may have
\* freed meanwhile.
MarkTerminated ==
    /\ lpc = "mark"
    /\ infos' = [infos EXCEPT ![linfo].terminated = TRUE]
    /\ lfd' = NoFd /\ linfo' = NULL
    /\ lpc' = AfterScan(ready)
    /\ UNCHANGED <<clientVars, sessions, requestJobs, replyJobs, maxfds,
                   registry, ready, workerVars, replyVars, history>>

Listener ==
    \/ \E fd \in Fds : AcceptConnection(fd)
    \/ AcceptFails
    \/ WakeForClients
    \/ \E fd \in Fds, n \in 1..MaxRequests : ReceiveRequest(fd, n)
    \/ \E fd \in Fds : ReceiveError(fd)
    \/ \E fd \in Fds : ReceiveEof(fd)
    \/ RemoveSession
    \/ TerminateLookup
    \/ TerminateCreate
    \/ MarkTerminated
-----------------------------------------------------------------------------
(* A worker thread: run_job of worker.c and, from it, xdr_decode_encode.   *)

\* Seeded bug: the session is not copied into the transaction, the last one counts.
SessionId_Shared(txn) == IF sessions = <<>> THEN fdOf[txn.conn] ELSE Last(sessions)

SessionId(txn) == fdOf[txn.conn]
Goto(w, label) == wpc' = [wpc EXCEPT ![w] = label]

DequeueRequest(w) ==
    /\ wpc[w] = "dequeue" /\ requestJobs # <<>>
    /\ wjob' = [wjob EXCEPT ![w] = Head(requestJobs)]
    /\ requestJobs' = Tail(requestJobs)
    /\ Goto(w, "add_lookup")
    /\ UNCHANGED <<clientVars, sessions, replyJobs, maxfds, registryVars,
                   listenerVars, winfo, wreply, replyVars, history>>

\* get_session_info, called by add_job_to_session, the handler and cleanup_session.
WorkerLookup(w, at, missing, found) ==
    /\ wpc[w] = at
    /\ \E info \in DOMAIN infos \cup {NULL} :
        /\ LookupInfo(SessionId(wjob[w]), info)
        /\ winfo' = [winfo EXCEPT ![w] = info]
        /\ Goto(w, IF info = NULL THEN missing ELSE found)
    /\ UNCHANGED <<clientVars, sessions, requestJobs, replyJobs, maxfds,
                   registryVars, listenerVars, wjob, wreply, replyVars, history>>

WorkerCreate(w, at, found) ==
    /\ wpc[w] = at
    /\ CreateInfo(SessionId(wjob[w]))
    /\ winfo' = [winfo EXCEPT ![w] = Len(infos) + 1]
    /\ Goto(w, found)
    /\ UNCHANGED <<clientVars, sessions, requestJobs, replyJobs, maxfds,
                   listenerVars, wjob, wreply, replyVars, history>>

\* The handlers of the connect and data interfaces look the session up once more,
\* to lock it; those of the config interface, the notification and the answer to
\* an unknown message do not.
HandlerStart(kind) ==
    CASE kind = "notify"              -> {"handle"}
      [] kind = "close"               -> {"run_lookup"}
      [] kind \in {"call", "garbage"} -> {"handle", "run_lookup"}

AddJob(w) ==
    /\ wpc[w] = "add_job"
    /\ infos' = [infos EXCEPT ![winfo[w]].jobs = @ \cup {wjob[w]}]
    /\ \E label \in HandlerStart(wjob[w].kind) : Goto(w, label)
    /\ UNCHANGED <<clientVars, sessions, requestJobs, replyJobs, maxfds,
                   registry, listenerVars, wjob, winfo, wreply, replyVars, history>>

\* The outcomes of ndmp_dispatch(...)(txn, ...): is reply.length > 0?
\* ndmp_connect_close alone sets it to 0; what a message that was never received
\* decodes to is anything.
Replies(kind) ==
    CASE kind \in {"call", "notify"} -> {TRUE}
      [] kind = "close"              -> {FALSE}
      [] kind = "garbage"            -> {TRUE, FALSE}

RunHandler(w) ==
    /\ wpc[w] = "handle"
    /\ \E r \in Replies(wjob[w].kind) : wreply' = [wreply EXCEPT ![w] = r]
    /\ Goto(w, "end_lookup")
    /\ UNCHANGED <<clientVars, sessions, requestJobs, replyJobs, maxfds,
                   registryVars, listenerVars, wjob, winfo, replyVars, history>>

\* cleanup_session: the job leaves the list of the info found this time.
RemoveJob(w) ==
    /\ wpc[w] = "remove_job"
    /\ infos' = [infos EXCEPT ![winfo[w]].jobs = @ \ {wjob[w]}]
    /\ Goto(w, "test")
    /\ UNCHANGED <<clientVars, sessions, requestJobs, replyJobs, maxfds,
                   registry, listenerVars, wjob, winfo, wreply, replyVars, history>>

\* Seeded bug: a job of a terminated session is dropped and not freed.
TestTerminated_Leaks(w) ==
    /\ wpc[w] = "test"
    /\ Goto(w, IF infos[winfo[w]].terminated THEN "dequeue"
               ELSE IF wreply[w] THEN "reply" ELSE "free")
    /\ UNCHANGED <<clientVars, sessions, requestJobs, replyJobs, maxfds,
                   registryVars, listenerVars, wjob, winfo, wreply, replyVars,
                   history>>

\* cleanup_session reads is_terminated and num_elems(session->jobs).
TestTerminated(w) ==
    /\ wpc[w] = "test"
    /\ LET info == infos[winfo[w]] IN
        Goto(w, CASE info.terminated /\ info.jobs = {} -> "remove_info"
                  [] info.terminated /\ info.jobs # {} -> "free"
                  [] ~info.terminated /\ wreply[w]     -> "reply"
                  [] OTHER                             -> "free")
    /\ UNCHANGED <<clientVars, sessions, requestJobs, replyJobs, maxfds,
                   registryVars, listenerVars, wjob, winfo, wreply, replyVars,
                   history>>

\* Seeded bug: the info is freed and stays in the queue.
RemoveInfo_Keeps(w) ==
    /\ wpc[w] = "remove_info"
    /\ infos' = [infos EXCEPT ![winfo[w]].released = TRUE]
    /\ Goto(w, "free")
    /\ UNCHANGED <<clientVars, sessions, requestJobs, replyJobs, maxfds,
                   registry, listenerVars, wjob, winfo, wreply, replyVars, history>>

\* remove_elem takes out the first info with this id, if another worker has not;
\* free() is given the one looked up.
RemoveInfo(w) ==
    /\ wpc[w] = "remove_info"
    /\ LET sid == infos[winfo[w]].sid IN
        \/ \E i \in DOMAIN registry :
            FirstInfo(sid, i) /\ registry' = RemoveAt(registry, i)
        \/ (\A i \in DOMAIN registry : InfoAt(i).sid # sid) /\ UNCHANGED registry
    /\ infos' = [infos EXCEPT ![winfo[w]].released = TRUE]
    /\ Goto(w, "free")
    /\ UNCHANGED <<clientVars, sessions, requestJobs, replyJobs, maxfds,
                   listenerVars, wjob, winfo, wreply, replyVars, history>>

NextRequest(w) ==
    /\ wjob' = [wjob EXCEPT ![w] = NoTxn]
    /\ winfo' = [winfo EXCEPT ![w] = NULL]
    /\ wreply' = [wreply EXCEPT ![w] = FALSE]
    /\ Goto(w, "dequeue")

\* The client has terminated or there is no reply.
FreeRequest(w) ==
    /\ wpc[w] = "free"
    /\ freed' = freed \cup {wjob[w]}
    /\ NextRequest(w)
    /\ UNCHANGED <<clientVars, sessions, requestJobs, replyJobs, maxfds,
                   registryVars, listenerVars, replyVars, created>>

\* Seeded bug: the worker frees the transaction it has queued.
EnqueueReply_Frees(w) ==
    /\ wpc[w] = "reply"
    /\ replyJobs' = Append(replyJobs, wjob[w])
    /\ freed' = freed \cup {wjob[w]}
    /\ NextRequest(w)
    /\ UNCHANGED <<clientVars, sessions, requestJobs, maxfds, registryVars,
                   listenerVars, replyVars, created>>

EnqueueReply(w) ==
    /\ wpc[w] = "reply"
    /\ replyJobs' = Append(replyJobs, wjob[w])
    /\ NextRequest(w)
    /\ UNCHANGED <<clientVars, sessions, requestJobs, maxfds, registryVars,
                   listenerVars, replyVars, history>>

Worker(w) ==
    \/ DequeueRequest(w)
    \/ WorkerLookup(w, "add_lookup", "add_create", "add_job")
    \/ WorkerCreate(w, "add_create", "add_job")
    \/ AddJob(w)
    \/ WorkerLookup(w, "run_lookup", "run_create", "handle")
    \/ WorkerCreate(w, "run_create", "handle")
    \/ RunHandler(w)
    \/ WorkerLookup(w, "end_lookup", "end_create", "remove_job")
    \/ WorkerCreate(w, "end_create", "remove_job")
    \/ RemoveJob(w)
    \/ TestTerminated(w)
    \/ RemoveInfo(w)
    \/ FreeRequest(w)
    \/ EnqueueReply(w)
-----------------------------------------------------------------------------
(* The reply thread: process_response of worker.c.                         *)

DequeueReply ==
    /\ rpc = "dequeue" /\ replyJobs # <<>>
    /\ rjob' = Head(replyJobs) /\ replyJobs' = Tail(replyJobs)
    /\ rpc' = "check"
    /\ UNCHANGED <<clientVars, sessions, requestJobs, maxfds, registryVars,
                   listenerVars, workerVars, history>>

\* Is the session still valid?  session_comparator compares the id alone.
CheckSession ==
    /\ rpc = "check"
    /\ rpc' = IF SessionId(rjob) \in ToSet(sessions) THEN "send" ELSE "free"
    /\ UNCHANGED <<clientVars, sessions, requestJobs, replyJobs, maxfds,
                   registryVars, listenerVars, workerVars, rjob, history>>

\* send() on a descriptor that is closed: EBADF.
SendNowhere ==
    /\ rpc = "send" /\ SessionId(rjob) \notin OpenFds
    /\ rpc' = "free"
    /\ UNCHANGED <<clientVars, sessions, requestJobs, replyJobs, maxfds,
                   registryVars, listenerVars, workerVars, rjob, history>>

\* send() to the connection that has the descriptor now.  A client that has
\* closed its end reads nothing any more.
SendReply ==
    /\ rpc = "send" /\ SessionId(rjob) \in OpenFds
    /\ LET c == Owner(SessionId(rjob)) IN
        /\ peer[c] \in {"up", "fin"}
        /\ delivered' = IF peer[c] = "up"
                        THEN [delivered EXCEPT ![c] = Append(@, rjob)]
                        ELSE delivered
    /\ rpc' = "free"
    /\ UNCHANGED <<phase, backlog, peer, inbox, sent, fdOf, sessions,
                   requestJobs, replyJobs, maxfds, registryVars, listenerVars,
                   workerVars, rjob, history>>

\* send() on a connection that was reset reports the pending error ...
SendReset ==
    /\ rpc = "send" /\ SessionId(rjob) \in OpenFds
    /\ LET c == Owner(SessionId(rjob)) IN
        /\ peer[c] = "rst"
        /\ peer' = [peer EXCEPT ![c] = "dead"]
    /\ rpc' = "free"
    /\ UNCHANGED <<phase, backlog, inbox, sent, fdOf, delivered, sessions,
                   requestJobs, replyJobs, maxfds, registryVars, listenerVars,
                   workerVars, rjob, history>>

\* ... or raises SIGPIPE, which the server neither ignores nor handles.
SendBrokenPipe ==
    /\ rpc = "send" /\ SessionId(rjob) \in OpenFds
    /\ peer[Owner(SessionId(rjob))] \in {"rst", "dead"}
    /\ lpc' = "dead" /\ wpc' = [w \in Workers |-> "dead"] /\ rpc' = "dead"
    /\ UNCHANGED <<clientVars, sessions, requestJobs, replyJobs, maxfds,
                   registryVars, ready, lfd, linfo, wjob, winfo, wreply, rjob, history>>

FreeReply ==
    /\ rpc = "free"
    /\ freed' = freed \cup {rjob}
    /\ rpc' = "dequeue" /\ rjob' = NoTxn
    /\ UNCHANGED <<clientVars, sessions, requestJobs, replyJobs, maxfds,
                   registryVars, listenerVars, workerVars, created>>

Responder ==
    \/ DequeueReply
    \/ CheckSession
    \/ SendNowhere
    \/ SendReply
    \/ SendReset
    \/ SendBrokenPipe
    \/ FreeReply
-----------------------------------------------------------------------------
Client(c) ==
    \/ ClientConnect(c)
    \/ \E kind \in Kinds : ClientSend(c, kind)
    \/ ClientClose(c)
    \/ ClientReset(c)

Next ==
    \/ \E c \in Conns : Client(c)
    \/ Listener
    \/ \E w \in Workers : Worker(w)
    \/ Responder

Spec == Init /\ [][Next]_vars

\* The scheduler runs every thread that can run.  Clients owe nothing, and
\* accept() is not for ever unlucky with its uninitialised length.
Fairness ==
    /\ WF_vars(Listener)
    /\ \A w \in Workers : WF_vars(Worker(w))
    /\ WF_vars(Responder)

FairSpec == Spec /\ Fairness
-----------------------------------------------------------------------------
ClientTypes ==
    /\ phase \in [Conns -> {"none", "backlog", "open", "closed", "dropped"}]
    /\ backlog \in Seq(Conns)
    /\ peer \in [Conns -> {"up", "fin", "rst", "dead"}]
    /\ inbox \in [Conns -> Seq(Request)]
    /\ sent \in [Conns -> 0..MaxRequests]
    /\ fdOf \in [Conns -> Fds \cup {NoFd}]
    /\ delivered \in [Conns -> Seq(Txn)]

QueueTypes ==
    /\ sessions \in Seq(Fds)
    /\ requestJobs \in Seq(Txn) /\ replyJobs \in Seq(Txn)
    /\ maxfds \in Fds \cup {ListenFd}
    /\ created \in SUBSET Txn /\ freed \in SUBSET Txn

Info == [sid : Fds, terminated : BOOLEAN, jobs : SUBSET Txn, released : BOOLEAN]

RegistryTypes ==
    /\ infos \in Seq(Info)
    /\ registry \in Seq(DOMAIN infos)

ListenerTypes ==
    /\ lpc \in {"select", "scan", "remove", "lookup", "create", "mark", "dead"}
    /\ ready \in SUBSET Fds
    /\ lfd \in Fds \cup {NoFd}
    /\ linfo \in DOMAIN infos \cup {NULL}

WorkerTypes ==
    /\ wpc \in [Workers -> {"dequeue", "add_lookup", "add_create", "add_job",
                            "run_lookup", "run_create", "handle", "end_lookup",
                            "end_create", "remove_job", "test", "remove_info",
                            "free", "reply", "dead"}]
    /\ wjob \in [Workers -> Txn \cup {NoTxn}]
    /\ winfo \in [Workers -> DOMAIN infos \cup {NULL}]
    /\ wreply \in [Workers -> BOOLEAN]

ReplyTypes ==
    /\ rpc \in {"dequeue", "check", "send", "free", "dead"}
    /\ rjob \in Txn \cup {NoTxn}

TypeOK ==
    /\ ClientTypes /\ QueueTypes /\ RegistryTypes
    /\ ListenerTypes /\ WorkerTypes /\ ReplyTypes
-----------------------------------------------------------------------------
(* What the listener's bookkeeping must keep true.                         *)

\* The sessions are the open connections, each once, and a descriptor names one
\* connection: handle_a_client_request dereferences the result of get_elem
\* without looking at it, and process_response trusts it to tell a live client
\* from a dead one.  Only between close() and remove_elem is there a session
\* more than there are connections.
SessionsConsistent ==
    Alive =>
    /\ \A i, j \in DOMAIN sessions : sessions[i] = sessions[j] => i = j
    /\ ToSet(sessions) = OpenFds \cup (IF lpc = "remove" THEN {lfd} ELSE {})
    /\ lpc = "remove" => lfd \notin OpenFds
    /\ \A c, d \in OpenConns : fdOf[c] = fdOf[d] => c = d

\* Every descriptor the scan has still to handle is an open session that recv()
\* will not find empty, and select() watches every session: none is above
\* ctx->maxfds.
ScanSafe ==
    /\ lpc = "scan" => ready # {}
    /\ ready \subseteq ReadableFds
    /\ \A i \in DOMAIN sessions : sessions[i] <= maxfds

(* The invariant the two follow from, with the types.                      *)

\* A descriptor belongs to the connections accepted on it; the backlog holds
\* those that were not accepted yet, each once.
AcceptedOnce ==
    /\ \A c \in Conns : phase[c] \in {"open", "closed"} <=> fdOf[c] # NoFd
    /\ \A i \in DOMAIN backlog : phase[backlog[i]] = "backlog"
    /\ \A i, j \in DOMAIN backlog : backlog[i] = backlog[j] => i = j

\* Every transaction carries the session of a connection that was accepted.
Accepted(txn) == txn \in Txn /\ fdOf[txn.conn] # NoFd
TxnsAccepted ==
    /\ \A i \in DOMAIN requestJobs : Accepted(requestJobs[i])
    /\ \A i \in DOMAIN replyJobs : Accepted(replyJobs[i])
    /\ \A w \in Workers : wpc[w] \notin {"dequeue", "dead"} => Accepted(wjob[w])
    /\ rpc \notin {"dequeue", "dead"} => Accepted(rjob)

\* Where a worker dereferences the info it has looked up.
UsesInfo == {"add_job", "handle", "remove_job", "test", "remove_info"}

\* What a thread holds where it is: no NULL pointer is dereferenced.
PcConsistent ==
    /\ lpc \in {"remove", "lookup", "create", "mark"} => lfd # NoFd
    /\ lpc = "mark" => linfo # NULL
    /\ lpc = "select" => ready = {}
    /\ \A w \in Workers : wpc[w] \in UsesInfo => winfo[w] # NULL
    /\ rpc = "dead" => lpc = "dead" /\ \A w \in Workers : wpc[w] = "dead"

ServerInv ==
    /\ TypeOK
    /\ AcceptedOnce
    /\ TxnsAccepted
    /\ PcConsistent
    /\ SessionsConsistent
    /\ ScanSafe

(* What happens to a client_txn.                                           *)

Count(seq, txn) == Cardinality({i \in DOMAIN seq : seq[i] = txn})
Holders(txn) ==
    Count(requestJobs, txn) + Count(replyJobs, txn)
    + Cardinality({w \in Workers : wjob[w] = txn})
    + (IF rjob = txn THEN 1 ELSE 0)

\* A client_txn belongs to one queue or one thread until it is freed, once: the
\* worker hands it over or frees it, and never both.
OneOwner ==
    \A txn \in Txn :
        Holders(txn) = IF txn \in created \ freed THEN 1 ELSE 0

\* A client_txn that was queued is freed in the end, with or without a reply.
JobsEnd == \A txn \in Txn : (txn \in created) ~> (txn \in freed \/ ~Alive)

(* What the clients see.                                                   *)

\* The replies a client receives to its own requests come in the order of the
\* requests, the notification first, and none comes twice: two FIFO queues and
\* one worker between them.
RepliesInOrder ==
    \A c \in Conns : \A i, j \in DOMAIN delivered[c] :
        /\ i < j /\ delivered[c][i].conn = c /\ delivered[c][j].conn = c
        => delivered[c][i].num < delivered[c][j].num

\* The connection is the only one there has been on its descriptor.
SoleUser(c) == \A d \in Conns : fdOf[d] = fdOf[c] => d = c

\* As long as a descriptor was not reused, a client that waits for its replies
\* receives the notification and then the reply to each of its calls, and
\* nothing else.
SoleUserServed ==
    \A c \in Conns : SoleUser(c) =>
        \A i \in DOMAIN delivered[c] :
            delivered[c][i].conn = c /\ delivered[c][i].num = i - 1

Answered(c, n) ==
    \E i \in DOMAIN delivered[c] :
        delivered[c][i].conn = c /\ delivered[c][i].num = n

Waits(c, n) == Contains(inbox[c], [num |-> n, kind |-> "call"])

\* The client of a descriptor used for the first time is notified, and its calls
\* are answered, unless it goes away.
SoleUserAnswered ==
    \A c \in Conns :
        /\ (phase[c] = "open" /\ SoleUser(c)) ~> (Answered(c, 0) \/ peer[c] # "up")
        /\ \A n \in 1..MaxRequests :
            (Waits(c, n) /\ SoleUser(c)) ~> (Answered(c, n) \/ peer[c] # "up")

\* The server closes the connection of a client that is gone and forgets its
\* session, whatever else it has to do.
Forgotten(c) ==
    /\ phase[c] = "closed"
    /\ fdOf[c] \in ToSet(sessions) => fdOf[c] \in OpenFds

HangupNoticed ==
    \A c \in Conns :
        (phase[c] = "open" /\ peer[c] # "up") ~> (Forgotten(c) \/ ~Alive)

(* What the workers may rely on, one worker at a time.                     *)

\* No freed ndmp_session_info is in the registry, nor held by a worker that is
\* about to use it: cleanup_session takes out of the queue the info it frees.
NoDanglingInfo ==
    /\ \A i \in DOMAIN registry : ~infos[registry[i]].released
    /\ \A w \in Workers : wpc[w] \in UsesInfo => ~infos[winfo[w]].released
-----------------------------------------------------------------------------
(* What comments of the code and the protocol say, and the code does not do. *)

\* ndmp_msg.c:250: "Since we create a new sessions in this function, it needs to
\* be thread-safe": get_session_info leaves one info for each session id.
SessionInfoUnique ==
    \A i, j \in DOMAIN registry :
        infos[registry[i]].sid = infos[registry[j]].sid => i = j

\* ndmp_msg.c:310: "If all jobs are done and the session is terminated, we
\* remove the session from the session queue."
TerminatedRemoved ==
    (/\ lpc = "select" /\ requestJobs = <<>>
     /\ \A w \in Workers : wpc[w] = "dequeue")
        => \A i \in DOMAIN registry : ~infos[registry[i]].terminated

\* ndmp_msg.c:242: "The state updates must occur in a thread-safe manner":
\* terminate_session does not write to an info a worker has freed.
NoWriteAfterFree == lpc = "mark" => ~infos[linfo].released

\* ndmp_msg.c:76: "comm layer needs to check again for client termination,
\* before sending the response": a reply reaches the client it is for, or none.
ReplyReachesItsClient ==
    \A c \in Conns : \A i \in DOMAIN delivered[c] : delivered[c][i].conn = c

\* comm.c:244: the pseudo request is there "so that a NDMP_NOTIFY_CONNECTED
\* request can be sent to client": a client that stays receives it.
NotifyDelivered ==
    \A c \in Conns :
        (phase[c] = "open") ~> (Answered(c, 0) \/ peer[c] # "up" \/ ~Alive)

\* ndmp_draft_v3_0.doc:180: NDMP "is not a call-return model, but rather a
\* bi-directional asynchronous messaging model": a call is answered whether or
\* not the client waited for the reply to the one before.
EveryCallAnswered ==
    \A c \in Conns : \A n \in 1..MaxRequests :
        (Waits(c, n) /\ phase[c] = "open")
            ~> (Answered(c, n) \/ peer[c] # "up" \/ ~Alive)
=============================================================================
