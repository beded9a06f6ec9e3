------------------------ MODULE NdmpOwnershipProofs ------------------------
(***************************************************************************)
(* What becomes of a client_txn on its way from comm.c through the queues  *)
(* and the threads of worker.c: each has one owner, the replies keep the   *)
(* order of the requests, no thread uses a freed ndmp_session_info, and a  *)
(* client that waits for its replies is served.                            *)
(*                                                                         *)
(* The first and the last hold for any number of workers.  The order and   *)
(* the infos take what the server has, one worker.                         *)
(***************************************************************************)
EXTENDS NdmpServerProofs, FiniteSetTheorems

(* Who holds what, and which numbers are used up.                          *)

Waiting   == ToSet(requestJobs)
Handled   == {wjob[w] : w \in Workers} \ {NoTxn}
Answering == ToSet(replyJobs)
Replying  == {rjob} \ {NoTxn}

\* No two of the queues and the threads hold the same transaction, nor one twice.
Exclusive ==
    /\ Distinct(requestJobs) /\ Distinct(replyJobs)
    /\ \A v, w \in Workers : wjob[v] = wjob[w] /\ wjob[v] # NoTxn => v = w
    /\ Waiting \cap Handled = {} /\ Waiting \cap Answering = {}
    /\ Waiting \cap Replying = {} /\ Handled \cap Answering = {}
    /\ Handled \cap Replying = {} /\ Answering \cap Replying = {}

\* What they hold is what was queued and is not yet freed; an idle thread holds
\* nothing.
Accounted ==
    /\ created \ freed = Waiting \cup Handled \cup Answering \cup Replying
    /\ freed \subseteq created
    /\ \A w \in Workers : wpc[w] = "dequeue" => wjob[w] = NoTxn
    /\ rpc = "dequeue" => rjob = NoTxn

\* A connection's transactions have their numbers from the notification, its
\* requests in the order they were sent, and the failed recv(), after which it
\* sends no more.
Precedes(x, y) == x.conn = y.conn => x.num < y.num
Numbered ==
    /\ \A txn \in created :
        /\ fdOf[txn.conn] # NoFd
        /\ \/ txn.num <= sent[txn.conn]
           \/ txn.num = MaxRequests + 1 /\ peer[txn.conn] = "dead"
        /\ \A i \in DOMAIN inbox[txn.conn] : txn.num < inbox[txn.conn][i].num
    /\ \A x, y \in created : x.conn = y.conn /\ x.num = y.num => x = y
    /\ \A c \in Conns : \A i \in DOMAIN inbox[c] :
        /\ inbox[c][i].num <= sent[c]
        /\ \A j \in DOMAIN inbox[c] : i < j => inbox[c][i].num < inbox[c][j].num

OwnershipInv == ServerInv /\ Exclusive /\ Accounted /\ Numbered

(* The order of the replies.                                               *)

Delivered == UNION {ToSet(delivered[c]) : c \in Conns}
Ascending(seq) == \A i, j \in DOMAIN seq : i < j => Precedes(seq[i], seq[j])
Ahead(front, back) == \A x \in front, y \in back : Precedes(x, y)

\* A reply that is out, or about to be, is ahead of those in the queue, these of
\* what the worker handles, and that of what waits.
InOrder ==
    /\ Delivered \subseteq created
    /\ Ascending(requestJobs) /\ Ascending(replyJobs)
    /\ \A c \in Conns : Ascending(delivered[c])
    /\ Ahead(Delivered \cup Replying, Answering)
    /\ Ahead(Delivered \cup Replying \cup Answering, Handled)
    /\ Ahead(Delivered \cup Replying \cup Answering \cup Handled, Waiting)
    /\ rpc \in {"check", "send"} => Ahead(Delivered, Replying)

(* The infos of sessions.                                                  *)

Registered(fd) == \E i \in DOMAIN registry : InfoAt(i).sid = fd
IsFirstInfo(fd, info) == \E i \in DOMAIN registry : FirstInfo(fd, i) /\ info = registry[i]

\* No info is twice in the registry, and none that is freed is there.
RegistryKept == Distinct(registry) /\ \A i \in DOMAIN registry : ~InfoAt(i).released

\* From its first look at the session to its last a job finds an info in the
\* registry; what the last one found is the first with its id, which remove_elem
\* takes out.
WorkerInfos(w) ==
    /\ wpc[w] \notin {"run_create", "end_create"}
    /\ wpc[w] \in {"add_job", "handle"} => winfo[w] \in ToSet(registry)
    /\ wpc[w] \in {"add_job", "run_lookup", "handle", "end_lookup"} =>
            Registered(SessionId(wjob[w]))
    /\ wpc[w] \in {"remove_job", "test", "remove_info"} =>
            IsFirstInfo(SessionId(wjob[w]), winfo[w])

InfosKept == RegistryKept /\ \A w \in Workers : WorkerInfos(w)

(* A client that waits for its replies.                                    *)

\* What the server has of a connection and has not answered.
Outstanding(c) ==
    {txn \in created \ freed : txn.conn = c /\ (txn = rjob => rpc \in {"check", "send"})}

\* At most one request is on its way, the one that follows the replies received.
Served(c) ==
    /\ sent[c] <= Len(delivered[c]) /\ Len(delivered[c]) <= sent[c] + 1
    /\ \A i \in DOMAIN delivered[c] :
            delivered[c][i].conn = c /\ delivered[c][i].num = i - 1
    /\ \A txn \in Outstanding(c) : txn.num \in {Len(delivered[c]), MaxRequests + 1}
    /\ \A i \in DOMAIN inbox[c] : inbox[c][i].num = Len(delivered[c])
WaitingServed ==
    \A c \in Conns :
        /\ fdOf[c] = NoFd => delivered[c] = <<>> /\ sent[c] = 0
        /\ fdOf[c] # NoFd /\ SoleUser(c) => Served(c)
-----------------------------------------------------------------------------
(* The steps, by what they do to the transactions.                         *)

\* A step that moves no transaction and no request.
Quiet ==
    /\ UNCHANGED <<requestJobs, replyJobs, wjob, rjob, created, freed, delivered,
                   inbox, sent, fdOf>>
    /\ \A c \in Conns : peer[c] = "dead" => peer'[c] = "dead"
    /\ \A w \in Workers : wpc'[w] = "dequeue" => wpc[w] = "dequeue"
    /\ rpc' = "dequeue" => rpc = "dequeue"
    /\ rpc' \in {"check", "send"} => rpc \in {"check", "send"}

\* What moves one, or a request.
Moving ==
    \/ \E c \in Conns, kind \in Kinds : ClientSend(c, kind)
    \/ \E fd \in Fds : AcceptConnection(fd) \/ ReceiveError(fd)
    \/ \E fd \in Fds, n \in 1..MaxRequests : ReceiveRequest(fd, n)
    \/ \E w \in Workers : DequeueRequest(w) \/ FreeRequest(w) \/ EnqueueReply(w)
    \/ DequeueReply \/ SendReply \/ FreeReply

\* A worker that is not idle has a transaction, as the reply thread has.
LEMMA WorkerJob ==
    ASSUME ServerInv, NEW w \in Workers, wpc[w] \notin {"dequeue", "dead"}
    PROVE  wjob[w] \in Txn /\ wjob[w] # NoTxn /\ wjob[w].kind \in JobKinds
BY NoTxnAssumption DEF ServerInv, TxnsAccepted, Accepted, Txn

\* No other step of the server does.
LEMMA QuietOrMoving ==
    ASSUME ServerInv, [Next]_vars
    PROVE  Quiet \/ Moving
<1> USE DEF clientVars, registryVars, listenerVars, workerVars, replyVars, history,
            serverVars
<1>1. ASSUME NEW c \in Conns, ClientConnect(c) \/ ClientClose(c) \/ ClientReset(c)
      PROVE  Quiet
  BY <1>1 DEF ClientConnect, ClientClose, ClientReset, Quiet, ServerInv, TypeOK, ClientTypes
<1>2. ASSUME \/ AcceptFails \/ WakeForClients \/ \E fd \in Fds : ReceiveEof(fd)
             \/ RemoveSession \/ TerminateLookup \/ TerminateCreate \/ MarkTerminated
      PROVE  Quiet
  BY <1>2 DEF AcceptFails, WakeForClients, ReceiveEof, RemoveSession, TerminateLookup,
              TerminateCreate, MarkTerminated, Quiet
<1>3. ASSUME NEW w \in Workers, Worker(w)
      PROVE  Quiet \/ Moving
  <2>1. ASSUME NEW label, label # "dequeue", wpc' = [wpc EXCEPT ![w] = label]
        PROVE  \A v \in Workers : wpc'[v] = "dequeue" => wpc[v] = "dequeue"
    BY <2>1 DEF ServerInv, TypeOK, WorkerTypes
  <2>2. ASSUME NEW at, NEW missing, NEW found, missing # "dequeue", found # "dequeue",
               WorkerLookup(w, at, missing, found) \/ WorkerCreate(w, at, found)
        PROVE  Quiet
    <3>1. \E label \in {missing, found} : wpc' = [wpc EXCEPT ![w] = label]
      BY <2>2 DEF WorkerLookup, WorkerCreate, Goto
    <3>2. \A v \in Workers : wpc'[v] = "dequeue" => wpc[v] = "dequeue"
      BY <2>1, <2>2, <3>1
    <3> QED
      BY <2>2, <3>2 DEF WorkerLookup, WorkerCreate, Quiet
  <2>3. ASSUME AddJob(w) \/ RunHandler(w) \/ RemoveJob(w) \/ TestTerminated(w) \/ RemoveInfo(w)
        PROVE  Quiet
    <3>1. \E label : label # "dequeue" /\ wpc' = [wpc EXCEPT ![w] = label]
      <4>1. CASE AddJob(w)
        <5>1. wjob[w].kind \in {"call", "close", "notify", "garbage"}
          BY <4>1, WorkerJob DEF AddJob, JobKinds, Kinds
        <5>2. HandlerStart(wjob[w].kind) \subseteq {"handle", "run_lookup"}
          BY <5>1 DEF HandlerStart
        <5> QED
          BY <4>1, <5>2 DEF AddJob, Goto
      <4>2. CASE TestTerminated(w)
        BY <4>2 DEF TestTerminated, Goto
      <4> QED
        BY <2>3, <4>1, <4>2 DEF RunHandler, RemoveJob, RemoveInfo, Goto
    <3>2. \A v \in Workers : wpc'[v] = "dequeue" => wpc[v] = "dequeue"
      BY <2>1, <3>1
    <3> QED
      BY <2>3, <3>2 DEF AddJob, RunHandler, RemoveJob, TestTerminated, RemoveInfo, Quiet
  <2>4. CASE \/ WorkerLookup(w, "add_lookup", "add_create", "add_job")
             \/ WorkerLookup(w, "run_lookup", "run_create", "handle")
             \/ WorkerLookup(w, "end_lookup", "end_create", "remove_job")
    BY <2>2, <2>4
  <2>5. CASE \/ WorkerCreate(w, "add_create", "add_job")
             \/ WorkerCreate(w, "run_create", "handle")
             \/ WorkerCreate(w, "end_create", "remove_job")
    BY <2>2, <2>5
  <2> QED
    BY <1>3, <2>3, <2>4, <2>5 DEF Worker, Moving
<1>4. ASSUME Responder PROVE Quiet \/ Moving
  <2>1. ASSUME CheckSession \/ SendNowhere PROVE Quiet
    BY <2>1 DEF CheckSession, SendNowhere, Quiet
  <2>2. ASSUME SendReset PROVE Quiet
    BY <2>2, OwnerOpen DEF SendReset, Quiet, OpenConns, ServerInv, TypeOK, ClientTypes
  <2>3. ASSUME SendBrokenPipe PROVE Quiet
    BY <2>3 DEF SendBrokenPipe, Quiet
  <2> QED
    BY <1>4, <2>1, <2>2, <2>3 DEF Responder, Moving
<1>5. CASE UNCHANGED vars
  BY <1>5 DEF vars, Quiet
<1> QED
  BY <1>1, <1>2, <1>3, <1>4, <1>5 DEF Next, Client, Listener, Moving
-----------------------------------------------------------------------------
(* A transaction has one owner.                                            *)

LEMMA QueueFacts ==
    ASSUME ServerInv
    PROVE  /\ requestJobs \in Seq(Txn) /\ replyJobs \in Seq(Txn)
           /\ Waiting \subseteq Txn /\ Answering \subseteq Txn
           /\ NoTxn \notin Waiting /\ NoTxn \notin Answering
<1>1. requestJobs \in Seq(Txn) /\ replyJobs \in Seq(Txn)
  BY DEF ServerInv, TypeOK, QueueTypes
<1>2. Waiting \subseteq Txn /\ Answering \subseteq Txn
  BY <1>1, RangeOfSeq DEF Waiting, Answering, ToSet
<1> QED
  BY <1>1, <1>2, NoTxnAssumption

\* A step that moves nothing.
LEMMA QuietOwnership ==
    ASSUME OwnershipInv, Quiet
    PROVE  Exclusive' /\ Accounted' /\ Numbered'
<1>1. Waiting' = Waiting /\ Handled' = Handled /\ Answering' = Answering
      /\ Replying' = Replying
  BY DEF Quiet, Waiting, Handled, Answering, Replying
<1>2. Exclusive'
  BY <1>1 DEF OwnershipInv, Exclusive, Quiet, Distinct
<1>3. Accounted'
  BY <1>1 DEF OwnershipInv, Accounted, Quiet
<1>4. Numbered'
  <2>1. \A txn \in created : txn.conn \in Conns
    BY DEF OwnershipInv, ServerInv, TypeOK, QueueTypes, Txn
  <2> QED
    BY <2>1 DEF OwnershipInv, Numbered, Quiet
<1> QED
  BY <1>2, <1>3, <1>4

\* The rest of the step of a client that sends is numbering.
LEMMA SendOwnership ==
    ASSUME OwnershipInv, NEW c \in Conns, NEW kind \in Kinds, ClientSend(c, kind)
    PROVE  Exclusive' /\ Accounted' /\ Numbered'
<1> DEFINE r == [num |-> sent[c] + 1, kind |-> kind]
           n == Len(inbox[c])
<1>1. /\ UNCHANGED <<requestJobs, replyJobs, wjob, rjob, created, freed, wpc, rpc,
                     fdOf, peer>>
      /\ inbox' = [inbox EXCEPT ![c] = Append(inbox[c], r)]
      /\ sent' = [sent EXCEPT ![c] = sent[c] + 1] /\ peer[c] = "up"
  BY DEF ClientSend, serverVars, workerVars, replyVars, history
<1>2. /\ Waiting' = Waiting /\ Handled' = Handled /\ Answering' = Answering
      /\ Replying' = Replying
  BY <1>1 DEF Waiting, Handled, Answering, Replying
<1>3. Exclusive' /\ Accounted'
  BY <1>1, <1>2 DEF OwnershipInv, Exclusive, Accounted, Distinct
<1>4. /\ inbox \in [Conns -> Seq(Request)] /\ sent \in [Conns -> 0..MaxRequests]
      /\ created \subseteq Txn /\ MaxRequests \in Nat
  BY RequestAssumption DEF OwnershipInv, ServerInv, TypeOK, ClientTypes, QueueTypes
<1>5. sent[c] \in 0..MaxRequests /\ sent[c] < MaxRequests /\ r \in Request
  BY <1>4 DEF ClientSend, Request
<1>6. /\ DOMAIN inbox'[c] = 1..(n + 1) /\ DOMAIN inbox[c] = 1..n /\ n \in Nat
      /\ inbox'[c][n + 1] = r /\ \A i \in 1..n : inbox'[c][i] = inbox[c][i]
  BY <1>1, <1>4, <1>5, AppendProperties, LenProperties
<1>7. r.num = sent[c] + 1
  OBVIOUS
<1>8. \A d \in Conns \ {c} : inbox'[d] = inbox[d] /\ sent'[d] = sent[d]
  BY <1>1, <1>4
<1>9. sent'[c] = sent[c] + 1
  BY <1>1, <1>4
<1> HIDE DEF r, n
<1>10. Numbered'
  <2>1. ASSUME NEW txn \in created
        PROVE  /\ fdOf'[txn.conn] # NoFd
               /\ \/ txn.num <= sent'[txn.conn]
                  \/ txn.num = MaxRequests + 1 /\ peer'[txn.conn] = "dead"
               /\ \A i \in DOMAIN inbox'[txn.conn] : txn.num < inbox'[txn.conn][i].num
    <3>1. txn.conn \in Conns /\ txn.num \in Int
      BY <1>4 DEF Txn
    <3>2. CASE txn.conn = c
      <4>1. txn.num <= sent[c]
        BY <1>1, <3>2 DEF OwnershipInv, Numbered
      <4>2. \A i \in 1..n : txn.num < inbox[c][i].num
        BY <1>6, <3>2 DEF OwnershipInv, Numbered
      <4>3. \A i \in 1..(n + 1) : txn.num < inbox'[c][i].num
        BY <1>5, <1>6, <1>7, <3>1, <4>1, <4>2
      <4>4. txn.num <= sent'[c]
        BY <1>5, <1>9, <3>1, <4>1
      <4> QED
        BY <1>1, <1>6, <3>2, <4>3, <4>4 DEF OwnershipInv, Numbered
    <3>3. CASE txn.conn # c
      BY <1>1, <1>8, <3>1, <3>3 DEF OwnershipInv, Numbered
    <3> QED
      BY <3>2, <3>3
  <2>2. ASSUME NEW d \in Conns, NEW i \in DOMAIN inbox'[d]
        PROVE  /\ inbox'[d][i].num <= sent'[d]
               /\ \A j \in DOMAIN inbox'[d] : i < j => inbox'[d][i].num < inbox'[d][j].num
    <3>1. CASE d = c
      <4>1. \A k \in 1..n : inbox[c][k].num <= sent[c] /\ inbox[c][k].num \in Int
        <5>1. \A k \in 1..n : inbox[c][k] \in Request
          BY <1>4, <1>6, ElementOfSeq DEF n
        <5> QED
          BY <1>6, <5>1 DEF OwnershipInv, Numbered, Request
      <4>2. \A k, j \in 1..n : k < j => inbox[c][k].num < inbox[c][j].num
        BY <1>6 DEF OwnershipInv, Numbered
      <4>3. \A k \in 1..(n + 1) : inbox'[c][k].num <= sent'[c]
        BY <1>5, <1>6, <1>7, <1>9, <4>1
      <4>4. \A k, j \in 1..(n + 1) : k < j => inbox'[c][k].num < inbox'[c][j].num
        <5>1. \A k \in 1..n : inbox'[c][k].num < inbox'[c][n + 1].num
          BY <1>5, <1>6, <1>7, <4>1
        <5> QED
          BY <1>6, <4>2, <5>1
      <4> QED
        BY <1>6, <2>2, <3>1, <4>3, <4>4
    <3>2. CASE d # c
      BY <1>8, <2>2, <3>2 DEF OwnershipInv, Numbered
    <3> QED
      BY <3>1, <3>2
  <2> QED
    BY <1>1, <2>1, <2>2 DEF OwnershipInv, Numbered
<1> QED
  BY <1>3, <1>10

\* A transaction that comes after all there are of its connection.
Newest(t) == t \in Txn /\ \A txn \in created : Precedes(txn, t)
Queues(t) ==
    /\ Newest(t) /\ QueueRequest(t)
    /\ UNCHANGED <<replyJobs, wjob, rjob, freed, wpc, rpc, delivered, sent>>

\* It is new, and waits for a worker.
LEMMA QueuesOwnership ==
    ASSUME OwnershipInv, NEW t, Queues(t)
    PROVE  /\ Exclusive' /\ Accounted' /\ t \notin created
           /\ requestJobs' = Append(requestJobs, t) /\ created' = created \cup {t}
           /\ Waiting' = Waiting \cup {t} /\ Handled' = Handled
           /\ Answering' = Answering /\ Replying' = Replying
<1>1. /\ requestJobs' = Append(requestJobs, t) /\ created' = created \cup {t}
      /\ UNCHANGED <<replyJobs, wjob, rjob, freed, wpc, rpc>> /\ t \in Txn
  BY DEF Queues, Newest, QueueRequest
<1>2. t \notin created
  <2>1. t.num \in Int
    BY <1>1, RequestAssumption DEF Txn
  <2> QED
    BY <2>1 DEF Queues, Newest, Precedes
<1>3. t \notin freed /\ t # NoTxn
  BY <1>1, <1>2, NoTxnAssumption DEF OwnershipInv, Accounted
<1>4. t \notin Waiting \cup Handled \cup Answering \cup Replying
  BY <1>2 DEF OwnershipInv, Accounted
<1>5. /\ Waiting' = Waiting \cup {t}
      /\ Distinct(requestJobs) /\ t \notin Waiting => Distinct(requestJobs')
  BY <1>1, QueueFacts, AppendRange DEF Waiting, OwnershipInv
<1>6. Handled' = Handled /\ Answering' = Answering /\ Replying' = Replying
  BY <1>1 DEF Handled, Answering, Replying
<1>7. Exclusive'
  BY <1>1, <1>4, <1>5, <1>6 DEF OwnershipInv, Exclusive, Distinct
<1>8. Accounted'
  BY <1>1, <1>2, <1>3, <1>5, <1>6 DEF OwnershipInv, Accounted
<1> QED
  BY <1>1, <1>2, <1>5, <1>6, <1>7, <1>8

\* The numbers stay in order when it is queued and the requests up to its own
\* leave the kernel.
LEMMA QueuesNumbered ==
    ASSUME OwnershipInv, NEW t, Newest(t), NEW n \in Nat,
           created' = created \cup {t}, sent' = sent,
           \A c \in Conns : fdOf[c] # NoFd => fdOf'[c] # NoFd,
           \A c \in Conns : peer[c] = "dead" => peer'[c] = "dead",
           \A c \in Conns \ {t.conn} : inbox'[c] = inbox[c],
           \A i \in DOMAIN inbox'[t.conn] :
                /\ i \in Nat /\ i + n \in DOMAIN inbox[t.conn]
                /\ inbox'[t.conn][i] = inbox[t.conn][i + n]
                /\ t.num < inbox[t.conn][i + n].num,
           fdOf'[t.conn] # NoFd,
           \/ t.num <= sent[t.conn]
           \/ t.num = MaxRequests + 1 /\ peer'[t.conn] = "dead"
    PROVE  Numbered'
<1>1. /\ t.conn \in Conns /\ t.num \in Int
      /\ \A txn \in created : txn.conn \in Conns /\ txn.num \in Int
  BY RequestAssumption DEF Newest, OwnershipInv, ServerInv, TypeOK, QueueTypes, Txn
<1>2. ASSUME NEW txn \in created'
      PROVE  /\ fdOf'[txn.conn] # NoFd
             /\ \/ txn.num <= sent'[txn.conn]
                \/ txn.num = MaxRequests + 1 /\ peer'[txn.conn] = "dead"
             /\ \A i \in DOMAIN inbox'[txn.conn] : txn.num < inbox'[txn.conn][i].num
  <2>1. CASE txn = t
    BY <2>1
  <2>2. CASE txn \in created
    <3>1. /\ fdOf[txn.conn] # NoFd
          /\ \/ txn.num <= sent[txn.conn]
             \/ txn.num = MaxRequests + 1 /\ peer[txn.conn] = "dead"
          /\ \A i \in DOMAIN inbox[txn.conn] : txn.num < inbox[txn.conn][i].num
      BY <2>2 DEF OwnershipInv, Numbered
    <3>2. \A i \in DOMAIN inbox'[txn.conn] : txn.num < inbox'[txn.conn][i].num
      <4>1. CASE txn.conn = t.conn
        BY <3>1, <4>1
      <4>2. CASE txn.conn # t.conn
        BY <1>1, <2>2, <3>1, <4>2
      <4> QED
        BY <4>1, <4>2
    <3> QED
      BY <1>1, <2>2, <3>1, <3>2
  <2> QED
    BY <2>1, <2>2
<1>3. ASSUME NEW x \in created', NEW y \in created', x.conn = y.conn, x.num = y.num
      PROVE  x = y
  <2>1. \A txn \in created : txn.conn = t.conn => txn.num # t.num
    BY <1>1 DEF Newest, Precedes
  <2> QED
    BY <1>3, <2>1 DEF OwnershipInv, Numbered
<1>4. ASSUME NEW c \in Conns, NEW i \in DOMAIN inbox'[c]
      PROVE  /\ inbox'[c][i].num <= sent'[c]
             /\ \A j \in DOMAIN inbox'[c] : i < j => inbox'[c][i].num < inbox'[c][j].num
  <2>1. CASE c = t.conn
    <3>1. \A j \in DOMAIN inbox'[c] : i < j => i + n < j + n
      BY <2>1
    <3> QED
      BY <1>1, <1>4, <2>1, <3>1 DEF OwnershipInv, Numbered
  <2>2. CASE c # t.conn
    BY <1>4, <2>2 DEF OwnershipInv, Numbered
  <2> QED
    BY <2>1, <2>2
<1> QED
  BY <1>2, <1>3, <1>4 DEF Numbered

\* The notification is the first of its connection.
LEMMA AcceptQueues ==
    ASSUME OwnershipInv, NEW fd \in Fds, AcceptConnection(fd)
    PROVE  Queues(NotifyTxn(Head(backlog))) /\ Numbered'
<1> DEFINE c == Head(backlog)
           t == NotifyTxn(c)
<1>1. /\ c \in Conns /\ c = backlog[1] /\ 1 \in DOMAIN backlog
  BY TailProperties DEF AcceptConnection, OwnershipInv, ServerInv, TypeOK, ClientTypes
<1>2. fdOf[c] = NoFd
  BY <1>1 DEF OwnershipInv, ServerInv, AcceptedOnce
<1>3. t \in Txn /\ t.conn = c /\ t.num = 0
  BY <1>1, RequestAssumption DEF NotifyTxn, Txn, JobKinds
<1>4. Newest(t)
  BY <1>2, <1>3 DEF Newest, Precedes, OwnershipInv, Numbered
<1>5. /\ QueueRequest(t) /\ fdOf' = [fdOf EXCEPT ![c] = fd]
      /\ UNCHANGED <<replyJobs, wjob, rjob, freed, wpc, rpc, delivered, sent, peer, inbox>>
  BY DEF AcceptConnection, workerVars, replyVars
<1> HIDE DEF c, t
<1>6. created' = created \cup {t}
  BY <1>5 DEF QueueRequest
<1>7. fdOf \in [Conns -> Fds \cup {NoFd}] /\ NoFd \notin Fds
  BY FdFacts DEF OwnershipInv, ServerInv, TypeOK, ClientTypes
<1>8. fdOf'[c] # NoFd /\ \A d \in Conns : fdOf[d] # NoFd => fdOf'[d] # NoFd
  BY <1>1, <1>5, <1>7
<1>9. /\ inbox[c] \in Seq(Request) /\ sent[c] \in Nat
      /\ DOMAIN inbox[c] = 1..Len(inbox[c]) /\ Len(inbox[c]) \in Nat
  BY <1>1, LenProperties, RequestAssumption DEF OwnershipInv, ServerInv, TypeOK, ClientTypes
<1>10. \A i \in DOMAIN inbox[c] : 0 < inbox[c][i].num
  <2>1. \A i \in DOMAIN inbox[c] : inbox[c][i] \in Request
    BY <1>9, ElementOfSeq
  <2> QED
    BY <2>1, RequestAssumption DEF Request
<1>11. Numbered'
  <2>1. \A i \in DOMAIN inbox'[c] :
            /\ i \in Nat /\ i + 0 \in DOMAIN inbox[c]
            /\ inbox'[c][i] = inbox[c][i + 0] /\ t.num < inbox[c][i + 0].num
    BY <1>3, <1>5, <1>9, <1>10
  <2>2. t.num <= sent[c]
    BY <1>3, <1>9
  <2> QED
    BY <1>3, <1>4, <1>5, <1>6, <1>8, <2>1, <2>2, QueuesNumbered
<1> QED
  BY <1>4, <1>5, <1>11 DEF Queues, c, t

\* A request comes after those before it, and with it go the requests that the
\* same recv() took.
LEMMA ReceiveQueues ==
    ASSUME OwnershipInv, NEW fd \in Fds, NEW n \in 1..MaxRequests, ReceiveRequest(fd, n)
    PROVE  /\ \E t : Queues(t) /\ t.conn = Owner(fd) /\ t.num = inbox[t.conn][1].num
           /\ 1 \in DOMAIN inbox[Owner(fd)] /\ Numbered'
<1> DEFINE c == Owner(fd)
           t == [conn |-> c, num |-> Head(inbox[c]).num, kind |-> Head(inbox[c]).kind]
           s == inbox[c]
<1>1. c \in Conns /\ fdOf[c] = fd /\ fd # NoFd
  BY ScannedOwner, FdFacts DEF ReceiveRequest, OwnershipInv
<1>2. s \in Seq(Request) /\ n \in 1..Len(s) /\ Len(s) \in Nat /\ DOMAIN s = 1..Len(s)
  BY <1>1, LenProperties DEF ReceiveRequest, OwnershipInv, ServerInv, TypeOK, ClientTypes
<1>3. s[1] \in Request /\ Head(s) = s[1] /\ 1 \in DOMAIN s
  BY <1>2, ElementOfSeq
<1>4. t \in Txn /\ t.conn = c /\ t.num = s[1].num /\ t.num \in Nat
  BY <1>1, <1>3, RequestAssumption DEF Txn, Request, JobKinds
<1>5. Newest(t)
  BY <1>3, <1>4 DEF Newest, Precedes, OwnershipInv, Numbered
<1>6. /\ QueueRequest(t)
      /\ UNCHANGED <<replyJobs, wjob, rjob, freed, wpc, rpc, delivered, sent, peer, fdOf>>
      /\ inbox' = [inbox EXCEPT ![c] = SubSeq(s, n + 1, Len(s))]
  BY DEF ReceiveRequest, workerVars, replyVars
<1>7. inbox \in [Conns -> Seq(Request)]
  BY DEF OwnershipInv, ServerInv, TypeOK, ClientTypes
<1> HIDE DEF c, t
<1>8. /\ DOMAIN SubSeq(s, n + 1, Len(s)) = 1..(Len(s) - n)
      /\ \A i \in 1..(Len(s) - n) : SubSeq(s, n + 1, Len(s))[i] = s[n + i]
  <2>1. /\ \A i \in (n + 1)..Len(s) : s[i] \in Request
        /\ n + 1 \in Int /\ Len(s) \in Int
    BY <1>2, ElementOfSeq
  <2>2. /\ Len(SubSeq(s, n + 1, Len(s))) = Len(s) - n
        /\ SubSeq(s, n + 1, Len(s)) \in Seq(Request)
        /\ \A i \in 1..(Len(s) - n) : SubSeq(s, n + 1, Len(s))[i] = s[n + 1 + i - 1]
    BY <1>2, <2>1, SubSeqProperties
  <2> QED
    BY <1>2, <2>2, LenProperties
<1>9. inbox'[c] = SubSeq(s, n + 1, Len(s)) /\ \A d \in Conns \ {c} : inbox'[d] = inbox[d]
  BY <1>1, <1>6, <1>7
<1>10. \A i \in DOMAIN inbox'[c] :
            /\ i \in Nat /\ i + n \in DOMAIN inbox[c]
            /\ inbox'[c][i] = inbox[c][i + n] /\ t.num < inbox[c][i + n].num
  <2>1. ASSUME NEW i \in 1..(Len(s) - n)
        PROVE  /\ i \in Nat /\ i + n \in DOMAIN s /\ n + i = i + n /\ 1 < i + n
    BY <1>2
  <2>2. \A j \in DOMAIN s : 1 < j => s[1].num < s[j].num
    BY <1>1, <1>3 DEF OwnershipInv, Numbered
  <2> QED
    BY <1>4, <1>8, <1>9, <2>1, <2>2
<1>11. t.num <= sent[c]
  BY <1>1, <1>3, <1>4 DEF OwnershipInv, Numbered
<1>12. created' = created \cup {t}
  BY <1>6 DEF QueueRequest
<1>13. Numbered'
  <2>1. /\ n \in Nat /\ fdOf'[t.conn] # NoFd /\ fdOf' = fdOf /\ peer' = peer
        /\ sent' = sent
    BY <1>1, <1>2, <1>4, <1>6, RequestAssumption
  <2> QED
    BY <1>4, <1>5, <1>9, <1>10, <1>11, <1>12, <2>1, QueuesNumbered
<1>14. Queues(t)
  BY <1>5, <1>6 DEF Queues
<1> QED
  BY <1>3, <1>4, <1>13, <1>14 DEF c

\* What follows a failed recv() comes after everything, and nothing after it.
LEMMA ErrorQueues ==
    ASSUME OwnershipInv, NEW fd \in Fds, ReceiveError(fd)
    PROVE  Queues(GarbageTxn(Owner(fd))) /\ Numbered'
<1> DEFINE c == Owner(fd)
           t == GarbageTxn(c)
<1>1. c \in Conns /\ fdOf[c] = fd /\ fd # NoFd
  BY ScannedOwner, FdFacts DEF ReceiveError, OwnershipInv
<1>2. t \in Txn /\ t.conn = c /\ t.num = MaxRequests + 1
  BY <1>1, RequestAssumption DEF GarbageTxn, Txn, JobKinds
<1>3. /\ QueueRequest(t) /\ inbox[c] = <<>> /\ peer[c] = "rst"
      /\ peer' = [peer EXCEPT ![c] = "dead"]
      /\ UNCHANGED <<replyJobs, wjob, rjob, freed, wpc, rpc, delivered, sent, inbox, fdOf>>
  BY DEF ReceiveError, workerVars, replyVars
<1>4. /\ sent[c] \in 0..MaxRequests /\ peer \in [Conns -> {"up", "fin", "rst", "dead"}]
      /\ created \subseteq Txn
  BY <1>1 DEF OwnershipInv, ServerInv, TypeOK, ClientTypes, QueueTypes
<1> HIDE DEF c, t
<1>5. Newest(t)
  <2>1. ASSUME NEW txn \in created, txn.conn = c PROVE txn.num < MaxRequests + 1
    <3>1. txn.num <= sent[c] /\ txn.num \in Int
      BY <1>3, <1>4, <2>1 DEF OwnershipInv, Numbered, Txn
    <3> QED
      BY <1>4, <3>1, RequestAssumption
  <2> QED
    BY <1>2, <2>1 DEF Newest, Precedes
<1>6. created' = created \cup {t}
  BY <1>3 DEF QueueRequest
<1>7. peer'[c] = "dead" /\ \A d \in Conns : peer[d] = "dead" => peer'[d] = "dead"
  BY <1>1, <1>3, <1>4
<1>8. DOMAIN inbox'[c] = {}
  BY <1>3
<1>9. Numbered'
  BY <1>1, <1>2, <1>3, <1>5, <1>6, <1>7, <1>8, QueuesNumbered
<1> QED
  BY <1>3, <1>5, <1>9 DEF Queues, c, t

\* The numbers stay while a transaction moves on.
LEMMA NumberedFrame ==
    ASSUME Numbered, UNCHANGED <<created, fdOf, sent, peer, inbox>>
    PROVE  Numbered'
BY DEF Numbered

\* A worker takes the oldest transaction.
LEMMA DequeueRequestMoves ==
    ASSUME OwnershipInv, NEW w \in Workers, DequeueRequest(w)
    PROVE  /\ Exclusive' /\ Accounted' /\ Numbered'
           /\ requestJobs[1] \in Waiting /\ 1 \in DOMAIN requestJobs
           /\ wjob' = [wjob EXCEPT ![w] = requestJobs[1]] /\ wjob[w] = NoTxn
           /\ requestJobs' = Tail(requestJobs) /\ requestJobs # <<>>
           /\ Waiting' = Waiting \ {requestJobs[1]}
           /\ Handled' = Handled \cup {requestJobs[1]}
           /\ UNCHANGED <<replyJobs, rjob, created, freed, delivered, rpc, fdOf, sent, inbox>>
<1> DEFINE t == requestJobs[1]
<1>1. /\ requestJobs \in Seq(Txn) /\ requestJobs # <<>> /\ wpc[w] = "dequeue"
      /\ wpc' = [wpc EXCEPT ![w] = "add_lookup"]
      /\ wjob' = [wjob EXCEPT ![w] = Head(requestJobs)] /\ requestJobs' = Tail(requestJobs)
      /\ UNCHANGED <<replyJobs, rpc, rjob, created, freed, fdOf, sent, peer, inbox, delivered>>
  BY QueueFacts DEF DequeueRequest, Goto, clientVars, replyVars, history, OwnershipInv
<1>2. Distinct(requestJobs) /\ wjob[w] = NoTxn
  BY <1>1 DEF OwnershipInv, Exclusive, Accounted
<1>3. /\ t \in Waiting /\ Head(requestJobs) = t /\ 1 \in DOMAIN requestJobs
      /\ Distinct(requestJobs') /\ Waiting' = Waiting \ {t}
  <2>1. Head(requestJobs) = requestJobs[1] /\ 1 \in DOMAIN requestJobs /\ Distinct(requestJobs')
    BY <1>1, <1>2, TailProperties
  <2>2. /\ ToSet(requestJobs) = ToSet(requestJobs') \cup {requestJobs[1]}
        /\ requestJobs[1] \notin ToSet(requestJobs')
    BY <1>1, <1>2, TailRange
  <2> QED
    BY <2>1, <2>2 DEF Waiting
<1> HIDE DEF t
<1>4. t # NoTxn /\ t \notin Handled \cup Answering \cup Replying
  BY <1>3, QueueFacts DEF OwnershipInv, Exclusive
<1>5. /\ wjob \in [Workers -> Txn \cup {NoTxn}] /\ wjob'[w] = t
      /\ \A v \in Workers \ {w} : wjob'[v] = wjob[v]
  BY <1>1, <1>3 DEF OwnershipInv, ServerInv, TypeOK, WorkerTypes
<1>6. Handled' = Handled \cup {t}
  BY <1>2, <1>4, <1>5 DEF Handled
<1>7. Answering' = Answering /\ Replying' = Replying
  BY <1>1 DEF Answering, Replying
<1>8. Exclusive'
  <2>1. \A u, v \in Workers : wjob'[u] = wjob'[v] /\ wjob'[u] # NoTxn => u = v
    <3>1. \A v \in Workers \ {w} : wjob[v] # t
      BY <1>4 DEF Handled
    <3> QED
      BY <1>5, <3>1 DEF OwnershipInv, Exclusive
  <2> QED
    BY <1>1, <1>3, <1>4, <1>6, <1>7, <2>1 DEF OwnershipInv, Exclusive, Distinct
<1>9. Accounted'
  <2>1. \A v \in Workers : wpc'[v] = "dequeue" => wjob'[v] = NoTxn
    BY <1>1, <1>5 DEF OwnershipInv, Accounted, ServerInv, TypeOK, WorkerTypes
  <2> QED
    BY <1>1, <1>3, <1>6, <1>7, <2>1 DEF OwnershipInv, Accounted
<1>10. Numbered'
  BY <1>1, NumberedFrame DEF OwnershipInv
<1> QED
  BY <1>1, <1>2, <1>3, <1>6, <1>8, <1>9, <1>10 DEF t

\* The worker lets go of its transaction.
LEMMA NextRequestMoves ==
    ASSUME OwnershipInv, NEW w \in Workers, wpc[w] \notin {"dequeue", "dead"}, NextRequest(w)
    PROVE  /\ wjob[w] \in Handled /\ Handled' = Handled \ {wjob[w]}
           /\ \A u, v \in Workers : wjob'[u] = wjob'[v] /\ wjob'[u] # NoTxn => u = v
           /\ \A v \in Workers : wpc'[v] = "dequeue" => wjob'[v] = NoTxn
           /\ wjob[w] \in Txn
<1>1. /\ wjob \in [Workers -> Txn \cup {NoTxn}]
      /\ wpc' = [wpc EXCEPT ![w] = "dequeue"] /\ wjob' = [wjob EXCEPT ![w] = NoTxn]
  BY DEF NextRequest, Goto, OwnershipInv, ServerInv, TypeOK, WorkerTypes
<1>2. wjob[w] \in Txn /\ wjob[w] # NoTxn
  BY WorkerJob DEF OwnershipInv
<1>3. wjob'[w] = NoTxn /\ \A v \in Workers \ {w} : wjob'[v] = wjob[v] /\ wjob[v] # wjob[w]
  BY <1>1, <1>2 DEF OwnershipInv, Exclusive
<1>4. wjob[w] \in Handled /\ Handled' = Handled \ {wjob[w]}
  BY <1>2, <1>3 DEF Handled
<1>5. \A u, v \in Workers : wjob'[u] = wjob'[v] /\ wjob'[u] # NoTxn => u = v
  BY <1>3 DEF OwnershipInv, Exclusive
<1>6. \A v \in Workers : wpc'[v] = "dequeue" => wjob'[v] = NoTxn
  BY <1>1, <1>3 DEF OwnershipInv, Accounted, ServerInv, TypeOK, WorkerTypes
<1> QED
  BY <1>2, <1>4, <1>5, <1>6

\* It frees it ...
LEMMA FreeRequestMoves ==
    ASSUME OwnershipInv, NEW w \in Workers, FreeRequest(w)
    PROVE  /\ Exclusive' /\ Accounted' /\ Numbered'
           /\ wjob[w] \in Handled /\ Handled' = Handled \ {wjob[w]}
           /\ freed' = freed \cup {wjob[w]}
           /\ UNCHANGED <<requestJobs, replyJobs, rjob, created, delivered, rpc, fdOf, sent, inbox>>
<1>1. /\ wpc[w] \notin {"dequeue", "dead"} /\ NextRequest(w) /\ freed' = freed \cup {wjob[w]}
      /\ UNCHANGED <<requestJobs, replyJobs, rpc, rjob, created, fdOf, sent, peer, inbox, delivered>>
  BY DEF FreeRequest, clientVars, replyVars
<1>2. /\ wjob[w] \in Handled /\ Handled' = Handled \ {wjob[w]}
      /\ \A u, v \in Workers : wjob'[u] = wjob'[v] /\ wjob'[u] # NoTxn => u = v
      /\ \A v \in Workers : wpc'[v] = "dequeue" => wjob'[v] = NoTxn
  BY <1>1, NextRequestMoves
<1>3. Waiting' = Waiting /\ Answering' = Answering /\ Replying' = Replying
  BY <1>1 DEF Waiting, Answering, Replying
<1>4. Exclusive'
  BY <1>1, <1>2, <1>3 DEF OwnershipInv, Exclusive, Distinct
<1>5. wjob[w] \notin Waiting \cup Answering \cup Replying
  BY <1>2 DEF OwnershipInv, Exclusive
<1>6. Accounted'
  BY <1>1, <1>2, <1>3, <1>5 DEF OwnershipInv, Accounted
<1> QED
  BY <1>1, <1>2, <1>4, <1>6, NumberedFrame DEF OwnershipInv

\* ... or hands it over.
LEMMA EnqueueReplyMoves ==
    ASSUME OwnershipInv, NEW w \in Workers, EnqueueReply(w)
    PROVE  /\ Exclusive' /\ Accounted' /\ Numbered'
           /\ wjob[w] \in Handled /\ Handled' = Handled \ {wjob[w]} /\ wjob[w] \in Txn
           /\ replyJobs' = Append(replyJobs, wjob[w])
           /\ Answering' = Answering \cup {wjob[w]}
           /\ UNCHANGED <<requestJobs, rjob, created, freed, delivered, rpc, fdOf, sent, inbox>>
<1> DEFINE t == wjob[w]
<1>1. /\ wpc[w] \notin {"dequeue", "dead"} /\ NextRequest(w)
      /\ replyJobs' = Append(replyJobs, t)
      /\ UNCHANGED <<requestJobs, rpc, rjob, created, freed, fdOf, sent, peer, inbox, delivered>>
  BY DEF EnqueueReply, clientVars, replyVars, history
<1> HIDE DEF t
<1>2. /\ t \in Handled /\ Handled' = Handled \ {t} /\ t \in Txn
      /\ \A u, v \in Workers : wjob'[u] = wjob'[v] /\ wjob'[u] # NoTxn => u = v
      /\ \A v \in Workers : wpc'[v] = "dequeue" => wjob'[v] = NoTxn
  BY <1>1, NextRequestMoves DEF t
<1>3. t \notin Waiting \cup Answering \cup Replying
  BY <1>2 DEF OwnershipInv, Exclusive
<1>4. Waiting' = Waiting /\ Replying' = Replying
  BY <1>1 DEF Waiting, Replying
<1>5. Answering' = Answering \cup {t} /\ Distinct(replyJobs')
  <2>1. replyJobs \in Seq(Txn) /\ Distinct(replyJobs)
    BY QueueFacts DEF OwnershipInv, Exclusive
  <2> QED
    BY <1>1, <1>2, <1>3, <2>1, AppendRange DEF Answering
<1>6. Exclusive'
  BY <1>1, <1>2, <1>3, <1>4, <1>5 DEF OwnershipInv, Exclusive, Distinct
<1>7. Accounted'
  BY <1>1, <1>2, <1>4, <1>5 DEF OwnershipInv, Accounted
<1> QED
  BY <1>1, <1>2, <1>5, <1>6, <1>7, NumberedFrame DEF OwnershipInv, t

\* The reply thread takes the oldest reply ...
LEMMA DequeueReplyMoves ==
    ASSUME OwnershipInv, DequeueReply
    PROVE  /\ Exclusive' /\ Accounted' /\ Numbered'
           /\ replyJobs[1] \in Answering /\ 1 \in DOMAIN replyJobs
           /\ replyJobs' = Tail(replyJobs) /\ replyJobs # <<>>
           /\ Answering' = Answering \ {replyJobs[1]}
           /\ Replying = {} /\ Replying' = {replyJobs[1]} /\ rpc' = "check"
           /\ rjob' = replyJobs[1]
           /\ UNCHANGED <<requestJobs, wjob, created, freed, delivered, fdOf, sent, inbox>>
<1> DEFINE t == replyJobs[1]
<1>1. /\ replyJobs \in Seq(Txn) /\ replyJobs # <<>> /\ rpc = "dequeue" /\ rpc' = "check"
      /\ rjob' = Head(replyJobs) /\ replyJobs' = Tail(replyJobs)
      /\ UNCHANGED <<requestJobs, wpc, wjob, created, freed, fdOf, sent, peer, inbox, delivered>>
  BY QueueFacts DEF DequeueReply, clientVars, workerVars, history, OwnershipInv
<1>2. Distinct(replyJobs) /\ rjob = NoTxn
  BY <1>1 DEF OwnershipInv, Exclusive, Accounted
<1>3. /\ t \in Answering /\ Head(replyJobs) = t /\ 1 \in DOMAIN replyJobs
      /\ Distinct(replyJobs') /\ Answering' = Answering \ {t}
  <2>1. Head(replyJobs) = replyJobs[1] /\ 1 \in DOMAIN replyJobs /\ Distinct(replyJobs')
    BY <1>1, <1>2, TailProperties
  <2>2. /\ ToSet(replyJobs) = ToSet(replyJobs') \cup {replyJobs[1]}
        /\ replyJobs[1] \notin ToSet(replyJobs')
    BY <1>1, <1>2, TailRange
  <2> QED
    BY <2>1, <2>2 DEF Answering
<1> HIDE DEF t
<1>4. t # NoTxn /\ t \notin Handled \cup Waiting
  BY <1>3, QueueFacts DEF OwnershipInv, Exclusive
<1>5. Replying = {} /\ Replying' = {t} /\ Waiting' = Waiting /\ Handled' = Handled
  BY <1>1, <1>2, <1>3, <1>4 DEF Replying, Waiting, Handled
<1>6. Exclusive'
  BY <1>1, <1>3, <1>4, <1>5 DEF OwnershipInv, Exclusive, Distinct
<1>7. Accounted'
  BY <1>1, <1>3, <1>5 DEF OwnershipInv, Accounted
<1> QED
  BY <1>1, <1>3, <1>5, <1>6, <1>7, NumberedFrame DEF OwnershipInv, t

\* ... sends it, which frees nothing ...
LEMMA SendReplyMoves ==
    ASSUME OwnershipInv, SendReply
    PROVE  /\ Exclusive' /\ Accounted' /\ Numbered'
           /\ UNCHANGED <<requestJobs, replyJobs, wjob, rjob, created, freed, fdOf, sent,
                          peer, inbox>>
           /\ Replying = {rjob} /\ rjob \in Txn /\ rjob \in created
           /\ rpc = "send" /\ rpc' = "free"
<1>1. /\ rpc = "send" /\ rpc' = "free"
      /\ UNCHANGED <<requestJobs, replyJobs, wpc, wjob, rjob, created, freed, fdOf, sent, peer, inbox>>
  BY DEF SendReply, workerVars, history
<1>2. Waiting' = Waiting /\ Handled' = Handled /\ Answering' = Answering /\ Replying' = Replying
  BY <1>1 DEF Waiting, Handled, Answering, Replying
<1>3. Exclusive' /\ Accounted'
  BY <1>1, <1>2 DEF OwnershipInv, Exclusive, Accounted, Distinct
<1>4. Replying = {rjob} /\ rjob \in Txn
  BY <1>1, NoTxnAssumption DEF Replying, OwnershipInv, ServerInv, TxnsAccepted, Accepted
<1>5. rjob \in created
  BY <1>4 DEF OwnershipInv, Accounted
<1> QED
  BY <1>1, <1>3, <1>4, <1>5, NumberedFrame DEF OwnershipInv

\* ... and frees it.
LEMMA FreeReplyMoves ==
    ASSUME OwnershipInv, FreeReply
    PROVE  /\ Exclusive' /\ Accounted' /\ Numbered'
           /\ Replying = {rjob} /\ Replying' = {} /\ freed' = freed \cup {rjob} /\ rpc' = "dequeue"
           /\ rpc = "free" /\ rjob' = NoTxn
           /\ UNCHANGED <<requestJobs, replyJobs, wjob, created, delivered, fdOf, sent, inbox>>
<1>1. /\ rpc = "free" /\ rpc' = "dequeue" /\ rjob' = NoTxn /\ freed' = freed \cup {rjob}
      /\ UNCHANGED <<requestJobs, replyJobs, wpc, wjob, created, fdOf, sent, peer, inbox, delivered>>
  BY DEF FreeReply, clientVars, workerVars
<1>2. rjob \in Txn /\ rjob # NoTxn
  BY <1>1, NoTxnAssumption DEF OwnershipInv, ServerInv, TxnsAccepted, Accepted
<1>3. /\ Waiting' = Waiting /\ Handled' = Handled /\ Answering' = Answering
      /\ Replying = {rjob} /\ Replying' = {}
  BY <1>1, <1>2 DEF Waiting, Handled, Answering, Replying
<1>4. Exclusive'
  BY <1>1, <1>3 DEF OwnershipInv, Exclusive, Distinct
<1>5. rjob \notin Waiting \cup Handled \cup Answering
  BY <1>3 DEF OwnershipInv, Exclusive
<1>6. Accounted'
  BY <1>1, <1>3, <1>5 DEF OwnershipInv, Accounted
<1> QED
  BY <1>1, <1>3, <1>4, <1>6, NumberedFrame DEF OwnershipInv

LEMMA InitOwnership == Init => OwnershipInv
<1> SUFFICES ASSUME Init PROVE OwnershipInv
  OBVIOUS
<1>1. Waiting = {} /\ Handled = {} /\ Answering = {} /\ Replying = {}
  BY DEF Init, Waiting, Handled, Answering, Replying, ToSet
<1>2. Exclusive
  BY <1>1 DEF Init, Exclusive, Distinct
<1>3. Accounted
  BY <1>1 DEF Init, Accounted
<1>4. Numbered
  BY DEF Init, Numbered
<1> QED
  BY <1>2, <1>3, <1>4, InitInv DEF OwnershipInv

LEMMA NextOwnership ==
    ASSUME OwnershipInv, [Next]_vars
    PROVE  OwnershipInv'
<1>1. ServerInv'
  BY NextInv DEF OwnershipInv
<1>2. ASSUME Moving PROVE Exclusive' /\ Accounted' /\ Numbered'
  <2>1. ASSUME NEW fd \in Fds, AcceptConnection(fd) \/ ReceiveError(fd)
        PROVE  Exclusive' /\ Accounted' /\ Numbered'
    BY <2>1, AcceptQueues, ErrorQueues, QueuesOwnership
  <2>2. ASSUME NEW fd \in Fds, NEW n \in 1..MaxRequests, ReceiveRequest(fd, n)
        PROVE  Exclusive' /\ Accounted' /\ Numbered'
    BY <2>2, ReceiveQueues, QueuesOwnership
  <2> QED
    BY <1>2, <2>1, <2>2, SendOwnership, DequeueRequestMoves, FreeRequestMoves,
       EnqueueReplyMoves, DequeueReplyMoves, SendReplyMoves, FreeReplyMoves DEF Moving
<1>3. Exclusive' /\ Accounted' /\ Numbered'
  BY <1>2, QuietOrMoving, QuietOwnership DEF OwnershipInv
<1> QED
  BY <1>1, <1>3 DEF OwnershipInv

\* Who holds a client_txn, and that it is one: the invariant in terms of counts.
LEMMA CountOfDistinct ==
    ASSUME NEW s, Distinct(s), NEW x
    PROVE  Count(s, x) = IF x \in ToSet(s) THEN 1 ELSE 0
<1>1. CASE x \in ToSet(s)
  <2>1. PICK i \in DOMAIN s : s[i] = x
    BY <1>1 DEF ToSet
  <2>2. {j \in DOMAIN s : s[j] = x} = {i}
    BY <2>1 DEF Distinct
  <2> QED
    BY <1>1, <2>2, FS_Singleton DEF Count
<1>2. CASE x \notin ToSet(s)
  <2>1. {j \in DOMAIN s : s[j] = x} = {}
    BY <1>2 DEF ToSet
  <2> QED
    BY <1>2, <2>1, FS_EmptySet DEF Count
<1> QED
  BY <1>1, <1>2

LEMMA OwnerIsOne ==
    ASSUME OwnershipInv
    PROVE  OneOwner
<1> SUFFICES ASSUME NEW txn \in Txn
             PROVE  Holders(txn) = IF txn \in created \ freed THEN 1 ELSE 0
  BY DEF OneOwner
<1> DEFINE hands == {w \in Workers : wjob[w] = txn}
<1>1. txn # NoTxn
  BY NoTxnAssumption
<1>2. /\ Count(requestJobs, txn) = IF txn \in Waiting THEN 1 ELSE 0
      /\ Count(replyJobs, txn) = IF txn \in Answering THEN 1 ELSE 0
  BY CountOfDistinct DEF OwnershipInv, Exclusive, Waiting, Answering
<1>3. Cardinality(hands) = IF txn \in Handled THEN 1 ELSE 0
  <2>1. CASE txn \in Handled
    <3>1. PICK w \in Workers : wjob[w] = txn
      BY <2>1 DEF Handled
    <3>2. hands = {w}
      BY <1>1, <3>1 DEF OwnershipInv, Exclusive
    <3> QED
      BY <2>1, <3>2, FS_Singleton
  <2>2. CASE txn \notin Handled
    <3>1. hands = {}
      BY <1>1, <2>2 DEF Handled
    <3> QED
      BY <2>2, <3>1, FS_EmptySet
  <2> QED
    BY <2>1, <2>2
<1>4. rjob = txn <=> txn \in Replying
  BY <1>1 DEF Replying
<1>5. Holders(txn) = (IF txn \in Waiting THEN 1 ELSE 0) + (IF txn \in Answering THEN 1 ELSE 0)
                     + (IF txn \in Handled THEN 1 ELSE 0) + (IF txn \in Replying THEN 1 ELSE 0)
  BY <1>2, <1>3, <1>4 DEF Holders
<1>6. /\ ~(txn \in Waiting /\ txn \in Handled) /\ ~(txn \in Waiting /\ txn \in Answering)
      /\ ~(txn \in Waiting /\ txn \in Replying) /\ ~(txn \in Handled /\ txn \in Answering)
      /\ ~(txn \in Handled /\ txn \in Replying) /\ ~(txn \in Answering /\ txn \in Replying)
  BY DEF OwnershipInv, Exclusive
<1>7. txn \in created \ freed <=>
        txn \in Waiting \/ txn \in Handled \/ txn \in Answering \/ txn \in Replying
  BY DEF OwnershipInv, Accounted
<1> HIDE DEF hands
<1> QED
  BY <1>5, <1>6, <1>7

\* In comm.c, worker.c and ndmp_msg.c a client_txn is in one queue or held by one
\* thread from its creation until it is freed, and in none afterwards, for any number
\* of connections and workers.
THEOREM TransactionsHaveOneOwner == Spec => []OneOwner
<1>1. Init => OwnershipInv
  BY InitOwnership
<1>2. OwnershipInv /\ [Next]_vars => OwnershipInv'
  BY NextOwnership
<1> QED
  BY <1>1, <1>2, OwnerIsOne, PTL DEF Spec
-----------------------------------------------------------------------------
(* The replies keep the order of the requests, with the one worker that    *)
(* ndmp_message_handler creates.                                           *)

OneWorker == \A v, w \in Workers : v = w

LEMMA AscendingAppend ==
    ASSUME NEW S, NEW s \in Seq(S), NEW e \in S, Ascending(s), Ahead(ToSet(s), {e})
    PROVE  Ascending(Append(s, e))
<1>1. /\ DOMAIN s = 1..Len(s) /\ DOMAIN Append(s, e) = 1..(Len(s) + 1) /\ Len(s) \in Nat
      /\ \A i \in 1..Len(s) : Append(s, e)[i] = s[i]
      /\ Append(s, e)[Len(s) + 1] = e
  BY AppendProperties, LenProperties
<1>2. \A i \in 1..Len(s) : Precedes(s[i], e)
  BY <1>1 DEF Ahead, ToSet
<1> QED
  BY <1>1, <1>2 DEF Ascending

LEMMA AscendingTail ==
    ASSUME NEW S, NEW s \in Seq(S), s # <<>>, Ascending(s)
    PROVE  Ascending(Tail(s)) /\ Ahead({s[1]}, ToSet(Tail(s)))
<1>1. /\ 1 \in DOMAIN s /\ DOMAIN Tail(s) = 1..Len(Tail(s))
      /\ \A i \in DOMAIN Tail(s) : i + 1 \in DOMAIN s /\ Tail(s)[i] = s[i + 1]
  BY TailProperties, LenProperties
<1>2. \A i \in DOMAIN Tail(s) : 1 < i + 1 /\ \A j \in DOMAIN Tail(s) : i < j => i + 1 < j + 1
  BY <1>1
<1> QED
  BY <1>1, <1>2 DEF Ascending, Ahead, ToSet

\* The parts of the order that say something of a transaction in each place.
LEMMA AllCreated ==
    ASSUME OwnershipInv, InOrder
    PROVE  Delivered \cup Replying \cup Answering \cup Handled \cup Waiting \subseteq created
BY DEF OwnershipInv, Accounted, InOrder

LEMMA QuietOrder ==
    ASSUME InOrder, Quiet
    PROVE  InOrder'
<1>1. /\ Waiting' = Waiting /\ Handled' = Handled /\ Answering' = Answering
      /\ Replying' = Replying /\ Delivered' = Delivered
      /\ UNCHANGED <<created, requestJobs, replyJobs, delivered>>
  BY DEF Quiet, Waiting, Handled, Answering, Replying, Delivered
<1> QED
  BY <1>1 DEF InOrder, Quiet, Ahead, Ascending

\* A client that sends.
LEMMA SendOrder ==
    ASSUME InOrder, NEW c \in Conns, NEW kind \in Kinds, ClientSend(c, kind)
    PROVE  InOrder'
<1>1. UNCHANGED <<requestJobs, replyJobs, wjob, rjob, created, delivered, rpc>>
  BY DEF ClientSend, serverVars, workerVars, replyVars, history
<1>2. /\ Waiting' = Waiting /\ Handled' = Handled /\ Answering' = Answering
      /\ Replying' = Replying /\ Delivered' = Delivered
  BY <1>1 DEF Waiting, Handled, Answering, Replying, Delivered
<1> QED
  BY <1>1, <1>2 DEF InOrder, Ahead, Ascending

\* A new transaction comes last.
LEMMA QueuesOrder ==
    ASSUME OwnershipInv, InOrder, NEW t, Queues(t)
    PROVE  InOrder'
<1>1. /\ requestJobs' = Append(requestJobs, t) /\ created' = created \cup {t}
      /\ Waiting' = Waiting \cup {t} /\ Handled' = Handled
      /\ Answering' = Answering /\ Replying' = Replying
  BY QueuesOwnership
<1>2. UNCHANGED <<replyJobs, delivered, rpc>> /\ t \in Txn
  BY DEF Queues, Newest
<1>3. Delivered' = Delivered
  BY <1>2 DEF Delivered
<1>4. Ahead(Delivered \cup Replying \cup Answering \cup Handled \cup Waiting, {t})
  BY AllCreated DEF Queues, Newest, Ahead
<1>5. Ascending(requestJobs')
  <2>1. requestJobs \in Seq(Txn) /\ Ahead(ToSet(requestJobs), {t})
    BY <1>4, QueueFacts DEF Ahead, Waiting, OwnershipInv
  <2> QED
    BY <1>1, <1>2, <2>1, AscendingAppend DEF InOrder
<1>6. Ahead(Delivered \cup Replying \cup Answering \cup Handled, Waiting \cup {t})
  BY <1>4 DEF InOrder, Ahead
<1> QED
  BY <1>1, <1>2, <1>3, <1>5, <1>6 DEF InOrder, Ahead, Ascending

\* The worker takes the oldest of those that wait.
LEMMA DequeueRequestOrder ==
    ASSUME OneWorker, OwnershipInv, InOrder, NEW w \in Workers, DequeueRequest(w)
    PROVE  InOrder'
<1> DEFINE t == requestJobs[1]
<1>1. /\ t \in Waiting /\ wjob[w] = NoTxn
      /\ requestJobs' = Tail(requestJobs) /\ requestJobs # <<>>
      /\ Waiting' = Waiting \ {t} /\ Handled' = Handled \cup {t}
      /\ UNCHANGED <<replyJobs, rjob, created, delivered, rpc>>
  BY DequeueRequestMoves
<1>2. Handled = {}
  BY <1>1 DEF Handled, OneWorker
<1>3. Answering' = Answering /\ Replying' = Replying /\ Delivered' = Delivered
  BY <1>1 DEF Answering, Replying, Delivered
<1>4. Ascending(requestJobs') /\ Ahead({t}, Waiting')
  BY <1>1, QueueFacts, AscendingTail DEF InOrder, Waiting, OwnershipInv
<1> HIDE DEF t
<1>5. Ahead(Delivered \cup Replying \cup Answering, {t})
  BY <1>1 DEF InOrder, Ahead
<1>6. Ahead(Delivered \cup Replying \cup Answering \cup {t}, Waiting')
  BY <1>1, <1>4 DEF InOrder, Ahead
<1> QED
  BY <1>1, <1>2, <1>3, <1>4, <1>5, <1>6 DEF InOrder, Ahead, Ascending

\* It drops one ...
LEMMA FreeRequestOrder ==
    ASSUME OwnershipInv, InOrder, NEW w \in Workers, FreeRequest(w)
    PROVE  InOrder'
<1>1. /\ Handled' \subseteq Handled
      /\ UNCHANGED <<requestJobs, replyJobs, rjob, created, delivered, rpc>>
  BY FreeRequestMoves
<1>2. /\ Waiting' = Waiting /\ Answering' = Answering /\ Replying' = Replying
      /\ Delivered' = Delivered
  BY <1>1 DEF Waiting, Answering, Replying, Delivered
<1> QED
  BY <1>1, <1>2 DEF InOrder, Ahead, Ascending

\* ... or puts it behind all that it has put there before.
LEMMA EnqueueReplyOrder ==
    ASSUME OneWorker, OwnershipInv, InOrder, NEW w \in Workers, EnqueueReply(w)
    PROVE  InOrder'
<1> DEFINE t == wjob[w]
<1>1. /\ t \in Handled /\ Handled' = Handled \ {t} /\ t \in Txn
      /\ replyJobs' = Append(replyJobs, t) /\ Answering' = Answering \cup {t}
      /\ UNCHANGED <<requestJobs, rjob, created, delivered, rpc>>
  BY EnqueueReplyMoves
<1>2. Handled' = {}
  BY <1>1 DEF Handled, OneWorker
<1> HIDE DEF t
<1>3. Waiting' = Waiting /\ Replying' = Replying /\ Delivered' = Delivered
  BY <1>1 DEF Waiting, Replying, Delivered
<1>4. Ahead(Delivered \cup Replying \cup Answering, {t}) /\ Ahead({t}, Waiting)
  BY <1>1 DEF InOrder, Ahead
<1>5. Ascending(replyJobs')
  <2>1. replyJobs \in Seq(Txn) /\ Ahead(ToSet(replyJobs), {t})
    BY <1>4, QueueFacts DEF Ahead, Answering, OwnershipInv
  <2> QED
    BY <1>1, <2>1, AscendingAppend DEF InOrder
<1>6. Ahead(Delivered \cup Replying, Answering \cup {t})
  BY <1>4 DEF InOrder, Ahead
<1>7. Ahead(Delivered \cup Replying \cup Answering \cup {t}, Waiting)
  BY <1>4 DEF InOrder, Ahead
<1> QED
  BY <1>1, <1>2, <1>3, <1>5, <1>6, <1>7 DEF InOrder, Ahead, Ascending

\* The reply thread takes the oldest reply, which follows all that are out.
LEMMA DequeueReplyOrder ==
    ASSUME OwnershipInv, InOrder, DequeueReply
    PROVE  InOrder'
<1> DEFINE t == replyJobs[1]
<1>1. /\ t \in Answering /\ replyJobs' = Tail(replyJobs) /\ replyJobs # <<>>
      /\ Answering' = Answering \ {t} /\ Replying = {} /\ Replying' = {t}
      /\ UNCHANGED <<requestJobs, wjob, created, delivered>>
  BY DequeueReplyMoves
<1>2. Waiting' = Waiting /\ Handled' = Handled /\ Delivered' = Delivered
  BY <1>1 DEF Waiting, Handled, Delivered
<1>3. Ascending(replyJobs') /\ Ahead({t}, Answering')
  BY <1>1, QueueFacts, AscendingTail DEF InOrder, Answering, OwnershipInv
<1> HIDE DEF t
<1>4. /\ Ahead(Delivered, {t}) /\ Ahead({t}, Handled) /\ Ahead({t}, Waiting)
  BY <1>1 DEF InOrder, Ahead
<1>5. Ahead(Delivered \cup {t}, Answering')
  BY <1>1, <1>3 DEF InOrder, Ahead
<1>6. /\ Ahead(Delivered \cup {t} \cup Answering', Handled)
      /\ Ahead(Delivered \cup {t} \cup Answering' \cup Handled, Waiting)
  BY <1>1, <1>4 DEF InOrder, Ahead
<1> QED
  BY <1>1, <1>2, <1>3, <1>4, <1>5, <1>6 DEF InOrder, Ahead, Ascending

\* A reply is sent after those that are out.
LEMMA SendReplyOrder ==
    ASSUME OwnershipInv, InOrder, SendReply
    PROVE  InOrder'
<1> DEFINE c == Owner(SessionId(rjob))
<1>1. /\ UNCHANGED <<requestJobs, replyJobs, wjob, rjob, created>>
      /\ Replying = {rjob} /\ rjob \in Txn /\ rjob \in created
      /\ rpc = "send" /\ rpc' = "free"
  BY SendReplyMoves
<1>2. /\ Waiting' = Waiting /\ Handled' = Handled /\ Answering' = Answering
      /\ Replying' = Replying
  BY <1>1 DEF Waiting, Handled, Answering, Replying
<1>3. /\ c \in Conns /\ delivered \in [Conns -> Seq(Txn)]
      /\ \/ delivered' = [delivered EXCEPT ![c] = Append(delivered[c], rjob)]
         \/ delivered' = delivered
  BY OwnerOpen DEF SendReply, OpenConns, OwnershipInv, ServerInv, TypeOK, ClientTypes
<1> HIDE DEF c
<1>4. Ahead(Delivered, {rjob})
  BY <1>1 DEF InOrder
<1>5. \A d \in Conns : ToSet(delivered'[d]) \subseteq ToSet(delivered[d]) \cup {rjob}
  <2>1. ToSet(Append(delivered[c], rjob)) = ToSet(delivered[c]) \cup {rjob}
    <3>1. delivered[c] \in Seq(Txn)
      BY <1>3
    <3> QED
      BY <1>1, <3>1, AppendRange
  <2>2. \A d \in Conns : delivered'[d] \in {delivered[d], Append(delivered[c], rjob)}
                         /\ (d # c => delivered'[d] = delivered[d])
    BY <1>3
  <2> QED
    BY <2>1, <2>2
<1>6. Delivered' \subseteq Delivered \cup {rjob}
  BY <1>5 DEF Delivered
<1>7. ASSUME NEW d \in Conns PROVE Ascending(delivered'[d])
  <2>1. Ascending(Append(delivered[c], rjob))
    <3>1. Ahead(ToSet(delivered[c]), {rjob}) /\ delivered[c] \in Seq(Txn)
      BY <1>3, <1>4 DEF Ahead, Delivered
    <3> QED
      BY <1>1, <1>3, <3>1, AscendingAppend DEF InOrder
  <2> QED
    BY <1>3, <2>1 DEF InOrder
<1>8. Delivered' \cup Replying \subseteq Delivered \cup Replying
  BY <1>1, <1>6
<1>9. /\ Ahead(Delivered' \cup Replying, Answering)
      /\ Ahead(Delivered' \cup Replying \cup Answering, Handled)
      /\ Ahead(Delivered' \cup Replying \cup Answering \cup Handled, Waiting)
  BY <1>8 DEF InOrder, Ahead
<1>10. Delivered' \subseteq created'
  BY <1>1, <1>6 DEF InOrder
<1>11. Ascending(requestJobs)' /\ Ascending(replyJobs)'
  BY <1>1 DEF InOrder, Ascending
<1>12. \A d \in Conns : Ascending(delivered[d])'
  BY <1>7 DEF Ascending
<1> QED
  BY <1>1, <1>2, <1>9, <1>10, <1>11, <1>12 DEF InOrder, Ahead

\* The reply thread has done with one.
LEMMA FreeReplyOrder ==
    ASSUME OwnershipInv, InOrder, FreeReply
    PROVE  InOrder'
<1>1. /\ Replying' = {} /\ rpc' = "dequeue"
      /\ UNCHANGED <<requestJobs, replyJobs, wjob, created, delivered>>
  BY FreeReplyMoves
<1>2. /\ Waiting' = Waiting /\ Handled' = Handled /\ Answering' = Answering
      /\ Delivered' = Delivered
  BY <1>1 DEF Waiting, Handled, Answering, Delivered
<1> QED
  BY <1>1, <1>2 DEF InOrder, Ahead, Ascending

LEMMA InitOrder == Init => InOrder
<1> SUFFICES ASSUME Init PROVE InOrder
  OBVIOUS
<1>1. Waiting = {} /\ Handled = {} /\ Answering = {} /\ Replying = {} /\ Delivered = {}
  BY DEF Init, Waiting, Handled, Answering, Replying, Delivered, ToSet
<1> QED
  BY <1>1 DEF Init, InOrder, Ahead, Ascending

LEMMA NextOrder ==
    ASSUME OneWorker, OwnershipInv, InOrder, [Next]_vars
    PROVE  InOrder'
<1>1. ASSUME Moving PROVE InOrder'
  <2>1. ASSUME NEW fd \in Fds, AcceptConnection(fd) \/ ReceiveError(fd)
        PROVE  InOrder'
    BY <2>1, AcceptQueues, ErrorQueues, QueuesOrder
  <2>2. ASSUME NEW fd \in Fds, NEW n \in 1..MaxRequests, ReceiveRequest(fd, n)
        PROVE  InOrder'
    BY <2>2, ReceiveQueues, QueuesOrder
  <2> QED
    BY <1>1, <2>1, <2>2, SendOrder, DequeueRequestOrder, FreeRequestOrder,
       EnqueueReplyOrder, DequeueReplyOrder, SendReplyOrder, FreeReplyOrder DEF Moving
<1> QED
  BY <1>1, QuietOrMoving, QuietOrder DEF OwnershipInv

\* With one worker, a client receives the replies to its own requests in the order of
\* the requests, and none twice: request_jobs and reply_jobs are FIFO queues, and the
\* worker and the reply thread handle one transaction at a time.
THEOREM RepliesStayInOrder ==
    ASSUME OneWorker
    PROVE  Spec => []RepliesInOrder
<1>1. Init => OwnershipInv /\ InOrder
  BY InitOwnership, InitOrder
<1>2. OwnershipInv /\ InOrder /\ [Next]_vars => OwnershipInv' /\ InOrder'
  BY NextOwnership, NextOrder
<1>3. InOrder => RepliesInOrder
  BY DEF InOrder, Ascending, Precedes, RepliesInOrder
<1> QED
  BY <1>1, <1>2, <1>3, PTL DEF Spec
-----------------------------------------------------------------------------
(* No thread uses a freed info, with one worker.                           *)

\* The ids of the infos stay, and none is freed.
SameInfos ==
    \A a \in DOMAIN infos :
        /\ a \in DOMAIN infos'
        /\ infos'[a].sid = infos[a].sid /\ infos'[a].released = infos[a].released

\* What the workers rely on stays true of the registry.
RegistryKeeps ==
    /\ RegistryKept' /\ ToSet(registry) \subseteq ToSet(registry')
    /\ \A fd \in Fds :
        /\ Registered(fd) => Registered(fd)'
        /\ \A info : IsFirstInfo(fd, info) => IsFirstInfo(fd, info)'

LEMMA RegistryFacts ==
    ASSUME ServerInv
    PROVE  /\ registry \in Seq(DOMAIN infos) /\ DOMAIN registry = 1..Len(registry)
           /\ Len(registry) \in Nat /\ \A i \in DOMAIN registry : registry[i] \in DOMAIN infos
           /\ infos \in Seq(Info) /\ DOMAIN infos = 1..Len(infos) /\ Len(infos) \in Nat
BY LenProperties, ElementOfSeq DEF ServerInv, TypeOK, RegistryTypes

LEMMA RegistrySame ==
    ASSUME ServerInv, RegistryKept, SameInfos, UNCHANGED registry
    PROVE  RegistryKeeps
<1>1. \A i \in DOMAIN registry :
        InfoAt(i)'.sid = InfoAt(i).sid /\ InfoAt(i)'.released = InfoAt(i).released
  BY RegistryFacts DEF SameInfos, InfoAt
<1>2. RegistryKept'
  BY <1>1 DEF RegistryKept, Distinct, InfoAt
<1>3. ASSUME NEW fd \in Fds, Registered(fd) PROVE Registered(fd)'
  BY <1>1, <1>3 DEF Registered, InfoAt
<1>4. ASSUME NEW fd \in Fds, NEW info, IsFirstInfo(fd, info) PROVE IsFirstInfo(fd, info)'
  <2>1. PICK i \in DOMAIN registry : FirstInfo(fd, i) /\ info = registry[i]
    BY <1>4 DEF IsFirstInfo
  <2>2. \A j \in 1..(i - 1) : j \in DOMAIN registry
    BY RegistryFacts
  <2>3. FirstInfo(fd, i)'
    BY <1>1, <2>1, <2>2 DEF FirstInfo, InfoAt
  <2> QED
    BY <2>1, <2>3 DEF IsFirstInfo
<1> QED
  BY <1>2, <1>3, <1>4 DEF RegistryKeeps

\* A new info is the last, and nobody has its address.
LEMMA RegistryGrows ==
    ASSUME ServerInv, RegistryKept, NEW fd \in Fds, CreateInfo(fd)
    PROVE  RegistryKeeps /\ Registered(fd)' /\ Len(infos) + 1 \in ToSet(registry')
<1> PICK a, n : a = Len(infos) + 1 /\ n = Len(registry)
  OBVIOUS
<1>1. /\ registry \in Seq(Nat) /\ n \in Nat /\ a \in Nat /\ DOMAIN registry = 1..n
      /\ \A i \in 1..n : registry[i] \in DOMAIN infos
      /\ DOMAIN infos = 1..Len(infos) /\ infos \in Seq(Info) /\ Len(infos) \in Nat
  <2>1. DOMAIN infos \subseteq Nat
    BY RegistryFacts
  <2> QED
    BY <2>1, RegistryFacts, SeqMonotonic
<1>2. /\ registry' = Append(registry, a) /\ infos' = Append(infos, NewInfo(fd))
      /\ NewInfo(fd) \in Info
  BY DEF CreateInfo, NewInfo, Info
<1>3. /\ DOMAIN registry' = 1..(n + 1) /\ registry'[n + 1] = a
      /\ \A i \in 1..n : registry'[i] = registry[i]
  BY <1>1, <1>2, AppendProperties, LenProperties
<1>4. /\ DOMAIN infos' = 1..a /\ infos'[a] = NewInfo(fd)
      /\ \A x \in DOMAIN infos : infos'[x] = infos[x]
  <2>1. /\ Len(infos') = Len(infos) + 1 /\ infos' \in Seq(Info)
        /\ \A x \in 1..Len(infos) : infos'[x] = infos[x]
        /\ infos'[Len(infos) + 1] = NewInfo(fd)
    BY <1>1, <1>2, AppendProperties
  <2> QED
    BY <1>1, <2>1, LenProperties
<1>5. \A i \in 1..n : registry[i] # a
  BY <1>1
<1>6. \A i \in 1..n : InfoAt(i)' = InfoAt(i)
  BY <1>1, <1>3, <1>4 DEF InfoAt
<1>7. InfoAt(n + 1)' = NewInfo(fd)
  BY <1>3, <1>4 DEF InfoAt
<1>8. a \notin ToSet(registry) /\ ToSet(registry') = ToSet(registry) \cup {a}
      /\ Distinct(registry')
  <2>1. a \notin ToSet(registry)
    BY <1>1, <1>5 DEF ToSet
  <2> QED
    BY <1>1, <1>2, <2>1, AppendRange DEF RegistryKept
<1>9. RegistryKept'
  <2>1. \A i \in DOMAIN registry' : i \in 1..n \/ i = n + 1
    BY <1>1, <1>3
  <2>2. \A i \in 1..n : ~InfoAt(i).released
    BY <1>1 DEF RegistryKept
  <2>3. ~InfoAt(n + 1)'.released
    BY <1>7 DEF NewInfo
  <2>4. \A i \in DOMAIN registry' : ~InfoAt(i)'.released
    BY <1>6, <2>1, <2>2, <2>3
  <2> QED
    BY <1>8, <2>4 DEF RegistryKept, InfoAt, Distinct
<1>10. n + 1 \in DOMAIN registry' /\ \A i \in 1..n : i \in DOMAIN registry'
  BY <1>1, <1>3
<1>11. Registered(fd)'
  BY <1>7, <1>10 DEF Registered, InfoAt, NewInfo
<1>12. ASSUME NEW x \in Fds, Registered(x) PROVE Registered(x)'
  BY <1>1, <1>6, <1>10, <1>12 DEF Registered, InfoAt
<1>13. ASSUME NEW x \in Fds, NEW info, IsFirstInfo(x, info) PROVE IsFirstInfo(x, info)'
  <2>1. PICK i \in 1..n : FirstInfo(x, i) /\ info = registry[i]
    BY <1>1, <1>13 DEF IsFirstInfo
  <2>2. \A j \in 1..(i - 1) : j \in 1..n
    BY <1>1
  <2>3. FirstInfo(x, i)'
    BY <1>6, <1>10, <2>1, <2>2 DEF FirstInfo, InfoAt
  <2> QED
    BY <1>3, <1>10, <2>1, <2>3 DEF IsFirstInfo
<1> QED
  BY <1>8, <1>9, <1>11, <1>12, <1>13 DEF RegistryKeeps

\* The session of a worker's job stays the same.
LEMMA WorkerSession ==
    ASSUME ServerInv, NEW w \in Workers, wpc[w] \notin {"dequeue", "dead"},
           \A c \in Conns : fdOf[c] # NoFd => fdOf'[c] = fdOf[c]
    PROVE  /\ SessionId(wjob[w]) \in Fds
           /\ wjob'[w] = wjob[w] => SessionId(wjob[w])' = SessionId(wjob[w])
<1>1. wjob[w] \in Txn /\ fdOf[wjob[w].conn] # NoFd /\ wjob[w].conn \in Conns
  BY DEF ServerInv, TxnsAccepted, Accepted, Txn
<1> QED
  BY <1>1 DEF SessionId, ServerInv, TypeOK, ClientTypes

\* What the other threads do, a worker may ignore.
LEMMA OthersInfos ==
    ASSUME ServerInv, InfosKept, RegistryKeeps,
           \A c \in Conns : fdOf[c] # NoFd => fdOf'[c] = fdOf[c],
           UNCHANGED <<wpc, winfo, wjob>>
    PROVE  InfosKept'
<1> SUFFICES ASSUME NEW w \in Workers PROVE WorkerInfos(w)'
  BY DEF InfosKept, RegistryKeeps
<1>1. CASE wpc[w] \in {"dequeue", "dead"}
  BY <1>1 DEF WorkerInfos
<1>2. CASE wpc[w] \notin {"dequeue", "dead"}
  <2>1. PICK fd \in Fds : SessionId(wjob[w]) = fd /\ SessionId(wjob[w])' = fd
    BY <1>2, WorkerSession
  <2>2. PICK info : winfo[w] = info /\ winfo'[w] = info
    OBVIOUS
  <2>3. /\ Registered(fd) => Registered(fd)'
        /\ IsFirstInfo(fd, info) => IsFirstInfo(fd, info)'
        /\ info \in ToSet(registry) => info \in ToSet(registry')
    BY DEF RegistryKeeps
  <2>4. WorkerInfos(w)
    BY DEF InfosKept
  <2>5. Registered(SessionId(wjob[w]))' = Registered(fd)'
    BY <2>1 DEF Registered
  <2>6. IsFirstInfo(SessionId(wjob[w]), winfo[w])' = IsFirstInfo(fd, info)'
    BY <2>1, <2>2 DEF IsFirstInfo, FirstInfo
  <2> QED
    BY <2>1, <2>2, <2>3, <2>4, <2>5, <2>6 DEF WorkerInfos
<1> QED
  BY <1>1, <1>2

\* The clients and the reply thread touch no info.
LEMMA OutsideInfos ==
    ASSUME ServerInv, InfosKept,
           (\E c \in Conns : Client(c)) \/ Responder \/ UNCHANGED vars
    PROVE  InfosKept'
<1> USE DEF registryVars, workerVars, serverVars, clientVars
<1>1. CASE SendBrokenPipe
  <2>1. /\ UNCHANGED <<registry, infos>> /\ \A w \in Workers : wpc'[w] = "dead"
    BY <1>1 DEF SendBrokenPipe
  <2>2. RegistryKept'
    BY <2>1 DEF InfosKept, RegistryKept, InfoAt, Distinct
  <2> QED
    BY <2>1, <2>2 DEF InfosKept, WorkerInfos
<1>2. CASE ~SendBrokenPipe
  <2>1. UNCHANGED <<registry, infos, wpc, winfo, wjob, fdOf>>
    BY <1>2 DEF Client, ClientConnect, ClientSend, ClientClose, ClientReset, Responder,
       DequeueReply, CheckSession, SendNowhere, SendReply, SendReset, FreeReply, vars
  <2>2. RegistryKeeps
    BY <2>1, RegistrySame DEF InfosKept, SameInfos
  <2> QED
    BY <2>1, <2>2, OthersInfos
<1> QED
  BY <1>1, <1>2

\* The listener creates an info or marks one.
LEMMA ListenerInfos ==
    ASSUME ServerInv, InfosKept, Listener
    PROVE  InfosKept'
<1> USE DEF registryVars, workerVars, clientVars
<1>1. UNCHANGED <<wpc, winfo, wjob>>
  BY DEF Listener, AcceptConnection, AcceptFails, WakeForClients, ReceiveRequest,
         ReceiveError, ReceiveEof, RemoveSession, TerminateLookup, TerminateCreate,
         MarkTerminated, serverVars
<1>2. \A c \in Conns : fdOf[c] # NoFd => fdOf'[c] = fdOf[c]
  <2>1. ASSUME NEW fd \in Fds, AcceptConnection(fd)
        PROVE  \A c \in Conns : fdOf[c] # NoFd => fdOf'[c] = fdOf[c]
    <3>1. /\ Head(backlog) = backlog[1] /\ 1 \in DOMAIN backlog /\ Head(backlog) \in Conns
          /\ fdOf' = [fdOf EXCEPT ![Head(backlog)] = fd]
      BY <2>1, TailProperties DEF AcceptConnection, ServerInv, TypeOK, ClientTypes
    <3>2. fdOf[Head(backlog)] = NoFd
      BY <3>1 DEF ServerInv, AcceptedOnce
    <3> QED
      BY <3>1, <3>2 DEF ServerInv, TypeOK, ClientTypes
  <2>2. ASSUME ~\E fd \in Fds : AcceptConnection(fd)
        PROVE  UNCHANGED fdOf
    BY <2>2 DEF Listener, AcceptFails, WakeForClients, ReceiveRequest, ReceiveError,
       ReceiveEof, RemoveSession, TerminateLookup, TerminateCreate, MarkTerminated
  <2> QED
    BY <2>1, <2>2
<1>3. RegistryKeeps
  <2>1. CASE TerminateCreate
    <3>1. lfd \in Fds /\ CreateInfo(lfd)
      BY <2>1 DEF TerminateCreate, ServerInv, PcConsistent, TypeOK, ListenerTypes
    <3>2. PICK fd \in Fds : fd = lfd /\ CreateInfo(fd)
      BY <3>1
    <3> QED
      BY <3>2, RegistryGrows DEF InfosKept
  <2>2. CASE MarkTerminated
    <3>1. infos' = [infos EXCEPT ![linfo].terminated = TRUE] /\ UNCHANGED registry
      BY <2>2 DEF MarkTerminated
    <3>2. \A a \in DOMAIN infos : infos[a] \in Info
      BY InfoRecord DEF ServerInv, TypeOK
    <3>3. SameInfos
      BY <3>1, <3>2 DEF SameInfos, Info
    <3> QED
      BY <3>1, <3>3, RegistrySame DEF InfosKept
  <2>3. CASE ~TerminateCreate /\ ~MarkTerminated
    <3>1. UNCHANGED <<registry, infos>>
      BY <2>3 DEF Listener, AcceptConnection, AcceptFails, WakeForClients, ReceiveRequest,
         ReceiveError, ReceiveEof, RemoveSession, TerminateLookup, serverVars
    <3> QED
      BY <3>1, RegistrySame DEF InfosKept, SameInfos
  <2> QED
    BY <2>1, <2>2, <2>3
<1> QED
  BY <1>1, <1>2, <1>3, OthersInfos

\* get_session_info returns the first info with the id, if there is one.
LEMMA LookupInfos ==
    ASSUME OneWorker, ServerInv, InfosKept, NEW w \in Workers, NEW at, NEW missing, NEW found,
           WorkerLookup(w, at, missing, found),
           \/ <<at, missing, found>> = <<"add_lookup", "add_create", "add_job">>
           \/ <<at, missing, found>> = <<"run_lookup", "run_create", "handle">>
           \/ <<at, missing, found>> = <<"end_lookup", "end_create", "remove_job">>
    PROVE  InfosKept'
<1>1. PICK info \in DOMAIN infos \cup {NULL} :
        /\ LookupInfo(SessionId(wjob[w]), info) /\ winfo' = [winfo EXCEPT ![w] = info]
        /\ wpc' = [wpc EXCEPT ![w] = IF info = NULL THEN missing ELSE found]
        /\ wpc[w] = at /\ UNCHANGED <<registry, infos, wjob, fdOf>>
  BY DEF WorkerLookup, Goto, registryVars, clientVars
<1>2. RegistryKept'
  BY <1>1 DEF InfosKept, RegistryKept, InfoAt, Distinct
<1>3. PICK fd \in Fds : SessionId(wjob[w]) = fd /\ SessionId(wjob[w])' = fd
  BY <1>1, WorkerSession
<1>4. /\ wpc'[w] = IF info = NULL THEN missing ELSE found
      /\ winfo'[w] = info
  BY <1>1 DEF ServerInv, TypeOK, WorkerTypes
<1>5. \A i \in DOMAIN registry : registry[i] # NULL
  BY RegistryFacts DEF NULL
<1>6. /\ info # NULL => IsFirstInfo(fd, info)
      /\ info = NULL => ~Registered(fd)
  BY <1>1, <1>3, <1>5 DEF LookupInfo, IsFirstInfo, Registered
<1>7. IsFirstInfo(fd, info) => Registered(fd) /\ info \in ToSet(registry)
  BY DEF IsFirstInfo, FirstInfo, Registered, ToSet
<1>8. at \in {"run_lookup", "end_lookup"} => Registered(fd)
  BY <1>1, <1>3 DEF InfosKept, WorkerInfos
<1>9. /\ Registered(SessionId(wjob[w]))' = Registered(fd)
      /\ IsFirstInfo(SessionId(wjob[w]), winfo[w])' = IsFirstInfo(fd, info)
  BY <1>1, <1>3, <1>4 DEF Registered, IsFirstInfo, FirstInfo, InfoAt
<1>10. WorkerInfos(w)'
  BY <1>1, <1>4, <1>6, <1>7, <1>8, <1>9 DEF WorkerInfos
<1> QED
  BY <1>2, <1>10 DEF InfosKept, OneWorker

\* It creates one only for a job's first look.
LEMMA CreateInfos ==
    ASSUME OneWorker, ServerInv, InfosKept, NEW w \in Workers, NEW at, NEW found,
           WorkerCreate(w, at, found),
           \/ at = "add_create" /\ found = "add_job"
           \/ at \in {"run_create", "end_create"}
    PROVE  InfosKept'
<1>1. /\ wpc[w] = at /\ CreateInfo(SessionId(wjob[w]))
      /\ winfo' = [winfo EXCEPT ![w] = Len(infos) + 1] /\ wpc' = [wpc EXCEPT ![w] = found]
      /\ UNCHANGED <<wjob, fdOf>>
  BY DEF WorkerCreate, Goto, clientVars
<1>2. at = "add_create" /\ found = "add_job"
  BY <1>1 DEF InfosKept, WorkerInfos
<1>3. PICK fd \in Fds : SessionId(wjob[w]) = fd /\ SessionId(wjob[w])' = fd
  BY <1>1, <1>2, WorkerSession
<1>4. RegistryKeeps /\ Registered(fd)' /\ Len(infos) + 1 \in ToSet(registry')
  BY <1>1, <1>3, RegistryGrows DEF InfosKept
<1>5. wpc'[w] = "add_job" /\ winfo'[w] = Len(infos) + 1
  BY <1>1, <1>2 DEF ServerInv, TypeOK, WorkerTypes
<1>6. Registered(SessionId(wjob[w]))' = Registered(fd)'
  BY <1>3 DEF Registered
<1>7. WorkerInfos(w)'
  BY <1>4, <1>5, <1>6 DEF WorkerInfos
<1> QED
  BY <1>4, <1>7 DEF InfosKept, OneWorker, RegistryKeeps

\* A job that goes on with what it has found.
LEMMA JobInfos ==
    ASSUME OneWorker, ServerInv, InfosKept, NEW w \in Workers,
           AddJob(w) \/ RunHandler(w) \/ RemoveJob(w) \/ TestTerminated(w)
    PROVE  InfosKept'
<1>1. PICK label :
        /\ \/ wpc[w] = "add_job" /\ label \in {"handle", "run_lookup"}
           \/ wpc[w] = "handle" /\ label = "end_lookup"
           \/ wpc[w] = "remove_job" /\ label = "test"
           \/ wpc[w] = "test" /\ label \in {"remove_info", "free", "reply"}
        /\ wpc' = [wpc EXCEPT ![w] = label]
        /\ UNCHANGED <<registry, wjob, winfo, fdOf>>
  <2>1. CASE AddJob(w)
    <3>1. wjob[w].kind \in {"call", "close", "notify", "garbage"}
      BY <2>1, WorkerJob DEF AddJob, JobKinds, Kinds
    <3>2. HandlerStart(wjob[w].kind) \subseteq {"handle", "run_lookup"}
      BY <3>1 DEF HandlerStart
    <3> QED
      BY <2>1, <3>2 DEF AddJob, Goto, clientVars
  <2>2. CASE RunHandler(w)
    BY <2>2 DEF RunHandler, Goto, registryVars, clientVars
  <2>3. CASE RemoveJob(w)
    BY <2>3 DEF RemoveJob, Goto, clientVars
  <2>4. CASE TestTerminated(w)
    BY <2>4 DEF TestTerminated, Goto, registryVars, clientVars
  <2> QED
    BY <2>1, <2>2, <2>3, <2>4
<1>2. SameInfos
  <2>1. \A a \in DOMAIN infos : infos[a] \in Info
    BY InfoRecord DEF ServerInv, TypeOK
  <2>2. CASE AddJob(w)
    <3>1. infos' = [infos EXCEPT ![winfo[w]].jobs = @ \cup {wjob[w]}]
      BY <2>2 DEF AddJob
    <3> QED
      BY <2>1, <3>1 DEF SameInfos, Info
  <2>3. CASE RemoveJob(w)
    <3>1. infos' = [infos EXCEPT ![winfo[w]].jobs = @ \ {wjob[w]}]
      BY <2>3 DEF RemoveJob
    <3> QED
      BY <2>1, <3>1 DEF SameInfos, Info
  <2>4. CASE RunHandler(w) \/ TestTerminated(w)
    BY <2>4 DEF RunHandler, TestTerminated, SameInfos, registryVars
  <2> QED
    BY <2>2, <2>3, <2>4
<1>3. RegistryKeeps
  BY <1>1, <1>2, RegistrySame DEF InfosKept
<1>4. PICK fd \in Fds : SessionId(wjob[w]) = fd /\ SessionId(wjob[w])' = fd
  BY <1>1, WorkerSession
<1>5. PICK info : winfo[w] = info /\ winfo'[w] = info
  BY <1>1
<1>6. /\ Registered(fd) => Registered(fd)'
      /\ IsFirstInfo(fd, info) => IsFirstInfo(fd, info)'
      /\ info \in ToSet(registry) => info \in ToSet(registry')
  BY <1>3 DEF RegistryKeeps
<1>7. /\ Registered(SessionId(wjob[w]))' = Registered(fd)'
      /\ IsFirstInfo(SessionId(wjob[w]), winfo[w])' = IsFirstInfo(fd, info)'
  BY <1>4, <1>5 DEF Registered, IsFirstInfo, FirstInfo
<1>8. WorkerInfos(w) /\ wpc'[w] = label
  BY <1>1 DEF InfosKept, ServerInv, TypeOK, WorkerTypes
<1>9. WorkerInfos(w)'
  BY <1>1, <1>4, <1>5, <1>6, <1>7, <1>8 DEF WorkerInfos
<1> QED
  BY <1>3, <1>9 DEF InfosKept, OneWorker, RegistryKeeps

\* cleanup_session takes the info it frees out of the registry.
LEMMA RemoveInfos ==
    ASSUME OneWorker, ServerInv, InfosKept, NEW w \in Workers, RemoveInfo(w)
    PROVE  InfosKept'
<1>1. /\ wpc[w] = "remove_info" /\ wpc' = [wpc EXCEPT ![w] = "free"]
      /\ infos' = [infos EXCEPT ![winfo[w]].released = TRUE]
      /\ \/ \E i \in DOMAIN registry :
                FirstInfo(infos[winfo[w]].sid, i) /\ registry' = RemoveAt(registry, i)
         \/ (\A i \in DOMAIN registry : InfoAt(i).sid # infos[winfo[w]].sid) /\ UNCHANGED registry
  BY DEF RemoveInfo, Goto
<1>2. PICK i \in DOMAIN registry : FirstInfo(SessionId(wjob[w]), i) /\ winfo[w] = registry[i]
  BY <1>1 DEF InfosKept, WorkerInfos, IsFirstInfo
<1>3. infos[winfo[w]].sid = SessionId(wjob[w])
  BY <1>2 DEF FirstInfo, InfoAt
<1>4. registry' = RemoveAt(registry, i)
  <2>1. PICK j \in DOMAIN registry :
            FirstInfo(infos[winfo[w]].sid, j) /\ registry' = RemoveAt(registry, j)
    BY <1>1, <1>2, <1>3 DEF FirstInfo
  <2>2. i = j
    <3>1. i \in Nat /\ j \in Nat /\ ~(i \in 1..(j - 1)) /\ ~(j \in 1..(i - 1)) /\ i >= 1 /\ j >= 1
      BY <1>2, <1>3, <2>1, RegistryFacts DEF FirstInfo
    <3> QED
      BY <3>1
  <2> QED
    BY <2>1, <2>2
<1>5. /\ Distinct(registry') /\ ToSet(registry') = ToSet(registry) \ {winfo[w]}
  <2>1. registry \in Seq(DOMAIN infos) /\ i \in 1..Len(registry) /\ Distinct(registry)
    BY RegistryFacts DEF InfosKept, RegistryKept
  <2> QED
    BY <1>2, <1>4, <2>1, RemoveAtDistinct
<1>6. \A a \in ToSet(registry) : ~infos[a].released /\ a \in DOMAIN infos
  BY RegistryFacts DEF InfosKept, RegistryKept, InfoAt, ToSet
<1>7. \A a \in DOMAIN infos : a # winfo[w] => infos'[a] = infos[a]
  BY <1>1
<1>8. \A a \in ToSet(registry') : ~infos'[a].released
  BY <1>5, <1>6, <1>7
<1>9. RegistryKept'
  BY <1>5, <1>8 DEF RegistryKept, InfoAt, ToSet, Distinct
<1>10. wpc'[w] = "free"
  BY <1>1 DEF ServerInv, TypeOK, WorkerTypes
<1> QED
  BY <1>9, <1>10 DEF InfosKept, WorkerInfos, OneWorker

\* A job begins or ends.
LEMMA TurnInfos ==
    ASSUME OneWorker, ServerInv, InfosKept, NEW w \in Workers,
           DequeueRequest(w) \/ FreeRequest(w) \/ EnqueueReply(w)
    PROVE  InfosKept'
<1>1. UNCHANGED <<registry, infos>> /\ wpc'[w] \in {"add_lookup", "dequeue"}
  BY DEF DequeueRequest, FreeRequest, EnqueueReply, NextRequest, Goto, registryVars,
         ServerInv, TypeOK, WorkerTypes
<1>2. RegistryKept'
  BY <1>1 DEF InfosKept, RegistryKept, InfoAt, Distinct
<1> QED
  BY <1>1, <1>2 DEF InfosKept, WorkerInfos, OneWorker

LEMMA NextInfos ==
    ASSUME OneWorker, ServerInv, InfosKept, [Next]_vars
    PROVE  InfosKept'
<1>1. ASSUME NEW w \in Workers, Worker(w) PROVE InfosKept'
  <2>1. CASE \/ WorkerLookup(w, "add_lookup", "add_create", "add_job")
             \/ WorkerLookup(w, "run_lookup", "run_create", "handle")
             \/ WorkerLookup(w, "end_lookup", "end_create", "remove_job")
    BY <2>1, LookupInfos
  <2>2. CASE \/ WorkerCreate(w, "add_create", "add_job")
             \/ WorkerCreate(w, "run_create", "handle")
             \/ WorkerCreate(w, "end_create", "remove_job")
    BY <2>2, CreateInfos
  <2> QED
    BY <1>1, <2>1, <2>2, JobInfos, RemoveInfos, TurnInfos DEF Worker
<1> QED
  BY <1>1, OutsideInfos, ListenerInfos DEF Next

\* With one worker, the registry holds no info that cleanup_session has freed, and the
\* worker uses none: between its first look and its last the listener only adds infos
\* behind the one it has found.
THEOREM NoInfoDangles ==
    ASSUME OneWorker
    PROVE  Spec => []NoDanglingInfo
<1>1. Init => ServerInv /\ InfosKept
  BY InitInv DEF Init, InfosKept, RegistryKept, WorkerInfos, Distinct
<1>2. ServerInv /\ InfosKept /\ [Next]_vars => ServerInv' /\ InfosKept'
  BY NextInv, NextInfos
<1>3. InfosKept => NoDanglingInfo
  BY DEF InfosKept, RegistryKept, WorkerInfos, IsFirstInfo, InfoAt, ToSet, UsesInfo,
         NoDanglingInfo
<1> QED
  BY <1>1, <1>2, <1>3, PTL DEF Spec
-----------------------------------------------------------------------------
(* A client that waits for each reply, on a descriptor that was not reused *)
(* receives the notification and then the replies to its requests.         *)

\* Such a client has at most one transaction under way, but for the one that follows a
\* failed recv().
LEMMA ServedFrame ==
    ASSUME NEW c \in Conns, Served(c), Outstanding(c)' \subseteq Outstanding(c),
           UNCHANGED <<sent, delivered, inbox>>
    PROVE  Served(c)'
<1>1. \A txn \in Outstanding(c)' : txn.num \in {Len(delivered[c]), MaxRequests + 1}
  BY DEF Served
<1>2. /\ sent'[c] <= Len(delivered'[c]) /\ Len(delivered'[c]) <= sent'[c] + 1
      /\ \A i \in DOMAIN delivered'[c] :
            delivered'[c][i].conn = c /\ delivered'[c][i].num = i - 1
      /\ \A i \in DOMAIN inbox'[c] : inbox'[c][i].num = Len(delivered'[c])
  BY DEF Served
<1> QED
  BY <1>1, <1>2 DEF Served

\* A step that sends and receives nothing.
LEMMA StillServed ==
    ASSUME WaitingServed, UNCHANGED <<sent, delivered, inbox, fdOf>>,
           \A c \in Conns : Outstanding(c)' \subseteq Outstanding(c)
    PROVE  WaitingServed'
<1> SUFFICES ASSUME NEW c \in Conns
             PROVE  /\ fdOf'[c] = NoFd => delivered'[c] = <<>> /\ sent'[c] = 0
                    /\ fdOf'[c] # NoFd /\ SoleUser(c)' => Served(c)'
  BY DEF WaitingServed, SoleUser, Served, Outstanding
<1>1. SoleUser(c)' => SoleUser(c)
  BY DEF SoleUser
<1> QED
  BY <1>1, ServedFrame DEF WaitingServed

LEMMA ServedFacts ==
    ASSUME ServerInv, NEW c \in Conns
    PROVE  /\ delivered[c] \in Seq(Txn) /\ Len(delivered[c]) \in Nat
           /\ DOMAIN delivered[c] = 1..Len(delivered[c])
           /\ sent[c] \in Nat /\ sent[c] <= MaxRequests /\ MaxRequests \in Nat
           /\ delivered \in [Conns -> Seq(Txn)] /\ sent \in [Conns -> 0..MaxRequests]
           /\ inbox \in [Conns -> Seq(Request)] /\ created \subseteq Txn
BY RequestAssumption, LenProperties DEF ServerInv, TypeOK, ClientTypes, QueueTypes

\* A request follows the last reply.
LEMMA SendServed ==
    ASSUME ~Pipelined, OwnershipInv, WaitingServed,
           NEW c \in Conns, NEW kind \in Kinds, ClientSend(c, kind)
    PROVE  WaitingServed'
<1> DEFINE r == [num |-> sent[c] + 1, kind |-> kind]
<1>1. /\ UNCHANGED <<rjob, created, freed, rpc, fdOf, delivered>>
      /\ inbox' = [inbox EXCEPT ![c] = Append(inbox[c], r)]
      /\ sent' = [sent EXCEPT ![c] = sent[c] + 1] /\ Len(delivered[c]) > sent[c]
      /\ sent[c] < MaxRequests
  BY DEF ClientSend, serverVars, workerVars, replyVars, history
<1>2. r \in Request /\ r.num = sent[c] + 1
  BY <1>1, ServedFacts DEF OwnershipInv, Request
<1> HIDE DEF r
<1>3. /\ DOMAIN inbox'[c] = 1..(Len(inbox[c]) + 1) /\ DOMAIN inbox[c] = 1..Len(inbox[c])
      /\ Len(inbox[c]) \in Nat /\ inbox'[c][Len(inbox[c]) + 1] = r
      /\ \A i \in 1..Len(inbox[c]) : inbox'[c][i] = inbox[c][i]
  BY <1>1, <1>2, ServedFacts, AppendProperties, LenProperties DEF OwnershipInv
<1>4. sent'[c] = sent[c] + 1 /\ \A d \in Conns \ {c} : sent'[d] = sent[d] /\ inbox'[d] = inbox[d]
  BY <1>1, ServedFacts DEF OwnershipInv
<1>5. \A d \in Conns : Outstanding(d)' = Outstanding(d) /\ SoleUser(d)' = SoleUser(d)
  BY <1>1 DEF Outstanding, SoleUser
<1>6. fdOf[c] # NoFd
  <2>1. Len(<<>>) = 0
    BY EmptySeq
  <2> QED
    BY <1>1, <2>1 DEF WaitingServed
<1>7. ASSUME SoleUser(c) PROVE Served(c)'
  <2>1. Served(c)
    BY <1>6, <1>7 DEF WaitingServed
  <2>2. Len(delivered[c]) = sent[c] + 1
    BY <1>1, <2>1, ServedFacts DEF Served, OwnershipInv
  <2>3. \A i \in 1..Len(inbox[c]) : inbox'[c][i].num = Len(delivered[c])
    BY <1>3, <2>1 DEF Served
  <2>4. \A i \in DOMAIN inbox'[c] : i \in 1..Len(inbox[c]) \/ i = Len(inbox[c]) + 1
    BY <1>3
  <2>5. \A i \in DOMAIN inbox'[c] : inbox'[c][i].num = Len(delivered[c])
    BY <1>2, <1>3, <2>2, <2>3, <2>4
  <2>6. sent'[c] <= Len(delivered[c]) /\ Len(delivered[c]) <= sent'[c] + 1
    BY <1>4, <2>2, ServedFacts DEF OwnershipInv
  <2> QED
    BY <1>1, <1>5, <2>1, <2>5, <2>6 DEF Served
<1>8. ASSUME NEW d \in Conns \ {c}, fdOf[d] # NoFd, SoleUser(d) PROVE Served(d)'
  BY <1>1, <1>4, <1>5, <1>8 DEF WaitingServed, Served
<1> QED
  BY <1>1, <1>4, <1>5, <1>6, <1>7, <1>8 DEF WaitingServed

\* What the server takes from a connection is what it waits to have answered.
LEMMA QueuesServed ==
    ASSUME OwnershipInv, WaitingServed, NEW t, Queues(t), UNCHANGED fdOf,
           \/ t.num = MaxRequests + 1
           \/ SoleUser(t.conn) /\ fdOf[t.conn] # NoFd => t.num = Len(delivered[t.conn]),
           \A c \in Conns : \A i \in DOMAIN inbox'[c] :
                \E j \in DOMAIN inbox[c] : inbox'[c][i] = inbox[c][j]
    PROVE  WaitingServed'
<1>1. /\ UNCHANGED <<rjob, freed, rpc, delivered, sent, fdOf>> /\ created' = created \cup {t}
  BY DEF Queues, QueueRequest
<1>2. ASSUME NEW c \in Conns, fdOf[c] # NoFd, SoleUser(c)
      PROVE  Served(c)'
  <2>1. Served(c)
    BY <1>2 DEF WaitingServed
  <2>2. \A txn \in Outstanding(c)' : txn \in Outstanding(c) \/ (txn = t /\ t.conn = c)
    BY <1>1 DEF Outstanding
  <2>3. \A txn \in Outstanding(c)' : txn.num \in {Len(delivered[c]), MaxRequests + 1}
    BY <1>2, <2>1, <2>2 DEF Served
  <2>4. \A i \in DOMAIN inbox'[c] : inbox'[c][i].num = Len(delivered[c])
    BY <2>1 DEF Served
  <2> QED
    BY <1>1, <2>1, <2>3, <2>4 DEF Served
<1>3. \A c \in Conns : SoleUser(c)' = SoleUser(c)
  BY <1>1 DEF SoleUser
<1> QED
  BY <1>1, <1>2, <1>3 DEF WaitingServed

LEMMA ReceiveServed ==
    ASSUME OwnershipInv, WaitingServed, NEW fd \in Fds, NEW n \in 1..MaxRequests,
           ReceiveRequest(fd, n)
    PROVE  WaitingServed'
<1> DEFINE c == Owner(fd)
<1>1. c \in Conns
  BY ScannedOwner DEF ReceiveRequest, OwnershipInv
<1>2. PICK t : Queues(t) /\ t.conn = c /\ t.num = inbox[c][1].num
  BY ReceiveQueues
<1>3. 1 \in DOMAIN inbox[c] /\ fdOf' = fdOf
      /\ inbox' = [inbox EXCEPT ![c] = SubSeq(inbox[c], n + 1, Len(inbox[c]))]
  BY ReceiveQueues DEF ReceiveRequest
<1> HIDE DEF c
<1>4. SoleUser(c) /\ fdOf[c] # NoFd => t.num = Len(delivered[c])
  BY <1>1, <1>2, <1>3 DEF WaitingServed, Served
<1>5. \A d \in Conns : \A i \in DOMAIN inbox'[d] :
        \E j \in DOMAIN inbox[d] : inbox'[d][i] = inbox[d][j]
  <2>1. inbox[c] \in Seq(Request) /\ Len(inbox[c]) \in Nat /\ n \in Nat /\ n > 0
        /\ DOMAIN inbox[c] = 1..Len(inbox[c])
    BY <1>1, ServedFacts, LenProperties DEF OwnershipInv
  <2>2. \A i \in (n + 1)..Len(inbox[c]) : inbox[c][i] \in Request
    BY <2>1, ElementOfSeq
  <2>3. CASE n + 1 <= Len(inbox[c])
    <3>1. /\ Len(SubSeq(inbox[c], n + 1, Len(inbox[c]))) = Len(inbox[c]) - n
          /\ SubSeq(inbox[c], n + 1, Len(inbox[c])) \in Seq(Request)
          /\ \A i \in 1..(Len(inbox[c]) - n) :
                SubSeq(inbox[c], n + 1, Len(inbox[c]))[i] = inbox[c][n + 1 + i - 1]
      BY <2>1, <2>2, <2>3, SubSeqProperties
    <3>2. \A i \in 1..(Len(inbox[c]) - n) : n + 1 + i - 1 \in DOMAIN inbox[c]
      BY <2>1
    <3>3. DOMAIN SubSeq(inbox[c], n + 1, Len(inbox[c])) = 1..(Len(inbox[c]) - n)
      BY <3>1, LenProperties
    <3> QED
      BY <1>1, <1>3, <3>1, <3>2, <3>3, ServedFacts DEF OwnershipInv
  <2>4. CASE n + 1 > Len(inbox[c])
    <3>1. SubSeq(inbox[c], n + 1, Len(inbox[c])) = <<>>
      BY <2>1, <2>4, SubSeqProperties
    <3> QED
      BY <1>1, <1>3, <3>1, ServedFacts DEF OwnershipInv
  <2> QED
    BY <2>1, <2>3, <2>4
<1> QED
  BY <1>2, <1>3, <1>4, <1>5, QueuesServed

LEMMA ErrorServed ==
    ASSUME OwnershipInv, WaitingServed, NEW fd \in Fds, ReceiveError(fd)
    PROVE  WaitingServed'
<1>1. Queues(GarbageTxn(Owner(fd))) /\ UNCHANGED <<fdOf, inbox>>
  BY ErrorQueues DEF ReceiveError
<1>2. GarbageTxn(Owner(fd)).num = MaxRequests + 1
  BY DEF GarbageTxn
<1> QED
  BY <1>1, <1>2, QueuesServed

\* A connection begins with its notification.
LEMMA AcceptServed ==
    ASSUME OwnershipInv, WaitingServed, NEW fd \in Fds, AcceptConnection(fd)
    PROVE  WaitingServed'
<1>a. PICK c : c = Head(backlog)
  OBVIOUS
<1>b. PICK t : t = NotifyTxn(c)
  OBVIOUS
<1>1. c \in Conns /\ fdOf[c] = NoFd
  <2>1. /\ c \in Conns /\ c = backlog[1] /\ 1 \in DOMAIN backlog
    BY <1>a, TailProperties DEF AcceptConnection, OwnershipInv, ServerInv, TypeOK, ClientTypes
  <2> QED
    BY <2>1 DEF OwnershipInv, ServerInv, AcceptedOnce
<1>2. /\ Queues(t) /\ fdOf' = [fdOf EXCEPT ![c] = fd] /\ inbox' = inbox
      /\ t.conn = c /\ t.num = 0
  BY <1>a, <1>b, AcceptQueues DEF AcceptConnection, NotifyTxn
<1>3. /\ UNCHANGED <<rjob, freed, rpc, delivered, sent, inbox>> /\ created' = created \cup {t}
  BY <1>2 DEF Queues, QueueRequest
<1>4. fdOf'[c] = fd /\ fd # NoFd /\ \A d \in Conns \ {c} : fdOf'[d] = fdOf[d]
  BY <1>1, <1>2, FdFacts DEF OwnershipInv, ServerInv, TypeOK, ClientTypes
<1>5. delivered[c] = <<>> /\ sent[c] = 0 /\ Len(delivered[c]) = 0
  BY <1>1, EmptySeq DEF WaitingServed
<1>6. Served(c)'
  <2>1. \A txn \in Outstanding(c)' : txn = t
    BY <1>1, <1>3 DEF Outstanding, OwnershipInv, Numbered
  <2>2. DOMAIN inbox[c] = {}
    <3>1. \A i \in DOMAIN inbox[c] : inbox[c][i].num <= 0
      BY <1>1, <1>5 DEF OwnershipInv, Numbered
    <3>2. \A i \in DOMAIN inbox[c] : inbox[c][i].num \in 1..MaxRequests
      <4>1. inbox[c] \in Seq(Request) /\ DOMAIN inbox[c] = 1..Len(inbox[c])
        BY <1>1, ServedFacts, LenProperties DEF OwnershipInv
      <4>2. \A i \in DOMAIN inbox[c] : inbox[c][i] \in Request
        BY <4>1, ElementOfSeq
      <4> QED
        BY <4>2 DEF Request
    <3>3. \A i \in DOMAIN inbox[c] : ~(inbox[c][i].num <= 0)
      BY <3>2
    <3> QED
      BY <3>1, <3>3
  <2>3. DOMAIN delivered[c] = {}
    BY <1>5
  <2> QED
    BY <1>2, <1>3, <1>5, <2>1, <2>2, <2>3 DEF Served
<1>7. ASSUME NEW d \in Conns \ {c}, fdOf'[d] # NoFd, SoleUser(d)' PROVE Served(d)'
  <2>1. fdOf[d] # NoFd /\ SoleUser(d)
    BY <1>1, <1>4, <1>7 DEF SoleUser
  <2>2. Outstanding(d)' \subseteq Outstanding(d)
    BY <1>2, <1>3 DEF Outstanding
  <2> QED
    BY <1>3, <2>1, <2>2, ServedFrame DEF WaitingServed
<1> QED
  BY <1>3, <1>4, <1>6, <1>7 DEF WaitingServed

\* A reply goes to the connection it is for, and is the one it waits for.
LEMMA SendReplyServed ==
    ASSUME OwnershipInv, WaitingServed, SendReply
    PROVE  WaitingServed'
<1>a. PICK c : c = Owner(SessionId(rjob))
  OBVIOUS
<1>1. /\ rpc = "send" /\ rpc' = "free" /\ rjob \in Txn /\ rjob \in created /\ rjob \notin freed
      /\ UNCHANGED <<rjob, created, freed, fdOf, sent, inbox>>
  BY SendReplyMoves DEF OwnershipInv, Accounted
<1>2. /\ c \in Conns /\ fdOf[c] = fdOf[rjob.conn]
      /\ \/ peer[c] = "up" /\ delivered' = [delivered EXCEPT ![c] = Append(delivered[c], rjob)]
         \/ delivered' = delivered
  BY <1>a, OwnerOpen DEF SendReply, OpenConns, SessionId
<1>3. rjob.conn \in Conns /\ rjob.num \in Int /\ fdOf[rjob.conn] # NoFd
  BY <1>1, RequestAssumption DEF Txn, OwnershipInv, Numbered
<1>4. \A d \in Conns : /\ SoleUser(d)' = SoleUser(d)
                       /\ Outstanding(d)' \subseteq Outstanding(d)
  BY <1>1 DEF SoleUser, Outstanding
<1>5. CASE delivered' = delivered
  BY <1>1, <1>4, <1>5, StillServed
<1>6. CASE peer[c] = "up" /\ delivered' = [delivered EXCEPT ![c] = Append(delivered[c], rjob)]
  <2>1. \A d \in Conns \ {c} : delivered'[d] = delivered[d]
    BY <1>6, ServedFacts DEF OwnershipInv
  <2>2. ASSUME NEW d \in Conns \ {c}, fdOf[d] # NoFd, SoleUser(d) PROVE Served(d)'
    <3>1. Served(d)
      BY <2>2 DEF WaitingServed
    <3>2. \A txn \in Outstanding(d)' : txn.num \in {Len(delivered[d]), MaxRequests + 1}
      BY <1>4, <3>1 DEF Served
    <3> QED
      BY <1>1, <2>1, <3>1, <3>2 DEF Served
  <2>3. ASSUME SoleUser(c) PROVE Served(c)'
    <3>1. rjob.conn = c /\ fdOf[c] # NoFd
      BY <1>2, <1>3, <2>3 DEF SoleUser
    <3>2. Served(c)
      BY <1>2, <2>3, <3>1 DEF WaitingServed
    <3>3. rjob.num <= sent[c] /\ rjob.num # MaxRequests + 1
      <4>1. rjob.num <= sent[c]
        BY <1>1, <1>6, <3>1 DEF OwnershipInv, Numbered
      <4> QED
        BY <1>2, <1>3, <4>1, ServedFacts DEF OwnershipInv
    <3>4. rjob \in Outstanding(c)
      BY <1>1, <3>1 DEF Outstanding
    <3>5. rjob.num = Len(delivered[c])
      BY <3>2, <3>3, <3>4 DEF Served
    <3>a. PICK k : k = Len(delivered[c])
      OBVIOUS
    <3>6. /\ Len(delivered'[c]) = k + 1 /\ DOMAIN delivered'[c] = 1..(k + 1)
          /\ delivered'[c][k + 1] = rjob /\ \A i \in 1..k : delivered'[c][i] = delivered[c][i]
          /\ k \in Nat /\ DOMAIN delivered[c] = 1..k
      <4>1. delivered[c] \in Seq(Txn) /\ delivered'[c] = Append(delivered[c], rjob)
        BY <1>2, <1>6, ServedFacts DEF OwnershipInv
      <4> QED
        BY <1>1, <3>a, <4>1, AppendProperties, LenProperties
    <3>7. \A i \in DOMAIN delivered'[c] :
            delivered'[c][i].conn = c /\ delivered'[c][i].num = i - 1
      <4>1. \A i \in 1..k : delivered[c][i].conn = c /\ delivered[c][i].num = i - 1
        BY <3>2, <3>6, <3>a DEF Served
      <4>2. \A i \in DOMAIN delivered'[c] : i \in 1..k \/ (i = k + 1 /\ i - 1 = k)
        BY <3>6
      <4> QED
        BY <3>1, <3>5, <3>6, <3>a, <4>1, <4>2
    <3>8. \A txn \in Outstanding(c)' : txn.num = MaxRequests + 1
      <4>1. ASSUME NEW txn \in Outstanding(c)' PROVE txn.num = MaxRequests + 1
        <5>1. txn \in Outstanding(c) /\ txn # rjob /\ txn \in created /\ txn.conn = c
          BY <1>1, <1>4, <1>2, <4>1 DEF Outstanding
        <5>2. txn.num # rjob.num
          BY <1>1, <3>1, <5>1 DEF OwnershipInv, Numbered
        <5> QED
          BY <3>2, <3>5, <5>1, <5>2 DEF Served
      <4> QED
        BY <4>1
    <3>9. DOMAIN inbox[c] = {}
      <4>1. \A i \in DOMAIN inbox[c] : inbox[c][i].num = rjob.num /\ rjob.num < inbox[c][i].num
        BY <1>1, <3>1, <3>2, <3>5 DEF Served, OwnershipInv, Numbered
      <4> QED
        BY <1>3, <4>1
    <3>10. sent[c] <= k + 1 /\ k + 1 <= sent[c] + 1
      <4>1. sent[c] <= k /\ k <= sent[c] /\ sent[c] \in Nat
        BY <1>2, <3>2, <3>3, <3>5, <3>a, ServedFacts DEF Served, OwnershipInv
      <4> QED
        BY <3>6, <4>1
    <3> QED
      BY <1>1, <3>6, <3>7, <3>8, <3>9, <3>10 DEF Served
  <2>4. fdOf[c] # NoFd
    BY <1>2, <1>3
  <2> QED
    BY <1>1, <1>4, <2>1, <2>2, <2>3, <2>4 DEF WaitingServed
<1> QED
  BY <1>2, <1>5, <1>6

LEMMA NextServed ==
    ASSUME ~Pipelined, OwnershipInv, WaitingServed, [Next]_vars
    PROVE  WaitingServed'
<1>1. CASE Quiet
  <2>1. \A c \in Conns : Outstanding(c)' \subseteq Outstanding(c)
    BY <1>1 DEF Outstanding, Quiet
  <2> QED
    BY <1>1, <2>1, StillServed DEF Quiet
<1>2. ASSUME NEW w \in Workers, DequeueRequest(w) \/ FreeRequest(w) \/ EnqueueReply(w)
      PROVE  WaitingServed'
  <2>1. /\ UNCHANGED <<rjob, created, rpc, sent, delivered, inbox, fdOf>>
        /\ freed \subseteq freed'
    BY <1>2 DEF DequeueRequest, FreeRequest, EnqueueReply, clientVars, replyVars, history
  <2>2. \A c \in Conns : Outstanding(c)' \subseteq Outstanding(c)
    BY <2>1 DEF Outstanding
  <2> QED
    BY <2>1, <2>2, StillServed
<1>3. CASE DequeueReply \/ FreeReply
  <2>1. /\ UNCHANGED <<created, sent, delivered, inbox, fdOf>> /\ freed \subseteq freed'
        /\ \/ rpc' = "check" /\ rpc = "dequeue"
           \/ rpc' = "dequeue" /\ rjob \in freed'
    BY <1>3 DEF DequeueReply, FreeReply, clientVars, history
  <2>2. \A txn \in created \ freed : txn = rjob => rpc # "dequeue"
    BY NoTxnAssumption DEF OwnershipInv, Accounted, ServerInv, TypeOK, QueueTypes
  <2>3. \A c \in Conns : Outstanding(c)' \subseteq Outstanding(c)
    BY <2>1, <2>2 DEF Outstanding
  <2> QED
    BY <2>1, <2>3, StillServed
<1>4. CASE Moving
  BY <1>2, <1>3, <1>4, SendServed, AcceptServed, ErrorServed, ReceiveServed,
     SendReplyServed DEF Moving
<1> QED
  BY <1>1, <1>4, QuietOrMoving DEF OwnershipInv

\* A client that waits for its replies, and whose descriptor was not reused, receives the
\* notification and then the reply to each of its calls, and nothing else, for any number
\* of connections and workers.
THEOREM SoleUsersServed ==
    ASSUME ~Pipelined
    PROVE  Spec => []SoleUserServed
<1>1. Init => OwnershipInv /\ WaitingServed
  BY InitOwnership DEF Init, WaitingServed
<1>2. OwnershipInv /\ WaitingServed /\ [Next]_vars => OwnershipInv' /\ WaitingServed'
  BY NextOwnership, NextServed
<1>3. WaitingServed => SoleUserServed
  BY DEF WaitingServed, Served, SoleUserServed
<1> QED
  BY <1>1, <1>2, <1>3, PTL DEF Spec
=============================================================================
