-------------------------- MODULE NdmpServerProofs --------------------------
(***************************************************************************)
(* ServerInv is an invariant of NdmpServer, for all connections,           *)
(* descriptors and workers: the types, and the consistency of the          *)
(* sessions, the descriptors select() reports and the transactions.        *)
(***************************************************************************)
EXTENDS NdmpServer, SeqLemmas

\* The listening socket takes no part in what follows but for maxfds.
LEMMA FdFacts == Fds \subseteq Int /\ NoFd \notin Fds /\ ListenFd \in Int
BY FdsAssumption DEF NoFd

\* An open descriptor has an owner, which is open.
LEMMA OwnerOpen ==
    ASSUME NEW fd \in OpenFds
    PROVE  Owner(fd) \in OpenConns /\ fdOf[Owner(fd)] = fd
BY DEF Owner, OpenFds

\* comm_context and an idle server: nothing is open, queued or held.
LEMMA InitInv == Init => ServerInv
<1> SUFFICES ASSUME Init PROVE ServerInv
  OBVIOUS
<1> USE DEF Init
<1>1. TypeOK
  <2>1. ClientTypes
    BY RequestAssumption, EmptySeq DEF ClientTypes
  <2>2. QueueTypes /\ RegistryTypes
    BY EmptySeq DEF QueueTypes, RegistryTypes
  <2>3. ListenerTypes /\ WorkerTypes /\ ReplyTypes
    BY DEF ListenerTypes, WorkerTypes, ReplyTypes
  <2> QED
    BY <2>1, <2>2, <2>3 DEF TypeOK
<1>2. AcceptedOnce
  BY DEF AcceptedOnce
<1>3. TxnsAccepted /\ PcConsistent
  BY DEF TxnsAccepted, PcConsistent, UsesInfo
<1>4. SessionsConsistent
  BY DEF SessionsConsistent, ToSet, OpenFds, OpenConns
<1>5. ScanSafe
  BY DEF ScanSafe
<1> QED
  BY <1>1, <1>2, <1>3, <1>4, <1>5 DEF ServerInv
-----------------------------------------------------------------------------
(* What a step that leaves the sessions or the scan alone preserves.       *)

\* The sessions stay consistent while nothing is opened, closed or removed.
LEMMA SessionsFrame ==
    ASSUME SessionsConsistent, OpenConns' = OpenConns, Alive' => Alive,
           UNCHANGED <<fdOf, sessions>>,
           UNCHANGED <<lpc, lfd>> \/ (lpc # "remove" /\ lpc' # "remove")
    PROVE  SessionsConsistent'
BY DEF SessionsConsistent, OpenFds, ToSet

\* A descriptor that had something to read still has.
StillReadable ==
    \A c \in Conns : inbox[c] # <<>> \/ peer[c] # "up" =>
                        inbox'[c] # <<>> \/ peer'[c] # "up"

\* The scan stays safe while its descriptors are open and have something to read.
LEMMA ScanFrame ==
    ASSUME ScanSafe, OpenConns' = OpenConns,
           UNCHANGED <<fdOf, sessions, maxfds>>,
           ready' \subseteq ready, lpc' = "scan" => ready' # {},
           StillReadable
    PROVE  ScanSafe'
<1>1. OpenFds' = OpenFds /\ \A fd \in OpenFds : Owner(fd)' = Owner(fd)
  BY DEF OpenFds, Owner
<1>2. \A fd \in OpenFds : Owner(fd) \in Conns
  BY OwnerOpen DEF OpenConns
<1>3. ReadableFds \subseteq ReadableFds'
  BY <1>1, <1>2 DEF ReadableFds, StillReadable, ToSet
<1> QED
  BY <1>3 DEF ScanSafe

\* Only a change of phase opens or closes a connection.
LEMMA OpenFrame == UNCHANGED phase => OpenConns' = OpenConns
BY DEF OpenConns
-----------------------------------------------------------------------------
(* The clients.                                                            *)

\* What a client does touches its connection only; the rest of the invariant holds
\* if no connection is opened or closed and none becomes unreadable.
LEMMA ClientFrame ==
    ASSUME ServerInv, UNCHANGED <<fdOf, serverVars>>,
           ClientTypes', AcceptedOnce', OpenConns' = OpenConns, StillReadable
    PROVE  ServerInv'
<1> USE DEF ServerInv, serverVars, listenerVars, workerVars, replyVars,
            registryVars, history
<1>1. TypeOK'
  BY DEF TypeOK, QueueTypes, RegistryTypes, ListenerTypes, WorkerTypes, ReplyTypes
<1>2. TxnsAccepted'
  BY DEF TxnsAccepted, Accepted
<1>3. PcConsistent'
  BY DEF PcConsistent
<1>4. SessionsConsistent'
  BY SessionsFrame DEF Alive
<1>5. ScanSafe'
  BY ScanFrame DEF ScanSafe
<1> QED
  BY <1>1, <1>2, <1>3, <1>4, <1>5

\* A connection enters the backlog once.
LEMMA ClientConnectInv ==
    ASSUME ServerInv, NEW c \in Conns, ClientConnect(c)
    PROVE  ServerInv'
<1> USE DEF ServerInv, ClientConnect
<1>1. backlog \in Seq(Conns) /\ phase[c] = "none" /\ backlog' = Append(backlog, c)
  BY DEF TypeOK, ClientTypes
<1>2. /\ backlog' \in Seq(Conns)
      /\ ToSet(backlog') = ToSet(backlog) \cup {c}
      /\ Distinct(backlog) /\ c \notin ToSet(backlog) => Distinct(backlog')
  BY <1>1, AppendProperties, AppendRange
<1>3. ClientTypes'
  BY <1>2 DEF TypeOK, ClientTypes
<1>4. c \notin ToSet(backlog)
  BY <1>1 DEF AcceptedOnce, ToSet
<1>5. AcceptedOnce'
  <2>1. \A d \in Conns : phase'[d] \in {"open", "closed"} <=> fdOf'[d] # NoFd
    BY DEF TypeOK, ClientTypes, AcceptedOnce
  <2>2. \A d \in ToSet(backlog) : d \in Conns /\ phase[d] = "backlog"
    BY <1>1 DEF AcceptedOnce, ToSet
  <2>3. \A d \in ToSet(backlog') : phase'[d] = "backlog"
    BY <1>2, <2>2 DEF TypeOK, ClientTypes
  <2>4. Distinct(backlog')
    BY <1>2, <1>4 DEF AcceptedOnce, Distinct
  <2> QED
    BY <2>1, <2>3, <2>4 DEF AcceptedOnce, Distinct, ToSet
<1>6. OpenConns' = OpenConns
  BY DEF OpenConns, TypeOK, ClientTypes
<1> QED
  BY <1>3, <1>5, <1>6, ClientFrame DEF StillReadable

\* A request makes a connection readable, never the opposite.
LEMMA ClientSendInv ==
    ASSUME ServerInv, NEW c \in Conns, NEW kind \in Kinds, ClientSend(c, kind)
    PROVE  ServerInv'
<1> USE DEF ServerInv, ClientSend
<1> DEFINE r == [num |-> sent[c] + 1, kind |-> kind]
<1>1. inbox[c] \in Seq(Request) /\ sent[c] \in 0..MaxRequests
  BY DEF TypeOK, ClientTypes
<1>2. r \in Request /\ sent[c] + 1 \in 0..MaxRequests
  BY <1>1, RequestAssumption DEF Request
<1>3. inbox' = [inbox EXCEPT ![c] = Append(inbox[c], r)]
  OBVIOUS
<1> HIDE DEF r
<1>4. Append(inbox[c], r) \in Seq(Request) /\ Append(inbox[c], r) # <<>>
  BY <1>1, <1>2, AppendProperties
<1>5. ClientTypes'
  BY <1>2, <1>3, <1>4 DEF TypeOK, ClientTypes
<1>6. AcceptedOnce' /\ OpenConns' = OpenConns
  BY DEF AcceptedOnce, OpenConns
<1>7. StillReadable
  BY <1>3, <1>4 DEF StillReadable, TypeOK, ClientTypes
<1> QED
  BY <1>5, <1>6, <1>7, ClientFrame

\* So do a close and a reset.
LEMMA ClientEndsInv ==
    ASSUME ServerInv, NEW c \in Conns, ClientClose(c) \/ ClientReset(c)
    PROVE  ServerInv'
<1> USE DEF ServerInv, ClientClose, ClientReset
<1>1. ClientTypes'
  BY DEF TypeOK, ClientTypes
<1>2. AcceptedOnce' /\ OpenConns' = OpenConns
  BY DEF AcceptedOnce, OpenConns
<1>3. StillReadable
  BY DEF StillReadable, TypeOK, ClientTypes
<1> QED
  BY <1>1, <1>2, <1>3, ClientFrame
-----------------------------------------------------------------------------
(* The listener.                                                           *)

\* A request may join the queue and a connection be accepted.
LEMMA TxnsFrame ==
    ASSUME TxnsAccepted, QueueTypes,
           \A c \in Conns : fdOf[c] # NoFd => fdOf'[c] # NoFd,
           UNCHANGED <<replyJobs, wpc, wjob, rpc, rjob>>,
           \/ UNCHANGED requestJobs
           \/ \E t \in Txn : /\ requestJobs' = Append(requestJobs, t)
                             /\ fdOf'[t.conn] # NoFd
    PROVE  TxnsAccepted'
<1>1. \A t : Accepted(t) => t \in Txn /\ fdOf'[t.conn] # NoFd
  BY DEF Accepted, Txn
<1>2. \A i \in DOMAIN requestJobs' :
        requestJobs'[i] \in Txn /\ fdOf'[requestJobs'[i].conn] # NoFd
  <2>1. CASE UNCHANGED requestJobs
    BY <1>1, <2>1 DEF TxnsAccepted
  <2>2. ASSUME NEW t \in Txn, requestJobs' = Append(requestJobs, t),
               fdOf'[t.conn] # NoFd
        PROVE  \A x \in ToSet(requestJobs') : x \in Txn /\ fdOf'[x.conn] # NoFd
    <3>1. requestJobs \in Seq(Txn)
      BY DEF QueueTypes
    <3>2. ToSet(requestJobs') = ToSet(requestJobs) \cup {t}
      BY <2>2, <3>1, AppendRange
    <3>3. \A x \in ToSet(requestJobs) : x \in Txn /\ fdOf'[x.conn] # NoFd
      BY <1>1 DEF TxnsAccepted, ToSet
    <3> QED
      BY <2>2, <3>2, <3>3
  <2> QED
    BY <2>1, <2>2 DEF ToSet
<1> QED
  BY <1>1, <1>2 DEF TxnsAccepted, Accepted

\* comm.c:250 puts a transaction into request_jobs.
LEMMA QueueRequestTypes ==
    ASSUME QueueTypes, NEW t \in Txn, QueueRequest(t),
           UNCHANGED <<replyJobs, freed, maxfds, sessions>>
    PROVE  QueueTypes' /\ requestJobs' = Append(requestJobs, t)
BY AppendProperties DEF QueueTypes, QueueRequest

\* accept_all_connections: a descriptor that no open connection has is new to the
\* sessions, and maxfds covers it.
LEMMA AcceptConnectionInv ==
    ASSUME ServerInv, NEW fd \in Fds, AcceptConnection(fd)
    PROVE  ServerInv'
<1> DEFINE c == Head(backlog)
           t == NotifyTxn(c)
<1> USE DEF AcceptConnection, ServerInv, TypeOK, registryVars, listenerVars,
            workerVars, replyVars
<1>1. /\ c \in Conns /\ c = backlog[1] /\ 1 \in DOMAIN backlog
      /\ Tail(backlog) \in Seq(Conns)
      /\ \A i \in DOMAIN Tail(backlog) :
            i + 1 \in DOMAIN backlog /\ Tail(backlog)[i] = backlog[i + 1]
      /\ Distinct(backlog) => Distinct(Tail(backlog))
      /\ DOMAIN backlog \subseteq Nat /\ DOMAIN Tail(backlog) \subseteq Nat \ {0}
  <2>1. backlog \in Seq(Conns) /\ backlog # <<>>
    BY DEF ClientTypes
  <2>2. DOMAIN backlog = 1..Len(backlog)
    BY <2>1, LenProperties
  <2> HIDE DEF c
  <2>3. DOMAIN Tail(backlog) = 1..Len(Tail(backlog))
    BY <2>1, TailProperties, LenProperties
  <2> QED
    BY <2>1, <2>2, <2>3, TailProperties DEF c
<1>2. phase[c] = "backlog" /\ fdOf[c] = NoFd
  BY <1>1 DEF AcceptedOnce
<1>3. /\ phase' = [phase EXCEPT ![c] = "open"]
      /\ fdOf' = [fdOf EXCEPT ![c] = fd]
      /\ requestJobs' = Append(requestJobs, t) /\ created' = created \cup {t}
      /\ backlog' = Tail(backlog) /\ sessions' = Append(sessions, fd)
      /\ t.conn = c
  BY DEF QueueRequest, NotifyTxn
<1>4. t \in Txn
  BY <1>1, RequestAssumption DEF NotifyTxn, Txn, JobKinds
<1> HIDE DEF c, t
<1>5. ClientTypes'
  BY <1>1, <1>3 DEF ClientTypes
<1>6. QueueTypes'
  BY <1>3, <1>4, AppendProperties DEF QueueTypes, RaisedMaxfds
<1>7. TypeOK'
  BY <1>5, <1>6 DEF RegistryTypes, ListenerTypes, WorkerTypes, ReplyTypes
<1>8. AcceptedOnce'
  <2>1. \A d \in Conns : phase'[d] \in {"open", "closed"} <=> fdOf'[d] # NoFd
    BY <1>1, <1>3, FdFacts DEF AcceptedOnce, ClientTypes
  <2>2. ASSUME NEW i \in DOMAIN backlog' PROVE phase'[backlog'[i]] = "backlog"
    <3>1. i + 1 \in DOMAIN backlog /\ backlog'[i] = backlog[i + 1] /\ i + 1 # 1
      BY <1>1, <1>3, <2>2
    <3>2. backlog[i + 1] # c
      BY <1>1, <3>1 DEF AcceptedOnce
    <3>3. phase[backlog[i + 1]] = "backlog" /\ backlog[i + 1] \in Conns
      BY <3>1, LenProperties, ElementOfSeq DEF AcceptedOnce, ClientTypes
    <3> QED
      BY <1>3, <3>1, <3>2, <3>3 DEF ClientTypes
  <2>3. Distinct(backlog')
    BY <1>1, <1>3 DEF AcceptedOnce, Distinct
  <2> QED
    BY <2>1, <2>2, <2>3 DEF AcceptedOnce, Distinct
<1>9. TxnsAccepted'
  <2>1. \A d \in Conns : fdOf[d] # NoFd => fdOf'[d] # NoFd
    BY <1>2, <1>3 DEF ClientTypes
  <2>2. fdOf'[t.conn] # NoFd
    BY <1>1, <1>3, FdFacts DEF ClientTypes
  <2> QED
    BY <1>3, <1>4, <2>1, <2>2, TxnsFrame
<1>10. PcConsistent'
  BY DEF PcConsistent
<1>11. /\ OpenConns' = OpenConns \cup {c} /\ c \notin OpenConns
       /\ fdOf'[c] = fd /\ \A d \in OpenConns : fdOf'[d] = fdOf[d]
  BY <1>1, <1>2, <1>3 DEF OpenConns, ClientTypes
<1>12. OpenFds' = OpenFds \cup {fd}
  BY <1>11 DEF OpenFds
<1>13. Alive /\ lpc = "select"
  BY DEF PcConsistent, Alive
<1>14. sessions \in Seq(Fds) /\ ToSet(sessions) = OpenFds /\ Distinct(sessions)
  BY <1>13 DEF SessionsConsistent, QueueTypes, Distinct
<1>15. ToSet(sessions') = ToSet(sessions) \cup {fd} /\ Distinct(sessions')
  BY <1>3, <1>14, AppendRange
<1>16. SessionsConsistent'
  <2>1. \A d, e \in OpenConns' : fdOf'[d] = fdOf'[e] => d = e
    BY <1>11, <1>13 DEF SessionsConsistent, OpenFds
  <2> QED
    BY <1>12, <1>13, <1>14, <1>15, <2>1 DEF SessionsConsistent, Distinct
<1>17. ScanSafe'
  <2>1. ready' = {} /\ lpc' = "select"
    BY <1>13 DEF PcConsistent
  <2>2. maxfds' >= fd /\ maxfds' >= maxfds /\ maxfds \in Int /\ maxfds' \in Int
    BY FdFacts DEF RaisedMaxfds, QueueTypes
  <2>3. \A x \in ToSet(sessions') : x \in Int /\ x <= maxfds'
    <3>1. \A x \in ToSet(sessions) : x \in Int /\ x <= maxfds
      BY <1>14, ElementOfSeq, LenProperties, FdFacts DEF ScanSafe, ToSet
    <3>2. \A x \in ToSet(sessions) : x \in Int /\ x <= maxfds'
      BY <2>2, <3>1
    <3> QED
      BY <1>15, <2>2, <3>2, FdFacts
  <2> QED
    BY <2>1, <2>3 DEF ScanSafe, ToSet
<1> QED
  BY <1>7, <1>8, <1>9, <1>10, <1>16, <1>17

\* The connection at the head of the backlog is not open.
LEMMA AcceptFailsInv ==
    ASSUME ServerInv, AcceptFails
    PROVE  ServerInv'
<1> DEFINE c == Head(backlog)
<1> USE DEF ServerInv, AcceptFails
<1>1. /\ backlog \in Seq(Conns) /\ backlog # <<>>
      /\ phase' = [phase EXCEPT ![c] = "dropped"] /\ backlog' = Tail(backlog)
  BY DEF TypeOK, ClientTypes
<1>2. /\ c \in Conns /\ c = backlog[1] /\ 1 \in DOMAIN backlog
      /\ Tail(backlog) \in Seq(Conns)
      /\ \A i \in DOMAIN Tail(backlog) :
            i + 1 \in DOMAIN backlog /\ Tail(backlog)[i] = backlog[i + 1]
      /\ Distinct(backlog) => Distinct(Tail(backlog))
  BY <1>1, TailProperties
<1>3. DOMAIN Tail(backlog) \subseteq Nat \ {0} /\ DOMAIN backlog = 1..Len(backlog)
  BY <1>1, <1>2, LenProperties
<1> HIDE DEF c
<1>4. phase[c] = "backlog" /\ fdOf[c] = NoFd
  BY <1>2 DEF AcceptedOnce
<1>5. ClientTypes'
  BY <1>1, <1>2 DEF TypeOK, ClientTypes
<1>6. AcceptedOnce'
  <2>1. \A d \in Conns : phase'[d] \in {"open", "closed"} <=> fdOf'[d] # NoFd
    BY <1>1, <1>4 DEF AcceptedOnce, TypeOK, ClientTypes
  <2>2. ASSUME NEW i \in DOMAIN backlog' PROVE phase'[backlog'[i]] = "backlog"
    <3>1. i + 1 \in DOMAIN backlog /\ backlog'[i] = backlog[i + 1] /\ i + 1 # 1
      BY <1>1, <1>2, <1>3, <2>2
    <3>2. backlog[i + 1] # c
      BY <1>2, <3>1 DEF AcceptedOnce
    <3>3. phase[backlog[i + 1]] = "backlog" /\ backlog[i + 1] \in Conns
      BY <1>1, <1>3, <3>1, ElementOfSeq DEF AcceptedOnce
    <3> QED
      BY <1>1, <3>1, <3>2, <3>3 DEF TypeOK, ClientTypes
  <2>3. Distinct(backlog')
    BY <1>1, <1>2 DEF AcceptedOnce, Distinct
  <2> QED
    BY <2>1, <2>2, <2>3 DEF AcceptedOnce, Distinct
<1>7. OpenConns' = OpenConns
  BY <1>1, <1>4 DEF OpenConns, TypeOK, ClientTypes
<1> QED
  BY <1>5, <1>6, <1>7, ClientFrame DEF StillReadable

\* select() hands the scan what is readable.
LEMMA WakeForClientsInv ==
    ASSUME ServerInv, WakeForClients
    PROVE  ServerInv'
<1> USE DEF ServerInv, WakeForClients, clientVars, registryVars, workerVars,
            replyVars, history
<1>1. ReadableFds \subseteq Fds
  BY DEF ReadableFds, OpenFds, OpenConns, TypeOK, ClientTypes, QueueTypes, ToSet
<1>2. TypeOK'
  BY <1>1 DEF TypeOK, ClientTypes, QueueTypes, RegistryTypes, ListenerTypes,
              WorkerTypes, ReplyTypes
<1>3. AcceptedOnce' /\ PcConsistent'
  BY DEF AcceptedOnce, PcConsistent
<1>4. TxnsAccepted'
  BY TxnsFrame DEF TypeOK
<1>5. OpenConns' = OpenConns
  BY DEF OpenConns
<1>6. SessionsConsistent'
  BY <1>5, SessionsFrame DEF Alive
<1>7. ReadableFds' = ReadableFds
  BY <1>5 DEF ReadableFds, OpenFds, Owner, ToSet
<1>8. ScanSafe'
  BY <1>7 DEF ScanSafe
<1> QED
  BY <1>2, <1>3, <1>4, <1>6, <1>8

\* The scan meets open connections only, and knows whose they are.
LEMMA ScannedOwner ==
    ASSUME ServerInv, NEW fd, NextToScan(fd)
    PROVE  /\ fd \in Fds /\ fd \in OpenFds /\ Owner(fd) \in OpenConns
           /\ fdOf[Owner(fd)] = fd /\ Owner(fd) \in Conns /\ Alive
           /\ \A c \in OpenConns : fdOf[c] = fd => c = Owner(fd)
<1> USE DEF ServerInv, NextToScan
<1>1. fd \in Fds /\ fd \in OpenFds
  BY DEF TypeOK, ListenerTypes, ScanSafe, ReadableFds
<1>2. Alive
  BY DEF Alive, PcConsistent
<1>3. Owner(fd) \in OpenConns /\ fdOf[Owner(fd)] = fd
  BY <1>1, OwnerOpen
<1> QED
  BY <1>1, <1>2, <1>3 DEF SessionsConsistent, OpenConns

\* What is left of the scan after fd, if only fd has nothing more to read.
LEMMA ScannedFrame ==
    ASSUME ServerInv, NEW fd, NextToScan(fd), Scanned(fd),
           OpenConns' = OpenConns, UNCHANGED <<fdOf, sessions, maxfds>>,
           \A c \in Conns \ {Owner(fd)} :
                inbox'[c] = inbox[c] /\ peer'[c] = peer[c]
    PROVE  ScanSafe'
<1> USE DEF ServerInv, NextToScan, Scanned
<1>1. OpenFds' = OpenFds /\ \A x \in OpenFds : Owner(x)' = Owner(x)
  BY DEF OpenFds, Owner
<1>2. \A x \in OpenFds : Owner(x) \in Conns /\ fdOf[Owner(x)] = x
  BY OwnerOpen DEF OpenConns
<1>3. ASSUME NEW x \in ready, x # fd PROVE x \in ReadableFds'
  <2>1. x \in ReadableFds /\ fd \in ReadableFds
    BY <1>3 DEF ScanSafe
  <2>2. x \in OpenFds /\ fd \in OpenFds
    BY <2>1 DEF ReadableFds
  <2>3. Owner(x) # Owner(fd)
    BY <1>2, <1>3, <2>2
  <2> QED
    BY <1>1, <1>2, <2>1, <2>2, <2>3 DEF ReadableFds, ToSet
<1> QED
  BY <1>3 DEF ScanSafe, AfterScan

\* recv() with data: only the connection read from may have nothing left.
LEMMA ReceiveRequestInv ==
    ASSUME ServerInv, NEW fd, NEW n \in 1..MaxRequests, ReceiveRequest(fd, n)
    PROVE  ServerInv'
<1> DEFINE c == Owner(fd)
           t == [conn |-> c, num |-> Head(inbox[c]).num, kind |-> Head(inbox[c]).kind]
<1> USE DEF ServerInv, ReceiveRequest, registryVars, workerVars, replyVars
<1>1. c \in Conns /\ c \in OpenConns /\ fdOf[c] = fd /\ fd \in Fds /\ Alive
  BY ScannedOwner
<1>2. inbox[c] \in Seq(Request) /\ n \in 1..Len(inbox[c])
  BY <1>1, LenProperties DEF TypeOK, ClientTypes
<1>3. Head(inbox[c]) \in Request
  BY <1>2
<1>4. t \in Txn /\ t.conn = c
  BY <1>1, <1>3, RequestAssumption DEF Txn, Request, JobKinds
<1>5. SubSeq(inbox[c], n + 1, Len(inbox[c])) \in Seq(Request)
  BY <1>2
<1>6. QueueRequest(t) /\ requestJobs' = Append(requestJobs, t)
  BY DEF QueueRequest
<1>7. /\ inbox' = [inbox EXCEPT ![c] = SubSeq(inbox[c], n + 1, Len(inbox[c]))]
      /\ NextToScan(fd) /\ Scanned(fd)
      /\ UNCHANGED <<phase, backlog, peer, sent, fdOf, delivered, sessions,
                     replyJobs, maxfds, registry, infos, lfd, linfo, wpc, wjob,
                     winfo, wreply, rpc, rjob, freed>>
  OBVIOUS
<1> HIDE DEF t, c, ReceiveRequest
<1>8. ready' \subseteq ready /\ lpc' \in {"select", "scan"} /\ lpc = "scan"
      /\ (lpc' = "select" => ready' = {})
  BY <1>7 DEF Scanned, NextToScan, AfterScan
<1>9. ClientTypes'
  BY <1>1, <1>5, <1>7 DEF TypeOK, ClientTypes
<1>10. QueueTypes'
  BY <1>4, <1>6, <1>7, QueueRequestTypes DEF TypeOK
<1>11. TypeOK'
  BY <1>7, <1>8, <1>9, <1>10 DEF TypeOK, RegistryTypes, ListenerTypes,
                                 WorkerTypes, ReplyTypes
<1>12. AcceptedOnce' /\ OpenConns' = OpenConns
  BY <1>7 DEF AcceptedOnce, OpenConns
<1>13. TxnsAccepted'
  <2>1. fdOf'[t.conn] # NoFd
    BY <1>1, <1>4, <1>7, FdFacts
  <2> QED
    BY <1>4, <1>6, <1>7, <2>1, TxnsFrame DEF TypeOK
<1>14. PcConsistent'
  BY <1>7, <1>8 DEF PcConsistent
<1>15. SessionsConsistent'
  BY <1>1, <1>7, <1>8, <1>12, SessionsFrame
<1>16. ScanSafe'
  BY <1>7, <1>12, ScannedFrame DEF TypeOK, ClientTypes, c
<1> QED
  BY <1>11, <1>12, <1>13, <1>14, <1>15, <1>16

\* recv() with an error: the session stays, and the connection readable.
LEMMA ReceiveErrorInv ==
    ASSUME ServerInv, NEW fd, ReceiveError(fd)
    PROVE  ServerInv'
<1> DEFINE c == Owner(fd)
           t == GarbageTxn(c)
<1> USE DEF ServerInv, ReceiveError, registryVars, workerVars, replyVars
<1>1. c \in Conns /\ c \in OpenConns /\ fdOf[c] = fd /\ fd \in Fds /\ Alive
  BY ScannedOwner
<1>2. t \in Txn /\ t.conn = c
  BY <1>1, RequestAssumption DEF Txn, GarbageTxn, JobKinds
<1>3. QueueRequest(t) /\ requestJobs' = Append(requestJobs, t)
  BY DEF QueueRequest
<1>4. /\ peer' = [peer EXCEPT ![c] = "dead"]
      /\ NextToScan(fd) /\ Scanned(fd)
      /\ UNCHANGED <<phase, backlog, inbox, sent, fdOf, delivered, sessions,
                     replyJobs, maxfds, registry, infos, lfd, linfo, wpc, wjob,
                     winfo, wreply, rpc, rjob, freed>>
  OBVIOUS
<1> HIDE DEF t, c, ReceiveError
<1>5. ready' \subseteq ready /\ lpc' \in {"select", "scan"} /\ lpc = "scan"
      /\ (lpc' = "select" => ready' = {})
  BY <1>4 DEF Scanned, NextToScan, AfterScan
<1>6. ClientTypes'
  BY <1>1, <1>4 DEF TypeOK, ClientTypes
<1>7. QueueTypes'
  BY <1>2, <1>3, <1>4, QueueRequestTypes DEF TypeOK
<1>8. TypeOK'
  BY <1>4, <1>5, <1>6, <1>7 DEF TypeOK, RegistryTypes, ListenerTypes,
                                WorkerTypes, ReplyTypes
<1>9. AcceptedOnce' /\ OpenConns' = OpenConns
  BY <1>4 DEF AcceptedOnce, OpenConns
<1>10. TxnsAccepted'
  <2>1. fdOf'[t.conn] # NoFd
    BY <1>1, <1>2, <1>4, FdFacts
  <2> QED
    BY <1>2, <1>3, <1>4, <2>1, TxnsFrame DEF TypeOK
<1>11. PcConsistent'
  BY <1>4, <1>5 DEF PcConsistent
<1>12. SessionsConsistent'
  BY <1>1, <1>4, <1>5, <1>9, SessionsFrame
<1>13. ScanSafe'
  BY <1>4, <1>9, ScannedFrame DEF TypeOK, ClientTypes, c
<1> QED
  BY <1>8, <1>9, <1>10, <1>11, <1>12, <1>13

\* close() before remove_elem: one session more than open connections.
LEMMA ReceiveEofInv ==
    ASSUME ServerInv, NEW fd, ReceiveEof(fd)
    PROVE  ServerInv'
<1> DEFINE c == Owner(fd)
<1> USE DEF ServerInv, ReceiveEof, registryVars, workerVars, replyVars, history
<1>1. /\ c \in Conns /\ c \in OpenConns /\ fdOf[c] = fd /\ fd \in Fds /\ Alive
      /\ fd \in OpenFds /\ \A d \in OpenConns : fdOf[d] = fd => d = c
  BY ScannedOwner
<1>2. /\ phase' = [phase EXCEPT ![c] = "closed"]
      /\ lfd' = fd /\ ready' = ready \ {fd} /\ lpc' = "remove" /\ lpc = "scan"
      /\ UNCHANGED <<backlog, peer, inbox, sent, fdOf, delivered, sessions,
                     requestJobs, replyJobs, maxfds, registry, infos, linfo, wpc,
                     wjob, winfo, wreply, rpc, rjob, created, freed>>
  BY DEF NextToScan
<1> HIDE DEF c, ReceiveEof
<1>3. TypeOK'
  BY <1>1, <1>2 DEF TypeOK, ClientTypes, QueueTypes, RegistryTypes, ListenerTypes,
                    WorkerTypes, ReplyTypes
<1>4. phase[c] = "open"
  BY <1>1 DEF OpenConns
<1>5. AcceptedOnce'
  <2>1. \A d \in Conns : phase'[d] \in {"open", "closed"} <=> fdOf'[d] # NoFd
    BY <1>1, <1>2, <1>4 DEF AcceptedOnce, TypeOK, ClientTypes
  <2>2. \A i \in DOMAIN backlog' : phase'[backlog'[i]] = "backlog"
    BY <1>2, <1>4, LenProperties, ElementOfSeq DEF AcceptedOnce, TypeOK, ClientTypes
  <2> QED
    BY <1>2, <2>1, <2>2 DEF AcceptedOnce
<1>6. TxnsAccepted'
  BY <1>2, TxnsFrame DEF TypeOK
<1>7. PcConsistent'
  BY <1>1, <1>2, FdFacts DEF PcConsistent
<1>8. OpenConns' = OpenConns \ {c}
  BY <1>1, <1>2 DEF OpenConns, TypeOK, ClientTypes
<1>9. OpenFds' = OpenFds \ {fd}
  BY <1>1, <1>2, <1>8 DEF OpenFds
<1>10. SessionsConsistent'
  BY <1>1, <1>2, <1>8, <1>9 DEF SessionsConsistent, ToSet
<1>11. ASSUME NEW x \in ready, x # fd PROVE x \in ReadableFds'
  <2>1. x \in ReadableFds /\ x \in OpenFds
    BY <1>11 DEF ScanSafe, ReadableFds
  <2>2. Owner(x) \in OpenConns /\ fdOf[Owner(x)] = x /\ Owner(x) # c
    BY <1>1, <1>11, <2>1, OwnerOpen
  <2>3. x \in OpenFds' /\ \A d, e \in OpenConns' : fdOf'[d] = fdOf'[e] => d = e
    BY <1>1, <1>2, <1>8, <1>9, <1>11, <2>1 DEF SessionsConsistent
  <2>4. Owner(x)' = Owner(x)
    BY <1>2, <1>8, <2>2, <2>3 DEF Owner
  <2> QED
    BY <1>2, <2>1, <2>3, <2>4 DEF ReadableFds, ToSet
<1>12. ScanSafe'
  BY <1>2, <1>11 DEF ScanSafe
<1> QED
  BY <1>3, <1>5, <1>6, <1>7, <1>10, <1>12

\* remove_elem takes out the one session whose descriptor was closed.
LEMMA RemoveSessionInv ==
    ASSUME ServerInv, RemoveSession
    PROVE  ServerInv'
<1> USE DEF ServerInv
<1>1. /\ lpc = "remove" /\ lpc' = "lookup"
      /\ UNCHANGED <<phase, backlog, peer, inbox, sent, fdOf, delivered,
                     requestJobs, replyJobs, maxfds, registry, infos, ready, lfd,
                     linfo, wpc, wjob, winfo, wreply, rpc, rjob, created, freed>>
  BY DEF RemoveSession, clientVars, registryVars, workerVars, replyVars, history
<1>2. PICK i \in DOMAIN sessions :
            sessions[i] = lfd /\ sessions' = RemoveAt(sessions, i)
  BY DEF RemoveSession
<1>3. Alive /\ Distinct(sessions) /\ sessions \in Seq(Fds) /\ i \in 1..Len(sessions)
  BY <1>1, <1>2, LenProperties
     DEF Alive, PcConsistent, SessionsConsistent, Distinct, TypeOK, QueueTypes
<1>4. /\ sessions' \in Seq(Fds) /\ Distinct(sessions')
      /\ ToSet(sessions') = ToSet(sessions) \ {lfd}
  BY <1>2, <1>3, RemoveAtProperties, RemoveAtDistinct
<1>5. TypeOK'
  BY <1>1, <1>4 DEF TypeOK, ClientTypes, QueueTypes, RegistryTypes, ListenerTypes,
                    WorkerTypes, ReplyTypes
<1>6. AcceptedOnce' /\ PcConsistent' /\ OpenConns' = OpenConns
  BY <1>1 DEF AcceptedOnce, PcConsistent, OpenConns
<1>7. TxnsAccepted'
  BY <1>1, TxnsFrame DEF TypeOK
<1>8. OpenFds' = OpenFds /\ \A x \in OpenFds : Owner(x)' = Owner(x)
  BY <1>1, <1>6 DEF OpenFds, Owner
<1>9. /\ ToSet(sessions) = OpenFds \cup {lfd} /\ lfd \notin OpenFds
      /\ \A c, d \in OpenConns : fdOf[c] = fdOf[d] => c = d
  BY <1>1, <1>3 DEF SessionsConsistent
<1>10. SessionsConsistent'
  BY <1>1, <1>4, <1>6, <1>8, <1>9 DEF SessionsConsistent, Distinct
<1>11. ReadableFds' = ReadableFds
  <2>1. ToSet(sessions') \cap OpenFds' = ToSet(sessions) \cap OpenFds
    BY <1>4, <1>8, <1>9
  <2>2. \A x \in ToSet(sessions) \cap OpenFds : Owner(x)' = Owner(x)
    BY <1>8
  <2> QED
    BY <1>1, <2>1, <2>2 DEF ReadableFds
<1>12. ScanSafe'
  <2>1. \A x \in ToSet(sessions') : x <= maxfds
    BY <1>4 DEF ScanSafe, ToSet
  <2> QED
    BY <1>1, <1>11, <2>1 DEF ScanSafe, ToSet
<1> QED
  BY <1>5, <1>6, <1>7, <1>10, <1>12

\* A new info has an address of its own.
LEMMA CreateInfoTypes ==
    ASSUME RegistryTypes, NEW fd \in Fds, CreateInfo(fd)
    PROVE  /\ RegistryTypes'
           /\ DOMAIN infos \subseteq DOMAIN infos'
           /\ Len(infos) + 1 \in DOMAIN infos' /\ Len(infos) + 1 # NULL
<1>1. infos \in Seq(Info) /\ registry \in Seq(DOMAIN infos)
  BY DEF RegistryTypes
<1>2. NewInfo(fd) \in Info
  BY DEF NewInfo, Info
<1>3. infos' \in Seq(Info) /\ Len(infos') = Len(infos) + 1 /\ Len(infos) \in Nat
  BY <1>1, <1>2, AppendProperties, LenProperties DEF CreateInfo
<1>4. DOMAIN infos = 1..Len(infos) /\ DOMAIN infos' = 1..(Len(infos) + 1)
  BY <1>1, <1>3, LenProperties
<1>5. DOMAIN infos \subseteq DOMAIN infos' /\ Len(infos) + 1 \in DOMAIN infos'
  BY <1>3, <1>4
<1>6. registry \in Seq(DOMAIN infos')
  BY <1>1, <1>5, SeqMonotonic
<1>7. registry' \in Seq(DOMAIN infos')
  BY <1>5, <1>6, AppendProperties DEF CreateInfo
<1> QED
  BY <1>3, <1>5, <1>7 DEF RegistryTypes, NULL

\* Writing to an info changes no address.
LEMMA UpdateInfoTypes ==
    ASSUME RegistryTypes, NEW a \in DOMAIN infos, NEW x \in Info,
           infos' = [infos EXCEPT ![a] = x]
    PROVE  infos' \in Seq(Info) /\ DOMAIN infos' = DOMAIN infos
<1>1. infos \in Seq(Info) /\ a \in 1..Len(infos)
  BY LenProperties DEF RegistryTypes
<1> QED
  BY <1>1, ExceptSeq

\* An address in use holds an ndmp_session_info.
LEMMA InfoRecord ==
    ASSUME RegistryTypes, NEW a \in DOMAIN infos
    PROVE  infos[a] \in Info
BY LenProperties, ElementOfSeq DEF RegistryTypes

\* terminate_session leaves the sessions alone, and the scan goes on after it.
LEMMA TerminateInv ==
    ASSUME ServerInv, TerminateLookup \/ TerminateCreate \/ MarkTerminated
    PROVE  ServerInv'
<1> USE DEF ServerInv, clientVars, registryVars, workerVars, replyVars, history
<1>1. /\ UNCHANGED <<clientVars, sessions, requestJobs, replyJobs, maxfds, ready,
                     wpc, wjob, winfo, wreply, rpc, rjob, created, freed>>
      /\ lpc \in {"lookup", "create", "mark"}
      /\ \/ lpc' \in {"create", "mark"} /\ lfd' = lfd
         \/ lpc' = AfterScan(ready) /\ lfd' = NoFd
  <2>1. CASE TerminateLookup
    BY <2>1 DEF TerminateLookup
  <2>2. CASE TerminateCreate
    BY <2>2 DEF TerminateCreate
  <2>3. CASE MarkTerminated
    BY <2>3 DEF MarkTerminated
  <2> QED
    BY <2>1, <2>2, <2>3
<1>2. /\ lpc' \in {"create", "mark", "select", "scan"}
      /\ lpc' = "scan" => ready' # {}
      /\ lpc' = "select" => ready' = {}
      /\ lpc' \in {"create", "mark"} => lfd' = lfd
  BY <1>1 DEF AfterScan
<1>3. lfd \in Fds
  BY <1>1 DEF PcConsistent, TypeOK, ListenerTypes
<1>4. /\ RegistryTypes' /\ DOMAIN infos \subseteq DOMAIN infos'
      /\ linfo' \in DOMAIN infos' \cup {NULL}
      /\ lpc' = "mark" => linfo' # NULL
  <2>1. CASE TerminateLookup
    BY <2>1 DEF TerminateLookup, TypeOK, RegistryTypes
  <2>2. CASE TerminateCreate
    BY <1>3, <2>2, CreateInfoTypes DEF TerminateCreate, TypeOK
  <2>3. CASE MarkTerminated
    <3>1. linfo \in DOMAIN infos
      BY <2>3 DEF MarkTerminated, PcConsistent, TypeOK, ListenerTypes
    <3>2. [infos[linfo] EXCEPT !.terminated = TRUE] \in Info
      BY <3>1, InfoRecord DEF Info, TypeOK
    <3>3. infos' = [infos EXCEPT ![linfo] = [infos[linfo] EXCEPT !.terminated = TRUE]]
      BY <2>3 DEF MarkTerminated
    <3>4. infos' \in Seq(Info) /\ DOMAIN infos' = DOMAIN infos
      BY <3>1, <3>2, <3>3, UpdateInfoTypes DEF TypeOK
    <3> QED
      BY <1>2, <2>3, <3>4 DEF MarkTerminated, RegistryTypes, TypeOK, AfterScan
  <2> QED
    BY <2>1, <2>2, <2>3
<1>5. TypeOK'
  <2>1. ClientTypes' /\ QueueTypes' /\ ReplyTypes'
    BY <1>1 DEF TypeOK, ClientTypes, QueueTypes, ReplyTypes
  <2>2. ListenerTypes'
    BY <1>1, <1>2, <1>4 DEF TypeOK, ListenerTypes
  <2>3. WorkerTypes'
    BY <1>1, <1>4 DEF TypeOK, WorkerTypes
  <2> QED
    BY <1>4, <2>1, <2>2, <2>3 DEF TypeOK
<1>6. TxnsAccepted'
  BY <1>1, TxnsFrame DEF TypeOK
<1>7. PcConsistent'
  BY <1>1, <1>2, <1>3, <1>4, FdFacts DEF PcConsistent
<1>8. AcceptedOnce' /\ OpenConns' = OpenConns
  BY <1>1 DEF AcceptedOnce, OpenConns
<1>9. SessionsConsistent'
  BY <1>1, <1>2, <1>8, SessionsFrame DEF Alive
<1>10. ScanSafe'
  BY <1>1, <1>2, <1>8, ScanFrame DEF StillReadable
<1> QED
  BY <1>5, <1>6, <1>7, <1>8, <1>9, <1>10

\* Every step of the listener preserves the invariant.
LEMMA ListenerInv ==
    ASSUME ServerInv, Listener
    PROVE  ServerInv'
BY AcceptConnectionInv, AcceptFailsInv, WakeForClientsInv, ReceiveRequestInv,
   ReceiveErrorInv, ReceiveEofInv, RemoveSessionInv, TerminateInv DEF Listener
-----------------------------------------------------------------------------
(* The workers.                                                            *)

\* What a worker's step leaves alone, and what its own part has to show.
LEMMA WorkerFrame ==
    ASSUME ServerInv, NEW w \in Workers, wpc[w] # "dead",
           UNCHANGED <<clientVars, sessions, maxfds, listenerVars, replyVars>>,
           QueueTypes', RegistryTypes', WorkerTypes', TxnsAccepted',
           DOMAIN infos \subseteq DOMAIN infos',
           \A v \in Workers \ {w} : wpc'[v] = wpc[v] /\ winfo'[v] = winfo[v],
           wpc'[w] \in UsesInfo => winfo'[w] # NULL
    PROVE  ServerInv'
<1> USE DEF ServerInv, clientVars, listenerVars, replyVars
<1>1. TypeOK'
  BY DEF TypeOK, ClientTypes, ListenerTypes, ReplyTypes
<1>2. rpc # "dead"
  BY DEF PcConsistent
<1>3. PcConsistent'
  BY <1>2 DEF PcConsistent
<1>4. AcceptedOnce' /\ OpenConns' = OpenConns
  BY DEF AcceptedOnce, OpenConns
<1>5. SessionsConsistent'
  BY <1>4, SessionsFrame DEF Alive
<1>6. ScanSafe'
  BY <1>4, ScanFrame DEF StillReadable, ScanSafe
<1> QED
  BY <1>1, <1>3, <1>4, <1>5, <1>6

Labels == {"dequeue", "add_lookup", "add_create", "add_job", "run_lookup", "run_create",
           "handle", "end_lookup", "end_create", "remove_job", "test", "remove_info", "free", "reply", "dead"}

\* A worker that goes on with the same transaction.
LEMMA WorkerGoes ==
    ASSUME TypeOK, TxnsAccepted, NEW w \in Workers, wpc[w] \notin {"dequeue", "dead"},
           NEW label \in Labels, Goto(w, label),
           UNCHANGED <<fdOf, requestJobs, replyJobs, wjob, rpc, rjob>>
    PROVE  /\ TxnsAccepted'
           /\ wpc' \in [Workers -> Labels] /\ wpc'[w] = label
           /\ \A v \in Workers \ {w} : wpc'[v] = wpc[v]
           /\ wjob[w] \in Txn /\ SessionId(wjob[w]) \in Fds
<1>1. /\ wpc' \in [Workers -> Labels] /\ wpc'[w] = label
      /\ \A v \in Workers \ {w} : wpc'[v] = wpc[v]
  BY DEF TypeOK, WorkerTypes, Goto, Labels
<1>2. Accepted(wjob[w])
  BY DEF TxnsAccepted
<1>3. TxnsAccepted'
  BY <1>1, <1>2 DEF TxnsAccepted, Accepted
<1>4. wjob[w] \in Txn /\ SessionId(wjob[w]) \in Fds
  BY <1>2 DEF Accepted, SessionId, Txn, TypeOK, ClientTypes
<1> QED
  BY <1>1, <1>3, <1>4

\* run_job: the worker takes the oldest request, which was accepted.
LEMMA DequeueRequestInv ==
    ASSUME ServerInv, NEW w \in Workers, DequeueRequest(w)
    PROVE  ServerInv'
<1> USE DEF ServerInv, DequeueRequest, registryVars, replyVars, history
<1>1. requestJobs \in Seq(Txn) /\ requestJobs # <<>>
  BY DEF TypeOK, QueueTypes
<1>2. /\ Head(requestJobs) \in Txn /\ Head(requestJobs) = requestJobs[1]
      /\ 1 \in DOMAIN requestJobs /\ Tail(requestJobs) \in Seq(Txn)
      /\ \A i \in DOMAIN Tail(requestJobs) :
            i + 1 \in DOMAIN requestJobs /\ Tail(requestJobs)[i] = requestJobs[i + 1]
  BY <1>1, TailProperties
<1>3. QueueTypes' /\ RegistryTypes'
  BY <1>2 DEF TypeOK, QueueTypes, RegistryTypes, clientVars
<1>4. /\ wpc'[w] = "add_lookup" /\ WorkerTypes' /\ wpc[w] = "dequeue"
      /\ wjob' = [wjob EXCEPT ![w] = requestJobs[1]]
      /\ \A v \in Workers \ {w} : wpc'[v] = wpc[v]
  BY <1>2 DEF TypeOK, WorkerTypes, Goto
<1>5. TxnsAccepted'
  <2>1. UNCHANGED <<fdOf, replyJobs, rpc, rjob>>
    BY DEF clientVars
  <2>2. \A i \in DOMAIN requestJobs' : Accepted(requestJobs'[i])
    BY <1>2 DEF TxnsAccepted
  <2>3. \A v \in Workers : wpc'[v] \notin {"dequeue", "dead"} => Accepted(wjob'[v])
    BY <1>2, <1>4 DEF TxnsAccepted, TypeOK, WorkerTypes
  <2> QED
    BY <2>1, <2>2, <2>3 DEF TxnsAccepted, Accepted
<1> QED
  BY <1>3, <1>4, <1>5, WorkerFrame DEF UsesInfo

\* get_session_info finds an info or sends the worker to create one.
LEMMA WorkerLookupInv ==
    ASSUME ServerInv, NEW w \in Workers,
           NEW at \in {"add_lookup", "run_lookup", "end_lookup"},
           NEW missing \in {"add_create", "run_create", "end_create"},
           NEW found \in {"add_job", "handle", "remove_job"},
           WorkerLookup(w, at, missing, found)
    PROVE  ServerInv'
<1> USE DEF ServerInv, WorkerLookup, clientVars, registryVars, replyVars, history
<1>1. PICK info \in DOMAIN infos \cup {NULL} :
        /\ winfo' = [winfo EXCEPT ![w] = info]
        /\ Goto(w, IF info = NULL THEN missing ELSE found)
  OBVIOUS
<1> DEFINE label == IF info = NULL THEN missing ELSE found
<1>2. label \in Labels /\ wpc[w] = at
  BY DEF Labels
<1>3. QueueTypes' /\ RegistryTypes'
  BY DEF TypeOK, QueueTypes, RegistryTypes
<1>4. /\ TxnsAccepted' /\ wpc' \in [Workers -> Labels] /\ wpc'[w] = label
      /\ \A v \in Workers \ {w} : wpc'[v] = wpc[v]
  BY <1>1, <1>2, WorkerGoes
<1>5. WorkerTypes' /\ winfo'[w] = info
  BY <1>1, <1>4 DEF TypeOK, WorkerTypes, Labels
<1>6. \A v \in Workers \ {w} : winfo'[v] = winfo[v]
  BY <1>1 DEF TypeOK, WorkerTypes
<1> QED
  BY <1>2, <1>3, <1>4, <1>5, <1>6, WorkerFrame DEF UsesInfo

\* get_session_info hands the worker the info it has enqueued.
LEMMA WorkerCreateInv ==
    ASSUME ServerInv, NEW w \in Workers,
           NEW at \in {"add_create", "run_create", "end_create"},
           NEW found \in {"add_job", "handle", "remove_job"},
           WorkerCreate(w, at, found)
    PROVE  ServerInv'
<1> USE DEF ServerInv, WorkerCreate, clientVars, replyVars, history
<1>1. found \in Labels /\ wpc[w] = at
  BY DEF Labels
<1>2. /\ TxnsAccepted' /\ wpc' \in [Workers -> Labels] /\ wpc'[w] = found
      /\ \A v \in Workers \ {w} : wpc'[v] = wpc[v]
      /\ SessionId(wjob[w]) \in Fds
  BY <1>1, WorkerGoes
<1>3. QueueTypes'
  BY DEF TypeOK, QueueTypes
<1>4. /\ RegistryTypes' /\ DOMAIN infos \subseteq DOMAIN infos'
      /\ Len(infos) + 1 \in DOMAIN infos' /\ Len(infos) + 1 # NULL
  BY <1>2, CreateInfoTypes DEF TypeOK
<1>5. WorkerTypes' /\ winfo'[w] = Len(infos) + 1
  BY <1>2, <1>4 DEF TypeOK, WorkerTypes, Labels
<1>6. \A v \in Workers \ {w} : winfo'[v] = winfo[v]
  BY DEF TypeOK, WorkerTypes
<1> QED
  BY <1>1, <1>2, <1>3, <1>4, <1>5, <1>6, WorkerFrame

\* A worker that writes to the info it has looked up.
LEMMA WorkerInfo ==
    ASSUME ServerInv, NEW w \in Workers,
           wpc[w] \in UsesInfo
    PROVE  winfo[w] \in DOMAIN infos /\ infos[winfo[w]] \in Info
BY InfoRecord DEF ServerInv, TypeOK, WorkerTypes, PcConsistent

\* add_job_to_session and cleanup_session write to an info that is there.
LEMMA JobListInv ==
    ASSUME ServerInv, NEW w \in Workers, AddJob(w) \/ RemoveJob(w)
    PROVE  ServerInv'
<1> USE DEF ServerInv, clientVars, replyVars, history
<1>1. PICK label \in {"handle", "run_lookup", "test"} :
        /\ wpc[w] \in {"add_job", "remove_job"} /\ Goto(w, label)
        /\ UNCHANGED <<clientVars, sessions, requestJobs, replyJobs, maxfds, registry,
                       listenerVars, wjob, winfo, wreply, replyVars, history>>
  <2>1. CASE AddJob(w)
    <3>1. wjob[w].kind \in JobKinds
      BY <2>1 DEF AddJob, TxnsAccepted, Accepted, Txn
    <3>2. HandlerStart(wjob[w].kind) \subseteq {"handle", "run_lookup"}
      BY <3>1 DEF HandlerStart, JobKinds, Kinds
    <3> QED
      BY <2>1, <3>2 DEF AddJob
  <2>2. CASE RemoveJob(w)
    BY <2>2 DEF RemoveJob
  <2> QED
    BY <2>1, <2>2
<1>2. winfo[w] \in DOMAIN infos /\ infos[winfo[w]] \in Info /\ winfo[w] # NULL
  BY <1>1, WorkerInfo DEF PcConsistent, UsesInfo
<1>3. /\ TxnsAccepted' /\ wpc' \in [Workers -> Labels]
      /\ \A v \in Workers \ {w} : wpc'[v] = wpc[v]
      /\ wjob[w] \in Txn
  BY <1>1, WorkerGoes DEF Labels
<1>4. PICK x \in Info : infos' = [infos EXCEPT ![winfo[w]] = x]
  <2>1. CASE AddJob(w)
    <3> DEFINE x == [infos[winfo[w]] EXCEPT !.jobs = @ \cup {wjob[w]}]
    <3>1. infos' = [infos EXCEPT ![winfo[w]] = x]
      BY <2>1 DEF AddJob
    <3>2. x \in Info
      BY <1>2, <1>3 DEF Info
    <3> QED
      BY <3>1, <3>2
  <2>2. CASE RemoveJob(w)
    <3> DEFINE x == [infos[winfo[w]] EXCEPT !.jobs = @ \ {wjob[w]}]
    <3>1. infos' = [infos EXCEPT ![winfo[w]] = x]
      BY <2>2 DEF RemoveJob
    <3>2. x \in Info
      BY <1>2 DEF Info
    <3> QED
      BY <3>1, <3>2
  <2> QED
    BY <2>1, <2>2
<1>5. infos' \in Seq(Info) /\ DOMAIN infos' = DOMAIN infos
  BY <1>2, <1>4, UpdateInfoTypes DEF TypeOK
<1>6. QueueTypes' /\ RegistryTypes' /\ WorkerTypes'
  BY <1>1, <1>3, <1>5 DEF TypeOK, QueueTypes, RegistryTypes, WorkerTypes, Labels
<1> QED
  BY <1>1, <1>2, <1>3, <1>5, <1>6, WorkerFrame DEF UsesInfo

\* The handler and the test of is_terminated move one worker only.
LEMMA RunHandlerInv ==
    ASSUME ServerInv, NEW w \in Workers, RunHandler(w) \/ TestTerminated(w)
    PROVE  ServerInv'
<1> USE DEF ServerInv, clientVars, registryVars, replyVars, history
<1>1. PICK label \in {"end_lookup", "remove_info", "free", "reply"} :
        /\ wpc[w] \in {"handle", "test"} /\ Goto(w, label)
        /\ label = "remove_info" => wpc[w] = "test"
        /\ UNCHANGED <<clientVars, sessions, requestJobs, replyJobs, maxfds, registry,
                       infos, listenerVars, wjob, winfo, replyVars, history>>
  <2>1. CASE RunHandler(w)
    BY <2>1 DEF RunHandler
  <2>2. CASE TestTerminated(w)
    BY <2>2 DEF TestTerminated
  <2> QED
    BY <2>1, <2>2
<1>2. wreply' \in [Workers -> BOOLEAN]
  <2>1. CASE RunHandler(w)
    <3>1. wjob[w].kind \in JobKinds
      BY <2>1 DEF RunHandler, TxnsAccepted, Accepted, Txn
    <3>2. Replies(wjob[w].kind) \subseteq BOOLEAN
      BY <3>1 DEF Replies, JobKinds, Kinds
    <3> QED
      BY <2>1, <3>2 DEF RunHandler, TypeOK, WorkerTypes
  <2>2. CASE TestTerminated(w)
    BY <2>2 DEF TestTerminated, TypeOK, WorkerTypes
  <2> QED
    BY <2>1, <2>2
<1>3. /\ TxnsAccepted' /\ wpc' \in [Workers -> Labels] /\ wpc'[w] = label
      /\ \A v \in Workers \ {w} : wpc'[v] = wpc[v]
  BY <1>1, WorkerGoes DEF Labels
<1>4. QueueTypes' /\ RegistryTypes' /\ WorkerTypes'
  BY <1>1, <1>2, <1>3 DEF TypeOK, QueueTypes, RegistryTypes, WorkerTypes, Labels
<1>5. wpc'[w] \in UsesInfo => winfo'[w] # NULL
  BY <1>1, <1>3 DEF PcConsistent, UsesInfo
<1> QED
  BY <1>1, <1>3, <1>4, <1>5, WorkerFrame

\* cleanup_session takes one address out of the registry, or none.
LEMMA RemoveInfoInv ==
    ASSUME ServerInv, NEW w \in Workers, RemoveInfo(w)
    PROVE  ServerInv'
<1> USE DEF ServerInv, clientVars, replyVars, history
<1>1. /\ wpc[w] = "remove_info" /\ Goto(w, "free")
      /\ infos' = [infos EXCEPT ![winfo[w]].released = TRUE]
      /\ \/ \E i \in DOMAIN registry : registry' = RemoveAt(registry, i)
         \/ registry' = registry
      /\ UNCHANGED <<clientVars, sessions, requestJobs, replyJobs, maxfds,
                     listenerVars, wjob, winfo, wreply, replyVars, history>>
  BY DEF RemoveInfo
<1>2. winfo[w] \in DOMAIN infos /\ infos[winfo[w]] \in Info
  BY <1>1, WorkerInfo DEF UsesInfo
<1>3. /\ TxnsAccepted' /\ wpc' \in [Workers -> Labels] /\ wpc'[w] = "free"
      /\ \A v \in Workers \ {w} : wpc'[v] = wpc[v]
  BY <1>1, WorkerGoes DEF Labels
<1>4. infos' \in Seq(Info) /\ DOMAIN infos' = DOMAIN infos
  <2> DEFINE x == [infos[winfo[w]] EXCEPT !.released = TRUE]
  <2>1. x \in Info /\ infos' = [infos EXCEPT ![winfo[w]] = x]
    BY <1>1, <1>2 DEF Info
  <2> QED
    BY <1>2, <2>1, UpdateInfoTypes DEF TypeOK
<1>5. registry' \in Seq(DOMAIN infos)
  <2>1. registry \in Seq(DOMAIN infos) /\ DOMAIN registry = 1..Len(registry)
    BY LenProperties DEF TypeOK, RegistryTypes
  <2> QED
    BY <1>1, <2>1, RemoveAtProperties
<1>6. QueueTypes' /\ RegistryTypes' /\ WorkerTypes'
  BY <1>1, <1>3, <1>4, <1>5
     DEF TypeOK, QueueTypes, RegistryTypes, WorkerTypes, Labels
<1> QED
  BY <1>1, <1>3, <1>4, <1>6, WorkerFrame DEF UsesInfo

\* A worker lets go of its transaction: freed, or handed to the reply thread.
LEMMA NextRequestInv ==
    ASSUME ServerInv, NEW w \in Workers, FreeRequest(w) \/ EnqueueReply(w)
    PROVE  ServerInv'
<1> USE DEF ServerInv, clientVars, registryVars, replyVars, history
<1>1. /\ wpc[w] \in {"free", "reply"} /\ NextRequest(w)
      /\ replyJobs' \in {replyJobs, Append(replyJobs, wjob[w])}
      /\ freed' \in {freed, freed \cup {wjob[w]}}
      /\ UNCHANGED <<clientVars, sessions, requestJobs, maxfds, registryVars,
                     listenerVars, replyVars, created>>
  BY DEF FreeRequest, EnqueueReply
<1>2. Accepted(wjob[w]) /\ wjob[w] \in Txn
  BY <1>1 DEF TxnsAccepted, Accepted
<1>3. replyJobs \in Seq(Txn)
  BY DEF TypeOK, QueueTypes
<1>4. Append(replyJobs, wjob[w]) \in Seq(Txn)
  BY <1>2, <1>3, AppendProperties
<1>5. QueueTypes' /\ RegistryTypes'
  BY <1>1, <1>2, <1>3, <1>4 DEF TypeOK, QueueTypes, RegistryTypes
<1>6. /\ WorkerTypes' /\ wpc'[w] = "dequeue"
      /\ \A v \in Workers \ {w} :
            wpc'[v] = wpc[v] /\ winfo'[v] = winfo[v] /\ wjob'[v] = wjob[v]
  BY <1>1 DEF NextRequest, Goto, TypeOK, WorkerTypes
<1>7. TxnsAccepted'
  <2>1. \A x \in ToSet(replyJobs) : Accepted(x)
    BY DEF TxnsAccepted, ToSet
  <2>2. ToSet(replyJobs') \subseteq ToSet(replyJobs) \cup {wjob[w]}
    <3>1. ToSet(Append(replyJobs, wjob[w])) = ToSet(replyJobs) \cup {wjob[w]}
      BY <1>2, <1>3, AppendRange
    <3>2. replyJobs' = replyJobs \/ replyJobs' = Append(replyJobs, wjob[w])
      BY <1>1
    <3> QED
      BY <3>1, <3>2 DEF ToSet
  <2>3. \A i \in DOMAIN replyJobs' : Accepted(replyJobs'[i])
    BY <1>2, <2>1, <2>2 DEF ToSet
  <2>4. \A v \in Workers : wpc'[v] \notin {"dequeue", "dead"} => Accepted(wjob'[v])
    BY <1>6 DEF TxnsAccepted
  <2> QED
    BY <1>1, <2>3, <2>4 DEF TxnsAccepted, Accepted
<1> QED
  BY <1>1, <1>5, <1>6, <1>7, WorkerFrame DEF UsesInfo

\* Every step of a worker preserves the invariant.
LEMMA WorkerInv ==
    ASSUME ServerInv, NEW w \in Workers, Worker(w)
    PROVE  ServerInv'
BY DequeueRequestInv, WorkerLookupInv, WorkerCreateInv, JobListInv, RunHandlerInv,
   RemoveInfoInv, NextRequestInv DEF Worker
-----------------------------------------------------------------------------
(* The reply thread.                                                       *)

\* A step of the reply thread that keeps its transaction, or lets go of it; what
\* it sends, and the error it takes from a connection, change no other thread.
LEMMA ResponderFrame ==
    ASSUME ServerInv, rpc # "dead", rpc' # "dead", ReplyTypes',
           UNCHANGED <<phase, backlog, inbox, sent, fdOf, sessions, requestJobs,
                       maxfds, registryVars, listenerVars, workerVars, created>>,
           peer' \in [Conns -> {"up", "fin", "rst", "dead"}], StillReadable,
           delivered' \in [Conns -> Seq(Txn)],
           replyJobs' \in Seq(Txn), freed' \subseteq Txn,
           \A i \in DOMAIN replyJobs' : Accepted(replyJobs'[i]),
           rpc' # "dequeue" => Accepted(rjob')
    PROVE  ServerInv'
<1> USE DEF ServerInv, registryVars, listenerVars, workerVars
<1>1. TypeOK'
  BY DEF TypeOK, ClientTypes, QueueTypes, RegistryTypes, ListenerTypes, WorkerTypes
<1>2. TxnsAccepted'
  BY DEF TxnsAccepted, Accepted
<1>3. PcConsistent'
  BY DEF PcConsistent
<1>4. AcceptedOnce' /\ OpenConns' = OpenConns
  BY DEF AcceptedOnce, OpenConns
<1>5. SessionsConsistent'
  BY <1>4, SessionsFrame DEF Alive
<1>6. ScanSafe'
  BY <1>4, ScanFrame DEF ScanSafe
<1> QED
  BY <1>1, <1>2, <1>3, <1>4, <1>5, <1>6

\* process_response takes the oldest reply, which was accepted.
LEMMA DequeueReplyInv ==
    ASSUME ServerInv, DequeueReply
    PROVE  ServerInv'
<1> USE DEF ServerInv, DequeueReply, clientVars, history
<1>1. replyJobs \in Seq(Txn) /\ replyJobs # <<>>
  BY DEF TypeOK, QueueTypes
<1>2. /\ Head(replyJobs) \in Txn /\ Head(replyJobs) = replyJobs[1]
      /\ 1 \in DOMAIN replyJobs /\ Tail(replyJobs) \in Seq(Txn)
      /\ \A i \in DOMAIN Tail(replyJobs) :
            i + 1 \in DOMAIN replyJobs /\ Tail(replyJobs)[i] = replyJobs[i + 1]
  BY <1>1, TailProperties
<1>3. Accepted(rjob') /\ \A i \in DOMAIN replyJobs' : Accepted(replyJobs'[i])
  BY <1>2 DEF TxnsAccepted
<1>4. ReplyTypes' /\ StillReadable /\ replyJobs' \in Seq(Txn)
  BY <1>2 DEF ReplyTypes, StillReadable
<1> QED
  BY <1>3, <1>4, ResponderFrame DEF TypeOK, ClientTypes, QueueTypes

\* The session is looked up, or the reply has nowhere to go.
LEMMA CheckSessionInv ==
    ASSUME ServerInv, CheckSession \/ SendNowhere
    PROVE  ServerInv'
<1> USE DEF ServerInv, CheckSession, SendNowhere, clientVars, history
<1>1. /\ rpc \in {"check", "send"} /\ rpc' \in {"send", "free"}
      /\ UNCHANGED <<clientVars, sessions, requestJobs, replyJobs, maxfds,
                     registryVars, listenerVars, workerVars, rjob, history>>
  OBVIOUS
<1>2. Accepted(rjob) /\ \A i \in DOMAIN replyJobs : Accepted(replyJobs[i])
  BY <1>1 DEF TxnsAccepted
<1>3. ReplyTypes' /\ StillReadable
  BY <1>1 DEF TypeOK, ReplyTypes, StillReadable
<1> QED
  BY <1>1, <1>2, <1>3, ResponderFrame DEF TypeOK, ClientTypes, QueueTypes

\* A reply is received, or the error of its connection is.
LEMMA SendReplyInv ==
    ASSUME ServerInv, SendReply \/ SendReset
    PROVE  ServerInv'
<1> DEFINE c == Owner(SessionId(rjob))
<1> USE DEF ServerInv
<1>1. /\ rpc = "send" /\ rpc' = "free" /\ SessionId(rjob) \in OpenFds
      /\ UNCHANGED <<phase, backlog, inbox, sent, fdOf, sessions, requestJobs,
                     replyJobs, maxfds, registryVars, listenerVars, workerVars,
                     rjob, created, freed>>
  BY DEF SendReply, SendReset, history
<1>2. c \in Conns
  BY <1>1, OwnerOpen DEF OpenConns
<1>3. Accepted(rjob) /\ rjob \in Txn
  BY <1>1 DEF TxnsAccepted, Accepted
<1>4. \A i \in DOMAIN replyJobs : Accepted(replyJobs[i])
  BY DEF TxnsAccepted
<1>5. /\ peer' \in [Conns -> {"up", "fin", "rst", "dead"}] /\ StillReadable
      /\ delivered' \in [Conns -> Seq(Txn)]
  <2>1. CASE SendReply
    <3>1. Append(delivered[c], rjob) \in Seq(Txn)
      BY <1>2, <1>3, AppendProperties DEF TypeOK, ClientTypes
    <3>2. /\ peer' = peer
          /\ \/ delivered' = [delivered EXCEPT ![c] = Append(delivered[c], rjob)]
             \/ delivered' = delivered
      BY <2>1 DEF SendReply
    <3> HIDE DEF c
    <3> QED
      BY <1>1, <1>2, <3>1, <3>2 DEF TypeOK, ClientTypes, StillReadable
  <2>2. CASE SendReset
    <3>1. peer' = [peer EXCEPT ![c] = "dead"] /\ delivered' = delivered
      BY <2>2 DEF SendReset
    <3> HIDE DEF c
    <3> QED
      BY <1>1, <1>2, <3>1 DEF TypeOK, ClientTypes, StillReadable
  <2> QED
    BY <2>1, <2>2
<1>6. ReplyTypes'
  BY <1>1 DEF TypeOK, ReplyTypes
<1> QED
  BY <1>1, <1>3, <1>4, <1>5, <1>6, ResponderFrame DEF TypeOK, QueueTypes

\* The process ends: nothing is promised of the sessions any more.
LEMMA SendBrokenPipeInv ==
    ASSUME ServerInv, SendBrokenPipe
    PROVE  ServerInv'
<1> USE DEF ServerInv, SendBrokenPipe, clientVars, registryVars, history
<1>1. TypeOK'
  BY DEF TypeOK, ClientTypes, QueueTypes, RegistryTypes, ListenerTypes, WorkerTypes,
         ReplyTypes
<1>2. AcceptedOnce' /\ PcConsistent' /\ OpenConns' = OpenConns
  BY DEF AcceptedOnce, PcConsistent, UsesInfo, OpenConns
<1>3. TxnsAccepted'
  BY DEF TxnsAccepted, Accepted
<1>4. SessionsConsistent'
  BY DEF SessionsConsistent, Alive
<1>5. ScanSafe'
  BY <1>2, ScanFrame DEF StillReadable
<1> QED
  BY <1>1, <1>2, <1>3, <1>4, <1>5

\* The reply thread lets go of its transaction.
LEMMA FreeReplyInv ==
    ASSUME ServerInv, FreeReply
    PROVE  ServerInv'
<1> USE DEF ServerInv, FreeReply, clientVars
<1>1. rjob \in Txn /\ \A i \in DOMAIN replyJobs : Accepted(replyJobs[i])
  BY DEF TxnsAccepted, Accepted
<1>2. ReplyTypes' /\ StillReadable
  BY DEF ReplyTypes, StillReadable
<1> QED
  BY <1>1, <1>2, ResponderFrame DEF TypeOK, ClientTypes, QueueTypes

\* Every step of the reply thread preserves the invariant.
LEMMA ResponderInv ==
    ASSUME ServerInv, Responder
    PROVE  ServerInv'
BY DequeueReplyInv, CheckSessionInv, SendReplyInv, SendBrokenPipeInv, FreeReplyInv
   DEF Responder
-----------------------------------------------------------------------------
(* The invariant, and what it gives.                                       *)

\* Every step of every thread and of every client preserves the invariant.
LEMMA NextInv ==
    ASSUME ServerInv, [Next]_vars
    PROVE  ServerInv'
<1>1. ASSUME NEW c \in Conns, Client(c) PROVE ServerInv'
  BY <1>1, ClientConnectInv, ClientSendInv, ClientEndsInv DEF Client
<1>2. CASE UNCHANGED vars
  <2>1. UNCHANGED <<fdOf, serverVars>> /\ UNCHANGED clientVars
    BY <1>2 DEF vars, clientVars
  <2>2. ClientTypes' /\ AcceptedOnce' /\ OpenConns' = OpenConns /\ StillReadable
    BY <2>1 DEF clientVars, ClientTypes, AcceptedOnce, OpenConns, StillReadable,
                ServerInv, TypeOK
  <2> QED
    BY <2>1, <2>2, ClientFrame
<1> QED
  BY <1>1, <1>2, ListenerInv, WorkerInv, ResponderInv DEF Next

\* The types, the consistency of the sessions and of the scan, and the ownership
\* of descriptors are kept by comm.c, worker.c and ndmp_msg.c for any number of
\* connections, descriptors, workers and requests.
THEOREM ServerInvariant == Spec => []ServerInv
<1>1. Init => ServerInv
  BY InitInv
<1>2. ServerInv /\ [Next]_vars => ServerInv'
  BY NextInv
<1> QED
  BY <1>1, <1>2, PTL DEF Spec

\* The variables of the server keep their types.
THEOREM TypeCorrect == Spec => []TypeOK
<1>1. ServerInv => TypeOK
  BY DEF ServerInv
<1> QED
  BY <1>1, ServerInvariant, PTL

\* ctx->sessions holds the open connections, each once, except between the close
\* of a descriptor and the removal of its session.
THEOREM SessionsStayConsistent == Spec => []SessionsConsistent
<1>1. ServerInv => SessionsConsistent
  BY DEF ServerInv
<1> QED
  BY <1>1, ServerInvariant, PTL

\* handle_client_requests meets no descriptor without a session, and select()
\* watches every session.
THEOREM ScanStaysSafe == Spec => []ScanSafe
<1>1. ServerInv => ScanSafe
  BY DEF ServerInv
<1> QED
  BY <1>1, ServerInvariant, PTL
=============================================================================
