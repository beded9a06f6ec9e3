-------------------------- MODULE DataServerProofs --------------------------
(***************************************************************************)
(* Invariants of DataServer: those that hold for every pool of workers and *)
(* all clients, those that need the single worker of the program, and the  *)
(* refinement of DataProtocol, which needs obedient clients as well.       *)
(***************************************************************************)
EXTENDS DataServer, TLAPS

(***************************************************************************)
(* The invariant for every pool and all clients.                           *)
(***************************************************************************)

Inside == {"copy", "transfer", "finish", "values"}

\* The lock of a session is held by the handler that runs inside it.
LocksHeld == \A w \in Workers : worker[w].pc \in Inside => lock[worker[w].session] = w

\* Only the START requests are operations, and only a backup copies.
OperationsStarted == \A w \in Workers :
    /\ worker[w].pc \in {"copy", "transfer", "finish"} => worker[w].request.op \in StartOps
    /\ worker[w].pc = "copy" => worker[w].request.op = "START_BACKUP"

LockParts == LocksHeld /\ OperationsStarted /\ ActiveOnlyInside /\ NoFalseSuccess

DataInv == TypeOK /\ LockParts

-----------------------------------------------------------------------------
(***************************************************************************)
(* What the types say.                                                     *)
(***************************************************************************)

\* A handler rests, or has the fields that its step uses.
LEMMA HandlerKinds ==
    ASSUME TypeOK, NEW w \in Workers
    PROVE  /\ worker[w] = Resting <=> worker[w].pc = "rest"
           /\ worker[w].pc \in {"rest", "lock"} \cup Inside
           /\ worker[w] # Resting =>
                 worker[w].session \in Sessions /\ worker[w].request \in Requests
           /\ worker[w].pc \in {"copy", "transfer", "finish"} =>
                 worker[w] \in [pc : {"copy", "transfer", "finish"}, session : Sessions,
                                request : Requests, error : {NoErr, IllegalState},
                                done : BOOLEAN]
           /\ worker[w].pc = "values" => worker[w].len \in 0..1
<1>1. worker[w] \in Handlers
  BY DEF TypeOK
<1> QED
  BY <1>1 DEF Handlers, Resting, Inside

LEMMA RequestKinds ==
    ASSUME NEW r \in Requests
    PROVE  /\ r.op \in AllOps
           /\ r.op \in Ops
           /\ r.op = "START_BACKUP" => r.env \in Envs
BY DEF Requests, AllOps, StartOps

LEMMA ErrorFacts ==
    /\ NoErr \in Errors /\ IllegalState \in Errors /\ IllegalArgs \in Errors
    /\ Garbage \in Errors /\ NoErr # IllegalState /\ NoErr # IllegalArgs /\ NoErr # Garbage
BY DEF Errors, NoErr, IllegalState, IllegalArgs, Garbage

\* The replies of the handlers other than GET_ENV, and of GET_ENV.
LEMMA ReplyKinds ==
    /\ NoReply \in Replies
    /\ \A op \in AllOps \ {"GET_ENV"}, error \in Errors : [op |-> op, error |-> error] \in Replies
    /\ \A error \in Errors, env \in Envs \cup {Null, Fresh} :
          [op |-> "GET_ENV", error |-> error, env |-> env] \in Replies
BY DEF Replies

LEMMA StateFacts ==
    /\ NDMP_DATA_STATE_IDLE = 0 /\ NDMP_DATA_STATE_ACTIVE = 1
    /\ NDMP_DATA_STATE_HALTED = 2 /\ NDMP_DATA_STATE_LISTEN = 3
    /\ NDMP_DATA_STATE_CONNECTED = 4 /\ HALTED = 4
BY DEF NDMP_DATA_STATE_IDLE, NDMP_DATA_STATE_ACTIVE, NDMP_DATA_STATE_HALTED,
       NDMP_DATA_STATE_LISTEN, NDMP_DATA_STATE_CONNECTED, HALTED

LEMMA AnswerTypes ==
    ASSUME TypeOK, NEW w \in Workers, NEW s \in Sessions, NEW answer \in Replies,
           Answer(w, s, answer)
    PROVE  /\ worker' \in [Workers -> Handlers]
           /\ reply' \in [Sessions -> Replies]
BY DEF TypeOK, Answer, Handlers

-----------------------------------------------------------------------------
(***************************************************************************)
(* Steps that leave the locks alone.                                       *)
(***************************************************************************)

\* A handler that returns without having held the lock across steps.
LEMMA ShortHandler ==
    ASSUME DataInv, NEW w \in Workers, worker[w].pc = "lock",
           worker' = [worker EXCEPT ![w] = Resting], UNCHANGED lock,
           \A s \in Sessions : dataState'[s] = NDMP_DATA_STATE_ACTIVE =>
               dataState[s] = NDMP_DATA_STATE_ACTIVE
    PROVE  LockParts'
<1>1. worker'[w] = Resting /\ \A v \in Workers : v # w => worker'[v] = worker[v]
  BY DEF DataInv, TypeOK
<1>2. LocksHeld' /\ OperationsStarted' /\ NoFalseSuccess'
  BY <1>1 DEF DataInv, LockParts, LocksHeld, OperationsStarted, NoFalseSuccess, Resting, Inside
<1>3. ActiveOnlyInside'
  BY <1>1 DEF DataInv, LockParts, ActiveOnlyInside, Operating, Resting
<1> QED
  BY <1>2, <1>3 DEF LockParts

LEMMA InitInv == Init => DataInv
<1> SUFFICES ASSUME Init PROVE DataInv
  OBVIOUS
<1>1. TypeOK
  BY StateFacts DEF Init, TypeOK, Handlers, Replies
<1>2. LockParts
  BY StateFacts DEF Init, LockParts, LocksHeld, OperationsStarted, ActiveOnlyInside,
     NoFalseSuccess, Resting, Inside
<1> QED
  BY <1>1, <1>2 DEF DataInv

LEMMA BeginInv ==
    ASSUME DataInv, NEW w \in Workers, NEW s \in Sessions, NEW r \in Requests, Begin(w, s, r)
    PROVE  DataInv'
<1> USE DEF Begin, stateVars
<1>1. worker'[w] = [pc |-> "lock", session |-> s, request |-> r] /\ worker'[w] \in Handlers
  BY DEF DataInv, TypeOK, Handlers
<1>2. \A v \in Workers : v # w => worker'[v] = worker[v]
  BY DEF DataInv, TypeOK
<1>3. TypeOK'
  <2>1. worker' \in [Workers -> Handlers]
    BY <1>1 DEF DataInv, TypeOK
  <2>2. reply' \in [Sessions -> Replies]
    BY ReplyKinds DEF DataInv, TypeOK
  <2>3. envVal' \in Envs \cup {Null, Fresh} /\ setter' \in Sessions \cup {Free}
    BY DEF DataInv, TypeOK
  <2> QED
    BY <2>1, <2>2, <2>3 DEF DataInv, TypeOK
<1>4. LocksHeld' /\ OperationsStarted' /\ NoFalseSuccess'
  BY <1>1, <1>2 DEF DataInv, LockParts, LocksHeld, OperationsStarted, NoFalseSuccess, Inside
<1>5. ActiveOnlyInside'
  BY <1>1, <1>2 DEF DataInv, LockParts, ActiveOnlyInside, Operating, Resting
<1> QED
  BY <1>3, <1>4, <1>5 DEF DataInv, LockParts

\* CONNECT_OPEN, CONNECT_CLOSE and GET_STATE.
LEMMA ConnectInv ==
    ASSUME DataInv, NEW w \in Workers, NEW s \in Sessions,
           ConnectOpen(w, s) \/ ConnectClose(w, s) \/ GetState(w, s)
    PROVE  DataInv'
<1> USE StateFacts, ErrorFacts, ReplyKinds DEF stateVars, envVars, sharedEnv, history
<1>1. CASE ConnectOpen(w, s)
  <2>1. PICK error \in OpenError(s, worker[w].request.version) :
            /\ connState' = [connState EXCEPT ![s] = IF error = NoErr THEN CONNECTED ELSE @]
            /\ Answer(w, s, [op |-> "OPEN", error |-> error])
    BY <1>1 DEF ConnectOpen
  <2>2. error \in Errors
    BY DEF OpenError
  <2>3. [op |-> "OPEN", error |-> error] \in Replies
    BY <2>2 DEF AllOps, StartOps
  <2>4. worker' \in [Workers -> Handlers] /\ reply' \in [Sessions -> Replies]
    BY <2>1, <2>3, AnswerTypes DEF DataInv
  <2>5. TypeOK'
    BY <1>1, <2>1, <2>4 DEF ConnectOpen, DataInv, TypeOK
  <2>6. LockParts'
    BY <1>1, <2>1, ShortHandler DEF ConnectOpen, Enters, At, Answer
  <2> QED
    BY <2>5, <2>6 DEF DataInv
<1>2. CASE ConnectClose(w, s)
  <2>1. worker' \in [Workers -> Handlers] /\ reply' \in [Sessions -> Replies]
    BY <1>2, AnswerTypes DEF ConnectClose, DataInv
  <2>2. /\ connState' = [connState EXCEPT ![s] = HALTED]
        /\ dataState' = [dataState EXCEPT ![s] = HALTED]
        /\ closed' = closed \cup {s}
        /\ UNCHANGED <<alive, lock, envLen, envVal, sentEnv, setter>>
    BY <1>2 DEF ConnectClose
  <2>3. connState' \in [Sessions -> {LISTEN, CONNECTED, HALTED}]
    BY <2>2 DEF DataInv, TypeOK
  <2>4. dataState' \in [Sessions -> 0..4]
    BY <2>2 DEF DataInv, TypeOK
  <2>5. TypeOK'
    BY <2>1, <2>2, <2>3, <2>4 DEF DataInv, TypeOK
  <2>6. \A r \in Sessions : dataState'[r] = NDMP_DATA_STATE_ACTIVE =>
            dataState[r] = NDMP_DATA_STATE_ACTIVE
    BY <2>2 DEF DataInv, TypeOK
  <2>7. LockParts'
    BY <1>2, <2>2, <2>6, ShortHandler DEF ConnectClose, Enters, At, Answer
  <2> QED
    BY <2>5, <2>7 DEF DataInv
<1>3. CASE GetState(w, s)
  <2>1. PICK answer \in {NoReply, [op |-> "GET_STATE", error |-> Garbage]} : Answer(w, s, answer)
    BY <1>3 DEF GetState
  <2>2. answer \in Replies
    BY DEF AllOps, StartOps
  <2>3. worker' \in [Workers -> Handlers] /\ reply' \in [Sessions -> Replies]
    BY <2>1, <2>2, AnswerTypes DEF DataInv
  <2>4. TypeOK'
    BY <1>3, <2>3 DEF GetState, DataInv, TypeOK
  <2>5. LockParts'
    BY <1>3, <2>1, ShortHandler DEF GetState, At, Answer
  <2> QED
    BY <2>4, <2>5 DEF DataInv
<1> QED
  BY <1>1, <1>2, <1>3

\* A data handler of one step other than GET_ENV leads to a state that is not
\* ACTIVE, or to none.
LEMMA DataHandlerInv ==
    ASSUME DataInv, NEW w \in Workers, NEW s \in Sessions,
           NEW op \in Ops \ {"GET_ENV"}, Enters(w, s, op),
           NEW new \in 0..4, new # NDMP_DATA_STATE_ACTIVE \/ new = dataState[s],
           NEW error \in Errors, DataHandler(w, s, new, error),
           envLen' \in 0..1, envVal' \in Envs \cup {Null, Fresh},
           sentEnv' \in [Sessions -> Envs \cup {Null}], setter' \in Sessions \cup {Free}
    PROVE  DataInv'
<1>1. [op |-> op, error |-> error] \in Replies
  BY ReplyKinds, DataServerAssumption
<1>2. Answer(w, s, [op |-> op, error |-> error])
  BY DEF DataHandler, Enters
<1>3. worker' \in [Workers -> Handlers] /\ reply' \in [Sessions -> Replies]
  BY <1>1, <1>2, AnswerTypes DEF DataInv
<1>4. TypeOK'
  BY <1>3 DEF DataHandler, DataInv, TypeOK
<1>5. LockParts'
  BY <1>2, ShortHandler DEF DataHandler, Enters, At, Answer, DataInv, TypeOK
<1> QED
  BY <1>4, <1>5 DEF DataInv

\* LISTEN, CONNECT, ABORT and STOP.
LEMMA DataStateInv ==
    ASSUME DataInv, NEW w \in Workers, NEW s \in Sessions,
           DataListen(w, s) \/ DataConnect(w, s) \/ DataAbort(w, s) \/ DataStop(w, s)
    PROVE  DataInv'
<1> USE StateFacts, ErrorFacts
<1>1. ASSUME NEW op, Enters(w, s, op)
      PROVE  op \in Ops
  BY <1>1, HandlerKinds, RequestKinds DEF DataInv, Enters, At, Resting
<1>2. dataState[s] \in 0..4
  BY DEF DataInv, TypeOK
<1>3. UNCHANGED sharedEnv =>
        /\ envLen' \in 0..1 /\ envVal' \in Envs \cup {Null, Fresh}
        /\ sentEnv' \in [Sessions -> Envs \cup {Null}] /\ setter' \in Sessions \cup {Free}
  BY DEF sharedEnv, envVars, DataInv, TypeOK
<1>4. ASSUME NEW op \in {"LISTEN", "CONNECT"}, NEW new \in {3, 4}, Leave(w, s, op, new)
      PROVE  DataInv'
  <2>1. Enters(w, s, op) /\ UNCHANGED sharedEnv
    BY <1>4 DEF Leave
  <2>2. \/ DataHandler(w, s, dataState[s], IllegalState)
        \/ DataHandler(w, s, dataState[s], IllegalArgs)
        \/ DataHandler(w, s, new, NoErr)
    BY <1>4 DEF Leave
  <2> QED
    BY <1>1, <1>2, <1>3, <2>1, <2>2, DataHandlerInv
<1>5. CASE DataListen(w, s) \/ DataConnect(w, s)
  BY <1>4, <1>5 DEF DataListen, DataConnect
<1>6. CASE DataAbort(w, s)
  <2>1. Enters(w, s, "ABORT") /\ UNCHANGED sharedEnv
    BY <1>6 DEF DataAbort
  <2>2. \/ DataHandler(w, s, dataState[s], IllegalState)
        \/ DataHandler(w, s, NDMP_DATA_STATE_HALTED, NoErr)
    BY <1>6 DEF DataAbort
  <2> QED
    BY <1>1, <1>2, <1>3, <2>1, <2>2, DataHandlerInv
<1>7. CASE DataStop(w, s)
  <2>1. Enters(w, s, "STOP")
    BY <1>7 DEF DataStop
  <2>2. CASE DataHandler(w, s, dataState[s], IllegalState) /\ UNCHANGED sharedEnv
    BY <1>1, <1>2, <1>3, <2>1, <2>2, DataHandlerInv
  <2>3. CASE /\ DataHandler(w, s, NDMP_DATA_STATE_IDLE, NoErr)
             /\ envLen' = 0 /\ envVal' = Null
             /\ sentEnv' = [sentEnv EXCEPT ![s] = Null] /\ setter' = s
    <3>1. /\ envLen' \in 0..1 /\ envVal' \in Envs \cup {Null, Fresh}
          /\ sentEnv' \in [Sessions -> Envs \cup {Null}] /\ setter' \in Sessions \cup {Free}
      BY <2>3 DEF DataInv, TypeOK
    <3> QED
      BY <1>1, <2>1, <2>3, <3>1, DataHandlerInv
  <2> QED
    BY <1>7, <2>2, <2>3 DEF DataStop
<1> QED
  BY <1>5, <1>6, <1>7

-----------------------------------------------------------------------------
(***************************************************************************)
(* Steps that take a lock, work under it, or release it.                   *)
(***************************************************************************)

LEMMA TakeLock ==
    ASSUME DataInv, NEW w \in Workers, NEW s \in Sessions, NEW h,
           worker[w].pc = "lock", lock[s] = Free, lock' = [lock EXCEPT ![s] = w],
           worker' = [worker EXCEPT ![w] = h],
           h.pc \in {"copy", "transfer", "values"}, h.session = s,
           h.pc # "values" => h.request.op \in StartOps,
           h.pc = "copy" => h.request.op = "START_BACKUP",
           \A r \in Sessions : dataState'[r] = NDMP_DATA_STATE_ACTIVE =>
               dataState[r] = NDMP_DATA_STATE_ACTIVE \/ (r = s /\ h.pc # "values")
    PROVE  LockParts'
<1>1. worker'[w] = h /\ \A v \in Workers : v # w => worker'[v] = worker[v]
  BY DEF DataInv, TypeOK
<1>2. lock'[s] = w /\ \A r \in Sessions : r # s => lock'[r] = lock[r]
  BY DEF DataInv, TypeOK
<1>3. \A v \in Workers : v # Free
  BY DataServerAssumption DEF Free
<1>4. \A v \in Workers : worker[v].pc \in Inside =>
          worker[v].session \in Sessions /\ lock[worker[v].session] = v
  BY HandlerKinds DEF DataInv, LockParts, LocksHeld, Inside
<1>5. LocksHeld'
  BY <1>1, <1>2, <1>3, <1>4 DEF LocksHeld
<1>6. OperationsStarted' /\ NoFalseSuccess'
  BY <1>1 DEF DataInv, LockParts, OperationsStarted, NoFalseSuccess
<1>7. ASSUME NEW r \in Sessions, dataState'[r] = NDMP_DATA_STATE_ACTIVE
      PROVE  \E v \in Workers : lock'[r] = v /\ Operating(v, r)'
  <2>1. CASE dataState[r] = NDMP_DATA_STATE_ACTIVE
    <3>1. PICK v \in Workers : lock[r] = v /\ Operating(v, r)
      BY <2>1 DEF DataInv, LockParts, ActiveOnlyInside
    <3>2. v # w /\ r # s
      BY <1>3, <3>1 DEF Operating
    <3> QED
      BY <1>1, <1>2, <3>1, <3>2 DEF Operating
  <2>2. CASE r = s /\ h.pc # "values"
    BY <1>1, <1>2, <2>2 DEF Operating
  <2> QED
    BY <1>7, <2>1, <2>2
<1> QED
  BY <1>5, <1>6, <1>7 DEF LockParts, ActiveOnlyInside

LEMMA KeepLock ==
    ASSUME DataInv, NEW w \in Workers, NEW h, UNCHANGED lock,
           worker[w].pc \in {"copy", "transfer"}, worker' = [worker EXCEPT ![w] = h],
           h.pc \in {"transfer", "finish"}, h.session = worker[w].session,
           h.request = worker[w].request,
           h.pc = "finish" /\ h.error = NoErr => h.done,
           \A r \in Sessions : dataState'[r] = NDMP_DATA_STATE_ACTIVE =>
               dataState[r] = NDMP_DATA_STATE_ACTIVE
    PROVE  LockParts'
<1>1. worker'[w] = h /\ \A v \in Workers : v # w => worker'[v] = worker[v]
  BY DEF DataInv, TypeOK
<1>2. LocksHeld' /\ OperationsStarted' /\ NoFalseSuccess'
  BY <1>1 DEF DataInv, LockParts, LocksHeld, OperationsStarted, NoFalseSuccess, Inside
<1>3. ActiveOnlyInside'
  BY <1>1 DEF DataInv, LockParts, ActiveOnlyInside, Operating
<1> QED
  BY <1>2, <1>3 DEF LockParts

LEMMA ReleaseLock ==
    ASSUME DataInv, NEW w \in Workers, NEW s \in Sessions,
           worker[w].pc \in {"finish", "values"}, worker[w].session = s,
           lock' = [lock EXCEPT ![s] = Free], worker' = [worker EXCEPT ![w] = Resting],
           \A r \in Sessions : dataState'[r] = NDMP_DATA_STATE_ACTIVE =>
               dataState[r] = NDMP_DATA_STATE_ACTIVE /\ (r # s \/ worker[w].pc = "values")
    PROVE  LockParts'
<1>1. worker'[w] = Resting /\ \A v \in Workers : v # w => worker'[v] = worker[v]
  BY DEF DataInv, TypeOK
<1>2. \A r \in Sessions : r # s => lock'[r] = lock[r]
  BY DEF DataInv, TypeOK
<1>3. lock[s] = w
  BY DEF DataInv, LockParts, LocksHeld, Inside
<1>4. \A v \in Workers : worker[v].pc \in Inside =>
          worker[v].session \in Sessions /\ lock[worker[v].session] = v
  BY HandlerKinds DEF DataInv, LockParts, LocksHeld, Inside
<1>5. LocksHeld'
  BY <1>1, <1>2, <1>3, <1>4 DEF LocksHeld, Resting, Inside
<1>6. OperationsStarted' /\ NoFalseSuccess'
  BY <1>1 DEF DataInv, LockParts, OperationsStarted, NoFalseSuccess, Resting
<1>7. ASSUME NEW r \in Sessions, dataState'[r] = NDMP_DATA_STATE_ACTIVE
      PROVE  \E v \in Workers : lock'[r] = v /\ Operating(v, r)'
  <2>1. PICK v \in Workers : lock[r] = v /\ Operating(v, r)
    BY <1>7 DEF DataInv, LockParts, ActiveOnlyInside
  <2>2. r # s
    BY <1>3, <1>7, <2>1 DEF Operating
  <2>3. v # w
    BY <2>1, <2>2 DEF Operating
  <2> QED
    BY <1>1, <1>2, <2>1, <2>2, <2>3 DEF Operating
<1> QED
  BY <1>5, <1>6, <1>7 DEF LockParts, ActiveOnlyInside

\* GET_ENV, in its two steps.
LEMMA GetEnvInv ==
    ASSUME DataInv, NEW w \in Workers, NEW s \in Sessions,
           GetEnvLength(w, s) \/ GetEnvValues(w, s)
    PROVE  DataInv'
<1> USE DEF stateVars, envVars, history
<1>1. CASE GetEnvLength(w, s)
  <2> DEFINE h == [pc |-> "values", session |-> s, request |-> worker[w].request, len |-> envLen]
  <2>1. worker' = [worker EXCEPT ![w] = h] /\ worker[w].pc = "lock" /\ lock[s] = Free
    BY <1>1 DEF GetEnvLength, Enters, At, DataInv, TypeOK
  <2>2. worker[w].request \in Requests
    BY <2>1, HandlerKinds DEF DataInv, Resting
  <2>3. h \in Handlers
    BY <2>2 DEF Handlers, DataInv, TypeOK
  <2>4. TypeOK'
    <3>1. worker' \in [Workers -> Handlers]
      BY <2>1, <2>3 DEF DataInv, TypeOK
    <3>2. lock' \in [Sessions -> Workers \cup {Free}]
      BY <1>1 DEF GetEnvLength, DataInv, TypeOK
    <3> QED
      BY <1>1, <3>1, <3>2 DEF GetEnvLength, DataInv, TypeOK
  <2>5. h.pc = "values" /\ h.session = s
    OBVIOUS
  <2>6. lock' = [lock EXCEPT ![s] = w] /\ UNCHANGED dataState
    BY <1>1 DEF GetEnvLength
  <2>7. LockParts'
    <3> HIDE DEF h
    <3> QED
      BY <2>1, <2>5, <2>6, TakeLock
  <2> QED
    BY <2>4, <2>7 DEF DataInv
<1>2. CASE GetEnvValues(w, s)
  <2> DEFINE values == IF envLen = 0 THEN Null ELSE envVal
             env == IF worker[w].len = 0 THEN Null ELSE values
             answer == [op |-> "GET_ENV", error |-> NoErr, env |-> env]
  <2>1. /\ worker[w].pc = "values" /\ worker[w].session = s
        /\ alive' = (values = Null => envLen = 0 /\ worker[w].len = 0)
        /\ Answer(w, s, answer)
    BY <1>2 DEF GetEnvValues, At
  <2>2. env \in Envs \cup {Null, Fresh}
    BY DEF DataInv, TypeOK
  <2>3. answer \in Replies
    BY <2>2, ErrorFacts, ReplyKinds
  <2>4. worker' \in [Workers -> Handlers] /\ reply' \in [Sessions -> Replies]
    BY <2>1, <2>3, AnswerTypes DEF DataInv
  <2>5. TypeOK'
    <3>1. alive' \in BOOLEAN
      BY <2>1
    <3>2. lock' \in [Sessions -> Workers \cup {Free}]
      BY <1>2 DEF GetEnvValues, DataInv, TypeOK
    <3> QED
      BY <1>2, <2>4, <3>1, <3>2 DEF GetEnvValues, DataInv, TypeOK
  <2>6. LockParts'
    BY <1>2, <2>1, ReleaseLock DEF GetEnvValues, Answer
  <2> QED
    BY <2>5, <2>6 DEF DataInv
<1> QED
  BY <1>1, <1>2

\* The steps of an operation.
LEMMA OperationInv ==
    ASSUME DataInv, NEW w \in Workers, NEW s \in Sessions,
           \/ StartOperation(w, s) \/ CopyEnv(w, s) \/ TransferSucceeds(w, s)
           \/ TransferFails(w, s) \/ RecoverDies(w, s) \/ Finish(w, s)
    PROVE  DataInv'
<1> USE StateFacts, ErrorFacts DEF stateVars, envVars, history
<1>1. CASE StartOperation(w, s)
  <2> DEFINE legal == dataState[s] = NDMP_DATA_STATE_CONNECTED
             h == [pc |-> IF worker[w].request.op = "START_BACKUP" THEN "copy" ELSE "transfer",
                   session |-> s, request |-> worker[w].request,
                   error |-> IF legal THEN NoErr ELSE IllegalState, done |-> FALSE]
  <2>1. /\ worker' = [worker EXCEPT ![w] = h]
        /\ worker[w].pc = "lock" /\ lock[s] = Free
        /\ lock' = [lock EXCEPT ![s] = w]
        /\ dataState' = [dataState EXCEPT ![s] = IF legal THEN NDMP_DATA_STATE_ACTIVE ELSE @]
    BY <1>1 DEF StartOperation, Enters, At, DataInv, TypeOK
  <2>2. worker[w].request \in Requests
    BY <2>1, HandlerKinds DEF DataInv, Resting
  <2>3. h \in Handlers
    BY <2>2 DEF Handlers
  <2>4. worker' \in [Workers -> Handlers]
    BY <2>1, <2>3 DEF DataInv, TypeOK
  <2>5. lock' \in [Sessions -> Workers \cup {Free}] /\ dataState' \in [Sessions -> 0..4]
    BY <2>1 DEF DataInv, TypeOK
  <2>6. TypeOK'
    BY <1>1, <2>4, <2>5 DEF StartOperation, DataInv, TypeOK
  <2>7. LockParts'
    <3>1. \A r \in Sessions : r # s => dataState'[r] = dataState[r]
      BY <2>1 DEF DataInv, TypeOK
    <3>2. /\ h.pc \in {"copy", "transfer"} /\ h.session = s
          /\ h.request.op = worker[w].request.op
          /\ h.pc = "copy" => h.request.op = "START_BACKUP"
      OBVIOUS
    <3>3. h.request.op \in StartOps
      BY <1>1 DEF StartOperation, Enters
    <3> HIDE DEF h
    <3>4. \A r \in Sessions : dataState'[r] = NDMP_DATA_STATE_ACTIVE =>
              dataState[r] = NDMP_DATA_STATE_ACTIVE \/ (r = s /\ h.pc # "values")
      BY <3>1, <3>2
    <3> HIDE DEF legal
    <3> QED
      BY <2>1, <3>2, <3>3, <3>4, TakeLock
  <2> QED
    BY <2>6, <2>7 DEF DataInv
<1>2. ASSUME NEW h, worker[w].pc \in {"copy", "transfer"},
             \/ h = [worker[w] EXCEPT !.pc = "transfer"]
             \/ h = [worker[w] EXCEPT !.pc = "finish", !.done = TRUE]
             \/ h = [worker[w] EXCEPT !.pc = "finish", !.error = IllegalState]
      PROVE  /\ h \in Handlers
             /\ h.session = worker[w].session /\ h.request = worker[w].request
             /\ h.pc \in {"transfer", "finish"}
             /\ h.pc = "finish" /\ h.error = NoErr => h.done
  <2> DEFINE S == [pc : {"copy", "transfer", "finish"}, session : Sessions,
                   request : Requests, error : {NoErr, IllegalState}, done : BOOLEAN]
  <2>1. worker[w] \in S
    BY <1>2, HandlerKinds DEF DataInv
  <2>2. h \in S
    BY <1>2, <2>1
  <2>3. h \in Handlers
    BY <2>2 DEF Handlers
  <2> QED
    BY <1>2, <2>1, <2>3
<1>3. worker[w].pc = "finish" => worker[w].error \in {NoErr, IllegalState}
  BY HandlerKinds DEF DataInv
<1>4. CASE CopyEnv(w, s)
  <2> DEFINE h == [worker[w] EXCEPT !.pc = "transfer"]
  <2>1. worker[w].pc = "copy" /\ worker[w].session = s
    BY <1>4 DEF CopyEnv, At
  <2>2. worker' = [worker EXCEPT ![w] = h]
    BY <1>4 DEF CopyEnv
  <2>3. worker' \in [Workers -> Handlers]
    <3>1. h \in Handlers
      BY <1>2, <2>1
    <3> QED
      BY <2>2, <3>1 DEF DataInv, TypeOK
  <2>4. worker[w].request.env \in Envs
    BY <2>1, HandlerKinds, RequestKinds DEF DataInv, LockParts, OperationsStarted, Resting
  <2>5. TypeOK'
    <3>1. sentEnv' \in [Sessions -> Envs \cup {Null}]
      BY <1>4, <2>4 DEF CopyEnv, DataInv, TypeOK
    <3>2. alive' \in BOOLEAN /\ envLen' \in 0..1 /\ envVal' \in Envs \cup {Null, Fresh}
      BY <1>4, <2>4 DEF CopyEnv
    <3> QED
      BY <1>4, <2>3, <3>1, <3>2 DEF CopyEnv, DataInv, TypeOK
  <2>6. LockParts'
    <3>1. UNCHANGED <<lock, dataState>>
      BY <1>4 DEF CopyEnv
    <3>2. /\ h.session = worker[w].session /\ h.request = worker[w].request
          /\ h.pc \in {"transfer", "finish"}
          /\ h.pc = "finish" /\ h.error = NoErr => h.done
      BY <1>2, <2>1
    <3> HIDE DEF h
    <3> QED
      BY <2>1, <2>2, <3>1, <3>2, KeepLock
  <2> QED
    BY <2>5, <2>6 DEF DataInv
<1>5. CASE TransferSucceeds(w, s)
  <2> DEFINE h == [worker[w] EXCEPT !.pc = "finish", !.done = TRUE]
  <2>1. worker[w].pc = "transfer" /\ worker[w].session = s
    BY <1>5 DEF TransferSucceeds, At
  <2>2. worker' = [worker EXCEPT ![w] = h]
    BY <1>5 DEF TransferSucceeds
  <2>3. h \in Handlers
    BY <1>2, <2>1
  <2>4. worker' \in [Workers -> Handlers]
    BY <2>2, <2>3 DEF DataInv, TypeOK
  <2>5. TypeOK'
    BY <1>5, <2>4 DEF TransferSucceeds, DataInv, TypeOK
  <2>6. LockParts'
    <3>1. UNCHANGED <<lock, dataState>>
      BY <1>5 DEF TransferSucceeds
    <3>2. /\ h.session = worker[w].session /\ h.request = worker[w].request
          /\ h.pc \in {"transfer", "finish"}
          /\ h.pc = "finish" /\ h.error = NoErr => h.done
      BY <1>2, <2>1
    <3> HIDE DEF h
    <3> QED
      BY <2>1, <2>2, <3>1, <3>2, KeepLock
  <2> QED
    BY <2>5, <2>6 DEF DataInv
<1>6. CASE TransferFails(w, s)
  <2> DEFINE h == [worker[w] EXCEPT !.pc = "finish", !.error = IllegalState]
  <2>1. worker[w].pc = "transfer" /\ worker[w].session = s
    BY <1>6 DEF TransferFails, At
  <2>2. worker' = [worker EXCEPT ![w] = h]
    BY <1>6 DEF TransferFails
  <2>3. h \in Handlers
    BY <1>2, <2>1
  <2>4. worker' \in [Workers -> Handlers]
    BY <2>2, <2>3 DEF DataInv, TypeOK
  <2>5. dataState' = [dataState EXCEPT ![s] = NDMP_DATA_STATE_HALTED]
    BY <1>6 DEF TransferFails
  <2>6. dataState' \in [Sessions -> 0..4]
    BY <2>5 DEF DataInv, TypeOK
  <2>7. TypeOK'
    BY <1>6, <2>4, <2>6 DEF TransferFails, DataInv, TypeOK
  <2>8. \A r \in Sessions : dataState'[r] = NDMP_DATA_STATE_ACTIVE =>
            dataState[r] = NDMP_DATA_STATE_ACTIVE
    BY <2>5 DEF DataInv, TypeOK
  <2>9. LockParts'
    <3>1. UNCHANGED lock
      BY <1>6 DEF TransferFails
    <3>2. /\ h.session = worker[w].session /\ h.request = worker[w].request
          /\ h.pc \in {"transfer", "finish"}
          /\ h.pc = "finish" /\ h.error = NoErr => h.done
      BY <1>2, <2>1
    <3> HIDE DEF h
    <3> QED
      BY <2>1, <2>2, <2>8, <3>1, <3>2, KeepLock
  <2> QED
    BY <2>7, <2>9 DEF DataInv
<1>7. CASE RecoverDies(w, s)
  <2>1. TypeOK'
    BY <1>7 DEF RecoverDies, DataInv, TypeOK
  <2>2. LockParts'
    BY <1>7 DEF RecoverDies, DataInv, LockParts, LocksHeld, OperationsStarted, ActiveOnlyInside,
       NoFalseSuccess, Operating
  <2> QED
    BY <2>1, <2>2 DEF DataInv
<1>8. CASE Finish(w, s)
  <2> DEFINE answer == [op |-> worker[w].request.op, error |-> worker[w].error]
  <2>1. /\ worker[w].pc = "finish" /\ worker[w].session = s
        /\ dataState' = [dataState EXCEPT ![s] = NDMP_DATA_STATE_HALTED]
        /\ lock' = [lock EXCEPT ![s] = Free]
        /\ Answer(w, s, answer)
    BY <1>8 DEF Finish, At
  <2>2. worker[w].request.op \in AllOps \ {"GET_ENV"}
    BY <2>1 DEF DataInv, LockParts, OperationsStarted, StartOps, AllOps
  <2>3. worker[w].error \in Errors
    BY <1>3, <2>1
  <2>4. answer \in Replies
    BY <2>2, <2>3, <2>1, ReplyKinds
  <2>5. worker' \in [Workers -> Handlers] /\ reply' \in [Sessions -> Replies]
    BY <2>1, <2>4, AnswerTypes DEF DataInv
  <2>6. lock' \in [Sessions -> Workers \cup {Free}] /\ dataState' \in [Sessions -> 0..4]
    BY <2>1 DEF DataInv, TypeOK
  <2>7. TypeOK'
    BY <1>8, <2>5, <2>6 DEF Finish, DataInv, TypeOK
  <2>8. \A r \in Sessions : dataState'[r] = NDMP_DATA_STATE_ACTIVE =>
            dataState[r] = NDMP_DATA_STATE_ACTIVE /\ r # s
    BY <2>1 DEF DataInv, TypeOK
  <2>9. LockParts'
    BY <2>1, <2>8, ReleaseLock DEF Answer
  <2> QED
    BY <2>7, <2>9 DEF DataInv
<1> QED
  BY <1>1, <1>4, <1>5, <1>6, <1>7, <1>8

LEMMA HandleInv ==
    ASSUME DataInv, NEW w \in Workers, NEW s \in Sessions, Handle(w, s)
    PROVE  DataInv'
BY ConnectInv, DataStateInv, GetEnvInv, OperationInv DEF Handle

LEMMA NextInv == DataInv /\ [Next]_vars => DataInv'
<1> SUFFICES ASSUME DataInv, [Next]_vars PROVE DataInv'
  OBVIOUS
<1>1. CASE UNCHANGED vars
  <2>1. TypeOK'
    BY <1>1 DEF vars, stateVars, envVars, DataInv, TypeOK
  <2>2. LockParts'
    BY <1>1 DEF vars, stateVars, envVars, DataInv, LockParts, LocksHeld, OperationsStarted,
       ActiveOnlyInside, NoFalseSuccess, Operating
  <2> QED
    BY <2>1, <2>2 DEF DataInv
<1>2. CASE Next
  <2>1. PICK w \in Workers, s \in Sessions :
            Handle(w, s) \/ \E r \in Requests : Begin(w, s, r)
    BY <1>2 DEF Next
  <2> QED
    BY <2>1, HandleInv, BeginInv
<1> QED
  BY <1>1, <1>2

LEMMA SpecInv == Spec => []DataInv
BY InitInv, NextInv, PTL DEF Spec

-----------------------------------------------------------------------------
(***************************************************************************)
(* The theorems for every pool and all clients.                            *)
(***************************************************************************)

\* TypeOK is an invariant: the handlers store the states, locks, environments
\* and replies that the module lists, and nothing else.
THEOREM TypeCorrect == Spec => []TypeOK
<1>1. DataInv => TypeOK
  BY DEF DataInv
<1> QED
  BY <1>1, SpecInv, PTL

\* OneOperation is an invariant, whatever the clients pipeline and however many
\* threads the pool has: a session never runs two data operations at a time.
THEOREM OneOperationAtATime == Spec => []OneOperation
<1>1. DataInv => OneOperation
  BY DEF DataInv, LockParts, LocksHeld, Inside, OneOperation, Operating
<1> QED
  BY <1>1, SpecInv, PTL

\* ActiveOnlyInside is an invariant: only the handler that holds the session's
\* lock ever sees the session ACTIVE.
THEOREM ActiveStaysInside == Spec => []ActiveOnlyInside
<1>1. DataInv => ActiveOnlyInside
  BY DEF DataInv, LockParts
<1> QED
  BY <1>1, SpecInv, PTL

\* NoFalseSuccess is an invariant: no START handler is about to answer
\* NDMP_NO_ERR unless mount and rsync have succeeded.
THEOREM SuccessIsTrue == Spec => []NoFalseSuccess
<1>1. DataInv => NoFalseSuccess
  BY DEF DataInv, LockParts
<1> QED
  BY <1>1, SpecInv, PTL

-----------------------------------------------------------------------------
(***************************************************************************)
(* One worker, as in the program (worker.h:21): the shared environment.    *)
(***************************************************************************)

OneWorker == \A v, w \in Workers : v = w

\* A handler of START_BACKUP has replaced env_val and not yet filled it.
Filling(w) == /\ worker[w].pc \in {"lock", "copy"}
              /\ worker[w].request.op = "START_BACKUP"

\* While it fills the environment, it is the setter; otherwise the environment
\* is empty or filled, with what the setter has last sent.
EnvFilled == \A w \in Workers :
    /\ Filling(w) => envVal = Fresh /\ setter = worker[w].session

EnvOfSetter ==
    (\A w \in Workers : ~Filling(w)) =>
        /\ envLen # 0 => envVal \in Envs
        /\ \A s \in Sessions : setter \in {s, Free} =>
              (IF envLen = 0 THEN Null ELSE envVal) = sentEnv[s]

\* The request that is being handled has no reply yet.
Unanswered == \A w \in Workers :
    worker[w].pc \in {"lock"} \cup Inside => reply[worker[w].session] = NoReply

\* Between the two steps of GET_ENV nothing changes.
LengthRead == \A w \in Workers : worker[w].pc = "values" => worker[w].len = envLen

SoleInv == EnvFilled /\ EnvOfSetter /\ Unanswered /\ LengthRead /\ EnvOfOwnBackup

\* What a single worker's step can change: its own handler.
LEMMA EnvNames == /\ Null \notin Envs /\ Fresh \notin Envs /\ Null # Fresh
                  /\ \A s \in Sessions : NoReply.op # "GET_ENV"
BY DataServerAssumption DEF Null, Fresh, NoReply

LEMMA SoleInit == Init => SoleInv
<1> SUFFICES ASSUME Init PROVE SoleInv
  OBVIOUS
<1>1. EnvFilled /\ Unanswered /\ LengthRead
  BY DEF Init, EnvFilled, Filling, Unanswered, LengthRead, Inside, Resting
<1>2. EnvOfSetter
  BY DEF Init, EnvOfSetter
<1>3. EnvOfOwnBackup
  BY DEF Init, EnvOfOwnBackup, NoReply
<1> QED
  BY <1>1, <1>2, <1>3 DEF SoleInv

\* A handler other than GET_ENV returns, and has left the environment alone.
LEMMA QuietAnswer ==
    ASSUME OneWorker, DataInv, SoleInv, NEW w \in Workers, NEW s \in Sessions, NEW answer,
           Answer(w, s, answer), answer.op # "GET_ENV", ~Filling(w), UNCHANGED sharedEnv
    PROVE  SoleInv'
<1> USE DEF sharedEnv, envVars
<1>1. worker'[w] = Resting /\ \A v \in Workers : v = w
  BY DEF Answer, DataInv, TypeOK, OneWorker
<1>2. EnvFilled' /\ Unanswered' /\ LengthRead'
  BY <1>1 DEF EnvFilled, Filling, Unanswered, LengthRead, Inside, Resting
<1>3. EnvOfSetter'
  BY <1>1 DEF SoleInv, EnvOfSetter
<1>4. EnvOfOwnBackup'
  BY DEF Answer, SoleInv, EnvOfOwnBackup, DataInv, TypeOK
<1> QED
  BY <1>2, <1>3, <1>4 DEF SoleInv

\* A handler goes on, and leaves the environment and the replies alone.
LEMMA QuietStep ==
    ASSUME OneWorker, DataInv, SoleInv, NEW w \in Workers,
           worker[w].pc \in {"lock"} \cup Inside,
           worker'[w].pc \in Inside, worker'[w].session = worker[w].session,
           Filling(w)' <=> Filling(w), worker'[w].pc = "values" => worker'[w].len = envLen,
           UNCHANGED <<reply, sharedEnv>>
    PROVE  SoleInv'
<1> USE DEF sharedEnv, envVars
<1>1. \A v \in Workers : v = w
  BY DEF OneWorker
<1>2. EnvFilled' /\ Unanswered' /\ LengthRead'
  BY <1>1 DEF SoleInv, EnvFilled, Unanswered, LengthRead
<1>3. EnvOfSetter'
  BY <1>1 DEF SoleInv, EnvOfSetter
<1>4. EnvOfOwnBackup'
  BY DEF SoleInv, EnvOfOwnBackup
<1> QED
  BY <1>2, <1>3, <1>4 DEF SoleInv

LEMMA SoleBegin ==
    ASSUME OneWorker, DataInv, SoleInv, NEW w \in Workers, NEW s \in Sessions,
           NEW r \in Requests, Begin(w, s, r)
    PROVE  SoleInv'
<1> USE EnvNames DEF Begin
<1>1. /\ worker'[w] = [pc |-> "lock", session |-> s, request |-> r]
      /\ \A v \in Workers : v = w
      /\ worker[w] = Resting
  BY DEF DataInv, TypeOK, OneWorker
<1>2. reply'[s] = NoReply /\ \A q \in Sessions : q # s => reply'[q] = reply[q]
  BY DEF DataInv, TypeOK
<1>3. Unanswered' /\ LengthRead'
  BY <1>1, <1>2 DEF Unanswered, LengthRead, Inside
<1>4. EnvFilled'
  BY <1>1 DEF EnvFilled, Filling
<1>5. CASE r.op = "START_BACKUP"
  <2>1. EnvOfSetter'
    BY <1>1, <1>5 DEF EnvOfSetter, Filling
  <2>2. EnvOfOwnBackup'
    BY <1>2, <1>5, DataServerAssumption DEF EnvOfOwnBackup, Free, NoReply
  <2> QED
    BY <1>3, <1>4, <2>1, <2>2 DEF SoleInv
<1>6. CASE r.op # "START_BACKUP"
  <2>1. EnvOfSetter'
    BY <1>1, <1>6 DEF SoleInv, EnvOfSetter, Filling, Resting
  <2>2. EnvOfOwnBackup'
    BY <1>2, <1>6 DEF SoleInv, EnvOfOwnBackup
  <2> QED
    BY <1>3, <1>4, <2>1, <2>2 DEF SoleInv
<1> QED
  BY <1>5, <1>6

\* The handlers of the connect interface, and of the data states.
LEMMA SoleShort ==
    ASSUME OneWorker, DataInv, SoleInv, NEW w \in Workers, NEW s \in Sessions,
           \/ ConnectOpen(w, s) \/ ConnectClose(w, s) \/ GetState(w, s)
           \/ DataListen(w, s) \/ DataConnect(w, s) \/ DataAbort(w, s)
    PROVE  SoleInv'
<1> USE EnvNames DEF sharedEnv, history
<1>1. CASE ConnectOpen(w, s)
  <2>1. PICK error \in OpenError(s, worker[w].request.version) :
            Answer(w, s, [op |-> "OPEN", error |-> error])
    BY <1>1 DEF ConnectOpen
  <2> QED
    BY <1>1, <2>1, QuietAnswer DEF ConnectOpen, Enters, Filling
<1>2. CASE ConnectClose(w, s)
  BY <1>2, QuietAnswer DEF ConnectClose, Enters, Filling
<1>3. CASE GetState(w, s)
  <2>1. PICK answer \in {NoReply, [op |-> "GET_STATE", error |-> Garbage]} : Answer(w, s, answer)
    BY <1>3 DEF GetState
  <2> QED
    BY <1>3, <2>1, QuietAnswer DEF GetState, Filling
<1>4. ASSUME NEW op \in {"LISTEN", "CONNECT", "ABORT"}, Enters(w, s, op),
             NEW new, NEW error, DataHandler(w, s, new, error), UNCHANGED sharedEnv
      PROVE  SoleInv'
  <2>1. Answer(w, s, [op |-> op, error |-> error])
    BY <1>4 DEF DataHandler, Enters
  <2> QED
    BY <1>4, <2>1, QuietAnswer DEF Enters, Filling
<1>5. ASSUME NEW op \in {"LISTEN", "CONNECT"}, NEW new, Leave(w, s, op, new)
      PROVE  SoleInv'
  BY <1>4, <1>5 DEF Leave
<1>6. CASE DataListen(w, s) \/ DataConnect(w, s)
  BY <1>5, <1>6 DEF DataListen, DataConnect
<1>7. CASE DataAbort(w, s)
  BY <1>4, <1>7 DEF DataAbort
<1> QED
  BY <1>1, <1>2, <1>3, <1>6, <1>7

LEMMA SoleStop ==
    ASSUME OneWorker, DataInv, SoleInv, NEW w \in Workers, NEW s \in Sessions, DataStop(w, s)
    PROVE  SoleInv'
<1>1. worker[w].pc = "lock" /\ worker[w].request.op = "STOP" /\ ~Filling(w)
  BY DEF DataStop, Enters, At, Filling
<1>2. CASE DataHandler(w, s, dataState[s], IllegalState) /\ UNCHANGED sharedEnv
  BY <1>1, <1>2, QuietAnswer DEF DataHandler
<1>3. CASE /\ DataHandler(w, s, NDMP_DATA_STATE_IDLE, NoErr)
           /\ envLen' = 0 /\ envVal' = Null
           /\ sentEnv' = [sentEnv EXCEPT ![s] = Null] /\ setter' = s
  <2>1. /\ worker'[w] = Resting /\ \A v \in Workers : v = w
        /\ reply'[s].op = "STOP"
    BY <1>1, <1>3 DEF DataHandler, Answer, DataInv, TypeOK, OneWorker
  <2>2. EnvFilled' /\ Unanswered' /\ LengthRead'
    BY <2>1 DEF EnvFilled, Filling, Unanswered, LengthRead, Inside, Resting
  <2>3. \A q \in Sessions : setter' \in {q, Free} => q = s
    BY <1>3, DataServerAssumption DEF Free
  <2>4. EnvOfSetter'
    BY <1>3, <2>3 DEF EnvOfSetter, DataInv, TypeOK
  <2>5. EnvOfOwnBackup'
    BY <2>1, <2>3 DEF EnvOfOwnBackup
  <2> QED
    BY <2>2, <2>4, <2>5 DEF SoleInv
<1> QED
  BY <1>2, <1>3 DEF DataStop

LEMMA SoleGetEnv ==
    ASSUME OneWorker, DataInv, SoleInv, NEW w \in Workers, NEW s \in Sessions,
           GetEnvLength(w, s) \/ GetEnvValues(w, s)
    PROVE  SoleInv'
<1> USE DEF history, envVars
<1>1. CASE GetEnvLength(w, s)
  <2>1. /\ worker[w].pc = "lock" /\ worker[w].session = s /\ ~Filling(w)
        /\ worker'[w].pc = "values" /\ worker'[w].session = s /\ worker'[w].len = envLen
        /\ UNCHANGED <<reply, sharedEnv>>
    BY <1>1 DEF GetEnvLength, Enters, At, Filling, sharedEnv, DataInv, TypeOK
  <2>2. ~Filling(w)'
    BY <2>1 DEF Filling
  <2> QED
    BY <2>1, <2>2, QuietStep DEF Inside
<1>2. CASE GetEnvValues(w, s)
  <2> DEFINE values == IF envLen = 0 THEN Null ELSE envVal
             env == IF worker[w].len = 0 THEN Null ELSE values
  <2>1. /\ worker[w].pc = "values" /\ worker[w].session = s /\ ~Filling(w)
        /\ Answer(w, s, [op |-> "GET_ENV", error |-> NoErr, env |-> env])
        /\ UNCHANGED sharedEnv
    BY <1>2 DEF GetEnvValues, At, Filling, sharedEnv
  <2>2. worker'[w] = Resting /\ \A v \in Workers : v = w
    BY <2>1 DEF Answer, DataInv, TypeOK, OneWorker
  <2>3. /\ \A q \in Sessions : q # s => reply'[q] = reply[q]
        /\ reply'[s].env = env
    BY <2>1 DEF Answer, DataInv, TypeOK
  <2>4. env = values
    BY <2>1 DEF SoleInv, LengthRead
  <2>5. EnvFilled' /\ Unanswered' /\ LengthRead'
    BY <2>2 DEF EnvFilled, Filling, Unanswered, LengthRead, Inside, Resting
  <2>6. \A q \in Sessions : setter \in {q, Free} => values = sentEnv[q]
    BY <2>1, <2>2 DEF SoleInv, EnvOfSetter
  <2>7. EnvOfSetter'
    BY <2>1, <2>2 DEF SoleInv, EnvOfSetter, sharedEnv
  <2> HIDE DEF env, values
  <2>8. EnvOfOwnBackup'
    BY <2>1, <2>3, <2>4, <2>6 DEF SoleInv, EnvOfOwnBackup, sharedEnv
  <2> QED
    BY <2>5, <2>7, <2>8 DEF SoleInv
<1> QED
  BY <1>1, <1>2

LEMMA SoleCopy ==
    ASSUME OneWorker, DataInv, SoleInv, NEW w \in Workers, NEW s \in Sessions, CopyEnv(w, s)
    PROVE  SoleInv'
<1> DEFINE env == worker[w].request.env
<1>1. /\ worker[w].pc = "copy" /\ worker[w].session = s
      /\ worker[w].request.op = "START_BACKUP"
  BY DEF CopyEnv, At, DataInv, LockParts, OperationsStarted
<1>2. env \in Envs
  BY <1>1, HandlerKinds, RequestKinds DEF DataInv, Resting
<1>3. envVal = Fresh /\ setter = s /\ reply[s] = NoReply
  BY <1>1 DEF SoleInv, EnvFilled, Filling, Unanswered, Inside
<1>4. /\ envLen' = 1 /\ envVal' = env /\ sentEnv'[s] = env
      /\ \A q \in Sessions : q # s => sentEnv'[q] = sentEnv[q]
      /\ UNCHANGED <<setter, reply>>
  BY <1>3, EnvNames DEF CopyEnv, DataInv, TypeOK
<1>5. /\ worker'[w].pc = "transfer" /\ worker'[w].session = s
      /\ \A v \in Workers : v = w
  <2>1. worker[w] \in [pc : {"copy", "transfer", "finish"}, session : Sessions,
                       request : Requests, error : {NoErr, IllegalState}, done : BOOLEAN]
    BY <1>1, HandlerKinds DEF DataInv
  <2>2. worker'[w] = [worker[w] EXCEPT !.pc = "transfer"]
    BY DEF CopyEnv, DataInv, TypeOK
  <2> QED
    BY <1>1, <2>1, <2>2 DEF OneWorker
<1>6. EnvFilled' /\ Unanswered' /\ LengthRead'
  BY <1>3, <1>4, <1>5 DEF EnvFilled, Filling, Unanswered, LengthRead
<1>7. \A q \in Sessions : setter' \in {q, Free} => q = s
  BY <1>3, <1>4, DataServerAssumption DEF Free
<1>8. EnvOfSetter'
  BY <1>2, <1>4, <1>7 DEF EnvOfSetter
<1>9. EnvOfOwnBackup'
  BY <1>3, <1>4, <1>7, EnvNames DEF EnvOfOwnBackup
<1> QED
  BY <1>6, <1>8, <1>9 DEF SoleInv

LEMMA SoleOperation ==
    ASSUME OneWorker, DataInv, SoleInv, NEW w \in Workers, NEW s \in Sessions,
           \/ StartOperation(w, s) \/ TransferSucceeds(w, s)
           \/ TransferFails(w, s) \/ RecoverDies(w, s) \/ Finish(w, s)
    PROVE  SoleInv'
<1> USE DEF history, envVars
<1>1. CASE StartOperation(w, s)
  <2>1. /\ worker[w].pc = "lock" /\ worker[w].session = s
        /\ worker'[w].session = s /\ worker'[w].request = worker[w].request
        /\ worker'[w].pc = IF worker[w].request.op = "START_BACKUP" THEN "copy" ELSE "transfer"
        /\ UNCHANGED <<reply, sharedEnv>>
    BY <1>1 DEF StartOperation, Enters, At, sharedEnv, DataInv, TypeOK
  <2>2. Filling(w)' <=> Filling(w)
    BY <2>1 DEF Filling
  <2> QED
    BY <2>1, <2>2, QuietStep DEF Inside
<1>2. CASE TransferSucceeds(w, s) \/ TransferFails(w, s)
  <2>1. worker[w].pc = "transfer" /\ UNCHANGED <<reply, sharedEnv>>
    BY <1>2 DEF TransferSucceeds, TransferFails, At, sharedEnv
  <2>2. worker[w] \in [pc : {"copy", "transfer", "finish"}, session : Sessions,
                       request : Requests, error : {NoErr, IllegalState}, done : BOOLEAN]
    BY <2>1, HandlerKinds DEF DataInv
  <2>3. \/ worker'[w] = [worker[w] EXCEPT !.pc = "finish", !.done = TRUE]
        \/ worker'[w] = [worker[w] EXCEPT !.pc = "finish", !.error = IllegalState]
    BY <1>2 DEF TransferSucceeds, TransferFails, DataInv, TypeOK
  <2>4. worker'[w].pc = "finish" /\ worker'[w].session = worker[w].session
    BY <2>2, <2>3
  <2> QED
    BY <2>1, <2>4, QuietStep DEF Inside, Filling
<1>3. CASE RecoverDies(w, s)
  BY <1>3, QuietStep DEF RecoverDies, At, Inside, Filling, sharedEnv
<1>4. CASE Finish(w, s)
  <2>1. worker[w].pc = "finish" /\ worker[w].request.op \in StartOps
    BY <1>4 DEF Finish, At, DataInv, LockParts, OperationsStarted
  <2> QED
    BY <1>4, <2>1, QuietAnswer DEF Finish, Filling, StartOps, sharedEnv
<1> QED
  BY <1>1, <1>2, <1>3, <1>4

LEMMA SoleNext == OneWorker /\ DataInv /\ SoleInv /\ [Next]_vars => SoleInv'
<1> SUFFICES ASSUME OneWorker, DataInv, SoleInv, [Next]_vars PROVE SoleInv'
  OBVIOUS
<1>1. CASE UNCHANGED vars
  BY <1>1 DEF vars, envVars, SoleInv, EnvFilled, EnvOfSetter, Filling, Unanswered,
     LengthRead, EnvOfOwnBackup
<1>2. CASE Next
  <2>1. PICK w \in Workers, s \in Sessions :
            Handle(w, s) \/ \E r \in Requests : Begin(w, s, r)
    BY <1>2 DEF Next
  <2>2. CASE Handle(w, s)
    BY <2>2, SoleShort, SoleStop, SoleGetEnv, SoleCopy, SoleOperation DEF Handle
  <2> QED
    BY <2>1, <2>2, SoleBegin
<1> QED
  BY <1>1, <1>2

LEMMA SoleSpec == ASSUME OneWorker PROVE Spec => []SoleInv
<1>1. DataInv /\ SoleInv /\ [Next]_vars => SoleInv'
  BY SoleNext
<1> QED
  BY <1>1, SoleInit, SpecInv, PTL DEF Spec

\* With one worker EnvUsable is an invariant: no handler dereferences a null
\* env_val, or sends strings that nobody has filled in.
THEOREM EnvStaysUsable == ASSUME OneWorker PROVE Spec => []EnvUsable
<1>1. ASSUME DataInv, SoleInv PROVE EnvUsable
  <2>1. ASSUME NEW w \in Workers, worker[w].pc = "copy" PROVE envVal # Null
    BY <1>1, <2>1, EnvNames DEF SoleInv, EnvFilled, Filling, DataInv, LockParts,
       OperationsStarted
  <2>2. ASSUME NEW w \in Workers, worker[w].pc = "values", envLen # 0 \/ worker[w].len # 0
        PROVE  worker[w].len = envLen /\ envVal \in Envs
    <3>1. worker[w].len = envLen
      BY <1>1, <2>2 DEF SoleInv, LengthRead
    <3>2. \A v \in Workers : ~Filling(v)
      BY <2>2 DEF OneWorker, Filling
    <3> QED
      BY <1>1, <2>2, <3>1, <3>2 DEF SoleInv, EnvOfSetter
  <2> QED
    BY <2>1, <2>2 DEF EnvUsable
<1> QED
  BY <1>1, SpecInv, SoleSpec, PTL

\* With one worker EnvOfOwnBackup is an invariant: GET_ENV returns the
\* environment of the session's own last START_BACKUP, unless another session
\* has replaced it.
THEOREM EnvStaysOwn == ASSUME OneWorker PROVE Spec => []EnvOfOwnBackup
<1>1. SoleInv => EnvOfOwnBackup
  BY DEF SoleInv
<1> QED
  BY <1>1, SoleSpec, PTL

-----------------------------------------------------------------------------
(***************************************************************************)
(* One worker and clients that start operations only when CONNECTED: the   *)
(* data states follow the draft, and replies say what happened.            *)
(***************************************************************************)

\* The state that a START handler has found is the one it needs, and stays.
LegalStart == \A w \in Workers :
    LET state == dataState[worker[w].session] IN
    /\ worker[w].pc = "lock" /\ worker[w].request.op \in StartOps =>
          state = NDMP_DATA_STATE_CONNECTED
    /\ worker[w].pc \in {"copy", "transfer"} =>
          state = NDMP_DATA_STATE_ACTIVE /\ worker[w].error = NoErr /\ ~worker[w].done
    /\ worker[w].pc = "finish" =>
          /\ state \in {NDMP_DATA_STATE_ACTIVE, NDMP_DATA_STATE_HALTED}
          /\ worker[w].error = NoErr <=> worker[w].done

LEMMA LegalNext ==
    ASSUME OneWorker, Obedient = TRUE, DataInv, LegalStart, [Next]_vars
    PROVE  LegalStart'
<1>1. CASE UNCHANGED vars
  BY <1>1 DEF vars, stateVars, LegalStart
<1>2. CASE Next
  <2>1. PICK w \in Workers, s \in Sessions :
            Handle(w, s) \/ \E r \in Requests : Begin(w, s, r)
    BY <1>2 DEF Next
  <2>2. \A v \in Workers : v = w
    BY DEF OneWorker
  <2>3. ASSUME NEW r \in Requests, Begin(w, s, r) PROVE LegalStart'
    <3>1. worker'[w] = [pc |-> "lock", session |-> s, request |-> r] /\ UNCHANGED dataState
      BY <2>3 DEF Begin, stateVars, DataInv, TypeOK
    <3>2. r.op \in StartOps => dataState[s] = NDMP_DATA_STATE_CONNECTED
      BY <2>3 DEF Begin, MayStart
    <3> QED
      BY <2>2, <3>1, <3>2 DEF LegalStart
  <2>4. ASSUME worker'[w] = Resting PROVE LegalStart'
    BY <2>2, <2>4 DEF LegalStart, Resting
  <2>5. CASE \/ ConnectOpen(w, s) \/ ConnectClose(w, s) \/ GetState(w, s)
             \/ GetEnvValues(w, s) \/ Finish(w, s)
    <3>1. \E answer : Answer(w, s, answer)
      BY <2>5 DEF ConnectOpen, ConnectClose, GetState, GetEnvValues, Finish
    <3> QED
      BY <2>4, <3>1 DEF Answer, DataInv, TypeOK
  <2>6. CASE DataListen(w, s) \/ DataConnect(w, s) \/ DataAbort(w, s) \/ DataStop(w, s)
    <3>1. \E answer : Answer(w, s, answer)
      BY <2>6 DEF DataListen, DataConnect, Leave, DataAbort, DataStop, DataHandler
    <3> QED
      BY <2>4, <3>1 DEF Answer, DataInv, TypeOK
  <2>7. CASE GetEnvLength(w, s)
    <3>1. worker'[w].pc = "values"
      BY <2>7 DEF GetEnvLength, DataInv, TypeOK
    <3> QED
      BY <2>2, <3>1 DEF LegalStart
  <2>8. CASE StartOperation(w, s)
    <3>1. /\ worker[w].pc = "lock" /\ worker[w].session = s
          /\ worker[w].request.op \in StartOps
      BY <2>8 DEF StartOperation, Enters, At
    <3>2. dataState[s] = NDMP_DATA_STATE_CONNECTED
      BY <3>1 DEF LegalStart
    <3>3. /\ worker'[w].pc \in {"copy", "transfer"} /\ worker'[w].session = s
          /\ worker'[w].error = NoErr /\ worker'[w].done = FALSE
          /\ dataState'[s] = NDMP_DATA_STATE_ACTIVE
      BY <2>8, <3>2 DEF StartOperation, DataInv, TypeOK
    <3> QED
      BY <2>2, <3>3 DEF LegalStart
  <2>9. CASE CopyEnv(w, s) \/ TransferSucceeds(w, s) \/ TransferFails(w, s)
    <3>1. worker[w].pc \in {"copy", "transfer"} /\ worker[w].session = s
      BY <2>9 DEF CopyEnv, TransferSucceeds, TransferFails, At
    <3>2. /\ dataState[s] = NDMP_DATA_STATE_ACTIVE
          /\ worker[w].error = NoErr /\ worker[w].done = FALSE
          /\ worker[w] \in [pc : {"copy", "transfer", "finish"}, session : Sessions,
                            request : Requests, error : {NoErr, IllegalState}, done : BOOLEAN]
      BY <3>1, HandlerKinds DEF LegalStart, DataInv
    <3>3. CASE CopyEnv(w, s)
      <4>1. worker'[w] = [worker[w] EXCEPT !.pc = "transfer"] /\ UNCHANGED dataState
        BY <3>3 DEF CopyEnv, stateVars, DataInv, TypeOK
      <4> QED
        BY <2>2, <3>1, <3>2, <4>1 DEF LegalStart
    <3>4. CASE TransferSucceeds(w, s)
      <4>1. /\ worker'[w] = [worker[w] EXCEPT !.pc = "finish", !.done = TRUE]
            /\ UNCHANGED dataState
        BY <3>4 DEF TransferSucceeds, stateVars, DataInv, TypeOK
      <4> QED
        BY <2>2, <3>1, <3>2, <4>1 DEF LegalStart
    <3>5. CASE TransferFails(w, s)
      <4>1. /\ worker'[w] = [worker[w] EXCEPT !.pc = "finish", !.error = IllegalState]
            /\ dataState'[s] = NDMP_DATA_STATE_HALTED
        BY <3>5 DEF TransferFails, DataInv, TypeOK
      <4> QED
        BY <2>2, <3>1, <3>2, <4>1, ErrorFacts DEF LegalStart
    <3> QED
      BY <2>9, <3>3, <3>4, <3>5
  <2>10. CASE RecoverDies(w, s)
    BY <2>10 DEF RecoverDies, stateVars, LegalStart
  <2> QED
    BY <2>1, <2>3, <2>5, <2>6, <2>7, <2>8, <2>9, <2>10 DEF Handle
<1> QED
  BY <1>1, <1>2

LEMMA LegalSpec ==
    ASSUME OneWorker, Obedient = TRUE
    PROVE  Spec => []LegalStart
<1>1. Init => LegalStart
  BY DEF Init, LegalStart, Resting
<1>2. DataInv /\ LegalStart /\ [Next]_vars => LegalStart'
  BY LegalNext
<1> QED
  BY <1>1, <1>2, SpecInv, PTL DEF Spec

\* HonestReply: the reply to a START request is NDMP_NO_ERR if and only if mount
\* and rsync have succeeded.
THEOREM RepliesAreHonest ==
    ASSUME OneWorker, Obedient = TRUE
    PROVE  Spec => HonestReply
<1> DEFINE Honest == \A w \in Workers, s \in Sessions :
          worker[w].pc = "finish" /\ worker[w].session = s /\ worker'[w] = Resting =>
              (reply'[s].error = NoErr <=> worker[w].done)
<1>1. ASSUME DataInv, LegalStart, [Next]_vars PROVE [Honest]_vars
  <2> SUFFICES ASSUME Next, NEW v \in Workers, NEW q \in Sessions,
                      worker[v].pc = "finish", worker[v].session = q, worker'[v] = Resting
               PROVE  reply'[q].error = NoErr <=> worker[v].done
    BY <1>1
  <2>1. PICK w \in Workers, s \in Sessions :
            Handle(w, s) \/ \E r \in Requests : Begin(w, s, r)
    BY DEF Next
  <2>2. v = w
    BY DEF OneWorker
  <2>3. Handle(w, s)
    BY <2>1, <2>2 DEF Begin, Resting
  <2>4. Finish(w, s) \/ RecoverDies(w, s)
    BY <2>2, <2>3 DEF Handle, ConnectOpen, ConnectClose, GetState, DataListen, DataConnect,
       Leave, DataAbort, DataStop, GetEnvLength, GetEnvValues, StartOperation, CopyEnv,
       TransferSucceeds, TransferFails, Enters, At
  <2>5. Finish(w, s)
    BY <2>2, <2>4 DEF RecoverDies, At
  <2>6. q = s /\ reply'[s].error = worker[v].error
    <3>1. reply'[s] = [op |-> worker[w].request.op, error |-> worker[w].error]
      BY <1>1, <2>5 DEF Finish, Answer, DataInv, TypeOK
    <3> QED
      BY <2>2, <2>5, <3>1 DEF Finish, At
  <2> QED
    BY <1>1, <2>6 DEF LegalStart
<1>2. DataInv /\ LegalStart /\ [Next]_vars => [Honest]_vars
  BY <1>1
<1> QED
  BY <1>2, SpecInv, LegalSpec, PTL DEF Spec, HonestReply

\* A handler that moves the data state of s follows an arc of the diagram.
LEMMA FollowsArc ==
    ASSUME TypeOK, NEW s \in Sessions, NEW new \in 0..4,
           dataState' = [dataState EXCEPT ![s] = new],
           NEW from, StateName[dataState[s]] \in from
    PROVE  Protocol!Arc(s, from, StateName[new])
<1>1. \A r \in Sessions : dataState'[r] = IF r = s THEN new ELSE dataState[r]
  BY DEF TypeOK
<1>2. [r \in Sessions |-> StateName[dataState[r]]]'
          = [r \in Sessions |-> IF r = s THEN StateName[new] ELSE StateName[dataState[r]]]
  BY <1>1 DEF StateName
<1> QED
  BY <1>2 DEF Protocol!Arc

LEMMA Names ==
    /\ StateName[NDMP_DATA_STATE_IDLE] = "idle" /\ StateName[NDMP_DATA_STATE_ACTIVE] = "active"
    /\ StateName[NDMP_DATA_STATE_HALTED] = "halted"
    /\ StateName[NDMP_DATA_STATE_LISTEN] = "listen"
    /\ StateName[NDMP_DATA_STATE_CONNECTED] = "connected"
    /\ \A n \in 0..4 : n \notin {NDMP_DATA_STATE_IDLE, NDMP_DATA_STATE_HALTED} =>
           StateName[n] \in {"listen", "connected", "active"}
BY StateFacts DEF StateName

\* ImplementsProtocol: the data states of the sessions follow the diagram of the
\* NDMP draft, step by step.
THEOREM RefinesProtocol ==
    ASSUME OneWorker, Obedient = TRUE, "CLOSE" \notin Ops
    PROVE  Spec => ImplementsProtocol
<1> DEFINE Stays == UNCHANGED [s \in Sessions |-> StateName[dataState[s]]]
<1>1. Init => Protocol!Init
  BY Names DEF Init, Protocol!Init
<1>2. ASSUME DataInv, LegalStart, [Next]_vars
      PROVE  Protocol!Next \/ Stays
  <2>1. UNCHANGED dataState => Stays
    OBVIOUS
  <2>2. ASSUME Next PROVE Protocol!Next \/ Stays
    <3>1. PICK w \in Workers, s \in Sessions :
              Handle(w, s) \/ \E r \in Requests : Begin(w, s, r)
      BY <2>2 DEF Next
    <3>2. dataState[s] \in 0..4
      BY <1>2 DEF DataInv, TypeOK
    <3>3. CASE UNCHANGED dataState
      BY <2>1, <3>3
    <3>4. CASE \E r \in Requests : Begin(w, s, r)
      BY <2>1, <3>4 DEF Begin, stateVars
    <3>5. CASE \/ ConnectOpen(w, s) \/ GetState(w, s) \/ GetEnvLength(w, s)
               \/ GetEnvValues(w, s) \/ CopyEnv(w, s) \/ TransferSucceeds(w, s)
               \/ RecoverDies(w, s)
      BY <2>1, <3>5 DEF ConnectOpen, GetState, GetEnvLength, GetEnvValues, CopyEnv,
         TransferSucceeds, RecoverDies, stateVars
    <3>6. ~ConnectClose(w, s)
      BY <1>2, HandlerKinds, RequestKinds DEF ConnectClose, Enters, At, DataInv, Resting
    <3>7. \A new, error : DataHandler(w, s, new, error) =>
              dataState' = [dataState EXCEPT ![s] = new]
      BY DEF DataHandler
    <3>8. dataState' = [dataState EXCEPT ![s] = dataState[s]] => UNCHANGED dataState
      BY <1>2 DEF DataInv, TypeOK
    <3>9. CASE DataListen(w, s)
      <4>1. \/ UNCHANGED dataState
            \/ /\ dataState[s] = NDMP_DATA_STATE_IDLE
               /\ dataState' = [dataState EXCEPT ![s] = NDMP_DATA_STATE_LISTEN]
        BY <3>7, <3>8, <3>9 DEF DataListen, Leave
      <4>2. UNCHANGED dataState \/ Protocol!Arc(s, {"idle"}, "listen")
        BY <1>2, <4>1, FollowsArc, Names, StateFacts DEF DataInv
      <4> QED
        BY <2>1, <4>2 DEF Protocol!Next, Protocol!Listen
    <3>10. CASE DataConnect(w, s)
      <4>1. \/ UNCHANGED dataState
            \/ /\ dataState[s] = NDMP_DATA_STATE_IDLE
               /\ dataState' = [dataState EXCEPT ![s] = NDMP_DATA_STATE_CONNECTED]
        BY <3>7, <3>8, <3>10 DEF DataConnect, Leave
      <4>2. UNCHANGED dataState \/ Protocol!Arc(s, {"idle"}, "connected")
        BY <1>2, <4>1, FollowsArc, Names, StateFacts DEF DataInv
      <4> QED
        BY <2>1, <4>2 DEF Protocol!Next, Protocol!Connect
    <3>11. CASE DataAbort(w, s)
      <4>1. \/ UNCHANGED dataState
            \/ /\ dataState[s] \notin {NDMP_DATA_STATE_IDLE, NDMP_DATA_STATE_HALTED}
               /\ dataState' = [dataState EXCEPT ![s] = NDMP_DATA_STATE_HALTED]
        BY <3>7, <3>8, <3>11 DEF DataAbort
      <4>2. UNCHANGED dataState \/ Protocol!Arc(s, {"listen", "connected", "active"}, "halted")
        BY <1>2, <3>2, <4>1, FollowsArc, Names, StateFacts DEF DataInv
      <4> QED
        BY <2>1, <4>2 DEF Protocol!Next, Protocol!Abort
    <3>12. CASE DataStop(w, s)
      <4>1. \/ UNCHANGED dataState
            \/ /\ dataState[s] = NDMP_DATA_STATE_HALTED
               /\ dataState' = [dataState EXCEPT ![s] = NDMP_DATA_STATE_IDLE]
        BY <3>7, <3>8, <3>12 DEF DataStop
      <4>2. UNCHANGED dataState \/ Protocol!Arc(s, {"halted"}, "idle")
        BY <1>2, <4>1, FollowsArc, Names, StateFacts DEF DataInv
      <4> QED
        BY <2>1, <4>2 DEF Protocol!Next, Protocol!Stop
    <3>13. CASE StartOperation(w, s)
      <4>1. dataState[s] = NDMP_DATA_STATE_CONNECTED
        BY <1>2, <3>13 DEF StartOperation, Enters, At, LegalStart
      <4>2. dataState' = [dataState EXCEPT ![s] = NDMP_DATA_STATE_ACTIVE]
        BY <3>13, <4>1 DEF StartOperation
      <4>3. /\ NDMP_DATA_STATE_ACTIVE \in 0..4 /\ TypeOK
            /\ StateName[dataState[s]] = "connected"
            /\ StateName[NDMP_DATA_STATE_ACTIVE] = "active"
        BY <1>2, <4>1, Names, StateFacts DEF DataInv
      <4>4. Protocol!Arc(s, {"connected"}, "active")
        BY <4>2, <4>3, FollowsArc
      <4> QED
        BY <4>4 DEF Protocol!Next, Protocol!Start
    <3>14. CASE TransferFails(w, s) \/ Finish(w, s)
      <4>1. dataState' = [dataState EXCEPT ![s] = NDMP_DATA_STATE_HALTED]
        BY <3>14 DEF TransferFails, Finish
      <4>2. dataState[s] \in {NDMP_DATA_STATE_ACTIVE, NDMP_DATA_STATE_HALTED}
        BY <1>2, <3>14 DEF TransferFails, Finish, At, LegalStart
      <4>3. /\ NDMP_DATA_STATE_HALTED \in 0..4 /\ TypeOK
            /\ StateName[NDMP_DATA_STATE_ACTIVE] = "active"
            /\ StateName[NDMP_DATA_STATE_HALTED] = "halted"
        BY <1>2, Names, StateFacts DEF DataInv
      <4>4. UNCHANGED dataState \/ Protocol!Arc(s, {"active"}, "halted")
        BY <3>8, <4>1, <4>2, <4>3, FollowsArc
      <4> QED
        BY <2>1, <4>4 DEF Protocol!Next, Protocol!Finish
    <3> QED
      BY <3>1, <3>4, <3>5, <3>6, <3>9, <3>10, <3>11, <3>12, <3>13, <3>14 DEF Handle
  <2> QED
    BY <1>2, <2>1, <2>2 DEF vars, stateVars
<1>3. DataInv /\ LegalStart /\ [Next]_vars
          => [Protocol!Next]_([s \in Sessions |-> StateName[dataState[s]]])
  BY <1>2
<1> QED
  BY <1>1, <1>3, SpecInv, LegalSpec, PTL DEF Spec, ImplementsProtocol, Protocol!Spec
=============================================================================
