----------------------------- MODULE DataServer -----------------------------
(***************************************************************************)
(* The handlers of the connect and data interfaces: ndmp/src/ndmp_connect.c*)
(* and ndmp/src/ndmp_data.c, as the worker threads run them for the        *)
(* sessions' requests.                                                     *)
(*                                                                         *)
(* A handler takes the session's s_lock, tests and changes the session's   *)
(* states and leaves a reply in the transaction.  Most of them touch       *)
(* nothing outside the lock and are one step here.  The two START handlers *)
(* hold the lock while mount(8) and rsync(1) run, and are split where      *)
(* another thread can see an intermediate state.  All sessions share one   *)
(* `struct environment' (ndmp_data.c:21-30), which the s_lock of a session *)
(* does not protect.                                                       *)
(*                                                                         *)
(* Abstracted: which transaction carries which request (NdmpServer models  *)
(* that), the lookup of the session info (here a session has exactly one), *)
(* the paths and volumes given to mount and rsync, of which only success   *)
(* and failure remain.  Every environment a client sends is assumed to     *)
(* name FILESYSTEM and USER, within the sizes the handlers allocate.       *)
(***************************************************************************)
EXTENDS Naturals

CONSTANTS Sessions,   \* sessions of the connect interface, one info each
          Workers,    \* the threads of the pool
          Envs,       \* the environments clients send with NDMP_DATA_START_BACKUP
          Ops,        \* the requests clients send, a subset of AllOps
          Obedient    \* TRUE: clients send START_* only in the CONNECTED state

StartOps == {"START_BACKUP", "START_RECOVER"}
AllOps == StartOps \cup {"OPEN", "CLOSE", "GET_STATE", "LISTEN", "CONNECT",
                         "ABORT", "STOP", "GET_ENV"}

ASSUME DataServerAssumption ==
    /\ Ops \subseteq AllOps
    /\ Obedient \in BOOLEAN
    /\ Envs \cap {"null", "fresh"} = {}
    /\ "none" \notin Workers \cup Sessions

(***************************************************************************)
(* The values the code stores.  data_state is declared with the enumeration*)
(* of ndmp_msg.h, and the data handlers store the constants of ndmp.x in   *)
(* it, which number the same names differently.                            *)
(***************************************************************************)
NDMP_DATA_STATE_IDLE      == 0
NDMP_DATA_STATE_ACTIVE    == 1
NDMP_DATA_STATE_HALTED    == 2
NDMP_DATA_STATE_LISTEN    == 3
NDMP_DATA_STATE_CONNECTED == 4

LISTEN    == 1        \* enum ndmp_state
CONNECTED == 2
HALTED    == 4

Null  == "null"       \* env_val after init_environment
Fresh == "fresh"      \* env_val of a malloc whose strings are not yet copied
Free  == "none"       \* the s_lock of a session no worker holds

VARIABLES
    alive,        \* the server process has not crashed
    connState,    \* connection_state of each session
    dataState,    \* data_state of each session
    lock,         \* lock[s]: the worker that holds the s_lock of s, or Free
    envLen,       \* the static environment: 0, or 1 for "not empty"
    envVal,       \* the static environment: Null, Fresh or an environment
    worker,       \* worker[w]: the handler that w runs
    reply,        \* reply[s]: the reply to the last request of s
    sentEnv,      \* history: environment of the last backup of s, until STOP
    setter,       \* history: the session that last replaced the environment
    closed        \* history: the sessions that sent NDMP_CONNECT_CLOSE

vars == <<alive, connState, dataState, lock, envLen, envVal, worker, reply,
          sentEnv, setter, closed>>
stateVars == <<connState, dataState>>
envVars   == <<envLen, envVal>>
sharedEnv == <<envVars, sentEnv, setter>>
history   == <<sentEnv, setter, closed>>

Requests ==
    {r \in      [op : AllOps \ {"OPEN", "LISTEN", "CONNECT", "START_BACKUP"}]
           \cup [op : {"OPEN"}, version : {"zero", "supported", "newer"}]
           \cup [op : {"LISTEN", "CONNECT"}, local : BOOLEAN]
           \cup [op : {"START_BACKUP"}, env : Envs] : r.op \in Ops}

NoErr == "NDMP_NO_ERR"
IllegalState == "NDMP_ILLEGAL_STATE_ERR"
IllegalArgs == "NDMP_ILLEGAL_ARGS_ERR"
Garbage == "uninitialised"
Errors == {NoErr, IllegalState, IllegalArgs, Garbage}

NoReply == [op |-> "none"]
Replies == {NoReply}
      \cup [op : AllOps \ {"GET_ENV"}, error : Errors]
      \cup [op : {"GET_ENV"}, error : Errors, env : Envs \cup {Null, Fresh}]

Resting == [pc |-> "rest"]
Handlers == {Resting}
      \cup [pc : {"lock"}, session : Sessions, request : Requests]
      \cup [pc : {"copy", "transfer", "finish"}, session : Sessions,
            request : Requests, error : {NoErr, IllegalState}, done : BOOLEAN]
      \cup [pc : {"values"}, session : Sessions, request : Requests, len : 0..1]

TypeOK ==
    /\ alive \in BOOLEAN
    /\ connState \in [Sessions -> {LISTEN, CONNECTED, HALTED}]
    /\ dataState \in [Sessions -> 0..4]
    /\ lock \in [Sessions -> Workers \cup {Free}]
    /\ envLen \in 0..1
    /\ envVal \in Envs \cup {Null, Fresh}
    /\ worker \in [Workers -> Handlers]
    /\ reply \in [Sessions -> Replies]
    /\ sentEnv \in [Sessions -> Envs \cup {Null}]
    /\ setter \in Sessions \cup {Free}
    /\ closed \subseteq Sessions

\* The info of a new session (get_session_info) and an environment that no
\* backup has filled (get_environment).
Init ==
    /\ alive = TRUE
    /\ connState = [s \in Sessions |-> LISTEN]
    /\ dataState = [s \in Sessions |-> NDMP_DATA_STATE_IDLE]
    /\ lock = [s \in Sessions |-> Free]
    /\ envLen = 0
    /\ envVal = Null
    /\ worker = [w \in Workers |-> Resting]
    /\ reply = [s \in Sessions |-> NoReply]
    /\ sentEnv = [s \in Sessions |-> Null]
    /\ setter = Free
    /\ closed = {}

-----------------------------------------------------------------------------
(***************************************************************************)
(* Calling a handler.                                                      *)
(***************************************************************************)

Busy(s) == \E w \in Workers : worker[w] # Resting /\ worker[w].session = s

\* What an obedient client knows when it sends a START request: it has the
\* answers to all its earlier requests, and the session is in CONNECTED.
MayStart(s) == ~Obedient \/ (~Busy(s) /\ dataState[s] = NDMP_DATA_STATE_CONNECTED)

\* A worker calls the handler of request r, up to its enter_critical_section.
\* start_backup replaces the shared env_val before that, with no lock held.
Begin(w, s, r) ==
    /\ worker[w] = Resting
    /\ r.op \in StartOps => MayStart(s)
    /\ worker' = [worker EXCEPT ![w] = [pc |-> "lock", session |-> s, request |-> r]]
    /\ envVal' = IF r.op = "START_BACKUP" THEN Fresh ELSE envVal
    /\ setter' = IF r.op = "START_BACKUP" THEN s ELSE setter
    /\ reply' = [reply EXCEPT ![s] = NoReply]
    /\ UNCHANGED <<alive, stateVars, lock, envLen, sentEnv, closed>>

At(w, s, pc) == worker[w].pc = pc /\ worker[w].session = s

\* Worker w is at the lock in the handler of op, and the lock is free.
Enters(w, s, op) ==
    /\ At(w, s, "lock")
    /\ worker[w].request.op = op
    /\ lock[s] = Free

\* The handler returns with a reply.
Answer(w, s, answer) ==
    /\ reply' = [reply EXCEPT ![s] = answer]
    /\ worker' = [worker EXCEPT ![w] = Resting]

-----------------------------------------------------------------------------
(***************************************************************************)
(* The connect interface.                                                  *)
(***************************************************************************)

\* The values reply.error can have: nothing assigns it for protocol version 0.
OpenError(s, version) ==
    IF connState[s] # LISTEN THEN {IllegalState}
    ELSE CASE version = "supported" -> {NoErr}
           [] version = "newer"     -> {IllegalArgs}
           [] OTHER                 -> {NoErr, Garbage}

ConnectOpen(w, s) ==
    /\ Enters(w, s, "OPEN")
    /\ \E error \in OpenError(s, worker[w].request.version) :
          /\ connState' = [connState EXCEPT
                             ![s] = IF error = NoErr THEN CONNECTED ELSE @]
          /\ Answer(w, s, [op |-> "OPEN", error |-> error])
    /\ UNCHANGED <<alive, dataState, lock, envVars, history>>

\* ndmp_connect_close stores HALTED of enum ndmp_state in all three states.
ConnectClose(w, s) ==
    /\ Enters(w, s, "CLOSE")
    /\ connState' = [connState EXCEPT ![s] = HALTED]
    /\ dataState' = [dataState EXCEPT ![s] = HALTED]
    /\ closed' = closed \cup {s}
    /\ Answer(w, s, NoReply)
    /\ UNCHANGED <<alive, lock, sharedEnv>>

-----------------------------------------------------------------------------
(***************************************************************************)
(* The data interface.                                                     *)
(***************************************************************************)

\* A handler that does not touch the environment: data_state becomes `new',
\* the reply is `error'.
DataHandler(w, s, new, error) ==
    /\ dataState' = [dataState EXCEPT ![s] = new]
    /\ Answer(w, s, [op |-> worker[w].request.op, error |-> error])
    /\ UNCHANGED <<alive, connState, lock, closed>>

\* The handler is empty: the reply of the transaction is whatever malloc left.
GetState(w, s) ==
    /\ At(w, s, "lock")
    /\ worker[w].request.op = "GET_STATE"
    /\ \E answer \in {NoReply, [op |-> "GET_STATE", error |-> Garbage]} :
          Answer(w, s, answer)
    /\ UNCHANGED <<alive, stateVars, lock, envVars, history>>

\* The reply and the new data_state of LISTEN and CONNECT, which differ in the
\* state they lead to.
Leave(w, s, op, new) ==
    /\ Enters(w, s, op)
    /\ CASE dataState[s] # NDMP_DATA_STATE_IDLE ->
              DataHandler(w, s, dataState[s], IllegalState)
         [] ~worker[w].request.local -> DataHandler(w, s, dataState[s], IllegalArgs)
         [] OTHER -> DataHandler(w, s, new, NoErr)
    /\ UNCHANGED sharedEnv

DataListen(w, s)  == Leave(w, s, "LISTEN", NDMP_DATA_STATE_LISTEN)
DataConnect(w, s) == Leave(w, s, "CONNECT", NDMP_DATA_STATE_CONNECTED)

\* Seeded bug: an abort is accepted in any state.
DataAbort_Always(w, s) ==
    /\ Enters(w, s, "ABORT")
    /\ DataHandler(w, s, NDMP_DATA_STATE_HALTED, NoErr)
    /\ UNCHANGED sharedEnv

DataAbort(w, s) ==
    /\ Enters(w, s, "ABORT")
    /\ IF dataState[s] \in {NDMP_DATA_STATE_HALTED, NDMP_DATA_STATE_IDLE}
       THEN DataHandler(w, s, dataState[s], IllegalState)
       ELSE DataHandler(w, s, NDMP_DATA_STATE_HALTED, NoErr)
    /\ UNCHANGED sharedEnv

\* Seeded bug: STOP leaves the environment of the backup it ends.
DataStop_KeepsEnv(w, s) ==
    /\ Enters(w, s, "STOP")
    /\ IF dataState[s] # NDMP_DATA_STATE_HALTED
       THEN DataHandler(w, s, dataState[s], IllegalState) /\ UNCHANGED <<sentEnv, setter>>
       ELSE /\ DataHandler(w, s, NDMP_DATA_STATE_IDLE, NoErr)
            /\ sentEnv' = [sentEnv EXCEPT ![s] = Null]
            /\ setter' = s
    /\ UNCHANGED envVars

\* STOP calls init_environment: the environment of every session is gone.
DataStop(w, s) ==
    /\ Enters(w, s, "STOP")
    /\ IF dataState[s] # NDMP_DATA_STATE_HALTED
       THEN DataHandler(w, s, dataState[s], IllegalState) /\ UNCHANGED sharedEnv
       ELSE /\ DataHandler(w, s, NDMP_DATA_STATE_IDLE, NoErr)
            /\ envLen' = 0
            /\ envVal' = Null
            /\ sentEnv' = [sentEnv EXCEPT ![s] = Null]
            /\ setter' = s

\* GET_ENV copies env_len into its reply ...
GetEnvLength(w, s) ==
    /\ Enters(w, s, "GET_ENV")
    /\ lock' = [lock EXCEPT ![s] = w]
    /\ worker' = [worker EXCEPT ![w] = [pc |-> "values", session |-> s,
                                        request |-> @.request, len |-> envLen]]
    /\ UNCHANGED <<alive, stateVars, envVars, reply, history>>

\* ... and then the values.  Its test of data_state (ndmp_data.c:849) is
\* satisfied in every state.  A null env_val where a length other than 0 was
\* read is dereferenced, here or when the reply is encoded.
GetEnvValues(w, s) ==
    LET values == IF envLen = 0 THEN Null ELSE envVal IN
    /\ At(w, s, "values")
    /\ alive' = (values = Null => envLen = 0 /\ worker[w].len = 0)
    /\ lock' = [lock EXCEPT ![s] = Free]
    /\ Answer(w, s, [op |-> "GET_ENV", error |-> NoErr, env |-> IF worker[w].len = 0 THEN Null ELSE values])
    /\ UNCHANGED <<stateVars, envVars, history>>

\* Seeded bug: the operation runs without the lock.
StartOperation_Unlocked(w, s) ==
    LET legal == dataState[s] = NDMP_DATA_STATE_CONNECTED
        op == worker[w].request.op IN
    /\ \E start \in StartOps : Enters(w, s, start)
    /\ dataState' = [dataState EXCEPT ![s] = IF legal THEN NDMP_DATA_STATE_ACTIVE ELSE @]
    /\ worker' = [worker EXCEPT ![w] =
                    [pc |-> IF op = "START_BACKUP" THEN "copy" ELSE "transfer",
                     session |-> s, request |-> @.request,
                     error |-> IF legal THEN NoErr ELSE IllegalState,
                     done |-> FALSE]]
    /\ UNCHANGED <<alive, connState, lock, envVars, reply, history>>

\* ndmp_data_start_backup and ndmp_data_start_recover take the lock and test
\* the state, and go on whatever it is.
StartOperation(w, s) ==
    LET legal == dataState[s] = NDMP_DATA_STATE_CONNECTED
        op == worker[w].request.op IN
    /\ \E start \in StartOps : Enters(w, s, start)
    /\ lock' = [lock EXCEPT ![s] = w]
    /\ dataState' = [dataState EXCEPT ![s] = IF legal THEN NDMP_DATA_STATE_ACTIVE ELSE @]
    /\ worker' = [worker EXCEPT ![w] =
                    [pc |-> IF op = "START_BACKUP" THEN "copy" ELSE "transfer",
                     session |-> s, request |-> @.request,
                     error |-> IF legal THEN NoErr ELSE IllegalState,
                     done |-> FALSE]]
    /\ UNCHANGED <<alive, connState, envVars, reply, history>>

\* Seeded bug: the environment is appended to what the last backup left.
CopyEnv_Appends(w, s) ==
    /\ At(w, s, "copy")
    /\ alive' = (envVal # Null)
    /\ envLen' = envLen + 1
    /\ envVal' = IF envVal = Null THEN Null ELSE worker[w].request.env
    /\ sentEnv' = [sentEnv EXCEPT ![s] = worker[w].request.env]
    /\ worker' = [worker EXCEPT ![w].pc = "transfer"]
    /\ UNCHANGED <<stateVars, lock, reply, setter, closed>>

\* Seeded bug: env_len is set when the strings are not yet copied.
CopyEnv_LengthOnly(w, s) ==
    /\ At(w, s, "copy")
    /\ envLen' = 1
    /\ sentEnv' = [sentEnv EXCEPT ![s] = worker[w].request.env]
    /\ worker' = [worker EXCEPT ![w].pc = "transfer"]
    /\ UNCHANGED <<alive, stateVars, lock, envVal, reply, setter, closed>>

\* start_backup copies the environment of the request into the shared one.
CopyEnv(w, s) ==
    /\ At(w, s, "copy")
    /\ alive' = (envVal # Null)
    /\ envLen' = 1
    /\ envVal' = IF envVal = Null THEN Null ELSE worker[w].request.env
    /\ sentEnv' = [sentEnv EXCEPT ![s] = worker[w].request.env]
    /\ worker' = [worker EXCEPT ![w].pc = "transfer"]
    /\ UNCHANGED <<stateVars, lock, reply, setter, closed>>

\* mount and rsync return 0.
TransferSucceeds(w, s) ==
    /\ At(w, s, "transfer")
    /\ worker' = [worker EXCEPT ![w].pc = "finish", ![w].done = TRUE]
    /\ UNCHANGED <<alive, stateVars, lock, envVars, reply, history>>

\* Seeded bug: the return value of rsync is dropped.
TransferFails_Unnoticed(w, s) ==
    /\ At(w, s, "transfer")
    /\ worker' = [worker EXCEPT ![w].pc = "finish"]
    /\ UNCHANGED <<alive, stateVars, lock, envVars, reply, history>>

\* Seeded bug: the handler returns from the error path without unlocking.
TransferFails_KeepsLock(w, s) ==
    /\ At(w, s, "transfer")
    /\ dataState' = [dataState EXCEPT ![s] = NDMP_DATA_STATE_HALTED]
    /\ Answer(w, s, [op |-> worker[w].request.op, error |-> IllegalState])
    /\ UNCHANGED <<alive, connState, lock, envVars, history>>

\* mount or rsync fails: goto SEND with an error.
TransferFails(w, s) ==
    /\ At(w, s, "transfer")
    /\ worker' = [worker EXCEPT ![w].pc = "finish", ![w].error = IllegalState]
    /\ dataState' = [dataState EXCEPT ![s] = NDMP_DATA_STATE_HALTED]
    /\ UNCHANGED <<alive, connState, lock, envVars, reply, history>>

\* start_recover gives realloc a pointer it never assigned (ndmp_data.c:641):
\* the process goes on as if it were NULL, or dies.
RecoverDies(w, s) ==
    /\ At(w, s, "transfer")
    /\ worker[w].request.op = "START_RECOVER"
    /\ alive' = FALSE
    /\ UNCHANGED <<stateVars, lock, envVars, worker, reply, history>>

\* Seeded bug: the lock is released before the session is halted.
Finish_LeavesActive(w, s) ==
    /\ At(w, s, "finish")
    /\ lock' = [lock EXCEPT ![s] = Free]
    /\ Answer(w, s, [op |-> worker[w].request.op, error |-> worker[w].error])
    /\ UNCHANGED <<alive, stateVars, envVars, history>>

\* The end of both START handlers, from the label SEND.
Finish(w, s) ==
    /\ At(w, s, "finish")
    /\ dataState' = [dataState EXCEPT ![s] = NDMP_DATA_STATE_HALTED]
    /\ lock' = [lock EXCEPT ![s] = Free]
    /\ Answer(w, s, [op |-> worker[w].request.op, error |-> worker[w].error])
    /\ UNCHANGED <<alive, connState, envVars, history>>

-----------------------------------------------------------------------------
\* One step of the handler that worker w runs for session s.
Handle(w, s) ==
    /\ worker[w] # Resting
    /\ \/ ConnectOpen(w, s)
       \/ ConnectClose(w, s)
       \/ GetState(w, s)
       \/ DataListen(w, s)
       \/ DataConnect(w, s)
       \/ DataAbort(w, s)
       \/ DataStop(w, s)
       \/ GetEnvLength(w, s)
       \/ GetEnvValues(w, s)
       \/ StartOperation(w, s)
       \/ CopyEnv(w, s)
       \/ TransferSucceeds(w, s)
       \/ TransferFails(w, s)
       \/ RecoverDies(w, s)
       \/ Finish(w, s)

Next ==
    /\ alive
    /\ \E w \in Workers, s \in Sessions :
          \/ Handle(w, s)
          \/ \E r \in Requests : Begin(w, s, r)

Spec == Init /\ [][Next]_vars

\* Threads are scheduled, a mutex does not pass over one of its waiters for
\* ever, and mount and rsync return.  Nothing makes clients send requests.
Fairness == \A w \in Workers : SF_vars(alive /\ \E s \in Sessions : Handle(w, s))

FairSpec == Spec /\ Fairness

-----------------------------------------------------------------------------
(***************************************************************************)
(* Properties.                                                             *)
(***************************************************************************)

Operating(w, s) == worker[w].pc \in {"copy", "transfer", "finish"} /\ worker[w].session = s

\* A session never runs two data operations at a time, whatever its clients
\* pipeline and however many threads the pool has: the START handlers keep the
\* s_lock from their test of the state to their reply (ndmp_data.c:263-499).
OneOperation == \A s \in Sessions, v, w \in Workers :
                   Operating(v, s) /\ Operating(w, s) => v = w

\* No handler ever finds a session ACTIVE: the state is left before the lock
\* is.  (So neither ABORT nor GET_STATE can meet a running operation.)
ActiveOnlyInside == \A s \in Sessions :
    dataState[s] = NDMP_DATA_STATE_ACTIVE =>
        \E w \in Workers : lock[s] = w /\ Operating(w, s)

\* No handler dereferences a null env_val or sends strings that nobody has
\* filled in: with one thread, the steps that replace the environment are
\* not seen half done (ndmp_data.c:252-291, 784-791, 845-867).
EnvUsable == \A w \in Workers :
    /\ worker[w].pc = "copy" => envVal # Null
    /\ worker[w].pc = "values" /\ (envLen # 0 \/ worker[w].len # 0) =>
          worker[w].len = envLen /\ envVal \in Envs

\* GET_ENV returns the environment that the last START_BACKUP of the session
\* carried, and none when there was no backup since its last STOP, as long as
\* no other session has replaced the shared environment since.
EnvOfOwnBackup == \A s \in Sessions :
    reply[s].op = "GET_ENV" /\ setter \in {s, Free} => reply[s].env = sentEnv[s]

\* What a client is told of an operation is what happened: NDMP_NO_ERR if and
\* only if the files were transferred.
HonestReply ==
    [][\A w \in Workers, s \in Sessions :
          worker[w].pc = "finish" /\ worker[w].session = s /\ worker'[w] = Resting =>
              (reply'[s].error = NoErr <=> worker[w].done)]_vars

\* No NDMP_NO_ERR without a transfer, even for clients that start operations
\* in the wrong state.
NoFalseSuccess == \A w \in Workers :
    worker[w].pc = "finish" /\ worker[w].error = NoErr => worker[w].done

\* The data states of a session follow the diagram of the NDMP draft, with
\* clients that start operations only in the CONNECTED state.
StateName == [n \in 0..4 |->
    CASE n = NDMP_DATA_STATE_IDLE   -> "idle"
      [] n = NDMP_DATA_STATE_ACTIVE -> "active"
      [] n = NDMP_DATA_STATE_HALTED -> "halted"
      [] n = NDMP_DATA_STATE_LISTEN -> "listen"
      [] OTHER                      -> "connected"]
Protocol == INSTANCE DataProtocol
                WITH state <- [s \in Sessions |-> StateName[dataState[s]]]
ImplementsProtocol == Protocol!Spec

\* Every request a worker takes up is done with, unless the process dies: no
\* handler keeps a lock, and none waits for a lock its own thread holds.
EndsEventually == \A w \in Workers : worker[w] # Resting ~> worker[w] = Resting \/ ~alive

-----------------------------------------------------------------------------
(***************************************************************************)
(* What documents and comments say, and the program does not do.           *)
(***************************************************************************)

\* "NDMP_ILLEGAL_STATE_ERR, /* Call can't be performed at this state */"
\* (ndmp.x:60): a call whose state test failed is not performed.
RejectedNotPerformed ==
    [][\A w \in Workers, s \in Sessions : TransferSucceeds(w, s) =>
          worker[w].error # IllegalState]_vars

\* "States set as per Figure 8 in NDMP V3 spec" (ndmp_connect.c:115): a closed
\* session is halted, so that no data operation of it can start.
ClosedIsHalted == \A s \in closed : dataState[s] # NDMP_DATA_STATE_ACTIVE

\* GET_ENV "Returns the environment included in the NDMP_DATA_START_BACKUP
\* request" (draft, line 1668), whatever other sessions do.
EnvIsPrivate == \A s \in Sessions :
    reply[s].op = "GET_ENV" => reply[s].env = sentEnv[s]

\* "NDMP_ILLEGAL_STATE_ERR: Illegal state. A data operation is not currently in
\* progress." (draft, line 1685): GET_ENV of an idle session is refused.
GetEnvRefusedWhenIdle ==
    [][\A w \in Workers, s \in Sessions :
          GetEnvValues(w, s) /\ dataState[s] = NDMP_DATA_STATE_IDLE =>
              reply'[s].error = IllegalState]_vars
=============================================================================
