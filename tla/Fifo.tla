-------------------------------- MODULE Fifo --------------------------------
(***************************************************************************)
(* What queue.h promises: "a thread-safe FIFO queue".  Every operation     *)
(* takes effect at one instant between its call and its return, on a       *)
(* sequence of elements, and returns what that sequence held then.         *)
(***************************************************************************)
EXTENDS Naturals, Sequences, SequencesExt

CONSTANTS
    Threads,   \* the threads that use the queue
    Elems,     \* the elements; the comparator tells any two apart
    Null       \* the NULL pointer: no element

VARIABLES
    queue,     \* the elements, the oldest first
    call,      \* of a thread: the operation it has called, if any
    result     \* of a thread: what that operation returns, once it is settled

fifoVars == <<queue, call, result>>

None          == [op |-> "none", arg |-> Null]
Pending       == [settled |-> FALSE]
Answer(value) == [settled |-> TRUE, value |-> value]

FifoInit ==
    /\ queue = <<>>
    /\ call = [t \in Threads |-> None]
    /\ result = [t \in Threads |-> Pending]

Operations == {"enqueue", "dequeue", "get_elem", "remove_elem", "num_elems",
               "get_all_elems"}

Call(t) ==
    /\ call[t] = None
    /\ \E op \in Operations, arg \in Elems \cup {Null} :
            call' = [call EXCEPT ![t] = [op |-> op, arg |-> arg]]
    /\ UNCHANGED <<queue, result>>

\* The instant at which the operation op of thread t takes effect.
Settle(t, op, value) ==
    /\ call[t].op = op /\ result[t] = Pending
    /\ result' = [result EXCEPT ![t] = Answer(value)]
    /\ UNCHANGED call

Enqueue(t) ==
    /\ Settle(t, "enqueue", Null)
    /\ queue' = Append(queue, call[t].arg)

Dequeue(t) ==
    \/ queue # <<>> /\ Settle(t, "dequeue", Head(queue)) /\ queue' = Tail(queue)
    \/ queue = <<>> /\ Settle(t, "dequeue", Null) /\ UNCHANGED queue

GetElem(t) ==
    /\ Settle(t, "get_elem", IF Contains(queue, call[t].arg) THEN call[t].arg ELSE Null)
    /\ UNCHANGED queue

RemoveElem(t) ==
    /\ Settle(t, "remove_elem", Null)
    /\ \/ \E i \in DOMAIN queue :
            /\ queue[i] = call[t].arg /\ \A j \in 1..(i - 1) : queue[j] # call[t].arg
            /\ queue' = RemoveAt(queue, i)
       \/ ~Contains(queue, call[t].arg) /\ UNCHANGED queue

NumElems(t)    == Settle(t, "num_elems", Len(queue)) /\ UNCHANGED queue
GetAllElems(t) == Settle(t, "get_all_elems", queue) /\ UNCHANGED queue

Return(t) ==
    /\ result[t] # Pending
    /\ call' = [call EXCEPT ![t] = None]
    /\ result' = [result EXCEPT ![t] = Pending]
    /\ UNCHANGED queue

FifoNext ==
    \E t \in Threads :
        \/ Call(t) \/ Return(t)
        \/ Enqueue(t) \/ Dequeue(t) \/ GetElem(t) \/ RemoveElem(t)
        \/ NumElems(t) \/ GetAllElems(t)

FifoSpec == FifoInit /\ [][FifoNext]_fifoVars
=============================================================================
