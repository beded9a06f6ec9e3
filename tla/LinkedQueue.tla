----------------------------- MODULE LinkedQueue -----------------------------
(***************************************************************************)
(* The queue of utils/src/queue.c: a singly linked list of malloc'ed nodes *)
(* under one mutex.  A step inside a critical section is one statement     *)
(* that reads or writes the header or a node.  Two functions step outside: *)
(* get_elem reads the element it returns after it has unlocked, and        *)
(* get_all_elems reads hdr->first, and the size of its array, before it    *)
(* locks.                                                                  *)
(***************************************************************************)
EXTENDS Naturals, Sequences, FiniteSets, SequencesExt

CONSTANTS
    Threads,   \* the threads that use the queue
    Elems,     \* the elements
    Nodes,     \* the addresses malloc() may return: a bound on the live nodes
    Null,      \* the NULL pointer
    Garbage,   \* what a node holds once free() has it
    Workloads  \* what the threads may call, in each use of a queue: of every
               \*   thread the operations, and a bound on its calls

ASSUME NullAssumption == Null \notin Nodes \cup Elems \cup Threads \cup {Garbage}
ASSUME GarbageAssumption == Garbage \notin Nodes \cup Elems

Operations == {"enqueue", "dequeue", "get_elem", "remove_elem", "num_elems", "get_all_elems"}

ASSUME WorkloadAssumption ==
    Workloads \subseteq [Threads -> [may : SUBSET Operations, left : Nat]]

VARIABLES
    first, last, num,  \* hdr->first, hdr->last, hdr->num_elems
    lock,              \* the thread that holds hdr->lock, or Null
    elem, next,        \* node->elem and node->next
    live,              \* the nodes malloc() has given out and not taken back
    pc, op, arg,       \* of a thread: where it is, what it has called, with what
    node, prev,        \*   its node and nodeprev
    retval,            \*   its retval
    room,              \*   the length of the array of get_all_elems
    calls,             \*   the calls it may still make
    chain              \* history: the nodes of the list, in order

hdr    == <<first, last, num>>
heap   == <<elem, next, live>>
local  == <<node, prev, retval, room>>
vars   == <<hdr, lock, heap, pc, op, arg, local, calls, chain>>

Init ==
    /\ first = Null /\ last = Null /\ num = 0
    /\ lock = Null
    /\ elem = [n \in Nodes |-> Garbage] /\ next = [n \in Nodes |-> Garbage]
    /\ live = {}
    /\ pc = [t \in Threads |-> "idle"]
    /\ op = [t \in Threads |-> "none"] /\ arg = [t \in Threads |-> Null]
    /\ node = [t \in Threads |-> Null] /\ prev = [t \in Threads |-> Null]
    /\ retval = [t \in Threads |-> Null] /\ room = [t \in Threads |-> 0]
    /\ calls \in Workloads
    /\ chain = <<>>

At(t, operation, label) == op[t] = operation /\ pc[t] = label
Goto(t, label) == pc' = [pc EXCEPT ![t] = label]
-----------------------------------------------------------------------------
Begin(t, operation, e) ==
    /\ pc[t] = "idle" /\ operation \in calls[t].may /\ calls[t].left > 0
    /\ op' = [op EXCEPT ![t] = operation]
    /\ arg' = [arg EXCEPT ![t] = e]
    /\ calls' = [calls EXCEPT ![t].left = @ - 1]
    /\ Goto(t, "lock")

\* enqueue allocates and fills its node before it takes the lock.
CallEnqueue(t, e) ==
    /\ Begin(t, "enqueue", e)
    /\ \E n \in Nodes \ live :
        /\ live' = live \cup {n}
        /\ elem' = [elem EXCEPT ![n] = e] /\ next' = [next EXCEPT ![n] = Null]
        /\ node' = [node EXCEPT ![t] = n]
    /\ UNCHANGED <<hdr, lock, prev, retval, room, chain>>

\* get_elem and remove_elem look for an element; the others take no argument.
CallOther(t) ==
    /\ \/ \E operation \in {"get_elem", "remove_elem"}, e \in Elems : Begin(t, operation, e)
       \/ \E operation \in {"dequeue", "num_elems", "get_all_elems"} :
            Begin(t, operation, Null)
    /\ UNCHANGED <<hdr, lock, heap, local, chain>>

\* Seeded bug: nobody waits for the lock.
Lock_Ignored(t) ==
    /\ pc[t] = "lock"
    /\ lock' = t
    /\ node' = [node EXCEPT ![t] = IF op[t] = "enqueue" THEN @ ELSE first]
    /\ prev' = [prev EXCEPT ![t] = first]
    /\ Goto(t, "body")
    /\ UNCHANGED <<hdr, heap, op, arg, retval, room, calls, chain>>

\* enter_critical_section; all but enqueue start with hdr->first.
Lock(t) ==
    /\ pc[t] = "lock" /\ lock = Null
    /\ lock' = t
    /\ node' = [node EXCEPT ![t] = IF op[t] = "enqueue" THEN @ ELSE first]
    /\ prev' = [prev EXCEPT ![t] = first]
    /\ Goto(t, "body")
    /\ UNCHANGED <<hdr, heap, op, arg, retval, room, calls, chain>>

\* exit_critical_section; get_elem has still to read node->elem, and
\* get_all_elems is back from num_elems.
AfterUnlock(t) ==
    CASE op[t] = "get_elem" /\ node[t] # Null       -> "read"
      [] op[t] = "get_all_elems" /\ pc[t] = "unlock" -> "first"
      [] OTHER                                       -> "return"

Unlock(t) ==
    /\ pc[t] \in {"unlock", "unlock_all"}
    /\ lock' = Null
    /\ Goto(t, AfterUnlock(t))
    /\ UNCHANGED <<hdr, heap, op, arg, local, calls, chain>>

Return(t) ==
    /\ pc[t] = "return"
    /\ Goto(t, "idle")
    /\ op' = [op EXCEPT ![t] = "none"] /\ arg' = [arg EXCEPT ![t] = Null]
    /\ node' = [node EXCEPT ![t] = Null] /\ prev' = [prev EXCEPT ![t] = Null]
    /\ retval' = [retval EXCEPT ![t] = Null] /\ room' = [room EXCEPT ![t] = 0]
    /\ UNCHANGED <<hdr, lock, heap, calls, chain>>
-----------------------------------------------------------------------------
(* enqueue: link the node after the last, or as the first; then move last. *)

EnqueueLink(t) ==
    /\ At(t, "enqueue", "body")
    /\ IF first = Null
       THEN first' = node[t] /\ UNCHANGED next
       ELSE next' = [next EXCEPT ![last] = node[t]] /\ UNCHANGED first
    /\ chain' = Append(chain, node[t])
    /\ Goto(t, "tail")
    /\ UNCHANGED <<last, num, lock, elem, live, op, arg, local, calls>>

\* Seeded bug: last moves only when the queue was empty.
EnqueueTail_Once(t) ==
    /\ At(t, "enqueue", "tail")
    /\ last' = IF num = 0 THEN node[t] ELSE last
    /\ num' = num + 1
    /\ Goto(t, "unlock")
    /\ UNCHANGED <<first, lock, heap, op, arg, local, calls, chain>>

\* Seeded bug: the element is not counted.
EnqueueTail_NoCount(t) ==
    /\ At(t, "enqueue", "tail")
    /\ last' = node[t]
    /\ Goto(t, "unlock")
    /\ UNCHANGED <<first, num, lock, heap, op, arg, local, calls, chain>>

EnqueueTail(t) ==
    /\ At(t, "enqueue", "tail")
    /\ last' = node[t]
    /\ num' = num + 1
    /\ Goto(t, "unlock")
    /\ UNCHANGED <<first, lock, heap, op, arg, local, calls, chain>>

(* dequeue: an early return, or the first node is taken out and freed.     *)

\* Seeded bug: the early return does not unlock.
DequeueEmpty_Locked(t) ==
    /\ At(t, "dequeue", "body") /\ first = Null
    /\ Goto(t, "return")
    /\ UNCHANGED <<hdr, lock, heap, op, arg, local, calls, chain>>

DequeueEmpty(t) ==
    /\ At(t, "dequeue", "body") /\ first = Null
    /\ Goto(t, "unlock")
    /\ UNCHANGED <<hdr, lock, heap, op, arg, local, calls, chain>>

\* Seeded bug: node->next is read after free(node).
DequeueUnlink_AfterFree(t) ==
    /\ At(t, "dequeue", "body") /\ first # Null
    /\ first' = Garbage
    /\ retval' = [retval EXCEPT ![t] = elem[node[t]]]
    /\ chain' = Tail(chain)
    /\ Goto(t, "free")
    /\ UNCHANGED <<last, num, lock, heap, op, arg, node, prev, room, calls>>

DequeueUnlink(t) ==
    /\ At(t, "dequeue", "body") /\ first # Null
    /\ first' = next[node[t]]
    /\ retval' = [retval EXCEPT ![t] = elem[node[t]]]
    /\ chain' = Tail(chain)
    /\ Goto(t, "free")
    /\ UNCHANGED <<last, num, lock, heap, op, arg, node, prev, room, calls>>

\* Seeded bug: the node is never freed.
FreeNode_Leaks(t) ==
    /\ pc[t] = "free"
    /\ num' = num - 1
    /\ Goto(t, "unlock")
    /\ UNCHANGED <<first, last, lock, heap, op, arg, local, calls, chain>>

\* free(node), in dequeue and in remove_elem.
FreeNode(t) ==
    /\ pc[t] = "free"
    /\ num' = num - 1
    /\ live' = live \ {node[t]}
    /\ elem' = [elem EXCEPT ![node[t]] = Garbage]
    /\ next' = [next EXCEPT ![node[t]] = Garbage]
    /\ Goto(t, "unlock")
    /\ UNCHANGED <<first, last, lock, op, arg, local, calls, chain>>

(* get_elem and remove_elem walk along the list to the first match.        *)

AtWalk(t) == op[t] \in {"get_elem", "remove_elem"} /\ pc[t] = "body"

WalkOn(t) ==
    /\ AtWalk(t) /\ node[t] # Null /\ elem[node[t]] # arg[t]
    /\ prev' = [prev EXCEPT ![t] = node[t]]
    /\ node' = [node EXCEPT ![t] = next[node[t]]]
    /\ UNCHANGED <<hdr, lock, heap, pc, op, arg, retval, room, calls, chain>>

\* get_elem has found a match, or either has come to the end.
WalkEnds(t) ==
    /\ AtWalk(t)
    /\ node[t] # Null => op[t] = "get_elem" /\ elem[node[t]] = arg[t]
    /\ Goto(t, "unlock")
    /\ UNCHANGED <<hdr, lock, heap, op, arg, local, calls, chain>>

\* get_elem, after the lock is released.
ReadElem(t) ==
    /\ pc[t] = "read"
    /\ retval' = [retval EXCEPT ![t] = elem[node[t]]]
    /\ Goto(t, "return")
    /\ UNCHANGED <<hdr, lock, heap, op, arg, node, prev, room, calls, chain>>

\* Seeded bug: last stays at the node that is freed.
RemoveUnlink_Last(t) ==
    /\ At(t, "remove_elem", "body") /\ node[t] # Null /\ elem[node[t]] = arg[t]
    /\ IF node[t] = first
       THEN first' = next[node[t]] /\ UNCHANGED next
       ELSE next' = [next EXCEPT ![prev[t]] = next[node[t]]] /\ UNCHANGED first
    /\ chain' = SelectSeq(chain, LAMBDA n : n # node[t])
    /\ Goto(t, "free")
    /\ UNCHANGED <<last, num, lock, elem, live, op, arg, local, calls>>

\* The first node, the last node or one in between.
RemoveUnlink(t) ==
    /\ At(t, "remove_elem", "body") /\ node[t] # Null /\ elem[node[t]] = arg[t]
    /\ CASE node[t] = first ->
                first' = next[node[t]] /\ UNCHANGED <<last, next>>
         [] node[t] # first /\ node[t] = last ->
                last' = prev[t] /\ next' = [next EXCEPT ![prev[t]] = Null] /\ UNCHANGED first
         [] OTHER ->
                next' = [next EXCEPT ![prev[t]] = next[node[t]]] /\ UNCHANGED <<first, last>>
    /\ \E i \in DOMAIN chain : chain[i] = node[t] /\ chain' = RemoveAt(chain, i)
    /\ Goto(t, "free")
    /\ UNCHANGED <<num, lock, elem, live, op, arg, local, calls>>

(* num_elems, and get_all_elems, which calls it.                           *)

CountElems(t) ==
    /\ op[t] \in {"num_elems", "get_all_elems"} /\ pc[t] = "body"
    /\ retval' = [retval EXCEPT ![t] = IF op[t] = "num_elems" THEN num ELSE <<>>]
    /\ room' = [room EXCEPT ![t] = IF op[t] = "num_elems" THEN 0 ELSE num]
    /\ Goto(t, "unlock")
    /\ UNCHANGED <<hdr, lock, heap, op, arg, node, prev, calls, chain>>

\* node = hdr->first, before the lock.
AllFirst(t) ==
    /\ pc[t] = "first"
    /\ node' = [node EXCEPT ![t] = first]
    /\ Goto(t, "lock_all")
    /\ UNCHANGED <<hdr, lock, heap, op, arg, prev, retval, room, calls, chain>>

AllLock(t) ==
    /\ pc[t] = "lock_all" /\ lock = Null
    /\ lock' = t
    /\ Goto(t, "copy")
    /\ UNCHANGED <<hdr, heap, op, arg, local, calls, chain>>

\* A thread that follows the pointer of a freed node stops here for good.
AllCopy(t) ==
    /\ pc[t] = "copy" /\ node[t] \in Nodes
    /\ retval' = [retval EXCEPT ![t] = Append(@, elem[node[t]])]
    /\ node' = [node EXCEPT ![t] = next[node[t]]]
    /\ UNCHANGED <<hdr, lock, heap, pc, op, arg, prev, room, calls, chain>>

AllEnd(t) ==
    /\ pc[t] = "copy" /\ node[t] = Null
    /\ Goto(t, "unlock_all")
    /\ UNCHANGED <<hdr, lock, heap, op, arg, local, calls, chain>>
-----------------------------------------------------------------------------
Calling(t) == (\E e \in Elems : CallEnqueue(t, e)) \/ CallOther(t)

Running(t) ==
    \/ Lock(t) \/ Unlock(t) \/ Return(t)
    \/ EnqueueLink(t) \/ EnqueueTail(t)
    \/ DequeueEmpty(t) \/ DequeueUnlink(t) \/ FreeNode(t)
    \/ WalkOn(t) \/ WalkEnds(t) \/ ReadElem(t) \/ RemoveUnlink(t)
    \/ CountElems(t) \/ AllFirst(t) \/ AllLock(t) \/ AllCopy(t) \/ AllEnd(t)

Next == \E t \in Threads : Calling(t) \/ Running(t)

Spec == Init /\ [][Next]_vars

\* A thread need not call; one that has called is run until it returns.  The
\* mutex promises nothing about who gets it next: that a thread gets it in the
\* end follows from the bound on the calls of the others.
FairSpec == Spec /\ \A t \in Threads : WF_vars(Running(t))
-----------------------------------------------------------------------------
Labels == {"idle", "lock", "body", "tail", "free", "unlock", "read", "return", "first",
           "lock_all", "copy", "unlock_all"}

TypeOK ==
    /\ first \in Nodes \cup {Null} /\ last \in Nodes \cup {Null} /\ num \in Nat
    /\ lock \in Threads \cup {Null}
    /\ elem \in [Nodes -> Elems \cup {Garbage}]
    /\ next \in [Nodes -> Nodes \cup {Null, Garbage}]
    /\ live \subseteq Nodes
    /\ chain \in Seq(Nodes)
    /\ pc \in [Threads -> Labels]
    /\ op \in [Threads -> Operations \cup {"none"}]
    /\ arg \in [Threads -> Elems \cup {Null}]
    /\ node \in [Threads -> Nodes \cup {Null, Garbage}]
    /\ prev \in [Threads -> Nodes \cup {Null}]
    /\ calls \in [Threads -> [may : SUBSET Operations, left : Nat]]

\* A thread is between enter_critical_section and exit_critical_section.
InSection(t) == pc[t] \in {"body", "tail", "free", "unlock", "copy", "unlock_all"}

\* The nodes that are not in the list: allocated and not yet linked, or taken out
\* and not yet freed.
Held(t) ==
    IF (op[t] = "enqueue" /\ pc[t] \in {"lock", "body"}) \/ pc[t] = "free"
    THEN {node[t]} ELSE {}

\* Whenever the lock is free the pointers form the list: from hdr->first along
\* next to NULL, hdr->last at its end, hdr->num_elems its length.  hdr->last is
\* left dangling by the removal of the only element; nothing may use it then.
Linked ==
    lock = Null =>
    /\ first = IF chain = <<>> THEN Null ELSE Head(chain)
    /\ \A i \in DOMAIN chain :
            next[chain[i]] = IF i < Len(chain) THEN chain[i + 1] ELSE Null
    /\ chain # <<>> => last = Last(chain)
    /\ num = Len(chain)

\* No node leaks, none is freed twice or while it is in the list, and the list
\* has no cycle.
NodesAccounted ==
    /\ live = ToSet(chain) \cup UNION {Held(t) : t \in Threads}
    /\ \A i, j \in DOMAIN chain : chain[i] = chain[j] => i = j
    /\ \A t \in Threads : Held(t) \cap ToSet(chain) = {}
    /\ \A t, u \in Threads : t # u => Held(t) \cap Held(u) = {}

\* One thread at a time is in a critical section.
MutualExclusion == \A t \in Threads : InSection(t) => lock = t

\* Every call returns: every path through a function unlocks what it locked.
CallsReturn == \A t \in Threads : (pc[t] # "idle") ~> (pc[t] = "idle")

\* The array of get_all_elems, sized by a num_elems of its own, holds the elements.
AllElemsFit ==
    \A t \in Threads : pc[t] \in {"copy", "unlock_all"} => Len(retval[t]) <= room[t]

(* The queue as its users see it.                                          *)

Answer(value) == [settled |-> TRUE, value |-> value]

\* What an operation is going to return, once it has taken effect.
ResultOf(t) ==
    CASE pc[t] \in {"tail", "free"} /\ op[t] # "dequeue" -> Answer(Null)
      [] pc[t] = "free" /\ op[t] = "dequeue"             -> Answer(retval[t])
      [] pc[t] = "unlock" /\ op[t] = "get_all_elems"     -> [settled |-> FALSE]
      [] pc[t] \in {"unlock", "read"} /\ op[t] = "get_elem" ->
            Answer(IF node[t] = Null THEN Null ELSE elem[node[t]])
      [] pc[t] \in {"unlock", "unlock_all", "return"}
            /\ (op[t] \in {"get_elem", "get_all_elems"} => pc[t] # "unlock") ->
            Answer(retval[t])
      [] OTHER -> [settled |-> FALSE]

Abstract == INSTANCE Fifo WITH
    queue  <- [i \in DOMAIN chain |-> elem[chain[i]]],
    call   <- [t \in Threads |-> [op |-> op[t], arg |-> arg[t]]],
    result <- [t \in Threads |-> ResultOf(t)]

\* queue.h:18: "The queue implementation is thread-safe FIFO queue": the linked
\* list implements the abstract queue.
ImplementsFifo == Abstract!FifoSpec

\* What it takes: no thread removes elements beside a get_elem of another, and none
\* changes the list beside a get_all_elems of another.  Both read outside the lock.
Removing == {"dequeue", "remove_elem"}
Disciplined(workload) ==
    \A t, u \in Threads : t # u =>
        /\ "get_elem" \in workload[t].may => workload[u].may \cap Removing = {}
        /\ "get_all_elems" \in workload[t].may =>
                workload[u].may \cap (Removing \cup {"enqueue"}) = {}
=============================================================================
