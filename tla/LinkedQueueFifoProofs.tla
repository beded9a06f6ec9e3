------------------------- MODULE LinkedQueueFifoProofs -------------------------
(***************************************************************************)
(* The linked list implements the queue that queue.h promises, for all     *)
(* threads, elements and nodes, where the threads keep to what the two     *)
(* functions that read outside the lock need.                              *)
(***************************************************************************)
EXTENDS LinkedQueueProofs

\* A thread calls what its workload lets it, and the workload is disciplined.
Permitted ==
    /\ \A t \in Threads : op[t] # "none" => op[t] \in calls[t].may
    /\ Disciplined(calls)

\* Every thread has a retval and an array length.
Assigned == DOMAIN retval = Threads /\ DOMAIN room = Threads

\* The element of a node to be linked, and retval before it is assigned.
Values(t) ==
    /\ op[t] = "none" => arg[t] = Null
    /\ op[t] = "enqueue" /\ pc[t] \in {"lock", "body"} => elem[node[t]] = arg[t]
    /\ pc[t] \in {"idle", "lock", "body"} \/ op[t] \in {"enqueue", "remove_elem"} =>
            retval[t] = Null
    /\ op[t] = "get_elem" /\ pc[t] # "return" => retval[t] = Null

\* The nodes a loop has passed do not hold the element it looks for.
Searched(t) ==
    AtWalk(t) =>
        \/ node[t] = Null /\ \A j \in DOMAIN chain : elem[chain[j]] # arg[t]
        \/ \E i \in DOMAIN chain :
                Standing(t, i) /\ \A j \in 1..(i - 1) : elem[chain[j]] # arg[t]

\* The node that get_elem will read, or is about to, is in the list.
Found(t) ==
    op[t] = "get_elem" =>
        /\ pc[t] = "unlock" => node[t] \in ToSet(chain) \cup {Null}
        /\ pc[t] = "read" => node[t] \in ToSet(chain)

\* get_all_elems has copied the first k elements.
CopiedSoFar(t, k) ==
    /\ retval[t] \in Seq(Elems \cup {Garbage}) /\ Len(retval[t]) = k
    /\ \A j \in 1..k : retval[t][j] = elem[chain[j]]
Copies(t) ==
    op[t] = "get_all_elems" =>
        /\ pc[t] \in {"unlock", "first", "lock_all"} => retval[t] = <<>>
        /\ pc[t] = "lock_all" => node[t] = first
        /\ pc[t] = "copy" =>
                \E k \in 0..Len(chain) :
                    /\ CopiedSoFar(t, k)
                    /\ node[t] = IF k < Len(chain) THEN chain[k + 1] ELSE Null
        /\ pc[t] = "unlock_all" => CopiedSoFar(t, Len(chain))
        /\ pc[t] \in {"unlock", "first", "lock_all", "copy", "unlock_all"} =>
                room[t] = Len(chain)

ThreadInv(t) == Values(t) /\ Searched(t) /\ Found(t) /\ Copies(t)
FifoInv == QueueInv /\ Permitted /\ Assigned /\ \A t \in Threads : ThreadInv(t)
-----------------------------------------------------------------------------
(* The abstract variables, and when a step of the list is one of theirs.   *)

Elements  == [i \in DOMAIN chain |-> elem[chain[i]]]
CallsMade == [t \in Threads |-> [op |-> op[t], arg |-> arg[t]]]
Results   == [t \in Threads |-> ResultOf(t)]
Pending   == [settled |-> FALSE]

LEMMA ChainFacts ==
    ASSUME QueueInv
    PROVE  /\ chain \in Seq(Nodes) /\ Len(chain) \in Nat /\ DOMAIN chain = 1..Len(chain)
           /\ \A i \in 1..Len(chain) : /\ chain[i] \in ToSet(chain) /\ chain[i] \in Nodes
                                       /\ chain[i] \in live /\ chain[i] # Null
           /\ chain = <<>> <=> Len(chain) = 0
           /\ ToSet(chain) \subseteq live /\ ToSet(chain) \subseteq Nodes
           /\ Distinct(chain)
           /\ first = IF Len(chain) = 0 THEN Null ELSE chain[1]
<1>1. chain \in Seq(Nodes) /\ Accounted /\ live \subseteq Nodes
  BY DEF QueueInv, TypeOK
<1>2. Len(chain) \in Nat /\ DOMAIN chain = 1..Len(chain) /\ (chain = <<>> <=> Len(chain) = 0)
  BY <1>1, LenProperties, EmptySeq
<1>3. ToSet(chain) \subseteq live /\ \A i \in 1..Len(chain) : chain[i] \in ToSet(chain)
  BY <1>1, <1>2 DEF Accounted, ToSet
<1>4. \A i \in 1..Len(chain) : chain[i] \in Nodes
  BY <1>1, ElementOfSeq
<1> QED
  BY <1>1, <1>2, <1>3, <1>4, NullAssumption DEF Accounted, QueueInv, Pointers

\* A function on 1..n into S is a sequence of length n.
LEMMA FunctionSeq ==
    ASSUME NEW S, NEW n \in Nat, NEW f \in [1..n -> S]
    PROVE  f \in Seq(S) /\ Len(f) = n /\ DOMAIN f = 1..n
<1>1. f \in Seq(S)
  BY SeqDef
<1>2. Len(f) \in Nat /\ DOMAIN f = 1..Len(f) /\ DOMAIN f = 1..n
  BY <1>1, LenProperties
<1>3. Len(f) = n
  BY <1>2
<1> QED
  BY <1>1, <1>2, <1>3

LEMMA ElementsSeq ==
    ASSUME QueueInv
    PROVE  /\ Elements \in Seq(Elems \cup {Garbage})
           /\ Len(Elements) = Len(chain) /\ DOMAIN Elements = 1..Len(chain)
           /\ \A i \in 1..Len(chain) : Elements[i] = elem[chain[i]]
<1>1. Len(chain) \in Nat /\ DOMAIN chain = 1..Len(chain) /\ \A i \in 1..Len(chain) : chain[i] \in Nodes
  BY ChainFacts
<1>2. Elements \in [1..Len(chain) -> Elems \cup {Garbage}]
  BY <1>1 DEF Elements, QueueInv, TypeOK
<1>3. \A i \in 1..Len(chain) : Elements[i] = elem[chain[i]]
  BY <1>1 DEF Elements
<1> HIDE DEF Elements
<1> QED
  BY <1>1, <1>2, <1>3, FunctionSeq

\* The same, after a step.
LEMMA NextElementsSeq ==
    ASSUME QueueInv'
    PROVE  /\ Elements' \in Seq(Elems \cup {Garbage}) /\ Len(Elements') = Len(chain')
           /\ \A i \in 1..Len(chain') : Elements'[i] = elem'[chain'[i]]
<1>1. /\ chain' \in Seq(Nodes) /\ elem' \in [Nodes -> Elems \cup {Garbage}]
  BY DEF QueueInv, TypeOK
<1>2. /\ Len(chain') \in Nat /\ DOMAIN chain' = 1..Len(chain')
      /\ \A i \in 1..Len(chain') : chain'[i] \in Nodes
  BY <1>1, LenProperties, ElementOfSeq
<1>3. /\ Elements' \in [1..Len(chain') -> Elems \cup {Garbage}]
      /\ \A i \in 1..Len(chain') : Elements'[i] = elem'[chain'[i]]
  BY <1>1, <1>2 DEF Elements
<1> HIDE DEF Elements
<1> QED
  BY <1>2, <1>3, FunctionSeq

\* The elements are those they were as long as no node of the list is written.
LEMMA ElementsSame ==
    ASSUME QueueInv, chain' = chain, \A m \in ToSet(chain) : elem'[m] = elem[m]
    PROVE  Elements' = Elements
BY ChainFacts DEF Elements

\* Only what t will return may have changed.
OthersResults(t) == \A u \in Threads \ {t} : ResultOf(u)' = ResultOf(u)

\* The operation of t takes effect.
LEMMA SettleStep ==
    ASSUME NEW t \in Threads, OthersResults(t), UNCHANGED <<op, arg>>,
           NEW value, ResultOf(t) = Pending, ResultOf(t)' = Answer(value)
    PROVE  Abstract!Settle(t, op[t], value)
<1>1. CallsMade' = CallsMade /\ CallsMade[t].op = op[t]
  BY DEF CallsMade
<1>2. Results' = [Results EXCEPT ![t] = Answer(value)]
  BY DEF Results, OthersResults
<1>3. Results[t] = Pending
  BY DEF Results
<1> QED
  BY <1>1, <1>2, <1>3
  DEF Abstract!Settle, Abstract!Pending, Abstract!Answer, Answer, Pending, CallsMade, Results

\* Nothing takes effect.
LEMMA StutterStep ==
    ASSUME NEW t \in Threads, OthersResults(t), UNCHANGED <<op, arg>>,
           ResultOf(t)' = ResultOf(t), Elements' = Elements
    PROVE  UNCHANGED Abstract!fifoVars
<1>1. CallsMade' = CallsMade
  BY DEF CallsMade
<1>2. Results' = Results
  BY DEF Results, OthersResults
<1> QED
  BY <1>1, <1>2 DEF Abstract!fifoVars, CallsMade, Results, Elements
-----------------------------------------------------------------------------
(* What a step of one thread leaves of another's.                          *)

LEMMA OthersKeep ==
    ASSUME FifoInv, QueueInv', NEW t \in Threads, Others(t),
           \A u \in Threads \ {t} : retval'[u] = retval[u] /\ room'[u] = room[u],
           \A m \in ToSet(chain) : elem'[m] = elem[m],
           \A u \in Threads \ {t} :
                op[u] = "enqueue" /\ pc[u] \in {"lock", "body"} =>
                    elem'[node[u]] = elem[node[u]],
           \/ UNCHANGED <<first, chain>>
           \/ /\ InSection(t) /\ op[t] \in Removing \cup {"enqueue"}
              /\ op[t] = "enqueue" => ToSet(chain) \subseteq ToSet(chain')
    PROVE  OthersResults(t) /\ \A u \in Threads \ {t} : ThreadInv(u)'
<1> SUFFICES ASSUME NEW u \in Threads \ {t}
             PROVE  ResultOf(u)' = ResultOf(u) /\ ThreadInv(u)'
  BY DEF OthersResults
<1>1. /\ pc'[u] = pc[u] /\ op'[u] = op[u] /\ arg'[u] = arg[u]
      /\ node'[u] = node[u] /\ prev'[u] = prev[u]
      /\ retval'[u] = retval[u] /\ room'[u] = room[u]
  BY DEF Others
<1>2. ThreadInv(u)
  BY DEF FifoInv
<1>3. Values(u)'
  BY <1>1, <1>2 DEF ThreadInv, Values
\* A thread that is not alone in its section has not changed the list.
<1>4. \/ UNCHANGED <<first, chain>>
      \/ ~InSection(u) /\ op[u] # "get_all_elems"
  <2>1. InSection(t) => ~InSection(u)
    BY Alone DEF FifoInv, QueueInv
  <2>2. op[t] \in Removing \cup {"enqueue"} => op[u] # "get_all_elems"
    <3>1. op[u] = "get_all_elems" => op[u] \in calls[u].may
      BY DEF FifoInv, Permitted
    <3>2. op[t] # "none" => op[t] \in calls[t].may
      BY DEF FifoInv, Permitted
    <3> QED
      BY <3>1, <3>2 DEF FifoInv, Permitted, Disciplined, Removing
  <2> QED
    BY <2>1, <2>2
<1>5. \A i \in DOMAIN chain : elem'[chain[i]] = elem[chain[i]]
  BY ChainFacts DEF FifoInv
<1>6. Searched(u)'
  <2>1. CASE UNCHANGED <<first, chain>>
    BY <1>1, <1>2, <1>5, <2>1, ChainFacts
    DEF ThreadInv, Searched, AtWalk, Standing, FifoInv
  <2>2. CASE ~InSection(u)
    BY <1>1, <2>2 DEF Searched, AtWalk, InSection
  <2> QED
    BY <1>4, <2>1, <2>2
<1>7. Copies(u)'
  <2>1. CASE UNCHANGED <<first, chain>>
    BY <1>1, <1>2, <1>5, <2>1, ChainFacts
    DEF ThreadInv, Copies, CopiedSoFar, FifoInv
  <2>2. CASE op[u] # "get_all_elems"
    BY <1>1, <2>2 DEF Copies
  <2> QED
    BY <1>4, <2>1, <2>2
<1>8. op[u] = "get_elem" => ToSet(chain) \subseteq ToSet(chain')
  <2>1. op[u] = "get_elem" => op[t] \notin Removing
    <3>1. op[u] = "get_elem" => op[u] \in calls[u].may
      BY DEF FifoInv, Permitted
    <3>2. op[t] # "none" => op[t] \in calls[t].may
      BY DEF FifoInv, Permitted
    <3> QED
      BY <3>1, <3>2 DEF FifoInv, Permitted, Disciplined, Removing
  <2> QED
    BY <2>1 DEF Removing
<1>9. Found(u)'
  BY <1>1, <1>2, <1>8 DEF ThreadInv, Found
<1>10. ResultOf(u)' = ResultOf(u)
  <2>1. op[u] = "get_elem" /\ pc[u] \in {"unlock", "read"} /\ node[u] # Null =>
            elem'[node[u]] = elem[node[u]]
    BY <1>2 DEF ThreadInv, Found
  <2> QED
    BY <1>1, <2>1 DEF ResultOf, Answer
<1> QED
  BY <1>3, <1>6, <1>7, <1>9, <1>10 DEF ThreadInv
-----------------------------------------------------------------------------
(* The steps.                                                              *)

FifoStep(t) ==
    /\ \A u \in Threads : ThreadInv(u)'
    /\ Abstract!FifoNext \/ UNCHANGED Abstract!fifoVars

\* A step by which nothing takes effect and that writes no node of the list.
LEMMA QuietStep ==
    ASSUME FifoInv, QueueInv', NEW t \in Threads, Others(t),
           UNCHANGED <<op, arg, first, chain>>, ThreadInv(t)',
           \A u \in Threads \ {t} : retval'[u] = retval[u] /\ room'[u] = room[u],
           \A m \in ToSet(chain) : elem'[m] = elem[m],
           \A u \in Threads \ {t} :
                op[u] = "enqueue" /\ pc[u] \in {"lock", "body"} =>
                    elem'[node[u]] = elem[node[u]],
           ResultOf(t)' = ResultOf(t)
    PROVE  FifoStep(t)
<1>1. OthersResults(t) /\ \A u \in Threads \ {t} : ThreadInv(u)'
  BY OthersKeep
<1>2. Elements' = Elements
  BY ElementsSame DEF FifoInv
<1> QED
  BY <1>1, <1>2, StutterStep DEF FifoStep

\* A call.
LEMMA CallStep ==
    ASSUME FifoInv, QueueInv', NEW t \in Threads,
           (\E e \in Elems : CallEnqueue(t, e)) \/ CallOther(t)
    PROVE  FifoStep(t)
<1> USE DEF FifoInv
<1>1. PICK operation \in Operations, e \in Elems \cup {Null} : Begin(t, operation, e)
  BY DEF CallEnqueue, CallOther, Operations
<1>2. /\ pc[t] = "idle" /\ op[t] = "none" /\ arg[t] = Null /\ retval[t] = Null
      /\ pc'[t] = "lock" /\ op'[t] = operation /\ arg'[t] = e /\ operation # "none"
      /\ op' = [op EXCEPT ![t] = operation] /\ arg' = [arg EXCEPT ![t] = e]
      /\ retval' = retval /\ room' = room /\ UNCHANGED <<first, chain>> /\ Others(t)
  <2>1. /\ pc' = [pc EXCEPT ![t] = "lock"]
        /\ op' = [op EXCEPT ![t] = operation] /\ arg' = [arg EXCEPT ![t] = e]
        /\ pc[t] = "idle" /\ operation # "none"
    BY <1>1 DEF Begin, Goto, Operations
  <2>2. op[t] = "none" /\ arg[t] = Null /\ retval[t] = Null
    BY <2>1 DEF QueueInv, Places, ThreadInv, Values
  <2>3. /\ retval' = retval /\ room' = room /\ UNCHANGED <<first, chain>>
        /\ \A u \in Threads \ {t} : node'[u] = node[u] /\ prev'[u] = prev[u]
    BY DEF CallEnqueue, CallOther, hdr, local, QueueInv, TypeOK
  <2> QED
    BY <2>1, <2>2, <2>3 DEF QueueInv, TypeOK, Others
<1>3. /\ \A m \in live : elem'[m] = elem[m]
      /\ op'[t] = "enqueue" => elem'[node'[t]] = arg'[t]
  <2>1. CASE CallOther(t)
    <3>1. op'[t] # "enqueue"
      BY <2>1 DEF CallOther, Begin, QueueInv, TypeOK
    <3> QED
      BY <2>1, <3>1 DEF CallOther, heap
  <2>2. ASSUME NEW e1 \in Elems, CallEnqueue(t, e1)
        PROVE  elem'[node'[t]] = arg'[t] /\ \A m \in live : elem'[m] = elem[m]
    <3>1. PICK n \in Nodes \ live : /\ elem' = [elem EXCEPT ![n] = e1]
                                    /\ node' = [node EXCEPT ![t] = n]
      BY <2>2 DEF CallEnqueue
    <3>2. arg'[t] = e1
      BY <2>2 DEF CallEnqueue, Begin, QueueInv, TypeOK
    <3> QED
      BY <3>1, <3>2 DEF QueueInv, TypeOK
  <2> QED
    BY <2>1, <2>2
<1>4. ThreadInv(t)'
  BY <1>2, <1>3 DEF ThreadInv, Values, Searched, AtWalk, Found, Copies
<1>5. \A m \in ToSet(chain) : elem'[m] = elem[m]
  BY <1>3, ChainFacts
<1>6. \A u \in Threads \ {t} :
        op[u] = "enqueue" /\ pc[u] \in {"lock", "body"} => elem'[node[u]] = elem[node[u]]
  BY <1>3 DEF QueueInv, Accounted, Held
<1>7. OthersResults(t) /\ \A u \in Threads \ {t} : ThreadInv(u)'
  BY <1>2, <1>5, <1>6, OthersKeep
<1>8. Elements' = Elements
  BY <1>2, <1>5, ElementsSame
<1>9. Results' = Results
  <2>1. ResultOf(t)' = Pending /\ ResultOf(t) = Pending
    BY <1>2 DEF ResultOf, Pending
  <2> QED
    BY <1>7, <2>1 DEF Results, OthersResults
<1>10. Abstract!Call(t)
  <2>1. CallsMade[t] = Abstract!None
    BY <1>2 DEF CallsMade, Abstract!None
  <2>2. CallsMade' = [CallsMade EXCEPT ![t] = [op |-> operation, arg |-> e]]
    BY <1>2 DEF CallsMade, QueueInv, TypeOK
  <2>3. operation \in Abstract!Operations
    BY <1>1 DEF Operations, Abstract!Operations
  <2> QED
    BY <1>8, <1>9, <2>1, <2>2, <2>3 DEF Abstract!Call, CallsMade, Elements, Results
<1> QED
  BY <1>4, <1>7, <1>10 DEF FifoStep, Abstract!FifoNext

\* A return.
LEMMA ReturnStep ==
    ASSUME FifoInv, QueueInv', NEW t \in Threads, Return(t)
    PROVE  FifoStep(t)
<1> USE DEF FifoInv
<1>1. /\ pc[t] = "return" /\ pc'[t] = "idle" /\ op'[t] = "none" /\ arg'[t] = Null
      /\ retval'[t] = Null /\ UNCHANGED <<first, chain, elem>> /\ Others(t)
      /\ \A u \in Threads \ {t} : retval'[u] = retval[u] /\ room'[u] = room[u]
      /\ op' = [op EXCEPT ![t] = "none"] /\ arg' = [arg EXCEPT ![t] = Null]
  <2>1. /\ retval' = [retval EXCEPT ![t] = Null] /\ room' = [room EXCEPT ![t] = 0]
        /\ t \in DOMAIN retval
    BY DEF Return, QueueInv, Assigned
  <2> QED
    BY <2>1 DEF Return, Goto, QueueInv, TypeOK, Others, hdr, heap
<1>2. ThreadInv(t)'
  BY <1>1 DEF ThreadInv, Values, Searched, AtWalk, Found, Copies
<1>3. OthersResults(t) /\ \A u \in Threads \ {t} : ThreadInv(u)'
  BY <1>1, OthersKeep
<1>4. Elements' = Elements
  BY <1>1, ElementsSame
<1>5. Abstract!Return(t)
  <2>1. ResultOf(t) = Answer(retval[t]) /\ ResultOf(t)' = Pending
    BY <1>1 DEF ResultOf, Pending
  <2>2. Results[t] # Pending
    BY <2>1 DEF Results, Answer, Pending
  <2>3. Results' = [Results EXCEPT ![t] = Pending]
    BY <1>3, <2>1 DEF Results, OthersResults
  <2>4. CallsMade' = [CallsMade EXCEPT ![t] = [op |-> "none", arg |-> Null]]
    BY <1>1 DEF CallsMade, QueueInv, TypeOK
  <2> QED
    BY <1>4, <2>2, <2>3, <2>4
    DEF Abstract!Return, Abstract!None, Abstract!Pending, Pending, CallsMade, Elements, Results
<1> QED
  BY <1>2, <1>3, <1>5 DEF FifoStep, Abstract!FifoNext

LEMMA LockStep ==
    ASSUME FifoInv, QueueInv', NEW t \in Threads, Lock(t)
    PROVE  FifoStep(t)
<1> USE DEF FifoInv
<1>1. /\ pc[t] = "lock" /\ pc'[t] = "body" /\ Others(t)
      /\ UNCHANGED <<op, arg, retval, room, first, chain, elem>>
      /\ op[t] = "enqueue" => node'[t] = node[t]
      /\ op[t] # "enqueue" => node'[t] = first
      /\ prev'[t] = first
  BY DEF Lock, Goto, QueueInv, TypeOK, Others, hdr, heap
<1>2. Searched(t)'
  <2>1. CASE Len(chain) = 0
    BY <1>1, <2>1, ChainFacts DEF Searched, AtWalk
  <2>2. CASE Len(chain) # 0
    <3>1. first = chain[1] /\ 1 \in DOMAIN chain
      BY <2>2, ChainFacts
    <3>2. op[t] # "enqueue" => Standing(t, 1)'
      BY <1>1, <3>1 DEF Standing
    <3> QED
      BY <1>1, <3>1, <3>2 DEF Searched, AtWalk
  <2> QED
    BY <2>1, <2>2
<1>3. ThreadInv(t)
  OBVIOUS
<1>4. ThreadInv(t)'
  BY <1>1, <1>2, <1>3 DEF ThreadInv, Values, Found, Copies
<1>5. ResultOf(t)' = ResultOf(t)
  BY <1>1 DEF ResultOf
<1> QED
  BY <1>1, <1>4, <1>5, QuietStep

\* exit_critical_section: what the operation returns is settled before.
LEMMA UnlockStep ==
    ASSUME FifoInv, QueueInv', NEW t \in Threads, Unlock(t)
    PROVE  FifoStep(t)
<1> USE DEF FifoInv
<1>1. /\ pc[t] \in {"unlock", "unlock_all"} /\ pc'[t] = AfterUnlock(t) /\ Others(t)
      /\ UNCHANGED <<op, arg, node, prev, retval, room, first, chain, elem>>
  BY DEF Unlock, Goto, QueueInv, TypeOK, Others, hdr, heap, local
<1>2. ThreadInv(t)
  OBVIOUS
<1>3. CASE op[t] = "get_elem" /\ node[t] # Null
  <2>1. pc'[t] = "read" /\ pc[t] = "unlock"
    BY <1>1, <1>3 DEF AfterUnlock, QueueInv, Places
  <2>2. ThreadInv(t)'
    BY <1>1, <1>2, <1>3, <2>1 DEF ThreadInv, Values, Searched, AtWalk, Found, Copies
  <2>3. ResultOf(t)' = ResultOf(t)
    BY <1>1, <1>3, <2>1 DEF ResultOf, Answer
  <2> QED
    BY <1>1, <2>2, <2>3, QuietStep
<1>4. CASE op[t] = "get_all_elems" /\ pc[t] = "unlock"
  <2>1. pc'[t] = "first"
    BY <1>1, <1>4 DEF AfterUnlock
  <2>2. ThreadInv(t)'
    BY <1>1, <1>2, <1>4, <2>1 DEF ThreadInv, Values, Searched, AtWalk, Found, Copies
  <2>3. ResultOf(t)' = ResultOf(t)
    BY <1>1, <1>4, <2>1 DEF ResultOf
  <2> QED
    BY <1>1, <2>2, <2>3, QuietStep
<1>5. CASE ~(op[t] = "get_elem" /\ node[t] # Null) /\ ~(op[t] = "get_all_elems" /\ pc[t] = "unlock")
  <2>1. pc'[t] = "return"
    BY <1>1, <1>5 DEF AfterUnlock
  <2>2. ThreadInv(t)'
    BY <1>1, <1>2, <2>1 DEF ThreadInv, Values, Searched, AtWalk, Found, Copies
  <2>3. ResultOf(t)' = Answer(retval[t])
    BY <1>1, <2>1 DEF ResultOf, Answer
  <2>4. op[t] = "get_elem" => pc[t] = "unlock" /\ retval[t] = Null
    BY <1>1, <1>2 DEF ThreadInv, Values, QueueInv, Places
  <2>5. ResultOf(t) = Answer(retval[t])
    BY <1>1, <1>5, <2>4 DEF ResultOf, Answer
  <2> QED
    BY <1>1, <2>2, <2>3, <2>5, QuietStep
<1> QED
  BY <1>3, <1>4, <1>5

\* A loop passes a node that does not hold the element.
LEMMA WalkOnStep ==
    ASSUME FifoInv, QueueInv', NEW t \in Threads, WalkOn(t)
    PROVE  FifoStep(t)
<1> USE DEF FifoInv
<1>1. /\ AtWalk(t) /\ node[t] # Null /\ elem[node[t]] # arg[t] /\ Others(t)
      /\ UNCHANGED <<pc, op, arg, retval, room, first, chain, elem, next>>
      /\ prev'[t] = node[t] /\ node'[t] = next[node[t]]
  BY DEF WalkOn, AtWalk, QueueInv, TypeOK, Others, hdr, heap
<1>2. PICK i \in DOMAIN chain :
            Standing(t, i) /\ \A j \in 1..(i - 1) : elem[chain[j]] # arg[t]
  BY <1>1 DEF ThreadInv, Searched
<1>3. node[t] = chain[i] /\ \A j \in 1..i : elem[chain[j]] # arg[t]
  <2>1. node[t] = chain[i] /\ i \in Nat
    BY <1>2, ChainFacts DEF Standing
  <2> QED
    BY <1>1, <1>2, <2>1
<1>4. node'[t] = IF i < Len(chain) THEN chain[i + 1] ELSE Null
  BY <1>1, <1>3 DEF QueueInv, Pointers
<1>5. Searched(t)'
  <2>1. CASE i < Len(chain)
    <3>1. i + 1 \in DOMAIN chain /\ i + 1 # 1 /\ (i + 1) - 1 = i
      BY <2>1, ChainFacts
    <3>2. Standing(t, i + 1)'
      BY <1>1, <1>3, <1>4, <2>1, <3>1 DEF Standing
    <3> QED
      BY <1>1, <1>3, <3>1, <3>2 DEF Searched
  <2>2. CASE ~(i < Len(chain))
    <3>1. i = Len(chain) /\ DOMAIN chain = 1..i
      BY <2>2, ChainFacts
    <3> QED
      BY <1>1, <1>3, <1>4, <2>2, <3>1 DEF Searched
  <2> QED
    BY <2>1, <2>2
<1>6. ThreadInv(t)' /\ ResultOf(t)' = ResultOf(t)
  <2>1. ThreadInv(t)
    OBVIOUS
  <2> QED
    BY <1>1, <1>5, <2>1 DEF ThreadInv, Values, Found, Copies, AtWalk, ResultOf
<1> QED
  BY <1>1, <1>6, QuietStep

\* A step by which an operation that changes no list takes effect.
LEMMA AnswerStep ==
    ASSUME FifoInv, QueueInv', NEW t \in Threads, Others(t), ThreadInv(t)',
           UNCHANGED <<op, arg, first, chain, elem>>,
           \A u \in Threads \ {t} : retval'[u] = retval[u] /\ room'[u] = room[u],
           NEW value, ResultOf(t) = Pending, ResultOf(t)' = Answer(value)
    PROVE  /\ \A u \in Threads : ThreadInv(u)'
           /\ Abstract!Settle(t, op[t], value) /\ Elements' = Elements
<1>1. OthersResults(t) /\ \A u \in Threads \ {t} : ThreadInv(u)'
  BY OthersKeep
<1>2. Elements' = Elements
  BY ElementsSame DEF FifoInv
<1> QED
  BY <1>1, <1>2, SettleStep

\* A loop has found the element, at the first node that holds it, or there is none.
LEMMA WalkEndsStep ==
    ASSUME FifoInv, QueueInv', NEW t \in Threads, WalkEnds(t)
    PROVE  FifoStep(t)
<1> USE DEF FifoInv
<1>1. /\ op[t] \in {"get_elem", "remove_elem"} /\ pc[t] = "body" /\ pc'[t] = "unlock"
      /\ node[t] # Null => op[t] = "get_elem" /\ elem[node[t]] = arg[t]
      /\ UNCHANGED <<op, arg, node, prev, retval, room, first, chain, elem>> /\ Others(t)
  BY DEF WalkEnds, AtWalk, Goto, QueueInv, TypeOK, Others, hdr, heap, local
<1>2. Searched(t) /\ AtWalk(t) /\ retval[t] = Null
  BY <1>1 DEF ThreadInv, Values, AtWalk
<1>3. node[t] # Null => \E i \in 1..Len(chain) : node[t] = chain[i] /\ elem[chain[i]] = arg[t]
  BY <1>1, <1>2, ChainFacts DEF Searched, Standing
<1>4. node[t] = Null => \A j \in 1..Len(chain) : elem[chain[j]] # arg[t]
  <2>1. \A i \in DOMAIN chain : ~(node[t] = Null /\ Standing(t, i))
    BY ChainFacts DEF Standing
  <2> QED
    BY <1>2, <2>1, ChainFacts DEF Searched
<1>5. ThreadInv(t)'
  <2>1. node[t] # Null => node[t] \in ToSet(chain)
    BY <1>3, ChainFacts
  <2> QED
    BY <1>1, <1>2, <2>1 DEF ThreadInv, Values, Searched, AtWalk, Found, Copies
<1> DEFINE value == IF node[t] = Null THEN Null ELSE arg[t]
<1>6. ResultOf(t) = Pending /\ ResultOf(t)' = Answer(value)
  <2>1. ResultOf(t) = Pending
    BY <1>1 DEF ResultOf, Pending
  <2>2. CASE op[t] = "get_elem"
    BY <1>1, <2>1, <2>2 DEF ResultOf, Answer
  <2>3. CASE op[t] = "remove_elem"
    BY <1>1, <1>2, <2>1, <2>3 DEF ResultOf, Answer
  <2> QED
    BY <1>1, <2>1, <2>2, <2>3
<1> HIDE DEF value
<1>7. /\ \A u \in Threads : ThreadInv(u)'
      /\ Abstract!Settle(t, op[t], value) /\ Elements' = Elements
  BY <1>1, <1>5, <1>6, AnswerStep
<1>8. Contains(Elements, arg[t]) <=> node[t] # Null
  BY <1>3, <1>4, ElementsSeq DEF Contains
<1>9. CallsMade[t].arg = arg[t]
  BY DEF CallsMade
<1>10. CASE op[t] = "get_elem"
  <2>1. value = IF Contains(Elements, CallsMade[t].arg) THEN CallsMade[t].arg ELSE Null
    BY <1>8, <1>9 DEF value
  <2>2. Abstract!GetElem(t)
    BY <1>7, <1>10, <2>1
    DEF Abstract!GetElem, Abstract!Contains, Contains, Elements, CallsMade
  <2> QED
    BY <1>7, <2>2 DEF FifoStep, Abstract!FifoNext
<1>11. CASE op[t] = "remove_elem"
  <2>1. value = Null /\ ~Contains(Elements, CallsMade[t].arg)
    BY <1>1, <1>8, <1>9, <1>11 DEF value
  <2>2. Abstract!RemoveElem(t)
    BY <1>7, <1>11, <2>1
    DEF Abstract!RemoveElem, Abstract!Contains, Contains, Elements, CallsMade
  <2> QED
    BY <1>7, <2>2 DEF FifoStep, Abstract!FifoNext
<1> QED
  BY <1>1, <1>10, <1>11

\* get_elem reads, after the lock is released, what was there when it found it.
LEMMA ReadElemStep ==
    ASSUME FifoInv, QueueInv', NEW t \in Threads, ReadElem(t)
    PROVE  FifoStep(t)
<1> USE DEF FifoInv
<1>1. /\ pc[t] = "read" /\ pc'[t] = "return" /\ op[t] = "get_elem" /\ Others(t)
      /\ UNCHANGED <<op, arg, node, prev, room, first, chain, elem>>
      /\ retval'[t] = elem[node[t]]
      /\ \A u \in Threads \ {t} : retval'[u] = retval[u]
  BY DEF ReadElem, Goto, QueueInv, TypeOK, Places, Assigned, Others, hdr, heap
<1>2. node[t] # Null
  <2>1. node[t] \in ToSet(chain)
    BY <1>1 DEF ThreadInv, Found
  <2> QED
    BY <2>1, ChainFacts, NullAssumption
<1>3. ThreadInv(t)
  OBVIOUS
<1>4. ThreadInv(t)'
  BY <1>1, <1>3 DEF ThreadInv, Values, Searched, AtWalk, Found, Copies
<1>5. ResultOf(t)' = ResultOf(t)
  BY <1>1, <1>2 DEF ResultOf, Answer
<1> QED
  BY <1>1, <1>4, <1>5, QuietStep

LEMMA DequeueEmptyStep ==
    ASSUME FifoInv, QueueInv', NEW t \in Threads, DequeueEmpty(t)
    PROVE  FifoStep(t)
<1> USE DEF FifoInv
<1>1. /\ op[t] = "dequeue" /\ pc[t] = "body" /\ pc'[t] = "unlock" /\ first = Null
      /\ UNCHANGED <<op, arg, node, prev, retval, room, first, chain, elem>> /\ Others(t)
  BY DEF DequeueEmpty, At, Goto, QueueInv, TypeOK, Others, hdr, heap, local
<1>2. ThreadInv(t) /\ retval[t] = Null
  BY <1>1 DEF ThreadInv, Values
<1>3. ThreadInv(t)'
  BY <1>1, <1>2 DEF ThreadInv, Values, Searched, AtWalk, Found, Copies
<1>4. ResultOf(t) = Pending /\ ResultOf(t)' = Answer(Null)
  BY <1>1, <1>2 DEF ResultOf, Pending, Answer
<1>5. /\ \A u \in Threads : ThreadInv(u)'
      /\ Abstract!Settle(t, "dequeue", Null) /\ Elements' = Elements
  BY <1>1, <1>3, <1>4, AnswerStep
<1>6. Elements = <<>>
  <2>1. Len(chain) = 0
    BY <1>1, ChainFacts
  <2>2. Elements \in Seq(Elems \cup {Garbage}) /\ Len(Elements) = 0
    BY <2>1, ElementsSeq
  <2> QED
    BY <2>2, EmptySeq
<1>7. Abstract!Dequeue(t)
  BY <1>5, <1>6 DEF Abstract!Dequeue, Elements
<1> QED
  BY <1>5, <1>7 DEF FifoStep, Abstract!FifoNext

LEMMA CountElemsStep ==
    ASSUME FifoInv, QueueInv', NEW t \in Threads, CountElems(t)
    PROVE  FifoStep(t)
<1> USE DEF FifoInv
<1>1. /\ op[t] \in {"num_elems", "get_all_elems"} /\ pc[t] = "body" /\ pc'[t] = "unlock"
      /\ UNCHANGED <<op, arg, node, prev, first, chain, elem>> /\ Others(t)
      /\ op[t] = "num_elems" => retval'[t] = num
      /\ op[t] = "get_all_elems" => retval'[t] = <<>> /\ room'[t] = num
      /\ \A u \in Threads \ {t} : retval'[u] = retval[u] /\ room'[u] = room[u]
  BY DEF CountElems, Goto, QueueInv, TypeOK, Assigned, Others, hdr, heap
<1>2. num = Len(chain)
  <2>1. InSection(t)
    BY <1>1 DEF InSection
  <2>2. \A u \in Threads : pc[u] \notin {"tail", "free"}
    BY <1>1, <2>1, Alone DEF QueueInv, InSection
  <2> QED
    BY <2>2 DEF QueueInv, LastAndNum
<1>3. ThreadInv(t)
  OBVIOUS
<1>4. ThreadInv(t)'
  BY <1>1, <1>2, <1>3 DEF ThreadInv, Values, Searched, AtWalk, Found, Copies
<1>5. ResultOf(t) = Pending
  BY <1>1 DEF ResultOf, Pending
<1>6. CASE op[t] = "num_elems"
  <2>1. ResultOf(t)' = Answer(Len(Elements))
    BY <1>1, <1>2, <1>6, ElementsSeq DEF ResultOf, Answer
  <2>2. /\ \A u \in Threads : ThreadInv(u)'
        /\ Abstract!Settle(t, op[t], Len(Elements)) /\ Elements' = Elements
    BY <1>1, <1>4, <1>5, <2>1, AnswerStep
  <2>3. Abstract!NumElems(t)
    BY <1>6, <2>2 DEF Abstract!NumElems, Elements
  <2> QED
    BY <2>2, <2>3 DEF FifoStep, Abstract!FifoNext
<1>7. CASE op[t] = "get_all_elems"
  <2>1. ResultOf(t)' = ResultOf(t)
    BY <1>1, <1>5, <1>7 DEF ResultOf, Pending
  <2> QED
    BY <1>1, <1>4, <2>1, QuietStep
<1> QED
  BY <1>1, <1>6, <1>7

\* get_all_elems starts at the first node, which stays the first.
LEMMA AllStartStep ==
    ASSUME FifoInv, QueueInv', NEW t \in Threads, AllFirst(t) \/ AllLock(t)
    PROVE  FifoStep(t)
<1> USE DEF FifoInv
<1>1. /\ \/ pc[t] = "first" /\ pc'[t] = "lock_all" /\ node'[t] = first
         \/ pc[t] = "lock_all" /\ pc'[t] = "copy" /\ node'[t] = node[t]
      /\ UNCHANGED <<op, arg, prev, retval, room, first, chain, elem>> /\ Others(t)
      /\ op[t] = "get_all_elems"
  <2>1. CASE AllFirst(t)
    <3>1. /\ pc[t] = "first" /\ pc' = [pc EXCEPT ![t] = "lock_all"]
          /\ node' = [node EXCEPT ![t] = first]
          /\ UNCHANGED <<op, arg, prev, retval, room, first, chain, elem>>
      BY <2>1 DEF AllFirst, Goto, hdr, heap
    <3> QED
      BY <3>1 DEF QueueInv, TypeOK, Places, Others
  <2>2. CASE AllLock(t)
    <3>1. /\ pc[t] = "lock_all" /\ pc' = [pc EXCEPT ![t] = "copy"]
          /\ UNCHANGED <<op, arg, node, prev, retval, room, first, chain, elem>>
      BY <2>2 DEF AllLock, Goto, hdr, heap, local
    <3> QED
      BY <3>1 DEF QueueInv, TypeOK, Places, Others
  <2> QED
    BY <2>1, <2>2
<1>2. ThreadInv(t)
  OBVIOUS
<1>3. retval[t] = <<>> /\ room[t] = Len(chain) /\ (pc[t] = "lock_all" => node[t] = first)
  BY <1>1, <1>2 DEF ThreadInv, Copies
<1>4. Copies(t)'
  <2>1. CASE pc'[t] = "lock_all"
    BY <1>1, <1>3, <2>1 DEF Copies
  <2>2. CASE pc'[t] = "copy"
    <3>1. CopiedSoFar(t, 0)'
      BY <1>1, <1>3, EmptySeq DEF CopiedSoFar
    <3>2. node'[t] = IF 0 < Len(chain') THEN chain'[0 + 1] ELSE Null
      BY <1>1, <1>3, <2>2, ChainFacts
    <3>3. 0 \in 0..Len(chain')
      BY <1>1, ChainFacts
    <3> QED
      BY <1>1, <1>3, <2>2, <3>1, <3>2, <3>3 DEF Copies
  <2> QED
    BY <1>1, <2>1, <2>2
<1>5. ThreadInv(t)'
  BY <1>1, <1>2, <1>4 DEF ThreadInv, Values, Searched, AtWalk, Found
<1>6. ResultOf(t)' = ResultOf(t)
  BY <1>1 DEF ResultOf
<1> QED
  BY <1>1, <1>5, <1>6, QuietStep

\* It copies one element more, ...
LEMMA AllCopyStep ==
    ASSUME FifoInv, QueueInv', NEW t \in Threads, AllCopy(t)
    PROVE  FifoStep(t)
<1> USE DEF FifoInv
<1>1. /\ op[t] = "get_all_elems" /\ pc[t] = "copy" /\ node[t] \in Nodes
      /\ retval'[t] = Append(retval[t], elem[node[t]]) /\ node'[t] = next[node[t]]
      /\ UNCHANGED <<pc, op, arg, prev, room, first, chain, elem, next>> /\ Others(t)
      /\ \A u \in Threads \ {t} : retval'[u] = retval[u]
  BY DEF AllCopy, QueueInv, TypeOK, Places, Assigned, Others, hdr, heap
<1>2. PICK k \in 0..Len(chain) :
            CopiedSoFar(t, k) /\ node[t] = IF k < Len(chain) THEN chain[k + 1] ELSE Null
  BY <1>1 DEF ThreadInv, Copies
<1>3. k < Len(chain) /\ node[t] = chain[k + 1] /\ Len(chain) \in Nat /\ k + 1 \in 1..Len(chain)
  BY <1>1, <1>2, ChainFacts, NullAssumption
<1>4. node'[t] = IF k + 1 < Len(chain) THEN chain[(k + 1) + 1] ELSE Null
  BY <1>1, <1>3, ChainFacts DEF QueueInv, Pointers
<1>5. CopiedSoFar(t, k + 1)'
  <2>1. elem[chain[k + 1]] \in Elems \cup {Garbage}
    BY <1>1, <1>3 DEF QueueInv, TypeOK
  <2>2. /\ retval'[t] \in Seq(Elems \cup {Garbage}) /\ Len(retval'[t]) = k + 1
        /\ \A j \in 1..k : retval'[t][j] = retval[t][j]
        /\ retval'[t][k + 1] = elem[chain[k + 1]]
    BY <1>1, <1>2, <1>3, <2>1, AppendProperties DEF CopiedSoFar
  <2>3. ASSUME NEW j \in 1..(k + 1) PROVE retval'[t][j] = elem'[chain'[j]]
    <3>1. CASE j = k + 1
      BY <1>1, <2>2, <3>1
    <3>2. CASE j \in 1..k
      BY <1>1, <1>2, <2>2, <3>2 DEF CopiedSoFar
    <3> QED
      BY <1>3, <3>1, <3>2
  <2> QED
    BY <2>2, <2>3 DEF CopiedSoFar
<1>6. ThreadInv(t)
  OBVIOUS
<1>7. ThreadInv(t)'
  <2>1. room'[t] = Len(chain') /\ k + 1 \in 0..Len(chain')
    BY <1>1, <1>3, <1>6 DEF ThreadInv, Copies
  <2>2. node'[t] = IF k + 1 < Len(chain') THEN chain'[(k + 1) + 1] ELSE Null
    BY <1>1, <1>4
  <2>3. Copies(t)'
    BY <1>1, <1>5, <2>1, <2>2 DEF Copies
  <2> QED
    BY <1>1, <1>6, <2>3 DEF ThreadInv, Values, Searched, AtWalk, Found
<1>8. ResultOf(t)' = ResultOf(t)
  BY <1>1 DEF ResultOf
<1> QED
  BY <1>1, <1>7, <1>8, QuietStep

\* ... and at the end it has them all.
LEMMA AllEndStep ==
    ASSUME FifoInv, QueueInv', NEW t \in Threads, AllEnd(t)
    PROVE  FifoStep(t)
<1> USE DEF FifoInv
<1>1. /\ op[t] = "get_all_elems" /\ pc[t] = "copy" /\ pc'[t] = "unlock_all" /\ node[t] = Null
      /\ UNCHANGED <<op, arg, node, prev, retval, room, first, chain, elem>> /\ Others(t)
  BY DEF AllEnd, Goto, QueueInv, TypeOK, Places, Others, hdr, heap, local
<1>2. PICK k \in 0..Len(chain) :
            CopiedSoFar(t, k) /\ node[t] = IF k < Len(chain) THEN chain[k + 1] ELSE Null
  BY <1>1 DEF ThreadInv, Copies
<1>3. k = Len(chain)
  <2>1. ~(k < Len(chain))
    BY <1>1, <1>2, ChainFacts
  <2>2. Len(chain) \in Nat /\ k \in 0..Len(chain)
    BY <1>2, ChainFacts
  <2> QED
    BY <2>1, <2>2
<1>4. ThreadInv(t)
  OBVIOUS
<1>5. ThreadInv(t)'
  <2>1. CopiedSoFar(t, Len(chain))'
    BY <1>1, <1>2, <1>3 DEF CopiedSoFar
  <2>2. Copies(t)'
    BY <1>1, <1>4, <2>1 DEF ThreadInv, Copies
  <2> QED
    BY <1>1, <1>4, <2>2 DEF ThreadInv, Values, Searched, AtWalk, Found
<1>6. retval[t] = Elements
  <2>1. /\ retval[t] \in Seq(Elems \cup {Garbage}) /\ Elements \in Seq(Elems \cup {Garbage})
        /\ Len(retval[t]) = Len(Elements)
        /\ \A j \in 1..Len(Elements) : retval[t][j] = Elements[j]
    BY <1>2, <1>3, ElementsSeq DEF CopiedSoFar
  <2> QED
    BY <2>1, SeqEqual
<1>7. ResultOf(t) = Pending /\ ResultOf(t)' = Answer(Elements)
  BY <1>1, <1>6 DEF ResultOf, Pending, Answer
<1>8. /\ \A u \in Threads : ThreadInv(u)'
      /\ Abstract!Settle(t, op[t], Elements) /\ Elements' = Elements
  BY <1>1, <1>5, <1>7, AnswerStep
<1>9. Abstract!GetAllElems(t)
  BY <1>1, <1>8 DEF Abstract!GetAllElems, Elements
<1> QED
  BY <1>8, <1>9 DEF FifoStep, Abstract!FifoNext

\* enqueue takes effect when its node is linked.
LEMMA EnqueueLinkStep ==
    ASSUME FifoInv, QueueInv', NEW t \in Threads, EnqueueLink(t)
    PROVE  FifoStep(t)
<1> USE DEF FifoInv
<1> DEFINE n == node[t]
<1>1. /\ op[t] = "enqueue" /\ pc[t] = "body" /\ pc'[t] = "tail"
      /\ UNCHANGED <<op, arg, node, prev, retval, room, elem>> /\ Others(t)
      /\ chain' = Append(chain, n) /\ InSection(t)
  BY DEF EnqueueLink, At, Goto, QueueInv, TypeOK, Others, InSection, local
<1>2. elem[n] = arg[t] /\ retval[t] = Null /\ n \in Nodes
  <2>1. n \in Held(t)
    BY <1>1 DEF Held
  <2> QED
    BY <1>1, <2>1 DEF ThreadInv, Values, QueueInv, Accounted, TypeOK
<1> HIDE DEF n
<1>3. /\ Len(chain') = Len(chain) + 1 /\ chain'[Len(chain) + 1] = n
      /\ \A i \in 1..Len(chain) : chain'[i] = chain[i]
      /\ ToSet(chain') = ToSet(chain) \cup {n} /\ Len(chain) \in Nat
  BY <1>1, <1>2, ChainFacts, AppendProperties, AppendRange
<1>4. Elements' = Append(Elements, arg[t])
  <2> DEFINE more == Append(Elements, arg[t])
             E == Elems \cup {Garbage}
  <2>1. arg[t] \in E
    BY <1>2 DEF QueueInv, TypeOK
  <2>2. /\ Elements \in Seq(E) /\ Len(Elements) = Len(chain)
        /\ \A i \in 1..Len(chain) : Elements[i] = elem[chain[i]]
    BY ElementsSeq
  <2>3. /\ more \in Seq(E) /\ Len(more) = Len(chain) + 1 /\ more[Len(chain) + 1] = arg[t]
        /\ \A i \in 1..Len(chain) : more[i] = elem[chain[i]]
    BY <2>1, <2>2, AppendProperties
  <2>4. /\ Elements' \in Seq(E) /\ Len(Elements') = Len(chain')
        /\ \A i \in 1..Len(chain') : Elements'[i] = elem'[chain'[i]]
    BY NextElementsSeq
  <2> HIDE DEF more, E
  <2>5. ASSUME NEW i \in 1..(Len(chain) + 1) PROVE Elements'[i] = more[i]
    <3>1. CASE i = Len(chain) + 1
      BY <1>1, <1>2, <1>3, <2>3, <2>4, <3>1
    <3>2. CASE i \in 1..Len(chain)
      BY <1>1, <1>3, <2>3, <2>4, <3>2
    <3> QED
      BY <1>3, <3>1, <3>2
  <2>6. Len(Elements') = Len(more) /\ Len(more) = Len(chain) + 1
    BY <1>3, <2>3, <2>4
  <2>7. Elements' = more
    BY <2>3, <2>4, <2>5, <2>6, SeqEqual
  <2> QED
    BY <2>7 DEF more
<1>5. ThreadInv(t)'
  BY <1>1, <1>2 DEF ThreadInv, Values, Searched, AtWalk, Found, Copies
<1>6. OthersResults(t) /\ \A u \in Threads \ {t} : ThreadInv(u)'
  BY <1>1, <1>3, OthersKeep
<1>7. ResultOf(t) = Pending /\ ResultOf(t)' = Answer(Null)
  BY <1>1 DEF ResultOf, Pending, Answer
<1>8. Abstract!Settle(t, op[t], Null)
  BY <1>1, <1>6, <1>7, SettleStep
<1>9. Abstract!Enqueue(t)
  BY <1>1, <1>4, <1>8 DEF Abstract!Enqueue, Elements
<1> QED
  BY <1>5, <1>6, <1>9 DEF FifoStep, Abstract!FifoNext

LEMMA EnqueueTailStep ==
    ASSUME FifoInv, QueueInv', NEW t \in Threads, EnqueueTail(t)
    PROVE  FifoStep(t)
<1> USE DEF FifoInv
<1>1. /\ op[t] = "enqueue" /\ pc[t] = "tail" /\ pc'[t] = "unlock" /\ Others(t)
      /\ UNCHANGED <<op, arg, node, prev, retval, room, first, chain, elem>>
  BY DEF EnqueueTail, At, Goto, QueueInv, TypeOK, Others, heap, local
<1>2. ThreadInv(t) /\ retval[t] = Null
  BY <1>1 DEF ThreadInv, Values
<1>3. ThreadInv(t)' /\ ResultOf(t)' = ResultOf(t)
  BY <1>1, <1>2 DEF ThreadInv, Values, Searched, AtWalk, Found, Copies, ResultOf
<1> QED
  BY <1>1, <1>3, QuietStep

\* dequeue takes effect when the first node is out of the list.
LEMMA DequeueUnlinkStep ==
    ASSUME FifoInv, QueueInv', NEW t \in Threads, DequeueUnlink(t)
    PROVE  FifoStep(t)
<1> USE DEF FifoInv
<1>1. /\ op[t] = "dequeue" /\ pc[t] = "body" /\ pc'[t] = "free" /\ first # Null
      /\ UNCHANGED <<op, arg, node, prev, room, elem>> /\ Others(t) /\ InSection(t)
      /\ retval'[t] = elem[node[t]] /\ chain' = Tail(chain)
      /\ \A u \in Threads \ {t} : retval'[u] = retval[u]
  BY DEF DequeueUnlink, At, Goto, QueueInv, TypeOK, Assigned, Others, InSection, heap
<1>2. /\ chain \in Seq(Nodes) /\ chain # <<>> /\ Len(chain) \in Nat \ {0}
      /\ node[t] = chain[1] /\ 1 \in 1..Len(chain)
  BY <1>1, ChainFacts DEF QueueInv, Walks, At
<1> DEFINE E == Elems \cup {Garbage}
<1>3. /\ Elements \in Seq(E) /\ Len(Elements) = Len(chain) /\ Elements # <<>>
      /\ \A i \in 1..Len(chain) : Elements[i] = elem[chain[i]]
  BY <1>2, ElementsSeq, EmptySeq
<1>4. retval'[t] = Head(Elements)
  BY <1>1, <1>2, <1>3, TailProperties
<1>5. Elements' = Tail(Elements)
  <2> HIDE DEF E
  <2>1. /\ Tail(Elements) \in Seq(E) /\ Len(Tail(Elements)) = Len(chain) - 1
        /\ \A i \in DOMAIN Tail(Elements) : Tail(Elements)[i] = Elements[i + 1]
    BY <1>3, TailProperties, TailRange
  <2>2. DOMAIN Tail(Elements) = 1..(Len(chain) - 1)
    BY <2>1, LenProperties
  <2>3. /\ Tail(chain) \in Seq(Nodes) /\ Len(chain') = Len(chain) - 1
        /\ \A i \in DOMAIN Tail(chain) : Tail(chain)[i] = chain[i + 1]
    BY <1>1, <1>2, TailProperties, TailRange
  <2>4. DOMAIN Tail(chain) = 1..(Len(chain) - 1)
    BY <1>1, <2>3, LenProperties
  <2>5. /\ Elements' \in Seq(E) /\ Len(Elements') = Len(chain')
        /\ \A i \in 1..Len(chain') : Elements'[i] = elem'[chain'[i]]
    BY NextElementsSeq DEF E
  <2>6. ASSUME NEW i \in 1..(Len(chain) - 1) PROVE Elements'[i] = Tail(Elements)[i]
    <3>1. i + 1 \in 1..Len(chain)
      BY <1>2
    <3>2. Tail(Elements)[i] = elem[chain[i + 1]]
      BY <1>3, <2>1, <2>2, <3>1
    <3>3. Elements'[i] = elem[chain[i + 1]]
      BY <1>1, <2>3, <2>4, <2>5
    <3> QED
      BY <3>2, <3>3
  <2>7. Len(Elements') = Len(Tail(Elements)) /\ Len(Elements') = Len(chain) - 1
    BY <2>1, <2>3, <2>5
  <2> QED
    BY <2>1, <2>5, <2>6, <2>7, SeqEqual
<1>6. ThreadInv(t)'
  BY <1>1 DEF ThreadInv, Values, Searched, AtWalk, Found, Copies
<1>7. OthersResults(t) /\ \A u \in Threads \ {t} : ThreadInv(u)'
  BY <1>1, OthersKeep DEF Removing
<1>8. ResultOf(t) = Pending /\ ResultOf(t)' = Answer(Head(Elements))
  <2>1. ResultOf(t)' = Answer(retval'[t])
    BY <1>1 DEF ResultOf, Answer
  <2>2. ResultOf(t) = Pending
    BY <1>1 DEF ResultOf, Pending
  <2> QED
    BY <1>4, <2>1, <2>2
<1>9. Abstract!Settle(t, op[t], Head(Elements))
  BY <1>1, <1>7, <1>8, SettleStep
<1>10. Abstract!Dequeue(t)
  BY <1>1, <1>3, <1>5, <1>9 DEF Abstract!Dequeue, Elements
<1> QED
  BY <1>6, <1>7, <1>10 DEF FifoStep, Abstract!FifoNext

\* free() writes a node the list does not have, after the operation took effect.
LEMMA FreeNodeStep ==
    ASSUME FifoInv, QueueInv', NEW t \in Threads, FreeNode(t)
    PROVE  FifoStep(t)
<1> USE DEF FifoInv
<1>1. /\ op[t] \in {"dequeue", "remove_elem"} /\ pc[t] = "free" /\ pc'[t] = "unlock"
      /\ UNCHANGED <<op, arg, node, prev, retval, room, first, chain>> /\ Others(t)
      /\ elem' = [elem EXCEPT ![node[t]] = Garbage]
  BY DEF FreeNode, Goto, QueueInv, TypeOK, Places, Others, local
<1>2. Held(t) = {node[t]}
  BY <1>1 DEF Held
<1>3. \A m : m # node[t] /\ m \in Nodes => elem'[m] = elem[m]
  BY <1>1 DEF QueueInv, TypeOK
<1>4. \A m \in ToSet(chain) : elem'[m] = elem[m]
  BY <1>2, <1>3, ChainFacts DEF QueueInv, Accounted
<1>5. ASSUME NEW u \in Threads \ {t}, op[u] = "enqueue", pc[u] \in {"lock", "body"}
      PROVE  elem'[node[u]] = elem[node[u]]
  <2>1. node[u] \in Held(u)
    BY <1>5 DEF Held
  <2>2. node[u] # node[t] /\ node[u] \in Nodes
    BY <1>2, <2>1 DEF QueueInv, Accounted, TypeOK
  <2> QED
    BY <1>3, <2>2
<1>6. ThreadInv(t) /\ (op[t] = "remove_elem" => retval[t] = Null)
  BY DEF ThreadInv, Values
<1>7. ThreadInv(t)'
  BY <1>1, <1>6 DEF ThreadInv, Values, Searched, AtWalk, Found, Copies
<1>8. ResultOf(t)' = ResultOf(t)
  <2>1. CASE op[t] = "dequeue"
    BY <1>1, <2>1 DEF ResultOf, Answer
  <2>2. CASE op[t] = "remove_elem"
    BY <1>1, <1>6, <2>2 DEF ResultOf, Answer
  <2> QED
    BY <1>1, <2>1, <2>2
<1> QED
  BY <1>1, <1>4, <1>5, <1>7, <1>8, QuietStep

\* remove_elem takes effect when the first node with the element is out of the list.
LEMMA RemoveUnlinkStep ==
    ASSUME FifoInv, QueueInv', NEW t \in Threads, RemoveUnlink(t)
    PROVE  FifoStep(t)
<1> USE DEF FifoInv
<1>1. /\ op[t] = "remove_elem" /\ pc[t] = "body" /\ pc'[t] = "free"
      /\ node[t] # Null /\ elem[node[t]] = arg[t]
      /\ UNCHANGED <<op, arg, node, prev, retval, room, elem>> /\ Others(t) /\ InSection(t)
  BY DEF RemoveUnlink, At, Goto, QueueInv, TypeOK, Others, InSection, local
<1>2. PICK i \in 1..Len(chain) : chain[i] = node[t] /\ chain' = RemoveAt(chain, i)
  BY ChainFacts DEF RemoveUnlink
<1>3. \A j \in 1..(i - 1) : elem[chain[j]] # arg[t]
  <2>1. PICK k \in DOMAIN chain :
            Standing(t, k) /\ \A j \in 1..(k - 1) : elem[chain[j]] # arg[t]
    BY <1>1 DEF ThreadInv, Searched, AtWalk
  <2>2. k = i
    BY <1>2, <2>1, ChainFacts DEF Standing, Distinct
  <2> QED
    BY <2>1, <2>2
<1> DEFINE E == Elems \cup {Garbage}
           fewer == RemoveAt(Elements, i)
<1>4. /\ Elements \in Seq(E) /\ Len(Elements) = Len(chain) /\ DOMAIN Elements = 1..Len(chain)
      /\ Len(chain) \in Nat /\ chain \in Seq(Nodes)
      /\ \A j \in 1..Len(chain) : Elements[j] = elem[chain[j]]
  BY ElementsSeq, ChainFacts
<1>5. Elements' = fewer
  <2> HIDE DEF E
  <2>1. /\ fewer \in Seq(E) /\ Len(fewer) = Len(chain) - 1
        /\ \A j \in 1..(Len(chain) - 1) :
                fewer[j] = IF j < i THEN Elements[j] ELSE Elements[j + 1]
    <3>1. Elements \in Seq(E) /\ i \in 1..Len(Elements) /\ Len(Elements) = Len(chain)
      BY <1>4
    <3> HIDE DEF Elements
    <3> QED
      BY <3>1, RemoveAtProperties
  <2>2. /\ Len(chain') = Len(chain) - 1
        /\ \A j \in 1..(Len(chain) - 1) :
                chain'[j] = IF j < i THEN chain[j] ELSE chain[j + 1]
    BY <1>2, <1>4, RemoveAtProperties
  <2>3. /\ Elements' \in Seq(E) /\ Len(Elements') = Len(chain')
        /\ \A j \in 1..Len(chain') : Elements'[j] = elem'[chain'[j]]
    BY NextElementsSeq DEF E
  <2> HIDE DEF fewer
  <2>4. ASSUME NEW j \in 1..(Len(chain) - 1) PROVE Elements'[j] = fewer[j]
    <3>1. j \in 1..Len(chain) /\ j + 1 \in 1..Len(chain)
      BY <1>4
    <3>2. Elements'[j] = elem[chain'[j]]
      BY <1>1, <2>2, <2>3
    <3>3. CASE j < i
      BY <1>4, <2>1, <2>2, <3>1, <3>2, <3>3
    <3>4. CASE ~(j < i)
      BY <1>4, <2>1, <2>2, <3>1, <3>2, <3>4
    <3> QED
      BY <3>3, <3>4
  <2>5. Len(Elements') = Len(fewer) /\ Len(Elements') = Len(chain) - 1
    BY <2>1, <2>2, <2>3
  <2> QED
    BY <2>1, <2>3, <2>4, <2>5, SeqEqual
<1>6. Elements[i] = arg[t] /\ \A j \in 1..(i - 1) : Elements[j] # arg[t]
  BY <1>1, <1>2, <1>3, <1>4
<1>7. retval[t] = Null
  BY <1>1 DEF ThreadInv, Values
<1>8. ThreadInv(t)'
  BY <1>1, <1>7 DEF ThreadInv, Values, Searched, AtWalk, Found, Copies
<1>9. OthersResults(t) /\ \A u \in Threads \ {t} : ThreadInv(u)'
  BY <1>1, OthersKeep DEF Removing
<1>10. ResultOf(t) = Pending /\ ResultOf(t)' = Answer(Null)
  BY <1>1 DEF ResultOf, Pending, Answer
<1>11. Abstract!Settle(t, op[t], Null)
  BY <1>1, <1>9, <1>10, SettleStep
<1>12. CallsMade[t].arg = arg[t] /\ i \in DOMAIN Elements
  BY <1>4 DEF CallsMade
<1>13. Abstract!RemoveElem(t)
  BY <1>1, <1>5, <1>6, <1>11, <1>12
  DEF Abstract!RemoveElem, Abstract!RemoveAt, RemoveAt, Elements, CallsMade
<1> QED
  BY <1>8, <1>9, <1>13 DEF FifoStep, Abstract!FifoNext
-----------------------------------------------------------------------------
(* All steps, and the theorem.                                             *)

LEMMA InitFifo ==
    ASSUME \A workload \in Workloads : Disciplined(workload), Init
    PROVE  FifoInv /\ Abstract!FifoInit
<1> USE DEF Init
<1>1. QueueInv
  BY InitQueue
<1>2. Permitted /\ Assigned
  BY DEF Permitted, Assigned
<1>3. \A t \in Threads : ThreadInv(t)
  BY DEF ThreadInv, Values, Searched, AtWalk, Found, Copies
<1>4. Elements = <<>>
  <2>1. Elements \in Seq(Elems \cup {Garbage}) /\ Len(Elements) = 0
    BY <1>1, ElementsSeq, EmptySeq
  <2> QED
    BY <2>1, EmptySeq
<1>5. CallsMade = [t \in Threads |-> Abstract!None] /\ Results = [t \in Threads |-> Pending]
  BY DEF CallsMade, Abstract!None, Results, ResultOf, Pending
<1> QED
  BY <1>1, <1>2, <1>3, <1>4, <1>5
  DEF FifoInv, Abstract!FifoInit, Abstract!Pending, Pending, Elements, CallsMade, Results

\* A thread calls what its workload has, whatever it has called before.
LEMMA PermittedNext ==
    ASSUME FifoInv, NEW t \in Threads, Calling(t) \/ Running(t)
    PROVE  Permitted' /\ Assigned'
<1> USE DEF FifoInv
<1>1. Assigned'
  <2>1. CASE Calling(t)
    BY <2>1 DEF Assigned, Calling, CallEnqueue, CallOther, local
  <2>2. CASE Running(t)
    BY <2>2 DEF Assigned, Running, Lock, Unlock, Return, EnqueueLink, EnqueueTail,
       DequeueEmpty, DequeueUnlink, FreeNode, WalkOn, WalkEnds, ReadElem, RemoveUnlink,
       CountElems, AllFirst, AllLock, AllCopy, AllEnd, local
  <2> QED
    BY <2>1, <2>2
<1>2. Permitted'
  <2>1. ASSUME NEW operation, NEW e, Begin(t, operation, e)
        PROVE  Permitted'
    <3>1. /\ operation \in calls[t].may /\ op' = [op EXCEPT ![t] = operation]
          /\ calls \in [Threads -> [may : SUBSET Operations, left : Nat]]
          /\ op \in [Threads -> Operations \cup {"none"}]
      BY <2>1 DEF Begin, QueueInv, TypeOK
    <3>2. \A u \in Threads : calls'[u].may = calls[u].may
      <4> DEFINE c == [calls[t] EXCEPT !.left = calls[t].left - 1]
      <4>1. calls' = [calls EXCEPT ![t] = c] /\ c.may = calls[t].may
        BY <2>1, <3>1 DEF Begin
      <4> HIDE DEF c
      <4> QED
        BY <3>1, <4>1
    <3> QED
      BY <3>1, <3>2 DEF Permitted, Disciplined
  <2>2. CASE Calling(t)
    BY <2>1, <2>2 DEF Calling, CallEnqueue, CallOther
  <2>3. CASE Return(t)
    BY <2>3 DEF Return, Permitted, Disciplined, QueueInv, TypeOK
  <2>4. CASE Running(t) /\ ~Return(t)
    <3>1. UNCHANGED <<op, calls>>
      BY <2>4 DEF Running, Lock, Unlock, EnqueueLink, EnqueueTail, DequeueEmpty,
         DequeueUnlink, FreeNode, WalkOn, WalkEnds, ReadElem, RemoveUnlink, CountElems,
         AllFirst, AllLock, AllCopy, AllEnd
    <3> QED
      BY <3>1 DEF Permitted, Disciplined
  <2> QED
    BY <2>2, <2>3, <2>4
<1> QED
  BY <1>1, <1>2

LEMMA NextFifo ==
    ASSUME FifoInv, [Next]_vars
    PROVE  FifoInv' /\ [Abstract!FifoNext]_(Abstract!fifoVars)
<1>1. QueueInv'
  BY NextQueue DEF FifoInv
<1>2. CASE Next
  <2>1. PICK t \in Threads : Calling(t) \/ Running(t)
    BY <1>2 DEF Next
  <2>2. ASSUME Calling(t) PROVE FifoStep(t)
    BY <1>1, <2>2, CallStep DEF Calling
  <2>3. ASSUME Running(t) PROVE FifoStep(t)
    BY <1>1, <2>3, LockStep, UnlockStep, ReturnStep, EnqueueLinkStep,
       EnqueueTailStep, DequeueEmptyStep, DequeueUnlinkStep, FreeNodeStep, WalkOnStep,
       WalkEndsStep, ReadElemStep, RemoveUnlinkStep, CountElemsStep, AllStartStep,
       AllCopyStep, AllEndStep DEF Running
  <2> QED
    BY <1>1, <2>1, <2>2, <2>3, PermittedNext DEF FifoInv, FifoStep
<1>3. CASE UNCHANGED vars
  <2>1. /\ UNCHANGED <<first, next, elem, pc, op, arg, node, prev, retval, room, calls, chain>>
    BY <1>3 DEF vars, hdr, heap, local
  <2>2. Permitted' /\ Assigned'
    BY <2>1 DEF FifoInv, Permitted, Disciplined, Assigned
  <2>3. ASSUME NEW t \in Threads
        PROVE  ThreadInv(t)' /\ ResultOf(t)' = ResultOf(t)
    <3>1. Values(t) /\ Searched(t) /\ Found(t) /\ Copies(t)
      BY DEF FifoInv, ThreadInv
    <3>2. Values(t)' /\ Found(t)'
      BY <2>1, <3>1 DEF Values, Found
    <3>3. Searched(t)'
      BY <2>1, <3>1 DEF Searched, AtWalk, Standing
    <3>4. Copies(t)'
      BY <2>1, <3>1 DEF Copies, CopiedSoFar
    <3>5. ResultOf(t)' = ResultOf(t)
      BY <2>1 DEF ResultOf
    <3> QED
      BY <3>2, <3>3, <3>4, <3>5 DEF ThreadInv
  <2>4. Elements' = Elements /\ CallsMade' = CallsMade /\ Results' = Results
    BY <2>1, <2>3 DEF Elements, CallsMade, Results
  <2>5. UNCHANGED Abstract!fifoVars
    BY <2>4 DEF Abstract!fifoVars, Elements, CallsMade, Results
  <2> QED
    BY <1>1, <2>2, <2>3, <2>5 DEF FifoInv
<1> QED
  BY <1>2, <1>3

\* queue.h:18: where no thread removes elements beside a get_elem of another, and none
\* changes the list beside a get_all_elems of another, every operation takes effect at
\* one instant between its call and its return, on a first-in first-out queue, and
\* returns what that queue held.
THEOREM QueueIsFifo ==
    ASSUME \A workload \in Workloads : Disciplined(workload)
    PROVE  Spec => ImplementsFifo
<1>1. Init => FifoInv /\ Abstract!FifoInit
  BY InitFifo
<1>2. FifoInv /\ [Next]_vars => FifoInv' /\ [Abstract!FifoNext]_(Abstract!fifoVars)
  BY NextFifo
<1> QED
  BY <1>1, <1>2, PTL DEF Spec, ImplementsFifo, Abstract!FifoSpec

\* Where none changes the list beside a get_all_elems of another, the array that
\* get_all_elems sizes by a num_elems of its own holds what it copies.
THEOREM ArrayIsLargeEnough ==
    ASSUME \A workload \in Workloads : Disciplined(workload)
    PROVE  Spec => []AllElemsFit
<1>1. Init => FifoInv
  BY InitFifo
<1>2. FifoInv /\ [Next]_vars => FifoInv'
  BY NextFifo
<1>3. FifoInv => AllElemsFit
  <2> SUFFICES ASSUME FifoInv, NEW t \in Threads, pc[t] \in {"copy", "unlock_all"}
               PROVE  Len(retval[t]) <= room[t]
    BY DEF AllElemsFit
  <2>1. op[t] = "get_all_elems" /\ Copies(t) /\ Len(chain) \in Nat
    BY ChainFacts DEF FifoInv, ThreadInv, QueueInv, Places
  <2>2. room[t] = Len(chain) /\ \E k \in 0..Len(chain) : CopiedSoFar(t, k)
    BY <2>1 DEF Copies
  <2> QED
    BY <2>1, <2>2 DEF CopiedSoFar
<1> QED
  BY <1>1, <1>2, <1>3, PTL DEF Spec
=============================================================================
