--------------------------- MODULE LinkedQueueProofs ---------------------------
(***************************************************************************)
(* LinkedQueue for all threads, elements, nodes and workloads: one thread  *)
(* at a time is in a critical section, the pointers form the list whenever *)
(* the lock is free, and every node is in one place.                       *)
(***************************************************************************)
EXTENDS LinkedQueue, SeqLemmas

\* The lock is held by the thread that is in a critical section.
Sections == \A t \in Threads : InSection(t) <=> lock = t

\* What a thread has called tells where it may be.
Places ==
    \A t \in Threads :
        /\ pc[t] = "idle" <=> op[t] = "none"
        /\ pc[t] = "tail" => op[t] = "enqueue"
        /\ pc[t] = "free" => op[t] \in {"dequeue", "remove_elem"}
        /\ pc[t] = "read" => op[t] = "get_elem"
        /\ pc[t] \in {"first", "lock_all", "copy", "unlock_all"} => op[t] = "get_all_elems"

\* hdr->first and the next of every node of the list: true in every state.
Pointers ==
    /\ first = IF chain = <<>> THEN Null ELSE chain[1]
    /\ \A i \in DOMAIN chain :
            next[chain[i]] = IF i < Len(chain) THEN chain[i + 1] ELSE Null

\* hdr->last and hdr->num_elems: behind the list while a thread is about to adjust
\* them.
Trailing(t) ==
    /\ pc[t] = "tail" => /\ chain # <<>> /\ node[t] = chain[Len(chain)]
                         /\ num = Len(chain) - 1
    /\ pc[t] = "free" => num = Len(chain) + 1
LastAndNum ==
    /\ \A t \in Threads : Trailing(t)
    /\ (\A t \in Threads : pc[t] # "tail") /\ chain # <<>> => last = chain[Len(chain)]
    /\ (\A t \in Threads : pc[t] \notin {"tail", "free"}) => num = Len(chain)

\* Every node is in the list or held by one thread, and the list has it once.
Accounted ==
    /\ \A n : n \in live <=> n \in ToSet(chain) \/ \E t \in Threads : n \in Held(t)
    /\ Distinct(chain)
    /\ \A t \in Threads : Held(t) \cap ToSet(chain) = {}
    /\ \A t, u \in Threads : t # u => Held(t) \cap Held(u) = {}

\* A node that enqueue is about to link ends the list.
Fresh ==
    \A t \in Threads :
        op[t] = "enqueue" /\ pc[t] \in {"lock", "body"} => next[node[t]] = Null

\* A thread in the loop of get_elem or remove_elem is at a node of the list, and
\* behind it is nodeprev, or the loop has come to the end; dequeue is at the first.
Standing(t, i) == node[t] = chain[i] /\ prev[t] = chain[IF i = 1 THEN 1 ELSE i - 1]
Walks ==
    \A t \in Threads :
        /\ AtWalk(t) => node[t] = Null \/ \E i \in DOMAIN chain : Standing(t, i)
        /\ At(t, "dequeue", "body") => node[t] = first

QueueInv ==
    /\ TypeOK /\ Sections /\ Places
    /\ Pointers /\ LastAndNum /\ Accounted
    /\ Fresh /\ Walks

LEMMA InitQueue == Init => QueueInv
<1> SUFFICES ASSUME Init PROVE QueueInv
  OBVIOUS
<1> USE DEF Init
<1>1. TypeOK
  BY EmptySeq, WorkloadAssumption DEF TypeOK, Labels
<1>2. Sections /\ Places /\ Fresh /\ Walks
  BY NullAssumption DEF Sections, Places, Fresh, Walks, InSection, AtWalk, At
<1>3. DOMAIN chain = {} /\ ToSet(chain) = {} /\ Len(chain) = 0
  BY EmptySeq DEF ToSet
<1>4. Pointers /\ LastAndNum
  BY <1>3 DEF Pointers, LastAndNum, Trailing
<1>5. Accounted
  BY <1>3 DEF Accounted, Distinct, Held
<1> QED
  BY <1>1, <1>2, <1>4, <1>5 DEF QueueInv

\* Every other thread is where it was, and holds what it held.
Others(t) ==
    \A u \in Threads \ {t} :
        /\ pc'[u] = pc[u] /\ op'[u] = op[u] /\ arg'[u] = arg[u]
        /\ node'[u] = node[u] /\ prev'[u] = prev[u]

\* The lock admits one thread.
LEMMA Alone ==
    ASSUME Sections, NEW t \in Threads, InSection(t)
    PROVE  \A u \in Threads \ {t} : ~InSection(u)
BY DEF Sections

\* A step of one thread that leaves the list and its nodes alone.
LEMMA QuietFrame ==
    ASSUME QueueInv, NEW t \in Threads, Others(t),
           UNCHANGED <<hdr, heap, chain>>, TypeOK', Sections', Places',
           Held(t)' = Held(t),
           {pc[t], pc'[t]} \cap {"tail", "free"} = {},
           op'[t] = "enqueue" /\ pc'[t] \in {"lock", "body"}
            => op[t] = "enqueue" /\ pc[t] \in {"lock", "body"} /\ node'[t] = node[t],
           AtWalk(t)' => node'[t] = Null \/ \E i \in DOMAIN chain : Standing(t, i)',
           At(t, "dequeue", "body")' => node'[t] = first
    PROVE  QueueInv'
<1> USE DEF QueueInv, Others, hdr, heap
<1>1. Pointers'
  BY DEF Pointers
<1>2. LastAndNum'
  BY DEF LastAndNum, Trailing
<1>3. Accounted'
  <2>1. \A u \in Threads : Held(u)' = Held(u)
    BY DEF Held
  <2>2. live' = live /\ chain' = chain
    OBVIOUS
  <2> HIDE DEF QueueInv
  <2>3. Accounted
    BY DEF QueueInv
  <2> QED
    BY <2>1, <2>2, <2>3 DEF Accounted
<1>4. Fresh'
  BY DEF Fresh
<1>5. Walks'
  BY DEF Walks, AtWalk, At, Standing
<1> QED
  BY <1>1, <1>2, <1>3, <1>4, <1>5

\* A call leaves one call fewer.
LEMMA BeginCalls ==
    ASSUME calls \in [Threads -> [may : SUBSET Operations, left : Nat]],
           NEW t \in Threads, NEW operation, NEW e, Begin(t, operation, e)
    PROVE  calls' \in [Threads -> [may : SUBSET Operations, left : Nat]]
<1> DEFINE c == [calls[t] EXCEPT !.left = calls[t].left - 1]
<1>1. calls[t] \in [may : SUBSET Operations, left : Nat] /\ calls[t].left > 0
  BY DEF Begin
<1>2. c \in [may : SUBSET Operations, left : Nat]
  BY <1>1
<1>3. calls' = [calls EXCEPT ![t] = c]
  BY DEF Begin
<1> HIDE DEF c
<1> QED
  BY <1>2, <1>3

LEMMA CallOtherInv ==
    ASSUME QueueInv, NEW t \in Threads, CallOther(t)
    PROVE  QueueInv'
<1> USE DEF QueueInv
<1>1. PICK operation \in Operations \ {"enqueue"}, e \in Elems \cup {Null} :
            Begin(t, operation, e)
  BY DEF CallOther, Operations
<1>2. UNCHANGED <<hdr, lock, heap, local, chain>>
  BY DEF CallOther
<1> USE <1>1, <1>2 DEF Begin, Goto, local, hdr, heap
<1>3. TypeOK'
  <2>1. calls' \in [Threads -> [may : SUBSET Operations, left : Nat]]
    BY BeginCalls DEF TypeOK
  <2>2. pc'[t] = "lock" /\ pc' \in [Threads -> Labels]
    BY DEF TypeOK, Labels
  <2>3. op' \in [Threads -> Operations \cup {"none"}] /\ arg' \in [Threads -> Elems \cup {Null}]
    BY DEF TypeOK
  <2> QED
    BY <2>1, <2>2, <2>3 DEF TypeOK, Labels
<1>4. Sections' /\ Places'
  BY DEF TypeOK, Sections, Places, InSection, Operations
<1>5. Held(t)' = Held(t)
  BY DEF Held, TypeOK
<1>6. Others(t) /\ pc[t] = "idle" /\ pc'[t] = "lock" /\ op'[t] # "enqueue"
  BY DEF Others, TypeOK
<1> QED
  BY <1>3, <1>4, <1>5, <1>6, QuietFrame DEF AtWalk, At

\* enter_critical_section: the loops start at the first node.
LEMMA LockInv ==
    ASSUME QueueInv, NEW t \in Threads, Lock(t)
    PROVE  QueueInv'
<1> USE DEF QueueInv, Lock, Goto, hdr, heap
<1>1. TypeOK'
  BY DEF TypeOK, Labels
<1>2. Sections'
  BY NullAssumption DEF TypeOK, Sections, InSection
<1>3. Places'
  BY DEF TypeOK, Places
<1>4. Held(t)' = Held(t)
  BY DEF Held, TypeOK
<1>5. Others(t) /\ pc[t] = "lock" /\ pc'[t] = "body" /\ op' = op
  BY DEF Others, TypeOK
<1>6. op[t] = "enqueue" => node'[t] = node[t]
  BY DEF TypeOK
<1>7. op[t] # "enqueue" => node'[t] = first /\ prev'[t] = first
  BY DEF TypeOK
<1>8. AtWalk(t)' => node'[t] = Null \/ \E i \in DOMAIN chain : Standing(t, i)'
  <2>1. chain # <<>> => 1 \in DOMAIN chain
    BY TailProperties DEF TypeOK
  <2> QED
    BY <1>5, <1>7, <2>1 DEF Pointers, Standing, AtWalk
<1>9. At(t, "dequeue", "body")' => node'[t] = first
  BY <1>5, <1>7 DEF At
<1> QED
  BY <1>1, <1>2, <1>3, <1>4, <1>5, <1>6, <1>8, <1>9, QuietFrame

\* exit_critical_section, and the way out of a function.
LEMMA UnlockInv ==
    ASSUME QueueInv, NEW t \in Threads, Unlock(t) \/ Return(t)
    PROVE  QueueInv'
<1> USE DEF QueueInv, Unlock, Return, AfterUnlock, Goto, hdr, heap, local
<1>1. TypeOK'
  <2>1. CASE Unlock(t)
    <3>1. AfterUnlock(t) \in Labels
      BY DEF Labels
    <3> HIDE DEF AfterUnlock
    <3> QED
      BY <2>1, <3>1 DEF TypeOK
  <2>2. CASE Return(t)
    BY <2>2 DEF TypeOK, Labels
  <2> QED
    BY <2>1, <2>2
<1>2. pc'[t] \in {"read", "first", "return", "idle"} /\ Others(t)
  BY DEF TypeOK, Others
<1>3. Sections'
  <2>1. \A u \in Threads : InSection(u)' <=> u # t /\ InSection(u)
    BY <1>2 DEF InSection, Others
  <2>2. lock' = Null \/ (lock' = lock /\ ~InSection(t))
    BY DEF InSection
  <2>3. InSection(t) => \A u \in Threads \ {t} : ~InSection(u)
    BY Alone
  <2>4. lock' = Null => InSection(t) \/ lock = Null
    BY DEF InSection
  <2> QED
    BY <2>1, <2>2, <2>3, <2>4, NullAssumption DEF Sections
<1>4. Places'
  BY DEF TypeOK, Places, Operations
<1>5. Held(t)' = Held(t) /\ {pc[t], pc'[t]} \cap {"tail", "free"} = {}
  BY <1>2 DEF Held
<1> QED
  BY <1>1, <1>2, <1>3, <1>4, <1>5, QuietFrame DEF AtWalk, At

\* get_elem and remove_elem step to the next node, if there is one.
LEMMA WalkOnInv ==
    ASSUME QueueInv, NEW t \in Threads, WalkOn(t)
    PROVE  QueueInv'
<1> USE DEF QueueInv, WalkOn, AtWalk, hdr, heap
<1>1. PICK i \in DOMAIN chain : Standing(t, i)
  BY DEF Walks
<1>2. /\ node[t] = chain[i] /\ node[t] \in Nodes
      /\ DOMAIN chain = 1..Len(chain) /\ Len(chain) \in Nat
  BY <1>1, ElementOfSeq, LenProperties DEF Standing, TypeOK
<1>3. TypeOK'
  BY <1>2 DEF TypeOK
<1>4. Sections' /\ Places' /\ Held(t)' = Held(t) /\ Others(t)
  BY DEF TypeOK, Sections, InSection, Places, Held, Others
<1>5. node'[t] = next[chain[i]] /\ prev'[t] = chain[i]
  BY <1>2 DEF TypeOK
<1>6. node'[t] = Null \/ \E j \in DOMAIN chain : Standing(t, j)'
  <2>1. CASE i < Len(chain)
    <3>1. i + 1 \in DOMAIN chain /\ i + 1 # 1 /\ (i + 1) - 1 = i
      BY <1>2, <2>1
    <3>2. node'[t] = chain[i + 1]
      BY <1>5, <2>1 DEF Pointers
    <3> QED
      BY <1>5, <3>1, <3>2 DEF Standing
  <2>2. CASE i >= Len(chain)
    BY <1>2, <1>5, <2>2 DEF Pointers
  <2> QED
    BY <1>2, <2>1, <2>2
<1> QED
  BY <1>3, <1>4, <1>6, QuietFrame DEF At

\* The other steps that only read the list.
Reads(t) == \/ WalkEnds(t) \/ ReadElem(t) \/ CountElems(t) \/ DequeueEmpty(t)
            \/ AllFirst(t) \/ AllLock(t) \/ AllCopy(t) \/ AllEnd(t)

LEMMA ReadsInv ==
    ASSUME QueueInv, NEW t \in Threads, Reads(t)
    PROVE  QueueInv'
<1> USE DEF QueueInv, Reads, WalkEnds, ReadElem, CountElems, DequeueEmpty, AllFirst,
            AllLock, AllCopy, AllEnd, AtWalk, At, Goto, hdr, heap, local
<1>1. TypeOK'
  BY DEF TypeOK, Labels
<1>2. Sections'
  BY NullAssumption DEF TypeOK, Sections, InSection
<1>3. Places'
  BY DEF TypeOK, Places
<1>4. /\ pc'[t] \in {"unlock", "return", "lock_all", "copy", "unlock_all"}
      /\ {pc[t], pc'[t]} \cap {"tail", "free"} = {} /\ UNCHANGED <<hdr, heap, chain>>
  BY DEF TypeOK
<1>5. Others(t) /\ Held(t) = {} /\ Held(t)' = {}
  BY <1>4 DEF TypeOK, Others, Held
<1> QED
  BY <1>1, <1>2, <1>3, <1>4, <1>5, QuietFrame
-----------------------------------------------------------------------------
(* The steps that change the list.                                         *)

\* enqueue takes a node that malloc() has not given out.
LEMMA CallEnqueueInv ==
    ASSUME QueueInv, NEW t \in Threads, NEW e \in Elems, CallEnqueue(t, e)
    PROVE  QueueInv'
<1> USE DEF QueueInv, hdr, heap
<1>1. PICK n \in Nodes \ live :
            /\ live' = live \cup {n}
            /\ elem' = [elem EXCEPT ![n] = e] /\ next' = [next EXCEPT ![n] = Null]
            /\ node' = [node EXCEPT ![t] = n]
  BY DEF CallEnqueue
<1>2. /\ Begin(t, "enqueue", e)
      /\ UNCHANGED <<hdr, lock, prev, retval, room, chain>>
  BY DEF CallEnqueue
<1>3. TypeOK'
  <2>1. calls' \in [Threads -> [may : SUBSET Operations, left : Nat]]
    BY <1>2, BeginCalls DEF TypeOK
  <2>2. /\ pc' \in [Threads -> Labels] /\ op' \in [Threads -> Operations \cup {"none"}]
        /\ arg' \in [Threads -> Elems \cup {Null}]
    BY <1>2 DEF TypeOK, Labels, Begin, Goto, Operations
  <2> QED
    BY <1>1, <1>2, <2>1, <2>2 DEF TypeOK
<1>4. /\ pc[t] = "idle" /\ pc'[t] = "lock" /\ op'[t] = "enqueue" /\ node'[t] = n
      /\ Others(t)
  BY <1>1, <1>2 DEF TypeOK, Others, Begin, Goto
<1>5. Sections' /\ Places' /\ Walks'
  BY <1>2, <1>4 DEF Sections, Places, Walks, InSection, Others, AtWalk, At, Standing
<1>6. n \notin ToSet(chain) /\ \A u \in Threads : n \notin Held(u)
  BY DEF Accounted
<1>7. Pointers'
  <2>1. \A i \in DOMAIN chain : chain[i] \in ToSet(chain) /\ chain[i] \in Nodes
    BY ElementOfSeq, LenProperties DEF TypeOK, ToSet
  <2> QED
    BY <1>1, <1>2, <1>6, <2>1 DEF Pointers, TypeOK
<1>8. LastAndNum'
  BY <1>2, <1>4 DEF LastAndNum, Trailing, Others
<1>9. Held(t) = {} /\ Held(t)' = {n} /\ \A u \in Threads \ {t} : Held(u)' = Held(u)
  BY <1>4 DEF Held, Others
<1>10. Accounted'
  BY <1>1, <1>2, <1>6, <1>9 DEF Accounted
<1>11. Fresh'
  <2>1. \A u \in Threads \ {t} : op[u] = "enqueue" /\ pc[u] \in {"lock", "body"} =>
            node[u] # n
    BY <1>6 DEF Held
  <2> QED
    BY <1>1, <1>4, <2>1 DEF Fresh, Others, TypeOK
<1> QED
  BY <1>3, <1>5, <1>7, <1>8, <1>10, <1>11

\* A step inside a section, of one of the three functions that change the list, by
\* which the thread comes to its next statement.
LEMMA SectionFrame ==
    ASSUME QueueInv, NEW t \in Threads, InSection(t), Others(t), lock' = lock, op' = op,
           pc'[t] \in {"tail", "free", "unlock"}, TypeOK', Places',
           Pointers', Accounted', Trailing(t)',
           pc'[t] # "tail" /\ chain' # <<>> => last' = chain'[Len(chain')],
           pc'[t] = "unlock" => num' = Len(chain'),
           \A u \in Threads \ {t} :
                op[u] = "enqueue" /\ pc[u] = "lock" => next'[node[u]] = next[node[u]]
    PROVE  QueueInv'
<1>1. \A u \in Threads \ {t} : ~InSection(u) /\ ~InSection(u)'
  BY Alone DEF QueueInv, Others, InSection
<1>2. InSection(t)'
  BY DEF InSection
<1>3. Sections'
  BY <1>1, <1>2 DEF QueueInv, Sections
<1>4. \A u \in Threads \ {t} : pc'[u] \notin {"body", "tail", "free"}
  BY <1>1 DEF InSection
<1>5. LastAndNum'
  BY <1>4 DEF LastAndNum, Trailing
<1>6. Fresh'
  BY <1>4 DEF QueueInv, Fresh, Others
<1>7. Walks'
  BY <1>4 DEF Walks, AtWalk, At
<1> QED
  BY <1>3, <1>5, <1>6, <1>7 DEF QueueInv

\* The node goes from its thread to the end of the list.
LEMMA EnqueueLinkInv ==
    ASSUME QueueInv, NEW t \in Threads, EnqueueLink(t)
    PROVE  QueueInv'
<1> DEFINE n == node[t]
<1> USE DEF EnqueueLink, At, Goto, local
<1>1. /\ op[t] = "enqueue" /\ pc[t] = "body" /\ pc'[t] = "tail" /\ op' = op
      /\ lock' = lock /\ InSection(t) /\ Others(t)
  BY DEF QueueInv, TypeOK, InSection, Others
<1>2. Held(t) = {n} /\ Held(t)' = {} /\ \A u \in Threads \ {t} : Held(u)' = Held(u)
  BY <1>1 DEF Held, Others
<1>3. n \in live /\ n \in Nodes /\ n \notin ToSet(chain) /\ next[n] = Null
  BY <1>1, <1>2 DEF QueueInv, Accounted, TypeOK, Fresh
<1>4. /\ chain \in Seq(Nodes) /\ DOMAIN chain = 1..Len(chain) /\ Len(chain) \in Nat
      /\ chain = <<>> <=> Len(chain) = 0
      /\ \A i \in DOMAIN chain : chain[i] \in Nodes /\ chain[i] \in ToSet(chain)
  BY ElementOfSeq, LenProperties, EmptySeq DEF QueueInv, TypeOK, ToSet
<1>5. /\ chain' = Append(chain, n) /\ chain' \in Seq(Nodes)
      /\ Len(chain') = Len(chain) + 1 /\ DOMAIN chain' = 1..(Len(chain) + 1)
      /\ \A i \in 1..Len(chain) : chain'[i] = chain[i]
      /\ chain'[Len(chain) + 1] = n /\ chain' # <<>>
      /\ ToSet(chain') = ToSet(chain) \cup {n} /\ Distinct(chain')
  <2>1. chain' = Append(chain, n)
    OBVIOUS
  <2> HIDE DEF n
  <2> QED
    BY <1>3, <1>4, <2>1, AppendProperties, AppendRange DEF QueueInv, Accounted
<1> HIDE DEF n
<1>6. \A u \in Threads : pc[u] \notin {"tail", "free"}
  BY <1>1, Alone DEF QueueInv, InSection
<1>7. num = Len(chain) /\ (chain # <<>> => last = chain[Len(chain)])
  BY <1>6 DEF QueueInv, LastAndNum
<1>8. first = Null <=> chain = <<>>
  BY <1>4, NullAssumption DEF QueueInv, Pointers
<1>9. TypeOK'
  BY <1>3, <1>4, <1>5, <1>7, <1>8 DEF QueueInv, TypeOK, Labels, n
<1>10. Pointers'
  <2>1. CASE chain = <<>>
    <3>1. first' = n /\ next' = next /\ Len(chain) = 0
      BY <1>4, <1>8, <2>1 DEF n
    <3> QED
      BY <1>3, <1>5, <3>1 DEF Pointers
  <2>2. CASE chain # <<>>
    <3>1. first' = first /\ next' = [next EXCEPT ![last] = n] /\ Len(chain) > 0
      BY <1>4, <1>8, <2>2 DEF n
    <3>2. last = chain[Len(chain)] /\ last \in Nodes /\ n # last
      BY <1>3, <1>4, <1>7, <2>2, <3>1
    <3>3. first' = chain'[1]
      BY <1>4, <1>5, <2>2, <3>1 DEF QueueInv, Pointers
    <3>4. next' \in [Nodes -> Nodes \cup {Null, Garbage}] /\ next \in [Nodes -> Nodes \cup {Null, Garbage}]
      BY <1>9 DEF TypeOK, QueueInv
    <3>5. ASSUME NEW i \in 1..Len(chain)
          PROVE  next'[chain'[i]] = chain'[i + 1]
      <4>1. CASE i = Len(chain)
        BY <1>5, <3>1, <3>2, <3>4, <4>1
      <4>2. CASE i < Len(chain)
        <5>1. chain[i] # last /\ chain[i] \in Nodes
          BY <1>4, <3>1, <3>2, <4>2 DEF QueueInv, Accounted, Distinct
        <5>2. next[chain[i]] = chain[i + 1] /\ chain[i + 1] = chain'[i + 1]
          BY <1>4, <1>5, <4>2 DEF QueueInv, Pointers
        <5> QED
          BY <1>5, <3>1, <3>4, <5>1, <5>2
      <4>3. Len(chain) \in Nat
        BY <1>4
      <4> QED
        BY <4>1, <4>2, <4>3
    <3>6. next'[n] = Null
      BY <1>3, <3>1, <3>2, <3>4
    <3> QED
      BY <1>4, <1>5, <3>3, <3>5, <3>6 DEF Pointers
  <2> QED
    BY <2>1, <2>2
<1>11. Accounted'
  <2>1. live' = live
    OBVIOUS
  <2>2. Accounted
    BY DEF QueueInv
  <2> QED
    BY <1>2, <1>5, <2>1, <2>2 DEF Accounted
<1>12. Places'
  BY <1>1 DEF QueueInv, Places, Others
<1>13. Trailing(t)'
  BY <1>1, <1>4, <1>5, <1>7 DEF Trailing, n
<1>14. \A u \in Threads \ {t} :
            op[u] = "enqueue" /\ pc[u] = "lock" => next'[node[u]] = next[node[u]]
  <2>1. ASSUME NEW u \in Threads, op[u] = "enqueue", pc[u] = "lock"
        PROVE  node[u] \in Nodes /\ node[u] \notin ToSet(chain)
    <3>1. node[u] \in Held(u)
      BY <2>1 DEF Held
    <3> QED
      BY <3>1 DEF QueueInv, Accounted, TypeOK
  <2>2. chain # <<>> => last \in ToSet(chain)
    BY <1>4, <1>7
  <2> QED
    BY <1>8, <2>1, <2>2 DEF QueueInv, TypeOK
<1> QED
  BY <1>1, <1>9, <1>10, <1>11, <1>12, <1>13, <1>14, SectionFrame

\* hdr->last and hdr->num_elems catch up.
LEMMA EnqueueTailInv ==
    ASSUME QueueInv, NEW t \in Threads, EnqueueTail(t)
    PROVE  QueueInv'
<1> USE DEF QueueInv, EnqueueTail, At, Goto, heap, local
<1>1. /\ pc[t] = "tail" /\ pc'[t] = "unlock" /\ op' = op /\ op[t] = "enqueue"
      /\ lock' = lock /\ InSection(t) /\ Others(t)
  BY DEF TypeOK, InSection, Others
<1>2. /\ chain # <<>> /\ node[t] = chain[Len(chain)] /\ num = Len(chain) - 1
      /\ num \in Nat /\ chain \in Seq(Nodes)
  BY <1>1 DEF LastAndNum, Trailing, TypeOK
<1>3. Len(chain) \in Nat \ {0} /\ chain[Len(chain)] \in Nodes
  BY <1>2, ElementOfSeq, LenProperties, EmptySeq
<1>4. last' = chain[Len(chain)] /\ num' = Len(chain)
  BY <1>2, <1>3
<1>5. TypeOK'
  BY <1>3, <1>4 DEF TypeOK, Labels
<1>6. Pointers' /\ Places'
  BY <1>1 DEF Pointers, Places, Others
<1>7. Accounted'
  <2>1. \A u \in Threads : Held(u)' = Held(u)
    BY <1>1 DEF Held, Others
  <2>2. live' = live /\ chain' = chain /\ Accounted
    OBVIOUS
  <2> HIDE DEF QueueInv, EnqueueTail
  <2> QED
    BY <2>1, <2>2 DEF Accounted
<1>8. Trailing(t)'
  BY <1>1 DEF Trailing
<1> QED
  BY <1>1, <1>4, <1>5, <1>6, <1>7, <1>8, SectionFrame

\* The node is out of the list, and the thread has it, until it is freed.
LEMMA DequeueUnlinkInv ==
    ASSUME QueueInv, NEW t \in Threads, DequeueUnlink(t)
    PROVE  QueueInv'
<1> USE DEF DequeueUnlink, At, Goto
<1>1. /\ op[t] = "dequeue" /\ pc[t] = "body" /\ pc'[t] = "free" /\ op' = op
      /\ lock' = lock /\ InSection(t) /\ Others(t) /\ node' = node
      /\ UNCHANGED heap
  BY DEF QueueInv, TypeOK, InSection, Others
<1>2. chain \in Seq(Nodes) /\ chain # <<>> /\ node[t] = chain[1]
  BY <1>1 DEF QueueInv, TypeOK, Pointers, Walks
<1>3. /\ chain' = Tail(chain) /\ chain' \in Seq(Nodes) /\ chain[1] \in Nodes
      /\ \A i \in DOMAIN chain' : i + 1 \in DOMAIN chain /\ chain'[i] = chain[i + 1]
      /\ Distinct(chain') /\ chain[1] \notin ToSet(chain')
      /\ ToSet(chain) = ToSet(chain') \cup {chain[1]}
      /\ Len(chain') = Len(chain) - 1 /\ Len(chain) \in Nat \ {0}
  BY <1>2, TailProperties, TailRange DEF QueueInv, Accounted
<1>4. DOMAIN chain = 1..Len(chain) /\ DOMAIN chain' = 1..(Len(chain) - 1)
  BY <1>2, <1>3, LenProperties
<1>5. first' = IF Len(chain) > 1 THEN chain[2] ELSE Null
  <2>1. first' = next[chain[1]] /\ 1 \in DOMAIN chain
    BY <1>2, <1>3, <1>4
  <2>2. next[chain[1]] = IF 1 < Len(chain) THEN chain[1 + 1] ELSE Null
    BY <2>1 DEF QueueInv, Pointers
  <2> QED
    BY <1>3, <2>1, <2>2
<1>6. chain' = <<>> <=> Len(chain) = 1
  <2>1. chain' \in Seq(Nodes) /\ (Len(chain') = 0 <=> Len(chain) = 1)
    BY <1>3
  <2> QED
    BY <2>1, EmptySeq
<1>7. TypeOK'
  <2>1. Len(chain) > 1 => chain[2] \in Nodes
    BY <1>2, <1>3, <1>4, ElementOfSeq
  <2>2. UNCHANGED <<last, num, lock, elem, next, live, op, arg, node, prev, room, calls>>
    BY DEF heap
  <2>3. pc' \in [Threads -> Labels]
    BY DEF QueueInv, TypeOK, Labels
  <2> QED
    BY <1>3, <1>5, <2>1, <2>2, <2>3 DEF QueueInv, TypeOK
<1>8. Pointers'
  <2>1. first' = IF chain' = <<>> THEN Null ELSE chain'[1]
    <3>1. CASE Len(chain) = 1
      BY <1>5, <1>6, <3>1
    <3>2. CASE Len(chain) > 1
      <4>1. 1 \in DOMAIN chain'
        BY <1>3, <1>4, <3>2
      <4>2. chain'[1] = chain[2]
        BY <1>3, <4>1
      <4> QED
        BY <1>5, <1>6, <3>2, <4>2
    <3> QED
      BY <1>3, <3>1, <3>2
  <2>2. ASSUME NEW i \in DOMAIN chain'
        PROVE  next'[chain'[i]] = IF i < Len(chain') THEN chain'[i + 1] ELSE Null
    <3>1. next'[chain'[i]] = next[chain[i + 1]] /\ i + 1 \in DOMAIN chain
      BY <1>1, <1>3 DEF heap
    <3>2. next[chain[i + 1]] = IF i + 1 < Len(chain) THEN chain[i + 2] ELSE Null
      BY <1>4, <3>1 DEF QueueInv, Pointers
    <3>3. i < Len(chain') => chain'[i + 1] = chain[i + 2]
      BY <1>3, <1>4
    <3> QED
      BY <1>3, <1>4, <3>1, <3>2, <3>3
  <2> QED
    BY <2>1, <2>2 DEF Pointers
<1>9. Held(t) = {} /\ Held(t)' = {chain[1]} /\ \A u \in Threads \ {t} : Held(u)' = Held(u)
  BY <1>1, <1>2 DEF Held, Others
<1>10. Accounted'
  <2>1. live' = live /\ Accounted
    BY DEF QueueInv, heap
  <2>2. chain[1] \in ToSet(chain)
    BY <1>3
  <2> QED
    BY <1>3, <1>9, <2>1, <2>2 DEF Accounted
<1>11. Places'
  BY <1>1 DEF QueueInv, Places, Others
<1>12. \A u \in Threads : pc[u] \notin {"tail", "free"}
  BY <1>1, Alone DEF QueueInv, InSection
<1>13. num = Len(chain) /\ last = chain[Len(chain)]
  BY <1>2, <1>12 DEF QueueInv, LastAndNum
<1>14. Trailing(t)' /\ (chain' # <<>> => last' = chain'[Len(chain')])
  <2>1. num' = Len(chain') + 1 /\ last' = last
    BY <1>3, <1>13
  <2>2. chain' # <<>> => Len(chain') \in DOMAIN chain'
    BY <1>3, <1>4, <1>6
  <2>3. chain' # <<>> => chain'[Len(chain')] = chain[Len(chain)]
    BY <1>3, <2>2
  <2> QED
    BY <1>1, <1>13, <2>1, <2>3 DEF Trailing
<1>15. next' = next
  BY <1>1 DEF heap
<1> QED
  BY <1>1, <1>7, <1>8, <1>10, <1>11, <1>14, <1>15, SectionFrame

\* free() of a node that is not in the list and that no other thread has.
LEMMA FreeNodeInv ==
    ASSUME QueueInv, NEW t \in Threads, FreeNode(t)
    PROVE  QueueInv'
<1> DEFINE n == node[t]
<1> USE DEF FreeNode, Goto, local
<1>1. /\ pc[t] = "free" /\ pc'[t] = "unlock" /\ op' = op /\ op[t] # "enqueue"
      /\ lock' = lock /\ InSection(t) /\ Others(t)
      /\ UNCHANGED <<first, last, chain>>
  BY DEF QueueInv, TypeOK, InSection, Others, Places
<1>2. /\ live' = live \ {n} /\ num' = num - 1
      /\ elem' = [elem EXCEPT ![n] = Garbage] /\ next' = [next EXCEPT ![n] = Garbage]
  OBVIOUS
<1>3. Held(t) = {n} /\ Held(t)' = {} /\ \A u \in Threads \ {t} : Held(u)' = Held(u)
  BY <1>1 DEF Held, Others
<1> HIDE DEF n
<1>4. n \in Nodes /\ n \notin ToSet(chain) /\ Accounted
  BY <1>3 DEF QueueInv, Accounted, TypeOK
<1>5. num = Len(chain) + 1 /\ (chain # <<>> => last = chain[Len(chain)])
  <2>1. \A u \in Threads : pc[u] # "tail"
    BY <1>1, Alone DEF QueueInv, InSection
  <2> QED
    BY <1>1, <2>1 DEF QueueInv, LastAndNum, Trailing
<1>6. /\ Len(chain) \in Nat
      /\ \A i \in DOMAIN chain : chain[i] \in Nodes /\ chain[i] \in ToSet(chain)
  BY ElementOfSeq, LenProperties DEF QueueInv, TypeOK, ToSet
<1>7. num' = Len(chain')
  BY <1>1, <1>2, <1>5, <1>6
<1>8. TypeOK'
  BY <1>1, <1>2, <1>6, <1>7 DEF QueueInv, TypeOK, Labels
<1>9. \A m \in Nodes \ {n} : next'[m] = next[m]
  BY <1>2 DEF QueueInv, TypeOK
<1>10. Pointers'
  BY <1>1, <1>4, <1>6, <1>9 DEF QueueInv, Pointers
<1>11. Accounted'
  BY <1>1, <1>2, <1>3, <1>4 DEF Accounted
<1>12. Places' /\ Trailing(t)'
  BY <1>1 DEF QueueInv, Places, Others, Trailing
<1>13. \A u \in Threads \ {t} :
            op[u] = "enqueue" /\ pc[u] = "lock" => next'[node[u]] = next[node[u]]
  <2>1. ASSUME NEW u \in Threads \ {t}, op[u] = "enqueue", pc[u] = "lock"
        PROVE  node[u] \in Nodes \ {n}
    <3>1. node[u] \in Held(u)
      BY <2>1 DEF Held
    <3> QED
      BY <1>3, <1>4, <3>1 DEF QueueInv, Accounted, TypeOK
  <2> QED
    BY <1>9, <2>1
<1> QED
  BY <1>1, <1>5, <1>7, <1>8, <1>10, <1>11, <1>12, <1>13, SectionFrame

\* remove_elem takes out the node it has found, wherever it is in the list.
LEMMA RemoveUnlinkInv ==
    ASSUME QueueInv, NEW t \in Threads, RemoveUnlink(t)
    PROVE  QueueInv'
<1> DEFINE n == node[t]
           len == Len(chain)
<1>1. /\ op[t] = "remove_elem" /\ pc[t] = "body" /\ pc'[t] = "free" /\ op' = op
      /\ lock' = lock /\ InSection(t) /\ Others(t) /\ AtWalk(t) /\ n # Null
      /\ UNCHANGED <<num, elem, live, arg, node, prev, retval, room, calls>>
  BY DEF QueueInv, TypeOK, InSection, Others, RemoveUnlink, At, AtWalk, Goto, local
<1>2. PICK i \in DOMAIN chain : chain[i] = n /\ chain' = RemoveAt(chain, i)
  BY DEF RemoveUnlink
<1>3. /\ chain \in Seq(Nodes) /\ Distinct(chain) /\ DOMAIN chain = 1..len /\ len \in Nat
      /\ \A k \in DOMAIN chain : chain[k] \in Nodes /\ chain[k] # Null
      /\ chain # <<>> /\ i \in 1..len
  BY <1>2, ElementOfSeq, LenProperties, EmptySeq, NullAssumption
  DEF QueueInv, TypeOK, Accounted
<1>4. prev[t] = chain[IF i = 1 THEN 1 ELSE i - 1]
  <2>1. PICK k \in DOMAIN chain : Standing(t, k)
    BY <1>1 DEF QueueInv, Walks
  <2>2. k = i
    BY <1>2, <1>3, <2>1 DEF Standing, Distinct
  <2> QED
    BY <2>1, <2>2 DEF Standing
<1>5. /\ chain' \in Seq(Nodes) /\ Len(chain') = len - 1 /\ DOMAIN chain' = 1..(len - 1)
      /\ \A j \in 1..(len - 1) : chain'[j] = IF j < i THEN chain[j] ELSE chain[j + 1]
      /\ Distinct(chain') /\ ToSet(chain') = ToSet(chain) \ {n}
  <2> DEFINE rest == RemoveAt(chain, i)
  <2>1. /\ rest \in Seq(Nodes) /\ Len(rest) = len - 1
        /\ \A j \in 1..(len - 1) : rest[j] = IF j < i THEN chain[j] ELSE chain[j + 1]
    BY <1>3, RemoveAtProperties
  <2>2. Distinct(rest) /\ ToSet(rest) = ToSet(chain) \ {chain[i]}
    BY <1>3, RemoveAtDistinct
  <2>3. chain' = rest /\ chain[i] = n
    BY <1>2
  <2> HIDE DEF rest, n, len
  <2>4. DOMAIN rest = 1..(len - 1)
    BY <2>1, LenProperties
  <2> QED
    BY <2>1, <2>2, <2>3, <2>4
<1>6. chain' = <<>> <=> len = 1
  <2>1. chain' \in Seq(Nodes) /\ (Len(chain') = 0 <=> len = 1)
    BY <1>3, <1>5
  <2> QED
    BY <2>1, EmptySeq
<1>7. /\ first = chain[1]
      /\ \A k \in 1..len : next[chain[k]] = IF k < len THEN chain[k + 1] ELSE Null
  BY <1>3 DEF QueueInv, Pointers
<1>8. num = len /\ last = chain[len]
  <2>1. \A u \in Threads : pc[u] \notin {"tail", "free"}
    BY <1>1, Alone DEF QueueInv, InSection
  <2> QED
    BY <1>3, <2>1 DEF QueueInv, LastAndNum
<1>9. /\ n = first <=> i = 1
      /\ n = last <=> i = len
  BY <1>2, <1>3, <1>7, <1>8 DEF Distinct
\* The three cases of the code, by the place of the node.
<1>10. /\ i = 1 => first' = next[n] /\ UNCHANGED <<last, next>>
       /\ i # 1 /\ i = len =>
            last' = chain[i - 1] /\ next' = [next EXCEPT ![chain[i - 1]] = Null] /\ first' = first
       /\ i # 1 /\ i # len =>
            /\ next' = [next EXCEPT ![chain[i - 1]] = next[n]]
            /\ UNCHANGED <<first, last>>
  BY <1>4, <1>9 DEF RemoveUnlink
<1>11. next[n] = IF i < len THEN chain[i + 1] ELSE Null
  BY <1>2, <1>3, <1>7
<1>12. next \in [Nodes -> Nodes \cup {Null, Garbage}] /\ pc' \in [Threads -> Labels]
  BY DEF QueueInv, TypeOK, RemoveUnlink, Goto, Labels
\* In each, the node before gets the next of the node that is taken out.
<1>13. /\ i # 1 => chain[i - 1] \in Nodes /\ next' = [next EXCEPT ![chain[i - 1]] = next[n]]
       /\ i = 1 => next' = next
       /\ \A k \in 1..len : next'[chain[k]] = IF k = i - 1 THEN next[n] ELSE next[chain[k]]
  <2>1. i # 1 => i - 1 \in 1..len /\ chain[i - 1] \in Nodes
    BY <1>3
  <2>2. i # 1 => next' = [next EXCEPT ![chain[i - 1]] = next[n]]
    BY <1>3, <1>10, <1>11
  <2>3. i = 1 => next' = next
    BY <1>10
  <2>4. ASSUME NEW k \in 1..len
        PROVE  next'[chain[k]] = IF k = i - 1 THEN next[n] ELSE next[chain[k]]
    <3>1. CASE i = 1
      BY <1>3, <2>3, <3>1
    <3>2. CASE i # 1
      <4>1. chain[k] = chain[i - 1] <=> k = i - 1
        BY <1>3, <2>1, <3>2 DEF Distinct
      <4> QED
        BY <1>3, <1>12, <2>1, <2>2, <3>2, <4>1
    <3> QED
      BY <3>1, <3>2
  <2> QED
    BY <2>1, <2>2, <2>3, <2>4
<1> HIDE DEF n, len
<1>14. Pointers'
  <2>1. first' = IF chain' = <<>> THEN Null ELSE chain'[1]
    <3>1. CASE i = 1
      <4>1. first' = IF 1 < len THEN chain[2] ELSE Null
        BY <1>10, <1>11, <3>1
      <4>2. 1 < len => chain'[1] = chain[2]
        BY <1>3, <1>5, <3>1
      <4> QED
        BY <1>3, <1>6, <4>1, <4>2
    <3>2. CASE i # 1
      <4>1. first' = chain[1] /\ len # 1
        BY <1>3, <1>7, <1>10, <3>2
      <4>2. chain'[1] = chain[1]
        BY <1>3, <1>5, <3>2, <4>1
      <4> QED
        BY <1>6, <4>1, <4>2
    <3> QED
      BY <3>1, <3>2
  <2>2. ASSUME NEW j \in 1..(len - 1)
        PROVE  next'[chain'[j]] = IF j < len - 1 THEN chain'[j + 1] ELSE Null
    <3>1. CASE j < i - 1
      <4>1. chain'[j] = chain[j] /\ j \in 1..len /\ j < len - 1 /\ chain'[j + 1] = chain[j + 1]
        BY <1>3, <1>5, <3>1
      <4>2. next'[chain[j]] = next[chain[j]] /\ next[chain[j]] = chain[j + 1]
        BY <1>3, <1>7, <1>13, <3>1, <4>1
      <4> QED
        BY <4>1, <4>2
    <3>2. CASE j = i - 1
      <4>1. chain'[j] = chain[j] /\ j \in 1..len /\ next'[chain[j]] = next[n]
        BY <1>3, <1>5, <1>13, <3>2
      <4>2. j < len - 1 => chain'[j + 1] = chain[i + 1] /\ i < len
        BY <1>3, <1>5, <3>2
      <4>3. ~(j < len - 1) => ~(i < len)
        BY <1>3, <3>2
      <4> QED
        BY <1>11, <4>1, <4>2, <4>3
    <3>3. CASE j >= i
      <4>1. chain'[j] = chain[j + 1] /\ j + 1 \in 1..len /\ j + 1 # i - 1
        BY <1>3, <1>5, <3>3
      <4>2. next'[chain[j + 1]] = IF j + 1 < len THEN chain[(j + 1) + 1] ELSE Null
        BY <1>7, <1>13, <4>1
      <4>3. j < len - 1 => chain'[j + 1] = chain[(j + 1) + 1]
        BY <1>3, <1>5, <3>3
      <4> QED
        BY <1>3, <4>1, <4>2, <4>3
    <3> QED
      BY <1>3, <3>1, <3>2, <3>3
  <2> QED
    BY <1>5, <2>1, <2>2 DEF Pointers
<1>15. TypeOK'
  <2>1. next[n] \in Nodes \cup {Null}
    BY <1>3, <1>11
  <2>2. next' \in [Nodes -> Nodes \cup {Null, Garbage}]
    BY <1>12, <1>13, <2>1
  <2>3. first' \in Nodes \cup {Null} /\ last' \in Nodes \cup {Null}
    BY <1>3, <1>7, <1>8, <1>10, <1>13, <2>1
  <2> QED
    BY <1>1, <1>5, <1>12, <2>2, <2>3 DEF QueueInv, TypeOK
<1>16. Held(t) = {} /\ Held(t)' = {n} /\ \A u \in Threads \ {t} : Held(u)' = Held(u)
  BY <1>1 DEF Held, Others, n
<1>17. Accounted'
  <2>1. live' = live /\ Accounted
    BY <1>1 DEF QueueInv
  <2>2. n \in ToSet(chain)
    BY <1>2, <1>3 DEF ToSet
  <2> QED
    BY <1>5, <1>16, <2>1, <2>2 DEF Accounted
<1>18. Places'
  BY <1>1 DEF QueueInv, Places, Others
<1>19. Trailing(t)'
  BY <1>1, <1>3, <1>5, <1>8 DEF Trailing
<1>20. chain' # <<>> => last' = chain'[Len(chain')]
  <2>1. CASE i # len
    BY <1>3, <1>5, <1>6, <1>8, <1>10, <2>1
  <2>2. CASE i = len
    BY <1>3, <1>5, <1>6, <1>10, <2>2
  <2> QED
    BY <2>1, <2>2
<1>21. \A u \in Threads \ {t} :
            op[u] = "enqueue" /\ pc[u] = "lock" => next'[node[u]] = next[node[u]]
  <2>1. ASSUME NEW u \in Threads, op[u] = "enqueue", pc[u] = "lock"
        PROVE  node[u] \in Nodes /\ node[u] \notin ToSet(chain)
    <3>1. node[u] \in Held(u)
      BY <2>1 DEF Held
    <3> QED
      BY <3>1 DEF QueueInv, Accounted, TypeOK
  <2>2. i # 1 => chain[i - 1] \in ToSet(chain)
    BY <1>3 DEF ToSet
  <2> QED
    BY <1>12, <1>13, <2>1, <2>2
<1> QED
  BY <1>1, <1>14, <1>15, <1>17, <1>18, <1>19, <1>20, <1>21, SectionFrame
-----------------------------------------------------------------------------
LEMMA NextQueue == QueueInv /\ [Next]_vars => QueueInv'
<1> SUFFICES ASSUME QueueInv, [Next]_vars PROVE QueueInv'
  OBVIOUS
<1>1. CASE Next
  <2>1. PICK t \in Threads : Calling(t) \/ Running(t)
    BY <1>1 DEF Next
  <2>2. CASE Calling(t)
    BY <2>2, CallEnqueueInv, CallOtherInv DEF Calling
  <2>3. CASE Running(t)
    BY <2>3, LockInv, UnlockInv, WalkOnInv, ReadsInv, EnqueueLinkInv, EnqueueTailInv,
       DequeueUnlinkInv, FreeNodeInv, RemoveUnlinkInv DEF Running, Reads
  <2> QED
    BY <2>1, <2>2, <2>3
<1>2. CASE UNCHANGED vars
  BY <1>2 DEF vars, hdr, heap, local, QueueInv, TypeOK, Sections, InSection, Places,
     Pointers, LastAndNum, Trailing, Accounted, Held, Fresh, Walks, AtWalk, At, Standing
<1> QED
  BY <1>1, <1>2

\* The list, the lock and the place of every thread are as QueueInv says, whatever
\* the threads call: a step of queue.c never meets a list it does not expect.
THEOREM QueueInvariant == Spec => []QueueInv
<1> QED
  BY InitQueue, NextQueue, PTL DEF Spec

\* The pointers of the list are NULL or nodes, never what free() left: the variables
\* of queue.c have their types, hdr->first and hdr->last among them.
THEOREM TypeCorrect == Spec => []TypeOK
<1>1. QueueInv => TypeOK
  BY DEF QueueInv
<1> QED
  BY <1>1, QueueInvariant, PTL

\* One thread at a time is between enter_critical_section and exit_critical_section.
THEOREM MutuallyExclusive == Spec => []MutualExclusion
<1>1. QueueInv => MutualExclusion
  BY DEF QueueInv, Sections, MutualExclusion
<1> QED
  BY <1>1, QueueInvariant, PTL

\* Whenever the lock is free, hdr->first and node->next form the list, hdr->last is
\* its end and hdr->num_elems its length.
THEOREM StaysLinked == Spec => []Linked
<1>1. QueueInv => Linked
  <2> SUFFICES ASSUME QueueInv, lock = Null PROVE Linked
    BY DEF Linked
  <2>1. chain \in Seq(Nodes) /\ (chain # <<>> => Head(chain) = chain[1])
    BY TailProperties DEF QueueInv, TypeOK
  <2>2. \A t \in Threads : pc[t] \notin {"tail", "free"}
    BY NullAssumption DEF QueueInv, Sections, InSection
  <2>3. num = Len(chain) /\ (chain # <<>> => last = chain[Len(chain)])
    BY <2>2 DEF QueueInv, LastAndNum
  <2>4. Last(chain) = chain[Len(chain)]
    BY DEF Last
  <2> QED
    BY <2>1, <2>3, <2>4 DEF QueueInv, Pointers, Linked
<1> QED
  BY <1>1, QueueInvariant, PTL

\* No node leaks, none is freed twice or while the list has it, and the list has no
\* cycle.
THEOREM NodesStayAccounted == Spec => []NodesAccounted
<1>1. QueueInv => NodesAccounted
  <2> SUFFICES ASSUME Accounted PROVE NodesAccounted
    BY DEF QueueInv
  <2>1. live = ToSet(chain) \cup UNION {Held(t) : t \in Threads}
    BY DEF Accounted
  <2> QED
    BY <2>1 DEF Accounted, NodesAccounted, Distinct
<1> QED
  BY <1>1, QueueInvariant, PTL
=============================================================================
