--------------------------- MODULE MCLinkedQueue ---------------------------
(* Workloads for TLC: which operations two threads may call, and how often. *)
EXTENDS LinkedQueue, TLC

CONSTANTS t1, t2

Calls(operations, n) == [may |-> operations, left |-> n]

\* ctx->request_jobs, ctx->reply_jobs and a session's jobs: elements are put in,
\* taken out, removed and counted by any thread.
Jobs == [t \in Threads |-> Calls({"enqueue", "dequeue", "remove_elem", "num_elems"}, 3)]

\* ctx->sessions as the listener uses it: only t1 changes the list.
Sessions ==
    (t1 :> Calls({"enqueue", "get_elem", "remove_elem", "get_all_elems"}, 5))
    @@ (t2 :> Calls({"num_elems"}, 2))

\* The queues that the server shares as their functions need it.
Workloads_Server == {Jobs, Sessions}

\* The server keeps the discipline under which the queue is proved to be a FIFO queue.
ASSUME DisciplineAssumption == \A workload \in Workloads_Server : Disciplined(workload)

\* The session registry: t1 looks up what t2 removes.
Workloads_Registry == {(t1 :> Calls({"enqueue", "get_elem"}, 3)) @@ (t2 :> Calls({"remove_elem"}, 3))}

\* A reader of all elements beside a writer.
Workloads_Readers == {(t1 :> Calls({"get_all_elems"}, 2)) @@ (t2 :> Calls({"enqueue"}, 2))}
=============================================================================
