---------------------------- MODULE DataProtocol ----------------------------
(***************************************************************************)
(* The DATA state machine of the NDMP version 3 draft                      *)
(* (docs/ndmp_draft_v3_0.doc, section 2.4.1), as a client of the data      *)
(* interface sees it: one state per session, one action per arc of the     *)
(* diagram.  It says nothing of requests, threads, locks or replies.       *)
(* DataServer implements it as long as clients start an operation only     *)
(* where the diagram has an arc for it.                                    *)
(***************************************************************************)

CONSTANT Sessions

VARIABLE state        \* state[s]: where session s is in the diagram

States == {"idle", "listen", "connected", "active", "halted"}

TypeOK == state \in [Sessions -> States]

Init == state = [s \in Sessions |-> "idle"]

\* Follow an arc of the diagram from one of the states `from' to the state `to'.
Arc(s, from, to) == state[s] \in from /\ state' = [state EXCEPT ![s] = to]

Listen(s)  == Arc(s, {"idle"}, "listen")
Connect(s) == Arc(s, {"idle"}, "connected")
\* The peer connects to a listening data server (no handler of the program
\* implements this arc).
Established(s) == Arc(s, {"listen"}, "connected")
Start(s)   == Arc(s, {"connected"}, "active")
\* The operation ends, successfully or not.
Finish(s)  == Arc(s, {"active"}, "halted")
Abort(s)   == Arc(s, {"listen", "connected", "active"}, "halted")
Stop(s)    == Arc(s, {"halted"}, "idle")

Next == \E s \in Sessions : \/ Listen(s)
                            \/ Connect(s)
                            \/ Established(s)
                            \/ Start(s)
                            \/ Finish(s)
                            \/ Abort(s)
                            \/ Stop(s)

Spec == Init /\ [][Next]_state
=============================================================================
