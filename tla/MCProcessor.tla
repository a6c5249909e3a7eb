----------------------------- MODULE MCProcessor -----------------------------
(* Processor for TLC: the host sends m1 and m2 from o to p, where an echo   *)
(* processor r1 and a failing processor r2 are registered; one call         *)
(* unregisters p and one shuts everything down.                             *)
EXTENDS Processor

CONSTANTS p, o, r1, r2, h1, h2, m1, m2, e1, e2, u, all

MCFrom == [m \in Messages |-> IF m \in {e1, e2} THEN p ELSE o]
MCTo == [m \in Messages |-> IF m \in {e1, e2} THEN o ELSE p]
MCReplyTo == [m \in Messages |-> None]
MCOwnDir == [a \in Addresses |-> a]
MCAt == [r \in Regs |-> p]
MCOutcomes == [r \in Regs |-> IF r = r1 THEN {"forward"} ELSE {"nothing", "error", "panic"}]
MCOut == [r \in Regs |-> [m \in Messages |->
            CASE r = r1 /\ m = m1 -> e1 [] r = r1 /\ m = m2 -> e2 [] OTHER -> None]]
MCTarget == [s \in Stops |-> IF s = u THEN p ELSE None]
MCHome == [h \in HostHandles |-> IF h = h1 THEN o ELSE p]
=============================================================================
