----------------------------- MODULE MCTransport -----------------------------
(* Transport for TLC: one client pings, the other appends. *)
EXTENDS Transport

CONSTANTS c1

MCMaxCalls == [c \in Clients |-> IF c = c1 THEN 2 ELSE 1]
MCKind == [c \in Clients |-> IF c = c1 THEN "Ping" ELSE "AppendRequest"]
=============================================================================
