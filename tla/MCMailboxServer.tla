--------------------------- MODULE MCMailboxServer ---------------------------
(* MailboxServer for TLC: alice sends m1 to bob through the server and m2   *)
(* locally; one client polls bob and one peeks.                             *)
EXTENDS MailboxServer

CONSTANTS alice, bob

MCFrom == [m \in Messages |-> alice]
MCTo == [m \in Messages |-> bob]
MCReplyTo == [m \in Messages |-> None]
MCOwnDir == [a \in Addresses |-> a]
MCMbox == [r \in Polls \cup Peeks |-> bob]
=============================================================================
