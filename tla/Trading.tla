------------------------------ MODULE Trading ------------------------------
(* What the two order books of the examples have in common. *)

Sides == {"Buy", "Sell"}
Opposite(side) == IF side = "Buy" THEN "Sell" ELSE "Buy"
=============================================================================
