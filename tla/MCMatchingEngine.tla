-------------------------- MODULE MCMatchingEngine --------------------------
(* MatchingEngine for TLC: limit orders at three prices, orders of every *)
(* other type, and one order that is too large.                             *)
EXTENDS MatchingEngine

MCOrder(side, type, qty, p, stop) ==
  [side |-> side, type |-> type, qty |-> qty, price |-> p, stop |-> stop]

MCInputs ==
  {MCOrder(side, "Limit", q[1], q[2], None) : side \in Sides, q \in {<<1, 1>>, <<1, 3>>, <<2, 2>>}}
    \cup {MCOrder(side, "FOK", 2, 2, None) : side \in Sides}
    \cup {MCOrder("Sell", "IOC", 2, 2, None), MCOrder("Buy", "Market", 2, None, None),
          MCOrder("Sell", "Stop", 1, None, 2), MCOrder("Buy", "StopLimit", 1, 2, 2),
          MCOrder("Buy", "Limit", 3, 1, None)}
=============================================================================
