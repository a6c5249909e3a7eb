--------------------------- MODULE MatchingEngine ---------------------------
(***************************************************************************)
(* The matching engine and the order processor of the trading server       *)
(* (src/examples/hft_trading_server.rs).  One OrderProcessor, the only     *)
(* user of the books, takes orders from its mailbox one after the other:   *)
(* a match is one step, and then executions and a status are sent.         *)
(*                                                                         *)
(* An order is named by its order_id, the order of its arrival.  A book is *)
(* the sequence of the orders that rest in it as the BTreeMap is walked:   *)
(* price ascending on both sides, arrival within a price.  `levels' are    *)
(* the keys of the map, which stay when their orders are gone.             *)
(***************************************************************************)
EXTENDS Trading, Integers, Sequences, FiniteSets, SequencesExt

CONSTANTS Prices,        \* prices in cents
          Inputs,        \* the orders that clients send
          MaxOrderSize,  \* RiskLimits.max_order_size
          MarketPrices,  \* what update_market_price may be told
          MaxOrders,     \* bound
          MaxFaults,     \* bound: sends of a report that fail
          None

Types == {"Market", "Limit", "IOC", "FOK", "Stop", "StopLimit"}
Statuses == {"New", "PartiallyFilled", "Filled", "Cancelled"}

(* An order of a priced type has its price.  Without one the code would find *)
(* no match for it and return it new or cancelled.                          *)
ASSUME EngineAssumption ==
  /\ Prices \subseteq Nat /\ MarketPrices \subseteq Prices
  /\ \A o \in Inputs : /\ o.side \in Sides /\ o.type \in Types /\ o.qty \in Nat \ {0}
                       /\ o.type \notin {"Market", "Stop"} => o.price \in Prices
                       /\ o.type \in {"Stop", "StopLimit"} => o.stop \in Prices
  /\ None \notin Prices /\ None \notin Statuses
  /\ MaxFaults \in Nat

VARIABLES
  orders,  \* the orders that were taken, by order_id
  filled,  \* filled[i]: filled_quantity of order i
  book,    \* book[side]: the orders that rest in it
  levels,  \* levels[side]: prices with an entry in its map
  price,   \* current_prices of the symbol, or None
  report,  \* what is still to be sent on the last order: executions, status
  told,    \* told[i]: quantity in the executions that were sent on order i
  status,  \* status[i]: the status that was sent, or None
  wasted,  \* wasted[side]: what killed orders of that side took from the other
  faults

engine == <<orders, filled, book, levels, wasted>>
reports == <<report, told, status, faults>>
vars == <<engine, price, reports>>

Ids == DOMAIN orders
Left(i) == orders[i].qty - filled[i]

TypeOK ==
  /\ orders \in Seq(Inputs)
  /\ filled \in [Ids -> Nat] /\ \A i \in Ids : filled[i] <= orders[i].qty
  /\ \A side \in Sides :
       /\ levels[side] \subseteq Prices
       /\ \A i \in Range(book[side]) :
            /\ orders[i].side = side /\ orders[i].type \in {"Limit", "StopLimit"} /\ Left(i) > 0
            /\ orders[i].price \in levels[side]
  /\ price \in Prices \cup {None}
  /\ report = None \/ report \in [execs : Seq(Nat \ {0}), status : Statuses]
  /\ told \in [Ids -> Nat]
  /\ status \in [Ids -> Statuses \cup {None}]
  /\ wasted \in [Sides -> Nat]
  /\ faults \in 0..MaxFaults

Init ==
  /\ orders = <<>>
  /\ filled = <<>>
  /\ book = [side \in Sides |-> <<>>]
  /\ levels = [side \in Sides |-> {}]
  /\ price = None
  /\ report = None
  /\ told = <<>>
  /\ status = <<>>
  /\ wasted = [side \in Sides |-> 0]
  /\ faults = 0

-----------------------------------------------------------------------------
(* match_order turns a stop that the market price triggers into a Market or *)
(* a Limit order.  One that is not triggered, or has no market price to be  *)
(* compared with, is matched with nothing and kept nowhere.                 *)
Triggered(o) == IF o.side = "Buy" THEN price >= o.stop ELSE price <= o.stop
Effective(o) ==
  IF o.type \notin {"Stop", "StopLimit"} THEN o.type
  ELSE IF price = None \/ ~ Triggered(o) THEN "Held"
  ELSE IF o.type = "Stop" THEN "Market" ELSE "Limit"

(* The levels that the loop over the other book gets to: all for a Market   *)
(* order; else from the lowest up to the first that is not acceptable,      *)
(* whether or not an order is left in it.                                   *)
Reach(o) ==
  LET side == Opposite(o.side)
      acceptable(p) == IF o.side = "Buy" THEN p <= o.price ELSE p >= o.price
  IN  CASE Effective(o) = "Held" -> {}
        [] Effective(o) = "Market" -> levels[side]
        [] OTHER -> {p \in levels[side] : \A q \in levels[side] : q <= p => acceptable(q)}

(* Mutant: the resting order is not told of a partial fill *)
FillOneSided(o, acc, i) ==
  LET q == IF orders[i].price \notin Reach(o) THEN 0
           ELSE IF acc.left < Left(i) THEN acc.left ELSE Left(i)
  IN  [left |-> acc.left - q,
       execs |-> IF q = 0 THEN acc.execs ELSE Append(acc.execs, q),
       filled |-> [acc.filled EXCEPT ![i] = IF q < Left(i) THEN @ ELSE @ + q],
       rest |-> IF q < Left(i) THEN Append(acc.rest, i) ELSE acc.rest]

(* One round of the loops of match_market_order and match_limit_order: what *)
(* is left of the order is filled by resting order i, which leaves the book *)
(* when it is filled itself                                                 *)
FillOne(o, acc, i) ==
  LET q == IF orders[i].price \notin Reach(o) THEN 0
           ELSE IF acc.left < Left(i) THEN acc.left ELSE Left(i)
  IN  [left |-> acc.left - q,
       execs |-> IF q = 0 THEN acc.execs ELSE Append(acc.execs, q),
       filled |-> [acc.filled EXCEPT ![i] = @ + q],
       rest |-> IF q < Left(i) THEN Append(acc.rest, i) ELSE acc.rest]

(* The loops: resting orders are filled in the order of the book *)
Fills(o) ==
  LET resting == book[Opposite(o.side)]
      after[n \in 0..Len(resting)] ==
        IF n = 0 THEN [left |-> o.qty, execs |-> <<>>, filled |-> filled, rest |-> <<>>]
        ELSE FillOne(o, after[n - 1], resting[n])
  IN  after[Len(resting)]

(* Mutant: a new order goes to the front of its level *)
SlotFirst(o) ==
  CHOOSE k \in 1..(Len(book[o.side]) + 1) :
    \A n \in DOMAIN book[o.side] : n < k <=> orders[book[o.side][n]].price < o.price

(* Where the first order of the book that is behind o is, or the end of it: *)
(* behind are the higher prices                                             *)
Slot(o) ==
  CHOOSE k \in 1..(Len(book[o.side]) + 1) :
    \A n \in DOMAIN book[o.side] : n < k <=> orders[book[o.side][n]].price <= o.price

(* The end of match_limit_order: a Limit order is pushed to its level *)
Push(o, i) == InsertAt(book[o.side], Slot(o), i)

(* The status that match_order returns *)
StatusOf(o, left) ==
  IF left = 0 THEN "Filled"
  ELSE IF o.type \in {"IOC", "FOK"} THEN "Cancelled"
  ELSE IF left < o.qty THEN "PartiallyFilled" ELSE "New"

(* OrderProcessor::process takes an order and has it matched.  A FOK order  *)
(* is matched like the others; if it was not filled its executions are      *)
(* dropped and it is Cancelled, but what it took is not put back.           *)
Take(o) ==
  LET i == Len(orders) + 1
      f == Fills(o)
      killed == o.type = "FOK" /\ f.left > 0
      rests == f.left > 0 /\ Effective(o) = "Limit"
  IN  /\ report = None /\ Len(orders) < MaxOrders
      /\ o.qty <= MaxOrderSize
      /\ orders' = Append(orders, o)
      /\ filled' = Append(f.filled, IF killed THEN 0 ELSE o.qty - f.left)
      /\ book' = [side \in Sides |->
           IF side # o.side THEN f.rest ELSE IF rests THEN Push(o, i) ELSE book[side]]
      /\ levels' = IF rests THEN [levels EXCEPT ![o.side] = @ \cup {o.price}] ELSE levels
      /\ wasted' = IF killed THEN [wasted EXCEPT ![o.side] = @ + o.qty - f.left] ELSE wasted
      /\ report' = [execs |-> IF killed THEN <<>> ELSE f.execs, status |-> StatusOf(o, f.left)]
      /\ told' = Append(told, 0)
      /\ status' = Append(status, None)
      /\ UNCHANGED <<price, faults>>

(* The risk check: an order that is too large has its id and nothing else. *)
Reject(o) ==
  /\ report = None /\ Len(orders) < MaxOrders
  /\ o.qty > MaxOrderSize
  /\ orders' = Append(orders, o)
  /\ filled' = Append(filled, 0)
  /\ told' = Append(told, 0)
  /\ status' = Append(status, None)
  /\ UNCHANGED <<book, levels, wasted, price, report, faults>>

(* An execution is sent *)
SendExecution ==
  /\ report # None /\ report.execs # <<>>
  /\ told' = [told EXCEPT ![Len(orders)] = @ + Head(report.execs)]
  /\ report' = [report EXCEPT !.execs = Tail(@)]
  /\ UNCHANGED <<engine, price, status, faults>>

(* Mutant: the status does not wait for the executions *)
SendStatusEarly ==
  /\ report # None
  /\ status' = [status EXCEPT ![Len(orders)] = report.status]
  /\ report' = None
  /\ UNCHANGED <<engine, price, told, faults>>

(* and, after all of them, the status *)
SendStatus ==
  /\ report # None /\ report.execs = <<>>
  /\ status' = [status EXCEPT ![Len(orders)] = report.status]
  /\ report' = None
  /\ UNCHANGED <<engine, price, told, faults>>

(* A send fails, process returns its error, and the rest is never sent. *)
SendFails ==
  /\ report # None /\ faults < MaxFaults
  /\ faults' = faults + 1
  /\ report' = None
  /\ UNCHANGED <<engine, price, told, status>>

(* The main program sets the market price, at any time. *)
UpdateMarketPrice ==
  /\ price' \in MarketPrices
  /\ UNCHANGED <<engine, reports>>

Next ==
  \/ \E o \in Inputs : Take(o) \/ Reject(o)
  \/ SendExecution
  \/ SendStatus
  \/ SendFails
  \/ UpdateMarketPrice

Spec == Init /\ [][Next]_vars

-----------------------------------------------------------------------------
(* What the orders of a side are filled by *)
Volume(side) ==
  LET upto[n \in 0..Len(orders)] ==
        IF n = 0 THEN 0 ELSE upto[n - 1] + IF orders[n].side = side THEN filled[n] ELSE 0
  IN  upto[Len(orders)]

(* Every share that was bought was sold: what the buyers are filled by is   *)
(* what the sellers are, but for what a killed FOK order took from the      *)
(* other side and gave to nobody.                                           *)
FillsBalance == Volume("Buy") + wasted["Buy"] = Volume("Sell") + wasted["Sell"]

(* A buy never rests across the book: of a bid and an ask that rest at      *)
(* prices which could trade, the later one is the ask.  Sells do: they look *)
(* at the lowest bid, or the level of one that is gone, first.              *)
OnlySellsCross ==
  \A b \in Range(book["Buy"]), a \in Range(book["Sell"]) :
    orders[b].price >= orders[a].price => a > b

(* "Price-time priority", as far as it goes: an order that is filled has    *)
(* none before it in its level, and for asks none at a better price.        *)
FillsByPriority ==
  [][\A side \in Sides : \A i, j \in Range(book[side]) :
       /\ filled'[j] > filled[j]
       /\ \/ orders[i].price = orders[j].price /\ i < j
          \/ orders[i].price < orders[j].price /\ side = "Sell"
       => filled'[i] = orders[i].qty]_vars

(* The status that a client is sent agrees with the executions it was sent  *)
(* before, even though a failed send cuts the reports short.                *)
StatusMatchesExecutions ==
  \A i \in Ids :
    /\ status[i] = "Filled" => told[i] = orders[i].qty
    /\ status[i] = "PartiallyFilled" => told[i] \in 1..(orders[i].qty - 1)
    /\ status[i] = "Cancelled" => told[i] < orders[i].qty
    /\ status[i] = "New" => told[i] = 0

(* The books through orders of every type: typed, balanced, and crossed     *)
(* by sells only.                                                           *)
EngineInv == TypeOK /\ FillsBalance /\ OnlySellsCross
=============================================================================
