------------------------------- MODULE Market -------------------------------
(***************************************************************************)
(* The trading competition (src/examples/two_traders_competition.rs): one  *)
(* loop lets a momentum trader, a mean reversion trader and a market maker *)
(* quote into an order book and send orders to it.                         *)
(*                                                                         *)
(* Prices are ticks and quantities lots.  What the traders compute from    *)
(* the price history is free: a skew for the quote and a signal for the    *)
(* order.  What they do with it, their risk checks and the book are the    *)
(* code's.  Quotes and trades that are logged to mailboxes are left out.   *)
(***************************************************************************)
EXTENDS Trading, Integers, Sequences, SequencesExt

CONSTANTS InitialPrice, MinPrice, MaxPrice,
          Capital,       \* initial capital of each trader
          Noise,         \* how far the noise moves the price
          NoiseEvery,    \* iterations between two moves
          OrderEvery,    \* iterations between two rounds of orders
          HalfSpread,    \* HalfSpread[t]: from the middle of its quote to either side
          Skews,         \* Skews[t]: where the middle of its quote may be
          QuoteSizes,    \* QuoteSizes[t]
          Sizes,         \* sizes of the momentum trader's orders
          PosLimit,      \* PosLimit[t]: position from which t sends no order, or
                         \* beyond which the market maker does
          Flatten,       \* smallest order that flattens
          Leverage,      \* Leverage[t]: tenths of the order's value it must hold
          Aggression,    \* Aggression[t]: ticks beyond the reference price
          MaxIterations  \* bound

Momentum == "MOMENTUM-1"
MeanRev == "MEANREV-2"
Maker == "MARKETMKR-3"
Traders == {Momentum, MeanRev, Maker}

Sign(side) == IF side = "Buy" THEN 1 ELSE -1

ASSUME MarketAssumption ==
  /\ MinPrice \in Nat /\ MaxPrice \in Nat /\ InitialPrice \in MinPrice..MaxPrice
  /\ Capital \in Nat
  /\ Noise \subseteq Int
  /\ NoiseEvery \in Nat \ {0} /\ OrderEvery \in Nat \ {0}
  /\ \A t \in Traders : /\ HalfSpread[t] \in Nat \ {0} /\ Skews[t] \subseteq Int
                        /\ QuoteSizes[t] \subseteq Nat /\ PosLimit[t] \in Nat
                        /\ Leverage[t] \in Nat /\ Aggression[t] \in Nat
  /\ Sizes \subseteq Nat \ {0}
  /\ Flatten \in Nat \ {0}
  /\ MaxIterations \in Nat

VARIABLES
  orderBook,  \* orderBook["Buy"], orderBook["Sell"]: bids and asks, best first
  last,       \* last_trade_price
  market,     \* the market_update of this iteration
  cash,       \* cash[t]
  position,   \* position[t]
  iteration,
  at,         \* the next step of the loop body, an index into Steps
  fills,      \* the trades of the last match_order
  arrivals,   \* how many entries the book has been given
  own         \* quantity and value of the trades of a trader with itself

books == <<orderBook, arrivals>>
accounts == <<cash, position, own>>
marketVars == <<orderBook, last, market, cash, position, iteration, at, fills, arrivals, own>>

(* The body of the loop, in order: quotes of all three, then their orders *)
Steps == << "update", Momentum, MeanRev, Maker, Momentum, MeanRev, Maker, "check", "stopped">>
OrdersFrom == 5
CheckAt == 8
Stopped == 9

Abs(n) == IF n < 0 THEN -n ELSE n
Least(m, n) == IF m < n THEN m ELSE n
Most(m, n) == IF m < n THEN n ELSE m

(* What lies in the book, and what match_order returns *)
Entries == [price : Int, qty : Nat \ {0}, trader : Traders, kind : {"quote", "order"},
            id : 1..arrivals]
Trades == [price : Int, qty : Nat \ {0}, id : 1..arrivals, buyer : Traders, seller : Traders]

MarketTypeOK ==
  /\ orderBook \in [Sides -> Seq(Entries)]
  /\ last \in Int
  /\ market \in [last : Int, bid : Int, ask : Int]
  /\ cash \in [Traders -> Int]
  /\ position \in [Traders -> Int]
  /\ iteration \in 0..MaxIterations
  /\ at \in DOMAIN Steps
  /\ fills \in Seq(Trades)
  /\ arrivals \in Nat
  /\ own \in [qty : Nat, value : Int]

MarketInit ==
  /\ orderBook = [side \in Sides |-> <<>>]
  /\ last = InitialPrice
  /\ market = [last |-> InitialPrice, bid |-> InitialPrice, ask |-> InitialPrice]
  /\ cash = [t \in Traders |-> Capital]
  /\ position = [t \in Traders |-> 0]
  /\ iteration = 0
  /\ at = 1
  /\ fills = <<>>
  /\ arrivals = 0
  /\ own = [qty |-> 0, value |-> 0]

-----------------------------------------------------------------------------
(* e is at a better price than f for whoever trades against that side *)
Better(side, e, f) == IF side = "Buy" THEN e.price > f.price ELSE e.price < f.price

(* Mutant: an entry goes before the others at its price *)
PlaceAtFirst(side, entries, e) ==
  CHOOSE k \in 1..(Len(entries) + 1) :
    \A n \in DOMAIN entries : n < k <=> Better(side, entries[n], e)

(* Where push_back and a stable sort by price put e: behind the others at   *)
(* its price                                                                *)
PlaceAt(side, entries, e) ==
  CHOOSE k \in 1..(Len(entries) + 1) :
    \A n \in DOMAIN entries : n < k <=> ~ Better(side, e, entries[n])

Place(side, entries, e) == InsertAt(entries, PlaceAt(side, entries, e), e)

(* retain: the entries that are not t's *)
Others(entries, t) ==
  LET kept[n \in 0..Len(entries)] ==
        IF n = 0 THEN <<>>
        ELSE IF entries[n].trader = t THEN kept[n - 1] ELSE Append(kept[n - 1], entries[n])
  IN  kept[Len(entries)]

(* update_quote: everything of the trader is removed, its resting orders    *)
(* too, and the new quotes are placed; nothing is matched                   *)
UpdateQuote(t, bid, ask, size) ==
  LET quote(side) == [price |-> IF side = "Buy" THEN bid ELSE ask, qty |-> size, trader |-> t,
                      kind |-> "quote", id |-> arrivals + IF side = "Buy" THEN 1 ELSE 2]
  IN  /\ orderBook' = [side \in Sides |->
           IF size = 0 THEN Others(orderBook[side], t)
           ELSE Place(side, Others(orderBook[side], t), quote(side))]
      /\ arrivals' = arrivals + 2

(* The order trades with e: its price is at least as good as e's, or it is  *)
(* a Market order                                                           *)
Crosses(o, e) ==
  o.type = "Market" \/ IF o.side = "Buy" THEN o.price >= e.price ELSE o.price <= e.price

(* One round of the loop of match_order: the order takes what it needs of   *)
(* e if e has come to the front and crosses; otherwise e stays              *)
Meet(o, acc, e) ==
  LET q == IF acc.rest = <<>> /\ Crosses(o, e) THEN Least(acc.left, e.qty) ELSE 0
      trade == [price |-> e.price, qty |-> q, id |-> e.id,
                buyer |-> IF o.side = "Buy" THEN o.trader ELSE e.trader,
                seller |-> IF o.side = "Buy" THEN e.trader ELSE o.trader]
  IN  [left |-> acc.left - q,
       trades |-> IF q = 0 THEN acc.trades ELSE Append(acc.trades, trade),
       rest |-> IF q = e.qty THEN acc.rest ELSE Append(acc.rest, [e EXCEPT !.qty = @ - q])]

(* Mutant: an order rests without having been matched *)
MatchedNot(o) == [left |-> o.qty, trades |-> <<>>, rest |-> orderBook[Opposite(o.side)]]

(* The loop of match_order over the other side *)
Matched(o) ==
  LET others == orderBook[Opposite(o.side)]
      after[n \in 0..Len(others)] ==
        IF n = 0 THEN [left |-> o.qty, trades |-> <<>>, rest |-> <<>>]
        ELSE Meet(o, after[n - 1], others[n])
  IN  after[Len(others)]

(* The end of match_order: what is left of a Limit order rests, the rest of *)
(* an IOC order is dropped                                                  *)
Rest(o, left) ==
  IF left > 0 /\ o.type = "Limit"
  THEN Place(o.side, orderBook[o.side], [price |-> o.price, qty |-> left, trader |-> o.trader,
                                    kind |-> "order", id |-> arrivals + 1])
  ELSE orderBook[o.side]

(* Mutant: the branches of process_trade are swapped *)
ProcessTradeSeller(t, trade, x) ==
  IF trade.seller = t THEN -x ELSE IF trade.buyer = t THEN x ELSE 0

(* process_trade: the part of x, shares or money, that t gets by a trade.   *)
(* The seller's branch is an else: with itself, a trader only buys.         *)
ProcessTrade(t, trade, x) ==
  IF trade.buyer = t THEN x ELSE IF trade.seller = t THEN -x ELSE 0

(* process_trade of all three traders on one trade *)
Settle(acc, trade) ==
  LET value == trade.price * trade.qty
      self == trade.buyer = trade.seller
  IN  [position |-> [t \in Traders |-> acc.position[t] + ProcessTrade(t, trade, trade.qty)],
       cash |-> [t \in Traders |-> acc.cash[t] - ProcessTrade(t, trade, value)],
       own |-> [qty |-> acc.own.qty + IF self THEN trade.qty ELSE 0,
                value |-> acc.own.value + IF self THEN value ELSE 0]]

(* and on all trades of a match *)
Settled(trades) ==
  LET after[n \in 0..Len(trades)] ==
        IF n = 0 THEN [position |-> position, cash |-> cash, own |-> own]
        ELSE Settle(after[n - 1], trades[n])
  IN  after[Len(trades)]

(* match_order, and process_trade on its trades *)
Match(o) ==
  LET m == Matched(o)
      settled == Settled(m.trades)
  IN  /\ orderBook' = [side \in Sides |-> IF side = o.side THEN Rest(o, m.left) ELSE m.rest]
      /\ arrivals' = arrivals + 1
      /\ fills' = m.trades
      /\ last' = IF m.trades = <<>> THEN last ELSE m.trades[Len(m.trades)].price
      /\ position' = settled.position
      /\ cash' = settled.cash
      /\ own' = settled.own

-----------------------------------------------------------------------------
(* The top of the loop: noise now and then, and the market update that the  *)
(* whole iteration uses                                                     *)
Update ==
  /\ Steps[at] = "update" /\ iteration < MaxIterations
  /\ iteration' = iteration + 1
  /\ \E n \in Noise :
       last' = IF iteration' % NoiseEvery = 0 THEN Most(MinPrice, Least(MaxPrice, last + n)) ELSE last
  /\ market' = [last |-> last',
                bid |-> IF orderBook["Buy"] = <<>> THEN last' - 10 ELSE orderBook["Buy"][1].price,
                ask |-> IF orderBook["Sell"] = <<>> THEN last' + 10 ELSE orderBook["Sell"][1].price]
  /\ at' = at + 1
  /\ UNCHANGED <<books, accounts, fills>>

(* generate_quote of the momentum trader leans with the momentum *)
MomentumQuotes == [skew : Skews[Momentum], size : QuoteSizes[Momentum]]

(* of the mean reversion trader leans against the deviation *)
MeanRevQuotes == [skew : Skews[MeanRev], size : QuoteSizes[MeanRev]]

(* of the market maker leans against its inventory *)
MakerQuotes ==
  [skew : {s \in Skews[Maker] : \/ s = 0
                                \/ s < 0 /\ position[Maker] > 0
                                \/ s > 0 /\ position[Maker] < 0},
   size : QuoteSizes[Maker]]

Quotes(t) ==
  CASE t = Momentum -> MomentumQuotes [] t = MeanRev -> MeanRevQuotes [] t = Maker -> MakerQuotes

(* A quote around the last price is put into the book *)
Quote(t) ==
  /\ at < OrdersFrom /\ Steps[at] = t
  /\ \E q \in Quotes(t) :
       UpdateQuote(t, market.last + q.skew - HalfSpread[t], market.last + q.skew + HalfSpread[t], q.size)
  /\ at' = IF t # Maker \/ iteration % OrderEvery = 0 THEN at + 1 ELSE CheckAt
  /\ UNCHANGED <<last, market, accounts, iteration, fills>>

(* The risk checks of generate_order: the position is within the limit and  *)
(* the cash covers a part of the order                                      *)
MayOrder(t, size) ==
  /\ Abs(position[t]) < PosLimit[t]
  /\ 10 * cash[t] >= Leverage[t] * size * market.last

(* generate_order of the momentum trader: aggressive, with its signal *)
MomentumOrders ==
  [trader : {Momentum}, side : Sides, type : {"IOC"}, qty : {s \in Sizes : MayOrder(Momentum, s)}]

(* of the mean reversion trader: two lots, passive, against the deviation *)
MeanRevOrders ==
  [trader : {MeanRev}, side : Sides, type : {"Limit"}, qty : {s \in {2} : MayOrder(MeanRev, s)}]

(* of the market maker: a quarter of a large inventory is flattened *)
MakerOrders ==
  IF Abs(position[Maker]) <= PosLimit[Maker] THEN {}
  ELSE {[trader |-> Maker, side |-> IF position[Maker] > 0 THEN "Sell" ELSE "Buy",
         type |-> "IOC", qty |-> Most(Abs(position[Maker]) \div 4, Flatten)]}

Orders(t) ==
  CASE t = Momentum -> MomentumOrders [] t = MeanRev -> MeanRevOrders [] t = Maker -> MakerOrders

(* IOC orders are priced beyond the best price that the market update had   *)
(* before the quotes of this iteration, Limit orders off the last price     *)
OrderPrice(o) ==
  CASE o.type = "IOC" /\ o.side = "Buy" -> market.ask + Aggression[o.trader]
    [] o.type = "IOC" /\ o.side = "Sell" -> market.bid - Aggression[o.trader]
    [] OTHER -> market.last - Sign(o.side) * Aggression[o.trader]

SendOrder(t) ==
  /\ at \in OrdersFrom..(CheckAt - 1) /\ Steps[at] = t
  /\ \E o \in Orders(t) :
       Match([trader |-> t, side |-> o.side, type |-> o.type, qty |-> o.qty, price |-> OrderPrice(o)])
  /\ at' = at + 1
  /\ UNCHANGED <<market, iteration>>

(* No signal, or a risk check that fails; the market maker has no choice *)
NoOrder(t) ==
  /\ at \in OrdersFrom..(CheckAt - 1) /\ Steps[at] = t
  /\ t = Maker => Orders(t) = {}
  /\ at' = at + 1
  /\ UNCHANGED <<books, last, market, accounts, iteration, fills>>

Equity(t) == cash[t] + position[t] * last

(* The end of the loop: below 80% of the capital of a competitor it stops *)
Check ==
  /\ Steps[at] = "check"
  /\ at' = IF \E t \in {Momentum, MeanRev} : 10 * Equity(t) < 8 * Capital THEN Stopped ELSE 1
  /\ UNCHANGED <<books, last, market, accounts, iteration, fills>>

MarketNext ==
  \/ Update
  \/ \E t \in Traders : Quote(t) \/ SendOrder(t) \/ NoOrder(t)
  \/ Check

MarketSpec == MarketInit /\ [][MarketNext]_marketVars

-----------------------------------------------------------------------------
Total(f) == f[Momentum] + f[MeanRev] + f[Maker]

(* Shares and money only change hands, except that a trader that meets its  *)
(* own entry in the book books the purchase and not the sale: positions sum *)
(* to what was bought so, and that is the cash that is missing.             *)
HoldingsAccounted ==
  /\ Total(position) = own.qty
  /\ Total(cash) = 3 * Capital - own.value

(* "Price-Time Priority: Best price wins, ties go to first arrival": when a *)
(* match fills an entry, those of a better price, and those of the same     *)
(* price that arrived earlier, are gone from the book.                      *)
PriceTimePriority ==
  [][\A side \in Sides : \A e, f \in Range(orderBook[side]) :
       /\ \E i \in DOMAIN fills' : fills' # fills /\ fills'[i].id = f.id
       /\ Better(side, e, f) \/ (e.price = f.price /\ e.id < f.id)
       => \A x \in Range(orderBook'[side]) : x.id # e.id]_marketVars

(* Only quotes cross the book: of a bid and an ask that could trade, the    *)
(* later one is a quote, since an order is matched before it rests.         *)
OnlyQuotesCross ==
  \A b \in Range(orderBook["Buy"]), a \in Range(orderBook["Sell"]) :
    b.price >= a.price => (IF b.id > a.id THEN b ELSE a).kind = "quote"

(* The book does not grow: a quote and, for the mean reversion trader, one  *)
(* resting order on either side, which its next quote sweeps away.          *)
BookBounded ==
  /\ \A side \in Sides : Len(orderBook[side]) <= 4
  /\ Len(orderBook["Buy"]) + Len(orderBook["Sell"]) <= 7

(* The book through quotes, matches and rests: typed, crossed by quotes     *)
(* only, and no larger than what the traders keep in it.                    *)
BookInv == MarketTypeOK /\ OnlyQuotesCross /\ BookBounded
=============================================================================
