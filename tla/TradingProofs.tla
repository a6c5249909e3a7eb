--------------------------- MODULE TradingProofs ---------------------------
(***************************************************************************)
(* Proofs about the matching engine of the trading server and, from        *)
(* EntriesTo on, about the trading competition, for any orders at any      *)
(* prices and any number of them.  A match is a loop over a book, so both  *)
(* rest on an induction over its rounds: the first part makes one out of   *)
(* the least counterexample.                                               *)
(***************************************************************************)
EXTENDS MatchingEngine, Market, WellFoundedInduction, SequenceTheorems, TLAPS

-----------------------------------------------------------------------------
(* Induction over an interval of numbers, for a set of them, and functions *)
(* defined by recursion over one                                           *)
LEMMA LeastNumber ==
  ASSUME NEW T \in SUBSET Nat, T # {}
  PROVE  \E n \in T : \A m \in T : n <= m
<1>1. IsWellFoundedOn(OpToRel(<, Nat), Nat)
  BY NatLessThanWellFounded
<1>2. PICK n \in T : \A m \in T : ~ (<<m, n>> \in OpToRel(<, Nat))
  BY <1>1, WFMin
<1>3. \A m \in T : ~ (m < n)
  BY <1>2 DEF OpToRel
<1> QED
  BY <1>3

LEMMA Induction ==
  ASSUME NEW N \in Nat, NEW T, 0 \in T, \A n \in 1..N : n - 1 \in T => n \in T
  PROVE  \A n \in 0..N : n \in T
<1> DEFINE Bad == {n \in 0..N : n \notin T}
<1> SUFFICES ASSUME Bad # {}  PROVE FALSE
  OBVIOUS
<1>1. PICK n \in Bad : \A m \in Bad : n <= m
  <2>1. Bad \in SUBSET Nat
    OBVIOUS
  <2> HIDE DEF Bad
  <2> QED
    BY <2>1, LeastNumber
<1>2. n \in 1..N /\ n - 1 \in 0..N /\ n - 1 \notin Bad
  BY <1>1
<1> QED
  BY <1>1, <1>2

(* f is given by its first value and one step for every further argument *)
Iterates(f, N, S, a, step) ==
  f \in [0..N -> S] /\ f[0] = a /\ \A n \in 1..N : f[n] = step[n][f[n - 1]]

LEMMA Recursion ==
  ASSUME NEW N \in Nat, NEW S, NEW a \in S, NEW step \in [1..N -> [S -> S]]
  PROVE  \E f : Iterates(f, N, S, a, step)
<1> DEFINE T == {m \in 0..N : \E f : Iterates(f, m, S, a, step)}
<1>1. 0 \in T
  <2> DEFINE g == [x \in 0..0 |-> a]
  <2>1. Iterates(g, 0, S, a, step)
    BY DEF Iterates
  <2> QED
    BY <2>1
<1>2. ASSUME NEW m \in 1..N, m - 1 \in T  PROVE m \in T
  <2>1. PICK f : Iterates(f, m - 1, S, a, step)
    BY <1>2
  <2> DEFINE g == [n \in 0..m |-> IF n = m THEN step[m][f[m - 1]] ELSE f[n]]
  <2>2. f[m - 1] \in S /\ step[m] \in [S -> S]
    BY <2>1 DEF Iterates
  <2>3. g \in [0..m -> S]
    BY <2>1, <2>2 DEF Iterates
  <2>4. g[0] = a
    BY <2>1 DEF Iterates
  <2>5. \A n \in 1..m : g[n] = step[n][g[n - 1]]
    BY <2>1 DEF Iterates
  <2> HIDE DEF g
  <2>6. Iterates(g, m, S, a, step)
    BY <2>3, <2>4, <2>5 DEF Iterates
  <2> QED
    BY <2>6
<1>3. \A m \in 1..N : m - 1 \in T => m \in T
  BY <1>2
<1>4. \A m \in 0..N : m \in T
  <2> HIDE DEF T
  <2> QED
    BY <1>1, <1>3, Induction
<1> QED
  BY <1>4

-----------------------------------------------------------------------------
(* Append on a function over the first n numbers *)
LEMMA AppendFcn ==
  ASSUME NEW n \in Nat, NEW S, NEW f \in [1..n -> S], NEW x \in S
  PROVE  /\ Append(f, x) \in [1..(n + 1) -> S]
         /\ \A i \in 1..n : Append(f, x)[i] = f[i]
         /\ Append(f, x)[n + 1] = x
<1>1. f \in Seq(S) /\ Len(f) = n
  BY SeqDef
<1>2. /\ Append(f, x) \in Seq(S) /\ Len(Append(f, x)) = n + 1
      /\ \A i \in 1..n : Append(f, x)[i] = f[i]
      /\ Append(f, x)[n + 1] = x
  BY <1>1, AppendProperties
<1>3. Append(f, x) \in [1..Len(Append(f, x)) -> S]
  BY <1>2, ElementOfSeq, LenProperties
<1> QED
  BY <1>2, <1>3

(* x is the sum of a sequence, by its partial sums *)
SumsTo(s, x) ==
  \E f \in [0..Len(s) -> Int] :
    f[0] = 0 /\ f[Len(s)] = x /\ \A n \in 1..Len(s) : f[n] = f[n - 1] + s[n]

LEMMA SumEmpty ==
  /\ SumsTo(<<>>, 0)
  /\ \A x : SumsTo(<<>>, x) => x = 0
<1>1. SumsTo(<<>>, 0)
  <2> DEFINE f == [n \in 0..0 |-> 0]
  <2>1. f \in [0..Len(<<>>) -> Int] /\ f[0] = 0 /\ f[Len(<<>>)] = 0
    OBVIOUS
  <2> HIDE DEF f
  <2> QED
    BY <2>1 DEF SumsTo
<1> QED
  BY <1>1 DEF SumsTo

LEMMA SumAppend ==
  ASSUME NEW s \in Seq(Int), NEW x \in Int, NEW q \in Int, SumsTo(s, x)
  PROVE  SumsTo(Append(s, q), x + q)
<1>1. PICK f \in [0..Len(s) -> Int] :
        f[0] = 0 /\ f[Len(s)] = x /\ \A n \in 1..Len(s) : f[n] = f[n - 1] + s[n]
  BY DEF SumsTo
<1> DEFINE t == Append(s, q)
           g == [n \in 0..(Len(s) + 1) |-> IF n <= Len(s) THEN f[n] ELSE x + q]
<1>2. Len(t) = Len(s) + 1 /\ t[Len(s) + 1] = q /\ \A n \in 1..Len(s) : t[n] = s[n]
  OBVIOUS
<1>3. g \in [0..Len(t) -> Int]
  BY <1>2
<1>4. g[0] = 0 /\ g[Len(t)] = x + q
  BY <1>1, <1>2
<1>5. ASSUME NEW n \in 1..Len(t)  PROVE g[n] = g[n - 1] + t[n]
  <2>1. CASE n \in 1..Len(s)
    BY <1>1, <1>2, <2>1
  <2>2. CASE n = Len(s) + 1
    BY <1>1, <1>2, <2>2
  <2>3. n \in 1..Len(s) \/ n = Len(s) + 1
    BY <1>2, LenProperties
  <2> QED
    BY <2>1, <2>2, <2>3
<1> HIDE DEF g
<1> QED
  BY <1>3, <1>4, <1>5 DEF SumsTo

LEMMA SumTail ==
  ASSUME NEW s \in Seq(Int), NEW x \in Int, s # <<>>, SumsTo(s, x)
  PROVE  SumsTo(Tail(s), x - Head(s))
<1>1. PICK f \in [0..Len(s) -> Int] :
        f[0] = 0 /\ f[Len(s)] = x /\ \A n \in 1..Len(s) : f[n] = f[n - 1] + s[n]
  BY DEF SumsTo
<1> DEFINE t == Tail(s)
           g == [n \in 0..Len(t) |-> f[n + 1] - s[1]]
<1>2. Len(s) \in Nat \ {0} /\ Len(t) = Len(s) - 1 /\ Head(s) = s[1] /\ s[1] \in Int
      /\ \A n \in 1..Len(t) : t[n] = s[n + 1]
  OBVIOUS
<1>3. \A n \in 0..Len(t) : n + 1 \in 0..Len(s)
  BY <1>2
<1>4. g \in [0..Len(t) -> Int]
  BY <1>2, <1>3
<1>5. g[0] = 0 /\ g[Len(t)] = x - Head(s)
  BY <1>1, <1>2
<1>6. ASSUME NEW n \in 1..Len(t)  PROVE g[n] = g[n - 1] + t[n]
  <2>1. n \in 0..Len(t) /\ n - 1 \in 0..Len(t) /\ n \in 0..Len(s) /\ n + 1 \in 1..Len(s)
    BY <1>2
  <2>2. f[n + 1] = f[(n + 1) - 1] + s[n + 1]
    BY <1>1, <2>1
  <2>3. (n + 1) - 1 = n /\ (n - 1) + 1 = n
    OBVIOUS
  <2>4. f[n + 1] \in Int /\ f[n] \in Int /\ s[n + 1] \in Int /\ t[n] = s[n + 1]
    BY <1>2, <2>1
  <2>5. g[n] = f[n + 1] - s[1] /\ g[n - 1] = f[n] - s[1]
    BY <2>1, <2>3
  <2> QED
    BY <1>2, <2>2, <2>3, <2>4, <2>5
<1> HIDE DEF g
<1> QED
  BY <1>4, <1>5, <1>6 DEF SumsTo

(* Volume of any orders and fills, and its value by partial sums *)
VolumeOf(os, fl, side) ==
  LET upto[n \in 0..Len(os)] ==
        IF n = 0 THEN 0 ELSE upto[n - 1] + IF os[n].side = side THEN fl[n] ELSE 0
  IN  upto[Len(os)]

Share(os, fl, side, n) == IF os[n].side = side THEN fl[n] ELSE 0

VolumeIs(os, fl, side, x) ==
  \E f \in [0..Len(os) -> Int] :
    f[0] = 0 /\ f[Len(os)] = x /\ \A n \in 1..Len(os) : f[n] = f[n - 1] + Share(os, fl, side, n)

LEMMA VolumeValue ==
  ASSUME NEW os, Len(os) \in Nat, NEW fl \in [1..Len(os) -> Int], NEW side
  PROVE  /\ VolumeOf(os, fl, side) \in Int
         /\ VolumeIs(os, fl, side, VolumeOf(os, fl, side))
<1> DEFINE N == Len(os)
           P(f) == f = [n \in 0..N |-> IF n = 0 THEN 0
                                       ELSE f[n - 1] + IF os[n].side = side THEN fl[n] ELSE 0]
           g == CHOOSE f : P(f)
           step == [n \in 1..N |-> [s \in Int |-> s + Share(os, fl, side, n)]]
<1>1. VolumeOf(os, fl, side) = g[N]
  BY DEF VolumeOf
<1>2. \A n \in 1..N : Share(os, fl, side, n) \in Int
  BY DEF Share
<1>3. step \in [1..N -> [Int -> Int]]
  BY <1>2
<1>4. PICK f : Iterates(f, N, Int, 0, step)
  <2>1. N \in Nat /\ 0 \in Int
    OBVIOUS
  <2> HIDE DEF step, N
  <2> QED
    BY <1>3, <2>1, Recursion
<1>5. f \in [0..N -> Int] /\ f[0] = 0 /\ \A n \in 1..N : f[n] = f[n - 1] + Share(os, fl, side, n)
  <2>1. \A n \in 1..N : n - 1 \in 0..N
    OBVIOUS
  <2> QED
    BY <1>4, <2>1 DEF Iterates
<1>6. P(f)
  <2>1. \A n \in 0..N : f[n] = IF n = 0 THEN 0 ELSE f[n - 1] + IF os[n].side = side THEN fl[n] ELSE 0
    BY <1>5 DEF Share
  <2>2. f = [n \in 0..N |-> f[n]]
    BY <1>5
  <2> QED
    BY <2>1, <2>2
<1>7. P(g)
  <2> HIDE DEF P
  <2> QED
    BY <1>6
<1> HIDE DEF g
<1>8. g[0] = 0 /\ \A n \in 1..N : g[n] = g[n - 1] + Share(os, fl, side, n)
  BY <1>7 DEF Share
<1> DEFINE T == {n \in 0..N : g[n] \in Int}
<1>9. \A n \in 0..N : n \in T
  <2>1. 0 \in T /\ \A n \in 1..N : n - 1 \in T => n \in T
    BY <1>2, <1>8
  <2> HIDE DEF T
  <2> QED
    BY <2>1, Induction
<1>10. g \in [0..N -> Int]
  <2>1. g = [n \in 0..N |-> g[n]]
    BY <1>7
  <2> QED
    BY <1>9, <2>1
<1> QED
  BY <1>1, <1>8, <1>10 DEF VolumeIs

LEMMA VolumeUnique ==
  ASSUME NEW os, Len(os) \in Nat, NEW fl \in [1..Len(os) -> Int], NEW side,
         NEW x, VolumeIs(os, fl, side, x), NEW y, VolumeIs(os, fl, side, y)
  PROVE  x = y
<1> DEFINE N == Len(os)
<1>1. PICK f \in [0..N -> Int] :
        f[0] = 0 /\ f[N] = x /\ \A n \in 1..N : f[n] = f[n - 1] + Share(os, fl, side, n)
  BY DEF VolumeIs
<1>2. PICK g \in [0..N -> Int] :
        g[0] = 0 /\ g[N] = y /\ \A n \in 1..N : g[n] = g[n - 1] + Share(os, fl, side, n)
  BY DEF VolumeIs
<1> DEFINE T == {n \in 0..N : f[n] = g[n]}
<1>3. 0 \in T /\ \A n \in 1..N : n - 1 \in T => n \in T
  BY <1>1, <1>2
<1>4. \A n \in 0..N : n \in T
  <2> HIDE DEF T
  <2> QED
    BY <1>3, Induction
<1>5. N \in T
  BY <1>4
<1> QED
  BY <1>1, <1>2, <1>5

LEMMA VolumeNothing == \A os, fl, side : os = <<>> => VolumeIs(os, fl, side, 0)
<1> DEFINE f == [n \in 0..0 |-> 0]
<1>1. f \in [0..Len(<<>>) -> Int] /\ f[0] = 0 /\ f[Len(<<>>)] = 0
  OBVIOUS
<1> HIDE DEF f
<1> QED
  BY <1>1 DEF VolumeIs

(* An order that is filled by q more *)
LEMMA VolumeFill ==
  ASSUME NEW os, Len(os) \in Nat, NEW fl \in [1..Len(os) -> Int], NEW side,
         NEW i \in 1..Len(os), NEW q \in Int, NEW x \in Int, VolumeIs(os, fl, side, x)
  PROVE  VolumeIs(os, [fl EXCEPT ![i] = @ + q], side, IF os[i].side = side THEN x + q ELSE x)
<1> DEFINE N == Len(os)
           d == IF os[i].side = side THEN q ELSE 0
           fm == [fl EXCEPT ![i] = @ + q]
<1>1. PICK f \in [0..N -> Int] :
        f[0] = 0 /\ f[N] = x /\ \A n \in 1..N : f[n] = f[n - 1] + Share(os, fl, side, n)
  BY DEF VolumeIs
<1>2. \A n \in 1..N : /\ Share(os, fl, side, n) \in Int
                      /\ Share(os, fm, side, n) = Share(os, fl, side, n) + IF n = i THEN d ELSE 0
  BY DEF Share
<1> DEFINE g == [n \in 0..N |-> IF n < i THEN f[n] ELSE f[n] + d]
<1>3. g \in [0..N -> Int] /\ g[0] = 0 /\ g[N] = IF os[i].side = side THEN x + q ELSE x
  BY <1>1
<1>4. ASSUME NEW n \in 1..N  PROVE g[n] = g[n - 1] + Share(os, fm, side, n)
  <2> HIDE DEF d, fm
  <2>1. d \in Int
    BY DEF d
  <2>2. n \in 0..N /\ n - 1 \in 0..N
    OBVIOUS
  <2>3. f[n] \in Int /\ f[n - 1] \in Int /\ f[n] = f[n - 1] + Share(os, fl, side, n)
    BY <1>1, <2>2
  <2>4. g[n] = (IF n < i THEN f[n] ELSE f[n] + d) /\ g[n - 1] = IF n - 1 < i THEN f[n - 1] ELSE f[n - 1] + d
    BY <2>2
  <2> HIDE DEF g
  <2> QED
    BY <1>2, <2>1, <2>3, <2>4, SMTT(30)
<1> HIDE DEF g, fm
<1>5. VolumeIs(os, fm, side, IF os[i].side = side THEN x + q ELSE x)
  BY <1>3, <1>4 DEF VolumeIs
<1> QED
  BY <1>5 DEF fm

(* A new order that is filled by q *)
LEMMA VolumeAppend ==
  ASSUME NEW S, NEW os \in Seq(S), NEW fl \in [1..Len(os) -> Int], NEW side,
         NEW o \in S, NEW q \in Int, NEW x \in Int, VolumeIs(os, fl, side, x)
  PROVE  VolumeIs(Append(os, o), Append(fl, q), side, IF o.side = side THEN x + q ELSE x)
<1> DEFINE N == Len(os)
           om == Append(os, o)
           fm == Append(fl, q)
           y == IF o.side = side THEN x + q ELSE x
<1>1. PICK f \in [0..N -> Int] :
        f[0] = 0 /\ f[N] = x /\ \A n \in 1..N : f[n] = f[n - 1] + Share(os, fl, side, n)
  BY DEF VolumeIs
<1>2. N \in Nat /\ Len(om) = N + 1 /\ om[N + 1] = o /\ \A n \in 1..N : om[n] = os[n]
  OBVIOUS
<1>3. fm[N + 1] = q /\ \A n \in 1..N : fm[n] = fl[n]
  BY <1>2, AppendFcn
<1> HIDE DEF om, fm
<1>4. /\ Share(om, fm, side, N + 1) = y - x
      /\ \A n \in 1..N : Share(om, fm, side, n) = Share(os, fl, side, n)
  BY <1>2, <1>3 DEF Share
<1> HIDE DEF N
<1> DEFINE g == [n \in 0..(N + 1) |-> IF n <= N THEN f[n] ELSE y]
<1>5. y \in Int
  OBVIOUS
<1> HIDE DEF y
<1>6. g \in [0..(N + 1) -> Int] /\ g[0] = 0 /\ g[N + 1] = y
  BY <1>1, <1>2, <1>5
<1>7. ASSUME NEW n \in 1..(N + 1)  PROVE g[n] = g[n - 1] + Share(om, fm, side, n)
  <2>1. CASE n \in 1..N
    BY <1>1, <1>2, <1>4, <2>1
  <2>2. CASE n = N + 1
    BY <1>1, <1>2, <1>4, <1>5, <2>2
  <2> QED
    BY <1>2, <2>1, <2>2
<1> HIDE DEF g
<1>8. VolumeIs(om, fm, side, y)
  BY <1>2, <1>6, <1>7 DEF VolumeIs
<1> QED
  BY <1>8 DEF om, fm, y

-----------------------------------------------------------------------------
(* r is s with e at place k *)
IsInserted(r, s, k, e, S) ==
  /\ r \in Seq(S) /\ Len(r) = Len(s) + 1
  /\ \A n \in 1..(Len(s) + 1) : r[n] = IF n < k THEN s[n] ELSE IF n = k THEN e ELSE s[n - 1]

LEMMA Inserted ==
  ASSUME NEW S, NEW s \in Seq(S), NEW k \in 1..(Len(s) + 1), NEW e \in S
  PROVE  IsInserted(InsertAt(s, k, e), s, k, e, S)
<1> DEFINE a == SubSeq(s, 1, k - 1)
           b == SubSeq(s, k, Len(s))
           c == a \o <<e>>
<1>1. Len(s) \in Nat
  BY LenProperties
<1>2. a \in Seq(S) /\ Len(a) = k - 1 /\ \A n \in 1..(k - 1) : a[n] = s[n]
  BY <1>1, SubSeqProperties
<1>3. b \in Seq(S) /\ Len(b) = Len(s) - k + 1 /\ \A n \in 1..(Len(s) - k + 1) : b[n] = s[k + n - 1]
  BY <1>1, SubSeqProperties
<1>4. <<e>> \in Seq(S) /\ Len(<<e>>) = 1 /\ <<e>>[1] = e
  OBVIOUS
<1> HIDE DEF a, b
<1>5. c \in Seq(S) /\ Len(c) = k /\ \A n \in 1..k : c[n] = IF n < k THEN s[n] ELSE e
  BY <1>1, <1>2, <1>4, ConcatProperties
<1> HIDE DEF c
<1>6. c \o b \in Seq(S) /\ Len(c \o b) = Len(s) + 1
  <2>1. c \o b \in Seq(S) /\ Len(c \o b) = Len(c) + Len(b)
    BY <1>3, <1>5, ConcatProperties
  <2>2. Len(c) + Len(b) = Len(s) + 1
    BY <1>1, <1>3, <1>5
  <2> QED
    BY <2>1, <2>2
<1>7. ASSUME NEW n \in 1..(Len(s) + 1)
      PROVE  (c \o b)[n] = IF n < k THEN s[n] ELSE IF n = k THEN e ELSE s[n - 1]
  <2>1. (c \o b)[n] = IF n <= Len(c) THEN c[n] ELSE b[n - Len(c)]
    BY <1>1, <1>3, <1>5, ConcatProperties
  <2>2. CASE n > k
    <3>1. n - k \in 1..(Len(s) - k + 1) /\ k + (n - k) - 1 = n - 1
      BY <1>1, <2>2
    <3> QED
      BY <1>1, <1>3, <1>5, <2>1, <2>2, <3>1, SMTT(30)
  <2> QED
    BY <1>1, <1>5, <2>1, <2>2
<1>8. InsertAt(s, k, e) = c \o b
  BY DEF InsertAt, a, b, c
<1>9. IsInserted(c \o b, s, k, e, S)
  BY <1>6, <1>7 DEF IsInserted
<1> QED
  BY <1>8, <1>9

-----------------------------------------------------------------------------
(* The books: orders that were taken, by price and then by arrival *)
Ahead(os, i, j) == os[i].price < os[j].price \/ (os[i].price = os[j].price /\ i < j)
InOrder(s, os) == \A m, n \in 1..Len(s) : m < n => Ahead(os, s[m], s[n])

BooksInOrder ==
  /\ book \in [Sides -> Seq(Ids)] /\ levels \in [Sides -> SUBSET Prices]
  /\ \A side \in Sides : InOrder(book[side], orders)

(* The status st of an order of q is right if x of it was executed *)
Agrees(st, x, q) ==
  /\ st = "Filled" => x = q
  /\ st = "PartiallyFilled" => x \in 1..(q - 1)
  /\ st = "Cancelled" => x < q
  /\ st = "New" => x = 0

(* What is still to be sent makes up what the order is filled by *)
ReportComplete ==
  report # None =>
    /\ orders # <<>> /\ status[Len(orders)] = None
    /\ SumsTo(report.execs, filled[Len(orders)] - told[Len(orders)])
    /\ Agrees(report.status, filled[Len(orders)], orders[Len(orders)].qty)

Base == TypeOK /\ BooksInOrder

LEMMA InputFacts ==
  ASSUME NEW o \in Inputs
  PROVE  /\ o.side \in Sides /\ Opposite(o.side) \in Sides /\ Opposite(o.side) # o.side
         /\ o.type \in Types /\ o.qty \in Nat \ {0}
         /\ o.type \in {"Limit", "StopLimit"} => o.price \in Nat /\ o.price \in Prices
         /\ Effective(o) = "Limit" => o.type \in {"Limit", "StopLimit"}
BY EngineAssumption DEF Sides, Opposite, Types, Effective

LEMMA OrderFacts ==
  ASSUME TypeOK, NEW i \in Ids
  PROVE  /\ orders[i] \in Inputs /\ orders[i].side \in Sides /\ orders[i].qty \in Nat \ {0}
         /\ filled[i] \in Nat /\ Left(i) \in Nat /\ Left(i) = orders[i].qty - filled[i]
<1>1. orders[i] \in Inputs
  BY DEF TypeOK, Ids
<1> QED
  BY <1>1, EngineAssumption DEF TypeOK, Left

LEMMA RestingFacts ==
  ASSUME Base, NEW side \in Sides, NEW n \in 1..Len(book[side])
  PROVE  LET i == book[side][n]
         IN  /\ i \in Ids /\ orders[i].side = side /\ Left(i) > 0
             /\ orders[i].price \in Nat /\ orders[i].price \in levels[side]
<1> DEFINE i == book[side][n]
<1>1. book[side] \in Seq(Ids)
  BY DEF Base, BooksInOrder
<1>2. i \in Ids /\ i \in Range(book[side])
  BY <1>1 DEF Range
<1>3. orders[i].side = side /\ orders[i].type \in {"Limit", "StopLimit"} /\ Left(i) > 0
      /\ orders[i].price \in levels[side]
  BY <1>2 DEF Base, TypeOK
<1>4. orders[i] \in Inputs
  BY <1>2, OrderFacts DEF Base
<1> QED
  BY <1>2, <1>3, <1>4, InputFacts

LEMMA IdsFacts == TypeOK => Len(orders) \in Nat /\ Ids = 1..Len(orders)
BY LenProperties DEF TypeOK, Ids

(* No two entries of a book are the same order *)
LEMMA Distinct ==
  ASSUME Base, NEW side \in Sides, NEW m \in 1..Len(book[side]), NEW n \in 1..Len(book[side]), m # n
  PROVE  book[side][m] # book[side][n]
<1>1. book[side] \in Seq(Ids) /\ InOrder(book[side], orders)
  BY DEF Base, BooksInOrder
<1>2. Len(book[side]) \in Nat /\ Ids \subseteq Nat
  BY <1>1, LenProperties, IdsFacts DEF Base
<1> DEFINE i == book[side][m]
           j == book[side][n]
<1>3. i \in Ids /\ j \in Ids
  BY <1>1
<1>4. orders[i].price \in Nat /\ orders[j].price \in Nat
  BY RestingFacts
<1>5. Ahead(orders, i, j) \/ Ahead(orders, j, i)
  BY <1>1, <1>2 DEF InOrder
<1> HIDE DEF i, j
<1>6. i # j
  BY <1>2, <1>3, <1>4, <1>5 DEF Ahead
<1> QED
  BY <1>6 DEF i, j

-----------------------------------------------------------------------------
(* One match.  What the loop has when it starts and after every round: *)
Rounds == [left : Nat, execs : Seq(Nat \ {0}), filled : [Ids -> Nat], rest : Seq(Ids)]
Start(o) == [left |-> o.qty, execs |-> <<>>, filled |-> filled, rest |-> <<>>]

(* What a round fills *)
Taken(o, acc, i) ==
  IF orders[i].price \notin Reach(o) THEN 0 ELSE IF acc.left < Left(i) THEN acc.left ELSE Left(i)

(* r is what a round that fills q from order i makes of acc *)
IsRound(acc, i, q, r) ==
  /\ q \in Nat /\ q <= acc.left /\ q <= Left(i)
  /\ r \in Rounds
  /\ r.left = acc.left - q
  /\ r.execs = IF q = 0 THEN acc.execs ELSE Append(acc.execs, q)
  /\ r.filled = [acc.filled EXCEPT ![i] = @ + q]
  /\ r.rest = IF q < Left(i) THEN Append(acc.rest, i) ELSE acc.rest

LEMMA RoundFacts ==
  ASSUME TypeOK, NEW o, NEW acc \in Rounds, NEW i \in Ids
  PROVE  IsRound(acc, i, Taken(o, acc, i), FillOne(o, acc, i))
<1> DEFINE q == Taken(o, acc, i)
           r == FillOne(o, acc, i)
<1>1. acc.left \in Nat /\ acc.execs \in Seq(Nat \ {0}) /\ acc.filled \in [Ids -> Nat] /\ acc.rest \in Seq(Ids)
  BY DEF Rounds
<1>2. Left(i) \in Nat
  BY OrderFacts
<1>3. q \in Nat /\ q <= acc.left /\ q <= Left(i)
  BY <1>1, <1>2 DEF Taken
<1>4. r = [left |-> acc.left - q,
           execs |-> IF q = 0 THEN acc.execs ELSE Append(acc.execs, q),
           filled |-> [acc.filled EXCEPT ![i] = @ + q],
           rest |-> IF q < Left(i) THEN Append(acc.rest, i) ELSE acc.rest]
  BY DEF FillOne, Taken
<1> HIDE DEF q, r
<1>5. acc.left - q \in Nat
  BY <1>1, <1>3
<1>6. (IF q = 0 THEN acc.execs ELSE Append(acc.execs, q)) \in Seq(Nat \ {0})
  <2>1. CASE q = 0
    BY <1>1, <2>1
  <2>2. CASE q # 0
    <3>1. q \in Nat \ {0}
      BY <1>3, <2>2
    <3> QED
      BY <1>1, <3>1, <2>2, AppendProperties
  <2> QED
    BY <2>1, <2>2
<1>7. [acc.filled EXCEPT ![i] = @ + q] \in [Ids -> Nat]
  BY <1>1, <1>3
<1>8. (IF q < Left(i) THEN Append(acc.rest, i) ELSE acc.rest) \in Seq(Ids)
  BY <1>1, AppendProperties
<1>9. r \in Rounds
  BY <1>4, <1>5, <1>6, <1>7, <1>8 DEF Rounds
<1>10. IsRound(acc, i, q, r)
  BY <1>3, <1>4, <1>9 DEF IsRound
<1> QED
  BY <1>10 DEF q, r

(* The rounds of a match, one for each order in the other book *)
LEMMA FillsByRounds ==
  ASSUME Base, NEW o \in Inputs
  PROVE  LET resting == book[Opposite(o.side)]
         IN  \E f \in [0..Len(resting) -> Rounds] :
               /\ f[0] = Start(o)
               /\ \A n \in 1..Len(resting) : f[n] = FillOne(o, f[n - 1], resting[n])
               /\ Fills(o) = f[Len(resting)]
<1> DEFINE resting == book[Opposite(o.side)]
           N == Len(resting)
           P(f) == f = [n \in 0..N |-> IF n = 0 THEN Start(o) ELSE FillOne(o, f[n - 1], resting[n])]
           g == CHOOSE f : P(f)
           step == [n \in 1..N |-> [acc \in Rounds |-> FillOne(o, acc, resting[n])]]
<1>1. Fills(o) = g[N]
  BY DEF Fills, Start
<1>2. N \in Nat /\ \A n \in 1..N : resting[n] \in Ids
  <2>1. resting \in Seq(Ids)
    BY InputFacts DEF Base, BooksInOrder
  <2> QED
    BY <2>1, LenProperties, ElementOfSeq
<1>3. Start(o) \in Rounds
  <2>1. filled \in [Ids -> Nat] /\ o.qty \in Nat
    BY InputFacts DEF Base, TypeOK
  <2> QED
    BY <2>1 DEF Rounds, Start
<1>4. \A acc \in Rounds : \A n \in 1..N : FillOne(o, acc, resting[n]) \in Rounds
  BY <1>2, RoundFacts DEF Base, IsRound
<1> HIDE DEF N, resting
<1>5. step \in [1..N -> [Rounds -> Rounds]]
  BY <1>4
<1>6. PICK f : Iterates(f, N, Rounds, Start(o), step)
  <2> HIDE DEF step
  <2> QED
    BY <1>2, <1>3, <1>5, Recursion
<1>7. f \in [0..N -> Rounds] /\ f[0] = Start(o)
      /\ \A n \in 1..N : f[n] = FillOne(o, f[n - 1], resting[n])
  <2>1. \A n \in 1..N : n - 1 \in 0..N
    BY <1>2
  <2> QED
    BY <1>6, <2>1 DEF Iterates
<1>8. P(f)
  <2>1. f = [n \in 0..N |-> f[n]]
    BY <1>7
  <2>2. \A n \in 0..N : f[n] = IF n = 0 THEN Start(o) ELSE FillOne(o, f[n - 1], resting[n])
    BY <1>2, <1>7
  <2> QED
    BY <2>1, <2>2
<1>9. P(g)
  <2> HIDE DEF P
  <2> QED
    BY <1>8
<1> HIDE DEF g
<1>10. g[0] = Start(o) /\ \A n \in 1..N : g[n] = FillOne(o, g[n - 1], resting[n])
  <2>1. \A n \in 0..N : g[n] = IF n = 0 THEN Start(o) ELSE FillOne(o, g[n - 1], resting[n])
    BY <1>9
  <2> QED
    BY <1>2, <2>1
<1> DEFINE T == {n \in 0..N : g[n] \in Rounds}
<1>11. \A n \in 0..N : n \in T
  <2>1. 0 \in T /\ \A n \in 1..N : n - 1 \in T => n \in T
    BY <1>2, <1>3, <1>4, <1>10
  <2> HIDE DEF T
  <2> QED
    BY <1>2, <2>1, Induction
<1>12. g \in [0..N -> Rounds]
  <2>1. g = [n \in 0..N |-> g[n]]
    BY <1>9
  <2> QED
    BY <1>11, <2>1
<1> QED
  BY <1>1, <1>10, <1>12 DEF N, resting

(* What holds after n rounds of matching o *)
FilledInRange(acc) == \A i \in Ids : acc.filled[i] \in filled[i]..orders[i].qty

OthersUntouched(o, acc, n) ==
  \A i \in Ids : (\A m \in 1..n : book[Opposite(o.side)][m] # i) => acc.filled[i] = filled[i]

(* Only those within its reach are filled. *)
WithinReach(o, acc, n) ==
  \A m \in 1..n : LET i == book[Opposite(o.side)][m]
                  IN  acc.filled[i] > filled[i] => orders[i].price \in Reach(o)

(* While something is left of the order, those within its reach are filled, *)
ReachExhausted(o, acc, n) ==
  \A m \in 1..n : LET i == book[Opposite(o.side)][m]
                  IN  orders[i].price \in Reach(o) /\ acc.left > 0 => acc.filled[i] = orders[i].qty

(* and a later one only takes its turn then. *)
InTurn(o, acc, n) ==
  \A m, k \in 1..n :
    LET i == book[Opposite(o.side)][m]
        j == book[Opposite(o.side)][k]
    IN  m < k /\ acc.filled[j] > filled[j] /\ orders[i].price \in Reach(o) => acc.filled[i] = orders[i].qty

RestUnfilled(o, acc, n) ==
  /\ InOrder(acc.rest, orders)
  /\ \A k \in 1..Len(acc.rest) :
       /\ \E m \in 1..n : acc.rest[k] = book[Opposite(o.side)][m]
       /\ acc.filled[acc.rest[k]] < orders[acc.rest[k]].qty

(* The executions and the fills of the other side make up what is filled *)
Booked(o, acc) ==
  /\ acc.left <= o.qty
  /\ SumsTo(acc.execs, o.qty - acc.left)
  /\ \A side \in Sides : \A x \in Int : VolumeIs(orders, filled, side, x) =>
       VolumeIs(orders, acc.filled, side, IF side = o.side THEN x ELSE x + o.qty - acc.left)

AfterRounds(o, acc, n) ==
  /\ FilledInRange(acc) /\ OthersUntouched(o, acc, n) /\ WithinReach(o, acc, n)
  /\ ReachExhausted(o, acc, n) /\ InTurn(o, acc, n)
  /\ RestUnfilled(o, acc, n) /\ Booked(o, acc)

LEMMA FirstRound == ASSUME Base, NEW o \in Inputs  PROVE AfterRounds(o, Start(o), 0)
<1> DEFINE acc == Start(o)
<1>1. acc.left = o.qty /\ acc.execs = <<>> /\ acc.filled = filled /\ acc.rest = <<>> /\ o.qty \in Nat
  BY InputFacts DEF Start
<1> HIDE DEF acc
<1>2. FilledInRange(acc)
  BY <1>1 DEF FilledInRange, Base, TypeOK
<1>3. /\ OthersUntouched(o, acc, 0) /\ WithinReach(o, acc, 0)
      /\ ReachExhausted(o, acc, 0) /\ InTurn(o, acc, 0)
  BY <1>1 DEF OthersUntouched, WithinReach, ReachExhausted, InTurn
<1>4. RestUnfilled(o, acc, 0)
  BY <1>1 DEF RestUnfilled, InOrder
<1>5. Booked(o, acc)
  <2>1. o.qty - acc.left = 0 /\ \A x \in Int : x + o.qty - acc.left = x
    BY <1>1
  <2> QED
    BY <1>1, <2>1, SumEmpty DEF Booked
<1>6. AfterRounds(o, acc, 0)
  BY <1>2, <1>3, <1>4, <1>5 DEF AfterRounds
<1> QED
  BY <1>6 DEF acc

LEMMA NextRound ==
  ASSUME Base, NEW o \in Inputs, NEW n \in 1..Len(book[Opposite(o.side)]),
         NEW acc \in Rounds, AfterRounds(o, acc, n - 1)
  PROVE  AfterRounds(o, FillOne(o, acc, book[Opposite(o.side)][n]), n)
<1> DEFINE b == book[Opposite(o.side)]
           i == b[n]
           q == Taken(o, acc, i)
           r == FillOne(o, acc, i)
<1>1. b \in Seq(Ids) /\ Len(b) \in Nat /\ \A m \in 1..Len(b) : b[m] \in Ids
  <2>1. b \in Seq(Ids)
    BY InputFacts DEF Base, BooksInOrder
  <2> QED
    BY <2>1, LenProperties, ElementOfSeq
<1>2. n \in Nat \ {0} /\ 1..n \subseteq 1..Len(b) /\ 1..n = 1..(n - 1) \cup {n} /\ n \notin 1..(n - 1)
  BY <1>1
<1>3. i \in Ids /\ Left(i) > 0 /\ orders[i].side = Opposite(o.side) /\ \A m \in 1..(n - 1) : b[m] # i
  BY <1>1, <1>2, InputFacts, RestingFacts, Distinct
<1> HIDE DEF i
<1>4. IsRound(acc, i, q, r)
  BY <1>3, RoundFacts DEF Base
<1>5. acc.left \in Nat /\ acc.execs \in Seq(Nat \ {0}) /\ acc.filled \in [Ids -> Nat] /\ acc.rest \in Seq(Ids)
  BY DEF Rounds
<1>6. acc.filled[i] = filled[i] /\ r.filled[i] = filled[i] + q /\ \A j \in Ids : j # i => r.filled[j] = acc.filled[j]
  BY <1>3, <1>4, <1>5 DEF AfterRounds, OthersUntouched, IsRound
<1>7. q = IF orders[i].price \notin Reach(o) THEN 0 ELSE IF acc.left < Left(i) THEN acc.left ELSE Left(i)
  BY DEF Taken
<1>8. \A j \in Ids : orders[j].qty \in Nat /\ filled[j] \in Nat /\ Left(j) \in Nat /\ Left(j) = orders[j].qty - filled[j]
  BY OrderFacts DEF Base
<1> HIDE DEF q, r
<1>9. FilledInRange(r)
  <2> SUFFICES ASSUME NEW j \in Ids  PROVE r.filled[j] \in filled[j]..orders[j].qty
    BY DEF FilledInRange
  <2>1. CASE j = i
    BY <1>3, <1>4, <1>6, <1>8, <2>1 DEF IsRound
  <2>2. CASE j # i
    BY <1>6, <2>2 DEF AfterRounds, FilledInRange
  <2> QED
    BY <2>1, <2>2
<1>10. OthersUntouched(o, r, n)
  BY <1>2, <1>6 DEF AfterRounds, OthersUntouched, i
<1>11. WithinReach(o, r, n)
  <2> SUFFICES ASSUME NEW m \in 1..n, r.filled[b[m]] > filled[b[m]]  PROVE orders[b[m]].price \in Reach(o)
    BY SMTT(30) DEF WithinReach
  <2>1. CASE m = n
    BY <1>3, <1>4, <1>6, <1>7, <1>8, <2>1 DEF IsRound, i
  <2>2. CASE m \in 1..(n - 1)
    <3>1. b[m] # i /\ b[m] \in Ids
      BY <1>1, <1>2, <1>3, <2>2
    <3>2. acc.filled[b[m]] > filled[b[m]]
      BY <1>6, <3>1
    <3> QED
      BY <2>2, <3>2 DEF AfterRounds, WithinReach
  <2> QED
    BY <1>2, <2>1, <2>2
<1>12. ReachExhausted(o, r, n)
  <2> SUFFICES ASSUME NEW m \in 1..n, orders[b[m]].price \in Reach(o), r.left > 0
               PROVE  r.filled[b[m]] = orders[b[m]].qty
    BY DEF ReachExhausted
  <2>1. CASE m = n
    <3>1. q = Left(i) /\ b[m] = i
      BY <1>3, <1>4, <1>5, <1>7, <1>8, <2>1 DEF i, IsRound
    <3> QED
      BY <1>3, <1>6, <1>8, <3>1
  <2>2. CASE m \in 1..(n - 1)
    <3>1. acc.left > 0
      BY <1>4, <1>5 DEF IsRound
    <3>2. b[m] # i /\ b[m] \in Ids /\ acc.filled[b[m]] = orders[b[m]].qty
      BY <1>1, <1>2, <1>3, <2>2, <3>1 DEF AfterRounds, ReachExhausted
    <3> QED
      BY <1>6, <3>2
  <2> QED
    BY <1>2, <2>1, <2>2
<1>13. InTurn(o, r, n)
  <2> SUFFICES ASSUME NEW m \in 1..n, NEW k \in 1..n, m < k, r.filled[b[k]] > filled[b[k]],
                      orders[b[m]].price \in Reach(o)
               PROVE  r.filled[b[m]] = orders[b[m]].qty
    BY DEF InTurn
  <2>1. m \in 1..(n - 1) /\ b[m] \in Ids /\ b[m] # i
    BY <1>1, <1>2, <1>3
  <2>2. acc.filled[b[m]] = orders[b[m]].qty
    <3>1. CASE k = n
      <4>1. q > 0 /\ b[k] = i
        BY <1>3, <1>4, <1>6, <1>8, <3>1 DEF i, IsRound
      <4>2. acc.left > 0
        BY <1>4, <1>5, <4>1 DEF IsRound
      <4> QED
        BY <2>1, <4>2 DEF AfterRounds, ReachExhausted
    <3>2. CASE k \in 1..(n - 1)
      <4>1. b[k] # i /\ b[k] \in Ids
        BY <1>1, <1>2, <1>3, <3>2
      <4>2. acc.filled[b[k]] > filled[b[k]]
        BY <1>6, <4>1
      <4> QED
        BY <2>1, <3>2, <4>2 DEF AfterRounds, InTurn
    <3> QED
      BY <1>2, <3>1, <3>2
  <2> QED
    BY <1>6, <2>1, <2>2
<1>14. RestUnfilled(o, r, n)
  <2>1. \A k \in 1..Len(acc.rest) :
          /\ acc.rest[k] \in Ids /\ acc.rest[k] # i
          /\ \E m \in 1..(n - 1) : acc.rest[k] = b[m]
          /\ r.filled[acc.rest[k]] < orders[acc.rest[k]].qty
    <3> SUFFICES ASSUME NEW k \in 1..Len(acc.rest)
                 PROVE  /\ acc.rest[k] \in Ids /\ acc.rest[k] # i
                        /\ \E m \in 1..(n - 1) : acc.rest[k] = b[m]
                        /\ r.filled[acc.rest[k]] < orders[acc.rest[k]].qty
      OBVIOUS
    <3>1. PICK m \in 1..(n - 1) : acc.rest[k] = b[m]
      BY DEF AfterRounds, RestUnfilled
    <3>2. acc.rest[k] \in Ids /\ acc.rest[k] # i
      BY <1>3, <1>5, <3>1
    <3> QED
      BY <1>6, <3>1, <3>2 DEF AfterRounds, RestUnfilled
  <2>2. CASE q < Left(i)
    <3> DEFINE s == Append(acc.rest, i)
               L == Len(acc.rest)
    <3>1. L \in Nat /\ Len(s) = L + 1 /\ s[L + 1] = i /\ \A k \in 1..L : s[k] = acc.rest[k]
      BY <1>3, <1>5
    <3>2. r.rest = s
      BY <1>4, <2>2 DEF IsRound
    <3> HIDE DEF s, L
    <3>3. ASSUME NEW k \in 1..L  PROVE Ahead(orders, s[k], i)
      <4>1. PICK m \in 1..(n - 1) : acc.rest[k] = b[m]
        BY <2>1 DEF L
      <4>2. Ahead(orders, b[m], b[n])
        BY <1>2, InputFacts DEF Base, BooksInOrder, InOrder
      <4> QED
        BY <3>1, <4>1, <4>2 DEF i
    <3>4. InOrder(s, orders)
      <4> SUFFICES ASSUME NEW k \in 1..Len(s), NEW l \in 1..Len(s), k < l
                   PROVE  Ahead(orders, s[k], s[l])
        BY DEF InOrder
      <4>1. k \in 1..L /\ (l \in 1..L \/ l = L + 1)
        BY <3>1
      <4>2. CASE l = L + 1
        BY <3>1, <3>3, <4>1, <4>2
      <4>3. CASE l \in 1..L
        BY <3>1, <4>1, <4>3 DEF AfterRounds, RestUnfilled, InOrder, L
      <4> QED
        BY <4>1, <4>2, <4>3
    <3>5. r.filled[i] < orders[i].qty
      BY <1>3, <1>4, <1>6, <1>8, <2>2 DEF IsRound
    <3>6. \A k \in 1..Len(s) :
            (\E m \in 1..n : s[k] = b[m]) /\ r.filled[s[k]] < orders[s[k]].qty
      <4> SUFFICES ASSUME NEW k \in 1..Len(s)
                   PROVE  (\E m \in 1..n : s[k] = b[m]) /\ r.filled[s[k]] < orders[s[k]].qty
        OBVIOUS
      <4>1. CASE k \in 1..L
        BY <1>2, <2>1, <3>1, <4>1 DEF L
      <4>2. CASE k = L + 1
        <5>1. s[k] = i /\ i = b[n] /\ n \in 1..n
          BY <1>2, <3>1, <4>2 DEF i
        <5> QED
          BY <3>5, <5>1
      <4> QED
        BY <3>1, <4>1, <4>2
    <3> QED
      BY <3>2, <3>4, <3>6 DEF RestUnfilled
  <2>3. CASE ~ (q < Left(i))
    <3>1. r.rest = acc.rest
      BY <1>4, <2>3 DEF IsRound
    <3> QED
      BY <1>2, <2>1, <3>1 DEF AfterRounds, RestUnfilled
  <2> QED
    BY <2>2, <2>3
<1>15. Booked(o, r)
  <2>1. r.left \in Nat /\ r.left <= acc.left /\ o.qty \in Nat /\ acc.left <= o.qty
        /\ o.qty - r.left = (o.qty - acc.left) + q
    <3>1. q \in Nat /\ q <= acc.left /\ r.left = acc.left - q
      BY <1>4 DEF IsRound
    <3>2. o.qty \in Nat /\ acc.left <= o.qty
      BY InputFacts DEF AfterRounds, Booked
    <3> QED
      BY <1>5, <3>1, <3>2
  <2>2. SumsTo(r.execs, o.qty - r.left)
    <3>1. CASE q = 0
      <4>1. r.execs = acc.execs /\ o.qty - r.left = o.qty - acc.left
        BY <1>4, <1>5, <2>1, <3>1 DEF IsRound
      <4> QED
        BY <4>1 DEF AfterRounds, Booked
    <3>2. CASE q # 0
      <4>1. acc.execs \in Seq(Int) /\ q \in Int /\ o.qty - acc.left \in Int
        BY <1>4, <1>5, <2>1, SeqMonotonic DEF IsRound
      <4>2. SumsTo(Append(acc.execs, q), (o.qty - acc.left) + q)
        BY <4>1, SumAppend DEF AfterRounds, Booked
      <4> QED
        BY <1>4, <2>1, <3>2, <4>2 DEF IsRound
    <3> QED
      BY <3>1, <3>2
  <2>3. ASSUME NEW side \in Sides, NEW x \in Int, VolumeIs(orders, filled, side, x)
        PROVE  VolumeIs(orders, r.filled, side, IF side = o.side THEN x ELSE x + o.qty - r.left)
    <3> DEFINE y == IF side = o.side THEN x ELSE x + o.qty - acc.left
    <3>1. VolumeIs(orders, acc.filled, side, y)
      BY <2>3 DEF AfterRounds, Booked
    <3>2. y \in Int /\ q \in Int
      BY <1>4, <1>5, <2>1 DEF IsRound
    <3>3. Len(orders) \in Nat /\ i \in 1..Len(orders) /\ acc.filled \in [1..Len(orders) -> Int]
      BY <1>3, <1>5, IdsFacts DEF Base
    <3> HIDE DEF y
    <3>4. VolumeIs(orders, r.filled, side, IF orders[i].side = side THEN y + q ELSE y)
      <4>1. VolumeIs(orders, [acc.filled EXCEPT ![i] = @ + q], side,
                     IF orders[i].side = side THEN y + q ELSE y)
        BY <3>1, <3>2, <3>3, VolumeFill
      <4> QED
        BY <1>4, <4>1 DEF IsRound
    <3>5. (orders[i].side = side) = (side # o.side)
      BY <1>3, InputFacts DEF Sides, Opposite
    <3>6. (IF orders[i].side = side THEN y + q ELSE y) = IF side = o.side THEN x ELSE x + o.qty - r.left
      BY <1>4, <1>5, <2>1, <3>5, SMTT(30) DEF y, IsRound
    <3> QED
      BY <3>4, <3>6
  <2>4. r.left <= o.qty
    BY <1>5, <2>1
  <2> QED
    BY <2>2, <2>3, <2>4 DEF Booked
<1>16. AfterRounds(o, r, n)
  BY <1>9, <1>10, <1>11, <1>12, <1>13, <1>14, <1>15 DEF AfterRounds
<1> QED
  BY <1>16 DEF r, i

(* What a match leaves: the facts above for the whole of the other book *)
LEMMA FillsFacts ==
  ASSUME Base, NEW o \in Inputs
  PROVE  Fills(o) \in Rounds /\ AfterRounds(o, Fills(o), Len(book[Opposite(o.side)]))
<1> DEFINE b == book[Opposite(o.side)]
           N == Len(b)
<1>1. PICK f \in [0..N -> Rounds] :
        /\ f[0] = Start(o)
        /\ \A n \in 1..N : f[n] = FillOne(o, f[n - 1], b[n])
        /\ Fills(o) = f[N]
  BY FillsByRounds
<1>2. N \in Nat
  BY InputFacts, LenProperties DEF Base, BooksInOrder
<1> DEFINE T == {n \in 0..N : AfterRounds(o, f[n], n)}
<1>3. 0 \in T
  BY <1>1, <1>2, FirstRound
<1>4. ASSUME NEW n \in 1..N, n - 1 \in T  PROVE n \in T
  <2>1. n \in 0..N /\ n - 1 \in 0..N /\ f[n - 1] \in Rounds /\ AfterRounds(o, f[n - 1], n - 1)
    BY <1>2, <1>4
  <2>2. AfterRounds(o, FillOne(o, f[n - 1], b[n]), n)
    BY <2>1, NextRound
  <2>3. f[n] = FillOne(o, f[n - 1], b[n])
    BY <1>1
  <2> QED
    BY <2>1, <2>2, <2>3
<1>5. \A n \in 0..N : n \in T
  <2> HIDE DEF T, N
  <2> QED
    BY <1>2, <1>3, <1>4, Induction
<1>6. N \in 0..N
  BY <1>2
<1> QED
  BY <1>1, <1>5, <1>6

-----------------------------------------------------------------------------
(* Where an order is pushed: behind the lower prices and its own *)
LEMMA SlotFacts ==
  ASSUME Base, NEW o \in Inputs, o.price \in Nat
  PROVE  /\ Slot(o) \in 1..(Len(book[o.side]) + 1)
         /\ \A n \in 1..Len(book[o.side]) :
              n < Slot(o) <=> orders[book[o.side][n]].price <= o.price
<1> DEFINE b == book[o.side]
           N == Len(b)
           Is(k) == \A n \in DOMAIN b : n < k <=> orders[b[n]].price <= o.price
           T == {k \in 1..(N + 1) : \A n \in k..N : orders[b[n]].price > o.price}
<1>1. N \in Nat /\ DOMAIN b = 1..N /\ InOrder(b, orders)
  <2>1. b \in Seq(Ids)
    BY InputFacts DEF Base, BooksInOrder
  <2> QED
    BY <2>1, InputFacts, LenProperties DEF Base, BooksInOrder
<1>2. \A n \in 1..N : orders[b[n]].price \in Nat
  BY InputFacts, RestingFacts
<1> HIDE DEF b
<1>3. PICK k \in T : \A l \in T : k <= l
  <2>1. T \in SUBSET Nat /\ N + 1 \in T
    BY <1>1
  <2> HIDE DEF T
  <2> QED
    BY <2>1, LeastNumber
<1>4. ASSUME NEW n \in 1..N  PROVE n < k <=> orders[b[n]].price <= o.price
  <2>1. CASE n >= k
    BY <1>1, <1>2, <1>3, <2>1
  <2>2. CASE n < k /\ orders[b[n]].price > o.price
    <3>1. \A m \in n..N : orders[b[m]].price >= orders[b[n]].price
      BY <1>1, <1>2 DEF InOrder, Ahead
    <3>2. n \in T
      BY <1>1, <1>2, <2>2, <3>1, SMTT(30)
    <3> QED
      BY <1>1, <1>3, <2>2, <3>2
  <2> QED
    BY <1>1, <1>2, <1>3, <2>1, <2>2
<1>5. k \in 1..(N + 1) /\ Is(k)
  BY <1>1, <1>3, <1>4
<1>6. Slot(o) = CHOOSE l \in 1..(N + 1) : Is(l)
  BY DEF Slot, b
<1>7. Slot(o) \in 1..(N + 1) /\ Is(Slot(o))
  <2> HIDE DEF Is
  <2> QED
    BY <1>5, <1>6
<1> QED
  BY <1>1, <1>7 DEF b

(* The orders and their fills after one more *)
LEMMA OneMore ==
  ASSUME TypeOK, NEW o \in Inputs, orders' = Append(orders, o)
  PROVE  /\ orders' \in Seq(Inputs) /\ Len(orders') = Len(orders) + 1
         /\ Ids' = 1..(Len(orders) + 1) /\ Ids \subseteq Ids'
         /\ Len(orders) + 1 \in Ids' /\ Len(orders) + 1 \notin Ids
         /\ \A i \in Ids' : i \in Ids \/ i = Len(orders) + 1
         /\ \A i \in Ids : orders'[i] = orders[i] /\ i < Len(orders) + 1
         /\ orders'[Len(orders) + 1] = o
<1>1. orders \in Seq(Inputs) /\ Len(orders) \in Nat /\ Ids = 1..Len(orders)
  BY IdsFacts DEF TypeOK
<1>2. /\ orders' \in Seq(Inputs) /\ Len(orders') = Len(orders) + 1
      /\ \A i \in 1..Len(orders) : orders'[i] = orders[i]
      /\ orders'[Len(orders) + 1] = o
  BY <1>1, AppendProperties
<1>3. Ids' = 1..(Len(orders) + 1)
  BY <1>2, LenProperties DEF Ids
<1> QED
  BY <1>1, <1>2, <1>3

LEMMA SameOrder ==
  ASSUME TypeOK, NEW o \in Inputs, orders' = Append(orders, o), NEW s \in Seq(Ids), InOrder(s, orders)
  PROVE  InOrder(s, orders') /\ s \in Seq(Ids')
<1>1. \A n \in 1..Len(s) : s[n] \in Ids
  BY ElementOfSeq
<1>2. \A i \in Ids : orders'[i] = orders[i]
  BY OneMore
<1>3. InOrder(s, orders')
  <2> SUFFICES ASSUME NEW m \in 1..Len(s), NEW n \in 1..Len(s), m < n  PROVE Ahead(orders', s[m], s[n])
    BY DEF InOrder
  <2>1. Ahead(orders, s[m], s[n])
    BY DEF InOrder
  <2>2. orders'[s[m]] = orders[s[m]] /\ orders'[s[n]] = orders[s[n]]
    BY <1>1, <1>2
  <2> QED
    BY <2>1, <2>2 DEF Ahead
<1> QED
  BY <1>3, OneMore, SeqMonotonic

(* A Limit order that rests takes its place *)
LEMMA PushFacts ==
  ASSUME Base, NEW o \in Inputs, o.price \in Nat, orders' = Append(orders, o)
  PROVE  LET s == Push(o, Len(orders) + 1)
         IN  /\ s \in Seq(Ids') /\ InOrder(s, orders')
             /\ \A n \in 1..Len(s) : \/ s[n] = Len(orders) + 1
                                     \/ \E m \in 1..Len(book[o.side]) : s[n] = book[o.side][m]
<1> DEFINE b == book[o.side]
           N == Len(b)
           k == Slot(o)
           i == Len(orders) + 1
           s == Push(o, i)
<1>1. b \in Seq(Ids) /\ N \in Nat /\ InOrder(b, orders)
  BY InputFacts, LenProperties DEF Base, BooksInOrder
<1>2. b \in Seq(Ids') /\ InOrder(b, orders') /\ i \in Ids'
  BY <1>1, SameOrder, OneMore DEF Base
<1>3. k \in 1..(N + 1) /\ \A n \in 1..N : n < k <=> orders[b[n]].price <= o.price
  BY SlotFacts
<1>4. \A n \in 1..N : b[n] \in Ids /\ orders[b[n]].price \in Nat
  BY InputFacts, RestingFacts
<1>5. \A n \in 1..N : b[n] < i /\ orders'[b[n]] = orders[b[n]]
  BY <1>4, OneMore DEF Base
<1>6. orders'[i] = o
  BY OneMore DEF Base
<1>7. s = InsertAt(b, k, i)
  BY DEF Push
<1> HIDE DEF b, N, k, i, s
<1>8. \A n \in 1..N : IF n < k THEN Ahead(orders', b[n], i) ELSE Ahead(orders', i, b[n])
  <2> SUFFICES ASSUME NEW n \in 1..N
               PROVE  IF n < k THEN Ahead(orders', b[n], i) ELSE Ahead(orders', i, b[n])
    OBVIOUS
  <2> DEFINE p == orders[b[n]].price
  <2>1. orders'[b[n]].price = p /\ orders'[i].price = o.price /\ p \in Nat /\ b[n] < i
    BY <1>4, <1>5, <1>6
  <2>2. n < k <=> p <= o.price
    BY <1>3
  <2> HIDE DEF p
  <2> QED
    BY <2>1, <2>2 DEF Ahead
<1>9. /\ s \in Seq(Ids') /\ Len(s) = N + 1
      /\ \A n \in 1..(N + 1) : s[n] = IF n < k THEN b[n] ELSE IF n = k THEN i ELSE b[n - 1]
  <2> DEFINE S == Ids'
  <2>1. b \in Seq(S) /\ i \in S /\ k \in 1..(Len(b) + 1)
    BY <1>2, <1>3 DEF N
  <2> HIDE DEF S
  <2>2. IsInserted(s, b, k, i, S)
    BY <1>7, <2>1, Inserted
  <2> QED
    BY <2>2 DEF IsInserted, N, S
<1>10. InOrder(s, orders')
  <2> SUFFICES ASSUME NEW m \in 1..(N + 1), NEW n \in 1..(N + 1), m < n
               PROVE  Ahead(orders', s[m], s[n])
    BY <1>9 DEF InOrder
  <2> DEFINE old(l) == IF l < k THEN l ELSE l - 1
  <2>1. \A l \in 1..(N + 1) : l # k => old(l) \in 1..N /\ s[l] = b[old(l)] /\ (old(l) < k <=> l < k)
    BY <1>1, <1>3, <1>9
  <2>2. s[k] = i
    BY <1>3, <1>9
  <2>3. CASE m # k /\ n # k
    <3>1. old(m) < old(n)
      BY <1>1, <1>3, <2>3
    <3> HIDE DEF old
    <3>2. old(m) \in 1..Len(b) /\ old(n) \in 1..Len(b) /\ s[m] = b[old(m)] /\ s[n] = b[old(n)]
      BY <2>1, <2>3 DEF N
    <3> QED
      BY <1>2, <3>1, <3>2 DEF InOrder
  <2>4. CASE m = k
    <3>1. n # k /\ ~ (n < k)
      BY <1>1, <1>3, <2>4
    <3> HIDE DEF old
    <3> QED
      BY <1>8, <2>1, <2>2, <2>4, <3>1
  <2>5. CASE n = k
    <3>1. m # k /\ m < k
      BY <1>1, <1>3, <2>5
    <3> HIDE DEF old
    <3> QED
      BY <1>8, <2>1, <2>2, <2>5, <3>1
  <2> QED
    BY <2>3, <2>4, <2>5
<1>11. ASSUME NEW n \in 1..(N + 1)  PROVE s[n] = i \/ \E m \in 1..N : s[n] = b[m]
  <2>1. CASE n < k
    BY <1>1, <1>3, <1>9, <2>1
  <2>2. CASE n > k
    <3>1. n - 1 \in 1..N /\ s[n] = b[n - 1]
      BY <1>1, <1>3, <1>9, <2>2
    <3> QED
      BY <3>1
  <2> QED
    BY <1>3, <1>9, <2>1, <2>2
<1> QED
  BY <1>9, <1>10, <1>11 DEF b, N, i, s

-----------------------------------------------------------------------------
(* An order that is taken *)
New == Len(orders) + 1
Killed(o) == o.type = "FOK" /\ Fills(o).left > 0
Rests(o) == Fills(o).left > 0 /\ Effective(o) = "Limit"

LEMMA TakeFacts ==
  ASSUME Base, NEW o \in Inputs, Take(o)
  PROVE  /\ report = None /\ orders' = Append(orders, o)
         /\ filled' = Append(Fills(o).filled, IF Killed(o) THEN 0 ELSE o.qty - Fills(o).left)
         /\ DOMAIN book' = Sides
         /\ book'[Opposite(o.side)] = Fills(o).rest
         /\ book'[o.side] = IF Rests(o) THEN Push(o, New) ELSE book[o.side]
         /\ levels' = IF Rests(o) THEN [levels EXCEPT ![o.side] = @ \cup {o.price}] ELSE levels
         /\ wasted' = IF Killed(o) THEN [wasted EXCEPT ![o.side] = @ + o.qty - Fills(o).left] ELSE wasted
         /\ report' = [execs |-> IF Killed(o) THEN <<>> ELSE Fills(o).execs,
                       status |-> StatusOf(o, Fills(o).left)]
         /\ told' = Append(told, 0)
         /\ status' = Append(status, None)
         /\ price' = price /\ faults' = faults
BY InputFacts DEF Take, Killed, Rests, New

(* The fills of the orders in the books and of the new one *)
LEMMA TakeFills ==
  ASSUME Base, NEW o \in Inputs, Take(o)
  PROVE  /\ Fills(o).left \in 0..o.qty
         /\ filled' \in [Ids' -> Nat]
         /\ \A j \in Ids : filled'[j] = Fills(o).filled[j] /\ filled'[j] \in filled[j]..orders[j].qty
         /\ filled'[New] = IF Killed(o) THEN 0 ELSE o.qty - Fills(o).left
         /\ \A n \in 1..Len(book[o.side]) : filled'[book[o.side][n]] = filled[book[o.side][n]]
<1> DEFINE F == Fills(o)
           q == IF Killed(o) THEN 0 ELSE o.qty - F.left
<1>1. F \in Rounds /\ AfterRounds(o, F, Len(book[Opposite(o.side)]))
  BY FillsFacts
<1>2. F.left \in 0..o.qty /\ F.filled \in [Ids -> Nat] /\ o.qty \in Nat
  BY <1>1, InputFacts DEF AfterRounds, Booked, Rounds
<1>3. q \in Nat
  BY <1>2
<1>4. filled' = Append(F.filled, q) /\ orders' = Append(orders, o)
  BY TakeFacts
<1>5. Len(orders) \in Nat /\ Ids = 1..Len(orders) /\ Ids' = 1..(Len(orders) + 1)
  BY <1>4, IdsFacts, OneMore DEF Base
<1>6. \A n \in 1..Len(book[o.side]) : LET j == book[o.side][n] IN j \in Ids /\ F.filled[j] = filled[j]
  <2> SUFFICES ASSUME NEW n \in 1..Len(book[o.side])
               PROVE  book[o.side][n] \in Ids /\ F.filled[book[o.side][n]] = filled[book[o.side][n]]
    OBVIOUS
  <2> DEFINE j == book[o.side][n]
  <2>1. j \in Ids /\ orders[j].side = o.side
    BY InputFacts, RestingFacts
  <2>2. \A m \in 1..Len(book[Opposite(o.side)]) : book[Opposite(o.side)][m] # j
    BY <2>1, InputFacts, RestingFacts
  <2> QED
    BY <1>1, <2>1, <2>2 DEF AfterRounds, OthersUntouched
<1> HIDE DEF F, q
<1>7. /\ filled' \in [1..(Len(orders) + 1) -> Nat]
      /\ \A j \in 1..Len(orders) : filled'[j] = F.filled[j]
      /\ filled'[Len(orders) + 1] = q
  <2> DEFINE N == Len(orders)
             f == F.filled
             S == Nat
  <2>1. N \in Nat /\ f \in [1..N -> S] /\ q \in S /\ filled' = Append(f, q)
    BY <1>2, <1>3, <1>4, <1>5
  <2> HIDE DEF N, f, S
  <2>2. /\ Append(f, q) \in [1..(N + 1) -> S] /\ \A j \in 1..N : Append(f, q)[j] = f[j]
        /\ Append(f, q)[N + 1] = q
    BY <2>1, AppendFcn
  <2> QED
    BY <2>1, <2>2 DEF N, f, S
<1>8. \A j \in Ids : filled'[j] = F.filled[j] /\ filled'[j] \in filled[j]..orders[j].qty
  BY <1>1, <1>5, <1>7 DEF AfterRounds, FilledInRange
<1> QED
  <2>1. filled' \in [Ids' -> Nat]
    BY <1>5, <1>7
  <2>2. filled'[New] = q
    BY <1>7 DEF New
  <2>3. \A n \in 1..Len(book[o.side]) : filled'[book[o.side][n]] = filled[book[o.side][n]]
    BY <1>6, <1>8
  <2> QED
    BY <1>2, <1>8, <2>1, <2>2, <2>3 DEF F, q

(* What is in a book afterwards: an order that was in it and is not filled, *)
(* or the new one                                                           *)
LEMMA TakeBooks ==
  ASSUME Base, NEW o \in Inputs, Take(o)
  PROVE  /\ BooksInOrder'
         /\ \A side \in Sides : \A n \in 1..Len(book'[side]) :
              LET j == book'[side][n]
              IN  \/ /\ \E m \in 1..Len(book[side]) : j = book[side][m]
                     /\ filled'[j] < orders[j].qty
                  \/ Rests(o) /\ side = o.side /\ j = New
<1> DEFINE F == Fills(o)
           opp == Opposite(o.side)
<1>1. o.side \in Sides /\ opp \in Sides /\ \A side \in Sides : side = o.side \/ side = opp
  BY InputFacts DEF Sides, Opposite
<1>2. F \in Rounds /\ RestUnfilled(o, F, Len(book[opp]))
  BY FillsFacts DEF AfterRounds
<1>3. F.rest \in Seq(Ids) /\ InOrder(F.rest, orders)
  BY <1>2 DEF Rounds, RestUnfilled
<1>4. orders' = Append(orders, o) /\ TypeOK
  BY TakeFacts DEF Base
<1>5. book'[opp] = F.rest /\ book'[opp] \in Seq(Ids') /\ InOrder(book'[opp], orders')
  BY <1>3, <1>4, SameOrder, TakeFacts
<1>6. Rests(o) => o.price \in Nat /\ o.price \in Prices
  BY InputFacts DEF Rests
<1>7. book'[o.side] \in Seq(Ids') /\ InOrder(book'[o.side], orders')
  <2>1. CASE Rests(o)
    <3>1. book'[o.side] = Push(o, Len(orders) + 1)
      BY <2>1, TakeFacts DEF New
    <3> QED
      BY <1>4, <1>6, <2>1, <3>1, PushFacts
  <2>2. CASE ~ Rests(o)
    <3>1. book'[o.side] = book[o.side]
      BY <2>2, TakeFacts
    <3>2. book[o.side] \in Seq(Ids) /\ InOrder(book[o.side], orders)
      BY <1>1 DEF Base, BooksInOrder
    <3> QED
      BY <1>4, <3>1, <3>2, SameOrder
  <2> QED
    BY <2>1, <2>2
<1>8. levels' \in [Sides -> SUBSET Prices]
  <2>1. levels \in [Sides -> SUBSET Prices]
    BY DEF Base, BooksInOrder
  <2>2. levels' = IF Rests(o) THEN [levels EXCEPT ![o.side] = @ \cup {o.price}] ELSE levels
    BY TakeFacts
  <2> QED
    BY <1>1, <1>6, <2>1, <2>2
<1>9. book' \in [Sides -> Seq(Ids')] /\ \A side \in Sides : InOrder(book'[side], orders')
  <2>1. \A side \in Sides : book'[side] \in Seq(Ids') /\ InOrder(book'[side], orders')
    BY <1>1, <1>5, <1>7
  <2>2. book' = [side \in Sides |-> book'[side]]
    BY DEF Take
  <2> QED
    BY <2>1, <2>2
<1>10. ASSUME NEW n \in 1..Len(book'[opp])
       PROVE  LET j == book'[opp][n]
              IN  (\E m \in 1..Len(book[opp]) : j = book[opp][m]) /\ filled'[j] < orders[j].qty
  <2>1. F.rest[n] \in Ids /\ book'[opp][n] = F.rest[n]
    BY <1>3, <1>5, ElementOfSeq
  <2>2. (\E m \in 1..Len(book[opp]) : F.rest[n] = book[opp][m]) /\ F.filled[F.rest[n]] < orders[F.rest[n]].qty
    BY <1>2, <1>5 DEF RestUnfilled
  <2> QED
    BY <2>1, <2>2, TakeFills
<1>11. ASSUME NEW m \in 1..Len(book[o.side])
       PROVE  filled'[book[o.side][m]] < orders[book[o.side][m]].qty
  <2> DEFINE j == book[o.side][m]
  <2>1. j \in Ids /\ Left(j) > 0
    BY <1>1, RestingFacts
  <2>2. filled'[j] = filled[j]
    BY TakeFills
  <2> QED
    BY <1>4, <2>1, <2>2, OrderFacts
<1>12. ASSUME NEW n \in 1..Len(book'[o.side])
       PROVE  \/ \E m \in 1..Len(book[o.side]) : book'[o.side][n] = book[o.side][m]
              \/ Rests(o) /\ book'[o.side][n] = New
  <2>1. CASE Rests(o)
    <3>1. book'[o.side] = Push(o, Len(orders) + 1)
      BY <2>1, TakeFacts DEF New
    <3> QED
      BY <1>4, <1>6, <2>1, <3>1, PushFacts, SMTT(30) DEF New
  <2>2. CASE ~ Rests(o)
    BY <2>2, TakeFacts
  <2> QED
    BY <2>1, <2>2
<1>13. BooksInOrder'
  BY <1>8, <1>9 DEF BooksInOrder
<1>14. \A n \in 1..Len(book'[o.side]) :
         LET j == book'[o.side][n]
         IN  \/ /\ \E m \in 1..Len(book[o.side]) : j = book[o.side][m]
                /\ filled'[j] < orders[j].qty
             \/ Rests(o) /\ j = New
  BY <1>11, <1>12
<1> HIDE DEF opp
<1> QED
  BY <1>1, <1>10, <1>13, <1>14, ZenonT(40)

(* Nothing was sent yet on the new order *)
LEMMA NothingSent ==
  ASSUME TypeOK, NEW o \in Inputs, orders' = Append(orders, o),
         told' = Append(told, 0), status' = Append(status, None)
  PROVE  /\ told' \in [Ids' -> Nat] /\ \A i \in Ids : told'[i] = told[i]
         /\ told'[New] = 0
         /\ status' \in [Ids' -> Statuses \cup {None}] /\ \A i \in Ids : status'[i] = status[i]
         /\ status'[New] = None
<1> DEFINE N == Len(orders)
           S == Nat
           St == Statuses \cup {None}
<1>1. N \in Nat /\ Ids = 1..N /\ Ids' = 1..(N + 1) /\ New = N + 1
  BY IdsFacts, OneMore DEF New
<1>2. told \in [1..N -> S] /\ 0 \in S /\ status \in [1..N -> St] /\ None \in St
  BY <1>1 DEF TypeOK
<1> HIDE DEF N, S, St
<1>3. /\ Append(told, 0) \in [1..(N + 1) -> S] /\ \A i \in 1..N : Append(told, 0)[i] = told[i]
      /\ Append(told, 0)[N + 1] = 0
  BY <1>1, <1>2, AppendFcn
<1>4. /\ Append(status, None) \in [1..(N + 1) -> St] /\ \A i \in 1..N : Append(status, None)[i] = status[i]
      /\ Append(status, None)[N + 1] = None
  <2> DEFINE f == status
             x == None
  <2>1. N \in Nat /\ f \in [1..N -> St] /\ x \in St
    BY <1>1, <1>2
  <2> HIDE DEF f, x
  <2>2. /\ Append(f, x) \in [1..(N + 1) -> St] /\ \A i \in 1..N : Append(f, x)[i] = f[i]
        /\ Append(f, x)[N + 1] = x
    BY <2>1, AppendFcn
  <2> QED
    BY <2>2 DEF f, x
<1> QED
  BY <1>1, <1>3, <1>4 DEF S, St

LEMMA StatusFacts ==
  ASSUME NEW o \in Inputs, NEW left \in 0..o.qty
  PROVE  /\ StatusOf(o, left) \in Statuses
         /\ Agrees(StatusOf(o, left), IF o.type = "FOK" /\ left > 0 THEN 0 ELSE o.qty - left, o.qty)
<1>1. o.qty \in Nat \ {0}
  BY InputFacts
<1>2. CASE left = 0
  <2>1. StatusOf(o, left) = "Filled"
    BY <1>2 DEF StatusOf
  <2>2. (IF o.type = "FOK" /\ left > 0 THEN 0 ELSE o.qty - left) = o.qty
    BY <1>1, <1>2
  <2> QED
    BY <2>1, <2>2 DEF Statuses, Agrees
<1>3. CASE left # 0 /\ o.type \in {"IOC", "FOK"}
  <2>1. StatusOf(o, left) = "Cancelled"
    BY <1>3 DEF StatusOf
  <2>2. (IF o.type = "FOK" /\ left > 0 THEN 0 ELSE o.qty - left) < o.qty
    BY <1>1, <1>3
  <2> QED
    BY <2>1, <2>2 DEF Statuses, Agrees
<1>4. CASE left # 0 /\ o.type \notin {"IOC", "FOK"} /\ left < o.qty
  BY <1>1, <1>4 DEF StatusOf, Statuses, Agrees
<1>5. CASE left # 0 /\ o.type \notin {"IOC", "FOK"} /\ ~ (left < o.qty)
  BY <1>1, <1>5 DEF StatusOf, Statuses, Agrees
<1> QED
  BY <1>2, <1>3, <1>4, <1>5

LEMMA TakeTypes ==
  ASSUME Base, NEW o \in Inputs, Take(o)
  PROVE  TypeOK'
<1> DEFINE F == Fills(o)
<1>1. TypeOK /\ orders' = Append(orders, o) /\ told' = Append(told, 0) /\ status' = Append(status, None)
  BY TakeFacts DEF Base
<1>2. F \in Rounds /\ F.left \in 0..o.qty /\ F.execs \in Seq(Nat \ {0}) /\ o.qty \in Nat \ {0}
  BY FillsFacts, TakeFills, InputFacts DEF Rounds
<1>3. orders' \in Seq(Inputs) /\ orders'[New] = o /\ New \in Ids'
  BY <1>1, OneMore DEF New
<1>4. filled' \in [Ids' -> Nat] /\ \A i \in Ids' : filled'[i] <= orders'[i].qty
  <2>1. filled'[New] <= o.qty
    BY <1>2, TakeFills
  <2>2. \A i \in Ids : orders'[i] = orders[i] /\ filled'[i] \in filled[i]..orders[i].qty
    BY <1>1, OneMore, TakeFills
  <2>3. \A i \in Ids' : i \in Ids \/ i = New
    BY <1>1, OneMore DEF New
  <2>4. \A i \in Ids : filled[i] \in Nat /\ orders[i].qty \in Nat
    BY <1>1, OrderFacts
  <2> QED
    BY <1>3, <2>1, <2>2, <2>3, <2>4, TakeFills
<1>5. BooksInOrder'
  BY TakeBooks
<1>6. ASSUME NEW side \in Sides, NEW i \in Range(book'[side])
      PROVE  /\ orders'[i].side = side /\ orders'[i].type \in {"Limit", "StopLimit"} /\ Left(i)' > 0
             /\ orders'[i].price \in levels'[side]
  <2>1. PICK n \in 1..Len(book'[side]) : i = book'[side][n]
    <3>1. book'[side] \in Seq(Ids')
      BY <1>5 DEF BooksInOrder
    <3> QED
      BY <3>1, LenProperties DEF Range
  <2>2. Left(i)' = orders'[i].qty - filled'[i]
    BY DEF Left
  <2>3. CASE (\E m \in 1..Len(book[side]) : i = book[side][m]) /\ filled'[i] < orders[i].qty
    <3>1. PICK m \in 1..Len(book[side]) : i = book[side][m]
      BY <2>3
    <3>2. i \in Ids /\ i \in Range(book[side])
      <4>1. book[side] \in Seq(Ids)
        BY DEF Base, BooksInOrder
      <4> QED
        BY <3>1, <4>1 DEF Range
    <3>3. /\ orders[i].side = side /\ orders[i].type \in {"Limit", "StopLimit"}
          /\ orders[i].price \in levels[side] /\ orders'[i] = orders[i]
      BY <1>1, <3>2, OneMore DEF TypeOK
    <3>4. levels[side] \subseteq levels'[side]
      <4>1. levels \in [Sides -> SUBSET Prices] /\ o.side \in Sides
        BY InputFacts DEF Base, BooksInOrder
      <4>2. \/ levels' = levels
            \/ levels' = [levels EXCEPT ![o.side] = @ \cup {o.price}]
        BY TakeFacts
      <4> QED
        BY <4>1, <4>2
    <3>5. filled'[i] \in Nat /\ orders[i].qty \in Nat
      BY <1>1, <1>4, <3>2, OneMore, OrderFacts
    <3> QED
      BY <2>2, <2>3, <3>3, <3>4, <3>5
  <2>4. CASE Rests(o) /\ side = o.side /\ i = New
    <3>1. o.type \in {"Limit", "StopLimit"} /\ ~ Killed(o) /\ F.left > 0
      BY <2>4, InputFacts DEF Rests, Killed
    <3>2. filled'[i] = o.qty - F.left
      BY <2>4, <3>1, TakeFills
    <3>3. o.price \in levels'[side]
      BY <2>4, TakeFacts, InputFacts DEF Base, BooksInOrder
    <3> QED
      BY <1>2, <1>3, <2>2, <2>4, <3>1, <3>2, <3>3
  <2> QED
    BY <2>1, <2>3, <2>4, TakeBooks
<1>7. report' \in [execs : Seq(Nat \ {0}), status : Statuses]
  <2>1. StatusOf(o, F.left) \in Statuses
    BY <1>2, StatusFacts
  <2>2. report' = [execs |-> IF Killed(o) THEN <<>> ELSE F.execs, status |-> StatusOf(o, F.left)]
    BY TakeFacts
  <2>3. (IF Killed(o) THEN <<>> ELSE F.execs) \in Seq(Nat \ {0})
    BY <1>2
  <2> QED
    BY <2>1, <2>2, <2>3
<1>8. wasted' \in [Sides -> Nat]
  <2>1. wasted' = IF Killed(o) THEN [wasted EXCEPT ![o.side] = @ + o.qty - F.left] ELSE wasted
    BY TakeFacts
  <2>2. \A w \in Nat : w + o.qty - F.left \in Nat
    BY <1>2
  <2> QED
    BY <1>1, <2>1, <2>2, InputFacts DEF TypeOK
<1>9. told' \in [Ids' -> Nat] /\ status' \in [Ids' -> Statuses \cup {None}]
  BY <1>1, NothingSent
<1>10. price' = price /\ faults' = faults
  BY TakeFacts
<1>11. \A side \in Sides : levels'[side] \subseteq Prices
  BY <1>5 DEF BooksInOrder
<1> QED
  BY <1>1, <1>3, <1>4, <1>6, <1>7, <1>8, <1>9, <1>10, <1>11 DEF TypeOK

LEMMA TakeBalance ==
  ASSUME Base, FillsBalance, NEW o \in Inputs, Take(o)
  PROVE  FillsBalance'
<1> DEFINE F == Fills(o)
           q == IF Killed(o) THEN 0 ELSE o.qty - F.left
           d == o.qty - F.left
           v(side) == VolumeOf(orders, filled, side)
           w(side) == VolumeOf(orders', filled', side)
<1>1. /\ TypeOK /\ orders' = Append(orders, o) /\ orders' \in Seq(Inputs) /\ orders \in Seq(Inputs)
      /\ Len(orders) \in Nat /\ Ids = 1..Len(orders) /\ Ids' = 1..Len(orders') /\ Len(orders') \in Nat
  BY TakeFacts, OneMore, IdsFacts DEF Base, TypeOK
<1>2. F \in Rounds /\ Booked(o, F) /\ F.left \in 0..o.qty /\ o.qty \in Nat
  BY FillsFacts, TakeFills, InputFacts DEF AfterRounds
<1>3. q \in Int /\ d \in Int /\ F.filled \in [1..Len(orders) -> Int]
  BY <1>1, <1>2 DEF Rounds
<1>4. filled \in [1..Len(orders) -> Int] /\ filled' \in [1..Len(orders') -> Int]
  BY <1>1, TakeFills DEF TypeOK
<1>5. filled' = Append(F.filled, q)
  BY TakeFacts
<1> HIDE DEF q
<1>6. ASSUME NEW side \in Sides
      PROVE  /\ v(side) \in Int
             /\ w(side) = IF side = o.side THEN v(side) + q ELSE v(side) + d
  <2>1. v(side) \in Int /\ VolumeIs(orders, filled, side, v(side))
    BY <1>1, <1>4, VolumeValue
  <2> DEFINE y == IF side = o.side THEN v(side) ELSE v(side) + o.qty - F.left
             z == IF o.side = side THEN y + q ELSE y
  <2>2. VolumeIs(orders, F.filled, side, y) /\ y \in Int
    <3> HIDE DEF v
    <3> QED
      BY <1>2, <2>1 DEF Booked
  <2> HIDE DEF y
  <2>3. VolumeIs(orders', filled', side, z)
    <3>1. VolumeIs(Append(orders, o), Append(F.filled, q), side, z)
      BY <1>1, <1>3, <2>2, VolumeAppend
    <3> QED
      BY <1>1, <1>5, <3>1
  <2>4. VolumeIs(orders', filled', side, w(side))
    BY <1>1, <1>4, VolumeValue
  <2> HIDE DEF w, v, F, z
  <2>5. w(side) = z
    BY <1>1, <1>4, <2>3, <2>4, VolumeUnique
  <2> QED
    BY <1>2, <1>3, <2>1, <2>5 DEF y, z
<1>7. /\ \A side \in Sides : Volume(side) = v(side) /\ Volume(side)' = w(side)
  BY DEF Volume, VolumeOf
<1>8. wasted \in [Sides -> Nat] /\ wasted' = IF Killed(o) THEN [wasted EXCEPT ![o.side] = @ + o.qty - F.left] ELSE wasted
  BY <1>1, TakeFacts DEF TypeOK
<1>9. o.side \in Sides /\ "Buy" \in Sides /\ "Sell" \in Sides /\ (o.side = "Buy" \/ o.side = "Sell")
  BY InputFacts DEF Sides
<1>10. v("Buy") + wasted["Buy"] = v("Sell") + wasted["Sell"]
  BY <1>7, <1>9 DEF FillsBalance
<1>11. \A side \in Sides : w(side) + wasted'[side] = v(side) + wasted[side] + d
  <2> SUFFICES ASSUME NEW side \in Sides  PROVE w(side) + wasted'[side] = v(side) + wasted[side] + d
    OBVIOUS
  <2>1. v(side) \in Int /\ w(side) = IF side = o.side THEN v(side) + q ELSE v(side) + d
    BY <1>6
  <2> HIDE DEF v, w
  <2>2. wasted[side] \in Nat /\ wasted'[side] = IF Killed(o) /\ side = o.side THEN wasted[side] + d ELSE wasted[side]
    BY <1>2, <1>8
  <2>3. q = IF Killed(o) THEN 0 ELSE d
    BY DEF q
  <2> HIDE DEF d, q
  <2>4. CASE side = o.side
    BY <1>3, <2>1, <2>2, <2>3, <2>4
  <2>5. CASE side # o.side
    BY <1>3, <2>1, <2>2, <2>5
  <2> QED
    BY <2>4, <2>5
<1> HIDE DEF v, w
<1> QED
  BY <1>7, <1>9, <1>10, <1>11 DEF FillsBalance

(* A buy that rests has left no ask within its price *)
LEMMA TakeCrosses ==
  ASSUME Base, OnlySellsCross, NEW o \in Inputs, Take(o)
  PROVE  OnlySellsCross'
<1> SUFFICES ASSUME NEW b \in Range(book'["Buy"]), NEW a \in Range(book'["Sell"]),
                    orders'[b].price >= orders'[a].price
             PROVE  a > b
  BY DEF OnlySellsCross
<1>1. TypeOK /\ orders' = Append(orders, o) /\ BooksInOrder' /\ "Buy" \in Sides /\ "Sell" \in Sides
  BY TakeFacts, TakeBooks DEF Base, Sides
<1>2. book'["Buy"] \in Seq(Ids') /\ book'["Sell"] \in Seq(Ids')
  BY <1>1 DEF BooksInOrder
<1>3. PICK m \in 1..Len(book'["Buy"]) : b = book'["Buy"][m]
  BY <1>2, LenProperties DEF Range
<1>4. PICK n \in 1..Len(book'["Sell"]) : a = book'["Sell"][n]
  BY <1>2, LenProperties DEF Range
<1>5. \/ (\E k \in 1..Len(book["Buy"]) : b = book["Buy"][k]) /\ filled'[b] < orders[b].qty
      \/ Rests(o) /\ o.side = "Buy" /\ b = New
  BY <1>1, <1>3, TakeBooks
<1>6. \/ (\E k \in 1..Len(book["Sell"]) : a = book["Sell"][k]) /\ filled'[a] < orders[a].qty
      \/ Rests(o) /\ o.side = "Sell" /\ a = New
  BY <1>1, <1>4, TakeBooks
<1>7. \A i \in Ids : orders'[i] = orders[i] /\ i < New
  BY <1>1, OneMore DEF New
<1>8. \A side \in Sides : \A k \in 1..Len(book[side]) :
        book[side][k] \in Ids /\ book[side][k] \in Range(book[side])
  <2>1. \A side \in Sides : book[side] \in Seq(Ids)
    BY DEF Base, BooksInOrder
  <2> QED
    BY <2>1, LenProperties, ElementOfSeq DEF Range
<1>9. CASE b # New /\ a # New
  BY <1>1, <1>5, <1>6, <1>7, <1>8, <1>9, ZenonT(60) DEF OnlySellsCross
<1>10. CASE b # New /\ a = New
  BY <1>1, <1>5, <1>7, <1>8, <1>10, OneMore DEF New
<1>11. CASE b = New
  <2>1. Rests(o) /\ o.side = "Buy"
    BY <1>1, <1>5, <1>7, <1>8, <1>11, OneMore DEF New
  <2>2. PICK k \in 1..Len(book["Sell"]) : a = book["Sell"][k]
    BY <1>6, <2>1
  <2>3. a \in Ids /\ filled'[a] < orders[a].qty /\ orders[a].price \in Nat /\ orders[a].price \in levels["Sell"]
    BY <1>1, <1>6, <2>1, <2>2, RestingFacts
  <2>4. orders[a].price <= o.price /\ o.price \in Nat
    <3>1. orders'[New] = o /\ orders'[a] = orders[a]
      BY <1>1, <1>7, <2>3, OneMore DEF New
    <3>2. o.price \in Nat
      BY <2>1, InputFacts DEF Rests
    <3> QED
      BY <1>11, <2>3, <3>1, <3>2
  <2>5. orders[a].price \in Reach(o)
    <3>1. Effective(o) = "Limit" /\ Opposite(o.side) = "Sell"
      BY <2>1 DEF Rests, Opposite
    <3>2. \A q \in levels["Sell"] : q \in Nat
      BY <1>1, EngineAssumption DEF Base, BooksInOrder
    <3>3. \A q \in levels["Sell"] : q <= orders[a].price => q <= o.price
      BY <2>3, <2>4, <3>2
    <3> QED
      BY <2>1, <2>3, <3>1, <3>3 DEF Reach
  <2>6. Fills(o).filled[a] = orders[a].qty
    <3>1. ReachExhausted(o, Fills(o), Len(book["Sell"])) /\ Opposite(o.side) = "Sell" /\ Fills(o).left > 0
      BY <2>1, FillsFacts DEF AfterRounds, Opposite, Rests
    <3> QED
      BY <2>2, <2>5, <3>1 DEF ReachExhausted
  <2>7. filled'[a] = orders[a].qty /\ orders[a].qty \in Nat
    BY <1>1, <2>3, <2>6, TakeFills, OrderFacts
  <2> QED
    BY <2>3, <2>7
<1> QED
  BY <1>9, <1>10, <1>11

LEMMA StatusIsAgreement ==
  StatusMatchesExecutions <=> \A i \in Ids : Agrees(status[i], told[i], orders[i].qty)
BY DEF StatusMatchesExecutions, Agrees

(* The status of an order that nothing was sent on says nothing *)
LEMMA NoStatus == \A x, q : Agrees(None, x, q)
BY EngineAssumption DEF Agrees, Statuses

LEMMA TakeReports ==
  ASSUME Base, StatusMatchesExecutions, NEW o \in Inputs, Take(o)
  PROVE  ReportComplete' /\ StatusMatchesExecutions'
<1> DEFINE F == Fills(o)
           q == IF Killed(o) THEN 0 ELSE o.qty - F.left
<1>1. /\ TypeOK /\ orders' = Append(orders, o) /\ Len(orders') = New /\ orders'[New] = o
      /\ told' = Append(told, 0) /\ status' = Append(status, None)
  BY TakeFacts, OneMore DEF Base, New
<1>2. F \in Rounds /\ Booked(o, F) /\ F.left \in 0..o.qty /\ o.qty \in Nat
  BY FillsFacts, TakeFills, InputFacts DEF AfterRounds
<1>3. report' = [execs |-> IF Killed(o) THEN <<>> ELSE F.execs, status |-> StatusOf(o, F.left)]
  BY TakeFacts
<1>4. filled'[New] = q /\ told'[New] = 0 /\ q \in Nat
  <2>1. filled'[New] = q
    BY TakeFills
  <2>2. told'[New] = 0
    BY <1>1, NothingSent
  <2>3. q \in Nat
    BY <1>2
  <2> QED
    BY <2>1, <2>2, <2>3
<1>5. SumsTo(report'.execs, q - 0)
  <2>1. CASE Killed(o)
    BY <1>3, <2>1, SumEmpty
  <2>2. CASE ~ Killed(o)
    <3>1. q - 0 = o.qty - F.left /\ report'.execs = F.execs
      BY <1>2, <1>3, <2>2
    <3> QED
      BY <1>2, <3>1 DEF Booked
  <2> QED
    BY <2>1, <2>2
<1>6. Agrees(report'.status, q, o.qty)
  BY <1>2, <1>3, StatusFacts DEF Killed
<1>7. orders' # <<>> /\ status'[New] = None
  <2>1. New # 0
    BY <1>1, IdsFacts DEF New
  <2>2. orders' # <<>>
    BY <1>1, <2>1
  <2> QED
    BY <1>1, <2>2, NothingSent
<1>8. ReportComplete'
  BY <1>1, <1>4, <1>5, <1>6, <1>7 DEF ReportComplete
<1>9. StatusMatchesExecutions'
  <2>1. \A i \in Ids' : i \in Ids \/ i = New
    BY <1>1, OneMore DEF New
  <2>2. \A i \in Ids : orders'[i] = orders[i] /\ told'[i] = told[i] /\ status'[i] = status[i]
    BY <1>1, OneMore, NothingSent
  <2>3. status'[New] = None
    BY <1>1, NothingSent
  <2>4. \A i \in Ids' : Agrees(status'[i], told'[i], orders'[i].qty)
    BY <2>1, <2>2, <2>3, NoStatus, StatusIsAgreement
  <2> QED
    BY <2>4 DEF StatusMatchesExecutions, Agrees
<1> QED
  BY <1>8, <1>9

-----------------------------------------------------------------------------
(* The whole invariant *)
EngineIInv == Base /\ FillsBalance /\ OnlySellsCross /\ ReportComplete /\ StatusMatchesExecutions

LEMMA EngineInit == Init => EngineIInv
<1> SUFFICES ASSUME Init  PROVE EngineIInv
  OBVIOUS
<1>1. Ids = {} /\ Len(orders) = 0 /\ orders \in Seq(Inputs)
  BY DEF Init, Ids
<1>2. \A side \in Sides : book[side] = <<>> /\ levels[side] = {} /\ Range(book[side]) = {}
  <2>1. \A side \in Sides : book[side] = <<>> /\ levels[side] = {}
    BY DEF Init
  <2>2. Range(<<>>) = {}
    BY DEF Range
  <2> QED
    BY <2>1, <2>2
<1>3. filled \in [Ids -> Nat] /\ told \in [Ids -> Nat] /\ status \in [Ids -> Statuses \cup {None}]
  BY <1>1 DEF Init
<1>4. TypeOK
  BY <1>1, <1>2, <1>3, EngineAssumption DEF Init, TypeOK
<1>5. BooksInOrder
  <2>1. book \in [Sides -> Seq(Ids)] /\ levels \in [Sides -> SUBSET Prices]
    BY DEF Init
  <2> QED
    BY <1>2, <2>1 DEF BooksInOrder, InOrder
<1>6. FillsBalance
  <2> DEFINE N == Len(orders)
  <2>1. filled \in [1..Len(orders) -> Int] /\ Len(orders) \in Nat
    BY <1>1 DEF Init
  <2>2. \A side \in Sides : VolumeOf(orders, filled, side) = 0
    BY <2>1, VolumeValue, VolumeUnique, VolumeNothing DEF Init
  <2>3. \A side \in Sides : Volume(side) = VolumeOf(orders, filled, side)
    BY DEF Volume, VolumeOf
  <2> QED
    BY <2>2, <2>3 DEF FillsBalance, Init, Sides
<1>7. OnlySellsCross
  BY <1>2 DEF OnlySellsCross, Sides
<1>8. ReportComplete /\ StatusMatchesExecutions
  BY <1>1 DEF ReportComplete, StatusMatchesExecutions, Init
<1> QED
  BY <1>4, <1>5, <1>6, <1>7, <1>8 DEF EngineIInv, Base

LEMMA TakeStep ==
  ASSUME EngineIInv, NEW o \in Inputs, Take(o)
  PROVE  EngineIInv'
BY TakeTypes, TakeBooks, TakeBalance, TakeCrosses, TakeReports DEF EngineIInv, Base

(* An order that is rejected only has its id *)
LEMMA RejectStep ==
  ASSUME EngineIInv, NEW o \in Inputs, Reject(o)
  PROVE  EngineIInv'
<1>1. /\ Base /\ TypeOK /\ orders' = Append(orders, o) /\ filled' = Append(filled, 0)
      /\ told' = Append(told, 0) /\ status' = Append(status, None)
      /\ book' = book /\ levels' = levels /\ wasted' = wasted /\ price' = price
      /\ report' = None /\ report = None /\ faults' = faults
  BY DEF EngineIInv, Base, Reject
<1>2. /\ orders' \in Seq(Inputs) /\ orders'[New] = o /\ New \in Ids' /\ New \notin Ids
      /\ \A i \in Ids' : i \in Ids \/ i = New
      /\ \A i \in Ids : orders'[i] = orders[i] /\ i \in Ids'
  BY <1>1, OneMore DEF New
<1>3. Len(orders) \in Nat /\ Ids = 1..Len(orders) /\ Ids' = 1..(Len(orders) + 1) /\ orders \in Seq(Inputs)
      /\ Len(orders') = Len(orders) + 1
  BY <1>1, IdsFacts, OneMore DEF TypeOK
<1>4. filled' \in [Ids' -> Nat] /\ (\A i \in Ids : filled'[i] = filled[i]) /\ filled'[New] = 0
  <2> DEFINE N == Len(orders)
             S == Nat
  <2>1. N \in Nat /\ filled \in [1..N -> S] /\ 0 \in S
    BY <1>1, <1>3 DEF TypeOK
  <2> HIDE DEF N, S
  <2>2. /\ Append(filled, 0) \in [1..(N + 1) -> S] /\ \A i \in 1..N : Append(filled, 0)[i] = filled[i]
        /\ Append(filled, 0)[N + 1] = 0
    BY <2>1, AppendFcn
  <2> QED
    BY <1>1, <1>3, <2>2 DEF N, S, New
<1>5. /\ told' \in [Ids' -> Nat] /\ status' \in [Ids' -> Statuses \cup {None}] /\ status'[New] = None
      /\ \A i \in Ids : told'[i] = told[i] /\ status'[i] = status[i]
  BY <1>1, NothingSent
<1>6. \A side \in Sides : \A i \in Range(book[side]) : i \in Ids
  <2>1. \A side \in Sides : book[side] \in Seq(Ids)
    BY <1>1 DEF Base, BooksInOrder
  <2> QED
    BY <2>1, LenProperties DEF Range
<1>7. TypeOK'
  <2>1. \A i \in Ids' : filled'[i] <= orders'[i].qty
    <3> SUFFICES ASSUME NEW i \in Ids'  PROVE filled'[i] <= orders'[i].qty
      OBVIOUS
    <3>1. CASE i \in Ids
      BY <1>1, <1>2, <1>4, <3>1 DEF TypeOK
    <3>2. CASE i = New
      BY <1>2, <1>4, <3>2, InputFacts
    <3> QED
      BY <1>2, <3>1, <3>2
  <2>2. \A side \in Sides : \A i \in Range(book'[side]) :
          /\ orders'[i].side = side /\ orders'[i].type \in {"Limit", "StopLimit"} /\ Left(i)' > 0
          /\ orders'[i].price \in levels'[side]
    <3> SUFFICES ASSUME NEW side \in Sides, NEW i \in Range(book[side])
                 PROVE  /\ orders'[i].side = side /\ orders'[i].type \in {"Limit", "StopLimit"}
                        /\ Left(i)' > 0 /\ orders'[i].price \in levels'[side]
      BY <1>1
    <3>1. i \in Ids /\ orders'[i] = orders[i] /\ filled'[i] = filled[i]
      BY <1>2, <1>4, <1>6
    <3>2. Left(i)' = Left(i)
      BY <3>1 DEF Left
    <3> QED
      BY <1>1, <3>1, <3>2 DEF TypeOK
  <2> QED
    BY <1>1, <1>2, <1>4, <1>5, <2>1, <2>2 DEF TypeOK
<1>8. BooksInOrder'
  <2>1. \A side \in Sides : book[side] \in Seq(Ids) /\ InOrder(book[side], orders)
    BY <1>1 DEF Base, BooksInOrder
  <2>2. \A side \in Sides : book'[side] \in Seq(Ids') /\ InOrder(book'[side], orders')
    BY <1>1, <2>1, SameOrder
  <2> QED
    BY <1>1, <2>2 DEF Base, BooksInOrder
<1>9. FillsBalance'
  <2> DEFINE v(side) == VolumeOf(orders, filled, side)
             w(side) == VolumeOf(orders', filled', side)
  <2>1. filled \in [1..Len(orders) -> Int] /\ filled' \in [1..Len(orders') -> Int] /\ Len(orders') \in Nat
    BY <1>1, <1>3, <1>4 DEF TypeOK
  <2>2. ASSUME NEW side \in Sides  PROVE w(side) = v(side)
    <3>1. v(side) \in Int /\ VolumeIs(orders, filled, side, v(side))
      BY <1>3, <2>1, VolumeValue
    <3>2. VolumeIs(orders', filled', side, w(side))
      BY <2>1, VolumeValue
    <3> HIDE DEF v, w
    <3>3. VolumeIs(orders', filled', side, IF o.side = side THEN v(side) + 0 ELSE v(side))
      <4> DEFINE x == v(side)
                 q == 0
      <4>1. q \in Int /\ x \in Int /\ VolumeIs(orders, filled, side, x)
        BY <3>1
      <4> HIDE DEF x, q
      <4>2. VolumeIs(Append(orders, o), Append(filled, q), side, IF o.side = side THEN x + q ELSE x)
        BY <1>3, <2>1, <4>1, VolumeAppend
      <4> QED
        BY <1>1, <4>2 DEF x, q
    <3>4. w(side) = IF o.side = side THEN v(side) + 0 ELSE v(side)
      BY <2>1, <3>2, <3>3, VolumeUnique
    <3> QED
      BY <3>1, <3>4
  <2>3. \A side \in Sides : Volume(side) = v(side) /\ Volume(side)' = w(side)
    BY DEF Volume, VolumeOf
  <2> HIDE DEF v, w
  <2> QED
    BY <1>1, <2>2, <2>3 DEF EngineIInv, FillsBalance, Sides
<1>10. OnlySellsCross'
  BY <1>1, <1>2, <1>6 DEF EngineIInv, OnlySellsCross, Sides
<1>11. ReportComplete'
  BY <1>1 DEF ReportComplete
<1>12. StatusMatchesExecutions'
  <2>1. \A i \in Ids' : Agrees(status'[i], told'[i], orders'[i].qty)
    BY <1>2, <1>5, NoStatus, StatusIsAgreement DEF EngineIInv
  <2> QED
    BY <2>1 DEF StatusMatchesExecutions, Agrees
<1> QED
  BY <1>7, <1>8, <1>9, <1>10, <1>11, <1>12 DEF EngineIInv, Base

(* What is sent does not touch the books *)
LEMMA BooksStay ==
  ASSUME EngineIInv, UNCHANGED engine
  PROVE  BooksInOrder' /\ FillsBalance' /\ OnlySellsCross' /\ Ids' = Ids
<1>1. orders' = orders /\ filled' = filled /\ book' = book /\ levels' = levels /\ wasted' = wasted
  BY DEF engine
<1>2. Ids' = Ids /\ \A side \in Sides : Volume(side)' = Volume(side)
  BY <1>1 DEF Ids, Volume
<1> QED
  BY <1>1, <1>2 DEF EngineIInv, Base, BooksInOrder, FillsBalance, OnlySellsCross, Sides

LEMMA TypesStay ==
  ASSUME TypeOK, UNCHANGED engine, price' \in Prices \cup {None},
         report' = None \/ report' \in [execs : Seq(Nat \ {0}), status : Statuses],
         told' \in [Ids -> Nat], status' \in [Ids -> Statuses \cup {None}], faults' \in 0..MaxFaults
  PROVE  TypeOK'
<1>1. orders' = orders /\ filled' = filled /\ book' = book /\ levels' = levels /\ wasted' = wasted
  BY DEF engine
<1>2. Ids' = Ids /\ \A i : Left(i)' = Left(i)
  BY <1>1 DEF Ids, Left
<1> QED
  BY <1>1, <1>2 DEF TypeOK

LEMMA LastOrder ==
  ASSUME TypeOK, ReportComplete, report # None
  PROVE  /\ Len(orders) \in Ids /\ report \in [execs : Seq(Nat \ {0}), status : Statuses]
         /\ filled[Len(orders)] \in Nat /\ told[Len(orders)] \in Nat
         /\ status[Len(orders)] = None
         /\ SumsTo(report.execs, filled[Len(orders)] - told[Len(orders)])
         /\ Agrees(report.status, filled[Len(orders)], orders[Len(orders)].qty)
<1>1. orders \in Seq(Inputs) /\ orders # <<>>
  BY DEF TypeOK, ReportComplete
<1>2. Len(orders) \in Nat \ {0} /\ Len(orders) \in Ids
  BY <1>1, EmptySeq, IdsFacts
<1> QED
  BY <1>2 DEF TypeOK, ReportComplete

LEMMA SendExecutionStep ==
  ASSUME EngineIInv, SendExecution
  PROVE  EngineIInv'
<1> DEFINE n == Len(orders)
           h == Head(report.execs)
<1>1. /\ TypeOK /\ ReportComplete /\ StatusMatchesExecutions /\ report # None /\ report.execs # <<>>
      /\ told' = [told EXCEPT ![n] = @ + h] /\ report' = [report EXCEPT !.execs = Tail(@)]
      /\ UNCHANGED engine /\ price' = price /\ status' = status /\ faults' = faults
  BY DEF EngineIInv, Base, SendExecution
<1>2. /\ n \in Ids /\ report \in [execs : Seq(Nat \ {0}), status : Statuses]
      /\ filled[n] \in Nat /\ told[n] \in Nat /\ status[n] = None
      /\ SumsTo(report.execs, filled[n] - told[n])
      /\ Agrees(report.status, filled[n], orders[n].qty)
  BY <1>1, LastOrder
<1>3. orders' = orders /\ filled' = filled /\ Ids' = Ids
  BY <1>1, BooksStay DEF engine
<1>4. report.execs \in Seq(Nat \ {0}) /\ report.status \in Statuses /\ h \in Nat
  BY <1>1, <1>2
<1>5. /\ Tail(report.execs) \in Seq(Nat \ {0}) /\ report'.execs = Tail(report.execs)
      /\ report'.status = report.status /\ report' \in [execs : Seq(Nat \ {0}), status : Statuses]
  <2>1. Tail(report.execs) \in Seq(Nat \ {0})
    BY <1>1, <1>4, HeadTailProperties
  <2>2. report' = [execs |-> Tail(report.execs), status |-> report.status]
    BY <1>1, <1>2
  <2> QED
    BY <1>4, <2>1, <2>2
<1> HIDE DEF h
<1>6. told' \in [Ids -> Nat] /\ told'[n] = told[n] + h /\ \A i \in Ids : i # n => told'[i] = told[i]
  BY <1>1, <1>2, <1>4 DEF TypeOK
<1>7. TypeOK'
  BY <1>1, <1>5, <1>6, TypesStay DEF TypeOK
<1>8. SumsTo(Tail(report.execs), filled[n] - told'[n])
  <2>1. report.execs \in Seq(Int) /\ filled[n] - told[n] \in Int
    BY <1>2, <1>4, SeqMonotonic
  <2>2. SumsTo(Tail(report.execs), (filled[n] - told[n]) - h)
    BY <1>1, <1>2, <2>1, SumTail DEF h
  <2>3. (filled[n] - told[n]) - h = filled[n] - told'[n]
    BY <1>2, <1>4, <1>6
  <2> QED
    BY <2>2, <2>3
<1>9. ReportComplete'
  BY <1>1, <1>2, <1>3, <1>5, <1>8 DEF ReportComplete
<1>10. StatusMatchesExecutions'
  <2>1. \A i \in Ids : Agrees(status[i], told'[i], orders[i].qty)
    BY <1>1, <1>2, <1>6, NoStatus, StatusIsAgreement
  <2> QED
    BY <1>1, <1>3, <2>1 DEF StatusMatchesExecutions, Agrees
<1> QED
  BY <1>1, <1>7, <1>9, <1>10, BooksStay DEF EngineIInv, Base

LEMMA SendStatusStep ==
  ASSUME EngineIInv, SendStatus
  PROVE  EngineIInv'
<1> DEFINE n == Len(orders)
<1>1. /\ TypeOK /\ ReportComplete /\ StatusMatchesExecutions /\ report # None /\ report.execs = <<>>
      /\ status' = [status EXCEPT ![n] = report.status] /\ report' = None
      /\ UNCHANGED engine /\ price' = price /\ told' = told /\ faults' = faults
  BY DEF EngineIInv, Base, SendStatus
<1>2. /\ n \in Ids /\ report \in [execs : Seq(Nat \ {0}), status : Statuses]
      /\ filled[n] \in Nat /\ told[n] \in Nat
      /\ SumsTo(report.execs, filled[n] - told[n])
      /\ Agrees(report.status, filled[n], orders[n].qty)
  BY <1>1, LastOrder
<1>3. orders' = orders /\ Ids' = Ids
  BY <1>1, BooksStay DEF engine
<1>4. filled[n] = told[n]
  <2>1. filled[n] - told[n] = 0
    BY <1>1, <1>2, SumEmpty
  <2> QED
    BY <1>2, <2>1
<1>5. status' \in [Ids -> Statuses \cup {None}] /\ status'[n] = report.status
      /\ \A i \in Ids : i # n => status'[i] = status[i]
  BY <1>1, <1>2 DEF TypeOK
<1>6. TypeOK'
  BY <1>1, <1>5, TypesStay DEF TypeOK
<1>7. StatusMatchesExecutions'
  <2>1. \A i \in Ids : Agrees(status'[i], told[i], orders[i].qty)
    BY <1>1, <1>2, <1>4, <1>5, StatusIsAgreement
  <2> QED
    BY <1>1, <1>3, <2>1 DEF StatusMatchesExecutions, Agrees
<1> QED
  BY <1>1, <1>6, <1>7, BooksStay DEF EngineIInv, Base, ReportComplete

LEMMA OtherSteps ==
  ASSUME EngineIInv, SendFails \/ UpdateMarketPrice \/ UNCHANGED vars
  PROVE  EngineIInv'
<1>1. /\ TypeOK /\ ReportComplete /\ StatusMatchesExecutions /\ UNCHANGED engine
      /\ told' = told /\ status' = status
      /\ report' = report \/ report' = None
      /\ price' = price \/ price' \in MarketPrices
      /\ faults' = faults \/ (faults < MaxFaults /\ faults' = faults + 1)
  BY DEF EngineIInv, Base, SendFails, UpdateMarketPrice, vars, reports
<1>2. faults' \in 0..MaxFaults /\ price' \in Prices \cup {None}
  <2>1. faults \in 0..MaxFaults /\ MaxFaults \in Nat
    BY <1>1, EngineAssumption DEF TypeOK
  <2>2. faults' \in 0..MaxFaults
    BY <1>1, <2>1
  <2>3. price' \in Prices \cup {None}
    BY <1>1, EngineAssumption DEF TypeOK
  <2> QED
    BY <2>2, <2>3
<1>3. TypeOK'
  BY <1>1, <1>2, TypesStay DEF TypeOK
<1>4. orders' = orders /\ filled' = filled /\ Ids' = Ids
  BY <1>1, BooksStay DEF engine
<1>5. ReportComplete' /\ StatusMatchesExecutions'
  BY <1>1, <1>4 DEF ReportComplete, StatusMatchesExecutions
<1> QED
  BY <1>1, <1>3, <1>5, BooksStay DEF EngineIInv, Base

LEMMA EngineStep == EngineIInv /\ [Next]_vars => EngineIInv'
BY TakeStep, RejectStep, SendExecutionStep, SendStatusStep, OtherSteps, SMTT(30) DEF Next

(* Whoever is filled by a match was first in turn *)
LEMMA PriorityStep ==
  ASSUME Base, Next, NEW side \in Sides, NEW i \in Range(book[side]), NEW j \in Range(book[side]),
         filled'[j] > filled[j],
         \/ orders[i].price = orders[j].price /\ i < j
         \/ orders[i].price < orders[j].price /\ side = "Sell"
  PROVE  filled'[i] = orders[i].qty
<1>1. TypeOK /\ book[side] \in Seq(Ids) /\ InOrder(book[side], orders) /\ levels[side] \subseteq Nat
  BY EngineAssumption DEF Base, BooksInOrder
<1>2. PICK m \in 1..Len(book[side]) : i = book[side][m]
  BY <1>1, LenProperties DEF Range
<1>3. PICK k \in 1..Len(book[side]) : j = book[side][k]
  BY <1>1, LenProperties DEF Range
<1>4. /\ i \in Ids /\ j \in Ids /\ orders[i].price \in levels[side] /\ orders[j].price \in levels[side]
      /\ orders[i].price \in Nat /\ orders[j].price \in Nat /\ filled[j] \in Nat
  BY <1>1, <1>2, <1>3, RestingFacts, OrderFacts
<1>5. PICK o \in Inputs : Take(o)
  <2>1. ~ (filled' = filled)
    BY <1>4
  <2>2. ASSUME NEW o \in Inputs, Reject(o)  PROVE FALSE
    <3>1. filled' = Append(filled, 0) /\ filled \in Seq(Nat) /\ j \in 1..Len(filled)
      <4>1. filled \in [1..Len(orders) -> Nat] /\ Len(orders) \in Nat /\ j \in 1..Len(orders)
        BY <1>1, <1>4, IdsFacts DEF TypeOK
      <4>2. filled \in Seq(Nat) /\ Len(filled) = Len(orders)
        BY <4>1, SeqDef, SMTT(30)
      <4> QED
        BY <2>2, <4>1, <4>2 DEF Reject
    <3>2. filled'[j] = filled[j]
      BY <3>1, AppendProperties
    <3> QED
      BY <1>4, <3>2
  <2> QED
    BY <2>1, <2>2 DEF Next, SendExecution, SendStatus, SendFails, UpdateMarketPrice, engine
<1>6. side = Opposite(o.side)
  <2>1. side # o.side
    BY <1>3, <1>4, <1>5, TakeFills, SMTT(30)
  <2> QED
    BY <2>1, InputFacts DEF Sides, Opposite
<1>7. m < k
  <2>1. Len(book[side]) \in Nat /\ i \in Nat /\ j \in Nat
    BY <1>1, <1>4, LenProperties, IdsFacts
  <2>2. i # j /\ ~ Ahead(orders, j, i)
    BY <1>4, <2>1 DEF Ahead
  <2> QED
    BY <1>1, <1>2, <1>3, <2>1, <2>2 DEF InOrder
<1>8. AfterRounds(o, Fills(o), Len(book[side]))
  BY <1>6, FillsFacts
<1>9. filled'[i] = Fills(o).filled[i] /\ filled'[j] = Fills(o).filled[j]
  BY <1>4, <1>5, TakeFills
<1>11. orders[j].price \in Reach(o)
  BY <1>3, <1>6, <1>8, <1>9 DEF AfterRounds, WithinReach
<1>10. orders[i].price \in Reach(o)
  <2>1. \A p, q \in levels[side] : p <= q /\ q \in Reach(o) => p \in Reach(o)
    BY <1>1, <1>6 DEF Reach
  <2> QED
    BY <1>4, <1>11, <2>1
<1> QED
  BY <1>2, <1>3, <1>6, <1>7, <1>8, <1>9, <1>10 DEF AfterRounds, InTurn

-----------------------------------------------------------------------------
(* The books of the matching engine, for any orders of any type: the       *)
(* orders in them are unfilled and stand at their levels, what buyers and  *)
(* sellers are filled by differs only by what killed FOK orders took, and  *)
(* match_limit_order never leaves a buy across an earlier ask.             *)
THEOREM EngineInvariant == Spec => []EngineInv
<1>1. EngineIInv => EngineInv
  BY DEF EngineIInv, Base, EngineInv
<1> QED
  BY <1>1, EngineInit, EngineStep, PTL DEF Spec

(* The status that OrderProcessor sends last agrees with the executions it *)
(* sent before, wherever a failed send cuts the reports of an order short. *)
THEOREM EngineReports == Spec => []StatusMatchesExecutions
<1>1. EngineIInv => StatusMatchesExecutions
  BY DEF EngineIInv
<1> QED
  BY <1>1, EngineInit, EngineStep, PTL DEF Spec

(* The loops of match_market_order and match_limit_order fill in order of  *)
(* arrival within a level and asks by price.                               *)
THEOREM EnginePriority == Spec => FillsByPriority
<1> DEFINE Prior ==
      \A side \in Sides : \A i, j \in Range(book[side]) :
        /\ filled'[j] > filled[j]
        /\ \/ orders[i].price = orders[j].price /\ i < j
           \/ orders[i].price < orders[j].price /\ side = "Sell"
        => filled'[i] = orders[i].qty
<1>1. EngineIInv /\ [Next]_vars => [Prior]_vars
  BY PriorityStep DEF EngineIInv
<1> QED
  BY <1>1, EngineInit, EngineStep, PTL DEF Spec, FillsByPriority
-----------------------------------------------------------------------------
(* The trading competition.  Entries and trades with ids up to n *)
EntriesTo(n) ==
  [price : Int, qty : Nat \ {0}, trader : Traders, kind : {"quote", "order"}, id : 1..n]
TradesTo(n) == [price : Int, qty : Nat \ {0}, id : 1..n, buyer : Traders, seller : Traders]

(* An entry that was filled in part is still the same *)
Same(e, f) == e.price = f.price /\ e.trader = f.trader /\ e.kind = f.kind /\ e.id = f.id

(* A side of the book is in order of price and arrival, and each trader has *)
(* an entry of a kind at most once                                          *)
Precedes(side, e, f) == Better(side, e, f) \/ (e.price = f.price /\ e.id < f.id)
Sorted(side, s) == \A m, n \in 1..Len(s) : m < n => Precedes(side, s[m], s[n])
Differ(e, f) == e.id # f.id /\ (e.trader # f.trader \/ e.kind # f.kind)
AllDiffer(s) == \A m, n \in 1..Len(s) : m # n => Differ(s[m], s[n])

(* r is made of some of the first n entries of s, in their order *)
PartOf(r, s, n) ==
  /\ \A k \in 1..Len(r) : \E i \in 1..n : Same(r[k], s[i])
  /\ \A k, l \in 1..Len(r) :
       k < l => \E i, j \in 1..n : i < j /\ Same(r[k], s[i]) /\ Same(r[l], s[j])

LEMMA PartStays ==
  ASSUME NEW n \in Nat \ {0}, NEW r, NEW s, PartOf(r, s, n - 1)
  PROVE  PartOf(r, s, n)
<1>1. \A i \in 1..(n - 1) : i \in 1..n
  OBVIOUS
<1> QED
  BY <1>1 DEF PartOf

LEMMA PartAppend ==
  ASSUME NEW n \in Nat \ {0}, NEW S, NEW r \in Seq(S), NEW s, PartOf(r, s, n - 1),
         NEW e \in S, Same(e, s[n])
  PROVE  PartOf(Append(r, e), s, n)
<1> DEFINE t == Append(r, e)
           N == Len(r)
<1>1. N \in Nat /\ Len(t) = N + 1 /\ t[N + 1] = e /\ \A k \in 1..N : t[k] = r[k]
  BY AppendProperties, LenProperties
<1>2. n \in 1..n /\ \A i \in 1..(n - 1) : i \in 1..n /\ i < n
  OBVIOUS
<1> HIDE DEF t, N
<1>3. ASSUME NEW k \in 1..Len(t)  PROVE \E i \in 1..n : Same(t[k], s[i])
  <2>1. CASE k = N + 1
    BY <1>1, <1>2, <2>1
  <2>2. CASE k \in 1..N
    BY <1>1, <1>2, <2>2 DEF PartOf, N
  <2> QED
    BY <1>1, <2>1, <2>2
<1>4. ASSUME NEW k \in 1..Len(t), NEW l \in 1..Len(t), k < l
      PROVE  \E i, j \in 1..n : i < j /\ Same(t[k], s[i]) /\ Same(t[l], s[j])
  <2>1. CASE l = N + 1
    <3>1. k \in 1..N
      BY <1>1, <1>4, <2>1
    <3>2. PICK i \in 1..(n - 1) : Same(r[k], s[i])
      BY <3>1 DEF PartOf, N
    <3>3. i \in 1..n /\ n \in 1..n /\ i < n /\ Same(t[k], s[i]) /\ Same(t[l], s[n])
      BY <1>1, <1>2, <2>1, <3>1, <3>2
    <3> QED
      BY <3>3
  <2>2. CASE l \in 1..N
    <3>1. k \in 1..N
      BY <1>1, <1>4, <2>2
    <3>2. PICK i \in 1..(n - 1), j \in 1..(n - 1) : i < j /\ Same(r[k], s[i]) /\ Same(r[l], s[j])
      BY <1>4, <2>2, <3>1 DEF PartOf, N
    <3> QED
      BY <1>1, <1>2, <2>2, <3>1, <3>2
  <2> QED
    BY <1>1, <2>1, <2>2
<1>5. PartOf(t, s, n)
  BY <1>3, <1>4 DEF PartOf
<1> QED
  BY <1>5 DEF t

LEMMA PartSorted ==
  ASSUME NEW side, NEW r, NEW s, Len(r) \in Nat, Len(s) \in Nat, PartOf(r, s, Len(s)),
         Sorted(side, s), AllDiffer(s)
  PROVE  Sorted(side, r) /\ AllDiffer(r)
<1>1. ASSUME NEW k \in 1..Len(r), NEW l \in 1..Len(r), k < l
      PROVE  Precedes(side, r[k], r[l]) /\ Differ(r[k], r[l]) /\ Differ(r[l], r[k])
  <2>1. PICK i \in 1..Len(s), j \in 1..Len(s) : i < j /\ Same(r[k], s[i]) /\ Same(r[l], s[j])
    BY <1>1 DEF PartOf
  <2>2. Precedes(side, s[i], s[j]) /\ Differ(s[i], s[j])
    BY <2>1 DEF Sorted, AllDiffer
  <2> QED
    BY <2>1, <2>2 DEF Same, Precedes, Better, Differ
<1>2. ASSUME NEW k \in 1..Len(r), NEW l \in 1..Len(r), k # l  PROVE k < l \/ l < k
  BY <1>2
<1> QED
  BY <1>1, <1>2 DEF Sorted, AllDiffer

LEMMA EntryFacts ==
  ASSUME NEW N \in Nat, NEW s \in Seq(EntriesTo(N)), NEW k \in 1..Len(s)
  PROVE  /\ s[k] \in EntriesTo(N) /\ s[k].price \in Int /\ s[k].qty \in Nat \ {0}
         /\ s[k].trader \in Traders /\ s[k].kind \in {"quote", "order"} /\ s[k].id \in 1..N
<1>1. s[k] \in EntriesTo(N)
  BY ElementOfSeq
<1> QED
  BY <1>1 DEF EntriesTo

LEMMA MoreEntries ==
  ASSUME NEW M \in Nat, NEW N \in Nat, M <= N
  PROVE  EntriesTo(M) \subseteq EntriesTo(N) /\ \A s \in Seq(EntriesTo(M)) : s \in Seq(EntriesTo(N))
<1>1. 1..M \subseteq 1..N
  OBVIOUS
<1>2. EntriesTo(M) \subseteq EntriesTo(N)
  BY <1>1 DEF EntriesTo
<1> QED
  BY <1>2, SeqMonotonic

-----------------------------------------------------------------------------
(* An entry is placed *)
LEMMA PlaceAtFacts ==
  ASSUME NEW side \in Sides, NEW N \in Nat, NEW s \in Seq(EntriesTo(N)), Sorted(side, s),
         NEW e, e.price \in Int
  PROVE  /\ PlaceAt(side, s, e) \in 1..(Len(s) + 1)
         /\ \A n \in 1..Len(s) : n < PlaceAt(side, s, e) <=> ~ Better(side, e, s[n])
<1> DEFINE L == Len(s)
           Is(k) == \A n \in DOMAIN s : n < k <=> ~ Better(side, e, s[n])
           T == {k \in 1..(L + 1) : \A n \in k..L : Better(side, e, s[n])}
<1>1. L \in Nat /\ DOMAIN s = 1..L
  BY LenProperties
<1>2. \A n \in 1..L : s[n].price \in Int
  BY EntryFacts
<1>3. PICK k \in T : \A l \in T : k <= l
  <2>1. T \in SUBSET Nat /\ L + 1 \in T
    BY <1>1
  <2> HIDE DEF T
  <2> QED
    BY <2>1, LeastNumber
<1>4. ASSUME NEW n \in 1..L  PROVE n < k <=> ~ Better(side, e, s[n])
  <2>1. CASE n >= k
    BY <1>1, <1>2, <1>3, <2>1
  <2>2. CASE n < k /\ Better(side, e, s[n])
    <3>1. ASSUME NEW m \in n..L  PROVE Better(side, e, s[m])
      <4>1. m \in 1..L /\ (m = n \/ Precedes(side, s[n], s[m]))
        BY <1>1, <3>1 DEF Sorted
      <4>2. s[n].price \in Int /\ s[m].price \in Int
        BY <1>2, <4>1
      <4> QED
        BY <2>2, <4>1, <4>2 DEF Precedes, Better
    <3>2. n \in T
      BY <1>1, <2>2, <3>1
    <3> QED
      BY <1>1, <1>3, <2>2, <3>2
  <2> QED
    BY <1>1, <1>3, <2>1, <2>2
<1>5. k \in 1..(L + 1) /\ Is(k)
  BY <1>1, <1>3, <1>4
<1>6. PlaceAt(side, s, e) = CHOOSE l \in 1..(L + 1) : Is(l)
  BY DEF PlaceAt
<1>7. PlaceAt(side, s, e) \in 1..(L + 1) /\ Is(PlaceAt(side, s, e))
  <2> HIDE DEF Is
  <2> QED
    BY <1>5, <1>6
<1> QED
  BY <1>1, <1>7

LEMMA PlaceFacts ==
  ASSUME NEW side \in Sides, NEW M \in Nat, NEW N \in Nat, M <= N,
         NEW s \in Seq(EntriesTo(M)), Sorted(side, s), AllDiffer(s),
         NEW e \in EntriesTo(N), e.id > M,
         \A k \in 1..Len(s) : s[k].trader # e.trader \/ s[k].kind # e.kind
  PROVE  LET r == Place(side, s, e)
         IN  /\ r \in Seq(EntriesTo(N)) /\ Sorted(side, r) /\ AllDiffer(r)
             /\ \A k \in 1..Len(r) : r[k] = e \/ \E i \in 1..Len(s) : r[k] = s[i]
<1> DEFINE L == Len(s)
           k == PlaceAt(side, s, e)
           r == Place(side, s, e)
<1>1. s \in Seq(EntriesTo(N)) /\ L \in Nat
  BY MoreEntries, LenProperties
<1>2. e.price \in Int /\ e.id \in Int
  BY DEF EntriesTo
<1>3. k \in 1..(L + 1) /\ \A n \in 1..L : n < k <=> ~ Better(side, e, s[n])
  BY <1>2, PlaceAtFacts
<1>4. \A n \in 1..L : s[n].price \in Int /\ s[n].id \in Int /\ s[n].id < e.id
  BY <1>2, EntryFacts
<1>5. r = InsertAt(s, k, e)
  BY DEF Place
<1> HIDE DEF L, k, r
<1>6. /\ r \in Seq(EntriesTo(N)) /\ Len(r) = L + 1
      /\ \A n \in 1..(L + 1) : r[n] = IF n < k THEN s[n] ELSE IF n = k THEN e ELSE s[n - 1]
  <2> DEFINE S == EntriesTo(N)
  <2>1. s \in Seq(S) /\ e \in S /\ k \in 1..(Len(s) + 1)
    BY <1>1, <1>3 DEF L
  <2> HIDE DEF S
  <2>2. IsInserted(r, s, k, e, S)
    BY <1>5, <2>1, Inserted
  <2> QED
    BY <2>2 DEF IsInserted, L, S
<1>7. \A n \in 1..L : /\ IF n < k THEN Precedes(side, s[n], e) ELSE Precedes(side, e, s[n])
                      /\ Differ(s[n], e) /\ Differ(e, s[n])
  <2> SUFFICES ASSUME NEW n \in 1..L
               PROVE  /\ IF n < k THEN Precedes(side, s[n], e) ELSE Precedes(side, e, s[n])
                      /\ Differ(s[n], e) /\ Differ(e, s[n])
    OBVIOUS
  <2>1. s[n].price \in Int /\ s[n].id \in Int /\ s[n].id < e.id /\ (n < k <=> ~ Better(side, e, s[n]))
    BY <1>3, <1>4
  <2>2. s[n].trader # e.trader \/ s[n].kind # e.kind
    BY DEF L
  <2>3. IF n < k THEN Precedes(side, s[n], e) ELSE Precedes(side, e, s[n])
    BY <1>2, <2>1 DEF Precedes, Better
  <2>4. Differ(s[n], e) /\ Differ(e, s[n])
    BY <1>2, <2>1, <2>2 DEF Differ
  <2> QED
    BY <2>3, <2>4
<1> DEFINE old(l) == IF l < k THEN l ELSE l - 1
<1>8. \A l \in 1..(L + 1) : l # k => old(l) \in 1..L /\ r[l] = s[old(l)] /\ (old(l) < k <=> l < k)
  BY <1>1, <1>3, <1>6
<1>9. r[k] = e
  BY <1>3, <1>6
<1>10. \A m, n \in 1..(L + 1) : m < n /\ m # k /\ n # k => old(m) < old(n)
  BY <1>1, <1>3
<1> HIDE DEF old
<1>11. ASSUME NEW m \in 1..(L + 1), NEW n \in 1..(L + 1), m < n
       PROVE  Precedes(side, r[m], r[n]) /\ Differ(r[m], r[n]) /\ Differ(r[n], r[m])
  <2>1. CASE m # k /\ n # k
    <3>1. old(m) \in 1..L /\ old(n) \in 1..L /\ old(m) < old(n) /\ old(m) # old(n)
      BY <1>1, <1>8, <1>10, <1>11, <2>1
    <3>2. Precedes(side, s[old(m)], s[old(n)]) /\ Differ(s[old(m)], s[old(n)])
          /\ Differ(s[old(n)], s[old(m)])
      BY <3>1 DEF Sorted, AllDiffer, L
    <3> QED
      BY <1>8, <2>1, <3>2
  <2>2. CASE m = k
    <3>1. n # k /\ ~ (n < k)
      BY <1>1, <1>3, <1>11, <2>2
    <3> QED
      BY <1>7, <1>8, <1>9, <2>2, <3>1
  <2>3. CASE n = k
    <3>1. m # k /\ m < k
      BY <1>1, <1>3, <1>11, <2>3
    <3> QED
      BY <1>7, <1>8, <1>9, <2>3, <3>1
  <2> QED
    BY <2>1, <2>2, <2>3
<1>12. Sorted(side, r)
  BY <1>6, <1>11 DEF Sorted
<1>13. AllDiffer(r)
  <2>1. \A m, n \in 1..(L + 1) : m # n => m < n \/ n < m
    OBVIOUS
  <2> QED
    BY <1>6, <1>11, <2>1 DEF AllDiffer
<1>14. ASSUME NEW n \in 1..Len(r)  PROVE r[n] = e \/ \E i \in 1..Len(s) : r[n] = s[i]
  BY <1>6, <1>8, <1>9 DEF L
<1> QED
  BY <1>6, <1>12, <1>13, <1>14 DEF r
-----------------------------------------------------------------------------
(* The entries of the others *)
KeepOne(acc, e, t) == IF e.trader = t THEN acc ELSE Append(acc, e)

LEMMA OthersRounds ==
  ASSUME NEW S, NEW s \in Seq(S), NEW t
  PROVE  \E g : /\ Others(s, t) = g[Len(s)] /\ g[0] = <<>>
                /\ \A n \in 1..Len(s) : g[n] = KeepOne(g[n - 1], s[n], t)
                /\ g \in [0..Len(s) -> Seq(S)]
<1> DEFINE N == Len(s)
           P(f) == f = [n \in 0..N |-> IF n = 0 THEN <<>>
                                       ELSE IF s[n].trader = t THEN f[n - 1] ELSE Append(f[n - 1], s[n])]
           g == CHOOSE f : P(f)
           step == [n \in 1..N |-> [acc \in Seq(S) |-> KeepOne(acc, s[n], t)]]
<1>1. Others(s, t) = g[N]
  BY DEF Others
<1>2. N \in Nat /\ \A n \in 1..N : s[n] \in S
  BY LenProperties, ElementOfSeq
<1>3. \A n \in 1..N : \A acc \in Seq(S) : KeepOne(acc, s[n], t) \in Seq(S)
  BY <1>2, AppendProperties DEF KeepOne
<1> HIDE DEF N
<1>4. step \in [1..N -> [Seq(S) -> Seq(S)]] /\ <<>> \in Seq(S)
  BY <1>3
<1>5. PICK f : Iterates(f, N, Seq(S), <<>>, step)
  <2> DEFINE Q == Seq(S)
  <2>1. step \in [1..N -> [Q -> Q]] /\ <<>> \in Q
    BY <1>4
  <2> HIDE DEF step, Q
  <2>2. \E f : Iterates(f, N, Q, <<>>, step)
    BY <1>2, <2>1, Recursion
  <2> QED
    BY <2>2 DEF Q
<1>6. P(f)
  <2>1. f = [n \in 0..N |-> f[n]]
    BY <1>5 DEF Iterates
  <2>2. \A n \in 1..N : n - 1 \in 0..N
    BY <1>2
  <2>3. \A n \in 1..N : f[n] = KeepOne(f[n - 1], s[n], t)
    BY <1>5, <2>2 DEF Iterates
  <2>4. \A n \in 0..N : f[n] = IF n = 0 THEN <<>>
                               ELSE IF s[n].trader = t THEN f[n - 1] ELSE Append(f[n - 1], s[n])
    <3>1. f[0] = <<>> /\ \A n \in 0..N : n = 0 \/ n \in 1..N
      BY <1>2, <1>5 DEF Iterates
    <3> QED
      BY <2>3, <3>1 DEF KeepOne
  <2> QED
    BY <2>1, <2>4
<1>7. P(g)
  <2> HIDE DEF P
  <2> QED
    BY <1>6
<1> HIDE DEF g
<1>8. g = [n \in 0..N |-> g[n]] /\ g[0] = <<>> /\ \A n \in 1..N : g[n] = KeepOne(g[n - 1], s[n], t)
  <2>1. g = [n \in 0..N |-> g[n]]
    BY <1>7
  <2>2. \A n \in 0..N : g[n] = IF n = 0 THEN <<>>
                               ELSE IF s[n].trader = t THEN g[n - 1] ELSE Append(g[n - 1], s[n])
    BY <1>7
  <2> QED
    BY <1>2, <2>1, <2>2, SMTT(30) DEF KeepOne
<1> DEFINE T == {n \in 0..N : g[n] \in Seq(S)}
<1>9. \A n \in 0..N : n \in T
  <2>1. 0 \in T /\ \A n \in 1..N : n - 1 \in T => n \in T
    BY <1>2, <1>3, <1>8
  <2> HIDE DEF T
  <2> QED
    BY <1>2, <2>1, Induction
<1>10. g \in [0..N -> Seq(S)]
  BY <1>8, <1>9
<1> QED
  BY <1>1, <1>8, <1>10 DEF N

LEMMA OthersFacts ==
  ASSUME NEW S, NEW s \in Seq(S), NEW t
  PROVE  LET r == Others(s, t)
         IN  r \in Seq(S) /\ PartOf(r, s, Len(s)) /\ \A k \in 1..Len(r) : r[k].trader # t
<1> DEFINE N == Len(s)
           Kept(r, n) == PartOf(r, s, n) /\ \A k \in 1..Len(r) : r[k].trader # t
<1>1. PICK g : /\ Others(s, t) = g[N] /\ g[0] = <<>>
               /\ \A n \in 1..N : g[n] = KeepOne(g[n - 1], s[n], t)
               /\ g \in [0..N -> Seq(S)]
  BY OthersRounds
<1>2. N \in Nat /\ \A n \in 1..N : s[n] \in S
  BY LenProperties, ElementOfSeq
<1> DEFINE T == {n \in 0..N : Kept(g[n], n)}
<1>3. 0 \in T
  BY <1>1, <1>2 DEF PartOf
<1>4. ASSUME NEW n \in 1..N, n - 1 \in T  PROVE n \in T
  <2>1. n - 1 \in 0..N /\ n \in Nat \ {0} /\ g[n - 1] \in Seq(S)
    BY <1>1, <1>2, SMTT(30)
  <2>2. Kept(g[n - 1], n - 1)
    BY <1>4
  <2>3. CASE s[n].trader = t
    <3>1. g[n] = g[n - 1]
      BY <1>1, <2>3 DEF KeepOne
    <3>2. PartOf(g[n], s, n)
      BY <2>1, <2>2, <3>1, PartStays
    <3> QED
      BY <2>2, <3>1, <3>2
  <2>4. CASE s[n].trader # t
    <3>1. g[n] = Append(g[n - 1], s[n])
      BY <1>1, <2>4 DEF KeepOne
    <3>2. PartOf(g[n], s, n)
      BY <1>2, <2>1, <2>2, <3>1, PartAppend DEF Same
    <3>3. Len(g[n]) = Len(g[n - 1]) + 1 /\ g[n][Len(g[n - 1]) + 1] = s[n]
          /\ \A k \in 1..Len(g[n - 1]) : g[n][k] = g[n - 1][k]
      BY <1>2, <2>1, <3>1, AppendProperties
    <3>4. Len(g[n - 1]) \in Nat
      BY <2>1, LenProperties
    <3>5. \A k \in 1..Len(g[n]) : g[n][k].trader # t
      <4>1. \A k \in 1..Len(g[n]) : k \in 1..Len(g[n - 1]) \/ k = Len(g[n - 1]) + 1
        BY <3>3, <3>4
      <4>2. \A k \in 1..Len(g[n - 1]) : g[n - 1][k].trader # t
        BY <2>2
      <4> HIDE DEF Kept, T
      <4> QED
        BY <2>4, <3>3, <4>1, <4>2
    <3> QED
      BY <3>2, <3>5
  <2> QED
    BY <2>3, <2>4
<1>5. \A n \in 0..N : n \in T
  <2> HIDE DEF T, N
  <2> QED
    BY <1>2, <1>3, <1>4, Induction
<1>6. Kept(g[N], N) /\ g[N] \in Seq(S)
  BY <1>1, <1>2, <1>5
<1> QED
  BY <1>1, <1>6
-----------------------------------------------------------------------------
(* One match.  What the loop of match_order has after every round: *)
Matches(N) == [left : Nat, trades : Seq(TradesTo(N)), rest : Seq(EntriesTo(N))]
Unmatched(o) == [left |-> o.qty, trades |-> <<>>, rest |-> <<>>]
IsOrder(o) == o.side \in Sides /\ o.trader \in Traders /\ o.price \in Int /\ o.qty \in Nat \ {0}

(* What the order takes of e, the trade, and what stays of e *)
TakenOf(o, acc, e) == IF acc.rest = <<>> /\ Crosses(o, e) THEN Least(acc.left, e.qty) ELSE 0
TradeOf(o, e, q) ==
  [price |-> e.price, qty |-> q, id |-> e.id,
   buyer |-> IF o.side = "Buy" THEN o.trader ELSE e.trader,
   seller |-> IF o.side = "Buy" THEN e.trader ELSE o.trader]
Reduced(e, q) == [e EXCEPT !.qty = @ - q]

IsMeeting(o, acc, e, q, r) ==
  /\ q \in Nat /\ q <= acc.left /\ q <= e.qty
  /\ r.left = acc.left - q
  /\ r.trades = IF q = 0 THEN acc.trades ELSE Append(acc.trades, TradeOf(o, e, q))
  /\ r.rest = IF q = e.qty THEN acc.rest ELSE Append(acc.rest, Reduced(e, q))

LEMMA MeetFacts ==
  ASSUME NEW N \in Nat, NEW o, IsOrder(o), NEW acc \in Matches(N), NEW e \in EntriesTo(N)
  PROVE  /\ IsMeeting(o, acc, e, TakenOf(o, acc, e), Meet(o, acc, e))
         /\ Meet(o, acc, e) \in Matches(N)
         /\ TakenOf(o, acc, e) # 0 => TradeOf(o, e, TakenOf(o, acc, e)) \in TradesTo(N)
         /\ TakenOf(o, acc, e) # e.qty => /\ Reduced(e, TakenOf(o, acc, e)) \in EntriesTo(N)
                                          /\ Same(Reduced(e, TakenOf(o, acc, e)), e)
<1> DEFINE q == TakenOf(o, acc, e)
           r == Meet(o, acc, e)
<1>1. acc.left \in Nat /\ acc.trades \in Seq(TradesTo(N)) /\ acc.rest \in Seq(EntriesTo(N))
  BY DEF Matches
<1>2. e.price \in Int /\ e.qty \in Nat \ {0} /\ e.trader \in Traders
      /\ e.kind \in {"quote", "order"} /\ e.id \in 1..N
  BY DEF EntriesTo
<1>3. q \in Nat /\ q <= acc.left /\ q <= e.qty
  BY <1>1, <1>2 DEF TakenOf, Least
<1>4. r = [left |-> acc.left - q,
           trades |-> IF q = 0 THEN acc.trades ELSE Append(acc.trades, TradeOf(o, e, q)),
           rest |-> IF q = e.qty THEN acc.rest ELSE Append(acc.rest, Reduced(e, q))]
  BY DEF Meet, TakenOf, TradeOf, Reduced
<1> HIDE DEF q, r
<1>5. ASSUME q # 0  PROVE TradeOf(o, e, q) \in TradesTo(N)
  <2>1. q \in Nat \ {0}
    BY <1>3, <1>5
  <2> QED
    BY <1>2, <2>1 DEF TradeOf, TradesTo, IsOrder
<1>6. ASSUME q # e.qty  PROVE Reduced(e, q) \in EntriesTo(N) /\ Same(Reduced(e, q), e)
  <2>1. e.qty - q \in Nat \ {0}
    BY <1>2, <1>3, <1>6
  <2> QED
    BY <1>2, <2>1 DEF Reduced, EntriesTo, Same
<1>7. acc.left - q \in Nat
  BY <1>1, <1>3
<1>8. (IF q = 0 THEN acc.trades ELSE Append(acc.trades, TradeOf(o, e, q))) \in Seq(TradesTo(N))
  BY <1>1, <1>5, AppendProperties
<1>9. (IF q = e.qty THEN acc.rest ELSE Append(acc.rest, Reduced(e, q))) \in Seq(EntriesTo(N))
  BY <1>1, <1>6, AppendProperties
<1>10. r \in Matches(N)
  BY <1>4, <1>7, <1>8, <1>9 DEF Matches
<1>11. IsMeeting(o, acc, e, q, r)
  BY <1>3, <1>4 DEF IsMeeting
<1> QED
  BY <1>5, <1>6, <1>10, <1>11 DEF q, r

LEMMA MatchedRounds ==
  ASSUME NEW N \in Nat, NEW o, IsOrder(o), NEW s \in Seq(EntriesTo(N)), s = orderBook[Opposite(o.side)]
  PROVE  \E g : /\ Matched(o) = g[Len(s)] /\ g[0] = Unmatched(o)
                /\ \A n \in 1..Len(s) : g[n] = Meet(o, g[n - 1], s[n])
                /\ g \in [0..Len(s) -> Matches(N)]
<1> DEFINE L == Len(s)
           P(f) == f = [n \in 0..L |-> IF n = 0 THEN Unmatched(o) ELSE Meet(o, f[n - 1], s[n])]
           g == CHOOSE f : P(f)
           S == Matches(N)
           step == [n \in 1..L |-> [acc \in S |-> Meet(o, acc, s[n])]]
<1>1. Matched(o) = g[L]
  BY DEF Matched, Unmatched
<1>2. L \in Nat /\ \A n \in 1..L : s[n] \in EntriesTo(N)
  BY LenProperties, ElementOfSeq
<1>3. \A n \in 1..L : \A acc \in S : Meet(o, acc, s[n]) \in S
  BY <1>2, MeetFacts
<1>4. Unmatched(o) \in S
  BY DEF Unmatched, Matches, IsOrder
<1> HIDE DEF L, S
<1>5. step \in [1..L -> [S -> S]]
  BY <1>3
<1>6. PICK f : Iterates(f, L, S, Unmatched(o), step)
  <2> HIDE DEF step
  <2> QED
    BY <1>2, <1>4, <1>5, Recursion
<1>7. P(f)
  <2>1. f = [n \in 0..L |-> f[n]]
    BY <1>6 DEF Iterates
  <2>2. \A n \in 1..L : n - 1 \in 0..L
    BY <1>2
  <2>3. \A n \in 1..L : f[n] = Meet(o, f[n - 1], s[n])
    BY <1>6, <2>2 DEF Iterates
  <2>4. f[0] = Unmatched(o) /\ \A n \in 0..L : n = 0 \/ n \in 1..L
    BY <1>2, <1>6 DEF Iterates
  <2>5. \A n \in 0..L : f[n] = IF n = 0 THEN Unmatched(o) ELSE Meet(o, f[n - 1], s[n])
    BY <2>3, <2>4
  <2> QED
    BY <2>1, <2>5
<1>8. P(g)
  <2> HIDE DEF P
  <2> QED
    BY <1>7
<1> HIDE DEF g
<1>9. g = [n \in 0..L |-> g[n]] /\ g[0] = Unmatched(o) /\ \A n \in 1..L : g[n] = Meet(o, g[n - 1], s[n])
  <2>1. g = [n \in 0..L |-> g[n]]
    BY <1>8
  <2>2. \A n \in 0..L : g[n] = IF n = 0 THEN Unmatched(o) ELSE Meet(o, g[n - 1], s[n])
    BY <1>8
  <2> QED
    BY <1>2, <2>1, <2>2
<1> DEFINE T == {n \in 0..L : g[n] \in S}
<1>10. \A n \in 0..L : n \in T
  <2>1. 0 \in T
    BY <1>2, <1>4, <1>9
  <2>2. ASSUME NEW n \in 1..L, n - 1 \in T  PROVE n \in T
    <3>1. g[n - 1] \in S /\ n \in 0..L
      BY <1>2, <2>2
    <3>2. g[n] = Meet(o, g[n - 1], s[n])
      BY <1>9
    <3>3. g[n] \in S
      BY <1>3, <3>1, <3>2
    <3> QED
      BY <3>1, <3>3
  <2> HIDE DEF T
  <2> QED
    BY <1>2, <2>1, <2>2, Induction
<1>11. g \in [0..L -> S]
  BY <1>9, <1>10
<1> QED
  BY <1>1, <1>9, <1>11 DEF L, S

(* What holds after n rounds: what is left is part of the book, *)
NoneCrosses(o, acc) == acc.left > 0 => \A k \in 1..Len(acc.rest) : ~ Crosses(o, acc.rest[k])

(* and entries before one that was traded are gone *)
GoneBefore(s, acc, i) == \A j \in 1..(i - 1) : \A l \in 1..Len(acc.rest) : acc.rest[l].id # s[j].id
TradedInTurn(s, acc, n) ==
  \A k \in 1..Len(acc.trades) : \E i \in 1..n : acc.trades[k].id = s[i].id /\ GoneBefore(s, acc, i)

AfterMeetings(o, s, acc, n) ==
  PartOf(acc.rest, s, n) /\ NoneCrosses(o, acc) /\ TradedInTurn(s, acc, n)

LEMMA NextMeeting ==
  ASSUME NEW N \in Nat, NEW o, IsOrder(o), NEW s \in Seq(EntriesTo(N)),
         Sorted(Opposite(o.side), s), AllDiffer(s), NEW n \in 1..Len(s),
         NEW acc \in Matches(N), AfterMeetings(o, s, acc, n - 1)
  PROVE  AfterMeetings(o, s, Meet(o, acc, s[n]), n)
<1> DEFINE e == s[n]
           q == TakenOf(o, acc, e)
           r == Meet(o, acc, e)
           d == Reduced(e, q)
<1>1. Len(s) \in Nat /\ n \in Nat \ {0} /\ \A k \in 1..Len(s) : s[k] \in EntriesTo(N)
  BY LenProperties, ElementOfSeq
<1>2. acc.left \in Nat /\ acc.trades \in Seq(TradesTo(N)) /\ acc.rest \in Seq(EntriesTo(N))
  BY DEF Matches
<1>3. /\ IsMeeting(o, acc, e, q, r)
      /\ q # 0 => TradeOf(o, e, q) \in TradesTo(N)
      /\ q # e.qty => d \in EntriesTo(N) /\ Same(d, e)
  BY <1>1, MeetFacts
<1>4. q = IF acc.rest = <<>> /\ Crosses(o, e) THEN Least(acc.left, e.qty) ELSE 0
  BY DEF TakenOf
<1>5. e.qty \in Nat \ {0} /\ e.price \in Int
  BY EntryFacts
<1>6. 1..(n - 1) \subseteq 1..n /\ n \in 1..n /\ 1..(n - 1) \subseteq 1..Len(s) /\ n \notin 1..(n - 1)
  BY <1>1
<1> HIDE DEF q, r, d
<1>7. Len(acc.rest) \in Nat /\ Len(acc.trades) \in Nat
  BY <1>2, LenProperties
<1>8. q # e.qty => /\ r.rest = Append(acc.rest, d) /\ Len(r.rest) = Len(acc.rest) + 1
                   /\ r.rest[Len(acc.rest) + 1] = d
                   /\ \A k \in 1..Len(acc.rest) : r.rest[k] = acc.rest[k]
  BY <1>2, <1>3, AppendProperties DEF IsMeeting, d
<1>9. q = e.qty => r.rest = acc.rest
  BY <1>3 DEF IsMeeting
<1>10. PartOf(r.rest, s, n)
  <2>1. CASE q = e.qty
    BY <1>1, <1>9, <2>1, PartStays DEF AfterMeetings
  <2>2. CASE q # e.qty
    BY <1>1, <1>2, <1>3, <1>8, <2>2, PartAppend DEF AfterMeetings, e
  <2> QED
    BY <2>1, <2>2
<1>11. NoneCrosses(o, r)
  <2> SUFFICES ASSUME r.left > 0, NEW k \in 1..Len(r.rest)  PROVE ~ Crosses(o, r.rest[k])
    BY DEF NoneCrosses
  <2>1. q \in Nat /\ q <= acc.left /\ r.left = acc.left - q /\ acc.left > 0
    BY <1>2, <1>3 DEF IsMeeting
  <2>2. \A l \in 1..Len(acc.rest) : ~ Crosses(o, acc.rest[l])
    BY <2>1 DEF AfterMeetings, NoneCrosses
  <2>3. CASE q = e.qty
    BY <1>9, <2>2, <2>3
  <2>4. CASE q # e.qty
    <3>1. acc.rest # <<>> \/ ~ Crosses(o, e)
      BY <1>2, <1>4, <1>5, <2>1, <2>4 DEF Least
    <3>2. ~ Crosses(o, e)
      <4>1. CASE acc.rest = <<>>
        BY <3>1, <4>1
      <4>2. CASE acc.rest # <<>>
        <5>1. 1 \in 1..Len(acc.rest)
          BY <1>2, <1>7, <4>2, EmptySeq
        <5>2. PICK i \in 1..(n - 1) : Same(acc.rest[1], s[i])
          BY <5>1 DEF AfterMeetings, PartOf
        <5>3. i \in 1..Len(s) /\ i < n
          BY <1>1, <1>6, <5>2
        <5>4. Precedes(Opposite(o.side), s[i], e)
          BY <5>3 DEF Sorted
        <5>5. s[i].price \in Int
          BY <5>3, EntryFacts
        <5>6. ~ Crosses(o, s[i])
          BY <2>2, <5>1, <5>2 DEF Same, Crosses
        <5>7. o.side \in Sides /\ o.price \in Int
          BY DEF IsOrder
        <5> HIDE DEF e
        <5> QED
          BY <1>5, <5>4, <5>5, <5>6, <5>7 DEF Precedes, Better, Crosses, Opposite, Sides
      <4> QED
        BY <4>1, <4>2
    <3>3. ~ Crosses(o, d)
      BY <1>3, <2>4, <3>2 DEF Same, Crosses
    <3> QED
      BY <1>7, <1>8, <2>2, <2>4, <3>3, SMTT(30)
  <2> QED
    BY <2>3, <2>4
<1>12. ASSUME NEW i \in 1..n, acc.rest = <<>> \/ GoneBefore(s, acc, i)
       PROVE  GoneBefore(s, r, i)
  <2> SUFFICES ASSUME NEW j \in 1..(i - 1), NEW l \in 1..Len(r.rest)  PROVE r.rest[l].id # s[j].id
    BY DEF GoneBefore
  <2>1. \A k \in 1..Len(acc.rest) : acc.rest[k].id # s[j].id
    BY <1>12 DEF GoneBefore
  <2>2. CASE q = e.qty
    BY <1>9, <2>1, <2>2
  <2>3. CASE q # e.qty
    <3>1. j \in 1..Len(s) /\ j # n
      BY <1>1
    <3>2. s[j].id # e.id
      BY <3>1 DEF AllDiffer, Differ
    <3>3. d.id # s[j].id
      BY <1>3, <2>3, <3>2 DEF Same
    <3> QED
      <4>1. l \in 1..Len(acc.rest) \/ l = Len(acc.rest) + 1
        BY <1>7, <1>8, <2>3
      <4> QED
        BY <1>8, <2>1, <2>3, <3>3, <4>1
  <2> QED
    BY <2>2, <2>3
<1>13. TradedInTurn(s, r, n)
  <2> SUFFICES ASSUME NEW k \in 1..Len(r.trades)
               PROVE  \E i \in 1..n : r.trades[k].id = s[i].id /\ GoneBefore(s, r, i)
    BY DEF TradedInTurn
  <2>1. CASE k \in 1..Len(acc.trades) /\ r.trades[k] = acc.trades[k]
    <3>1. PICK i \in 1..(n - 1) : acc.trades[k].id = s[i].id /\ GoneBefore(s, acc, i)
      BY <2>1 DEF AfterMeetings, TradedInTurn
    <3> QED
      BY <1>6, <1>12, <2>1, <3>1
  <2>2. CASE q # 0 /\ k = Len(acc.trades) + 1 /\ r.trades[k] = TradeOf(o, e, q)
    <3>1. acc.rest = <<>>
      BY <1>4, <2>2
    <3>2. GoneBefore(s, r, n)
      BY <1>6, <1>12, <3>1
    <3>3. r.trades[k].id = s[n].id
      BY <2>2 DEF TradeOf
    <3> QED
      BY <1>6, <3>2, <3>3
  <2>3. q = 0 => r.trades = acc.trades
    BY <1>3 DEF IsMeeting
  <2>4. q # 0 => /\ Len(r.trades) = Len(acc.trades) + 1
                 /\ r.trades[Len(acc.trades) + 1] = TradeOf(o, e, q)
                 /\ \A l \in 1..Len(acc.trades) : r.trades[l] = acc.trades[l]
    BY <1>2, <1>3, AppendProperties DEF IsMeeting
  <2>5. q # 0 => k \in 1..Len(acc.trades) \/ k = Len(acc.trades) + 1
    BY <1>7, <2>4
  <2> QED
    BY <2>1, <2>2, <2>3, <2>4, <2>5
<1> QED
  BY <1>10, <1>11, <1>13 DEF AfterMeetings, r, e

LEMMA MatchedFacts ==
  ASSUME NEW N \in Nat, NEW o, IsOrder(o), NEW s \in Seq(EntriesTo(N)), s = orderBook[Opposite(o.side)],
         Sorted(Opposite(o.side), s), AllDiffer(s)
  PROVE  Matched(o) \in Matches(N) /\ AfterMeetings(o, s, Matched(o), Len(s))
<1> DEFINE L == Len(s)
<1>1. PICK g : /\ Matched(o) = g[L] /\ g[0] = Unmatched(o)
               /\ \A n \in 1..L : g[n] = Meet(o, g[n - 1], s[n])
               /\ g \in [0..L -> Matches(N)]
  BY MatchedRounds
<1>2. L \in Nat
  BY LenProperties
<1> DEFINE T == {n \in 0..L : AfterMeetings(o, s, g[n], n)}
<1>3. 0 \in T
  BY <1>1, <1>2 DEF AfterMeetings, Unmatched, PartOf, NoneCrosses, TradedInTurn
<1>4. ASSUME NEW n \in 1..L, n - 1 \in T  PROVE n \in T
  <2>1. n - 1 \in 0..L /\ g[n - 1] \in Matches(N) /\ AfterMeetings(o, s, g[n - 1], n - 1)
    BY <1>1, <1>2, <1>4
  <2>2. AfterMeetings(o, s, Meet(o, g[n - 1], s[n]), n)
    BY <2>1, NextMeeting
  <2> QED
    BY <1>1, <2>2
<1>5. \A n \in 0..L : n \in T
  <2> HIDE DEF T, L
  <2> QED
    BY <1>2, <1>3, <1>4, Induction
<1> QED
  BY <1>1, <1>2, <1>5
-----------------------------------------------------------------------------
(* The trades of a match are booked *)
Holdings == [position : [Traders -> Int], cash : [Traders -> Int], own : [qty : Nat, value : Int]]
Accounted(acc) ==
  /\ Total(acc.position) = acc.own.qty
  /\ Total(acc.cash) = 3 * Capital - acc.own.value

LEMMA SettleFacts ==
  ASSUME NEW N \in Nat, NEW acc \in Holdings, NEW trade \in TradesTo(N)
  PROVE  Settle(acc, trade) \in Holdings /\ (Accounted(acc) => Accounted(Settle(acc, trade)))
<1> DEFINE v == trade.price * trade.qty
           q == trade.qty
           r == Settle(acc, trade)
<1>1. trade.price \in Int /\ q \in Nat /\ trade.buyer \in Traders /\ trade.seller \in Traders
  BY DEF TradesTo
<1>2. v \in Int
  BY <1>1
<1>3. /\ acc.position \in [Traders -> Int] /\ acc.cash \in [Traders -> Int]
      /\ acc.own.qty \in Nat /\ acc.own.value \in Int
  BY DEF Holdings
<1>4. /\ r.position = [t \in Traders |-> acc.position[t] + ProcessTrade(t, trade, q)]
      /\ r.cash = [t \in Traders |-> acc.cash[t] - ProcessTrade(t, trade, v)]
      /\ r.own = [qty |-> acc.own.qty + IF trade.buyer = trade.seller THEN q ELSE 0,
                  value |-> acc.own.value + IF trade.buyer = trade.seller THEN v ELSE 0]
      /\ r = [position |-> r.position, cash |-> r.cash, own |-> r.own]
  BY DEF Settle
<1> HIDE DEF v, q, r
<1>5. \A t \in Traders : \A x \in Int : ProcessTrade(t, trade, x) \in Int
  BY DEF ProcessTrade
<1>6. r.position \in [Traders -> Int] /\ r.cash \in [Traders -> Int]
  BY <1>1, <1>2, <1>3, <1>4, <1>5
<1>7. r.own \in [qty : Nat, value : Int]
  BY <1>1, <1>2, <1>3, <1>4
<1>8. r \in Holdings
  BY <1>4, <1>6, <1>7 DEF Holdings
<1>9. \A x \in Int : ProcessTrade(Momentum, trade, x) + ProcessTrade(MeanRev, trade, x)
                       + ProcessTrade(Maker, trade, x) = IF trade.buyer = trade.seller THEN x ELSE 0
  BY <1>1 DEF ProcessTrade, Traders, Momentum, MeanRev, Maker
<1>10. Momentum \in Traders /\ MeanRev \in Traders /\ Maker \in Traders
  BY DEF Traders
<1>11. Total(r.position) = Total(acc.position) + IF trade.buyer = trade.seller THEN q ELSE 0
  <2>1. /\ acc.position[Momentum] \in Int /\ acc.position[MeanRev] \in Int /\ acc.position[Maker] \in Int
        /\ ProcessTrade(Momentum, trade, q) \in Int /\ ProcessTrade(MeanRev, trade, q) \in Int
        /\ ProcessTrade(Maker, trade, q) \in Int
    BY <1>1, <1>3, <1>5, <1>10
  <2>2. /\ r.position[Momentum] = acc.position[Momentum] + ProcessTrade(Momentum, trade, q)
        /\ r.position[MeanRev] = acc.position[MeanRev] + ProcessTrade(MeanRev, trade, q)
        /\ r.position[Maker] = acc.position[Maker] + ProcessTrade(Maker, trade, q)
    BY <1>4, <1>10
  <2>3. ProcessTrade(Momentum, trade, q) + ProcessTrade(MeanRev, trade, q)
          + ProcessTrade(Maker, trade, q) = IF trade.buyer = trade.seller THEN q ELSE 0
    BY <1>1, <1>9
  <2> QED
    BY <2>1, <2>2, <2>3 DEF Total
<1>12. Total(r.cash) = Total(acc.cash) - IF trade.buyer = trade.seller THEN v ELSE 0
  <2>1. /\ acc.cash[Momentum] \in Int /\ acc.cash[MeanRev] \in Int /\ acc.cash[Maker] \in Int
        /\ ProcessTrade(Momentum, trade, v) \in Int /\ ProcessTrade(MeanRev, trade, v) \in Int
        /\ ProcessTrade(Maker, trade, v) \in Int
    BY <1>2, <1>3, <1>5, <1>10
  <2>2. /\ r.cash[Momentum] = acc.cash[Momentum] - ProcessTrade(Momentum, trade, v)
        /\ r.cash[MeanRev] = acc.cash[MeanRev] - ProcessTrade(MeanRev, trade, v)
        /\ r.cash[Maker] = acc.cash[Maker] - ProcessTrade(Maker, trade, v)
    BY <1>4, <1>10
  <2>3. ProcessTrade(Momentum, trade, v) + ProcessTrade(MeanRev, trade, v)
          + ProcessTrade(Maker, trade, v) = IF trade.buyer = trade.seller THEN v ELSE 0
    BY <1>2, <1>9
  <2> QED
    BY <2>1, <2>2, <2>3 DEF Total
<1>13. ASSUME Accounted(acc)  PROVE Accounted(r)
  <2>1. /\ r.own.qty = acc.own.qty + IF trade.buyer = trade.seller THEN q ELSE 0
        /\ r.own.value = acc.own.value + IF trade.buyer = trade.seller THEN v ELSE 0
    BY <1>4
  <2>2. Capital \in Int
    BY MarketAssumption
  <2> QED
    BY <1>1, <1>2, <1>3, <1>11, <1>12, <1>13, <2>1, <2>2 DEF Accounted
<1> QED
  BY <1>8, <1>13 DEF r

LEMMA SettledFacts ==
  ASSUME NEW N \in Nat, NEW trades \in Seq(TradesTo(N)), NEW start \in Holdings,
         start = [position |-> position, cash |-> cash, own |-> own]
  PROVE  Settled(trades) \in Holdings /\ (Accounted(start) => Accounted(Settled(trades)))
<1> DEFINE L == Len(trades)
           P(f) == f = [n \in 0..L |-> IF n = 0 THEN start ELSE Settle(f[n - 1], trades[n])]
           g == CHOOSE f : P(f)
           S == Holdings
           step == [n \in 1..L |-> [acc \in S |-> Settle(acc, trades[n])]]
<1>1. Settled(trades) = g[L]
  BY DEF Settled
<1>2. L \in Nat /\ \A n \in 1..L : trades[n] \in TradesTo(N)
  BY LenProperties, ElementOfSeq
<1>3. \A n \in 1..L : \A acc \in S : Settle(acc, trades[n]) \in S /\ (Accounted(acc) => Accounted(Settle(acc, trades[n])))
  BY <1>2, SettleFacts
<1>4. start \in S
  OBVIOUS
<1> HIDE DEF L, S
<1>5. step \in [1..L -> [S -> S]]
  BY <1>3
<1>6. PICK f : Iterates(f, L, S, start, step)
  <2> HIDE DEF step
  <2> QED
    BY <1>2, <1>4, <1>5, Recursion
<1>7. P(f)
  <2>1. f = [n \in 0..L |-> f[n]]
    BY <1>6 DEF Iterates
  <2>2. \A n \in 1..L : n - 1 \in 0..L
    BY <1>2
  <2>3. \A n \in 1..L : f[n] = Settle(f[n - 1], trades[n])
    BY <1>6, <2>2 DEF Iterates
  <2>4. f[0] = start /\ \A n \in 0..L : n = 0 \/ n \in 1..L
    BY <1>2, <1>6 DEF Iterates
  <2>5. \A n \in 0..L : f[n] = IF n = 0 THEN start ELSE Settle(f[n - 1], trades[n])
    BY <2>3, <2>4
  <2> QED
    BY <2>1, <2>5
<1>8. P(g)
  <2> HIDE DEF P
  <2> QED
    BY <1>7
<1> HIDE DEF g
<1>9. g[0] = start /\ \A n \in 1..L : g[n] = Settle(g[n - 1], trades[n])
  <2>1. \A n \in 0..L : g[n] = IF n = 0 THEN start ELSE Settle(g[n - 1], trades[n])
    BY <1>8
  <2> QED
    BY <1>2, <2>1
<1> DEFINE T == {n \in 0..L : g[n] \in S /\ (Accounted(start) => Accounted(g[n]))}
<1>10. \A n \in 0..L : n \in T
  <2>1. 0 \in T
    BY <1>2, <1>4, <1>9
  <2>2. ASSUME NEW n \in 1..L, n - 1 \in T  PROVE n \in T
    <3>1. g[n - 1] \in S /\ (Accounted(start) => Accounted(g[n - 1])) /\ n \in 0..L
      BY <1>2, <2>2
    <3>2. g[n] = Settle(g[n - 1], trades[n])
      BY <1>9
    <3>3. g[n] \in S /\ (Accounted(start) => Accounted(g[n]))
      BY <1>3, <3>1, <3>2
    <3> QED
      BY <3>1, <3>3
  <2> HIDE DEF T
  <2> QED
    BY <1>2, <2>1, <2>2, Induction
<1>11. L \in T
  BY <1>2, <1>10
<1> QED
  BY <1>1, <1>11 DEF S
-----------------------------------------------------------------------------
(* The invariant: both sides are in order, ids are given once, and there is *)
(* at most one order in the book, one of the mean reversion trader, and     *)
(* none between its quote and its next order                                *)
SidesInOrder == \A side \in Sides : Sorted(side, orderBook[side]) /\ AllDiffer(orderBook[side])

IdsDiffer(bids, asks) == \A m \in 1..Len(bids), n \in 1..Len(asks) : bids[m].id # asks[n].id

HasOrder(side) == \E n \in 1..Len(orderBook[side]) : orderBook[side][n].kind = "order"
OneOrder ==
  /\ \A side \in Sides : \A n \in 1..Len(orderBook[side]) :
       orderBook[side][n].kind = "order" => orderBook[side][n].trader = MeanRev /\ at \notin 4..6
  /\ ~ (HasOrder("Buy") /\ HasOrder("Sell"))

Later(e, f) == IF e.id > f.id THEN e ELSE f
QuotesCross(bids, asks) ==
  \A m \in 1..Len(bids), n \in 1..Len(asks) :
    bids[m].price >= asks[n].price => Later(bids[m], asks[n]).kind = "quote"

MarketBook ==
  /\ SidesInOrder
  /\ IdsDiffer(orderBook["Buy"], orderBook["Sell"])
  /\ QuotesCross(orderBook["Buy"], orderBook["Sell"])

MarketIInv == MarketTypeOK /\ MarketBook /\ OneOrder

LEMMA MarketTypes ==
  ASSUME MarketTypeOK
  PROVE  /\ arrivals \in Nat /\ arrivals + 1 \in Nat /\ arrivals + 2 \in Nat
         /\ \A side \in Sides : /\ orderBook[side] \in Seq(EntriesTo(arrivals))
                                /\ Len(orderBook[side]) \in Nat
         /\ fills \in Seq(TradesTo(arrivals))
<1>1. arrivals \in Nat /\ orderBook \in [Sides -> Seq(Entries)] /\ fills \in Seq(Trades)
  BY DEF MarketTypeOK
<1>2. Entries = EntriesTo(arrivals) /\ Trades = TradesTo(arrivals)
  BY DEF Entries, Trades, EntriesTo, TradesTo
<1>3. \A side \in Sides : orderBook[side] \in Seq(EntriesTo(arrivals))
  BY <1>1, <1>2
<1> QED
  BY <1>1, <1>2, <1>3, LenProperties

LEMMA MoreTrades ==
  ASSUME NEW M \in Nat, NEW N \in Nat, M <= N, NEW s \in Seq(TradesTo(M))
  PROVE  s \in Seq(TradesTo(N))
<1>1. 1..M \subseteq 1..N
  OBVIOUS
<1>2. TradesTo(M) \subseteq TradesTo(N)
  BY <1>1 DEF TradesTo
<1> QED
  BY <1>2, SeqMonotonic

(* r has entries of s, some of them filled in part, and new ones from F *)
From(r, s, F) == \A k \in 1..Len(r) : r[k] \in F \/ \E i \in 1..Len(s) : Same(r[k], s[i])

(* New entries on either side cross the book only if they are quotes *)
LEMMA Crossing ==
  ASSUME NEW M \in Nat, NEW b \in Seq(EntriesTo(M)), NEW a \in Seq(EntriesTo(M)),
         IdsDiffer(b, a), QuotesCross(b, a),
         NEW N \in Nat, NEW c \in Seq(EntriesTo(N)), NEW d \in Seq(EntriesTo(N)), NEW F, NEW G,
         From(c, b, F), From(d, a, G),
         \A x \in F : x.id \in Int /\ x.id > M, \A y \in G : y.id \in Int /\ y.id > M,
         \A x \in F, y \in G : x.id # y.id,
         \A x \in F : x.kind = "quote" \/ \A n \in 1..Len(d) : ~ (x.price >= d[n].price),
         \A y \in G : y.kind = "quote" \/ \A m \in 1..Len(c) : ~ (c[m].price >= y.price)
  PROVE  IdsDiffer(c, d) /\ QuotesCross(c, d)
<1> SUFFICES ASSUME NEW m \in 1..Len(c), NEW n \in 1..Len(d)
             PROVE  /\ c[m].id # d[n].id
                    /\ c[m].price >= d[n].price => Later(c[m], d[n]).kind = "quote"
  BY DEF IdsDiffer, QuotesCross
<1>1. \A i \in 1..Len(b) : b[i].id \in 1..M
  BY EntryFacts
<1>2. \A i \in 1..Len(a) : a[i].id \in 1..M
  BY EntryFacts
<1>3. CASE c[m] \in F /\ d[n] \in G
  BY <1>3 DEF Later
<1>4. ASSUME c[m] \in F, NEW j \in 1..Len(a), Same(d[n], a[j])
      PROVE  /\ c[m].id # d[n].id
             /\ c[m].price >= d[n].price => Later(c[m], d[n]).kind = "quote"
  <2>1. d[n].id \in 1..M /\ c[m].id \in Int /\ c[m].id > M
    BY <1>2, <1>4 DEF Same
  <2> QED
    BY <1>4, <2>1, SMTT(30) DEF Later
<1>5. ASSUME d[n] \in G, NEW i \in 1..Len(b), Same(c[m], b[i])
      PROVE  /\ c[m].id # d[n].id
             /\ c[m].price >= d[n].price => Later(c[m], d[n]).kind = "quote"
  <2>1. c[m].id \in 1..M /\ d[n].id \in Int /\ d[n].id > M
    BY <1>1, <1>5 DEF Same
  <2> QED
    BY <1>5, <2>1 DEF Later
<1>6. ASSUME NEW i \in 1..Len(b), Same(c[m], b[i]), NEW j \in 1..Len(a), Same(d[n], a[j])
      PROVE  /\ c[m].id # d[n].id
             /\ c[m].price >= d[n].price => Later(c[m], d[n]).kind = "quote"
  <2>1. b[i].id # a[j].id /\ (b[i].price >= a[j].price => Later(b[i], a[j]).kind = "quote")
    BY DEF IdsDiffer, QuotesCross
  <2> QED
    BY <1>6, <2>1 DEF Same, Later
<1> QED
  BY <1>3, <1>4, <1>5, <1>6 DEF From

-----------------------------------------------------------------------------
(* update_quote on one side *)
QuoteOf(t, p, size, i) == [price |-> p, qty |-> size, trader |-> t, kind |-> "quote", id |-> i]

LEMMA QuotedSide ==
  ASSUME NEW side \in Sides, NEW M \in Nat, NEW N \in Nat, M <= N,
         NEW s \in Seq(EntriesTo(M)), Sorted(side, s), AllDiffer(s),
         NEW t \in Traders, NEW p \in Int, NEW size \in Nat, NEW i \in 1..N, i > M
  PROVE  LET r == IF size = 0 THEN Others(s, t) ELSE Place(side, Others(s, t), QuoteOf(t, p, size, i))
         IN  /\ r \in Seq(EntriesTo(N)) /\ Sorted(side, r) /\ AllDiffer(r)
             /\ From(r, s, {QuoteOf(t, p, size, i)})
             /\ \A k \in 1..Len(r) : r[k].kind = "order" =>
                  r[k].trader # t /\ \E j \in 1..Len(s) : Same(r[k], s[j])
<1> DEFINE e == QuoteOf(t, p, size, i)
           h == Others(s, t)
           w == Place(side, h, e)
<1>1. h \in Seq(EntriesTo(M)) /\ PartOf(h, s, Len(s)) /\ \A k \in 1..Len(h) : h[k].trader # t
  BY OthersFacts
<1>2. Len(s) \in Nat /\ Len(h) \in Nat
  BY <1>1, LenProperties
<1>3. Sorted(side, h) /\ AllDiffer(h)
  BY <1>1, <1>2, PartSorted
<1>4. h \in Seq(EntriesTo(N))
  BY <1>1, MoreEntries
<1>5. \A k \in 1..Len(h) : \E j \in 1..Len(s) : Same(h[k], s[j])
  BY <1>1 DEF PartOf
<1> HIDE DEF h, w
<1>6. CASE size = 0
  BY <1>1, <1>3, <1>4, <1>5, <1>6 DEF From, h
<1>7. CASE size # 0
  <2>1. e \in EntriesTo(N) /\ e.id > M /\ e.kind = "quote" /\ e.trader = t
    <3>1. size \in Nat \ {0}
      BY <1>7
    <3> QED
      BY <3>1 DEF QuoteOf, EntriesTo
  <2> HIDE DEF e
  <2>2. /\ w \in Seq(EntriesTo(N)) /\ Sorted(side, w) /\ AllDiffer(w)
        /\ \A k \in 1..Len(w) : w[k] = e \/ \E j \in 1..Len(h) : w[k] = h[j]
    BY <1>1, <1>3, <2>1, PlaceFacts DEF w
  <2>3. From(w, s, {e})
    BY <1>5, <2>2 DEF From
  <2>4. ASSUME NEW k \in 1..Len(w), w[k].kind = "order"
        PROVE  w[k].trader # t /\ \E j \in 1..Len(s) : Same(w[k], s[j])
    <3>1. PICK j \in 1..Len(h) : w[k] = h[j]
      BY <2>1, <2>2, <2>4
    <3> QED
      BY <1>1, <1>5, <3>1
  <2> QED
    BY <1>7, <2>2, <2>3, <2>4 DEF w, h, e
<1> QED
  BY <1>6, <1>7

LEMMA QuotedBook ==
  ASSUME MarketTypeOK, MarketBook, NEW t \in Traders, NEW bid \in Int, NEW ask \in Int,
         NEW size \in Nat, UpdateQuote(t, bid, ask, size)
  PROVE  /\ arrivals' = arrivals + 2
         /\ orderBook' \in [Sides -> Seq(EntriesTo(arrivals + 2))]
         /\ MarketBook'
         /\ \A side \in Sides : \A k \in 1..Len(orderBook'[side]) :
              orderBook'[side][k].kind = "order" =>
                /\ orderBook'[side][k].trader # t
                /\ \E j \in 1..Len(orderBook[side]) : Same(orderBook'[side][k], orderBook[side][j])
<1> DEFINE N == arrivals + 2
           id(side) == arrivals + IF side = "Buy" THEN 1 ELSE 2
           p(side) == IF side = "Buy" THEN bid ELSE ask
           e(side) == QuoteOf(t, p(side), size, id(side))
           r(side) == IF size = 0 THEN Others(orderBook[side], t)
                      ELSE Place(side, Others(orderBook[side], t), e(side))
<1>1. arrivals' = N /\ orderBook' = [side \in Sides |-> r(side)]
  BY DEF UpdateQuote, QuoteOf
<1>2. arrivals \in Nat /\ N \in Nat /\ arrivals <= N
  BY MarketTypes
<1>3. \A side \in Sides : id(side) \in 1..N /\ id(side) > arrivals /\ p(side) \in Int
  BY <1>2
<1>4. \A side \in Sides : e(side).id = id(side) /\ e(side).kind = "quote"
  BY DEF QuoteOf
<1>5. \A side \in Sides :
        /\ orderBook[side] \in Seq(EntriesTo(arrivals))
        /\ Sorted(side, orderBook[side]) /\ AllDiffer(orderBook[side])
  BY MarketTypes DEF MarketBook, SidesInOrder
<1> HIDE DEF N, id, p
<1>6. ASSUME NEW side \in Sides
      PROVE  /\ r(side) \in Seq(EntriesTo(N)) /\ Sorted(side, r(side)) /\ AllDiffer(r(side))
             /\ From(r(side), orderBook[side], {e(side)})
             /\ \A k \in 1..Len(r(side)) : r(side)[k].kind = "order" =>
                  r(side)[k].trader # t /\ \E j \in 1..Len(orderBook[side]) : Same(r(side)[k], orderBook[side][j])
  BY <1>2, <1>3, <1>5, QuotedSide, ZenonT(60)
<1> HIDE DEF e, r
<1>7. "Buy" \in Sides /\ "Sell" \in Sides
  BY DEF Sides
<1>8. id("Buy") # id("Sell") /\ id("Buy") \in Int /\ id("Sell") \in Int
  BY <1>2 DEF id
<1>9. IdsDiffer(r("Buy"), r("Sell")) /\ QuotesCross(r("Buy"), r("Sell"))
  <2> DEFINE b == orderBook["Buy"]
             a == orderBook["Sell"]
             c == r("Buy")
             d == r("Sell")
             F == {e("Buy")}
             G == {e("Sell")}
  <2>1. /\ b \in Seq(EntriesTo(arrivals)) /\ a \in Seq(EntriesTo(arrivals))
        /\ c \in Seq(EntriesTo(N)) /\ d \in Seq(EntriesTo(N))
        /\ IdsDiffer(b, a) /\ QuotesCross(b, a) /\ From(c, b, F) /\ From(d, a, G)
    BY <1>5, <1>6, <1>7 DEF MarketBook
  <2>2. /\ \A x \in F : x.id \in Int /\ x.id > arrivals /\ x.kind = "quote"
        /\ \A y \in G : y.id \in Int /\ y.id > arrivals /\ y.kind = "quote"
        /\ \A x \in F, y \in G : x.id # y.id
    BY <1>3, <1>4, <1>7, <1>8
  <2> HIDE DEF a, b, c, d, F, G
  <2>3. IdsDiffer(c, d) /\ QuotesCross(c, d)
    BY <1>2, <2>1, <2>2, Crossing
  <2> QED
    BY <2>3 DEF c, d
<1>10. \A side \in Sides : orderBook'[side] = r(side)
  BY <1>1
<1>11. orderBook' \in [Sides -> Seq(EntriesTo(N))]
  BY <1>1, <1>6
<1>12. MarketBook'
  BY <1>6, <1>7, <1>9, <1>10 DEF MarketBook, SidesInOrder
<1> QED
  BY <1>1, <1>6, <1>10, <1>11, <1>12 DEF N
-----------------------------------------------------------------------------
(* match_order: what is left of an order rests *)
OrderOf(o, left, i) == [price |-> o.price, qty |-> left, trader |-> o.trader, kind |-> "order", id |-> i]

LEMMA RestedSide ==
  ASSUME MarketTypeOK, MarketBook, NEW o, IsOrder(o), NEW left \in Nat,
         o.type = "Limit" => \A n \in 1..Len(orderBook[o.side]) : orderBook[o.side][n].kind # "order"
  PROVE  LET r == Rest(o, left)
             F == IF left > 0 /\ o.type = "Limit" THEN {OrderOf(o, left, arrivals + 1)} ELSE {}
         IN  /\ r \in Seq(EntriesTo(arrivals + 1)) /\ Sorted(o.side, r) /\ AllDiffer(r)
             /\ From(r, orderBook[o.side], F)
<1> DEFINE s == orderBook[o.side]
           e == OrderOf(o, left, arrivals + 1)
           w == Place(o.side, s, e)
<1>1. o.side \in Sides /\ o.trader \in Traders /\ o.price \in Int
  BY DEF IsOrder
<1>2. /\ arrivals \in Nat /\ arrivals + 1 \in Nat /\ arrivals <= arrivals + 1
      /\ s \in Seq(EntriesTo(arrivals)) /\ Sorted(o.side, s) /\ AllDiffer(s)
  BY <1>1, MarketTypes DEF MarketBook, SidesInOrder
<1>3. CASE left > 0 /\ o.type = "Limit"
  <2>1. e \in EntriesTo(arrivals + 1) /\ e.id > arrivals /\ e.kind = "order"
    <3>1. left \in Nat \ {0} /\ arrivals + 1 \in 1..(arrivals + 1)
      BY <1>2, <1>3
    <3> QED
      BY <1>1, <1>2, <3>1 DEF OrderOf, EntriesTo
  <2>2. Rest(o, left) = w
    BY <1>3 DEF Rest, OrderOf
  <2> HIDE DEF e, s, w
  <2>3. \A k \in 1..Len(s) : s[k].kind # e.kind
    BY <1>3, <2>1 DEF s
  <2>4. /\ w \in Seq(EntriesTo(arrivals + 1)) /\ Sorted(o.side, w) /\ AllDiffer(w)
        /\ \A k \in 1..Len(w) : w[k] = e \/ \E i \in 1..Len(s) : w[k] = s[i]
    BY <1>1, <1>2, <2>1, <2>3, PlaceFacts DEF w
  <2>5. From(w, s, {e})
    BY <2>4 DEF From, Same
  <2> QED
    BY <1>3, <2>2, <2>4, <2>5 DEF e, s
<1>4. CASE ~ (left > 0 /\ o.type = "Limit")
  <2>1. Rest(o, left) = s
    BY <1>4 DEF Rest
  <2>2. s \in Seq(EntriesTo(arrivals + 1))
    BY <1>2, MoreEntries
  <2>3. From(s, s, {})
    BY DEF From, Same
  <2> QED
    BY <1>2, <1>4, <2>1, <2>2, <2>3
<1> QED
  BY <1>3, <1>4

LEMMA MatchedBook ==
  ASSUME MarketTypeOK, MarketBook, NEW o, IsOrder(o), Match(o),
         o.type = "Limit" => \A n \in 1..Len(orderBook[o.side]) : orderBook[o.side][n].kind # "order"
  PROVE  /\ arrivals' = arrivals + 1
         /\ orderBook' \in [Sides -> Seq(EntriesTo(arrivals + 1))]
         /\ MarketBook'
         /\ fills' \in Seq(TradesTo(arrivals)) /\ last' \in Int
         /\ \A side \in Sides : \A k \in 1..Len(orderBook'[side]) :
              orderBook'[side][k].kind = "order" =>
                \/ side = o.side /\ o.type = "Limit" /\ orderBook'[side][k].trader = o.trader
                \/ \E j \in 1..Len(orderBook[side]) : Same(orderBook'[side][k], orderBook[side][j])
<1> DEFINE opp == Opposite(o.side)
           s == orderBook[opp]
           m == Matched(o)
           w == Rest(o, m.left)
           N == arrivals + 1
           F == IF m.left > 0 /\ o.type = "Limit" THEN {OrderOf(o, m.left, N)} ELSE {}
<1>1. o.side \in Sides /\ opp \in Sides /\ opp # o.side /\ \A side \in Sides : side # o.side => side = opp
  BY DEF IsOrder, Sides, Opposite
<1>2. /\ arrivals \in Nat /\ N \in Nat /\ arrivals <= N
      /\ s \in Seq(EntriesTo(arrivals)) /\ Len(s) \in Nat /\ Sorted(opp, s) /\ AllDiffer(s)
  BY <1>1, MarketTypes DEF MarketBook, SidesInOrder
<1>3. m \in Matches(arrivals) /\ AfterMeetings(o, s, m, Len(s))
  BY <1>2, MatchedFacts
<1>4. m.left \in Nat /\ m.trades \in Seq(TradesTo(arrivals)) /\ m.rest \in Seq(EntriesTo(arrivals))
  BY <1>3 DEF Matches
<1>5. /\ orderBook' = [side \in Sides |-> IF side = o.side THEN w ELSE m.rest]
      /\ arrivals' = N
      /\ fills' = m.trades
      /\ last' = IF m.trades = <<>> THEN last ELSE m.trades[Len(m.trades)].price
  BY DEF Match
<1>6. w \in Seq(EntriesTo(N)) /\ Sorted(o.side, w) /\ AllDiffer(w) /\ From(w, orderBook[o.side], F)
  BY <1>4, RestedSide
<1>7. \A x \in F : x.id = N /\ x.kind = "order" /\ x.trader = o.trader /\ x.price = o.price
                   /\ m.left > 0 /\ o.type = "Limit"
  BY DEF OrderOf
<1> HIDE DEF m, w, N, F, s
<1>8. m.rest \in Seq(EntriesTo(N)) /\ Len(m.rest) \in Nat
  BY <1>2, <1>4, MoreEntries, LenProperties
<1>9. PartOf(m.rest, s, Len(s))
  BY <1>3 DEF AfterMeetings
<1>10. Sorted(opp, m.rest) /\ AllDiffer(m.rest)
  BY <1>2, <1>8, <1>9, PartSorted
<1>11. From(m.rest, s, {})
  BY <1>9 DEF From, PartOf
<1>12. orderBook'[o.side] = w /\ orderBook'[opp] = m.rest
  BY <1>1, <1>5
<1>13. orderBook' \in [Sides -> Seq(EntriesTo(N))]
  BY <1>5, <1>6, <1>8
<1>14. last' \in Int
  <2>1. CASE m.trades = <<>>
    BY <1>5, <2>1 DEF MarketTypeOK
  <2>2. CASE m.trades # <<>>
    <3>1. Len(m.trades) \in 1..Len(m.trades)
      BY <1>4, <2>2, EmptySeq, LenProperties
    <3>2. m.trades[Len(m.trades)] \in TradesTo(arrivals)
      BY <1>4, <3>1, ElementOfSeq
    <3> QED
      BY <1>5, <2>2, <3>2 DEF TradesTo
  <2> QED
    BY <2>1, <2>2
<1>15. \A x \in F : \A n \in 1..Len(m.rest) : ~ Crosses(o, m.rest[n]) /\ m.rest[n].price \in Int
  <2>1. \A n \in 1..Len(m.rest) : m.rest[n].price \in Int
    BY <1>2, <1>4, EntryFacts
  <2> QED
    BY <1>3, <1>7, <2>1 DEF AfterMeetings, NoneCrosses
<1>16. \A x \in F : x.id \in Int /\ x.id > arrivals
  BY <1>2, <1>7 DEF N
<1>17. IdsDiffer(orderBook["Buy"]', orderBook["Sell"]') /\ QuotesCross(orderBook["Buy"]', orderBook["Sell"]')
  <2>1. IdsDiffer(orderBook["Buy"], orderBook["Sell"]) /\ QuotesCross(orderBook["Buy"], orderBook["Sell"])
    BY DEF MarketBook
  <2>2. CASE o.side = "Buy"
    <3> DEFINE b == orderBook["Buy"]
               d == m.rest
               G == {}
    <3>1. opp = "Sell"
      BY <2>2 DEF Opposite
    <3>2. b \in Seq(EntriesTo(arrivals)) /\ IdsDiffer(b, s) /\ QuotesCross(b, s)
      BY <1>1, <2>1, <2>2, <3>1, MarketTypes DEF s
    <3>3. \A x \in F : \A n \in 1..Len(d) : ~ (x.price >= d[n].price)
      BY <1>7, <1>15, <2>2 DEF Crosses
    <3>4. From(w, b, F) /\ From(d, s, G)
      BY <1>6, <1>11, <2>2
    <3>5. \A y \in G : FALSE
      OBVIOUS
    <3>6. d \in Seq(EntriesTo(N))
      BY <1>8
    <3> HIDE DEF b, d, G
    <3>7. IdsDiffer(w, d) /\ QuotesCross(w, d)
      BY <1>2, <1>6, <1>16, <3>2, <3>3, <3>4, <3>5, <3>6, Crossing
    <3> QED
      BY <1>12, <2>2, <3>1, <3>7 DEF d
  <2>3. CASE o.side = "Sell"
    <3> DEFINE a == orderBook["Sell"]
               d == m.rest
               G == {}
    <3>1. opp = "Buy"
      BY <2>3 DEF Opposite
    <3>2. a \in Seq(EntriesTo(arrivals)) /\ IdsDiffer(s, a) /\ QuotesCross(s, a)
      BY <1>1, <2>1, <2>3, <3>1, MarketTypes DEF s
    <3>3. \A x \in F : \A n \in 1..Len(d) : ~ (d[n].price >= x.price)
      <4>1. o.price \in Int
        BY DEF IsOrder
      <4> QED
        BY <1>7, <1>15, <2>3, <4>1 DEF Crosses
    <3>4. From(w, a, F) /\ From(d, s, G)
      BY <1>6, <1>11, <2>3
    <3>5. \A y \in G : FALSE
      OBVIOUS
    <3>6. d \in Seq(EntriesTo(N))
      BY <1>8
    <3> HIDE DEF a, d, G
    <3>7. IdsDiffer(d, w) /\ QuotesCross(d, w)
      BY <1>2, <1>6, <1>16, <3>2, <3>3, <3>4, <3>5, <3>6, Crossing
    <3> QED
      BY <1>12, <2>3, <3>1, <3>7 DEF d
  <2> QED
    BY <1>1, <2>2, <2>3 DEF Sides
<1>18. MarketBook'
  <2>1. \A side \in Sides : Sorted(side, orderBook'[side]) /\ AllDiffer(orderBook'[side])
    BY <1>1, <1>6, <1>10, <1>12
  <2> QED
    BY <1>17, <2>1 DEF MarketBook, SidesInOrder
<1>19. ASSUME NEW side \in Sides, NEW k \in 1..Len(orderBook'[side]), orderBook'[side][k].kind = "order"
       PROVE  \/ side = o.side /\ o.type = "Limit" /\ orderBook'[side][k].trader = o.trader
              \/ \E j \in 1..Len(orderBook[side]) : Same(orderBook'[side][k], orderBook[side][j])
  <2>1. CASE side = o.side
    BY <1>6, <1>7, <1>12, <2>1 DEF From
  <2>2. CASE side = opp
    BY <1>11, <1>12, <2>2 DEF From, s
  <2> QED
    BY <1>1, <2>1, <2>2
<1> QED
  BY <1>4, <1>5, <1>13, <1>14, <1>18, <1>19 DEF N
-----------------------------------------------------------------------------
(* Where the loop is *)
LEMMA StepsFacts ==
  /\ DOMAIN Steps = 1..9
  /\ Steps[1] = "update" /\ Steps[2] = Momentum /\ Steps[3] = MeanRev /\ Steps[4] = Maker
  /\ Steps[5] = Momentum /\ Steps[6] = MeanRev /\ Steps[7] = Maker /\ Steps[8] = "check"
  /\ Steps[9] = "stopped"
BY DEF Steps

LEMMA QuoteAt ==
  ASSUME MarketTypeOK, NEW t \in Traders, at < OrdersFrom, Steps[at] = t
  PROVE  (t = Momentum /\ at = 2) \/ (t = MeanRev /\ at = 3) \/ (t = Maker /\ at = 4)
<1>1. at \in 1..9 /\ at < 5
  BY StepsFacts DEF MarketTypeOK, OrdersFrom
<1>2. at = 1 \/ at = 2 \/ at = 3 \/ at = 4
  BY <1>1
<1> QED
  BY <1>2, StepsFacts DEF Traders, Momentum, MeanRev, Maker

LEMMA OrderAt ==
  ASSUME MarketTypeOK, NEW t \in Traders, at \in OrdersFrom..(CheckAt - 1), Steps[at] = t
  PROVE  (t = Momentum /\ at = 5) \/ (t = MeanRev /\ at = 6) \/ (t = Maker /\ at = 7)
<1>1. at = 5 \/ at = 6 \/ at = 7
  BY DEF OrdersFrom, CheckAt
<1> QED
  BY <1>1, StepsFacts DEF Traders, Momentum, MeanRev, Maker

LEMMA MarketStart == MarketInit => MarketIInv /\ HoldingsAccounted
<1> SUFFICES ASSUME MarketInit  PROVE MarketIInv /\ HoldingsAccounted
  OBVIOUS
<1>1. \A side \in Sides : orderBook[side] = <<>>
  BY DEF MarketInit
<1>2. "Buy" \in Sides /\ "Sell" \in Sides
  BY DEF Sides
<1>3. MarketTypeOK
  <2>1. orderBook \in [Sides -> Seq(Entries)] /\ fills \in Seq(Trades)
    BY DEF MarketInit
  <2>2. InitialPrice \in Int /\ Capital \in Int /\ MaxIterations \in Nat
    BY MarketAssumption
  <2>3. last \in Int /\ market \in [last : Int, bid : Int, ask : Int]
    BY <2>2 DEF MarketInit
  <2>4. cash \in [Traders -> Int] /\ position \in [Traders -> Int]
    BY <2>2 DEF MarketInit
  <2>5. iteration \in 0..MaxIterations /\ arrivals \in Nat /\ own \in [qty : Nat, value : Int]
    BY <2>2 DEF MarketInit
  <2>6. at \in DOMAIN Steps
    BY StepsFacts DEF MarketInit
  <2> QED
    BY <2>1, <2>3, <2>4, <2>5, <2>6 DEF MarketTypeOK
<1>4. MarketBook
  BY <1>1, <1>2 DEF MarketBook, SidesInOrder, Sorted, AllDiffer, IdsDiffer, QuotesCross
<1>5. OneOrder
  BY <1>1, <1>2 DEF OneOrder, HasOrder
<1>6. HoldingsAccounted
  <2>1. /\ cash[Momentum] = Capital /\ cash[MeanRev] = Capital /\ cash[Maker] = Capital
        /\ position[Momentum] = 0 /\ position[MeanRev] = 0 /\ position[Maker] = 0
        /\ own.qty = 0 /\ own.value = 0
    BY DEF MarketInit, Traders
  <2> QED
    BY <2>1, MarketAssumption DEF HoldingsAccounted, Total
<1> QED
  BY <1>3, <1>4, <1>5, <1>6 DEF MarketIInv

(* The book and the accounts stay and the loop goes on *)
LEMMA BookStays ==
  ASSUME MarketIInv, UNCHANGED <<orderBook, arrivals>>,
         at' \notin 4..6 \/ (at \in 4..6 /\ at' \in 4..6)
  PROVE  MarketBook' /\ OneOrder'
BY DEF MarketIInv, MarketBook, SidesInOrder, OneOrder, HasOrder

LEMMA UpdateStep ==
  ASSUME MarketIInv, Update
  PROVE  MarketIInv'
<1>1. MarketTypeOK
  BY DEF MarketIInv
<1>2. at = 1 /\ at' = 2
  <2>1. at \in 1..9 /\ Steps[at] = "update" /\ at' = at + 1
    BY <1>1, StepsFacts DEF MarketTypeOK, Update
  <2>2. at \in {1, 2, 3, 4, 5, 6, 7, 8, 9}
    BY <2>1
  <2> QED
    BY <2>1, <2>2, StepsFacts DEF Momentum, MeanRev, Maker
<1>3. UNCHANGED <<orderBook, arrivals, cash, position, own, fills>>
  BY DEF Update, books, accounts
<1>4. MarketBook' /\ OneOrder'
  BY <1>2, <1>3, BookStays
<1>5. last' \in Int
  <2>1. PICK n \in Noise :
          last' = IF iteration' % NoiseEvery = 0 THEN Most(MinPrice, Least(MaxPrice, last + n)) ELSE last
    BY DEF Update
  <2>2. n \in Int /\ last \in Int /\ MinPrice \in Int /\ MaxPrice \in Int
    BY <1>1, MarketAssumption DEF MarketTypeOK
  <2> QED
    BY <2>1, <2>2 DEF Most, Least
<1>6. market' \in [last : Int, bid : Int, ask : Int]
  <2>1. ASSUME NEW side \in Sides, orderBook[side] # <<>>  PROVE orderBook[side][1].price \in Int
    <3>1. arrivals \in Nat /\ orderBook[side] \in Seq(EntriesTo(arrivals)) /\ Len(orderBook[side]) \in Nat
      BY <1>1, MarketTypes
    <3>2. 1 \in 1..Len(orderBook[side])
      BY <2>1, <3>1, EmptySeq
    <3> QED
      BY <3>1, <3>2, EntryFacts
  <2>2. (IF orderBook["Buy"] = <<>> THEN last' - 10 ELSE orderBook["Buy"][1].price) \in Int
    BY <1>5, <2>1 DEF Sides
  <2>3. (IF orderBook["Sell"] = <<>> THEN last' + 10 ELSE orderBook["Sell"][1].price) \in Int
    BY <1>5, <2>1 DEF Sides
  <2> QED
    BY <1>5, <2>2, <2>3 DEF Update
<1>7. iteration' \in 0..MaxIterations
  BY <1>1, MarketAssumption DEF MarketTypeOK, Update
<1>8. MarketTypeOK'
  <2>1. Entries' = Entries /\ Trades' = Trades
    BY <1>3 DEF Entries, Trades
  <2>2. at' \in DOMAIN Steps
    BY <1>2, StepsFacts
  <2> QED
    BY <1>1, <1>3, <1>5, <1>6, <1>7, <2>1, <2>2 DEF MarketTypeOK
<1> QED
  BY <1>4, <1>8 DEF MarketIInv

LEMMA QuotesFacts ==
  ASSUME NEW t \in Traders, NEW q \in Quotes(t)
  PROVE  q.skew \in Int /\ q.size \in Nat
<1>1. t = Momentum \/ t = MeanRev \/ t = Maker
  BY DEF Traders
<1>2. Skews[t] \subseteq Int /\ QuoteSizes[t] \subseteq Nat
  BY MarketAssumption
<1>3. q.skew \in Skews[t] /\ q.size \in QuoteSizes[t]
  <2>1. CASE t = Momentum
    BY <2>1 DEF Quotes, MomentumQuotes, Momentum, MeanRev, Maker
  <2>2. CASE t = MeanRev
    BY <2>2 DEF Quotes, MeanRevQuotes, Momentum, MeanRev, Maker
  <2>3. CASE t = Maker
    BY <2>3 DEF Quotes, MakerQuotes, Momentum, MeanRev, Maker
  <2> QED
    BY <1>1, <2>1, <2>2, <2>3
<1> QED
  BY <1>2, <1>3

LEMMA QuoteStep ==
  ASSUME MarketIInv, NEW t \in Traders, Quote(t)
  PROVE  MarketIInv'
<1>1. MarketTypeOK /\ MarketBook /\ OneOrder
  BY DEF MarketIInv
<1>2. PICK q \in Quotes(t) :
        UpdateQuote(t, market.last + q.skew - HalfSpread[t], market.last + q.skew + HalfSpread[t], q.size)
  BY DEF Quote
<1>3. q.skew \in Int /\ q.size \in Nat
  BY QuotesFacts
<1>4. market.last \in Int /\ HalfSpread[t] \in Int
  BY <1>1, MarketAssumption DEF MarketTypeOK
<1>5. /\ market.last + q.skew - HalfSpread[t] \in Int
      /\ market.last + q.skew + HalfSpread[t] \in Int
  BY <1>3, <1>4
<1>6. /\ arrivals' = arrivals + 2
      /\ orderBook' \in [Sides -> Seq(EntriesTo(arrivals + 2))]
      /\ MarketBook'
      /\ \A side \in Sides : \A k \in 1..Len(orderBook'[side]) :
           orderBook'[side][k].kind = "order" =>
             /\ orderBook'[side][k].trader # t
             /\ \E j \in 1..Len(orderBook[side]) : Same(orderBook'[side][k], orderBook[side][j])
  BY <1>1, <1>2, <1>3, <1>5, QuotedBook
<1>7. UNCHANGED <<last, market, cash, position, own, iteration, fills>>
  BY DEF Quote, accounts
<1>8. (t = Momentum /\ at = 2) \/ (t = MeanRev /\ at = 3) \/ (t = Maker /\ at = 4)
  BY <1>1, QuoteAt DEF Quote
<1>9. at' \in 1..9 /\ (t = Momentum => at' = 3) /\ (t = MeanRev => at' = 4)
  <2>1. at' = (IF t # Maker \/ iteration % OrderEvery = 0 THEN at + 1 ELSE CheckAt) /\ CheckAt = 8
    BY DEF Quote, CheckAt
  <2> QED
    BY <1>8, <2>1 DEF Momentum, MeanRev, Maker
<1>10. MarketTypeOK'
  <2>1. Entries' = EntriesTo(arrivals + 2) /\ Trades' = TradesTo(arrivals + 2)
    BY <1>6 DEF Entries, Trades, EntriesTo, TradesTo
  <2>2. arrivals \in Nat /\ fills \in Seq(TradesTo(arrivals)) /\ arrivals + 2 \in Nat /\ arrivals <= arrivals + 2
    BY <1>1, MarketTypes
  <2>3. fills' \in Seq(TradesTo(arrivals + 2))
    BY <1>7, <2>2, MoreTrades
  <2>4. at' \in DOMAIN Steps
    BY <1>9, StepsFacts
  <2> QED
    BY <1>1, <1>6, <1>7, <2>1, <2>2, <2>3, <2>4 DEF MarketTypeOK
<1>11. ASSUME NEW side \in Sides, NEW k \in 1..Len(orderBook'[side]), orderBook'[side][k].kind = "order"
       PROVE  orderBook'[side][k].trader = MeanRev /\ at' \notin 4..6 /\ HasOrder(side)
  <2>1. PICK j \in 1..Len(orderBook[side]) : Same(orderBook'[side][k], orderBook[side][j])
    BY <1>6, <1>11
  <2>2. orderBook[side][j].kind = "order" /\ orderBook[side][j].trader = orderBook'[side][k].trader
    BY <1>11, <2>1 DEF Same
  <2>3. orderBook[side][j].trader = MeanRev /\ at \notin 4..6 /\ HasOrder(side)
    BY <1>1, <2>2 DEF OneOrder, HasOrder
  <2>4. t # MeanRev
    BY <1>6, <1>11, <2>2, <2>3
  <2>5. t = Momentum
    BY <1>8, <2>3, <2>4
  <2> QED
    BY <1>9, <2>2, <2>3, <2>5
<1>12. OneOrder'
  <2>1. "Buy" \in Sides /\ "Sell" \in Sides
    BY DEF Sides
  <2>2. \A side \in Sides : HasOrder(side)' => HasOrder(side)
    BY <1>11 DEF HasOrder
  <2>3. ~ (HasOrder("Buy")' /\ HasOrder("Sell")')
    BY <1>1, <2>1, <2>2 DEF OneOrder
  <2> QED
    BY <1>11, <2>3 DEF OneOrder
<1> QED
  BY <1>6, <1>10, <1>12 DEF MarketIInv
-----------------------------------------------------------------------------
(* The orders that the traders send *)
LEMMA OrdersFacts ==
  ASSUME MarketTypeOK, NEW t \in Traders, NEW o \in Orders(t)
  PROVE  /\ o.trader = t /\ o.side \in Sides /\ o.qty \in Nat \ {0} /\ o.type \in {"IOC", "Limit"}
         /\ o.type = "Limit" => t = MeanRev
         /\ OrderPrice(o) \in Int
<1>1. t = Momentum \/ t = MeanRev \/ t = Maker
  BY DEF Traders
<1>2. Sizes \subseteq Nat \ {0} /\ Flatten \in Nat \ {0} /\ Aggression[t] \in Int
  BY MarketAssumption
<1>3. position[Maker] \in Int
  BY DEF MarketTypeOK, Traders
<1>4. /\ o.trader = t /\ o.side \in Sides /\ o.qty \in Nat \ {0} /\ o.type \in {"IOC", "Limit"}
      /\ o.type = "Limit" => t = MeanRev
  <2>1. CASE t = Momentum
    <3>1. o \in [trader : {Momentum}, side : Sides, type : {"IOC"}, qty : {s \in Sizes : MayOrder(Momentum, s)}]
      BY <2>1 DEF Orders, MomentumOrders, Momentum, MeanRev, Maker
    <3> QED
      BY <1>2, <2>1, <3>1
  <2>2. CASE t = MeanRev
    <3>1. o \in [trader : {MeanRev}, side : Sides, type : {"Limit"}, qty : {s \in {2} : MayOrder(MeanRev, s)}]
      BY <2>2 DEF Orders, MeanRevOrders, Momentum, MeanRev, Maker
    <3> QED
      BY <2>2, <3>1
  <2>3. CASE t = Maker
    <3>1. o \in MakerOrders
      BY <2>3 DEF Orders, Momentum, MeanRev, Maker
    <3>2. o = [trader |-> Maker, side |-> IF position[Maker] > 0 THEN "Sell" ELSE "Buy",
               type |-> "IOC", qty |-> Most(Abs(position[Maker]) \div 4, Flatten)]
      BY <3>1 DEF MakerOrders
    <3>3. Abs(position[Maker]) \div 4 \in Int
      BY <1>3 DEF Abs
    <3>4. Most(Abs(position[Maker]) \div 4, Flatten) \in Nat \ {0}
      BY <1>2, <3>3 DEF Most
    <3> QED
      BY <2>3, <3>2, <3>4 DEF Sides
  <2> QED
    BY <1>1, <2>1, <2>2, <2>3
<1>5. OrderPrice(o) \in Int
  <2>1. market.last \in Int /\ market.bid \in Int /\ market.ask \in Int /\ Aggression[o.trader] \in Int
    BY <1>2, <1>4 DEF MarketTypeOK
  <2>2. Sign(o.side) * Aggression[o.trader] \in Int
    BY <2>1 DEF Sign
  <2>3. CASE o.type = "IOC"
    BY <1>4, <2>1, <2>3 DEF OrderPrice, Sides
  <2>4. CASE o.type = "Limit"
    <3>1. OrderPrice(o) = market.last - Sign(o.side) * Aggression[o.trader]
      BY <2>4 DEF OrderPrice
    <3> QED
      BY <2>1, <2>2, <3>1
  <2> QED
    BY <1>4, <2>3, <2>4
<1> QED
  BY <1>4, <1>5

(* What a step of SendOrder is: a match of such an order *)
LEMMA SendOrderFacts ==
  ASSUME MarketIInv, NEW t \in Traders, SendOrder(t)
  PROVE  \E o : /\ IsOrder(o) /\ Match(o) /\ o.trader = t
                /\ o.type = "Limit" => t = MeanRev /\ \A side \in Sides :
                     \A n \in 1..Len(orderBook[side]) : orderBook[side][n].kind # "order"
<1>1. MarketTypeOK /\ OneOrder
  BY DEF MarketIInv
<1>2. PICK w \in Orders(t) :
        Match([trader |-> t, side |-> w.side, type |-> w.type, qty |-> w.qty, price |-> OrderPrice(w)])
  BY DEF SendOrder
<1> DEFINE o == [trader |-> t, side |-> w.side, type |-> w.type, qty |-> w.qty, price |-> OrderPrice(w)]
<1>3. IsOrder(o) /\ o.trader = t /\ (o.type = "Limit" => t = MeanRev)
  BY <1>1, OrdersFacts DEF IsOrder
<1>4. t = MeanRev => at = 6
  BY <1>1, OrderAt DEF SendOrder, Momentum, MeanRev, Maker
<1>5. t = MeanRev => \A side \in Sides :
        \A n \in 1..Len(orderBook[side]) : orderBook[side][n].kind # "order"
  BY <1>1, <1>4 DEF OneOrder
<1>6. Match(o)
  BY <1>2
<1> HIDE DEF o
<1> QED
  BY <1>3, <1>5, <1>6

LEMMA SendOrderStep ==
  ASSUME MarketIInv, NEW t \in Traders, SendOrder(t)
  PROVE  MarketIInv' /\ (HoldingsAccounted => HoldingsAccounted')
<1>1. MarketTypeOK /\ MarketBook /\ OneOrder
  BY DEF MarketIInv
<1>2. PICK o : /\ IsOrder(o) /\ Match(o) /\ o.trader = t
               /\ o.type = "Limit" => t = MeanRev /\ \A side \in Sides :
                    \A n \in 1..Len(orderBook[side]) : orderBook[side][n].kind # "order"
  BY SendOrderFacts
<1>3. o.side \in Sides
  BY <1>2 DEF IsOrder
<1>4. /\ arrivals' = arrivals + 1
      /\ orderBook' \in [Sides -> Seq(EntriesTo(arrivals + 1))]
      /\ MarketBook'
      /\ fills' \in Seq(TradesTo(arrivals)) /\ last' \in Int
      /\ \A side \in Sides : \A k \in 1..Len(orderBook'[side]) :
           orderBook'[side][k].kind = "order" =>
             \/ side = o.side /\ o.type = "Limit" /\ orderBook'[side][k].trader = o.trader
             \/ \E j \in 1..Len(orderBook[side]) : Same(orderBook'[side][k], orderBook[side][j])
  BY <1>1, <1>2, <1>3, MatchedBook
<1>5. market' = market /\ iteration' = iteration
  BY DEF SendOrder
<1>6. (t = Momentum /\ at = 5 /\ at' = 6) \/ (t = MeanRev /\ at = 6 /\ at' = 7) \/ (t = Maker /\ at = 7 /\ at' = 8)
  BY <1>1, OrderAt DEF SendOrder
<1> DEFINE start == [position |-> position, cash |-> cash, own |-> own]
           end == Settled(fills')
<1>7. /\ fills' = Matched(o).trades
      /\ position' = end.position /\ cash' = end.cash /\ own' = end.own
  BY <1>2 DEF Match
<1>8. arrivals \in Nat /\ arrivals + 1 \in Nat /\ arrivals <= arrivals + 1
  BY <1>1, MarketTypes
<1>9. start \in Holdings
  BY <1>1 DEF Holdings, MarketTypeOK
<1>10. end \in Holdings /\ (Accounted(start) => Accounted(end))
  BY <1>4, <1>8, <1>9, SettledFacts
<1>11. HoldingsAccounted => HoldingsAccounted'
  <2>1. HoldingsAccounted => Accounted(start)
    BY DEF HoldingsAccounted, Accounted
  <2> HIDE DEF end, start
  <2>2. Accounted(end) => HoldingsAccounted'
    BY <1>7 DEF HoldingsAccounted, Accounted, Total
  <2> QED
    BY <1>10, <2>1, <2>2
<1>12. MarketTypeOK'
  <2> HIDE DEF end
  <2>1. Entries' = EntriesTo(arrivals + 1) /\ Trades' = TradesTo(arrivals + 1)
    BY <1>4 DEF Entries, Trades, EntriesTo, TradesTo
  <2>2. fills' \in Seq(TradesTo(arrivals + 1))
    BY <1>4, <1>8, MoreTrades
  <2>3. at' \in DOMAIN Steps
    BY <1>6, StepsFacts
  <2>4. position' \in [Traders -> Int] /\ cash' \in [Traders -> Int] /\ own' \in [qty : Nat, value : Int]
    BY <1>7, <1>10 DEF Holdings
  <2> QED
    BY <1>1, <1>4, <1>5, <1>8, <2>1, <2>2, <2>3, <2>4 DEF MarketTypeOK
<1>13. OneOrder'
  <2>1. "Buy" \in Sides /\ "Sell" \in Sides
    BY DEF Sides
  <2>2. CASE o.type = "Limit"
    <3>1. t = MeanRev /\ at' = 7
      BY <1>2, <1>6, <2>2 DEF Momentum, MeanRev, Maker
    <3>2. ASSUME NEW side \in Sides, NEW k \in 1..Len(orderBook'[side]), orderBook'[side][k].kind = "order"
          PROVE  side = o.side /\ orderBook'[side][k].trader = MeanRev
      <4>1. ASSUME NEW j \in 1..Len(orderBook[side]), Same(orderBook'[side][k], orderBook[side][j])
            PROVE  FALSE
        BY <1>2, <2>2, <3>2, <4>1 DEF Same
      <4> QED
        BY <1>2, <1>4, <3>1, <3>2, <4>1
    <3>3. ~ (HasOrder("Buy")' /\ HasOrder("Sell")')
      BY <2>1, <3>2 DEF HasOrder
    <3>4. at' \notin 4..6
      BY <3>1
    <3> QED
      BY <3>2, <3>3, <3>4 DEF OneOrder
  <2>3. CASE o.type # "Limit"
    <3>1. ASSUME NEW side \in Sides, NEW k \in 1..Len(orderBook'[side]), orderBook'[side][k].kind = "order"
          PROVE  orderBook'[side][k].trader = MeanRev /\ at' \notin 4..6 /\ HasOrder(side)
      <4>1. PICK j \in 1..Len(orderBook[side]) : Same(orderBook'[side][k], orderBook[side][j])
        BY <1>4, <2>3, <3>1
      <4>2. orderBook[side][j].kind = "order" /\ orderBook[side][j].trader = orderBook'[side][k].trader
        BY <3>1, <4>1 DEF Same
      <4>3. orderBook[side][j].trader = MeanRev /\ at \notin 4..6 /\ HasOrder(side)
        BY <1>1, <4>2 DEF OneOrder, HasOrder
      <4>4. at' \notin 4..6
        BY <1>6, <4>3
      <4> QED
        BY <4>2, <4>3, <4>4
    <3>2. \A side \in Sides : HasOrder(side)' => HasOrder(side)
      BY <3>1 DEF HasOrder
    <3>3. ~ (HasOrder("Buy")' /\ HasOrder("Sell")')
      BY <1>1, <2>1, <3>2 DEF OneOrder
    <3> QED
      BY <3>1, <3>3 DEF OneOrder
  <2> QED
    BY <2>2, <2>3
<1> QED
  BY <1>4, <1>11, <1>12, <1>13 DEF MarketIInv

(* Steps that leave the book and all else alone but for the place in the loop *)
LEMMA IdleStep ==
  ASSUME MarketIInv, UNCHANGED <<books, last, market, accounts, iteration, fills>>, at' \in 1..9,
         at' \notin 4..6 \/ (at \in 4..6 /\ at' \in 4..6)
  PROVE  MarketIInv'
<1>1. MarketTypeOK
  BY DEF MarketIInv
<1>2. UNCHANGED <<orderBook, arrivals, last, market, cash, position, own, iteration, fills>>
  BY DEF books, accounts
<1>3. MarketBook' /\ OneOrder'
  BY <1>2, BookStays
<1>4. Entries' = Entries /\ Trades' = Trades
  BY <1>2 DEF Entries, Trades
<1>5. MarketTypeOK'
  BY <1>1, <1>2, <1>4, StepsFacts DEF MarketTypeOK
<1> QED
  BY <1>3, <1>5 DEF MarketIInv

LEMMA MarketStep == MarketIInv /\ [MarketNext]_marketVars => MarketIInv'
<1> SUFFICES ASSUME MarketIInv, [MarketNext]_marketVars  PROVE MarketIInv'
  OBVIOUS
<1>1. MarketTypeOK
  BY DEF MarketIInv
<1>2. CASE Update
  BY <1>2, UpdateStep
<1>3. ASSUME NEW t \in Traders, Quote(t)  PROVE MarketIInv'
  BY <1>3, QuoteStep
<1>4. ASSUME NEW t \in Traders, SendOrder(t)  PROVE MarketIInv'
  BY <1>4, SendOrderStep
<1>5. ASSUME NEW t \in Traders, NoOrder(t)  PROVE MarketIInv'
  <2>1. at \in 5..7 /\ at' = at + 1
    BY <1>5 DEF NoOrder, OrdersFrom, CheckAt
  <2>2. UNCHANGED <<books, last, market, accounts, iteration, fills>>
    BY <1>5 DEF NoOrder
  <2>3. at' \in 1..9 /\ (at' \notin 4..6 \/ (at \in 4..6 /\ at' \in 4..6))
    BY <2>1
  <2> QED
    BY <2>2, <2>3, IdleStep
<1>6. CASE Check
  <2>1. UNCHANGED <<books, last, market, accounts, iteration, fills>> /\ (at' = 9 \/ at' = 1)
    BY <1>6 DEF Check, Stopped
  <2>2. at' \in 1..9 /\ at' \notin 4..6
    BY <2>1
  <2> QED
    BY <2>1, <2>2, IdleStep
<1>7. CASE UNCHANGED marketVars
  <2>1. UNCHANGED <<orderBook, arrivals, last, market, cash, position, own, iteration, fills, at>>
    BY <1>7 DEF marketVars
  <2>2. at \in 1..9
    BY <1>1, StepsFacts DEF MarketTypeOK
  <2> QED
    BY <2>1, <2>2, IdleStep DEF books, accounts
<1> QED
  BY <1>2, <1>3, <1>4, <1>5, <1>6, <1>7 DEF MarketNext

LEMMA HoldingsStep ==
  ASSUME MarketIInv, HoldingsAccounted, [MarketNext]_marketVars
  PROVE  HoldingsAccounted'
<1>1. ASSUME NEW t \in Traders, SendOrder(t)  PROVE HoldingsAccounted'
  BY <1>1, SendOrderStep
<1>2. CASE UNCHANGED <<cash, position, own>>
  BY <1>2 DEF HoldingsAccounted, Total
<1>3. Update \/ Check \/ (\E t \in Traders : Quote(t) \/ NoOrder(t)) => UNCHANGED <<cash, position, own>>
  BY DEF Update, Check, Quote, NoOrder, accounts
<1> QED
  BY <1>1, <1>2, <1>3 DEF MarketNext, marketVars
-----------------------------------------------------------------------------
(* A side with one entry of each trader and kind is short *)
LEMMA SideBound ==
  ASSUME NEW N \in Nat, NEW s \in Seq(EntriesTo(N)), AllDiffer(s),
         \A n \in 1..Len(s) : s[n].kind = "order" => s[n].trader = MeanRev
  PROVE  /\ Len(s) <= 4
         /\ (\A n \in 1..Len(s) : s[n].kind # "order") => Len(s) <= 3
<1> DEFINE key(n) == IF s[n].kind = "order" THEN 4
                     ELSE IF s[n].trader = Momentum THEN 1 ELSE IF s[n].trader = MeanRev THEN 2 ELSE 3
<1>1. Len(s) \in Nat
  BY LenProperties
<1>2. \A n \in 1..Len(s) : key(n) \in 1..4 /\ (key(n) = 4 <=> s[n].kind = "order")
  OBVIOUS
<1>3. ASSUME NEW m \in 1..Len(s), NEW n \in 1..Len(s), m # n  PROVE key(m) # key(n)
  <2>1. s[m].trader \in Traders /\ s[n].trader \in Traders
        /\ s[m].kind \in {"quote", "order"} /\ s[n].kind \in {"quote", "order"}
    BY EntryFacts
  <2>2. s[m].trader # s[n].trader \/ s[m].kind # s[n].kind
    BY <1>3 DEF AllDiffer, Differ
  <2> QED
    BY <2>1, <2>2 DEF Traders, Momentum, MeanRev, Maker
<1> HIDE DEF key
<1>4. ASSUME Len(s) >= 5  PROVE FALSE
  <2>1. 1 \in 1..Len(s) /\ 2 \in 1..Len(s) /\ 3 \in 1..Len(s) /\ 4 \in 1..Len(s) /\ 5 \in 1..Len(s)
    BY <1>1, <1>4
  <2>2. key(1) \in 1..4 /\ key(2) \in 1..4 /\ key(3) \in 1..4 /\ key(4) \in 1..4 /\ key(5) \in 1..4
    BY <1>2, <2>1
  <2>3. /\ key(1) # key(2) /\ key(1) # key(3) /\ key(1) # key(4) /\ key(1) # key(5)
        /\ key(2) # key(3) /\ key(2) # key(4) /\ key(2) # key(5)
        /\ key(3) # key(4) /\ key(3) # key(5) /\ key(4) # key(5)
    BY <1>3, <2>1
  <2> QED
    BY <2>2, <2>3
<1>5. ASSUME Len(s) >= 4, \A n \in 1..Len(s) : s[n].kind # "order"  PROVE FALSE
  <2>1. 1 \in 1..Len(s) /\ 2 \in 1..Len(s) /\ 3 \in 1..Len(s) /\ 4 \in 1..Len(s)
    BY <1>1, <1>5
  <2>2. key(1) \in 1..3 /\ key(2) \in 1..3 /\ key(3) \in 1..3 /\ key(4) \in 1..3
    BY <1>2, <1>5, <2>1
  <2>3. /\ key(1) # key(2) /\ key(1) # key(3) /\ key(1) # key(4)
        /\ key(2) # key(3) /\ key(2) # key(4) /\ key(3) # key(4)
    BY <1>3, <2>1
  <2> QED
    BY <2>2, <2>3
<1> QED
  BY <1>1, <1>4, <1>5

LEMMA MarketIInvSuffices == MarketIInv => BookInv
<1> SUFFICES ASSUME MarketIInv  PROVE BookInv
  OBVIOUS
<1>1. MarketTypeOK /\ MarketBook /\ OneOrder /\ "Buy" \in Sides /\ "Sell" \in Sides
  BY DEF MarketIInv, Sides
<1>2. \A side \in Sides : /\ orderBook[side] \in Seq(EntriesTo(arrivals)) /\ Len(orderBook[side]) \in Nat
                          /\ DOMAIN orderBook[side] = 1..Len(orderBook[side])
  BY <1>1, MarketTypes, LenProperties
<1>3. OnlyQuotesCross
  <2> SUFFICES ASSUME NEW b \in Range(orderBook["Buy"]), NEW a \in Range(orderBook["Sell"]),
                      b.price >= a.price
               PROVE  (IF b.id > a.id THEN b ELSE a).kind = "quote"
    BY DEF OnlyQuotesCross
  <2>1. PICK m \in 1..Len(orderBook["Buy"]) : b = orderBook["Buy"][m]
    BY <1>1, <1>2 DEF Range
  <2>2. PICK n \in 1..Len(orderBook["Sell"]) : a = orderBook["Sell"][n]
    BY <1>1, <1>2 DEF Range
  <2> QED
    BY <1>1, <2>1, <2>2 DEF MarketBook, QuotesCross, Later
<1>4. BookBounded
  <2>1. arrivals \in Nat
    BY <1>1, MarketTypes
  <2>2. ASSUME NEW side \in Sides
        PROVE  Len(orderBook[side]) <= 4 /\ (~ HasOrder(side) => Len(orderBook[side]) <= 3)
    <3> DEFINE s == orderBook[side]
    <3>1. s \in Seq(EntriesTo(arrivals)) /\ AllDiffer(s)
      BY <1>1, <1>2 DEF MarketBook, SidesInOrder
    <3>2. \A n \in 1..Len(s) : s[n].kind = "order" => s[n].trader = MeanRev
      BY <1>1 DEF OneOrder
    <3>3. ~ HasOrder(side) => \A n \in 1..Len(s) : s[n].kind # "order"
      BY DEF HasOrder
    <3> HIDE DEF s
    <3>4. Len(s) <= 4 /\ ((\A n \in 1..Len(s) : s[n].kind # "order") => Len(s) <= 3)
      BY <2>1, <3>1, <3>2, SideBound
    <3> QED
      BY <3>3, <3>4 DEF s
  <2>3. Len(orderBook["Buy"]) + Len(orderBook["Sell"]) <= 7
    <3>1. ~ HasOrder("Buy") \/ ~ HasOrder("Sell")
      BY <1>1 DEF OneOrder
    <3>2. Len(orderBook["Buy"]) \in Nat /\ Len(orderBook["Sell"]) \in Nat
      BY <1>1, <1>2
    <3>3. /\ Len(orderBook["Buy"]) <= 4 /\ (~ HasOrder("Buy") => Len(orderBook["Buy"]) <= 3)
          /\ Len(orderBook["Sell"]) <= 4 /\ (~ HasOrder("Sell") => Len(orderBook["Sell"]) <= 3)
      BY <1>1, <2>2
    <3>4. \A x, y \in Nat : x <= 4 /\ y <= 4 /\ (x <= 3 \/ y <= 3) => x + y <= 7
      OBVIOUS
    <3>5. Len(orderBook["Buy"]) <= 3 \/ Len(orderBook["Sell"]) <= 3
      BY <3>1, <3>3
    <3> QED
      BY <3>2, <3>3, <3>4, <3>5
  <2> QED
    BY <2>2, <2>3 DEF BookBounded
<1> QED
  BY <1>1, <1>3, <1>4 DEF BookInv

(* A match fills in turn *)
LEMMA MatchInTurn ==
  ASSUME MarketIInv, NEW t \in Traders, SendOrder(t), NEW side \in Sides,
         NEW e \in Range(orderBook[side]), NEW f \in Range(orderBook[side]),
         NEW i \in DOMAIN fills', fills'[i].id = f.id,
         Better(side, e, f) \/ (e.price = f.price /\ e.id < f.id),
         NEW x \in Range(orderBook'[side])
  PROVE  x.id # e.id
<1>1. MarketTypeOK /\ MarketBook
  BY DEF MarketIInv
<1>2. PICK o : IsOrder(o) /\ Match(o)
  BY SendOrderFacts
<1> DEFINE opp == Opposite(o.side)
           s == orderBook[opp]
           m == Matched(o)
<1>3. o.side \in Sides /\ opp \in Sides /\ opp # o.side
  BY <1>2 DEF IsOrder, Sides, Opposite
<1>4. /\ arrivals \in Nat /\ s \in Seq(EntriesTo(arrivals)) /\ Len(s) \in Nat
      /\ Sorted(opp, s) /\ AllDiffer(s) /\ DOMAIN s = 1..Len(s)
  BY <1>1, <1>3, MarketTypes, LenProperties DEF MarketBook, SidesInOrder
<1>5. m \in Matches(arrivals) /\ AfterMeetings(o, s, m, Len(s))
  BY <1>2, <1>4, MatchedFacts
<1>6. m.trades \in Seq(TradesTo(arrivals)) /\ m.rest \in Seq(EntriesTo(arrivals))
  BY <1>5 DEF Matches
<1>7. fills' = m.trades /\ orderBook'[opp] = m.rest
  BY <1>2, <1>3 DEF Match
<1>8. PICK k \in 1..Len(s) : f.id = s[k].id /\ GoneBefore(s, m, k)
  <2>1. i \in 1..Len(m.trades)
    BY <1>6, <1>7, LenProperties
  <2> QED
    BY <1>5, <1>7, <2>1 DEF AfterMeetings, TradedInTurn
<1>9. side = opp
  <2> SUFFICES ASSUME side = o.side  PROVE FALSE
    BY <1>3 DEF Sides, Opposite
  <2>1. PICK j \in 1..Len(orderBook[side]) : f = orderBook[side][j]
    <3>1. DOMAIN orderBook[side] = 1..Len(orderBook[side])
      BY <1>1, MarketTypes, LenProperties
    <3> QED
      BY <3>1 DEF Range
  <2>2. IdsDiffer(orderBook["Buy"], orderBook["Sell"])
    BY <1>1 DEF MarketBook
  <2>3. (side = "Buy" /\ opp = "Sell") \/ (side = "Sell" /\ opp = "Buy")
    BY DEF Sides, Opposite
  <2> QED
    BY <1>8, <2>1, <2>2, <2>3 DEF IdsDiffer
<1>10. PICK j \in 1..Len(s) : e = s[j]
  BY <1>4, <1>9 DEF Range
<1>11. PICK l \in 1..Len(s) : f = s[l]
  BY <1>4, <1>9 DEF Range
<1> HIDE DEF s, m
<1>12. l = k
  BY <1>4, <1>8, <1>11 DEF AllDiffer, Differ
<1>13. j < k
  <2>1. e.price \in Int /\ f.price \in Int /\ e.id \in Int /\ f.id \in Int
    BY <1>4, <1>10, <1>11, EntryFacts
  <2>2. ~ Precedes(opp, f, e) /\ e # f
    BY <1>9, <2>1 DEF Precedes, Better
  <2>3. ~ (k < j)
    BY <1>4, <1>10, <1>11, <1>12, <2>2 DEF Sorted
  <2> QED
    BY <1>4, <1>10, <1>11, <1>12, <2>2, <2>3
<1>14. PICK h \in 1..Len(m.rest) : x = m.rest[h]
  <2>1. DOMAIN m.rest = 1..Len(m.rest)
    BY <1>6, LenProperties
  <2> QED
    BY <1>7, <1>9, <2>1 DEF Range
<1>15. j \in 1..(k - 1)
  BY <1>4, <1>13
<1> QED
  BY <1>8, <1>10, <1>14, <1>15 DEF GoneBefore

LEMMA PriceTimeStep ==
  ASSUME MarketIInv, [MarketNext]_marketVars, NEW side \in Sides,
         NEW e \in Range(orderBook[side]), NEW f \in Range(orderBook[side]),
         NEW i \in DOMAIN fills', fills' # fills, fills'[i].id = f.id,
         Better(side, e, f) \/ (e.price = f.price /\ e.id < f.id),
         NEW x \in Range(orderBook'[side])
  PROVE  x.id # e.id
<1>1. \E t \in Traders : SendOrder(t)
  BY DEF MarketNext, marketVars, Update, Quote, NoOrder, Check
<1> QED
  BY <1>1, MatchInTurn

(* The book of the competition, for any prices, sizes and strategies: it is *)
(* crossed by quotes only, and holds at most four entries on a side and     *)
(* seven in all.                                                            *)
THEOREM MarketBookInvariant == MarketSpec => []BookInv
<1>1. MarketInit => MarketIInv
  BY MarketStart
<1>2. MarketIInv /\ [MarketNext]_marketVars => MarketIInv'
  BY MarketStep
<1>3. MarketIInv => BookInv
  BY MarketIInvSuffices
<1> QED
  BY <1>1, <1>2, <1>3, PTL DEF MarketSpec

(* process_trade of the three traders conserves shares and money over all   *)
(* trades of all matches, but for what a trader buys from itself.           *)
THEOREM MarketHoldings == MarketSpec => []HoldingsAccounted
<1>1. MarketInit => MarketIInv /\ HoldingsAccounted
  BY MarketStart
<1>2. MarketIInv /\ HoldingsAccounted /\ [MarketNext]_marketVars => MarketIInv' /\ HoldingsAccounted'
  BY MarketStep, HoldingsStep
<1> QED
  BY <1>1, <1>2, PTL DEF MarketSpec

(* match_order fills an entry only when those of a better price, and those  *)
(* of its price that came earlier, are gone.                                *)
THEOREM MarketPriority == MarketSpec => PriceTimePriority
<1>1. MarketInit => MarketIInv
  BY MarketStart
<1>2. MarketIInv /\ [MarketNext]_marketVars => MarketIInv'
  BY MarketStep
<1>3. MarketIInv /\ [MarketNext]_marketVars =>
        [\A side \in Sides : \A e, f \in Range(orderBook[side]) :
           /\ \E i \in DOMAIN fills' : fills' # fills /\ fills'[i].id = f.id
           /\ Better(side, e, f) \/ (e.price = f.price /\ e.id < f.id)
           => \A x \in Range(orderBook'[side]) : x.id # e.id]_marketVars
  BY PriceTimeStep
<1> QED
  BY <1>1, <1>2, <1>3, PTL DEF MarketSpec, PriceTimePriority
=============================================================================
