------------------------------ MODULE MCMarket ------------------------------
(* Market for TLC: a hundred shares are a lot and a few cents a tick. *)
EXTENDS Market

MCHalfSpread == [t \in Traders |-> IF t = Momentum THEN 2 ELSE 1]
MCSkews == [t \in Traders |-> CASE t = Momentum -> {0, 3} [] t = MeanRev -> {-1, 1} [] OTHER -> {-1, 0}]
MCQuoteSizes == [t \in Traders |-> IF t = Momentum THEN {1, 2} ELSE {1}]
MCPosLimit == [t \in Traders |-> IF t = Maker THEN 0 ELSE 3]
MCLeverage == [t \in Traders |-> IF t = Momentum THEN 5 ELSE 3]
MCAggression == [t \in Traders |-> IF t = Momentum THEN 2 ELSE 1]
MCNoise == {-6, 5}
=============================================================================
