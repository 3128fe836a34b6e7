------------------------------- MODULE MCReview -------------------------------
(* Small instances of Review for TLC.                                         *)
EXTENDS Review, TLC

CONSTANTS p1, p2, p3, p4, kA, kB

TwoKeys == {kA, kB}
InOrder == (kA :> 1) @@ (kB :> 2)
TwoAndOne == (kA :> {p1, p2}) @@ (kB :> {p3})
OneAndTwo == (kA :> {p1}) @@ (kB :> {p2, p3})
AllInOne == (kA :> {p1, p2, p3}) @@ (kB :> {})
TwoLayouts == {TwoAndOne, OneAndTwo}
ThreeLayouts == TwoLayouts \cup {AllInOne}
PairAndPair == (kA :> {p1, p2}) @@ (kB :> {p3, p4})
TwoPairs == {PairAndPair}
Nums == 0 .. 2
===============================================================================
