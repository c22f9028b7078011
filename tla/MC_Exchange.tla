----------------------------- MODULE MC_Exchange -----------------------------
(* Prices count thirds of a cent, so that the doubles 1.0 - 0.43 and       *)
(* 1.0 - 0.57, which both round above the decimal complement, fall between *)
(* two cents: 43 and 57 cents are 129 and 171.                             *)
EXTENDS Exchange

CONSTANT m1

MCLadders == {NoLevels} \cup {[p \in {q} |-> 2] : q \in Prices}
MCRounding == [p \in OrderPrices \cup Prices |-> IF p \in {129, 171} THEN 1 ELSE 0]
=============================================================================
