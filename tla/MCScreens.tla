------------------------------ MODULE MCScreens -----------------------------
(* Screens on small sets.                                                   *)
EXTENDS Screens, TLC

(* "1,234.56", which the field shows as "1234.56" when it is edited again; *)
(* "1,234.567", which has a third decimal; and "2.01k".                     *)
TwoDecimals   == [digits |-> 123456, places |-> 2, mixed |-> TRUE, unit |-> 1]
ThirdDecimal  == [digits |-> 1234567, places |-> 3, mixed |-> TRUE, unit |-> 1]
MagnitudeWord == [digits |-> 201, places |-> 2, mixed |-> FALSE, unit |-> 1000]

KindsOfText == {TwoDecimals, ThirdDecimal, MagnitudeWord}

(* 2.01 * 1000 is 2009.9999999999998, here with as many nines as there are  *)
(* integers for.                                                            *)
Products == MagnitudeWord :> [n |-> 2009999, places |-> 3]

(* The queries that a write changes and its hook does not name              *)
KnownGaps ==
    ({"createEntry", "deleteEntry", "createGoal", "updateGoal", "deleteGoal"} \X {"available"})
        \cup {<<"deleteGoal", "goal">>, <<"deleteGoal", "entries">>, <<"splitGoal", "entries">>}
NoGaps == {}

Interchangeable == Permutations(Writes)

=============================================================================
