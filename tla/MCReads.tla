------------------------------- MODULE MCReads ------------------------------
(* Reads on small sets.                                                     *)
EXTENDS Reads

(* a deadline that passes, and one in the second month                      *)
SmallGoals == {[target |-> 2500, currency |-> "JPY", deadline |-> 0],
               [target |-> 2500, currency |-> "VND", deadline |-> 35]}

(* the target and the deadline put off                                      *)
PutOff == {[target |-> 4000, deadline |-> 35]}

RisingQuote == [d \in 0 .. LastDay |-> 3 + d]

(* a month with little left, and one that is refused                        *)
SmallSettings == {[income |-> 2500, expenses |-> 600, currency |-> "JPY"],
                  [income |-> 2500, expenses |-> -600, currency |-> "JPY"]}

OverspentSettings == {[income |-> 1000, expenses |-> 1500, currency |-> "JPY"]}

=============================================================================
