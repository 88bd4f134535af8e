----------------------------- MODULE AmountInput ----------------------------
(***************************************************************************)
(* The money field of the web app: amount-input.tsx over parse-amount.ts.  *)
(*                                                                         *)
(* A typed number is its digits, how many of them follow the last          *)
(* separator, whether both separators occur, and the magnitude word after  *)
(* it.  An amount is n / 10^places, without trailing zeros, as String()    *)
(* writes it.  A double of few enough digits is the number that was typed, *)
(* and String() and Number() are inverse; but a decimal times a magnitude  *)
(* word is a product of doubles, which may miss: "2.01k" is                *)
(* 2009.9999999999998, and "4.03k" 4030.0000000000005.  Below 10^13 such a *)
(* neighbour of the exact product has more than two decimals.              *)
(***************************************************************************)
EXTENDS Integers

CONSTANTS
    Typed,      \* the number texts a user types
    Missed,     \* what doubles make of those whose product they miss
    Empty,      \* nothing in the field
    Unreadable  \* other texts that do not parse

Text   == [digits : Nat, places : Nat, mixed : BOOLEAN, unit : Nat \ {0}]
Amount == [n : Nat, places : Nat]

NoNumbers == {Empty} \cup Unreadable

ASSUME TypedAssumption ==
    /\ Typed \subseteq {t \in Text : t.places <= 4}
    /\ \A text \in NoNumbers : text \notin Text /\ text \notin Amount

ASSUME MissedAssumption ==
    \A t \in DOMAIN Missed :
        t.places > 0 /\ t.unit > 1 /\ Missed[t] \in Amount /\ Missed[t].places > 2

Texts == Typed \cup NoNumbers

Normal(n, p) ==
    LET z == CHOOSE q \in 0..p : n % 10^q = 0 /\ \A r \in (q + 1)..p : n % 10^r # 0
    IN  [n |-> n \div 10^z, places |-> p - z]

(* Mutant: two digits after the separator are a group.                     *)
OneDigitIsDecimal(t) == t.mixed \/ t.places <= 1

(* normalizeGroupedNumber: a lone separator with at most two digits after  *)
(* it is the decimal point, with more it groups; of two, the last decides. *)
LooksDecimal(t) == t.mixed \/ t.places <= 2

ParseFlexibleAmount(t) ==
    IF t \in DOMAIN Missed THEN Missed[t]
    ELSE Normal(t.digits * t.unit, IF LooksDecimal(t) THEN t.places ELSE 0)

(* handleBlur: what does not parse is passed through as it is.             *)
Blurred(text) ==
    IF text \in NoNumbers THEN text ELSE ParseFlexibleAmount(text)

(* handleFocus: the field shows the plain number while it is edited.       *)
FocusText(value) ==
    IF value \in NoNumbers THEN value
    ELSE [digits |-> value.n, places |-> value.places, mixed |-> FALSE, unit |-> 1]

IsAmount(value) == value \notin NoNumbers

=============================================================================
