---------------------------- MODULE ScreensProofs ----------------------------
(***************************************************************************)
(* Theorems about Screens, for any number of writes under way.             *)
(***************************************************************************)
EXTENDS Screens, TLAPS

(***************************************************************************)
(* The amount field                                                        *)
(***************************************************************************)
(* What a field can have: an amount that, if short, has no trailing zeros; *)
(* a text of which focus, or a user, can be the author.                    *)
Amounts  == {v \in Amount : v.places <= 2 => Normal(v.n, v.places) = v}
Readable == {t \in Text : t.mixed => t.places <= 4}

LEMMA Tens == 10^0 = 1 /\ 10^1 = 10 /\ 10^2 = 100 /\ 10^3 = 1000 /\ 10^4 = 10000
OBVIOUS

(* Normal takes the trailing zeros away, as far as there are decimals.     *)
LEMMA NormalIs ==
  ASSUME NEW n \in Nat, NEW p \in 0 .. 4
  PROVE  \E z \in 0 .. p : /\ Normal(n, p) = [n |-> n \div 10^z, places |-> p - z]
                           /\ n % 10^z = 0
                           /\ \A r \in (z + 1) .. p : n % 10^r # 0
<1> DEFINE Last(z) == n % 10^z = 0 /\ \A r \in (z + 1) .. p : n % 10^r # 0
<1>1. \E z \in 0 .. p : Last(z)
  <2>1. n % 10^0 = 0
    BY Tens
  <2>2. CASE p = 0
    BY <2>1, <2>2
  <2>3. CASE p = 1
    <3>1. Last(0) \/ Last(1)
      BY <2>1, <2>3
    <3> QED BY <2>3, <3>1
  <2>4. CASE p = 2
    <3>1. Last(0) \/ Last(1) \/ Last(2)
      BY <2>1, <2>4
    <3> QED BY <2>4, <3>1
  <2>5. CASE p = 3
    <3>1. Last(0) \/ Last(1) \/ Last(2) \/ Last(3)
      BY <2>1, <2>5
    <3> QED BY <2>5, <3>1
  <2>6. CASE p = 4
    <3>1. Last(0) \/ Last(1) \/ Last(2) \/ Last(3) \/ Last(4)
      BY <2>1, <2>6
    <3> QED BY <2>6, <3>1
  <2> QED BY <2>2, <2>3, <2>4, <2>5, <2>6
<1> DEFINE z == CHOOSE q \in 0 .. p : Last(q)
<1>2. z \in 0 .. p /\ Last(z)
  BY <1>1
<1>3. Normal(n, p) = [n |-> n \div 10^z, places |-> p - z]
  BY DEF Normal
<1> QED BY <1>2, <1>3

(* The last digit that is left is not zero.                                *)
LEMMA NoZeroLeft ==
  ASSUME NEW n \in Nat, NEW z \in 0 .. 3, n % 10^z = 0, n % 10^(z + 1) # 0
  PROVE  n \div 10^z \in Nat /\ (n \div 10^z) % 10 # 0
<1>1. CASE z = 0
  BY <1>1, Tens
<1>2. CASE z = 1
  <2>1. n % 10 = 0 /\ n % 100 # 0
    BY <1>2, Tens
  <2> QED BY <1>2, <2>1, Tens
<1>3. CASE z = 2
  <2>1. n % 100 = 0 /\ n % 1000 # 0
    BY <1>3, Tens
  <2> QED BY <1>3, <2>1, Tens
<1>4. CASE z = 3
  <2>1. n % 1000 = 0 /\ n % 10000 # 0
    BY <1>4, Tens
  <2> QED BY <1>4, <2>1, Tens
<1> QED BY <1>1, <1>2, <1>3, <1>4

LEMMA NormalAgain ==
  ASSUME NEW n \in Nat, NEW p \in 0 .. 4
  PROVE  Normal(n, p) \in Amounts
<1>1. PICK z \in 0 .. p : /\ Normal(n, p) = [n |-> n \div 10^z, places |-> p - z]
                          /\ n % 10^z = 0
                          /\ \A r \in (z + 1) .. p : n % 10^r # 0
  BY NormalIs
<1> DEFINE m == n \div 10^z
           q == p - z
<1>2. m \in Nat /\ q \in Nat /\ (q # 0 => m % 10 # 0)
  <2>1. CASE q = 0
    <3>1. z \in 0 .. 4 /\ (z = 0 \/ z = 1 \/ z = 2 \/ z = 3 \/ z = 4)
      OBVIOUS
    <3>2. \A d \in {1, 10, 100, 1000, 10000} : n \div d \in Nat
      OBVIOUS
    <3>3. n \div 10^0 \in Nat /\ n \div 10^1 \in Nat /\ n \div 10^2 \in Nat
          /\ n \div 10^3 \in Nat /\ n \div 10^4 \in Nat
      BY <3>2, Tens
    <3>4. n \div 10^z \in Nat
      BY <3>1, <3>3
    <3> QED BY <2>1, <3>4
  <2>2. CASE q # 0
    <3>1. z \in 0 .. 3 /\ z + 1 \in (z + 1) .. p /\ q \in Nat
      BY <2>2
    <3>2. n % 10^z = 0 /\ n % 10^(z + 1) # 0
      BY <1>1, <3>1
    <3>3. n \div 10^z \in Nat /\ (n \div 10^z) % 10 # 0
      BY <3>1, <3>2, NoZeroLeft
    <3> QED BY <3>1, <3>3
  <2> QED BY <2>1, <2>2
<1>3. Normal(n, p) = [n |-> m, places |-> q]
  BY <1>1
<1> HIDE DEF m, q
<1>4. ASSUME q <= 2 PROVE Normal(m, q) = [n |-> m, places |-> q]
  <2>1. q \in 0 .. 4 /\ (q = 0 \/ q = 1 \/ q = 2)
    BY <1>2, <1>4
  <2>2. PICK y \in 0 .. q : Normal(m, q) = [n |-> m \div 10^y, places |-> q - y] /\ m % 10^y = 0
    BY <1>2, <2>1, NormalIs
  <2>3. y = 0 \/ y = 1 \/ y = 2
    BY <2>1
  <2>4. y # 0 => q # 0
    BY <2>1
  <2>5. m % 100 = 0 => m % 10 = 0
    BY <1>2
  <2>6. y = 0
    <3>1. ASSUME y = 1 PROVE m % 10 = 0
      BY <2>2, <3>1, Tens
    <3>2. ASSUME y = 2 PROVE m % 10 = 0
      BY <2>2, <2>5, <3>2, Tens
    <3> QED BY <1>2, <2>3, <2>4, <3>1, <3>2
  <2> QED BY <1>2, <2>2, <2>6, Tens
<1>5. [n |-> m, places |-> q] \in Amount
  BY <1>2 DEF Amount
<1> QED BY <1>3, <1>4, <1>5 DEF Amounts

(* What blur reads, and what focus writes                                  *)
LEMMA BlurredAmount ==
  ASSUME NEW text \in Readable \cup NoNumbers
  PROVE  Blurred(text) \in Amounts \cup NoNumbers
<1>1. CASE text \in NoNumbers
  BY <1>1 DEF Blurred
<1>2. CASE text \notin NoNumbers /\ text \in DOMAIN Missed
  <2>1. Missed[text] \in Amount /\ ~(Missed[text].places <= 2)
    BY <1>2, MissedAssumption DEF Amount
  <2> QED BY <1>2, <2>1 DEF Blurred, ParseFlexibleAmount, Amounts
<1>3. CASE text \notin NoNumbers /\ text \notin DOMAIN Missed
  <2> DEFINE p == IF LooksDecimal(text) THEN text.places ELSE 0
             n == text.digits * text.unit
  <2>1. text \in Text /\ (text.mixed => text.places <= 4)
    BY <1>3 DEF Readable
  <2>2. n \in Nat /\ p \in 0 .. 4
    BY <2>1 DEF Text, LooksDecimal
  <2>3. Blurred(text) = Normal(n, p)
    BY <1>3 DEF Blurred, ParseFlexibleAmount
  <2> HIDE DEF n, p
  <2> QED BY <2>2, <2>3, NormalAgain
<1> QED BY <1>1, <1>2, <1>3

LEMMA FocusReadable ==
  ASSUME NEW v \in Amounts \cup NoNumbers
  PROVE  FocusText(v) \in Readable \cup NoNumbers
<1>1. CASE v \in NoNumbers
  BY <1>1 DEF FocusText
<1>2. CASE v \notin NoNumbers
  <2>1. v.n \in Nat /\ v.places \in Nat
    BY <1>2 DEF Amounts, Amount
  <2> QED BY <1>2, <2>1 DEF FocusText, Readable, Text
<1> QED BY <1>1, <1>2

LEMMA TypedReadable == Texts \subseteq Readable \cup NoNumbers
BY TypedAssumption DEF Texts, Readable

(* The field shows a short amount so that it is read back as it was.       *)
LEMMA RoundTrip ==
  ASSUME NEW v \in Amounts \cup NoNumbers, IsAmount(v), v.places <= 2
  PROVE  Blurred(FocusText(v)) = v
<1>1. v \in Amounts /\ v \notin NoNumbers
  BY DEF IsAmount
<1>2. v.n \in Nat /\ v.places \in Nat /\ Normal(v.n, v.places) = v
  BY <1>1 DEF Amounts, Amount
<1> DEFINE f == [digits |-> v.n, places |-> v.places, mixed |-> FALSE, unit |-> 1]
<1>3. FocusText(v) = f /\ f \in Text
  BY <1>1, <1>2 DEF FocusText, Text
<1>4. f \notin NoNumbers
  BY <1>3, TypedAssumption
<1>5. f \notin DOMAIN Missed
  <2>1. ~(f.unit > 1)
    OBVIOUS
  <2> HIDE DEF f
  <2> QED BY <2>1, MissedAssumption
<1>6. LooksDecimal(f) /\ f.digits * f.unit = v.n /\ f.places = v.places
  BY <1>2 DEF LooksDecimal
<1> HIDE DEF f
<1>7. Blurred(f) = Normal(v.n, v.places)
  BY <1>4, <1>5, <1>6 DEF Blurred, ParseFlexibleAmount
<1> QED BY <1>2, <1>3, <1>7

(***************************************************************************)
(* The query and the writes under way                                      *)
(***************************************************************************)
Witnessed == Awaited(Writes)

(* Of the query as q, mounted or not: if it is late, or will be, its hook  *)
(* is awaited, or it will be fetched again, or kept says why not.          *)
LateOK(q, mounted, awaited) ==
    /\ q.fetch # "idle" /\ EndsLate(q) => awaited \/ q.kept # "no"
    /\ q.fetch = "idle" /\ q.held = "late" =>
          awaited \/ q.kept # "no" \/ q.stamp = "error" \/ (q.stamp = "invalid" /\ ~mounted)
    /\ q.fetch = "idle" => ~q.more /\ (q.stamp = "invalid" => ~mounted)

(* Every hook names what its write changes, or the gap is known.           *)
GapsAreKnown == \A kind \in Kinds : \A k \in Changes(kind) \ Invalidates(kind) : <<kind, k>> \in Gaps

CacheInv ==
    /\ query \in Query
    /\ write \in [Writes -> Write \cup {Nothing}]
    /\ LateOK(query, key \in Mounts(route), Witnessed)

LEMMA QuerySteps ==
  ASSUME NEW q \in Query, NEW b \in BOOLEAN, NEW awaited \in BOOLEAN
  PROVE  /\ Refetched(q) \in Query /\ Mounted(q, b) \in Query /\ FetchedMore(q, awaited) \in Query
         /\ Invalidated(q, b, awaited) \in Query /\ Overtaken(q) \in Query /\ Untold(q) \in Query
         /\ Failed(q) \in Query /\ Unused \in Query /\ Answered(q) \in Query
<1>1. ASSUME NEW r \in Query PROVE Refetched(r) \in Query
  BY DEF Refetched, Query
<1>2. Marked(q, awaited) \in Query /\ FetchedMore(q, awaited) \in Query
  BY DEF Marked, FetchedMore, Query
<1>3. Invalidated(q, b, awaited) \in Query
  <2>1. [q EXCEPT !.stamp = IF q.stamp = "error" THEN q.stamp ELSE "invalid"] \in Query
    BY DEF Query
  <2> QED BY <1>1, <1>2, <2>1 DEF Invalidated
<1>4. Overtaken(q) \in Query /\ Untold(q) \in Query /\ Failed(q) \in Query /\ Unused \in Query
  BY DEF Overtaken, Untold, Failed, Unused, Query
<1>5. Answered(q) \in Query
  BY DEF Answered, Query
<1> QED BY <1>1, <1>2, <1>3, <1>4, <1>5 DEF Mounted

LEMMA LateSteps ==
  ASSUME NEW q \in Query, NEW m \in BOOLEAN, NEW told \in BOOLEAN, LateOK(q, m, told),
         NEW b \in BOOLEAN, NEW more \in BOOLEAN, told => more
  PROVE  /\ LateOK(q, FALSE, more) /\ LateOK(q, m, more)
         /\ LateOK(Mounted(q, b), TRUE, more)
         /\ LateOK(Refetched(q), m, more)
         /\ LateOK(FetchedMore(q, told), m, more)
         /\ LateOK(Failed(q), m, more)
         /\ q.fetch # "idle" => LateOK(Answered(q), b, more)
<1>1. LateOK(q, FALSE, more) /\ LateOK(q, m, more)
  BY DEF LateOK
<1>2. \A n \in BOOLEAN : LateOK(Refetched(q), n, more)
  BY DEF Refetched, LateOK, EndsLate, Query
<1>3. LateOK(Mounted(q, b), TRUE, more)
  <2>1. CASE q.fetch = "idle" /\ (q.held = "none" \/ q.stamp # "valid" \/ b)
    BY <1>2, <2>1 DEF Mounted
  <2>2. CASE ~(q.fetch = "idle" /\ (q.held = "none" \/ q.stamp # "valid" \/ b))
    BY <2>2 DEF Mounted, LateOK, Query
  <2> QED BY <2>1, <2>2
<1>4. LateOK(Failed(q), m, more)
  BY DEF Failed, LateOK, EndsLate, Query
<1>5. q.fetch # "idle" => LateOK(Answered(q), b, more)
  BY DEF Answered, LateOK, EndsLate, Query
<1>6. LateOK(FetchedMore(q, told), m, more)
  <2>1. /\ FetchedMore(q, told).fetch = "sent"
        /\ FetchedMore(q, told).held = q.held
        /\ q.held = "late" /\ ~told => FetchedMore(q, told).kept # "no"
    BY DEF FetchedMore, Query
  <2> QED BY <2>1 DEF LateOK, EndsLate
<1> QED BY <1>1, <1>2, <1>3, <1>4, <1>5, <1>6

LEMMA ToldSteps ==
  ASSUME NEW q \in Query, NEW m \in BOOLEAN, NEW told \in BOOLEAN, LateOK(q, m, told),
         NEW awaited \in BOOLEAN
  PROVE  /\ LateOK(Invalidated(q, m, awaited), m, awaited)
         /\ LateOK(Overtaken(q), m, TRUE)
         /\ LateOK(Untold(q), m, awaited)
<1>1. LateOK(Invalidated(q, m, awaited), m, awaited)
  <2>1. CASE m /\ (q.held # "none" \/ q.fetch = "idle")
    <3>1. [q EXCEPT !.stamp = IF q.stamp = "error" THEN q.stamp ELSE "invalid"] \in Query
      BY DEF Query
    <3>2. \A r \in Query : Refetched(r).fetch = "sent" /\ Refetched(r).more = FALSE
      BY DEF Refetched, Query
    <3> QED BY <2>1, <3>1, <3>2 DEF Invalidated, LateOK, EndsLate
  <2>2. CASE ~(m /\ (q.held # "none" \/ q.fetch = "idle"))
    <3>1. Invalidated(q, m, awaited) = Marked(q, awaited)
      BY <2>2 DEF Invalidated
    <3>2. /\ Marked(q, awaited).fetch = q.fetch /\ Marked(q, awaited).held = q.held
          /\ Marked(q, awaited).more = q.more
          /\ q.held # "none" => Marked(q, awaited).stamp \in {"error", "invalid"}
          /\ EndsLate(q) /\ ~awaited => Marked(q, awaited).kept = "passed"
      BY DEF Marked, Query
    <3>3. EndsLate(Marked(q, awaited)) = EndsLate(q)
      BY <3>2 DEF EndsLate
    <3> QED BY <2>2, <3>1, <3>2, <3>3 DEF LateOK
  <2> QED BY <2>1, <2>2
<1>2. LateOK(Overtaken(q), m, TRUE)
  <2>1. /\ Overtaken(q).stamp = q.stamp /\ Overtaken(q).more = q.more
        /\ Overtaken(q).fetch = "idle" => q.fetch = "idle"
    BY DEF Overtaken, Query
  <2> QED BY <2>1 DEF LateOK
<1>3. LateOK(Untold(q), m, awaited)
  <2>1. /\ Untold(q).stamp = q.stamp /\ Untold(q).more = q.more
        /\ Untold(q).fetch = q.fetch /\ Untold(q).held = q.held
        /\ EndsLate(q) \/ (q.held = "late" /\ q.fetch = "idle" /\ q.stamp = "valid")
              => Untold(q).kept # "no"
    BY DEF Untold, Query
  <2>2. EndsLate(Untold(q)) = EndsLate(q) /\ q.stamp \in {"valid", "invalid", "error"}
    BY <2>1 DEF EndsLate, Query
  <2> QED BY <2>1, <2>2 DEF LateOK
<1> QED BY <1>1, <1>2, <1>3

LEMMA UnusedOK == Unused \in Query /\ \A m, told : LateOK(Unused, m, told)
BY DEF Unused, Query, LateOK, EndsLate

(* Page p is shown over the query as q.                                    *)
LEMMA EnterLate ==
  ASSUME NEW q \in Query, NEW m \in BOOLEAN, NEW told \in BOOLEAN, LateOK(q, m, told),
         NEW more \in BOOLEAN, told => more, NEW p, Enter(p, q), UNCHANGED key
  PROVE  query' \in Query /\ LateOK(query', (key \in Mounts(route))', more)
<1>1. route' = p /\ (key \in Mounts(route))' = (key \in Mounts(p))
  BY DEF Enter, Mounts
<1>2. CASE key \in Mounts(p)
  <2>1. PICK b \in BOOLEAN : query' = Mounted(q, b)
    BY <1>2 DEF Enter
  <2>2. query' \in Query /\ LateOK(query', TRUE, more)
    BY <2>1, QuerySteps, LateSteps
  <2> QED BY <1>1, <1>2, <2>2 DEF LateOK
<1>3. CASE key \notin Mounts(p)
  <2>1. query' = q
    BY <1>3 DEF Enter
  <2>2. LateOK(q, FALSE, more)
    BY LateSteps
  <2> QED BY <1>1, <1>3, <2>1, <2>2 DEF LateOK
<1> QED BY <1>2, <1>3

WriteOK == write \in [Writes -> Write \cup {Nothing}]

(* A write that is under way stays so, and what it is, unless it is w.     *)
WritesKept(w) ==
    \A v \in Writes \ {w} : write[v] # Nothing =>
        write'[v] # Nothing /\ write'[v].stage = write[v].stage /\ write'[v].kind = write[v].kind

LEMMA WitnessKept ==
  ASSUME UNCHANGED key, NEW w, WritesKept(w),
         w \in Writes => write[w] = Nothing \/ write[w].stage # "done" \/ ~Told(write[w].kind)
  PROVE  Witnessed => Witnessed'
<1>1. \A kind : Told(kind) => Told(kind)'
  BY DEF Told
<1> QED BY <1>1 DEF Witnessed, Awaited, WritesKept

LEMMA OthersKept ==
  ASSUME UNCHANGED key, NEW w \in Writes, WritesKept(w)
  PROVE  Awaited(Writes \ {w}) => Witnessed'
<1>1. \A kind : Told(kind) => Told(kind)'
  BY DEF Told
<1> QED BY <1>1 DEF Witnessed, Awaited, WritesKept

LEMMA UnheardWrites ==
  ASSUME WriteOK, NEW kinds
  PROVE  /\ Unheard(kinds) \in [Writes -> Write \cup {Nothing}]
         /\ \A v \in Writes : write[v] # Nothing =>
               /\ Unheard(kinds)[v] # Nothing
               /\ Unheard(kinds)[v].stage = write[v].stage /\ Unheard(kinds)[v].kind = write[v].kind
         /\ \A v \in Writes : Unheard(kinds)[v] # Nothing =>
               /\ write[v] # Nothing
               /\ Unheard(kinds)[v].heard => write[v].heard /\ write[v].kind \notin kinds
<1>1. ASSUME NEW v \in Writes
      PROVE  /\ Unheard(kinds)[v] \in Write \cup {Nothing}
             /\ write[v] # Nothing =>
                  /\ Unheard(kinds)[v] # Nothing
                  /\ Unheard(kinds)[v].stage = write[v].stage /\ Unheard(kinds)[v].kind = write[v].kind
             /\ Unheard(kinds)[v] # Nothing =>
                  /\ write[v] # Nothing
                  /\ Unheard(kinds)[v].heard => write[v].heard /\ write[v].kind \notin kinds
  <2>1. CASE write[v] # Nothing /\ write[v].kind \in kinds
    <3>1. write[v] \in Write /\ Unheard(kinds)[v] = [write[v] EXCEPT !.heard = FALSE]
      BY <2>1 DEF Unheard, WriteOK
    <3>2. /\ Unheard(kinds)[v] \in Write
          /\ Unheard(kinds)[v].stage = write[v].stage /\ Unheard(kinds)[v].kind = write[v].kind
          /\ ~Unheard(kinds)[v].heard
      BY <3>1 DEF Write
    <3> QED BY <2>1, <3>2, NothingAssumption
  <2>2. CASE ~(write[v] # Nothing /\ write[v].kind \in kinds)
    <3>1. Unheard(kinds)[v] = write[v] /\ write[v] \in Write \cup {Nothing}
      BY <2>2 DEF Unheard, WriteOK
    <3> QED BY <2>2, <3>1
  <2> QED BY <2>1, <2>2
<1>2. \A v \in Writes : Unheard(kinds)[v] \in Write \cup {Nothing}
  BY <1>1
<1>3. Unheard(kinds) \in [Writes -> Write \cup {Nothing}]
  <2> DEFINE unheard(v) == IF write[v] # Nothing /\ write[v].kind \in kinds
                           THEN [write[v] EXCEPT !.heard = FALSE] ELSE write[v]
  <2>1. Unheard(kinds) = [v \in Writes |-> unheard(v)]
    BY DEF Unheard
  <2>2. \A v \in Writes : unheard(v) \in Write \cup {Nothing}
    BY <1>2 DEF Unheard
  <2> HIDE DEF unheard
  <2> QED BY <2>1, <2>2
<1> QED BY <1>1, <1>3

LEMMA UnheardKept ==
  ASSUME WriteOK, NEW kinds, write' = Unheard(kinds)
  PROVE  WriteOK' /\ \A w : WritesKept(w)
<1>1. WriteOK'
  BY UnheardWrites DEF WriteOK
<1>2. \A v \in Writes : write[v] # Nothing =>
          write'[v] # Nothing /\ write'[v].stage = write[v].stage /\ write'[v].kind = write[v].kind
  <2>1. \A v \in Writes : write'[v] = Unheard(kinds)[v]
    OBVIOUS
  <2>2. \A v \in Writes : write[v] # Nothing =>
          /\ Unheard(kinds)[v] # Nothing
          /\ Unheard(kinds)[v].stage = write[v].stage /\ Unheard(kinds)[v].kind = write[v].kind
    BY UnheardWrites
  <2> QED BY <2>1, <2>2, Zenon
<1>3. \A w : WritesKept(w)
  BY <1>2 DEF WritesKept
<1> QED BY <1>1, <1>3

LEMMA SendKept ==
  ASSUME WriteOK, NEW w \in Writes, NEW kind \in Kinds, Send(w, kind)
  PROVE  /\ WriteOK' /\ WritesKept(w) /\ write[w] = Nothing
         /\ UNCHANGED <<query, route, goal, listed, listing, rows>>
<1>1. /\ write[w] = Nothing
      /\ write' = [write EXCEPT ![w] = [kind |-> kind, stage |-> "sent", heard |-> TRUE]]
      /\ UNCHANGED <<query, route, goal, listed, listing, rows>>
  BY DEF Send
<1>2. [kind |-> kind, stage |-> "sent", heard |-> TRUE] \in Write
  BY DEF Write
<1> DEFINE new == [kind |-> kind, stage |-> "sent", heard |-> TRUE]
<1>3. write' = [write EXCEPT ![w] = new] /\ new \in Write
  BY <1>1, <1>2
<1> HIDE DEF new
<1>4. WriteOK'
  BY <1>3 DEF WriteOK
<1>5. \A v \in Writes \ {w} : write'[v] = write[v]
  BY <1>3 DEF WriteOK
<1>6. WritesKept(w)
  BY <1>5 DEF WritesKept
<1> QED BY <1>1, <1>4, <1>6

LEMMA CacheInit == Init => CacheInv
<1> SUFFICES ASSUME Init PROVE CacheInv
  OBVIOUS
<1>1. Unused \in Query /\ Mounted(Unused, FALSE) \in Query
  <2>1. FALSE \in BOOLEAN
    OBVIOUS
  <2> QED BY <2>1, UnusedOK, QuerySteps
<1>2. query \in Query
  BY <1>1 DEF Init
<1>3. query.held = "none" /\ query.fetch \in {"idle", "sent"} /\ ~query.more /\ query.stamp = "valid"
  BY DEF Init, Unused, Mounted, Refetched
<1>4. write \in [Writes -> Write \cup {Nothing}]
  BY DEF Init
<1> QED BY <1>2, <1>3, <1>4 DEF CacheInv, LateOK, EndsLate

(* Gestures and answers that leave the queries and the writes alone, or    *)
(* only make a form unheard.                                               *)
LEMMA QuietCache ==
  ASSUME CacheInv, UNCHANGED <<key, query, route>>,
         UNCHANGED write \/ \E kinds : write' = Unheard(kinds)
  PROVE  CacheInv'
<1>1. WriteOK
  BY DEF CacheInv, WriteOK
<1>2. WriteOK' /\ \A w : WritesKept(w)
  BY <1>1, UnheardKept DEF WriteOK, WritesKept
<1>3. Witnessed => Witnessed'
  <2>1. (CHOOSE w : w \notin Writes) \notin Writes
    BY NoSetContainsEverything
  <2> QED BY <1>2, <2>1, WitnessKept
<1>4. (key \in Mounts(route))' = (key \in Mounts(route))
  BY DEF Mounts
<1> QED BY <1>2, <1>3, <1>4 DEF CacheInv, LateOK, EndsLate, WriteOK

LEMMA CacheStep ==
  ASSUME GapsAreKnown, CacheInv, [Next]_vars
  PROVE  CacheInv'
<1> DEFINE mounted == key \in Mounts(route)
<1>0. /\ query \in Query /\ WriteOK /\ LateOK(query, mounted, Witnessed)
      /\ mounted \in BOOLEAN /\ Witnessed \in BOOLEAN /\ Witnessed' \in BOOLEAN /\ UNCHANGED key
  <2>1. query \in Query /\ WriteOK /\ LateOK(query, mounted, Witnessed)
    BY DEF CacheInv, WriteOK
  <2>2. Witnessed \in BOOLEAN /\ Witnessed' \in BOOLEAN
    BY DEF Witnessed, Awaited
  <2>3. UNCHANGED key
    BY DEF Next, vars
  <2> QED BY <2>1, <2>2, <2>3
<1>1. query' \in Query /\ WriteOK' /\ LateOK(query', mounted', Witnessed') => CacheInv'
  BY DEF CacheInv, WriteOK
<1>2. UNCHANGED route => mounted' = mounted
  BY <1>0 DEF Mounts
<1> DEFINE nobody == CHOOSE w : w \notin Writes
<1>3. ASSUME \A w : WritesKept(w) PROVE Witnessed => Witnessed'
  <2>1. nobody \notin Writes
    BY NoSetContainsEverything
  <2> QED BY <1>0, <1>3, <2>1, WitnessKept
<1>4. UNCHANGED write => WriteOK' /\ \A w : WritesKept(w)
  BY <1>0 DEF WriteOK, WritesKept
<1> HIDE DEF mounted, nobody
<1>5. ASSUME NEW p \in Pages, Go(p) PROVE CacheInv'
  <2>1. Enter(p, query) /\ WriteOK' /\ \A w : WritesKept(w)
    BY <1>0, <1>5, UnheardKept DEF Go
  <2>2. Witnessed => Witnessed'
    BY <1>3, <2>1
  <2>3. query' \in Query /\ LateOK(query', mounted', Witnessed')
    BY <1>0, <2>1, <2>2, EnterLate DEF mounted
  <2> QED BY <1>1, <2>1, <2>3
<1>6. CASE Reload
  <2>1. Enter("dashboard", Unused) /\ WriteOK'
    BY <1>6 DEF Reload, WriteOK
  <2>2. Unused \in Query /\ LateOK(Unused, FALSE, FALSE)
    BY UnusedOK
  <2>3. query' \in Query /\ LateOK(query', mounted', Witnessed')
    BY <1>0, <2>1, <2>2, EnterLate DEF mounted
  <2> QED BY <1>1, <2>1, <2>3
<1>7. CASE SignOut
  <2>1. /\ WriteOK' /\ (\A w : WritesKept(w)) /\ query' \in {Unused, query} /\ route' = "login"
    BY <1>0, <1>7, UnheardKept DEF SignOut
  <2>2. mounted' = FALSE
    BY <2>1 DEF mounted, Mounts
  <2>3. Witnessed => Witnessed'
    BY <1>3, <2>1
  <2>4. query' \in Query /\ LateOK(query', FALSE, Witnessed')
    BY <1>0, <2>1, <2>3, UnusedOK, LateSteps
  <2> QED BY <1>1, <2>1, <2>2, <2>4
<1>8. CASE SignIn
  <2>1. Enter("dashboard", Unused) /\ WriteOK'
    BY <1>4, <1>8 DEF SignIn
  <2>2. Unused \in Query /\ LateOK(Unused, FALSE, FALSE)
    BY UnusedOK
  <2>3. query' \in Query /\ LateOK(query', mounted', Witnessed')
    BY <1>0, <2>1, <2>2, EnterLate DEF mounted
  <2> QED BY <1>1, <2>1, <2>3
<1>9. CASE Read
  <2>1. query.fetch = "sent" /\ query' = [query EXCEPT !.fetch = "good"] /\ UNCHANGED <<route, write>>
    BY <1>9 DEF Read
  <2>2. query' \in Query /\ LateOK(query', mounted', Witnessed')
    <3>1. (Witnessed => Witnessed') /\ mounted' = mounted
      BY <1>2, <1>3, <1>4, <2>1
    <3>2. query' \in Query /\ EndsLate(query') => EndsLate(query)
      BY <1>0, <2>1 DEF Query, EndsLate
    <3>3. query' \in Query /\ query'.kept = query.kept /\ query'.fetch # "idle"
      BY <1>0, <2>1 DEF Query
    <3> QED BY <1>0, <2>1, <3>1, <3>2, <3>3 DEF LateOK
  <2> QED BY <1>1, <1>4, <2>1, <2>2
<1>10. CASE Arrive
  <2>1. query.fetch # "idle" /\ query' = Answered(query) /\ UNCHANGED write
    BY <1>10 DEF Arrive
  <2>2. Witnessed => Witnessed'
    BY <1>3, <1>4, <2>1
  <2>3. mounted' \in BOOLEAN
    BY DEF mounted
  <2>4. query' \in Query /\ LateOK(query', mounted', Witnessed')
    BY <1>0, <2>1, <2>2, <2>3, QuerySteps, LateSteps
  <2> QED BY <1>1, <1>4, <2>1, <2>4
<1>11. CASE Fail
  <2>1. /\ query' = Failed(query) /\ UNCHANGED route
        /\ WriteOK' /\ \A w : WritesKept(w)
    BY <1>0, <1>4, <1>11, UnheardKept DEF Fail, GoalError
  <2>2. Witnessed => Witnessed'
    BY <1>3, <2>1
  <2>3. query' \in Query /\ LateOK(query', mounted, Witnessed')
    BY <1>0, <2>1, <2>2, QuerySteps, LateSteps
  <2> QED BY <1>1, <1>2, <2>1, <2>3
<1>12. CASE FailUnfollowed
  BY <1>0, <1>12, QuietCache DEF FailUnfollowed, GoalError
<1>13. CASE Refetch
  <2>1. query' = Refetched(query) /\ UNCHANGED <<route, write>>
    BY <1>13 DEF Refetch
  <2>2. Witnessed => Witnessed'
    BY <1>3, <1>4, <2>1
  <2>3. query' \in Query /\ LateOK(query', mounted, Witnessed')
    BY <1>0, <2>1, <2>2, QuerySteps, LateSteps
  <2> QED BY <1>1, <1>2, <1>4, <2>1, <2>3
<1>22. CASE LoadMore
  <2>1. query' = FetchedMore(query, Witnessed) /\ UNCHANGED <<route, write>>
    BY <1>22 DEF LoadMore, Witnessed
  <2>2. Witnessed => Witnessed'
    BY <1>3, <1>4, <2>1
  <2>3. query' \in Query /\ LateOK(query', mounted, Witnessed')
    BY <1>0, <2>1, <2>2, QuerySteps, LateSteps
  <2> QED BY <1>1, <1>2, <1>4, <2>1, <2>3
<1>14. CASE Focus \/ Blur \/ FillRow \/ OtherDevice \/ \E text \in Texts : Type(text)
  BY <1>0, <1>14, QuietCache DEF Focus, Blur, Type, Edit, FillRow, OtherDevice, CarryOut
<1>15. ASSUME NEW w \in Writes, NEW kind \in Kinds, Send(w, kind) PROVE CacheInv'
  <2>1. WriteOK' /\ WritesKept(w) /\ write[w] = Nothing /\ UNCHANGED <<query, route>>
    BY <1>0, <1>15, SendKept
  <2>2. Witnessed => Witnessed'
    BY <1>0, <2>1, WitnessKept
  <2>3. LateOK(query', mounted', Witnessed')
    BY <1>0, <1>2, <2>1, <2>2, LateSteps
  <2> QED BY <1>0, <1>1, <2>1, <2>3
<1>16. ASSUME NEW w \in Writes, ClickAdd(w) \/ PressEnter(w) PROVE CacheInv'
  <2>1. Send(w, "createEntry") /\ "createEntry" \in Kinds
    BY <1>16 DEF ClickAdd, PressEnter, AddEntry, Kinds
  <2> QED BY <1>15, <2>1
<1>17. ASSUME NEW w \in Writes, Serve(w) PROVE CacheInv'
  <2>1. /\ write[w] \in Write /\ write[w].stage = "sent" /\ UNCHANGED route
        /\ query' = IF Told(write[w].kind) THEN Overtaken(query) ELSE query
        /\ write' = [write EXCEPT ![w] = [write[w] EXCEPT !.stage = "done"]]
    BY <1>0, <1>17 DEF Serve, CarryOut, WriteOK
  <2>2. /\ [write[w] EXCEPT !.stage = "done"] \in Write
        /\ [write[w] EXCEPT !.stage = "done"].kind = write[w].kind
        /\ [write[w] EXCEPT !.stage = "done"].stage = "done"
    BY <2>1 DEF Write
  <2>3. WriteOK' /\ WritesKept(w) /\ write'[w].kind = write[w].kind /\ write'[w].stage = "done"
                /\ write'[w] # Nothing
    BY <1>0, <2>1, <2>2, NothingAssumption DEF WriteOK, WritesKept
  <2>4. Witnessed => Witnessed'
    BY <1>0, <2>1, <2>3, WitnessKept
  <2>5. CASE Told(write[w].kind)
    <3>1. Told(write[w].kind)'
      BY <1>0, <2>3, <2>5 DEF Told
    <3>2. Witnessed'
      BY <2>3, <3>1 DEF Witnessed, Awaited
    <3>3. query' \in Query /\ LateOK(query', mounted, Witnessed')
      BY <1>0, <2>1, <2>5, <3>2, QuerySteps, ToldSteps
    <3> QED BY <1>1, <1>2, <2>1, <2>3, <3>3
  <2>6. CASE ~Told(write[w].kind)
    <3>1. query' \in Query /\ LateOK(query', mounted, Witnessed')
      BY <1>0, <2>1, <2>4, <2>6, LateSteps
    <3> QED BY <1>1, <1>2, <2>1, <2>3, <3>1
  <2> QED BY <2>5, <2>6
<1>18. ASSUME NEW w \in Writes, Succeeded(w) PROVE CacheInv'
  <2> DEFINE kind == write[w].kind
             others == Awaited(Writes \ {w})
             q == IF key \in Invalidates(kind) THEN Invalidated(query, mounted, others) ELSE query
  <2>1. /\ write[w] \in Write /\ kind \in Kinds /\ others \in BOOLEAN
        /\ \/ \E p : Enter(p, q) /\ write' = [Unheard(Kinds) EXCEPT ![w] = Nothing]
           \/ query' = q /\ UNCHANGED route /\ write' = [write EXCEPT ![w] = Nothing]
    <3>1. others \in BOOLEAN
      BY DEF Awaited
    <3> QED BY <1>0, <1>18, <3>1 DEF Succeeded, WriteOK, Write, mounted
  <2>2. WriteOK' /\ WritesKept(w)
    <3>1. CASE write' = [Unheard(Kinds) EXCEPT ![w] = Nothing]
      <4> DEFINE unheard == Unheard(Kinds)
      <4>1. unheard \in [Writes -> Write \cup {Nothing}]
        BY <1>0, UnheardWrites
      <4>2. \A v \in Writes : write[v] # Nothing =>
              unheard[v] # Nothing /\ unheard[v].stage = write[v].stage /\ unheard[v].kind = write[v].kind
        BY <1>0, UnheardWrites
      <4>3. write' = [unheard EXCEPT ![w] = Nothing]
        BY <3>1
      <4> HIDE DEF unheard
      <4>4. WriteOK' /\ \A v \in Writes \ {w} : write'[v] = unheard[v]
        BY <4>1, <4>3 DEF WriteOK
      <4>5. WritesKept(w)
        BY <4>2, <4>4 DEF WritesKept
      <4> QED BY <4>4, <4>5
    <3>2. CASE write' = [write EXCEPT ![w] = Nothing]
      BY <1>0, <3>2 DEF WriteOK, WritesKept
    <3> QED BY <2>1, <3>1, <3>2
  <2>3. q \in Query /\ LateOK(q, mounted, Witnessed')
    <3>1. CASE key \in Invalidates(kind)
      <4>1. others => Witnessed'
        BY <1>0, <2>2, OthersKept
      <4>2. Invalidated(query, mounted, others) \in Query /\ LateOK(Invalidated(query, mounted, others), mounted, others)
        <5> HIDE DEF others
        <5> QED BY <1>0, <2>1, QuerySteps, ToldSteps
      <4>3. LateOK(Invalidated(query, mounted, others), mounted, Witnessed')
        <5> HIDE DEF others
        <5> QED BY <1>0, <2>1, <4>1, <4>2, LateSteps
      <4> QED BY <3>1, <4>2, <4>3
    <3>2. CASE key \notin Invalidates(kind)
      <4>1. ~Told(kind)
        BY <2>1, <3>2 DEF GapsAreKnown, Told
      <4>2. Witnessed => Witnessed'
        BY <1>0, <2>2, <4>1, WitnessKept
      <4> QED BY <1>0, <3>2, <4>2, LateSteps
    <3> QED BY <3>1, <3>2
  <2> HIDE DEF q
  <2>4. query' \in Query /\ LateOK(query', mounted', Witnessed')
    <3>1. ASSUME NEW p, Enter(p, q) PROVE query' \in Query /\ LateOK(query', mounted', Witnessed')
      BY <1>0, <2>3, <3>1, EnterLate DEF mounted
    <3> QED BY <1>2, <2>1, <2>3, <3>1
  <2> QED BY <1>1, <2>2, <2>4
<1>19. ASSUME NEW w \in Writes, Errored(w) PROVE CacheInv'
  <2>1. /\ UNCHANGED route /\ write' = [write EXCEPT ![w] = Nothing]
        /\ query' = IF Awaited({w}) /\ ~Awaited(Writes \ {w}) THEN Untold(query) ELSE query
    BY <1>19 DEF Errored
  <2>2. WriteOK' /\ WritesKept(w)
    BY <1>0, <2>1 DEF WriteOK, WritesKept
  <2>3. query' \in Query /\ LateOK(query', mounted, Witnessed')
    <3>1. CASE Awaited({w}) /\ ~Awaited(Writes \ {w})
      <4>1. query' = Untold(query)
        BY <2>1, <3>1
      <4> QED BY <1>0, <4>1, QuerySteps, ToldSteps
    <3>2. CASE ~(Awaited({w}) /\ ~Awaited(Writes \ {w}))
      <4>1. query' = query
        BY <2>1, <3>2
      <4>2. CASE Awaited(Writes \ {w})
        BY <1>0, <2>2, <4>1, <4>2, OthersKept, LateSteps
      <4>3. CASE ~Awaited({w})
        <5>1. write[w] = Nothing \/ write[w].stage # "done" \/ ~Told(write[w].kind)
          BY <4>3 DEF Awaited
        <5>2. Witnessed => Witnessed'
          BY <1>0, <2>2, <5>1, WitnessKept
        <5> QED BY <1>0, <4>1, <5>2, LateSteps
      <4> QED BY <3>2, <4>2, <4>3
    <3> QED BY <3>1, <3>2
  <2> QED BY <1>1, <1>2, <2>1, <2>2, <2>3
<1>20. CASE UNCHANGED vars
  BY <1>20, QuietCache DEF vars
<1>21. ASSUME NEW w \in Writes, NEW kind \in Kinds, Submit(w, kind) PROVE CacheInv'
  BY <1>15, <1>21 DEF Submit
<1> QED BY <1>5, <1>6, <1>7, <1>8, <1>9, <1>10, <1>11, <1>12, <1>13, <1>14, <1>16, <1>17, <1>18,
           <1>19, <1>20, <1>21, <1>22 DEF Next

(* For any number of writes under way: what a write has changed is shown as*)
(* it was only while its answer is to come, while it is fetched, or could  *)
(* not be.  Excepted are the gaps, which have to be known, lost answers,   *)
(* loads that an invalidation does not cancel, and pages kept by Load more.*)
THEOREM LateReplaced == ASSUME GapsAreKnown PROVE Spec => []LateIsReplaced
<1>1. CacheInv => LateIsReplaced
  BY DEF CacheInv, LateOK, Witnessed, LateIsReplaced
<1>2. CacheInv /\ [Next]_vars => CacheInv'
  BY CacheStep
<1> QED BY <1>1, <1>2, CacheInit, PTL DEF Spec

(***************************************************************************)
(* The form of the entries                                                 *)
(***************************************************************************)
FormTexts == Readable \cup NoNumbers
Forms     == [value : Amounts \cup NoNumbers, text : FormTexts \cup {Nothing},
              draft : {"none", "typed", "sent"}]

(* A form waits for the answer of a new entry only on the page of a goal.  *)
HeardInv ==
    \A w \in Writes :
        write[w] # Nothing /\ write[w].heard /\ write[w].kind = "createEntry" => route = "goal"

CoreOK == key \in Keys /\ query \in Query /\ goal \in {"unborn", "alive", "deleted"}
          /\ listed \in BOOLEAN /\ listing \in BOOLEAN
RowsOK == /\ route \in Pages \cup {"login", "crashed"}
          /\ rows \in {"none", "without", "blank", "filled"}
          /\ rows # "none" => route \in {"split", "crashed"}
FormOK == form \in Forms /\ (form # Blank => route = "goal")

ScreensInv == TypeOK /\ form \in Forms /\ HeardInv

LEMMA FormsTyped ==
  Forms \subseteq [value : Amount \cup NoNumbers, text : Text \cup NoNumbers \cup {Nothing},
                  draft : {"none", "typed", "sent"}]
BY DEF Forms, FormTexts, Amounts, Readable

LEMMA ScreensInvIs == ScreensInv <=> CoreOK /\ RowsOK /\ FormOK /\ WriteOK /\ HeardInv
BY FormsTyped DEF ScreensInv, TypeOK, CoreOK, RowsOK, FormOK, WriteOK

LEMMA BlankForm == Blank \in Forms /\ Empty \in NoNumbers
BY DEF Blank, Forms, NoNumbers

(* Leaving the field, and the reset, give a form as it may be.             *)
LEMMA FormSteps ==
  ASSUME NEW f \in Forms
  PROVE  /\ Left(f) \in Forms
         /\ ResetForm(f) \in Forms
         /\ f.text = Nothing => [f EXCEPT !.text = FocusText(f.value)] \in Forms
         /\ \A t \in Texts : [f EXCEPT !.text = t, !.draft = "typed"] \in Forms
         /\ [f EXCEPT !.draft = IF @ = "typed" THEN "sent" ELSE @] \in Forms
<1>1. f.value \in Amounts \cup NoNumbers /\ f.text \in FormTexts \cup {Nothing}
      /\ f.draft \in {"none", "typed", "sent"}
  BY DEF Forms
<1>2. FocusText(f.value) \in FormTexts
  BY <1>1, FocusReadable DEF FormTexts
<1>3. Texts \subseteq FormTexts
  BY TypedReadable DEF FormTexts
<1>4. f.text # Nothing => Blurred(f.text) \in Amounts \cup NoNumbers
  BY <1>1, BlurredAmount DEF FormTexts
<1>5. f.text # Nothing => [f EXCEPT !.value = Blurred(f.text), !.text = Nothing] \in Forms
  BY <1>4 DEF Forms
<1>6. Left(f) \in Forms
  BY <1>5 DEF Left
<1>7. ResetForm(f) \in Forms
  BY <1>1, <1>2, BlankForm DEF ResetForm, Forms
<1>8. [f EXCEPT !.text = FocusText(f.value)] \in Forms
  BY <1>2 DEF Forms
<1>9. \A t \in Texts : [f EXCEPT !.text = t, !.draft = "typed"] \in Forms
  BY <1>3 DEF Forms
<1>10. [f EXCEPT !.draft = IF @ = "typed" THEN "sent" ELSE @] \in Forms
  BY <1>1 DEF Forms
<1> QED BY <1>6, <1>7, <1>8, <1>9, <1>10

LEMMA DraftedRows ==
  \A isListed : Drafted(isListed) \subseteq {"without", "blank", "filled"}
BY DEF Drafted

LEMMA EnterTypes ==
  ASSUME NEW p \in Pages, NEW q \in Query, Enter(p, q)
  PROVE  query' \in Query /\ RowsOK' /\ FormOK'
<1>1. query' \in Query
  BY QuerySteps DEF Enter
<1>2. route' = p /\ form' = Blank
      /\ (rows' = "none" \/ (p = "split" /\ rows' \in {"without", "blank", "filled"}))
  <2>1. route' = p /\ form' = Blank /\ rows' \in IF p = "split" /\ key = "dashboard" /\ q.held # "none"
                                                THEN Drafted(listed) ELSE {"none"}
    BY DEF Enter
  <2> QED BY <2>1, DraftedRows
<1>3. RowsOK'
  BY <1>2 DEF RowsOK
<1>4. FormOK'
  BY <1>2, BlankForm DEF FormOK
<1> QED BY <1>1, <1>3, <1>4

(* No form waits any more for an answer to a write of these kinds.         *)
LEMMA UnheardHeard ==
  ASSUME WriteOK, HeardInv, NEW kinds, write' = Unheard(kinds),
         "createEntry" \in kinds \/ UNCHANGED route
  PROVE  WriteOK' /\ HeardInv'
<1>1. WriteOK'
  BY UnheardWrites DEF WriteOK
<1>2. ASSUME NEW w \in Writes, write'[w] # Nothing, write'[w].heard, write'[w].kind = "createEntry"
      PROVE  route' = "goal"
  <2>1. Unheard(kinds)[w] # Nothing /\ Unheard(kinds)[w].heard /\ Unheard(kinds)[w].kind = "createEntry"
    BY <1>2
  <2>2. write[w] # Nothing /\ write[w].heard /\ write[w].kind \notin kinds
    BY <2>1, UnheardWrites
  <2>3. write[w].kind = "createEntry"
    BY <2>1, <2>2, UnheardWrites
  <2> QED BY <2>2, <2>3 DEF HeardInv
<1> QED BY <1>1, <1>2 DEF HeardInv

LEMMA SendHeard ==
  ASSUME WriteOK, HeardInv, NEW w \in Writes, NEW kind \in Kinds, Send(w, kind),
         kind = "createEntry" => route = "goal"
  PROVE  HeardInv'
<1>1. /\ write' = [write EXCEPT ![w] = [kind |-> kind, stage |-> "sent", heard |-> TRUE]]
      /\ UNCHANGED route
  BY DEF Send
<1>2. /\ \A v \in Writes \ {w} : write'[v] = write[v]
      /\ write'[w].kind = kind
  BY <1>1 DEF WriteOK
<1> QED BY <1>1, <1>2 DEF HeardInv

LEMMA ScreensInit == Init => ScreensInv
<1> SUFFICES ASSUME Init PROVE ScreensInv
  OBVIOUS
<1>1. CoreOK
  <2>1. Unused \in Query /\ FALSE \in BOOLEAN
    BY UnusedOK
  <2>2. Mounted(Unused, FALSE) \in Query
    BY <2>1, QuerySteps
  <2> QED BY <2>1, <2>2 DEF Init, CoreOK
<1>2. RowsOK
  BY DEF Init, RowsOK, Pages
<1>3. FormOK
  BY BlankForm DEF Init, FormOK
<1>4. WriteOK /\ HeardInv
  BY DEF Init, WriteOK, HeardInv
<1> QED BY <1>1, <1>2, <1>3, <1>4, ScreensInvIs

LEMMA ScreensStep ==
  ASSUME ScreensInv, [Next]_vars
  PROVE  ScreensInv'
<1>0. CoreOK /\ RowsOK /\ FormOK /\ WriteOK /\ HeardInv /\ UNCHANGED key
  BY ScreensInvIs DEF Next, vars
<1>1. CoreOK' /\ RowsOK' /\ FormOK' /\ WriteOK' /\ HeardInv' => ScreensInv'
  <2>1. FormOK' => form' \in [value : Amount \cup NoNumbers, text : Text \cup NoNumbers \cup {Nothing},
                              draft : {"none", "typed", "sent"}]
    BY FormsTyped DEF FormOK
  <2> QED BY <2>1 DEF ScreensInv, TypeOK, CoreOK, RowsOK, FormOK, WriteOK, HeardInv
<1>2. UNCHANGED <<route, write>> => WriteOK' /\ HeardInv'
  BY <1>0 DEF WriteOK, HeardInv
<1>3. UNCHANGED <<route, rows>> => RowsOK'
  BY <1>0 DEF RowsOK
<1>4. UNCHANGED <<route, form>> => FormOK'
  BY <1>0 DEF FormOK
<1>5. query' \in Query /\ UNCHANGED <<goal, listed, listing>> => CoreOK'
  BY <1>0 DEF CoreOK
<1>6. query \in Query /\ form \in Forms
  BY <1>0 DEF CoreOK, FormOK
<1>7. ASSUME NEW p \in Pages, Go(p) PROVE ScreensInv'
  <2>1. /\ Enter(p, query) /\ write' = Unheard(Kinds) /\ UNCHANGED <<goal, listed, listing>>
    BY <1>7 DEF Go
  <2>2. "createEntry" \in Kinds
    BY DEF Kinds
  <2>3. WriteOK' /\ HeardInv'
    BY <1>0, <2>1, <2>2, UnheardHeard
  <2>4. query' \in Query /\ RowsOK' /\ FormOK'
    BY <1>6, <2>1, EnterTypes
  <2> QED BY <1>1, <1>5, <2>1, <2>3, <2>4
<1>8. CASE Reload
  <2>1. /\ Enter("dashboard", Unused) /\ write' = [w \in Writes |-> Nothing]
        /\ listed' = FALSE /\ listing' = FALSE /\ UNCHANGED goal /\ "dashboard" \in Pages
    BY <1>8 DEF Reload, Pages
  <2>2. WriteOK' /\ HeardInv'
    BY <2>1 DEF WriteOK, HeardInv
  <2>3. query' \in Query /\ RowsOK' /\ FormOK'
    BY <1>6, <2>1, EnterTypes, QuerySteps
  <2>4. CoreOK'
    BY <1>0, <2>1, <2>3 DEF CoreOK
  <2> QED BY <1>1, <2>2, <2>3, <2>4
<1>9. CASE SignOut
  <2>1. /\ route' = "login" /\ rows' = "none" /\ form' = Blank /\ query' \in {Unused, query}
        /\ write' = Unheard(Kinds) /\ UNCHANGED <<goal, listed, listing>> /\ "createEntry" \in Kinds
    BY <1>9 DEF SignOut, Kinds
  <2>2. WriteOK' /\ HeardInv'
    BY <1>0, <2>1, UnheardHeard
  <2>3. RowsOK' /\ FormOK'
    BY <2>1, BlankForm DEF RowsOK, FormOK
  <2>4. query' \in Query
    BY <1>6, <2>1, QuerySteps
  <2> QED BY <1>1, <1>5, <2>1, <2>2, <2>3, <2>4
<1>10. CASE SignIn
  <2>1. /\ Enter("dashboard", Unused) /\ route = "login" /\ UNCHANGED write
        /\ listed' = FALSE /\ listing' = FALSE /\ UNCHANGED goal /\ "dashboard" \in Pages
    BY <1>10 DEF SignIn, Pages
  <2>2. WriteOK' /\ HeardInv'
    BY <1>0, <2>1 DEF WriteOK, HeardInv
  <2>3. query' \in Query /\ RowsOK' /\ FormOK'
    BY <1>6, <2>1, EnterTypes, QuerySteps
  <2>4. CoreOK'
    BY <1>0, <2>1, <2>3 DEF CoreOK
  <2> QED BY <1>1, <2>2, <2>3, <2>4
<1>11. CASE Read
  <2>1. /\ query' = [query EXCEPT !.fetch = "good"] /\ listing' \in BOOLEAN
        /\ UNCHANGED <<route, goal, listed, rows, form, write>>
    BY <1>11 DEF Read
  <2>2. query' \in Query
    BY <1>6, <2>1 DEF Query
  <2>3. CoreOK'
    BY <1>0, <2>1, <2>2 DEF CoreOK
  <2> QED BY <1>1, <1>2, <1>3, <1>4, <2>1, <2>3
<1>12. CASE Arrive
  <2>1. /\ query' = Answered(query) /\ query.fetch \in {"good", "late"}
        /\ listed' = listing /\ listing' = FALSE /\ UNCHANGED <<goal, form, write>>
        /\ route' = IF rows = "without" /\ listing THEN "crashed" ELSE route
        /\ rows' = rows \/ (route = "split" /\ rows = "none" /\ rows' \in {"without", "blank", "filled"})
    <3>1. rows' \in IF route = "split" /\ key = "dashboard" /\ rows = "none" THEN Drafted(listing) ELSE {rows}
      BY <1>12 DEF Arrive
    <3>2. rows' = rows \/ (route = "split" /\ rows = "none" /\ rows' \in {"without", "blank", "filled"})
      BY <3>1, DraftedRows
    <3> QED BY <1>12, <3>2 DEF Arrive
  <2>2. CoreOK'
    BY <1>0, <1>6, <2>1, QuerySteps DEF CoreOK
  <2>3. RowsOK'
    BY <1>0, <2>1 DEF RowsOK
  <2>4. route = "goal" => route' = "goal"
    BY <1>0, <2>1 DEF RowsOK
  <2>5. FormOK' /\ WriteOK' /\ HeardInv'
    BY <1>0, <2>1, <2>4 DEF FormOK, WriteOK, HeardInv
  <2> QED BY <1>1, <2>2, <2>3, <2>5
<1>13. CASE GoalError /\ UNCHANGED <<route, goal, listed, listing, rows>> /\ query' \in {query, Failed(query)}
  <2>1. form' = Blank /\ write' = Unheard({"createEntry", "deleteEntry"})
    BY <1>13 DEF GoalError
  <2>2. WriteOK' /\ HeardInv'
    BY <1>0, <1>13, <2>1, UnheardHeard
  <2>3. FormOK'
    BY <2>1, BlankForm DEF FormOK
  <2>4. query' \in Query
    BY <1>6, <1>13, QuerySteps
  <2> QED BY <1>1, <1>3, <1>5, <1>13, <2>2, <2>3, <2>4
<1>14. CASE Fail
  <2>1. CASE key = "goal" /\ route = "goal"
    BY <1>13, <1>14, <2>1 DEF Fail
  <2>2. CASE ~(key = "goal" /\ route = "goal")
    <3>1. query' = Failed(query) /\ UNCHANGED <<form, write, route, goal, listed, listing, rows>>
      BY <1>14, <2>2 DEF Fail
    <3>2. query' \in Query
      BY <1>6, <3>1, QuerySteps
    <3> QED BY <1>1, <1>2, <1>3, <1>4, <1>5, <3>1, <3>2
  <2> QED BY <2>1, <2>2
<1>15. CASE FailUnfollowed
  BY <1>13, <1>15 DEF FailUnfollowed
<1>16. CASE Refetch
  <2>1. query' = Refetched(query) /\ UNCHANGED <<route, goal, listed, listing, rows, form, write>>
    BY <1>16 DEF Refetch
  <2>2. query' \in Query
    BY <1>6, <2>1, QuerySteps
  <2> QED BY <1>1, <1>2, <1>3, <1>4, <1>5, <2>1, <2>2
<1>29. CASE LoadMore
  <2>1. query' = FetchedMore(query, Awaited(Writes)) /\ UNCHANGED <<route, goal, listed, listing, rows, form, write>>
    BY <1>29 DEF LoadMore
  <2>2. Awaited(Writes) \in BOOLEAN
    BY DEF Awaited
  <2>3. query' \in Query
    BY <1>6, <2>1, <2>2, QuerySteps
  <2> QED BY <1>1, <1>2, <1>3, <1>4, <1>5, <2>1, <2>3
<1>17. ASSUME NEW f \in Forms, Edit(f) PROVE ScreensInv'
  <2>1. form' = f /\ route = "goal" /\ UNCHANGED <<query, route, goal, listed, listing, rows, write>>
    BY <1>17 DEF Edit, FormMounted
  <2>2. FormOK'
    BY <2>1 DEF FormOK
  <2> QED BY <1>1, <1>2, <1>3, <1>5, <1>6, <2>1, <2>2
<1>18. CASE Focus \/ Blur \/ \E text \in Texts : Type(text)
  <2>1. CASE Focus
    BY <1>6, <1>17, <2>1, FormSteps DEF Focus
  <2>2. CASE Blur
    BY <1>6, <1>17, <2>2, FormSteps DEF Blur
  <2>3. ASSUME NEW text \in Texts, Type(text) PROVE ScreensInv'
    BY <1>6, <1>17, <2>3, FormSteps DEF Type
  <2> QED BY <1>18, <2>1, <2>2, <2>3
<1>19. CASE FillRow
  <2>1. rows = "blank" /\ rows' = "filled" /\ UNCHANGED <<query, route, goal, listed, listing, form, write>>
    BY <1>19 DEF FillRow
  <2>2. RowsOK'
    BY <1>0, <2>1 DEF RowsOK
  <2> QED BY <1>1, <1>2, <1>4, <1>5, <1>6, <2>1, <2>2
<1>20. ASSUME NEW kind, CarryOut(kind), UNCHANGED query \/ query' = Overtaken(query), WriteOK', HeardInv'
       PROVE  ScreensInv'
  <2>1. goal' \in {"alive", "deleted", goal} /\ UNCHANGED <<route, listed, listing, rows, form>>
    BY <1>20 DEF CarryOut
  <2>2. query' \in Query
    BY <1>6, <1>20, QuerySteps
  <2>3. CoreOK'
    BY <1>0, <2>1, <2>2 DEF CoreOK
  <2> QED BY <1>1, <1>3, <1>4, <1>20, <2>1, <2>3
<1>21. CASE OtherDevice
  <2>1. UNCHANGED <<query, write, route>> /\ \E kind : CarryOut(kind)
    BY <1>21 DEF OtherDevice, CarryOut
  <2> QED BY <1>2, <1>20, <2>1
<1>22. ASSUME NEW w \in Writes, NEW kind \in Kinds, Submit(w, kind) PROVE ScreensInv'
  <2>1. Send(w, kind) /\ UNCHANGED form /\ kind # "createEntry"
    BY <1>22 DEF Submit, Offers
  <2>2. WriteOK' /\ HeardInv' /\ UNCHANGED <<query, route, goal, listed, listing, rows>>
    BY <1>0, <2>1, SendKept, SendHeard
  <2> QED BY <1>1, <1>3, <1>4, <1>5, <1>6, <2>1, <2>2
<1>23. ASSUME NEW w \in Writes, ClickAdd(w) \/ PressEnter(w) PROVE ScreensInv'
  <2>1. PICK f \in {form, Left(form)} : AddEntry(w, f)
    BY <1>23 DEF ClickAdd, PressEnter
  <2>2. route = "goal" /\ Send(w, "createEntry") /\ "createEntry" \in Kinds
        /\ form' = [f EXCEPT !.draft = IF @ = "typed" THEN "sent" ELSE @]
    BY <2>1 DEF AddEntry, Kinds
  <2>3. WriteOK' /\ HeardInv' /\ UNCHANGED <<query, route, goal, listed, listing, rows>>
    BY <1>0, <2>2, SendKept, SendHeard
  <2>4. f \in Forms
    BY <1>6, FormSteps
  <2>5. FormOK'
    BY <2>2, <2>3, <2>4, FormSteps DEF FormOK
  <2> QED BY <1>1, <1>3, <1>5, <1>6, <2>3, <2>5
<1>24. ASSUME NEW w \in Writes, Serve(w) PROVE ScreensInv'
  <2> DEFINE new == [write[w] EXCEPT !.stage = "done"]
  <2>1. /\ write[w] \in Write /\ CarryOut(write[w].kind) /\ UNCHANGED route
        /\ UNCHANGED query \/ query' = Overtaken(query)
        /\ write' = [write EXCEPT ![w] = new]
    BY <1>0, <1>24 DEF Serve, CarryOut, WriteOK
  <2>2. new \in Write /\ new.kind = write[w].kind /\ new.heard = write[w].heard
    BY <2>1 DEF Write
  <2> HIDE DEF new
  <2>3. WriteOK' /\ \A v \in Writes : write'[v] = IF v = w THEN new ELSE write[v]
    BY <1>0, <2>1, <2>2 DEF WriteOK
  <2>4. write[w] # Nothing
    BY <1>24 DEF Serve
  <2>5. HeardInv'
    BY <1>0, <2>1, <2>2, <2>3, <2>4 DEF HeardInv
  <2> QED BY <1>20, <2>1, <2>3, <2>5
<1>25. ASSUME NEW w \in Writes, NEW u \in [Writes -> Write \cup {Nothing}], write' = [u EXCEPT ![w] = Nothing]
       PROVE  WriteOK' /\ \A v \in Writes : write'[v] = IF v = w THEN Nothing ELSE u[v]
  BY <1>25 DEF WriteOK
<1>26. ASSUME NEW w \in Writes, Errored(w) PROVE ScreensInv'
  <2>1. /\ query' \in {query, Untold(query)} /\ write' = [write EXCEPT ![w] = Nothing]
        /\ UNCHANGED <<route, goal, listed, listing, rows, form>>
    BY <1>26 DEF Errored
  <2>2. WriteOK' /\ \A v \in Writes : write'[v] = IF v = w THEN Nothing ELSE write[v]
    BY <1>0, <1>25, <2>1 DEF WriteOK
  <2>3. HeardInv'
    BY <1>0, <2>1, <2>2 DEF HeardInv
  <2>4. query' \in Query
    BY <1>6, <2>1, QuerySteps
  <2> QED BY <1>1, <1>3, <1>4, <1>5, <2>1, <2>2, <2>3, <2>4
<1>27. ASSUME NEW w \in Writes, Succeeded(w) PROVE ScreensInv'
  <2> DEFINE kind == write[w].kind
             mounted == key \in Mounts(route)
             others == Awaited(Writes \ {w})
             q == IF key \in Invalidates(kind) THEN Invalidated(query, mounted, others) ELSE query
             next == {"createGoal", "deleteGoal", "split", "splitGoal", "budget"}
  <2>1. q \in Query
    <3>1. mounted \in BOOLEAN /\ others \in BOOLEAN
      BY DEF Awaited
    <3> HIDE DEF mounted, others
    <3> QED BY <1>6, <3>1, QuerySteps
  <2>2. write[w] # Nothing /\ UNCHANGED <<goal, listed, listing>>
    BY <1>27 DEF Succeeded
  <2>3. CASE write[w].heard /\ kind \in next
    <3>1. PICK p \in {"goal", "dashboard"} : Enter(p, q)
      BY <1>27, <2>3 DEF Succeeded
    <3>2. write' = [Unheard(Kinds) EXCEPT ![w] = Nothing]
      BY <1>27, <2>3 DEF Succeeded
    <3> HIDE DEF q
    <3>3. query' \in Query /\ RowsOK' /\ FormOK'
      <4>1. p \in Pages
        BY DEF Pages
      <4> QED BY <2>1, <3>1, <4>1, EnterTypes
    <3>4. Unheard(Kinds) \in [Writes -> Write \cup {Nothing}]
      BY <1>0, UnheardWrites
    <3>5. WriteOK' /\ \A v \in Writes : write'[v] = IF v = w THEN Nothing ELSE Unheard(Kinds)[v]
      BY <1>25, <3>2, <3>4
    <3>6. HeardInv'
      <4>1. ASSUME NEW v \in Writes, Unheard(Kinds)[v] # Nothing, Unheard(Kinds)[v].heard PROVE FALSE
        <5>1. write[v] # Nothing /\ write[v].kind \notin Kinds
          BY <1>0, <4>1, UnheardWrites
        <5> QED BY <1>0, <5>1 DEF WriteOK, Write
      <4> QED BY <3>5, <4>1 DEF HeardInv
    <3> QED BY <1>1, <1>5, <2>2, <3>3, <3>5, <3>6
  <2>4. CASE ~(write[w].heard /\ kind \in next)
    <3>1. /\ query' = q /\ write' = [write EXCEPT ![w] = Nothing] /\ UNCHANGED <<route, rows>>
          /\ form' = IF write[w].heard /\ kind = "createEntry" /\ key = "goal" THEN ResetForm(form) ELSE form
      BY <1>27, <2>4 DEF Succeeded
    <3>2. WriteOK' /\ \A v \in Writes : write'[v] = IF v = w THEN Nothing ELSE write[v]
      BY <1>0, <1>25, <3>1 DEF WriteOK
    <3>3. HeardInv'
      BY <1>0, <3>1, <3>2 DEF HeardInv
    <3>4. FormOK'
      <4>1. CASE write[w].heard /\ kind = "createEntry" /\ key = "goal"
        <5>1. route = "goal"
          BY <1>0, <2>2, <4>1 DEF HeardInv
        <5>2. form' \in Forms
          BY <1>6, <3>1, <4>1, FormSteps
        <5> QED BY <3>1, <5>1, <5>2 DEF FormOK
      <4>2. CASE ~(write[w].heard /\ kind = "createEntry" /\ key = "goal")
        BY <1>4, <3>1, <4>2
      <4> QED BY <4>1, <4>2
    <3> HIDE DEF q
    <3> QED BY <1>1, <1>3, <1>5, <2>1, <2>2, <3>1, <3>2, <3>3, <3>4
  <2> QED BY <2>3, <2>4
<1>28. CASE UNCHANGED vars
  BY <1>1, <1>2, <1>3, <1>4, <1>5, <1>6, <1>28 DEF vars
<1> QED BY <1>7, <1>8, <1>9, <1>10, <1>11, <1>12, <1>14, <1>15, <1>16, <1>18, <1>19, <1>21, <1>22,
           <1>23, <1>24, <1>26, <1>27, <1>28, <1>29 DEF Next

LEMMA ScreensInvariant == Spec => []ScreensInv
<1>1. ScreensInv /\ [Next]_vars => ScreensInv'
  BY ScreensStep
<1> QED BY <1>1, ScreensInit, PTL DEF Spec

(* The pages, their forms and their writes keep to their types: a form has *)
(* an amount only on the page of a goal, and a draft of a split only there,*)
(* whatever numbers are typed and whatever doubles make of them.           *)
THEOREM ScreensTypeCorrect == Spec => []TypeOK
BY ScreensInvariant, PTL DEF ScreensInv

(* Passing through the amount field without typing leaves an amount of at  *)
(* most two decimals as it is, whatever was typed, read and passed through *)
(* before, inexact products included.                                      *)
THEOREM VisitsKeepAmounts == Spec => []VisitKeepsAmount
<1>1. ScreensInv => VisitKeepsAmount
  <2>1. ScreensInv => form.value \in Amounts \cup NoNumbers
    BY DEF ScreensInv, Forms
  <2> QED BY <2>1, RoundTrip DEF VisitKeepsAmount
<1> QED BY <1>1, ScreensInvariant, PTL

=============================================================================
