--------------------------- MODULE RateAlertsProofs ---------------------------
(***************************************************************************)
(* Theorems about RateAlerts, for any users, any finite sets of alerts and *)
(* of concurrent creations, and any cap.                                   *)
(***************************************************************************)
EXTENDS RateAlerts, FiniteSetTheorems, TLAPS

alertVars == <<alert, creating>>

AlertsInv == AlertsTypeOK /\ AlertBudget

(* The steps of the service, each named.                                   *)
LEMMA AlertsCases ==
  ASSUME AlertsNext
  PROVE  \/ \E c \in Creators : CreateFails(c)
         \/ \E c \in Creators, u \in Users : CreateCount(c, u)
         \/ \E c \in Creators, a \in Alerts, d \in {"ABOVE", "BELOW"}, t \in Thresholds,
               on \in BOOLEAN : CreateInsert(c, a, d, t, on)
         \/ \E u \in Users, a \in Alerts, d \in {"ABOVE", "BELOW"}, t \in Thresholds,
               on \in BOOLEAN : UpdateAlert(u, a, d, t, on)
         \/ \E u \in Users, a \in Alerts : RemoveAlert(u, a)
  BY DEF AlertsNext

(***************************************************************************)
(* Counting                                                                *)
(***************************************************************************)
LEMMA AlertCounts ==
  ASSUME NEW u
  PROVE  /\ IsFiniteSet(AlertsOf(u)) /\ Cardinality(AlertsOf(u)) \in Nat
         /\ IsFiniteSet(Pending(u)) /\ Cardinality(Pending(u)) \in Nat
         /\ Cardinality(Pending(u)) <= Cardinality(Creators)
         /\ Cardinality(Creators) \in Nat \ {0}
<1>1. AlertsOf(u) \in SUBSET Alerts /\ Pending(u) \in SUBSET Creators
  BY DEF AlertsOf, Pending
<1>2. /\ IsFiniteSet(AlertsOf(u)) /\ IsFiniteSet(Pending(u))
      /\ Cardinality(Pending(u)) <= Cardinality(Creators)
  BY <1>1, FS_Subset, AlertsAssumption, CreatorsAssumption
<1>3. Cardinality(Creators) \in Nat /\ Cardinality(Creators) # 0
  BY FS_CardinalityType, FS_EmptySet, CreatorsAssumption
<1> QED BY <1>2, <1>3, FS_CardinalityType

(* Fewer alerts and fewer creations stay within the budget, ...            *)
LEMMA BudgetShrinks ==
  ASSUME NEW u \in Users, AlertBudget,
         AlertsOf(u)' \subseteq AlertsOf(u), Pending(u)' \subseteq Pending(u)
  PROVE  Cardinality(AlertsOf(u)') + Cardinality(Pending(u)') < MaxAlerts + Cardinality(Creators)
<1>1. /\ Cardinality(AlertsOf(u)') <= Cardinality(AlertsOf(u)) /\ IsFiniteSet(AlertsOf(u)')
      /\ Cardinality(Pending(u)') <= Cardinality(Pending(u)) /\ IsFiniteSet(Pending(u)')
  BY AlertCounts, FS_Subset
<1>2. Cardinality(AlertsOf(u)') \in Nat /\ Cardinality(Pending(u)') \in Nat
  BY <1>1, FS_CardinalityType
<1>3. Cardinality(AlertsOf(u)) + Cardinality(Pending(u)) < MaxAlerts + Cardinality(Creators)
  BY DEF AlertBudget
<1> QED BY <1>1, <1>2, <1>3, AlertCounts, MaxAlertsAssumption

(* ... and so does an insert, which turns a creation into an alert.        *)
LEMMA BudgetSpent ==
  ASSUME NEW u \in Users, AlertBudget, NEW c \in Pending(u), NEW a,
         AlertsOf(u)' \subseteq AlertsOf(u) \cup {a}, Pending(u)' \subseteq Pending(u) \ {c}
  PROVE  Cardinality(AlertsOf(u)') + Cardinality(Pending(u)') < MaxAlerts + Cardinality(Creators)
<1>0. Cardinality(AlertsOf(u)) \in Nat /\ IsFiniteSet(AlertsOf(u))
  BY AlertCounts
<1>1. /\ IsFiniteSet(AlertsOf(u) \cup {a})
      /\ Cardinality(AlertsOf(u) \cup {a}) <= Cardinality(AlertsOf(u)) + 1
      /\ Cardinality(AlertsOf(u) \cup {a}) \in Nat
  <2>1. /\ IsFiniteSet(AlertsOf(u) \cup {a})
        /\ Cardinality(AlertsOf(u) \cup {a}) =
             IF a \in AlertsOf(u) THEN Cardinality(AlertsOf(u)) ELSE Cardinality(AlertsOf(u)) + 1
    BY <1>0, FS_AddElement
  <2> QED BY <1>0, <2>1
<1>2. /\ IsFiniteSet(Pending(u) \ {c})
      /\ Cardinality(Pending(u) \ {c}) = Cardinality(Pending(u)) - 1
      /\ Cardinality(Pending(u) \ {c}) \in Nat
  BY AlertCounts, FS_RemoveElement, FS_CardinalityType
<1>3. /\ Cardinality(AlertsOf(u)') <= Cardinality(AlertsOf(u) \cup {a}) /\ IsFiniteSet(AlertsOf(u)')
      /\ Cardinality(Pending(u)') <= Cardinality(Pending(u) \ {c}) /\ IsFiniteSet(Pending(u)')
  BY <1>1, <1>2, FS_Subset
<1>4. Cardinality(AlertsOf(u)') \in Nat /\ Cardinality(Pending(u)') \in Nat
  BY <1>3, FS_CardinalityType
<1>5. Cardinality(AlertsOf(u)) + Cardinality(Pending(u)) < MaxAlerts + Cardinality(Creators)
  BY DEF AlertBudget
<1> QED BY <1>1, <1>2, <1>3, <1>4, <1>5, AlertCounts, MaxAlertsAssumption

(***************************************************************************)
(* The invariant                                                           *)
(***************************************************************************)
LEMMA AlertsInitInv == AlertsInit => AlertsInv
<1> SUFFICES ASSUME AlertsInit PROVE AlertsInv
  OBVIOUS
<1>1. AlertsTypeOK
  BY DEF AlertsInit, AlertsTypeOK, AlertRow
<1>2. AlertBudget
  <2> SUFFICES ASSUME NEW u \in Users
               PROVE  Cardinality(AlertsOf(u)) + Cardinality(Pending(u))
                        < MaxAlerts + Cardinality(Creators)
    BY DEF AlertBudget
  <2>1. AlertsOf(u) = {} /\ Pending(u) = {}
    BY NothingAssumption DEF AlertsInit, AlertsOf, Pending, Present, NoAlert
  <2>2. Cardinality({}) = 0
    BY FS_EmptySet
  <2> QED BY <2>1, <2>2, AlertCounts, MaxAlertsAssumption
<1> QED BY <1>1, <1>2 DEF AlertsInv

LEMMA AlertsTypeStep ==
  ASSUME AlertsTypeOK, [AlertsNext]_alertVars
  PROVE  AlertsTypeOK'
<1> USE DEF AlertsTypeOK
<1>1. ASSUME NEW c \in Creators, CreateFails(c) PROVE AlertsTypeOK'
  BY <1>1 DEF CreateFails
<1>2. ASSUME NEW c \in Creators, NEW u \in Users, CreateCount(c, u) PROVE AlertsTypeOK'
  BY <1>2 DEF CreateCount
<1>3. ASSUME NEW c \in Creators, NEW a \in Alerts, NEW d \in {"ABOVE", "BELOW"},
             NEW t \in Thresholds, NEW on \in BOOLEAN, CreateInsert(c, a, d, t, on)
      PROVE  AlertsTypeOK'
  <2>1. creating[c] \in Users
    BY <1>3 DEF CreateInsert, NewAlert
  <2>2. [NoAlert EXCEPT !.row = "present", !.userId = creating[c], !.direction = d,
                        !.threshold = t, !.active = on] \in AlertRow
    BY <2>1 DEF NoAlert, AlertRow
  <2> QED BY <1>3, <2>2 DEF CreateInsert, NewAlert
<1>4. ASSUME NEW u \in Users, NEW a \in Alerts, NEW d \in {"ABOVE", "BELOW"},
             NEW t \in Thresholds, NEW on \in BOOLEAN, UpdateAlert(u, a, d, t, on)
      PROVE  AlertsTypeOK'
  <2>1. alert[a].row = "present" /\ alert[a] \in AlertRow
    BY <1>4 DEF UpdateAlert, AlertsOf, Present
  <2> DEFINE PresentRow == [row: {"present"}, userId: Users, direction: {"ABOVE", "BELOW"},
                            threshold: Thresholds, active: BOOLEAN, lastTriggeredRate: Nat]
  <2>2. alert[a] \in PresentRow
    BY <2>1 DEF NoAlert, Deleted, AlertRow
  <2>3. [alert[a] EXCEPT !.direction = d, !.threshold = t, !.active = on] \in PresentRow
    BY <2>2
  <2>4. [alert[a] EXCEPT !.direction = d, !.threshold = t, !.active = on] \in AlertRow
    BY <2>3 DEF AlertRow
  <2> QED BY <1>4, <2>4 DEF UpdateAlert
<1>5. ASSUME NEW u \in Users, NEW a \in Alerts, RemoveAlert(u, a) PROVE AlertsTypeOK'
  BY <1>5 DEF RemoveAlert, AlertRow
<1>6. CASE UNCHANGED alertVars
  BY <1>6 DEF alertVars
<1> QED BY <1>1, <1>2, <1>3, <1>4, <1>5, <1>6, AlertsCases

LEMMA BudgetKept ==
  ASSUME AlertsInv, [AlertsNext]_alertVars
  PROVE  AlertBudget'
<1> SUFFICES ASSUME NEW u \in Users
             PROVE  Cardinality(AlertsOf(u)') + Cardinality(Pending(u)')
                      < MaxAlerts + Cardinality(Creators)
  BY DEF AlertBudget, AlertsOf, Pending, Present
<1> USE DEF AlertsInv, AlertsTypeOK
<1>1. ASSUME NEW c \in Creators, CreateFails(c)
      PROVE  AlertsOf(u)' \subseteq AlertsOf(u) /\ Pending(u)' \subseteq Pending(u)
  BY <1>1, NothingAssumption DEF CreateFails, AlertsOf, Present, Pending
(* A creation joins while the alerts are below the cap; it was not pending *)
(* before, so that at most all the others were.                            *)
<1>2. ASSUME NEW c \in Creators, NEW v \in Users, CreateCount(c, v)
      PROVE  Cardinality(AlertsOf(u)') + Cardinality(Pending(u)')
                      < MaxAlerts + Cardinality(Creators)
  <2>1. AlertsOf(u)' = AlertsOf(u)
    BY <1>2 DEF CreateCount, AlertsOf, Present
  <2>2. CASE u # v
    <3>1. Pending(u)' \subseteq Pending(u)
      BY <1>2, <2>2 DEF CreateCount, Pending
    <3> QED BY <2>1, <3>1, BudgetShrinks
  <2>3. CASE u = v
    <3>1. Cardinality(AlertsOf(u)) < MaxAlerts
      BY <1>2, <2>3 DEF CreateCount, BelowCap
    <3>2. Pending(u)' \in SUBSET Creators
      BY DEF Pending
    <3>3. IsFiniteSet(Pending(u)') /\ Cardinality(Pending(u)') <= Cardinality(Creators)
      BY <3>2, FS_Subset, CreatorsAssumption
    <3>4. Cardinality(Pending(u)') \in Nat
      BY <3>3, FS_CardinalityType
    <3> QED BY <2>1, <3>1, <3>3, <3>4, AlertCounts, MaxAlertsAssumption
  <2> QED BY <2>2, <2>3
<1>3. ASSUME NEW c \in Creators, NEW a \in Alerts, NEW d \in {"ABOVE", "BELOW"},
             NEW t \in Thresholds, NEW on \in BOOLEAN, CreateInsert(c, a, d, t, on)
      PROVE  Cardinality(AlertsOf(u)') + Cardinality(Pending(u)')
                      < MaxAlerts + Cardinality(Creators)
  <2>1. Pending(u)' \subseteq Pending(u) \ {c}
    BY <1>3, NothingAssumption DEF CreateInsert, Pending
  <2>2. AlertsOf(u)' \subseteq AlertsOf(u) \cup {a}
    BY <1>3 DEF CreateInsert, NewAlert, AlertsOf, Present
  <2>3. CASE creating[c] = u
    <3>1. c \in Pending(u)
      BY <2>3 DEF Pending
    <3> QED BY <2>1, <2>2, <3>1, BudgetSpent
  <2>4. CASE creating[c] # u
    <3>1. alert' = [alert EXCEPT ![a] = [NoAlert EXCEPT
              !.row = "present", !.userId = creating[c], !.direction = d,
              !.threshold = t, !.active = on]]
      BY <1>3 DEF CreateInsert, NewAlert
    <3>2. alert'[a].userId = creating[c]
      BY <3>1 DEF NoAlert
    <3>3. AlertsOf(u)' \subseteq AlertsOf(u)
      BY <2>4, <3>1, <3>2 DEF AlertsOf, Present
    <3> QED BY <2>1, <3>3, BudgetShrinks
  <2> QED BY <2>3, <2>4
<1>4. ASSUME NEW v \in Users, NEW a \in Alerts, NEW d \in {"ABOVE", "BELOW"},
             NEW t \in Thresholds, NEW on \in BOOLEAN, UpdateAlert(v, a, d, t, on)
      PROVE  AlertsOf(u)' \subseteq AlertsOf(u) /\ Pending(u)' \subseteq Pending(u)
  <2>1. /\ alert'[a].row = alert[a].row /\ alert'[a].userId = alert[a].userId
        /\ \A b \in Alerts : b # a => alert'[b] = alert[b]
        /\ creating' = creating
    <3>1. alert[a].row = "present" /\ alert[a] \in AlertRow
      BY <1>4 DEF UpdateAlert, AlertsOf, Present
    <3>2. alert' = [alert EXCEPT ![a] = [alert[a] EXCEPT
              !.direction = d, !.threshold = t, !.active = on]]
      BY <1>4 DEF UpdateAlert
    <3> QED BY <1>4, <3>1, <3>2 DEF UpdateAlert, AlertRow, NoAlert, Deleted
  <2> QED BY <2>1 DEF AlertsOf, Present, Pending
<1>5. ASSUME NEW v \in Users, NEW a \in Alerts, RemoveAlert(v, a)
      PROVE  AlertsOf(u)' \subseteq AlertsOf(u) /\ Pending(u)' \subseteq Pending(u)
  <2>1. alert' = [alert EXCEPT ![a] = Deleted] /\ creating' = creating
    BY <1>5 DEF RemoveAlert
  <2>2. alert'[a].row = "deleted"
    BY <2>1 DEF Deleted, NoAlert
  <2> QED BY <2>1, <2>2 DEF AlertsOf, Present, Pending
<1>6. CASE UNCHANGED alertVars
  BY <1>6, BudgetShrinks DEF alertVars, AlertsOf, Present, Pending
<1> QED BY <1>1, <1>2, <1>3, <1>4, <1>5, <1>6, AlertsCases, BudgetShrinks

THEOREM AlertsInvariant == AlertsSpec => []AlertsInv
<1>1. AlertsInv /\ [AlertsNext]_alertVars => AlertsInv'
  BY AlertsTypeStep, BudgetKept DEF AlertsInv
<1> QED BY AlertsInitInv, <1>1, PTL DEF AlertsSpec, alertVars

(* The alert table is always well typed.                                   *)
THEOREM AlertsTypeCorrect == AlertsSpec => []AlertsTypeOK
<1>1. AlertsInv => AlertsTypeOK
  BY DEF AlertsInv
<1> QED BY <1>1, AlertsInvariant, PTL

(* Alerts and the creations on their way never use up the cap and all the  *)
(* creators together, ...                                                  *)
THEOREM BudgetHolds == AlertsSpec => []AlertBudget
<1>1. AlertsInv => AlertBudget
  BY DEF AlertsInv
<1> QED BY <1>1, AlertsInvariant, PTL

(* ... so the creations that pass the count of rate-alerts.service.ts      *)
(* together overshoot the cap by less than their number.                   *)
THEOREM CapOvershoot == AlertsSpec => []AlertCapOvershoot
<1>1. AlertsInv => AlertCapOvershoot
  BY AlertCounts, MaxAlertsAssumption DEF AlertsInv, AlertBudget, AlertCapOvershoot
<1> QED BY <1>1, AlertsInvariant, PTL

(* One creation at a time: the cap holds.                                  *)
THEOREM SerialCap ==
  ASSUME Cardinality(Creators) = 1
  PROVE  AlertsSpec => []AlertCap
<1>1. AlertCapOvershoot => AlertCap
  BY AlertCounts, MaxAlertsAssumption DEF AlertCapOvershoot, AlertCap
<1> QED BY <1>1, CapOvershoot, PTL

=============================================================================
