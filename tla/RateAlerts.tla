----------------------------- MODULE RateAlerts -----------------------------
(***************************************************************************)
(* The RateAlert table and the handlers of rate-alerts.service.ts.         *)
(* create counts the user's alerts and then inserts, with an await between *)
(* the two; update and remove are one statement scoped to the user.        *)
(***************************************************************************)
EXTENDS Naturals, FiniteSets

CONSTANTS
    Users,
    Alerts,         \* alert ids, each used once
    Creators,       \* creations that may be in flight at the same time
    MaxAlerts,      \* MAX_ALERTS_PER_USER
    Thresholds,     \* positive: anything else is refused before the first await
    Nothing         \* null

ASSUME AlertsAssumption     == IsFiniteSet(Alerts)
ASSUME CreatorsAssumption   == IsFiniteSet(Creators) /\ Creators # {}
ASSUME MaxAlertsAssumption  == MaxAlerts \in Nat \ {0}
ASSUME ThresholdsAssumption == Thresholds \subseteq Nat \ {0}
ASSUME NothingAssumption    == Nothing \notin Users

VARIABLES
    alert,      \* rows of RateAlert
    creating    \* the user of each creation that has passed the count, or Nothing

NoAlert == [row |-> "absent", userId |-> Nothing, direction |-> "ABOVE", threshold |-> 0,
            active |-> FALSE, lastTriggeredRate |-> 0]
Deleted == [NoAlert EXCEPT !.row = "deleted"]
(* lastTriggeredRate is 0 for null *)
AlertRow == {NoAlert, Deleted} \cup
            [row: {"present"}, userId: Users, direction: {"ABOVE", "BELOW"},
             threshold: Thresholds, active: BOOLEAN, lastTriggeredRate: Nat]

AlertsTypeOK ==
    /\ alert \in [Alerts -> AlertRow]
    /\ creating \in [Creators -> Users \cup {Nothing}]

AlertsInit ==
    /\ alert = [a \in Alerts |-> NoAlert]
    /\ creating = [c \in Creators |-> Nothing]

Present(a)  == alert[a].row = "present"
AlertsOf(u) == {a \in Alerts : Present(a) /\ alert[a].userId = u}
Pending(u)  == {c \in Creators : creating[c] = u}

(* Operators headed "Mutant" are slips that could be made in the code: the *)
(* one below each would replace.  They are not part of Next; each breaks a *)
(* property that the definition itself satisfies.                          *)

(* Mutant: the limit is off by one.                                        *)
AtMostCap(u) == Cardinality(AlertsOf(u)) <= MaxAlerts

BelowCap(u) == Cardinality(AlertsOf(u)) < MaxAlerts

(* count({ userId }) < MAX_ALERTS_PER_USER, or 400 alertLimitReached *)
CreateCount(c, u) ==
    /\ creating[c] = Nothing
    /\ BelowCap(u)
    /\ creating' = [creating EXCEPT ![c] = u]
    /\ UNCHANGED alert

(* Mutant: the alert is created for nobody.                                *)
AlertOfNobody(u, direction, threshold, active) ==
    [NoAlert EXCEPT !.row = "present", !.direction = direction,
                    !.threshold = threshold, !.active = active]

NewAlert(u, direction, threshold, active) ==
    [NoAlert EXCEPT !.row = "present", !.userId = u, !.direction = direction,
                    !.threshold = threshold, !.active = active]

CreateInsert(c, a, direction, threshold, active) ==
    /\ creating[c] # Nothing
    /\ alert[a].row = "absent"
    /\ alert' = [alert EXCEPT ![a] = NewAlert(creating[c], direction, threshold, active)]
    /\ creating' = [creating EXCEPT ![c] = Nothing]

CreateFails(c) ==
    /\ creating[c] # Nothing
    /\ creating' = [creating EXCEPT ![c] = Nothing]
    /\ UNCHANGED alert

(* updateMany({ id, userId }): any of the three fields *)
UpdateAlert(u, a, direction, threshold, active) ==
    /\ a \in AlertsOf(u)
    /\ alert' = [alert EXCEPT ![a] = [@ EXCEPT
            !.direction = direction, !.threshold = threshold, !.active = active]]
    /\ UNCHANGED creating

RemoveAlert(u, a) ==
    /\ a \in AlertsOf(u)
    /\ alert' = [alert EXCEPT ![a] = Deleted]
    /\ UNCHANGED creating

AlertsNext ==
    \/ \E c \in Creators : CreateFails(c) \/ \E u \in Users : CreateCount(c, u)
    \/ \E d \in {"ABOVE", "BELOW"}, t \in Thresholds, on \in BOOLEAN :
          \/ \E c \in Creators, a \in Alerts : CreateInsert(c, a, d, t, on)
          \/ \E u \in Users, a \in Alerts : UpdateAlert(u, a, d, t, on)
    \/ \E u \in Users, a \in Alerts : RemoveAlert(u, a)

AlertsSpec == AlertsInit /\ [][AlertsNext]_<<alert, creating>>

-----------------------------------------------------------------------------
(* The cap the service enforces, and what the await between counting and   *)
(* inserting leaves of it: concurrent creations overshoot by less than     *)
(* their number.                                                           *)
AlertCap == \A u \in Users : Cardinality(AlertsOf(u)) <= MaxAlerts

AlertCapOvershoot ==
    \A u \in Users : Cardinality(AlertsOf(u)) < MaxAlerts + Cardinality(Creators)

(* The inductive form: the alerts a user has and those on their way.       *)
AlertBudget ==
    \A u \in Users :
        Cardinality(AlertsOf(u)) + Cardinality(Pending(u)) < MaxAlerts + Cardinality(Creators)

=============================================================================
