------------------------- MODULE TokenServiceProofs -------------------------
(***************************************************************************)
(* Theorems about TokenService, for any sets of users, tokens and          *)
(* concurrent requests.                                                    *)
(***************************************************************************)
EXTENDS TokenService, FiniteSetTheorems, TLAPS

(***************************************************************************)
(* The initial state and the type invariant                                *)
(***************************************************************************)
LEMMA InitInv == Init => IInv
<1> SUFFICES ASSUME Init PROVE IInv
  OBVIOUS
<1>1. TypeOK
  BY NoUserAssumption DEF Init, TypeOK, Idle, Request, PCs
<1>2. RequestsSound
  BY <1>1, NoTokenAssumption DEF Init, RequestsSound, Idle
<1>3. HeldAreIssued /\ SuccessorAfterRevocation
  BY DEF Init, HeldAreIssued, SuccessorAfterRevocation
<1>4. RotationBudget
  <2> SUFFICES ASSUME NEW t \in Tokens
               PROVE  Cardinality(Children(t)) + Cardinality(Rotating(t)) <= Cardinality(Reqs)
    BY DEF RotationBudget
  <2>1. Children(t) = {} /\ Rotating(t) = {}
    BY NoTokenAssumption DEF Init, Children, Rotating, Idle
  <2>2. Cardinality(Reqs) \in Nat
    BY ReqsAssumption, FS_CardinalityType
  <2>3. Cardinality({}) = 0
    BY FS_EmptySet
  <2> QED BY <2>1, <2>2, <2>3
<1> QED BY <1>1, <1>2, <1>3, <1>4 DEF IInv

(* The steps of one request, each named, and the passing of time.          *)
LEMMA NextCases ==
  ASSUME Next
  PROVE  \/ \E r \in Reqs, u \in Users : Issue(r, u)
         \/ \E r \in Reqs, t \in Tokens : RotateStart(r, t)
         \/ \E r \in Reqs, t \in Tokens : RevokeStart(r, t)
         \/ \E r \in Reqs : RotateFind(r)
         \/ \E r \in Reqs : RotateRevokeAll(r)
         \/ \E r \in Reqs : RotateUpdate(r)
         \/ \E r \in Reqs, t \in Tokens : CreateRow(r, t)
         \/ \E r \in Reqs : Respond(r)
         \/ \E r \in Reqs : RevokeUpdate(r)
         \/ \E r \in Reqs : Fail(r)
         \/ \E t \in Tokens : Expire(t)
  BY DEF Next, Step

LEMMA TypeStep ==
  ASSUME TypeOK, RequestsSound, [Next]_vars
  PROVE  TypeOK'
<1> USE DEF TypeOK, rows, history
<1> DEFINE S == {"absent", "live", "revoked"}
<1>0. Idle \in Request
  BY DEF Idle, Request, PCs
<1>1. ASSUME NEW r \in Reqs, NEW u \in Users, Issue(r, u) PROVE TypeOK'
  <2>1. req' \in [Reqs -> Request]
    BY <1>1 DEF Issue, Idle, Request, PCs
  <2> QED BY <1>1, <2>1 DEF Issue
<1>2. ASSUME NEW r \in Reqs, NEW t \in Tokens, RotateStart(r, t) PROVE TypeOK'
  <2>1. req' \in [Reqs -> Request]
    BY <1>2 DEF RotateStart, Idle, Request, PCs
  <2> QED BY <1>2, <2>1 DEF RotateStart
<1>3. ASSUME NEW r \in Reqs, NEW t \in Tokens, RevokeStart(r, t) PROVE TypeOK'
  <2>1. req' \in [Reqs -> Request]
    BY <1>3 DEF RevokeStart, Idle, Request, PCs
  <2> QED BY <1>3, <2>1 DEF RevokeStart
<1>4. ASSUME NEW r \in Reqs, RotateFind(r) PROVE TypeOK'
  <2>1. req' \in [Reqs -> Request]
    BY <1>4, <1>0 DEF RotateFind, Refuse, Goto, Return, Request, PCs
  <2> QED BY <1>4, <2>1 DEF RotateFind
<1>5. ASSUME NEW r \in Reqs, RotateRevokeAll(r) PROVE TypeOK'
  <2>1. req' \in [Reqs -> Request]
    BY <1>5, <1>0 DEF RotateRevokeAll, Return
  <2>2. status' \in [Tokens -> S]
    BY <1>5 DEF RotateRevokeAll, Revoke
  <2> QED BY <1>5, <2>1, <2>2 DEF RotateRevokeAll
<1>6. ASSUME NEW r \in Reqs, RotateUpdate(r) PROVE TypeOK'
  <2>1. req[r].token \in Tokens
    BY <1>6 DEF RotateUpdate, At, RequestsSound
  <2>2. req' \in [Reqs -> Request]
    BY <1>6 DEF RotateUpdate, Goto, Request, PCs
  <2> QED BY <1>6, <2>1, <2>2 DEF RotateUpdate, RevokedNow
<1>7. ASSUME NEW r \in Reqs, NEW t \in Tokens, CreateRow(r, t) PROVE TypeOK'
  <2>1. req[r] \in Request
    OBVIOUS
  <2>2. req' \in [Reqs -> Request]
    <3>1. [req[r] EXCEPT !.pc = "respond", !.fresh = t] \in Request
      BY <2>1 DEF Request, PCs
    <3> QED BY <1>7, <3>1 DEF CreateRow
  <2>3. login' \in [Tokens -> Tokens \cup {NoToken}]
    BY <1>7, <2>1 DEF CreateRow, Request
  <2>4. /\ owner' \in [Tokens -> Users \cup {NoUser}]
        /\ parent' \in [Tokens -> Tokens \cup {NoToken}]
    BY <1>7, <2>1 DEF CreateRow, Request
  <2> QED BY <1>7, <2>2, <2>3, <2>4 DEF CreateRow
<1>8. ASSUME NEW r \in Reqs, Respond(r) PROVE TypeOK'
  <2>1. req' \in [Reqs -> Request]
    BY <1>8, <1>0 DEF Respond, Return
  <2>2. req[r].fresh \in Tokens
    BY <1>8 DEF Respond, At, RequestsSound
  <2> QED BY <1>8, <2>1, <2>2 DEF Respond
<1>9. ASSUME NEW r \in Reqs, RevokeUpdate(r) PROVE TypeOK'
  <2>1. req' \in [Reqs -> Request]
    BY <1>9, <1>0 DEF RevokeUpdate, Return
  <2>2. status' \in [Tokens -> S]
    BY <1>9 DEF RevokeUpdate, Revoke
  <2>3. ended' \in [Tokens -> {"no", "reuse", "logout"}]
    BY <1>9 DEF RevokeUpdate
  <2> QED BY <1>9, <2>1, <2>2, <2>3 DEF RevokeUpdate
<1>10. ASSUME NEW r \in Reqs, Fail(r) PROVE TypeOK'
  <2>1. req' \in [Reqs -> Request]
    BY <1>10, <1>0 DEF Fail, Return
  <2> QED BY <1>10, <2>1 DEF Fail
<1>11. ASSUME NEW t \in Tokens, Expire(t) PROVE TypeOK'
  BY <1>11 DEF Expire
<1>12. CASE UNCHANGED vars
  BY <1>12 DEF vars
<1> QED
  BY <1>1, <1>2, <1>3, <1>4, <1>5, <1>6, <1>7, <1>8, <1>9, <1>10, <1>11, <1>12, NextCases

(***************************************************************************)
(* What a waiting request knows stays true: rows are never deleted, their  *)
(* owner never changes and a revoked row is never restored.                *)
(***************************************************************************)
LEMMA RequestsStep ==
  ASSUME TypeOK, RequestsSound, HeldAreIssued, [Next]_vars
  PROVE  RequestsSound' /\ HeldAreIssued'
<1> USE DEF rows, history
<1>0. NoToken \notin Tokens /\ Idle.token = NoToken /\ Idle.pc = "idle" /\ ~Idle.late
  BY NoTokenAssumption DEF Idle
<1>a. \A q \in Reqs : req[q] \in Request
  BY DEF TypeOK
<1>1. ASSUME NEW r \in Reqs, NEW u \in Users, Issue(r, u)
      PROVE  RequestsSound' /\ HeldAreIssued'
  BY <1>1, <1>0 DEF Issue, RequestsSound, HeldAreIssued, TypeOK, Idle
<1>2. ASSUME NEW r \in Reqs, NEW t \in Tokens, RotateStart(r, t)
      PROVE  RequestsSound' /\ HeldAreIssued'
  <2>1. status[t] # "absent"
    BY <1>2 DEF RotateStart, Verifies, HeldAreIssued
  <2>2. /\ req'[r].pc = "find" /\ req'[r].token = t /\ req'[r].user = owner[t]
        /\ (req'[r].late => status[t] = "revoked")
        /\ \A q \in Reqs : q # r => req'[q] = req[q]
    BY <1>2 DEF RotateStart, TypeOK, Idle
  <2>3. UNCHANGED <<status, owner, held>>
    BY <1>2 DEF RotateStart
  <2> QED BY <2>1, <2>2, <2>3 DEF RequestsSound, HeldAreIssued
<1>3. ASSUME NEW r \in Reqs, NEW t \in Tokens, RevokeStart(r, t)
      PROVE  RequestsSound' /\ HeldAreIssued'
  <2>1. status[t] # "absent"
    BY <1>3 DEF RevokeStart, Verifies, HeldAreIssued
  <2>2. /\ req'[r].pc = "revoke" /\ req'[r].token = t /\ req'[r].user = owner[t]
        /\ ~req'[r].late
        /\ \A q \in Reqs : q # r => req'[q] = req[q]
    BY <1>3 DEF RevokeStart, TypeOK, Idle
  <2>3. UNCHANGED <<status, owner, held>>
    BY <1>3 DEF RevokeStart
  <2> QED BY <2>1, <2>2, <2>3 DEF RequestsSound, HeldAreIssued
<1>4. ASSUME NEW r \in Reqs, RotateFind(r)
      PROVE  RequestsSound' /\ HeldAreIssued'
  <2>1. UNCHANGED <<status, owner, held>>
    BY <1>4 DEF RotateFind
  <2>2. CASE req' = [req EXCEPT ![r] = Idle]
    BY <2>1, <2>2, <1>0 DEF RequestsSound, HeldAreIssued, TypeOK
  <2>3. CASE status[req[r].token] = "revoked" /\ req' = [req EXCEPT ![r].pc = "revokeAll"]
    <3>1. /\ req'[r].pc = "revokeAll" /\ req'[r].token = req[r].token
          /\ req'[r].user = req[r].user /\ req'[r].late = req[r].late
          /\ \A q \in Reqs : q # r => req'[q] = req[q]
      BY <2>3, <1>a DEF TypeOK, Request
    <3> QED BY <1>4, <2>1, <2>3, <3>1 DEF RotateFind, At, RequestsSound, HeldAreIssued
  <2>4. CASE status[req[r].token] # "revoked" /\ req' = [req EXCEPT ![r].pc = "update"]
    <3>1. /\ req'[r].pc = "update" /\ req'[r].token = req[r].token
          /\ req'[r].user = req[r].user /\ req'[r].late = req[r].late
          /\ \A q \in Reqs : q # r => req'[q] = req[q]
      BY <2>4, <1>a DEF TypeOK, Request
    <3> QED BY <1>4, <2>1, <2>4, <3>1 DEF RotateFind, At, RequestsSound, HeldAreIssued
  <2> QED BY <1>4, <2>2, <2>3, <2>4 DEF RotateFind, Reused, Refuse, Goto, Return
<1>5. ASSUME NEW r \in Reqs, RotateRevokeAll(r)
      PROVE  RequestsSound' /\ HeldAreIssued'
  <2>1. /\ \A t \in Tokens : status'[t] = status[t] \/ (status[t] = "live" /\ status'[t] = "revoked")
        /\ owner' = owner /\ held' = held
    BY <1>5 DEF RotateRevokeAll, Revoke, TypeOK
  <2>2. req' = [req EXCEPT ![r] = Idle]
    BY <1>5 DEF RotateRevokeAll, Return
  <2> QED BY <2>1, <2>2, <1>0 DEF RequestsSound, HeldAreIssued, TypeOK
<1>6. ASSUME NEW r \in Reqs, RotateUpdate(r)
      PROVE  RequestsSound' /\ HeldAreIssued'
  <2>1. req[r].token \in Tokens
    BY <1>6 DEF RotateUpdate, At, RequestsSound
  <2>2. /\ status'[req[r].token] = "revoked"
        /\ \A t \in Tokens : t # req[r].token => status'[t] = status[t]
        /\ owner' = owner /\ held' = held
    BY <1>6, <2>1 DEF RotateUpdate, RevokedNow, TypeOK
  <2>3. /\ req'[r].pc = "create" /\ req'[r].token = req[r].token
        /\ req'[r].user = req[r].user /\ req'[r].late = req[r].late
        /\ \A q \in Reqs : q # r => req'[q] = req[q]
    BY <1>6, <1>a DEF RotateUpdate, Goto, TypeOK, Request
  <2>4. ~req[r].late
    BY <1>6 DEF RotateUpdate, At, RequestsSound
  <2> QED BY <2>1, <2>2, <2>3, <2>4 DEF RequestsSound, HeldAreIssued, TypeOK
<1>7. ASSUME NEW r \in Reqs, NEW t \in Tokens, CreateRow(r, t)
      PROVE  RequestsSound' /\ HeldAreIssued'
  <2>1. /\ status[t] = "absent" /\ status'[t] = "live"
        /\ \A x \in Tokens : x # t => status'[x] = status[x] /\ owner'[x] = owner[x]
        /\ held' = held
    BY <1>7 DEF CreateRow, TypeOK
  <2>2. /\ req'[r].pc = "respond" /\ req'[r].fresh = t /\ req'[r].token = req[r].token
        /\ req'[r].user = req[r].user /\ req'[r].late = req[r].late
        /\ \A q \in Reqs : q # r => req'[q] = req[q]
    BY <1>7, <1>a DEF CreateRow, TypeOK, Request
  <2>3. ~req[r].late
    BY <1>7 DEF CreateRow, At, RequestsSound
  <2> QED BY <2>1, <2>2, <2>3 DEF RequestsSound, HeldAreIssued, TypeOK
<1>8. ASSUME NEW r \in Reqs, Respond(r)
      PROVE  RequestsSound' /\ HeldAreIssued'
  <2>1. req[r].fresh \in Tokens /\ status[req[r].fresh] # "absent"
    BY <1>8 DEF Respond, At, RequestsSound
  <2>2. /\ req' = [req EXCEPT ![r] = Idle]
        /\ held' = held \cup {req[r].fresh}
        /\ UNCHANGED <<status, owner>>
    BY <1>8 DEF Respond, Return
  <2> QED BY <2>1, <2>2, <1>0 DEF RequestsSound, HeldAreIssued, TypeOK
<1>9. ASSUME NEW r \in Reqs, RevokeUpdate(r)
      PROVE  RequestsSound' /\ HeldAreIssued'
  <2>1. /\ \A t \in Tokens : status'[t] = status[t] \/ (status[t] = "live" /\ status'[t] = "revoked")
        /\ owner' = owner /\ held' = held
    BY <1>9 DEF RevokeUpdate, Revoke, TypeOK
  <2>2. req' = [req EXCEPT ![r] = Idle]
    BY <1>9 DEF RevokeUpdate, Return
  <2> QED BY <2>1, <2>2, <1>0 DEF RequestsSound, HeldAreIssued, TypeOK
<1>10. ASSUME NEW r \in Reqs, Fail(r)
       PROVE  RequestsSound' /\ HeldAreIssued'
  BY <1>10, <1>0 DEF Fail, Return, RequestsSound, HeldAreIssued, TypeOK
<1>11. ASSUME NEW t \in Tokens, Expire(t)
       PROVE  RequestsSound' /\ HeldAreIssued'
  BY <1>11 DEF Expire, RequestsSound, HeldAreIssued
<1>12. CASE UNCHANGED vars
  BY <1>12 DEF vars, RequestsSound, HeldAreIssued
<1> QED
  BY <1>1, <1>2, <1>3, <1>4, <1>5, <1>6, <1>7, <1>8, <1>9, <1>10, <1>11, <1>12, NextCases

(***************************************************************************)
(* A replacement is created only by a request that has revoked its         *)
(* predecessor.                                                            *)
(***************************************************************************)
LEMMA SuccessorStep ==
  ASSUME TypeOK, RequestsSound, SuccessorAfterRevocation, [Next]_vars
  PROVE  SuccessorAfterRevocation'
<1> USE DEF rows, history
<1>1. ASSUME NEW r \in Reqs, NEW t \in Tokens, CreateRow(r, t)
      PROVE  SuccessorAfterRevocation'
  <2> SUFFICES ASSUME NEW s \in Tokens, parent'[s] # NoToken
               PROVE  status'[parent'[s]] = "revoked"
    BY DEF SuccessorAfterRevocation
  <2>1. /\ status[t] = "absent" /\ req[r].pc = "create"
        /\ parent' = [parent EXCEPT ![t] = req[r].token]
        /\ \A x \in Tokens : x # t => status'[x] = status[x]
    BY <1>1 DEF CreateRow, At, TypeOK
  <2>2. CASE s = t
    <3>1. req[r].token \in Tokens /\ parent'[s] = req[r].token
      BY <2>1, <2>2 DEF TypeOK, Request
    <3>2. status[req[r].token] = "revoked"
      BY <2>1, <3>1 DEF RequestsSound
    <3> QED BY <2>1, <3>1, <3>2
  <2>3. CASE s # t
    <3>1. parent'[s] = parent[s] /\ parent[s] \in Tokens
      BY <2>1, <2>3 DEF TypeOK
    <3>2. status[parent[s]] = "revoked"
      BY <3>1, NoTokenAssumption DEF SuccessorAfterRevocation
    <3> QED BY <2>1, <3>1, <3>2
  <2> QED BY <2>2, <2>3
<1>2. ASSUME NEW r \in Reqs, RotateRevokeAll(r) \/ RevokeUpdate(r) \/ RotateUpdate(r)
      PROVE  SuccessorAfterRevocation'
  <2>1. /\ parent' = parent
        /\ \A t \in Tokens : status[t] = "revoked" => status'[t] = "revoked"
    BY <1>2 DEF RotateRevokeAll, RevokeUpdate, RotateUpdate, RevokedNow, Revoke, TypeOK
  <2> QED BY <2>1, NoTokenAssumption DEF SuccessorAfterRevocation, TypeOK
<1>3. CASE UNCHANGED <<status, parent>>
  BY <1>3 DEF SuccessorAfterRevocation
<1> QED
  BY <1>1, <1>2, <1>3, NextCases
  DEF vars, Issue, RotateStart, RevokeStart, RotateFind, Respond, Fail, Expire

(***************************************************************************)
(* Counting.  The budget of a token can only shrink when its replacements  *)
(* stay and no request joins those that rotate it.                         *)
(***************************************************************************)
LEMMA CountsAreFinite ==
  ASSUME NEW t \in Tokens
  PROVE  /\ IsFiniteSet(Children(t)) /\ Cardinality(Children(t)) \in Nat
         /\ IsFiniteSet(Rotating(t)) /\ Cardinality(Rotating(t)) \in Nat
         /\ Cardinality(Rotating(t)) <= Cardinality(Reqs)
         /\ Cardinality(Reqs) \in Nat
<1>1. Children(t) \in SUBSET Tokens /\ Rotating(t) \in SUBSET Reqs
  BY DEF Children, Rotating
<1>2. /\ IsFiniteSet(Children(t)) /\ IsFiniteSet(Rotating(t))
      /\ Cardinality(Rotating(t)) <= Cardinality(Reqs)
  BY <1>1, FS_Subset, ReqsAssumption, TokensAssumption
<1> QED BY <1>2, FS_CardinalityType, ReqsAssumption

LEMMA BudgetKept ==
  ASSUME NEW C1, NEW R1, NEW C2, NEW R2, NEW n \in Nat,
         IsFiniteSet(C1), IsFiniteSet(R1),
         C2 \subseteq C1, R2 \subseteq R1,
         Cardinality(C1) + Cardinality(R1) <= n
  PROVE  Cardinality(C2) + Cardinality(R2) <= n
<1>1. /\ Cardinality(C2) <= Cardinality(C1) /\ IsFiniteSet(C2)
      /\ Cardinality(R2) <= Cardinality(R1) /\ IsFiniteSet(R2)
  BY FS_Subset
<1>2. /\ Cardinality(C1) \in Nat /\ Cardinality(C2) \in Nat
      /\ Cardinality(R1) \in Nat /\ Cardinality(R2) \in Nat
  BY <1>1, FS_CardinalityType
<1> QED BY <1>1, <1>2

LEMMA BudgetMoved ==
  ASSUME NEW C, NEW R, NEW r \in R, NEW c, NEW n \in Nat,
         IsFiniteSet(C), IsFiniteSet(R),
         Cardinality(C) + Cardinality(R) <= n
  PROVE  Cardinality(C \cup {c}) + Cardinality(R \ {r}) <= n
<1>1. Cardinality(C) \in Nat /\ Cardinality(R) \in Nat
  BY FS_CardinalityType
<1>2. Cardinality(R \ {r}) = Cardinality(R) - 1
  BY FS_RemoveElement
<1>3. \/ Cardinality(C \cup {c}) = Cardinality(C)
      \/ Cardinality(C \cup {c}) = Cardinality(C) + 1
  BY FS_AddElement
<1> QED BY <1>1, <1>2, <1>3

LEMMA BudgetStep ==
  ASSUME TypeOK, RequestsSound, SuccessorAfterRevocation, RotationBudget, [Next]_vars
  PROVE  RotationBudget'
<1> USE DEF rows, history
<1> SUFFICES ASSUME NEW x \in Tokens
             PROVE  Cardinality(Children(x)') + Cardinality(Rotating(x)') <= Cardinality(Reqs)
  BY DEF RotationBudget, Children, Rotating
<1>0. Cardinality(Children(x)) + Cardinality(Rotating(x)) <= Cardinality(Reqs)
  BY DEF RotationBudget
<1>a. \A q \in Reqs : req[q] \in Request
  BY DEF TypeOK
<1>1. CASE Children(x)' \subseteq Children(x) /\ Rotating(x)' \subseteq Rotating(x)
  BY <1>0, <1>1, CountsAreFinite, BudgetKept
<1>2. ASSUME NEW r \in Reqs, RotateFind(r)
      PROVE  Cardinality(Children(x)') + Cardinality(Rotating(x)') <= Cardinality(Reqs)
  <2>1. Children(x)' = Children(x)
    BY <1>2 DEF RotateFind, Children
  <2>2. CASE status[x] = "revoked" \/ req[r].token # x
    <3>1. Rotating(x)' \subseteq Rotating(x)
      BY <1>2, <2>2, <1>a
      DEF RotateFind, Reused, Refuse, At, Goto, Return, Idle, Rotating, TypeOK, Request
    <3> QED BY <1>1, <2>1, <3>1
  <2>3. CASE status[x] # "revoked"
    <3>1. Children(x) = {}
      BY <2>3, NoTokenAssumption DEF Children, SuccessorAfterRevocation
    <3>2. Rotating(x)' \in SUBSET Reqs
      BY DEF Rotating
    <3>3. Cardinality(Rotating(x)') <= Cardinality(Reqs) /\ IsFiniteSet(Rotating(x)')
      BY <3>2, FS_Subset, ReqsAssumption
    <3>4. Cardinality(Rotating(x)') \in Nat /\ Cardinality(Reqs) \in Nat
      BY <3>3, FS_CardinalityType, ReqsAssumption
    <3> QED BY <2>1, <3>1, <3>3, <3>4, FS_EmptySet
  <2> QED BY <2>2, <2>3
<1>3. ASSUME NEW r \in Reqs, NEW t \in Tokens, CreateRow(r, t)
      PROVE  Cardinality(Children(x)') + Cardinality(Rotating(x)') <= Cardinality(Reqs)
  <2>1. /\ parent' = [parent EXCEPT ![t] = req[r].token]
        /\ req[r].pc = "create"
        /\ req'[r].pc = "respond"
        /\ \A q \in Reqs : q # r => req'[q] = req[q]
    BY <1>3, <1>a DEF CreateRow, At, TypeOK, Request
  <2>2. CASE req[r].token = x
    <3>1. r \in Rotating(x)
      BY <2>1, <2>2 DEF Rotating
    <3>2. Rotating(x)' \subseteq Rotating(x) \ {r}
      BY <2>1 DEF Rotating
    <3>3. Children(x)' \subseteq Children(x) \cup {t}
      BY <2>1 DEF Children, TypeOK
    <3>4. Cardinality(Children(x) \cup {t}) + Cardinality(Rotating(x) \ {r}) <= Cardinality(Reqs)
      BY <1>0, <3>1, CountsAreFinite, BudgetMoved
    <3>5. IsFiniteSet(Children(x) \cup {t}) /\ IsFiniteSet(Rotating(x) \ {r})
      BY CountsAreFinite, FS_AddElement, FS_RemoveElement
    <3> QED BY <3>2, <3>3, <3>4, <3>5, CountsAreFinite, BudgetKept
  <2>3. CASE req[r].token # x
    <3>1. Children(x)' \subseteq Children(x)
      BY <2>1, <2>3 DEF Children, TypeOK
    <3>2. Rotating(x)' \subseteq Rotating(x)
      BY <2>1 DEF Rotating
    <3> QED BY <1>1, <3>1, <3>2
  <2> QED BY <2>2, <2>3
<1>4. ASSUME NEW r \in Reqs, RotateUpdate(r)
      PROVE  Children(x)' \subseteq Children(x) /\ Rotating(x)' \subseteq Rotating(x)
  BY <1>4, <1>a DEF RotateUpdate, At, Goto, Children, Rotating, TypeOK, Request
<1>5. ASSUME NEW r \in Reqs,
             \/ RotateRevokeAll(r) \/ Respond(r) \/ RevokeUpdate(r) \/ Fail(r)
             \/ \E u \in Users : Issue(r, u)
             \/ \E t \in Tokens : RotateStart(r, t) \/ RevokeStart(r, t)
      PROVE  Children(x)' \subseteq Children(x) /\ Rotating(x)' \subseteq Rotating(x)
  <2>1. parent' = parent /\ \A q \in Reqs : q # r => req'[q] = req[q]
    BY <1>5 DEF RotateRevokeAll, Respond, RevokeUpdate, Fail, Return, Issue, RotateStart,
                RevokeStart, TypeOK
  <2>2. req'[r].pc \in {"idle", "find", "revoke"} \/ req'[r].token = NoToken
    <3>1. CASE req' = [req EXCEPT ![r] = Idle]
      BY <3>1 DEF TypeOK, Idle
    <3>2. ASSUME NEW u \in Users, Issue(r, u)
          PROVE  req'[r].token = NoToken
      BY <3>2 DEF Issue, TypeOK, Idle
    <3>3. ASSUME NEW t \in Tokens, RotateStart(r, t) \/ RevokeStart(r, t)
          PROVE  req'[r].pc \in {"find", "revoke"}
      BY <3>3 DEF RotateStart, RevokeStart, TypeOK, Idle
    <3> QED
      BY <1>5, <3>1, <3>2, <3>3
      DEF RotateRevokeAll, Respond, RevokeUpdate, Fail, Return
  <2> QED BY <2>1, <2>2, NoTokenAssumption DEF Children, Rotating
<1>6. CASE UNCHANGED <<parent, req>>
  BY <1>1, <1>6 DEF Children, Rotating
<1> QED
  BY <1>1, <1>2, <1>3, <1>4, <1>5, <1>6, NextCases DEF Expire, vars

(***************************************************************************)
(* The invariant is inductive                                              *)
(***************************************************************************)
THEOREM Invariant == Spec => []IInv
<1>1. IInv /\ [Next]_vars => IInv'
  BY TypeStep, RequestsStep, SuccessorStep, BudgetStep DEF IInv
<1> QED BY InitInv, <1>1, PTL DEF Spec

(* The state of the token service is always well typed.                    *)
THEOREM TypeCorrect == Spec => []TypeOK
<1>1. IInv => TypeOK
  BY DEF IInv
<1> QED BY <1>1, Invariant, PTL

(* No pair is ever issued while the token it replaces still works.         *)
THEOREM ReplacementAfterRevocation == Spec => []SuccessorAfterRevocation
<1>1. IInv => SuccessorAfterRevocation
  BY DEF IInv
<1> QED BY <1>1, Invariant, PTL

(* A request that presents a token revoked before it arrived is refused.   *)
THEOREM ReuseIsRefused == Spec => []LateNeverRotates
<1>1. IInv => LateNeverRotates
  BY DEF IInv, RequestsSound, LateNeverRotates
<1> QED BY <1>1, Invariant, PTL

(* A token is rotated at most as often as requests can be in flight, ...   *)
THEOREM BoundedRotation == Spec => []SuccessorsBounded
<1>1. IInv => SuccessorsBounded
  <2> SUFFICES ASSUME IInv, NEW t \in Tokens
               PROVE  Cardinality(Children(t)) <= Cardinality(Reqs)
    BY DEF SuccessorsBounded
  <2> QED BY CountsAreFinite DEF IInv, RotationBudget
<1> QED BY <1>1, Invariant, PTL

(* ... so a server that serves one refresh at a time rotates a token once. *)
THEOREM SerialRotation ==
  ASSUME Cardinality(Reqs) = 1
  PROVE  Spec => []RotatedOnce
<1>1. SuccessorsBounded => RotatedOnce
  BY DEF SuccessorsBounded, RotatedOnce
<1> QED BY <1>1, BoundedRotation, PTL

(* One user's reuse or logout never revokes another user's tokens.         *)
THEOREM UserIsolation == Spec => RevocationStaysWithinUser
<1> DEFINE Owned == \A t \in Tokens : status[t] = "live" /\ status'[t] = "revoked" =>
              \E r \in Reqs : /\ req[r].token # NoToken
                              /\ owner[req[r].token] = owner[t]
                              /\ req'[r] # req[r]
<1>1. IInv /\ [Next]_vars => [Owned]_vars
  <2> SUFFICES ASSUME IInv, Next, NEW t \in Tokens,
                      status[t] = "live", status'[t] = "revoked"
               PROVE  \E r \in Reqs : /\ req[r].token # NoToken
                                      /\ owner[req[r].token] = owner[t]
                                      /\ req'[r] # req[r]
    BY DEF vars
  <2> USE DEF IInv, TypeOK, rows, history
  <2>1. ASSUME NEW r \in Reqs, RotateRevokeAll(r)
        PROVE  req[r].token # NoToken /\ owner[req[r].token] = owner[t] /\ req'[r] # req[r]
    <3>1. req[r].token \in Tokens /\ owner[req[r].token] = req[r].user
      BY <2>1 DEF RotateRevokeAll, At, RequestsSound
    <3>2. owner[t] = req[r].user
      BY <2>1 DEF RotateRevokeAll, Revoke, TokensOfUser, Issued
    <3>3. req[r].pc = "revokeAll" /\ req'[r].pc = "idle"
      BY <2>1 DEF RotateRevokeAll, At, Return, Idle
    <3> QED BY <3>1, <3>2, <3>3, NoTokenAssumption
  <2>2. ASSUME NEW r \in Reqs, RotateUpdate(r)
        PROVE  req[r].token # NoToken /\ owner[req[r].token] = owner[t] /\ req'[r] # req[r]
    <3>1. req[r].token \in Tokens
      BY <2>2 DEF RotateUpdate, At, RequestsSound
    <3>2. req[r].token = t
      BY <2>2, <3>1 DEF RotateUpdate, RevokedNow
    <3>3. req[r].pc = "update" /\ req'[r].pc = "create"
      BY <2>2 DEF RotateUpdate, At, Goto, Request
    <3> QED BY <3>1, <3>2, <3>3, NoTokenAssumption
  <2>3. ASSUME NEW r \in Reqs, RevokeUpdate(r)
        PROVE  req[r].token # NoToken /\ owner[req[r].token] = owner[t] /\ req'[r] # req[r]
    <3>1. req[r].token \in Tokens
      BY <2>3 DEF RevokeUpdate, At, RequestsSound
    <3>2. req[r].token = t
      BY <2>3, <3>1 DEF RevokeUpdate, Revoke
    <3>3. req[r].pc = "revoke" /\ req'[r].pc = "idle"
      BY <2>3 DEF RevokeUpdate, At, Return, Idle
    <3> QED BY <3>1, <3>2, <3>3, NoTokenAssumption
  <2>4. ASSUME NEW r \in Reqs, NEW x \in Tokens, CreateRow(r, x)
        PROVE  FALSE
    BY <2>4 DEF CreateRow
  <2> QED
    BY <2>1, <2>2, <2>3, <2>4, NextCases
    DEF Issue, RotateStart, RevokeStart, RotateFind, Respond, Fail, Expire
<1> QED BY <1>1, Invariant, PTL DEF Spec, RevocationStaysWithinUser

(***************************************************************************)
(* One request at a time                                                   *)
(***************************************************************************)

(* A token with a row belongs to a user and to the session of a login with *)
(* a row; a token without one has begun no session.                        *)
Lineage ==
    \A t \in Tokens :
        /\ status[t] = "absent" => ended[t] = "no"
        /\ status[t] # "absent" =>
             /\ owner[t] \in Users
             /\ login[t] \in Tokens /\ status[login[t]] # "absent" /\ owner[login[t]] = owner[t]

(* The sessions as the three properties see them                           *)
SessionsSound == Lineage /\ OneLivePerSession /\ ReuseEndsSessions /\ LogoutEndsSession

(* What the request has read is still so; a replacement on its way finds   *)
(* its session without a working token, and not ended.                     *)
Works(l) == \E s \in Tokens : status[s] = "live" /\ login[s] = l
ReadIsCurrent ==
    \A r \in Reqs :
        /\ At(r, "create") => req[r].user \in Users
        /\ At(r, "update") => status[req[r].token] = "live"
        /\ At(r, "revokeAll") => status[req[r].token] = "revoked"
        /\ At(r, "create") /\ req[r].token \in Tokens =>
             ~Works(login[req[r].token]) /\ ended[login[req[r].token]] = "no"

SerialInv == IInv /\ SessionsSound /\ ReadIsCurrent

LEMMA SerialInit == Init => SerialInv
<1> SUFFICES ASSUME Init PROVE SerialInv
  OBVIOUS
<1>1. SessionsSound
  BY DEF Init, SessionsSound, Lineage, OneLivePerSession, ReuseEndsSessions,
         LogoutEndsSession, Session
<1>2. ReadIsCurrent
  BY DEF Init, ReadIsCurrent, At, Idle
<1> QED BY <1>1, <1>2, InitInv DEF SerialInv

(* A step that neither adds a live token nor touches the ends of sessions. *)
LEMMA SessionsKept ==
  ASSUME SessionsSound, owner' = owner, login' = login, ended' = ended,
         \A t \in Tokens : status'[t] = status[t]
                           \/ (status[t] # "absent" /\ status'[t] = "revoked")
  PROVE  SessionsSound'
<1>1. Lineage'
  BY DEF SessionsSound, Lineage
<1>2. \A t \in Tokens : status'[t] = "live" => status[t] = "live"
  OBVIOUS
<1>3. OneLivePerSession'
  BY <1>2 DEF SessionsSound, OneLivePerSession, Session
<1>4. ReuseEndsSessions' /\ LogoutEndsSession'
  BY <1>2 DEF SessionsSound, ReuseEndsSessions, LogoutEndsSession
<1> QED BY <1>1, <1>3, <1>4 DEF SessionsSound

LEMMA SerialRevokeAll ==
  ASSUME TypeOK, NEW r \in Reqs, RotateRevokeAll(r), SessionsSound
  PROVE  SessionsSound'
<1>1. PICK u : u = req[r].user
  OBVIOUS
<1>a. PICK T : T = Issued(u)
  OBVIOUS
<1>b. /\ owner' = owner /\ login' = login
      /\ status' = [t \in Tokens |-> IF t \in T /\ status[t] = "live" THEN "revoked" ELSE status[t]]
      /\ ended' = [t \in Tokens |-> IF t \in T THEN "reuse" ELSE ended[t]]
      /\ \A t \in Tokens : t \in T <=> status[t] # "absent" /\ owner[t] = u
  BY <1>1, <1>a DEF RotateRevokeAll, Revoke, TokensOfUser, Issued
<1>2. /\ owner' = owner /\ login' = login
      /\ \A t \in Tokens : status'[t] = status[t]
                           \/ (status[t] # "absent" /\ status'[t] = "revoked")
      /\ \A t \in Tokens : status'[t] = "live" => status[t] = "live" /\ owner[t] # u
      /\ \A t \in Tokens : ended'[t] = ended[t]
                           \/ (owner[t] = u /\ status[t] # "absent" /\ ended'[t] = "reuse")
  <2>1. ASSUME NEW t \in Tokens
        PROVE  /\ status'[t] = IF t \in T /\ status[t] = "live" THEN "revoked" ELSE status[t]
               /\ ended'[t] = IF t \in T THEN "reuse" ELSE ended[t]
    BY <1>b
  <2> QED BY <1>b, <2>1
<1>3. Lineage'
  BY <1>2 DEF SessionsSound, Lineage
<1>4. OneLivePerSession'
  BY <1>2 DEF SessionsSound, OneLivePerSession, Session
<1>5. ASSUME NEW t \in Tokens, status'[t] = "live"
      PROVE  ended'[login'[t]] # "reuse" /\ ended'[login'[t]] # "logout"
  <2>1. status[t] = "live" /\ owner[t] # u
    BY <1>2, <1>5
  <2>2. login[t] \in Tokens /\ owner[login[t]] = owner[t]
    BY <2>1 DEF SessionsSound, Lineage
  <2>3. ended'[login[t]] = ended[login[t]]
    BY <1>2, <2>1, <2>2
  <2> QED BY <1>2, <2>1, <2>3 DEF SessionsSound, ReuseEndsSessions, LogoutEndsSession
<1> QED BY <1>3, <1>4, <1>5 DEF SessionsSound, ReuseEndsSessions, LogoutEndsSession

LEMMA SerialRevoke ==
  ASSUME TypeOK, RequestsSound, NEW r \in Reqs, RevokeUpdate(r), SessionsSound
  PROVE  SessionsSound'
<1>1. PICK t : t = req[r].token
  OBVIOUS
<1>2. /\ t \in Tokens /\ owner' = owner /\ login' = login
      /\ \A x \in Tokens : x # t => status'[x] = status[x]
      /\ status[t] = "live" => status'[t] = "revoked"
      /\ status[t] # "live" => status'[t] = status[t]
      /\ ended' = IF status[t] = "live" THEN [ended EXCEPT ![login[t]] = "logout"] ELSE ended
  BY <1>1 DEF RevokeUpdate, At, Revoke, TypeOK, RequestsSound
<1>3. CASE status[t] # "live"
  <2>1. ended' = ended /\ \A x \in Tokens : status'[x] = status[x]
    BY <1>2, <1>3
  <2> QED BY <1>2, <2>1, SessionsKept
<1>4. CASE status[t] = "live"
  <2>1. PICK l : l = login[t]
    OBVIOUS
  <2>2. l \in Tokens /\ status[l] # "absent"
    BY <1>2, <1>4, <2>1 DEF SessionsSound, Lineage
  <2>3. \A x \in Tokens : x # l => ended'[x] = ended[x]
    BY <1>2, <1>4, <2>1 DEF TypeOK
  <2>4. \A x \in Tokens : status'[x] = "live" => status[x] = "live" /\ x # t
    BY <1>2, <1>4
  <2>5. Lineage'
    <3>1. \A x \in Tokens : status'[x] = "absent" <=> status[x] = "absent"
      BY <1>2, <1>4
    <3> QED BY <1>2, <2>2, <2>3, <3>1 DEF SessionsSound, Lineage
  <2>6. OneLivePerSession'
    BY <1>2, <2>4 DEF SessionsSound, OneLivePerSession, Session
  <2>7. ASSUME NEW x \in Tokens, status'[x] = "live"
        PROVE  ended'[login'[x]] # "reuse" /\ ended'[login'[x]] # "logout"
    <3>1. status[x] = "live" /\ x # t
      BY <2>4, <2>7
    <3>2. login[x] \in Tokens
      BY <3>1 DEF SessionsSound, Lineage
    <3>3. login[x] # l
      BY <1>2, <1>4, <2>1, <2>2, <3>1 DEF SessionsSound, OneLivePerSession, Session
    <3>4. ended'[login[x]] = ended[login[x]]
      BY <2>3, <3>2, <3>3
    <3> QED BY <1>2, <3>1, <3>4 DEF SessionsSound, ReuseEndsSessions, LogoutEndsSession
  <2> QED BY <2>5, <2>6, <2>7 DEF SessionsSound, ReuseEndsSessions, LogoutEndsSession
<1> QED BY <1>3, <1>4

(* The new token begins a session, or is the only one that works in the    *)
(* session of the token it replaces.                                       *)
LEMMA SerialCreate ==
  ASSUME SerialInv, NEW r \in Reqs, NEW t \in Tokens, CreateRow(r, t)
  PROVE  SessionsSound'
<1>1. PICK p : p = req[r].token
  OBVIOUS
<1>2. PICK l : l = IF p = NoToken THEN t ELSE login[p]
  OBVIOUS
<1>3. /\ At(r, "create") /\ status[t] = "absent" /\ status'[t] = "live" /\ ended' = ended
      /\ owner'[t] = req[r].user /\ login'[t] = l
      /\ \A x \in Tokens : x # t => /\ status'[x] = status[x]
                                    /\ owner'[x] = owner[x] /\ login'[x] = login[x]
  BY <1>1, <1>2 DEF CreateRow, SerialInv, IInv, TypeOK
<1>4. Lineage /\ ended[t] = "no" /\ req[r].user \in Users
  BY <1>3 DEF SerialInv, SessionsSound, Lineage, ReadIsCurrent
<1>5. \A x \in Tokens : status[x] # "absent" => x # t /\ login[x] \in Tokens /\ login[x] # t
  BY <1>3, <1>4 DEF Lineage
<1>6. /\ l \in Tokens /\ status'[l] # "absent" /\ owner'[l] = owner'[t] /\ ended[l] = "no"
      /\ \A x \in Tokens : status[x] = "live" => login[x] # l
  <2>1. CASE p = NoToken
    BY <1>2, <1>3, <1>4, <1>5, <2>1
  <2>2. CASE p # NoToken
    <3>1. p \in Tokens
      BY <1>1, <2>2 DEF SerialInv, IInv, TypeOK, Request
    <3>2. status[p] # "absent" /\ owner[p] = req[r].user
      BY <1>1, <3>1 DEF SerialInv, IInv, RequestsSound
    <3>3. l = login[p] /\ ~Works(l) /\ ended[l] = "no"
      BY <1>1, <1>2, <1>3, <2>2, <3>1 DEF SerialInv, ReadIsCurrent
    <3>4. l \in Tokens /\ status[l] # "absent" /\ owner[l] = owner[p]
      BY <1>4, <3>1, <3>2, <3>3 DEF Lineage
    <3> QED BY <1>3, <3>2, <3>3, <3>4 DEF Works
  <2> QED BY <2>1, <2>2
<1>7. Lineage'
  <2> SUFFICES ASSUME NEW x \in Tokens
               PROVE  (/\ status[x] = "absent" => ended[x] = "no"
                       /\ status[x] # "absent" =>
                            /\ owner[x] \in Users
                            /\ login[x] \in Tokens /\ status[login[x]] # "absent"
                            /\ owner[login[x]] = owner[x])'
    BY DEF Lineage
  <2>1. CASE x = t
    BY <1>3, <1>4, <1>6, <2>1
  <2>2. CASE x # t
    BY <1>3, <1>4, <1>5, <2>2 DEF Lineage
  <2> QED BY <2>1, <2>2
<1>8. OneLivePerSession'
  <2> SUFFICES ASSUME NEW x \in Tokens, NEW y \in Tokens, login'[x] = login'[y],
                      status'[x] = "live", status'[y] = "live"
               PROVE  x = y
    BY DEF OneLivePerSession, Session
  <2>1. CASE x = t \/ y = t
    BY <1>3, <1>6, <2>1
  <2>2. CASE x # t /\ y # t
    <3>1. /\ status[x] = "live" /\ status[y] = "live" /\ login[x] = login[y]
          /\ login[x] \in Tokens
      BY <1>3, <1>5, <2>2
    <3> QED BY <3>1 DEF SerialInv, SessionsSound, OneLivePerSession, Session
  <2> QED BY <2>1, <2>2
<1>9. ASSUME NEW x \in Tokens, status'[x] = "live"
      PROVE  ended'[login'[x]] # "reuse" /\ ended'[login'[x]] # "logout"
  <2>1. CASE x = t
    BY <1>3, <1>6, <2>1
  <2>2. CASE x # t
    BY <1>3, <1>9, <2>2
       DEF SerialInv, SessionsSound, ReuseEndsSessions, LogoutEndsSession
  <2> QED BY <2>1, <2>2
<1> QED BY <1>7, <1>8, <1>9 DEF SessionsSound, ReuseEndsSessions, LogoutEndsSession

LEMMA SerialSessions ==
  ASSUME SerialInv, [Next]_vars
  PROVE  SessionsSound'
<1> USE DEF rows, history
<1>0. TypeOK /\ RequestsSound /\ SessionsSound
  BY DEF SerialInv, IInv
<1>1. ASSUME status' = status, owner' = owner, login' = login, ended' = ended
      PROVE  SessionsSound'
  BY <1>0, <1>1, SessionsKept
<1>2. ASSUME NEW r \in Reqs, RotateUpdate(r) PROVE SessionsSound'
  <2>1. req[r].token \in Tokens /\ status[req[r].token] # "absent"
    BY <1>0, <1>2 DEF RotateUpdate, At, RequestsSound
  <2>2. /\ owner' = owner /\ login' = login /\ ended' = ended
        /\ \A t \in Tokens : status'[t] = status[t]
                             \/ (status[t] # "absent" /\ status'[t] = "revoked")
    BY <1>0, <1>2, <2>1 DEF RotateUpdate, RevokedNow, TypeOK
  <2> QED BY <1>0, <2>2, SessionsKept
<1>3. ASSUME NEW r \in Reqs, RotateRevokeAll(r) PROVE SessionsSound'
  BY <1>0, <1>3, SerialRevokeAll
<1>4. ASSUME NEW r \in Reqs, RevokeUpdate(r) PROVE SessionsSound'
  BY <1>0, <1>4, SerialRevoke
<1>5. ASSUME NEW r \in Reqs, NEW t \in Tokens, CreateRow(r, t) PROVE SessionsSound'
  BY <1>5, SerialCreate
<1> QED
  BY <1>1, <1>2, <1>3, <1>4, <1>5, NextCases
  DEF vars, Issue, RotateStart, RevokeStart, RotateFind, Respond, Fail, Expire

(* Nothing happens between what the one request has read and what it does. *)
LEMMA SerialReads ==
  ASSUME SerialInv, NEW r, Reqs = {r}, [Next]_vars
  PROVE  ReadIsCurrent'
<1> USE DEF rows, history
<1>0. /\ TypeOK /\ RequestsSound /\ HeldAreIssued /\ SessionsSound /\ ReadIsCurrent
      /\ r \in Reqs /\ req[r] \in Request /\ NoToken \notin Tokens
  BY NoTokenAssumption DEF SerialInv, IInv, TypeOK
<1>1. ASSUME req'[r].pc \notin {"create", "update", "revokeAll"} PROVE ReadIsCurrent'
  BY <1>1 DEF ReadIsCurrent, At
<1>2. ASSUME NEW u \in Users, Issue(r, u) PROVE ReadIsCurrent'
  <2>1. req'[r].pc = "create" /\ req'[r].user = u /\ req'[r].token = NoToken
    BY <1>0, <1>2 DEF Issue, TypeOK, Idle
  <2> QED BY <1>0, <2>1 DEF ReadIsCurrent, At
<1>3. ASSUME RotateFind(r) PROVE ReadIsCurrent'
  <2>1. /\ req[r].token \in Tokens /\ status[req[r].token] # "absent" /\ status' = status
        /\ status[req[r].token] \in {"absent", "live", "revoked"}
    BY <1>0, <1>3 DEF RotateFind, At, RequestsSound, TypeOK
  <2>2. CASE req' = [req EXCEPT ![r] = Idle]
    BY <1>0, <1>1, <2>2 DEF TypeOK, Idle
  <2>3. CASE status[req[r].token] = "revoked" /\ req' = [req EXCEPT ![r].pc = "revokeAll"]
    <3>1. req'[r].pc = "revokeAll" /\ req'[r].token = req[r].token
      BY <1>0, <2>3 DEF TypeOK, Request
    <3> QED BY <2>1, <2>3, <3>1 DEF ReadIsCurrent, At
  <2>4. CASE status[req[r].token] # "revoked" /\ req' = [req EXCEPT ![r].pc = "update"]
    <3>1. req'[r].pc = "update" /\ req'[r].token = req[r].token
      BY <1>0, <2>4 DEF TypeOK, Request
    <3> QED BY <2>1, <2>4, <3>1 DEF ReadIsCurrent, At
  <2> QED BY <1>3, <2>2, <2>3, <2>4 DEF RotateFind, Reused, Refuse, Goto, Return
<1>4. ASSUME RotateUpdate(r) PROVE ReadIsCurrent'
  <2>1. PICK t : t = req[r].token
    OBVIOUS
  <2>2. /\ t \in Tokens /\ owner[t] = req[r].user /\ status[t] = "live"
    BY <1>0, <1>4, <2>1 DEF RotateUpdate, At, RequestsSound, ReadIsCurrent
  <2>3. /\ req'[r].pc = "create" /\ req'[r].token = t /\ req'[r].user = owner[t]
    BY <1>0, <1>4, <2>1, <2>2 DEF RotateUpdate, Goto, TypeOK, Request
  <2>4. /\ status'[t] = "revoked" /\ login' = login /\ ended' = ended
        /\ \A s \in Tokens : s # t => status'[s] = status[s]
    BY <1>0, <1>4, <2>1, <2>2 DEF RotateUpdate, RevokedNow, TypeOK
  <2>5. owner[t] \in Users /\ login[t] \in Tokens
    BY <1>0, <2>2 DEF SessionsSound, Lineage
  <2>6. \A s \in Tokens : status'[s] = "live" => login[s] # login[t]
    <3> SUFFICES ASSUME NEW s \in Tokens, status'[s] = "live", login[s] = login[t] PROVE FALSE
      OBVIOUS
    <3>1. s # t /\ status[s] = "live"
      BY <2>4
    <3> QED BY <1>0, <2>2, <2>5, <3>1 DEF SessionsSound, OneLivePerSession, Session
  <2>7. ended[login[t]] = "no"
    BY <1>0, <2>2, <2>5
       DEF SessionsSound, ReuseEndsSessions, LogoutEndsSession, TypeOK
  <2> QED BY <2>3, <2>4, <2>5, <2>6, <2>7 DEF ReadIsCurrent, At, Works
<1>5. ASSUME NEW t \in Tokens, CreateRow(r, t) PROVE ReadIsCurrent'
  BY <1>0, <1>1, <1>5 DEF CreateRow, TypeOK, Request
<1>6. ASSUME NEW t \in Tokens, RotateStart(r, t) \/ RevokeStart(r, t) PROVE ReadIsCurrent'
  <2>0. r \in Reqs /\ req \in [Reqs -> Request]
    BY <1>0 DEF TypeOK
  <2>1. RotateStart(r, t) => req'[r].pc = "find"
    BY <2>0 DEF RotateStart, Idle
  <2>2. RevokeStart(r, t) => req'[r].pc = "revoke"
    BY <2>0 DEF RevokeStart, Idle
  <2> QED BY <1>1, <1>6, <2>1, <2>2
<1>7. ASSUME RotateRevokeAll(r) \/ Respond(r) \/ RevokeUpdate(r) \/ Fail(r) PROVE ReadIsCurrent'
  <2>1. req' = [req EXCEPT ![r] = Idle]
    BY <1>7 DEF RotateRevokeAll, Respond, RevokeUpdate, Fail, Return
  <2> QED BY <1>0, <1>1, <2>1 DEF TypeOK, Idle
<1>8. ASSUME UNCHANGED <<status, login, ended, req>> PROVE ReadIsCurrent'
  BY <1>0, <1>8 DEF ReadIsCurrent, At, Works
<1> QED
  BY <1>0, <1>2, <1>3, <1>4, <1>5, <1>6, <1>7, <1>8, NextCases DEF vars, Expire

(* The invariant of one request at a time                                  *)
THEOREM SerialInvariant ==
  ASSUME NEW r, Reqs = {r}
  PROVE  Spec => []SerialInv
<1>1. SerialInv /\ [Next]_vars => SerialInv'
  BY SerialSessions, SerialReads, TypeStep, RequestsStep, SuccessorStep, BudgetStep
  DEF SerialInv, IInv
<1> QED BY <1>1, SerialInit, PTL DEF Spec

(* Served one at a time, rotations leave a session one working token, ...  *)
THEOREM SerialOneLive ==
  ASSUME NEW r, Reqs = {r}
  PROVE  Spec => []OneLivePerSession
<1>1. SerialInv => OneLivePerSession
  BY DEF SerialInv, SessionsSound
<1> QED BY <1>1, SerialInvariant, PTL

(* ... reuse detection leaves the sessions of the user none, ...           *)
THEOREM SerialReuseEnds ==
  ASSUME NEW r, Reqs = {r}
  PROVE  Spec => []ReuseEndsSessions
<1>1. SerialInv => ReuseEndsSessions
  BY DEF SerialInv, SessionsSound
<1> QED BY <1>1, SerialInvariant, PTL

(* ... and logout leaves its session none.                                 *)
THEOREM SerialLogoutEnds ==
  ASSUME NEW r, Reqs = {r}
  PROVE  Spec => []LogoutEndsSession
<1>1. SerialInv => LogoutEndsSession
  BY DEF SerialInv, SessionsSound
<1> QED BY <1>1, SerialInvariant, PTL

(***************************************************************************)
(* One request at a time implements Sessions.  Shown is what the table     *)
(* counts for: a token whose replacement is on its way is still live.      *)
(***************************************************************************)
Shown == [t \in Tokens |-> IF Replacing(t) THEN "live" ELSE status[t]]

LEMMA ShownInit == Init => Abstract!Init
<1> SUFFICES ASSUME Init PROVE Abstract!Init
  OBVIOUS
<1>1. \A t \in Tokens : ~Replacing(t)
  BY DEF Init, Replacing, At, Idle
<1> QED BY <1>1 DEF Init, Abstract!Init

LEMMA ShownStep ==
  ASSUME SerialInv, NEW r, Reqs = {r}, [Next]_vars
  PROVE  [Abstract!Next]_<<Shown, owner>>
<1> USE DEF rows, history
<1>0. /\ TypeOK /\ RequestsSound /\ HeldAreIssued /\ Lineage /\ ReadIsCurrent
      /\ r \in Reqs /\ req[r] \in Request /\ NoToken \notin Tokens
      /\ status \in [Tokens -> {"absent", "live", "revoked"}]
      /\ req \in [Reqs -> Request]
  BY NoTokenAssumption DEF SerialInv, SessionsSound, IInv, TypeOK
<1>a. \A t : Replacing(t) <=> req[r].pc = "create" /\ req[r].token = t
  BY <1>0 DEF Replacing, At
<1>b. \A t : Replacing(t)' <=> req'[r].pc = "create" /\ req'[r].token = t
  BY <1>0 DEF Replacing, At
<1>1. ASSUME UNCHANGED <<status, owner>>, req[r].pc # "create", req'[r].pc # "create"
      PROVE  UNCHANGED <<Shown, owner>>
  BY <1>a, <1>b, <1>1 DEF Shown
(* The steps that only read, or start or answer the request                *)
<1>2. ASSUME NEW u \in Users, Issue(r, u) PROVE UNCHANGED <<Shown, owner>>
  <2>1. req'[r].pc = "create" /\ req'[r].token = NoToken /\ req[r].pc = "idle"
    BY <1>0, <1>2 DEF Issue, Idle, At
  <2>2. UNCHANGED <<status, owner>>
    BY <1>2 DEF Issue
  <2> QED BY <1>0, <1>a, <1>b, <2>1, <2>2 DEF Shown
<1>3. ASSUME NEW t \in Tokens, RotateStart(r, t) \/ RevokeStart(r, t)
      PROVE  UNCHANGED <<Shown, owner>>
  <2>1. RotateStart(r, t) => req'[r].pc = "find"
    BY <1>0 DEF RotateStart, Idle
  <2>2. RevokeStart(r, t) => req'[r].pc = "revoke"
    BY <1>0 DEF RevokeStart, Idle
  <2>3. req[r].pc = "idle" /\ UNCHANGED <<status, owner>>
    BY <1>3 DEF RotateStart, RevokeStart, At
  <2> QED BY <1>1, <1>3, <2>1, <2>2, <2>3
<1>4. ASSUME RotateFind(r) PROVE UNCHANGED <<Shown, owner>>
  <2>1. req[r].pc = "find" /\ UNCHANGED <<status, owner>>
    BY <1>4 DEF RotateFind, At
  <2>2. CASE req' = [req EXCEPT ![r] = Idle]
    <3>1. req'[r].pc = "idle"
      BY <1>0, <2>2 DEF Idle
    <3> QED BY <1>1, <2>1, <3>1
  <2>3. ASSUME NEW pc \in {"revokeAll", "update"}, req' = [req EXCEPT ![r].pc = pc]
        PROVE  UNCHANGED <<Shown, owner>>
    <3>1. req'[r].pc = pc
      BY <1>0, <2>3 DEF Request
    <3> QED BY <1>1, <2>1, <3>1
  <2> QED BY <1>4, <2>2, <2>3 DEF RotateFind, Refuse, Goto, Return
<1>5. ASSUME Respond(r) PROVE UNCHANGED <<Shown, owner>>
  <2>1. req[r].pc = "respond" /\ req'[r].pc = "idle" /\ UNCHANGED <<status, owner>>
    BY <1>0, <1>5 DEF Respond, Return, At, Idle
  <2> QED BY <1>1, <2>1
(* The update: the token is no longer live, its replacement on its way.    *)
<1>6. ASSUME RotateUpdate(r) PROVE UNCHANGED <<Shown, owner>>
  <2>1. PICK t : t = req[r].token
    OBVIOUS
  <2>2. req[r].pc = "update" /\ t \in Tokens /\ status[t] = "live"
    BY <1>0, <1>6, <2>1 DEF RotateUpdate, At, RequestsSound, ReadIsCurrent
  <2>3. req'[r].pc = "create" /\ req'[r].token = t /\ owner' = owner
    BY <1>0, <1>6, <2>1 DEF RotateUpdate, Goto, Request
  <2>4. \A s \in Tokens : s # t => status'[s] = status[s]
    BY <1>0, <1>6, <2>1 DEF RotateUpdate, RevokedNow
  <2> QED BY <1>a, <1>b, <2>2, <2>3, <2>4 DEF Shown
(* The steps that the clients may see                                      *)
<1>7. ASSUME NEW t \in Tokens, CreateRow(r, t) PROVE Abstract!Next
  <2>1. PICK p : p = req[r].token
    OBVIOUS
  <2>2. PICK u : u = req[r].user
    OBVIOUS
  <2>3. /\ req[r].pc = "create" /\ req'[r].pc = "respond" /\ status[t] = "absent"
        /\ owner' = [owner EXCEPT ![t] = u] /\ status' = [status EXCEPT ![t] = "live"]
    BY <1>0, <1>7, <2>2 DEF CreateRow, At, Request
  <2>4. Shown' = status' /\ u \in Users
    BY <1>0, <1>b, <2>2, <2>3 DEF Shown, ReadIsCurrent, At
  <2>5. CASE p = NoToken
    <3>1. Shown = status
      BY <1>0, <1>a, <2>1, <2>5 DEF Shown
    <3>2. Abstract!Open(u, t)
      BY <1>0, <2>3, <2>4, <3>1 DEF Abstract!Open, Shown
    <3> QED BY <2>4, <3>2 DEF Abstract!Next
  <2>6. CASE p \in Tokens
    <3>1. owner[p] = u /\ status[p] = "revoked"
      BY <1>0, <2>1, <2>2, <2>3, <2>6 DEF RequestsSound
    <3>2. Shown = [status EXCEPT ![p] = "live"]
      BY <1>0, <1>a, <2>1, <2>3, <2>6 DEF Shown
    <3>3. /\ Shown[p] = "live" /\ Shown[t] = "absent"
          /\ Shown' = [Shown EXCEPT ![p] = "revoked", ![t] = "live"]
      BY <1>0, <2>3, <2>4, <2>6, <3>1, <3>2
    <3>4. Abstract!Replace(p, t)
      BY <2>3, <3>1, <3>3 DEF Abstract!Replace, Shown
    <3> QED BY <2>6, <3>4 DEF Abstract!Next
  <2> QED BY <1>0, <2>1, <2>5, <2>6 DEF Request
<1>8. ASSUME Fail(r) PROVE [Abstract!Next]_<<Shown, owner>>
  <2>1. PICK p : p = req[r].token
    OBVIOUS
  <2>2. status' = status /\ owner' = owner /\ req'[r].pc = "idle"
    BY <1>0, <1>8 DEF Fail, Return, Idle
  <2>3. Shown' = status
    BY <1>0, <1>b, <2>2 DEF Shown
  <2>4. CASE req[r].pc = "create" /\ p \in Tokens
    <3>1. status[p] = "revoked"
      BY <1>0, <2>1, <2>4 DEF RequestsSound
    <3>2. Shown = [status EXCEPT ![p] = "live"]
      BY <1>0, <1>a, <2>1, <2>4 DEF Shown
    <3>3. Shown[p] = "live" /\ Shown' = [Shown EXCEPT ![p] = "revoked"]
      BY <1>0, <2>3, <2>4, <3>1, <3>2
    <3>4. Abstract!Lose(p)
      BY <2>2, <3>3 DEF Abstract!Lose, Shown
    <3> QED BY <2>4, <3>4 DEF Abstract!Next
  <2>5. CASE ~(req[r].pc = "create" /\ p \in Tokens)
    <3>1. Shown = status
      BY <1>0, <1>a, <2>1, <2>5 DEF Shown
    <3> QED BY <2>2, <2>3, <3>1
  <2> QED BY <2>4, <2>5
<1>9. ASSUME RevokeUpdate(r) PROVE [Abstract!Next]_<<Shown, owner>>
  <2>1. PICK t : t = req[r].token
    OBVIOUS
  <2>2. /\ req[r].pc = "revoke" /\ req'[r].pc = "idle" /\ t \in Tokens /\ owner' = owner
        /\ status' = [s \in Tokens |-> IF s \in {t} /\ status[s] = "live" THEN "revoked"
                                       ELSE status[s]]
    BY <1>0, <1>9, <2>1 DEF RevokeUpdate, Revoke, Return, Idle, At, RequestsSound
  <2>3. Shown = status /\ Shown' = status'
    BY <1>0, <1>a, <1>b, <2>2 DEF Shown
  <2>4. CASE status[t] = "live"
    <3>1. Shown[t] = "live" /\ Shown' = [Shown EXCEPT ![t] = "revoked"]
      BY <1>0, <2>2, <2>3, <2>4
    <3>2. Abstract!Lose(t)
      BY <2>2, <3>1 DEF Abstract!Lose, Shown
    <3> QED BY <2>2, <3>2 DEF Abstract!Next
  <2>5. CASE status[t] # "live"
    <3>1. status' = status
      BY <1>0, <2>2, <2>5
    <3> QED BY <2>2, <2>3, <3>1
  <2> QED BY <2>4, <2>5
<1>10. ASSUME RotateRevokeAll(r) PROVE Abstract!Next
  <2>1. PICK t : t = req[r].token
    OBVIOUS
  <2>2. PICK u : u = req[r].user
    OBVIOUS
  <2>3. /\ req[r].pc = "revokeAll" /\ req'[r].pc = "idle" /\ t \in Tokens /\ owner' = owner
        /\ status' = [s \in Tokens |-> IF s \in Issued(u) /\ status[s] = "live" THEN "revoked"
                                       ELSE status[s]]
    BY <1>0, <1>10, <2>1, <2>2
       DEF RotateRevokeAll, Revoke, TokensOfUser, Return, Idle, At, RequestsSound
  <2>4. Shown = status /\ Shown' = status'
    BY <1>0, <1>a, <1>b, <2>3 DEF Shown
  <2>5. status[t] = "revoked" /\ owner[t] = u /\ u \in Users
    BY <1>0, <2>1, <2>2, <2>3 DEF RequestsSound, ReadIsCurrent, At, Lineage
  <2>6. \A s \in Tokens : s \in Issued(u) /\ status[s] = "live"
                            <=> status[s] = "live" /\ owner[s] = u
    BY DEF Issued
  <2>7. status' = [s \in Tokens |-> IF status[s] = "live" /\ owner[s] = u THEN "revoked"
                                    ELSE status[s]]
    BY <2>3, <2>6
  <2>8. /\ \E s \in Tokens : Shown[s] = "revoked" /\ owner[s] = u
        /\ Shown' = [s \in Tokens |-> IF Shown[s] = "live" /\ owner[s] = u THEN "revoked"
                                      ELSE Shown[s]]
    BY <2>3, <2>4, <2>5, <2>7
  <2>9. Abstract!EndAll(u)
    BY <2>3, <2>8 DEF Abstract!EndAll, Shown
  <2> QED BY <2>5, <2>9 DEF Abstract!Next
<1>11. ASSUME UNCHANGED <<status, owner, req>> PROVE UNCHANGED <<Shown, owner>>
  BY <1>11 DEF Shown, Replacing, At
<1> QED
  BY <1>0, <1>2, <1>3, <1>4, <1>5, <1>6, <1>7, <1>8, <1>9, <1>10, <1>11, NextCases
  DEF vars, Expire

(* Served one at a time, the table of tokens implements Sessions.          *)
THEOREM SerialImplements ==
  ASSUME NEW r, Reqs = {r}
  PROVE  Spec => ImplementsSessions
<1>1. SerialInv /\ [Next]_vars => [Abstract!Next]_<<Shown, owner>>
  BY ShownStep
<1> QED BY <1>1, ShownInit, SerialInvariant, PTL DEF Spec, ImplementsSessions, Abstract!Spec, Shown

=============================================================================
