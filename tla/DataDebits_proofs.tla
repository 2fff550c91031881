-------------------------- MODULE DataDebits_proofs --------------------------
(***************************************************************************)
(* Proofs about DataDebits for every set of keys, bundles, users and       *)
(* request slots.  IInv is the inductive invariant; each of its conjuncts  *)
(* has a lemma saying that a step preserves it.                            *)
(***************************************************************************)
EXTENDS DataDebits, TLAPS

(* A step of one request, with its parameters: the disjuncts of Next.      *)
Step(r) ==
    \/ \E k \in Keys, b \in Bundles, c \in Conditions, u \in Users :
         CreateDataDebit(r, k, b, c, u) \/ UpdateStart(r, k, b, c, u)
    \/ BundlesWrongOwner(r) \/ BundleMatching(r) \/ InsertBundle(r)
    \/ ConditionsWrongOwner(r) \/ ConditionsMatching(r)
    \/ InsertConditions(r) \/ InsertPermissions(r)
    \/ GrantRead(r) \/ GrantSave(r) \/ GrantFails(r)
    \/ \E k \in Keys : EnableStart(r, k)
    \/ EnableDisableOld(r) \/ EnableNewest(r)
    \/ \E k \in Keys, c \in Cancel \ {"no"} : DisableStart(r, k, c)
    \/ DisableApply(r)
    \/ \E i \in DOMAIN rows : ValuesRead(r, i)
    \/ ValuesServe(r) \/ Abort(r)

LEMMA NextIsStep == Next <=> \E r \in Requests : Step(r)
  BY DEF Next, Step, Update, Enable

(* The initial states satisfy the inductive invariant.                     *)
LEMMA InitIInv == Init => IInv
  <1> SUFFICES ASSUME Init PROVE IInv
    OBVIOUS
  <1>1. DOMAIN rows = {} /\ DOMAIN rows = 1..lastId
    BY DEF Init
  <1>2. TypeOK
    BY <1>1, ConstantsAssumption DEF Init, TypeOK, Steps, UpdateSteps,
       GrantSteps, EnableSteps
  <1>3. RowsStored /\ BundleOwnership /\ AcceptedWithConsent
    BY <1>1 DEF Init, RowsStored, BundleOwnership, AcceptedWithConsent
  <1>4. InsertedApart /\ InsertedByUpdates
    BY DEF Init, InsertedApart, InsertedByUpdates, NoRival
  <1>5. UpdateClaims /\ GrantsForDebits /\ RolesForDebits
    BY DEF Init, UpdateClaims, GrantsForDebits, GrantSteps, RolesForDebits
  <1>6. ServedWithConsent /\ AskedStored /\ GrantsFresh /\ RolesKept
    BY DEF Init, ServedWithConsent, AskedStored, GrantsFresh, RolesKept
  <1>7. SnapOwn /\ EnableSawAccepted /\ OneBundleAccepted
    BY <1>1 DEF Init, SnapOwn, EnableSawAccepted, OneBundleAccepted,
       EnableSteps
  <1> QED
    BY <1>2, <1>3, <1>4, <1>5, <1>6, <1>7 DEF IInv

(* Appending a row gives a table of rows with one more serial.             *)
LEMMA WithRowType ==
    ASSUME TypeOK, lastId < MaxRows,
           NEW k \in Keys, NEW b \in Bundles, NEW c \in Conditions
    PROVE  /\ lastId + 1 \in 0..MaxRows
           /\ DOMAIN WithRow(k, b, c) = 1..(lastId + 1)
           /\ \A i \in 1..(lastId + 1) : WithRow(k, b, c)[i] \in Row
           /\ \A i \in DOMAIN rows : /\ i \in 1..(lastId + 1)
                                     /\ WithRow(k, b, c)[i] = rows[i]
           /\ lastId + 1 \in 1..(lastId + 1) /\ lastId + 1 \notin DOMAIN rows
           /\ \A i \in 1..(lastId + 1) : i \in DOMAIN rows \/ i = lastId + 1
           /\ WithRow(k, b, c)[lastId + 1] =
                [key |-> k, bundle |-> b, cond |-> c,
                 accepted |-> FALSE, cancel |-> "no"]
  <1>1. lastId \in Nat /\ DOMAIN rows = 1..lastId /\ MaxRows \in Nat
    BY ConstantsAssumption DEF TypeOK
  <1>2. [key |-> k, bundle |-> b, cond |-> c, accepted |-> FALSE,
         cancel |-> "no"] \in Row
    BY DEF Row, Cancel
  <1>3. \A i \in DOMAIN rows : rows[i] \in Row
    BY DEF TypeOK
  <1> QED
    BY <1>1, <1>2, <1>3 DEF WithRow

(* Rolling back leaves a state of the right type.                          *)
LEMMA RollbackType ==
    ASSUME TypeOK, NEW r \in Requests, Rollback(r)
    PROVE  TypeOK'
  BY DEF TypeOK, Rollback, Done, Goto, Carry, tables, grants, Steps, UpdateSteps,
     GrantSteps, EnableSteps, RowsOf

(* Every step of a request leaves a state of the right type (an update     *)
(* inserts conditions only if it was given some: UpdateClaims).            *)
LEMMA StepTypeOK == TypeOK /\ UpdateClaims /\ [Next]_vars => TypeOK'
  <1> SUFFICES ASSUME TypeOK, UpdateClaims, [Next]_vars PROVE TypeOK'
    OBVIOUS
  <1> USE DEF Done, Goto, Carry, Proceed, tables, grants
  <1>u. CASE UNCHANGED vars
    BY <1>u DEF vars, TypeOK
  <1> SUFFICES ASSUME NEW r \in Requests, Step(r) PROVE TypeOK'
    BY <1>u, NextIsStep
  <1>0. DOMAIN rows = 1..lastId /\ lastId \in Nat /\ pc \in [Requests -> Steps]
    BY DEF TypeOK
  <1>1. ASSUME NEW k \in Keys, NEW b \in Bundles, NEW c \in Conditions,
               NEW u \in Users, CreateDataDebit(r, k, b, c, u)
        PROVE  TypeOK'
    <2>1. lastId < MaxRows
      BY <1>1 DEF CreateDataDebit
    <2>2. rows' = WithRow(k, b, c) /\ lastId' = lastId + 1
      BY <1>1 DEF CreateDataDebit
    <2>3. /\ lastId' \in 0..MaxRows /\ DOMAIN rows' = 1..lastId'
          /\ \A i \in DOMAIN rows' : rows'[i] \in Row
      BY <2>1, <2>2, WithRowType
    <2>4. snap' \in [Requests -> SUBSET (1..lastId')]
      BY <1>0, <1>1, <2>2 DEF CreateDataDebit, TypeOK
    <2>5. bundles' \subseteq Bundles /\ debits' \subseteq Keys
      BY <1>1 DEF CreateDataDebit, TypeOK, Conditions
    <2>6. pc' \in [Requests -> Steps]
      BY <1>1 DEF CreateDataDebit, TypeOK, Steps, GrantSteps
    <2>8. [key |-> k, user |-> u, roles |-> {}] \in GrantRequest
      BY DEF GrantRequest
    <2> QED
      BY <1>1, <2>3, <2>4, <2>5, <2>6, <2>8 DEF CreateDataDebit, TypeOK,
         GrantSteps, UpdateSteps, EnableSteps
  <1>2. ASSUME NEW k \in Keys, NEW b \in Bundles, NEW c \in Conditions,
               NEW u \in Users, UpdateStart(r, k, b, c, u)
        PROVE  TypeOK'
    BY <1>2 DEF UpdateStart, TypeOK, Steps, GrantSteps, UpdateSteps,
       EnableSteps, UpdateRequest
  <1>3. CASE BundlesWrongOwner(r)
    BY <1>3, RollbackType DEF BundlesWrongOwner, TypeOK, Steps, GrantSteps,
       UpdateSteps, EnableSteps
  <1>4. CASE BundleMatching(r)
    BY <1>4 DEF BundleMatching, TypeOK, Steps, GrantSteps, UpdateSteps,
       EnableSteps
  <1>5. CASE InsertBundle(r)
    BY <1>5, RollbackType DEF InsertBundle, InsertInto, TypeOK, Steps,
       GrantSteps, UpdateSteps, EnableSteps, UpdateRequest
  <1>6. CASE ConditionsWrongOwner(r)
    BY <1>6, RollbackType DEF ConditionsWrongOwner, TypeOK, Steps, GrantSteps,
       UpdateSteps, EnableSteps
  <1>7. CASE ConditionsMatching(r)
    BY <1>7 DEF ConditionsMatching, TypeOK, Steps, GrantSteps, UpdateSteps,
       EnableSteps
  <1>8. CASE InsertConditions(r)
    <2>1. req[r] \in UpdateRequest
      BY <1>8 DEF InsertConditions, TypeOK, UpdateSteps
    <2>2. CASE req[r].cond \in bundles \cup inserted[r]
      BY <1>8, <2>2, RollbackType DEF InsertConditions, InsertInto
    <2>3. CASE req[r].cond \notin bundles \cup inserted[r]
      <3>1. req[r].cond \in Bundles
        BY <1>8, <2>1 DEF InsertConditions, UpdateRequest, Conditions,
           UpdateClaims
      <3> QED
        BY <1>8, <2>1, <2>3, <3>1 DEF InsertConditions, InsertInto, TypeOK,
           Steps, GrantSteps, UpdateSteps, EnableSteps, UpdateRequest
    <2> QED
      BY <2>2, <2>3
  <1>9. CASE InsertPermissions(r)
    <2>1. req[r] \in UpdateRequest
      BY <1>9 DEF InsertPermissions, TypeOK, UpdateSteps
    <2>2. CASE req[r].key \notin debits
      BY <1>9, <2>2, RollbackType DEF InsertPermissions
    <2>3. CASE req[r].key \in debits
      <3>1. /\ lastId < MaxRows /\ lastId' = lastId + 1
            /\ rows' = WithRow(req[r].key, req[r].bundle, req[r].cond)
        BY <1>9, <2>3 DEF InsertPermissions
      <3>2. /\ lastId' \in 0..MaxRows /\ DOMAIN rows' = 1..lastId'
            /\ \A i \in DOMAIN rows' : rows'[i] \in Row
        BY <2>1, <3>1, WithRowType DEF UpdateRequest
      <3>3. snap' \in [Requests -> SUBSET (1..lastId')]
        BY <1>0, <1>9, <2>3, <3>1 DEF InsertPermissions, TypeOK
      <3>4. [key |-> req[r].key, user |-> req[r].user, roles |-> {}]
              \in GrantRequest
        BY <2>1 DEF GrantRequest, UpdateRequest
      <3>5. asked' \subseteq Users \X Keys
        BY <1>9, <2>1, <2>3 DEF InsertPermissions, UpdateRequest, TypeOK
      <3> QED
        BY <1>9, <2>3, <3>2, <3>3, <3>4, <3>5 DEF InsertPermissions, TypeOK, Steps,
           GrantSteps, UpdateSteps, EnableSteps
    <2> QED
      BY <2>2, <2>3
  <1>10. CASE GrantRead(r)
    <2>1. req[r] \in GrantRequest
      BY <1>10 DEF GrantRead, TypeOK, GrantSteps
    <2>2. roles[req[r].user] \cup {req[r].key} \in SUBSET Keys
      BY <2>1 DEF TypeOK, GrantRequest
    <2>3. [req[r] EXCEPT !.roles = roles[req[r].user] \cup {req[r].key}]
            \in GrantRequest
      BY <2>1, <2>2 DEF GrantRequest
    <2>4. unsettled' \subseteq Users
      BY <1>10, <2>1 DEF GrantRead, GrantRequest, TypeOK
    <2> QED
      BY <1>10, <2>3, <2>4 DEF GrantRead, TypeOK, Steps, GrantSteps, UpdateSteps,
         EnableSteps
  <1>11. CASE GrantSave(r)
    <2>1. req[r] \in GrantRequest
      BY <1>11 DEF GrantSave, TypeOK, GrantSteps
    <2> QED
      BY <1>11, <2>1 DEF GrantSave, TypeOK, Steps, GrantSteps, UpdateSteps,
         EnableSteps, GrantRequest
  <1>20. CASE GrantFails(r)
    <2>1. req[r] \in GrantRequest
      BY <1>20 DEF GrantFails, TypeOK
    <2> QED
      BY <1>20, <2>1 DEF GrantFails, TypeOK, Steps, GrantSteps, UpdateSteps,
         EnableSteps, GrantRequest
  <1>12. ASSUME NEW k \in Keys, EnableStart(r, k)
         PROVE  TypeOK'
    <2>1. RowsOf(k) \in SUBSET (1..lastId)
      BY <1>0 DEF RowsOf
    <2> QED
      BY <1>12, <2>1 DEF EnableStart, TypeOK, Steps, GrantSteps, UpdateSteps,
         EnableSteps, EnableRequest
  <1>13. CASE EnableDisableOld(r)
    BY <1>13 DEF EnableDisableOld, TypeOK, Steps, GrantSteps, UpdateSteps,
       EnableSteps
  <1>14. CASE EnableNewest(r)
    <2>1. req[r].key \in Keys
      BY <1>14 DEF EnableNewest, TypeOK, EnableSteps, EnableRequest
    <2>2. /\ DOMAIN rows' = DOMAIN rows
          /\ \A i \in DOMAIN rows : rows'[i] \in Row
      BY <1>14 DEF EnableNewest, Accept, TypeOK, Row, Cancel
    <2>3. {<<req[r].key, rows[i].bundle>> : i \in Newest(req[r].key)}
            \subseteq Keys \X Bundles
      BY <2>1 DEF Newest, RowsOf, TypeOK, Row
    <2> QED
      BY <1>14, <2>1, <2>2, <2>3 DEF EnableNewest, TypeOK, Steps, GrantSteps,
         UpdateSteps, EnableSteps
  <1>15. ASSUME NEW k \in Keys, NEW c \in Cancel \ {"no"},
                DisableStart(r, k, c)
         PROVE  TypeOK'
    <2>1. RowsOf(k) \in SUBSET (1..lastId)
      BY <1>0 DEF RowsOf
    <2> QED
      BY <1>15, <2>1 DEF DisableStart, TypeOK, Steps, GrantSteps, UpdateSteps,
         EnableSteps, DisableRequest, Cancel
  <1>16. CASE DisableApply(r)
    <2>1. req[r].cancel \in Cancel
      BY <1>16 DEF DisableApply, TypeOK, DisableRequest
    <2>2. /\ DOMAIN rows' = DOMAIN rows
          /\ \A i \in DOMAIN rows : rows'[i] \in Row
      BY <1>16, <2>1 DEF DisableApply, TypeOK, Row
    <2> QED
      BY <1>16, <2>2 DEF DisableApply, TypeOK, Steps, GrantSteps, UpdateSteps,
         EnableSteps
  <1>17. ASSUME NEW i \in DOMAIN rows, ValuesRead(r, i)
         PROVE  TypeOK'
    BY <1>17 DEF ValuesRead, TypeOK, Steps, GrantSteps, UpdateSteps,
       EnableSteps, ValuesRequest, Row
  <1>18. CASE ValuesServe(r)
    BY <1>18 DEF ValuesServe, TypeOK, Steps, GrantSteps, UpdateSteps,
       EnableSteps, ValuesRequest
  <1>19. CASE Abort(r)
    BY <1>19, RollbackType DEF Abort
  <1> QED
    BY <1>1, <1>2, <1>3, <1>4, <1>5, <1>6, <1>7, <1>8, <1>9, <1>10, <1>11,
       <1>12, <1>13, <1>14, <1>15, <1>16, <1>17, <1>18, <1>19, <1>20 DEF Step
-----------------------------------------------------------------------------
(* The steps that leave every row's debit, bundle and conditions as they   *)
(* were: all but a creation and the commit of an update.                   *)
KeepsLinks ==
    /\ UNCHANGED <<debits, bundles>>
    /\ DOMAIN rows' = DOMAIN rows
    /\ \A i \in DOMAIN rows : /\ rows'[i].key = rows[i].key
                              /\ rows'[i].bundle = rows[i].bundle
                              /\ rows'[i].cond = rows[i].cond
Commits(r) == InsertPermissions(r) /\ req[r].key \in debits

LEMMA StepKinds ==
    ASSUME TypeOK, NEW r \in Requests, Step(r)
    PROVE  \/ \E k \in Keys, b \in Bundles, c \in Conditions, u \in Users :
                CreateDataDebit(r, k, b, c, u)
           \/ Commits(r)
           \/ KeepsLinks
  <1> USE DEF Done, Goto, Carry, Proceed, tables, grants, KeepsLinks
  <1>0. \A i \in DOMAIN rows : rows[i] \in Row
    BY DEF TypeOK
  <1>1. CASE EnableNewest(r)
    BY <1>0, <1>1 DEF EnableNewest, Accept, Row
  <1>2. CASE DisableApply(r)
    BY <1>0, <1>2 DEF DisableApply, Row
  <1>3. CASE InsertPermissions(r)
    BY <1>3 DEF InsertPermissions, Rollback, Commits
  <1>4. CASE GrantRead(r) \/ GrantSave(r) \/ GrantFails(r) \/ ValuesServe(r) \/ Abort(r)
    BY <1>4 DEF GrantRead, GrantSave, GrantFails, ValuesServe, Abort, Rollback
  <1>5. CASE BundlesWrongOwner(r) \/ BundleMatching(r) \/ InsertBundle(r)
    BY <1>5 DEF BundlesWrongOwner, BundleMatching, InsertBundle, InsertInto,
       Rollback
  <1>6. CASE \/ ConditionsWrongOwner(r) \/ ConditionsMatching(r)
             \/ InsertConditions(r)
    BY <1>6 DEF ConditionsWrongOwner, ConditionsMatching, InsertConditions,
       InsertInto, Rollback
  <1>7. CASE EnableDisableOld(r) \/ \E k \in Keys : EnableStart(r, k)
    BY <1>7 DEF EnableDisableOld, EnableStart
  <1>8. CASE \E k \in Keys, c \in Cancel \ {"no"} : DisableStart(r, k, c)
    BY <1>8 DEF DisableStart
  <1>9. CASE \E i \in DOMAIN rows : ValuesRead(r, i)
    BY <1>9 DEF ValuesRead
  <1>10. CASE \E k \in Keys, b \in Bundles, c \in Conditions, u \in Users :
                UpdateStart(r, k, b, c, u)
    BY <1>10 DEF UpdateStart
  <1> QED
    BY <1>1, <1>2, <1>3, <1>4, <1>5, <1>6, <1>7, <1>8, <1>9, <1>10 DEF Step

(* What a creation, and the commit of an update, append to the tables, grants.     *)
LEMMA CreateAppends ==
    ASSUME TypeOK, NEW r \in Requests, NEW k \in Keys, NEW b \in Bundles,
           NEW c \in Conditions, NEW u \in Users, CreateDataDebit(r, k, b, c, u)
    PROVE  /\ DOMAIN rows' = DOMAIN rows \cup {lastId + 1}
           /\ lastId + 1 \notin DOMAIN rows
           /\ \A i \in DOMAIN rows : rows'[i] = rows[i]
           /\ rows'[lastId + 1].key = k /\ rows'[lastId + 1].bundle = b
           /\ rows'[lastId + 1].cond = c /\ rows'[lastId + 1].accepted = FALSE
  <1>1. lastId < MaxRows /\ rows' = WithRow(k, b, c)
    BY DEF CreateDataDebit
  <1>2. \A i \in 1..(lastId + 1) : i \in DOMAIN rows \/ i = lastId + 1
    BY <1>1, WithRowType
  <1>3. rows'[lastId + 1] = [key |-> k, bundle |-> b, cond |-> c,
                             accepted |-> FALSE, cancel |-> "no"]
    BY <1>1, WithRowType
  <1>4. /\ DOMAIN rows' = DOMAIN rows \cup {lastId + 1}
        /\ lastId + 1 \notin DOMAIN rows
        /\ \A i \in DOMAIN rows : rows'[i] = rows[i]
    BY <1>1, <1>2, WithRowType
  <1> QED
    BY <1>3, <1>4

LEMMA CommitAppends ==
    ASSUME TypeOK, NEW r \in Requests, Commits(r)
    PROVE  /\ DOMAIN rows' = DOMAIN rows \cup {lastId + 1}
           /\ lastId + 1 \notin DOMAIN rows
           /\ \A i \in DOMAIN rows : rows'[i] = rows[i]
           /\ rows'[lastId + 1].key = req[r].key
           /\ rows'[lastId + 1].bundle = req[r].bundle
           /\ rows'[lastId + 1].cond = req[r].cond
           /\ rows'[lastId + 1].accepted = FALSE
           /\ debits' = debits /\ bundles' = bundles \cup inserted[r]
  <1>1. req[r] \in UpdateRequest
    BY DEF Commits, InsertPermissions, TypeOK, UpdateSteps
  <1>2. /\ lastId < MaxRows
        /\ rows' = WithRow(req[r].key, req[r].bundle, req[r].cond)
        /\ debits' = debits /\ bundles' = bundles \cup inserted[r]
    BY DEF Commits, InsertPermissions
  <1>3. PICK k \in Keys, b \in Bundles, c \in Conditions :
          k = req[r].key /\ b = req[r].bundle /\ c = req[r].cond
    BY <1>1 DEF UpdateRequest
  <1>4. rows' = WithRow(k, b, c)
    BY <1>2, <1>3
  <1>5. \A i \in 1..(lastId + 1) : i \in DOMAIN rows \/ i = lastId + 1
    BY <1>2, WithRowType
  <1>6. rows'[lastId + 1] = [key |-> k, bundle |-> b, cond |-> c,
                             accepted |-> FALSE, cancel |-> "no"]
    BY <1>2, <1>4, WithRowType
  <1>7. /\ DOMAIN rows' = 1..(lastId + 1) /\ lastId + 1 \in 1..(lastId + 1)
        /\ lastId + 1 \notin DOMAIN rows
        /\ \A i \in DOMAIN rows : i \in 1..(lastId + 1) /\ rows'[i] = rows[i]
    <2>1. lastId < MaxRows
      BY <1>2
    <2> QED
      BY <2>1, <1>4, WithRowType
  <1> QED
    BY <1>2, <1>3, <1>5, <1>6, <1>7

(* Foreign keys hold after every step.                                     *)
LEMMA StepRowsStored ==
    ASSUME IInv, NEW r \in Requests, Step(r)
    PROVE  RowsStored'
  <1> USE DEF IInv
  <1>1. ASSUME NEW k \in Keys, NEW b \in Bundles, NEW c \in Conditions,
               NEW u \in Users, CreateDataDebit(r, k, b, c, u)
        PROVE  RowsStored'
    <2>a. /\ DOMAIN rows' = DOMAIN rows \cup {lastId + 1}
          /\ \A i \in DOMAIN rows : rows'[i] = rows[i]
          /\ rows'[lastId + 1].key = k
          /\ rows'[lastId + 1].bundle = b
          /\ rows'[lastId + 1].cond = c
      BY <1>1, CreateAppends
    <2>1. /\ debits' = debits \cup {k}
          /\ bundles' = bundles \cup ({b, c} \ {NoBundle})
      BY <1>1 DEF CreateDataDebit
    <2>2. b # NoBundle
      BY ConstantsAssumption
    <2> QED
      BY <2>a, <2>1, <2>2 DEF RowsStored
  <1>2. CASE Commits(r)
    <2>a. /\ DOMAIN rows' = DOMAIN rows \cup {lastId + 1}
          /\ \A i \in DOMAIN rows : rows'[i] = rows[i]
          /\ rows'[lastId + 1].key = req[r].key
          /\ rows'[lastId + 1].bundle = req[r].bundle
          /\ rows'[lastId + 1].cond = req[r].cond
      BY <1>2, CommitAppends
    <2>1. \/ req[r].bundle \in inserted[r]
          \/ Linked(req[r].key, req[r].bundle)
      BY <1>2 DEF Commits, InsertPermissions, UpdateClaims
    <2>2. \/ req[r].cond \in inserted[r] \cup {NoBundle}
          \/ LinkedCond(req[r].key, req[r].cond)
      BY <1>2 DEF Commits, InsertPermissions, UpdateClaims
    <2>3. debits' = debits /\ bundles' = bundles \cup inserted[r]
      BY <1>2, CommitAppends
    <2>4. req[r].bundle \in bundles' /\ req[r].cond \in bundles' \cup {NoBundle}
      BY <2>1, <2>2, <2>3 DEF RowsStored, Linked, LinkedCond
    <2> QED
      BY <1>2, <2>a, <2>3, <2>4 DEF RowsStored, Commits
  <1>3. CASE KeepsLinks
    BY <1>3 DEF KeepsLinks, RowsStored
  <1> QED
    BY <1>1, <1>2, <1>3, StepKinds

(* A bundle and a conditions bundle stay with their debit.                 *)
LEMMA StepBundleOwnership ==
    ASSUME IInv, NEW r \in Requests, Step(r)
    PROVE  BundleOwnership'
  <1> USE DEF IInv
  <1>1. ASSUME NEW k \in Keys, NEW b \in Bundles, NEW c \in Conditions,
               NEW u \in Users, CreateDataDebit(r, k, b, c, u)
        PROVE  BundleOwnership'
    <2>a. /\ DOMAIN rows' = DOMAIN rows \cup {lastId + 1}
          /\ \A i \in DOMAIN rows : rows'[i] = rows[i]
          /\ rows'[lastId + 1].key = k
          /\ rows'[lastId + 1].bundle = b
          /\ rows'[lastId + 1].cond = c
      BY <1>1, CreateAppends
    <2>1. ({b, c} \ {NoBundle}) \cap bundles = {}
      BY <1>1 DEF CreateDataDebit
    <2>2. \A i \in DOMAIN rows : /\ rows[i].bundle # b
                                 /\ rows[i].cond = c => c = NoBundle
      BY <2>1, ConstantsAssumption DEF RowsStored
    <2> QED
      BY <2>a, <2>2 DEF BundleOwnership
  <1>2. CASE Commits(r)
    <2>a. /\ DOMAIN rows' = DOMAIN rows \cup {lastId + 1}
          /\ \A i \in DOMAIN rows : rows'[i] = rows[i]
          /\ rows'[lastId + 1].key = req[r].key
          /\ rows'[lastId + 1].bundle = req[r].bundle
          /\ rows'[lastId + 1].cond = req[r].cond
      BY <1>2, CommitAppends
    <2>1. \A i \in DOMAIN rows :
            rows[i].bundle = req[r].bundle => rows[i].key = req[r].key
      <3>1. CASE req[r].bundle \in inserted[r]
        BY <3>1 DEF RowsStored, InsertedApart
      <3>2. CASE Linked(req[r].key, req[r].bundle)
        BY <3>2 DEF Linked, BundleOwnership
      <3> QED
        BY <1>2, <3>1, <3>2 DEF Commits, InsertPermissions, UpdateClaims
    <2>2. \A i \in DOMAIN rows :
            rows[i].cond = req[r].cond /\ req[r].cond # NoBundle
              => rows[i].key = req[r].key
      <3>1. CASE req[r].cond \in inserted[r]
        BY <3>1 DEF RowsStored, InsertedApart
      <3>2. CASE LinkedCond(req[r].key, req[r].cond)
        BY <3>2 DEF LinkedCond, BundleOwnership
      <3> QED
        BY <1>2, <3>1, <3>2 DEF Commits, InsertPermissions, UpdateClaims
    <2> QED
      BY <2>a, <2>1, <2>2 DEF BundleOwnership
  <1>3. CASE KeepsLinks
    BY <1>3 DEF KeepsLinks, BundleOwnership
  <1> QED
    BY <1>1, <1>2, <1>3, StepKinds

-----------------------------------------------------------------------------
(* A step of one request leaves the other requests where they are.         *)
LEMMA OthersKeep ==
    ASSUME TypeOK, NEW r \in Requests, Step(r), NEW q \in Requests, q # r
    PROVE  /\ pc'[q] = pc[q] /\ req'[q] = req[q]
           /\ snap'[q] = snap[q] /\ inserted'[q] = inserted[q]
  <1> USE DEF Done, Goto, Carry, Proceed, tables, grants, TypeOK, Rollback, InsertInto
  <1>1. CASE EnableNewest(r) \/ DisableApply(r) \/ EnableDisableOld(r)
    BY <1>1 DEF EnableNewest, DisableApply, EnableDisableOld
  <1>2. CASE \/ BundlesWrongOwner(r) \/ BundleMatching(r) \/ InsertBundle(r)
             \/ InsertPermissions(r)
    BY <1>2 DEF BundlesWrongOwner, BundleMatching, InsertBundle,
       InsertPermissions
  <1>3. CASE \/ ConditionsWrongOwner(r) \/ ConditionsMatching(r)
             \/ InsertConditions(r)
    BY <1>3 DEF ConditionsWrongOwner, ConditionsMatching, InsertConditions
  <1>4. CASE GrantRead(r) \/ GrantSave(r) \/ GrantFails(r) \/ ValuesServe(r) \/ Abort(r)
    BY <1>4 DEF GrantRead, GrantSave, GrantFails, ValuesServe, Abort
  <1>5. CASE \/ \E k \in Keys : EnableStart(r, k)
             \/ \E k \in Keys, c \in Cancel \ {"no"} :
                  DisableStart(r, k, c)
             \/ \E i \in DOMAIN rows : ValuesRead(r, i)
    BY <1>5 DEF EnableStart, DisableStart, ValuesRead
  <1>6. CASE \E k \in Keys, b \in Bundles, c \in Conditions, u \in Users :
               CreateDataDebit(r, k, b, c, u) \/ UpdateStart(r, k, b, c, u)
    BY <1>6 DEF CreateDataDebit, UpdateStart
  <1> QED
    BY <1>1, <1>2, <1>3, <1>4, <1>5, <1>6 DEF Step

(* Rows are only added: what is linked to a debit stays linked to it.      *)
LEMMA LinksStay ==
    ASSUME TypeOK, NEW r \in Requests, Step(r)
    PROVE  \A i \in DOMAIN rows : /\ i \in DOMAIN rows'
                                  /\ rows'[i].key = rows[i].key
                                  /\ rows'[i].bundle = rows[i].bundle
                                  /\ rows'[i].cond = rows[i].cond
  <1>1. ASSUME NEW k \in Keys, NEW b \in Bundles, NEW c \in Conditions,
               NEW u \in Users, CreateDataDebit(r, k, b, c, u)
        PROVE  \A i \in DOMAIN rows : i \in DOMAIN rows' /\ rows'[i] = rows[i]
    BY <1>1, CreateAppends
  <1>2. CASE Commits(r)
    BY <1>2, CommitAppends
  <1>3. CASE KeepsLinks
    BY <1>3 DEF KeepsLinks
  <1> QED
    BY <1>1, <1>2, <1>3, StepKinds

(* How a step touches what open transactions have inserted.                *)
LEMMA InsertKinds ==
    ASSUME TypeOK, UpdateClaims, NEW r \in Requests, Step(r)
    PROVE  \/ \E k \in Keys, b \in Bundles, c \in Conditions, u \in Users :
                CreateDataDebit(r, k, b, c, u)
           \/ Commits(r)
           \/ /\ inserted' = [inserted EXCEPT ![r] = {}]
              /\ bundles' = bundles
           \/ /\ \E b \in Bundles : /\ b \notin bundles \cup inserted[r]
                                    /\ NoRival({b}, r)
                                    /\ inserted' = [inserted EXCEPT
                                                      ![r] = @ \cup {b}]
              /\ bundles' = bundles
           \/ UNCHANGED <<inserted, bundles>>
  <1> USE DEF Done, Goto, Carry, Proceed, tables, grants, Rollback
  <1>1. CASE EnableNewest(r) \/ DisableApply(r) \/ EnableDisableOld(r)
    BY <1>1 DEF EnableNewest, DisableApply, EnableDisableOld
  <1>2. CASE BundlesWrongOwner(r) \/ BundleMatching(r)
    BY <1>2 DEF BundlesWrongOwner, BundleMatching
  <1>3. CASE InsertBundle(r)
    <2>1. req[r].bundle \in Bundles
      BY <1>3 DEF InsertBundle, TypeOK, UpdateSteps, UpdateRequest
    <2> QED
      BY <1>3, <2>1 DEF InsertBundle, InsertInto
  <1>4. CASE InsertPermissions(r)
    BY <1>4 DEF InsertPermissions, Commits
  <1>5. CASE ConditionsWrongOwner(r) \/ ConditionsMatching(r)
    BY <1>5 DEF ConditionsWrongOwner, ConditionsMatching
  <1>6. CASE InsertConditions(r)
    <2>1. req[r].cond \in Conditions
      BY <1>6 DEF InsertConditions, TypeOK, UpdateSteps, UpdateRequest
    <2>2. CASE req[r].cond \in Bundles
      BY <1>6, <2>2 DEF InsertConditions, InsertInto
    <2>3. CASE req[r].cond = NoBundle
      BY <1>6, <2>3 DEF InsertConditions, InsertInto, UpdateClaims
    <2> QED
      BY <2>1, <2>2, <2>3 DEF Conditions
  <1>7. CASE GrantRead(r) \/ GrantSave(r) \/ GrantFails(r) \/ ValuesServe(r) \/ Abort(r)
    BY <1>7 DEF GrantRead, GrantSave, GrantFails, ValuesServe, Abort
  <1>8. CASE \/ \E k \in Keys : EnableStart(r, k)
             \/ \E k \in Keys, c \in Cancel \ {"no"} :
                  DisableStart(r, k, c)
             \/ \E i \in DOMAIN rows : ValuesRead(r, i)
    BY <1>8 DEF EnableStart, DisableStart, ValuesRead
  <1>9. CASE \E k \in Keys, b \in Bundles, c \in Conditions, u \in Users :
               UpdateStart(r, k, b, c, u)
    BY <1>9 DEF UpdateStart
  <1> QED
    BY <1>1, <1>2, <1>3, <1>4, <1>5, <1>6, <1>7, <1>8, <1>9 DEF Step

(* Primary keys: open transactions and the table never share a bundle.     *)
LEMMA StepInsertedApart ==
    ASSUME IInv, NEW r \in Requests, Step(r)
    PROVE  InsertedApart'
  <1> USE DEF IInv, InsertedApart, NoRival
  <1>0. inserted \in [Requests -> SUBSET Bundles]
    BY DEF TypeOK
  <1>1. ASSUME NEW k \in Keys, NEW b \in Bundles, NEW c \in Conditions,
               NEW u \in Users, CreateDataDebit(r, k, b, c, u)
        PROVE  InsertedApart'
    <2>1. /\ inserted' = inserted
          /\ bundles' = bundles \cup ({b, c} \ {NoBundle})
          /\ NoRival({b, c} \ {NoBundle}, r) /\ pc[r] = "idle"
      BY <1>1 DEF CreateDataDebit
    <2>2. inserted[r] = {}
      BY <2>1 DEF InsertedByUpdates, UpdateSteps
    <2> QED
      BY <2>1, <2>2
  <1>2. CASE Commits(r)
    <2>1. /\ inserted' = [inserted EXCEPT ![r] = {}]
          /\ bundles' = bundles \cup inserted[r]
      BY <1>2 DEF Commits, InsertPermissions
    <2> QED
      BY <1>0, <2>1
  <1>3. CASE /\ inserted' = [inserted EXCEPT ![r] = {}]
             /\ bundles' = bundles
    BY <1>0, <1>3
  <1>4. ASSUME NEW b \in Bundles, b \notin bundles \cup inserted[r],
               NoRival({b}, r), inserted' = [inserted EXCEPT ![r] = @ \cup {b}],
               bundles' = bundles
        PROVE  InsertedApart'
    BY <1>0, <1>4
  <1>5. CASE UNCHANGED <<inserted, bundles>>
    BY <1>5
  <1> QED
    BY <1>1, <1>2, <1>3, <1>4, <1>5, InsertKinds

(* Only a transaction in the middle of an update has inserted bundles.     *)
LEMMA StepInsertedByUpdates ==
    ASSUME IInv, NEW r \in Requests, Step(r)
    PROVE  InsertedByUpdates'
  <1> USE DEF IInv, InsertedByUpdates, UpdateSteps, Done, Goto, Carry, Proceed,
      tables, grants, Rollback
  <1>0. pc \in [Requests -> Steps] /\ inserted \in [Requests -> SUBSET Bundles]
    BY DEF TypeOK
  <1> SUFFICES pc'[r] \notin UpdateSteps => inserted'[r] = {}
    BY OthersKeep
  <1>1. CASE EnableNewest(r) \/ DisableApply(r) \/ EnableDisableOld(r)
    BY <1>0, <1>1 DEF EnableNewest, DisableApply, EnableDisableOld, EnableSteps
  <1>2. CASE \/ BundlesWrongOwner(r) \/ BundleMatching(r) \/ InsertBundle(r)
             \/ InsertPermissions(r)
    BY <1>0, <1>2 DEF BundlesWrongOwner, BundleMatching, InsertBundle,
       InsertInto, InsertPermissions
  <1>3. CASE \/ ConditionsWrongOwner(r) \/ ConditionsMatching(r)
             \/ InsertConditions(r)
    BY <1>0, <1>3 DEF ConditionsWrongOwner, ConditionsMatching,
       InsertConditions, InsertInto
  <1>4. CASE GrantRead(r) \/ GrantSave(r) \/ GrantFails(r) \/ ValuesServe(r) \/ Abort(r)
    BY <1>0, <1>4 DEF GrantRead, GrantSave, GrantFails, ValuesServe, Abort, GrantSteps
  <1>5. CASE \/ \E k \in Keys : EnableStart(r, k)
             \/ \E k \in Keys, c \in Cancel \ {"no"} :
                  DisableStart(r, k, c)
             \/ \E i \in DOMAIN rows : ValuesRead(r, i)
    BY <1>0, <1>5 DEF EnableStart, DisableStart, ValuesRead
  <1>6. CASE \E k \in Keys, b \in Bundles, c \in Conditions, u \in Users :
               CreateDataDebit(r, k, b, c, u) \/ UpdateStart(r, k, b, c, u)
    BY <1>0, <1>6 DEF CreateDataDebit, UpdateStart
  <1> QED
    BY <1>1, <1>2, <1>3, <1>4, <1>5, <1>6 DEF Step

(* An update goes on only with a bundle and conditions of its own debit.   *)
LEMMA StepUpdateClaims ==
    ASSUME IInv, NEW r \in Requests, Step(r)
    PROVE  UpdateClaims'
  <1> DEFINE BundleSteps == {"conditionsWrongOwner", "conditionsMatching",
                             "insertConditions", "insertPermissions"}
             Claims(q) ==
               /\ pc[q] \in BundleSteps
                    => \/ req[q].bundle \in inserted[q]
                       \/ Linked(req[q].key, req[q].bundle)
               /\ pc[q] \in {"conditionsMatching", "insertConditions"}
                    => req[q].cond # NoBundle
               /\ pc[q] = "insertPermissions"
                    => \/ req[q].cond \in inserted[q] \cup {NoBundle}
                       \/ LinkedCond(req[q].key, req[q].cond)
  <1>0. TypeOK /\ Claims(r) /\ UpdateClaims
    BY DEF IInv, UpdateClaims
  <1>t. /\ pc \in [Requests -> Steps] /\ DOMAIN req = Requests
        /\ inserted \in [Requests -> SUBSET Bundles]
    BY <1>0 DEF TypeOK
  <1>a. \A k, b : /\ Linked(k, b) => Linked(k, b)'
                  /\ LinkedCond(k, b) => LinkedCond(k, b)'
    BY <1>0, LinksStay DEF Linked, LinkedCond
  <1>b. ASSUME NEW q \in Requests, q # r PROVE Claims(q)'
    <2>1. Claims(q)
      BY <1>0 DEF UpdateClaims
    <2>2. /\ pc'[q] = pc[q] /\ req'[q] = req[q] /\ inserted'[q] = inserted[q]
      BY <1>0, <1>b, OthersKeep
    <2> QED
      BY <1>a, <2>1, <2>2
  <1> SUFFICES Claims(r)'
    BY <1>b DEF UpdateClaims
  <1>c. ASSUME pc'[r] \notin BundleSteps PROVE Claims(r)'
    BY <1>c
  <1> USE DEF Done, Goto, Carry, Proceed, tables, grants, Rollback
  <1>1. CASE EnableNewest(r) \/ DisableApply(r) \/ EnableDisableOld(r)
    BY <1>c, <1>t, <1>1 DEF EnableNewest, DisableApply, EnableDisableOld
  <1>2. CASE BundlesWrongOwner(r)
    BY <1>c, <1>t, <1>2 DEF BundlesWrongOwner
  <1>3. CASE BundleMatching(r)
    <2>1. CASE WithBundle(req[r].bundle) \cap RowsOf(req[r].key) = {}
      BY <1>c, <1>t, <1>3, <2>1 DEF BundleMatching
    <2>2. CASE WithBundle(req[r].bundle) \cap RowsOf(req[r].key) # {}
      <3>1. Linked(req[r].key, req[r].bundle)
        BY <2>2 DEF WithBundle, RowsOf, Linked
      <3>2. /\ pc'[r] = "conditionsWrongOwner" /\ req' = req
            /\ inserted' = inserted
        BY <1>t, <1>3, <2>2 DEF BundleMatching
      <3> QED
        BY <1>a, <3>1, <3>2
    <2> QED
      BY <2>1, <2>2
  <1>4. CASE InsertBundle(r)
    <2>1. CASE pc'[r] = "idle"
      BY <1>c, <2>1
    <2>2. CASE pc'[r] # "idle"
      BY <1>t, <1>4, <2>2 DEF InsertBundle, InsertInto
    <2> QED
      BY <2>1, <2>2
  <1>5. CASE ConditionsWrongOwner(r)
    <2>1. CASE pc'[r] = "idle"
      BY <1>c, <2>1
    <2>2. CASE pc'[r] # "idle"
      <3>1. /\ req' = req /\ inserted' = inserted
            /\ pc[r] = "conditionsWrongOwner"
            /\ \/ pc'[r] = "insertPermissions" /\ req[r].cond = NoBundle
               \/ pc'[r] = "conditionsMatching" /\ req[r].cond # NoBundle
        BY <1>t, <1>5, <2>2 DEF ConditionsWrongOwner
      <3> QED
        BY <1>0, <1>a, <3>1
    <2> QED
      BY <2>1, <2>2
  <1>6. CASE ConditionsMatching(r)
    <2>1. /\ req' = req /\ inserted' = inserted
          /\ pc[r] = "conditionsMatching"
          /\ \/ pc'[r] = "insertConditions"
             \/ /\ pc'[r] = "insertPermissions"
                /\ WithCondition(req[r].cond) \cap RowsOf(req[r].key) # {}
      BY <1>t, <1>6 DEF ConditionsMatching
    <2>2. CASE pc'[r] = "insertConditions"
      BY <1>0, <1>a, <2>1, <2>2
    <2>3. CASE pc'[r] = "insertPermissions"
      <3>1. LinkedCond(req[r].key, req[r].cond)
        BY <2>1, <2>3 DEF WithCondition, RowsOf, LinkedCond
      <3> QED
        BY <1>0, <1>a, <2>1, <2>3, <3>1
    <2> QED
      BY <2>1, <2>2, <2>3
  <1>7. CASE InsertConditions(r)
    <2>1. CASE pc'[r] = "idle"
      BY <1>c, <2>1
    <2>2. CASE pc'[r] # "idle"
      <3>1. /\ req' = req /\ pc[r] = "insertConditions"
            /\ inserted' = [inserted EXCEPT ![r] = @ \cup {req[r].cond}]
            /\ pc'[r] = "insertPermissions"
        BY <1>t, <1>7, <2>2 DEF InsertConditions, InsertInto
      <3>2. inserted'[r] = inserted[r] \cup {req[r].cond}
        BY <1>t, <3>1
      <3> QED
        BY <1>0, <1>a, <3>1, <3>2
    <2> QED
      BY <2>1, <2>2
  <1>8. CASE InsertPermissions(r)
    BY <1>c, <1>t, <1>8 DEF InsertPermissions
  <1>9. CASE GrantRead(r) \/ GrantSave(r) \/ GrantFails(r) \/ ValuesServe(r) \/ Abort(r)
    BY <1>c, <1>t, <1>9 DEF GrantRead, GrantSave, GrantFails, ValuesServe, Abort
  <1>10. CASE \/ \E k \in Keys : EnableStart(r, k)
              \/ \E k \in Keys, c \in Cancel \ {"no"} :
                   DisableStart(r, k, c)
              \/ \E i \in DOMAIN rows : ValuesRead(r, i)
    BY <1>c, <1>t, <1>10 DEF EnableStart, DisableStart, ValuesRead
  <1>11. CASE \E k \in Keys, b \in Bundles, c \in Conditions, u \in Users :
                CreateDataDebit(r, k, b, c, u) \/ UpdateStart(r, k, b, c, u)
    BY <1>c, <1>t, <1>11 DEF CreateDataDebit, UpdateStart
  <1> QED
    BY <1>1, <1>2, <1>3, <1>4, <1>5, <1>6, <1>7, <1>8, <1>9, <1>10, <1>11
       DEF Step
-----------------------------------------------------------------------------
(* The rows that enabling a debit accepts are its own, although the query  *)
(* asks for the bundle only, and all have the bundle of its newest row.    *)
LEMMA EnableOwnRows ==
    ASSUME BundleOwnership, NEW k
    PROVE  \A i \in EnableTargets(k) :
             /\ i \in DOMAIN rows /\ rows[i].key = k
             /\ \E n \in Newest(k) : rows[n].bundle = rows[i].bundle
             /\ \A n \in Newest(k) : TypeOK => rows[n].bundle = rows[i].bundle
  <1> SUFFICES ASSUME NEW i \in EnableTargets(k)
               PROVE  /\ i \in DOMAIN rows /\ rows[i].key = k
                      /\ \E n \in Newest(k) : rows[n].bundle = rows[i].bundle
                      /\ \A n \in Newest(k) :
                           TypeOK => rows[n].bundle = rows[i].bundle
    OBVIOUS
  <1>1. PICK n \in Newest(k) : i \in WithBundle(rows[n].bundle)
    BY DEF EnableTargets
  <1>2. /\ n \in DOMAIN rows /\ rows[n].key = k
        /\ i \in DOMAIN rows /\ rows[i].bundle = rows[n].bundle
    BY <1>1 DEF Newest, RowsOf, WithBundle
  <1>3. rows[i].key = k
    BY <1>2 DEF BundleOwnership
  <1>4. ASSUME NEW m \in Newest(k), TypeOK PROVE m = n
    <2>1. m <= n /\ n <= m
      BY <1>1 DEF Newest
    <2>2. m \in Nat /\ n \in Nat
      BY <1>4 DEF Newest, RowsOf, TypeOK
    <2> QED
      BY <2>1, <2>2
  <1> QED
    BY <1>1, <1>2, <1>3, <1>4

(* The steps that leave the permissions table, acceptance and consent      *)
(* alone.                                                                  *)
KeepsRows == UNCHANGED <<rows, consented>>
LEMMA RowsKinds ==
    ASSUME TypeOK, NEW r \in Requests, Step(r)
    PROVE  \/ \E k \in Keys, b \in Bundles, c \in Conditions, u \in Users :
                CreateDataDebit(r, k, b, c, u)
           \/ Commits(r)
           \/ EnableNewest(r)
           \/ DisableApply(r)
           \/ KeepsRows
  <1> USE DEF Done, Goto, Carry, Proceed, tables, grants, Rollback, KeepsRows
  <1>1. CASE BundlesWrongOwner(r) \/ BundleMatching(r) \/ InsertBundle(r)
    BY <1>1 DEF BundlesWrongOwner, BundleMatching, InsertBundle, InsertInto
  <1>2. CASE \/ ConditionsWrongOwner(r) \/ ConditionsMatching(r)
             \/ InsertConditions(r)
    BY <1>2 DEF ConditionsWrongOwner, ConditionsMatching, InsertConditions,
       InsertInto
  <1>3. CASE InsertPermissions(r)
    BY <1>3 DEF InsertPermissions, Commits
  <1>4. CASE GrantRead(r) \/ GrantSave(r) \/ GrantFails(r) \/ ValuesServe(r) \/ Abort(r)
    BY <1>4 DEF GrantRead, GrantSave, GrantFails, ValuesServe, Abort
  <1>5. CASE \/ \E k \in Keys : EnableStart(r, k)
             \/ \E k \in Keys, c \in Cancel \ {"no"} :
                  DisableStart(r, k, c)
             \/ \E i \in DOMAIN rows : ValuesRead(r, i)
             \/ EnableDisableOld(r)
    BY <1>5 DEF EnableStart, DisableStart, ValuesRead, EnableDisableOld
  <1>6. CASE \E k \in Keys, b \in Bundles, c \in Conditions, u \in Users :
               UpdateStart(r, k, b, c, u)
    BY <1>6 DEF UpdateStart
  <1> QED
    BY <1>1, <1>2, <1>3, <1>4, <1>5, <1>6 DEF Step

(* How a row's acceptance may change in a step.                            *)
LEMMA AcceptanceChange ==
    ASSUME IInv, NEW r \in Requests, Step(r)
    PROVE  \/ /\ EnableNewest(r) /\ DOMAIN rows' = DOMAIN rows
              /\ \A i \in DOMAIN rows :
                   rows'[i].accepted <=>
                     \/ i \in EnableTargets(req[r].key)
                     \/ rows[i].accepted /\ i \notin snap[r]
           \/ /\ consented' = consented
              /\ \A i \in DOMAIN rows' :
                   rows'[i].accepted => i \in DOMAIN rows /\ rows[i].accepted
  <1> USE DEF IInv
  <1>0. \A i \in DOMAIN rows : rows[i] \in Row
    BY DEF TypeOK
  <1>1. ASSUME NEW k \in Keys, NEW b \in Bundles, NEW c \in Conditions,
               NEW u \in Users, CreateDataDebit(r, k, b, c, u)
        PROVE  /\ consented' = consented
               /\ \A i \in DOMAIN rows' :
                    rows'[i].accepted => i \in DOMAIN rows /\ rows[i].accepted
    <2>1. /\ DOMAIN rows' = DOMAIN rows \cup {lastId + 1}
          /\ \A i \in DOMAIN rows : rows'[i] = rows[i]
          /\ rows'[lastId + 1].accepted = FALSE
      BY <1>1, CreateAppends
    <2>2. consented' = consented
      BY <1>1 DEF CreateDataDebit
    <2> QED
      BY <2>1, <2>2
  <1>2. CASE Commits(r)
    <2>1. /\ DOMAIN rows' = DOMAIN rows \cup {lastId + 1}
          /\ \A i \in DOMAIN rows : rows'[i] = rows[i]
          /\ rows'[lastId + 1].accepted = FALSE
      BY <1>2, CommitAppends
    <2>2. consented' = consented
      BY <1>2 DEF Commits, InsertPermissions
    <2> QED
      BY <2>1, <2>2
  <1>3. CASE EnableNewest(r)
    <2>1. rows' = Accept(EnableTargets(req[r].key), snap[r])
      BY <1>3 DEF EnableNewest
    <2>2. \A i \in DOMAIN rows :
            rows'[i].accepted <=>
               \/ i \in EnableTargets(req[r].key)
               \/ rows[i].accepted /\ i \notin snap[r]
      BY <1>0, <2>1 DEF Accept, Row
    <2> QED
      BY <1>3, <2>1, <2>2 DEF Accept
  <1>4. CASE DisableApply(r)
    BY <1>0, <1>4 DEF DisableApply, Row
  <1>5. CASE KeepsRows
    BY <1>5 DEF KeepsRows
  <1> QED
    BY <1>1, <1>2, <1>3, <1>4, <1>5, RowsKinds

(* What the second statement of an enable leaves accepted.                 *)
LEMMA EnableRejects ==
    ASSUME IInv, NEW r \in Requests, Step(r), EnableNewest(r)
    PROVE  /\ DOMAIN rows' = DOMAIN rows
           /\ \A i \in DOMAIN rows :
                rows'[i].accepted <=> \/ i \in EnableTargets(req[r].key)
                                      \/ rows[i].accepted /\ i \notin snap[r]
  <1> DEFINE T == EnableTargets(req[r].key)
  <1>0. \A i \in DOMAIN rows : rows[i] \in Row
    BY DEF IInv, TypeOK
  <1>1. rows' = Accept(T, snap[r])
    BY DEF EnableNewest
  <1> HIDE DEF T
  <1>2. \A i \in DOMAIN rows :
          rows'[i].accepted <=> \/ i \in T
                                \/ rows[i].accepted /\ i \notin snap[r]
    BY <1>0, <1>1 DEF Accept, Row
  <1>3. DOMAIN rows' = DOMAIN rows
    BY <1>1, Zenon DEF Accept
  <1> QED
    BY <1>2, <1>3 DEF T

(* Consent is never forgotten.                                             *)
LEMMA ConsentStays ==
    ASSUME TypeOK, NEW r \in Requests, Step(r)
    PROVE  consented \subseteq consented'
  <1>1. ASSUME NEW k \in Keys, NEW b \in Bundles, NEW c \in Conditions,
               NEW u \in Users, CreateDataDebit(r, k, b, c, u)
        PROVE  consented' = consented
    BY <1>1 DEF CreateDataDebit
  <1>2. CASE Commits(r)
    BY <1>2 DEF Commits, InsertPermissions
  <1>3. CASE EnableNewest(r)
    BY <1>3 DEF EnableNewest
  <1>4. CASE DisableApply(r) \/ KeepsRows
    BY <1>4 DEF DisableApply, KeepsRows
  <1> QED
    BY <1>1, <1>2, <1>3, <1>4, RowsKinds

(* The steps that read a bundle.                                           *)
LEMMA ReadKinds ==
    ASSUME TypeOK, NEW r \in Requests, Step(r)
    PROVE  \/ \E i \in DOMAIN rows : ValuesRead(r, i)
           \/ ValuesServe(r)
           \/ pc[r] # "values" /\ pc'[r] # "values"
  <1> USE DEF Done, Goto, Carry, Proceed, tables, grants, Rollback
  <1>0. pc \in [Requests -> Steps]
    BY DEF TypeOK
  <1>1. CASE \/ EnableNewest(r) \/ DisableApply(r) \/ EnableDisableOld(r)
             \/ \E k \in Keys : EnableStart(r, k)
             \/ \E k \in Keys, c \in Cancel \ {"no"} : DisableStart(r, k, c)
    BY <1>0, <1>1 DEF EnableNewest, DisableApply, EnableDisableOld, EnableStart,
       DisableStart
  <1>2. CASE \/ BundlesWrongOwner(r) \/ BundleMatching(r)
             \/ InsertBundle(r) \/ InsertPermissions(r)
    BY <1>0, <1>2 DEF BundlesWrongOwner, BundleMatching, InsertBundle,
       InsertInto, InsertPermissions
  <1>3. CASE \/ ConditionsWrongOwner(r) \/ ConditionsMatching(r)
             \/ InsertConditions(r)
    BY <1>0, <1>3 DEF ConditionsWrongOwner, ConditionsMatching,
       InsertConditions, InsertInto
  <1>4. CASE GrantRead(r) \/ GrantSave(r) \/ GrantFails(r) \/ Abort(r)
    BY <1>0, <1>4 DEF GrantRead, GrantSave, GrantFails, Abort, UpdateSteps, EnableSteps, GrantSteps
  <1>5. CASE \E k \in Keys, b \in Bundles, c \in Conditions, u \in Users :
               CreateDataDebit(r, k, b, c, u) \/ UpdateStart(r, k, b, c, u)
    BY <1>0, <1>5 DEF CreateDataDebit, UpdateStart
  <1>6. CASE ValuesServe(r) \/ \E i \in DOMAIN rows : ValuesRead(r, i)
    BY <1>6
  <1> QED
    BY <1>1, <1>2, <1>3, <1>4, <1>5, <1>6 DEF Step

(* Every accepted row has consent.                                         *)
LEMMA StepAcceptedWithConsent ==
    ASSUME IInv, NEW r \in Requests, Step(r)
    PROVE  AcceptedWithConsent'
  <1> USE DEF IInv
  <1>1. ASSUME NEW i \in DOMAIN rows', rows'[i].accepted
        PROVE  <<rows'[i].key, rows'[i].bundle>> \in consented'
    <2>1. CASE i \in DOMAIN rows /\ rows[i].accepted
      BY <2>1, LinksStay, ConsentStays DEF AcceptedWithConsent
    <2>2. CASE ~(i \in DOMAIN rows /\ rows[i].accepted)
      <3>1. EnableNewest(r) /\ i \in EnableTargets(req[r].key)
        BY <1>1, <2>2, AcceptanceChange
      <3>2. /\ i \in DOMAIN rows /\ rows[i].key = req[r].key
            /\ \E n \in Newest(req[r].key) : rows[n].bundle = rows[i].bundle
        BY <3>1, EnableOwnRows
      <3>3. <<req[r].key, rows[i].bundle>> \in consented'
        BY <3>1, <3>2 DEF EnableNewest
      <3> QED
        BY <3>2, <3>3, LinksStay
    <2> QED
      BY <2>1, <2>2
  <1> QED
    BY <1>1 DEF AcceptedWithConsent

(* What is handed out was consented to.                                    *)
LEMMA StepServedWithConsent ==
    ASSUME IInv, NEW r \in Requests, Step(r)
    PROVE  ServedWithConsent'
  <1> USE DEF IInv
  <1>1. ASSUME NEW q \in Requests, pc'[q] = "values"
        PROVE  <<req'[q].key, req'[q].bundle>> \in consented'
    <2>1. CASE pc[q] = "values" /\ req'[q] = req[q]
      BY <2>1, ConsentStays DEF ServedWithConsent
    <2>2. CASE ~(pc[q] = "values" /\ req'[q] = req[q])
      <3>1. q = r
        BY <1>1, <2>2, OthersKeep
      <3>2. PICK i \in DOMAIN rows : ValuesRead(r, i)
        <4>1. ~ValuesServe(r)
          BY <1>1, <3>1 DEF ValuesServe, Done, Goto, TypeOK
        <4> QED
          BY <1>1, <3>1, <4>1, ReadKinds
      <3>3. <<rows[i].key, rows[i].bundle>> \in consented
        BY <3>2 DEF ValuesRead, Active, AcceptedWithConsent
      <3>4. req'[r] = [key |-> rows[i].key, bundle |-> rows[i].bundle]
        BY <3>2 DEF ValuesRead, Carry, TypeOK
      <3> QED
        BY <3>1, <3>3, <3>4, ConsentStays
    <2> QED
      BY <2>1, <2>2
  <1> QED
    BY <1>1 DEF ServedWithConsent
-----------------------------------------------------------------------------
(* Debits are never deleted.                                               *)
LEMMA DebitsStay ==
    ASSUME TypeOK, NEW r \in Requests, Step(r)
    PROVE  debits \subseteq debits'
  <1>1. ASSUME NEW k \in Keys, NEW b \in Bundles, NEW c \in Conditions,
               NEW u \in Users, CreateDataDebit(r, k, b, c, u)
        PROVE  debits \subseteq debits'
    BY <1>1 DEF CreateDataDebit
  <1>2. CASE Commits(r)
    BY <1>2, CommitAppends
  <1>3. CASE KeepsLinks
    BY <1>3 DEF KeepsLinks
  <1> QED
    BY <1>1, <1>2, <1>3, StepKinds

(* The steps that concern roles: a success asks for a grant, which reads   *)
(* the user and then saves it, or fails; the others leave grants alone.    *)
Asks(r) == /\ UNCHANGED <<roles, unsettled>>
           /\ pc'[r] = "getUser" /\ req'[r].key \in debits'
           /\ asked' = asked \cup {<<req'[r].user, req'[r].key>>}
GrantsAlone(r) == UNCHANGED grants /\ pc'[r] \notin GrantSteps

LEMMA GrantKinds ==
    ASSUME TypeOK, NEW r \in Requests, Step(r)
    PROVE  \/ GrantRead(r) \/ GrantSave(r) \/ GrantFails(r)
           \/ pc[r] \notin GrantSteps /\ (Asks(r) \/ GrantsAlone(r))
  <1> USE DEF Done, Goto, Carry, Proceed, tables, grants, Rollback, GrantSteps, GrantsAlone
  <1>0. pc \in [Requests -> Steps] /\ DOMAIN req = Requests
    BY DEF TypeOK
  <1>1. CASE \/ EnableNewest(r) \/ DisableApply(r) \/ EnableDisableOld(r)
             \/ \E k \in Keys : EnableStart(r, k)
             \/ \E k \in Keys, c \in Cancel \ {"no"} :
                  DisableStart(r, k, c)
             \/ \E i \in DOMAIN rows : ValuesRead(r, i)
    BY <1>0, <1>1 DEF EnableNewest, DisableApply, EnableDisableOld,
       EnableStart, DisableStart, ValuesRead
  <1>2. CASE BundlesWrongOwner(r) \/ BundleMatching(r) \/ InsertBundle(r)
    BY <1>0, <1>2 DEF BundlesWrongOwner, BundleMatching, InsertBundle,
       InsertInto
  <1>3. CASE \/ ConditionsWrongOwner(r) \/ ConditionsMatching(r)
             \/ InsertConditions(r)
    BY <1>0, <1>3 DEF ConditionsWrongOwner, ConditionsMatching,
       InsertConditions, InsertInto
  <1>4. CASE InsertPermissions(r)
    <2>1. CASE req[r].key \in debits
      <3>1. req'[r] = [key |-> req[r].key, user |-> req[r].user, roles |-> {}]
        BY <1>0, <1>4, <2>1 DEF InsertPermissions
      <3>2. req'[r].key = req[r].key /\ req'[r].user = req[r].user
        BY <3>1
      <3> QED
        BY <1>0, <1>4, <2>1, <3>2 DEF InsertPermissions, Asks
    <2>2. CASE req[r].key \notin debits
      BY <1>0, <1>4, <2>2 DEF InsertPermissions
    <2> QED
      BY <2>1, <2>2
  <1>5. CASE GrantRead(r) \/ GrantSave(r) \/ GrantFails(r)
    BY <1>5
  <1>6. CASE ValuesServe(r) \/ Abort(r)
    BY <1>0, <1>6 DEF ValuesServe, Abort, UpdateSteps, EnableSteps
  <1>7. ASSUME NEW k \in Keys, NEW b \in Bundles, NEW c \in Conditions,
               NEW u \in Users, CreateDataDebit(r, k, b, c, u)
        PROVE  pc[r] \notin GrantSteps /\ Asks(r)
    <2>1. req'[r] = [key |-> k, user |-> u, roles |-> {}]
      BY <1>0, <1>7 DEF CreateDataDebit
    <2>2. req'[r].key = k /\ req'[r].user = u
      BY <2>1
    <2> QED
      BY <1>0, <1>7, <2>2 DEF CreateDataDebit, Asks
  <1>8. CASE \E k \in Keys, b \in Bundles, c \in Conditions, u \in Users :
               UpdateStart(r, k, b, c, u)
    BY <1>0, <1>8 DEF UpdateStart
  <1> QED
    BY <1>1, <1>2, <1>3, <1>4, <1>5, <1>6, <1>7, <1>8 DEF Step

(* What a grant does, with the types it relies on.                         *)
LEMMA GrantFacts ==
    ASSUME TypeOK, NEW r \in Requests, pc[r] \in GrantSteps
    PROVE  /\ req[r].user \in Users /\ req[r].key \in Keys
           /\ req[r].roles \subseteq Keys
           /\ GrantRead(r) => /\ req'[r].user = req[r].user /\ req'[r].key = req[r].key
                              /\ req'[r].roles = roles[req[r].user] \cup {req[r].key}
                              /\ pc'[r] = "saveUser"
                              /\ UNCHANGED <<debits, roles, asked>>
                              /\ unsettled \subseteq unsettled'
                              /\ req[r].user \in unsettled' \/ \A q \in Requests : ~Saving(q, req[r].user)
           /\ GrantSave(r) => /\ pc'[r] = "idle" /\ UNCHANGED <<debits, asked, unsettled>>
                              /\ roles'[req[r].user] = req[r].roles
                              /\ \A u \in Users \ {req[r].user} : roles'[u] = roles[u]
           /\ GrantFails(r) => /\ pc'[r] = "idle" /\ UNCHANGED <<debits, roles, asked>>
                               /\ unsettled' = unsettled \cup {req[r].user}
  <1>1. req[r] \in GrantRequest
    BY DEF TypeOK
  <1>2. DOMAIN req = Requests /\ pc \in [Requests -> Steps] /\ roles \in [Users -> SUBSET Keys]
    BY DEF TypeOK
  <1>3. ASSUME GrantRead(r)
        PROVE  req'[r] = [req[r] EXCEPT !.roles = roles[req[r].user] \cup {req[r].key}]
    BY <1>2, <1>3 DEF GrantRead, Carry
  <1>4. GrantRead(r) => /\ req'[r].user = req[r].user /\ req'[r].key = req[r].key
                        /\ req'[r].roles = roles[req[r].user] \cup {req[r].key}
    BY <1>1, <1>3 DEF GrantRequest
  <1> QED
    BY <1>1, <1>2, <1>4 DEF GrantRequest, GrantRead, GrantSave, GrantFails, Done, Goto, tables

(* Roles, and the copies of them being saved, are what was asked for.      *)
LEMMA StepRoles ==
    ASSUME IInv, TypeOK', NEW r \in Requests, Step(r)
    PROVE  AskedStored' /\ GrantsForDebits' /\ RolesForDebits'
  <1> USE DEF IInv
  <1>0. debits \subseteq debits'
    BY DebitsStay
  <1>1. asked \subseteq asked' => \A q \in Requests \ {r} :
               /\ pc'[q] \in GrantSteps => <<req'[q].user, req'[q].key>> \in asked'
               /\ pc'[q] = "saveUser" => \A k \in req'[q].roles : <<req'[q].user, k>> \in asked'
    BY OthersKeep DEF GrantsForDebits
  <1>2. CASE GrantRead(r)
    <2>1. pc[r] \in GrantSteps
      BY <1>2 DEF GrantRead, GrantSteps
    <2>2. \A k \in roles[req[r].user] \cup {req[r].key} : <<req[r].user, k>> \in asked
      BY <2>1, GrantFacts DEF GrantsForDebits, RolesForDebits
    <2> QED
      BY <1>1, <1>2, <2>1, <2>2, GrantFacts DEF AskedStored, GrantsForDebits, RolesForDebits
  <1>3. CASE GrantSave(r)
    <2>1. pc[r] \in GrantSteps /\ pc[r] = "saveUser"
      BY <1>3 DEF GrantSave, GrantSteps
    <2>2. \A k \in req[r].roles : <<req[r].user, k>> \in asked /\ k \in debits
      BY <2>1, GrantFacts DEF GrantsForDebits, AskedStored
    <2>3. UNCHANGED <<debits, asked>> /\ pc'[r] = "idle"
      BY <1>3, <2>1, GrantFacts
    <2>4. RolesForDebits'
      BY <1>3, <2>1, <2>2, <2>3, GrantFacts DEF RolesForDebits
    <2> QED
      BY <1>1, <2>3, <2>4 DEF AskedStored, GrantsForDebits, GrantSteps
  <1>4. CASE GrantFails(r)
    <2>1. pc[r] \in GrantSteps
      BY <1>4 DEF GrantFails
    <2>2. UNCHANGED <<debits, roles, asked>> /\ pc'[r] = "idle"
      BY <1>4, <2>1, GrantFacts
    <2> QED
      BY <1>1, <2>2 DEF AskedStored, GrantsForDebits, RolesForDebits, GrantSteps
  <1>5. CASE Asks(r)
    <2>1. \A u \in Users, k \in Keys : <<u, k>> \in asked' => k \in debits'
      BY <1>0, <1>5 DEF Asks, AskedStored
    <2> QED
      BY <1>0, <1>1, <1>5, <2>1 DEF Asks, AskedStored, GrantsForDebits, RolesForDebits
  <1>6. CASE GrantsAlone(r)
    BY <1>0, <1>1, <1>6 DEF GrantsAlone, grants, AskedStored, GrantsForDebits, RolesForDebits, GrantSteps
  <1> QED
    BY <1>2, <1>3, <1>4, <1>5, <1>6, GrantKinds

(* A settled user's grants come one after the other, so that each saves    *)
(* all that was granted before.                                            *)
LEMMA StepGrantsFresh ==
    ASSUME IInv, NEW r \in Requests, Step(r)
    PROVE  GrantsFresh'
  <1> USE DEF IInv
  <1> SUFFICES ASSUME NEW q \in Requests, pc'[q] = "saveUser", req'[q].user \notin unsettled'
               PROVE  /\ roles'[req'[q].user] \cup {req'[q].key} \subseteq req'[q].roles
                      /\ \A p \in Requests \ {q} : ~(pc'[p] = "saveUser" /\ req'[p].user = req'[q].user)
    BY DEF GrantsFresh, Saving
  <1>1. CASE GrantRead(r)
    <2>1. pc[r] \in GrantSteps
      BY <1>1 DEF GrantRead, GrantSteps
    <2>2. /\ unsettled \subseteq unsettled' /\ roles' = roles
          /\ req'[r].user = req[r].user
          /\ req[r].user \in unsettled' \/ \A p \in Requests : ~Saving(p, req[r].user)
      BY <1>1, <2>1, GrantFacts
    <2>3. CASE q = r
      BY <1>1, <2>1, <2>2, <2>3, GrantFacts, OthersKeep DEF Saving
    <2>4. CASE q # r
      BY <2>2, <2>4, OthersKeep DEF GrantsFresh, Saving
    <2> QED
      BY <2>3, <2>4
  <1>2. CASE GrantSave(r)
    <2>1. pc[r] \in GrantSteps /\ pc[r] = "saveUser"
      BY <1>2 DEF GrantSave, GrantSteps
    <2>2. pc'[r] = "idle" /\ unsettled' = unsettled
      BY <1>2, <2>1, GrantFacts
    <2>3. q # r /\ pc[q] = "saveUser" /\ req'[q] = req[q]
      BY <2>2, OthersKeep
    <2>4. req[q].user # req[r].user /\ req[q].user \in Users
      BY <2>1, <2>2, <2>3, GrantFacts DEF GrantsFresh, Saving, GrantSteps
    <2>5. roles'[req[q].user] = roles[req[q].user]
      BY <1>2, <2>1, <2>4, GrantFacts
    <2> QED
      BY <2>2, <2>3, <2>5, OthersKeep DEF GrantsFresh, Saving
  <1>3. CASE /\ roles' = roles /\ unsettled \subseteq unsettled' /\ pc'[r] # "saveUser"
    BY <1>3, OthersKeep DEF GrantsFresh, Saving
  <1>4. CASE GrantFails(r)
    <2>1. pc[r] \in GrantSteps
      BY <1>4 DEF GrantFails
    <2> QED
      BY <1>3, <1>4, <2>1, GrantFacts
  <1> QED
    BY <1>1, <1>2, <1>3, <1>4, GrantKinds DEF Asks, GrantsAlone, grants, GrantSteps

(* No role of a settled user is lost.                                      *)
LEMMA StepRolesKept ==
    ASSUME IInv, TypeOK', NEW r \in Requests, Step(r)
    PROVE  RolesKept'
  <1> USE DEF IInv
  <1> SUFFICES ASSUME NEW u \in Users, u \notin unsettled', NEW k \in Keys, <<u, k>> \in asked',
                      k \notin roles'[u]
               PROVE  \E q \in Requests : pc'[q] \in GrantSteps /\ req'[q].user = u /\ req'[q].key = k
    BY DEF RolesKept, Granting
  <1>1. ASSUME NEW q \in Requests, Granting(q, u), req[q].key = k, q # r
        PROVE  pc'[q] \in GrantSteps /\ req'[q].user = u /\ req'[q].key = k
    BY <1>1, OthersKeep DEF Granting
  <1>2. CASE GrantRead(r)
    <2>1. pc[r] \in GrantSteps
      BY <1>2 DEF GrantRead, GrantSteps
    <2>2. u \notin unsettled /\ <<u, k>> \in asked /\ k \notin roles[u]
      BY <1>2, <2>1, GrantFacts
    <2>3. PICK q \in Requests : Granting(q, u) /\ req[q].key = k
      BY <2>2 DEF RolesKept
    <2>4. CASE q = r
      BY <1>2, <2>1, <2>3, <2>4, GrantFacts DEF Granting, GrantSteps
    <2> QED
      BY <1>1, <2>3, <2>4
  <1>3. CASE GrantSave(r)
    <2>1. pc[r] \in GrantSteps /\ pc[r] = "saveUser"
      BY <1>3 DEF GrantSave, GrantSteps
    <2>2. u \notin unsettled /\ <<u, k>> \in asked
      BY <1>3, <2>1, GrantFacts
    <2>3. req[r].user = u => /\ roles'[u] = req[r].roles
                             /\ roles[u] \cup {req[r].key} \subseteq req[r].roles
      BY <1>3, <2>1, <2>2, GrantFacts DEF GrantsFresh
    <2>4. k \notin roles[u] /\ (req[r].user = u => req[r].key # k)
      BY <1>3, <2>1, <2>3, GrantFacts
    <2>5. PICK q \in Requests : Granting(q, u) /\ req[q].key = k
      BY <2>2, <2>4 DEF RolesKept
    <2> QED
      BY <1>1, <2>4, <2>5 DEF Granting
  <1>4. CASE GrantFails(r)
    <2>1. pc[r] \in GrantSteps
      BY <1>4 DEF GrantFails
    <2>2. u \notin unsettled /\ <<u, k>> \in asked /\ k \notin roles[u] /\ u # req[r].user
      BY <1>4, <2>1, GrantFacts
    <2>3. PICK q \in Requests : Granting(q, u) /\ req[q].key = k
      BY <2>2 DEF RolesKept
    <2> QED
      BY <1>1, <2>2, <2>3 DEF Granting
  <1>5. CASE pc[r] \notin GrantSteps /\ (Asks(r) \/ GrantsAlone(r))
    <2>1. roles' = roles /\ unsettled' = unsettled
      BY <1>5 DEF Asks, GrantsAlone, grants
    <2>2. CASE <<u, k>> \in asked
      <3>1. PICK q \in Requests : Granting(q, u) /\ req[q].key = k
        BY <2>1, <2>2 DEF RolesKept
      <3> QED
        BY <1>1, <1>5, <3>1 DEF Granting
    <2>3. CASE <<u, k>> \notin asked
      BY <1>5, <2>3 DEF Asks, GrantsAlone, grants, GrantSteps
    <2> QED
      BY <2>2, <2>3
  <1> QED
    BY <1>2, <1>3, <1>4, <1>5, GrantKinds
-----------------------------------------------------------------------------
(* The steps that begin to enable or to disable, and those that go on.     *)
LEMMA EnableKinds ==
    ASSUME TypeOK, NEW r \in Requests, Step(r)
    PROVE  \/ \E k \in Keys : EnableStart(r, k)
           \/ \E k \in Keys, c \in Cancel \ {"no"} : DisableStart(r, k, c)
           \/ EnableDisableOld(r)
           \/ pc'[r] \notin EnableSteps \cup {"disable"}
  <1> USE DEF Done, Goto, Carry, Proceed, tables, grants, Rollback, EnableSteps
  <1>0. pc \in [Requests -> Steps]
    BY DEF TypeOK
  <1>1. CASE \/ EnableNewest(r) \/ DisableApply(r)
             \/ \E i \in DOMAIN rows : ValuesRead(r, i)
    BY <1>0, <1>1 DEF EnableNewest, DisableApply, ValuesRead
  <1>2. CASE \/ BundlesWrongOwner(r) \/ BundleMatching(r) \/ InsertBundle(r)
             \/ InsertPermissions(r)
    BY <1>0, <1>2 DEF BundlesWrongOwner, BundleMatching, InsertBundle,
       InsertInto, InsertPermissions
  <1>3. CASE \/ ConditionsWrongOwner(r) \/ ConditionsMatching(r)
             \/ InsertConditions(r)
    BY <1>0, <1>3 DEF ConditionsWrongOwner, ConditionsMatching,
       InsertConditions, InsertInto
  <1>4. CASE GrantRead(r) \/ GrantSave(r) \/ GrantFails(r) \/ ValuesServe(r) \/ Abort(r)
    BY <1>0, <1>4 DEF GrantRead, GrantSave, GrantFails, ValuesServe, Abort, GrantSteps
  <1>5. CASE \E k \in Keys, b \in Bundles, c \in Conditions, u \in Users :
               CreateDataDebit(r, k, b, c, u) \/ UpdateStart(r, k, b, c, u)
    BY <1>0, <1>5 DEF CreateDataDebit, UpdateStart
  <1>6. CASE \/ \E k \in Keys : EnableStart(r, k)
             \/ \E k \in Keys, c \in Cancel \ {"no"} : DisableStart(r, k, c)
             \/ EnableDisableOld(r)
    BY <1>6
  <1> QED
    BY <1>1, <1>2, <1>3, <1>4, <1>5, <1>6 DEF Step

(* What a request saw before it enables or disables are its debit's rows.  *)
LEMMA StepSnapOwn ==
    ASSUME IInv, NEW r \in Requests, Step(r)
    PROVE  SnapOwn'
  <1> USE DEF IInv
  <1>t. pc \in [Requests -> Steps] /\ DOMAIN req = Requests /\ DOMAIN snap = Requests
    BY DEF TypeOK
  <1> DEFINE After(k) == {i \in DOMAIN rows' : rows'[i].key = k}
  <1>1. \A k : RowsOf(k) \subseteq After(k)
    BY LinksStay DEF RowsOf
  <1> HIDE DEF After
  <1> SUFFICES ASSUME NEW q \in Requests, pc'[q] \in EnableSteps \cup {"disable"}
               PROVE  snap'[q] \subseteq After(req'[q].key)
    BY DEF SnapOwn, RowsOf, After
  <1>2. CASE /\ pc[q] \in EnableSteps \cup {"disable"}
             /\ req'[q] = req[q] /\ snap'[q] = snap[q]
    BY <1>1, <1>2 DEF SnapOwn
  <1>3. CASE q # r
    BY <1>2, <1>3, OthersKeep
  <1>4. ASSUME q = r, NEW k \in Keys, EnableStart(r, k)
        PROVE  snap'[q] \subseteq After(req'[q].key)
    <2>1. req'[r].key = k /\ snap'[r] = RowsOf(k)
      BY <1>t, <1>4 DEF EnableStart, Carry
    <2> QED
      BY <1>1, <1>4, <2>1
  <1>5. ASSUME q = r, NEW k \in Keys, NEW c \in Cancel \ {"no"}, DisableStart(r, k, c)
        PROVE  snap'[q] \subseteq After(req'[q].key)
    <2>1. req'[r].key = k /\ snap'[r] = RowsOf(k)
      BY <1>t, <1>5 DEF DisableStart, Carry
    <2> QED
      BY <1>1, <1>5, <2>1
  <1>6. CASE EnableDisableOld(r)
    BY <1>2, <1>3, <1>6 DEF EnableDisableOld, Proceed, EnableSteps
  <1> QED
    BY <1>3, <1>4, <1>5, <1>6, EnableKinds

(* Only an enable changes what is crossed: its debit is when it accepts a  *)
(* row that another has not seen, and no longer when it has seen all.      *)
LEMMA CrossedKinds ==
    ASSUME TypeOK, NEW r \in Requests, Step(r)
    PROVE  IF EnableNewest(r)
           THEN /\ \A k : k # req[r].key => (k \in crossed <=> k \in crossed')
                /\ req[r].key \notin crossed' =>
                     /\ Outrun(r, req[r].key) = {}
                     /\ req[r].key \notin crossed \/ SawAccepted(r, req[r].key)
           ELSE crossed' = crossed
  <1> USE DEF Proceed, Rollback
  <1>1. CASE EnableNewest(r)
    BY <1>1 DEF EnableNewest
  <1>2. CASE DisableApply(r) \/ EnableDisableOld(r)
    BY <1>1, <1>2 DEF DisableApply, EnableDisableOld
  <1>3. CASE BundlesWrongOwner(r) \/ BundleMatching(r) \/ InsertBundle(r) \/ InsertPermissions(r)
    BY <1>1, <1>3 DEF BundlesWrongOwner, BundleMatching, InsertBundle, InsertInto, InsertPermissions
  <1>4. CASE ConditionsWrongOwner(r) \/ ConditionsMatching(r) \/ InsertConditions(r)
    BY <1>1, <1>4 DEF ConditionsWrongOwner, ConditionsMatching, InsertConditions, InsertInto
  <1>5. CASE GrantRead(r) \/ GrantSave(r) \/ GrantFails(r) \/ ValuesServe(r) \/ Abort(r)
    BY <1>1, <1>5 DEF GrantRead, GrantSave, GrantFails, ValuesServe, Abort
  <1>6. CASE \/ \E k \in Keys : EnableStart(r, k)
             \/ \E k \in Keys, c \in Cancel \ {"no"} : DisableStart(r, k, c)
             \/ \E i \in DOMAIN rows : ValuesRead(r, i)
    BY <1>1, <1>6 DEF EnableStart, DisableStart, ValuesRead
  <1>7. CASE \E k \in Keys, b \in Bundles, c \in Conditions, u \in Users :
               CreateDataDebit(r, k, b, c, u) \/ UpdateStart(r, k, b, c, u)
    BY <1>1, <1>7 DEF CreateDataDebit, UpdateStart
  <1> QED
    BY <1>1, <1>2, <1>3, <1>4, <1>5, <1>6, <1>7 DEF Step

(* An enable in progress has seen the rows of its debit that are accepted. *)
LEMMA StepEnableSawAccepted ==
    ASSUME IInv, NEW r \in Requests, Step(r)
    PROVE  EnableSawAccepted'
  <1> USE DEF IInv
  <1> SUFFICES ASSUME NEW q \in Requests, pc'[q] \in EnableSteps,
                      req'[q].key \notin crossed', NEW i \in DOMAIN rows',
                      rows'[i].key = req'[q].key, rows'[i].accepted
               PROVE  i \in snap'[q]
    BY DEF EnableSawAccepted, RowsOf
  <1>t. pc \in [Requests -> Steps] /\ DOMAIN req = Requests /\ DOMAIN snap = Requests
    BY DEF TypeOK
  <1>1. CASE /\ pc[q] \in EnableSteps
             /\ req'[q] = req[q] /\ snap'[q] = snap[q]
    <2>1. CASE EnableNewest(r) /\ req[q].key = req[r].key
      <3>1. q # r
        BY <2>1, <1>1, <1>t DEF EnableNewest, Done, Goto, EnableSteps
      <3>2. EnableTargets(req[r].key) \subseteq snap[q]
        BY <1>1, <2>1, <3>1, CrossedKinds DEF Outrun, Enabling
      <3>3. ASSUME i \notin EnableTargets(req[r].key)
            PROVE  i \in RowsOf(req[r].key) /\ rows[i].accepted /\ i \notin snap[r]
        BY <1>1, <2>1, <3>3, EnableRejects, LinksStay DEF RowsOf
      <3>4. ASSUME i \notin EnableTargets(req[r].key)
            PROVE  req[q].key \notin crossed
        BY <1>1, <2>1, <3>3, <3>4, CrossedKinds DEF SawAccepted
      <3> QED
        BY <1>1, <2>1, <3>2, <3>3, <3>4 DEF EnableSawAccepted
    <2>2. CASE ~(EnableNewest(r) /\ req[q].key = req[r].key)
      <3>1. req[q].key \notin crossed
        BY <1>1, <2>2, CrossedKinds
      <3>2. CASE i \in DOMAIN rows /\ rows[i].accepted
        BY <1>1, <3>1, <3>2, LinksStay DEF EnableSawAccepted, RowsOf
      <3>3. CASE ~(i \in DOMAIN rows /\ rows[i].accepted)
        <4>1. EnableNewest(r) /\ i \in EnableTargets(req[r].key)
          BY <3>3, AcceptanceChange DEF RowsOf
        <4>2. i \in RowsOf(req[r].key)
          BY <4>1, EnableOwnRows DEF RowsOf
        <4>3. req[q].key = req[r].key
          BY <1>1, <4>2, LinksStay DEF RowsOf
        <4> QED
          BY <2>2, <4>1, <4>3
      <3> QED
        BY <3>2, <3>3
    <2> QED
      BY <2>1, <2>2
  <1>2. CASE q # r
    BY <1>1, <1>2, OthersKeep
  <1>3. ASSUME q = r, NEW k \in Keys, EnableStart(r, k)
        PROVE  i \in snap'[q]
    <2>1. req'[r].key = k /\ snap'[r] = RowsOf(k) /\ rows' = rows
      BY <1>t, <1>3 DEF EnableStart, Carry, tables, grants
    <2> QED
      BY <1>3, <2>1 DEF RowsOf
  <1>4. CASE EnableDisableOld(r)
    BY <1>1, <1>2, <1>4 DEF EnableDisableOld, Proceed, EnableSteps
  <1>5. CASE \E k \in Keys, c \in Cancel \ {"no"} : DisableStart(r, k, c)
    BY <1>2, <1>5, <1>t DEF DisableStart, Goto, EnableSteps
  <1> QED
    BY <1>2, <1>3, <1>4, <1>5, EnableKinds

(* A debit that was not crossed has one accepted bundle.                   *)
LEMMA StepOneBundle ==
    ASSUME IInv, NEW r \in Requests, Step(r)
    PROVE  OneBundleAccepted'
  <1> USE DEF IInv
  <1> SUFFICES ASSUME NEW i \in DOMAIN rows', NEW j \in DOMAIN rows',
                      rows'[i].key = rows'[j].key, rows'[i].key \notin crossed',
                      rows'[i].accepted, rows'[j].accepted
               PROVE  rows'[i].bundle = rows'[j].bundle
    BY DEF OneBundleAccepted
  <1>0. ~EnableNewest(r) \/ rows'[i].key # req[r].key => rows'[i].key \notin crossed
    BY CrossedKinds
  <1>1. CASE /\ ~EnableNewest(r)
             /\ \A m \in DOMAIN rows' :
                  rows'[m].accepted => m \in DOMAIN rows /\ rows[m].accepted
    BY <1>0, <1>1, LinksStay DEF OneBundleAccepted
  <1>2. CASE EnableNewest(r)
    <2>5. /\ DOMAIN rows' = DOMAIN rows
          /\ \A m \in DOMAIN rows :
               rows'[m].accepted => \/ m \in EnableTargets(req[r].key)
                                    \/ rows[m].accepted /\ m \notin snap[r]
      BY <1>2, EnableRejects
    <2>0. pc[r] \in EnableSteps
      BY <1>2, <2>5 DEF EnableNewest, EnableSteps
    <2>1. \A m \in DOMAIN rows : /\ rows'[m].key = rows[m].key
                                 /\ rows'[m].bundle = rows[m].bundle
      BY LinksStay
    <2>2. \A m \in EnableTargets(req[r].key) :
            /\ rows[m].key = req[r].key
            /\ \A n \in Newest(req[r].key) : rows[n].bundle = rows[m].bundle
            /\ Newest(req[r].key) # {}
      BY EnableOwnRows DEF EnableTargets
    <2>3. CASE rows[i].key # req[r].key
      <3>1. i \notin EnableTargets(req[r].key) /\ j \notin EnableTargets(req[r].key)
        BY <1>2, <2>5, <2>1, <2>2, <2>3
      <3>2. rows[i].key \notin crossed /\ rows[i].key = rows[j].key
        BY <1>0, <1>2, <2>5, <2>1, <2>3
      <3>3. rows[i].accepted /\ rows[j].accepted
        BY <1>2, <2>5, <3>1
      <3> QED
        BY <1>2, <2>5, <2>1, <3>2, <3>3 DEF OneBundleAccepted
    <2>4. CASE rows[i].key = req[r].key
      <3>0. req[r].key \notin crossed' 
        BY <1>2, <2>5, <2>1, <2>4
      <3>4. req[r].key \in crossed => SawAccepted(r, req[r].key)
        BY <1>2, <2>5, <3>0, CrossedKinds
      <3>1. \A m \in DOMAIN rows :
              rows[m].accepted /\ m \notin snap[r] => rows[m].key # req[r].key
        BY <2>0, <3>4 DEF EnableSawAccepted, SawAccepted, RowsOf
      <3>2. i \in EnableTargets(req[r].key) /\ j \in EnableTargets(req[r].key)
        BY <1>2, <2>5, <2>1, <2>4, <3>1
      <3> QED
        BY <1>2, <2>5, <2>1, <2>2, <3>2
    <2> QED
      BY <2>3, <2>4
  <1>3. CASE ~EnableNewest(r)
    BY <1>1, <1>3, AcceptanceChange
  <1> QED
    BY <1>2, <1>3
-----------------------------------------------------------------------------
(* IInv is inductive.                                                      *)
LEMMA NextIInv == IInv /\ [Next]_vars => IInv'
  <1> SUFFICES ASSUME IInv, [Next]_vars PROVE IInv'
    OBVIOUS
  <1>1. CASE UNCHANGED vars
    BY <1>1 DEF vars, IInv, TypeOK, RowsStored, UpdateClaims, InsertedApart,
       InsertedByUpdates, BundleOwnership, AskedStored, GrantsFresh, RolesKept,
       AcceptedWithConsent, ServedWithConsent, GrantsForDebits,
       RolesForDebits, SnapOwn, EnableSawAccepted, OneBundleAccepted,
       RowsOf, Linked, LinkedCond, NoRival, Granting, Saving
  <1>2. ASSUME NEW r \in Requests, Step(r) PROVE IInv'
    <2>1. TypeOK'
      BY StepTypeOK DEF IInv
    <2> QED
      BY <1>2, <2>1, StepRowsStored, StepUpdateClaims, StepInsertedApart,
         StepInsertedByUpdates, StepBundleOwnership, StepGrantsFresh, StepRolesKept,
         StepAcceptedWithConsent, StepServedWithConsent, StepRoles,
         StepSnapOwn, StepEnableSawAccepted, StepOneBundle DEF IInv
  <1> QED
    BY <1>1, <1>2, NextIsStep

(* The inductive invariant holds in every reachable state.                 *)
THEOREM Inductive == Spec => []IInv
  BY InitIInv, NextIInv, PTL DEF Spec

(* Every variable keeps its type.                                          *)
THEOREM TypeCorrect == Spec => []TypeOK
  <1>1. IInv => TypeOK
    BY DEF IInv
  <1> QED
    BY <1>1, Inductive, PTL

(* A bundle belongs to one data debit, however creations and updates       *)
(* interleave: what enabling by bundle id relies on.                       *)
THEOREM OwnershipHolds == Spec => []BundleOwnership
  <1>1. IInv => BundleOwnership
    BY DEF IInv
  <1> QED
    BY <1>1, Inductive, PTL

(* Values are handed out only for a bundle enabled for that data debit.    *)
THEOREM ConsentHolds == Spec => []ServedWithConsent
  <1>1. IInv => ServedWithConsent
    BY DEF IInv
  <1> QED
    BY <1>1, Inductive, PTL

(* The role of a debit is only with users who created or updated it.       *)
THEOREM RolesHold == Spec => []RolesForDebits
  <1>1. IInv => RolesForDebits
    BY DEF IInv
  <1> QED
    BY <1>1, Inductive, PTL

(* Grants lose no role, unless two of one user overlap or one fails.       *)
THEOREM RolesStay == Spec => []RolesKept
  <1>1. IInv => RolesKept
    BY DEF IInv
  <1> QED
    BY <1>1, Inductive, PTL

(* Two bundles of a debit are accepted only after an update was committed  *)
(* between the beginnings of two enables in progress at a time.            *)
THEOREM OneBundleHolds == Spec => []OneBundleAccepted
  <1>1. IInv => OneBundleAccepted
    BY DEF IInv
  <1> QED
    BY <1>1, Inductive, PTL

(* Only the owner, by enabling it, brings a data debit's row into force.   *)
LEMMA StepActivatedByEnable ==
    ASSUME IInv, NEW r \in Requests, Step(r), NEW i \in DOMAIN rows'
    PROVE  /\ i \in DOMAIN rows => /\ rows'[i].key = rows[i].key
                                   /\ rows'[i].bundle = rows[i].bundle
                                   /\ rows'[i].cond = rows[i].cond
           /\ InForce(i)' /\ ~(i \in DOMAIN rows /\ InForce(i))
                => /\ pc[r] = "enableNewest" /\ pc'[r] = "idle"
                   /\ req[r].key = rows'[i].key
  <1> USE DEF IInv
  <1>1. i \in DOMAIN rows => /\ rows'[i].key = rows[i].key
                             /\ rows'[i].bundle = rows[i].bundle
                             /\ rows'[i].cond = rows[i].cond
    BY LinksStay
  <1> SUFFICES ASSUME InForce(i)', ~(i \in DOMAIN rows /\ InForce(i))
               PROVE  /\ pc[r] = "enableNewest" /\ pc'[r] = "idle"
                      /\ req[r].key = rows'[i].key
    BY <1>1
  <1>0. \A j \in DOMAIN rows : rows[j] \in Row
    BY DEF TypeOK
  <1>2. CASE EnableNewest(r)
    <2>1. pc[r] = "enableNewest" /\ pc'[r] = "idle"
      BY <1>2 DEF EnableNewest, Done, Goto, TypeOK
    <2>2. /\ i \in DOMAIN rows
          /\ rows' = Accept(EnableTargets(req[r].key), snap[r])
      BY <1>2 DEF EnableNewest, Accept
    <2>3. i \in EnableTargets(req[r].key)
      BY <1>0, <2>2 DEF Accept, InForce, Row
    <2>4. rows[i].key = req[r].key
      BY <2>3, EnableOwnRows
    <2> QED
      BY <1>1, <2>1, <2>2, <2>4
  <1>3. CASE DisableApply(r)
    <2>1. req[r].cancel # "no" /\ req[r].cancel \in Cancel
      BY <1>3 DEF DisableApply, TypeOK, DisableRequest
    <2>2. i \in DOMAIN rows
      BY <1>3 DEF DisableApply
    <2>3. CASE i \in snap[r]
      BY <1>0, <1>3, <2>1, <2>2, <2>3 DEF DisableApply, InForce, Row
    <2>4. CASE i \notin snap[r]
      BY <1>0, <1>3, <2>2, <2>4 DEF DisableApply, InForce, Row
    <2> QED
      BY <2>3, <2>4
  <1>4. CASE KeepsRows
    BY <1>4 DEF KeepsRows, InForce
  <1>5. CASE \/ Commits(r)
             \/ \E k \in Keys, b \in Bundles, c \in Conditions, u \in Users :
                  CreateDataDebit(r, k, b, c, u)
    <2>1. /\ DOMAIN rows' = DOMAIN rows \cup {lastId + 1}
          /\ \A j \in DOMAIN rows : rows'[j] = rows[j]
          /\ rows'[lastId + 1].accepted = FALSE
      BY <1>5, CreateAppends, CommitAppends
    <2> QED
      BY <2>1 DEF InForce
  <1> QED
    BY <1>2, <1>3, <1>4, <1>5, RowsKinds

(* Every step of every behaviour respects it.                              *)
THEOREM ActivationHolds == Spec => ActivatedByEnable
  <1>1. IInv /\ [Next]_vars =>
          [\A i \in DOMAIN rows' :
             /\ i \in DOMAIN rows => /\ rows'[i].key = rows[i].key
                                     /\ rows'[i].bundle = rows[i].bundle
                                     /\ rows'[i].cond = rows[i].cond
             /\ InForce(i)' /\ ~(i \in DOMAIN rows /\ InForce(i))
                  => \E r \in Requests : /\ pc[r] = "enableNewest"
                                         /\ pc'[r] = "idle"
                                         /\ req[r].key = rows'[i].key]_vars
    BY StepActivatedByEnable, NextIsStep
  <1> QED
    BY <1>1, Inductive, PTL DEF Spec, ActivatedByEnable
-----------------------------------------------------------------------------
(***************************************************************************)
(* DataDebits implements Consent: every step of a request is one of its    *)
(* steps, or none.                                                         *)
(***************************************************************************)
LEMMA InitPromise == Init => Promise!Init
  <1> SUFFICES ASSUME Init PROVE Promise!Init
    OBVIOUS
  <1>1. DOMAIN rows = {}
    BY DEF Init
  <1> QED
    BY <1>1 DEF Init, Promise!Init, Opened, BeingRead

(* Readings are of the requests that are about to query a bundle.          *)
LEMMA ReadingsStay ==
    ASSUME TypeOK, NEW r \in Requests, Step(r), pc[r] # "values", pc'[r] # "values"
    PROVE  BeingRead' = BeingRead
  <1>1. \A q \in Requests : /\ pc'[q] = "values" <=> pc[q] = "values"
                            /\ pc[q] = "values" => req'[q] = req[q]
    BY OthersKeep
  <1>2. ASSUME NEW q \in Requests, pc[q] = "values" PROVE <<req[q].key, req[q].bundle>> \in BeingRead'
    <2>1. q \in {x \in Requests : pc'[x] = "values"} /\ req'[q] = req[q]
      BY <1>1, <1>2
    <2>2. <<req'[q].key, req'[q].bundle>> \in BeingRead'
      BY <2>1 DEF BeingRead
    <2> QED
      BY <2>1, <2>2
  <1>3. ASSUME NEW q \in Requests, pc'[q] = "values" PROVE <<req'[q].key, req'[q].bundle>> \in BeingRead
    <2>1. q \in {x \in Requests : pc[x] = "values"} /\ req'[q] = req[q]
      BY <1>1, <1>3
    <2>2. <<req[q].key, req[q].bundle>> \in BeingRead
      BY <2>1 DEF BeingRead
    <2> QED
      BY <2>1, <2>2
  <1>4. BeingRead \subseteq BeingRead'
    BY <1>2 DEF BeingRead
  <1>5. BeingRead' \subseteq BeingRead
    BY <1>3 DEF BeingRead
  <1> QED
    BY <1>4, <1>5

(* An enable opens the newest bundle of its debit and closes only bundles  *)
(* of the same debit.                                                      *)
LEMMA EnablePromise ==
    ASSUME IInv, NEW r \in Requests, EnableNewest(r)
    PROVE  Promise!Next \/ UNCHANGED Promise!vars
  <1> USE DEF IInv
  <1> DEFINE k == req[r].key
  <1>0. /\ k \in Keys /\ pc[r] = "enableNewest" /\ pc'[r] = "idle"
        /\ \A i \in DOMAIN rows : rows[i] \in Row
    BY DEF EnableNewest, TypeOK, EnableSteps, EnableRequest, Done, Goto
  <1>1. Step(r)
    BY DEF Step
  <1>2. BeingRead' = BeingRead
    BY <1>0, <1>1, ReadingsStay
  <1>3. /\ snap[r] \subseteq RowsOf(k)
        /\ \A i \in EnableTargets(k) : i \in RowsOf(k)
    BY <1>0, EnableOwnRows DEF SnapOwn, EnableSteps, RowsOf
  <1>4. /\ DOMAIN rows' = DOMAIN rows
        /\ \A i \in DOMAIN rows : /\ rows'[i].key = rows[i].key
                                  /\ rows'[i].bundle = rows[i].bundle
    BY <1>0 DEF EnableNewest, Accept, Row
  <1>5. \A i \in DOMAIN rows :
          /\ i \in EnableTargets(k) => Active(i)'
          /\ i \notin RowsOf(k) => (Active(i)' <=> Active(i))
          /\ Active(i)' => i \in EnableTargets(k) \/ Active(i)
    BY <1>0, <1>3 DEF EnableNewest, Accept, Row, Active
  <1>6. CASE Newest(k) = {}
    <2> DEFINE left == Opened' \cap Promise!Of(k)
    <2>1. EnableTargets(k) = {} /\ consented' = consented
      BY <1>6 DEF EnableTargets, EnableNewest
    <2>2. Opened' \subseteq Opened
      BY <1>4, <1>5, <2>1 DEF Opened
    <2>3. left \in SUBSET (consented \cap Promise!Of(k))
      BY <2>2 DEF Opened, Active, AcceptedWithConsent
    <2>4. ASSUME NEW i \in DOMAIN rows, Active(i), i \notin RowsOf(k)
          PROVE  <<rows[i].key, rows[i].bundle>> \in Opened'
      BY <1>4, <1>5, <2>4 DEF Opened
    <2>5. Opened \ Opened' \subseteq Promise!Of(k)
      BY <1>0, <2>4 DEF Opened, RowsOf, Row, Promise!Of
    <2>6. Opened' = (Opened \ Promise!Of(k)) \cup left
      BY <2>2, <2>5
    <2>7. Promise!Disable(k)
      BY <1>2, <2>1, <2>3, <2>6 DEF Promise!Disable
    <2> QED
      BY <1>0, <2>7 DEF Promise!Next
  <1>7. ASSUME NEW n \in Newest(k)
        PROVE  Promise!Enable(k, rows[n].bundle) /\ rows[n].bundle \in Bundles
    <2>1. n \in DOMAIN rows /\ rows[n].key = k /\ rows[n].bundle \in Bundles
      BY <1>0, <1>7 DEF Newest, RowsOf, Row
    <2>2. n \in EnableTargets(k)
      BY <1>7, <2>1 DEF EnableTargets, WithBundle
    <2>3. \A i \in EnableTargets(k) : rows[i].key = k /\ rows[i].bundle = rows[n].bundle
      BY <1>7, EnableOwnRows
    <2>4. \A m \in Newest(k) : rows[m].bundle = rows[n].bundle
      BY <2>2, EnableOwnRows
    <2>5. consented' = consented \cup {<<k, rows[n].bundle>>}
      BY <1>7, <2>4 DEF EnableNewest
    <2>6. <<k, rows[n].bundle>> \in Opened'
      BY <1>4, <1>5, <2>1, <2>2 DEF Opened
    <2>7. Opened' \subseteq Opened \cup {<<k, rows[n].bundle>>}
      BY <1>4, <1>5, <2>3 DEF Opened
    <2>8. Opened \ Opened' \subseteq Promise!Of(k)
      <3>1. ASSUME NEW i \in DOMAIN rows, Active(i), i \notin RowsOf(k)
            PROVE  <<rows[i].key, rows[i].bundle>> \in Opened'
        BY <1>4, <1>5, <3>1 DEF Opened
      <3> QED
        BY <1>0, <3>1 DEF Opened, RowsOf, Row, Promise!Of
    <2>9. /\ Opened \ Opened' \in SUBSET (Opened \cap Promise!Of(k))
          /\ Opened' = (Opened \ (Opened \ Opened')) \cup {<<k, rows[n].bundle>>}
      BY <2>6, <2>7, <2>8
    <2> QED
      BY <1>2, <2>1, <2>5, <2>9 DEF Promise!Enable
  <1> QED
    BY <1>0, <1>6, <1>7 DEF Promise!Next

(* A disabling leaves open only what the debit was granted.                *)
LEMMA DisablePromise ==
    ASSUME IInv, NEW r \in Requests, DisableApply(r)
    PROVE  Promise!Next
  <1> USE DEF IInv
  <1> DEFINE k == req[r].key
  <1>0. /\ k \in Keys /\ pc[r] = "disable" /\ pc'[r] = "idle"
        /\ consented' = consented
        /\ \A i \in DOMAIN rows : rows[i] \in Row
    BY DEF DisableApply, TypeOK, DisableRequest, Done, Goto
  <1>1. Step(r)
    BY DEF Step
  <1>2. BeingRead' = BeingRead
    BY <1>0, <1>1, ReadingsStay
  <1>3. snap[r] \subseteq RowsOf(k)
    BY <1>0 DEF SnapOwn
  <1>4. /\ DOMAIN rows' = DOMAIN rows
        /\ \A i \in DOMAIN rows : /\ rows'[i].key = rows[i].key
                                  /\ rows'[i].bundle = rows[i].bundle
                                  /\ rows'[i].accepted = rows[i].accepted
                                  /\ i \notin RowsOf(k) => (Active(i)' <=> Active(i))
    BY <1>0, <1>3 DEF DisableApply, Row, Active
  <1> DEFINE left == Opened' \cap Promise!Of(k)
  <1>5. left \in SUBSET (consented \cap Promise!Of(k))
    BY <1>4 DEF Opened, Active, AcceptedWithConsent
  <1>6. \A i \in DOMAIN rows : i \in RowsOf(k) <=> <<rows[i].key, rows[i].bundle>> \in Promise!Of(k)
    BY <1>0 DEF RowsOf, Promise!Of, Row
  <1>7. Opened' \ Promise!Of(k) = Opened \ Promise!Of(k)
    BY <1>4, <1>6 DEF Opened
  <1>8. Opened' = (Opened \ Promise!Of(k)) \cup left
    BY <1>7
  <1>9. Promise!Disable(k)
    BY <1>0, <1>2, <1>5, <1>8 DEF Promise!Disable
  <1> QED
    BY <1>0, <1>9 DEF Promise!Next

(* A row that is added is not active, and nothing else about rows changes. *)
LEMMA OpenStays ==
    ASSUME IInv, NEW r \in Requests, Step(r), ~EnableNewest(r), ~DisableApply(r)
    PROVE  Opened' = Opened /\ consented' = consented
  <1> USE DEF IInv
  <1>1. CASE KeepsRows
    BY <1>1 DEF KeepsRows, Opened, Active
  <1>2. CASE \/ Commits(r)
             \/ \E k \in Keys, b \in Bundles, c \in Conditions, u \in Users :
                  CreateDataDebit(r, k, b, c, u)
    <2>1. /\ DOMAIN rows' = DOMAIN rows \cup {lastId + 1}
          /\ \A j \in DOMAIN rows : rows'[j] = rows[j]
          /\ rows'[lastId + 1].accepted = FALSE
      BY <1>2, CreateAppends, CommitAppends
    <2>2. {j \in DOMAIN rows' : Active(j)'} = {j \in DOMAIN rows : Active(j)}
      BY <2>1 DEF Active
    <2>3. consented' = consented
      BY <1>2 DEF Commits, InsertPermissions, CreateDataDebit
    <2> QED
      BY <2>1, <2>2, <2>3 DEF Opened
  <1> QED
    BY <1>1, <1>2, RowsKinds

LEMMA StepPromise ==
    ASSUME IInv, NEW r \in Requests, Step(r)
    PROVE  Promise!Next \/ UNCHANGED Promise!vars
  <1> USE DEF IInv
  <1>0. /\ pc \in [Requests -> Steps] /\ DOMAIN req = Requests
        /\ \A i \in DOMAIN rows : rows[i] \in Row
    BY DEF TypeOK
  <1>1. CASE EnableNewest(r)
    BY <1>1, EnablePromise
  <1>2. CASE DisableApply(r)
    BY <1>2, DisablePromise
  <1>3. ASSUME NEW i \in DOMAIN rows, ValuesRead(r, i)
        PROVE  Promise!Next
    <2>1. /\ rows[i].key \in Keys /\ rows[i].bundle \in Bundles
          /\ <<rows[i].key, rows[i].bundle>> \in Opened
      BY <1>0, <1>3 DEF ValuesRead, Opened, Row
    <2>2. /\ pc[r] = "idle" /\ pc'[r] = "values"
          /\ req'[r].key = rows[i].key /\ req'[r].bundle = rows[i].bundle
      BY <1>0, <1>3 DEF ValuesRead, Goto, Carry
    <2>3. BeingRead' = BeingRead \cup {<<rows[i].key, rows[i].bundle>>}
      BY <2>2, OthersKeep DEF BeingRead
    <2>4. ~EnableNewest(r) /\ ~DisableApply(r)
      BY <2>2 DEF EnableNewest, DisableApply
    <2>5. Promise!Read(rows[i].key, rows[i].bundle)
      BY <2>1, <2>3, <2>4, OpenStays DEF Promise!Read
    <2> QED
      BY <2>1, <2>5 DEF Promise!Next
  <1>4. CASE ValuesServe(r)
    <2>1. /\ req[r].key \in Keys /\ req[r].bundle \in Bundles
          /\ pc[r] = "values" /\ pc'[r] = "idle"
      BY <1>0, <1>4 DEF ValuesServe, TypeOK, ValuesRequest, Done, Goto
    <2> DEFINE e == <<req[r].key, req[r].bundle>>
    <2>2. e \in BeingRead
      BY <2>1 DEF BeingRead
    <2>3. BeingRead' \in {BeingRead, BeingRead \ {e}}
      <3>1. \A q \in Requests \ {r} : pc'[q] = pc[q] /\ req'[q] = req[q]
        BY OthersKeep
      <3>2. BeingRead \ {e} \subseteq BeingRead' /\ BeingRead' \subseteq BeingRead
        BY <2>1, <3>1 DEF BeingRead
      <3> QED
        BY <2>2, <3>2
    <2>4. ~EnableNewest(r) /\ ~DisableApply(r)
      BY <2>1 DEF EnableNewest, DisableApply
    <2>5. Promise!Serve(req[r].key, req[r].bundle)
      BY <2>2, <2>3, <2>4, OpenStays DEF Promise!Serve
    <2> QED
      BY <2>1, <2>5 DEF Promise!Next
  <1>5. ASSUME ~EnableNewest(r), ~DisableApply(r), pc[r] # "values", pc'[r] # "values"
        PROVE  UNCHANGED Promise!vars
    BY <1>5, OpenStays, ReadingsStay DEF Promise!vars
  <1> QED
    BY <1>1, <1>2, <1>3, <1>4, <1>5, ReadKinds

(* Requests, transactions and rows together keep the promise of Consent,   *)
(* for any number of debits, bundles and requests.                         *)
THEOREM PromiseKept == Spec => KeepsPromise
  <1>1. IInv /\ [Next]_vars => [Promise!Next]_Promise!vars
    <2>1. UNCHANGED vars => UNCHANGED Promise!vars
      BY DEF vars, Promise!vars, Opened, BeingRead, Active
    <2> QED
      BY <2>1, StepPromise, NextIsStep
  <1> QED
    BY <1>1, InitPromise, Inductive, PTL DEF Spec, KeepsPromise, Promise!Spec
=============================================================================
