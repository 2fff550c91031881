----------------------------- MODULE DataDebits -----------------------------
(***************************************************************************)
(* Data debits of one HAT: the contracts by which the owner of a HAT lets  *)
(* a client read a bundle of data (DataDebitService, and the DataDebits    *)
(* controller that calls it).                                              *)
(*                                                                         *)
(* Three PostgreSQL tables are modelled: data_debit, data_bundles and      *)
(* data_debit_permissions.  Slick runs `transactionally' at the default    *)
(* isolation level, READ COMMITTED, so every statement of a transaction is *)
(* a step: it sees what is committed when it starts, an UPDATE that meets  *)
(* a row locked by another transaction waits for it and then goes on with  *)
(* the rows of its own snapshot, and an INSERT of a primary key that       *)
(* another open transaction has inserted waits for that transaction.       *)
(* What an open transaction has written is kept apart (inserted, snap) and *)
(* reaches the tables when it commits; a failed transaction leaves none.   *)
(*                                                                         *)
(* Rows of data_debit_permissions are numbered by their serial id, which   *)
(* also stands for dateCreated.  Names, terms, purposes and the length of  *)
(* the period are left out.                                                *)
(***************************************************************************)
EXTENDS Naturals, FiniteSets

CONSTANTS Keys,          \* data debit keys
          Bundles,       \* names of data bundles, conditions included
          NoBundle,      \* "no conditions": None in ddRequest.conditions
          Users,         \* who may call the API
          Requests,      \* slots for requests in progress
          MaxRows        \* bound on the permissions rows ever inserted

ASSUME ConstantsAssumption ==
    /\ NoBundle \notin Bundles
    /\ MaxRows \in Nat

VARIABLES debits,     \* keys in data_debit
          bundles,    \* primary keys in data_bundles
          rows,       \* data_debit_permissions: id -> row
          lastId,     \* the serial of data_debit_permissions
          roles,      \* user -> keys k with the role DataDebitOwner(k)
          pc,         \* request -> the statement it runs next
          req,        \* request -> its parameters
          snap,       \* request -> rows its UPDATE saw (and, later, locks)
          inserted,   \* request -> bundles it inserted, not yet committed
          consented,  \* history: <<key, bundle>> the owner enabled
          crossed,    \* history: keys of which an enable accepted a row that
                      \* another, already under way, had not seen
          asked,      \* history: <<user, key>>, a creation or update that succeeded
          unsettled   \* history: users of whom a grant failed, or two overlapped

tables == <<debits, bundles, rows, lastId>>
grants == <<roles, asked, unsettled>>
vars == <<debits, bundles, rows, lastId, roles, pc, req, snap, inserted,
          consented, crossed, asked, unsettled>>

Conditions == Bundles \cup {NoBundle}
Cancel == {"no", "atPeriodEnd", "now"}
Ids == 1..MaxRows
Row == [key: Keys, bundle: Bundles, cond: Conditions,
        accepted: BOOLEAN, cancel: Cancel]
UpdateSteps == {"bundlesWrongOwner", "bundleMatching", "insertBundle",
                "conditionsWrongOwner", "conditionsMatching",
                "insertConditions", "insertPermissions"}
GrantSteps == {"getUser", "saveUser"}
EnableSteps == {"disableOld", "enableNewest"}
Steps == {"idle", "disable", "values"} \cup UpdateSteps \cup GrantSteps
           \cup EnableSteps

(* What each kind of request carries from one of its steps to the next.    *)
UpdateRequest == [key: Keys, bundle: Bundles, cond: Conditions, user: Users]
GrantRequest == [key: Keys, user: Users, roles: SUBSET Keys]
EnableRequest == [key: Keys]
DisableRequest == [key: Keys, cancel: Cancel \ {"no"}]
ValuesRequest == [key: Keys, bundle: Bundles]
NoRequest == <<>>
-----------------------------------------------------------------------------
RowsOf(k) == {i \in DOMAIN rows : rows[i].key = k}
WithBundle(b) == {i \in DOMAIN rows : rows[i].bundle = b}
WithCondition(c) == {i \in DOMAIN rows : rows[i].cond = c}

(* sortBy(_.dateCreated.desc).take(1)                                      *)
Newest(k) == {i \in RowsOf(k) : \A j \in RowsOf(k) : j <= i}

(* A permissions row is active once accepted and until it is cancelled;    *)
(* cancelled "at the period's end" it stays active to the end of the       *)
(* period (the library class io.dataswift.models.DataDebitPermissions).    *)
Active(i) == rows[i].accepted /\ rows[i].cancel # "now"

(* The rows that request r holds locks on.                                 *)
Locked(r) == IF pc[r] = "enableNewest" THEN snap[r] ELSE {}
Unlocked(S, r) == \A q \in Requests \ {r} : Locked(q) \cap S = {}

(* No other open transaction has inserted one of the bundles B.            *)
NoRival(B, r) == \A q \in Requests \ {r} : inserted[q] \cap B = {}

(* Mutant of WithRow: the row also takes the place of the newest one.      *)
WithRowOverwriting(k, b, c) ==
    [i \in 1..(lastId + 1) |->
       IF i < lastId THEN rows[i]
       ELSE [key |-> k, bundle |-> b, cond |-> c,
             accepted |-> FALSE, cancel |-> "no"]]
(* The permissions table with one more row, not accepted yet.              *)
WithRow(k, b, c) ==
    [i \in 1..(lastId + 1) |->
       IF i \in DOMAIN rows THEN rows[i]
       ELSE [key |-> k, bundle |-> b, cond |-> c,
             accepted |-> FALSE, cancel |-> "no"]]

Goto(r, step) == pc' = [pc EXCEPT ![r] = step]
Carry(r, q) == req' = [req EXCEPT ![r] = q]
(* Mutant of Done: the request's parameters are kept.                      *)
DoneForgetfully(r) == Goto(r, "idle") /\ UNCHANGED req
Done(r) == Goto(r, "idle") /\ Carry(r, NoRequest)
(* A transaction that fails is rolled back: nothing it wrote remains.      *)
Rollback(r) == /\ Done(r)
               /\ snap' = [snap EXCEPT ![r] = {}]
               /\ inserted' = [inserted EXCEPT ![r] = {}]
               /\ UNCHANGED <<tables, grants, consented, crossed>>
-----------------------------------------------------------------------------
Init == /\ debits = {} /\ bundles = {} /\ rows = <<>> /\ lastId = 0
        /\ roles = [u \in Users |-> {}]
        /\ pc = [r \in Requests |-> "idle"]
        /\ req = [r \in Requests |-> NoRequest]
        /\ snap = [r \in Requests |-> {}]
        /\ inserted = [r \in Requests |-> {}]
        /\ consented = {} /\ crossed = {}
        /\ asked = {} /\ unsettled = {}
-----------------------------------------------------------------------------
(* createDataDebit: one transaction inserts the debit, its bundle and      *)
(* conditions, and a permissions row that is not accepted.  It reads       *)
(* nothing, so all of it happens at its commit; a primary key that exists  *)
(* already fails it.  On success the caller is granted the owner's role.   *)
CreateDataDebit(r, k, b, c, u) ==
    LET new == {b, c} \ {NoBundle}
    IN  /\ pc[r] = "idle" /\ lastId < MaxRows
        /\ NoRival(new, r)
        /\ k \notin debits /\ b # c /\ new \cap bundles = {}
        /\ debits' = debits \cup {k}
        /\ bundles' = bundles \cup new
        /\ rows' = WithRow(k, b, c) /\ lastId' = lastId + 1
        /\ Carry(r, [key |-> k, user |-> u, roles |-> {}])
        /\ asked' = asked \cup {<<u, k>>}
        /\ Goto(r, "getUser")
        /\ UNCHANGED <<roles, unsettled, snap, inserted, consented, crossed>>

(* andThen { getUser(userId) -> saveUser(user.withRoles(..)) }: the role   *)
(* is added to the copy read, and the copy's roles replace the stored ones.*)
(* Nobody waits for it.                                                    *)
Granting(r, u) == pc[r] \in GrantSteps /\ req[r].user = u
Saving(r, u) == pc[r] = "saveUser" /\ req[r].user = u
GrantReadOnly(r) ==  \* mutant: the new role alone is saved
    /\ pc[r] = "getUser"
    /\ Carry(r, [req[r] EXCEPT !.roles = {req[r].key}])
    /\ Goto(r, "saveUser")
    /\ unsettled' = unsettled \cup {u \in {req[r].user} : \E q \in Requests : Saving(q, u)}
    /\ UNCHANGED <<tables, roles, asked, snap, inserted, consented, crossed>>
GrantRead(r) ==
    /\ pc[r] = "getUser"
    /\ Carry(r, [req[r] EXCEPT !.roles = roles[req[r].user] \cup {req[r].key}])
    /\ Goto(r, "saveUser")
    /\ unsettled' = unsettled \cup {u \in {req[r].user} : \E q \in Requests : Saving(q, u)}
    /\ UNCHANGED <<tables, roles, asked, snap, inserted, consented, crossed>>

GrantSave(r) ==
    /\ pc[r] = "saveUser"
    /\ roles' = [roles EXCEPT ![req[r].user] = req[r].roles]
    /\ Done(r)
    /\ UNCHANGED <<tables, asked, unsettled, snap, inserted, consented, crossed>>

(* Either call fails, finds no user, or never comes: a restart.            *)
GrantFails(r) ==
    /\ pc[r] \in GrantSteps
    /\ unsettled' = unsettled \cup {req[r].user}
    /\ Done(r)
    /\ UNCHANGED <<tables, roles, asked, snap, inserted, consented, crossed>>
-----------------------------------------------------------------------------
(* updateDataDebitPermissions, statement by statement.                     *)
UpdateStart(r, k, b, c, u) ==
    /\ pc[r] = "idle" /\ lastId < MaxRows
    /\ Carry(r, [key |-> k, bundle |-> b, cond |-> c, user |-> u])
    /\ Goto(r, "bundlesWrongOwner")
    /\ UNCHANGED <<tables, grants, snap, inserted, consented, crossed>>

(* Moves on without touching anything but the request's own step.          *)
Proceed(r, step) ==
    /\ Goto(r, step)
    /\ UNCHANGED <<tables, grants, req, snap, inserted, consented, crossed>>

(* bundlesWrongOwner: a count other than 0 fails the transaction whatever  *)
(* the next count says.                                                    *)
BundlesWrongOwnerGranting(r) ==  \* mutant: the role is granted on failure too
    /\ pc[r] = "bundlesWrongOwner"
    /\ IF WithBundle(req[r].bundle) \subseteq RowsOf(req[r].key)
         THEN Proceed(r, "bundleMatching")
         ELSE /\ Goto(r, "getUser")
              /\ Carry(r, [key |-> req[r].key, user |-> req[r].user, roles |-> {}])
              /\ UNCHANGED <<tables, grants, snap, inserted, consented, crossed>>
BundlesWrongOwner(r) ==
    /\ pc[r] = "bundlesWrongOwner"
    /\ IF WithBundle(req[r].bundle) \subseteq RowsOf(req[r].key)
         THEN Proceed(r, "bundleMatching")
         ELSE Rollback(r)

BundleMatching(r) ==
    /\ pc[r] = "bundleMatching"
    /\ IF WithBundle(req[r].bundle) \cap RowsOf(req[r].key) = {}
         THEN Proceed(r, "insertBundle")
         ELSE Proceed(r, "conditionsWrongOwner")

(* DataBundles += row, in the transaction of r: waits for a rival insert,  *)
(* fails when the name is taken.                                           *)
InsertOrUpdateInto(r, b, next) ==  \* mutant: an upsert, which takes any name
    /\ NoRival({b}, r)
    /\ inserted' = [inserted EXCEPT ![r] = @ \cup {b}]
    /\ Goto(r, next)
    /\ UNCHANGED <<tables, grants, req, snap, consented, crossed>>
InsertInto(r, b, next) ==
    /\ NoRival({b}, r)
    /\ IF b \in bundles \cup inserted[r]
         THEN Rollback(r)
         ELSE /\ inserted' = [inserted EXCEPT ![r] = @ \cup {b}]
              /\ Goto(r, next)
              /\ UNCHANGED <<tables, grants, req, snap, consented, crossed>>

InsertBundle(r) ==
    /\ pc[r] = "insertBundle"
    /\ InsertInto(r, req[r].bundle, "conditionsWrongOwner")

ConditionsWrongOwner(r) ==
    /\ pc[r] = "conditionsWrongOwner"
    /\ IF req[r].cond = NoBundle
         THEN Proceed(r, "insertPermissions")
         ELSE IF WithCondition(req[r].cond) \subseteq RowsOf(req[r].key)
                THEN Proceed(r, "conditionsMatching")
                ELSE Rollback(r)

ConditionsMatching(r) ==
    /\ pc[r] = "conditionsMatching"
    /\ IF WithCondition(req[r].cond) \cap RowsOf(req[r].key) = {}
         THEN Proceed(r, "insertConditions")
         ELSE Proceed(r, "insertPermissions")

InsertConditions(r) ==
    /\ pc[r] = "insertConditions"
    /\ InsertInto(r, req[r].cond, "insertPermissions")

(* The last insert, and the commit: a missing debit violates the foreign   *)
(* key.  On success the caller is granted the owner's role.                *)
InsertPermissions(r) ==
    /\ pc[r] = "insertPermissions"
    /\ IF req[r].key \notin debits
         THEN Rollback(r)
         ELSE /\ lastId < MaxRows
              /\ bundles' = bundles \cup inserted[r]
              /\ rows' = WithRow(req[r].key, req[r].bundle, req[r].cond)
              /\ lastId' = lastId + 1
              /\ inserted' = [inserted EXCEPT ![r] = {}]
              /\ Carry(r, [key |-> req[r].key, user |-> req[r].user,
                           roles |-> {}])
              /\ asked' = asked \cup {<<req[r].user, req[r].key>>}
              /\ Goto(r, "getUser")
              /\ UNCHANGED <<debits, roles, unsettled, snap, consented, crossed>>
-----------------------------------------------------------------------------
(* dataDebitEnableNewestPermissions, first statement: the rows of the      *)
(* debit it sees, then (it may have to wait) their locks.                  *)
EnableStart(r, k) ==
    /\ pc[r] = "idle"
    /\ Carry(r, [key |-> k])
    /\ snap' = [snap EXCEPT ![r] = RowsOf(k)]
    /\ Goto(r, "disableOld")
    /\ UNCHANGED <<tables, grants, inserted, consented, crossed>>

EnableDisableOld(r) ==
    /\ pc[r] = "disableOld"
    /\ Unlocked(snap[r], r)
    /\ Proceed(r, "enableNewest")

(* Second statement, and the commit: the rows with the newest row's bundle *)
(* are accepted, whatever their debit (the query filters on bundleId only),*)
(* the other rows of the first statement are no longer accepted.           *)
AcceptOnly(S, old) ==  \* mutant: the other rows stay accepted
    [i \in DOMAIN rows |->
       IF i \in S THEN [rows[i] EXCEPT !.accepted = TRUE, !.cancel = "no"]
       ELSE rows[i]]
Accept(S, old) ==
    [i \in DOMAIN rows |->
       IF i \in S THEN [rows[i] EXCEPT !.accepted = TRUE, !.cancel = "no"]
       ELSE IF i \in old THEN [rows[i] EXCEPT !.accepted = FALSE]
       ELSE rows[i]]
EnableEveryRow(k) == RowsOf(k)                          \* mutant: no take(1)
EnableNewestOfAll(k) == DOMAIN rows \cap {lastId}        \* mutant: no filter on the key
EnableTargets(k) == UNION {WithBundle(rows[i].bundle) : i \in Newest(k)}

(* For the history: other enables that have not seen what r accepts, and   *)
(* whether r has seen all that was accepted before it.                     *)
Enabling(k) == {q \in Requests : pc[q] \in EnableSteps /\ req[q].key = k}
Outrun(r, k) == {q \in Enabling(k) \ {r} : ~(EnableTargets(k) \subseteq snap[q])}
SawAccepted(r, k) == \A i \in RowsOf(k) : rows[i].accepted => i \in snap[r]
EnableNewest(r) ==
    LET k == req[r].key
    IN  /\ pc[r] = "enableNewest"
        /\ Unlocked(EnableTargets(k), r)
        /\ rows' = Accept(EnableTargets(k), snap[r])
        /\ consented' = consented \cup
                          {<<k, rows[i].bundle>> : i \in Newest(k)}
        /\ snap' = [snap EXCEPT ![r] = {}]
        /\ Done(r)
        /\ crossed' = IF Outrun(r, k) # {} THEN crossed \cup {k}
                      ELSE IF SawAccepted(r, k) THEN crossed \ {k} ELSE crossed
        /\ UNCHANGED <<debits, bundles, lastId, grants, inserted>>

DisableStartAll(r, k, c) ==  \* mutant: no filter on the key
    /\ pc[r] = "idle"
    /\ Carry(r, [key |-> k, cancel |-> c])
    /\ snap' = [snap EXCEPT ![r] = DOMAIN rows]
    /\ Goto(r, "disable")
    /\ UNCHANGED <<tables, grants, inserted, consented, crossed>>
(* dataDebitDisable: a single UPDATE of every row of the debit it sees.    *)
DisableStart(r, k, c) ==
    /\ pc[r] = "idle"
    /\ Carry(r, [key |-> k, cancel |-> c])
    /\ snap' = [snap EXCEPT ![r] = RowsOf(k)]
    /\ Goto(r, "disable")
    /\ UNCHANGED <<tables, grants, inserted, consented, crossed>>

DisableApply(r) ==
    /\ pc[r] = "disable"
    /\ Unlocked(snap[r], r)
    /\ rows' = [i \in DOMAIN rows |->
                  IF i \in snap[r]
                    THEN [rows[i] EXCEPT !.cancel = req[r].cancel]
                    ELSE rows[i]]
    /\ snap' = [snap EXCEPT ![r] = {}]
    /\ Done(r)
    /\ UNCHANGED <<debits, bundles, lastId, grants, inserted, consented, crossed>>
-----------------------------------------------------------------------------
(* getDataDebitValues: reads the debit and goes on only if it is active;   *)
(* the bundle of its active permissions is queried and handed out later,   *)
(* or not, when the conditions turn out not to be fulfilled.               *)
ValuesRead(r, i) ==
    /\ pc[r] = "idle"
    /\ Active(i)
    /\ Carry(r, [key |-> rows[i].key, bundle |-> rows[i].bundle])
    /\ Goto(r, "values")
    /\ UNCHANGED <<tables, grants, snap, inserted, consented, crossed>>

ValuesServe(r) ==
    /\ pc[r] = "values"
    /\ Done(r)
    /\ UNCHANGED <<tables, grants, snap, inserted, consented, crossed>>

(* The database ends an open transaction: a deadlock victim (two inserts   *)
(* that wait for one another) or a lost connection.                        *)
Abort(r) == /\ pc[r] \in UpdateSteps \cup EnableSteps \cup {"disable"}
            /\ Rollback(r)

Enable(r) == EnableDisableOld(r) \/ EnableNewest(r)
Update(r) == \/ BundlesWrongOwner(r) \/ BundleMatching(r) \/ InsertBundle(r)
             \/ ConditionsWrongOwner(r) \/ ConditionsMatching(r)
             \/ InsertConditions(r) \/ InsertPermissions(r)
Next ==
    \E r \in Requests :
       \/ \E k \in Keys, b \in Bundles, c \in Conditions, u \in Users :
            CreateDataDebit(r, k, b, c, u) \/ UpdateStart(r, k, b, c, u)
       \/ Update(r)
       \/ GrantRead(r) \/ GrantSave(r) \/ GrantFails(r)
       \/ \E k \in Keys : EnableStart(r, k)
       \/ Enable(r)
       \/ \E k \in Keys, c \in Cancel \ {"no"} : DisableStart(r, k, c)
       \/ DisableApply(r)
       \/ \E i \in DOMAIN rows : ValuesRead(r, i)
       \/ ValuesServe(r)
       \/ Abort(r)

Spec == Init /\ [][Next]_vars
-----------------------------------------------------------------------------
TypeOK ==
    /\ debits \subseteq Keys
    /\ bundles \subseteq Bundles
    /\ lastId \in 0..MaxRows
    /\ DOMAIN rows = 1..lastId
    /\ \A i \in DOMAIN rows : rows[i] \in Row
    /\ roles \in [Users -> SUBSET Keys]
    /\ pc \in [Requests -> Steps]
    /\ DOMAIN req = Requests
    /\ \A r \in Requests :
         /\ pc[r] = "idle" => req[r] = NoRequest
         /\ pc[r] \in UpdateSteps => req[r] \in UpdateRequest
         /\ pc[r] \in GrantSteps => req[r] \in GrantRequest
         /\ pc[r] \in EnableSteps => req[r] \in EnableRequest
         /\ pc[r] = "disable" => req[r] \in DisableRequest
         /\ pc[r] = "values" => req[r] \in ValuesRequest
    /\ snap \in [Requests -> SUBSET (1..lastId)]
    /\ inserted \in [Requests -> SUBSET Bundles]
    /\ consented \subseteq Keys \X Bundles
    /\ crossed \subseteq Keys
    /\ asked \subseteq Users \X Keys
    /\ unsettled \subseteq Users

(* A bundle, and a conditions bundle, is linked to one data debit only, in *)
(* whatever order creations and updates interleave: enabling by bundleId   *)
(* depends on it (DataDebitService, "already linked and could not be       *)
(* reassigned to a different data debit").                                 *)
BundleOwnership ==
    \A i, j \in DOMAIN rows :
       /\ rows[i].bundle = rows[j].bundle => rows[i].key = rows[j].key
       /\ rows[i].cond = rows[j].cond /\ rows[i].cond # NoBundle
            => rows[i].key = rows[j].key

(* Data is handed out only for a bundle the owner enabled for that very    *)
(* data debit, however long after: enabling one debit never opens another. *)
ServedWithConsent ==
    \A r \in Requests :
       pc[r] = "values" => <<req[r].key, req[r].bundle>> \in consented

(* The role of a debit is only with users who created it, or updated it,   *)
(* and succeeded: a transaction that failed grants none.                   *)
RolesForDebits ==
    \A u \in Users : \A k \in roles[u] : k \in debits /\ <<u, k>> \in asked

(* And those who did have it, or are about to: a grant reads an account    *)
(* and saves all of it, unwaited for, and still loses no role it or other  *)
(* requests have granted, unless two grants of one user overlap (one reads *)
(* the account before the other has saved it) or a grant fails half-way.   *)
RolesKept ==
    \A u \in Users \ unsettled : \A k \in Keys : <<u, k>> \in asked =>
       k \in roles[u] \/ \E r \in Requests : Granting(r, u) /\ req[r].key = k

(* At most one bundle of a debit is accepted: the newest one at the time   *)
(* it was enabled (DataDebitServiceSpec, "Enable a data debit after a few  *)
(* iterations of bundle adjustments"), whatever updates, disablings and    *)
(* other enables do meanwhile.  For two, an enable has to accept a row     *)
(* that another, already under way, had not seen when it began; and they   *)
(* remain only until an enable that has seen all accepted rows.            *)
OneBundleAccepted ==
    \A i, j \in DOMAIN rows :
       rows[i].key = rows[j].key /\ rows[i].accepted /\ rows[j].accepted
         => rows[i].bundle = rows[j].bundle \/ rows[i].key \in crossed

(* A row never changes hands, and becomes accepted and free of a           *)
(* cancellation only by the owner enabling that row's own debit: an update *)
(* activates nothing, and enabling one debit renews no other.              *)
InForce(i) == rows[i].accepted /\ rows[i].cancel = "no"
ActivatedByEnable ==
    [][\A i \in DOMAIN rows' :
         /\ i \in DOMAIN rows => /\ rows'[i].key = rows[i].key
                                 /\ rows'[i].bundle = rows[i].bundle
                                 /\ rows'[i].cond = rows[i].cond
         /\ InForce(i)' /\ ~(i \in DOMAIN rows /\ InForce(i))
              => \E r \in Requests : /\ pc[r] = "enableNewest"
                                     /\ pc'[r] = "idle"
                                     /\ req[r].key = rows'[i].key
         ]_vars
(* Data debits keep what they promise the owner: a row stands for a bundle *)
(* that is open when it is active, a request that is about to query a      *)
(* bundle for a reading.  An update, a creation or a failed transaction    *)
(* opens and closes nothing, and no request touches two debits.            *)
Opened == {<<rows[i].key, rows[i].bundle>> : i \in {j \in DOMAIN rows : Active(j)}}
BeingRead == {<<req[r].key, req[r].bundle>> : r \in {q \in Requests : pc[q] = "values"}}
Promise == INSTANCE Consent WITH
    granted <- consented, open <- Opened, reading <- BeingRead
KeepsPromise == Promise!Spec
-----------------------------------------------------------------------------
(***************************************************************************)
(* What makes the properties above inductive (proved in DataDebits_proofs).*)
(***************************************************************************)

(* Foreign keys: a row's debit, bundle and conditions are stored.          *)
RowsStored ==
    \A i \in DOMAIN rows : /\ rows[i].key \in debits
                           /\ rows[i].bundle \in bundles
                           /\ rows[i].cond \in bundles \cup {NoBundle}

(* A bundle inserted by an open transaction is no other's, and not yet     *)
(* stored; a request between transactions has inserted none.               *)
InsertedApart ==
    \A r \in Requests : /\ inserted[r] \cap bundles = {}
                        /\ NoRival(inserted[r], r)
InsertedByUpdates ==
    \A r \in Requests : pc[r] \notin UpdateSteps => inserted[r] = {}

(* An update that has settled its bundle (its conditions) either inserted  *)
(* it itself or found it linked to its own debit.                          *)
Linked(k, b) == \E i \in DOMAIN rows : rows[i].key = k /\ rows[i].bundle = b
LinkedCond(k, c) == \E i \in DOMAIN rows : rows[i].key = k /\ rows[i].cond = c
UpdateClaims ==
    \A r \in Requests :
      /\ pc[r] \in {"conditionsWrongOwner", "conditionsMatching",
                    "insertConditions", "insertPermissions"}
           => \/ req[r].bundle \in inserted[r]
              \/ Linked(req[r].key, req[r].bundle)
      /\ pc[r] \in {"conditionsMatching", "insertConditions"}
           => req[r].cond # NoBundle
      /\ pc[r] = "insertPermissions"
           => \/ req[r].cond \in inserted[r] \cup {NoBundle}
              \/ LinkedCond(req[r].key, req[r].cond)

(* Consent reaches a debit's values only through its accepted rows.        *)
AcceptedWithConsent ==
    \A i \in DOMAIN rows :
       rows[i].accepted => <<rows[i].key, rows[i].bundle>> \in consented

(* What is asked for is there, and grants are of what was asked for.       *)
AskedStored == \A u \in Users, k \in Keys : <<u, k>> \in asked => k \in debits
GrantsForDebits ==
    \A r \in Requests :
      /\ pc[r] \in GrantSteps => <<req[r].user, req[r].key>> \in asked
      /\ pc[r] = "saveUser" => \A k \in req[r].roles : <<req[r].user, k>> \in asked

(* The grant of a settled user that is about to save has all of its roles, *)
(* and no other is.                                                        *)
GrantsFresh ==
    \A r \in Requests : pc[r] = "saveUser" /\ req[r].user \notin unsettled =>
      /\ roles[req[r].user] \cup {req[r].key} \subseteq req[r].roles
      /\ \A q \in Requests \ {r} : ~Saving(q, req[r].user)

(* What the first statement of an enable, and a disabling, saw are rows of *)
(* their debit.                                                            *)
SnapOwn ==
    \A r \in Requests : pc[r] \in EnableSteps \cup {"disable"}
                         => snap[r] \subseteq RowsOf(req[r].key)

(* The first statement of an enable saw every accepted row of its debit,   *)
(* those that another enable accepts meanwhile included.                   *)
EnableSawAccepted ==
    \A r \in Requests : pc[r] \in EnableSteps /\ req[r].key \notin crossed =>
       \A i \in RowsOf(req[r].key) : rows[i].accepted => i \in snap[r]

IInv == /\ TypeOK /\ RowsStored /\ UpdateClaims
        /\ InsertedApart /\ InsertedByUpdates
        /\ BundleOwnership
        /\ AcceptedWithConsent /\ ServedWithConsent
        /\ AskedStored /\ GrantsForDebits /\ RolesForDebits
        /\ GrantsFresh /\ RolesKept
        /\ SnapOwn /\ EnableSawAccepted /\ OneBundleAccepted
=============================================================================
