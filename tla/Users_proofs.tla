---------------------------- MODULE Users_proofs ----------------------------
(***************************************************************************)
(* Proofs about Users: its types, that privileged roles are fixed, and,    *)
(* while requests do not overlap, that copies agree and that deleted       *)
(* accounts stay so.                                                       *)
(***************************************************************************)
EXTENDS Users, TLAPS

LEMMA AnyCallType == AnyCall \in Calls /\ AnyCall.kind = "read"
  <1>1. (CHOOSE u \in UserIds : TRUE) \in UserIds
    BY ConstantsAssumption
  <1> QED
    BY <1>1 DEF AnyCall, Calls, Keys

LEMMA IdleType == Idle \in Request /\ Idle.call.kind = "read" /\ Idle.at = "idle"
  BY AnyCallType DEF Idle, Request

LEMMA InitOK == Init => IInv
  <1> SUFFICES ASSUME Init PROVE IInv
    OBVIOUS
  <1>1. TypeOK
    <2>1. accounts \in [UserIds -> HatUser \cup {NoUser}]
      BY ConstantsAssumption DEF Init
    <2>2. cache \in [Keys -> HatUser \cup {NoUser}]
      BY DEF Init
    <2>3. requests \in [Requests -> Request]
      BY IdleType DEF Init
    <2>4. pending \in [Requests -> Seq(Commands)]
      BY DEF Init
    <2>5. disturbed \in BOOLEAN /\ replaced \subseteq UserIds
      BY DEF Init
    <2> QED
      BY <2>1, <2>2, <2>3, <2>4, <2>5 DEF TypeOK
  <1>2. OwnRows
    BY ConstantsAssumption DEF Init, OwnRows
  <1>3. PendingEntitled
    BY DEF Init, PendingEntitled
  <1>4. RequestsEntitled
    BY IdleType DEF Init, RequestsEntitled, RequestOK
  <1>5. PrivilegesFixed
    BY ConstantsAssumption DEF Init, PrivilegesFixed, Entitled, Given
  <1> QED
    BY <1>1, <1>2, <1>3, <1>4, <1>5 DEF IInv
-----------------------------------------------------------------------------
(* What a request saves has a type ...                                     *)
LEMMA ToSaveType ==
    ASSUME NEW q \in Request, NEW user \in HatUser \cup {NoUser}, q.call.kind # "read",
           q.call.kind # "create" => user # NoUser
    PROVE  ToSave(q.call, user) \in HatUser
  <1>1. q.call \in Calls
    BY DEF Request
  <1>2. CASE q.call.kind \in {"create", "update"}
    <2>1. q.call.body \in HatUser
      BY <1>1, <1>2, ConstantsAssumption DEF Calls
    <2>2. ToSave(q.call, user) = [q.call.body EXCEPT !.enabled = TRUE]
      BY <1>2 DEF ToSave
    <2> QED
      BY <2>1, <2>2 DEF HatUser
  <1>3. CASE q.call.kind \in {"enable", "disable"}
    <2>1. ToSave(q.call, user) = [user EXCEPT !.enabled = TRUE]
      BY <1>3 DEF ToSave
    <2>2. user \in HatUser
      BY <1>3
    <2> QED
      BY <2>1, <2>2 DEF HatUser
  <1>4. CASE q.call.kind = "grant"
    <2>1. ToSave(q.call, user) = [user EXCEPT !.roles = @ \cup {q.call.role}]
      BY <1>4 DEF ToSave
    <2>2. q.call.role \in Roles
      BY <1>1, <1>4 DEF Calls
    <2>3. user \in HatUser
      BY <1>4
    <2> QED
      BY <2>1, <2>2, <2>3 DEF HatUser
  <1>5. CASE q.call.kind = "password"
    <2>1. ToSave(q.call, user) = [user EXCEPT !.pass = q.call.new]
      BY <1>5 DEF ToSave
    <2>2. q.call.new \in Passes
      BY <1>1, <1>5 DEF Calls
    <2>3. user \in HatUser
      BY <1>5
    <2> QED
      BY <2>1, <2>2, <2>3 DEF HatUser
  <1>6. CASE q.call.kind = "delete"
    BY <1>6 DEF ToSave
  <1>7. \/ q.call.kind \in {"create", "update"}
        \/ q.call.kind \in {"enable", "disable"}
        \/ q.call.kind \in {"grant", "password", "delete"}
    BY <1>1 DEF Calls
  <1> QED
    BY <1>2, <1>3, <1>4, <1>5, <1>6, <1>7

(* ... and is as entitled as the account it is saved for, or, when one is  *)
(* created, has no privileged roles, if the request was not refused.       *)
LEMMA ToSaveEntitled ==
    ASSUME NEW q \in Request, NEW user \in HatUser \cup {NoUser},
           RequestOK(q, replaced), user # NoUser => Entitled(user, replaced),
           ~Refuses(q, user), ~LooksAgain(q)
    PROVE  /\ ToSave(q.call, user) # NoUser
           /\ q.call.kind # "create" => Entitled(ToSave(q.call, user), replaced)
           /\ q.call.kind \in {"create", "delete"} => ~IsPrivileged(ToSave(q.call, user))
  <1>1. q.call \in Calls
    BY DEF Request
  <1>2. q.call.kind # "read" /\ (q.call.kind = "create" <=> user = NoUser)
    BY DEF Refuses, Wrong
  <1>3. ToSave(q.call, user) \in HatUser
    BY <1>2, ToSaveType
  <1>4. ToSave(q.call, user) # NoUser
    BY <1>3, ConstantsAssumption
  <1>5. CASE q.call.kind = "create"
    <2>1. q.call.body \in HatUser /\ ~IsPrivileged(q.call.body)
      BY <1>1, <1>5, ConstantsAssumption DEF Calls, RequestOK
    <2>2. ToSave(q.call, user) = [q.call.body EXCEPT !.enabled = TRUE]
      BY <1>5 DEF ToSave
    <2>3. ToSave(q.call, user).roles = q.call.body.roles
      BY <2>1, <2>2 DEF HatUser
    <2> QED
      BY <1>4, <1>5, <2>1, <2>3 DEF IsPrivileged
  <1>6. CASE q.call.kind = "update"
    <2>1. /\ q.call.body \in HatUser /\ user.userId = q.call.body.userId
          /\ ~IsPrivileged(user) /\ ~IsPrivileged(q.call.body)
      BY <1>1, <1>2, <1>6, ConstantsAssumption DEF Calls, Refuses, Forbidden
    <2>2. ToSave(q.call, user) = [q.call.body EXCEPT !.enabled = TRUE]
      BY <1>6 DEF ToSave
    <2>3. /\ ToSave(q.call, user).roles = q.call.body.roles
          /\ ToSave(q.call, user).userId = user.userId
      BY <2>1, <2>2 DEF HatUser
    <2> QED
      BY <1>2, <1>4, <1>6, <2>1, <2>3 DEF Entitled, IsPrivileged
  <1>7. CASE q.call.kind \in {"enable", "disable"}
    <2>1. ToSave(q.call, user) = [user EXCEPT !.enabled = TRUE]
      BY <1>7 DEF ToSave
    <2>2. /\ ToSave(q.call, user).roles = user.roles
          /\ ToSave(q.call, user).userId = user.userId
      BY <1>2, <1>7, <2>1 DEF HatUser
    <2> QED
      BY <1>2, <1>4, <1>7, <2>2 DEF Entitled
  <1>8. CASE q.call.kind = "grant"
    <2>1. ToSave(q.call, user) = [user EXCEPT !.roles = @ \cup {q.call.role}]
      BY <1>8 DEF ToSave
    <2>2. /\ ToSave(q.call, user).roles = user.roles \cup {q.call.role}
          /\ ToSave(q.call, user).userId = user.userId
      BY <1>2, <1>8, <2>1 DEF HatUser
    <2>3. q.call.role \notin Privileged
      BY <1>1, <1>8 DEF Calls
    <2> QED
      BY <1>2, <1>4, <1>8, <2>2, <2>3 DEF Entitled
  <1>9. CASE q.call.kind = "password"
    <2>1. ToSave(q.call, user) = [user EXCEPT !.pass = q.call.new]
      BY <1>9 DEF ToSave
    <2>2. /\ ToSave(q.call, user).roles = user.roles
          /\ ToSave(q.call, user).userId = user.userId
      BY <1>2, <1>9, <2>1 DEF HatUser
    <2> QED
      BY <1>2, <1>4, <1>9, <2>2 DEF Entitled
  <1>10. CASE q.call.kind = "delete"
    <2>1. ToSave(q.call, user) = user
      BY <1>10 DEF ToSave
    <2> QED
      BY <1>2, <1>4, <1>10, <2>1 DEF Refuses, Forbidden
  <1>11. \/ q.call.kind \in {"create", "update", "grant", "password", "delete"}
         \/ q.call.kind \in {"enable", "disable"}
    BY <1>1, <1>2 DEF Calls
  <1> QED
    BY <1>5, <1>6, <1>7, <1>8, <1>9, <1>10, <1>11

(* A request that goes on with an entitled user is still as it should be.  *)
LEMMA ContinueOK ==
    ASSUME TypeOK, RequestsEntitled,
           NEW r \in Requests, NEW user \in HatUser \cup {NoUser},
           user # NoUser => Entitled(user, replaced),
           At(r, "get") \/ At(r, "query"), Continue(r, user), UNCHANGED replaced
    PROVE  requests' \in [Requests -> Request] /\ RequestsEntitled'
  <1> DEFINE q == requests[r]
  <1>1. q \in Request /\ RequestOK(q, replaced) /\ q.at \in {"get", "query"}
    BY DEF TypeOK, RequestsEntitled, At
  <1> SUFFICES ASSUME NEW p, p \in Request, RequestOK(p, replaced), requests' = [requests EXCEPT ![r] = p]
               PROVE  requests' \in [Requests -> Request] /\ RequestsEntitled'
    <2>1. CASE Refuses(q, user)
      <3>1. Idle \in Request /\ RequestOK(Idle, replaced)
        BY IdleType DEF RequestOK
      <3>2. requests' = [requests EXCEPT ![r] = Idle]
        BY <2>1 DEF Continue, End, Become
      <3> QED
        BY <3>1, <3>2
    <2>2. CASE ~Refuses(q, user) /\ LooksAgain(q)
      <3> DEFINE p == [q EXCEPT !.at = "get", !.round = @ + 1]
      <3>1. p \in Request
        <4>1. q.round \in 1..3 /\ q.round < 3
          BY <1>1, <2>2 DEF LooksAgain, Request
        <4>2. q.round + 1 \in 1..3
          BY <4>1
        <4> QED
          BY <1>1, <4>2 DEF Request
      <3>2. RequestOK(p, replaced)
        BY <1>1 DEF RequestOK, Request
      <3>3. requests' = [requests EXCEPT ![r] = p]
        BY <2>2 DEF Continue, Become
      <3> QED
        BY <3>1, <3>2, <3>3
    <2>3. CASE ~Refuses(q, user) /\ ~LooksAgain(q)
      <3> DEFINE p == [q EXCEPT !.at = "begin", !.user = ToSave(q.call, user)]
      <3>1. q.call.kind # "read" /\ (q.call.kind # "create" => user # NoUser)
        BY <2>3 DEF Refuses, Wrong
      <3>2. ToSave(q.call, user) \in HatUser
        BY <1>1, <3>1, ToSaveType
      <3>3. p \in Request
        BY <1>1, <3>2 DEF Request
      <3>4. p.call = q.call /\ p.at = "begin" /\ p.user = ToSave(q.call, user)
        BY <1>1 DEF Request
      <3>5. RequestOK(p, replaced)
        BY <1>1, <2>3, <3>4, ToSaveEntitled DEF RequestOK
      <3>6. requests' = [requests EXCEPT ![r] = p]
        BY <2>3 DEF Continue, Become
      <3> QED
        BY <3>3, <3>5, <3>6
    <2> QED
      BY <2>1, <2>2, <2>3
  <1> QED
    BY DEF TypeOK, RequestsEntitled
-----------------------------------------------------------------------------
(* What the actions have in common: an entitled account is entitled as it  *)
(* is read, and calls of the cache that carry entitled copies may be made. *)
LEMMA AsReadOK ==
    ASSUME TypeOK, OwnRows, PrivilegesFixed, NEW u \in UserIds, accounts[u] # NoUser
    PROVE  AsRead(u) \in HatUser /\ AsRead(u) # NoUser /\ Entitled(AsRead(u), replaced)
  <1>1. accounts[u] \in HatUser /\ Entitled(accounts[u], replaced)
    BY DEF TypeOK, PrivilegesFixed
  <1>2. ContractRoles[u] \subseteq Roles /\ ContractRoles[u] \cap Privileged = {}
    BY ConstantsAssumption
  <1>3. AsRead(u) \in HatUser
    BY <1>1, <1>2 DEF AsRead, HatUser
  <1>4. /\ AsRead(u).roles = accounts[u].roles \cup ContractRoles[u]
        /\ AsRead(u).userId = accounts[u].userId
    BY <1>1 DEF AsRead, HatUser
  <1> QED
    BY <1>1, <1>2, <1>3, <1>4, ConstantsAssumption DEF Entitled

(* Whoever is entitled stays so.                                           *)
StillEntitled == \A user : Entitled(user, replaced) => Entitled(user, replaced')
LEMMA Still == ASSUME replaced \subseteq replaced' PROVE StillEntitled
  BY DEF StillEntitled, Entitled

Harmless(commands, over) ==
    /\ commands \in Seq(Commands)
    /\ \A i \in 1..Len(commands) : commands[i].value # NoUser => Entitled(commands[i].value, over)

LEMMA SubmitOK ==
    ASSUME TypeOK, PendingEntitled, NEW r \in Requests, NEW commands, Harmless(commands, replaced'),
           Submit(r, commands), StillEntitled
    PROVE  pending' \in [Requests -> Seq(Commands)] /\ PendingEntitled'
  <1> DEFINE s == pending[r]
  <1>1. s \in Seq(Commands) /\ commands \in Seq(Commands)
    BY DEF TypeOK, Harmless
  <1>2. pending' = [pending EXCEPT ![r] = s \o commands]
    BY DEF Submit
  <1>3. s \o commands \in Seq(Commands)
    BY <1>1
  <1>4. pending' \in [Requests -> Seq(Commands)]
    BY <1>2, <1>3 DEF TypeOK
  <1>5. ASSUME NEW i \in 1..Len(s \o commands), (s \o commands)[i].value # NoUser
        PROVE  Entitled((s \o commands)[i].value, replaced')
    <2>1. Len(s \o commands) = Len(s) + Len(commands) /\ Len(s) \in Nat /\ Len(commands) \in Nat
      BY <1>1
    <2>2. CASE i <= Len(s)
      <3>1. (s \o commands)[i] = s[i] /\ i \in 1..Len(s)
        BY <1>1, <2>1, <2>2
      <3> QED
        BY <1>5, <3>1 DEF PendingEntitled, StillEntitled
    <2>3. CASE i > Len(s)
      <3>1. (s \o commands)[i] = commands[i - Len(s)] /\ i - Len(s) \in 1..Len(commands)
        BY <1>1, <2>1, <2>3
      <3> QED
        BY <1>5, <3>1 DEF Harmless
    <2> QED
      BY <2>1, <2>2, <2>3
  <1>6. PendingEntitled'
    <2> SUFFICES ASSUME NEW q \in Requests, NEW i \in 1..Len(pending'[q]), pending'[q][i].value # NoUser
                 PROVE  Entitled(pending'[q][i].value, replaced')
      BY DEF PendingEntitled
    <2>1. CASE q = r
      BY <1>2, <1>5, <2>1 DEF TypeOK
    <2>2. CASE q # r
      <3>1. pending'[q] = pending[q]
        BY <1>2, <2>2 DEF TypeOK
      <3> QED
        BY <3>1 DEF PendingEntitled, StillEntitled
    <2> QED
      BY <2>1, <2>2
  <1> QED
    BY <1>4, <1>6

LEMMA FillsOK ==
    ASSUME NEW user \in HatUser, NEW over, Entitled(user, over)
    PROVE  Harmless(Fills(user), over) /\ Harmless(Removals(user), over)
  <1>1. user.userId \in Keys /\ user.email \in Keys
    BY DEF HatUser, Keys
  <1>2. /\ Fills(user) \in Seq(Commands) /\ Len(Fills(user)) = 2
        /\ Fills(user)[1].value = user /\ Fills(user)[2].value = user
    BY <1>1 DEF Fills, Commands
  <1>3. /\ Removals(user) \in Seq(Commands) /\ Len(Removals(user)) = 2
        /\ Removals(user)[1].value = NoUser /\ Removals(user)[2].value = NoUser
    BY <1>1 DEF Removals, Commands
  <1>4. \A i \in 1..2 : i = 1 \/ i = 2
    OBVIOUS
  <1> QED
    BY <1>2, <1>3, <1>4 DEF Harmless
-----------------------------------------------------------------------------
(* One lemma for each action: it keeps the invariant.                      *)
LEMMA CallOK ==
    ASSUME IInv, NEW r \in Requests, NEW call \in Calls, Call(r, call)
    PROVE  IInv'
  <1> USE DEF IInv
  <1> DEFINE p == [Idle EXCEPT !.call = call, !.at = "get"]
  <1>1. p \in Request /\ p.call = call /\ p.at = "get"
    BY IdleType DEF Request
  <1>2. requests' = [requests EXCEPT ![r] = p]
    BY DEF Call, Become
  <1>3. RequestOK(p, replaced)
    BY <1>1 DEF RequestOK, Call
  <1> HIDE DEF p
  <1>4. requests' \in [Requests -> Request] /\ RequestsEntitled'
    BY <1>1, <1>2, <1>3 DEF TypeOK, RequestsEntitled, Call
  <1>5. disturbed' \in BOOLEAN
    BY DEF Call, TypeOK, Quiet
  <1>6. UNCHANGED <<accounts, cache, pending, replaced>>
    BY DEF Call
  <1>7. TypeOK'
    BY <1>4, <1>5, <1>6 DEF TypeOK
  <1> QED
    BY <1>4, <1>6, <1>7 DEF OwnRows, PendingEntitled, PrivilegesFixed

LEMMA GetOK ==
    ASSUME IInv, NEW r \in Requests, Get(r)
    PROVE  IInv'
  <1> USE DEF IInv
  <1> DEFINE q == requests[r]
             found == cache[q.call.key]
  <1>1. q \in Request /\ RequestOK(q, replaced) /\ q.at = "get" /\ q.call.key \in Keys
    <2>1. q \in Request
      BY DEF TypeOK
    <2>2. q.call.key \in Keys
      BY <2>1 DEF Request, Calls, Keys
    <2> QED
      BY <2>1, <2>2 DEF RequestsEntitled, Get, At
  <1>2. found \in HatUser \cup {NoUser} /\ (found # NoUser => Entitled(found, replaced))
    BY <1>1 DEF TypeOK, PrivilegesFixed
  <1>3. UNCHANGED <<accounts, cache, pending, disturbed, replaced>>
    BY DEF Get
  <1>4. requests' \in [Requests -> Request] /\ RequestsEntitled'
    <2>1. CASE found # NoUser
      BY <1>2, <1>3, <2>1, ContinueOK DEF Get
    <2>2. CASE found = NoUser
      <3> DEFINE p == [q EXCEPT !.at = "query"]
      <3>1. p \in Request /\ RequestOK(p, replaced)
        BY <1>1 DEF Request, RequestOK
      <3>2. requests' = [requests EXCEPT ![r] = p]
        BY <2>2 DEF Get, Become
      <3> HIDE DEF p
      <3> QED
        BY <1>3, <3>1, <3>2 DEF TypeOK, RequestsEntitled
    <2> QED
      BY <2>1, <2>2
  <1>5. TypeOK'
    BY <1>3, <1>4 DEF TypeOK
  <1> QED
    BY <1>3, <1>4, <1>5 DEF OwnRows, PendingEntitled, PrivilegesFixed

LEMMA QueryOK ==
    ASSUME IInv, NEW r \in Requests, Query(r)
    PROVE  IInv'
  <1> USE DEF IInv
  <1>1. UNCHANGED <<accounts, cache, disturbed, replaced>>
    BY DEF Query
  <1>2. /\ requests' \in [Requests -> Request] /\ RequestsEntitled'
        /\ pending' \in [Requests -> Seq(Commands)] /\ PendingEntitled'
    <2>1. CASE Continue(r, NoUser) /\ UNCHANGED pending
      BY <1>1, <2>1, ContinueOK DEF Query, TypeOK, PendingEntitled
    <2>2. ASSUME NEW u \in Matching(requests[r].call.key),
                 Continue(r, AsRead(u)), Submit(r, Fills(AsRead(u)))
          PROVE  /\ requests' \in [Requests -> Request] /\ RequestsEntitled'
                 /\ pending' \in [Requests -> Seq(Commands)] /\ PendingEntitled'
      <3>1. u \in UserIds /\ accounts[u] # NoUser
        BY DEF Matching
      <3>2. AsRead(u) \in HatUser /\ Entitled(AsRead(u), replaced)
        BY <3>1, AsReadOK
      <3>3. requests' \in [Requests -> Request] /\ RequestsEntitled'
        BY <1>1, <2>2, <3>2, ContinueOK DEF Query
      <3> QED
        BY <1>1, <2>2, <3>2, <3>3, FillsOK, SubmitOK, Still
    <2> QED
      BY <2>1, <2>2 DEF Query
  <1>3. TypeOK'
    BY <1>1, <1>2 DEF TypeOK
  <1> QED
    BY <1>1, <1>2, <1>3 DEF OwnRows, PrivilegesFixed

LEMMA BeginOK ==
    ASSUME IInv, NEW r \in Requests, Begin(r)
    PROVE  IInv'
  <1> USE DEF IInv
  <1> DEFINE q == requests[r]
             row == accounts[q.user.userId]
             d == IF row = NoUser THEN {} ELSE row.roles
             p == [q EXCEPT !.at = "commit", !.dropped = d]
  <1>1. q \in Request /\ RequestOK(q, replaced) /\ q.at = "begin"
    BY DEF TypeOK, RequestsEntitled, Begin, At
  <1>2. q.user \in HatUser
    BY <1>1 DEF Request, RequestOK
  <1>3. row \in HatUser \cup {NoUser}
    BY <1>2 DEF HatUser, TypeOK
  <1>4. d \in SUBSET Roles
    BY <1>3 DEF HatUser
  <1>5. p \in Request /\ RequestOK(p, replaced)
    BY <1>1, <1>4 DEF Request, RequestOK
  <1>6. requests' = [requests EXCEPT ![r] = p] /\ UNCHANGED <<accounts, cache, pending, disturbed, replaced>>
    BY DEF Begin, Become
  <1> HIDE DEF p
  <1>7. TypeOK' /\ RequestsEntitled'
    BY <1>5, <1>6 DEF TypeOK, RequestsEntitled
  <1> QED
    BY <1>6, <1>7 DEF OwnRows, PendingEntitled, PrivilegesFixed

(* The account a request is about to write.                                *)
LEMMA CommitFacts ==
    ASSUME IInv, NEW r \in Requests, At(r, "commit")
    PROVE  /\ requests[r].user \in HatUser /\ requests[r].user.userId \in UserIds
           /\ requests[r].call.kind # "create" => Entitled(requests[r].user, replaced)
           /\ requests[r].call.kind \in {"create", "delete"} => ~IsPrivileged(requests[r].user)
           /\ Remaining(r) \subseteq Roles
           /\ accounts[requests[r].user.userId] = NoUser => Remaining(r) = {}
           /\ accounts[requests[r].user.userId] # NoUser
                => Remaining(r) \subseteq accounts[requests[r].user.userId].roles
  <1> USE DEF IInv
  <1> DEFINE user == requests[r].user
             row == accounts[user.userId]
  <1>1. requests[r] \in Request /\ RequestOK(requests[r], replaced) /\ requests[r].at = "commit"
    BY DEF TypeOK, RequestsEntitled, At
  <1>2. user \in HatUser /\ user.userId \in UserIds
    BY <1>1 DEF Request, RequestOK, HatUser
  <1>3. row = NoUser => Remaining(r) = {}
    BY DEF Remaining
  <1>4. ASSUME row # NoUser
        PROVE  Remaining(r) \subseteq Roles /\ Remaining(r) \subseteq row.roles
    <2>1. row.roles \subseteq Roles
      BY <1>2, <1>4 DEF TypeOK, HatUser
    <2> QED
      BY <1>4, <2>1 DEF Remaining
  <1> QED
    BY <1>1, <1>2, <1>3, <1>4 DEF RequestOK

LEMMA SaveOK ==
    ASSUME IInv, NEW r \in Requests, Save(r)
    PROVE  IInv'
  <1> USE DEF IInv
  <1> DEFINE user == requests[r].user
             saved == [user EXCEPT !.roles = @ \cup Remaining(r)]
             row == accounts[user.userId]
  <1>1. /\ user \in HatUser /\ user.userId \in UserIds /\ Remaining(r) \subseteq Roles
        /\ row = NoUser => Remaining(r) = {}
        /\ row # NoUser => Remaining(r) \subseteq row.roles
        /\ requests[r].call.kind # "create" => Entitled(user, replaced)
        /\ requests[r].call.kind = "create" => ~IsPrivileged(user)
    BY CommitFacts DEF Save
  <1>2. /\ saved \in HatUser /\ saved.userId = user.userId
        /\ saved.roles = user.roles \cup Remaining(r)
    BY <1>1 DEF HatUser
  <1>3. /\ replaced' \subseteq UserIds /\ replaced \subseteq replaced'
        /\ requests[r].call.kind = "create" /\ row # NoUser /\ IsPrivileged(row)
             => user.userId \in replaced'
    BY <1>1 DEF Save, CreatesOverPrivileged, TypeOK
  <1>4. /\ StillEntitled
        /\ accounts' = [accounts EXCEPT ![user.userId] = saved] /\ UNCHANGED <<cache, disturbed>>
    BY <1>3, Still DEF Save
  <1>5. Entitled(user, replaced') /\ Entitled(saved, replaced')
    <2>1. /\ row # NoUser => Entitled(row, replaced') /\ row.userId = user.userId
          /\ row = NoUser => user.userId \in replaced' \/ Given(user.userId) = {}
      BY <1>1, <1>3, <1>4 DEF PrivilegesFixed, OwnRows, StillEntitled
    <2>2. Entitled(user, replaced')
      <3>1. CASE requests[r].call.kind # "create"
        BY <1>1, <1>4, <3>1 DEF StillEntitled
      <3>2. CASE requests[r].call.kind = "create"
        <4>1. user.roles \cap Privileged = {}
          BY <1>1, <3>2 DEF IsPrivileged
        <4>2. user.userId \in replaced' \/ Given(user.userId) = {}
          BY <1>3, <2>1, <3>2 DEF Entitled, IsPrivileged
        <4> QED
          BY <4>1, <4>2 DEF Entitled
      <3> QED
        BY <3>1, <3>2
    <2>3. row # NoUser => row.roles \cap Privileged \subseteq Given(user.userId)
      BY <2>1 DEF Entitled
    <2>4. Remaining(r) \cap Privileged \subseteq Given(user.userId)
      BY <1>1, <2>3
    <2> HIDE DEF saved
    <2>5. saved.roles \cap Privileged = (user.roles \cap Privileged) \cup (Remaining(r) \cap Privileged)
      BY <1>2
    <2> QED
      BY <1>2, <2>2, <2>4, <2>5 DEF Entitled
  <1>6. saved # NoUser
    BY <1>2, ConstantsAssumption
  <1> HIDE DEF saved
  <1>7. pending' \in [Requests -> Seq(Commands)] /\ PendingEntitled'
    BY <1>1, <1>4, <1>5, FillsOK, SubmitOK DEF Save
  <1>8. requests' \in [Requests -> Request] /\ RequestsEntitled'
    <2>1. ASSUME NEW q \in Requests
          PROVE  requests'[q] \in Request /\ RequestOK(requests'[q], replaced')
      <3> DEFINE p == [requests[q] EXCEPT !.dropped = @ \ user.roles]
      <3>1. requests[q] \in Request /\ RequestOK(requests[q], replaced')
        BY <1>4 DEF TypeOK, RequestsEntitled, RequestOK, StillEntitled
      <3>2. p \in Request /\ RequestOK(p, replaced')
        BY <3>1 DEF Request, RequestOK
      <3>3. Idle \in Request /\ RequestOK(Idle, replaced')
        BY IdleType DEF RequestOK
      <3>4. requests'[q] \in {Idle, p, requests[q]}
        BY DEF Save, Inserted
      <3> HIDE DEF p
      <3> QED
        BY <3>1, <3>2, <3>3, <3>4
    <2>2. requests' = [q \in Requests |-> requests'[q]]
      BY DEF Save, Inserted
    <2> QED
      BY <2>1, <2>2 DEF RequestsEntitled
  <1>9. TypeOK'
    BY <1>2, <1>3, <1>4, <1>7, <1>8 DEF TypeOK
  <1>10. OwnRows'
    BY <1>2, <1>6, <1>4 DEF OwnRows, TypeOK
  <1>11. PrivilegesFixed'
    <2>1. ASSUME NEW u \in UserIds
          PROVE  IF accounts'[u] # NoUser THEN Entitled(accounts'[u], replaced')
                 ELSE u \in replaced' \/ Given(u) = {}
      <3>1. CASE u = user.userId
        BY <1>5, <1>6, <1>4, <3>1 DEF TypeOK
      <3>2. CASE u # user.userId
        BY <1>3, <1>4, <3>2 DEF TypeOK, PrivilegesFixed, StillEntitled
      <3> QED
        BY <3>1, <3>2
    <2>2. ASSUME NEW k \in Keys, cache'[k] # NoUser PROVE Entitled(cache'[k], replaced')
      BY <1>4, <2>2 DEF PrivilegesFixed, StillEntitled
    <2> QED
      BY <2>1, <2>2 DEF PrivilegesFixed
  <1> QED
    BY <1>7, <1>8, <1>9, <1>10, <1>11

LEMMA EndOK ==
    ASSUME IInv, NEW r \in Requests, End(r), UNCHANGED replaced
    PROVE  requests' \in [Requests -> Request] /\ RequestsEntitled'
  <1>1. Idle \in Request /\ RequestOK(Idle, replaced)
    BY IdleType DEF RequestOK
  <1> QED
    BY <1>1 DEF IInv, TypeOK, RequestsEntitled, End, Become

LEMMA DeleteOK ==
    ASSUME IInv, NEW r \in Requests, Delete(r)
    PROVE  IInv'
  <1> USE DEF IInv
  <1> DEFINE user == requests[r].user
  <1>1. /\ user \in HatUser /\ Entitled(user, replaced) /\ user.userId \in UserIds
        /\ ~IsPrivileged(user)
    BY CommitFacts DEF Delete
  <1>2. UNCHANGED <<cache, disturbed, replaced>> /\ requests' \in [Requests -> Request] /\ RequestsEntitled'
    BY EndOK DEF Delete
  <1>3. CASE UNCHANGED <<accounts, pending>>
    BY <1>2, <1>3 DEF TypeOK, OwnRows, PendingEntitled, PrivilegesFixed
  <1>4. CASE accounts' = [accounts EXCEPT ![user.userId] = NoUser] /\ Submit(r, Removals(user))
    <2>1. pending' \in [Requests -> Seq(Commands)] /\ PendingEntitled'
      BY <1>1, <1>2, <1>4, FillsOK, SubmitOK, Still
    <2>2. TypeOK'
      BY <1>2, <1>4, <2>1 DEF TypeOK
    <2>3. OwnRows'
      BY <1>4 DEF OwnRows, TypeOK
    <2>4. user.userId \in replaced \/ Given(user.userId) = {}
      BY <1>1 DEF Entitled, IsPrivileged
    <2>5. PrivilegesFixed'
      BY <1>1, <1>2, <1>4, <2>4 DEF PrivilegesFixed, TypeOK
    <2> QED
      BY <1>2, <2>1, <2>2, <2>3, <2>5
  <1> QED
    BY <1>3, <1>4 DEF Delete

LEMMA FlushOK ==
    ASSUME IInv, NEW r \in Requests, Flush(r)
    PROVE  IInv'
  <1> USE DEF IInv
  <1> DEFINE s == pending[r]
  <1>1. s \in Seq(Commands) /\ s # <<>>
    BY DEF TypeOK, Flush
  <1>2. /\ Head(s) \in Commands /\ Head(s) = s[1] /\ 1 \in 1..Len(s)
        /\ Tail(s) \in Seq(Commands) /\ Len(Tail(s)) = Len(s) - 1
        /\ \A i \in 1..Len(Tail(s)) : Tail(s)[i] = s[i + 1] /\ i + 1 \in 1..Len(s)
    BY <1>1
  <1>3. Head(s).value # NoUser => Entitled(Head(s).value, replaced)
    BY <1>2 DEF PendingEntitled
  <1>4. /\ cache' = [cache EXCEPT ![Head(s).key] = Head(s).value]
        /\ pending' = [pending EXCEPT ![r] = Tail(s)]
        /\ UNCHANGED <<accounts, requests, disturbed, replaced>>
    BY DEF Flush
  <1>5. Head(s).key \in Keys /\ Head(s).value \in HatUser \cup {NoUser}
    BY <1>2 DEF Commands
  <1>6. TypeOK'
    BY <1>2, <1>4, <1>5 DEF TypeOK
  <1>7. PendingEntitled'
    <2> SUFFICES ASSUME NEW q \in Requests, NEW i \in 1..Len(pending'[q]), pending'[q][i].value # NoUser
                 PROVE  Entitled(pending'[q][i].value, replaced)
      BY <1>4 DEF PendingEntitled
    <2>1. CASE q = r
      <3>1. pending'[q] = Tail(s)
        BY <1>4, <2>1 DEF TypeOK
      <3> QED
        BY <1>2, <3>1 DEF PendingEntitled
    <2>2. CASE q # r
      <3>1. pending'[q] = pending[q]
        BY <1>4, <2>2 DEF TypeOK
      <3> QED
        BY <3>1 DEF PendingEntitled
    <2> QED
      BY <2>1, <2>2
  <1>8. PrivilegesFixed'
    BY <1>3, <1>4, <1>5 DEF PrivilegesFixed, TypeOK
  <1> QED
    BY <1>4, <1>6, <1>7, <1>8 DEF OwnRows, RequestsEntitled

LEMMA EvictOK ==
    ASSUME IInv, NEW k \in Keys, Evict(k)
    PROVE  IInv'
  <1> USE DEF IInv
  <1>1. cache' = [cache EXCEPT ![k] = NoUser] /\ UNCHANGED <<accounts, requests, pending, disturbed, replaced>>
    BY DEF Evict
  <1> QED
    BY <1>1 DEF TypeOK, OwnRows, PendingEntitled, RequestsEntitled, PrivilegesFixed

LEMMA LoseOK ==
    ASSUME IInv, NEW r \in Requests, Lose(r)
    PROVE  IInv'
  <1> USE DEF IInv
  <1>1. /\ requests' \in [Requests -> Request] /\ RequestsEntitled'
    BY EndOK DEF Lose
  <1>2. /\ pending' = [pending EXCEPT ![r] = <<>>]
        /\ disturbed' = TRUE /\ UNCHANGED <<accounts, cache, replaced>>
    BY DEF Lose
  <1>3. TypeOK'
    BY <1>1, <1>2 DEF TypeOK
  <1>4. PendingEntitled'
    BY <1>2 DEF PendingEntitled, TypeOK
  <1> QED
    BY <1>1, <1>2, <1>3, <1>4 DEF OwnRows, PrivilegesFixed

LEMMA NextOK == IInv /\ [Next]_vars => IInv'
  <1> SUFFICES ASSUME IInv, [Next]_vars PROVE IInv'
    OBVIOUS
  <1>1. CASE UNCHANGED vars
    BY <1>1 DEF vars, IInv, TypeOK, OwnRows, PendingEntitled, RequestsEntitled, PrivilegesFixed
  <1>2. CASE Next
    BY <1>2, CallOK, GetOK, QueryOK, BeginOK, SaveOK, DeleteOK, FlushOK, LoseOK, EvictOK DEF Next
  <1> QED
    BY <1>1, <1>2
-----------------------------------------------------------------------------
(* The invariant holds in every reachable state, for any accounts,         *)
(* requests and interleaving.                                              *)
LEMMA Invariance == Spec => []IInv
  BY InitOK, NextOK, PTL DEF Spec

(* Every variable keeps its type.                                          *)
THEOREM TypesOK == Spec => []TypeOK
  <1>1. IInv => TypeOK
    BY DEF IInv
  <1> QED
    BY <1>1, Invariance, PTL

(* The owner's and the platform's accounts stay and keep their roles, and  *)
(* no other account gains one of them, in the database or in the cache,    *)
(* however requests interleave, but for those accounts over which a client *)
(* creates another.                                                        *)
THEOREM PrivilegesStayFixed == Spec => []PrivilegesFixed
  <1>1. IInv => PrivilegesFixed
    BY DEF IInv
  <1> QED
    BY <1>1, Invariance, PTL
-----------------------------------------------------------------------------
(***************************************************************************)
(* While no two requests overlap and none is lost: copies agree with the   *)
(* accounts, or calls that replace them are on their way to the cache.     *)
(***************************************************************************)

(* A copy under a key, and the accounts as they are.                       *)
Agrees(rows, k, c) ==
    c # NoUser =>
      /\ k \in UserIds => c.userId = k /\ rows[k] # NoUser
      /\ rows[c.userId] # NoUser /\ k \in {c.userId, rows[c.userId].email}
           => Merged(c) = Merged(rows[c.userId])
(* A copy is of an account that exists or that another was created over.   *)
Existing(rows, over, c) == c # NoUser => rows[c.userId] # NoUser \/ c.userId \in over

OneAtATime == \A p, q \in Requests : Free(p) \/ Free(q) \/ p = q

Waiting(r, k) == \E i \in 1..Len(pending[r]) : pending[r][i].key = k
Settles == \A k \in Keys : Agrees(accounts, k, cache[k]) \/ \E r \in Requests : Waiting(r, k)

(* The last call for a key brings a copy that agrees; until a request has  *)
(* changed the account all of them do.                                     *)
Replaced(r, i) == \E j \in 1..Len(pending[r]) : j > i /\ pending[r][j].key = pending[r][i].key
LastAgree(r) ==
    \A i \in 1..Len(pending[r]) :
       Agrees(accounts, pending[r][i].key, pending[r][i].value) \/ Replaced(r, i)
AllAgree(r) ==
    ~At(r, "idle") =>
      /\ \A k \in Keys : Agrees(accounts, k, cache[k])
      /\ \A i \in 1..Len(pending[r]) :
           /\ Agrees(accounts, pending[r][i].key, pending[r][i].value)
           /\ Existing(accounts, replaced, pending[r][i].value)

(* What is saved or deleted exists, but for an account that is created or  *)
(* that another was created over.                                          *)
Known(r) ==
    LET q == requests[r]
    IN /\ q.call.kind = "password" /\ (q.at = "query" \/ (q.at = "get" /\ q.round > 1))
            => Existing(accounts, replaced, cache[q.call.key])
       /\ q.at \in {"begin", "commit"} /\ q.call.kind # "create"
            => accounts[q.user.userId] # NoUser \/ q.user.userId \in replaced
       /\ q.at = "commit" => Remaining(r) = {}

InStep == OneAtATime /\ Settles /\ \A r \in Requests : LastAgree(r) /\ AllAgree(r) /\ Known(r)
SInv == ~disturbed => InStep

(* The requests beside the one under way stay as they are.                 *)
LEMMA OthersStay ==
    ASSUME TypeOK, InStep, NEW r \in Requests, ~Free(r),
           \A p \in Requests \ {r} : requests'[p] = requests[p] /\ pending'[p] = pending[p],
           Settles', LastAgree(r)', AllAgree(r)', Known(r)'
    PROVE  InStep'
  <1>1. \A p \in Requests \ {r} : requests'[p].at = "idle" /\ pending'[p] = <<>>
    BY DEF InStep, OneAtATime, Free, At
  <1>2. OneAtATime'
    BY <1>1 DEF OneAtATime, Free, At
  <1>3. ASSUME NEW p \in Requests \ {r} PROVE LastAgree(p)' /\ AllAgree(p)' /\ Known(p)'
    <2>1. requests'[p].at = "idle" /\ pending'[p] = <<>>
      BY <1>1
    <2>2. LastAgree(p)'
      BY <2>1 DEF LastAgree
    <2>3. AllAgree(p)'
      BY <2>1 DEF AllAgree, At
    <2>4. Known(p)'
      BY <2>1 DEF Known
    <2> QED
      BY <2>2, <2>3, <2>4
  <1> QED
    BY <1>2, <1>3 DEF InStep

(* Two more calls of the cache.                                            *)
LEMMA Appended ==
    ASSUME NEW s \in Seq(Commands), NEW a \in Commands, NEW b \in Commands
    PROVE  /\ Len(s) \in Nat /\ Len(s \o <<a, b>>) = Len(s) + 2
           /\ \A i \in 1..Len(s) : (s \o <<a, b>>)[i] = s[i]
           /\ (s \o <<a, b>>)[Len(s) + 1] = a /\ (s \o <<a, b>>)[Len(s) + 2] = b
           /\ \A i \in 1..Len(s \o <<a, b>>) : i \in 1..Len(s) \/ i = Len(s) + 1 \/ i = Len(s) + 2
  <1>1. <<a, b>> \in Seq(Commands) /\ Len(<<a, b>>) = 2
    OBVIOUS
  <1>2. Len(s) \in Nat /\ Len(s \o <<a, b>>) = Len(s) + 2
    BY <1>1
  <1> QED
    BY <1>1, <1>2

LEMMA SubmitIs ==
    ASSUME TypeOK, NEW r \in Requests, NEW commands, Submit(r, commands)
    PROVE  /\ pending'[r] = pending[r] \o commands
           /\ \A p \in Requests \ {r} : pending'[p] = pending[p]
  BY DEF TypeOK, Submit

LEMMA BecomeIs ==
    ASSUME TypeOK, NEW r \in Requests, NEW q, Become(r, q)
    PROVE  /\ requests'[r] = q
           /\ \A p \in Requests \ {r} : requests'[p] = requests[p]
  BY DEF TypeOK, Become
-----------------------------------------------------------------------------
(* What is saved for an account that was found is saved for that one.      *)
LEMMA ToSaveId ==
    ASSUME NEW q \in Request, NEW user \in HatUser, ~Refuses(q, user), q.call.kind # "create"
    PROVE  ToSave(q.call, user).userId = user.userId
  <1>1. q.call \in Calls /\ user # NoUser /\ q.call.kind # "read"
    BY ConstantsAssumption DEF Request, Refuses
  <1>2. CASE q.call.kind = "update"
    <2>1. user.userId = q.call.body.userId /\ q.call.body \in HatUser
      BY <1>1, <1>2, ConstantsAssumption DEF Refuses, Calls
    <2>2. ToSave(q.call, user) = [q.call.body EXCEPT !.enabled = TRUE]
      BY <1>2 DEF ToSave
    <2> QED
      BY <2>1, <2>2 DEF HatUser
  <1>3. CASE q.call.kind \in {"enable", "disable"}
    <2>1. ToSave(q.call, user) = [user EXCEPT !.enabled = TRUE]
      BY <1>3 DEF ToSave
    <2> QED
      BY <2>1 DEF HatUser
  <1>4. CASE q.call.kind = "grant"
    <2>1. ToSave(q.call, user) = [user EXCEPT !.roles = @ \cup {q.call.role}]
      BY <1>4 DEF ToSave
    <2> QED
      BY <2>1 DEF HatUser
  <1>5. CASE q.call.kind = "password"
    <2>1. ToSave(q.call, user) = [user EXCEPT !.pass = q.call.new]
      BY <1>5 DEF ToSave
    <2> QED
      BY <2>1 DEF HatUser
  <1>6. CASE q.call.kind = "delete"
    BY <1>6 DEF ToSave
  <1>7. \/ q.call.kind \in {"update", "grant", "password", "delete"}
        \/ q.call.kind \in {"enable", "disable"}
    BY <1>1 DEF Calls
  <1> QED
    BY <1>2, <1>3, <1>4, <1>5, <1>6, <1>7

(* A request goes on with a user that exists, or is refused.               *)
LEMMA ContinueKnown ==
    ASSUME TypeOK, NEW r \in Requests, NEW user \in HatUser \cup {NoUser}, Continue(r, user),
           Refuses(requests[r], user) \/ Existing(accounts, replaced, user),
           UNCHANGED <<accounts, cache, replaced>>,
           requests[r].call.kind = "password" /\ ~Refuses(requests[r], user)
             => Existing(accounts, replaced, cache[requests[r].call.key])
    PROVE  /\ Known(r)'
           /\ \A p \in Requests \ {r} : requests'[p] = requests[p]
  <1> DEFINE q == requests[r]
  <1>1. q \in Request
    BY DEF TypeOK
  <1>2. CASE Refuses(q, user)
    <2>1. Become(r, Idle)
      BY <1>2 DEF Continue, End
    <2>2. requests'[r] = Idle /\ Idle.at = "idle"
      BY <2>1, BecomeIs, IdleType
    <2> QED
      BY <2>1, <2>2, BecomeIs DEF Known
  <1>3. CASE ~Refuses(q, user) /\ LooksAgain(q)
    <2> DEFINE p == [q EXCEPT !.at = "get", !.round = @ + 1]
    <2>1. Become(r, p)
      BY <1>3 DEF Continue
    <2>2. p.at = "get" /\ p.call = q.call
      BY <1>1 DEF Request
    <2> HIDE DEF p
    <2>3. requests'[r] = p /\ \A x \in Requests \ {r} : requests'[x] = requests[x]
      BY <2>1, BecomeIs
    <2> QED
      BY <1>3, <2>2, <2>3 DEF Known
  <1>4. CASE ~Refuses(q, user) /\ ~LooksAgain(q)
    <2> DEFINE p == [q EXCEPT !.at = "begin", !.user = ToSave(q.call, user)]
    <2>1. Become(r, p)
      BY <1>4 DEF Continue
    <2>2. p.at = "begin" /\ p.call = q.call /\ p.user = ToSave(q.call, user)
      BY <1>1 DEF Request
    <2> HIDE DEF p
    <2>3. requests'[r] = p /\ \A x \in Requests \ {r} : requests'[x] = requests[x]
      BY <2>1, BecomeIs
    <2>4. ASSUME q.call.kind # "create"
          PROVE  accounts[p.user.userId] # NoUser \/ p.user.userId \in replaced
      <3>1. user # NoUser
        BY <1>4, <2>4 DEF Refuses, Wrong
      <3>2. p.user.userId = user.userId
        BY <1>1, <1>4, <2>2, <2>4, <3>1, ToSaveId
      <3> QED
        BY <1>4, <3>1, <3>2 DEF Existing
    <2> QED
      BY <2>2, <2>3, <2>4 DEF Known
  <1> QED
    BY <1>2, <1>3, <1>4

(* Accounts and cache stay, and what is on its way to the cache agrees.    *)
LEMMA SyncOK ==
    ASSUME UNCHANGED <<accounts, cache, replaced>>, NEW r \in Requests, ~At(r, "idle"), AllAgree(r),
           \A i \in 1..Len(pending'[r]) :
              /\ Agrees(accounts, pending'[r][i].key, pending'[r][i].value)
              /\ Existing(accounts, replaced, pending'[r][i].value)
    PROVE  Settles' /\ LastAgree(r)' /\ AllAgree(r)'
  BY DEF AllAgree, Settles, LastAgree

LEMMA CallSerial ==
    ASSUME IInv, SInv, NEW r \in Requests, NEW call \in Calls, Call(r, call)
    PROVE  SInv'
  <1> SUFFICES ASSUME ~disturbed' PROVE InStep'
    BY DEF SInv
  <1> DEFINE p == [Idle EXCEPT !.call = call, !.at = "get"]
  <1>1. Quiet /\ ~disturbed /\ InStep /\ TypeOK
    BY DEF Call, SInv, IInv
  <1>2. p.at = "get" /\ p.round = 1
    BY IdleType DEF Request, Idle
  <1>3. Become(r, p) /\ UNCHANGED <<accounts, cache, pending, replaced>>
    BY DEF Call
  <1> HIDE DEF p
  <1>4. requests'[r] = p /\ \A x \in Requests \ {r} : requests'[x] = requests[x]
    BY <1>1, <1>3, BecomeIs
  <1>5. \A x \in Requests : pending[x] = <<>> /\ requests[x].at = "idle"
    BY <1>1 DEF Quiet, Free, At
  <1>6. \A x \in Requests \ {r} : requests'[x].at = "idle"
    BY <1>4, <1>5
  <1>7. \A k \in Keys : Agrees(accounts, k, cache[k])
    BY <1>1, <1>5 DEF InStep, Settles, Waiting
  <1>8. OneAtATime'
    BY <1>3, <1>5, <1>6 DEF OneAtATime, Free, At
  <1>9. Settles'
    BY <1>3, <1>7 DEF Settles
  <1>10. ASSUME NEW x \in Requests PROVE LastAgree(x)' /\ AllAgree(x)' /\ Known(x)'
    <2>1. LastAgree(x)' /\ AllAgree(x)'
      BY <1>3, <1>5, <1>7 DEF LastAgree, AllAgree
    <2>2. Known(x)'
      BY <1>2, <1>4, <1>6 DEF Known
    <2> QED
      BY <2>1, <2>2
  <1> QED
    BY <1>8, <1>9, <1>10 DEF InStep

(* What a request finds in the cache exists, unless it is refused.         *)
LEMMA FoundExists ==
    ASSUME IInv, InStep, NEW r \in Requests, At(r, "get"),
           cache[requests[r].call.key] # NoUser
    PROVE  \/ Refuses(requests[r], cache[requests[r].call.key])
           \/ Existing(accounts, replaced, cache[requests[r].call.key])
  <1> DEFINE q == requests[r]
             found == cache[q.call.key]
  <1>1. q \in Request /\ q.call \in Calls /\ q.at = "get"
    BY DEF IInv, TypeOK, Request, At
  <1>2. q.call.key \in Keys /\ found \in HatUser
    BY <1>1 DEF Calls, Keys, IInv, TypeOK
  <1>3. Agrees(accounts, q.call.key, found)
    BY <1>1, <1>2 DEF InStep, AllAgree, At
  <1>4. CASE q.call.kind \in {"read", "create"}
    BY <1>4 DEF Refuses, Wrong
  <1>5. CASE q.call.kind \in {"update", "grant", "enable", "disable", "delete"}
    <2>1. q.call.key \in UserIds
      BY <1>1, <1>5 DEF Calls
    <2> QED
      BY <1>3, <2>1 DEF Agrees, Existing
  <1>6. CASE q.call.kind = "password" /\ q.round > 1
    BY <1>1, <1>6 DEF InStep, Known
  <1>7. CASE q.call.kind = "password" /\ ~(q.round > 1)
    <2>1. q.round = 1
      BY <1>1, <1>7 DEF Request
    <2>2. CASE Owner \notin found.roles
      BY <1>7, <2>1, <2>2 DEF Refuses
    <2>3. CASE Owner \in found.roles
      <3>1. Entitled(found, replaced) /\ found.userId \in UserIds
        BY <1>2 DEF IInv, PrivilegesFixed, HatUser
      <3>2. Given(found.userId) # {}
        BY <2>3, <3>1, ConstantsAssumption DEF Entitled
      <3> QED
        BY <3>1, <3>2 DEF IInv, PrivilegesFixed, Existing
    <2> QED
      BY <2>2, <2>3
  <1> QED
    BY <1>1, <1>4, <1>5, <1>6, <1>7 DEF Calls

LEMMA GetSerial ==
    ASSUME IInv, SInv, NEW r \in Requests, Get(r)
    PROVE  SInv'
  <1> SUFFICES ASSUME ~disturbed' PROVE InStep'
    BY DEF SInv
  <1> DEFINE q == requests[r]
             found == cache[q.call.key]
  <1>1. /\ TypeOK /\ InStep /\ ~Free(r) /\ ~At(r, "idle") /\ AllAgree(r)
        /\ UNCHANGED <<accounts, cache, pending, replaced>>
    BY DEF Get, At, Free, SInv, IInv, InStep
  <1>2. Settles' /\ LastAgree(r)' /\ AllAgree(r)'
    BY <1>1, SyncOK DEF AllAgree
  <1>3. q \in Request /\ q.call.key \in Keys /\ found \in HatUser \cup {NoUser}
    <2>1. q \in Request
      BY <1>1 DEF TypeOK
    <2>2. q.call.key \in Keys
      BY <2>1 DEF Request, Calls, Keys
    <2> QED
      BY <1>1, <2>1, <2>2 DEF TypeOK
  <1>4. Known(r)' /\ \A p \in Requests \ {r} : requests'[p] = requests[p]
    <2>1. CASE found # NoUser
      <3>1. Refuses(q, found) \/ Existing(accounts, replaced, found)
        BY <1>1, <2>1, FoundExists DEF Get
      <3>2. Continue(r, found)
        BY <2>1 DEF Get
      <3> QED
        BY <1>1, <1>3, <3>1, <3>2, ContinueKnown
    <2>2. CASE found = NoUser
      <3> DEFINE p == [q EXCEPT !.at = "query"]
      <3>1. Become(r, p)
        BY <2>2 DEF Get
      <3>2. p.at = "query" /\ p.call = q.call
        BY <1>3 DEF Request
      <3> HIDE DEF p
      <3>3. requests'[r] = p /\ \A x \in Requests \ {r} : requests'[x] = requests[x]
        BY <1>1, <3>1, BecomeIs
      <3> QED
        BY <1>1, <2>2, <3>2, <3>3 DEF Known, Existing
    <2> QED
      BY <2>1, <2>2
  <1> QED
    BY <1>1, <1>2, <1>4, OthersStay

(* An account as it is read agrees with itself under its id and its email. *)
LEMMA AsReadAgrees ==
    ASSUME IInv, NEW u \in UserIds, accounts[u] # NoUser
    PROVE  /\ AsRead(u) \in HatUser /\ AsRead(u).userId = u /\ AsRead(u).email \in Emails
           /\ Existing(accounts, replaced, AsRead(u))
           /\ Agrees(accounts, u, AsRead(u)) /\ Agrees(accounts, AsRead(u).email, AsRead(u))
  <1>1. accounts[u] \in HatUser /\ accounts[u].userId = u
    BY DEF IInv, TypeOK, OwnRows
  <1>2. AsRead(u) \in HatUser
    BY AsReadOK DEF IInv
  <1>3. /\ AsRead(u).userId = u /\ AsRead(u).email = accounts[u].email
        /\ AsRead(u).email \in Emails /\ AsRead(u).email \notin UserIds
    BY <1>1, ConstantsAssumption DEF AsRead, HatUser
  <1>4. Merged(AsRead(u)) = Merged(accounts[u])
    BY <1>1 DEF AsRead, Merged, HatUser
  <1> QED
    BY <1>2, <1>3, <1>4 DEF Agrees, Existing

LEMMA QuerySerial ==
    ASSUME IInv, SInv, NEW r \in Requests, Query(r)
    PROVE  SInv'
  <1> SUFFICES ASSUME ~disturbed' PROVE InStep'
    BY DEF SInv
  <1> DEFINE q == requests[r]
  <1>1. /\ TypeOK /\ InStep /\ ~Free(r) /\ ~At(r, "idle") /\ AllAgree(r) /\ Known(r)
        /\ UNCHANGED <<accounts, cache, replaced>> /\ q.at = "query"
    BY DEF Query, At, Free, SInv, IInv, InStep
  <1>2. q.call.kind = "password" => Existing(accounts, replaced, cache[q.call.key])
    BY <1>1 DEF Known
  <1>3. CASE Continue(r, NoUser) /\ UNCHANGED pending
    <2>1. Settles' /\ LastAgree(r)' /\ AllAgree(r)'
      BY <1>1, <1>3, SyncOK DEF AllAgree
    <2>2. Known(r)' /\ \A p \in Requests \ {r} : requests'[p] = requests[p]
      BY <1>1, <1>2, <1>3, ContinueKnown DEF Existing
    <2> QED
      BY <1>1, <1>3, <2>1, <2>2, OthersStay
  <1>4. ASSUME NEW u \in Matching(q.call.key), Continue(r, AsRead(u)),
               Submit(r, Fills(AsRead(u)))
        PROVE  InStep'
    <2> DEFINE c == AsRead(u)
    <2>1. u \in UserIds /\ accounts[u] # NoUser
      BY DEF Matching
    <2>2. /\ c \in HatUser /\ c.userId = u /\ c.email \in Emails /\ Existing(accounts, replaced, c)
          /\ Agrees(accounts, u, c) /\ Agrees(accounts, c.email, c)
      BY <2>1, AsReadAgrees
    <2>3. Known(r)' /\ \A p \in Requests \ {r} : requests'[p] = requests[p]
      BY <1>1, <1>2, <1>4, <2>2, ContinueKnown
    <2> DEFINE a == [key |-> c.userId, value |-> c]
               b == [key |-> c.email, value |-> c]
    <2> HIDE DEF c
    <2>4. a \in Commands /\ b \in Commands
      BY <2>1, <2>2 DEF Commands, Keys
    <2>5. Submit(r, <<a, b>>)
      BY <1>4 DEF c, Fills
    <2> DEFINE s == pending[r]
    <2>6. s \in Seq(Commands)
      BY <1>1 DEF TypeOK
    <2>7. a.key = u /\ a.value = c /\ b.key = c.email /\ b.value = c
      BY <2>2
    <2> HIDE DEF a, b
    <2>8. pending'[r] = s \o <<a, b>> /\ \A p \in Requests \ {r} : pending'[p] = pending[p]
      BY <1>1, <2>5, SubmitIs
    <2>9. ASSUME NEW i \in 1..Len(pending'[r])
          PROVE  /\ Agrees(accounts, pending'[r][i].key, pending'[r][i].value)
                 /\ Existing(accounts, replaced, pending'[r][i].value)
      <3>1. i \in 1..Len(s) \/ pending'[r][i] = a \/ pending'[r][i] = b
        BY <2>4, <2>6, <2>8, Appended
      <3>2. CASE i \in 1..Len(s)
        <4>1. pending'[r][i] = s[i]
          BY <2>4, <2>6, <2>8, <3>2, Appended
        <4> QED
          BY <1>1, <3>2, <4>1 DEF AllAgree
      <3>3. CASE pending'[r][i] = a \/ pending'[r][i] = b
        BY <2>2, <2>7, <3>3
      <3> QED
        BY <3>1, <3>2, <3>3
    <2>10. Settles' /\ LastAgree(r)' /\ AllAgree(r)'
      BY <1>1, <2>9, SyncOK
    <2> QED
      BY <1>1, <2>3, <2>8, <2>10, OthersStay
  <1> QED
    BY <1>3, <1>4 DEF Query

LEMMA BeginSerial ==
    ASSUME IInv, SInv, NEW r \in Requests, Begin(r)
    PROVE  SInv'
  <1> SUFFICES ASSUME ~disturbed' PROVE InStep'
    BY DEF SInv
  <1> DEFINE q == requests[r]
             row == accounts[q.user.userId]
             d == IF row = NoUser THEN {} ELSE row.roles
             p == [q EXCEPT !.at = "commit", !.dropped = d]
  <1>1. /\ TypeOK /\ InStep /\ ~Free(r) /\ ~At(r, "idle") /\ AllAgree(r) /\ Known(r)
        /\ UNCHANGED <<accounts, cache, pending, replaced>> /\ q.at = "begin" /\ q \in Request
    BY DEF Begin, At, Free, SInv, IInv, InStep, TypeOK
  <1>2. Settles' /\ LastAgree(r)' /\ AllAgree(r)'
    BY <1>1, SyncOK DEF AllAgree
  <1>3. Become(r, p)
    BY DEF Begin
  <1>4. p.at = "commit" /\ p.call = q.call /\ p.user = q.user /\ p.dropped = d
    BY <1>1 DEF Request
  <1> HIDE DEF p
  <1>5. requests'[r] = p /\ \A x \in Requests \ {r} : requests'[x] = requests[x]
    BY <1>1, <1>3, BecomeIs
  <1>6. Known(r)'
    BY <1>1, <1>4, <1>5 DEF Known, Remaining
  <1> QED
    BY <1>1, <1>2, <1>5, <1>6, OthersStay

(* A request that has changed or deleted an account and replaces its two   *)
(* copies: what else is cached agrees as before.                           *)
LEMMA WrittenOK ==
    ASSUME TypeOK, NEW r \in Requests, ~At(r, "idle"), AllAgree(r),
           NEW u \in UserIds, NEW e \in Emails, NEW x \in HatUser \cup {NoUser},
           x # NoUser => x.userId = u /\ x.email = e,
           accounts' = [accounts EXCEPT ![u] = x], UNCHANGED cache,
           requests'[r] = Idle,
           pending'[r] = pending[r] \o <<[key |-> u, value |-> x], [key |-> e, value |-> x]>>
    PROVE  Settles' /\ LastAgree(r)' /\ AllAgree(r)' /\ Known(r)'
  <1> DEFINE a == [key |-> u, value |-> x]
             b == [key |-> e, value |-> x]
             s == pending[r]
  <1>1. a \in Commands /\ b \in Commands /\ s \in Seq(Commands)
    BY DEF Commands, Keys, TypeOK
  <1>2. a.key = u /\ a.value = x /\ b.key = e /\ b.value = x
    OBVIOUS
  <1> HIDE DEF a, b
  <1>3. pending'[r] = s \o <<a, b>>
    BY DEF a, b
  <1>4. /\ Len(s) \in Nat /\ Len(pending'[r]) = Len(s) + 2
        /\ \A i \in 1..Len(s) : pending'[r][i] = s[i]
        /\ pending'[r][Len(s) + 1] = a /\ pending'[r][Len(s) + 2] = b
        /\ \A i \in 1..Len(pending'[r]) : i \in 1..Len(s) \/ i = Len(s) + 1 \/ i = Len(s) + 2
    BY <1>1, <1>3, Appended
  <1>5. /\ Len(s) + 1 \in 1..Len(pending'[r]) /\ Len(s) + 2 \in 1..Len(pending'[r])
        /\ \A i \in 1..Len(s) : i < Len(s) + 1 /\ i < Len(s) + 2
    BY <1>4
  <1>6. accounts'[u] = x /\ \A v \in UserIds \ {u} : accounts'[v] = accounts[v]
    BY DEF TypeOK
  <1>7. ASSUME NEW k \in Keys \ {u, e}, NEW c \in HatUser \cup {NoUser}, Agrees(accounts, k, c)
        PROVE  Agrees(accounts', k, c)
    <2>1. CASE c = NoUser
      BY <2>1 DEF Agrees
    <2>2. CASE c # NoUser /\ c.userId = u
      BY <1>6, <1>7, <2>2 DEF Agrees
    <2>3. CASE c # NoUser /\ c.userId # u
      <3>1. c.userId \in UserIds /\ accounts'[c.userId] = accounts[c.userId]
        BY <1>6, <2>3 DEF HatUser
      <3> QED
        BY <1>6, <1>7, <2>3, <3>1 DEF Agrees
    <2> QED
      BY <2>1, <2>2, <2>3
  <1>8. Agrees(accounts', u, x) /\ Agrees(accounts', e, x)
    <2>1. e \notin UserIds
      BY ConstantsAssumption
    <2> QED
      BY <1>6, <2>1 DEF Agrees
  <1>9. Settles'
    <2> SUFFICES ASSUME NEW k \in Keys PROVE Agrees(accounts', k, cache'[k]) \/ Waiting(r, k)'
      BY DEF Settles
    <2>1. CASE k \in {u, e}
      BY <1>2, <1>4, <1>5, <2>1 DEF Waiting
    <2>2. CASE k \notin {u, e}
      <3>1. Agrees(accounts, k, cache[k]) /\ cache[k] \in HatUser \cup {NoUser}
        BY DEF AllAgree, TypeOK
      <3> QED
        BY <1>7, <2>2, <3>1
    <2> QED
      BY <2>1, <2>2
  <1>10. LastAgree(r)'
    <2> SUFFICES ASSUME NEW i \in 1..Len(pending'[r])
                 PROVE  \/ Agrees(accounts', pending'[r][i].key, pending'[r][i].value)
                        \/ Replaced(r, i)'
      BY DEF LastAgree
    <2>1. CASE i \in 1..Len(s)
      <3>1. /\ pending'[r][i] = s[i] /\ s[i].key \in Keys /\ s[i].value \in HatUser \cup {NoUser}
            /\ Agrees(accounts, s[i].key, s[i].value)
        <4>1. s[i] \in Commands /\ pending'[r][i] = s[i]
          BY <1>1, <1>4, <2>1
        <4>2. Agrees(accounts, s[i].key, s[i].value)
          BY <2>1 DEF AllAgree
        <4> QED
          BY <4>1, <4>2 DEF Commands
      <3>2. CASE s[i].key = u
        BY <1>2, <1>4, <1>5, <2>1, <3>1, <3>2 DEF Replaced
      <3>3. CASE s[i].key = e
        BY <1>2, <1>4, <1>5, <2>1, <3>1, <3>3 DEF Replaced
      <3>4. CASE s[i].key \notin {u, e}
        BY <1>7, <3>1, <3>4
      <3> QED
        BY <3>2, <3>3, <3>4
    <2>2. CASE i = Len(s) + 1 \/ i = Len(s) + 2
      BY <1>2, <1>4, <1>8, <2>2
    <2> QED
      BY <1>4, <2>1, <2>2
  <1>11. requests'[r].at = "idle"
    BY IdleType
  <1> QED
    BY <1>9, <1>10, <1>11 DEF AllAgree, Known, At

LEMMA SaveSerial ==
    ASSUME IInv, SInv, NEW r \in Requests, Save(r)
    PROVE  SInv'
  <1> SUFFICES ASSUME ~disturbed' PROVE InStep'
    BY DEF SInv
  <1> DEFINE user == requests[r].user
  <1>1. /\ TypeOK /\ InStep /\ ~Free(r) /\ ~At(r, "idle") /\ AllAgree(r) /\ Known(r)
        /\ UNCHANGED cache /\ At(r, "commit")
    BY DEF Save, At, Free, SInv, IInv, InStep
  <1>2. user \in HatUser /\ user.userId \in UserIds /\ user.email \in Emails /\ user # NoUser
    BY <1>1, CommitFacts, ConstantsAssumption DEF HatUser
  <1>3. Remaining(r) = {}
    BY <1>1 DEF Known, At
  <1>4. accounts' = [accounts EXCEPT ![user.userId] = user]
    <2>1. [user EXCEPT !.roles = @ \cup {}] = user
      BY <1>2 DEF HatUser
    <2> QED
      BY <1>3, <2>1 DEF Save
  <1>5. /\ requests'[r] = Idle
        /\ \A p \in Requests \ {r} : requests'[p] = requests[p]
    <2>1. \A p \in Requests \ {r} : requests[p].at = "idle"
      BY <1>1 DEF InStep, OneAtATime, Free, At
    <2> QED
      BY <2>1 DEF Save, Inserted
  <1>6. /\ pending'[r] = pending[r] \o <<[key |-> user.userId, value |-> user],
                                         [key |-> user.email, value |-> user]>>
        /\ \A p \in Requests \ {r} : pending'[p] = pending[p]
    BY <1>1, SubmitIs DEF Save, Fills
  <1>7. Settles' /\ LastAgree(r)' /\ AllAgree(r)' /\ Known(r)'
    BY <1>1, <1>2, <1>4, <1>5, <1>6, WrittenOK
  <1> QED
    BY <1>1, <1>5, <1>6, <1>7, OthersStay

LEMMA DeleteSerial ==
    ASSUME IInv, SInv, NEW r \in Requests, Delete(r)
    PROVE  SInv'
  <1> SUFFICES ASSUME ~disturbed' PROVE InStep'
    BY DEF SInv
  <1> DEFINE user == requests[r].user
  <1>1. /\ TypeOK /\ InStep /\ ~Free(r) /\ ~At(r, "idle") /\ AllAgree(r) /\ Known(r)
        /\ UNCHANGED cache /\ At(r, "commit")
    BY DEF Delete, At, Free, SInv, IInv, InStep
  <1>2. user \in HatUser /\ user.userId \in UserIds /\ user.email \in Emails
    BY <1>1, CommitFacts DEF HatUser
  <1>3. Remaining(r) = {}
    BY <1>1 DEF Known, At
  <1>4. /\ accounts' = [accounts EXCEPT ![user.userId] = NoUser]
        /\ Submit(r, Removals(user))
    BY <1>3 DEF Delete
  <1>5. /\ requests'[r] = Idle
        /\ \A p \in Requests \ {r} : requests'[p] = requests[p]
    BY <1>1, BecomeIs DEF Delete, End
  <1>6. /\ pending'[r] = pending[r] \o <<[key |-> user.userId, value |-> NoUser],
                                         [key |-> user.email, value |-> NoUser]>>
        /\ \A p \in Requests \ {r} : pending'[p] = pending[p]
    BY <1>1, <1>4, SubmitIs DEF Removals
  <1>7. Settles' /\ LastAgree(r)' /\ AllAgree(r)' /\ Known(r)'
    BY <1>1, <1>2, <1>4, <1>5, <1>6, WrittenOK
  <1> QED
    BY <1>1, <1>5, <1>6, <1>7, OthersStay

LEMMA FlushSerial ==
    ASSUME IInv, SInv, NEW r \in Requests, Flush(r)
    PROVE  SInv'
  <1> SUFFICES ASSUME ~disturbed' PROVE InStep'
    BY DEF SInv
  <1> DEFINE s == pending[r]
             h == Head(s)
  <1>1. /\ TypeOK /\ InStep /\ ~Free(r) /\ AllAgree(r) /\ Known(r) /\ LastAgree(r)
        /\ UNCHANGED <<accounts, requests, replaced>> /\ s \in Seq(Commands) /\ s # <<>>
    BY DEF Flush, Free, SInv, IInv, InStep, TypeOK
  <1>2. /\ h = s[1] /\ 1 \in 1..Len(s) /\ h \in Commands
        /\ Tail(s) \in Seq(Commands) /\ Len(Tail(s)) = Len(s) - 1 /\ Len(s) \in Nat
        /\ \A i \in 1..Len(Tail(s)) : Tail(s)[i] = s[i + 1] /\ i + 1 \in 1..Len(s)
        /\ \A i \in 1..Len(s) : i > 1 => i - 1 \in 1..Len(Tail(s)) /\ Tail(s)[i - 1] = s[i]
    BY <1>1
  <1>3. h.key \in Keys /\ h.value \in HatUser \cup {NoUser}
    BY <1>2 DEF Commands
  <1>4. /\ pending'[r] = Tail(s) /\ \A p \in Requests \ {r} : pending'[p] = pending[p]
        /\ cache'[h.key] = h.value /\ \A k \in Keys \ {h.key} : cache'[k] = cache[k]
    BY <1>1, <1>3 DEF Flush, TypeOK
  <1>5. ASSUME NEW k, NEW i \in 1..Len(s), i > 1, s[i].key = k PROVE Waiting(r, k)'
    <2>1. i - 1 \in 1..Len(Tail(s)) /\ Tail(s)[i - 1].key = k
      BY <1>2, <1>5
    <2> QED
      BY <1>4, <2>1 DEF Waiting
  <1>6. Settles'
    <2> SUFFICES ASSUME NEW k \in Keys, ~Waiting(r, k)'
                 PROVE  Agrees(accounts', k, cache'[k])
      BY DEF Settles
    <2>1. CASE k = h.key
      <3>1. ~Replaced(r, 1)
        <4> SUFFICES ASSUME NEW j \in 1..Len(s), j > 1, s[j].key = s[1].key PROVE FALSE
          BY DEF Replaced
        <4> QED
          BY <1>2, <1>5, <2>1
      <3> QED
        BY <1>1, <1>2, <1>4, <2>1, <3>1 DEF LastAgree
    <2>2. CASE k # h.key
      <3>1. \A p \in Requests : ~Waiting(p, k)
        <4> SUFFICES ASSUME NEW p \in Requests, Waiting(p, k) PROVE FALSE
          OBVIOUS
        <4>1. p = r
          BY <1>1 DEF InStep, OneAtATime, Free, Waiting
        <4>2. PICK i \in 1..Len(s) : s[i].key = k
          BY <4>1 DEF Waiting
        <4>3. i > 1
          BY <1>2, <2>2, <4>2
        <4> QED
          BY <1>5, <4>2, <4>3
      <3>2. Agrees(accounts, k, cache[k])
        BY <1>1, <3>1 DEF InStep, Settles
      <3> QED
        BY <1>1, <1>4, <2>2, <3>2
    <2> QED
      BY <2>1, <2>2
  <1>7. LastAgree(r)'
    <2> SUFFICES ASSUME NEW i \in 1..Len(Tail(s)), ~Replaced(r, i)'
                 PROVE  Agrees(accounts, Tail(s)[i].key, Tail(s)[i].value)
      BY <1>1, <1>4 DEF LastAgree
    <2>1. ~Replaced(r, i + 1)
      <3> SUFFICES ASSUME NEW j \in 1..Len(s), j > i + 1, s[j].key = s[i + 1].key PROVE FALSE
        BY DEF Replaced
      <3>1. j - 1 \in 1..Len(Tail(s)) /\ Tail(s)[j - 1] = s[j] /\ j - 1 > i
        BY <1>2
      <3>2. Tail(s)[j - 1].key = Tail(s)[i].key
        BY <1>2, <3>1
      <3> QED
        BY <1>4, <3>1, <3>2 DEF Replaced
    <2> QED
      BY <1>1, <1>2, <2>1 DEF LastAgree
  <1>8. AllAgree(r)'
    <2> SUFFICES ASSUME ~At(r, "idle")
                 PROVE  /\ \A k \in Keys : Agrees(accounts, k, cache'[k])
                        /\ \A i \in 1..Len(Tail(s)) :
                              /\ Agrees(accounts, Tail(s)[i].key, Tail(s)[i].value)
                              /\ Existing(accounts, replaced, Tail(s)[i].value)
      BY <1>1, <1>4 DEF AllAgree, At
    <2>1. Agrees(accounts, h.key, h.value)
      BY <1>1, <1>2 DEF AllAgree
    <2>2. \A k \in Keys : Agrees(accounts, k, cache'[k])
      BY <1>1, <1>4, <2>1 DEF AllAgree
    <2> QED
      BY <1>1, <1>2, <2>2 DEF AllAgree
  <1>9. Known(r)'
    <2>1. requests[r].call.key \in Keys
      BY <1>1 DEF TypeOK, Request, Calls, Keys
    <2>2. ~At(r, "idle") => Existing(accounts, replaced, h.value)
      BY <1>1, <1>2 DEF AllAgree
    <2>3. Remaining(r)' = Remaining(r)
      BY <1>1 DEF Remaining
    <2> QED
      BY <1>1, <1>4, <2>1, <2>2, <2>3 DEF Known, At
  <1> QED
    BY <1>1, <1>4, <1>6, <1>7, <1>8, <1>9, OthersStay

LEMMA EvictSerial ==
    ASSUME IInv, SInv, NEW k \in Keys, Evict(k)
    PROVE  SInv'
  <1> SUFFICES ASSUME ~disturbed' PROVE InStep'
    BY DEF SInv
  <1>1. /\ InStep /\ UNCHANGED <<accounts, requests, pending, replaced>>
        /\ cache'[k] = NoUser /\ \A x \in Keys \ {k} : cache'[x] = cache[x]
    BY DEF Evict, SInv, IInv, TypeOK
  <1>2. Agrees(accounts, k, NoUser) /\ Existing(accounts, replaced, NoUser)
    BY DEF Agrees, Existing
  <1>3. OneAtATime'
    BY <1>1 DEF InStep, OneAtATime, Free, At
  <1>4. Settles'
    BY <1>1, <1>2 DEF InStep, Settles, Waiting
  <1>5. ASSUME NEW r \in Requests PROVE LastAgree(r)' /\ AllAgree(r)' /\ Known(r)'
    <2>1. LastAgree(r)'
      BY <1>1 DEF InStep, LastAgree, Replaced
    <2>2. AllAgree(r)'
      BY <1>1, <1>2 DEF InStep, AllAgree, At
    <2>3. requests[r].call.key \in Keys
      BY DEF IInv, TypeOK, Request, Calls, Keys
    <2>4. Known(r)'
      BY <1>1, <1>2, <2>3 DEF InStep, Known, Remaining
    <2> QED
      BY <2>1, <2>2, <2>4
  <1> QED
    BY <1>3, <1>4, <1>5 DEF InStep
-----------------------------------------------------------------------------
LEMMA SerialInit == Init => SInv
  <1> SUFFICES ASSUME Init PROVE InStep
    BY DEF SInv
  <1>1. \A r \in Requests : requests[r].at = "idle" /\ pending[r] = <<>>
    BY IdleType DEF Init
  <1>2. OneAtATime
    BY <1>1 DEF OneAtATime, Free, At
  <1>3. Settles
    BY DEF Init, Settles, Agrees
  <1>4. ASSUME NEW r \in Requests PROVE LastAgree(r) /\ AllAgree(r) /\ Known(r)
    BY <1>1 DEF LastAgree, AllAgree, Known, At
  <1> QED
    BY <1>2, <1>3, <1>4 DEF InStep

LEMMA SerialStep == IInv /\ SInv /\ [Next]_vars => SInv'
  <1> SUFFICES ASSUME IInv, SInv, [Next]_vars PROVE SInv'
    OBVIOUS
  <1>1. CASE UNCHANGED vars
    BY <1>1 DEF vars, SInv, InStep, OneAtATime, Free, Settles, Waiting, LastAgree, Replaced,
                AllAgree, Known, Remaining, At
  <1>2. ASSUME NEW r \in Requests, Lose(r) PROVE SInv'
    BY <1>2 DEF Lose, SInv
  <1> QED
    BY <1>1, <1>2, CallSerial, GetSerial, QuerySerial, BeginSerial, SaveSerial, DeleteSerial,
       FlushSerial, EvictSerial DEF Next

LEMMA SerialInvariance == Spec => [](IInv /\ SInv)
  <1>1. Init => IInv /\ SInv
    BY InitOK, SerialInit
  <1>2. IInv /\ SInv /\ [Next]_vars => (IInv /\ SInv)'
    BY NextOK, SerialStep
  <1> QED
    BY <1>1, <1>2, PTL DEF Spec

(* As long as no requests have overlapped and none was lost, the cached    *)
(* copies that an id or a present email finds agree with the database,     *)
(* whenever the cache loses entries and however late it does its calls.    *)
THEOREM CopiesAgree == Spec => []CachesAgree
  <1>1. IInv /\ SInv => CachesAgree
    <2> SUFFICES ASSUME IInv, SInv, Quiet, ~disturbed
                 PROVE  /\ \A u \in UserIds : accounts[u] = NoUser => cache[u] = NoUser
                        /\ \A k \in Keys : cache[k] # NoUser =>
                             LET row == accounts[cache[k].userId]
                             IN row # NoUser /\ k \in {cache[k].userId, row.email}
                                  => Merged(cache[k]) = Merged(row)
      BY DEF CachesAgree
    <2>1. \A k \in Keys : Agrees(accounts, k, cache[k])
      BY DEF SInv, InStep, Settles, Waiting, Quiet, Free
    <2> QED
      BY <2>1 DEF Agrees, Keys
  <1> QED
    BY <1>1, SerialInvariance, PTL

(* As long as no requests have overlapped and none was lost, an account    *)
(* that was deleted comes back only by being created: what any other       *)
(* request found of it, in whichever copy, is gone by then.  A privileged  *)
(* account over which another was created is the exception.                *)
THEOREM DeletedStays == Spec => StaysDeleted
  <1> DEFINE Back(u) == accounts[u] = NoUser /\ accounts'[u] # NoUser =>
                          disturbed \/ u \in replaced \/ \E r \in Requests : At(r, "commit") /\ requests[r].call.kind = "create"
  <1>1. IInv /\ SInv /\ [Next]_vars => [\A u \in UserIds : Back(u)]_vars
    <2> SUFFICES ASSUME IInv, SInv, Next, NEW u \in UserIds, accounts[u] = NoUser,
                        accounts'[u] # NoUser, ~disturbed, u \notin replaced
                 PROVE  \E r \in Requests : At(r, "commit") /\ requests[r].call.kind = "create"
      BY DEF vars
    <2>1. PICK r \in Requests : Save(r)
      BY DEF Next, Call, Get, Query, Begin, Delete, Flush, Evict, Lose, IInv, TypeOK
    <2>2. requests[r].user.userId = u
      BY <2>1 DEF Save, IInv, TypeOK
    <2> QED
      BY <2>1, <2>2 DEF Save, At, SInv, InStep, Known
  <1> QED
    BY <1>1, SerialInvariance, PTL DEF Spec, StaysDeleted
=============================================================================
