---------------------------- MODULE Files_proofs ----------------------------
(* Proofs about Files, for any number of names, users, files and requests. *)
EXTENDS Files, TLAPS

(* A request that has read the row of its file: the file exists.           *)
CopyOK(r) == requests[r].at \in {"size", "contents", "save"} =>
    /\ Exists(requests[r].file) /\ requests[r].copy # "none"
    /\ requests[r].copy = "Completed" => requests[r].file \in uploaded
(* A complete saves only what had content.                                 *)
SizeOK(r) == requests[r].at = "save" /\ requests[r].op = "complete" =>
    requests[r].file \in uploaded
(* The operation tells the steps of a request.                             *)
OpsOK(r) == /\ requests[r].at \in {"unique", "saveNew", "url", "grantSelf"} => requests[r].op = "start"
            /\ requests[r].at \in {"read", "size", "contents", "save"} => requests[r].op \in FileOps
            /\ requests[r].at = "contents" => requests[r].op = "delete"
            /\ requests[r].at = "size" => requests[r].op = "complete"

IInv == /\ TypeOK /\ contents \subseteq uploaded /\ CompletedWasUploaded
        /\ \A r \in Requests : OpsOK(r) /\ CopyOK(r) /\ SizeOK(r)

(* A start has a file of its own, of which nobody is the uploader yet, but *)
(* for files that were picked twice.                                       *)
Picking(r) == requests[r].at \in {"saveNew", "url", "grantSelf"}
FreshOK(r) == /\ requests[r].at = "saveNew" /\ requests[r].file \notin doubled =>
                   ~Exists(requests[r].file)
              /\ requests[r].at \in {"url", "grantSelf"} => Exists(requests[r].file)
              /\ Picking(r) /\ requests[r].file \notin doubled =>
                   \A u \in Users : <<requests[r].file, u>> \notin uploaders
StartsApart == \A r, s \in Requests :
    Picking(r) /\ Picking(s) /\ requests[r].file = requests[s].file /\ r # s =>
      requests[r].file \in doubled
UInv == /\ OneUploader /\ StartsApart
        /\ \A p \in uploaders : Exists(p[1])
        /\ \A r \in Requests : FreshOK(r)

(* A request on a file that is not disturbed is alone.                     *)
Alone(r) == Busy(r) /\ requests[r].file \notin disturbed =>
    \A s \in Requests : Busy(s) /\ requests[s].file = requests[r].file => s = r
SaveOK(r) == requests[r].at = "save" /\ requests[r].file \notin disturbed =>
    /\ requests[r].op = "complete" => requests[r].file \in contents
    /\ requests[r].op = "change" => requests[r].copy = rows[requests[r].file]
Deleting(f) == \E r \in Requests :
    requests[r].op = "delete" /\ requests[r].at = "save" /\ requests[r].file = f
KeptOK == \A f \in Ids : f \notin disturbed /\ ~Deleting(f) /\ rows[f] = "Completed" => f \in contents
SInv == (\A r \in Requests : Alone(r) /\ SaveOK(r)) /\ KeptOK
-----------------------------------------------------------------------------
(* What a step of a request, and a step of clients and owner, may be.      *)
StepOf(r) == \/ \E name \in Names, u \in Users : StartCall(r, name, u)
             \/ \E op \in FileOps, f \in Ids, u \in Users : FileCall(r, op, f, u)
             \/ PickId(r) \/ SaveNew(r) \/ GetUploadUrl(r) \/ GrantSelf(r)
             \/ Read(r) \/ GetFileSize(r) \/ DeleteContents(r) \/ Save(r) \/ Lose(r)
AccessStep == UNCHANGED <<rows, Store, requests, Given, disturbed>> /\ access' \subseteq Ids \X Users

LEMMA Cases ==
    ASSUME TypeOK, Next
    PROVE  (\E r \in Requests : StepOf(r)) \/ (\E f \in Ids : Upload(f)) \/ AccessStep
<1>1. ASSUME NEW u \in Users, NEW f \in Ids, Allow(f, u) \/ Restrict(f, u)
      PROVE  AccessStep
  BY <1>1 DEF Allow, Restrict, Grants, AccessStep, TypeOK
<1>2. ASSUME NEW u \in Users, NEW name \in Names, AllowPattern(name, u) \/ RestrictPattern(name, u)
      PROVE  AccessStep
  BY <1>2 DEF AllowPattern, RestrictPattern, Grants, Matching, AccessStep, TypeOK
<1> QED  BY <1>1, <1>2 DEF Next, StepOf

LEMMA IdsPairs == \A name \in Names, n \in Copies : <<name, n>> \in Ids
BY DEF Ids

LEMMA BegunOK ==
    ASSUME NEW op \in FileOps \cup {"none", "start"}, NEW step \in {"idle", "unique", "read"},
           NEW f \in Ids, NEW u \in Users
    PROVE  Begun(op, step, f, u) \in Request
BY DEF Begun, Request, Status

LEMMA IdleOK == Idle \in Request
<1>1. AnyFile \in Ids
  BY ConstantsAssumption DEF AnyFile, Ids, Copies
<1> QED  BY <1>1, BegunOK, ConstantsAssumption DEF Idle

(* Every step keeps the types.                                             *)
LEMMA TypeStep ==
    ASSUME TypeOK, \A r \in Requests : OpsOK(r), [Next]_vars
    PROVE  TypeOK'
<1> USE DEF Tables, Store, Given
<1>1. ASSUME NEW r \in Requests, StepOf(r)
      PROVE  TypeOK'
  <2> DEFINE q == requests[r]
  <2>0. q \in Request /\ q.file \in Ids /\ q.user \in Users /\ q.op \in FileOps \cup {"none", "start"}
    BY DEF TypeOK, Request
  <2>1. disturbed' \subseteq Ids /\ requests' \in [Requests -> Request] => TypeOK'
    <3> SUFFICES ASSUME disturbed' \subseteq Ids, requests' \in [Requests -> Request]
                 PROVE  TypeOK'
      OBVIOUS
    <3>1. rows' \in [Ids -> Status]
      <4>1. Written(q.op, q.copy) \in Status
        BY <2>0 DEF Written, Request, Status
      <4>2. SaveNew(r) => rows' \in [Ids -> Status]
        BY <2>0 DEF SaveNew, TypeOK, Status
      <4>3. Save(r) => rows' \in [Ids -> Status]
        BY <4>1, <2>0 DEF Save, TypeOK
      <4>4. SaveNew(r) \/ Save(r) \/ rows' = rows
        BY <1>1 DEF StepOf, StartCall, FileCall, PickId, SaveNew, GetUploadUrl,
           GrantSelf, Read, GetFileSize, DeleteContents, Save, Lose
      <4> QED  BY <4>2, <4>3, <4>4 DEF TypeOK
    <3>2. access' \subseteq Ids \X Users /\ uploaders' \subseteq Ids \X Users
      <4>1. CASE GrantSelf(r)
        <5>1. <<q.file, q.user>> \in Ids \X Users
          BY <2>0
        <5>2. access' \subseteq access \cup {<<q.file, q.user>>}
          BY <4>1 DEF GrantSelf, Grants
        <5>3. uploaders' \subseteq uploaders \cup {<<q.file, q.user>>}
          BY <4>1 DEF GrantSelf
        <5> QED  BY <5>1, <5>2, <5>3 DEF TypeOK
      <4>2. GrantSelf(r) \/ (access' = access /\ uploaders' = uploaders)
        BY <1>1 DEF StepOf, StartCall, FileCall, PickId, SaveNew, GetUploadUrl,
           Read, GetFileSize, DeleteContents, Save, Lose
      <4> QED  BY <4>1, <4>2 DEF TypeOK
    <3>3. contents' \subseteq Ids /\ urls' \subseteq Ids /\ uploaded' \subseteq Ids
      BY <1>1, <2>0 DEF StepOf, StartCall, FileCall, PickId, SaveNew, GetUploadUrl,
         GrantSelf, Read, GetFileSize, DeleteContents, Save, Lose, TypeOK
    <3>4. doubled' \subseteq Ids
      <4>1. CASE PickId(r)
        <5>1. PICK n \in Copies : doubled' \subseteq doubled \cup {<<q.file[1], n>>}
          BY <4>1 DEF PickId
        <5>2. <<q.file[1], n>> \in Ids
          BY <2>0 DEF Ids
        <5> QED  BY <5>1, <5>2 DEF TypeOK
      <4>2. PickId(r) \/ doubled' = doubled
        BY <1>1 DEF StepOf, StartCall, FileCall, SaveNew, GetUploadUrl, GrantSelf, Read,
           GetFileSize, DeleteContents, Save, Lose
      <4> QED  BY <4>1, <4>2 DEF TypeOK
    <3> QED  BY <3>1, <3>2, <3>3, <3>4 DEF TypeOK
  <2>2. \A x : x \in Request => [requests EXCEPT ![r] = x] \in [Requests -> Request]
    BY DEF TypeOK
  <2>3. End(r) => requests' \in [Requests -> Request]
    BY <2>2, IdleOK DEF End, Become
  <2>4. \A step \in {"unique", "saveNew", "url", "grantSelf", "size", "contents", "save"} :
           Goto(r, step) => requests' \in [Requests -> Request]
    <3> TAKE step \in {"unique", "saveNew", "url", "grantSelf", "size", "contents", "save"}
    <3>1. [q EXCEPT !.at = step] \in Request
      BY <2>0 DEF Request
    <3> QED  BY <3>1, <2>2 DEF Goto, Become
  <2> HIDE DEF q
  <2>5. CASE \E name \in Names, u \in Users : StartCall(r, name, u)
    <3> PICK name \in Names, u \in Users : StartCall(r, name, u)  BY <2>5
    <3>1. <<name, 0>> \in Ids
      BY ConstantsAssumption DEF Ids, Copies
    <3>2. Begun("start", "unique", <<name, 0>>, u) \in Request
      BY <3>1, BegunOK
    <3> QED  BY <3>2, <2>1, <2>2 DEF StartCall, Become, TypeOK
  <2>6. CASE \E op \in FileOps, f \in Ids, u \in Users : FileCall(r, op, f, u)
    <3> PICK op \in FileOps, f \in Ids, u \in Users : FileCall(r, op, f, u)  BY <2>6
    <3>1. Begun(op, "read", f, u) \in Request
      BY BegunOK
    <3> QED  BY <3>1, <2>1, <2>2 DEF FileCall, Become, Touch, TypeOK
  <2>7. CASE PickId(r)
    <3> PICK n \in Copies : /\ Become(r, [q EXCEPT !.at = "saveNew", !.file = <<q.file[1], n>>])
                            /\ Touch(<<q.file[1], n>>)
      BY <2>7 DEF PickId, q
    <3>1. <<q.file[1], n>> \in Ids
      BY <2>0 DEF Ids
    <3>2. [q EXCEPT !.at = "saveNew", !.file = <<q.file[1], n>>] \in Request
      BY <3>1, <2>0 DEF Request
    <3> QED  BY <3>1, <3>2, <2>1, <2>2 DEF Become, Touch, TypeOK
  <2>8. CASE Read(r)
    <3>1. ASSUME requests' # [requests EXCEPT ![r] = Idle]
          PROVE  /\ Become(r, [q EXCEPT !.at = AfterRead[q.op], !.copy = rows[q.file], !.user = owner])
                 /\ Exists(q.file)
      BY <2>8, <3>1 DEF Read, End, Become, q
    <3>2. ASSUME requests' # [requests EXCEPT ![r] = Idle]
          PROVE  [q EXCEPT !.at = AfterRead[q.op], !.copy = rows[q.file], !.user = owner] \in Request
      <4>1. rows[q.file] \in Status
        BY <2>0 DEF TypeOK
      <4>2. q.op \in FileOps => AfterRead[q.op] \in {"size", "contents", "save"}
        BY DEF AfterRead, FileOps
      <4>3. q.op \in FileOps
        BY <2>8 DEF Read, At, OpsOK, q
      <4> QED  BY <4>1, <4>2, <4>3, <2>0, ConstantsAssumption DEF Request
    <3> QED  BY <3>1, <3>2, <2>1, <2>2, <2>3, <2>8 DEF Read, Become, End, TypeOK
  <2>9. CASE SaveNew(r) \/ GetUploadUrl(r) \/ GrantSelf(r) \/ GetFileSize(r)
             \/ DeleteContents(r) \/ Save(r)
    BY <2>9, <2>1, <2>3, <2>4 DEF SaveNew, GetUploadUrl, GrantSelf, GetFileSize, DeleteContents, Save, TypeOK
  <2>10. CASE Lose(r)
    BY <2>10, <2>0, <2>1, <2>3 DEF Lose, TypeOK, q
  <2> QED  BY <1>1, <2>5, <2>6, <2>7, <2>8, <2>9, <2>10 DEF StepOf
<1>2. ASSUME NEW f \in Ids, Upload(f)
      PROVE  TypeOK'
  BY <1>2 DEF Upload, TypeOK
<1>3. CASE AccessStep
  BY <1>3 DEF AccessStep, TypeOK
<1>4. CASE UNCHANGED vars
  BY <1>4 DEF vars, TypeOK
<1> QED  BY <1>1, <1>2, <1>3, <1>4, Cases


(* What getUniqueFileId leaves of a request.                               *)
LEMMA Picked ==
    ASSUME TypeOK, NEW r \in Requests, PickId(r)
    PROVE  /\ requests'[r].at = "saveNew" /\ requests'[r].op = requests[r].op
           /\ requests[r].file[1] \in Names
           /\ \E n \in Copies : /\ IsUnique(requests[r].file[1], n)
                                /\ requests'[r].file = <<requests[r].file[1], n>>
<1> DEFINE q == requests[r]
<1>1. q \in Request
  BY DEF TypeOK
<1>2. PICK n \in Copies :
        /\ IsUnique(q.file[1], n)
        /\ Become(r, [q EXCEPT !.at = "saveNew", !.file = <<q.file[1], n>>])
  BY DEF PickId
<1> HIDE DEF q
<1>3. requests'[r] = [q EXCEPT !.at = "saveNew", !.file = <<q.file[1], n>>]
  BY <1>2 DEF Become, TypeOK
<1>4. requests'[r].at = "saveNew" /\ requests'[r].op = q.op /\ requests'[r].file = <<q.file[1], n>>
  BY <1>1, <1>3 DEF Request
<1>5. q.file[1] \in Names
  BY <1>1 DEF Request, Ids
<1> QED  BY <1>2, <1>4, <1>5 DEF q

LEMMA OpsStep ==
    ASSUME TypeOK, \A r \in Requests : OpsOK(r), [Next]_vars
    PROVE  \A r \in Requests : OpsOK(r)'
<1> SUFFICES ASSUME NEW s \in Requests PROVE OpsOK(s)'  OBVIOUS
<1> DEFINE q == requests[s]
<1>0. q \in Request /\ requests[s] = q
  BY DEF TypeOK
<1>1. ASSUME NEW r \in Requests, StepOf(r)
      PROVE  OpsOK(s)'
  <2>1. requests'[s] = requests[s] => OpsOK(s)'
    BY DEF OpsOK
  <2>2. CASE r # s
    BY <1>1, <2>1, <2>2 DEF StepOf, StartCall, FileCall, PickId, SaveNew, GetUploadUrl, GrantSelf,
       Read, GetFileSize, DeleteContents, Save, Lose, Become, Goto, End, TypeOK
  <2>3. CASE r = s
    <3>1. CASE \E name \in Names, u \in Users : StartCall(s, name, u)
      BY <3>1 DEF StartCall, Become, Begun, OpsOK, TypeOK
    <3>2. CASE \E op \in FileOps, f \in Ids, u \in Users : FileCall(s, op, f, u)
      BY <3>2 DEF FileCall, Become, Begun, OpsOK, TypeOK
    <3>7. CASE PickId(s)
      BY <3>7, <1>0, Picked DEF PickId, At, OpsOK
    <3>3. CASE SaveNew(s) \/ GetUploadUrl(s)
      BY <3>3, <1>0 DEF SaveNew, GetUploadUrl, At, Goto, Become, OpsOK, TypeOK, Request
    <3>4. CASE GrantSelf(s) \/ Save(s) \/ Lose(s)
      BY <3>4 DEF GrantSelf, Save, Lose, End, Become, Idle, Begun, OpsOK, TypeOK
    <3>5. CASE Read(s)
      <4>1. q.op \in FileOps
        BY <3>5 DEF Read, At, OpsOK
      <4>2. CASE End(s)
        BY <4>2 DEF End, Become, Idle, Begun, OpsOK, TypeOK
      <4>3. CASE Become(s, [q EXCEPT !.at = AfterRead[q.op], !.copy = rows[q.file], !.user = owner])
        BY <4>1, <4>3, <1>0 DEF Become, AfterRead, FileOps, OpsOK, TypeOK, Request
      <4> QED  BY <3>5, <4>2, <4>3 DEF Read
    <3>6. CASE GetFileSize(s) \/ DeleteContents(s)
      BY <3>6, <1>0 DEF GetFileSize, DeleteContents, At, Goto, End, Become, Idle, Begun, OpsOK, TypeOK, Request
    <3> QED  BY <1>1, <2>3, <3>1, <3>2, <3>3, <3>4, <3>5, <3>6, <3>7 DEF StepOf
  <2> QED  BY <2>2, <2>3
<1>2. CASE (\E f \in Ids : Upload(f)) \/ AccessStep \/ UNCHANGED vars
  BY <1>2 DEF Upload, AccessStep, vars, OpsOK
<1> QED  BY <1>1, <1>2, Cases

TInv == TypeOK /\ \A r \in Requests : OpsOK(r)

LEMMA Typed == Spec => []TInv
<1>1. Init => TInv
  BY IdleOK DEF Init, TInv, TypeOK, Status, OpsOK, Idle, Begun
<1>2. TInv /\ [Next]_vars => TInv'
  BY TypeStep, OpsStep DEF TInv
<1> QED  BY <1>1, <1>2, PTL DEF Spec

(* Rows, accesses, contents, URLs and requests keep their types: this is   *)
(* so for any number of names, users and requests under way.               *)
THEOREM TypesOK == Spec => []TypeOK
<1>1. TInv => TypeOK
  BY DEF TInv
<1> QED  BY <1>1, Typed, PTL
-----------------------------------------------------------------------------
(* Of a step: a request other than those of r keeps its state, and r's     *)
(* next state is one of these.                                             *)
LEMMA OthersKept ==
    ASSUME TypeOK, NEW r \in Requests, StepOf(r), NEW s \in Requests, s # r
    PROVE  requests'[s] = requests[s]
BY DEF StepOf, StartCall, FileCall, PickId, SaveNew, GetUploadUrl, GrantSelf,
   Read, GetFileSize, DeleteContents, Save, Lose, Become, Goto, End, TypeOK

(* What getById leaves of a request that goes on.                          *)
LEMMA HasRead ==
    ASSUME TypeOK, NEW r \in Requests, OpsOK(r), Read(r), ~End(r)
    PROVE  /\ requests'[r].op = requests[r].op /\ requests'[r].file = requests[r].file
           /\ requests'[r].copy = rows[requests[r].file] /\ Exists(requests[r].file)
           /\ requests'[r].at \in {"size", "save", "contents"}
           /\ requests'[r].at = "save" => requests[r].op = "change"
<1> DEFINE q == requests[r]
<1>1. q \in Request /\ q.op \in FileOps
  BY DEF Read, At, OpsOK, TypeOK
<1>2. /\ requests'[r] = [q EXCEPT !.at = AfterRead[q.op], !.copy = rows[q.file], !.user = owner]
      /\ Exists(q.file)
  BY DEF Read, Become, TypeOK
<1>3. /\ requests'[r].op = q.op /\ requests'[r].file = q.file /\ requests'[r].at = AfterRead[q.op]
      /\ requests'[r].copy = rows[q.file]
  BY <1>1, <1>2 DEF Request
<1> QED  BY <1>1, <1>2, <1>3 DEF AfterRead, FileOps

LEMMA WrittenIs ==
    ASSUME NEW op \in FileOps, NEW copy
    PROVE  /\ Written(op, copy) = "none" => copy = "none"
           /\ Written(op, copy) = "Completed" => op = "complete" \/ copy = "Completed"
           /\ op = "change" => Written(op, copy) = copy
BY DEF Written, FileOps

(* A file that exists stays, and content that has been stays "uploaded".   *)
LEMMA Growing ==
    ASSUME IInv, [Next]_vars
    PROVE  /\ \A f \in Ids : Exists(f) => Exists(f)'
           /\ uploaded \subseteq uploaded' /\ contents' \subseteq uploaded'
<1> USE DEF Tables, Store, Given
<1>1. ASSUME NEW r \in Requests, StepOf(r)
      PROVE  /\ \A f \in Ids : Exists(f) => Exists(f)'
             /\ uploaded \subseteq uploaded' /\ contents' \subseteq uploaded'
  <2>1. uploaded' = uploaded /\ contents' \subseteq contents
    BY <1>1 DEF StepOf, StartCall, FileCall, PickId, SaveNew, GetUploadUrl, GrantSelf,
       Read, GetFileSize, DeleteContents, Save, Lose
  <2>2. SaveNew(r) => \A f \in Ids : Exists(f) => Exists(f)'
    BY DEF SaveNew, Exists, IInv, TypeOK
  <2>3. Save(r) => \A f \in Ids : Exists(f) => Exists(f)'
    <3> SUFFICES ASSUME Save(r), NEW f \in Ids, Exists(f) PROVE Exists(f)'  OBVIOUS
    <3>1. requests[r].op \in FileOps /\ requests[r].copy # "none"
      BY DEF Save, At, IInv, OpsOK, CopyOK
    <3>2. Written(requests[r].op, requests[r].copy) # "none"
      BY <3>1, WrittenIs
    <3> QED  BY <3>2 DEF Save, Exists, IInv, TypeOK
  <2>4. SaveNew(r) \/ Save(r) \/ rows' = rows
    BY <1>1 DEF StepOf, StartCall, FileCall, PickId, SaveNew, GetUploadUrl, GrantSelf,
       Read, GetFileSize, DeleteContents, Save, Lose
  <2> QED  BY <2>1, <2>2, <2>3, <2>4 DEF Exists, IInv
<1>2. CASE (\E f \in Ids : Upload(f)) \/ AccessStep \/ UNCHANGED vars
  BY <1>2 DEF Upload, AccessStep, vars, Exists, IInv
<1> QED  BY <1>1, <1>2, Cases DEF IInv

(* What a request knows of its file stays true.                            *)
LEMMA KnownStep ==
    ASSUME IInv, [Next]_vars
    PROVE  \A s \in Requests : CopyOK(s)' /\ SizeOK(s)'
<1> SUFFICES ASSUME NEW s \in Requests PROVE CopyOK(s)' /\ SizeOK(s)'  OBVIOUS
<1> USE DEF Tables, Store, Given
<1> DEFINE q == requests[s]
<1>0. q \in Request /\ q.file \in Ids
  BY DEF IInv, TypeOK, Request
<1>1. CopyOK(s) /\ SizeOK(s) /\ OpsOK(s) /\ contents \subseteq uploaded
  BY DEF IInv
<1>2. requests'[s] = requests[s] => CopyOK(s)' /\ SizeOK(s)'
  BY <1>0, <1>1, Growing DEF CopyOK, SizeOK, Exists
<1>3. requests'[s].at \notin {"size", "contents", "save"} => CopyOK(s)' /\ SizeOK(s)'
  BY DEF CopyOK, SizeOK
<1>4. ASSUME StepOf(s)
      PROVE  CopyOK(s)' /\ SizeOK(s)'
  <2>1. CASE \E name \in Names, u \in Users : StartCall(s, name, u)
    BY <2>1, <1>3 DEF StartCall, Become, Begun, IInv, TypeOK
  <2>2. CASE \E op \in FileOps, f \in Ids, u \in Users : FileCall(s, op, f, u)
    BY <2>2, <1>3 DEF FileCall, Become, Begun, IInv, TypeOK
  <2>8. CASE PickId(s)
    BY <2>8, <1>3, Picked DEF IInv
  <2>3. CASE SaveNew(s) \/ GetUploadUrl(s)
    BY <2>3, <1>0, <1>3 DEF SaveNew, GetUploadUrl, Goto, Become, IInv, TypeOK, Request
  <2>4. CASE End(s)
    BY <2>4, <1>3 DEF End, Become, Idle, Begun, IInv, TypeOK
  <2>5. CASE Read(s) /\ ~End(s)
    <3>1. /\ requests'[s].file = q.file /\ requests'[s].copy = rows[q.file] /\ requests'[s].op = q.op
          /\ requests'[s].at = "save" => q.op = "change"
          /\ Exists(q.file)
      BY <2>5, <1>1, HasRead DEF IInv
    <3>2. UNCHANGED <<rows, uploaded>>
      BY <2>5 DEF Read
    <3>3. rows[q.file] = "Completed" => q.file \in uploaded
      BY <1>0 DEF IInv, CompletedWasUploaded
    <3> QED  BY <3>1, <3>2, <3>3 DEF CopyOK, SizeOK, Exists
  <2>6. CASE GetFileSize(s) /\ ~End(s)
    <3>1. /\ requests'[s] = [q EXCEPT !.at = "save"] /\ q.at = "size"
          /\ q.file \in uploaded /\ UNCHANGED <<rows, uploaded>>
      BY <2>6, <1>1 DEF GetFileSize, HasContent, At, Goto, Become, IInv, TypeOK
    <3>2. requests'[s].file = q.file /\ requests'[s].copy = q.copy
      BY <3>1, <1>0 DEF Request
    <3> QED  BY <3>1, <3>2, <1>1 DEF CopyOK, SizeOK, Exists
  <2>7. CASE DeleteContents(s)
    <3>1. /\ requests'[s] = [q EXCEPT !.at = "save"] /\ q.at = "contents"
          /\ UNCHANGED <<rows, uploaded>>
      BY <2>7 DEF DeleteContents, At, Goto, Become, IInv, TypeOK
    <3>2. requests'[s].file = q.file /\ requests'[s].copy = q.copy /\ requests'[s].op = q.op
      BY <3>1, <1>0 DEF Request
    <3>3. q.op # "complete"
      BY <3>1, <1>1 DEF OpsOK
    <3> QED  BY <3>1, <3>2, <3>3, <1>1 DEF CopyOK, SizeOK, Exists
  <2> QED  BY <1>4, <2>1, <2>2, <2>3, <2>4, <2>5, <2>6, <2>7, <2>8 DEF StepOf, GrantSelf, Save, Lose
<1>5. ASSUME NEW r \in Requests, StepOf(r), r # s
      PROVE  CopyOK(s)' /\ SizeOK(s)'
  BY <1>5, <1>2, OthersKept DEF IInv
<1>6. CASE (\E f \in Ids : Upload(f)) \/ AccessStep \/ UNCHANGED vars
  BY <1>6, <1>2 DEF Upload, AccessStep, vars
<1> QED  BY <1>4, <1>5, <1>6, Cases DEF IInv

LEMMA CompletedStep ==
    ASSUME IInv, [Next]_vars
    PROVE  CompletedWasUploaded'
<1> USE DEF Tables, Store, Given
<1>1. rows' = rows => CompletedWasUploaded'
  BY Growing DEF CompletedWasUploaded, IInv
<1>2. ASSUME NEW r \in Requests, SaveNew(r)
      PROVE  CompletedWasUploaded'
  BY <1>2 DEF SaveNew, CompletedWasUploaded, IInv, TypeOK
<1>3. ASSUME NEW r \in Requests, Save(r)
      PROVE  CompletedWasUploaded'
  <2>1. /\ requests[r].op \in FileOps /\ uploaded' = uploaded
        /\ requests[r].copy = "Completed" \/ requests[r].op = "complete" => requests[r].file \in uploaded
    BY <1>3 DEF Save, At, IInv, OpsOK, CopyOK, SizeOK
  <2>2. Written(requests[r].op, requests[r].copy) = "Completed" => requests[r].file \in uploaded
    BY <2>1, WrittenIs
  <2> QED  BY <1>3, <2>1, <2>2 DEF Save, CompletedWasUploaded, IInv, TypeOK
<1>4. (\E r \in Requests : SaveNew(r) \/ Save(r)) \/ rows' = rows
  BY Cases DEF StepOf, StartCall, FileCall, PickId, GetUploadUrl, GrantSelf, Read, GetFileSize,
     DeleteContents, Lose, Upload, AccessStep, vars, IInv
<1> QED  BY <1>1, <1>2, <1>3, <1>4

LEMMA Invariant == Spec => []IInv
<1>1. Init => IInv
  BY IdleOK DEF Init, IInv, TypeOK, Status, OpsOK, CopyOK, SizeOK, CompletedWasUploaded, Idle, Begun
<1>2. IInv /\ [Next]_vars => IInv'
  BY TypeStep, OpsStep, KnownStep, Growing, CompletedStep DEF IInv
<1> QED  BY <1>1, <1>2, PTL DEF Spec

(* A file is only ever shown as completed after its content has been in    *)
(* the store, however requests overlap and fail: completeUpload looks at   *)
(* the size, and every other request saves a status that it has read.      *)
THEOREM CompletedUploaded == Spec => []CompletedWasUploaded
<1>1. IInv => CompletedWasUploaded
  BY DEF IInv
<1> QED  BY <1>1, Invariant, PTL
-----------------------------------------------------------------------------
LEMMA PickedFresh ==
    ASSUME Spaced = {}, IInv, NEW name \in Names, NEW n \in Copies, IsUnique(name, n)
    PROVE  ~Exists(<<name, n>>)
<1>1. Similar(name) = Taken(name) /\ Taken(name) \subseteq Copies /\ Copies \subseteq Int
  BY ConstantsAssumption DEF Similar, Taken, Copies
<1>2. n \notin Taken(name)
  BY <1>1 DEF IsUnique
<1> QED  BY <1>2 DEF Taken

(* Which rows come, and which files are picked twice.                      *)
LEMMA NewRows ==
    ASSUME IInv, NEW r \in Requests, StepOf(r), NEW f \in Ids, ~Exists(f), Exists(f)'
    PROVE  SaveNew(r) /\ requests[r].file = f
<1> USE DEF Tables, Store, Given
<1>1. CASE SaveNew(r)
  BY <1>1 DEF SaveNew, Exists, IInv, TypeOK
<1>2. CASE Save(r)
  <2>1. Exists(requests[r].file)
    BY <1>2 DEF Save, At, IInv, CopyOK
  <2> QED  BY <1>2, <2>1 DEF Save, Exists, IInv, TypeOK
<1>3. SaveNew(r) \/ Save(r) \/ rows' = rows
  BY DEF StepOf, StartCall, FileCall, PickId, GetUploadUrl, GrantSelf, Read, GetFileSize,
     DeleteContents, Lose
<1> QED  BY <1>1, <1>2, <1>3 DEF Exists

LEMMA DoubledGrows ==
    ASSUME NEW r \in Requests, StepOf(r)
    PROVE  doubled \subseteq doubled'
BY DEF StepOf, StartCall, FileCall, PickId, SaveNew, GetUploadUrl, GrantSelf, Read, GetFileSize,
   DeleteContents, Save, Lose, Tables, Store, Given

LEMMA NewUploaders ==
    ASSUME NEW r \in Requests, StepOf(r)
    PROVE  \/ uploaders' = uploaders
           \/ /\ GrantSelf(r) /\ rows' = rows
              /\ uploaders' \subseteq uploaders \cup {<<requests[r].file, requests[r].user>>}
BY DEF StepOf, StartCall, FileCall, PickId, SaveNew, GetUploadUrl, GrantSelf, Read, GetFileSize,
   DeleteContents, Save, Lose, Tables, Store, Given

(* How a request comes to have a file picked, or keeps it.                 *)
LEMMA PickingStep ==
    ASSUME IInv, NEW r \in Requests, StepOf(r), Picking(r)'
    PROVE  \/ PickId(r) /\ requests'[r].at = "saveNew"
           \/ /\ SaveNew(r) \/ GetUploadUrl(r)
              /\ requests'[r].file = requests[r].file /\ requests'[r].at \in {"url", "grantSelf"}
<1>0. requests[r] \in Request /\ OpsOK(r)
  BY DEF IInv, TypeOK
<1>1. CASE \E name \in Names, u \in Users : StartCall(r, name, u)
  BY <1>1 DEF StartCall, Become, Begun, Picking, IInv, TypeOK
<1>2. CASE \E op \in FileOps, f \in Ids, u \in Users : FileCall(r, op, f, u)
  BY <1>2 DEF FileCall, Become, Begun, Picking, IInv, TypeOK
<1>3. CASE End(r)
  BY <1>3 DEF End, Become, Idle, Begun, Picking, IInv, TypeOK
<1>4. CASE Read(r) /\ ~End(r)
  BY <1>0, <1>4, HasRead DEF Picking, IInv
<1>5. CASE (GetFileSize(r) /\ ~End(r)) \/ DeleteContents(r)
  BY <1>0, <1>5 DEF GetFileSize, DeleteContents, Goto, Become, Request, Picking, IInv, TypeOK
<1>6. CASE PickId(r)
  BY <1>6, Picked DEF IInv
<1>7. CASE SaveNew(r) \/ GetUploadUrl(r)
  BY <1>0, <1>7 DEF SaveNew, GetUploadUrl, Goto, Become, Request, IInv, TypeOK
<1> QED  BY <1>1, <1>2, <1>3, <1>4, <1>5, <1>6, <1>7 DEF StepOf, GrantSelf, Save, Lose

(* A start that picks a file that another has picked doubles it.           *)
LEMMA PickDoubles ==
    ASSUME Spaced = {}, IInv, UInv, NEW r \in Requests, PickId(r)
    PROVE  /\ requests'[r].file \in Ids /\ ~Exists(requests'[r].file)
           /\ rows' = rows /\ uploaders' = uploaders
           /\ \A s \in Requests : Picking(s) /\ requests[s].file = requests'[r].file =>
                requests'[r].file \in doubled'
<1> DEFINE q == requests[r]
           other(g) == \E s \in Requests : At(s, "saveNew") /\ requests[s].file = g
<1>1. q \in Request /\ q.file[1] \in Names
  BY Picked DEF IInv, TypeOK
<1>2. PICK n \in Copies :
        /\ IsUnique(q.file[1], n)
        /\ Become(r, [q EXCEPT !.at = "saveNew", !.file = <<q.file[1], n>>])
        /\ doubled' = IF other(<<q.file[1], n>>) THEN doubled \cup {<<q.file[1], n>>} ELSE doubled
  BY DEF PickId
<1>3. rows' = rows /\ uploaders' = uploaders
  BY DEF PickId, Tables
<1> DEFINE f == <<q.file[1], n>>
<1>4. f \in Ids /\ ~Exists(f)
  BY <1>1, <1>2, PickedFresh DEF Ids
<1>5. other(f) => f \in doubled'
  BY <1>2
<1>6. requests'[r] = [q EXCEPT !.at = "saveNew", !.file = f]
  BY <1>2 DEF Become, IInv, TypeOK
<1>7. requests'[r].file = f
  <2> HIDE DEF f, q
  <2> QED  BY <1>1, <1>6 DEF Request
<1>8. ASSUME NEW s \in Requests, Picking(s), requests[s].file = f
      PROVE  f \in doubled'
  <2>1. FreshOK(s)
    BY DEF UInv
  <2>2. requests[s].at = "saveNew"
    BY <1>4, <1>8, <2>1 DEF Picking, FreshOK
  <2> QED  BY <1>5, <1>8, <2>2 DEF At
<1> HIDE DEF f, q
<1> QED  BY <1>3, <1>4, <1>7, <1>8

LEMMA UniqueStep ==
    ASSUME Spaced = {}, IInv, UInv, [Next]_vars
    PROVE  UInv'
<1>1. ASSUME NEW r \in Requests, StepOf(r)
      PROVE  UInv'
  <2>0. /\ requests[r] \in Request /\ requests[r].file \in Ids /\ FreshOK(r)
        /\ requests[r].user \in Users /\ uploaders \subseteq Ids \X Users
    BY DEF IInv, TypeOK, UInv, Request
  <2>1. \A s \in Requests : s # r => requests'[s] = requests[s]
    BY <1>1, OthersKept DEF IInv
  <2>2. \A f \in Ids : Exists(f) => Exists(f)'
    BY Growing
  <2>3. doubled \subseteq doubled'
    BY <1>1, DoubledGrows
  <2>4. \A s \in Requests : requests[s].file \in Ids
    BY DEF IInv, TypeOK, Request
  <2>5. OneUploader'
    <3>1. CASE GrantSelf(r)
      <4>1. requests[r].file \in doubled \/ \A p \in uploaders : p[1] # requests[r].file
        BY <3>1, <2>0 DEF GrantSelf, At, FreshOK, Picking
      <4> QED  BY <1>1, <4>1, <2>3, NewUploaders DEF OneUploader, UInv
    <3>2. CASE uploaders' = uploaders
      BY <3>2, <2>3 DEF OneUploader, UInv
    <3> QED  BY <1>1, <3>1, <3>2, NewUploaders
  <2>6. \A p \in uploaders' : Exists(p[1])'
    <3>1. \A p \in uploaders : p[1] \in Ids /\ Exists(p[1])
      BY <2>0 DEF UInv
    <3>2. CASE GrantSelf(r)
      <4>1. Exists(requests[r].file)
        BY <3>2, <2>0 DEF GrantSelf, At, FreshOK
      <4> QED  BY <1>1, <2>0, <2>2, <3>1, <4>1, NewUploaders
    <3> QED  BY <1>1, <2>2, <3>1, <3>2, NewUploaders
  <2>7. StartsApart'
    <3> SUFFICES ASSUME NEW s \in Requests, NEW t \in Requests, s # t, Picking(s)', Picking(t)',
                        requests'[s].file = requests'[t].file
                 PROVE  requests'[s].file \in doubled'
      BY DEF StartsApart
    <3>1. ASSUME NEW o \in Requests, o # r, Picking(o)', Picking(r)',
                 requests'[o].file = requests'[r].file
          PROVE  requests'[r].file \in doubled'
      <4>1. Picking(o) /\ requests'[o].file = requests[o].file
        BY <2>1, <3>1 DEF Picking
      <4>2. CASE PickId(r)
        BY <3>1, <4>1, <4>2, PickDoubles
      <4>3. CASE SaveNew(r) \/ GetUploadUrl(r)
        <5>1. Picking(r)
          BY <4>3 DEF SaveNew, GetUploadUrl, At, Picking
        <5>2. requests'[r].file = requests[r].file
          BY <1>1, <3>1, <4>3, PickingStep DEF PickId, SaveNew, GetUploadUrl, At
        <5> QED  BY <2>3, <3>1, <4>1, <5>1, <5>2 DEF StartsApart, UInv
      <4> QED  BY <1>1, <3>1, <4>2, <4>3, PickingStep
    <3>2. CASE s = r
      BY <3>1, <3>2
    <3>3. CASE t = r
      BY <3>1, <3>3
    <3>4. CASE s # r /\ t # r
      BY <2>1, <2>3, <3>4 DEF StartsApart, Picking, UInv
    <3> QED  BY <3>2, <3>3, <3>4
  <2>8. ASSUME NEW s \in Requests
        PROVE  FreshOK(s)'
    <3>1. CASE s # r
      <4> DEFINE f == requests[s].file
      <4>1. requests'[s] = requests[s] /\ f \in Ids /\ FreshOK(s)
        BY <2>1, <2>4, <3>1 DEF UInv
      <4>2. requests[s].at = "saveNew" /\ f \notin doubled' => ~Exists(f)'
        <5> SUFFICES ASSUME requests[s].at = "saveNew", f \notin doubled', Exists(f)'
                     PROVE  FALSE
          OBVIOUS
        <5>1. ~Exists(f)
          BY <2>3, <4>1 DEF FreshOK
        <5>2. SaveNew(r) /\ requests[r].file = f
          BY <1>1, <4>1, <5>1, NewRows
        <5> QED  BY <2>3, <3>1, <5>2 DEF SaveNew, At, Picking, StartsApart, UInv
      <4>3. requests[s].at \in {"url", "grantSelf"} => Exists(f)'
        BY <2>2, <4>1 DEF FreshOK
      <4>4. ASSUME Picking(s), f \notin doubled', NEW u \in Users
            PROVE  <<f, u>> \notin uploaders'
        <5>1. <<f, u>> \notin uploaders
          BY <2>3, <4>1, <4>4 DEF FreshOK
        <5>2. GrantSelf(r) => requests[r].file # f
          BY <2>3, <3>1, <4>4 DEF GrantSelf, At, Picking, StartsApart, UInv
        <5> QED  BY <1>1, <5>1, <5>2, NewUploaders
      <4> QED  BY <4>1, <4>2, <4>3, <4>4 DEF FreshOK, Picking, Exists
    <3>2. CASE s = r /\ ~Picking(r)'
      BY <3>2 DEF FreshOK, Picking
    <3>3. CASE s = r /\ PickId(r)
      <4>1. requests'[r].at = "saveNew"
        BY <3>3, Picked DEF IInv
      <4>2. /\ ~Exists(requests'[r].file) /\ rows' = rows
            /\ \A u \in Users : <<requests'[r].file, u>> \notin uploaders'
        BY <3>3, PickDoubles DEF UInv
      <4> QED  BY <3>3, <4>1, <4>2 DEF FreshOK, Picking, Exists
    <3>4. CASE s = r /\ Picking(r)' /\ (SaveNew(r) \/ GetUploadUrl(r))
      <4>1. /\ requests'[r].file = requests[r].file /\ requests'[r].at \in {"url", "grantSelf"}
            /\ Picking(r)
        BY <1>1, <3>4, PickingStep DEF PickId, SaveNew, GetUploadUrl, At, Picking
      <4>2. Exists(requests[r].file)'
        <5>1. CASE SaveNew(r)
          BY <4>1, <5>1, <2>0 DEF SaveNew, Exists, IInv, TypeOK
        <5>2. CASE GetUploadUrl(r)
          BY <4>1, <5>2, <2>0 DEF GetUploadUrl, At, FreshOK, Exists, Tables
        <5> QED  BY <3>4, <5>1, <5>2
      <4>3. uploaders' = uploaders
        BY <3>4 DEF SaveNew, GetUploadUrl, Given
      <4> QED  BY <2>0, <2>3, <3>4, <4>1, <4>2, <4>3 DEF FreshOK, Picking, Exists
    <3> QED  BY <1>1, <3>1, <3>2, <3>3, <3>4, PickingStep
  <2> QED  BY <2>5, <2>6, <2>7, <2>8 DEF UInv
<1>2. CASE (\E f \in Ids : Upload(f)) \/ AccessStep \/ UNCHANGED vars
  <2>1. UNCHANGED <<rows, requests, uploaders, doubled>>
    BY <1>2 DEF Upload, AccessStep, vars, Tables, Given
  <2> QED  BY <2>1 DEF UInv, StartsApart, OneUploader, FreshOK, Picking, Exists
<1> QED  BY <1>1, <1>2, Cases DEF IInv

(* No two clients are given one file to upload if no name has a space and  *)
(* they did not both pick it before either made its row: the id that       *)
(* getUniqueFileId finds is nobody's.                                      *)
THEOREM UploadersApart ==
    ASSUME Spaced = {}
    PROVE  Spec => []OneUploader
<1>1. Init => UInv
  BY DEF Init, UInv, StartsApart, OneUploader, FreshOK, Picking, Idle, Begun
<1>2. UInv /\ IInv /\ [Next]_vars => UInv'
  BY UniqueStep
<1>3. UInv => OneUploader
  BY DEF UInv
<1> QED  BY <1>1, <1>2, <1>3, Invariant, PTL DEF Spec
-----------------------------------------------------------------------------
(* A step of r other than the begin of work on a file: who works on what,  *)
(* and what is disturbed.                                                  *)
LEMMA WorkStep ==
    ASSUME IInv, NEW r \in Requests, StepOf(r)
    PROVE  /\ disturbed \subseteq disturbed'
           /\ \/ ~Busy(r)'
              \/ Busy(r) /\ requests'[r].file = requests[r].file
              \/ Working(requests'[r].file) => requests'[r].file \in disturbed'
<1>0. requests[r] \in Request /\ OpsOK(r)
  BY DEF IInv, TypeOK
<1>1. disturbed \subseteq disturbed'
  BY DEF StepOf, StartCall, FileCall, PickId, SaveNew, GetUploadUrl, GrantSelf, Read, GetFileSize,
     DeleteContents, Save, Lose, Touch
<1>2. CASE \E name \in Names, u \in Users : StartCall(r, name, u)
  BY <1>1, <1>2 DEF StartCall, Become, Begun, Busy, IInv, TypeOK
<1>3. CASE \E op \in FileOps, f \in Ids, u \in Users : FileCall(r, op, f, u)
  <2> PICK op \in FileOps, f \in Ids, u \in Users : FileCall(r, op, f, u)  BY <1>3
  <2>1. requests'[r].file = f
    BY DEF FileCall, Become, Begun, IInv, TypeOK
  <2> QED  BY <1>1, <2>1 DEF FileCall, Touch
<1>4. CASE PickId(r)
  <2>1. PICK n \in Copies :
          /\ Become(r, [requests[r] EXCEPT !.at = "saveNew", !.file = <<requests[r].file[1], n>>])
          /\ Touch(<<requests[r].file[1], n>>)
    BY <1>4 DEF PickId
  <2> DEFINE q == requests[r]
             f == <<requests[r].file[1], n>>
  <2>2. requests'[r] = [q EXCEPT !.at = "saveNew", !.file = f] /\ q \in Request
    BY <2>1, <1>0 DEF Become, IInv, TypeOK
  <2>3. Touch(f)
    BY <2>1
  <2> HIDE DEF q, f
  <2>4. requests'[r].file = f
    BY <2>2 DEF Request
  <2> QED  BY <1>1, <2>3, <2>4 DEF Touch
<1>5. CASE End(r)
  BY <1>1, <1>5 DEF End, Become, Idle, Begun, Busy, IInv, TypeOK
<1>6. CASE Read(r) /\ ~End(r)
  BY <1>0, <1>1, <1>6, HasRead DEF Read, At, Busy, IInv
<1>7. CASE SaveNew(r) \/ GetUploadUrl(r) \/ (GetFileSize(r) /\ ~End(r)) \/ DeleteContents(r)
  BY <1>0, <1>1, <1>7 DEF SaveNew, GetUploadUrl, GetFileSize, DeleteContents, At, Goto, Become, Busy,
     Request, IInv, TypeOK
<1> QED  BY <1>2, <1>3, <1>4, <1>5, <1>6, <1>7 DEF StepOf, GrantSelf, Save, Lose

LEMMA AloneStep ==
    ASSUME IInv, SInv, [Next]_vars
    PROVE  \A s \in Requests : Alone(s)'
<1> SUFFICES ASSUME NEW s \in Requests, NEW t \in Requests,
                    Busy(s)', requests'[s].file \notin disturbed',
                    Busy(t)', requests'[t].file = requests'[s].file
             PROVE  s = t
  BY DEF Alone
<1>1. ASSUME NEW r \in Requests, StepOf(r)
      PROVE  s = t
  <2>1. disturbed \subseteq disturbed'
    BY <1>1, WorkStep
  <2>2. \A p \in Requests : p # r => requests'[p] = requests[p]
    BY <1>1, OthersKept DEF IInv
  <2>3. ASSUME NEW p \in Requests, NEW o \in Requests, p # r, Busy(p)', Busy(o)',
               requests'[o].file = requests'[p].file, requests'[p].file \notin disturbed'
        PROVE  p = o
    <3>1. Busy(p) /\ requests'[p].file = requests[p].file
      BY <2>2, <2>3 DEF Busy
    <3>2. Alone(p) /\ requests[p].file \notin disturbed
      BY <2>1, <2>3, <3>1 DEF SInv
    <3>3. CASE o # r
      <4>1. Busy(o) /\ requests[o].file = requests[p].file
        BY <2>2, <2>3, <3>1, <3>3 DEF Busy
      <4> QED  BY <3>1, <3>2, <4>1 DEF Alone
    <3>4. CASE o = r
      <4>1. Working(requests'[r].file)
        BY <2>3, <3>1, <3>4 DEF Working
      <4>2. Busy(r) /\ requests'[r].file = requests[r].file
        BY <1>1, <2>3, <3>4, <4>1, WorkStep
      <4> QED  BY <2>3, <3>1, <3>2, <3>4, <4>2 DEF Alone
    <3> QED  BY <3>3, <3>4
  <2>4. CASE s # r
    BY <2>3, <2>4
  <2>5. CASE t # r
    BY <2>3, <2>5
  <2> QED  BY <2>4, <2>5
<1>2. CASE (\E f \in Ids : Upload(f)) \/ AccessStep \/ UNCHANGED vars
  <2>1. requests' = requests /\ disturbed' = disturbed
    BY <1>2 DEF Upload, AccessStep, vars
  <2> QED  BY <2>1 DEF Busy, Alone, SInv
<1> QED  BY <1>1, <1>2, Cases DEF IInv

(* Of a request that is alone with its file, another's step leaves the row *)
(* and the content of the file alone.                                      *)
LEMMA Undisturbed ==
    ASSUME IInv, SInv, NEW r \in Requests, StepOf(r), NEW f \in Ids, f \notin disturbed,
           ~(Busy(r) /\ requests[r].file = f)
    PROVE  rows'[f] = rows[f] /\ (f \in contents => f \in contents')
<1>1. CASE SaveNew(r) \/ Save(r)
  <2>1. Busy(r) /\ contents' = contents
    BY <1>1 DEF SaveNew, Save, At, Busy, Store
  <2> QED  BY <1>1, <2>1 DEF SaveNew, Save, IInv, TypeOK
<1>2. CASE DeleteContents(r)
  BY <1>2 DEF DeleteContents, At, Busy, Tables
<1> QED  BY <1>1, <1>2 DEF StepOf, StartCall, FileCall, PickId, GetUploadUrl, GrantSelf, Read,
         GetFileSize, Lose, Tables, Store

LEMMA SaveOKStep ==
    ASSUME IInv, SInv, [Next]_vars
    PROVE  \A s \in Requests : SaveOK(s)'
<1> SUFFICES ASSUME NEW s \in Requests PROVE SaveOK(s)'  OBVIOUS
<1>0. requests[s] \in Request /\ requests[s].file \in Ids /\ SaveOK(s) /\ Alone(s) /\ OpsOK(s)
  BY DEF SInv, IInv, TypeOK, Request
<1>1. requests'[s].at # "save" => SaveOK(s)'
  BY DEF SaveOK
<1>2. ASSUME NEW r \in Requests, StepOf(r), r # s
      PROVE  SaveOK(s)'
  <2>1. requests'[s] = requests[s] /\ disturbed \subseteq disturbed'
    BY <1>2, OthersKept, WorkStep DEF IInv
  <2>2. CASE requests[s].at = "save" /\ requests[s].file \notin disturbed
    <3>1. ~(Busy(r) /\ requests[r].file = requests[s].file)
      BY <1>0, <1>2, <2>2 DEF Alone, Busy
    <3>2. /\ rows'[requests[s].file] = rows[requests[s].file]
          /\ requests[s].file \in contents => requests[s].file \in contents'
      BY <1>0, <1>2, <2>2, <3>1, Undisturbed
    <3> QED  BY <1>0, <2>1, <3>2 DEF SaveOK
  <2> QED  BY <2>1, <2>2 DEF SaveOK
<1>3. ASSUME StepOf(s)
      PROVE  SaveOK(s)'
  <2>1. CASE \E name \in Names, u \in Users : StartCall(s, name, u)
    BY <2>1, <1>1 DEF StartCall, Become, Begun, IInv, TypeOK
  <2>2. CASE \E op \in FileOps, f \in Ids, u \in Users : FileCall(s, op, f, u)
    BY <2>2, <1>1 DEF FileCall, Become, Begun, IInv, TypeOK
  <2>3. CASE PickId(s)
    BY <2>3, <1>1, Picked DEF IInv
  <2>4. CASE SaveNew(s) \/ GetUploadUrl(s)
    BY <2>4, <1>0, <1>1 DEF SaveNew, GetUploadUrl, Goto, Become, IInv, TypeOK, Request
  <2>5. CASE End(s)
    BY <2>5, <1>1 DEF End, Become, Idle, Begun, IInv, TypeOK
  <2>6. CASE Read(s) /\ ~End(s)
    <3>1. rows' = rows
      BY <2>6 DEF Read, Tables
    <3> QED  BY <2>6, <3>1, <1>0, HasRead DEF SaveOK, IInv
  <2>7. CASE GetFileSize(s) /\ ~End(s)
    <3>1. requests[s].op = "complete" /\ requests[s].file \in contents /\ contents' = contents
      BY <2>7, <1>0 DEF GetFileSize, HasContent, At, OpsOK, Store
    <3>2. requests'[s].file = requests[s].file /\ requests'[s].op = requests[s].op
      BY <2>7, <1>0 DEF GetFileSize, Goto, Become, IInv, TypeOK, Request
    <3> QED  BY <3>1, <3>2 DEF SaveOK
  <2>8. CASE DeleteContents(s)
    <3>1. requests'[s].op = "delete"
      BY <2>8, <1>0 DEF DeleteContents, At, OpsOK, Goto, Become, IInv, TypeOK, Request
    <3> QED  BY <3>1 DEF SaveOK
  <2> QED  BY <1>3, <2>1, <2>2, <2>3, <2>4, <2>5, <2>6, <2>7, <2>8 DEF StepOf, GrantSelf, Save, Lose
<1>4. CASE (\E f \in Ids : Upload(f)) \/ AccessStep \/ UNCHANGED vars
  <2>1. requests' = requests /\ disturbed' = disturbed /\ rows' = rows /\ contents \subseteq contents'
    BY <1>4 DEF Upload, AccessStep, vars, Tables, Store
  <2> QED  BY <2>1, <1>0 DEF SaveOK
<1> QED  BY <1>2, <1>3, <1>4, Cases DEF IInv

LEMMA KeptStep ==
    ASSUME IInv, SInv, [Next]_vars
    PROVE  KeptOK'
<1> SUFFICES ASSUME NEW f \in Ids, f \notin disturbed', ~Deleting(f)', rows'[f] = "Completed"
             PROVE  f \in contents'
  BY DEF KeptOK
<1>1. ASSUME NEW r \in Requests, StepOf(r)
      PROVE  f \in contents'
  <2>0. /\ requests[r] \in Request /\ requests[r].file \in Ids /\ OpsOK(r) /\ Alone(r) /\ SaveOK(r)
        /\ f \notin disturbed
    BY <1>1, WorkStep DEF SInv, IInv, TypeOK, Request
  <2>1. \A p \in Requests : p # r => requests'[p] = requests[p]
    BY <1>1, OthersKept DEF IInv
  <2>2. CASE ~(Busy(r) /\ requests[r].file = f)
    <3>1. rows[f] = "Completed" /\ (f \in contents => f \in contents')
      BY <1>1, <2>0, <2>2, Undisturbed
    <3>2. ~Deleting(f)
      <4> SUFFICES ASSUME NEW p \in Requests, requests[p].op = "delete", requests[p].at = "save",
                          requests[p].file = f
                   PROVE  FALSE
        BY DEF Deleting
      <4>1. p # r
        BY <2>2 DEF Busy
      <4> QED  BY <4>1, <2>1 DEF Deleting
    <3> QED  BY <2>0, <3>1, <3>2 DEF KeptOK, SInv
  <2>3. CASE Busy(r) /\ requests[r].file = f
    <3>1. ASSUME requests[r].op # "delete" \/ requests[r].at # "save"
          PROVE  ~Deleting(f)
      BY <2>0, <2>3, <3>1 DEF Deleting, Alone, Busy
    <3>2. CASE Save(r)
      <4>1. /\ requests[r].at = "save" /\ requests[r].op \in FileOps /\ contents' = contents
            /\ rows'[f] = Written(requests[r].op, requests[r].copy)
        BY <3>2, <2>0, <2>3 DEF Save, At, OpsOK, Store, IInv, TypeOK
      <4>2. CASE requests[r].op = "complete"
        BY <4>1, <4>2, <2>0, <2>3 DEF SaveOK
      <4>3. CASE requests[r].op = "change"
        <5>1. rows[f] = "Completed"
          BY <4>1, <4>3, <2>0, <2>3, WrittenIs DEF SaveOK
        <5> QED  BY <5>1, <4>1, <4>3, <3>1, <2>0 DEF KeptOK, SInv
      <4>4. requests[r].op # "delete"
        BY <4>1 DEF Written
      <4> QED  BY <4>1, <4>2, <4>3, <4>4 DEF FileOps
    <3>3. CASE DeleteContents(r)
      <4>1. requests'[r].op = "delete" /\ requests'[r].at = "save" /\ requests'[r].file = f
        BY <3>3, <2>0, <2>3 DEF DeleteContents, At, OpsOK, Goto, Become, IInv, TypeOK, Request
      <4> QED  BY <4>1 DEF Deleting
    <3>4. CASE Lose(r)
      BY <3>4, <2>3 DEF Lose
    <3>5. CASE SaveNew(r)
      BY <3>5, <2>0, <2>3 DEF SaveNew, IInv, TypeOK
    <3>6. CASE GetUploadUrl(r) \/ GrantSelf(r) \/ Read(r) \/ GetFileSize(r) \/ PickId(r)
      <4>1. rows' = rows /\ contents' = contents /\ requests[r].at # "save"
        BY <3>6 DEF GetUploadUrl, GrantSelf, Read, GetFileSize, PickId, At, Tables, Store
      <4> QED  BY <4>1, <3>1, <2>0 DEF KeptOK, SInv
    <3>7. CASE \/ \E name \in Names, u \in Users : StartCall(r, name, u)
               \/ \E op \in FileOps, g \in Ids, u \in Users : FileCall(r, op, g, u)
      BY <3>7, <2>3 DEF StartCall, FileCall, At, Busy
    <3> QED  BY <1>1, <3>2, <3>3, <3>4, <3>5, <3>6, <3>7 DEF StepOf
  <2> QED  BY <2>2, <2>3
<1>2. CASE (\E g \in Ids : Upload(g)) \/ AccessStep \/ UNCHANGED vars
  <2>1. requests' = requests /\ disturbed' = disturbed /\ rows' = rows /\ contents \subseteq contents'
    BY <1>2 DEF Upload, AccessStep, vars, Tables, Store
  <2> QED  BY <2>1 DEF KeptOK, Deleting, SInv
<1> QED  BY <1>1, <1>2, Cases DEF IInv

(* A file on which requests worked one at a time, none of them lost, is    *)
(* shown as completed only while its content is in the store.              *)
THEOREM FilesSettled == Spec => []Settled
<1>1. Init => SInv
  BY DEF Init, SInv, Alone, SaveOK, KeptOK, Busy, Idle, Begun
<1>2. SInv /\ IInv /\ [Next]_vars => SInv'
  BY AloneStep, SaveOKStep, KeptStep DEF SInv
<1>3. IInv /\ SInv => Settled
  <2> SUFFICES ASSUME SInv, NEW f \in Ids, rows[f] = "Completed", f \notin disturbed, ~Working(f)
               PROVE  f \in contents
    BY DEF Settled
  <2>1. ~Deleting(f)
    BY DEF Deleting, Working, Busy
  <2> QED  BY <2>1 DEF SInv, KeptOK
<1> QED  BY <1>1, <1>2, <1>3, Invariant, PTL DEF Spec
=============================================================================
