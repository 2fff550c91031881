------------------------------- MODULE Files -------------------------------
(***************************************************************************)
(* The files of one HAT (FileUploadServiceImpl, FileMetadataRepositorySlick*)
(* and the Files controller): a row describes a file and its status, the   *)
(* content is an object of a remote store to which clients write directly, *)
(* with a signed URL that is valid for some time.                          *)
(*                                                                         *)
(* Every call of the database and of the store is a step.  A row is always *)
(* saved whole, from the copy that the request read before.  Of a row the  *)
(* status is kept, so that a request that changes what the file is called, *)
(* its tags or whether it is public saves the status that it read.  The    *)
(* owner stands for the applications that manage files, too.  An id is a   *)
(* name and a number that makes it unique; names that differ are not       *)
(* similar.  Rows of hat_file are never removed: the calls that give and   *)
(* take access read them first, and are single steps.  Of access, that to  *)
(* the content is kept; allowAccess gives none to the owner, who has it.   *)
(***************************************************************************)
EXTENDS Integers

CONSTANTS Names, MaxCopies,  \* ids are names with numbers up to MaxCopies
          Spaced,            \* the names that have a space in them
          Users, owner, Requests

ASSUME ConstantsAssumption ==
    /\ Names # {} /\ MaxCopies \in Nat /\ Spaced \subseteq Names /\ owner \in Users

VARIABLES rows,      \* table hat_file
          access,    \* table hat_file_access
          contents,  \* objects of the store that are not empty
          urls,      \* files with an upload URL that is still valid
          requests,  \* the requests under way
          uploaders, \* history: who was given which file to upload
          doubled,   \* history: files that a start picked before another,
                     \* that had picked them, saved their row
          uploaded,  \* history: files that had content
          disturbed  \* history: files with overlapping or lost requests

vars == <<rows, access, contents, urls, requests, uploaders, doubled, uploaded,
          disturbed>>

Copies == 0..MaxCopies
Ids == Names \X Copies
Status == {"none", "New", "Completed", "Deleted"}
FileOps == {"complete", "change", "delete"}
Request == [op : FileOps \cup {"none", "start"},
            at : {"idle", "unique", "saveNew", "url", "grantSelf", "read", "size",
                  "contents", "save"},
            file : Ids, user : Users, copy : Status]

AnyFile == <<CHOOSE n \in Names : TRUE, 0>>
Begun(op, step, f, u) ==
    [op |-> op, at |-> step, file |-> f, user |-> u, copy |-> "none"]
Idle == Begun("none", "idle", AnyFile, owner)

Init == /\ rows = [f \in Ids |-> "none"]
        /\ access = {}
        /\ contents = {} /\ urls = {} /\ uploaders = {} /\ doubled = {}
        /\ uploaded = {} /\ disturbed = {}
        /\ requests = [r \in Requests |-> Idle]

At(r, step) == requests[r].at = step
Become(r, q) == requests' = [requests EXCEPT ![r] = q]
Goto(r, step) == Become(r, [requests[r] EXCEPT !.at = step])
EndForgetfully(r) == Goto(r, "done")  \* mutant
End(r) == Become(r, Idle)
Exists(f) == rows[f] # "none"
Store == <<contents, urls, uploaded>>
Tables == <<rows, access>>
Given == <<uploaders, doubled>>

(* A request for file f begins: two that overlap disturb it.               *)
Busy(r) == requests[r].at \notin {"idle", "unique"}
Working(f) == \E q \in Requests : Busy(q) /\ requests[q].file = f
Touch(f) == disturbed' = IF Working(f) THEN disturbed \cup {f} ELSE disturbed
-----------------------------------------------------------------------------
(* startUpload.                                                            *)
StartCall(r, name, u) ==
    /\ At(r, "idle")
    /\ Become(r, Begun("start", "unique", <<name, 0>>, u))
    /\ UNCHANGED <<Tables, Store, Given, disturbed>>

Taken(name) == {m \in Copies : Exists(<<name, m>>)}
(* The numbers of the ids like the slug of the name.  A space becomes a    *)
(* hyphen, which slugifyUnique then drops from the id it makes: no id is   *)
(* like the slug of a name with a space.                                   *)
Similar(name) == IF name \in Spaced THEN {} ELSE Taken(name)

IsUniqueLast(name, n) ==  \* mutant: the largest number in use
    IF 0 \notin Similar(name) THEN n = 0
    ELSE n \in Similar(name) /\ \A m \in Similar(name) : m <= n
(* The number after those in use, unless the plain name is free.           *)
IsUnique(name, n) ==
    IF 0 \notin Similar(name) THEN n = 0
    ELSE n - 1 \in Similar(name) /\ \A m \in Similar(name) : m < n

(* getUniqueFileId.                                                        *)
PickId(r) ==
    /\ At(r, "unique")
    /\ \E n \in Copies :
         LET f == <<requests[r].file[1], n>>
         IN /\ IsUnique(f[1], n)
            /\ Become(r, [requests[r] EXCEPT !.at = "saveNew", !.file = f])
            /\ Touch(f)
            /\ doubled' = IF \E q \in Requests : At(q, "saveNew") /\ requests[q].file = f
                            THEN doubled \cup {f} ELSE doubled
    /\ UNCHANGED <<Tables, Store, uploaders>>

SaveNew(r) ==
    /\ At(r, "saveNew")
    /\ rows' = [rows EXCEPT ![requests[r].file] = "New"]
    /\ Goto(r, "url")
    /\ UNCHANGED <<access, Store, Given, disturbed>>

GetUploadUrl(r) ==
    /\ At(r, "url")
    /\ urls' = urls \cup {requests[r].file}
    /\ Goto(r, "grantSelf")
    /\ UNCHANGED <<Tables, contents, uploaded, Given, disturbed>>

(* Rows of hat_file_access are inserted for all of these files, or for none*)
(* of them, when one has the key already.                                  *)
Grants(files, u) ==
    access' = IF \E f \in files : <<f, u>> \in access THEN access ELSE access \cup (files \X {u})

(* The client becomes the uploader of the file, and is answered.           *)
GrantSelf(r) ==
    LET f == requests[r].file  u == requests[r].user
    IN /\ At(r, "grantSelf")
       /\ Grants({f}, u)
       /\ uploaders' = IF <<f, u>> \notin access THEN uploaders \cup {<<f, u>>} ELSE uploaders
       /\ End(r)
       /\ UNCHANGED <<rows, Store, doubled, disturbed>>
-----------------------------------------------------------------------------
(* A client writes to a signed URL.  That URLs expire only takes behaviour *)
(* away, and is left out.                                                  *)
Upload(f) == /\ f \in urls
             /\ contents' = contents \cup {f} /\ uploaded' = uploaded \cup {f}
             /\ UNCHANGED <<Tables, urls, requests, Given, disturbed>>
-----------------------------------------------------------------------------
(* The requests that begin with the row of a file: completeUpload, delete, *)
(* and what changes other columns, update and changePublicAccess.          *)
FileCall(r, op, f, u) ==
    /\ At(r, "idle")
    /\ op # "complete" => u = owner
    /\ Become(r, Begun(op, "read", f, u))
    /\ Touch(f)
    /\ UNCHANGED <<Tables, Store, Given>>

(* fileContentAccessAllowed, of a file that need not be completed.         *)
MayComplete(f, u) == u = owner \/ <<f, u>> \in access
AfterRead == [complete |-> "size", change |-> "save", delete |-> "contents"]

(* getById, with the rows of hat_file_access.                              *)
Read(r) ==
    LET q == requests[r]
    IN /\ At(r, "read")
       /\ IF Exists(q.file) /\ (q.op = "complete" => MayComplete(q.file, q.user))
          THEN Become(r, [q EXCEPT !.at = AfterRead[q.op], !.copy = rows[q.file],
                                   !.user = owner])
          ELSE End(r)
       /\ UNCHANGED <<Tables, Store, Given, disturbed>>

AnySize(f) == f \in Ids  \* mutant: the size is not looked at
HasContent(f) == f \in contents

(* An upload is completed when there is something in the store.            *)
GetFileSize(r) ==
    /\ At(r, "size")
    /\ IF HasContent(requests[r].file) THEN Goto(r, "save") ELSE End(r)
    /\ UNCHANGED <<Tables, Store, Given, disturbed>>

DeleteContents(r) ==
    /\ At(r, "contents")
    /\ contents' = contents \ {requests[r].file}
    /\ Goto(r, "save")
    /\ UNCHANGED <<Tables, urls, uploaded, Given, disturbed>>

WrittenKept(op, copy) ==  \* mutant: delete does not change the status
    IF op = "complete" THEN "Completed" ELSE copy
Written(op, copy) ==
    CASE op = "complete" -> "Completed" [] op = "delete" -> "Deleted" [] OTHER -> copy

(* The row is saved as it was read, with what the request changes.         *)
Save(r) ==
    LET q == requests[r]
    IN /\ At(r, "save")
       /\ rows' = [rows EXCEPT ![q.file] = Written(q.op, q.copy)]
       /\ End(r)
       /\ UNCHANGED <<access, Store, Given, disturbed>>

-----------------------------------------------------------------------------
(* allowAccess for one file, or for all that match: patterns are names.    *)
Matching(name) == {f \in Ids : f[1] = name /\ Exists(f)}
Allow(f, u) == /\ Exists(f) /\ Grants({f}, u)
               /\ UNCHANGED <<rows, Store, requests, Given, disturbed>>
AllowPattern(name, u) == /\ Grants(Matching(name), u)
                         /\ UNCHANGED <<rows, Store, requests, Given, disturbed>>

(* restrictAccess deletes the rows.                                        *)
Restrict(f, u) == /\ Exists(f) /\ access' = access \ {<<f, u>>}
                  /\ UNCHANGED <<rows, Store, requests, Given, disturbed>>
RestrictPattern(name, u) == /\ access' = access \ (Matching(name) \X {u})
                            /\ UNCHANGED <<rows, Store, requests, Given, disturbed>>
-----------------------------------------------------------------------------
(* A call of the database or the store fails, or the process ends.         *)
Lose(r) == /\ ~At(r, "idle")
           /\ End(r)
           /\ disturbed' = disturbed \cup {requests[r].file}
           /\ UNCHANGED <<Tables, Store, Given>>

Next ==
    \/ \E r \in Requests :
         \/ \E name \in Names, u \in Users : StartCall(r, name, u)
         \/ \E op \in FileOps, f \in Ids, u \in Users : FileCall(r, op, f, u)
         \/ PickId(r) \/ SaveNew(r) \/ GetUploadUrl(r) \/ GrantSelf(r)
         \/ Read(r) \/ GetFileSize(r) \/ DeleteContents(r) \/ Save(r) \/ Lose(r)
    \/ \E f \in Ids : Upload(f)
    \/ \E u \in Users \ {owner} :
         \/ \E f \in Ids : Allow(f, u) \/ Restrict(f, u)
         \/ \E name \in Names : AllowPattern(name, u) \/ RestrictPattern(name, u)

Spec == Init /\ [][Next]_vars
-----------------------------------------------------------------------------
TypeOK == /\ rows \in [Ids -> Status]
          /\ access \subseteq Ids \X Users
          /\ contents \subseteq Ids /\ urls \subseteq Ids
          /\ requests \in [Requests -> Request]
          /\ uploaders \subseteq Ids \X Users /\ doubled \subseteq Ids
          /\ uploaded \subseteq Ids /\ disturbed \subseteq Ids

(* Whatever overlaps, fails or is saved from an old copy, a file is shown  *)
(* as completed only if its content has been in the store.                 *)
CompletedWasUploaded == \A f \in Ids : rows[f] = "Completed" => f \in uploaded

(* getUniqueFileId: no two clients are given the same file to upload, when *)
(* no name has a space, but one that both picked before either saved it.   *)
OneUploader == \A p, q \in uploaders : p[1] = q[1] => p[2] = q[2] \/ p[1] \in doubled

(* When the requests for a file did not overlap and none was lost, then    *)
(* between them a completed file has its content in the store: delete      *)
(* removes the content first and says so in the row afterwards.            *)
Settled == \A f \in Ids :
    rows[f] = "Completed" /\ f \notin disturbed /\ ~Working(f) => f \in contents
=============================================================================
