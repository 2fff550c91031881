------------------------------ MODULE RichData ------------------------------
(***************************************************************************)
(* The data store of one HAT (RichDataService): JSON records, and groups   *)
(* that link records to one another.                                       *)
(*                                                                         *)
(* Three PostgreSQL tables: data_json (records), data_json_groups (groups) *)
(* and data_json_group_records (links).  A transaction that only inserts,  *)
(* or whose statements only meet rows by primary key, happens at its       *)
(* commit and is one step; a deletion reads and writes in three statements *)
(* at READ COMMITTED, so each is a step: a statement sees what is          *)
(* committed and what its own transaction did, and waits for rows another  *)
(* transaction has deleted.  What an open transaction has deleted is kept  *)
(* in delLinks and delGroups until it commits.                             *)
(*                                                                         *)
(* A record's data is its SHA-256 hash, which data_json_hash_key keeps     *)
(* unique.  Identifiers are drawn in order and never used again (random    *)
(* UUIDs).                                                                 *)
(***************************************************************************)
EXTENDS Naturals, FiniteSets

CONSTANTS Users,          \* owners of records
          Endpoints,      \* sources of records
          Hashes,         \* the data records may hold
          Requests,       \* slots for deletions in progress
          MaxRecords,     \* bound on records ever created
          MaxGroups       \* bound on groups ever created

ASSUME ConstantsAssumption ==
    MaxRecords \in Nat /\ MaxGroups \in Nat

VARIABLES records,    \* id -> [owner, source, hash]
          groups,     \* id -> owner
          links,      \* set of <<group, record>>
          lastRecord, lastGroup,  \* identifiers drawn so far
          members,    \* history: group -> the records it was created with
          pc,         \* deletion -> its next statement
          req,        \* deletion -> its parameters
          delLinks,   \* deletion -> links deleted, not yet committed
          delGroups   \* deletion -> groups deleted, not yet committed

tables == <<records, groups, links, lastRecord, lastGroup, members>>
vars == <<tables, pc, req, delLinks, delGroups>>

RecordIds == 1..MaxRecords
GroupIds == 1..MaxGroups
Record == [owner: Users, source: Endpoints, hash: Hashes]
Steps == {"idle", "deleteLinks", "deleteGroups", "deleteRecords"}
DeleteRequest == [user: Users, ids: SUBSET RecordIds]
EndpointRequest == [source: Endpoints]
NoRequest == <<>>

Used == {records[i].hash : i \in DOMAIN records}
OfEndpoint(e) == {i \in DOMAIN records : records[i].source = e}
LinksOfGroups(S) ==  \* mutant: all links of the groups that S is in
    {l \in links : \E m \in links : m[2] \in S /\ m[1] = l[1]}
LinksTo(S) == {l \in links : l[2] \in S}
Extend(f, g) == [x \in DOMAIN f \cup DOMAIN g |-> IF x \in DOMAIN g THEN g[x] ELSE f[x]]
Drop(f, S) == [y \in DOMAIN f \ S |-> f[y]]
-----------------------------------------------------------------------------
Init == /\ records = <<>> /\ groups = <<>> /\ links = {} /\ members = <<>>
        /\ lastRecord = 0 /\ lastGroup = 0
        /\ pc = [r \in Requests |-> "idle"]
        /\ req = [r \in Requests |-> NoRequest]
        /\ delLinks = [r \in Requests |-> {}]
        /\ delGroups = [r \in Requests |-> {}]

(* New groups, linked[g] being the records of the group g.                 *)
NewGroups(u, linked) ==
    /\ lastGroup' \in lastGroup..MaxGroups
    /\ DOMAIN linked = (lastGroup + 1)..lastGroup'
    /\ groups' = Extend(groups, [g \in DOMAIN linked |-> u])
    /\ members' = Extend(members, linked)
    /\ links' = links \cup {l \in (DOMAIN linked) \X RecordIds : l[2] \in linked[l[1]]}
NoGroup == UNCHANGED <<groups, lastGroup, members, links>>
-----------------------------------------------------------------------------
(* saveData, saveDataGroups: a transaction saves a batch of records, and a *)
(* group for each of them that comes with links of its own (recordIds.     *)
(* length > 1), with the linkedRecords that exist already.  Data that      *)
(* there is already, in the batch or before, fails all of it.  With        *)
(* skipErrors, which no caller asks for with links, there is no            *)
(* transaction: every record of the batch is a step, or is skipped.        *)
SaveData(u, data, linked) ==
    LET new == DOMAIN data
    IN  /\ lastRecord' \in lastRecord..MaxRecords
        /\ new = (lastRecord + 1)..lastRecord'
        /\ \A i \in new : data[i].hash \notin Used
        /\ \A i, j \in new : data[i].hash = data[j].hash => i = j
        /\ records' = Extend(records, [i \in new |-> [owner |-> u, source |-> data[i].source,
                                                      hash |-> data[i].hash]])
        /\ \A g \in DOMAIN linked :
             /\ \E i, j \in linked[g] \cap new : i # j
             /\ linked[g] \subseteq new \cup DOMAIN records
             /\ \A k \in DOMAIN linked \ {g} : linked[g] \cap linked[k] \cap new = {}
        /\ NewGroups(u, linked)
        /\ UNCHANGED <<pc, req, delLinks, delGroups>>

(* saveRecordGroup of some records: the foreign key wants them to exist,   *)
(* and nothing asks whose they are.                                        *)
SaveRecordGroup(u, S) ==
    /\ S \subseteq DOMAIN records
    /\ NewGroups(u, [g \in {lastGroup + 1} |-> S])
    /\ UNCHANGED <<records, lastRecord, pc, req, delLinks, delGroups>>

(* updateRecords: the data of one or two of the user's records, one        *)
(* statement after the other; data another record holds fails them all.    *)
Updatable(recs, u, i, h) ==
    /\ i \in DOMAIN recs /\ recs[i].owner = u
    /\ \A j \in DOMAIN recs \ {i} : recs[j].hash # h
UpdateRecords(u, i, h, j, h2) ==
    LET first == [records EXCEPT ![i].hash = h]
    IN  /\ Updatable(records, u, i, h) /\ Updatable(first, u, j, h2)
        /\ records' = [first EXCEPT ![j].hash = h2]
        /\ NoGroup /\ UNCHANGED <<lastRecord, pc, req, delLinks, delGroups>>
-----------------------------------------------------------------------------
Goto(r, step) == pc' = [pc EXCEPT ![r] = step]
IdleForgetfully(r) ==  \* mutant: the request stays after the answer
    /\ Goto(r, "idle") /\ UNCHANGED req
    /\ delLinks' = [delLinks EXCEPT ![r] = {}]
    /\ delGroups' = [delGroups EXCEPT ![r] = {}]
Idle(r) == /\ Goto(r, "idle") /\ req' = [req EXCEPT ![r] = NoRequest]
           /\ delLinks' = [delLinks EXCEPT ![r] = {}]
           /\ delGroups' = [delGroups EXCEPT ![r] = {}]
RollbackPartly(r) ==  \* mutant: without transactionally
    /\ Idle(r) /\ links' = links \ delLinks[r]
    /\ UNCHANGED <<records, groups, lastRecord, lastGroup, members>>
(* A failed transaction: all of its deletions are undone.                  *)
Rollback(r) == Idle(r) /\ UNCHANGED tables

OfRecords(r) == req[r] \in DeleteRequest
(* The records a deletion asks for, as the statement finds them.           *)
Requested(r) == IF OfRecords(r) THEN req[r].ids ELSE OfEndpoint(req[r].source)
Others(r) == Requests \ {r}
Free(S, del, r) == \A q \in Others(r) : del[q] \cap S = {}
(* What the transaction of r still sees of links and groups.               *)
SeenLinks(r) == links \ delLinks[r]
Linked(r) == {l[1] : l \in SeenLinks(r)}

DeleteStart(r, q) ==
    /\ pc[r] = "idle"
    /\ Goto(r, "deleteLinks")
    /\ req' = [req EXCEPT ![r] = q]
    /\ UNCHANGED <<tables, delLinks, delGroups>>

(* "delete links between records and groups", whoever owns them            *)
DeleteLinks(r) ==
    /\ pc[r] = "deleteLinks"
    /\ Free(LinksTo(Requested(r)), delLinks, r)
    /\ delLinks' = [delLinks EXCEPT ![r] = LinksTo(Requested(r))]
    /\ Goto(r, "deleteGroups")
    /\ UNCHANGED <<tables, req, delGroups>>

(* "delete any groups that have become empty": deleteRecords selects all   *)
(* but the user's own groups with links (filterNot (owner && in links)),   *)
(* deleteEndpoint all groups without links.  The foreign key fails the     *)
(* transaction when a group so selected still has links.                   *)
SelectedGroups(r) ==
    IF OfRecords(r)
      THEN {g \in DOMAIN groups : ~(groups[g] = req[r].user /\ g \in Linked(r))}
      ELSE DOMAIN groups \ Linked(r)

DeleteGroups(r) ==
    LET selected == SelectedGroups(r)
    IN  /\ pc[r] = "deleteGroups"
        /\ Free(selected, delGroups, r)
        /\ Free({l \in links : l[1] \in selected}, delLinks, r)
        /\ IF selected \cap Linked(r) # {}
             THEN Rollback(r)
             ELSE /\ delGroups' = [delGroups EXCEPT ![r] = selected]
                  /\ Goto(r, "deleteRecords")
                  /\ UNCHANGED <<tables, req, delLinks>>

(* The records, and the commit.  deleteRecords fails unless all that were  *)
(* asked for are found and owned by the user; a link made meanwhile to a   *)
(* record fails either through its foreign key.                            *)
FoundOfAnyone(r) ==  \* mutant: without the filter on the owner
    IF OfRecords(r) THEN DOMAIN records \cap req[r].ids ELSE Requested(r)
Found(r) == IF OfRecords(r)
              THEN {i \in DOMAIN records \cap req[r].ids :
                      records[i].owner = req[r].user}
              ELSE Requested(r)
Complete(r) == OfRecords(r) => Found(r) = req[r].ids

DeleteRecords(r) ==
    /\ pc[r] = "deleteRecords"
    /\ Free(LinksTo(Found(r)), delLinks, r)
    /\ IF ~Complete(r) \/ LinksTo(Found(r)) \cap SeenLinks(r) # {}
         THEN Rollback(r)
         ELSE /\ records' = Drop(records, Found(r))
              /\ groups' = Drop(groups, delGroups[r])
              /\ links' = SeenLinks(r)
              /\ UNCHANGED <<lastRecord, lastGroup, members>>
              /\ Idle(r)

(* A deadlock victim or a lost connection.                                 *)
Abort(r) == pc[r] # "idle" /\ Rollback(r)

Delete(r) == DeleteLinks(r) \/ DeleteGroups(r) \/ DeleteRecords(r)
(* What a batch may hold, and the groups it may make.                      *)
Batches == UNION {[(lastRecord + 1)..n -> [source: Endpoints, hash: Hashes]] :
                    n \in (lastRecord + 1)..MaxRecords}
GroupsWith(new) == UNION {[(lastGroup + 1)..n -> SUBSET (new \cup DOMAIN records)] :
                            n \in lastGroup..MaxGroups}
Next ==
    \/ \E u \in Users, data \in Batches : \E linked \in GroupsWith(DOMAIN data) :
         SaveData(u, data, linked)
    \/ \E u \in Users, S \in SUBSET DOMAIN records :
         S # {} /\ SaveRecordGroup(u, S)
    \/ \E u \in Users, i, j \in DOMAIN records, h, h2 \in Hashes :
         UpdateRecords(u, i, h, j, h2)
    \/ \E r \in Requests :
         \/ \E u \in Users, S \in SUBSET (1..lastRecord) :
              S # {} /\ DeleteStart(r, [user |-> u, ids |-> S])
         \/ \E e \in Endpoints : DeleteStart(r, [source |-> e])
         \/ Delete(r) \/ Abort(r)

Spec == Init /\ [][Next]_vars
-----------------------------------------------------------------------------
TablesOK ==
    /\ lastRecord \in 0..MaxRecords /\ lastGroup \in 0..MaxGroups
    /\ DOMAIN records \subseteq 1..lastRecord
    /\ \A i \in DOMAIN records : records[i] \in Record
    /\ DOMAIN groups \subseteq 1..lastGroup
    /\ \A g \in DOMAIN groups : groups[g] \in Users
    /\ DOMAIN members = 1..lastGroup
    /\ \A g \in DOMAIN members : members[g] \subseteq 1..lastRecord
    /\ links \subseteq (DOMAIN groups) \X (DOMAIN records)
RequestsOK ==
    /\ pc \in [Requests -> Steps]
    /\ DOMAIN req = Requests
    /\ \A r \in Requests :
         req[r] \in IF pc[r] = "idle" THEN {NoRequest}
                    ELSE DeleteRequest \cup EndpointRequest
    /\ delLinks \in [Requests -> SUBSET (GroupIds \X RecordIds)]
    /\ delGroups \in [Requests -> SUBSET GroupIds]
TypeOK == TablesOK /\ RequestsOK

(* A group links exactly those records it was made of that still exist: no *)
(* interleaving of savings and deletions loses a link of a record that     *)
(* stays, or a group that still has records.                               *)
GroupIntegrity ==
    /\ \A g \in DOMAIN groups :
         {i \in DOMAIN records : <<g, i>> \in links}
           = members[g] \cap DOMAIN records
    /\ \A g \in DOMAIN members \ DOMAIN groups :
         members[g] \cap DOMAIN records = {}

(* The groups that a deletion selects have become empty (the comment in    *)
(* deleteRecords), so that a deletion of existing records of one's own     *)
(* never fails for the sake of a group.                                    *)
SelectsEmptyGroups ==
    \A r \in Requests :
       pc[r] = "deleteGroups" /\ Complete(r)
         => SelectedGroups(r) \cap Linked(r) = {}

(* deleteRecords removes the records it was asked for, all of them its     *)
(* user's ("not delete records if provided user Id doesn't match", "not    *)
(* delete any records if some requested records do not exist"), and of     *)
(* everything else, whatever other requests did between its statements:    *)
(* no record, no link but to those records, and no group, its user's or    *)
(* another's, that still has a record.  Groups left empty it may remove,   *)
(* whosever they are.                                                      *)
DeletesOwnAndAll ==
    [][\A r \in Requests :
         pc[r] = "deleteRecords" /\ OfRecords(r) /\ tables' # tables /\ pc'[r] = "idle"
           => /\ DOMAIN records \ DOMAIN records' = req[r].ids
              /\ \A i \in req[r].ids : records[i].owner = req[r].user
              /\ \A i \in DOMAIN records' : records'[i] = records[i]
              /\ links' = {l \in links : l[2] \notin req[r].ids}
              /\ \A g \in DOMAIN groups \ DOMAIN groups' : members[g] \cap DOMAIN records' = {}
         ]_vars

(* The store keeps the promise of Archive: seen through its committed      *)
(* tables, every request happens at once or not at all, deletions in three *)
(* statements included.                                                    *)
Contents == [g \in DOMAIN groups |->
               [owner |-> groups[g],
                members |-> {i \in DOMAIN records : <<g, i>> \in links}]]
Store == INSTANCE Archive WITH
           contents <- Contents,
           spent <- 1..lastRecord, spentGroups <- 1..lastGroup
KeepsArchive == Store!Spec
-----------------------------------------------------------------------------
(***************************************************************************)
(* What makes the invariants inductive (proved in RichData_proofs).  The   *)
(* waiting of one deletion for another is not needed for them.             *)
(***************************************************************************)

(* No two records hold the same data: every insert and update is guarded   *)
(* by the key on the hash.                                                 *)
DataUnique ==
    \A i, j \in DOMAIN records : records[i].hash = records[j].hash => i = j

(* A deletion removes links of the records it asked for only.              *)
DeletedLinksRequested ==
    \A r \in Requests :
       /\ pc[r] \in {"idle", "deleteLinks"} => delLinks[r] = {}
       /\ \A l \in delLinks[r] :
            /\ l[1] \in 1..lastGroup /\ l[2] \in 1..lastRecord
            /\ l[2] \in DOMAIN records => l[2] \in Requested(r)

(* A group it removes has no links but those it removed itself.            *)
DeletedGroupsEmpty ==
    \A r \in Requests :
       /\ pc[r] # "deleteRecords" => delGroups[r] = {}
       /\ delGroups[r] \subseteq 1..lastGroup
       /\ delGroups[r] \cap Linked(r) = {}

IInv == /\ TypeOK /\ DataUnique /\ GroupIntegrity
        /\ DeletedLinksRequested /\ DeletedGroupsEmpty
=============================================================================
