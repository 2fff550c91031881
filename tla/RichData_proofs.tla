-------------------------- MODULE RichData_proofs --------------------------
(***************************************************************************)
(* Proofs about RichData, for any number of users, endpoints, hashes and   *)
(* concurrent deletions: the records stay unique, groups keep exactly the  *)
(* links of the records that remain, and all of it implements Archive.     *)
(***************************************************************************)
EXTENDS RichData, TLAPS

(* What a table with more rows is.                                         *)
LEMMA ExtendFacts ==
    ASSUME NEW f, NEW g
    PROVE  /\ DOMAIN Extend(f, g) = DOMAIN f \cup DOMAIN g
           /\ \A x \in DOMAIN g : Extend(f, g)[x] = g[x]
           /\ \A x \in DOMAIN f \ DOMAIN g : Extend(f, g)[x] = f[x]
  BY DEF Extend

(* Nothing is in any table, and no deletion is in progress.                *)
LEMMA InitEstablishes == Init => IInv
  <1> USE ConstantsAssumption
  <1> SUFFICES ASSUME Init PROVE IInv
    OBVIOUS
  <1>1. DOMAIN records = {} /\ DOMAIN groups = {} /\ DOMAIN members = {}
    BY DEF Init
  <1>2. 1..0 = {}
    OBVIOUS
  <1>3. TypeOK
    BY <1>1, <1>2 DEF Init, TypeOK, TablesOK, RequestsOK, Steps
  <1>4. DataUnique /\ GroupIntegrity
    BY <1>1, <1>2 DEF Init, DataUnique, GroupIntegrity
  <1>5. DeletedLinksRequested /\ DeletedGroupsEmpty
    BY DEF Init, DeletedLinksRequested, DeletedGroupsEmpty
  <1> QED
    BY <1>3, <1>4, <1>5 DEF IInv
-----------------------------------------------------------------------------
(* A step that leaves the tables and the deletions alone but for one       *)
(* deletion, which ends without effect.                                    *)
LEMMA RollbackStep ==
    ASSUME IInv, NEW r \in Requests, Rollback(r)
    PROVE  IInv'
  <1> USE DEF Rollback, Idle, Goto, IInv, tables
  <1>1. \A q \in Requests : q # r => /\ pc'[q] = pc[q] /\ req'[q] = req[q]
                                     /\ delLinks'[q] = delLinks[q]
                                     /\ delGroups'[q] = delGroups[q]
    BY DEF TypeOK, RequestsOK
  <1>2. /\ pc'[r] = "idle" /\ req'[r] = NoRequest
        /\ delLinks'[r] = {} /\ delGroups'[r] = {}
    BY DEF TypeOK, RequestsOK
  <1>3. TypeOK'
    <2>1. TablesOK'
      BY DEF TypeOK, TablesOK
    <2>2. RequestsOK'
      BY <1>1, <1>2 DEF TypeOK, RequestsOK, Steps
    <2> QED
      BY <2>1, <2>2 DEF TypeOK
  <1>4. DataUnique' /\ GroupIntegrity'
    BY DEF DataUnique, GroupIntegrity
  <1>5. DeletedLinksRequested'
    <2>1. \A q \in Requests : q # r => Requested(q)' = Requested(q)
      BY <1>1 DEF Requested, OfRecords, OfEndpoint
    <2> QED
      BY <1>1, <1>2, <2>1 DEF DeletedLinksRequested
  <1>6. DeletedGroupsEmpty'
    BY <1>1, <1>2 DEF DeletedGroupsEmpty, Linked, SeenLinks
  <1> QED
    BY <1>3, <1>4, <1>5, <1>6

LEMMA StartStep ==
    ASSUME IInv, NEW r \in Requests, NEW q \in DeleteRequest \cup EndpointRequest,
           DeleteStart(r, q)
    PROVE  IInv'
  <1> USE DEF DeleteStart, Goto, IInv, tables
  <1>1. \A p \in Requests : p # r => pc'[p] = pc[p] /\ req'[p] = req[p]
    BY DEF TypeOK, RequestsOK
  <1>2. /\ pc'[r] = "deleteLinks" /\ req'[r] = q
        /\ delLinks[r] = {} /\ delGroups[r] = {}
    BY DEF TypeOK, RequestsOK, DeletedLinksRequested, DeletedGroupsEmpty
  <1>3. TypeOK'
    <2>1. TablesOK'
      BY DEF TypeOK, TablesOK
    <2>2. RequestsOK'
      BY <1>1, <1>2 DEF TypeOK, RequestsOK, Steps
    <2> QED
      BY <2>1, <2>2 DEF TypeOK
  <1>4. DataUnique' /\ GroupIntegrity'
    BY DEF DataUnique, GroupIntegrity
  <1>5. DeletedLinksRequested'
    BY <1>1, <1>2 DEF DeletedLinksRequested, Requested, OfRecords, OfEndpoint
  <1>6. DeletedGroupsEmpty'
    BY <1>1, <1>2 DEF DeletedGroupsEmpty, Linked, SeenLinks
  <1> QED
    BY <1>3, <1>4, <1>5, <1>6

LEMMA LinksStep ==
    ASSUME IInv, NEW r \in Requests, DeleteLinks(r)
    PROVE  IInv'
  <1> USE DEF DeleteLinks, Goto, IInv, tables
  <1>1. \A p \in Requests : p # r => pc'[p] = pc[p] /\ delLinks'[p] = delLinks[p]
    BY DEF TypeOK, RequestsOK
  <1>2. /\ pc[r] = "deleteLinks" /\ pc'[r] = "deleteGroups"
        /\ delLinks'[r] = LinksTo(Requested(r)) /\ delGroups[r] = {}
    BY DEF TypeOK, RequestsOK, DeletedGroupsEmpty
  <1>3. \A l \in LinksTo(Requested(r)) :
           /\ l \in links /\ l[2] \in Requested(r)
           /\ l[1] \in 1..lastGroup /\ l[2] \in 1..lastRecord
    BY DEF LinksTo, TypeOK, TablesOK
  <1>4. TypeOK'
    <2>1. TablesOK'
      BY DEF TypeOK, TablesOK
    <2>2. LinksTo(Requested(r)) \subseteq GroupIds \X RecordIds
      BY ConstantsAssumption DEF LinksTo, TypeOK, TablesOK, GroupIds, RecordIds
    <2>3. RequestsOK'
      BY <1>1, <1>2, <2>2 DEF TypeOK, RequestsOK, Steps
    <2> QED
      BY <2>1, <2>3 DEF TypeOK
  <1>5. DataUnique' /\ GroupIntegrity'
    BY DEF DataUnique, GroupIntegrity
  <1>6. DeletedLinksRequested'
    <2>1. \A q \in Requests : Requested(q)' = Requested(q)
      BY <1>1 DEF Requested, OfRecords, OfEndpoint
    <2> QED
      BY <1>1, <1>2, <1>3, <2>1 DEF DeletedLinksRequested
  <1>7. DeletedGroupsEmpty'
    BY <1>1, <1>2 DEF DeletedGroupsEmpty, Linked, SeenLinks
  <1> QED
    BY <1>4, <1>5, <1>6, <1>7

LEMMA GroupsStep ==
    ASSUME IInv, NEW r \in Requests, DeleteGroups(r)
    PROVE  IInv'
  <1>1. CASE SelectedGroups(r) \cap Linked(r) # {}
    BY <1>1, RollbackStep DEF DeleteGroups
  <1>2. CASE SelectedGroups(r) \cap Linked(r) = {}
    <2> USE DEF Goto, IInv, tables
    <2>1. /\ delGroups' = [delGroups EXCEPT ![r] = SelectedGroups(r)]
          /\ pc' = [pc EXCEPT ![r] = "deleteRecords"] /\ pc[r] = "deleteGroups"
          /\ UNCHANGED <<records, groups, links, lastRecord, lastGroup, members,
                         req, delLinks>>
      BY <1>2 DEF DeleteGroups
    <2>2. /\ \A p \in Requests : p # r => /\ pc'[p] = pc[p]
                                          /\ delGroups'[p] = delGroups[p]
          /\ pc'[r] = "deleteRecords" /\ delGroups'[r] = SelectedGroups(r)
      BY <2>1 DEF TypeOK, RequestsOK
    <2>3. SelectedGroups(r) \subseteq DOMAIN groups
      BY DEF SelectedGroups
    <2>4. SelectedGroups(r) \subseteq 1..lastGroup
      BY <2>3 DEF TypeOK, TablesOK
    <2>5. TypeOK'
      <3>1. TablesOK'
        BY <2>1 DEF TypeOK, TablesOK
      <3>2. 1..lastGroup \subseteq GroupIds
        BY ConstantsAssumption DEF TypeOK, TablesOK, GroupIds
      <3>3. RequestsOK'
        BY <2>1, <2>2, <2>4, <3>2 DEF TypeOK, RequestsOK, Steps
      <3> QED
        BY <3>1, <3>3 DEF TypeOK
    <2>6. DataUnique' /\ GroupIntegrity'
      BY <2>1 DEF DataUnique, GroupIntegrity
    <2>7. DeletedLinksRequested'
      BY <2>1, <2>2 DEF DeletedLinksRequested, Requested, OfRecords, OfEndpoint
    <2>8. DeletedGroupsEmpty'
      BY <1>2, <2>1, <2>2, <2>4 DEF DeletedGroupsEmpty, Linked, SeenLinks
    <2> QED
      BY <2>5, <2>6, <2>7, <2>8
  <1> QED
    BY <1>1, <1>2
-----------------------------------------------------------------------------
(* The commit of a deletion that found all its records, and has left no    *)
(* link to any of them.                                                    *)
LEMMA CommitStep ==
    ASSUME IInv, NEW r \in Requests, DeleteRecords(r)
    PROVE  IInv'
  <1> DEFINE failed == ~Complete(r) \/ LinksTo(Found(r)) \cap SeenLinks(r) # {}
  <1>1. CASE failed
    BY <1>1, RollbackStep DEF DeleteRecords
  <1>2. CASE ~failed
    <2> USE DEF IInv
    <2>1. /\ Complete(r) /\ LinksTo(Found(r)) \cap SeenLinks(r) = {}
          /\ records' = Drop(records, Found(r))
          /\ groups' = Drop(groups, delGroups[r])
          /\ links' = SeenLinks(r)
          /\ UNCHANGED <<lastRecord, lastGroup, members>>
          /\ Idle(r) /\ pc[r] = "deleteRecords"
      BY <1>2 DEF DeleteRecords
    <2>2. /\ DOMAIN records' = DOMAIN records \ Found(r)
          /\ \A i \in DOMAIN records' : records'[i] = records[i]
          /\ DOMAIN groups' = DOMAIN groups \ delGroups[r]
          /\ \A g \in DOMAIN groups' : groups'[g] = groups[g]
      <3>1. /\ DOMAIN records' = DOMAIN records \ Found(r)
            /\ \A i \in DOMAIN records' : records'[i] = records[i]
        BY <2>1 DEF Drop
      <3>2. /\ DOMAIN groups' = DOMAIN groups \ delGroups[r]
            /\ \A g \in DOMAIN groups' : groups'[g] = groups[g]
        BY <2>1 DEF Drop
      <3> QED
        BY <3>1, <3>2
    <2>3. /\ \A q \in Requests : q # r => /\ pc'[q] = pc[q] /\ req'[q] = req[q]
                                          /\ delLinks'[q] = delLinks[q]
                                          /\ delGroups'[q] = delGroups[q]
          /\ pc'[r] = "idle" /\ req'[r] = NoRequest
          /\ delLinks'[r] = {} /\ delGroups'[r] = {}
      BY <2>1 DEF Idle, Goto, TypeOK, RequestsOK
    (* Every link this deletion removes is one of a record it removes, and *)
    (* every group it removes has but such links.                          *)
    <2>4. \A l \in delLinks[r] : l[2] \in DOMAIN records => l[2] \in Found(r)
      <3>1. Found(r) = Requested(r)
        BY <2>1 DEF Complete, Found, Requested
      <3> QED
        BY <3>1 DEF DeletedLinksRequested
    <2>5. \A l \in links' : /\ l \in links /\ l \notin delLinks[r]
                            /\ l[1] \in DOMAIN groups \ delGroups[r]
                            /\ l[2] \in DOMAIN records \ Found(r)
      <3> SUFFICES ASSUME NEW l \in links'
                   PROVE  /\ l \in links /\ l \notin delLinks[r]
                          /\ l[1] \in DOMAIN groups \ delGroups[r]
                          /\ l[2] \in DOMAIN records \ Found(r)
        OBVIOUS
      <3>1. l \in links /\ l \notin delLinks[r] /\ l \in SeenLinks(r)
        BY <2>1 DEF SeenLinks
      <3>2. l[1] \in DOMAIN groups /\ l[2] \in DOMAIN records
        BY <3>1 DEF TypeOK, TablesOK
      <3>3. l[1] \notin delGroups[r]
        BY <3>1 DEF DeletedGroupsEmpty, Linked
      <3>4. l[2] \notin Found(r)
        BY <2>1, <3>1 DEF LinksTo
      <3> QED
        BY <3>1, <3>2, <3>3, <3>4
    <2>6. TypeOK'
      <3>1. links' \subseteq (DOMAIN groups') \X (DOMAIN records')
        <4>1. links' \subseteq (DOMAIN groups) \X (DOMAIN records)
          BY <2>5 DEF TypeOK, TablesOK
        <4> QED
          BY <2>2, <2>5, <4>1
      <3>2. TablesOK'
        BY <2>1, <2>2, <3>1 DEF TypeOK, TablesOK
      <3>3. RequestsOK'
        BY <2>1, <2>3 DEF Idle, Goto, TypeOK, RequestsOK, Steps
      <3> QED
        BY <3>2, <3>3 DEF TypeOK
    <2>7. DataUnique'
      BY <2>2 DEF DataUnique
    <2>8. GroupIntegrity'
      <3>1. ASSUME NEW g \in DOMAIN groups'
            PROVE  {i \in DOMAIN records' : <<g, i>> \in links'}
                     = members'[g] \cap DOMAIN records'
        <4>1. ASSUME NEW i \in DOMAIN records'
              PROVE  <<g, i>> \in links' <=> <<g, i>> \in links
          <5>1. i \in DOMAIN records /\ i \notin Found(r)
            BY <2>2, <4>1
          <5>2. <<g, i>> \notin delLinks[r]
            BY <2>4, <5>1
          <5> QED
            BY <2>1, <5>2 DEF SeenLinks
        <4>2. g \in DOMAIN groups /\ DOMAIN records' \subseteq DOMAIN records
          BY <2>2, <3>1
        <4> QED
          BY <2>1, <4>1, <4>2 DEF GroupIntegrity
      <3>2. ASSUME NEW g \in DOMAIN members' \ DOMAIN groups'
            PROVE  members'[g] \cap DOMAIN records' = {}
        <4>1. CASE g \notin DOMAIN groups
          BY <2>1, <2>2, <3>2, <4>1 DEF GroupIntegrity
        <4>2. CASE g \in DOMAIN groups /\ g \in delGroups[r]
          <5> SUFFICES ASSUME NEW i \in members[g] \cap DOMAIN records
                       PROVE  i \in Found(r)
            BY <2>1, <2>2
          <5>1. <<g, i>> \in links
            BY <4>2 DEF GroupIntegrity
          <5>2. <<g, i>> \in delLinks[r]
            BY <4>2, <5>1 DEF DeletedGroupsEmpty, Linked, SeenLinks
          <5> QED
            BY <2>4, <5>2
        <4> QED
          BY <2>2, <3>2, <4>1, <4>2
      <3> QED
        BY <3>1, <3>2 DEF GroupIntegrity
    <2>9. DeletedLinksRequested'
      <3>1. \A q \in Requests : q # r =>
               Requested(q) \cap DOMAIN records' \subseteq Requested(q)'
        BY <2>2, <2>3 DEF Requested, OfRecords, OfEndpoint
      <3> QED
        BY <2>1, <2>2, <2>3, <3>1 DEF DeletedLinksRequested
    <2>10. DeletedGroupsEmpty'
      <3>1. links' \subseteq links
        BY <2>5
      <3> QED
        BY <2>1, <2>3, <3>1 DEF DeletedGroupsEmpty, Linked, SeenLinks
    <2> QED
      BY <2>6, <2>7, <2>8, <2>9, <2>10
  <1> QED
    BY <1>1, <1>2
-----------------------------------------------------------------------------
(* What all steps that only add or change records and add groups share:    *)
(* identifiers are new, what records have in common with before keeps its  *)
(* source, and a new group holds existing records.                         *)
Grows == /\ lastRecord' \in lastRecord..MaxRecords
         /\ DOMAIN records \subseteq DOMAIN records'
         /\ DOMAIN records' \subseteq
              DOMAIN records \cup ((lastRecord + 1)..lastRecord')
         /\ \A i \in DOMAIN records : records'[i].source = records[i].source
         /\ \A i \in DOMAIN records' : records'[i] \in Record
         /\ UNCHANGED <<pc, req, delLinks, delGroups>>

LEMMA GrowRequests ==
    ASSUME IInv, Grows, lastGroup' \in Nat, lastGroup' >= lastGroup
    PROVE  RequestsOK' /\ DeletedLinksRequested'
  <1> USE DEF IInv
  <1>1. RequestsOK'
    BY DEF Grows, TypeOK, RequestsOK
  <1>2. /\ lastRecord \in Nat /\ lastGroup \in Nat
        /\ lastRecord' \in Nat /\ lastRecord' >= lastRecord
    BY ConstantsAssumption DEF Grows, TypeOK, TablesOK
  <1>3. \A r \in Requests : Requested(r) \subseteq Requested(r)'
    BY DEF Requested, OfRecords, OfEndpoint, Grows
  <1>4. \A i \in 1..lastRecord : i \in DOMAIN records' => i \in DOMAIN records
    BY <1>2 DEF Grows
  <1>5. DeletedLinksRequested'
    BY <1>2, <1>3, <1>4 DEF Grows, DeletedLinksRequested
  <1> QED
    BY <1>1, <1>5

LEMMA GrowWithoutGroup ==
    ASSUME IInv, Grows, DataUnique', NoGroup
    PROVE  IInv'
  <1> USE DEF IInv, NoGroup
  <1>1. RequestsOK' /\ DeletedLinksRequested'
    BY GrowRequests DEF TypeOK, TablesOK
  <1>2. /\ lastRecord \in Nat /\ lastRecord' \in 0..MaxRecords
        /\ lastRecord' >= lastRecord
    BY ConstantsAssumption DEF Grows, TypeOK, TablesOK
  <1>3. TablesOK'
    <2>1. DOMAIN records' \subseteq 1..lastRecord'
      BY <1>2 DEF Grows, TypeOK, TablesOK
    <2>2. \A g \in DOMAIN members : members[g] \subseteq 1..lastRecord'
      BY <1>2 DEF TypeOK, TablesOK
    <2>3. links \subseteq (DOMAIN groups) \X (DOMAIN records')
      BY DEF Grows, TypeOK, TablesOK
    <2> QED
      BY <1>2, <2>1, <2>2, <2>3 DEF Grows, TypeOK, TablesOK
  <1>4. GroupIntegrity'
    <2>1. ASSUME NEW i \in DOMAIN records' \ DOMAIN records,
                 NEW g \in DOMAIN members
          PROVE  i \notin members[g] /\ <<g, i>> \notin links
      <3>1. i > lastRecord
        BY <1>2 DEF Grows
      <3> QED
        BY <1>2, <3>1 DEF TypeOK, TablesOK
    <2>2. DOMAIN groups \subseteq DOMAIN members
      BY DEF TypeOK, TablesOK
    <2> QED
      BY <2>1, <2>2 DEF GroupIntegrity, Grows
  <1>5. DeletedGroupsEmpty'
    BY DEF DeletedGroupsEmpty, Linked, SeenLinks, Grows
  <1> QED
    BY <1>1, <1>3, <1>4, <1>5 DEF TypeOK

(* What new groups do to the tables.                                       *)
LEMMA NewGroupsFacts ==
    ASSUME IInv, Grows, NEW u \in Users, NEW linked, NewGroups(u, linked),
           \A g \in DOMAIN linked : linked[g] \subseteq DOMAIN records'
    PROVE  /\ lastRecord \in Nat /\ lastRecord' \in 0..MaxRecords
           /\ lastRecord' >= lastRecord
           /\ lastGroup \in Nat /\ lastGroup' \in 0..MaxGroups
           /\ lastGroup' >= lastGroup
           /\ DOMAIN linked = (lastGroup + 1)..lastGroup'
           /\ DOMAIN records' \subseteq 1..lastRecord'
           /\ DOMAIN groups \cap DOMAIN linked = {}
           /\ DOMAIN members \cap DOMAIN linked = {}
           /\ DOMAIN groups' = DOMAIN groups \cup DOMAIN linked
           /\ \A g \in DOMAIN groups : groups'[g] = groups[g]
           /\ \A g \in DOMAIN linked : groups'[g] = u
           /\ DOMAIN members' = DOMAIN members \cup DOMAIN linked
           /\ \A g \in DOMAIN members : members'[g] = members[g]
           /\ \A g \in DOMAIN linked : members'[g] = linked[g]
           /\ \A g, i : g \notin DOMAIN linked
                        => (<<g, i>> \in links' <=> <<g, i>> \in links)
           /\ \A g \in DOMAIN linked :
                 \A i : <<g, i>> \in links' <=> i \in linked[g]
  <1> USE DEF IInv
  <1>1. /\ lastRecord \in Nat /\ lastRecord' \in 0..MaxRecords
        /\ lastRecord' >= lastRecord
        /\ lastGroup \in Nat /\ lastGroup' \in 0..MaxGroups
        /\ lastGroup' >= lastGroup
    BY ConstantsAssumption DEF Grows, NewGroups, TypeOK, TablesOK
  <1>2. DOMAIN linked = (lastGroup + 1)..lastGroup'
    BY DEF NewGroups
  <1>3. DOMAIN records' \subseteq 1..lastRecord'
    BY <1>1 DEF Grows, TypeOK, TablesOK
  <1>4. DOMAIN groups \subseteq 1..lastGroup /\ DOMAIN members = 1..lastGroup
    BY DEF TypeOK, TablesOK
  <1>5. /\ DOMAIN groups \cap DOMAIN linked = {}
        /\ DOMAIN members \cap DOMAIN linked = {}
    BY <1>1, <1>2, <1>4
  <1>6. /\ DOMAIN groups' = DOMAIN groups \cup DOMAIN linked
        /\ \A g \in DOMAIN groups : groups'[g] = groups[g]
        /\ \A g \in DOMAIN linked : groups'[g] = u
    BY <1>5 DEF NewGroups, Extend
  <1>7. /\ DOMAIN members' = DOMAIN members \cup DOMAIN linked
        /\ \A g \in DOMAIN members : members'[g] = members[g]
        /\ \A g \in DOMAIN linked : members'[g] = linked[g]
    BY <1>5 DEF NewGroups, Extend
  <1>8. links' = links \cup {l \in (DOMAIN linked) \X RecordIds : l[2] \in linked[l[1]]}
    BY DEF NewGroups
  <1>9. \A g, i : g \notin DOMAIN linked
                    => (<<g, i>> \in links' <=> <<g, i>> \in links)
    BY <1>8
  <1>10. ASSUME NEW g \in DOMAIN linked, NEW i
         PROVE  <<g, i>> \in links' <=> i \in linked[g]
    <2>1. <<g, i>> \notin links
      BY <1>5 DEF TypeOK, TablesOK
    <2>2. i \in linked[g] => i \in RecordIds
      BY <1>1, <1>3, ConstantsAssumption DEF RecordIds
    <2> QED
      BY <1>8, <2>1, <2>2
  <1> QED
    BY <1>1, <1>2, <1>3, <1>5, <1>6, <1>7, <1>9, <1>10

LEMMA GrowWithGroups ==
    ASSUME IInv, Grows, DataUnique', NEW u \in Users, NEW linked,
           NewGroups(u, linked),
           \A g \in DOMAIN linked : linked[g] \subseteq DOMAIN records'
    PROVE  IInv'
  <1> DEFINE new == DOMAIN linked
  <1> USE DEF IInv
  <1>1. /\ lastRecord \in Nat /\ lastRecord' \in 0..MaxRecords
        /\ lastRecord' >= lastRecord
        /\ lastGroup \in Nat /\ lastGroup' \in 0..MaxGroups
        /\ lastGroup' >= lastGroup
        /\ new = (lastGroup + 1)..lastGroup'
        /\ DOMAIN records' \subseteq 1..lastRecord'
    BY NewGroupsFacts
  <1>2. /\ DOMAIN groups \cap new = {} /\ DOMAIN members \cap new = {}
        /\ DOMAIN groups' = DOMAIN groups \cup new
        /\ \A g \in DOMAIN groups : groups'[g] = groups[g]
        /\ \A g \in new : groups'[g] = u
        /\ DOMAIN members' = DOMAIN members \cup new
        /\ \A g \in DOMAIN members : members'[g] = members[g]
        /\ \A g \in new : members'[g] = linked[g]
    BY NewGroupsFacts
  <1>3. /\ \A g, i : g \notin new => (<<g, i>> \in links' <=> <<g, i>> \in links)
        /\ \A g \in new : \A i : <<g, i>> \in links' <=> i \in linked[g]
    BY NewGroupsFacts
  <1>4. links' \subseteq links \cup (new \X RecordIds)
    BY DEF NewGroups
  <1>5. RequestsOK' /\ DeletedLinksRequested'
    BY <1>1, GrowRequests
  <1>6. TablesOK'
    <2>2. \A g \in DOMAIN members' : members'[g] \subseteq 1..lastRecord'
      BY <1>1, <1>2 DEF TypeOK, TablesOK
    <2>3. links' \subseteq (DOMAIN groups') \X (DOMAIN records')
      <3>1. \A l \in links' : l = <<l[1], l[2]>>
        BY <1>4 DEF TypeOK, TablesOK
      <3>2. \A l \in links' : l[1] \in DOMAIN groups' /\ l[2] \in DOMAIN records'
        <4> SUFFICES ASSUME NEW l \in links'
                     PROVE  l[1] \in DOMAIN groups' /\ l[2] \in DOMAIN records'
          OBVIOUS
        <4>1. CASE l[1] \in new
          <5>1. l[2] \in linked[l[1]]
            BY <1>3, <3>1, <4>1
          <5> QED
            BY <1>2, <4>1, <5>1
        <4>2. CASE l[1] \notin new
          <5>1. l \in links
            BY <1>4, <4>2
          <5> QED
            BY <1>2, <5>1 DEF Grows, TypeOK, TablesOK
        <4> QED
          BY <4>1, <4>2
      <3> QED
        BY <3>1, <3>2
    <2>4. DOMAIN groups' \subseteq 1..lastGroup' /\ DOMAIN members' = 1..lastGroup'
      BY <1>1, <1>2 DEF TypeOK, TablesOK
    <2>5. \A g \in DOMAIN groups' : groups'[g] \in Users
      BY <1>2 DEF TypeOK, TablesOK
    <2> QED
      BY <1>1, <2>2, <2>3, <2>4, <2>5 DEF Grows, TablesOK
  <1>7. GroupIntegrity'
    <2>1. ASSUME NEW i \in DOMAIN records' \ DOMAIN records,
                 NEW g \in DOMAIN members
          PROVE  i \notin members[g] /\ <<g, i>> \notin links
      <3>1. i > lastRecord
        BY <1>1 DEF Grows
      <3> QED
        BY <1>1, <3>1 DEF TypeOK, TablesOK
    <2>2. DOMAIN groups \subseteq DOMAIN members
      BY DEF TypeOK, TablesOK
    <2>3. ASSUME NEW g \in new
          PROVE  {i \in DOMAIN records' : <<g, i>> \in links'}
                   = members'[g] \cap DOMAIN records'
      BY <1>2, <1>3
    <2>4. ASSUME NEW g \in DOMAIN groups
          PROVE  {i \in DOMAIN records' : <<g, i>> \in links'}
                   = members'[g] \cap DOMAIN records'
      <3>1. \A i \in DOMAIN records : <<g, i>> \in links <=> i \in members[g]
        BY DEF GroupIntegrity
      <3>2. \A i \in DOMAIN records' : <<g, i>> \in links <=> i \in members[g]
        BY <2>1, <2>2, <3>1
      <3>3. members'[g] = members[g] /\ g \notin new
        BY <1>2, <2>2
      <3> QED
        BY <1>3, <3>2, <3>3
    <2>5. ASSUME NEW g \in DOMAIN members' \ DOMAIN groups'
          PROVE  members'[g] \cap DOMAIN records' = {}
      <3>1. /\ g \in DOMAIN members \ DOMAIN groups
            /\ members'[g] = members[g]
        BY <1>2
      <3>2. members[g] \cap DOMAIN records = {}
        BY <3>1 DEF GroupIntegrity
      <3> QED
        BY <2>1, <3>1, <3>2
    <2> QED
      BY <1>2, <2>3, <2>4, <2>5 DEF GroupIntegrity
  <1>8. DeletedGroupsEmpty'
    <2>1. \A r \in Requests : new \cap delGroups[r] = {}
      BY <1>1 DEF DeletedGroupsEmpty
    <2>2. \A l \in links' : l \in links \/ l[1] \in new
      BY <1>4
    <2> QED
      BY <1>1, <2>1, <2>2 DEF DeletedGroupsEmpty, Linked, SeenLinks, Grows
  <1> QED
    BY <1>5, <1>6, <1>7, <1>8 DEF TypeOK
-----------------------------------------------------------------------------
(* What a batch does to the records.                                       *)
LEMMA SaveDataFacts ==
    ASSUME IInv, NEW u \in Users, NEW data \in Batches,
           NEW linked \in GroupsWith(DOMAIN data), SaveData(u, data, linked)
    PROVE  /\ lastRecord \in Nat /\ lastRecord' \in Nat
           /\ DOMAIN data = (lastRecord + 1)..lastRecord'
           /\ DOMAIN records \cap DOMAIN data = {}
           /\ DOMAIN records' = DOMAIN records \cup DOMAIN data
           /\ \A i \in DOMAIN records : records'[i] = records[i]
           /\ \A i \in DOMAIN data :
                 records'[i] = [owner |-> u, source |-> data[i].source,
                                hash |-> data[i].hash]
           /\ Grows /\ DataUnique'
  <1> USE DEF IInv
  <1>1. /\ lastRecord \in Nat /\ lastRecord' \in lastRecord..MaxRecords
        /\ lastRecord' \in Nat /\ DOMAIN data = (lastRecord + 1)..lastRecord'
        /\ DOMAIN records \subseteq 1..lastRecord
    BY ConstantsAssumption DEF SaveData, TypeOK, TablesOK
  <1>2. DOMAIN records \cap DOMAIN data = {}
    BY <1>1
  <1>3. /\ DOMAIN records' = DOMAIN records \cup DOMAIN data
        /\ \A i \in DOMAIN records : records'[i] = records[i]
        /\ \A i \in DOMAIN data :
              records'[i] = [owner |-> u, source |-> data[i].source,
                             hash |-> data[i].hash]
    BY <1>2 DEF SaveData, Extend
  <1>4. \A i \in DOMAIN data : data[i] \in [source: Endpoints, hash: Hashes]
    BY DEF Batches
  <1>5. \A i \in DOMAIN data : records'[i] \in Record
    BY <1>3, <1>4 DEF Record
  <1>6. Grows
    BY <1>1, <1>3, <1>5 DEF SaveData, Grows, TypeOK, TablesOK
  <1>7. DataUnique'
    <2>1. \A i \in DOMAIN data : records'[i].hash = data[i].hash
      BY <1>3
    <2>2. /\ \A i \in DOMAIN data : \A j \in DOMAIN records : data[i].hash # records[j].hash
          /\ \A i, j \in DOMAIN data : data[i].hash = data[j].hash => i = j
      BY DEF SaveData, Used
    <2> QED
      BY <1>3, <2>1, <2>2 DEF DataUnique
  <1> QED
    BY <1>1, <1>2, <1>3, <1>6, <1>7

LEMMA SaveDataStep ==
    ASSUME IInv, NEW u \in Users, NEW data \in Batches,
           NEW linked \in GroupsWith(DOMAIN data), SaveData(u, data, linked)
    PROVE  IInv'
  <1>1. Grows /\ DataUnique' /\ DOMAIN records' = DOMAIN records \cup DOMAIN data
    BY SaveDataFacts
  <1>2. \A g \in DOMAIN linked : linked[g] \subseteq DOMAIN records'
    BY <1>1 DEF SaveData
  <1> QED
    BY <1>1, <1>2, GrowWithGroups DEF SaveData

LEMMA SaveRecordGroupStep ==
    ASSUME IInv, NEW u \in Users, NEW S \in SUBSET DOMAIN records,
           SaveRecordGroup(u, S)
    PROVE  IInv'
  <1>1. Grows
    BY ConstantsAssumption DEF SaveRecordGroup, Grows, IInv, TypeOK, TablesOK
  <1>2. DataUnique'
    BY DEF SaveRecordGroup, IInv, DataUnique
  <1> DEFINE linked == [g \in {lastGroup + 1} |-> S]
  <1>3. \A g \in DOMAIN linked : linked[g] \subseteq DOMAIN records'
    BY DEF SaveRecordGroup
  <1>4. NewGroups(u, linked)
    BY DEF SaveRecordGroup
  <1> HIDE DEF linked
  <1> QED
    BY <1>1, <1>2, <1>3, <1>4, GrowWithGroups

(* One statement of updateRecords takes a well-formed table to another of  *)
(* the same records.                                                       *)
WellFormed(recs) ==
    /\ \A j \in DOMAIN recs : recs[j] \in Record
    /\ \A j, k \in DOMAIN recs : recs[j].hash = recs[k].hash => j = k
SameSources(recs, recs2) ==
    /\ DOMAIN recs2 = DOMAIN recs
    /\ \A j \in DOMAIN recs : recs2[j].source = recs[j].source

LEMMA UpdateFacts ==
    ASSUME NEW recs, NEW u \in Users, NEW i, NEW h \in Hashes,
           Updatable(recs, u, i, h), WellFormed(recs)
    PROVE  /\ WellFormed([recs EXCEPT ![i].hash = h])
           /\ SameSources(recs, [recs EXCEPT ![i].hash = h])
  <1> DEFINE recs2 == [recs EXCEPT ![i].hash = h]
  <1>1. /\ DOMAIN recs2 = DOMAIN recs /\ i \in DOMAIN recs
        /\ recs2[i] = [recs[i] EXCEPT !.hash = h]
        /\ \A j \in DOMAIN recs \ {i} : recs2[j] = recs[j]
    BY DEF Updatable
  <1>2. /\ recs2[i] \in Record /\ recs2[i].hash = h
        /\ recs2[i].source = recs[i].source
    BY <1>1 DEF Record, WellFormed
  <1> HIDE DEF recs2
  <1>3. WellFormed(recs2) /\ SameSources(recs, recs2)
    BY <1>1, <1>2 DEF Updatable, WellFormed, SameSources
  <1> QED
    BY <1>3 DEF recs2

LEMMA UpdateStep ==
    ASSUME IInv, NEW u \in Users, NEW i \in DOMAIN records, NEW h \in Hashes,
           NEW j \in DOMAIN records, NEW h2 \in Hashes,
           UpdateRecords(u, i, h, j, h2)
    PROVE  IInv'
  <1> DEFINE first == [records EXCEPT ![i].hash = h]
             second == [first EXCEPT ![j].hash = h2]
  <1>1. /\ Updatable(records, u, i, h) /\ Updatable(first, u, j, h2)
        /\ records' = second
    BY DEF UpdateRecords
  <1>2. WellFormed(records)
    BY DEF WellFormed, IInv, TypeOK, TablesOK, DataUnique
  <1>3. WellFormed(first) /\ SameSources(records, first)
    BY <1>1, <1>2, UpdateFacts
  <1> HIDE DEF first
  <1>4. WellFormed(second) /\ SameSources(first, second)
    BY <1>1, <1>3, UpdateFacts
  <1> HIDE DEF second
  <1>5. Grows
    <2>1. /\ DOMAIN records' = DOMAIN records
          /\ \A k \in DOMAIN records : records'[k].source = records[k].source
          /\ \A k \in DOMAIN records' : records'[k] \in Record
      BY <1>1, <1>3, <1>4 DEF WellFormed, SameSources
    <2>2. lastRecord' \in lastRecord..MaxRecords
      BY ConstantsAssumption DEF UpdateRecords, IInv, TypeOK, TablesOK
    <2> QED
      BY <2>1, <2>2 DEF UpdateRecords, Grows
  <1>6. DataUnique'
    BY <1>1, <1>4 DEF WellFormed, DataUnique
  <1> QED
    BY <1>5, <1>6, GrowWithoutGroup DEF UpdateRecords
-----------------------------------------------------------------------------
(* The inductive invariant: every step, of any number of deletions that    *)
(* interleave in any way with saves, links and updates, preserves it.      *)
LEMMA NextPreserves == IInv /\ [Next]_vars => IInv'
  <1> SUFFICES ASSUME IInv, [Next]_vars PROVE IInv'
    OBVIOUS
  <1>1. ASSUME NEW u \in Users, NEW data \in Batches,
               NEW linked \in GroupsWith(DOMAIN data), SaveData(u, data, linked)
        PROVE  IInv'
    BY <1>1, SaveDataStep
  <1>3. ASSUME NEW u \in Users, NEW S \in SUBSET DOMAIN records,
               SaveRecordGroup(u, S)
        PROVE  IInv'
    BY <1>3, SaveRecordGroupStep
  <1>4. ASSUME NEW u \in Users, NEW i \in DOMAIN records, NEW j \in DOMAIN records,
               NEW h \in Hashes, NEW h2 \in Hashes,
               UpdateRecords(u, i, h, j, h2)
        PROVE  IInv'
    BY <1>4, UpdateStep
  <1>5. ASSUME NEW r \in Requests, NEW u \in Users, NEW S \in SUBSET (1..lastRecord),
               DeleteStart(r, [user |-> u, ids |-> S])
        PROVE  IInv'
    <2>1. 1..lastRecord \subseteq RecordIds
      BY ConstantsAssumption DEF IInv, TypeOK, TablesOK, RecordIds
    <2>2. [user |-> u, ids |-> S] \in DeleteRequest
      BY <2>1 DEF DeleteRequest
    <2> QED
      BY <1>5, <2>2, StartStep
  <1>6. ASSUME NEW r \in Requests, NEW e \in Endpoints,
               DeleteStart(r, [source |-> e])
        PROVE  IInv'
    <2>1. [source |-> e] \in EndpointRequest
      BY DEF EndpointRequest
    <2> QED
      BY <1>6, <2>1, StartStep
  <1>7. ASSUME NEW r \in Requests, Delete(r) PROVE IInv'
    BY <1>7, LinksStep, GroupsStep, CommitStep DEF Delete
  <1>8. ASSUME NEW r \in Requests, Abort(r) PROVE IInv'
    BY <1>8, RollbackStep DEF Abort
  <1>9. CASE UNCHANGED vars
    <2> USE <1>9 DEF vars, tables, IInv
    <2>1. TypeOK'
      BY DEF TypeOK, TablesOK, RequestsOK
    <2>2. DataUnique' /\ GroupIntegrity'
      BY DEF DataUnique, GroupIntegrity
    <2>3. DeletedLinksRequested'
      BY DEF DeletedLinksRequested, Requested, OfRecords, OfEndpoint
    <2>4. DeletedGroupsEmpty'
      BY DEF DeletedGroupsEmpty, Linked, SeenLinks
    <2> QED
      BY <2>1, <2>2, <2>3, <2>4
  <1> QED
    BY <1>1, <1>3, <1>4, <1>5, <1>6, <1>7, <1>8, <1>9 DEF Next

THEOREM Inductive == Spec => []IInv
  BY InitEstablishes, NextPreserves, PTL DEF Spec

(* RichData.TypeOK holds for every value of the constants.                 *)
THEOREM TypeCorrect == Spec => []TypeOK
  <1>1. IInv => TypeOK
    BY DEF IInv
  <1> QED
    BY <1>1, Inductive, PTL

(* Deletions at READ COMMITTED, in any number, leave every group with      *)
(* exactly the links of its records that remain.                           *)
THEOREM GroupsHold == Spec => []GroupIntegrity
  <1>1. IInv => GroupIntegrity
    BY DEF IInv
  <1> QED
    BY <1>1, Inductive, PTL

(* A step that changes the tables and ends a deletion is that deletion's   *)
(* commit.                                                                 *)
LEMMA EndsByCommit ==
    ASSUME IInv, Next, NEW r \in Requests,
           pc[r] = "deleteRecords", tables' # tables, pc'[r] = "idle"
    PROVE  DeleteRecords(r)
  <1>1. ASSUME NEW q \in Requests, DeleteRecords(q) PROVE q = r
    BY <1>1 DEF DeleteRecords, Rollback, Idle, Goto, IInv, TypeOK, RequestsOK
  <1>2. \A q \in Requests : ~DeleteLinks(q) /\ ~DeleteGroups(q) /\ ~Abort(q)
    BY DEF DeleteLinks, DeleteGroups, Abort, Rollback, tables
  <1>3. \A q \in Requests : \A p : ~DeleteStart(q, p)
    BY DEF DeleteStart, tables
  <1>4. pc' # pc
    BY DEF IInv, TypeOK, RequestsOK
  <1>5. /\ \A u, data, linked : ~SaveData(u, data, linked)
        /\ \A u, S : ~SaveRecordGroup(u, S)
        /\ \A u, i, h, j, h2 : ~UpdateRecords(u, i, h, j, h2)
    BY <1>4 DEF SaveData, SaveRecordGroup, UpdateRecords
  <1> QED
    BY <1>1, <1>2, <1>3, <1>5 DEF Next, Delete

(* deleteRecords removes the records it was asked for, its user's, and of  *)
(* everything else no record, no link and no group that has one.           *)
THEOREM DeletionsHold == Spec => DeletesOwnAndAll
  <1>1. ASSUME IInv, IInv', [Next]_vars, NEW r \in Requests, OfRecords(r),
               pc[r] = "deleteRecords", tables' # tables, pc'[r] = "idle"
        PROVE  /\ DOMAIN records \ DOMAIN records' = req[r].ids
               /\ \A i \in req[r].ids : records[i].owner = req[r].user
               /\ \A i \in DOMAIN records' : records'[i] = records[i]
               /\ links' = {l \in links : l[2] \notin req[r].ids}
               /\ \A g \in DOMAIN groups \ DOMAIN groups' : members[g] \cap DOMAIN records' = {}
    <2>1. DeleteRecords(r)
      BY <1>1, EndsByCommit DEF vars
    <2>2. /\ Complete(r) /\ LinksTo(Found(r)) \cap SeenLinks(r) = {}
          /\ records' = Drop(records, Found(r)) /\ links' = SeenLinks(r)
          /\ members' = members
      BY <1>1, <2>1 DEF DeleteRecords, Rollback
    <2>3. /\ Found(r) = req[r].ids /\ Found(r) \subseteq DOMAIN records
          /\ \A i \in Found(r) : records[i].owner = req[r].user
      BY <1>1, <2>2 DEF Complete, Found
    <2>4. /\ DOMAIN records' = DOMAIN records \ Found(r)
          /\ \A i \in DOMAIN records' : records'[i] = records[i]
      BY <2>2 DEF Drop
    <2>5. links' = {l \in links : l[2] \notin Found(r)}
      <3>1. \A l \in links : l[2] \in Found(r) => l \notin links'
        BY <2>2 DEF LinksTo
      <3>2. \A l \in links \ links' : l \in delLinks[r] /\ l[2] \in DOMAIN records
        BY <1>1, <2>2 DEF SeenLinks, IInv, TypeOK, TablesOK
      <3>3. Requested(r) = Found(r)
        BY <1>1, <2>3 DEF Requested
      <3>4. \A l \in links \ links' : l[2] \in Found(r)
        BY <1>1, <3>2, <3>3 DEF IInv, DeletedLinksRequested
      <3>5. links' \subseteq links
        BY <2>2 DEF SeenLinks
      <3> QED
        BY <3>1, <3>4, <3>5
    (* A group that goes has kept no record.                               *)
    <2>6. ASSUME NEW g \in DOMAIN groups \ DOMAIN groups'
          PROVE  members[g] \cap DOMAIN records' = {}
      <3>1. g \in DOMAIN members' \ DOMAIN groups'
        BY <1>1, <2>2 DEF IInv, TypeOK, TablesOK
      <3> QED
        BY <1>1, <2>2, <3>1 DEF IInv, GroupIntegrity
    <2> QED
      BY <2>3, <2>4, <2>5, <2>6
  <1>2. IInv /\ IInv' /\ [Next]_vars =>
          [\A r \in Requests :
             pc[r] = "deleteRecords" /\ OfRecords(r) /\ tables' # tables /\ pc'[r] = "idle"
               => /\ DOMAIN records \ DOMAIN records' = req[r].ids
                  /\ \A i \in req[r].ids : records[i].owner = req[r].user
                  /\ \A i \in DOMAIN records' : records'[i] = records[i]
                  /\ links' = {l \in links : l[2] \notin req[r].ids}
                  /\ \A g \in DOMAIN groups \ DOMAIN groups' : members[g] \cap DOMAIN records' = {}
          ]_vars
    BY <1>1
  <1> QED
    BY <1>2, Inductive, PTL DEF Spec, DeletesOwnAndAll
-----------------------------------------------------------------------------
(* The abstract store: what the tables show, as Archive sees it.           *)
LEMMA ContentsFacts ==
    /\ DOMAIN Contents = DOMAIN groups
    /\ \A g \in DOMAIN groups :
          Contents[g] = [owner |-> groups[g],
                         members |-> {i \in DOMAIN records : <<g, i>> \in links}]
  BY DEF Contents

LEMMA InitArchive == Init => Store!Init
  <1> SUFFICES ASSUME Init PROVE Store!Init
    OBVIOUS
  <1>1. Contents = <<>>
    BY DEF Init, Contents
  <1>2. 1..lastRecord = {} /\ 1..lastGroup = {}
    BY DEF Init
  <1> QED
    BY <1>1, <1>2 DEF Init, Store!Init

(* New records are in no group that was there before.                      *)
LEMMA ContentsStay ==
    ASSUME IInv, Grows, NEW g \in DOMAIN groups,
           \A i : <<g, i>> \in links' <=> <<g, i>> \in links
    PROVE  {i \in DOMAIN records' : <<g, i>> \in links'}
             = {i \in DOMAIN records : <<g, i>> \in links}
  <1>1. \A i : <<g, i>> \in links => i \in DOMAIN records
    BY DEF IInv, TypeOK, TablesOK
  <1> QED
    BY <1>1 DEF Grows

LEMMA NoGroupArchive ==
    ASSUME IInv, Grows, NoGroup
    PROVE  Store!NoGroup
  <1>1. \A g \in DOMAIN groups :
           {i \in DOMAIN records' : <<g, i>> \in links'}
             = {i \in DOMAIN records : <<g, i>> \in links}
    BY ContentsStay DEF NoGroup
  <1>2. Contents' = Contents
    BY <1>1 DEF Contents, NoGroup
  <1> QED
    BY <1>2 DEF NoGroup, Store!NoGroup

LEMMA NewGroupsArchive ==
    ASSUME IInv, Grows, NEW u \in Users, NEW linked, NewGroups(u, linked),
           \A g \in DOMAIN linked : linked[g] \subseteq DOMAIN records'
    PROVE  /\ Store!NewGroups(u, linked)
           /\ DOMAIN linked \subseteq GroupIds \ (1..lastGroup)
  <1> DEFINE new == DOMAIN linked
  <1>1. /\ lastGroup \in Nat /\ lastGroup' \in 0..MaxGroups
        /\ lastGroup' >= lastGroup /\ new = (lastGroup + 1)..lastGroup'
    BY NewGroupsFacts
  <1>2. /\ DOMAIN groups \cap new = {}
        /\ DOMAIN groups' = DOMAIN groups \cup new
        /\ \A g \in DOMAIN groups : groups'[g] = groups[g]
        /\ \A g \in new : groups'[g] = u
    BY NewGroupsFacts
  <1>3. /\ \A g, i : g \notin new => (<<g, i>> \in links' <=> <<g, i>> \in links)
        /\ \A g \in new : \A i : <<g, i>> \in links' <=> i \in linked[g]
    BY NewGroupsFacts
  <1>4. \A g \in DOMAIN groups : Contents'[g] = Contents[g]
    <2> SUFFICES ASSUME NEW g \in DOMAIN groups PROVE Contents'[g] = Contents[g]
      OBVIOUS
    <2>1. \A i : <<g, i>> \in links' <=> <<g, i>> \in links
      BY <1>2, <1>3
    <2> QED
      BY <2>1, <1>2, ContentsStay DEF Contents
  <1>5. \A g \in new : Contents'[g] = [owner |-> u, members |-> linked[g]]
    <2> SUFFICES ASSUME NEW g \in new
                 PROVE  Contents'[g] = [owner |-> u, members |-> linked[g]]
      OBVIOUS
    <2>1. {i \in DOMAIN records' : <<g, i>> \in links'} = linked[g]
      BY <1>3
    <2> QED
      BY <1>2, <2>1 DEF Contents
  <1>6. Contents' = [k \in DOMAIN Contents \cup new |->
                       IF k \in new THEN [owner |-> u, members |-> linked[k]]
                       ELSE Contents[k]]
    <2>1. /\ DOMAIN Contents' = DOMAIN Contents \cup new
          /\ Contents' = [k \in DOMAIN Contents' |-> Contents'[k]]
      BY <1>2 DEF Contents
    <2>2. \A k \in DOMAIN Contents : k \notin new /\ Contents'[k] = Contents[k]
      BY <1>2, <1>4 DEF Contents
    <2> HIDE DEF new
    <2> QED
      BY <1>5, <2>1, <2>2
  <1>7. /\ new \subseteq GroupIds \ (1..lastGroup)
        /\ 1..lastGroup' = (1..lastGroup) \cup new
    BY <1>1, ConstantsAssumption DEF GroupIds
  <1> HIDE DEF new
  <1>8. Store!NewGroups(u, linked)
    BY <1>6, <1>7 DEF Store!NewGroups, new
  <1> QED
    BY <1>7, <1>8 DEF new

(* A batch of records, with the groups it makes.                           *)
LEMMA SaveArchive ==
    ASSUME IInv, NEW u \in Users, NEW data \in Batches,
           NEW linked \in GroupsWith(DOMAIN data), SaveData(u, data, linked)
    PROVE  Store!Save(u)
  <1> DEFINE new == DOMAIN data
  <1>1. /\ lastRecord \in Nat /\ lastRecord' \in Nat
        /\ new = (lastRecord + 1)..lastRecord' /\ DOMAIN records \cap new = {}
        /\ DOMAIN records' = DOMAIN records \cup new
        /\ \A i \in DOMAIN records : records'[i] = records[i]
        /\ \A i \in new : records'[i] = [owner |-> u, source |-> data[i].source,
                                         hash |-> data[i].hash]
        /\ Grows /\ DataUnique'
    BY SaveDataFacts
  <1>2. lastRecord' >= lastRecord
    BY <1>1 DEF Grows
  <1>3. /\ new \cap (1..lastRecord) = {}
        /\ 1..lastRecord' = (1..lastRecord) \cup new
    BY <1>1, <1>2
  <1>4. \A i \in new : records'[i].owner = u
    <2> SUFFICES ASSUME NEW i \in new PROVE records'[i].owner = u
      OBVIOUS
    <2>1. records'[i] = [owner |-> u, source |-> data[i].source, hash |-> data[i].hash]
      BY <1>1
    <2> QED
      BY <2>1
  <1>5. \A g \in DOMAIN linked : /\ linked[g] \subseteq DOMAIN records'
                                 /\ linked[g] \cap new # {}
    BY <1>1 DEF SaveData
  <1>6. /\ Store!NewGroups(u, linked)
        /\ DOMAIN linked \subseteq GroupIds \ (1..lastGroup)
    BY <1>1, <1>5, NewGroupsArchive DEF SaveData
  <1>7. linked \in [DOMAIN linked -> SUBSET DOMAIN records']
    BY <1>5 DEF GroupsWith
  <1> HIDE DEF new
  <1>8. Store!New = new
    BY <1>1 DEF Store!New
  <1>9. Store!Unique(records')
    BY <1>1 DEF Store!Unique, DataUnique
  <1>10. \E S \in SUBSET (GroupIds \ (1..lastGroup)) :
           \E made \in [S -> SUBSET DOMAIN records'] :
             /\ \A g \in S : made[g] \cap Store!New # {}
             /\ Store!NewGroups(u, made)
    BY <1>5, <1>6, <1>7, <1>8
  <1>11. /\ DOMAIN records \subseteq DOMAIN records'
         /\ \A i \in Store!New : records'[i].owner = u /\ i \notin 1..lastRecord
         /\ 1..lastRecord' = (1..lastRecord) \cup Store!New
    BY <1>1, <1>3, <1>4, <1>8
  <1> QED
    BY <1>1, <1>9, <1>10, <1>11 DEF Store!Save
-----------------------------------------------------------------------------
(* A statement of a deletion that is not its commit changes no table.      *)
LEMMA QuietArchive == UNCHANGED tables => UNCHANGED Store!vars
  BY DEF tables, Store!vars, Contents

(* The commit of a deletion.                                               *)
LEMMA CommitArchive ==
    ASSUME IInv, NEW r \in Requests, DeleteRecords(r)
    PROVE  UNCHANGED tables \/ Store!Remove(Found(r))
  <1>1. CASE Rollback(r)
    BY <1>1 DEF Rollback
  <1>2. CASE ~Rollback(r)
    <2>1. /\ Complete(r) /\ LinksTo(Found(r)) \cap SeenLinks(r) = {}
          /\ records' = Drop(records, Found(r))
          /\ groups' = Drop(groups, delGroups[r])
          /\ links' = SeenLinks(r)
          /\ UNCHANGED <<lastRecord, lastGroup>>
      BY <1>2 DEF DeleteRecords
    <2>2. records' = [i \in DOMAIN records \ Found(r) |-> records[i]]
      BY <2>1 DEF Drop
    <2>3. Found(r) = Requested(r)
      BY <2>1 DEF Complete, Found, Requested
    <2>4. \A l \in delLinks[r] : l[2] \in DOMAIN records => l[2] \in Found(r)
      BY <2>3 DEF IInv, DeletedLinksRequested
    <2> DEFINE empty == delGroups[r] \cap DOMAIN groups
    <2>5. /\ DOMAIN groups' = DOMAIN groups \ empty
          /\ \A g \in DOMAIN groups' : groups'[g] = groups[g]
      BY <2>1 DEF Drop
    <2>6. empty \in SUBSET {g \in DOMAIN Contents : Contents[g].members \subseteq Found(r)}
      <3>1. ASSUME NEW g \in empty, NEW i \in DOMAIN records, <<g, i>> \in links
            PROVE  i \in Found(r)
        <4>1. <<g, i>> \in delLinks[r]
          BY <3>1 DEF IInv, DeletedGroupsEmpty, Linked, SeenLinks
        <4> QED
          BY <2>4, <4>1
      <3>2. \A g \in empty : Contents[g].members \subseteq Found(r)
        <4>1. \A g \in empty :
                 Contents[g].members = {i \in DOMAIN records : <<g, i>> \in links}
          BY ContentsFacts
        <4> QED
          BY <3>1, <4>1
      <3>3. empty \subseteq DOMAIN Contents
        BY ContentsFacts
      <3> QED
        BY <3>2, <3>3
    <2>7. ASSUME NEW g \in DOMAIN groups'
          PROVE  {i \in DOMAIN records' : <<g, i>> \in links'}
                   = {i \in DOMAIN records : <<g, i>> \in links} \ Found(r)
      <3>1. \A i \in DOMAIN records \ Found(r) : <<g, i>> \notin delLinks[r]
        BY <2>4
      <3>2. DOMAIN records' = DOMAIN records \ Found(r)
        BY <2>2
      <3> QED
        BY <2>1, <3>1, <3>2 DEF SeenLinks
    <2>8. Contents' = [g \in DOMAIN Contents \ empty |->
                         [Contents[g] EXCEPT !.members = @ \ Found(r)]]
      <3>1. \A g \in DOMAIN groups' :
               Contents'[g] = [Contents[g] EXCEPT !.members = @ \ Found(r)]
        <4> SUFFICES ASSUME NEW g \in DOMAIN groups'
                     PROVE  Contents'[g] = [Contents[g] EXCEPT !.members = @ \ Found(r)]
          OBVIOUS
        <4>1. g \in DOMAIN groups /\ groups'[g] = groups[g]
          BY <2>5
        <4>2. Contents'[g] = [owner |-> groups[g],
                              members |-> {i \in DOMAIN records : <<g, i>> \in links}
                                            \ Found(r)]
          BY <2>7, <4>1 DEF Contents
        <4> DEFINE linked == {i \in DOMAIN records : <<g, i>> \in links}
        <4>3. Contents[g] = [owner |-> groups[g], members |-> linked]
          BY <4>1, ContentsFacts
        <4> HIDE DEF linked
        <4>4. [Contents[g] EXCEPT !.members = @ \ Found(r)]
                = [owner |-> groups[g], members |-> linked \ Found(r)]
          BY <4>3
        <4> QED
          BY <4>2, <4>4 DEF linked
      <3>2. Contents' = [g \in DOMAIN groups' |-> Contents'[g]]
        BY DEF Contents
      <3>3. DOMAIN groups' = DOMAIN Contents \ empty
        BY <2>5 DEF Contents
      <3> HIDE DEF empty
      <3> QED
        BY <3>1, <3>2, <3>3
    <2> HIDE DEF empty
    <2> QED
      BY <2>1, <2>2, <2>6, <2>8 DEF Store!Remove
  <1> QED
    BY <1>1, <1>2

(* It removes records of the user who asks, or of the endpoint asked for.  *)
LEMMA DeleteArchive ==
    ASSUME IInv, NEW r \in Requests, DeleteRecords(r)
    PROVE  [Store!Next]_Store!vars
  <1>1. CASE UNCHANGED tables
    BY <1>1, QuietArchive
  <1>2. CASE Store!Remove(Found(r)) /\ OfRecords(r)
    <2>1. req[r].user \in Users
      BY <1>2 DEF OfRecords, DeleteRequest
    <2>2. Found(r) \subseteq {i \in DOMAIN records : records[i].owner = req[r].user}
      BY <1>2 DEF Found
    <2>3. Store!DeleteRecords(req[r].user)
      BY <1>2, <2>2 DEF Store!DeleteRecords
    <2> QED
      BY <2>1, <2>3 DEF Store!Next
  <1>3. CASE Store!Remove(Found(r)) /\ ~OfRecords(r)
    <2>1. req[r] \in EndpointRequest
      BY <1>3 DEF OfRecords, DeleteRecords, IInv, TypeOK, RequestsOK
    <2>2. req[r].source \in Endpoints
      BY <2>1 DEF EndpointRequest
    <2>3. Found(r) = {i \in DOMAIN records : records[i].source = req[r].source}
      BY <1>3 DEF Found, Requested, OfEndpoint
    <2>4. Store!DeleteEndpoint(req[r].source)
      BY <1>3, <2>3 DEF Store!DeleteEndpoint
    <2> QED
      BY <2>2, <2>4 DEF Store!Next
  <1> QED
    BY <1>1, <1>2, <1>3, CommitArchive
-----------------------------------------------------------------------------
LEMMA LinkArchive ==
    ASSUME IInv, NEW u \in Users, NEW S \in SUBSET DOMAIN records,
           SaveRecordGroup(u, S)
    PROVE  Store!Link(u)
  <1> DEFINE g == lastGroup + 1
             made == [k \in {g} |-> S]
  <1>1. Grows
    BY ConstantsAssumption DEF SaveRecordGroup, Grows, IInv, TypeOK, TablesOK
  <1>2. NewGroups(u, made) /\ records' = records /\ lastRecord' = lastRecord
    BY DEF SaveRecordGroup
  <1>3. \A k \in DOMAIN made : made[k] \subseteq DOMAIN records'
    BY <1>2
  <1>4. DOMAIN made = {g} /\ made \in [{g} -> SUBSET DOMAIN records]
    OBVIOUS
  <1> HIDE DEF made, g
  <1>5. Store!NewGroups(u, made) /\ g \in GroupIds \ (1..lastGroup)
    BY <1>1, <1>2, <1>3, <1>4, NewGroupsArchive
  <1> QED
    BY <1>2, <1>4, <1>5 DEF Store!Link

(* One statement of updateRecords changes the data of a record of the user.*)
OwnData(u, recs, recs2) ==
    /\ DOMAIN recs2 = DOMAIN recs
    /\ \A i \in DOMAIN recs :
          /\ recs2[i].owner = recs[i].owner /\ recs2[i].source = recs[i].source
          /\ recs2[i] # recs[i] => recs[i].owner = u

LEMMA UpdateOwnData ==
    ASSUME NEW recs, NEW u \in Users, NEW i, NEW h \in Hashes,
           Updatable(recs, u, i, h), WellFormed(recs)
    PROVE  OwnData(u, recs, [recs EXCEPT ![i].hash = h])
  <1> DEFINE recs2 == [recs EXCEPT ![i].hash = h]
  <1>1. /\ DOMAIN recs2 = DOMAIN recs /\ i \in DOMAIN recs
        /\ recs2[i] = [recs[i] EXCEPT !.hash = h]
        /\ \A j \in DOMAIN recs \ {i} : recs2[j] = recs[j]
    BY DEF Updatable
  <1>2. /\ recs2[i].owner = recs[i].owner /\ recs2[i].source = recs[i].source
        /\ recs[i].owner = u
    BY <1>1 DEF Record, WellFormed, Updatable
  <1> HIDE DEF recs2
  <1>3. OwnData(u, recs, recs2)
    BY <1>1, <1>2 DEF OwnData
  <1> QED
    BY <1>3 DEF recs2

LEMMA UpdateArchive ==
    ASSUME IInv, IInv', NEW u \in Users, NEW i \in DOMAIN records, NEW h \in Hashes,
           NEW j \in DOMAIN records, NEW h2 \in Hashes,
           UpdateRecords(u, i, h, j, h2)
    PROVE  Store!Update(u)
  <1> DEFINE first == [records EXCEPT ![i].hash = h]
             second == [first EXCEPT ![j].hash = h2]
  <1>1. /\ Updatable(records, u, i, h) /\ Updatable(first, u, j, h2)
        /\ records' = second
    BY DEF UpdateRecords
  <1>2. WellFormed(records)
    BY DEF WellFormed, IInv, TypeOK, TablesOK, DataUnique
  <1>3. WellFormed(first) /\ OwnData(u, records, first)
    BY <1>1, <1>2, UpdateFacts, UpdateOwnData
  <1> HIDE DEF first
  <1>4. OwnData(u, first, second)
    BY <1>1, <1>3, UpdateOwnData
  <1> HIDE DEF second
  <1>5. OwnData(u, records, records')
    BY <1>1, <1>3, <1>4 DEF OwnData
  <1>6. Grows
    <2>1. \A k \in DOMAIN records' : records'[k] \in Record
      BY DEF IInv, TypeOK, TablesOK
    <2>2. lastRecord' \in lastRecord..MaxRecords
      BY ConstantsAssumption DEF UpdateRecords, IInv, TypeOK, TablesOK
    <2> QED
      BY <1>5, <2>1, <2>2 DEF UpdateRecords, Grows, OwnData
  <1>7. Store!NoGroup
    BY <1>6, NoGroupArchive DEF UpdateRecords
  <1>8. Store!Unique(records')
    BY DEF IInv, DataUnique, Store!Unique
  <1>9. 1..lastRecord' = 1..lastRecord
    BY DEF UpdateRecords
  <1> QED
    BY <1>5, <1>7, <1>8, <1>9 DEF Store!Update, OwnData

(* Every step of the data store is a step of Archive, or changes nothing   *)
(* that it tells.                                                          *)
LEMMA StepArchive ==
    ASSUME IInv, IInv', [Next]_vars
    PROVE  [Store!Next]_Store!vars
  <1>1. ASSUME NEW u \in Users, NEW data \in Batches,
               NEW linked \in GroupsWith(DOMAIN data), SaveData(u, data, linked)
        PROVE  Store!Next
    BY <1>1, SaveArchive DEF Store!Next
  <1>3. ASSUME NEW u \in Users, NEW S \in SUBSET DOMAIN records,
               SaveRecordGroup(u, S)
        PROVE  Store!Next
    BY <1>3, LinkArchive DEF Store!Next
  <1>4. ASSUME NEW u \in Users, NEW i \in DOMAIN records, NEW j \in DOMAIN records,
               NEW h \in Hashes, NEW h2 \in Hashes,
               UpdateRecords(u, i, h, j, h2)
        PROVE  Store!Next
    BY <1>4, UpdateArchive DEF Store!Next
  <1>5. ASSUME NEW r \in Requests, NEW q, DeleteStart(r, q)
        PROVE  UNCHANGED tables
    BY <1>5 DEF DeleteStart
  <1>6. ASSUME NEW r \in Requests, Delete(r)
        PROVE  [Store!Next]_Store!vars
    <2>1. CASE DeleteLinks(r) \/ DeleteGroups(r)
      BY <2>1, QuietArchive DEF DeleteLinks, DeleteGroups, Rollback
    <2>2. CASE DeleteRecords(r)
      BY <2>2, DeleteArchive
    <2> QED
      BY <1>6, <2>1, <2>2 DEF Delete
  <1>7. ASSUME NEW r \in Requests, Abort(r) PROVE UNCHANGED tables
    BY <1>7 DEF Abort, Rollback
  <1>8. CASE UNCHANGED vars
    BY <1>8, QuietArchive DEF vars
  <1> QED
    BY <1>1, <1>3, <1>4, <1>5, <1>6, <1>7, <1>8, QuietArchive DEF Next

(* The data store keeps the promise of Archive: requests and deletions in  *)
(* any number, each in three statements at READ COMMITTED, act on the      *)
(* committed tables as if each happened at once or not at all.             *)
THEOREM ArchiveKept == Spec => KeepsArchive
  <1>1. Init => Store!Init
    BY InitArchive
  <1>2. IInv /\ IInv' /\ [Next]_vars => [Store!Next]_Store!vars
    BY StepArchive
  <1> QED
    BY <1>1, <1>2, Inductive, PTL DEF Spec, KeepsArchive, Store!Spec
=============================================================================
