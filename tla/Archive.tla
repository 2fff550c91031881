------------------------------- MODULE Archive -------------------------------
(***************************************************************************)
(* What the data store promises its users, however many transactions carry *)
(* their requests out: every request happens at once or not at all.  Saved *)
(* records are there with the group that links them, deleted records leave *)
(* no link behind, and every other link and record stays as it is.         *)
(***************************************************************************)
CONSTANTS Users,      \* owners of records and groups
          Endpoints,  \* sources of records
          GroupIds    \* what groups may be called

VARIABLES records,    \* id -> [owner, source, hash]
          contents,   \* group -> [owner, members], the records it links
          spent,      \* identifiers that records have had
          spentGroups \* identifiers that groups have had

vars == <<records, contents, spent, spentGroups>>

Init == /\ records = <<>> /\ contents = <<>>
        /\ spent = {} /\ spentGroups = {}

New == DOMAIN records' \ DOMAIN records
Unique(recs) == \A i, j \in DOMAIN recs : recs[i].hash = recs[j].hash => i = j

(* New groups, made[g] being the records of g, which exist once g does.    *)
NewGroups(u, made) ==
    /\ contents' = [g \in DOMAIN contents \cup DOMAIN made |->
                      IF g \in DOMAIN made THEN [owner |-> u, members |-> made[g]]
                      ELSE contents[g]]
    /\ spentGroups' = spentGroups \cup DOMAIN made
NoGroup == UNCHANGED <<contents, spentGroups>>

(* A user saves records, all of them or none, and with them the groups     *)
(* that link them to one another, or to others.                            *)
Save(u) ==
    /\ DOMAIN records \subseteq DOMAIN records'
    /\ \A i \in DOMAIN records : records'[i] = records[i]
    /\ \A i \in New : records'[i].owner = u /\ i \notin spent
    /\ Unique(records')
    /\ spent' = spent \cup New
    /\ \E S \in SUBSET (GroupIds \ spentGroups) :
         \E made \in [S -> SUBSET DOMAIN records'] :
           /\ \A g \in S : made[g] \cap New # {}
           /\ NewGroups(u, made)

(* A user links records that exist, anybody's.                             *)
Link(u) ==
    /\ \E g \in GroupIds \ spentGroups : \E made \in [{g} -> SUBSET DOMAIN records] :
          NewGroups(u, made)
    /\ UNCHANGED <<records, spent>>

(* A user changes the data of records of their own, all of them or none.   *)
Update(u) ==
    /\ DOMAIN records' = DOMAIN records
    /\ \A i \in DOMAIN records :
          records'[i] # records[i]
            => /\ records[i].owner = u /\ records'[i].owner = u
               /\ records'[i].source = records[i].source
    /\ Unique(records')
    /\ NoGroup /\ UNCHANGED spent

(* The records S go, with the links to them and no others; so may groups   *)
(* that have no other records.                                             *)
Remove(S) ==
    /\ records' = [i \in DOMAIN records \ S |-> records[i]]
    /\ \E empty \in SUBSET {g \in DOMAIN contents : contents[g].members \subseteq S} :
          contents' = [g \in DOMAIN contents \ empty |->
                         [contents[g] EXCEPT !.members = @ \ S]]
    /\ UNCHANGED <<spent, spentGroups>>

(* A user deletes records of their own.                                    *)
DeleteRecords(u) ==
    \E S \in SUBSET {i \in DOMAIN records : records[i].owner = u} : Remove(S)

(* The owner deletes whatever there is of an endpoint.                     *)
DeleteEndpoint(e) == Remove({i \in DOMAIN records : records[i].source = e})

Next == \/ \E u \in Users : Save(u) \/ Link(u) \/ Update(u) \/ DeleteRecords(u)
        \/ \E e \in Endpoints : DeleteEndpoint(e)

Spec == Init /\ [][Next]_vars
=============================================================================
