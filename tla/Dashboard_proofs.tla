--------------------------- MODULE Dashboard_proofs ---------------------------
(***************************************************************************)
(* Proofs about the dashboard's service worker, for any number of builds,  *)
(* files and pages.                                                        *)
(***************************************************************************)
EXTENDS Dashboard, TLAPS

(* A cached index.html is of no later build than the one deployed, is kept *)
(* under the revision of a manifest that has been on the server and that   *)
(* no installing worker is older than, and the later the manifest the      *)
(* later the build.                                                        *)
HasIndex(m) == IndexEntry(m) \in files
IndexOrdered ==
    /\ \A m \in Builds : HasIndex(m) =>
          /\ index[m] \in Builds /\ index[m] <= deployed /\ m <= script
          /\ installing # None => m <= installing
    /\ \A m, n \in Builds : m < n /\ HasIndex(m) /\ HasIndex(n) => index[m] <= index[n]

(* Controlled pages have the active worker, and there are none under a     *)
(* former registration while a worker is activated.                        *)
Control ==
    /\ \A p \in Pages : Controlled(p) => page[p].worker = active
    /\ activating => \A p \in Pages : page[p].registration # "former"

(* While no installation overlaps a clean-up, nothing is being installed   *)
(* or waits during one, a leftover one comes before another registration   *)
(* and is of the worker of those pages that are under a former one, and an *)
(* installation has or knows that it misses what its manifest lists.       *)
Apart ==
    ~overlapped =>
      /\ activating => installing = None /\ waiting = None
      /\ \A m \in leftover :
           /\ installing = None /\ waiting = None /\ active = None
           /\ \A p \in Pages : page[p].registration = "former" => page[p].worker = m
      /\ installing # None => Manifest(installing) \subseteq files \cup todo

IInv == TypeOK /\ IndexOrdered /\ Control /\ Apart /\ ShellComplete /\ PagesKeepFiles

(* The builds are numbers, and None is none of them.                       *)
LEMMA BuildFacts == /\ Builds \subseteq Nat /\ None \notin Builds
                    /\ None \in Int /\ \A b \in Builds : b \in Int /\ b >= 0 /\ b > None
                    /\ Emitting \subseteq Builds /\ 0 \in Emitting
  BY ConstantsAssumption DEF ConstantsAssumption, Builds, None

(* Index entries differ from hashed files and from one another.            *)
LEMMA EntryFacts == /\ \A m, n \in Builds : IndexEntry(m) = IndexEntry(n) => m = n
                    /\ \A m, n \in Builds : IndexEntry(m) \in Manifest(n) => m = n
                    /\ \A m \in Builds : IndexEntry(m) \in Manifest(m) /\ Manifest(m) \subseteq Entries
                    /\ \A f \in OnServer, m \in Builds : f # IndexEntry(m)
  BY ConstantsAssumption DEF ConstantsAssumption, IndexEntry, Manifest, Hashed, Entries, OnServer

LEMMA InitIInv == Init => IInv
  <1> SUFFICES ASSUME Init PROVE IInv
    OBVIOUS
  <1>1. PageTypes
    BY BuildFacts DEF Init, Closed, Open, PageTypes, Workers
  <1>2. WorkerOrder
    BY BuildFacts DEF Init, WorkerOrder, None
  <1>3. TypeOK
    BY BuildFacts, <1>1, <1>2 DEF Init, TypeOK, Workers
  <1>4. IndexOrdered /\ ShellComplete
    BY DEF Init, IndexOrdered, HasIndex, ShellComplete
  <1>5. Control /\ Apart /\ PagesKeepFiles
    BY DEF Init, Control, Controlled, Apart, PagesKeepFiles, OwnBuild, Closed
  <1> QED
    BY <1>3, <1>4, <1>5 DEF IInv
-----------------------------------------------------------------------------
(* Pages that come and go leave the workers alone.                         *)
LEMMA PageSteps ==
  ASSUME IInv, NEW p \in Pages, (\E scoped \in BOOLEAN : Navigate(p, scoped)) \/ Close(p) \/ Start(p)
  PROVE  IInv'
  <1> USE BuildFacts
  <1>1. Served \in Builds /\ active \in Workers /\ deployed \in Builds
    BY DEF IInv, TypeOK, Served, IndexOrdered, HasIndex, Workers
  <1>2. UNCHANGED <<server, workers, activation, cache, overlapped>>
    BY DEF Navigate, Close, Start
  <1>3. /\ \A q \in Pages \ {p} : page'[q] = page[q]
        /\ \/ ~activating /\ page'[p].worker = active /\ page'[p].registration = "current"
           \/ page'[p].worker = None /\ page'[p].registration = "current"
           \/ /\ page'[p].worker = page[p].worker /\ page'[p].registration = page[p].registration
              /\ page'[p].build = page[p].build
    BY DEF Navigate, Close, Start, Closed, IInv, TypeOK, PageTypes
  <1>4. PageTypes'
    <2>1. ASSUME NEW scoped \in BOOLEAN, Navigate(p, scoped) PROVE PageTypes'
      BY <2>1, <1>1 DEF Navigate, IInv, TypeOK, PageTypes, Open, Closed, Workers
    <2>2. CASE Close(p)
      BY <2>2, <1>1 DEF Close, IInv, TypeOK, PageTypes, Open, Closed, Workers
    <2>3. CASE Start(p)
      BY <2>3, <1>1 DEF Start, IInv, TypeOK, PageTypes, Open, Closed
    <2> QED
      BY <2>1, <2>2, <2>3
  <1>5. TypeOK'
    <2>1. WorkerOrder'
      BY <1>2 DEF IInv, TypeOK, WorkerOrder, server, workers
    <2>2. PageTypes'
      BY <1>4 DEF PageTypes, Open, Workers
    <2> QED
      BY <2>1, <2>2, <1>2 DEF IInv, TypeOK, server, workers, activation, cache, Workers, Entries
  <1>6. IndexOrdered' /\ ShellComplete'
    BY <1>2 DEF IInv, IndexOrdered, HasIndex, ShellComplete, Complete, server, workers, cache
  <1>7. Control'
    BY <1>2, <1>3 DEF IInv, Control, Controlled, workers, activation
  <1>8. Apart'
    BY <1>2, <1>3 DEF IInv, Apart, workers, activation, cache
  <1>9. PagesKeepFiles'
    <2> SUFFICES ASSUME NEW q \in Pages, OwnBuild(q)', ~overlapped
                 PROVE  Manifest(page'[q].build) \subseteq files
      BY <1>2 DEF PagesKeepFiles, cache
    <2>1. CASE q = p /\ page'[p].worker = active
      <3>1. active # None /\ page'[q].build = active
        BY <2>1 DEF OwnBuild
      <3> QED
        BY <3>1 DEF IInv, ShellComplete, Complete
    <2>2. CASE q # p \/ page'[p].worker # active
      <3>1. OwnBuild(q) /\ page'[q].build = page[q].build
        BY <1>3, <2>2 DEF OwnBuild
      <3> QED
        BY <3>1 DEF IInv, PagesKeepFiles
    <2> QED
      BY <2>1, <2>2
  <1> QED
    BY <1>5, <1>6, <1>7, <1>8, <1>9 DEF IInv

LEMMA SkipStep ==
  ASSUME IInv, NEW p \in Pages, SkipWaiting(p)
  PROVE  IInv'
  <1> USE BuildFacts
  <1>1. /\ UNCHANGED <<server, installing, waiting, active, todo, activation, cache, page, overlapped>>
        /\ skips' = TRUE /\ waiting # None
    BY DEF SkipWaiting
  <1>2. PageTypes' /\ WorkerOrder'
    BY <1>1 DEF IInv, TypeOK, PageTypes, Open, WorkerOrder, server
  <1>3. TypeOK'
    BY <1>1, <1>2 DEF IInv, TypeOK, server, activation, cache
  <1> QED
    BY <1>1, <1>3 DEF IInv, IndexOrdered, HasIndex, Control, Controlled, Apart, ShellComplete,
                      Complete, PagesKeepFiles, OwnBuild, server, activation, cache

LEMMA ServerStep ==
  ASSUME IInv, Deploy
  PROVE  IInv'
  <1> USE BuildFacts
  <1>1. deployed' \in Builds /\ deployed' > deployed
    BY ConstantsAssumption DEF Deploy, IInv, TypeOK, Builds, ConstantsAssumption
  <1>2. script' \in Builds /\ script' >= script /\ script' <= deployed'
    BY <1>1 DEF Deploy, IInv, TypeOK, WorkerOrder
  <1>3. UNCHANGED <<workers, activation, cache, page, overlapped>> /\ kept' \subseteq Builds
    BY <1>1 DEF Deploy, IInv, TypeOK
  <1>4. /\ {installing, waiting, active, script, deployed, script', deployed'} \subseteq Int
        /\ installing' = installing /\ waiting' = waiting /\ active' = active
        /\ index' = index /\ files' = files
    BY <1>1, <1>2, <1>3 DEF IInv, TypeOK, Workers, cache, workers
  <1>5. TypeOK'
    <2>1. WorkerOrder'
      <3>1. WorkerOrder
        BY DEF IInv, TypeOK
      <3>2. installing <= script' /\ waiting <= script' /\ active <= script'
        BY <3>1, <1>2, <1>4 DEF WorkerOrder
      <3> QED
        BY <3>1, <3>2, <1>2, <1>4 DEF WorkerOrder
    <2>2. PageTypes'
      BY <1>3 DEF IInv, TypeOK, PageTypes, Open
    <2> QED
      BY <2>1, <2>2, <1>1, <1>2, <1>3 DEF IInv, TypeOK, workers, activation, cache
  <1>6. IndexOrdered'
    <2>1. ASSUME NEW m \in Builds, HasIndex(m)
          PROVE  index[m] <= deployed' /\ m <= script'
      <3>1. index[m] \in Int /\ index[m] <= deployed /\ m <= script /\ m \in Int
        BY <2>1 DEF IInv, IndexOrdered
      <3> QED
        BY <3>1, <1>1, <1>2, <1>4
    <2>2. \A m \in Builds : HasIndex(m)' <=> HasIndex(m)
      BY <1>4 DEF HasIndex
    <2> QED
      BY <2>1, <2>2, <1>4 DEF IInv, IndexOrdered
  <1>7. Control' /\ Apart' /\ ShellComplete' /\ PagesKeepFiles'
    BY <1>3 DEF IInv, Control, Controlled, Apart, ShellComplete, Complete, PagesKeepFiles, OwnBuild,
                workers, activation, cache
  <1> QED
    BY <1>5, <1>6, <1>7 DEF IInv
-----------------------------------------------------------------------------
(* An installation begins.                                                 *)
LEMMA InstallStep ==
  ASSUME IInv, Install, installing = None,
         \/ Newest = None
         \/ Newest # script /\ UNCHANGED page,
         PageTypes',
         \A q \in Pages : /\ page'[q].worker = page[q].worker /\ page'[q].build = page[q].build
                          /\ page'[q].registration = page[q].registration,
         UNCHANGED <<server, activation, cache>>, RecordOverlap
  PROVE  IInv'
  <1> USE BuildFacts
  <1>1. /\ installing' = script /\ script \in Builds /\ todo' = Manifest(script) \ files
        /\ waiting' = waiting /\ active' = active /\ skips' = skips
        /\ script' = script /\ deployed' = deployed /\ files' = files /\ index' = index
        /\ activating' = activating /\ claiming' = claiming /\ leftover' = leftover
        /\ overlapped' = (overlapped \/ activating \/ leftover # {})
    BY DEF Install, RecordOverlap, server, activation, cache, IInv, TypeOK
  <1>2. WorkerOrder'
    <2>1. /\ {waiting, active, script, deployed} \subseteq Int /\ WorkerOrder
          /\ waiting \in Workers /\ active \in Workers
      BY DEF IInv, TypeOK, Workers
    <2>2. waiting # script /\ active # script
      BY <1>1, <2>1 DEF Newest, WorkerOrder
    <2> QED
      BY <1>1, <2>1, <2>2 DEF WorkerOrder
  <1>3. TypeOK'
    <2>1. PageTypes'
      OBVIOUS
    <2>2. todo' \subseteq Entries
      BY <1>1, EntryFacts
    <2> QED
      BY <1>1, <1>2, <2>1, <2>2 DEF IInv, TypeOK, server, Workers
  <1>4. IndexOrdered'
    BY <1>1 DEF IInv, IndexOrdered, HasIndex
  <1>5. Control'
    BY <1>1 DEF IInv, Control, Controlled
  <1>6. Apart'
    BY <1>1 DEF IInv, Apart
  <1>7. ShellComplete' /\ PagesKeepFiles'
    BY <1>1 DEF IInv, ShellComplete, Complete, PagesKeepFiles, OwnBuild
  <1> QED
    BY <1>3, <1>4, <1>5, <1>6, <1>7 DEF IInv

LEMMA RegisterStep ==
  ASSUME IInv, NEW p \in Pages, Register(p)
  PROVE  IInv'
  <1> USE BuildFacts
  <1>1. /\ PageTypes'
        /\ \A q \in Pages : /\ page'[q].worker = page[q].worker /\ page'[q].build = page[q].build
                            /\ page'[q].registration = page[q].registration
    BY DEF Register, IInv, TypeOK, PageTypes, Open, Closed
  <1>2. CASE Newest = None
    <2>1. installing = None
      BY <1>2 DEF Newest
    <2> QED
      BY <1>1, <1>2, <2>1, InstallStep DEF Register
  <1>3. CASE Newest # None
    <2>1. UNCHANGED <<server, workers, activation, cache>>
      BY <1>3 DEF Register
    <2>2. overlapped' \in BOOLEAN /\ (overlapped => overlapped')
      BY DEF Register, RecordOverlap, IInv, TypeOK
    <2>3. TypeOK'
      <3>1. WorkerOrder'
        BY <2>1 DEF IInv, TypeOK, WorkerOrder, server, workers
      <3> QED
        BY <1>1, <2>1, <2>2, <3>1 DEF IInv, TypeOK, server, workers, activation, cache
    <2>4. IndexOrdered' /\ Control' /\ Apart'
      BY <1>1, <2>1, <2>2 DEF IInv, IndexOrdered, HasIndex, Control, Controlled, Apart,
                               server, workers, activation, cache
    <2>5. ShellComplete' /\ PagesKeepFiles'
      BY <1>1, <2>1, <2>2 DEF IInv, ShellComplete, Complete, PagesKeepFiles, OwnBuild, workers, cache
    <2> QED
      BY <2>3, <2>4, <2>5 DEF IInv
  <1> QED
    BY <1>2, <1>3

LEMMA UpdateStep ==
  ASSUME IInv, Update
  PROVE  IInv'
  <1>1. PageTypes'
    BY DEF Update, IInv, TypeOK, PageTypes, Open
  <1> QED
    BY <1>1, InstallStep DEF Update

(* An unregistration leaves pages and clean-ups with their worker.         *)
LEMMA UnregisterStep ==
  ASSUME IInv, NEW p \in Pages, Unregister(p)
  PROVE  IInv'
  <1> USE BuildFacts
  <1>1. /\ active # None /\ active \in Builds /\ installing = None /\ installing' = None
        /\ waiting' = None /\ active' = None /\ skips' = FALSE /\ todo' = todo
        /\ activating' = FALSE /\ claiming' = FALSE
        /\ leftover' = leftover \cup {m \in {active} : activating}
        /\ UNCHANGED <<server, cache, overlapped>>
    BY DEF Unregister, IInv, TypeOK, Workers
  <1>2. /\ PageTypes'
        /\ \A q \in Pages : /\ page'[q].worker = page[q].worker /\ page'[q].build = page[q].build
                            /\ page'[q].registration = IF Controlled(q) THEN "former"
                                                       ELSE page[q].registration
    <2> DEFINE PageType == [build : Workers, scoped : BOOLEAN, worker : Workers,
                            registration : {"current", "former", "overtaken"},
                            pc : {"closed", "loading", "running", "done"}]
    <2>1. page \in [Pages -> PageType] /\ \A q \in Pages : IF Open(q) THEN page[q].build # None
                                                                    ELSE page[q] = Closed
      BY DEF IInv, TypeOK, PageTypes
    <2>2. ASSUME NEW q \in Pages
          PROVE  /\ page'[q] \in PageType
                 /\ page'[q].worker = page[q].worker /\ page'[q].build = page[q].build
                 /\ page'[q].registration = IF Controlled(q) THEN "former" ELSE page[q].registration
                 /\ page'[q].pc = IF q = p THEN "done" ELSE page[q].pc
                 /\ ~Controlled(q) /\ q # p => page'[q] = page[q]
      <3>1. page'[q] = [page[q] EXCEPT !.registration = IF Controlled(q) THEN "former" ELSE @,
                                        !.pc = IF q = p THEN "done" ELSE @]
        BY DEF Unregister
      <3>2. page[q] \in PageType
        BY <2>1
      <3> QED
        BY <3>1, <3>2
    <2>3. page' = [q \in Pages |-> page'[q]]
      BY DEF Unregister
    <2>4. page[p].pc = "running"
      BY DEF Unregister
    <2>5. \A q \in Pages : ~Open(q) => ~Controlled(q) /\ q # p
      BY <2>1, <2>4 DEF Open, Controlled, Closed
    <2>6. \A q \in Pages : IF page'[q].pc # "closed" THEN page'[q].build # None ELSE page'[q] = Closed
      BY <2>1, <2>2, <2>4, <2>5 DEF Open
    <2>7. PageTypes'
      BY <2>2, <2>3, <2>6 DEF PageTypes, Open, Workers
    <2> QED
      BY <2>2, <2>7
  <1>3. TypeOK'
    <2>1. WorkerOrder'
      BY <1>1 DEF IInv, TypeOK, WorkerOrder, server
    <2> QED
      BY <1>1, <1>2, <2>1 DEF IInv, TypeOK, server, cache, Workers
  <1>4. IndexOrdered' /\ ShellComplete'
    BY <1>1 DEF IInv, IndexOrdered, HasIndex, ShellComplete, server, cache
  <1>5. Control'
    BY <1>1, <1>2 DEF Control, Controlled
  <1>6. Apart'
    <2> SUFFICES ASSUME ~overlapped, NEW m \in leftover'
                 PROVE  \A q \in Pages : page'[q].registration = "former" => page'[q].worker = m
      BY <1>1 DEF Apart
    <2>1. m = active /\ activating
      BY <1>1 DEF IInv, Apart
    <2> QED
      BY <1>2, <2>1 DEF IInv, Control
  <1>7. PagesKeepFiles'
    BY <1>1, <1>2 DEF IInv, PagesKeepFiles, OwnBuild, Controlled, cache
  <1> QED
    BY <1>3, <1>4, <1>5, <1>6, <1>7 DEF IInv
-----------------------------------------------------------------------------
(* An installation only adds to the cache, under its own revision.         *)
LEMMA PrecacheSteps ==
  ASSUME IInv, PrecacheIndex \/ \E f \in todo : Precache(f)
  PROVE  IInv'
  <1> USE BuildFacts
  <1>1. UNCHANGED <<server, installing, waiting, active, skips, activation, page, overlapped>>
    BY DEF PrecacheIndex, Precache
  <1>2. PICK f \in todo : files' = files \cup {f} /\ todo' = todo \ {f}
    BY DEF PrecacheIndex, Precache
  <1>3. \/ installing \in Builds /\ f = IndexEntry(installing)
             /\ index' = [index EXCEPT ![installing] = deployed]
        \/ index' = index /\ \A m \in Builds : f # IndexEntry(m)
    <2>1. CASE PrecacheIndex
      <3>1. /\ todo' = todo \ {IndexEntry(installing)} /\ IndexEntry(installing) \in todo
            /\ installing \in Builds /\ index' = [index EXCEPT ![installing] = deployed]
        BY <2>1 DEF PrecacheIndex, IInv, TypeOK, Workers
      <3> QED
        BY <1>2, <3>1
    <2>2. CASE \E g \in todo : Precache(g)
      <3>1. PICK g \in todo : Precache(g)
        BY <2>2
      <3>2. g = f
        BY <1>2, <3>1 DEF Precache
      <3> QED
        BY <3>1, <3>2, EntryFacts DEF Precache
    <2> QED
      BY <2>1, <2>2
  <1>4. TypeOK'
    <2>1. WorkerOrder' /\ PageTypes'
      BY <1>1 DEF IInv, TypeOK, WorkerOrder, PageTypes, Open, server
    <2>2. index' \in [Builds -> Workers] /\ files' \subseteq Entries /\ todo' \subseteq Entries
      BY <1>2, <1>3 DEF IInv, TypeOK, Workers
    <2> QED
      BY <1>1, <2>1, <2>2 DEF IInv, TypeOK, server, activation
  <1>5. IndexOrdered'
    <2>1. CASE index' = index /\ \A m \in Builds : f # IndexEntry(m)
      <3>1. \A m \in Builds : HasIndex(m)' <=> HasIndex(m)
        BY <1>2, <2>1 DEF HasIndex, IndexEntry
      <3> QED
        BY <1>1, <2>1, <3>1 DEF IInv, IndexOrdered, server
    <2>2. CASE installing \in Builds /\ f = IndexEntry(installing)
                 /\ index' = [index EXCEPT ![installing] = deployed]
      <3>1. \A m \in Builds : HasIndex(m)' => HasIndex(m) \/ m = installing
        BY <1>2, <2>2, EntryFacts DEF HasIndex, IndexEntry
      <3>2. \A m \in Builds : index'[m] = IF m = installing THEN deployed ELSE index[m]
        BY <2>2 DEF IInv, TypeOK
      <3>3. deployed \in Builds /\ installing <= script /\ installing # None
        BY <2>2 DEF IInv, TypeOK, WorkerOrder
      <3>4. \A m \in Builds : HasIndex(m)' => index'[m] \in Builds /\ index'[m] <= deployed
                                               /\ m <= script /\ m <= installing
        BY <3>1, <3>2, <3>3, <2>2 DEF IInv, IndexOrdered
      <3>5. ASSUME NEW m \in Builds, NEW n \in Builds, m < n, HasIndex(m)', HasIndex(n)'
            PROVE  index'[m] <= index'[n]
        <4>1. m <= installing /\ n <= installing /\ index'[m] <= deployed
          BY <3>4, <3>5
        <4>2. m # installing
          BY <2>2, <3>5, <4>1
        <4>3. CASE n = installing
          BY <3>2, <4>1, <4>3
        <4>4. CASE n # installing
          BY <3>1, <3>2, <3>5, <4>2, <4>4 DEF IInv, IndexOrdered
        <4> QED
          BY <4>3, <4>4
      <3> QED
        BY <1>1, <3>4, <3>5 DEF IndexOrdered, server
    <2> QED
      BY <1>3, <2>1, <2>2
  <1>6. Control'
    BY <1>1 DEF IInv, Control, Controlled, activation
  <1>7. Apart'
    BY <1>1, <1>2 DEF IInv, Apart, activation
  <1>8. ShellComplete' /\ PagesKeepFiles'
    BY <1>1, <1>2 DEF IInv, ShellComplete, Complete, PagesKeepFiles, OwnBuild
  <1> QED
    BY <1>4, <1>5, <1>6, <1>7, <1>8 DEF IInv

LEMMA InstallEnds ==
  ASSUME IInv, InstallFails \/ Installed
  PROVE  IInv'
  <1> USE BuildFacts
  <1>1. /\ UNCHANGED <<server, active, activation, cache, page, overlapped>>
        /\ installing # None /\ installing' = None /\ todo' = {}
        /\ \/ waiting' = waiting /\ skips' = skips
           \/ waiting' = installing /\ skips' = FALSE /\ todo = {}
    BY DEF InstallFails, Installed
  <1>2. TypeOK'
    <2>1. WorkerOrder' /\ PageTypes'
      BY <1>1 DEF IInv, TypeOK, WorkerOrder, PageTypes, Open, server
    <2>2. /\ waiting' \in Workers /\ active' \in Workers /\ installing' \in Workers
          /\ skips' \in BOOLEAN /\ (skips' => waiting' # None) /\ todo' \subseteq Entries
      <3>1. /\ installing \in Workers /\ waiting \in Workers /\ active \in Workers
            /\ skips \in BOOLEAN /\ (skips => waiting # None) /\ None \in Workers
        BY DEF IInv, TypeOK, Workers
      <3>2. CASE waiting' = waiting /\ skips' = skips
        BY <1>1, <3>1, <3>2
      <3>3. CASE waiting' = installing /\ skips' = FALSE
        BY <1>1, <3>1, <3>3
      <3> QED
        BY <1>1, <3>2, <3>3
    <2> QED
      BY <1>1, <2>1, <2>2 DEF IInv, TypeOK, server, activation, cache
  <1>3. IndexOrdered' /\ Control'
    BY <1>1 DEF IInv, IndexOrdered, HasIndex, Control, Controlled, server, activation, cache
  <1>4. Apart'
    BY <1>1 DEF IInv, Apart, activation, cache
  <1>5. ShellComplete'
    BY <1>1 DEF IInv, Apart, ShellComplete, Complete, cache
  <1>6. PagesKeepFiles'
    BY <1>1 DEF IInv, PagesKeepFiles, OwnBuild, cache
  <1> QED
    BY <1>2, <1>3, <1>4, <1>5, <1>6 DEF IInv
-----------------------------------------------------------------------------
(* Activation gives its worker to controlled pages, and the claim to those *)
(* in its scope.                                                           *)
LEMMA ActivateStep ==
  ASSUME IInv, Activate
  PROVE  IInv'
  <1> USE BuildFacts
  <1>1. /\ waiting \in Builds /\ waiting # None /\ active' = waiting /\ waiting' = None /\ skips' = FALSE
        /\ activating' = TRUE /\ claiming' = TRUE /\ leftover' = leftover
        /\ installing' = installing /\ todo' = todo
        /\ UNCHANGED <<server, cache>>
        /\ overlapped' = (overlapped \/ installing # None)
    BY DEF Activate, RecordOverlap, IInv, TypeOK, Workers
  <1>2. \A p \in Pages :
          /\ page'[p].build = page[p].build
          /\ IF Controlled(p)
             THEN page'[p].worker = waiting /\ page'[p].registration = "current"
             ELSE /\ page'[p].worker = page[p].worker
                  /\ page'[p].registration = IF page[p].registration = "former" THEN "overtaken"
                                             ELSE page[p].registration
    BY DEF Activate, Controlled, IInv, TypeOK, PageTypes
  <1>3. PageTypes'
    <2>1. ASSUME NEW p \in Pages
          PROVE  /\ page'[p] \in [build : Workers, scoped : BOOLEAN, worker : Workers,
                                   registration : {"current", "former", "overtaken"},
                                   pc : {"closed", "loading", "running", "done"}]
                 /\ page'[p].pc = page[p].pc
                 /\ page[p] = Closed => page'[p] = Closed
      <3>1. page[p] \in [build : Workers, scoped : BOOLEAN, worker : Workers,
                          registration : {"current", "former", "overtaken"},
                          pc : {"closed", "loading", "running", "done"}]
        BY DEF IInv, TypeOK, PageTypes
      <3>2. CASE Controlled(p)
        BY <1>1, <3>1, <3>2 DEF Activate, Controlled, Closed, Workers
      <3>3. CASE ~Controlled(p)
        BY <3>1, <3>3 DEF Activate, Closed
      <3> QED
        BY <3>2, <3>3
    <2>2. page' = [p \in Pages |-> page'[p]]
      BY DEF Activate
    <2> QED
      BY <1>2, <2>1, <2>2 DEF IInv, TypeOK, PageTypes, Open
  <1>4. TypeOK'
    <2>1. WorkerOrder'
      <3>1. /\ WorkerOrder /\ installing \in Workers /\ active' = waiting /\ waiting' = None
            /\ installing' = installing /\ script' = script /\ deployed' = deployed
            /\ script \in Builds /\ deployed \in Builds
        BY <1>1 DEF IInv, TypeOK, server
      <3>2. None <= script
        BY <3>1
      <3>3. installing # None => None < installing
        BY <3>1 DEF Workers
      <3> QED
        BY <1>1, <3>1, <3>2, <3>3 DEF WorkerOrder
    <2> QED
      BY <1>1, <1>3, <2>1 DEF IInv, TypeOK, server, cache, Workers
  <1>5. IndexOrdered'
    BY <1>1 DEF IInv, IndexOrdered, HasIndex, server, cache
  <1>6. Control'
    BY <1>1, <1>2 DEF IInv, Control, Controlled
  <1>7. Apart'
    BY <1>1 DEF IInv, Apart
  <1>8. ShellComplete'
    BY <1>1 DEF IInv, ShellComplete, Complete, cache
  <1>9. PagesKeepFiles'
    <2> SUFFICES ASSUME ~overlapped, NEW p \in Pages, OwnBuild(p)'
                 PROVE  Manifest(page'[p].build) \subseteq files
      BY <1>1 DEF PagesKeepFiles, cache
    <2>1. Controlled(p)
      BY <1>2 DEF IInv, TypeOK, PageTypes, OwnBuild, Controlled
    <2>2. page'[p].build = waiting
      BY <1>2, <2>1 DEF OwnBuild
    <2> QED
      BY <1>1, <2>2 DEF IInv, ShellComplete, Complete
  <1> QED
    BY <1>4, <1>5, <1>6, <1>7, <1>8, <1>9 DEF IInv

LEMMA ClaimStep ==
  ASSUME IInv, Claim
  PROVE  IInv'
  <1> USE BuildFacts
  <1>1. /\ active \in Builds /\ active # None /\ claiming' = FALSE
        /\ UNCHANGED <<server, workers, activating, leftover, cache, overlapped>>
    BY DEF Claim, IInv, TypeOK, Workers
  <1>2. \A p \in Pages :
          /\ page'[p].build = page[p].build
          /\ IF page[p].scoped
             THEN page'[p].worker = active /\ page'[p].registration = "current"
             ELSE page'[p] = page[p]
    BY DEF Claim, IInv, TypeOK, PageTypes
  <1>3. PageTypes'
    <2>1. ASSUME NEW p \in Pages
          PROVE  /\ page'[p] \in [build : Workers, scoped : BOOLEAN, worker : Workers,
                                   registration : {"current", "former", "overtaken"},
                                   pc : {"closed", "loading", "running", "done"}]
                 /\ page'[p].pc = page[p].pc
                 /\ page[p] = Closed => page'[p] = Closed
      <3>1. page[p] \in [build : Workers, scoped : BOOLEAN, worker : Workers,
                          registration : {"current", "former", "overtaken"},
                          pc : {"closed", "loading", "running", "done"}]
        BY DEF IInv, TypeOK, PageTypes
      <3>2. CASE page[p].scoped
        <4>1. page'[p] = [page[p] EXCEPT !.worker = active, !.registration = "current"]
          BY <3>2 DEF Claim
        <4>2. active \in Workers
          BY <1>1 DEF Workers
        <4>3. page[p] # Closed
          BY <3>2 DEF Closed
        <4> QED
          BY <3>1, <4>1, <4>2, <4>3
      <3>3. CASE ~page[p].scoped
        BY <1>2, <3>1, <3>3
      <3> QED
        BY <3>2, <3>3
    <2>2. page' = [p \in Pages |-> page'[p]]
      BY DEF Claim
    <2> QED
      BY <1>2, <2>1, <2>2 DEF IInv, TypeOK, PageTypes, Open
  <1>4. TypeOK'
    <2>1. WorkerOrder'
      BY <1>1 DEF IInv, TypeOK, WorkerOrder, server, workers
    <2> QED
      BY <1>1, <1>3, <2>1 DEF IInv, TypeOK, server, workers, cache, Workers
  <1>5. IndexOrdered' /\ ShellComplete'
    BY <1>1 DEF IInv, IndexOrdered, HasIndex, ShellComplete, Complete, server, workers, cache
  <1>6. Control'
    BY <1>1, <1>2 DEF IInv, Control, Controlled, workers
  <1>7. Apart'
    BY <1>1, <1>2 DEF IInv, Apart, workers, cache
  <1>8. PagesKeepFiles'
    BY <1>1, <1>2 DEF IInv, PagesKeepFiles, OwnBuild, ShellComplete, Complete, workers, cache
  <1> QED
    BY <1>4, <1>5, <1>6, <1>7, <1>8 DEF IInv

(* A clean-up takes from the cache only what its worker does not list.     *)
LEMMA CleanSteps ==
  ASSUME IInv, Clean \/ \E m \in leftover : CleanLeftover(m)
  PROVE  IInv'
  <1> USE BuildFacts
  <1>1. UNCHANGED <<server, workers, claiming, index, page, overlapped>>
    BY DEF Clean, CleanLeftover
  <1>2. /\ files' \subseteq files /\ leftover' \subseteq leftover
        /\ activating' \in BOOLEAN /\ (activating' => activating)
    <2>1. activating \in BOOLEAN
      BY DEF IInv, TypeOK
    <2>2. CASE Clean
      BY <2>2 DEF Clean
    <2>3. ASSUME NEW m \in leftover, CleanLeftover(m)
          PROVE  files' \subseteq files /\ leftover' \subseteq leftover /\ activating' = activating
      BY <2>3 DEF CleanLeftover
    <2> QED
      BY <2>1, <2>2, <2>3
  <1>3. TypeOK'
    <2>1. WorkerOrder' /\ PageTypes'
      BY <1>1 DEF IInv, TypeOK, WorkerOrder, PageTypes, Open, server, workers
    <2> QED
      BY <1>1, <1>2, <2>1 DEF IInv, TypeOK, server, workers
  <1>4. IndexOrdered'
    BY <1>1, <1>2 DEF IInv, IndexOrdered, HasIndex, server, workers
  <1>5. Control'
    BY <1>1, <1>2 DEF IInv, Control, Controlled, workers
  <1>6. ~overlapped => installing = None /\ waiting = None
    BY DEF Clean, CleanLeftover, IInv, Apart
  <1>7. Apart'
    BY <1>1, <1>2, <1>6 DEF IInv, Apart, workers
  <1>8. CASE Clean
    <2>1. files' = files \cap Manifest(active) /\ activating
      BY <1>8 DEF Clean
    <2>2. ShellComplete'
      BY <1>1, <1>6, <2>1 DEF IInv, ShellComplete, Complete, workers
    <2>3. PagesKeepFiles'
      <3> SUFFICES ASSUME ~overlapped, NEW p \in Pages, OwnBuild(p)
                   PROVE  Manifest(page[p].build) \subseteq files'
        BY <1>1 DEF PagesKeepFiles, OwnBuild
      <3>1. Controlled(p)
        BY <2>1 DEF IInv, TypeOK, PageTypes, Control, OwnBuild, Controlled
      <3>2. page[p].build = active
        BY <3>1 DEF IInv, Control, OwnBuild
      <3> QED
        BY <2>1, <3>2 DEF IInv, PagesKeepFiles
    <2> QED
      BY <1>3, <1>4, <1>5, <1>7, <2>2, <2>3 DEF IInv
  <1>9. ASSUME NEW m \in leftover, CleanLeftover(m) PROVE IInv'
    <2>1. files' = files \cap Manifest(m)
      BY <1>9 DEF CleanLeftover
    <2>2. ~overlapped => active = None
      BY DEF IInv, Apart
    <2>3. ShellComplete'
      BY <1>1, <1>6, <2>2 DEF ShellComplete, workers
    <2>4. PagesKeepFiles'
      <3> SUFFICES ASSUME ~overlapped, NEW p \in Pages, OwnBuild(p)
                   PROVE  Manifest(page[p].build) \subseteq files'
        BY <1>1 DEF PagesKeepFiles, OwnBuild
      <3>1. page[p].registration = "former"
        BY <2>2 DEF IInv, TypeOK, PageTypes, Control, OwnBuild, Controlled
      <3>2. page[p].build = m
        BY <3>1 DEF IInv, Apart, OwnBuild
      <3> QED
        BY <2>1, <3>2 DEF IInv, PagesKeepFiles
    <2> QED
      BY <1>3, <1>4, <1>5, <1>7, <2>3, <2>4 DEF IInv
  <1> QED
    BY <1>8, <1>9
-----------------------------------------------------------------------------
LEMMA StutterStep == IInv /\ UNCHANGED vars => IInv'
  BY DEF IInv, TypeOK, PageTypes, WorkerOrder, IndexOrdered, HasIndex, Control, Controlled, Apart,
         ShellComplete, PagesKeepFiles, OwnBuild, Complete, Open,
         vars, server, workers, activation, cache

LEMMA NextKeepsIInv == IInv /\ [Next]_vars => IInv'
  BY PageSteps, SkipStep, ServerStep, RegisterStep, UpdateStep, UnregisterStep, PrecacheSteps,
     InstallEnds, ActivateStep, ClaimStep, CleanSteps, StutterStep
  DEF Next

LEMMA Invariance == Spec => []IInv
  BY InitIInv, NextKeepsIInv, PTL DEF Spec

(* Types and the order of the workers, for any number of builds and pages. *)
THEOREM TypesOK == Spec => []TypeOK
  <1>1. IInv => TypeOK
    BY DEF IInv
  <1> QED
    BY <1>1, Invariance, PTL

(* Waiting and active workers have their whole manifest in the cache, as   *)
(* long as no installation overlaps the clean-up of another worker.        *)
THEOREM ShellsComplete == Spec => []ShellComplete
  <1>1. IInv => ShellComplete
    BY DEF IInv
  <1> QED
    BY <1>1, Invariance, PTL

(* Pages whose worker is of their build find all its files in the cache    *)
(* until a worker of another registration is activated, whichever of its   *)
(* claim and its clean-up comes first.                                     *)
THEOREM PagesKeepTheirFiles == Spec => []PagesKeepFiles
  <1>1. IInv => PagesKeepFiles
    BY DEF IInv
  <1> QED
    BY <1>1, Invariance, PTL

LEMMA NeverOlderStep ==
  ASSUME IInv, [Next]_vars, active # None, active' # None, ~overlapped
  PROVE  Served' >= Served
  <1> USE BuildFacts
  <1>1. active \in Builds /\ HasIndex(active) /\ Served = index[active] /\ index[active] \in Builds
    <2>1. active \in Builds
      BY DEF IInv, TypeOK, Workers
    <2>2. HasIndex(active)
      BY <2>1, EntryFacts DEF IInv, ShellComplete, Complete, HasIndex
    <2> QED
      BY <2>1, <2>2 DEF Served, HasIndex, IInv, IndexOrdered
  <1>2. CASE Activate
    <2>1. /\ waiting \in Builds /\ active < waiting /\ active' = waiting /\ UNCHANGED cache
      BY <1>2 DEF Activate, IInv, TypeOK, WorkerOrder, Workers
    <2>2. HasIndex(waiting)
      BY <2>1, EntryFacts DEF IInv, ShellComplete, Complete, HasIndex
    <2>3. Served' = index[waiting]
      BY <2>1, <2>2 DEF Served, HasIndex, IndexEntry, cache
    <2> QED
      BY <1>1, <2>1, <2>2, <2>3 DEF IInv, IndexOrdered
  <1>3. CASE ~Activate
    <2>1. active' = active
      BY <1>3 DEF Next, Deploy, Navigate, Close, Start, Register, Install, Unregister, SkipWaiting,
                  Update, PrecacheIndex, Precache, InstallFails, Installed, Claim, Clean,
                  CleanLeftover, vars, workers
    <2>2. HasIndex(active)'
      <3>1. IInv'
        BY NextKeepsIInv
      <3>2. CASE ~overlapped'
        BY <1>1, <2>1, <3>1, <3>2, EntryFacts DEF IInv, ShellComplete, Complete, HasIndex, IndexEntry,
              Manifest, Hashed
      <3>3. CASE overlapped'
        <4>1. files' = files
          BY <3>3 DEF Next, Deploy, Navigate, Close, Start, Register, Unregister, SkipWaiting,
                  Update, PrecacheIndex, Precache, InstallFails, Installed, Activate, Claim, Clean,
                  CleanLeftover, vars, cache
        <4> QED
          BY <1>1, <2>1, <4>1 DEF HasIndex, IndexEntry
      <3> QED
        BY <3>2, <3>3
    <2>3. index'[active] >= index[active]
      <3>1. index'[active] = index[active] \/ (index' = [index EXCEPT ![installing] = deployed])
        BY DEF Next, Deploy, Navigate, Close, Start, Register, Unregister, SkipWaiting,
                  Update, PrecacheIndex, Precache, InstallFails, Installed, Activate, Claim, Clean,
                  CleanLeftover, vars, cache
      <3>2. /\ DOMAIN index = Builds /\ index[active] <= deployed
            /\ deployed \in Int /\ index[active] \in Int
        BY <1>1 DEF IInv, TypeOK, IndexOrdered
      <3>3. CASE index' = [index EXCEPT ![installing] = deployed]
        <4>1. index'[active] = IF active = installing THEN deployed ELSE index[active]
          BY <1>1, <3>2, <3>3
        <4> QED
          BY <3>2, <4>1
      <3> QED
        BY <3>1, <3>2, <3>3
    <2>4. Served' = index'[active]
      BY <1>1, <2>1, <2>2 DEF Served, HasIndex, IndexEntry
    <2> QED
      BY <1>1, <2>3, <2>4
  <1> QED
    BY <1>2, <1>3

(* While workers follow each other, navigations in their scope are never   *)
(* sent back to an older build, as long as no installation has overlapped  *)
(* a clean-up.                                                             *)
THEOREM NavigationsGoForward == Spec => NeverOlder
  <1>1. IInv /\ [Next]_vars
          => [active # None /\ active' # None /\ ~overlapped => Served' >= Served]_vars
    BY NeverOlderStep
  <1> QED
    BY <1>1, Invariance, PTL DEF Spec, NeverOlder
===============================================================================
