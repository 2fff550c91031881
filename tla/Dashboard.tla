------------------------------ MODULE Dashboard ------------------------------
(***************************************************************************)
(* The dashboard of a HAT in its owner's browser: the builds deployed      *)
(* under phata/assets, the service worker that keeps one of them in the    *)
(* browser (phata/assets/service-worker.js, with the precache manifest it  *)
(* imports), and the pages.  The script is served under /assets/, which is *)
(* therefore its scope: the pages of the dashboard's own routes, / and     *)
(* /*path, are served by the HAT, never controlled, and can register the   *)
(* worker but not unregister it; pages opened under /assets/ are in scope. *)
(*                                                                         *)
(* A build is a number, a file of a build a pair of its name and of the    *)
(* hash in its URL, so that the server gives one content for a URL for as  *)
(* long as it has it; index.html alone is replaced in place.  Workbox and  *)
(* the browser's rules for workers are modelled from how the script uses   *)
(* them.  The model leaves out push, other origins and what pages show.    *)
(***************************************************************************)
EXTENDS Integers

CONSTANTS LastBuild,    \* the builds deployed one after the other, 0..LastBuild
          Emitting,     \* the builds that come with a service worker of their own
          Registering,  \* the builds whose pages register it; the others unregister it
          Posting,      \* the builds whose pages post SKIP_WAITING
          Names,        \* the files of a build that have a hash in their URL
          Main,         \* the script that index.html loads and that starts the page
          Index,        \* index.html
          Hash,         \* Hash[n][b], the hash in the URL of file n of build b
          Pages

Builds == 0..LastBuild
None == -1

ASSUME ConstantsAssumption ==
    /\ LastBuild \in Nat
    /\ 0 \in Emitting /\ Emitting \subseteq Builds
    /\ Registering \subseteq Builds /\ Posting \subseteq Builds
    /\ Main \in Names /\ Index \notin Names
    /\ Hash \in [Names -> [Builds -> Nat]]

VARIABLES
    deployed,    \* the build of the index.html on the server
    script,      \* the build whose manifest the server's service-worker.js imports
    kept,        \* the builds whose other files the server has
    installing, waiting, active,   \* the browser's workers, by build
    todo,        \* what the installation found missing and has not fetched
    skips,       \* whether the waiting worker has been told not to wait
    activating,  \* whether the active worker has still to clean up ...
    claiming,    \* ... and to claim the pages in its scope
    leftover,    \* the clean-ups of workers that were unregistered meanwhile
    files,       \* the entries of the precache
    index,       \* index[m]: the build of the index.html fetched under m's revision
    page,        \* the pages: build, worker, registration and how far they are
    overlapped   \* history: an installation and a clean-up overlapped

server == <<deployed, script, kept>>
workers == <<installing, waiting, active, todo, skips>>
activation == <<activating, claiming, leftover>>
cache == <<files, index>>
vars == <<server, workers, activation, cache, page, overlapped>>

Closed == [build |-> None, scoped |-> FALSE, worker |-> None, registration |-> "current", pc |-> "closed"]
Open(p) == page[p].pc # "closed"

(* The manifest of a build: its files, and index.html under a revision.    *)
Hashed(m) == {<<n, Hash[n][m]>> : n \in Names}
IndexEntry(m) == <<Index, m>>
Manifest(m) == Hashed(m) \cup {IndexEntry(m)}
Entries == UNION {Manifest(m) : m \in Builds}

OnServer == UNION {Hashed(b) : b \in kept}
Complete(m) == Manifest(m) \subseteq files

(* The newest worker of the registration, None without a registration.     *)
Newest == IF installing # None THEN installing
          ELSE IF waiting # None THEN waiting ELSE active

(* What a navigation in the worker's scope gets: the index.html it has     *)
(* cached, or the one deployed.                                            *)
Served == IF active # None /\ IndexEntry(active) \in files THEN index[active] ELSE deployed

(* A file a page asks for: its worker answers for what its manifest lists  *)
(* and the cache has, the network for the rest.                            *)
Available(p, f) == \/ page[p].worker # None /\ f \in Manifest(page[p].worker) \cap files
                   \/ f \in OnServer

(* Pages under the registration's own worker.                              *)
Controlled(p) == page[p].worker # None /\ page[p].registration = "current"

(* While a worker is activated, what would go to it waits.                 *)
Answered(p) == activating => ~Controlled(p)

Init == /\ deployed = 0 /\ script = 0 /\ kept = {0}
        /\ installing = None /\ waiting = None /\ active = None
        /\ todo = {} /\ skips = FALSE
        /\ activating = FALSE /\ claiming = FALSE /\ leftover = {}
        /\ files = {} /\ index = [m \in Builds |-> None]
        /\ page = [p \in Pages |-> Closed]
        /\ overlapped = FALSE

RecordOverlap ==
    overlapped' = (overlapped \/ (installing' # None /\ (activating' \/ leftover' # {})))
-----------------------------------------------------------------------------
(* A deployment replaces index.html, adds the build's files to those of    *)
(* the build before and drops older ones.  A build that has no worker      *)
(* leaves service-worker.js and its manifest as they were.                 *)
Deploy == /\ deployed < LastBuild
          /\ deployed' = deployed + 1
          /\ script' = IF deployed + 1 \in Emitting THEN deployed + 1 ELSE script
          /\ kept' = {deployed, deployed + 1}
          /\ UNCHANGED <<workers, activation, cache, page, overlapped>>

(* The owner opens a page of the dashboard's routes, or one in the scope   *)
(* of the worker, which controls it from the start.                        *)
Navigate(p, scoped) ==
    /\ ~Open(p)
    /\ page' = [page EXCEPT ![p] =
                  [build |-> IF scoped THEN Served ELSE deployed, scoped |-> scoped,
                   worker |-> IF scoped THEN active ELSE None,
                   registration |-> "current", pc |-> "loading"]]
    /\ scoped => ~activating
    /\ UNCHANGED <<server, workers, activation, cache, overlapped>>

Close(p) == /\ Open(p)
            /\ page' = [page EXCEPT ![p] = Closed]
            /\ UNCHANGED <<server, workers, activation, cache, overlapped>>

(* The page runs once its main script has arrived.                         *)
Start(p) == /\ page[p].pc = "loading" /\ Answered(p)
            /\ Available(p, <<Main, Hash[Main][page[p].build]>>)
            /\ page' = [page EXCEPT ![p].pc = "running"]
            /\ UNCHANGED <<server, workers, activation, cache, overlapped>>

(* An installation of the script on the server begins: precacheAndRoute    *)
(* looks which entries of the manifest are not in the cache.               *)
Install == /\ installing' = script
           /\ todo' = Manifest(script) \ files
           /\ UNCHANGED <<waiting, active, skips>>

(* A page of an earlier build registers the worker, by its URL.            *)
Register(p) == /\ page[p].pc = "running" /\ page[p].build \in Registering
               /\ page' = [page EXCEPT ![p].pc = "done"]
               /\ IF Newest = None THEN Install ELSE UNCHANGED workers
               /\ UNCHANGED <<server, activation, cache>>
               /\ RecordOverlap

UnregisterForgetfully(p) ==  \* mutant: the message to skip outlives the worker
    /\ page[p].pc = "running" /\ page[p].build \notin Registering /\ page[p].scoped
    /\ active # None /\ installing = None
    /\ waiting' = None /\ active' = None
    /\ activating' = FALSE /\ claiming' = FALSE
    /\ leftover' = leftover \cup {m \in {active} : activating}
    /\ page' = [q \in Pages |->
                  [page[q] EXCEPT !.registration = IF Controlled(q) THEN "former" ELSE @,
                                  !.pc = IF q = p THEN "done" ELSE @]]
    /\ UNCHANGED <<server, installing, todo, skips, cache, overlapped>>
(* A page of a later build unregisters it, when it is in its scope and the *)
(* worker is active (navigator.serviceWorker.ready) and nothing is being   *)
(* installed: navigations do not get to it any more, pages it controls     *)
(* keep it, the caches stay and a clean-up that has begun goes on.         *)
Unregister(p) ==
    /\ page[p].pc = "running" /\ page[p].build \notin Registering /\ page[p].scoped
    /\ active # None /\ installing = None
    /\ waiting' = None /\ active' = None /\ skips' = FALSE
    /\ activating' = FALSE /\ claiming' = FALSE
    /\ leftover' = leftover \cup {m \in {active} : activating}
    /\ page' = [q \in Pages |->
                  [page[q] EXCEPT !.registration = IF Controlled(q) THEN "former" ELSE @,
                                  !.pc = IF q = p THEN "done" ELSE @]]
    /\ UNCHANGED <<server, installing, todo, cache, overlapped>>

(* The browser compares its newest worker with service-worker.js, after a  *)
(* navigation in the scope and from time to time.                          *)
Update == /\ installing = None
          /\ Newest \notin {None, script}
          /\ Install
          /\ UNCHANGED <<server, activation, cache, page>>
          /\ RecordOverlap

PrecacheIndexStale ==  \* mutant: any index.html, of a build that is dropped, too
    /\ installing # None /\ IndexEntry(installing) \in todo
    /\ files' = files \cup {IndexEntry(installing)}
    /\ todo' = todo \ {IndexEntry(installing)}
    /\ \E b \in kept : index' = [index EXCEPT ![installing] = b]
    /\ UNCHANGED <<server, installing, waiting, active, skips, activation, page, overlapped>>
(* On install what is missing is fetched: index.html is whatever is        *)
(* deployed then, ...                                                      *)
PrecacheIndex ==
    /\ installing # None /\ IndexEntry(installing) \in todo
    /\ files' = files \cup {IndexEntry(installing)}
    /\ todo' = todo \ {IndexEntry(installing)}
    /\ index' = [index EXCEPT ![installing] = deployed]
    /\ UNCHANGED <<server, installing, waiting, active, skips, activation, page, overlapped>>

(* ... and a hashed file is not found when the server has dropped it.      *)
Precache(f) == /\ f \in todo \cap OnServer
               /\ files' = files \cup {f} /\ todo' = todo \ {f}
               /\ UNCHANGED <<server, installing, waiting, active, skips, activation, index,
                              page, overlapped>>

InstallFailsUndoing ==  \* mutant: a failed installation takes back what it lists
    /\ installing # None /\ todo # {}
    /\ installing' = None /\ todo' = {}
    /\ files' = files \ Manifest(installing)
    /\ UNCHANGED <<server, waiting, active, skips, activation, index, page, overlapped>>
(* A fetch fails, or is not found, and the installation with it: what it   *)
(* has cached stays, for the next one.                                     *)
InstallFails == /\ installing # None /\ todo # {}
                /\ installing' = None /\ todo' = {}
                /\ UNCHANGED <<server, waiting, active, skips, activation, cache, page, overlapped>>

InstalledCleaning ==  \* mutant: clean-up when a worker is installed
    /\ installing # None /\ todo = {}
    /\ waiting' = installing /\ installing' = None /\ skips' = FALSE
    /\ files' = files \cap Manifest(installing)
    /\ UNCHANGED <<server, active, todo, activation, index, page, overlapped>>
Installed == /\ installing # None /\ todo = {}
             /\ waiting' = installing /\ installing' = None /\ skips' = FALSE
             /\ UNCHANGED <<server, active, todo, activation, cache, page, overlapped>>

(* The message handler: the waiting worker must not wait.                  *)
SkipWaiting(p) == /\ page[p].pc \in {"running", "done"} /\ page[p].build \in Posting
                  /\ waiting # None
                  /\ skips' = TRUE
                  /\ UNCHANGED <<server, installing, waiting, active, todo, activation, cache,
                                 page, overlapped>>

(* The waiting worker becomes the active one, and the one of the pages     *)
(* under this registration; pages under a former one keep theirs for now.  *)
Activate ==
    /\ waiting # None /\ ~activating
    /\ active = None \/ skips \/ \A p \in Pages : ~Controlled(p)
    /\ active' = waiting /\ waiting' = None /\ skips' = FALSE
    /\ activating' = TRUE /\ claiming' = TRUE
    /\ page' = [p \in Pages |->
                  IF Controlled(p) THEN [page[p] EXCEPT !.worker = waiting]
                  ELSE [page[p] EXCEPT !.registration = IF @ = "former" THEN "overtaken" ELSE @]]
    /\ UNCHANGED <<server, installing, todo, leftover, cache>>
    /\ RecordOverlap

(* clientsClaim, which nobody waits for, makes every open page in scope    *)
(* the active worker's ...                                                 *)
Claim ==
    /\ claiming
    /\ claiming' = FALSE
    /\ page' = [p \in Pages |->
                  IF page[p].scoped THEN [page[p] EXCEPT !.worker = active, !.registration = "current"]
                  ELSE page[p]]
    /\ UNCHANGED <<server, workers, activating, leftover, cache, overlapped>>

(* ... and Workbox deletes the entries that the worker does not list.      *)
Clean == /\ activating
         /\ activating' = FALSE
         /\ files' = files \cap Manifest(active)
         /\ UNCHANGED <<server, workers, claiming, leftover, index, page, overlapped>>

CleanLeftover(m) ==
    /\ m \in leftover
    /\ leftover' = leftover \ {m}
    /\ files' = files \cap Manifest(m)
    /\ UNCHANGED <<server, workers, activating, claiming, index, page, overlapped>>

Next == \/ Deploy
        \/ \E p \in Pages : \/ \E scoped \in BOOLEAN : Navigate(p, scoped)
                            \/ Close(p) \/ Start(p)
                            \/ Register(p) \/ Unregister(p) \/ SkipWaiting(p)
        \/ Update \/ PrecacheIndex \/ \E f \in todo : Precache(f)
        \/ InstallFails \/ Installed \/ Activate \/ Claim \/ Clean
        \/ \E m \in leftover : CleanLeftover(m)

Spec == Init /\ [][Next]_vars
-----------------------------------------------------------------------------
Workers == Builds \cup {None}
PageTypes ==
    /\ page \in [Pages -> [build : Workers, scoped : BOOLEAN, worker : Workers,
                           registration : {"current", "former", "overtaken"},
                           pc : {"closed", "loading", "running", "done"}]]
    /\ \A p \in Pages : IF Open(p) THEN page[p].build # None ELSE page[p] = Closed

WorkerOrder ==
    /\ installing <= script /\ waiting <= script /\ active <= script /\ script <= deployed
    /\ waiting # None => active < waiting
    /\ installing # None => active < installing /\ waiting < installing

(* Types; workers are newer from the active to the installing one, none is *)
(* newer than the script on the server, only a waiting one is told to skip *)
(* and only an active one cleans up and claims: what install and activate  *)
(* events rely on.                                                         *)
TypeOK ==
    /\ deployed \in Builds /\ script \in Builds /\ kept \subseteq Builds
    /\ {installing, waiting, active} \subseteq Workers /\ todo \subseteq Entries
    /\ skips \in BOOLEAN /\ (skips => waiting # None)
    /\ {activating, claiming} \subseteq BOOLEAN /\ (activating \/ claiming => active # None)
    /\ leftover \subseteq Builds /\ files \subseteq Entries
    /\ index \in [Builds -> Workers] /\ overlapped \in BOOLEAN
    /\ PageTypes /\ WorkerOrder

(* precacheAndRoute: a worker that waits or is active has its whole        *)
(* manifest in the cache, however its and later installations failed half- *)
(* way, raced with deployments, or were followed by the pages that         *)
(* unregister the worker.  That an installation overlaps the clean-up of   *)
(* another worker is excepted: the one deletes what the other has fetched, *)
(* or has found there, and does not look for again.                        *)
ShellComplete == ~overlapped => \A m \in {waiting, active} \ {None} : Complete(m)

(* A page whose worker is of its own build finds every file of the build   *)
(* in the cache, even when the server has dropped it and the worker has    *)
(* been unregistered, through failed and finished installations, until     *)
(* another worker is activated in a registration of its own: that worker's *)
(* clean-up does not wait for the claim by which it takes the page over.   *)
OwnBuild(p) == /\ page[p].worker # None /\ page[p].worker = page[p].build
               /\ page[p].registration # "overtaken"
PagesKeepFiles ==
    ~overlapped =>
      \A p \in Pages : OwnBuild(p) => Manifest(page[p].build) \subseteq files

(* While workers follow each other, navigations in their scope are never   *)
(* sent back to an older build, although index.html is fetched by name,    *)
(* whenever the installation gets to it, and is kept through failed        *)
(* installations; unless a clean-up and an installation overlapped.        *)
NeverOlder ==
    [][active # None /\ active' # None /\ ~overlapped => Served' >= Served]_vars
=============================================================================
