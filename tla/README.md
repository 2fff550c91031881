# A TLA+ verification development for HAT 2.0

HAT 2.0 is the server of personal data accounts: each *HAT* (hub of all
things) is one person's PostgreSQL database of JSON records, shared with
applications and clients through *data debits* that the owner enables.  One
Play/Akka process serves many HATs.  This directory holds TLA+ modules of the
parts whose behaviour depends on the order of things (concurrent requests,
statements of a transaction, caches, actors, crashes), the TLC configurations
that check them on small instances, and TLAPS proofs of the main invariants
for every value of the constants.

`$H` is `src/hat/app/org/hatdex/hat`.  `PROJECT.json` lists the components,
runs, mutants, hazards and theorems, and the source lines of each definition.

## The system

| Part | State | Operations | Talks to |
| --- | --- | --- | --- |
| Server provisioning (`$H/resourceManagement`) | one `HatServerActor` per HAT in use, cache of servers, counter | retrieve a server, connect, idle shutdown | every request starts here |
| Data debits (`api/service/richData/DataDebitService`) | tables `data_debit`, `data_debit_permissions`, `data_bundles` | create, update, enable newest, disable, read values | users (roles), bundles |
| Data records (`api/service/richData/RichDataService`) | tables `data_json`, `data_json_groups`, `data_json_group_records` | save, link, update, delete, query | event bus |
| SHE functions (`$H/she`) | tables `she_function`, `she_function_status`, event queue | dispatch on events, trigger, run, enable, disable | records, bundles |
| Applications (`api/service/applications`) | table `applications_status`, caches `apps:<hat>` and `apps:<hat>:<id>` | status, list, set up, disable | data debits, functions, remote services; authorisation reads its cache |
| Users and tokens (`api/service/UserServiceImpl`, `MailTokenService`, `$H/authentication`) | tables `user_user`, `user_role`, `user_mail_tokens`, cache of users | get, save, delete, tokens | everything |
| Files (`FileUploadServiceImpl`, `FileMetadataRepositorySlick`) | tables `hat_file`, `hat_file_access`; content in S3 | start and complete upload, update, delete, permissions | S3 |
| Events and statistics (`api/service/monitoring`, `StatsReporter`) | buffers, table `data_stats_log` | publish, batch, report, keep for later | data exchange |
| Dashboard (`phata/assets`) | the browser's workers of one registration, the precache, open pages; the builds on the server | navigate, register, unregister, update, precache, skip waiting, activate; deploy | the server's assets |
| Bundles, combinators, migration, status, logs, mappers, feed, HTTP clients | little or none | reads, conversions, remote calls | |

What is hard: every HTTP request is a chain of futures, so that each database
call, cache call and remote call is a separate step, and any two requests
interleave between them.  Transactions run at PostgreSQL's default isolation,
READ COMMITTED, where each *statement* sees what is committed when it starts.
Caches are filled with what was read before they were dropped.  Actors get
messages in states they were not meant for.  Nothing retries, and much that
happens "after" (roles, caches) is not waited for.  In the owner's browser a service
worker of one build serves pages of another.

What makes each part correct, in one sentence:

- **Data debits**: data are served only under permissions the owner enabled,
  one set of them per debit, no debit can reach another's bundle, and a client
  has the role for the debits it made or updated.
- **Data records**: groups link exactly the records they were made of; a
  deletion removes all the records it was asked for, the user's own and no
  others, and besides them only groups that are empty.
- **Provisioning**: every ask is answered, no connection pool is leaked, the
  counter of active HATs is exact.
- **Functions**: no record is skipped, but those inserted late for a run or whose
  output could not be saved.
- **Applications**: a data debit is active only for an enabled application,
  what is cached for authorisation agrees with the database, and a set-up that
  reports its dependencies ready has found them so.
- **Users**: nobody gains the owner's privileges, the owner keeps them, and
  what is cached of an account is what the database holds.
- **Files**: a file is completed only when its content is there, and no two
  uploads share a file.
- **Dashboard**: what a worker offers is complete, an open page finds its
  files, and no navigation goes back to an older build.

## Modules

| Module | Models | Actions and the code they stand for |
| --- | --- | --- |
| `DataDebits` | `DataDebitService`, `DataDebits` controller | `CreateDataDebit` (one insert-only transaction), `UpdateStart` ... `InsertPermissions` (the statements of `updateDataDebitPermissions`), `GrantRead`, `GrantSave`, `GrantFails` (the role, afterwards), `EnableDisableOld`, `EnableNewest` (the two statements of `dataDebitEnableNewestPermissions`), `DisableApply`, `ValuesRead`, `ValuesServe`, `Abort` |
| `Consent` | what data debits promise the owner: the abstract specification of `DataDebits` | `Enable`, `Disable`, `Read`, `Serve`: each request of the `DataDebits` controller as one step |
| `RichData` | `RichDataService`, `RichData` controller | `SaveData` (`saveData` and `saveDataGroups`: one record or several in a transaction, each batch with its group), `SaveRecordGroup`, `UpdateRecords` (one step each), `DeleteStart`, `DeleteLinks`, `DeleteGroups`, `DeleteRecords` (the statements of `deleteRecords` and `deleteEndpoint`) |
| `Archive` | what the data store promises its users: the abstract specification of `RichData` | `Save`, `Link`, `Update`, `DeleteRecords`, `DeleteEndpoint`: each request as one step that happens at once or not at all |
| `HatServers` | `HatServerProvider`, `HatServerProviderActor`, `HatServerActor`, `ActiveHatCounter` | `Retrieve*` (cache, ask, answer, time-out), `Resolve`, `Create` (`doFindOrCreate`), `RetrieveReceived`, `ConnectEnds`, `ConnectReceived` (the `Receive`s), `TimerFires`, `TimeoutReceived` (a receive timeout is enqueued, before or behind other messages, and taken), `CountNotice` |
| `SheFunctions` | `FunctionService`, `FunctionExecutionDispatcher`, `FunctionManager`, the inserts of `RichDataService` | `DataStamped`, `DataCreated`, `DataLost` (a record gets its stamp, and its insert commits later or fails), `Dispatch`, `TriggerByOwner`, `MarkExecuting`, `ReadBundle`, `SaveOutput` (of all or of some of the records: `skipErrors`), `MarkCompleted`, `Fail`, `ToggleRead`, `ToggleSave` |
| `Applications` | `ApplicationsService`, `Applications` controller | `StatusCall`, `Bust`, `Get`, `ReadRow`, `Collect`, `Fill` (`applicationStatus(id)`), `List*` (`applicationStatus()`), `Stored` (the call of the cache that `refetchApplicationsStatus` does not wait for), `OwnerCall`, `EnableDebit`, `EnableRow`, `IsSetUp`, `NextStage`, `ToolGet`, `ToolSave`, `DependenciesSetUp`, `DependencyFailed`, `SetupFailed`, `Revert` (`setup`), `DisableDebit`, `DisableRow` (`disable`), `TaskFails`, `Fails`, `DirectEnable`, `DirectDisable`, `ToolSwitch` (the debits' and functions' own APIs), `Expire`, `ExpireList` |
| `Users` | `UserServiceImpl`, `Users` controller, `passwordChangeProcess`, the grant of a debit's role | `Call` (a request arrives), `Get`, `Query` (`getUser`: the cache, then the database), `Continue` (what each handler does with the user it found), `Begin`, `Save`, `Delete` (the statements of `saveUser` and `deleteUser`), `Flush` (a call of the cache that nobody waits for), `Evict`, `Lose` |
| `Files` | `FileUploadServiceImpl`, `FileMetadataRepositorySlick`, `Files` controller, S3 | `StartCall`, `PickId`, `SaveNew`, `GetUploadUrl`, `GrantSelf` (`startUpload`), `Upload` (a client writes to the store), `FileCall`, `Read`, `GetFileSize`, `DeleteContents`, `Save` (`completeUpload`, `update`, `changePublicAccess`, `delete`), `Allow`, `AllowPattern`, `Restrict`, `RestrictPattern`, `Lose` |
| `Dashboard` | `phata/assets`: `service-worker.js`, the precache manifest it imports, the main scripts of the builds | `PrecacheIndex`, `Precache`, `InstallFails`, `Installed` (`precacheAndRoute` on install), `SkipWaiting` (the message handler), `Activate`, `Claim` (`clientsClaim`), `Clean`, `CleanLeftover` (the clean-up of `precacheAndRoute`, also of a worker that was unregistered), `Navigate` (the dashboard's routes, or the navigation route of the worker), `Start`, `Unregister` (the main scripts), `Register`, `Update`, `Close` (the browser), `Deploy` |

`MC*` modules give TLC symmetry sets and the functions that a `.cfg` cannot
write.  `*_proofs` modules hold the theorems.  Operators whose comment says
"mutant" are faulty variants of the definition after them; they are used only
to see that a property depends on it.

### What is abstracted

- **Data** are model values: a bundle is its name, a record its hash, a
  server its connection pool.  The second unique key of `data_json`
  (`source`, `source_unique_id`) is left out, for it only refuses more.
- **Locks** of PostgreSQL are guards: an update waits for rows another open
  transaction changed, an insert for a rival insert of its key (`Locked`,
  `NoRival`, `Free`).  A deadlock, a lost connection or a restart is `Abort`
  (`Lose`, `Fail`), enabled at every step.
- **Time**: cache entries, asks and receive timeouts may end at any moment.
  `SheFunctions` has a clock, since its code compares time stamps; the clock
  is bounded by `MaxTime`, and its runs do not check for deadlock because the
  clock stops there.  The period of a data debit is not modelled: cancelled
  "at the period's end" a debit stays active.
- **Users**: names are left out, and so are accounts that clients make up with
  privileged roles (refused at once).  The roles of contracts, which
  `queryUser` adds to what it reads, are a constant.  A save is two steps,
  since its first statement's snapshot decides which roles it deletes.
- **Files**: of a row only its status is kept, so that `update` and
  `changePublicAccess` are one operation, "change", that writes back the
  status it read.  Access that only lists a file is left out, and so is the
  expiry of URLs, which takes behaviour away.  The owner stands for the
  applications that manage files, and whether somebody may ask for a change or
  a deletion is not modelled.
- **Dashboard**: a build is a number and a file a name with the hash of its
  URL, so that two builds may share a file.  Workbox and the browser's rules for
  workers (update check, install, wait, activate, claim) are modelled from how
  `service-worker.js` uses them.  The script is served under `/assets/` without
  a `Service-Worker-Allowed` header, so its scope is `/assets/`: pages of the
  dashboard's own routes (`conf/routes`: `/` and `/*path`) are served by the
  server, never controlled, and cannot unregister the worker; pages opened under
  `/assets/` are in its scope (`scoped`).  Push, other origins, what pages show,
  and a waiting worker of a registration that is gone being told to skip, are
  left out.
- **Parallel calls**: what `Future.sequence` starts in `Applications` are tasks
  that interleave, and go on when one of them fails.  The removal of one copy at
  a time, by `cache.remove` of the list alone or by its duration, is `Expire` and
  `ExpireList`, enabled at any time.
- **Mailboxes** of actors are sets: no two messages of one sender are in one
  together, except notices to the counter, which are a sequence.
- **Histories** say of a mishap that it happened, so that a property can name it
  as its only exception.
  - `DataDebits`: `crossed` has the debits of which an enable accepted a row that
    another enable, already under way, had not seen, until an enable that saw
    all accepted rows; `asked` who made or updated a debit; `unsettled` whose
    grant of a role failed or overlapped with another.
  - `HatServers`: `leaked`, pools opened by a connection that then failed.
  - `SheFunctions`: `late`, records whose insert committed when a run had read
    and not ended, or when a run had ended after their stamp; `unsaved`, records
    whose output a completed run failed to save.
  - `Applications`: `abandoned`, changes lost half-way or before they dropped the
    cached copies; `missed`, changes that came when a copy of the status was
    being made or was still to be stored, or that do not drop the copies at all
    (both are forgotten when the last copies are dropped); `apart`, debits enabled
    by themselves, or by a set-up between the two changes of a disabling;
    `since` and `misled`, what was enabled since a set-up began, and what only a
    cached copy told it was.
  - `Users`: `disturbed`, requests overlapped or one was lost; `replaced`, the
    privileged accounts that another was created over.
  - `Files`: `doubled` and `disturbed`; `Dashboard`: `overlapped`, an installation
    overlapped a clean-up of the cache.
- **Identifiers** are drawn in order; `MaxRows`, `MaxRecords` and `MaxGroups`
  bound how many rows are ever made, `MaxCopies` how many files of one name,
  `Bodies` and `Kinds` what clients send, `MaxNotices` and `MaxDatabases` the
  notices under way and pools in use, `LastBuild` the deployments.  `OneMishap`
  and `NoMishap` keep the histories of `Applications` to one mishap at a time,
  or, in the run about dependencies, where they have no part in the property, to
  none; `OneDisturbed` bounds the files that requests overlap on.
  `FewRowsOnceUnsettled` has at most two permissions once a grant has failed or
  overlapped with another, and `EarlierWithTwo` stops the clock one tick earlier
  when there are two records.

## What the runs check

| Run | Shows |
| --- | --- |
| `DataDebits_owner` | Two debits, two bundles, three permissions, two overlapping requests of any kind: bundles have one owner (`BundleOwnership`), values are served only under enabled permissions (`ServedWithConsent`), a debit's role is only with users whose creation or update of it succeeded (`RolesForDebits`) and they have it unless a grant of theirs is under way, failed or overlapped with another (`RolesKept`), only an enable brings permissions into force (`ActivatedByEnable`), two bundles of a debit are accepted only where an enable accepted a row that another one under way had not seen (`OneBundleAccepted`), and all of it implements `Consent` (`KeepsPromise`). |
| `RichData_links` | Two users, three records, batches of up to three, two concurrent deletions: `GroupIntegrity`; what goes is exactly the records asked for, all the user's, with their links, and groups, whoever's, that have no records left (`DeletesOwnAndAll`); and all of it implements `Archive` (`KeepsArchive`), where no two records hold the same data. |
| `RichData_others` | *Violated:* `deleteRecords` selects other users' groups that have links, and the foreign key fails the deletion. |
| `HatServers_pools` | One HAT, three requests, two pools, connections that end in every way, receive timeouts enqueued in any state, under fair scheduling: no pool leaks but those of connections that failed after opening one (`OpenOwned`, history `leaked`), the counter is exact but for notices under way, each HAT counted as it was when its next notice was sent (`CounterExact`), every retrieval that reached the actor is taken unless its connection crashed (`Consumed`). A server that a request was given, or that is cached, may be of a pool shut down since. It does not check for deadlock: the actor of a connection that crashed really stays connecting. |
| `SheFunctions_periodic` | Two overlapping calls, two records, the clock up to 5 (4 with both), inserts that commit late or fail and outputs that fail to be saved: what the last execution's time stamp covers was processed, or came late for a run, or a completed run failed to save it (`SkippedOnlyLateOrUnsaved`). |
| `Applications_dependencies` | An application that depends on another one and on a tool, two requests that overlap in any way, failing tasks beside running ones: `DependenciesReady`. |
| `Applications_owner` | One application with a debit, two requests that overlap in any way, set-ups and disablings too, debits enabled and disabled by themselves, one mishap at a time (`OneMishap`): `DebitFollowsStatus`, `ActiveHasDebit`, `CachesAgree`; and stale caches come to agree with an application that stays disabled (`TruthReturns`). |
| `Users_accounts` | The owner and a client, two overlapping creations (under any id), updates, deletions and password changes that may fail: nobody gains a privileged role, in the database or in the cache, and nobody loses one unless another account is created over theirs (`PrivilegesFixed`). |
| `Users_serial` | Every kind of request, one at a time, creations under any id: the copies under the id and the present email agree with the database (`CachesAgree`), and only a creation brings a deleted account back, but for an owner's that another was created over (`StaysDeleted`). |
| `Files_uploads` | One name, two ids, two users, two overlapping requests that may be lost, on at most one file (`OneDisturbed`): `CompletedWasUploaded`, `OneUploader` (with the exception of files that two starts picked before either saved its row, history `doubled`), `Settled`. |
| `Files_spaces` | *Violated:* when the name has a space, the second upload gets the id of the first and overwrites its row (`OneUploader`). |
| `Dashboard_worker` | Three builds, each with a worker of its own, two pages in the worker's scope or not, one file shared by builds; claim and clean-up in either order: unless an installation overlaps a clean-up, what a waiting or active worker offers is complete (`ShellComplete`), a page under the worker of its build keeps its files until a worker of another registration is activated (`PagesKeepFiles`), and navigations in the scope do not go back (`NeverOlder`). |

Why the bounds are enough: every hazard listed involves at most two requests
beside the one that is harmed, one object contended for and one that must stay
untouched; the runs have that many.  TLC's statistics show each action taken.
The invariants and action properties are proved without the bounds.
`LastBuild = 2` gives a build that is deployed, one whose files are still kept
and one whose files are gone.  `HatServers_pools` has one HAT, as HATs share only
the counter and the supply of pools; the theorems hold for any number.  In
`SheFunctions_periodic` a run needs three ticks from a record's stamp to its
next reading, and two records tell apart one that is read from one that comes
late.  The two runs of `Applications` share their questions between them: the
debit does not matter to dependencies, nor dependencies to the debit.

Fairness is assumed where the code schedules the step itself: actors with
messages run, futures complete, connections and resolutions end or time out
(`HatServers!Fairness`), requests get on and cached items expire
(`Applications!FairSpec`).  A retrieval in an actor's mailbox is taken under
strong fairness: mailboxes are first come, first served, and the set that stands
for one would otherwise let receive timeouts, after which the actor connects
anew, get in front of it for ever.  `Users`, `Files`, `Dashboard` and
the modules of the database have safety properties only.  Nothing is assumed
of clients, of the owner, of browsers, or of receive timeouts.

### Divergences met on the way that no run shows

They follow from the modules; the hazards in `PROJECT.json` name most of them.

- Two enables of a data debit, of which one accepts permissions inserted after
  the other's first statement, leave two of its bundles accepted:
  `DataDebitService` lines 339-355, two statements.  The update that inserts them
  may come between their beginnings, or after both have begun.  `crossed`
  has the debits to which this happened; `OneBundleAccepted` says that it takes
  such an enable.
- Two grants of roles to one user that overlap lose one of them, and a grant that
  fails leaves a debit's client without a role (`RolesKept` excepts them).
- Disabling a debit at the end of its period after it was disabled at once
  opens it again until then (`Consent!Disable` allows it, for bundles once
  granted to the debit).
- The committed `index.html` is of a build (`main.e09bc795`) that the precache
  manifest does not list: the worker comes from an earlier one
  (`main.b021aa2e`), and keeps whatever `index.html` is deployed when it installs
  under the revision of its own.  The files of both builds are in the
  repository, hence `kept`.  Both main scripts unregister the worker; those that
  register it and post SKIP_WAITING belong to a build before (build 0).
- Events that the dispatcher takes while a function does not match are gone
  (`FunctionExecutionDispatcher` line 144); a function's save may overwrite a
  bundle of a data debit by name (`FunctionService` line 186); two runs of one
  function may answer for one another (`FunctionService` line 280); a failed
  `HatServerActor` under traffic stays failed (line 86).
- Of two concurrent first retrievals of a HAT the second finds the name of the
  actor taken, its failure is only logged (`HatServerProviderActor` lines
  67-71 and 108), and its asker waits until the time-out.
- `markExecuting` refuses only what ran a short while ago, and does not look at
  `executionStarted`: a second run begins while the function is executing.
- A set-up that crosses a disabling leaves the application disabled with its
  data debit active, and so does enabling the debit by itself: `apart`.
- A set-up takes a dependency for enabled when a cached copy says so (`misled`);
  what failed in the middle of setting dependencies up is not undone, and its
  parallel calls go on after the answer.
- `disableUser` calls `changeUserState(userId, enabled = true)` and answers
  "Enabled" (`Users` controller, line 254): nobody is ever disabled.
- With overlapping requests the cached copy of an account may stay behind, or
  bring a deleted account back when a grant or a password is saved from it;
  under an email that an account no longer has an old copy stays for ever.
  A new account is refused when its email is taken, not when its id is, and
  then overwrites the account that has it, its roles included, the owner's too:
  `replaced`.  The copy under the owner's email stays cached, and a change of
  password saves it back.
- Two uploads that are started at once get one id (`doubled`).  A URL outlives the
  deletion of its file, so that content may come back that no row tells of.
- A status request that read the row before `disable` caches "enabled" after it
  (`ApplicationsService` lines 98-126), at once or by a call that nobody waits
  for (line 181), after the copies were dropped; and a data debit disabled
  through its own API leaves the cached status active: that is what `missed`
  records, and `CachesAgree` and `ActiveHasDebit` except.
  `applicationStatus(id)` caches a status even when its flag says that it was
  made up after a time-out.
- A deletion removes every group that has become empty, of any user.
- Two deletions of the last two records of a group leave an empty group.
- The shutdown of an idle HAT removes a key from a cache that the provider
  does not use.
- `markCompleted` stamps the end of a run, so that records saved during the
  run are never processed; nor are records whose stamp (`RichDataService` line
  62) is older than the end of a run when they are committed after it has read,
  or whose output `saveDataGroups(skipErrors = true)` (lines 153-160) fails to
  save.  `SkippedOnlyLateOrUnsaved` says: only those.
- An installation of the worker looks once at what is missing (Workbox 4.3.1):
  when another worker's clean-up overlaps it, a worker may be offered whose
  manifest is not all stored (`overlapped`).  Claim and clean-up are not waited
  for: after a registration of its own, a worker may delete the files of an open
  page before it claims the page.
- A connection that fails after the pool was opened leaks it, and a failure
  other than `HatServerDiscoveryException` leaves the actor connecting for
  ever (outcomes `late` and `crash` of `HatServers`).

## What is proved

With TLAPS, for every value of the constants (any number of users, requests,
keys, records, unbounded time):

- `DataDebits_proofs`: `TypeOK`, `BundleOwnership`, `ServedWithConsent`,
  `RolesForDebits`, `RolesKept`, `ActivatedByEnable`, `OneBundleAccepted`; and
  `PromiseKept`, that `DataDebits` implements `Consent`.
- `HatServers_proofs`: `TypeOK`, `OpenOwned`, `CounterExact` (from
  `IsFiniteSet(Hats)`).
- `Dashboard_proofs`: `TypeOK`, `ShellComplete`, `PagesKeepFiles`, `NeverOlder`.
- `RichData_proofs`: `TypeOK`, `GroupIntegrity`, `DeletesOwnAndAll`; and
  `ArchiveKept`, that `RichData` implements `Archive`.
- `SheFunctions_proofs`: `TypeOK`, `SkippedOnlyLateOrUnsaved`.
- `Applications_proofs`: `TypeOK`, `DebitFollowsStatus`, `CachesAgree`,
  `ActiveHasDebit`, `DependenciesReady`, for requests that overlap in any way and
  any dependencies, cyclic ones too.
- `Users_proofs`: `TypeOK`, `PrivilegesFixed`, `CachesAgree` and the action
  property `StaysDeleted`, whatever ids and emails clients send.
- `Files_proofs`: `TypeOK`, `CompletedWasUploaded`, `Settled`; and
  `OneUploader` from the assumption that no name has a space.

The argument is the same each time: an inductive invariant `IInv` holds in the
initial states, each action preserves it (one lemma or step per action, and
per conjunct it can disturb), and it implies the property.

- *DataDebits*: ownership of a bundle is not inductive, as an update counts
  rivals and inserts later.  `UpdateClaims` says what an open update has found
  and inserted; with the primary key of bundles (`InsertedApart`) two updates
  can never both link one bundle.  Consent follows because an enable's second
  statement, which selects by bundle, can only meet rows of its own debit.
  `SnapOwn` keeps what an enable or a disabling saw within its debit, and
  `EnableSawAccepted` says that accepted rows of another bundle cannot appear
  behind the first statement of an enable unless the debit is `crossed`.
  Of the roles: a grant under way is for a debit its user asked for
  (`GrantsForDebits`, `AskedStored`), and what it has read of the user's roles
  is still all of them unless the user is `unsettled` (`GrantsFresh`).
  For the refinement a row stands for an open bundle when it is active
  (`Opened`), a request about to query a bundle for a reading (`BeingRead`).
  The second statement of an enable is `Consent!Enable` of its newest bundle (or,
  of a debit without rows, a `Disable` that closes nothing), the statement of a
  disabling is `Disable`, the two steps of a request for values are `Read` and
  `Serve`; every other statement, commit and roll-back changes nothing there.
- *HatServers*: the notices of one HAT alternate and end with its present state
  (`NoticesAlternate`): taking the first one moves the HAT into or out of the
  set that is counted, sending one moves none.  No two actors share a pool
  (`ServersApart`), so that shutting one down closes nobody else's, and no
  leaked one is among theirs.  A receive timeout is heeded by a connected or
  failed actor only (`Heeds`), wherever it was set: nothing is assumed about
  when it fires.
- *Dashboard*: workers are ordered by build from the active to the installing
  one, and so are the `index.html` they have cached (`IndexOrdered`); controlled
  pages have the active worker (`Control`); and until an installation overlaps a
  clean-up, an installation has or knows that it misses what its manifest lists,
  nothing waits during a clean-up, and one left over by a worker that was
  unregistered is of the worker of the pages that were under it (`Apart`): what
  it deletes is nobody's.
- *RichData*: a deletion's uncommitted links belong to what it was asked for
  (`DeletedLinksRequested`), its uncommitted groups have no other links
  (`DeletedGroupsEmpty`); so its commit leaves the links of what stays.  The
  waiting of deletions for one another is not used: safety does not rest on it.
  For the refinement a group of `Archive` has the records its committed links
  name (`Contents`).  Each saving is one `Save`, the commit of a deletion is one
  `DeleteRecords` or `DeleteEndpoint`, its other statements and a roll-back
  change nothing; that the groups it removes have no other links is
  `DeletedGroupsEmpty`.
- *SheFunctions*: a status that was read may be written back later, and every
  reader's time stamp is covered (`ConfCovered`); a run that has read its
  records holds all that are not covered (`ReadersCovered`); and no status is of
  a time after the latest end of a run (`EndedLast`), so that a record that is
  committed with an older stamp than one of them is known to be `late`.
- *Applications*: a disabling between its two changes has a debit that is off,
  or that was enabled `apart` (`DInv`): each action that switches a debit or a
  row is compared with it.  Of the caches (`CInv`, `AInv`): a copy in the making
  or being stored agrees with the row, and with the debit if it says active, or
  the change was `missed`; a cached one may also have a change on its way that
  will drop it, or was lost there (`RowsAgree`, `ActiveAgree`).  Each step says
  once where the copies after it come from (`MadeTraced`, `KeptTraced`) and that
  what it changes is told to the histories, or that there are no copies
  (`Told`); the lemmas about the invariants only use that.  Of dependencies
  (`SInv`): what a set-up knows of a thing (`Known`) is that it has noted it when
  the thing is enabled, that a status in the making that says "enabled" was
  right at some time since the set-up began, and that a ready task is noted or
  was misled.
- *Users*: every copy of an account that is still to be written, in a request
  or on its way to the cache, is as entitled to privileged roles as the account
  was when the HAT was made (`PendingEntitled`, `RequestsEntitled`), or at most as
  entitled when another was created over it (`replaced`), and a row has the id it
  is stored under (`OwnRows`).  Of the copies (`SInv`): until a
  request has written an account, all that is cached or on its way there agrees
  (`AllAgree`); from then on the last call for a key does (`LastAgree`,
  `Settles`); and what is about to be saved is an account that exists
  (`Known`): an old copy under an email it no longer has is taken for a change
  of password only, where it is the owner's, who cannot be deleted
  unless another account was created over it.
- *Files*: a request past its read has a status that is true of the file's
  past (`CopyOK`, `SizeOK`); a start has a file that nobody else knows, or that
  is `doubled` (`FreshOK`, `StartsApart`), as the number it picked is not in use
  and only starts make rows; and a request on an undisturbed file is alone
  (`Alone`), so that what it saves fits the content it has seen (`SaveOK`,
  `KeptOK`).

Model-checked only: liveness (`Consumed`, `TruthReturns`).  Every
invariant and every action property of a passing run is proved, `OneUploader`
from an assumption on the names.  Liveness under
fairness, ENABLED and what recursive definitions compute for every input are out
of this prover's reach.

## Not modelled

- *Mail tokens* (claiming a HAT, resetting a password) and *the event bus and
  statistics* (batches, a report kept for later, delivery at least once): their
  state is a table or a buffer of their own that nothing above depends on.
- *The pages of the dashboard* are compiled React code without a source in the
  repository; only what their main scripts do about the worker is modelled.
- *Queries*: combinators, bundles, the paging and merging of feeds and the
  mappers are pure functions of what the tables hold.
- *HTTP clients, the application directory, lambda functions*: remote calls,
  whose answers are inputs of the modules above.
- *Contract data debits*: a legacy variant of data debits.
- *Migration, logs, status*: one-off copies and read-only reports.
- *Cryptography and Silhouette*, deployment and configuration: outside the
  program's own logic.
