# WinDep in TLA+

A verification project for WinDep, the WinPE-based Windows 11 deployment system: TLA+
modules translated from the source, TLC runs on small instances, and TLAPS proofs of the
properties that have to hold for every instance.

## 1. The system

| Part | Source | State it keeps | Operations |
|---|---|---|---|
| Payload file store | `admin/main.go` | the deploy volume: per target the published file, its `.part` staging temp, its `.sha256` sidecar; open file descriptors of running handlers | `PUT`/`PATCH`/`HEAD`/`DELETE` on `/api/files`, `verify`, `download`, list, `mkdir` |
| Resumable upload client | `admin/web/src/upload.ts`, `FilesTab.tsx` | the attempt counter and the last confirmed offset of one `resumableUpload` call | `head`, `patch`, resync loop |
| Config editor and secrets | `admin/secret.go`, `handleConfigGet/Put`, `MachinesTab.tsx` | config JSON files with secret fields (plaintext, envelope or absent); the form a browser holds open | masked read, save with keep/clear/encrypt, delete |
| Datastore | `admin/store.go`, ingest and review handlers | `deploy_event` and `audit` tables with monotone ids | addStatus, addLog, addAudit, prune, fleet, deployEvents |
| Audit middleware | `auditMW`, `classify` | rows of `audit` | one row per file operation, except resumable chatter |
| Admin web pages | `admin/web/src/FilesTab.tsx`, `FleetTab.tsx`, `LogsTab.tsx`, `AuditTab.tsx`, `App.tsx` | what the page shows, the handlers it has running, the requests it has in flight | browse, upload, delete, new folder, details, verify; review, filter, page, auto-refresh |
| WIM catalogue | `admin/wim.go` | none (pure parser) | read header, decode XML |
| Telemetry API | `api/main.go` | per-pod `machines` map (bounded), `ingestSem` (64 slots), in-flight forward goroutines, `ready` | report, log, inventory, machines, drain and shutdown |
| ZTP resolve | `api/resolve.go`, `config.go`, `crypto.go` | none beyond the files it reads | enrolment gate, merge, policy gate, decrypt, audit forward |
| OPA policy | `Server/policy/windep.rego` | none (pure) | decision |
| WinPE deploy engine | `Deploy/DeployEngine.psm1` | the target disk, the progress bar | partition, get image, apply, boot files, unattend |
| WinPE orchestration | `Invoke-Deploy.ps1`, `DeployUI.ps1`, `startnet.cmd`, `deploy.cmd`, `Get-ZtpConfig.ps1`, `Invoke-Policy.ps1` | the mode, the policy decision, the worker runspace and the hashtable it shares with the UI thread, the reboot timer | inventory, policy gate, route, countdown, deploy, report, reboot |

How they interact: browsers call the admin backend over HTTP; the admin backend is the
only writer of the volume, which nginx and `windep-api` read; WinPE machines call
`windep-api` (`/api/report`, `/api/log`, `/api/ztp/resolve`), fetch `default.json` and the
image from nginx, and call OPA; `windep-api` calls OPA itself and forwards telemetry and
audit events to the admin datastore from goroutines it never waits for.

What is hard, and what makes each part correct:

* **File store** - handlers run concurrently and coordinate only through file names, so
  each file-system call of one interleaves with those of the others and with a pod
  restart. Correct: what is visible under the final name is always one complete version
  and never changes in place; acknowledged staged bytes survive failures; a recorded
  checksum does not contradict the published bytes.
* **Upload client** - requests and replies are lost, handlers outlive the connection that
  started them. Correct: success is reported only when the file is published in full, and
  a bounded number of drops does not fail the upload.
* **Config** - read-modify-write with a sentinel standing for a value the client never
  sees. Correct: an untouched save changes no stored credential.
* **Telemetry** - concurrent forwards, drops at a full semaphore, row caps. Correct: the
  bounds hold; the fleet view converges to a machine's last status.
* **Admin web pages** - handlers keep the state of the render they were created in, and
  answers arrive in any order on whatever is shown by then. Correct: files are deleted and
  uploaded where the user saw them; a dialog shows its own file; nothing stays busy; a
  board left alone converges to the datastore.
* **ZTP resolve** - two files read at different times against concurrent saves. Correct:
  credentials only after enrolment and an allow; fail-closed.
* **WinPE** - a destructive step behind a gate, a UI thread and a worker sharing a
  hashtable, best-effort telemetry. Correct: no disk is touched before an allow and a
  confirmation or countdown; every outcome is shown and shipped.

## 2. The plan

Ordered by what a wrong answer would cost: the payload, a credential, the wrong file, the
view an operator acts on.

| Stage | Modules | Abstract specification | What it shows |
|---|---|---|---|
| 1 | `PayloadStore`, `ResumableUpload` (extends it) | `AtomicTarget`, of whole versions and of whatever was renamed | the published file is atomic, staged bytes survive, the client is right about success |
| 2 | `ConfigStore` (files, secrets, one resolution), `MachinesTab` (extends it: browsers) | a record of what was entered for which machine and field | a machine is given only its own credentials, after an allow; a save loses a secret only as its form said |
| 3 | `FilesTab` | - | deletes and uploads hit the directory and the file the user meant |
| 4 | `Telemetry` (pipeline and datastore), `ReviewTabs` (extends it: pages) | the latest report of each machine; `EventLog`, which each table implements; `Telemetry` itself, which `ReviewTabs` implements | the bounds hold; what drops, reordering, pruning and restarts do to the views |

All four stages are done. Left, with the reasons in section 7: the WinPE side
(`Invoke-Deploy.ps1`, `DeployUI.ps1`, `DeployEngine.psm1`), which answers leave an audit
row (`classify`), folders on the volume, and the OPA policy.

## 3. The modules

### PayloadStore

One upload target: every name a handler touches is derived from its own path (`dest`,
`dest + ".part"`, `dest + ".sha256"`), so targets share no state.

| Model | Code |
|---|---|
| `inode` | the contents of files; a descriptor keeps its inode through a rename or an unlink, as POSIX and NFS do |
| `dest`, `part` | what the final name and the `.part` name are bound to, or `Absent` |
| `side` | the digest in the sidecar; `Absent` when there is none, `Blank` when it was created or truncated and not written. Both read alike in `readSidecar`; a write that finds the name gone (a DELETE in between) goes nowhere |
| `req[r]` | one handler: its operation, the next file-system call (`pc`), the locals that outlive a call (`n`: bytes so far or a size from a stat, `fd`, `sum`) and the answer |
| `faults` | crashes, failed writes and failed sidecar writes so far, bounded by `MaxFaults` |

A version `f` is the sequence of blocks `<<f, 1>>, <<f, 2>>, ...`. A SHA-256 digest
stands for the content it was taken of (two contents never collide). Every file-system
call is an action: `PatchStat` is the stat and the offset check (`PatchArrive` the same
under the discipline of the clients below), `PatchOpen` the
`O_CREATE|O_APPEND` open, `PatchAppend` one write, `PatchEnd` the end of the body with
the branch on `Upload-Length`, `PatchDrop` a body that breaks off, `PatchWriteFails` a
write or a Sync that fails, after which the file may hold a block the answer does not count,
`PatchHash` and `PatchRename` are `finalizePart`, `SideTruncate` and `SideWrite` the two
halves of `os.WriteFile`, shared by PUT and PATCH. `PutCreate` .. `PutCleanup` are
`saveStream` with its deferred remove; `DeleteArrive` .. `DeletePart` both branches of
`handleDelete`; `HeadArrive`/`HeadPart` the two stats of `handleUploadOffset`; `Verify*`
and `Get*` the stat, the open or read, and the streaming of `handleVerify` and
`handleDownload`. `Deliver` frees the slot of an answered request, `Crash` ends all
handlers and keeps the volume.

Two choices stand in one step for several calls: a hash (of `.part` or of the published
file) reads its file at one instant. For the published file this is exact because it
never changes in place (`PublishedImmutable`); for `.part` it is exact as long as nobody
appends to it while it is hashed.

Two constants describe the clients, because the code enforces nothing about them:
`Overlaps` says which changing requests may be in service at the same time, and
`ForeignResume` whether a client resumes on top of bytes staged from another version.
With `Overlaps = {{"delete"}, {"put", "delete"}}` and no foreign resume the store keeps
every promise; sections 4 and 5 show what happens beyond.

### AtomicTarget

What the store promises, in 38 lines: a register that holds one complete version or
nothing, replaced and removed at one instant, and readers that each hold a snapshot.
`PayloadStore` implements it under the mapping `content <- inode[dest]`,
`view[r] <- ` the inode a download has open, twice: as `Target`, where a version is the
whole body of a file, while uploads are left alone; and as `Bytes`, where a version is any
content a rename published, when a DELETE may pull the temp away under a PATCH and its tail
is published alone. The second says less of what is published and as much of how: at one
instant, under readers that see nothing of it.

### ResumableUpload

One call of `resumableUpload` against the handlers above. `pc` is where the function
stands: `head` (line 63), `patch` (line 71), `resync` (line 86) or one of its outcomes,
`done`, `failed` (thrown by the loop) and `rejected` (a `head()` outside the `try`).
`attempt` and `offset` are its variables, `slot` the request it waits for. `NextAttempt`
is the loop's increment and test. The environment may lose a request or an answer
(`PatchLost`, `HeadLost`: the handler it reached runs on and may still finish or notice
the broken connection), answer a HEAD without the protocol's headers
(`HeadWithoutHeaders`: a proxy's error page, since `head()` does not look at the
status), fail a write (`PatchWriteFails`) or restart the pod (`Restart`); `MaxDrops` and
`MaxFaults` bound these. `SendPatch` is bound by no discipline: `upload.ts:69-91` sends the
next PATCH as soon as a HEAD is answered, and `main.go:387-405` admits it at once, beside
the handler of a lost one that still drains its connection. Such a handler may append
between the HEAD and the PATCH, which is then answered 409, and the loop goes round without
a backoff. Two histories tell these cases apart: `strays` counts the changes lost handlers
made to the staged file, `beside` says that two PATCHes were at work at once.

### FilesTab

One mounted file browser, its dialogs and the volume under it.

| Model | Code |
|---|---|
| `cat`, `prefix` (a path, up to `MaxDepth` folders deep), `items`, `selected`, `upload`, `loading`, `busy`, `error`, `newFolder`, `detail`, `wim`, `notWim`, `wimLoading`, `verifyRes`, `verifying` | the state hooks of the same names; `items` also remembers in which directory it was listed |
| `ops` | running `doUpload`, `doDelete` and `doCreateFolder` calls: the directory they closed over, what is left of their batch, whether they are at a request or at the final `refresh()` |
| `lists`, `asks` | listings, `wiminfo` and `verify` requests in flight |
| `store` | the files of each directory |
| `smooth`, `alone` | history, see below |

One action is one click with every effect it triggers (`ChooseCategory`, `GoTo`,
`Refresh`, `Tick`, `ClickUpload`, `ClickDelete`, `NameFolder`, `ClickCreate`,
`OpenDetails`, `ClickVerify`, `Dismiss`, ...) or one answer (`ListDone`, `Step`,
`StepFails`, `Catalogue`, `Verdict`). A click on a folder row appends its name to the prefix
of the moment (`Leads`), and Details opens over the clicked row (`detail` is the row's
directory and name) while it asks for catalogue and verdict by name in the directory shown:
over rows left behind by a failed or overtaken listing these are two directories. A `Step` that is not the last request of a batch
sends the next one; the last one clears the queue or closes the dialog of the page as it
is by then, and lists the directory it closed over. `Leave` goes to another tab and
back: React unmounts the component, its calls run on (`live` becomes FALSE), and nothing
they set is seen. `smooth` becomes FALSE when the user navigates or deletes with
something outstanding, changes the category from within a folder (which lists twice), or
a listing fails; `alone` when a dialog is opened while a request
of an earlier one is outstanding; `ResultsOwn` asks in addition that the row of the dialog
was listed in the directory shown. These histories are not part of the code: what happens
without them (rows of one directory under the breadcrumb of another, a verdict of another
file) is behaviour of the code which the properties except and the hazards name.

### ConfigStore and MachinesTab

`ConfigStore` holds the configuration files (`file`) and one resolution (`rq`). Of a
configuration it keeps whether `JOINDOMAIN` is set, the two secret fields and whether the
file begins with a byte-order mark (`bom`); a sealed
secret is an envelope of its password. Every reader trims the mark but one: `PrevUnattend`,
the merge of a save, finds no secrets in such a file. `Absent` stands for a missing field;
an empty one is never written, neither by the editor (`buildUnattend` drops it) nor by the
sealing save (which deletes it). `Mask` is what `handleConfigGet` shows,
`Encrypted` what `handleConfigPut` stores for a submitted form and the file it read
before, `Merged` and `Decrypted` what `api/config.go` makes of the two files. `AskConfig`,
`ReadMachine`, `ReadDefault` and `Decide` are the steps of `handleResolve`, with an editor
free to save between any two; `Decide` lets the policy engine allow, deny or fail.

`MachinesTab` adds browsers: per browser `rows`, `loading`, `busy`, `error`, the open
`form` and the `calls` whose answers are outstanding. `ToConfig` and `FromConfig` are
`buildUnattend` and `fromConfig`, down to the domain fields that are left out when the
toggle is off. A save is `ServerReads` (the previous file) and then `PutDone` (merge,
seal, write): two saves may interleave between them. When the connection breaks while the
server has a save or a delete (`Abandoned`), the page shows the error and the call goes on
unawaited; what it does later is `Unheard`. `Initial` is the set of files to begin with. `base` and `touched` in a form and
`entered` (the passwords typed for each file and field) are history. `ReplaceDefault` is
the upload of a new `default.json`, which has no masked editor.

### Telemetry and ReviewTabs

| Model | Code |
|---|---|
| `machines` | the snapshot of `api/main.go`, by the number of the last report |
| `ingestSem`, `posts` | forwards that hold a slot; what the admin has not dealt with yet, a batch of logs line by line |
| `deploy_event`, `audit` | the tables, rows with their ids |
| `heard`, `last`, `clean` | history: last report since the restart, ever, and whether every report of a machine was stored before the next was posted |

`HandleReport` is `handleReport` with `recordMachine` and `forwardIngest`; `HandleLog` and
`AuditResolve` the two other forwards; `TimeOut` the client's timeout, after which the
admin may still insert; `Lose` a failed connection or insert; `Restart` a new pod;
`Ingest`, `AuditMW` and `Prune` are the admin's. `Fleet`, `DeployEvents` and
`AuditEntries` are the three queries.

`EventLog` is what a table of the datastore promises: rows that never change, a new one only
above all others, the oldest ones cut off by a prune and never the last one. `Telemetry`
implements it with each of its two tables (`Deployments`, `Trail`).

`ReviewTabs` is the mounted one of the three review pages. `flights` is the sequence of
its requests: each is sent, read by the server (`Read`) and arrives (`Arrive`) on its own,
so answers overtake each other. `Poll` is the interval of `FleetTab`, which does not wait
for its last answer; `Switch` mounts another page; `SetFilter` is `LogsTab`'s selection
(the effect fetches again), `SetPage` the pagination of `AuditTab`, whose answers reset
it. `calm` becomes FALSE when the filter changes with an answer outstanding, or a fetch
fails: then the logs of one machine can stay on a page that names another.

The modules also hold the definitions marked "Faulty variant of": the same step with a
plausible bug. Nothing uses them; substituted for the real one, each breaks the property
PROJECT.json lists with it, which shows that the property depends on the code.

## 4. The runs

`File = {f1, f2}` are two versions of 2 and 1 blocks, `Req` two request slots, `Inode`
four inodes (three in the client's runs). Two slots are enough for every race of two
handlers; two blocks let a body break off after something and before everything; two
versions are needed for a mixture; four inodes cover a published file, a temp and one
open descriptor per slot. Slots and inodes are interchangeable in `PayloadStore`
(no action and no property names one), and so are the browsers of `MachinesTab`, hence
`SYMMETRY`; there is no liveness in those runs. Three attempts let the loop be used up by
losses, failures and stray appends together and also end before that. Two slots put one
lost handler beside the retry; with three slots and no faults the properties of `upload`
hold as well (3,105,536 states, not among the runs because of its length). Deadlock is checked except in `fleet` and `fleet_tally`, where the events come to
an end; `Rest` stutters where the users of `FilesTab` and `MachinesTab` have done all
their clicks.

| Run | Bounds | Distinct states | Result |
|---|---|---|---|
| `store_serial` | uploads one at a time, DELETEs beside each other and beside a PUT, 1 fault | 76,890 | all hold: `TypeOK`, `PublishedIntact`, `SidecarMatches`, `DownloadUnmixed`, `PublishedImmutable`, `StagedKept`, `AckExact`, and the refinement of `AtomicTarget` |
| `store_abort` | a DELETE beside a PATCH, 1 fault | 241,098 | `SidecarMatches`, `PublishedImmutable` and `RefinesAtomicBytes` hold even when `.part` disappears under the hash or the rename |
| `store_zombie` | two PATCHes at once, no faults | - | `PublishedIntact` fails |
| `store_foreign` | one upload at a time, foreign resume, no faults | - | `VerifyConfirms` fails |
| `upload` | any staged prefix, 2 losses and 1 fault, 3 attempts, 2 requests in service | 495,737 | `ClientTypeOK`, `SuccessMeansPublished`, `OffsetStaged` and `UploadSucceeds` hold |
| `upload_resync` | 2 losses | - | `ResyncSurvivesDrops` fails |
| `upload_replace` | an older version is published, no losses | - | `SuccessMeansPublished` fails |
| `files` | 2 categories, 1 folder nested to depth 2, 2 names, 5 clicks, 2 listings of the user in flight | 189,005 | `TypeOK`, `BusyExact`, `TicksListed`, `ListingHere`, `ResultsOwn`, `DeletedWhereSeen`, `LandsWhereSaid`, `QueueKept` and `SpinnersEnd` hold |
| `machines` | 2 machines, 2 passwords, 2 browsers, 5 clicks, a file with or without a byte-order mark; with a key and a policy engine | 2,717,943 | `TypeOK`, `DisclosedAsEntered`, `DisclosureGated`, `KeepOnlyLoaded`, `SpinnersSound`, `SecretsKept` and `UntouchedRoundTrip` hold |
| `machines_untouched` | the same, 1 browser | - | `UntouchedKeeps` fails |
| `fleet` | 2 machines, 2 events, batches of 2 lines, 1 slot, 1 machine in the snapshot, 1 row kept by a prune, 2 connections, pages of 1 row | 460,618 | `TypeOK`, `FleetLatest`, `SnapshotRecent`, `StoredOnce`, `LogsOwn`, `PageInRange`, `FleetConverges`, `SlotsReturned` and the refinement of `EventLog` hold |
| `fleet_tally` | the same, with all four states | - | `TallyOfReports` fails |

Five clicks are enough to navigate, tick, delete and navigate on while the answers are
outstanding, or to open a form, type into it and save it beside a second browser that
deletes and creates. Two events with limits of one reach each limit (a full semaphore, a
full snapshot, a prune that has to choose) and each order of two reports; the proofs of
section 6 speak of any limits.

What the six violations show:

* `store_zombie`: two PATCHes with one offset, a retry beside the abandoned handler, both
  pass the check of `main.go:402` before either appends. Blocks are staged twice and the
  result is published, though the comment calls the protocol "idempotent, safe to retry".
* `store_foreign`: the check compares sizes only. Version 2 is resumed on the staged
  head of version 1, and `handleVerify` confirms the mixture, since the checksum was
  taken from it.
* `upload_resync`: the PATCH is lost, the client catches that and re-HEADs, the HEAD is
  lost too: the promise rejects with attempts left.
* `upload_replace`: HEAD answers `Upload-Complete: 1` for whatever is published under the
  name, and the client reports 100 % without sending the new version.
* `machines_untouched`: `fromConfig` derives the join toggle from `JOINDOMAIN`, and
  `buildUnattend` leaves `DOMAINPASS` out when the toggle is off. A file that stores a
  password and inherits its domain from `default.json` loses the password when it is
  opened and saved untouched, though `MachinesTab.tsx:164-165` promise that "an untouched
  save preserves it rather than clearing it". `UntouchedRoundTrip` is the promise without
  that case and without files that begin with a byte-order mark, whose secrets `prevUnattend`
  (`secret.go:223-234`) does not see and a save erases; it holds.
* `fleet_tally`: `FleetTab.tsx:82-84` count the states `success`, `failure` and `start`;
  machines report `started`, `progress`, `succeeded` and `failed`. The tallies of
  succeeded and failed machines, which `ADMIN_ROADMAP.md:23-25` describe, stay 0.

A PATCH beside a DELETE also breaks `PublishedIntact` (the DELETE removes `.part` between
the stat and the open, and the PATCH's tail alone is published); `store_abort` therefore
does not check it. Section 6 proves `PublishedIntact` without that overlap, and with it what
`store_abort` checks.

## 5. Fairness

`PayloadStore`, `ConfigStore` and `MachinesTab` are checked for safety only. `ResumableUpload` assumes weak fairness of the
client's own steps (the browser's event loop runs its continuations) and of every handler
(a goroutine is scheduled, the disk answers, the body of a living connection keeps
coming). Nothing is assumed of losses, failures and restarts. The liveness property
`UploadSucceeds` counts these and `strays` against the attempts, and excepts lost HEADs,
which the code does not survive (`upload_resync`). Stray appends count because they cost an
attempt each: the handler of ONE lost PATCH that goes on appending between each HEAD and the
next PATCH uses up all the attempts with 409s. The property says that nothing else does. It does not speak of time: the backoff is not modelled, and
a connection that stalls for ever without breaking is outside the assumption, because the
server sets no read timeout.

`FilesTab` assumes that every request is answered or fails in the end: weak fairness of
each listing, each question of a dialog, and the operation of each directory. Nothing is
assumed of the user. `SpinnersEnd` rests on it.

`Telemetry` assumes weak fairness of `TimeOut` alone: the HTTP client has a timeout, and
`SlotsReturned` must hold even when the admin never answers. `ReviewTabs` adds weak
fairness of the poll timer and of the oldest flight (it is read, it arrives or fails), and
strong fairness of an arrival that is not a failure, without which a board whose every
poll fails would refute `FleetConverges` for a reason outside the code. The pod need not
stay up and the pipeline need not store anything: the property speaks of what the
datastore holds.

## 6. The proofs

Seven modules of proofs, each for any sets of machines, files, passwords and requests and
any limits and bounds, where TLC has small ones:

| Module | Theorem | Property |
|---|---|---|
| `PayloadStoreProofs` | `TypeCorrect` | `TypeOK` |
| | `Integrity` | `PublishedIntact` |
| | `SidecarCorrect` | `SidecarMatches` |
| | `DownloadCorrect` | `DownloadUnmixed` |
| | `Immutability` | `PublishedImmutable` |
| | `Refinement` | `RefinesAtomicTarget` |
| `StoreSharedProofs` | `TypeCorrectShared` | `TypeOK` |
| | `StagedBytesKept` | `StagedKept` |
| | `SidecarCorrectShared` | `SidecarMatches` |
| | `ImmutabilityShared` | `PublishedImmutable` |
| | `SnapshotsShared` | `RefinesAtomicBytes` |
| | `OffsetsExact` | `AckExact` |
| | `VerifyCorrect` | `VerifyConfirms` |
| `ResumableUploadProofs` | `ClientTypeCorrect` | `ClientTypeOK` |
| | `SuccessCorrect` | `SuccessMeansPublished` |
| | `OffsetCorrect` | `OffsetStaged` |
| | `UploadKeepsStaged` | staged bytes over a whole call: only added to, or published whole |
| `FilesTabProofs` | `TypeCorrect` | `TypeOK` |
| | `OneOperation` | `BusyExact` |
| | `TicksCorrect` | `TicksListed` |
| | `ListingCorrect` | `ListingHere` |
| | `ResultsCorrect` | `ResultsOwn` |
| | `DeletionsCorrect` | `DeletedWhereSeen` |
| | `UploadsCorrect` | `LandsWhereSaid` |
| | `QueueCorrect` | `QueueKept` |
| `MachinesTabProofs` | `TypeCorrect` | `TypeOK` |
| | `DisclosureCorrect` | `DisclosedAsEntered` |
| | `GateCorrect` | `DisclosureGated` |
| | `KeepCorrect` | `KeepOnlyLoaded` |
| | `SpinnersCorrect` | `SpinnersSound` |
| | `SecretsCorrect` | `SecretsKept` |
| | `UntouchedCorrect` | `UntouchedRoundTrip` |
| `TelemetryProofs` | `TelemetryTypeCorrect` | `TelemetryTypeOK` |
| | `FleetShowsLatest` | `FleetLatest` |
| | `SnapshotCorrect` | `SnapshotRecent` |
| | `NothingStoredTwice` | `StoredOnce` |
| | `TablesAreLogs` | `RefinesEventLog` |
| `ReviewTabsProofs` | `ReviewTypeCorrect` | `TypeOK` |
| | `LogsAreOfTheFilter` | `LogsOwn` |
| | `AuditPageInRange` | `PageInRange` |
| | `ReviewImplementsTelemetry` | `TelemetrySpec`, fairness included; hence `ReviewFleetLatest`, `ReviewSnapshotRecent`, `ReviewStoresOnce` and `ReviewOfLogs` |

The modules of the store, the browsers and the client also state their inductive invariant
as a theorem of its own (`Invariance`, `ClientInvariance`).

### The file store

Three hypotheses about clients, from none to the strictest, say what may meet on a target;
the code enforces none of them. All theorems assume `StoreAssumption` (the sentinels are
not data).

| Hypothesis | What it allows | Theorems |
|---|---|---|
| none | any requests at once, any resume | `TypeCorrectShared`, `StagedBytesKept` |
| `OneUploader` | one PATCH or PUT at a time, DELETEs at any moment, any resume | `SidecarCorrectShared`, `ImmutabilityShared`, `SnapshotsShared` |
| `Disciplined` | as the run `store_serial`: no foreign resume, and of the above no DELETE beside a PATCH | the other ones |

`store_zombie` and `store_foreign` show that `Disciplined` cannot be dropped where it is
assumed, and section 4 what a DELETE beside a PATCH does.

**Disciplined.** `PublishedIntact` is not inductive: whether a rename publishes a whole
version depends on what the handler did many calls ago. The invariant `IInv` adds

* `Exclusive`: whom the discipline leaves beside an upload;
* `StagedPiece`: `.part` holds the beginning of one version;
* `PatchInv`, `PutInv`: what an upload knows of its temp at each `pc`: from the stat to the
  rename it is exactly the piece counted by `n`, and a PUT's inode stays its own even when
  a DELETE has unlinked it;
* `WindowInv`: between rename and sidecar, the digest in hand is that of the target;
* `GetInv`: a download reads an inode that holds a whole version and that no upload has
  open.

The steps fall into three classes, and the lemmas follow them: steps that only move one
request (`BecomeMoves` and the lemmas built on it), steps that free inodes or unbind names
(`ShrinkStep`), and steps that write an open temp (`WriterStep`). One lemma per operation
(`PatchOpenKeeps`, `PutWriteKeeps`, ...) collects them into `NextInv`. `Immutability`
follows from the same invariant. So do `OffsetsExact` (the `n` of an answer is the size of
the temp) and, with one more conjunct, `VerifyCorrect`: "ok" is only said of bytes just
read under the final name.

`Refinement` goes through `Shows`: a step changes what is published, or what one download
has open, never both. `StepShows` derives it from two facts about a state and a step alone,
that downloads have something open (`Sending`) and that nothing published or open is written
to (`Undisturbed`), so that it serves both refinements.

**No discipline.** `Sound` is what each handler keeps on its own: the types, and for each
request the fields its next call reads (`FieldsInv`). One lemma per handler says what it
does to its slot and the volume (`PatchOpenEffect`, `DeleteEffect`, ...); the other
arguments of `StoreSharedProofs` rest on these. `StagedBytesKept` is a case split over
them: only an append writes to the temp, at its end (`AppendGrows`).

**One uploader.** `SharedInv` adds `OneWriter`, `TempInv` (an upload's inode is never the
published one, and there is no other temp; what a PATCH renames is what it hashed) and
`PutInv` and `WindowInv` from above. A DELETE may take the temp's name at any step: the
upload then writes to an inode without a name, and its rename finds nothing, or, if it had
yet to open the temp, publishes a tail. `SnapInv` adds what `GetInv` knows without the
content: no download has a staged inode open. With it every inode that is published or read
is neither the temp nor an upload's (`SharedWrites`), which is `Undisturbed`.

### The upload client

Assumptions: `StoreAssumption`, `ClientAssumption`, and `Fresh`: the discipline above, and
under the name there is nothing or the client's own version (`upload_replace` shows what
happens otherwise). `SuccessMeansPublished` needs to know what an answer means when it is
read, which is long after the handler wrote it. `UInv` is the store's `IInv`, the facts
`StagedMine` and `PublishedMine` (all that is staged or published is the client's), for
each request what its answer claims (`Serving`), and where the loop stands (`LoopInv`:
the slot it waits on serves the request it sent, or has been lost). All that concerns the
content of the files holds until a PATCH goes to work beside a lost one (`beside`), because
nothing in the code keeps the two from appending the same bytes; `Sound`, the bounds and the
offset hold beyond.

`OffsetCorrect` needs in addition that an offset in an answer on its way (`Acknowledged`)
does not exceed what is staged by the time it is read: no handler of the client cuts the
temp, and the lost ones, at work beside the retry or not, can only add to it. `UploadKeepsStaged` says the same of
the bytes, because the handlers of a call are PATCHes and HEADs.

### The file browser

`IInv` says what is outstanding: at most one operation of the mounted page runs and `busy`
says so, a listing an operation waits for belongs to the one that runs (`OpList`), and in
a smooth history every outstanding call and listing is about the directory shown
(`Smooth`), as every outstanding question of a dialog opened alone is about the file of its name in the
directory shown (`DialogOwn`), which is its own exactly if its row was listed there.
`ListingHere` alone is not inductive: the rows that arrive next are those of a request
sent earlier. The three action properties follow from it step by step.

### Configurations

The invariant follows a password from the form to the machine: every secret of every file
(`FilesSound`), of the file a save has read (`CallSound`), of the form being saved and of
the merged configuration (`RequestSound`) was entered for that machine, or for
`default.json`, in that field. `FormsSound` ties "keep it" to the file the form was loaded
from. `SecretsCorrect` is then a case split over who writes: only a save can change a
field of a file that stays, and `ResolveSecretCases` says to what.

`UntouchedCorrect` follows an untouched form the other way: `FreshInv` says that a form, and
a save under way, that was not touched has nothing typed and the toggle its version had,
through every click on other forms and every answer, heard or not; `RoundTrip` computes what mask,
form, submission and merge make of one configuration.

### The pipeline and its pages

`FleetInv` is the inductive form of `FleetLatest`: for a machine with a clean history the
last report is on its way (`OnItsWay`) or stored above all its other rows
(`StoredLast`), or newer rows have pushed it out. `SnapInv` adds to `SnapshotRecent` that
no two machines were heard at the same time; the eviction step is the one case that needs
counting (`Ranked`: of finitely many numbers, exactly those with fewer than k above them
are the k highest), and `SnapshotCorrect` assumes the set of machines finite. Rows stay
distinct because ids are fresh (`NextIdFresh`) and `Newest` only removes. That the tables
are logs follows from the same two facts. `NothingStoredTwice` counts what is stored of an
event together with what its outstanding posts may still add (`OnceInv`): a forward that
times out keeps its post, and no step makes a second one. For the pages,
`ReviewInv` says that every flight holds rows of its own filter while calm, and
`PageHasRows` that a page in range has rows, for any page size. The pages change no
variable of the pipeline, so `Spec` implements `TelemetrySpec` step by step; its fairness
is a conjunct of that of `Spec`.

## 7. What is only model-checked, and what is not modelled

Only model-checked: the liveness properties `UploadSucceeds`, `SpinnersEnd`,
`FleetConverges` and `SlotsReturned`, because the prover handles neither fairness nor
ENABLED. Every other property of a passing run is a theorem. The violations are runs by
nature; of their properties three are theorems under hypotheses that exclude the case the
run shows (`PublishedIntact`, `SuccessMeansPublished`, `VerifyConfirms`).

Not modelled in the file store: directories (`handleMkdir`, `RemoveAll` of a folder,
`MkdirAll` of the parent), path resolution, the listing, and error answers for I/O errors
other than a broken body, a failed write of a PATCH (a full disk, say) and a failed sidecar
write. A failed write stages its block or does not; a part of a block is a shorter block. A crash is the death
of the pod, not of the volume: what was written is kept, `fsync` is therefore invisible.
A client that sends a body shorter or longer than it declared is outside the model; the
browser client sends exactly the rest of its file.

Known and not claimed: `handleVerify` reads the sidecar before it hashes, so a
verification that runs into a replacement reports a mismatch for an undamaged file
(`FilesTab.tsx:381` shows it as "Mismatch - on-disk bytes differ from upload"); a download
promises the size it saw before its open, so a longer replacement is cut to the old
length; a DELETE interrupted between its removals leaves a sidecar behind; a retry at work
beside the handler of a lost PATCH may publish doubled bytes, and the client then reports
success for them (`beside`; `store_zombie` shows it); one lost PATCH whose handler drains
slowly can end an upload in "failed", attempt after attempt answered 409 (`strays`).

Not modelled in the file browser: the progress bar of an upload, the download link,
folders as rows (they are entered, not ticked or deleted, and every directory has the same
ones); what the server answers for a path that is no directory but an empty listing; two equal requests in flight
count as one. Known and not claimed: over rows left behind by a failed or overtaken listing,
Details shows the checksum of the row beside the catalogue and the verdict of its namesake
in the directory shown, and Delete deletes that namesake.

Not modelled of configurations: the `.part` file two overlapping saves of one machine share
(a file is replaced in one step, although both of them truncate, write and rename one temp
and may publish a mixture), files that are no valid JSON, the fields without a credential
(image, time zone, language), unreadable files and malformed requests, the cryptography of
the envelope.

Not modelled of the pipeline: readiness, the drain delay of a shutdown, the inventory
echo, columns without a property, which answers `classify` turns into an audit row; in the
pages, alerts, relative times and requests that queue for a connection (a page with all
connections busy waits).

Not modelled at all, and why:

* **WinPE** (`Invoke-Deploy.ps1`, `DeployUI.ps1`, `DeployEngine.psm1` and the scripts they
  call). The handlers of the UI and the progress blocks of the engine run after, or
  outside, the functions whose variables they name. What they do then is decided by
  PowerShell's dynamic scoping under StrictMode, not by the control flow of the scripts; a
  model would have to presume the answer it is asked for. The part of the gate outside the
  machine is `Decide` of `ConfigStore`; the reports it sends are those of `Telemetry`.
* **OPA policy**: one decision over one document, no state and no order of steps. The
  model lets it decide anything.
* **WIM parsing, hardware inventory, page rendering, image build, manifests**: pure data
  or no logic of the system's own.

PROJECT.json lists every component, and every hazard with the properties that cover it or
the reason why none does.
