# Formal models of Vibe CS

Vibe CS is a desktop application that turns Counter-Strike Demos into edited
videos: a Rust backend (`crates/*`, an axum application behind a Tauri host in
`apps/desktop`), one SQLite database, a game that is driven through HLAE, and a
web renderer. This directory holds TLA+ models of the parts whose correctness is
a matter of *order*: which Demos the library holds and what is known of them, who
may change a Project and when, how an Agent turn edits it, how a recording survives
a crash, and how its footage reaches the timeline.

Paths below are relative to the repository; `project.rs` is
`crates/domain/src/project.rs`, `projects.rs` is
`crates/storage/src/repository/projects.rs`.

1. [Inventory](#1-inventory) 2. [Modules and code](#2-modules-and-code)
3. [Runs](#3-runs) 4. [Fairness](#4-fairness) 5. [Proofs](#5-proofs)
6. [Findings](#6-findings) 7. [What is not modelled](#7-what-is-not-modelled)
8. [Plan](#8-plan) 9. [Working with it](#9-working-with-it)

## 1. Inventory

| component | state it keeps | operations | talks to |
|---|---|---|---|
| Editing document (`domain/project.rs`) | none: pure values | `apply_patch`, `revert_change_group`, validation | storage calls it inside a transaction |
| Project storage (`projects.rs`) | rows of `projects`, `project_change_groups`, `project_edit_leases`, `project_recording_runs` | patch, revert, nest, acquire / heartbeat / release / read lease, bind run, receipts | one connection mutex for all of storage (`repository.rs:379`) |
| Agent turns (`apps/desktop/.../agent.rs`, `agent_sessions.rs`) | cancellation registry, session locks, chat permits, heartbeat tasks; durable turn entries | send, cancel, delete session, terminal save, recovery | Edit Lease, provider, edit tools, renderer channel |
| Recording runtime (`runtime/recording.rs`) | `active` map, cancel flags, persistence mutexes; `recording_jobs` rows | start, retry, capture loop, cancel, recover | HLAE backend and its artifact lease, library, storage |
| Recording routes (`routes/recording.rs`) | plan registry (Ready, Starting, Started) | create plan, start, cancel, abort | runtime, session, materialization |
| Runtime session (`application/state.rs`) | who holds the one game | reserve, claim, release, reconcile | playback, recording, cancel routes |
| Demo playback (`routes/demos.rs`, `runtime/integration.rs`) | the tracked process, the guards of managed copies | play, stop | runtime session, the game |
| Take attachment (`recording_materialization.rs`, `delete_asset` of `routes/media.rs`) | owners, one per run | poll, put assets, commit attachment; delete asset | job rows, Head, receipts, `media_assets` |
| Demo catalog and watcher (`demo_watch.rs`, `routes/demos.rs`, `repository.rs`) | rows of `demos` and `analyses`; the watcher's pass over the files | scan, import, put, replace, relocate, invalidate, mark missing, delete | files, analysis runs |
| Analysis runs (`analysis_tasks.rs`, `routes/analysis_runs.rs`, `storage/.../analysis_runs.rs`) | in-memory owner registry, `analysis_runs` rows | start, bind, progress, cancel, complete, fail, recover | parser process, the Demo's row |
| Match downloads (`runtime/integration.rs`, `integrations/steam.rs`) | owner registry, rows of `match_download_jobs` and `steam_matches`, archive and Demo files | claim, download, import, cancel, recover | Steam, the Demo catalog |
| Outputs and delivery (`outputs.rs`, `project_delivery.rs`) | files, export jobs | delete, export | Take assets |
| HLAE session and backend (`hlae`, `hlae_recording.rs`) | bridge connection, capture slots, publication evidence | launch, seek, capture, publish, recover | the game |
| Game files (`platform-windows/backup.rs`) | journal, backups | prepare, restore | the file system |
| Media, Demo parsing, cosmetics, integrations | none that is shared | pure transformations and edge I/O | worker processes, Steam, providers |
| Web client (`apps/web`) | view state | sends requests | the routes above |

How they interact. Every durable change is one closure under one connection
mutex and one immediate transaction, so storage calls are atomic and totally
ordered. Everything else is tasks: handlers, an Agent supervisor with its runner
and heartbeat, one runner and one materialization owner per recording. They read
in one call, decide, and write in another; any of them may be cancelled, and the
process may die between any two calls. `PROJECT.json` lists the hazards this
causes, line by line. What makes each component correct:

- **Document.** A patch is all or nothing; its inverse undoes it exactly; undoing
  an older change spares everything that was edited after it.
- **Storage.** The history is complete; a request never makes storage unusable;
  an Edit Lease keeps everybody else out for as long as its turn edits.
- **Demo catalog.** An analysis is always of the content its Demo has; ready means
  analysed; an analyzing Demo has a run that can still publish; a file that comes back
  is noticed.
- **Analysis runs.** One parser per Demo; one verdict per run; nobody is told
  "cancelled" unless that is the verdict; every accepted run ends.
- **Match downloads.** One download per match, with one verdict that the match shows;
  a completed one has its file; nothing that was restored or analysed meanwhile is lost;
  every download ends.
- **Agent turns.** A turn edits only what its context showed, nothing lands after
  its end, and however it ends (saved, cancelled, failed save, session deleted,
  crash) the Project becomes free again.
- **Recording.** No published clip is lost; a capture owns the game; a cancel
  that was answered is honoured; a plan is recorded once; every job ends and gives the
  game back.
- **Playback.** While its game runs a playback owns the session and its copy of the
  Demo, and somebody can stop it.
- **Take attachment.** Takes arrive in the order of their runs, once, vouch for
  the intent they were captured for, have their asset (also while somebody deletes
  assets), take back nobody's edit, and arrive in the end.

## 2. Modules and code

```
EditingDocument <- ProjectHead <- TakeMaterialization        (EXTENDS)
     ^                  ^                  ^
EditingDocumentProofs <- ProjectHeadProofs <- TakeMaterializationProofs
EditLease       refined by ProjectHead and AgentTurns        (INSTANCE ... WITH)
AgentTurns <- AgentTurnsProofs                               (EXTENDS)
DemoCatalog <- DemoCatalogProofs                             (EXTENDS)
     ^  composed by AnalysisRuns <- AnalysisRunsProofs       (INSTANCE, EXTENDS)
     ^  composed by MatchDownloads <- MatchDownloadsProofs   (INSTANCE, EXTENDS)
JobLifecycle    refined by AnalysisRuns and MatchDownloads   (INSTANCE ... WITH)
RuntimeSession <- RecordingJobs <- RecordingPlans <-+        (EXTENDS)
     ^                                              |
     +---------- PlaybackSession <------------------+- GameSession
GameSession <- RecordingProofs                               (EXTENDS)
MCEditHistory, MCAgentTurns, MCRecordingJobs, MCTakeMaterialization, MCDemoCatalog,
MCAnalysisRuns, MCMatchDownloads, MCGameSession              (instances for TLC)
```

Two abstract specifications say what a component promises without saying how.
**EditLease**: the right to edit passes from hand to hand, a lapsed lease is over with
the first edit of anybody else, and a turn that lost its lease never edits again.
**JobLifecycle**: an accepted job gets one verdict, which never changes, and a job
that somebody was told was cancelled has that verdict.

**EditingDocument** (`project.rs`). `ApplyOperation` has one operator per edit
operation and returns the staged document with the inverse operations, as the
Rust function does; `Stage` is the loop over a patch, in which the inverse of a
later operation comes first; `ApplyPatch` adds the acceptance checks and
`Revert` is `revert_change_group`. A result has an outcome: `applied`,
`rejected`, or `panicked` where the code indexes clips out of bounds.
Lookups return the first match, as the code does, also in documents whose
identities are (temporarily) not unique. Clip contents are opaque values:
placements, keyframes, transitions and media geometry are checked by the code
and left out; what is kept is that a nested clip may only lie where it may.

**ProjectHead** (`projects.rs`). One action per storage call. `project`,
`groups`, `lease` and `children` are rows; `acquired` the lease ids handed out;
`poisoned` the mutex. A lease has an `age` in heartbeat intervals: `Tick` adds
one, and the row is `Stale` when the age exceeds `LeaseTimeout`, yet it stays
until some call reads it, and `HeartbeatProjectEditLease` renews a stale row
because the code's `UPDATE` does not look at its age. A call that returns an
error rolls its transaction back, with the deletion of a stale row; such a call
changes nothing and is no step. `heads`, the document of every revision, is
auxiliary. `CreateNestedProject` takes the route's patch (`NestingPatch`) and
inserts the child in the same transaction.

**AgentTurns** (`agent.rs`, `agent_sessions.rs`). `pc` is where the supervisor
stands: lock the session, take a chat permit, read the context, acquire the
lease, run the model, decide, save, report, or clean up. The runner's model loop
is an environment that calls the edit tool, ends, or is dropped. `inflight`
holds a patch that was handed to the blocking pool: dropping the runner does not
recall it. The heartbeat task renews the lease or cancels its turn.
The lease may be refused by somebody else's or by a storage call that fails
(`LeaseRefused`). `SaveTerminal` is the transaction that writes the entry and releases
the lease; `SaveFails`, `Cleanup` and `SessionDisappeared` are the other ends. The document
is its revision and the authors of its revisions, which is what EditLease speaks
of: `ImplementsEditLease` maps the lease row, its heartbeats and the commits.

**RuntimeSession** (`state.rs`) declares the one variable recordings and playbacks
share: `session` is a job, the token of a playback, or free.

**RecordingJobs** (`runtime/recording.rs`, `routes/recording.rs`, `state.rs`, the artifact
lease of `hlae_recording.rs`, the owner of `recording_materialization.rs`). `runner` is
where the task of a job stands in start, retry and the per-item loop (capture, verify,
publish, store the clip, push the output, retire the evidence, advance the cursor), or in
recovery. `rows` is the table and `mem` the runner's copy; `calls` are cancel and abort
requests with the row each of them copied; `session` is the game session; `lease`,
`library` and `media` are the publication evidence, the stored clips and the files.
`Guarded(j)` is the persistence mutex that `cancel` takes. Every put may fail, and so may
every call of a recovery (the list of clips, the retirement of evidence, the last put) and
the clean-up after a failed capture, which then leaves its artifact lease. A request
may be dropped wherever it waits, and a put it had handed to the blocking pool
(`Storage::run`) may be written later: `late`. `dropped` are the starts whose plan is
still to be reconciled. Playback is one on/off step here. `touched` (jobs whose row a
cancel request has copied) and `abandoned` (jobs whose terminal put or owner failed for
good, also the last put of their recovery) only restrict properties.

**RecordingPlans** (`routes/recording.rs`, `state.rs`) adds the leases of plans. `plans`
says for each plan whether it is ready, starting a job, started, or gone; "ok" and "error"
are a request that has the answer of its start and has not told the lease yet, "dropped"
is a lease that only the reconciling task can settle. A start keeps every action of
RecordingJobs and says besides what the plan hears of it.

**PlaybackSession** (`state.rs`, `routes/demos.rs`, `runtime/integration.rs`). `phase` is
the state of the session a playback holds, `play` the request that launches the game or
the task that cleans up after it, `stop` the request or task that stops it, `tracked` the
process registry of the runtime, `guards` the managed copies that are kept open, `game`
the processes that run. For a recording it has one action, `Recording`, which takes a free
session or gives back its own.

**GameSession** puts the two together over the one session: a step is one of the plans and
jobs or one of a playback. Neither module's view of the other is trusted:
`RecordingsRespectPlayback` says that the composition is a behaviour of PlaybackSession,
with every step of the jobs a step of `Recording`.

**TakeMaterialization** (`recording_materialization.rs`, the receipts of
`projects.rs`, the recording plan of `routes/projects.rs`, `delete_asset` of
`routes/media.rs`). Composes ProjectHead, every operation of which is a part of a step
here, with the owners, a person who edits and undoes, a turn that takes the lease and
edits, and the deletion of outputs and of assets. A clip's content is its Capture Intent
and its Take. `runs` are the jobs with their items and outputs, `bound` the rows that
give runs their order, `media` and `assets` the files and the `media_assets` rows. The
owner's reads (status, outputs, Head, receipts) are steps of their own, in the code's
order, and so are `PutAssets` and `CommitAttachment`; `view` is what it has read.
`CheckAsset` and `DeleteAsset` are the two storage calls of the route, with `deleting`
between them. `deleted` is auxiliary.

**DemoCatalog** (`demo_watch.rs`, `routes/demos.rs`, `repository.rs`). `disk` is the
content of each path; two files of one content have one hash. A full scan of the watcher
is a pass: discover and list (`BeginPass`), hash every file (`ReadFile`), then for each
result look the row up (`LookUp`) and make one storage call (`Put`, `Replace`, `Claim`,
`CheckCopy` and `Recover`, `Invalidate`), finally mark the listed rows whose file is gone
(`Sweep`, `MarkMissing`). `op` is what a scan decided and has not written yet; everything
may change below it. `fresh` says whether the row was written since it was observed (the
compare-and-swap on `updated_at`). An import is the same with its own rules. Both may
decide on a `Put`, which asks nothing of the row it writes: the watcher when it takes over
a row that an import or a download made, or a missing one, an import whenever the content
is the one of the row. `overwritten` is auxiliary: the Demos whose row had another status
or content by then, or was gone (`Outdated`), until their content is replaced or found
invalid or the Demo is deleted. What a run does to its Demo (`StartAnalysis`,
`BindAnalysis`, `PublishAnalysis`, `EndAnalysis`) is here too: for the catalog alone a run
is the content it is bound to (`attempt`).

**AnalysisRuns** (`analysis_tasks.rs`, `routes/analysis_runs.rs`, `analysis_runs.rs`).
Composes DemoCatalog, with `attempt` read off the rows of `analysis_runs`. `owner` is
where the task that supervises a run stands: register, wait for the worker, commit,
fail, cancel, answer. `worker` is the sequence of calls of `run_analysis`: validate,
bind, start, parse, revalidate, observe again, project. `tasks` is the registry entry
in which a cancellation and the commit are arbitrated (`try_begin_commit`), and after
the end what the waiting callers are told. Every storage call may fail; a verdict that
fails for good leaves the row active and the owner `lost`. A restart closes rows
and Demos as the two recovery calls do.

**MatchDownloads** (`runtime/integration.rs`, `repository.rs`, `integrations/steam.rs`).
One match. A request reads the match (`record`), may be satisfied by the linked Demo
(`CheckLinked`, `CompleteExisting`), and otherwise claims the match and registers an
owner. `worker` is where its task stands: a recovered file, stale archive, transfer,
decompression, clean-up, import with its content-addressed put, the removal of a duplicate
or the repair of a row whose file is gone, and the end, which reads the row, lets a
cancellation override the verdict and writes row and match in one transaction. `seen` is
what it has read: the linked Demo at the claim with its analysis, the row the import got
back, and `verified`, the path whose file was hashed and that nobody else has changed
since (only a property looks at it). Changes of Demos are actions of DemoCatalog. Its
scans go on here by their own calls (`ScanCatalog`), with every step of the downloads
between any two of them; the match may have been downloaded before (`DownloadedBefore`),
so that its Demo lies somewhere, ready or missing. Every call may fail; a cancelled worker
may notice it at any call. `clients` are cancellations, which ask for the owner and settle
the row themselves when there is none.

`PROJECT.json` maps every definition to its lines. Operators introduced as
"flawed" beside a definition are what a plausible slip in that code
would look like. No specification uses them; each states for one property a
change under which that property must break.

## 3. Runs

| run | instance and bounds | what it shows |
|---|---|---|
| `edit_history` | on a document with two tracks, clips `a` and `b`: people with every request of `MCEditHistory!Requests`; on a plain document: two turns, a person and the system, `LeaseTimeout` 2; revisions up to 4, that is any three edits, undos, redos and nestings | the history explains the Head; the newest group can be undone to the last detail; undoing an older one spares later edits; nested clips resolve in every revision; storage keeps the promises of EditLease, so that a turn's edits are one block |
| `undo_panic` | people only | finding: a second undo poisons storage |
| `agent_turns` | two turns in two sessions, two permits, `LeaseTimeout` 0, revisions up to 3 | edits follow their context, leases end with their turn and streaming entries have an owner, nothing is committed after the end; the turns implement EditLease |
| `agent_live` | two turns that compete for one session and one permit; `LeaseTimeout` 1 | a cancelled turn ends wherever it stands, stopping frees the Project, a turn that lost its lease stops |
| `recording_recovery` | a job of two clips or its retry of one, one start, one cancel request, one put at a time that outlives its request, two crashes anywhere, any call of a recovery failing | evidence, outputs and library agree at every moment; accepted jobs end; terminal jobs free the session |
| `game_session` | two jobs that may be attempts at one plan, a playback and a cancel request; any request dropped anywhere; no crash, no late put | captures and playbacks own the session; an answered cancel is honoured; a plan is recorded once; jobs, plans and requests use the session as playback expects |
| `recording_stuck` | one start, no retry, no crash | finding: a terminal row is overwritten |
| `take_attach` | two runs of one clip, one edit by a person or a turn, one lost file and its asset, one restart or storage error | order, uniqueness, intent and assets of Takes in all revisions |
| `take_ends` | one run of two clips, two edits, one deletable asset, one restart or storage error | attachments keep edits; every output gets its turn |
| `demo_catalog` | two paths, two contents, two rows; the watcher and an import; three changes of the files, imports or restarts | an analysis is of its Demo's content, ready means analysed, an analyzing Demo has a run bound to it, each unless a scan wrote the row back as it had been before; the watcher settles |
| `analysis_runs` | one Demo, one path, one content, two runs, one cancel request, two changes or restarts, the watcher | one worker per Demo, runs implement JobLifecycle, accepted runs end, cancels are answered |
| `match_downloads` | one match, its file and another path where the user has the replay, two contents, two rows; never downloaded or downloaded before; two requests, one cancellation, and one of these: a change of a file, a restart, a scan by an import, call by call, a deletion, an analysis | one download at a time, which the match shows, one verdict (JobLifecycle), a completed download has its file, analyses survive, the catalog stays sound, every download ends |

Why the bounds are enough. Three edits are the shortest histories in which an undo meets
an edit made after its target and is itself undone or repeated; two tracks and two clips
make every operation and every identity conflict possible. The constraint `Focus` leaves
leases to the plain document, since a lease never looks at the document; both kinds of
behaviour lie in one state space, and the run checks safety only. Two files of two
contents are the least in which files swap, move and duplicate; three changes let a file
go, another come in its place and the first return during one pass, or an import make a
row for the watcher to take over while it changes. In `match_downloads` the scan is an
import, since its put goes over every row of the same content, as the watcher's does over
those that downloads make. A second run or
download meets what a first one left of the same Demo or match; a copy elsewhere that goes
makes duplicates and repairs happen. Two turns exhaust the exclusion of the lease; a
timeout of 0 makes every tick matter, 1 and 3 leave room for renewals in between. For a
recording, the steps that race are those of one item, a request and a crash; the second
crash hits recovery, and the second clip (`MCItemCount`) adds a prefix that must survive.
`MaxLate` 1 lets a put land after whatever cleans up behind its request. For the session
two jobs, one playback and one request are the least in which each can find each other one
in the way; the token of a playback of which nothing is left stands for a fresh one, so
playbacks repeat. The two jobs (`Twins`) are symmetric in this safety run. Crashes and
late puts are left to `recording_recovery`: a restart empties session, plans and
registries at once. Two runs are needed for the order of Takes, two outputs for partial
attachment. Revisions in `take_*` suffice for every Take, every edit and every undo, so
the bound itself never ends a behaviour. Turns and sessions are symmetric in the safety
run of AgentTurns; no liveness run uses symmetry or a constraint. Deadlock checking is off
everywhere, since each system may come to rest: revisions and changes are bounded, turns
end, jobs end.

## 4. Fairness

- `AgentTurns!FairSpec`: the supervisor, the heartbeat and a queued patch of each turn
  are weakly fair, since tokio tasks and pool threads run once they can, and a storage
  call that is retried does not fail for ever. Time passes (`Tick`). The model loop is
  not fair: a reply may never end by itself, so a turn that waits for its session or a
  permit may wait for ever. The one thing required of it is what the runner's
  `select!` does: once a turn is cancelled, its stream is dropped.
- `RecordingJobs!FairSpec`: runner, owner, recovery, requests and boot. A capture
  ends by itself because the backend gives every phase a timeout and looks at the
  cancel flag. Crashes, failures, drops, cancels and playback are never forced, and a put
  that outlives its request is written in the end, as the pool does not forget it.
- `TakeMaterialization!FairSpec`: owners keep polling (`MaterializationOwner` loops
  with a bounded delay), a recording ends (RecordingJobs), a lease is given back
  (AgentTurns). It is stated on the owner's position, since some step of the owner
  is always possible while it has one.
- `DemoCatalog!FairSpec`: the watcher goes on with its pass (a loop over a timer and a
  channel, `demo_watch.rs:334`). Nothing else is fair: files rest because changes are
  bounded.
- `AnalysisRuns!FairSpec`: for each run its owner or its worker goes on (an owner that
  waits has a worker that works; the parser has a timeout), and so do cancel requests.
  Scans, deletions, new runs and restarts are never forced.
- `MatchDownloads!FairSpec`: each worker and each cancellation goes on. Both are spawned
  tasks; the HTTP client has a timeout (`steam.rs:210`) and the terminal write retries.
  Which of success and failure a call takes is open. Requests, scans and restarts are
  never forced.

## 5. Proofs

The theorems hold for every value of the constants, that is for every number of turns,
Demos, files, contents, runs and requests and for every bound. Their assumptions
are the named ones of the modules (bounds are natural numbers, names of rows differ from
the markers "none", "absent", ... used beside them) and two about the requests of clients
(`TypedClients`, `TakeClients`), below.

| module | theorem | statement |
|---|---|---|
| `ProjectHeadProofs` | `TypeCorrect` | `Spec => []TypeOK` |
| | `HistoryIsComplete` | `Spec => []HistoryExplainsHead` |
| | `LeaseIsExclusive` | `Spec => []LeaseCoversItsEdits` |
| | `TurnsEditAlone` | `Spec => []TurnEditsAreContiguous` |
| | `RefinesEditLease` | `Spec => ImplementsEditLease` |
| | `Invariant` | `Spec => []IndInv`, from which the five follow |
| | `NewestEditIsUndoable` | `Spec => []LatestEditIsUndoable` |
| | `NestedClipsResolve` | `Spec => []NestedSequencesResolve` |
| | `EditInvariant` | `Spec => []EditInv`, from which the two follow |
| `AgentTurnsProofs` | `TurnsTypeCorrect` | `Spec => []TypeOK` |
| | `TurnsEditTheirContext` | `Spec => []EditsFollowTheirContext` |
| | `LeasesEndWithTheirTurns` | `Spec => []LeaseEndsWithItsTurn` |
| | `EditsEndWithTheirTurn` | `Spec => NoEditAfterTheEnd` |
| | `TurnsRefineEditLease` | `Spec => ImplementsEditLease` |
| | `TurnInvariant` | `Spec => []TurnInv` |
| `DemoCatalogProofs` | `CatalogIsTyped` | `Spec => []TypeOK` |
| | `AnalysesFollowContent` | `Spec => []AnalysesMatchTheirDemo` |
| | `ReadyDemosAreAnalysed` | `Spec => []ReadyMeansAnalysed` |
| | `AnalyzingDemosAreRun` | `Spec => []AnalyzingDemosHaveARun` |
| | `CatalogInvariant` | `Spec => []IndInv` |
| `AnalysisRunsProofs` | `WorkersAreExclusive` | `Spec => []OneWorkerPerDemo` |
| | `ActiveRunsHaveOwners` | `Spec => []ActiveRunsAreOwned` |
| | `RefinesJobLifecycle` | `Spec => ImplementsJobLifecycle` |
| | `Invariant` | `Spec => []IndInv` |
| `MatchDownloadsProofs` | `DownloadsAreExclusive` | `Spec => []OneDownloadPerMatch` |
| | `RefinesJobLifecycle` | `Spec => ImplementsJobLifecycle` |
| | `Invariant` | `Spec => []IndInv` |
| | `CatalogIsSound` | `Spec => []CatalogStaysSound` |
| | `AnalysesSurvive` | `Spec => AnalysesSurviveDownloads` |
| | `CatalogInvariant` | `Spec => []CatalogInv` |
| `RecordingProofs` | `CapturesOwnTheSession` | `Spec => []CaptureOwnsTheSession` |
| | `CancelsAreHonoured` | `Spec => []CancelIsHonoured` |
| | `PlansAreRecordedOnce` | `GameSpec => []PlansRecordOnce` |
| | `CapturesOwnTheGame` | `GameSpec => [](CaptureOwnsTheSession /\ CancelIsHonoured)` |
| | `GamesAreOwned` | `SessionSpec => []PlaybackOwnsItsGame` |
| | `RecordingsFindNoGame` | no game of a playback runs while a job holds the session |
| | `PlaybackInvariant` | `SessionSpec => []PlaybackInv` |
| | `RecordingsAreRespectful` | `GameSpec => RecordingsRespectPlayback` |
| | `PlaybacksAreOwned` | `GameSpec => []PlaybackOwnsItsGame` |
| | `RecordingTypesCorrect` | `Spec => []TypeOK` |
| | `TakesAreTraceable` | `Spec => []PublishedTakesAreTraceable` |
| `TakeMaterializationProofs` | `TakesTypesCorrect` | `TakesSpec => []TakesTypeOK` |
| | `TakesArriveInOrder` | `TakesSpec => []TakesAttachInOrder` |
| | `TakesVouchForTheirIntent` | `TakesSpec => []TakesShowTheirIntent` |
| | `TakesAreStored` | `TakesSpec => []TakesHaveAssets` |
| | `AttachmentsPreserveEdits` | `TakesSpec => []AttachmentsKeepEdits` |
| | `TakesInvariant` | `TakesSpec => []TakesInv`, from which the five follow |

**The Edit Lease.** In this part `ApplyPatch` and `Revert` are never expanded: the
argument does not depend on what an edit does to a document, only on the transaction
around it. `TurnEditsAreContiguous` is not inductive: it speaks of the past of turns
that may still commit. `IndInv` adds what makes it so:

- `Histories`: groups and heads are sequences; `HistoryExplainsHead`: group *i*
  leads from revision *i* to *i* + 1, so positions and revisions can be exchanged;
- `AuthorsAreKnown`: a turn in the history has acquired its lease, so a turn that
  asks for its (only) lease has no edits yet;
- `LeaseRow`: the row names a turn that acquired it and a base that existed;
- `LeaseCoversItsEdits`: all groups since the base of the row are its holder's. This
  is what a late heartbeat relies on: while nobody else committed, renewing a stale
  row is harmless, and any commit of somebody else deletes the stale row first,
  because authorization reads the *live* lease in the same transaction.

When a turn commits, it holds the lease, and whatever lies between its first group
and the end of the history was committed since the base and is its own. When
anybody else commits there is no live row afterwards and no earlier turn can get one
again. The proof has one lemma per way to change the state (commit, lease calls,
everything else), and the temporal theorems combine them by PTL. The refinement maps
`writer` to the holder of the row, `live` to a row that is not stale and `begun` to the
leases handed out.

**The edits.** `EditingDocumentProofs` is about values alone. For every operation a lemma
(`InsertTrackUndo`, `MoveClipUndo`, ...) says that what it gives is a document, and that
its inverse, applied to that document, gives the document before: without further
conditions for most, and for those that look an identity up in the result provided no
identity is held twice in it. That is the condition the code itself lives by, as the
observation about patches below shows. `PatchUndo` puts the operations of a patch
together. The loop over a patch is a recursive function, and the induction over it is the
first-order kind: the stages that fail are a set of numbers, which would have a least
element. `ProjectHeadProofs` then says of the history what makes `LatestEditIsUndoable`
and `NestedSequencesResolve` follow. `EditInv` is:

- `DocumentsAreTyped`, `PatchesAreTyped`: every revision is a valid document, every group
  a patch of typed operations, and what their clips show are contents or nested Projects
  that storage holds (`Known`), a set that only grows;
- `GroupsReplay`: group *i*, applied to revision *i*, gives revision *i* + 1 and the
  inverse that is stored; and no document on the way holds a track twice;
- `TracksComeAndGo`: each identity of a track is brought in or taken out by a group once
  at most, or else it is one that groups bring in and take out again and that no revision
  has. Validation looks at the last document of a patch only. This is why the ones in
  between hold no track twice either: for an identity that is named once, `TrackStep`
  says that a second copy would still be there in the end, where it is refused;
- `NamesAreNew`: the identities that storage will allocate occur nowhere yet.

The three theorems assume `TypedClients`. Projects start from valid documents; patches
have the fields and types that deserialization enforces; storage names every new track and
clip, and its names are new; and a request of a client shows a nested Project only if the document
it was made on does. The last is what the editor does and the code does not enforce:
validation asks of a nested identity only that it is not nil (`project.rs:1069`).
`edit_history` is an instance of these assumptions.

**Agent turns.** `TurnInv` ties four tasks to one row. `Entries`: the durable entry is
streaming only while a supervisor may still end it, or the turn is among the `abandoned`,
whose saves failed for good. `Leaseholders`: who holds the lease, be the row stale or not,
has acquired it once, has not ended, and is editing, deciding or being saved, or is
abandoned. `Saved`: of a turn that was saved no lease is
left. `Edits`: whoever holds the row has made every edit since its context was read. The
last is stronger than `EditsFollowTheirContext` and needed for it, since a patch may sit
in the blocking pool while its turn is cancelled, saved and cleaned up: it commits only if
the row is still that of its turn, and then nothing has come between. In the refinement
every step of the host begins, uses, renews or ends an Edit Lease, lets it lapse, is an
edit of somebody else, or is a stutter.

**The catalog.** `IndInv` is typing with what each pending call of a scan knows
(`OpKnows`), `PutsAreOfDemos` (a record that waits to be put is of a Demo that was in the
catalog) and the three properties, which are not inductive one by one: a run publishes
over the status and the content it finds. `EachDemo` splits them into one invariant per
Demo (`DemoInv`), so that a write is looked at for the row it writes. `Put` is the heart: a
record prepared long ago goes over the row with an upsert. Either the row has still the
status and the content that were read, and the put changes nothing that the three
properties look at, or the Demo joins `overwritten`. The theorems hold for any set of
scanners, the watcher and imports alike. What they say of a Demo in `overwritten` is only
that its analysis has a row; the observations below say why no more is true.

**Analysis runs.** `IndInv` is `RunRows`, `Processes` (types), `Supervised` (an active row
has an owner that will settle it, or one that lost it, and only the worker of an owner
that waits makes calls), `Acknowledged` (whoever passes on a cancellation does so for a
row that is cancelled or deleted) and `OneRunPerDemo` (of active rows).
`WorkersAreExclusive` follows from the first and the last, because `Settle` joins the
worker before a verdict is written. For the refinement each action is one step of
`JobLifecycle` or a stutter, and a restart is `CloseAll`.

**Downloads.** Two invariants, each blind to what the other is about.
`IndInv` keeps files and catalog opaque: `Workers` (a worker that touches
the Demo file has an active row and a token), `Cancellations` (a request that is under way
has closed its row for the worker, and one that found no owner met a worker that does
not touch the file) and `OneJob`. The race is the one between a request that finds
nobody and a worker that registers a moment later. The row is `cancelling` by then,
so `MayAdvance` refuses, and every way to the file leads through `Advance`. Hence a second
claim never meets a worker that still touches the file. `CatalogInv` keeps the
jobs opaque: it is the invariant of the catalog itself, whose proofs are used through an
INSTANCE of `DemoCatalogProofs`, so a scan may stand between any two of its calls, and
`Readings`, which says that an observation that is still fresh is of the analysis the Demo
has. `PutNew` is the only step of a worker that removes an analysis, and `LinkIsFresh`
guards it.

**The game session.** `PlaybackInv` is about a playback beside an environment
that takes a free session or gives back its own (`Recording`); it says for each
phase who may still act on the process. `RecordingsAreRespectful` shows that the recordings
are such an environment: every step of jobs, plans and requests leaves the session, takes it
when it is free, or frees it from a job. So the theorem carries over without
looking at both at once.

**Recordings.** The first part of `RecordingProofs` forgets all of a row but its status.
`RecInv` is inductive for the jobs with their restarts, and stays so beside plans and playbacks.
`Runners`: a job that runs or may run holds the session and is not terminal, so nobody
frees it: owners and requests release what is terminal, and a dropped start without a row
does not run. `Requests` and `LatePuts` say of each copy of a row that somebody still
holds what its writer may do with it: it is `cancelling` and the flag is set, or it is
about a job that runs no more. `Completed` is the verdict: once a row is completed no
other copy is left, which is what makes `CancelIsHonoured` hold whatever is put late,
since a runner that saw the flag does not decide `completed`. `Leases` adds the plans: a
plan one of whose jobs ran, or is to be reconciled, belongs to that job. These proofs need
no bound on late puts or crashes, whereas `game_session` has neither.

**Takes.** The second part puts back what the first forgets: cursor and outputs of a row,
the artifact lease, the library and the files. `TakesInv` is the types and, for each job,
four parts. `Copies`: every copy of its row, wherever it is held
(the table, the runner, a cancel request, a put that outlived its request), names only
outputs that are stored, and while the runner records no more than it has pushed.
`Recorder` and `Recovery` say for each place of the runner, and of the recovery after a
crash, how far lease, library, file and row have got: one step apart and always in that
order. Then a lease is never of a clip beyond the last; and `Traceable`, which holds of jobs
whose row no cancel request has copied. A late put is what makes this more than
bookkeeping: it writes what a request copied (so the job is `touched`), or the row of a
start that was dropped, which then never ran and has published nothing.

**Take attachment.** An owner reads four times and writes twice, and holds nothing in
between, so none of the four properties is inductive. `TakesInv` is, with what an owner
may rely on of what it has read:

- `IndInv` of ProjectHead: every step here contains one of its steps or leaves its
  variables alone, and its proof is used as it is;
- `RunsHavePlaces`: a run that has outputs or an owner was bound, once, so `Place` means
  something; a place never changes, since `bound` only grows at its end;
- `SelectionFits`: what an owner is about to attach lies on the timeline of its base
  revision, with the intent its run captured, and before the patch is sent each output has
  an asset. This speaks of a revision and not of the Head, so that edits cannot disturb it;
- `SelectionIsNew`: as long as the Head is that revision, no receipt of this or a later
  run names what was selected. Head and receipts are read in this order: a receipt that
  comes between them moves the Head on, and the patch of a stale base is refused. With
  `AttachedByBoundRuns` this carries `TakesAttachInOrder` over a commit, undo included,
  since receipts are read off the history and never taken back;
- `HeadsShowStoredTakes`: every revision, and the inverse of every group, shows only Takes
  that were stored (now, or until their asset was deleted) and carry the fingerprint of the
  intent that the run captured (`StoredTakes`, a set that only grows). Inverses
  belong to it because undo applies them to documents made since;
- `AttachmentsKeepEdits` itself, for which a patch that replaces clips by the same clips
  with other Takes is followed through `Stage` (`Retake`, `Retaken`).

The operations of an attachment are a `FlattenSeq`, which is a recursive function;
`JoinExists` and `FlattenedType` say by first-order induction what it gives. The theorems
assume `TakeClients`: Projects start without Takes; patches have the types that
deserialization enforces; a request shows no Take but those that the document it was made
on shows. The last is what the editor does with clips it moves, trims and copies; storage
does not ask where a Take in a patch comes from. `take_attach` and `take_ends` are
instances.

Some theorems state what no run checks: `TypeCorrect`, `CatalogIsTyped`,
`TurnsTypeCorrect`, `TakesTypesCorrect`, `TurnsEditAlone` (which the refinement of
EditLease implies), `ActiveRunsHaveOwners` and `RecordingsFindNoGame`, beside the inductive
invariants. The type invariants of AnalysisRuns, MatchDownloads, PlaybackSession and
RecordingPlans document the state, are in no run and are not proved by themselves.

Only model-checked: everything temporal under fairness and all that speaks of ENABLED
(out of the prover's reach); `LaterEditsSurviveRevert`;
`CompletedDownloadsHaveTheirFile`. What a patch does is proved
for patches of every length, since their induction needs only least elements of sets of
numbers; theorems about other recursive data would need the same treatment.

## 6. Findings

Two runs expect a violation.

- **`undo_panic`** (`project.rs:767`). Undo a group `[MoveClip to another track,
  RemoveTrack]` and undo the same group again: the inverse re-inserts a track that
  exists, the staged document has two tracks of one identity, the clip is found in
  the second and removed from the first, and `Vec::remove` panics under the
  connection mutex. Every later storage call fails until a restart.
- **`recording_stuck`** (`routes/recording.rs:718`). The cancel route puts the answer
  of `cancel` a second time without the mutex. If the runner's terminal row lies in
  between, the row returns to `Cancelling` for good and the session stays reserved.

More observations have no run:

- `delete_asset` (`routes/media.rs:1724`) lists the Project Heads in one call and deletes
  the row in another (`:1737`), where `design-qa.md:76` calls the scan the integrity
  boundary. A Take that is attached in between refers to an asset that is gone:
  `PutAssets`, `CheckAsset`, `CommitAttachment`, `DeleteAsset`; so does any edit that places
  the asset. Checking `UsedAssetsAreKept` in `take_ends.cfg` shows it. Only current Heads
  are scanned, so an undo may bring back such a Take as well. `TakesHaveAssets` states what
  does hold: it had its asset until a person deleted it.
- `upsert_watched_demo` (`demo_watch.rs:678`, for a row that is missing or that an import
  or a download made) and `import_candidates` (`routes/demos.rs:1066`) read the row at a
  path, copy its status into a record and put the record later with an upsert of every
  column. A Demo that was deleted in between, with its runs and its analysis, returns as
  `ready`; one whose run ended in between is `analyzing` again and no run is left to end
  that; one whose content was replaced, or that a download restored with other content
  (`PutNew`), gets the old content back beside the analysis, or none, of the new one.
  `docs/ARCHITECTURE.md:611` promises that replacing bytes invalidates the analysis in the
  same transaction, which `put_demo` does not. Checking `NothingIsOverwritten` in
  `demo_catalog.cfg` shows it; the properties of the catalog state what does hold of every other Demo.
- A recovery whose last put fails (`runtime/recording.rs:351`), or which cannot list the
  clips (`:266`), leaves its row open until the next restart; `AcceptedJobsEnd` counts the
  job as `abandoned`.
- `cancel` of a recording reads and puts under the mutex, the puts of the recording loop
  do not take it (`runtime/recording.rs:1250`): the put of `Cancelling` may drop the
  output that was just stored, after which the publication evidence is retired. Checking
  `EvidenceIsRetiredLast` in `recording_stuck.cfg` shows it. `PublishedTakesAreTraceable`
  and `AcceptedJobsEnd` state what does hold: they leave out jobs whose row a cancel
  request has copied (`touched`).
- A start is dropped while its `Running` row (or the `Queued` row of a retry) is being
  written. The put runs on the blocking pool and lands all the same. When it lands after
  the guard of the startup and the reconciliation have found no row, the row stays open
  until a restart, and the plan is on offer again. `WriteLate` counts such a job as
  `abandoned`; no clip is recorded twice (`PlansRecordOnce`).
- A cancel request that claimed a free session is dropped: its reservation asks for an
  owner (`routes/recording.rs:787`). When an owner is there that has announced the end
  already, it is not asked to look again and the session stays taken until a restart
  (`DropCall`).
- `cancel_job` disarms its claim before its last put (`routes/recording.rs:715`). A request
  that is dropped, or fails, while that put is under way has nobody to observe the job
  (`DropPutAgain`).
- A duplicate start that comes between the claim of a run and its registration finds the row
  but no owner and is refused with a conflict (`routes/analysis_runs.rs:93`), where
  `docs/ARCHITECTURE.md:412` promises the run to join.
- A row that moves to another path within a pass may be marked missing by the end of that
  pass; the next full pass takes it back (`WatcherSettles` holds).
- Two watched files that swap their contents are never catalogued again: each replacement
  meets the unique hash of the other row.
- A failed download whose owner reads the row just before a request moves it to
  `Cancelling` gets a conflict from `finalize` and only logs it
  (`runtime/integration.rs:1046`), so the row stays `Cancelling` until another request or
  a restart, where `docs/ARCHITECTURE.md:612` says that terminal writes remain owned and
  retry. `ActiveDownloadsEnd` leaves out this case (`lost`); without the exception it
  fails.
- A request that finds the linked Demo reusable completes without looking at the file again
  (`runtime/integration.rs:922`). When the file was gone, a second request has brought it
  back since and is then cancelled, its clean-up removes the file and the first request
  still answers `completed`; the next scan marks the Demo missing.
  `CompletedDownloadsHaveTheirFile` speaks of completions by a worker; for the others it
  fails with `MaxJobs = 3`.
- A download that discards an invalid recovered Demo (`Discard`) cannot go back to
  `Downloading`, which the storage refuses as not monotonic, so the job fails instead of
  downloading again; the next request starts afresh.
- A patch may hold a clip identity twice *between* its operations and still pass
  validation, and its inverse then finds the wrong copy: with track T2 before T1 and
  clip `a` in T1, `[ReplaceTrackClips(T2, [a']), MoveClip(a to T1, 2), RemoveClip(a)]`
  cannot be undone exactly. `LatestEditIsUndoable` is therefore stated for patches that
  keep identities unique (`StaysUnique`). No client in the repository sends the other
  kind.
- One output whose file is gone ends the poll of a terminal job
  (`recording_materialization.rs:176`) before anything is attached, also after every
  restart, so the job's other outputs are never attached. With two outputs *and* a
  lost file `OutputsAreAttached` fails; the runs have one or the other.
- An output whose clip wants different footage at the owner's last poll is left alone,
  rightly. When the capture edit is undone afterwards the footage fits again, yet no
  owner is there to attach it until a restart makes one. `OutputsAreAttached` asks for
  a moment at which an output is settled, not for ever after.

## 7. What is not modelled

- The contents of clips and of analyses, and everything pure: Demo parsing, replay, media
  rendering, cosmetics, camera planning, script compilation. They have no protocol state.
- Of the catalog: incremental scans after single file events, roots that are unavailable,
  the user's own scan, uploads, tags and metadata. A full scan does to a file what an
  incremental one does.
- Demo guards and the journal of replaced game files: planned.
- The game itself and the HLAE bridge: RecordingJobs sees captures that succeed, fail
  or time out; PlaybackSession sees a process that runs, is killed or exits.
- Crashes in GameSession: a restart empties session, plans and both registries at once.
  What it does to recordings is in RecordingJobs. An orderly exit kills the game of a
  playback (`kill_on_drop`, `runtime/integration.rs:2293`); after a crash that game may
  still run and no session knows of it. `PlaybackOwnsItsGame` is about one life of the
  process.
- Requests that only wait: a second execution of a plan that is starting, and a stop of a
  playback that is launching or stopping. The latter cannot come to pass with the routes
  of today: the session is given to a stop only when the launch has ended, since the future
  of a dropped request goes before its reservation. So `cancelled_after_spawn`
  of `play_demo` is left out too.
- The expiry of a plan that has been started, and the capacity of the plan registry.
- Titles, retention settings, exports of Agent sessions; prompts and tool results.
- The wall clock: lease ages count heartbeats, and the order of recording runs is the
  order of their rows. A clock that is set back is outside the models.
- Several Projects: leases and histories of different Projects do not interact, and
  nested children are created and never edited.
- The web renderer keeps no durable state; it is the source of the requests.

## 8. Plan

Done, in this order: EditingDocument and ProjectHead (everything durable rests on
them), the proofs about the lease, AgentTurns, RecordingJobs, TakeMaterialization on top
of ProjectHead; then DemoCatalog with its proofs, AnalysisRuns on top of it with the
abstract JobLifecycle and its proofs, EditLease with its two refinements, and
MatchDownloads with its proofs, the second module on top of DemoCatalog and under
JobLifecycle; RecordingPlans and PlaybackSession, their composition in GameSession and the
proofs of all three; the proofs about Agent turns, the evidence of recordings, edits with
their inverses, and Take attachment; the deletion of assets. To come:

1. **ManagedFiles** (`platform-windows/backup.rs`): prepare and restore step by step
   with crashes and edits by others; refines "the files are the originals or the
   journal can restore them".
2. **HlaeSession** (`hlae/src/session.rs`): requests and answers over the bridge, with
   timeouts and late answers.
3. **Proofs**: `LaterEditsSurviveRevert`, for which `TrackStep` has to be said of clips as
   well; `CompletedDownloadsHaveTheirFile` for the steps of a worker.

## 9. Working with it

`tlc -workers 2 -config take_ends.cfg MCTakeMaterialization` checks a run (the module of
each is in `PROJECT.json`); every run ends within four minutes on two cores. `tlapm
ProjectHeadProofs.tla` checks its proofs, and so with the other proof modules. When code
changes, look its lines up in the map of `PROJECT.json`, change the action, and run what
lists the module.
