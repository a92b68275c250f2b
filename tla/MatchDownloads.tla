--------------------------- MODULE MatchDownloads ---------------------------
(***************************************************************************)
(* The download of a Steam match: the requests, workers and cancellations  *)
(* of crates/runtime/src/integration.rs, the transactions on               *)
(* match_download_jobs and steam_matches in                                *)
(* crates/storage/src/repository.rs and the files that                     *)
(* crates/integrations/src/steam.rs writes.                                *)
(*                                                                         *)
(* One match, since matches share nothing but the catalog.  Every change   *)
(* of a Demo that no download makes is an action of DemoCatalog: between   *)
(* two calls of a download a scan goes on by one call of its own.          *)
(***************************************************************************)
EXTENDS Naturals, FiniteSets

CONSTANTS Paths, Contents, Ids, Scanners, MaxChanges,   \* see DemoCatalog
          DemoPath,   \* where the Demo of the match is written
          Replay,     \* the content Steam has for the match
          MaxJobs,    \* bound: requests to download
          Clients,    \* requests to cancel
          MaxEvents   \* bound: passes of the scans, edits and analyses of Demos

ASSUME DownloadAssumption == DemoPath \in Paths /\ Replay \in Contents
ASSUME IdsAssumption == Ids \subseteq Nat \ {0}
ASSUME FilesAssumption == {"absent", "bad", "none", "unbound"} \cap (Contents \cup Paths) = {}
ASSUME BoundsAssumption == MaxJobs \in Nat /\ MaxEvents \in Nat /\ MaxChanges \in Nat

VARIABLES disk, changes, demos, issued, analyses, attempt, pass, op, overwritten,   \* see DemoCatalog
          events,      \* auxiliary: passes, edits and analyses so far
          jobs,        \* the status of each row of match_download_jobs
          record,      \* the row of steam_matches: its status and its Demo
          archive,     \* the downloaded archive is there
          owners,      \* steam_downloads: jobs with a cancellation token
          cancelled,   \* the tokens that were cancelled
          worker,      \* where the task of each request stands
          seen,        \* what it has read
          clients      \* cancellation requests

files == <<disk, changes>>
scans == <<attempt, pass, op>>
catalog == <<demos, issued, analyses, overwritten, scans>>
memory == <<owners, cancelled>>
vars == <<files, catalog, events, jobs, record, archive, memory, worker, seen, clients>>

Catalog == INSTANCE DemoCatalog

Jobs == 1..MaxJobs   \* requests, with the ids of their jobs
Stages == <<"queued", "downloading", "decompressing", "importing">>
Verdicts == {"completed", "cancelled", "failed"}
Active(j) == jobs[j] \notin Verdicts \cup {"none"}

NothingSeen == [demo |-> 0, row |-> Catalog!NoRow, analysis |-> "none", fresh |-> FALSE,
                recovered |-> FALSE, content |-> "none", verified |-> "none", verdict |-> "none"]
NoRequest == [step |-> "idle", job |-> 0]

\* Where a worker stands before its row is settled: calls that may fail, and two
\* steps that clean up themselves.
Calls == {"begin", "archive", "start", "download", "unpack", "import", "validate",
          "discard", "put", "copy", "drop", "repair", "complete"}
Working == Calls \cup {"decompress", "clean"}

TypeOK ==
    /\ Catalog!TypeOK
    /\ events \in 0..MaxEvents
    /\ jobs \in [Jobs -> {Stages[i] : i \in 1..4} \cup Verdicts \cup {"none", "cancelling"}]
    /\ record \in [status : {"available", "downloading", "downloaded", "failed"}, demo : Ids \cup {0}]
    /\ archive \in BOOLEAN
    /\ owners \subseteq Jobs /\ cancelled \subseteq Jobs
    /\ worker \in [Jobs -> Working \cup {"idle", "check", "reuse", "claim", "register",
                                         "settle", "write", "leave", "done", "lost"}]
    /\ \A k \in Clients : clients[k].step \in {"idle", "find", "finish", "reply", "answered", "told"}

\* The match was not downloaded yet, and the user has the replay from elsewhere.
NeverDownloaded ==
    /\ disk = [p \in Paths |-> IF p = DemoPath THEN "absent" ELSE Replay]
    /\ demos = [d \in Ids |-> Catalog!NoRow] /\ issued = {}
    /\ analyses = [d \in Ids |-> "none"]
    /\ record = [status |-> "available", demo |-> 0]
    /\ worker = [j \in Jobs |-> "idle"]

\* An earlier job, none of these, downloaded it (bound: one request is spent); its
\* Demo was analysed and lies elsewhere by now, with the content it had or another,
\* perhaps after it was missing.
DownloadedBefore ==
    \E demo \in Ids, content \in Contents, status \in {"ready", "missing"},
       place \in Paths \ {DemoPath} :
        /\ \A d \in Ids : demo <= d
        /\ disk = [p \in Paths |-> IF p = place THEN content ELSE "absent"]
        /\ demos = [d \in Ids |-> IF d = demo THEN Catalog!Row(place, content, status, FALSE)
                                  ELSE Catalog!NoRow]
        /\ issued = {demo}
        /\ analyses = [d \in Ids |-> IF d = demo THEN content ELSE "none"]
        /\ record = [status |-> "downloaded", demo |-> demo]
        /\ worker = [j \in Jobs |-> IF j = 1 THEN "done" ELSE "idle"]

Init ==
    /\ changes = 0 /\ events = 0
    /\ attempt = [d \in Ids |-> "none"] /\ overwritten = {}
    /\ pass = [s \in Scanners |-> Catalog!NoPass] /\ op = [s \in Scanners |-> Catalog!NoOp]
    /\ NeverDownloaded \/ DownloadedBefore
    /\ jobs = [j \in Jobs |-> "none"]
    /\ archive = FALSE
    /\ owners = {} /\ cancelled = {}
    /\ seen = [j \in Jobs |-> NothingSeen]
    /\ clients = [k \in Clients |-> NoRequest]

----------------------------------------------------------------------------
(* Steps of a task.                                                        *)

Goto(j, from, to) ==
    /\ worker[j] = from
    /\ worker' = [worker EXCEPT ![j] = to]

Ends(j, to) ==
    /\ worker' = [worker EXCEPT ![j] = to]
    /\ seen' = [seen EXCEPT ![j] = NothingSeen]

\* An error: the verdict depends on the token, and on whether a refusal was a
\* cancellation.
Verdict(j, refused) == IF refused \/ j \in cancelled THEN "cancelled" ELSE "failed"
Fail(j, verdict) ==
    /\ worker' = [worker EXCEPT ![j] = "settle"]
    /\ seen' = [seen EXCEPT ![j] = [NothingSeen EXCEPT !.verdict = verdict]]

\* A Demo that was written again is not the one its claim has observed: every
\* write of the row sets updated_at.
Rewritten(D) == [j \in Jobs |-> [seen[j] EXCEPT !.fresh = @ /\ seen[j].demo \notin D]]

Observed(d, row) ==
    /\ d \in Catalog!Rows
    /\ <<demos[d].path, demos[d].status, demos[d].content>> = <<row.path, row.status, row.content>>

RowOf(d) == IF d \in Catalog!Rows THEN demos[d] ELSE Catalog!NoRow

----------------------------------------------------------------------------
(* A request: start_steam_download_inner.                                  *)

Request(j) ==
    /\ \A e \in 1..(j - 1) : worker[e] # "idle"
    /\ Goto(j, "idle", IF record.demo \in Catalog!Rows THEN "check" ELSE "claim")
    /\ seen' = [seen EXCEPT ![j].demo = record.demo, ![j].row = RowOf(record.demo)]
    /\ UNCHANGED <<files, catalog, events, jobs, record, archive, memory, clients>>

\* reusable_downloaded_demo
Reusable(row) == row.status # "missing" /\ row.content # "none" /\ disk[row.path] = row.content

\* A file that cannot be read just now is not reusable.
CheckLinked(j) ==
    /\ \/ /\ Reusable(seen[j].row)
          /\ Goto(j, "check", "reuse")
          /\ seen' = [seen EXCEPT ![j].verified = seen[j].row.path]
       \/ /\ Goto(j, "check", "claim")
          /\ seen' = [seen EXCEPT ![j].verified = "none"]
    /\ UNCHANGED <<files, catalog, events, jobs, record, archive, memory, clients>>

NoActiveJob == \A j \in Jobs : ~Active(j)

\* complete_existing_match_download: a job that is completed from the start.
CompleteExisting(j) ==
    /\ worker[j] = "reuse"
    /\ IF NoActiveJob /\ record.demo = seen[j].demo /\ Observed(record.demo, seen[j].row)
       THEN /\ jobs' = [jobs EXCEPT ![j] = "completed"]
            /\ record' = [record EXCEPT !.status = "downloaded"]
       ELSE UNCHANGED <<jobs, record>>   \* joined, or refused
    /\ Ends(j, "done")
    /\ UNCHANGED <<files, catalog, events, archive, memory, clients>>

\* claim_match_download
ClaimMatch(j) ==
    /\ worker[j] = "claim"
    /\ IF NoActiveJob /\ record.demo = seen[j].demo
       THEN /\ jobs' = [jobs EXCEPT ![j] = "queued"]
            /\ record' = [record EXCEPT !.status = "downloading"]
            /\ worker' = [worker EXCEPT ![j] = "register"]
            /\ seen' = [seen EXCEPT ![j] = [NothingSeen EXCEPT
                    !.demo = IF record.demo \in Catalog!Rows THEN record.demo ELSE 0,
                    !.row = RowOf(record.demo), !.fresh = TRUE,
                    !.analysis = IF record.demo \in Catalog!Rows THEN analyses[record.demo]
                                 ELSE "none"]]
       ELSE Ends(j, "done") /\ UNCHANGED <<jobs, record>>   \* joined, or refused
    /\ UNCHANGED <<files, catalog, events, archive, memory, clients>>

Register(j) ==
    /\ Goto(j, "register", "begin")
    /\ owners' = owners \cup {j}
    /\ UNCHANGED <<files, catalog, events, jobs, record, archive, cancelled, seen, clients>>

----------------------------------------------------------------------------
(* The worker: run_steam_download_inner.                                   *)

\* advance_match_download: only to a later stage, never out of a cancellation.
StageOf(status) == IF \E i \in 1..4 : Stages[i] = status
                   THEN CHOOSE i \in 1..4 : Stages[i] = status ELSE 0

\* A flawed MayAdvance that leaves every other status.
MayAdvanceFromAnything(j, status) == StageOf(jobs[j]) <= StageOf(status)

MayAdvance(j, status) == StageOf(jobs[j]) # 0 /\ StageOf(jobs[j]) <= StageOf(status)

Advance(j, from, status, to) ==
    /\ worker[j] = from
    /\ IF MayAdvance(j, status)
       THEN /\ jobs' = [jobs EXCEPT ![j] = status]
            /\ Goto(j, from, to)
            /\ UNCHANGED seen
       ELSE /\ Fail(j, Verdict(j, jobs[j] \in {"cancelling", "cancelled"}))
            /\ UNCHANGED jobs
    /\ UNCHANGED <<files, catalog, events, record, archive, memory, clients>>

\* A Demo file that a stopped process or a failed import left is imported.
Begin(j) ==
    /\ j \notin cancelled
    /\ Goto(j, "begin", IF disk[DemoPath] # "absent" THEN "import" ELSE "archive")
    /\ seen' = [seen EXCEPT ![j].recovered = disk[DemoPath] # "absent"]
    /\ UNCHANGED <<files, catalog, events, jobs, record, archive, memory, clients>>

RemoveStaleArchive(j) ==
    /\ Goto(j, "archive", "start")
    /\ archive' = FALSE
    /\ UNCHANGED <<files, catalog, events, jobs, record, memory, seen, clients>>

StartDownload(j) == Advance(j, "start", "downloading", "download")

\* download_archive_inner: the file appears complete under its name.
Download(j) ==
    /\ worker[j] = "download"
    /\ ~archive
    /\ Goto(j, "download", "unpack")
    /\ archive' = TRUE
    /\ UNCHANGED <<files, catalog, events, jobs, record, memory, seen, clients>>

Unpack(j) == Advance(j, "unpack", "decompressing", "decompress")

\* decompress_bz2_archive_cancellable; what Steam sent may be damaged.
Decompress(j) ==
    /\ Goto(j, "decompress", "clean")
    /\ \/ /\ archive /\ disk[DemoPath] = "absent"
          /\ \E content \in {Replay, "bad"} : disk' = [disk EXCEPT ![DemoPath] = content]
          /\ UNCHANGED seen
       \/ /\ seen' = [seen EXCEPT ![j].verdict = "failed"]
          /\ UNCHANGED disk
    /\ UNCHANGED <<changes, catalog, events, jobs, record, archive, memory, clients>>

\* The archive goes in any case, and the Demo file with a cancellation.
CleanUp(j) ==
    /\ worker[j] = "clean"
    /\ archive' = FALSE
    /\ IF seen[j].verdict = "failed" THEN Fail(j, Verdict(j, FALSE)) /\ UNCHANGED disk
       ELSE IF j \in cancelled
       THEN Fail(j, "cancelled") /\ disk' = [disk EXCEPT ![DemoPath] = "absent"]
       ELSE Goto(j, "clean", "import") /\ UNCHANGED <<disk, seen>>
    /\ UNCHANGED <<changes, catalog, events, jobs, record, memory, clients>>

----------------------------------------------------------------------------
(* complete_steam_import and import_downloaded_demo_replacing.             *)

Import(j) == j \notin cancelled /\ Advance(j, "import", "importing", "validate")

\* The one error that leads back to a download is an invalid recovered file.
Validate(j) ==
    /\ worker[j] = "validate"
    /\ IF disk[DemoPath] \in Contents
       THEN /\ Goto(j, "validate", "put")
            /\ seen' = [seen EXCEPT ![j].content = disk[DemoPath], ![j].verified = DemoPath]
       ELSE IF disk[DemoPath] = "bad" /\ seen[j].recovered
       THEN Goto(j, "validate", "discard") /\ UNCHANGED seen
       ELSE Fail(j, Verdict(j, FALSE))
    /\ UNCHANGED <<files, catalog, events, jobs, record, archive, memory, clients>>

Discard(j) ==
    /\ Goto(j, "discard", "archive")
    /\ disk' = [disk EXCEPT ![DemoPath] = "absent"]
    /\ seen' = [seen EXCEPT ![j].recovered = FALSE]
    /\ UNCHANGED <<changes, catalog, events, jobs, record, archive, memory, clients>>

\* Every write of a row sets updated_at.
WriteRow(d, row) == Catalog!PutRow(d, row) /\ op' = Catalog!Touched(op, d)

\* The row a call returned, and whether its file is the one that was downloaded.
Returned(j, d, row) ==
    /\ worker' = [worker EXCEPT ![j] = IF row.path = DemoPath THEN "complete" ELSE "copy"]
    /\ seen' = [Rewritten({e \in Ids : demos'[e] # demos[e]}) EXCEPT ![j] =
            [NothingSeen EXCEPT !.demo = d, !.row = row, !.verified = seen[j].verified]]

\* A row of the same content moves here when its file was missing, or when it
\* is the linked Demo.
PutExisting(j, d) ==
    IF demos[d].status = "missing" \/ (d = seen[j].demo /\ demos[d].path # DemoPath)
    THEN LET row == [demos[d] EXCEPT !.path = DemoPath, !.status = Catalog!FoundStatus(d)]
         IN  IF Catalog!Unique(d, row)
             THEN WriteRow(d, row) /\ Returned(j, d, row)
             ELSE Fail(j, Verdict(j, FALSE)) /\ UNCHANGED <<demos, op>>
    ELSE UNCHANGED <<demos, op>> /\ Returned(j, d, demos[d])

\* A flawed PutNew that keeps the analysis of the content it replaces.
PutNewKeepingAnalysis(j, d) ==
    LET row == Catalog!Row(DemoPath, seen[j].content, "discovered", FALSE)
    IN  IF Catalog!Unique(d, row)
        THEN /\ WriteRow(d, row)
             /\ overwritten' = overwritten \ {d}
             /\ issued' = issued \cup {d}
             /\ Returned(j, d, row)
             /\ UNCHANGED analyses
        ELSE Fail(j, Verdict(j, FALSE)) /\ UNCHANGED <<demos, issued, analyses, overwritten, op>>

\* New content: the linked Demo gets it and loses its analysis, or a new Demo.
PutNew(j, d) ==
    LET row == Catalog!Row(DemoPath, seen[j].content, "discovered", FALSE)
    IN  IF Catalog!Unique(d, row)
        THEN /\ WriteRow(d, row)
             /\ analyses' = [analyses EXCEPT ![d] = "none"]
             /\ overwritten' = overwritten \ {d}
             /\ issued' = issued \cup {d}
             /\ Returned(j, d, row)
        ELSE Fail(j, Verdict(j, FALSE)) /\ UNCHANGED <<demos, issued, analyses, overwritten, op>>

\* A flawed LinkIsFresh that forgets what the claim has seen.
LinkIsTrusted(j) == seen[j].demo # 0 => seen[j].demo \in Catalog!Rows

\* The linked Demo is still what it was when the match was claimed.
LinkIsFresh(j) == seen[j].demo # 0 => seen[j].fresh /\ Observed(seen[j].demo, seen[j].row)

\* put_content_addressed_demo_observed
Put(j) ==
    /\ worker[j] = "put"
    /\ LET same == {d \in Catalog!Rows : demos[d].content = seen[j].content}
       IN  \/ /\ ~LinkIsFresh(j)
              /\ Fail(j, Verdict(j, FALSE))
              /\ UNCHANGED catalog
           \/ /\ LinkIsFresh(j)
              /\ \E d \in same : PutExisting(j, d)
              /\ UNCHANGED <<issued, analyses, overwritten, attempt, pass>>
           \/ /\ LinkIsFresh(j) /\ same = {}
              /\ \E d \in Ids :
                    /\ IF seen[j].demo # 0 THEN d = seen[j].demo
                       ELSE d \notin issued /\ \A e \in Ids \ issued : d <= e
                    /\ PutNew(j, d)
              /\ UNCHANGED <<attempt, pass>>
           \/ /\ LinkIsFresh(j) /\ same = {} /\ seen[j].demo = 0 /\ issued = Ids
              /\ Fail(j, Verdict(j, FALSE))   \* bound: no more rows
              /\ UNCHANGED catalog
    /\ UNCHANGED <<files, events, jobs, record, archive, memory, clients>>

\* The Demo lies elsewhere: one of the two files is enough.
CheckCopy(j) ==
    /\ \/ /\ Reusable(seen[j].row)
          /\ Goto(j, "copy", "drop")
          /\ seen' = [seen EXCEPT ![j].verified = seen[j].row.path]
       \/ /\ Goto(j, "copy", "repair")
          /\ UNCHANGED seen
    /\ UNCHANGED <<files, catalog, events, jobs, record, archive, memory, clients>>

\* A flawed DropDuplicate that removes the file of the Demo.
DropOriginal(j) ==
    /\ Goto(j, "drop", "complete")
    /\ disk' = [disk EXCEPT ![seen[j].row.path] = "absent"]
    /\ UNCHANGED <<changes, catalog, events, jobs, record, archive, memory, seen, clients>>

DropDuplicate(j) ==
    /\ worker[j] = "drop"
    /\ IF disk[DemoPath] = "absent" THEN Fail(j, Verdict(j, FALSE))
       ELSE Goto(j, "drop", "complete") /\ UNCHANGED seen
    /\ disk' = [disk EXCEPT ![DemoPath] = "absent"]
    /\ UNCHANGED <<changes, catalog, events, jobs, record, archive, memory, clients>>

\* recover_content_addressed_demo
Repair(j) ==
    /\ worker[j] = "repair"
    /\ LET d == seen[j].demo
           row == [RowOf(d) EXCEPT !.path = DemoPath, !.status = Catalog!FoundStatus(d)]
       IN  IF Observed(d, seen[j].row) /\ Catalog!Unique(d, row)
           THEN WriteRow(d, row) /\ Returned(j, d, row)
           ELSE Fail(j, Verdict(j, FALSE)) /\ UNCHANGED <<demos, op>>
    /\ UNCHANGED <<files, issued, analyses, overwritten, attempt, pass, events, jobs, record, archive, memory, clients>>

----------------------------------------------------------------------------
(* The end: persist_match_download_terminal and finalize_match_download.   *)

\* The row is read, and a cancellation overrides what was to be written.
Inspect(j, verdict) ==
    IF Active(j)
    THEN /\ worker' = [worker EXCEPT ![j] = "write"]
         /\ seen' = [seen EXCEPT ![j].verdict =
                        IF jobs[j] = "cancelling" THEN "cancelled" ELSE verdict]
    ELSE Ends(j, "leave")

Complete(j) ==
    /\ worker[j] = "complete"
    /\ j \notin cancelled
    /\ Inspect(j, "completed")
    /\ UNCHANGED <<files, catalog, events, jobs, record, archive, memory, clients>>

Settle(j) ==
    /\ worker[j] = "settle"
    /\ Inspect(j, seen[j].verdict)
    /\ UNCHANGED <<files, catalog, events, jobs, record, archive, memory, clients>>

RecordOf(verdict, demo) ==
    CASE verdict = "completed" -> [status |-> "downloaded", demo |-> demo]
      [] verdict = "cancelled" -> [record EXCEPT !.status = "available"]
      [] OTHER -> [record EXCEPT !.status = "failed"]

\* Cancellation wins, and a Demo that changed is not the one that was verified.
MayFinalize(j) ==
    /\ jobs[j] = "cancelling" => seen[j].verdict = "cancelled"
    /\ seen[j].verdict = "completed" => Observed(seen[j].demo, seen[j].row)

\* A flawed Finalize that gives up a completion as well.
FinalizeOnce(j) ==
    /\ worker[j] = "write"
    /\ IF Active(j) /\ MayFinalize(j)
       THEN /\ jobs' = [jobs EXCEPT ![j] = seen[j].verdict]
            /\ record' = RecordOf(seen[j].verdict, seen[j].demo)
       ELSE UNCHANGED <<jobs, record>>
    /\ Ends(j, "leave")
    /\ UNCHANGED <<files, catalog, events, archive, memory, clients>>

\* A conflict ends a failure for good, and makes a completion a failure.
Finalize(j) ==
    /\ worker[j] = "write"
    /\ IF Active(j) /\ MayFinalize(j)
       THEN /\ jobs' = [jobs EXCEPT ![j] = seen[j].verdict]
            /\ record' = RecordOf(seen[j].verdict, seen[j].demo)
            /\ Ends(j, "leave")
       ELSE /\ IF Active(j) /\ seen[j].verdict = "completed"
               THEN Fail(j, Verdict(j, jobs[j] = "cancelling"))
               ELSE Ends(j, "leave")
            /\ UNCHANGED <<jobs, record>>
    /\ UNCHANGED <<files, catalog, events, archive, memory, clients>>

\* The owner forgets the worker, whatever became of its row.
Leave(j) ==
    /\ Goto(j, "leave", IF Active(j) THEN "lost" ELSE "done")
    /\ owners' = owners \ {j} /\ cancelled' = cancelled \ {j}
    /\ UNCHANGED <<files, catalog, events, jobs, record, archive, seen, clients>>

\* A call fails, the worker panics, or it notices the cancellation.
WorkerFails(j) ==
    /\ worker[j] \in Calls
    /\ \E verdict \in {"failed", Verdict(j, FALSE)} : Fail(j, verdict)
    /\ UNCHANGED <<files, catalog, events, jobs, record, archive, memory, clients>>

Work(j) ==
    \/ CheckLinked(j) \/ CompleteExisting(j) \/ ClaimMatch(j) \/ Register(j)
    \/ Begin(j) \/ RemoveStaleArchive(j) \/ StartDownload(j) \/ Download(j)
    \/ Unpack(j) \/ Decompress(j) \/ CleanUp(j)
    \/ Import(j) \/ Validate(j) \/ Discard(j)
    \/ Put(j) \/ CheckCopy(j) \/ DropDuplicate(j) \/ Repair(j)
    \/ Complete(j) \/ Settle(j) \/ Finalize(j) \/ Leave(j) \/ WorkerFails(j)

----------------------------------------------------------------------------
(* cancel_steam_download.                                                  *)

Answer(k, j, status) ==
    clients' = [clients EXCEPT ![k] = IF status = "cancelled" THEN [step |-> "told", job |-> j]
                                      ELSE [step |-> "answered", job |-> 0]]

\* request_match_download_cancel
RequestCancel(k, j) ==
    /\ clients[k].step = "idle"
    /\ jobs[j] # "none"
    /\ jobs' = [jobs EXCEPT ![j] = IF Active(j) THEN "cancelling" ELSE @]
    /\ IF Active(j) THEN clients' = [clients EXCEPT ![k] = [step |-> "find", job |-> j]]
       ELSE Answer(k, j, jobs[j])
    /\ UNCHANGED <<files, catalog, events, record, archive, memory, worker, seen>>

\* A flawed FindOwner that settles the row without asking for its owner.
FindNobody(k) ==
    /\ clients[k].step = "find"
    /\ clients' = [clients EXCEPT ![k].step = "finish"]
    /\ UNCHANGED <<files, catalog, events, jobs, record, archive, memory, worker, seen>>

FindOwner(k) ==
    /\ clients[k].step = "find"
    /\ IF clients[k].job \in owners
       THEN /\ cancelled' = cancelled \cup {clients[k].job}
            /\ Answer(k, clients[k].job, "cancelling")
       ELSE /\ clients' = [clients EXCEPT ![k].step = "finish"]
            /\ UNCHANGED cancelled
    /\ UNCHANGED <<files, catalog, events, jobs, record, archive, owners, worker, seen>>

\* Nobody owns the job: the request writes the verdict, and answers then.
FinishCancel(k) ==
    /\ clients[k].step = "finish"
    /\ LET j == clients[k].job
       IN  /\ jobs' = [jobs EXCEPT ![j] = IF Active(j) THEN "cancelled" ELSE @]
           /\ record' = IF Active(j) THEN RecordOf("cancelled", 0) ELSE record
           /\ clients' = [clients EXCEPT ![k].step = "reply"]
    /\ UNCHANGED <<files, catalog, events, archive, memory, worker, seen>>

Reply(k) ==
    /\ clients[k].step = "reply"
    /\ Answer(k, clients[k].job, jobs[clients[k].job])
    /\ UNCHANGED <<files, catalog, events, jobs, record, archive, memory, worker, seen>>

Cancel(k) == FindOwner(k) \/ FinishCancel(k) \/ Reply(k)

----------------------------------------------------------------------------
(* The catalog and the files around the download.                          *)

Event == events < MaxEvents /\ events' = events + 1
Undisturbed == UNCHANGED <<jobs, record, archive, memory, worker, clients>>

\* Whether the next call of a scan writes the row of its Demo, perhaps as it is.
Writes(s) ==
    LET d == op[s].id
        kept == Catalog!KeptRecord(s, op[s].path, op[s].content, op[s].row)
        new == Catalog!NewRecord(s, op[s].path, op[s].content)
    IN  \/ op[s].step = "put" /\ Catalog!Unique(d, kept)
        \/ op[s].step = "replace" /\ demos[d].path = op[s].path /\ Catalog!Unique(d, new)
        \/ op[s].step = "invalidate" /\ op[s].fresh
        \/ op[s].step = "mark"

RowsWritten(s) == {d \in Ids : demos'[d] # demos[d] \/ (d = op[s].id /\ Writes(s))}

\* A scan goes on with its pass, or begins one.
ScanCatalog ==
    /\ \E s \in Scanners :
          /\ IF pass[s].busy THEN UNCHANGED events ELSE Event
          /\ Catalog!Scan(s)
          /\ seen' = Rewritten(RowsWritten(s))
    /\ Undisturbed

ChangeCatalog ==
    /\ Event
    /\ \E d \in Ids : Catalog!DeleteDemo(d) \/ Catalog!StartAnalysis(d)
    /\ seen' = Rewritten({d \in Ids : demos'[d] # demos[d]})
    /\ Undisturbed

\* A patch of other columns, or a trusted match date.
PatchDemo ==
    /\ Event
    /\ \E d \in Ids : Catalog!PatchDemo(d) /\ seen' = Rewritten({d})
    /\ Undisturbed

Analyse ==
    /\ \E d \in Ids :
          \/ \E content \in Contents :
                Catalog!BindAnalysis(d, content) \/ Catalog!PublishAnalysis(d, content)
          \/ \E status \in {"failed", "discovered"} : Catalog!EndAnalysis(d, status)
    /\ seen' = Rewritten({d \in Ids : demos'[d] # demos[d]})
    /\ UNCHANGED events
    /\ Undisturbed

\* What somebody else does to a file is not what a task has verified.
ChangeFile ==
    /\ Catalog!ChangeFile
    /\ seen' = [j \in Jobs |-> IF \E p \in Paths : seen[j].verified = p /\ disk'[p] # disk[p]
                               THEN [seen[j] EXCEPT !.verified = "none"] ELSE seen[j]]
    /\ UNCHANGED events
    /\ Undisturbed

\* recover_orphaned_match_downloads
Restart ==
    /\ Catalog!Restart
    /\ jobs' = [j \in Jobs |-> IF ~Active(j) THEN jobs[j]
                               ELSE IF jobs[j] = "cancelling" THEN "cancelled" ELSE "failed"]
    /\ record' = IF NoActiveJob THEN record
                 ELSE RecordOf(CHOOSE v \in Verdicts : \E j \in Jobs : Active(j) /\ jobs'[j] = v, 0)
    /\ owners' = {} /\ cancelled' = {}
    /\ worker' = [j \in Jobs |-> IF worker[j] = "idle" THEN "idle" ELSE "done"]
    /\ seen' = [j \in Jobs |-> NothingSeen]
    /\ clients' = [k \in Clients |-> IF clients[k].step \in {"find", "finish", "reply"}
                                     THEN [step |-> "answered", job |-> 0] ELSE clients[k]]
    /\ UNCHANGED <<events, archive>>

Next ==
    \/ \E j \in Jobs : Request(j) \/ Work(j)
    \/ \E k \in Clients : Cancel(k) \/ \E j \in Jobs : RequestCancel(k, j)
    \/ ScanCatalog \/ ChangeCatalog \/ PatchDemo \/ Analyse \/ ChangeFile \/ Restart

Spec == Init /\ [][Next]_vars

\* The executor runs every task; a transfer, a decompression, a validation and a
\* storage call end (steam.rs gives a transfer a timeout).
FairSpec ==
    /\ Spec
    /\ \A j \in Jobs : WF_vars(Work(j))
    /\ \A k \in Clients : WF_vars(Cancel(k))

----------------------------------------------------------------------------
(* Properties.                                                             *)

Lifecycle == INSTANCE JobLifecycle WITH
    status <- [j \in Jobs |-> IF Active(j) THEN "open" ELSE jobs[j]],
    told <- {j \in Jobs : \E k \in Clients : clients[k] = [step |-> "told", job |-> j]}

\* A download gets one verdict, which cancellation, completion, failure and
\* restart decide between them; who was told that it is cancelled can rely on it.
ImplementsJobLifecycle == Lifecycle!Spec

\* A match has one download: one active job, which its record shows ("Job/record
\* terminal state commits together", ARCHITECTURE.md), and one worker that touches
\* the Demo file, although the match can be claimed again as soon as its job is
\* settled, by whomever that is.
Touching == Working \ {"begin", "archive", "start", "import"}
OneDownloadPerMatch ==
    /\ \A i, j \in Jobs : Active(i) /\ Active(j) => i = j
    /\ record.status = "downloading" <=> \E j \in Jobs : Active(j)
    /\ \A i, j \in Jobs : worker[i] \in Touching /\ worker[j] \in Touching => i = j

\* A download that its worker completes leaves its Demo with its file, unless
\* somebody else changed the file after it was verified: nothing a worker, an
\* earlier one or a second one cleans up is what the Demo needs.  (A request that
\* is completed from the start has no such claim: CompleteExisting does not know
\* of a download that began and was cancelled since CheckLinked.)
CompletedDownloadsHaveTheirFile ==
    [][\A j \in Jobs : worker[j] = "write" /\ jobs'[j] = "completed" /\ jobs[j] # "completed" =>
          LET demo == demos'[record'.demo]
          IN  seen[j].verified # "none" => disk'[demo.path] = demo.content]_vars

\* "A stale worker cannot overwrite a concurrently restored Demo or its completed
\* Analysis" (ARCHITECTURE.md): the only analysis a download removes is the one
\* that its Demo had when the match was claimed.
AnalysesSurviveDownloads ==
    [][\A j \in Jobs : worker'[j] # worker[j] =>
          \A d \in Ids : analyses'[d] # analyses[d] /\ demos'[d] # Catalog!NoRow =>
              \/ worker[j] = "idle"
              \/ d = seen[j].demo /\ analyses[d] = seen[j].analysis]_vars

\* What the catalog promises holds with downloads beside it.
CatalogStaysSound ==
    /\ Catalog!AnalysesMatchTheirDemo
    /\ Catalog!ReadyMeansAnalysed
    /\ Catalog!AnalyzingDemosHaveARun

\* Every download ends, however a cancellation, a failure and its completion meet.
\* One that was cancelled may have to be cancelled again: when the owner of a
\* failed download reads the row before the request and writes after it, the
\* conflict is only logged.
ActiveDownloadsEnd ==
    \A j \in Jobs :
        Active(j) ~> (~Active(j) \/ (jobs[j] = "cancelling" /\ worker[j] = "lost"))
============================================================================
