---------------------------- MODULE DemoCatalog ----------------------------
(***************************************************************************)
(* The catalog of Demo files: the rows of demos and analyses               *)
(* (crates/storage/src/repository.rs), the resident watcher that follows   *)
(* the files (crates/runtime/src/demo_watch.rs) and imports asked for by   *)
(* the user (crates/application/src/routes/demos.rs).                      *)
(*                                                                         *)
(* A storage call is one action; between two calls of a scan the files and *)
(* the rows may change.  A file is its content; two files with the same    *)
(* content have the same size and SHA-256.  An analysis attempt is here    *)
(* only what its row says about a Demo: AnalysisRuns has the rest.         *)
(***************************************************************************)
EXTENDS Naturals, FiniteSets

CONSTANTS Paths,           \* where Demo files may lie, all below watched roots
          Contents,        \* valid contents of a Demo file
          Ids,             \* ids of Demo rows
          Scanners,        \* "watch", the resident watcher; every other one is an import
          MaxChanges       \* bound: changes of the files, imports and restarts

ASSUME IdsAssumption == Ids \subseteq Nat \ {0}
ASSUME FilesAssumption == {"absent", "bad", "none", "unbound"} \cap (Contents \cup Paths) = {}
ASSUME MaxChangesAssumption == MaxChanges \in Nat

VARIABLES disk,      \* the content of each file: "absent", "bad" or valid
          changes,   \* auxiliary: changes of the files, imports and restarts so far
          demos,     \* the rows of demos, or NoRow
          issued,    \* ids that were given to a row
          analyses,  \* the rows of analyses: the content analysed, or "none"
          attempt,   \* the Demo's queued or running run: "none", "unbound" or
                     \* the content it is bound to
          pass,      \* how far a scan is with its files
          op,        \* the file a scan is working on
          overwritten   \* auxiliary: Demos whose row was written as it had been before

catalog == <<demos, issued, analyses, overwritten>>
vars == <<disk, changes, catalog, attempt, pass, op>>

NoRow == [path |-> "none", content |-> "none", status |-> "none", watched |-> FALSE]
NoPass == [busy |-> FALSE, found |-> {}, read |-> {}, listed |-> {}]
NoOp == [step |-> "idle", path |-> "none", content |-> "none",
         id |-> 0, row |-> NoRow, fresh |-> TRUE]

Rows == {d \in Ids : demos[d] # NoRow}
Row(path, content, status, watched) ==
    [path |-> path, content |-> content, status |-> status, watched |-> watched]

TypeOK ==
    /\ disk \in [Paths -> Contents \cup {"absent", "bad"}]
    /\ changes \in 0..MaxChanges
    /\ demos \in [Ids -> {NoRow} \cup
                    [path : Paths, content : Contents \cup {"none"}, watched : BOOLEAN,
                     status : {"discovered", "analyzing", "ready", "failed", "missing"}]]
    /\ issued \subseteq Ids /\ Rows \subseteq issued /\ overwritten \subseteq Ids
    /\ analyses \in [Ids -> Contents \cup {"none"}]
    /\ attempt \in [Ids -> Contents \cup {"none", "unbound"}]
    /\ pass \in [Scanners -> [busy : BOOLEAN,
                              found : SUBSET Paths,
                              read : SUBSET (Paths \X (Contents \cup {"bad"})),
                              listed : SUBSET (Ids \X Paths)]]
    /\ \A s \in Scanners :
          op[s].step \in {"idle", "put", "replace", "claim", "copy",
                          "recover", "invalidate", "mark"}

Init ==
    /\ disk = [p \in Paths |-> "absent"]
    /\ changes = 0
    /\ demos = [d \in Ids |-> NoRow]
    /\ issued = {}
    /\ analyses = [d \in Ids |-> "none"]
    /\ attempt = [d \in Ids |-> "none"]
    /\ pass = [s \in Scanners |-> NoPass]
    /\ op = [s \in Scanners |-> NoOp]
    /\ overwritten = {}

----------------------------------------------------------------------------
(* The rows.                                                               *)

\* The unique indexes of demos on path and on content_sha256.
Unique(d, row) ==
    \A e \in Rows \ {d} :
        /\ demos[e].path # row.path
        /\ row.content # "none" => demos[e].content # row.content

\* Every write of a row sets updated_at: an observation of it is no longer exact.
Touched(ops, d) ==
    [s \in Scanners |-> IF ops[s].id = d /\ ops[s].step = "invalidate"
                        THEN [ops[s] EXCEPT !.fresh = FALSE] ELSE ops[s]]

\* put_demo_row: an insert, or an update of every column.
PutRow(d, row) == demos' = [demos EXCEPT ![d] = row]

\* The status of a row whose file was found again elsewhere.
FoundStatus(d) == IF analyses[d] # "none" THEN "ready" ELSE "discovered"

\* set_demo_status, and the status changes of the analysis transactions.
SetStatus(d, status) ==
    /\ PutRow(d, [demos[d] EXCEPT !.status = status])
    /\ op' = Touched(op, d)

----------------------------------------------------------------------------
(* A scan.  The watcher discovers files, lists the rows it watches, reads   *)
(* and hashes every file, applies the results one by one and finally marks  *)
(* the listed rows whose file is gone.  An import reads and applies one     *)
(* file the user chose.                                                     *)

BeginPass(s) ==
    /\ ~pass[s].busy
    /\ IF s = "watch"
       THEN /\ pass' = [pass EXCEPT ![s] =
                [busy |-> TRUE, found |-> {p \in Paths : disk[p] # "absent"}, read |-> {},
                 listed |-> {<<d, demos[d].path>> : d \in
                    {e \in Rows : demos[e].watched /\ demos[e].status # "missing"}}]]
            /\ UNCHANGED changes
       ELSE /\ \E p \in {q \in Paths : disk[q] \in Contents} :
                pass' = [pass EXCEPT ![s] = [NoPass EXCEPT !.busy = TRUE, !.found = {p}]]
            /\ changes < MaxChanges
            /\ changes' = changes + 1
    /\ UNCHANGED <<disk, catalog, attempt, op>>

\* validate_demo.  A file that is gone is not valid; an import skips such a
\* file, the watcher looks its row up.
ReadFile(s, p) ==
    /\ p \in pass[s].found
    /\ LET content == IF disk[p] = "absent" THEN "bad" ELSE disk[p]
           seen == IF s # "watch" /\ content = "bad" THEN {} ELSE {<<p, content>>}
       IN  pass' = [pass EXCEPT ![s].found = @ \ {p}, ![s].read = @ \cup seen]
    /\ UNCHANGED <<disk, changes, catalog, attempt, op>>

\* The record a scan writes over the row it found at the path of a file: content
\* that changed makes it a new Demo, content that did not keeps what is known.
NewRecord(s, path, content) == Row(path, content, "discovered", s = "watch")

\* A flawed KeptRecord that leaves a missing Demo missing.
KeptRecordAsIs(s, path, content, existing) == Row(path, content, existing.status, s = "watch")

KeptRecord(s, path, content, existing) ==
    Row(path, content,
        IF existing.status = "missing" THEN "discovered" ELSE existing.status, s = "watch")

\* Whether the content changed.  An import takes a row without a hash by its
\* size alone, which may happen to be the same.
ContentChanged(s, content, existing) ==
    IF s # "watch" /\ existing.content = "none"
    THEN BOOLEAN ELSE {existing.content # content}

\* What to do with a file whose path no row has, or the row d.
ForUnknown(s, path, content) ==
    IF content = "bad" THEN NoOp
    ELSE [NoOp EXCEPT !.step = "claim", !.path = path, !.content = content]

ForKnown(s, path, content, d) ==
    LET next == [NoOp EXCEPT !.path = path, !.content = content, !.id = d]
    IN  IF content = "bad" THEN {[next EXCEPT !.step = "invalidate"]}
        ELSE {IF changed
              THEN [next EXCEPT !.step = "replace"]
              ELSE IF s = "watch" /\ demos[d].watched /\ demos[d].status # "missing"
              THEN NoOp
              ELSE [next EXCEPT !.step = "put", !.row = demos[d]]
              : changed \in ContentChanged(s, content, demos[d])}

\* The next file: get_demo_by_path, and the choice of what to write.
LookUp(s) ==
    /\ pass[s].found = {}
    /\ op[s].step = "idle"
    /\ \E file \in pass[s].read :
          /\ pass' = [pass EXCEPT ![s].read = @ \ {file}]
          /\ LET found == {d \in Rows : demos[d].path = file[1]}
             IN  \/ /\ found = {}
                    /\ op' = [op EXCEPT ![s] = ForUnknown(s, file[1], file[2])]
                 \/ \E d \in found : \E next \in ForKnown(s, file[1], file[2], d) :
                       op' = [op EXCEPT ![s] = next]
    /\ UNCHANGED <<disk, changes, catalog, attempt>>

\* A call that ends the work on a file; one that fails is only reported.
EndOp(s, touched) ==
    op' = [Touched(op, touched) EXCEPT ![s] = NoOp]

FailOp(s) ==
    /\ op' = [op EXCEPT ![s] = NoOp]
    /\ UNCHANGED catalog

\* Whether the Demo has another status or content than when its row was read.
Outdated(d, row) ==
    <<demos[d].status, demos[d].content>> # <<row.status, row.content>>

\* put_demo: the record a scan makes of the row it read, over whatever the row is
\* by now.  Of a row that changed in between, or was deleted, it restores what
\* is true no more.
Put(s) ==
    /\ op[s].step = "put"
    /\ LET d == op[s].id
           record == KeptRecord(s, op[s].path, op[s].content, op[s].row)
       IN  IF Unique(d, record)
           THEN /\ PutRow(d, record)
                /\ overwritten' = IF Outdated(d, op[s].row) THEN overwritten \cup {d}
                                  ELSE overwritten
                /\ EndOp(s, d)
                /\ UNCHANGED <<issued, analyses>>
           ELSE FailOp(s)
    /\ UNCHANGED <<disk, changes, attempt, pass>>

\* A flawed Replace that forgets the analysis of the old content.
ReplaceKeepingAnalysis(s) ==
    /\ op[s].step = "replace"
    /\ LET d == op[s].id
           record == NewRecord(s, op[s].path, op[s].content)
       IN  IF d \in Rows /\ demos[d].path = op[s].path /\ Unique(d, record)
           THEN /\ PutRow(d, record)
                /\ overwritten' = overwritten \ {d}
                /\ EndOp(s, d)
                /\ UNCHANGED <<issued, analyses>>
           ELSE FailOp(s)
    /\ UNCHANGED <<disk, changes, attempt, pass>>

\* A flawed Replace that keeps the status the Demo had.
ReplaceKeepingStatus(s) ==
    /\ op[s].step = "replace"
    /\ LET d == op[s].id
           record == NewRecord(s, op[s].path, op[s].content)
       IN  IF d \in Rows /\ demos[d].path = op[s].path /\ Unique(d, record)
           THEN /\ PutRow(d, [record EXCEPT !.status = demos[d].status])
                /\ analyses' = [analyses EXCEPT ![d] = "none"]
                /\ overwritten' = overwritten \ {d}
                /\ EndOp(s, d)
                /\ UNCHANGED issued
           ELSE FailOp(s)
    /\ UNCHANGED <<disk, changes, attempt, pass>>

\* replace_demo_content: the new content, and no analysis of the old.
Replace(s) ==
    /\ op[s].step = "replace"
    /\ LET d == op[s].id
           record == NewRecord(s, op[s].path, op[s].content)
       IN  IF d \in Rows /\ demos[d].path = op[s].path /\ Unique(d, record)
           THEN /\ PutRow(d, record)
                /\ analyses' = [analyses EXCEPT ![d] = "none"]
                /\ overwritten' = overwritten \ {d}
                /\ EndOp(s, d)
                /\ UNCHANGED issued
           ELSE FailOp(s)
    /\ UNCHANGED <<disk, changes, attempt, pass>>

\* A row moves to the file a scan has read.
Relocate(s, d) ==
    IF \A e \in Rows \ {d} : demos[e].path # op[s].path
    THEN /\ PutRow(d, [demos[d] EXCEPT !.path = op[s].path, !.status = FoundStatus(d)])
         /\ EndOp(s, d)
         /\ UNCHANGED <<issued, analyses, overwritten>>
    ELSE FailOp(s)

\* put_content_addressed_demo: a row of the same content is the same Demo.  One
\* whose file was missing moves here, one that lies elsewhere is checked first.
Claim(s) ==
    /\ op[s].step = "claim"
    /\ LET record == Row(op[s].path, op[s].content, "discovered", s = "watch")
           owners == {d \in Rows : demos[d].content = op[s].content}
       IN  \/ /\ owners = {}
              /\ \E d \in Ids \ issued :
                    /\ \A e \in Ids \ issued : d <= e
                    /\ IF Unique(d, record)
                       THEN /\ PutRow(d, record)
                            /\ issued' = issued \cup {d}
                            /\ EndOp(s, d)
                            /\ UNCHANGED <<analyses, overwritten>>
                       ELSE FailOp(s)
           \/ /\ owners = {}
              /\ issued = Ids
              /\ FailOp(s)   \* bound: no more rows
           \/ \E d \in owners :
                 IF demos[d].status = "missing" THEN Relocate(s, d)
                 ELSE IF demos[d].path = op[s].path THEN FailOp(s)
                 ELSE /\ op' = [op EXCEPT ![s].step = "copy", ![s].id = d, ![s].row = demos[d]]
                      /\ UNCHANGED catalog
    /\ UNCHANGED <<disk, changes, attempt, pass>>

\* demo_file_matches_catalog reads the file of the row found.
CheckCopy(s) ==
    /\ op[s].step = "copy"
    /\ op' = [op EXCEPT ![s] = IF disk[@.row.path] = @.row.content THEN NoOp
                               ELSE [@ EXCEPT !.step = "recover"]]
    /\ UNCHANGED <<disk, changes, catalog, attempt, pass>>

\* recover_content_addressed_demo: only the row that was observed moves.
Recover(s) ==
    /\ op[s].step = "recover"
    /\ LET d == op[s].id
           seen == op[s].row
       IN  IF /\ d \in Rows
              /\ <<demos[d].path, demos[d].content, demos[d].status>>
                    = <<seen.path, seen.content, seen.status>>
           THEN Relocate(s, d)
           ELSE FailOp(s)
    /\ UNCHANGED <<disk, changes, attempt, pass>>

\* invalidate_demo_content: a file that no longer validates has no content.
Invalidate(s) ==
    /\ op[s].step = "invalidate"
    /\ LET d == op[s].id
       IN  IF d \in Rows /\ op[s].fresh
           THEN /\ PutRow(d, [demos[d] EXCEPT !.content = "none", !.status = "failed"])
                /\ analyses' = [analyses EXCEPT ![d] = "none"]
                /\ overwritten' = overwritten \ {d}
                /\ EndOp(s, d)
                /\ UNCHANGED issued
           ELSE FailOp(s)
    /\ UNCHANGED <<disk, changes, attempt, pass>>

Applied(s) == pass[s].found = {} /\ pass[s].read = {} /\ op[s].step = "idle"

\* Of the rows listed when the pass began, one whose path holds no file now.
Sweep(s) ==
    /\ Applied(s)
    /\ \E entry \in pass[s].listed :
          /\ pass' = [pass EXCEPT ![s].listed = @ \ {entry}]
          /\ IF disk[entry[2]] = "absent"
             THEN op' = [op EXCEPT ![s] = [NoOp EXCEPT !.step = "mark", !.path = entry[2],
                                                         !.id = entry[1]]]
             ELSE UNCHANGED op
    /\ UNCHANGED <<disk, changes, catalog, attempt>>

\* set_demo_status(id, Missing)
MarkMissing(s) ==
    /\ op[s].step = "mark"
    /\ IF op[s].id \in Rows
       THEN PutRow(op[s].id, [demos[op[s].id] EXCEPT !.status = "missing"])
       ELSE UNCHANGED demos
    /\ EndOp(s, op[s].id)
    /\ UNCHANGED <<disk, changes, issued, analyses, overwritten, attempt, pass>>

EndPass(s) ==
    /\ pass[s].busy
    /\ Applied(s)
    /\ pass[s].listed = {}
    /\ pass' = [pass EXCEPT ![s] = NoPass]
    /\ UNCHANGED <<disk, changes, catalog, attempt, op>>

Scan(s) ==
    \/ BeginPass(s)
    \/ \E p \in Paths : ReadFile(s, p)
    \/ LookUp(s)
    \/ Put(s) \/ Replace(s) \/ Claim(s) \/ CheckCopy(s) \/ Recover(s) \/ Invalidate(s)
    \/ Sweep(s) \/ MarkMissing(s) \/ EndPass(s)

----------------------------------------------------------------------------
(* The user and the files.                                                 *)

\* The foreign keys delete the runs and the analysis with their Demo.
DeleteDemo(d) ==
    /\ d \in Rows
    /\ PutRow(d, NoRow)
    /\ analyses' = [analyses EXCEPT ![d] = "none"]
    /\ attempt' = [attempt EXCEPT ![d] = "none"]
    /\ overwritten' = overwritten \ {d}
    /\ op' = Touched(op, d)
    /\ UNCHANGED <<disk, changes, issued, pass>>

\* patch_demo and the merge of a trusted match date set updated_at.
PatchDemo(d) ==
    /\ d \in Rows
    /\ op' = Touched(op, d)
    /\ UNCHANGED <<disk, changes, catalog, attempt, pass>>

\* A file is written, damaged, deleted or moved.
ChangeFile ==
    /\ changes < MaxChanges
    /\ changes' = changes + 1
    /\ \/ \E p \in Paths, content \in Contents \cup {"absent", "bad"} :
             disk[p] # content /\ disk' = [disk EXCEPT ![p] = content]
       \/ \E p, q \in Paths :
             /\ disk[p] # "absent" /\ disk[q] = "absent"
             /\ disk' = [disk EXCEPT ![q] = disk[p], ![p] = "absent"]
    /\ UNCHANGED <<catalog, attempt, pass, op>>

----------------------------------------------------------------------------
(* What the transactions of analysis_runs.rs do to a Demo.                 *)

\* start_analysis_run creates a run.
MayStart(d) ==
    /\ d \in Rows
    /\ demos[d].status \notin {"missing", "analyzing"}
    /\ attempt[d] = "none"
    /\ analyses[d] = "none"

StartAnalysis(d) ==
    /\ MayStart(d)
    /\ attempt' = [attempt EXCEPT ![d] = "unbound"]
    /\ SetStatus(d, "analyzing")
    /\ UNCHANGED <<disk, changes, issued, analyses, overwritten, pass>>

\* bind_analysis_run_input: the file the worker read is the content of the row.
BindAnalysis(d, content) ==
    /\ attempt[d] = "unbound"
    /\ content \in Contents /\ demos[d].content = content
    /\ attempt' = [attempt EXCEPT ![d] = content]
    /\ UNCHANGED <<disk, changes, catalog, pass, op>>

\* complete_analysis_run's conditions on the run, the file and the Demo.
MayPublish(d, content) ==
    /\ attempt[d] = content
    /\ demos[d].status = "analyzing"
    /\ demos[d].content = content

PublishAnalysis(d, content) ==
    /\ content \in Contents
    /\ MayPublish(d, content)
    /\ analyses[d] = "none"   \* its primary key
    /\ analyses' = [analyses EXCEPT ![d] = content]
    /\ attempt' = [attempt EXCEPT ![d] = "none"]
    /\ SetStatus(d, "ready")
    /\ UNCHANGED <<disk, changes, issued, overwritten, pass>>

\* fail_analysis_run ("failed") and cancel_analysis_run ("discovered").
EndAnalysis(d, status) ==
    /\ attempt[d] # "none"
    /\ attempt' = [attempt EXCEPT ![d] = "none"]
    /\ IF demos[d].status = "analyzing"
       THEN SetStatus(d, status)
       ELSE UNCHANGED <<demos, op>>
    /\ UNCHANGED <<disk, changes, issued, analyses, overwritten, pass>>

\* A flawed Restart that forgets the Demos whose runs it closes.
RestartForgettingDemos ==
    /\ changes < MaxChanges
    /\ changes' = changes + 1
    /\ pass' = [s \in Scanners |-> NoPass]
    /\ op' = [s \in Scanners |-> NoOp]
    /\ attempt' = [d \in Ids |-> "none"]
    /\ UNCHANGED <<disk, catalog>>

\* The process ends.  At the start recover_orphaned_analysis_runs and
\* recover_orphaned_demo_processing close what it left.
Restart ==
    /\ changes < MaxChanges
    /\ changes' = changes + 1
    /\ pass' = [s \in Scanners |-> NoPass]
    /\ op' = [s \in Scanners |-> NoOp]
    /\ attempt' = [d \in Ids |-> "none"]
    /\ demos' = [d \in Ids |-> IF demos[d].status = "analyzing"
                                THEN [demos[d] EXCEPT !.status = "failed"] ELSE demos[d]]
    /\ UNCHANGED <<disk, issued, analyses, overwritten>>

Analyse(d) ==
    \/ StartAnalysis(d)
    \/ \E content \in Contents : BindAnalysis(d, content) \/ PublishAnalysis(d, content)
    \/ \E status \in {"failed", "discovered"} : EndAnalysis(d, status)

Next ==
    \/ \E s \in Scanners : Scan(s)
    \/ \E d \in Ids : DeleteDemo(d) \/ PatchDemo(d) \/ Analyse(d)
    \/ ChangeFile
    \/ Restart

Spec == Init /\ [][Next]_vars

\* The watcher's loop goes on for ever, and a pass works through its files.
FairSpec == Spec /\ WF_vars(\E s \in Scanners \cap {"watch"} : Scan(s))

----------------------------------------------------------------------------
(* Properties.                                                             *)

\* "Replacing bytes for one Demo invalidates its Analysis" (ARCHITECTURE.md):
\* an analysis is always of the content its Demo has, whichever of several scans
\* writes last, unless one wrote what it had read before the Demo changed.
AnalysesMatchTheirDemo ==
    \A d \in Ids : analyses[d] # "none" =>
        /\ d \in Rows
        /\ d \notin overwritten => demos[d].content = analyses[d]

\* A Demo shown as ready has an analysis, whatever became of its file, its row
\* and its runs in between; likewise.
ReadyMeansAnalysed ==
    \A d \in Rows \ overwritten : demos[d].status = "ready" => analyses[d] # "none"

\* A Demo whose row says analyzing has an active run, and one that can still
\* publish: what a restart, a failure or a scan leaves behind never looks like
\* work that goes on, and a run bound to content its Demo no longer has cannot
\* publish any more, also when the file gets its old content back; likewise.
AnalyzingDemosHaveARun ==
    \A d \in Rows \ overwritten : demos[d].status = "analyzing" =>
        /\ attempt[d] # "none"
        /\ attempt[d] \in Contents => demos[d].content = attempt[d]

\* What the three except does happen: put_demo asks nothing of the row, and the
\* watcher takes over imported and downloaded rows with it, an import every row
\* whose content it finds unchanged.  No run checks this; see README.md.
NothingIsOverwritten == overwritten = {}

\* Once the files rest, the watcher tells the missing ones from the others:
\* "Missing watched files have an explicit state and can return to the library
\* when the same path becomes available" (FEATURES.md).
WatcherSettles ==
    <>[](\A d \in Rows : demos[d].watched =>
            /\ disk[demos[d].path] = "absent" => demos[d].status = "missing"
            /\ disk[demos[d].path] = demos[d].content => demos[d].status # "missing")
============================================================================
