---------------------------- MODULE AnalysisRuns ----------------------------
(***************************************************************************)
(* The analysis of a Demo: the durable run                                 *)
(* (crates/storage/src/repository/analysis_runs.rs), the owner task that   *)
(* supervises its worker and settles it                                    *)
(* (crates/application/src/routes/analysis_runs.rs) and the registry in    *)
(* which cancellation and commit are arbitrated                            *)
(* (crates/application/src/analysis_tasks.rs).  Every change of a Demo is  *)
(* an action of DemoCatalog; the claim a run has on its Demo is read off   *)
(* its row.                                                                *)
(***************************************************************************)
EXTENDS Naturals, FiniteSets

CONSTANTS Paths, Contents, Ids, Scanners, MaxChanges,   \* see DemoCatalog
          MaxRuns,   \* bound: runs
          Clients    \* requests to cancel a run

ASSUME MaxRunsAssumption == MaxRuns \in Nat
ASSUME DemosAssumption == 0 \notin Ids
ASSUME InputsAssumption == {"none", "unbound"} \cap Contents = {}

VARIABLES disk, changes, demos, issued, analyses, pass, op, overwritten,   \* see DemoCatalog
          runs,     \* the rows of analysis_runs
          owner,    \* where the owner of a run stands
          worker,   \* its worker: the next call, the path and what it read there
          tasks,    \* the registry entry of a run, then how it ended
          clients   \* cancellation requests

catalog == <<disk, changes, demos, issued, analyses, pass, op, overwritten>>
process == <<owner, worker, tasks>>
vars == <<catalog, runs, process, clients>>

Runs == 1..MaxRuns
ActiveStages == {"validating_input", "parser_queued", "parser_running",
                 "verifying_input_after_parse", "projecting"}
Verdicts == {"completed", "failed", "cancelled", "interrupted"}
Active(r) == runs[r].stage \in ActiveStages

\* The queued or running run of each Demo, as its row says it.
Attempt ==
    [d \in Ids |->
        IF \E r \in Runs : Active(r) /\ runs[r].demo = d
        THEN (CHOOSE r \in Runs : Active(r) /\ runs[r].demo = d) \* at most one
        ELSE 0]
AttemptInput == [d \in Ids |-> IF Attempt[d] = 0 THEN "none" ELSE runs[Attempt[d]].input]

Catalog == INSTANCE DemoCatalog WITH attempt <- AttemptInput

NoRun == [demo |-> 0, stage |-> "none", input |-> "unbound"]
NoWorker == [call |-> "none", path |-> "none", read |-> "none"]
NoRequest == [step |-> "idle", run |-> 0]

\* The calls run_analysis makes one after the other.
Calls == {"validate", "bind", "start", "parse", "revalidate", "observe", "project"}
Stopped == {"ok", "error", "unclean"}
After(call) == CASE call = "validate" -> "bind"
                 [] call = "bind" -> "start"
                 [] call = "start" -> "parse"
                 [] call = "parse" -> "revalidate"
                 [] call = "revalidate" -> "observe"
                 [] call = "observe" -> "project"
                 [] call = "project" -> "ok"

TypeOK ==
    /\ runs \in [Runs -> [demo : Ids \cup {0}, stage : ActiveStages \cup Verdicts \cup {"none", "deleted"},
                          input : Contents \cup {"unbound"}]]
    /\ owner \in [Runs -> {"none", "register", "work", "complete", "fail", "fail_cancel",
                           "finish", "finish_cancel", "cancel", "acknowledge", "done", "lost"}]
    /\ worker \in [Runs -> [call : Calls \cup Stopped \cup {"none"}, path : Paths \cup {"none"},
                            read : Contents \cup {"none"}]]
    /\ tasks \in [Runs -> {"absent", "running", "cancelling", "committing",
                           "cancelled", "unclean", "stopped", "finished"}]
    /\ clients \in [Clients -> [step : {"idle", "request", "wait", "reread", "ok", "refused"},
                                run : Runs \cup {0}]]

Init ==
    /\ runs = [r \in Runs |-> NoRun]
    /\ owner = [r \in Runs |-> "none"]
    /\ worker = [r \in Runs |-> NoWorker]
    /\ tasks = [r \in Runs |-> "absent"]
    /\ clients = [k \in Clients |-> NoRequest]
    /\ Catalog!Init

----------------------------------------------------------------------------
(* The owner accepts a run.                                                *)

\* start_analysis_run.  It only returns a run to join when there is one, and
\* refuses otherwise: neither changes anything.
StartAnalysisRun(d, r) ==
    /\ runs[r] = NoRun
    /\ \A e \in 1..(r - 1) : runs[e] # NoRun
    /\ runs' = [runs EXCEPT ![r] = [NoRun EXCEPT !.demo = d, !.stage = "validating_input"]]
    /\ Catalog!StartAnalysis(d)
    /\ owner' = [owner EXCEPT ![r] = "register"]
    /\ worker' = [worker EXCEPT ![r] = [NoWorker EXCEPT !.path = demos[d].path]]
    /\ UNCHANGED <<tasks, clients>>

Register(r) ==
    /\ owner[r] = "register"
    /\ owner' = [owner EXCEPT ![r] = "work"]
    /\ tasks' = [tasks EXCEPT ![r] = "running"]
    /\ worker' = [worker EXCEPT ![r].call = "validate"]
    /\ UNCHANGED <<catalog, runs, clients>>

----------------------------------------------------------------------------
(* The worker: run_analysis.  A cancellation is noticed after the call that *)
(* was under way (ensure_not_cancelled).                                    *)

Proceed(r) == IF tasks[r] = "cancelling" THEN "error" ELSE After(worker[r].call)

\* validate_input: the content of the source path, before and after parsing.
Observe(r) ==
    /\ worker[r].call \in {"validate", "observe"}
    /\ worker' = [worker EXCEPT ![r].call = IF disk[worker[r].path] \in Contents
                                            THEN Proceed(r) ELSE "error",
                                ![r].read = IF disk[worker[r].path] \in Contents
                                            THEN disk[worker[r].path] ELSE "none"]
    /\ UNCHANGED <<catalog, runs, owner, tasks, clients>>

\* transition_analysis_run: a row that is gone cannot move.
Transition(r, from, to) ==
    /\ runs[r].stage = from
    /\ runs' = [runs EXCEPT ![r].stage = to]

Bind(r) ==
    /\ worker[r].call = "bind"
    /\ runs[r].stage = "validating_input"
    /\ runs' = [runs EXCEPT ![r].stage = "parser_queued", ![r].input = worker[r].read]
    /\ Catalog!BindAnalysis(runs[r].demo, worker[r].read)
    /\ worker' = [worker EXCEPT ![r].call = Proceed(r)]
    /\ UNCHANGED <<owner, tasks, clients>>

\* mark_analysis_parser_started, mark_analysis_input_revalidation_started and
\* mark_analysis_projection_started
MarkStage(r) ==
    /\ \/ worker[r].call = "start" /\ Transition(r, "parser_queued", "parser_running")
       \/ worker[r].call = "revalidate"
            /\ Transition(r, "parser_running", "verifying_input_after_parse")
       \/ worker[r].call = "project" /\ Transition(r, "verifying_input_after_parse", "projecting")
    /\ worker' = [worker EXCEPT ![r].call = Proceed(r)]
    /\ UNCHANGED <<catalog, owner, tasks, clients>>

Parse(r) ==
    /\ worker[r].call = "parse"
    /\ worker' = [worker EXCEPT ![r].call = Proceed(r)]
    /\ UNCHANGED <<catalog, runs, owner, tasks, clients>>

\* Any call may fail, or stop because of the cancellation; a panic and a parser
\* that could not be reaped leave cleanup debt.
WorkerFails(r) ==
    /\ worker[r].call \in Calls
    /\ \E result \in {"error", "unclean"} : worker' = [worker EXCEPT ![r].call = result]
    /\ UNCHANGED <<catalog, runs, owner, tasks, clients>>

Work(r) == Observe(r) \/ Bind(r) \/ MarkStage(r) \/ Parse(r) \/ WorkerFails(r)

----------------------------------------------------------------------------
(* The owner settles the run: settle_analysis_run.                         *)

Goto(r, from, to) ==
    /\ owner[r] = from
    /\ owner' = [owner EXCEPT ![r] = to]

\* try_begin_commit of a running entry
BeginCommit(r) ==
    /\ tasks[r] = "running"
    /\ Goto(r, "work", IF worker[r].call = "ok" THEN "complete" ELSE "fail")
    /\ tasks' = [tasks EXCEPT ![r] = "committing"]

\* try_begin_commit of a cancelled entry
YieldToCancellation(r) ==
    /\ tasks[r] = "cancelling"
    /\ Goto(r, "work", IF worker[r].call = "unclean" THEN "fail_cancel" ELSE "cancel")
    /\ UNCHANGED tasks

\* A flawed Settle that does not wait for the worker of a cancelled run.
SettleWithoutJoining(r) ==
    /\ worker[r].call \in Stopped \/ tasks[r] = "cancelling"
    /\ BeginCommit(r) \/ YieldToCancellation(r)
    /\ UNCHANGED <<catalog, runs, worker, clients>>

Settle(r) ==
    /\ worker[r].call \in Stopped
    /\ BeginCommit(r) \/ YieldToCancellation(r)
    /\ UNCHANGED <<catalog, runs, worker, clients>>

\* complete_analysis_run
CompleteRun(r) ==
    /\ Goto(r, "complete", "finish")
    /\ Transition(r, "projecting", "completed")
    /\ Catalog!PublishAnalysis(runs[r].demo, worker[r].read)
    /\ UNCHANGED <<worker, tasks, clients>>

\* A flawed CompleteFails that leaves without a verdict.
CompleteFailsUnnoticed(r) ==
    /\ Goto(r, "complete", "finish")
    /\ UNCHANGED <<catalog, runs, worker, tasks, clients>>

\* Its conditions do not hold, or the storage failed.
CompleteFails(r) ==
    /\ Goto(r, "complete", "fail")
    /\ UNCHANGED <<catalog, runs, worker, tasks, clients>>

\* fail_analysis_run
FailRun(r) ==
    /\ \/ Goto(r, "fail", "finish")
       \/ Goto(r, "fail_cancel", "finish_cancel")
    /\ Active(r)
    /\ runs' = [runs EXCEPT ![r].stage = "failed"]
    /\ Catalog!EndAnalysis(runs[r].demo, "failed")
    /\ UNCHANGED <<worker, tasks, clients>>

\* cancel_analysis_run of the storage
CancelRun(r) ==
    /\ Goto(r, "cancel", "acknowledge")
    /\ Active(r)
    /\ runs' = [runs EXCEPT ![r].stage = "cancelled"]
    /\ Catalog!EndAnalysis(runs[r].demo, "discovered")
    /\ UNCHANGED <<worker, tasks, clients>>

\* A flawed Leave that keeps the entry of the run.
LeaveUnnoticed(r, from, to, told) ==
    /\ Goto(r, from, to)
    /\ worker' = [worker EXCEPT ![r] = NoWorker]
    /\ UNCHANGED <<catalog, runs, tasks, clients>>

\* The owner leaves; what the registry tells those who wait.
Leave(r, from, to, told) ==
    /\ Goto(r, from, to)
    /\ tasks' = [tasks EXCEPT ![r] = told]
    /\ worker' = [worker EXCEPT ![r] = NoWorker]
    /\ UNCHANGED <<catalog, runs, clients>>

\* The row is gone, or the storage failed for good: a row stays active then.
GiveUp(r) ==
    \/ Leave(r, "fail", IF Active(r) THEN "lost" ELSE "done", "finished")
    \/ Leave(r, "fail_cancel", IF Active(r) THEN "lost" ELSE "done", "unclean")
    \/ Leave(r, "cancel", IF Active(r) THEN "lost" ELSE "done", "stopped")

Finish(r) ==
    \/ Leave(r, "finish", "done", "finished")
    \/ Leave(r, "finish_cancel", "done", "unclean")
    \/ Leave(r, "acknowledge", "done", "cancelled")

Own(r) ==
    \/ Register(r) \/ Settle(r) \/ CompleteRun(r) \/ CompleteFails(r)
    \/ FailRun(r) \/ CancelRun(r) \/ GiveUp(r) \/ Finish(r)

----------------------------------------------------------------------------
(* The route that cancels a run: cancel_analysis_run.                      *)

Answer(k, step) == clients' = [clients EXCEPT ![k].step = step]

ReadRun(k, r) ==
    /\ clients[k].step = "idle"
    /\ runs[r] # NoRun
    /\ clients' = [clients EXCEPT ![k] = [run |-> r, step |->
            IF Active(r) THEN "request"
            ELSE IF runs[r].stage = "cancelled" THEN "ok" ELSE "refused"]]
    /\ UNCHANGED <<catalog, runs, process>>

\* request_cancel
RequestCancel(k) ==
    /\ clients[k].step = "request"
    /\ LET r == clients[k].run
       IN  /\ Answer(k, IF tasks[r] \in {"running", "cancelling"} THEN "wait" ELSE "refused")
           /\ tasks' = [tasks EXCEPT ![r] = IF @ = "running" THEN "cancelling" ELSE @]
    /\ UNCHANGED <<catalog, runs, owner, worker>>

\* A flawed Wake that takes every end for the cancellation.
WakeWithoutReading(k) ==
    /\ clients[k].step = "wait"
    /\ tasks[clients[k].run] \in {"cancelled", "unclean", "stopped", "finished"}
    /\ Answer(k, "reread")
    /\ UNCHANGED <<catalog, runs, process>>

\* Waiting ends when the owner leaves.
Wake(k) ==
    /\ clients[k].step = "wait"
    /\ tasks[clients[k].run] \in {"cancelled", "unclean", "stopped", "finished"}
    /\ Answer(k, IF tasks[clients[k].run] = "cancelled" THEN "reread" ELSE "refused")
    /\ UNCHANGED <<catalog, runs, process>>

RereadRun(k) ==
    /\ clients[k].step = "reread"
    /\ Answer(k, IF runs[clients[k].run].stage = "deleted" THEN "refused" ELSE "ok")
    /\ UNCHANGED <<catalog, runs, process>>

Request(k) == RequestCancel(k) \/ Wake(k) \/ RereadRun(k)

----------------------------------------------------------------------------
(* The catalog around the runs.                                            *)

ScanCatalog ==
    /\ UNCHANGED <<runs, process, clients>>
    /\ \E s \in Scanners : Catalog!Scan(s)

EditCatalog ==
    /\ UNCHANGED <<runs, process, clients>>
    /\ Catalog!ChangeFile \/ \E d \in Ids : Catalog!PatchDemo(d)

DeleteDemo(d) ==
    /\ runs' = [r \in Runs |-> IF runs[r].demo = d
                               THEN [NoRun EXCEPT !.stage = "deleted"] ELSE runs[r]]
    /\ Catalog!DeleteDemo(d)
    /\ UNCHANGED <<process, clients>>

\* recover_orphaned_analysis_runs; everything in memory is gone.
Restart ==
    /\ runs' = [r \in Runs |-> IF Active(r) THEN [runs[r] EXCEPT !.stage = "interrupted"]
                               ELSE runs[r]]
    /\ Catalog!Restart
    /\ owner' = [r \in Runs |-> IF owner[r] = "none" THEN "none" ELSE "done"]
    /\ worker' = [r \in Runs |-> NoWorker]
    /\ tasks' = [r \in Runs |-> "absent"]
    /\ clients' = [k \in Clients |-> IF clients[k].step \in {"idle", "ok", "refused"}
                                     THEN clients[k] ELSE [clients[k] EXCEPT !.step = "refused"]]

Next ==
    \/ \E d \in Ids, r \in Runs : StartAnalysisRun(d, r)
    \/ \E r \in Runs : Own(r) \/ Work(r)
    \/ \E k \in Clients : Request(k) \/ \E r \in Runs : ReadRun(k, r)
    \/ ScanCatalog \/ EditCatalog \/ Restart
    \/ \E d \in Ids : DeleteDemo(d)

Spec == Init /\ [][Next]_vars

\* The executor runs every task; a read, a parse and a storage call end.  An
\* owner waits for its worker: one of the two can go on.
FairSpec ==
    /\ Spec
    /\ \A r \in Runs : WF_process(Own(r) \/ Work(r))
    /\ \A k \in Clients : WF_clients(Request(k))

----------------------------------------------------------------------------
(* Properties.                                                             *)

\* A run gets one verdict, and a cancellation is confirmed only when it is that
\* verdict ("it is never reported as a successful cancellation", ARCHITECTURE.md),
\* however cancel, commit, deletion and restart interleave.
Lifecycle == INSTANCE JobLifecycle WITH
    Jobs <- Runs,
    status <- [r \in Runs |-> IF Active(r) THEN "open" ELSE runs[r].stage],
    told <- {r \in Runs : \E k \in Clients :
                clients[k].run = r /\ clients[k].step = "ok"}

ImplementsJobLifecycle == Lifecycle!Spec

\* "A duplicate start ... does not start a second parser" (ARCHITECTURE.md): the
\* worker of a Demo's earlier run is gone before a new run can start one, also
\* when the earlier run was cancelled while it parsed.
OneWorkerPerDemo ==
    \A r, e \in Runs :
        worker[r].call \in Calls /\ worker[e].call \in Calls
            /\ runs[r].demo = runs[e].demo /\ runs[r].demo # 0 => r = e

\* A run that is shown as active has an owner that will settle it, except when
\* the storage failed for good.
ActiveRunsAreOwned ==
    \A r \in Runs : Active(r) => owner[r] \notin {"none", "done", "finish", "finish_cancel"}

\* Every accepted run ends, unless its verdict cannot be stored.
AcceptedRunsEnd ==
    \A r \in Runs : Active(r) ~> (~Active(r) \/ owner[r] = "lost")

\* Everybody who waits for a cancellation is answered.
CancelsAreAnswered ==
    \A k \in Clients : (clients[k].step = "wait") ~> (clients[k].step \in {"ok", "refused"})
============================================================================
