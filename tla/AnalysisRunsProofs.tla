------------------------- MODULE AnalysisRunsProofs -------------------------
(***************************************************************************)
(* Proofs about analysis runs, for every number of runs, Demos, clients    *)
(* and contents of files.  What a step does to the catalog stays opaque,   *)
(* but for the conditions of StartAnalysis and BindAnalysis.               *)
(***************************************************************************)
EXTENDS AnalysisRuns, TLAPS

Stages == ActiveStages \cup Verdicts \cup {"none", "deleted"}

\* An owner that still has to settle its run.
Supervising == {"register", "work", "complete", "fail", "fail_cancel", "cancel"}
Steps == {"idle", "request", "wait", "reread", "ok", "refused"}

\* The rows, of which those that do not exist name no Demo.
RunRows ==
    /\ runs \in [Runs -> [demo : Ids \cup {0}, stage : Stages, input : Contents \cup {"unbound"}]]
    /\ \A r \in Runs : runs[r].stage \in {"none", "deleted"} => runs[r].demo = 0

\* What is in memory; of a worker only that it makes a call matters.
Processes ==
    /\ DOMAIN owner = Runs
    /\ DOMAIN tasks = Runs
    /\ DOMAIN worker = Runs
    /\ \A r \in Runs : "call" \in DOMAIN worker[r]
    /\ clients \in [Clients -> [step : Steps, run : Runs \cup {0}]]
    /\ \A k \in Clients : clients[k].step \in {"request", "wait", "reread"} => clients[k].run \in Runs

\* A row is active as long as its owner supervises it, or lost it, unless its
\* Demo was deleted.
Supervised ==
    \A r \in Runs :
        /\ Active(r) => owner[r] \in Supervising \cup {"lost"}
        /\ owner[r] \in Supervising => Active(r) \/ runs[r].stage = "deleted"
        /\ worker[r].call \in Calls => owner[r] = "work"

\* Whoever acknowledges a cancellation, from the owner to the client, does so
\* for a row that is cancelled or was deleted afterwards.
Cancelled(r) == runs[r].stage \in {"cancelled", "deleted"}
Acknowledged ==
    /\ \A r \in Runs : owner[r] = "acknowledge" \/ tasks[r] = "cancelled" => Cancelled(r)
    /\ \A k \in Clients : clients[k].step = "reread" => Cancelled(clients[k].run)

\* start_analysis_run only creates a run when the Demo has no active one.
OneRunPerDemo ==
    \A r, e \in Runs : Active(r) /\ Active(e) /\ runs[r].demo = runs[e].demo => r = e

IndInv == RunRows /\ Processes /\ Supervised /\ Acknowledged /\ OneRunPerDemo

----------------------------------------------------------------------------
(* Every action preserves the inductive invariant.                         *)

\* At the start there is no run, no task and no request.
LEMMA InitEstablishesInvariant == Init => IndInv
<1> SUFFICES ASSUME Init PROVE IndInv
  OBVIOUS
<1>1. RunRows
  BY DEF Init, RunRows, NoRun, Stages
<1>2. Processes
  BY DEF Init, Processes, NoWorker, NoRequest, Steps
<1>3. \A r \in Runs : ~Active(r) /\ owner[r] = "none" /\ tasks[r] = "absent" /\ worker[r].call = "none"
  BY DEF Init, Active, NoRun, NoWorker, ActiveStages
<1>4. \A k \in Clients : clients[k].step = "idle"
  BY DEF Init, NoRequest
<1> QED
  BY <1>1, <1>2, <1>3, <1>4 DEF IndInv, Supervised, Acknowledged, OneRunPerDemo, Supervising, Calls

\* A step that leaves the rows alone and moves owners, workers and entries of
\* the registry as their own conditions allow.
LEMMA ProcessStepPreservesInvariant ==
    ASSUME IndInv, runs' = runs, clients' = clients,
           DOMAIN owner' = Runs, DOMAIN tasks' = Runs, DOMAIN worker' = Runs,
           NEW r \in Runs,
           \A e \in Runs \ {r} : owner'[e] = owner[e] /\ tasks'[e] = tasks[e] /\ worker'[e] = worker[e],
           "call" \in DOMAIN worker'[r],
           Active(r) => owner'[r] \in Supervising \cup {"lost"},
           owner'[r] \in Supervising => Active(r) \/ runs[r].stage = "deleted",
           worker'[r].call \in Calls => owner'[r] = "work",
           owner'[r] = "acknowledge" \/ tasks'[r] = "cancelled" => Cancelled(r)
    PROVE  IndInv'
<1>1. RunRows' /\ OneRunPerDemo'
  BY DEF IndInv, RunRows, OneRunPerDemo, Active
<1>2. Processes'
  BY DEF IndInv, Processes
<1>3. Supervised'
  BY DEF IndInv, Supervised, Active
<1>4. Acknowledged'
  BY DEF IndInv, Acknowledged, Cancelled
<1> QED
  BY <1>1, <1>2, <1>3, <1>4 DEF IndInv

\* A row moves and keeps its Demo; what is in memory may move with it.
LEMMA RowStepPreservesInvariant ==
    ASSUME IndInv, UNCHANGED <<tasks, clients>>,
           NEW r \in Runs, Active(r),
           NEW stage \in ActiveStages \cup Verdicts, NEW input \in Contents \cup {"unbound"},
           runs' = [runs EXCEPT ![r] = [runs[r] EXCEPT !.stage = stage, !.input = input]],
           DOMAIN owner' = Runs, DOMAIN worker' = Runs,
           \A e \in Runs \ {r} : owner'[e] = owner[e] /\ worker'[e] = worker[e],
           "call" \in DOMAIN worker'[r],
           stage \in ActiveStages => owner'[r] \in Supervising,
           owner'[r] \in Supervising => stage \in ActiveStages,
           worker'[r].call \in Calls => owner'[r] = "work",
           owner'[r] = "acknowledge" => stage = "cancelled"
    PROVE  IndInv'
<1>1. /\ runs' \in [Runs -> [demo : Ids \cup {0}, stage : Stages, input : Contents \cup {"unbound"}]]
      /\ runs'[r].stage = stage /\ runs'[r].demo = runs[r].demo
      /\ \A e \in Runs \ {r} : runs'[e] = runs[e]
  BY DEF IndInv, RunRows, Stages
<1>2. stage \notin {"none", "deleted"}
  BY DEF ActiveStages, Verdicts
<1>3. RunRows'
  BY <1>1, <1>2 DEF IndInv, RunRows
<1>4. Processes'
  BY DEF IndInv, Processes
<1>5. Supervised'
  BY <1>1 DEF IndInv, Supervised, Active
<1>6. ~Cancelled(r) /\ owner[r] # "acknowledge" /\ tasks[r] # "cancelled"
  BY DEF IndInv, Acknowledged, Cancelled, Active, ActiveStages
<1>7. \A k \in Clients : clients[k].step = "reread" => clients[k].run # r /\ clients[k].run \in Runs
  BY <1>6 DEF IndInv, Acknowledged, Processes
<1>8. \A e \in Runs : owner'[e] = "acknowledge" \/ tasks'[e] = "cancelled" => Cancelled(e)'
  <2>1. CASE owner'[r] = "acknowledge" => stage = "cancelled"
    BY <1>1, <1>6, <2>1 DEF IndInv, Acknowledged, Cancelled
  <2> QED
    BY <2>1
<1>9. \A k \in Clients : clients'[k].step = "reread" => Cancelled(clients[k].run)'
  BY <1>1, <1>7 DEF IndInv, Acknowledged, Cancelled
<1>10. Acknowledged'
  BY <1>8, <1>9 DEF Acknowledged, Cancelled
<1>11. OneRunPerDemo'
  BY <1>1 DEF IndInv, OneRunPerDemo, Active
<1> QED
  BY <1>3, <1>4, <1>5, <1>10, <1>11 DEF IndInv

\* start_analysis_run: the Demo has no active run, so there is one afterwards.
LEMMA StartPreservesInvariant ==
    ASSUME IndInv, NEW d \in Ids, NEW r \in Runs, StartAnalysisRun(d, r)
    PROVE  IndInv'
<1>1. /\ runs[r] = NoRun
      /\ runs' = [runs EXCEPT ![r] = [NoRun EXCEPT !.demo = d, !.stage = "validating_input"]]
      /\ owner' = [owner EXCEPT ![r] = "register"]
      /\ worker' = [worker EXCEPT ![r] = [NoWorker EXCEPT !.path = demos[d].path]]
      /\ UNCHANGED <<tasks, clients>>
  BY DEF StartAnalysisRun
<1>2. /\ runs' \in [Runs -> [demo : Ids \cup {0}, stage : Stages, input : Contents \cup {"unbound"}]]
      /\ runs'[r].stage = "validating_input" /\ runs'[r].demo = d
      /\ \A e \in Runs \ {r} : runs'[e] = runs[e]
  BY <1>1 DEF IndInv, RunRows, Stages, ActiveStages, NoRun
<1>3. /\ DOMAIN owner' = Runs /\ owner'[r] = "register"
      /\ \A e \in Runs \ {r} : owner'[e] = owner[e]
      /\ DOMAIN worker' = Runs /\ "call" \in DOMAIN worker'[r] /\ worker'[r].call = "none"
      /\ \A e \in Runs \ {r} : worker'[e] = worker[e]
  BY <1>1 DEF IndInv, Processes, NoWorker
<1>4. RunRows'
  BY <1>2 DEF IndInv, RunRows
<1>5. Processes'
  BY <1>1, <1>3 DEF IndInv, Processes
<1>6. Supervised'
  BY <1>2, <1>3 DEF IndInv, Supervised, Active, ActiveStages, Supervising, Calls
<1>7. ~Cancelled(r) /\ tasks[r] # "cancelled"
  BY <1>1 DEF IndInv, Acknowledged, Cancelled, NoRun
<1>8. \A k \in Clients : clients[k].step = "reread" => clients[k].run # r /\ clients[k].run \in Runs
  BY <1>7 DEF IndInv, Acknowledged, Processes
<1>9. Acknowledged'
  BY <1>1, <1>2, <1>3, <1>7, <1>8 DEF IndInv, Acknowledged, Cancelled
<1>10. \A e \in Runs : ~(Active(e) /\ runs[e].demo = d)
  <2>1. AttemptInput[d] = "none"
    BY DEF StartAnalysisRun, Catalog!StartAnalysis, Catalog!MayStart
  <2>2. SUFFICES ASSUME \E e \in Runs : Active(e) /\ runs[e].demo = d PROVE FALSE
    OBVIOUS
  <2>3. Attempt[d] \in Runs
    BY <2>2 DEF Attempt
  <2>4. Attempt[d] # 0
    BY <2>3, MaxRunsAssumption DEF Runs
  <2>5. AttemptInput[d] = runs[Attempt[d]].input
    BY <2>4 DEF AttemptInput
  <2>6. runs[Attempt[d]].input \in Contents \cup {"unbound"}
    BY <2>3 DEF IndInv, RunRows
  <2> QED
    BY <2>1, <2>5, <2>6, InputsAssumption
<1>11. OneRunPerDemo'
  BY <1>2, <1>10 DEF IndInv, OneRunPerDemo, Active
<1> QED
  BY <1>4, <1>5, <1>6, <1>9, <1>11 DEF IndInv

\* A client moves, and may ask the registry for a cancellation.
LEMMA ClientStepPreservesInvariant ==
    ASSUME IndInv, UNCHANGED <<runs, owner, worker>>,
           NEW k \in Clients, NEW step \in Steps, NEW run \in Runs \cup {0},
           clients' = [clients EXCEPT ![k] = [step |-> step, run |-> run]],
           step \in {"request", "wait", "reread"} => run \in Runs,
           step = "reread" => Cancelled(run),
           DOMAIN tasks' = Runs,
           \A r \in Runs : tasks'[r] = "cancelled" => tasks[r] = "cancelled"
    PROVE  IndInv'
<1>1. RunRows' /\ OneRunPerDemo' /\ Supervised'
  BY DEF IndInv, RunRows, OneRunPerDemo, Supervised, Active
<1>2. /\ clients' \in [Clients -> [step : Steps, run : Runs \cup {0}]]
      /\ clients'[k].step = step /\ clients'[k].run = run
      /\ \A c \in Clients \ {k} : clients'[c] = clients[c]
  BY DEF IndInv, Processes
<1>3. Processes'
  BY <1>2 DEF IndInv, Processes
<1>4. Acknowledged'
  BY <1>2 DEF IndInv, Acknowledged, Cancelled
<1> QED
  BY <1>1, <1>3, <1>4 DEF IndInv

\* The rows of a deleted Demo go with it.
LEMMA DeletePreservesInvariant ==
    ASSUME IndInv, NEW d \in Ids, DeleteDemo(d)
    PROVE  IndInv'
<1>1. /\ runs' = [r \in Runs |-> IF runs[r].demo = d THEN [NoRun EXCEPT !.stage = "deleted"] ELSE runs[r]]
      /\ UNCHANGED <<process, clients>>
  BY DEF DeleteDemo
<1>2. /\ runs' \in [Runs -> [demo : Ids \cup {0}, stage : Stages, input : Contents \cup {"unbound"}]]
      /\ \A r \in Runs : runs'[r] = runs[r] \/ (runs'[r].stage = "deleted" /\ runs'[r].demo = 0)
  BY <1>1 DEF IndInv, RunRows, Stages, NoRun
<1>3. /\ "deleted" \notin ActiveStages
      /\ \A r \in Runs : runs[r].stage = "deleted" => runs'[r].stage = "deleted"
  BY <1>2 DEF ActiveStages
<1>4. RunRows'
  BY <1>2 DEF IndInv, RunRows
<1>5. Processes'
  BY <1>1 DEF IndInv, Processes, process
<1>6. Supervised'
  BY <1>1, <1>2, <1>3 DEF IndInv, Supervised, Active, process
<1>7. Acknowledged'
  <2>1. \A k \in Clients : clients[k].step = "reread" => clients[k].run \in Runs
    BY DEF IndInv, Processes
  <2> QED
    BY <1>1, <1>2, <2>1 DEF IndInv, Acknowledged, Cancelled, process
<1>8. OneRunPerDemo'
  BY <1>2, <1>3 DEF IndInv, OneRunPerDemo, Active
<1> QED
  BY <1>4, <1>5, <1>6, <1>7, <1>8 DEF IndInv

\* recover_orphaned_analysis_runs: no row is active and nobody waits.
LEMMA RestartPreservesInvariant ==
    ASSUME IndInv, Restart
    PROVE  IndInv'
<1>1. /\ runs' = [r \in Runs |-> IF Active(r) THEN [runs[r] EXCEPT !.stage = "interrupted"] ELSE runs[r]]
      /\ owner' = [r \in Runs |-> IF owner[r] = "none" THEN "none" ELSE "done"]
      /\ worker' = [r \in Runs |-> NoWorker]
      /\ tasks' = [r \in Runs |-> "absent"]
      /\ clients' = [k \in Clients |-> IF clients[k].step \in {"idle", "ok", "refused"}
                                       THEN clients[k] ELSE [clients[k] EXCEPT !.step = "refused"]]
  BY DEF Restart
<1>2. runs' \in [Runs -> [demo : Ids \cup {0}, stage : Stages, input : Contents \cup {"unbound"}]]
  BY <1>1 DEF IndInv, RunRows, Stages, Verdicts
<1>3. \A r \in Runs : ~Active(r)'
  BY <1>1 DEF IndInv, RunRows, Active, ActiveStages
<1>4. \A r \in Runs : runs'[r].stage \in {"none", "deleted"} => runs'[r] = runs[r]
  BY <1>1 DEF IndInv, RunRows
<1>5. RunRows'
  BY <1>2, <1>4 DEF IndInv, RunRows
<1>6. /\ clients' \in [Clients -> [step : Steps, run : Runs \cup {0}]]
      /\ \A k \in Clients : clients'[k].step \in {"idle", "ok", "refused"}
  BY <1>1 DEF IndInv, Processes, Steps
<1>7. Processes'
  BY <1>1, <1>6 DEF Processes, NoWorker
<1>8. Supervised'
  BY <1>1, <1>3 DEF Supervised, Supervising, NoWorker, Calls
<1>9. Acknowledged'
  BY <1>1, <1>6 DEF Acknowledged
<1>10. OneRunPerDemo'
  BY <1>3 DEF OneRunPerDemo
<1> QED
  BY <1>5, <1>7, <1>8, <1>9, <1>10 DEF IndInv

\* The steps of the worker and of the owner of one run.
LEMMA WorkPreservesInvariant ==
    ASSUME IndInv, NEW r \in Runs, Work(r)
    PROVE  IndInv'
<1>1. /\ DOMAIN owner = Runs /\ DOMAIN tasks = Runs /\ DOMAIN worker = Runs
      /\ "call" \in DOMAIN worker[r]
  BY DEF IndInv, Processes
<1>2. /\ Active(r) => owner[r] \in Supervising \cup {"lost"}
      /\ owner[r] \in Supervising => Active(r) \/ runs[r].stage = "deleted"
      /\ owner[r] = "acknowledge" \/ tasks[r] = "cancelled" => Cancelled(r)
  BY DEF IndInv, Supervised, Acknowledged
<1>3. worker[r].call \in Calls /\ owner[r] = "work"
  <2>1. worker[r].call \in Calls
    BY DEF Work, Observe, Bind, MarkStage, Parse, WorkerFails, Calls
  <2> QED
    BY <2>1 DEF IndInv, Supervised
<1>4. CASE Observe(r) \/ Parse(r) \/ WorkerFails(r)
  <2>1. UNCHANGED <<runs, owner, tasks, clients>>
    BY <1>4 DEF Observe, Parse, WorkerFails
  <2>2. \E c, read : worker' = [worker EXCEPT ![r].call = c, ![r].read = read]
                       \/ worker' = [worker EXCEPT ![r].call = c]
    BY <1>4 DEF Observe, Parse, WorkerFails
  <2>3. /\ DOMAIN worker' = Runs /\ "call" \in DOMAIN worker'[r]
        /\ \A e \in Runs \ {r} : worker'[e] = worker[e]
    BY <1>1, <2>2
  <2> QED
    BY <1>1, <1>2, <1>3, <2>1, <2>3, ProcessStepPreservesInvariant
<1>5. ASSUME NEW stage \in ActiveStages, NEW input \in Contents \cup {"unbound"},
             Active(r),
             runs' = [runs EXCEPT ![r] = [runs[r] EXCEPT !.stage = stage, !.input = input]],
             UNCHANGED <<owner, tasks, clients>>,
             worker' = [worker EXCEPT ![r].call = Proceed(r)]
      PROVE  IndInv'
  <2>1. /\ DOMAIN worker' = Runs /\ "call" \in DOMAIN worker'[r]
        /\ \A e \in Runs \ {r} : worker'[e] = worker[e]
    BY <1>1, <1>5
  <2> QED
    BY <1>1, <1>3, <1>5, <2>1, RowStepPreservesInvariant DEF Supervising
<1>6. runs[r] \in [demo : Ids \cup {0}, stage : Stages, input : Contents \cup {"unbound"}]
  BY DEF IndInv, RunRows
<1>7. CASE Bind(r)
  <2>1. worker[r].read \in Contents
    BY <1>7 DEF Bind, Catalog!BindAnalysis
  <2>2. Active(r)
    BY <1>7 DEF Bind, Active, ActiveStages
  <2>3. runs' = [runs EXCEPT ![r] = [runs[r] EXCEPT !.stage = "parser_queued", !.input = worker[r].read]]
    BY <1>7 DEF Bind
  <2>4. "parser_queued" \in ActiveStages
    BY DEF ActiveStages
  <2> QED
    BY <1>5, <1>7, <2>1, <2>2, <2>3, <2>4 DEF Bind
<1>8. CASE MarkStage(r)
  <2>1. PICK from \in ActiveStages, to \in ActiveStages : Transition(r, from, to)
    BY <1>8 DEF MarkStage, ActiveStages
  <2>2. Active(r)
    BY <2>1 DEF Transition, Active
  <2>3. runs' = [runs EXCEPT ![r] = [runs[r] EXCEPT !.stage = to, !.input = runs[r].input]]
    BY <1>6, <2>1 DEF Transition
  <2>4. runs[r].input \in Contents \cup {"unbound"}
    BY <1>6
  <2> QED
    BY <1>5, <1>8, <2>2, <2>3, <2>4 DEF MarkStage
<1> QED
  BY <1>4, <1>7, <1>8 DEF Work

\* The task that supervises a run.
LEMMA OwnPreservesInvariant ==
    ASSUME IndInv, NEW r \in Runs, Own(r)
    PROVE  IndInv'
<1>1. /\ DOMAIN owner = Runs /\ DOMAIN tasks = Runs /\ DOMAIN worker = Runs
      /\ "call" \in DOMAIN worker[r]
  BY DEF IndInv, Processes
<1>2. /\ Active(r) => owner[r] \in Supervising \cup {"lost"}
      /\ owner[r] \in Supervising => Active(r) \/ runs[r].stage = "deleted"
      /\ worker[r].call \in Calls => owner[r] = "work"
      /\ owner[r] = "acknowledge" \/ tasks[r] = "cancelled" => Cancelled(r)
  BY DEF IndInv, Supervised, Acknowledged
<1>3. runs[r] \in [demo : Ids \cup {0}, stage : Stages, input : Contents \cup {"unbound"}]
  BY DEF IndInv, RunRows
<1>4. Stopped \cap Calls = {}
  BY DEF Stopped, Calls
<1>5. CASE Register(r)
  <2>1. /\ UNCHANGED <<runs, clients>>
        /\ owner' = [owner EXCEPT ![r] = "work"]
        /\ tasks' = [tasks EXCEPT ![r] = "running"]
        /\ worker' = [worker EXCEPT ![r].call = "validate"]
        /\ owner[r] \in Supervising
    BY <1>5 DEF Register, Supervising
  <2>2. /\ DOMAIN owner' = Runs /\ DOMAIN tasks' = Runs /\ DOMAIN worker' = Runs
        /\ owner'[r] = "work" /\ tasks'[r] = "running" /\ "call" \in DOMAIN worker'[r]
        /\ \A e \in Runs \ {r} : owner'[e] = owner[e] /\ tasks'[e] = tasks[e] /\ worker'[e] = worker[e]
    BY <1>1, <2>1
  <2> QED
    BY <1>2, <2>1, <2>2, ProcessStepPreservesInvariant DEF Supervising
<1>6. CASE Settle(r)
  <2>1. PICK to \in Supervising : Goto(r, "work", to) /\ to # "work"
    BY <1>6 DEF Settle, BeginCommit, YieldToCancellation, Supervising
  <2>2. tasks' = [tasks EXCEPT ![r] = "committing"] \/ tasks' = tasks
    BY <1>6 DEF Settle, BeginCommit, YieldToCancellation
  <2>3. UNCHANGED <<runs, worker, clients>> /\ worker[r].call \notin Calls
    BY <1>4, <1>6 DEF Settle
  <2>4. owner[r] = "work" /\ owner' = [owner EXCEPT ![r] = to]
    BY <2>1 DEF Goto
  <2>5. /\ DOMAIN owner' = Runs /\ DOMAIN tasks' = Runs
        /\ owner'[r] = to /\ (tasks'[r] = "cancelled" => tasks[r] = "cancelled")
        /\ \A e \in Runs \ {r} : owner'[e] = owner[e] /\ tasks'[e] = tasks[e]
    BY <1>1, <2>2, <2>4
  <2> QED
    BY <1>1, <1>2, <2>3, <2>4, <2>5, ProcessStepPreservesInvariant DEF Supervising
<1>7. CASE CompleteFails(r)
  <2>1. /\ UNCHANGED <<runs, worker, tasks, clients>>
        /\ owner[r] = "complete" /\ owner' = [owner EXCEPT ![r] = "fail"]
    BY <1>7 DEF CompleteFails, Goto
  <2> QED
    BY <1>1, <1>2, <2>1, ProcessStepPreservesInvariant DEF Supervising
<1>8. ASSUME NEW from, NEW to, NEW verdict \in Verdicts, Goto(r, from, to),
             from \in Supervising \ {"work"}, to \notin Supervising,
             to = "acknowledge" => verdict = "cancelled",
             Active(r), runs' = [runs EXCEPT ![r].stage = verdict],
             UNCHANGED <<worker, tasks, clients>>
      PROVE  IndInv'
  <2>1. runs' = [runs EXCEPT ![r] = [runs[r] EXCEPT !.stage = verdict, !.input = runs[r].input]]
    BY <1>3, <1>8
  <2>2. owner[r] = from /\ owner' = [owner EXCEPT ![r] = to]
    BY <1>8 DEF Goto
  <2>3. verdict \notin ActiveStages /\ runs[r].input \in Contents \cup {"unbound"}
    BY <1>3, <1>8 DEF Verdicts, ActiveStages
  <2>4. DOMAIN owner' = Runs /\ owner'[r] = to /\ \A e \in Runs \ {r} : owner'[e] = owner[e]
    BY <1>1, <2>2
  <2>5. worker[r].call \notin Calls
    BY <1>2, <1>8, <2>2
  <2> QED
    BY <1>1, <1>8, <2>1, <2>3, <2>4, <2>5, RowStepPreservesInvariant
<1>9. CASE CompleteRun(r)
  <2>1. /\ Goto(r, "complete", "finish") /\ runs' = [runs EXCEPT ![r].stage = "completed"]
        /\ runs[r].stage = "projecting" /\ UNCHANGED <<worker, tasks, clients>>
    BY <1>9 DEF CompleteRun, Transition
  <2> QED
    BY <1>8, <2>1 DEF Active, ActiveStages, Verdicts, Supervising
<1>10. CASE FailRun(r)
  <2>1. /\ Goto(r, "fail", "finish") \/ Goto(r, "fail_cancel", "finish_cancel")
        /\ runs' = [runs EXCEPT ![r].stage = "failed"]
        /\ Active(r) /\ UNCHANGED <<worker, tasks, clients>>
    BY <1>10 DEF FailRun
  <2> QED
    BY <1>8, <2>1 DEF Verdicts, Supervising
<1>11. CASE CancelRun(r)
  <2>1. /\ Goto(r, "cancel", "acknowledge") /\ runs' = [runs EXCEPT ![r].stage = "cancelled"]
        /\ Active(r) /\ UNCHANGED <<worker, tasks, clients>>
    BY <1>11 DEF CancelRun
  <2> QED
    BY <1>8, <2>1 DEF Verdicts, Supervising
<1>12. ASSUME NEW from, NEW to, NEW told, Leave(r, from, to, told),
              to \in {"lost", "done"}, Active(r) => to = "lost",
              told = "cancelled" => Cancelled(r)
       PROVE  IndInv'
  <2>1. /\ UNCHANGED <<runs, clients>>
        /\ owner' = [owner EXCEPT ![r] = to]
        /\ tasks' = [tasks EXCEPT ![r] = told]
        /\ worker' = [worker EXCEPT ![r] = NoWorker]
    BY <1>12 DEF Leave, Goto
  <2>2. /\ DOMAIN owner' = Runs /\ DOMAIN tasks' = Runs /\ DOMAIN worker' = Runs
        /\ owner'[r] = to /\ tasks'[r] = told /\ worker'[r] = NoWorker
        /\ \A e \in Runs \ {r} : owner'[e] = owner[e] /\ tasks'[e] = tasks[e] /\ worker'[e] = worker[e]
    BY <1>1, <2>1
  <2>3. "call" \in DOMAIN NoWorker /\ NoWorker.call \notin Calls
    BY DEF NoWorker, Calls
  <2>4. to \notin Supervising /\ to # "acknowledge"
    BY <1>12 DEF Supervising
  <2> QED
    BY <1>12, <2>1, <2>2, <2>3, <2>4, ProcessStepPreservesInvariant
<1>13. CASE GiveUp(r)
  <2>1. PICK from \in {"fail", "fail_cancel", "cancel"}, told \in {"finished", "unclean", "stopped"} :
            Leave(r, from, IF Active(r) THEN "lost" ELSE "done", told)
    BY <1>13 DEF GiveUp
  <2> QED
    BY <1>12, <2>1
<1>14. CASE Finish(r)
  <2>1. PICK from \in {"finish", "finish_cancel", "acknowledge"}, told \in {"finished", "unclean", "cancelled"} :
            /\ Leave(r, from, "done", told)
            /\ told = "cancelled" => from = "acknowledge"
    BY <1>14 DEF Finish
  <2>2. owner[r] = from
    BY <2>1 DEF Leave, Goto
  <2>3. ~Active(r)
    BY <1>2, <2>2 DEF Supervising
  <2> QED
    BY <1>2, <1>12, <2>1, <2>2, <2>3
<1> QED
  BY <1>5, <1>6, <1>7, <1>9, <1>10, <1>11, <1>13, <1>14 DEF Own

\* The steps of a client that cancels.
LEMMA ClientPreservesInvariant ==
    ASSUME IndInv, NEW k \in Clients, Request(k) \/ \E r \in Runs : ReadRun(k, r)
    PROVE  IndInv'
<1>1. clients \in [Clients -> [step : Steps, run : Runs \cup {0}]] /\ DOMAIN tasks = Runs
  BY DEF IndInv, Processes
<1>2. ASSUME NEW step \in Steps, Answer(k, step)
      PROVE  clients' = [clients EXCEPT ![k] = [step |-> step, run |-> clients[k].run]]
  <2>1. clients[k] \in [step : Steps, run : Runs \cup {0}]
    BY <1>1
  <2>2. [clients[k] EXCEPT !.step = step] = [step |-> step, run |-> clients[k].run]
    BY <2>1
  <2>3. clients' = [clients EXCEPT ![k] = [clients[k] EXCEPT !.step = step]]
    BY <1>2 DEF Answer
  <2> QED
    BY <2>2, <2>3
<1>3. clients[k].run \in Runs \cup {0}
  BY <1>1
<1>4. CASE RequestCancel(k)
  <2>1. /\ clients[k].step = "request" /\ UNCHANGED <<runs, owner, worker>>
        /\ \E step \in {"wait", "refused"} : Answer(k, step)
        /\ tasks' = [tasks EXCEPT ![clients[k].run] = IF @ = "running" THEN "cancelling" ELSE @]
    BY <1>4 DEF RequestCancel
  <2>2. clients[k].run \in Runs
    BY <2>1 DEF IndInv, Processes
  <2>3. DOMAIN tasks' = Runs /\ \A r \in Runs : tasks'[r] = "cancelled" => tasks[r] = "cancelled"
    BY <1>1, <2>1, <2>2
  <2> QED
    BY <1>2, <1>3, <2>1, <2>2, <2>3, ClientStepPreservesInvariant DEF Steps
<1>5. CASE Wake(k)
  <2>1. /\ clients[k].step = "wait" /\ UNCHANGED <<runs, owner, worker, tasks>>
        /\ Answer(k, IF tasks[clients[k].run] = "cancelled" THEN "reread" ELSE "refused")
    BY <1>5 DEF Wake, process
  <2>2. clients[k].run \in Runs
    BY <2>1 DEF IndInv, Processes
  <2>3. tasks[clients[k].run] = "cancelled" => Cancelled(clients[k].run)
    BY <2>2 DEF IndInv, Acknowledged
  <2> QED
    BY <1>1, <1>2, <1>3, <2>1, <2>2, <2>3, ClientStepPreservesInvariant DEF Steps
<1>6. CASE RereadRun(k)
  <2>1. /\ UNCHANGED <<runs, owner, worker, tasks>>
        /\ \E step \in {"ok", "refused"} : Answer(k, step)
    BY <1>6 DEF RereadRun, process
  <2> QED
    BY <1>1, <1>2, <1>3, <2>1, ClientStepPreservesInvariant DEF Steps
<1>7. ASSUME NEW r \in Runs, ReadRun(k, r)
      PROVE  IndInv'
  <2>1. /\ UNCHANGED <<runs, owner, worker, tasks>>
        /\ \E step \in {"request", "ok", "refused"} :
              clients' = [clients EXCEPT ![k] = [step |-> step, run |-> r]]
    BY <1>7 DEF ReadRun, process
  <2> QED
    BY <1>1, <1>7, <2>1, ClientStepPreservesInvariant DEF Steps
<1> QED
  BY <1>4, <1>5, <1>6, <1>7 DEF Request

\* Every step.
LEMMA StepPreservesInvariant == IndInv /\ [Next]_vars => IndInv'
<1> SUFFICES ASSUME IndInv, [Next]_vars PROVE IndInv'
  OBVIOUS
<1>1. ASSUME UNCHANGED <<runs, process, clients>> PROVE IndInv'
  BY <1>1 DEF IndInv, RunRows, Processes, Supervised, Acknowledged, OneRunPerDemo, Active,
              Cancelled, process
<1>2. CASE ScanCatalog \/ EditCatalog \/ UNCHANGED vars
  BY <1>1, <1>2 DEF ScanCatalog, EditCatalog, vars
<1> QED
  BY <1>2, StartPreservesInvariant, OwnPreservesInvariant, WorkPreservesInvariant,
     ClientPreservesInvariant, DeletePreservesInvariant, RestartPreservesInvariant DEF Next

----------------------------------------------------------------------------
(* The theorems.                                                           *)

\* The inductive invariant: rows, owners, workers, the registry and the clients
\* agree about every run.
THEOREM Invariant == Spec => []IndInv
<1> QED
  BY InitEstablishesInvariant, StepPreservesInvariant, PTL DEF Spec

\* No Demo is parsed twice at the same time, also while the worker of a
\* cancelled run is still busy (start_analysis_run, settle_analysis_run).
THEOREM WorkersAreExclusive == Spec => []OneWorkerPerDemo
<1>1. IndInv => OneWorkerPerDemo
  <2> SUFFICES ASSUME IndInv,
                      NEW r \in Runs, NEW e \in Runs,
                      worker[r].call \in Calls, worker[e].call \in Calls,
                      runs[r].demo = runs[e].demo, runs[r].demo # 0
               PROVE  r = e
    BY DEF OneWorkerPerDemo
  <2>1. runs[r].stage # "deleted" /\ runs[e].stage # "deleted"
    BY DEF IndInv, RunRows
  <2>2. Active(r) /\ Active(e)
    BY <2>1 DEF IndInv, Supervised, Supervising
  <2> QED
    BY <2>2 DEF IndInv, OneRunPerDemo
<1> QED
  BY <1>1, Invariant, PTL

\* An active row has an owner that will settle it, or had one whose verdict
\* could not be stored (supervise_analysis_run).
THEOREM ActiveRunsHaveOwners == Spec => []ActiveRunsAreOwned
<1>1. IndInv => ActiveRunsAreOwned
  BY DEF IndInv, Supervised, Supervising, ActiveRunsAreOwned
<1> QED
  BY <1>1, Invariant, PTL

----------------------------------------------------------------------------
(* Analysis runs implement the job lifecycle.                              *)

\* A run and its confirmed cancellations, as the lifecycle sees them.
Status == [r \in Runs |-> IF Active(r) THEN "open" ELSE runs[r].stage]
Told == {r \in Runs : \E k \in Clients : clients[k].run = r /\ clients[k].step = "ok"}

\* Clients that move from or to anything but "ok" tell nobody anything new.
LEMMA ClientsTell ==
    ASSUME IndInv, UNCHANGED runs,
           NEW k \in Clients, clients[k].step # "ok",
           NEW step \in Steps, NEW run \in Runs \cup {0},
           clients' = [clients EXCEPT ![k] = [step |-> step, run |-> run]],
           step = "ok" => run \in Runs /\ runs[run].stage = "cancelled"
    PROVE  [Lifecycle!Next]_Lifecycle!vars
<1>1. /\ clients'[k].step = step /\ clients'[k].run = run
      /\ \A c \in Clients \ {k} : clients'[c] = clients[c]
  BY DEF IndInv, Processes
<1>2. Status' = Status
  BY DEF Status, Active
<1>3. CASE step = "ok"
  <2>1. Told' = Told \cup {run}
    BY <1>1, <1>3 DEF Told
  <2>2. Status[run] = "cancelled"
    BY <1>3 DEF Status, Active, ActiveStages
  <2>3. Lifecycle!Tell(run)
    BY <1>2, <2>1, <2>2 DEF Lifecycle!Tell, Status, Told
  <2> QED
    BY <1>3, <2>3 DEF Lifecycle!Next
<1>4. CASE step # "ok"
  <2>1. Told' = Told
    BY <1>1, <1>4 DEF Told
  <2> QED
    BY <1>2, <2>1 DEF Lifecycle!vars, Status, Told
<1> QED
  BY <1>3, <1>4

\* One row moves to another stage.
LEMMA RowsClose ==
    ASSUME IndInv, UNCHANGED clients,
           NEW r \in Runs, Active(r), NEW stage \in ActiveStages \cup Verdicts,
           runs'[r].stage = stage, \A e \in Runs \ {r} : runs'[e] = runs[e]
    PROVE  [Lifecycle!Next]_Lifecycle!vars
<1>1. Told' = Told
  BY DEF Told
<1>2. CASE stage \in ActiveStages
  <2>1. Status' = Status
    BY <1>2 DEF Status, Active
  <2> QED
    BY <1>1, <2>1 DEF Lifecycle!vars, Status, Told
<1>3. CASE stage \notin ActiveStages
  <2>1. stage \in Lifecycle!Verdicts
    BY <1>3 DEF Verdicts, Lifecycle!Verdicts
  <2>2. Status[r] = "open"
    BY DEF Status
  <2>3. Status' = [Status EXCEPT ![r] = stage]
    <3>1. \A e \in Runs \ {r} : (IF Active(e) THEN "open" ELSE runs[e].stage)'
                                    = IF Active(e) THEN "open" ELSE runs[e].stage
      BY DEF Active
    <3>2. (IF Active(r) THEN "open" ELSE runs[r].stage)' = stage
      BY <1>3 DEF Active
    <3> QED
      BY <3>1, <3>2 DEF Status
  <2>4. Lifecycle!Close(r)
    BY <1>1, <2>1, <2>2, <2>3 DEF Lifecycle!Close, Lifecycle!Move, Status, Told
  <2> QED
    BY <2>4 DEF Lifecycle!Next
<1> QED
  BY <1>2, <1>3

\* Before the first run there is nothing to tell.
LEMMA InitRefinesJobLifecycle == Init => Lifecycle!Init
<1> SUFFICES ASSUME Init PROVE Lifecycle!Init
  OBVIOUS
<1>1. Status = [r \in Runs |-> "none"]
  BY DEF Init, NoRun, Status, Active, ActiveStages
<1>2. Told = {}
  BY DEF Init, NoRequest, Told
<1> QED
  BY <1>1, <1>2 DEF Lifecycle!Init, Status, Told

\* Every step of the runs is a step of the lifecycle, or none.
LEMMA StepRefinesJobLifecycle ==
    ASSUME IndInv, [Next]_vars
    PROVE  [Lifecycle!Next]_Lifecycle!vars
<1>1. ASSUME UNCHANGED <<runs, clients>> PROVE [Lifecycle!Next]_Lifecycle!vars
  <2>1. Status' = Status /\ Told' = Told
    BY <1>1 DEF Status, Told, Active
  <2> QED
    BY <2>1 DEF Lifecycle!vars, Status, Told
<1>2. runs \in [Runs -> [demo : Ids \cup {0}, stage : Stages, input : Contents \cup {"unbound"}]]
  BY DEF IndInv, RunRows
<1>3. CASE ScanCatalog \/ EditCatalog \/ UNCHANGED vars
  BY <1>1, <1>3 DEF ScanCatalog, EditCatalog, vars
<1>4. ASSUME NEW d \in Ids, NEW r \in Runs, StartAnalysisRun(d, r)
      PROVE  [Lifecycle!Next]_Lifecycle!vars
  <2>1. /\ runs[r] = NoRun /\ UNCHANGED clients
        /\ runs' = [runs EXCEPT ![r] = [NoRun EXCEPT !.demo = d, !.stage = "validating_input"]]
    BY <1>4 DEF StartAnalysisRun
  <2>2. runs'[r].stage = "validating_input" /\ \A e \in Runs \ {r} : runs'[e] = runs[e]
    BY <1>2, <2>1 DEF NoRun
  <2>3. Status[r] = "none"
    BY <2>1 DEF Status, Active, ActiveStages, NoRun
  <2>4. Status' = [Status EXCEPT ![r] = "open"]
    BY <2>2 DEF Status, Active, ActiveStages
  <2>5. Told' = Told
    BY <2>1 DEF Told
  <2>6. Lifecycle!Accept(r)
    BY <2>3, <2>4, <2>5 DEF Lifecycle!Accept, Lifecycle!Move, Status, Told
  <2> QED
    BY <2>6 DEF Lifecycle!Next
<1>5. ASSUME NEW r \in Runs, Work(r)
      PROVE  [Lifecycle!Next]_Lifecycle!vars
  <2>1. CASE Observe(r) \/ Parse(r) \/ WorkerFails(r)
    BY <1>1, <2>1 DEF Observe, Parse, WorkerFails
  <2>2. CASE Bind(r) \/ MarkStage(r)
    <3>1. PICK stage \in ActiveStages :
              /\ Active(r) /\ UNCHANGED clients /\ runs'[r].stage = stage
              /\ \A e \in Runs \ {r} : runs'[e] = runs[e]
      <4>1. CASE Bind(r)
        BY <1>2, <4>1 DEF Bind, Active, ActiveStages
      <4>2. CASE MarkStage(r)
        BY <1>2, <4>2 DEF MarkStage, Transition, Active, ActiveStages
      <4> QED
        BY <2>2, <4>1, <4>2
    <3> QED
      BY <3>1, RowsClose
  <2> QED
    BY <1>5, <2>1, <2>2 DEF Work
<1>6. ASSUME NEW r \in Runs, Own(r)
      PROVE  [Lifecycle!Next]_Lifecycle!vars
  <2>1. CASE Register(r) \/ Settle(r) \/ CompleteFails(r) \/ GiveUp(r) \/ Finish(r)
    BY <1>1, <2>1 DEF Register, Settle, CompleteFails, GiveUp, Finish, Leave
  <2>2. CASE CompleteRun(r) \/ FailRun(r) \/ CancelRun(r)
    <3>1. PICK stage \in Verdicts :
              /\ Active(r) /\ UNCHANGED clients /\ runs'[r].stage = stage
              /\ \A e \in Runs \ {r} : runs'[e] = runs[e]
      <4>1. CASE CompleteRun(r)
        BY <1>2, <4>1 DEF CompleteRun, Transition, Active, ActiveStages, Verdicts
      <4>2. CASE FailRun(r)
        BY <1>2, <4>2 DEF FailRun, Verdicts
      <4>3. CASE CancelRun(r)
        BY <1>2, <4>3 DEF CancelRun, Verdicts
      <4> QED
        BY <2>2, <4>1, <4>2, <4>3
    <3> QED
      BY <3>1, RowsClose
  <2> QED
    BY <1>6, <2>1, <2>2 DEF Own
<1>7. ASSUME NEW k \in Clients, Request(k)
      PROVE  [Lifecycle!Next]_Lifecycle!vars
  <2>1. clients[k] \in [step : Steps, run : Runs \cup {0}]
    BY DEF IndInv, Processes
  <2>2. /\ clients[k].step \in {"request", "wait", "reread"} /\ UNCHANGED runs
        /\ \E step \in {"wait", "refused", "reread", "ok"} :
              /\ clients' = [clients EXCEPT ![k].step = step]
              /\ step = "ok" => clients[k].step = "reread" /\ runs[clients[k].run].stage # "deleted"
    BY <1>7 DEF Request, RequestCancel, Wake, RereadRun, Answer
  <2>3. PICK step \in {"wait", "refused", "reread", "ok"} :
              /\ clients' = [clients EXCEPT ![k].step = step]
              /\ step = "ok" => clients[k].step = "reread" /\ runs[clients[k].run].stage # "deleted"
    BY <2>2
  <2>4. clients' = [clients EXCEPT ![k] = [step |-> step, run |-> clients[k].run]]
    <3>1. [clients[k] EXCEPT !.step = step] = [step |-> step, run |-> clients[k].run]
      BY <2>1
    <3>2. clients' = [clients EXCEPT ![k] = [clients[k] EXCEPT !.step = step]]
      BY <2>3
    <3> QED
      BY <3>1, <3>2
  <2>5. step = "ok" => clients[k].run \in Runs /\ runs[clients[k].run].stage = "cancelled"
    BY <2>3 DEF IndInv, Processes, Acknowledged, Cancelled
  <2> QED
    BY <2>1, <2>2, <2>4, <2>5, ClientsTell DEF Steps
<1>8. ASSUME NEW k \in Clients, NEW r \in Runs, ReadRun(k, r)
      PROVE  [Lifecycle!Next]_Lifecycle!vars
  <2>1. PICK step \in {"request", "ok", "refused"} :
            /\ clients' = [clients EXCEPT ![k] = [step |-> step, run |-> r]]
            /\ step = "ok" => runs[r].stage = "cancelled"
    BY <1>8 DEF ReadRun
  <2>2. clients[k].step # "ok" /\ UNCHANGED runs
    BY <1>8 DEF ReadRun
  <2> QED
    BY <2>1, <2>2, ClientsTell DEF Steps
<1>9. ASSUME NEW d \in Ids, DeleteDemo(d)
      PROVE  [Lifecycle!Next]_Lifecycle!vars
  <2>0. PICK gone \in SUBSET Runs : gone = {r \in Runs : runs[r].demo = d}
    OBVIOUS
  <2>1. /\ runs' = [r \in Runs |-> IF runs[r].demo = d THEN [NoRun EXCEPT !.stage = "deleted"] ELSE runs[r]]
        /\ UNCHANGED clients
    BY <1>9 DEF DeleteDemo
  <2>2. \A r \in gone : Status[r] # "none"
    BY <2>0, DemosAssumption DEF IndInv, RunRows, Status, Active
  <2>3. Status' = [r \in Runs |-> IF r \in gone THEN "deleted" ELSE Status[r]]
    BY <2>0, <2>1 DEF Status, Active, ActiveStages, NoRun
  <2>4. Told' = Told
    BY <2>1 DEF Told
  <2>5. Lifecycle!Delete(gone)
    BY <2>2, <2>3, <2>4 DEF Lifecycle!Delete, Status, Told
  <2> QED
    BY <2>5 DEF Lifecycle!Next
<1>10. CASE Restart
  <2>1. Status' = [r \in Runs |-> IF Status[r] = "open" THEN "interrupted" ELSE Status[r]]
    BY <1>2, <1>10 DEF Restart, Status, Active, ActiveStages, Stages, Verdicts
  <2>2. \A k \in Clients :
            /\ (clients'[k].step = "ok") <=> (clients[k].step = "ok")
            /\ clients'[k].run = clients[k].run
    BY <1>10 DEF Restart, IndInv, Processes
  <2>3. Told' = Told
    <3>1. \A r \in Runs : (\E k \in Clients : clients'[k].run = r /\ clients'[k].step = "ok")
                              <=> (\E k \in Clients : clients[k].run = r /\ clients[k].step = "ok")
      BY <2>2
    <3> QED
      BY <3>1 DEF Told
  <2>4. Lifecycle!CloseAll
    BY <2>1, <2>3 DEF Lifecycle!CloseAll, Status, Told
  <2> QED
    BY <2>4 DEF Lifecycle!Next
<1> QED
  BY <1>3, <1>4, <1>5, <1>6, <1>7, <1>8, <1>9, <1>10 DEF Next

\* A run has one verdict and a confirmed cancellation is that verdict, for any
\* number of runs and clients, with deletions and restarts.
THEOREM RefinesJobLifecycle == Spec => ImplementsJobLifecycle
<1> QED
  BY InitRefinesJobLifecycle, StepRefinesJobLifecycle, Invariant, PTL
  DEF Spec, ImplementsJobLifecycle, Lifecycle!Spec
=============================================================================
