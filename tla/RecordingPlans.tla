--------------------------- MODULE RecordingPlans ---------------------------
(***************************************************************************)
(* The leases of recording plans (crates/application/src/routes/           *)
(* recording.rs, state.rs), composed with the jobs they start.  A plan is   *)
(* Ready, Starting or Started; execute_plan takes it for one job under a    *)
(* fresh id and tells it how the start went, unless the request is dropped, *)
(* in which case a task of its own has to find out from storage.            *)
(*                                                                         *)
(* A lease in state "ok" or "error" is Starting, and its request holds an   *)
(* answer the lease has not heard of yet; "dropped" is Starting with nobody *)
(* left but the reconciling task.  Requests that find a plan Starting only  *)
(* wait for the lease to change, and are left out.                          *)
(***************************************************************************)
EXTENDS RecordingJobs

CONSTANTS Plans,       \* leased recording plans
          PlanOf       \* the plan each job is an attempt at

ASSUME PlansAssumption == PlanOf \in [Jobs -> Plans]
ASSUME RetriesAssumption == \A j, k \in Jobs : PlanOf[j] = PlanOf[k] => (j \in Retries <=> k \in Retries)

VARIABLE plans

planVars == <<vars, plans>>

Lease(state, j) == [state |-> state, job |-> j]
Ready == Lease("ready", "none")
Gone == Lease("gone", "none")

PlanStates == {"ready", "starting", "ok", "error", "dropped", "started", "gone"}

PlansTypeOK ==
    /\ TypeOK
    /\ plans \in [Plans -> [state : PlanStates, job : Jobs \cup {"none"}]]

PlansInit == Init /\ plans = [p \in Plans |-> Ready]

Starting(j) == plans[PlanOf[j]] = Lease("starting", j)
Change(j, entry) == plans' = [plans EXCEPT ![PlanOf[j]] = entry]
Answer(j, state) == Change(j, Lease(state, j))

Execute(j) ==
    /\ runner[j] = "idle"
    /\ plans[PlanOf[j]] = Ready
    /\ Answer(j, "starting")
    /\ UNCHANGED vars

\* The inputs of the plan changed or it expired; or they cannot be read, or the
\* session is taken, and the plan is offered again.
RefusePlan(j) ==
    /\ runner[j] = "idle" /\ Starting(j)
    /\ Change(j, Ready) \/ Change(j, Gone)
    /\ UNCHANGED vars

\* start_recording_job, with what it answers to the plan.
StartAttempt(j) ==
    /\ Starting(j)
    /\ \/ (Reserve(j) \/ Prepare(j)) /\ UNCHANGED plans
       \/ Accept(j) /\ Answer(j, "ok")
       \/ Refuse(j) /\ Answer(j, "error")
       \/ DropStart(j) /\ Answer(j, "dropped")

\* The request is dropped before the lease heard its answer.
DropAnswered(j) ==
    /\ plans[PlanOf[j]] \in {Lease("ok", j), Lease("error", j)}
    /\ Answer(j, "dropped")
    /\ dropped' = dropped \cup {j}
    /\ UNCHANGED <<rows, files, runner, mem, active, flagged, session, owner, calls, booting, crashes, late, aux>>

\* mark_recording_plan_started and restore_recording_plan.
Settle(j) ==
    /\ \/ plans[PlanOf[j]] = Lease("ok", j) /\ Answer(j, "started")
       \/ plans[PlanOf[j]] = Lease("error", j) /\ Change(j, Ready)
    /\ UNCHANGED vars

\* Flawed: the plan of a dropped request is offered again, whatever it started.
ReconcilePlanUnread(j) == Reconcile(j) /\ Change(j, Ready)

\* reconcile_abandoned_recording_plan_start: a stored job has started the plan,
\* and a row that cannot be read takes the plan away.
ReconcilePlan(j) ==
    \/ rows[j] # Missing /\ Reconciled(j, FALSE) /\ Answer(j, "started")
    \/ rows[j] = Missing /\ Reconciled(j, TRUE) /\ Change(j, Ready)
    \/ Reconciled(j, FALSE) /\ Change(j, Gone)

\* A lease lives for five minutes, unless it is being started.  That one which
\* answers with the job it started expires as well is not told apart here.
Expire(p) ==
    /\ plans[p] = Ready
    /\ plans' = [plans EXCEPT ![p] = Gone]
    /\ UNCHANGED vars

\* The job goes on without its plan.
Continue ==
    /\ \/ \E j \in Jobs : \/ CleanUp(j) \/ Record(j) \/ PersistStage(j)
                          \/ Own(j) \/ ObservationFails(j)
                          \/ \E c \in Calls : CallCancel(c, j)
       \/ \E c \in Calls : Cancel(c) \/ CancelGoesAway(c)
    /\ UNCHANGED plans

PlansNext ==
    \/ \E j \in Jobs : Execute(j) \/ RefusePlan(j) \/ StartAttempt(j) \/ DropAnswered(j)
                       \/ Settle(j) \/ ReconcilePlan(j)
    \/ \E p \in Plans : Expire(p)
    \/ Continue

PlansSpec == PlansInit /\ [][PlansNext \/ (Playback /\ UNCHANGED plans)]_planVars

----------------------------------------------------------------------------
(* Properties.                                                             *)

\* A plan is recorded once: as long as it is on offer none of its jobs was
\* started, whichever of its requests was dropped, failed or left a put under
\* way.  A second job of one plan would record every clip of it again.
PlansRecordOnce == \A j \in Jobs : mem[j] # Missing => plans[PlanOf[j]] # Ready
============================================================================
