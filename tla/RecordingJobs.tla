--------------------------- MODULE RecordingJobs ----------------------------
(***************************************************************************)
(* Recording jobs: the runtime that records a queue of clips               *)
(* (crates/runtime/src/recording.rs, with the publication lease of         *)
(* hlae_recording.rs), the routes that start and cancel a job              *)
(* (crates/application/src/routes/recording.rs), the capture session they  *)
(* reserve (state.rs) and the owner that observes a job until it is        *)
(* terminal (recording_materialization.rs).                                *)
(*                                                                         *)
(* Every storage call is one step.  A persisted row is a whole document:   *)
(* each writer puts the copy it holds, so a late writer takes others back. *)
(* The clips of a job are recorded in order, so its outputs are a prefix   *)
(* of its items and are counted; "cursor" is current_index, and progress   *)
(* and messages are left out.  A job is started once, under an id of its   *)
(* own.                                                                    *)
(***************************************************************************)
EXTENDS Naturals, FiniteSets, RuntimeSession

CONSTANTS ItemCount,   \* the number of clips each job records
          Retries,     \* the jobs with a retry_of
          Calls,       \* requests to cancel or abort, one job each
          MaxStarts,   \* bound: how many of the jobs are started
          MaxCrashes,  \* bound: how often the process dies
          MaxLate      \* bound: how many puts at a time outlive their request

ASSUME JobsAssumption == Retries \subseteq Jobs
ASSUME ItemCountAssumption == ItemCount \in [Jobs -> Nat \ {0}]
ASSUME BoundsAssumption == {MaxStarts, MaxCrashes, MaxLate} \subseteq Nat

VARIABLES rows,       \* the table recording_jobs
          library,    \* the table recorded_clips
          lease,      \* the managed artifact lease file of each job
          media,      \* published clips whose file exists
          runner,     \* where the start route, the runner or the recovery of a job stands
          mem,        \* the runner's own copy of the job
          active,     \* jobs in the runtime's map of active recordings
          flagged,    \* jobs whose cancellation flag is set
          owner,      \* the materialization owner of each job
          calls,      \* where each cancel request stands
          booting,    \* the process recovers orphaned jobs
          crashes,    \* how often it died
          dropped,    \* jobs whose start request went away and is to be reconciled
          late,       \* rows a dropped request still writes: its put runs on the blocking pool
          abandoned,  \* auxiliary: jobs whose terminal save, observation or claim was lost for good
          touched     \* auxiliary: jobs whose row a cancel request copied

files == <<library, lease, media>>
pending == <<dropped, late>>
aux == <<abandoned, touched>>
vars == <<rows, files, runner, mem, active, flagged, session, owner, calls, booting, crashes, pending, aux>>

Statuses == {"queued", "running", "cancelling", "completed", "failed", "cancelled"}
Terminal == {"completed", "failed", "cancelled"}

\* A row or a copy of one; "missing" stands for no row.
Row == [status : Statuses \cup {"missing"}, cursor : Nat, outputs : Nat]
Missing == [status |-> "missing", cursor |-> 0, outputs |-> 0]
Fresh(status) == [Missing EXCEPT !.status = status]

Ended(j) == rows[j].status \in Terminal
Open(j) == rows[j].status \notin Terminal \cup {"missing"}

NoLease == [item |-> 0, published |-> FALSE]
Idle == [pc |-> "idle", job |-> "none", acquired |-> FALSE, snap |-> Missing]

Recovering == {"recover", "restore", "reattach", "retire_evidence", "settle"}
Capturing == {"record", "capture", "verified", "store", "push", "retire", "advance"}

TypeOK ==
    /\ rows \in [Jobs -> Row] /\ mem \in [Jobs -> Row]
    /\ \A j \in Jobs : \A row \in {rows[j], mem[j]} :
          row.cursor <= ItemCount[j] /\ row.outputs <= ItemCount[j]
    /\ \A S \in {library, media} : S \subseteq Jobs \X Nat
    /\ lease \in [Jobs -> [item : Nat, published : BOOLEAN]]
    /\ runner \in [Jobs -> {"idle", "reserved", "registered", "queued", "launch", "aborted",
                            "check", "announce", "finish", "fail", "unregister", "done"}
                           \cup Capturing \cup Recovering]
    /\ \A S \in {active, flagged, abandoned, touched} : S \subseteq Jobs
    /\ session \in Holders
    /\ owner \in [Jobs -> {"none", "polling", "announced", "leaving"}]
    /\ calls \in [Calls -> [pc : {"idle", "claim", "flag", "read", "put", "again", "done"},
                            job : Jobs \cup {"none"}, acquired : BOOLEAN, snap : Row]]
    /\ booting \in BOOLEAN /\ crashes \in 0..MaxCrashes
    /\ dropped \subseteq Jobs /\ late \subseteq Jobs \X Row

Init ==
    /\ rows = [j \in Jobs |-> Missing] /\ mem = [j \in Jobs |-> Missing]
    /\ library = {} /\ media = {} /\ lease = [j \in Jobs |-> NoLease]
    /\ runner = [j \in Jobs |-> "idle"]
    /\ active = {} /\ flagged = {} /\ abandoned = {} /\ touched = {}
    /\ session = "none"
    /\ owner = [j \in Jobs |-> "none"]
    /\ calls = [c \in Calls |-> Idle]
    /\ booting = FALSE /\ crashes = 0
    /\ dropped = {} /\ late = {}

Goto(j, from, to) == ~booting /\ runner[j] = from /\ runner' = [runner EXCEPT ![j] = to]
Put(j, row) == rows' = [rows EXCEPT ![j] = row]
PutStatus(j, status) == rows' = [rows EXCEPT ![j].status = status]
Remember(j, row) == mem' = [mem EXCEPT ![j] = row]

\* Flawed: whoever holds it.
ReleaseAnySession(j) == session' = "none"

ReleaseSession(j) == session' = IF session = j THEN "none" ELSE session

\* observe_recording does nothing when the job has an owner already.
Observe(j) == owner' = [owner EXCEPT ![j] = IF @ = "none" THEN "polling" ELSE @]

\* A cancel request holds the job's persistence mutex while it reads and puts.
Guarded(j) == \E c \in Calls : calls[c].pc = "put" /\ calls[c].job = j

----------------------------------------------------------------------------
(* The game session, which a Demo playback may hold as well.               *)

Playback ==
    /\ ~booting
    /\ \/ session = "none" /\ session' \in Tokens
       \/ session \in Tokens /\ session' = "none"
    /\ UNCHANGED <<rows, files, runner, mem, active, flagged, owner, calls, booting, crashes, pending, aux>>

----------------------------------------------------------------------------
(* start_recording_job and execute.                                        *)

Reserve(j) ==
    /\ Cardinality({k \in Jobs : runner[k] # "idle"}) < MaxStarts
    /\ session = "none"
    /\ Goto(j, "idle", "reserved")
    /\ session' = j
    /\ UNCHANGED <<rows, files, mem, active, flagged, owner, calls, booting, crashes, pending, aux>>

Register(j) ==
    /\ active = {}
    /\ Goto(j, "reserved", "registered")
    /\ active' = {j}
    /\ UNCHANGED <<rows, files, mem, flagged, session, owner, calls, booting, crashes, pending, aux>>

\* Another recording is still active or an input of the plan is gone; or the
\* Project cannot be bound, and the owner gives the session back.
RefuseStart(j) ==
    /\ Goto(j, "reserved", "done")
    /\ \/ ReleaseSession(j) /\ UNCHANGED owner
       \/ Observe(j) /\ UNCHANGED session
    /\ UNCHANGED <<rows, files, mem, active, flagged, calls, booting, crashes, pending, aux>>

\* A retry claims its parent durably before anything is launched.
Enqueue(j) ==
    /\ j \in Retries
    /\ Goto(j, "registered", "queued")
    /\ Put(j, Fresh("queued"))
    /\ UNCHANGED <<files, mem, active, flagged, session, owner, calls, booting, crashes, pending, aux>>

\* The claim, the launch or the row could not be made; a first attempt leaves
\* no trace, a retry ends as failed.
StartFails(j) ==
    /\ rows[j] = Missing
    /\ Goto(j, "registered", "done") \/ Goto(j, "launch", "done")
    /\ active' = active \ {j}
    /\ ReleaseSession(j)
    /\ UNCHANGED <<rows, files, mem, flagged, owner, calls, booting, crashes, pending, aux>>

RetryFails(j) ==
    /\ rows[j] # Missing
    /\ Goto(j, "queued", "done") \/ Goto(j, "launch", "done")
    /\ active' = active \ {j}
    /\ Put(j, Fresh("failed"))
    /\ Observe(j)
    /\ UNCHANGED <<files, mem, flagged, session, calls, booting, crashes, pending, aux>>

\* Nor could the end of a retry be saved: its guard has to.
StartFailsUnsaved(j) ==
    /\ rows[j] # Missing
    /\ Goto(j, "queued", "aborted") \/ Goto(j, "launch", "aborted")
    /\ ReleaseSession(j)
    /\ UNCHANGED <<rows, files, mem, active, flagged, owner, calls, booting, crashes, pending, aux>>

\* The game is launched: the last look at the flag before the job runs.
Launch(j) ==
    /\ j \notin flagged
    /\ \/ j \notin Retries /\ Goto(j, "registered", "launch")
       \/ Goto(j, "queued", "launch")
    /\ UNCHANGED <<rows, files, mem, active, flagged, session, owner, calls, booting, crashes, pending, aux>>

CancelledWhilePreparing(j) ==
    /\ j \in flagged
    /\ ~Guarded(j)
    /\ Goto(j, "queued", "done")
    /\ PutStatus(j, "cancelled") \/ PutStatus(j, "failed")
    /\ active' = active \ {j}
    /\ Observe(j)
    /\ UNCHANGED <<files, mem, flagged, session, calls, booting, crashes, pending, aux>>

\* The row says Running, the runner is spawned, the job is observed.
Run(j) ==
    /\ Goto(j, "launch", "check")
    /\ Put(j, Fresh("running"))
    /\ Remember(j, Fresh("running"))
    /\ Observe(j)
    /\ UNCHANGED <<files, active, flagged, session, calls, booting, crashes, pending, aux>>

\* A put that a dropped request handed to the blocking pool may be written later.
MayOutlive(puts) ==
    late' \in {late} \cup {late \cup {put} : put \in {p \in puts : Cardinality(late) < MaxLate}}

Unwritten(j) ==
    CASE runner[j] = "launch" -> {<<j, Fresh("running")>>}
      [] runner[j] = "registered" /\ j \in Retries -> {<<j, Fresh("queued")>>}
      [] OTHER -> {}

\* The request is dropped: the reservation starts an owner, a registered
\* startup is cleaned up by its guard, and the plan is reconciled.
DropStart(j) ==
    /\ \/ Goto(j, "reserved", "done")
       \/ Goto(j, "registered", "aborted")
       \/ Goto(j, "queued", "aborted")
       \/ Goto(j, "launch", "aborted")
    /\ MayOutlive(Unwritten(j))
    /\ Observe(j)
    /\ dropped' = dropped \cup {j}
    /\ UNCHANGED <<rows, files, mem, active, flagged, session, calls, booting, crashes, aux>>

\* reconcile_abandoned_recording_plan_start reads the row, or cannot; without a
\* row the session is given back.
Reconciled(j, frees) ==
    /\ ~booting /\ j \in dropped
    /\ dropped' = dropped \ {j}
    /\ IF frees THEN ReleaseSession(j) ELSE UNCHANGED session
    /\ UNCHANGED <<rows, files, runner, mem, active, flagged, owner, calls, booting, crashes, late, aux>>

Reconcile(j) == \E frees \in {FALSE, rows[j] = Missing} : Reconciled(j, frees)

\* It finds nobody to end it when the startup was cleaned up before.
WriteLate(j) ==
    /\ ~booting
    /\ \E write \in late : write[1] = j /\ Put(j, write[2]) /\ late' = late \ {write}
    /\ abandoned' = IF runner[j] = "done" THEN abandoned \cup {j} ELSE abandoned
    /\ UNCHANGED <<files, runner, mem, active, flagged, session, owner, calls, booting, crashes, dropped, touched>>

\* Flawed: the guard of a dropped startup forgets the row.
AbortStartupInMemory(j) ==
    /\ Goto(j, "aborted", "done")
    /\ active' = active \ {j}
    /\ UNCHANGED <<rows, files, mem, flagged, session, owner, calls, booting, crashes, pending, aux>>

AbortStartup(j) ==
    /\ ~Guarded(j)
    /\ Goto(j, "aborted", "done")
    /\ IF Open(j)
       THEN PutStatus(j, "failed") \/ (j \in flagged /\ PutStatus(j, "cancelled"))
       ELSE UNCHANGED rows
    /\ active' = active \ {j}
    /\ UNCHANGED <<files, mem, flagged, session, owner, calls, booting, crashes, pending, aux>>

\* The row of a dropped startup cannot be read or put.
AbortFails(j) ==
    /\ ~Guarded(j)
    /\ Goto(j, "aborted", "done")
    /\ active' = active \ {j}
    /\ abandoned' = abandoned \cup {j}
    /\ UNCHANGED <<rows, files, mem, flagged, session, owner, calls, booting, crashes, pending, touched>>

\* The start goes on, is answered with its job or with an error, or what a
\* dropped request left is cleaned up.
Prepare(j) == Register(j) \/ Enqueue(j) \/ Launch(j)
Accept(j) == Run(j) \/ CancelledWhilePreparing(j) \/ RetryFails(j)
Refuse(j) == RefuseStart(j) \/ StartFails(j) \/ StartFailsUnsaved(j)
CleanUp(j) == AbortStartup(j) \/ AbortFails(j) \/ WriteLate(j)

Start(j) == Prepare(j) \/ Accept(j) \/ Refuse(j) \/ CleanUp(j) \/ Reconcile(j)

----------------------------------------------------------------------------
(* run_job and record_all: the loop over the items.                        *)

\* The puts of the loop do not take the persistence mutex.  One that fails ends
\* the job as failed.
PutOrFail(j, row, from, to) ==
    \/ Goto(j, from, to) /\ Put(j, row)
    \/ Goto(j, from, "fail") /\ UNCHANGED rows

\* Flawed: the loop forgets where the plan ends.
NextItemPastTheEnd(j) ==
    /\ IF j \in flagged THEN Goto(j, "check", "finish") ELSE Goto(j, "check", "announce")
    /\ UNCHANGED <<rows, files, mem, active, flagged, session, owner, calls, booting, crashes, pending, aux>>

NextItem(j) ==
    /\ IF j \in flagged \/ mem[j].cursor = ItemCount[j]
       THEN Goto(j, "check", "finish")
       ELSE Goto(j, "check", "announce")
    /\ UNCHANGED <<rows, files, mem, active, flagged, session, owner, calls, booting, crashes, pending, aux>>

Announce(j) ==
    /\ PutOrFail(j, mem[j], "announce", "record")
    /\ UNCHANGED <<files, mem, active, flagged, session, owner, calls, booting, crashes, pending, aux>>

\* The backend writes the artifact lease before it captures anything.
BeginCapture(j) ==
    /\ j \notin flagged
    /\ Goto(j, "record", "capture")
    /\ lease' = [lease EXCEPT ![j] = [item |-> mem[j].cursor + 1, published |-> FALSE]]
    /\ UNCHANGED <<rows, library, media, mem, active, flagged, session, owner, calls, booting, crashes, pending, aux>>

\* persist_recording_stages, beside the capture.
PersistStage(j) ==
    /\ ~booting
    /\ runner[j] \in {"record", "capture", "verified", "store"}
    /\ ~Guarded(j) /\ j \notin flagged
    /\ Put(j, mem[j])
    /\ UNCHANGED <<files, runner, mem, active, flagged, session, owner, calls, booting, crashes, pending, aux>>

\* The last look at the flag before the output is published.
VerifyOutput(j) ==
    /\ j \notin flagged
    /\ Goto(j, "capture", "verified")
    /\ UNCHANGED <<rows, files, mem, active, flagged, session, owner, calls, booting, crashes, pending, aux>>

\* A failed or cancelled capture removes its artifacts and its lease, unless
\* that cleanup fails as well.
CaptureFails(j) ==
    /\ Goto(j, "record", "fail") \/ Goto(j, "capture", "fail") \/ Goto(j, "verified", "fail")
    /\ lease' \in {lease, [lease EXCEPT ![j] = NoLease]}
    /\ UNCHANGED <<rows, library, media, mem, active, flagged, session, owner, calls, booting, crashes, pending, aux>>

MarkPublished(j) ==
    /\ Goto(j, "verified", "store")
    /\ lease' = [lease EXCEPT ![j].published = TRUE]
    /\ media' = media \cup {<<j, lease[j].item>>}
    /\ UNCHANGED <<rows, library, mem, active, flagged, session, owner, calls, booting, crashes, pending, aux>>

StoreClip(j) ==
    /\ Goto(j, "store", "push")
    /\ library' = library \cup {<<j, lease[j].item>>}
    /\ UNCHANGED <<rows, lease, media, mem, active, flagged, session, owner, calls, booting, crashes, pending, aux>>

\* cleanup_unpublished_clip: the file goes, the lease stays.
DiscardClip(j) ==
    /\ Goto(j, "store", "fail")
    /\ media' = media \ {<<j, lease[j].item>>}
    /\ UNCHANGED <<rows, library, lease, mem, active, flagged, session, owner, calls, booting, crashes, pending, aux>>

\* Flawed: the output waits in memory for the next put.
PushOutputInMemory(j) ==
    /\ Goto(j, "push", "retire")
    /\ Remember(j, [mem[j] EXCEPT !.outputs = @ + 1])
    /\ UNCHANGED <<rows, files, active, flagged, session, owner, calls, booting, crashes, pending, aux>>

PushOutput(j) ==
    LET pushed == [mem[j] EXCEPT !.outputs = @ + 1]
    IN  /\ PutOrFail(j, pushed, "push", "retire")
        /\ Remember(j, pushed)
        /\ UNCHANGED <<files, active, flagged, session, owner, calls, booting, crashes, pending, aux>>

\* commit_recorded_clip retires the publication evidence.
RetireEvidence(j) ==
    /\ \/ /\ Goto(j, "retire", "advance")
          /\ lease' = [lease EXCEPT ![j] = NoLease]
       \/ /\ Goto(j, "retire", "fail")
          /\ UNCHANGED lease
    /\ UNCHANGED <<rows, library, media, mem, active, flagged, session, owner, calls, booting, crashes, pending, aux>>

AdvanceCursor(j) ==
    LET advanced == [mem[j] EXCEPT !.cursor = @ + 1]
    IN  /\ PutOrFail(j, advanced, "advance", "check")
        /\ Remember(j, advanced)
        /\ UNCHANGED <<files, active, flagged, session, owner, calls, booting, crashes, pending, aux>>

\* Flawed: a job that recorded everything is completed, cancelled or not.
VerdictsWithoutFlag(j) ==
    IF runner[j] = "finish"
    THEN {[mem[j] EXCEPT !.status = "completed", !.cursor = ItemCount[j]]}
    ELSE {[mem[j] EXCEPT !.status = "failed"]}

\* How the job ends.  Cleanup may fail, which keeps even a cancelled job from
\* ending as cancelled.
Verdicts(j) ==
    LET done == IF j \in flagged THEN [mem[j] EXCEPT !.status = "cancelled"]
                ELSE [mem[j] EXCEPT !.status = "completed", !.cursor = ItemCount[j]]
        failed == [mem[j] EXCEPT !.status = "failed"]
    IN  IF runner[j] = "finish" \/ j \in flagged THEN {done, failed} ELSE {failed}

PersistTerminal(j) ==
    /\ ~Guarded(j)
    /\ \E verdict \in Verdicts(j) :
          \/ Put(j, verdict) /\ UNCHANGED abandoned
          \/ abandoned' = abandoned \cup {j} /\ UNCHANGED rows
    /\ Goto(j, "finish", "unregister") \/ Goto(j, "fail", "unregister")
    /\ UNCHANGED <<files, mem, active, flagged, session, owner, calls, booting, crashes, pending, touched>>

Unregister(j) ==
    /\ Goto(j, "unregister", "done")
    /\ active' = active \ {j}
    /\ UNCHANGED <<rows, files, mem, flagged, session, owner, calls, booting, crashes, pending, aux>>

Record(j) ==
    \/ NextItem(j) \/ Announce(j) \/ BeginCapture(j) \/ VerifyOutput(j) \/ CaptureFails(j)
    \/ MarkPublished(j) \/ StoreClip(j) \/ DiscardClip(j) \/ PushOutput(j)
    \/ RetireEvidence(j) \/ AdvanceCursor(j) \/ PersistTerminal(j) \/ Unregister(j)

----------------------------------------------------------------------------
(* cancel_job and abort_active.                                            *)

Step(c, from, to) == ~booting /\ calls[c].pc = from /\ calls' = [calls EXCEPT ![c].pc = to]

\* cancel_job reads the row it names, abort_active that of the session's job.
CallCancel(c, j) ==
    /\ ~booting /\ calls[c].pc = "idle"
    /\ \/ /\ Open(j)
          /\ \/ calls' = [calls EXCEPT ![c] = [Idle EXCEPT !.pc = "claim", !.job = j]]
             \/ /\ session = j
                /\ calls' = [calls EXCEPT ![c] = [Idle EXCEPT !.pc = "flag", !.job = j]]
          /\ UNCHANGED session
       \/ /\ Ended(j)
          /\ calls' = [calls EXCEPT ![c] = [Idle EXCEPT !.pc = "done", !.job = j]]
          /\ ReleaseSession(j)
    /\ UNCHANGED <<rows, files, runner, mem, active, flagged, owner, booting, crashes, pending, aux>>

\* claim_active_job takes a free session for the job it is about to cancel.
ClaimSession(c) ==
    LET j == calls[c].job
    IN  /\ \/ /\ session \in {j, "none"}
              /\ ~booting /\ calls[c].pc = "claim"
              /\ calls' = [calls EXCEPT ![c].pc = "flag", ![c].acquired = session = "none"]
              /\ session' = j
           \/ /\ session \notin {j, "none"}
              /\ Step(c, "claim", "done")
              /\ UNCHANGED session
        /\ UNCHANGED <<rows, files, runner, mem, active, flagged, owner, booting, crashes, pending, aux>>

\* Flawed: a refused cancel keeps the session it claimed.
SetFlagAndKeep(c) ==
    LET j == calls[c].job
    IN  /\ \/ j \in active /\ Step(c, "flag", "read") /\ flagged' = flagged \cup {j}
           \/ j \notin active /\ Step(c, "flag", "done") /\ UNCHANGED flagged
        /\ UNCHANGED <<rows, files, runner, mem, active, session, owner, booting, crashes, pending, aux>>

\* RecordingPort::cancel: the flag first, then the row under the mutex.
SetFlag(c) ==
    LET j == calls[c].job
    IN  /\ \/ /\ j \in active
              /\ Step(c, "flag", "read")
              /\ flagged' = flagged \cup {j}
              /\ UNCHANGED session
           \/ /\ j \notin active
              /\ Step(c, "flag", "done")
              /\ IF calls[c].acquired THEN ReleaseSession(j) ELSE UNCHANGED session
              /\ UNCHANGED flagged
        /\ UNCHANGED <<rows, files, runner, mem, active, owner, booting, crashes, pending, aux>>

ReadCurrent(c) ==
    LET j == calls[c].job
        to == IF Ended(j) THEN "again" ELSE "put"
        snap == IF Ended(j) THEN rows[j] ELSE [rows[j] EXCEPT !.status = "cancelling"]
    IN  /\ ~Guarded(j)
        /\ ~booting /\ calls[c].pc = "read"
        /\ calls' = [calls EXCEPT ![c].pc = to, ![c].snap = snap]
        /\ touched' = touched \cup {j}
        /\ UNCHANGED <<rows, files, runner, mem, active, flagged, session, owner, booting, crashes, pending, abandoned>>

PutCancelling(c) ==
    /\ Step(c, "put", "again")
    /\ Put(calls[c].job, calls[c].snap)
    /\ UNCHANGED <<files, runner, mem, active, flagged, session, owner, booting, crashes, pending, aux>>

\* The route puts the answer of cancel once more, without the mutex.
PutAgain(c) ==
    LET j == calls[c].job
    IN  /\ Step(c, "again", "done")
        /\ Put(j, calls[c].snap)
        /\ IF calls[c].snap.status \in Terminal THEN ReleaseSession(j) ELSE UNCHANGED session
        /\ Observe(j)
        /\ UNCHANGED <<files, runner, mem, active, flagged, booting, crashes, pending, aux>>

\* The row cannot be read or put under the mutex.
CancelFails(c) ==
    /\ Step(c, "read", "done") \/ Step(c, "put", "done")
    /\ IF calls[c].acquired THEN ReleaseSession(calls[c].job) ELSE UNCHANGED session
    /\ UNCHANGED <<rows, files, runner, mem, active, flagged, owner, booting, crashes, pending, aux>>

\* The request is dropped before the route has its answer in hand.  A claim is
\* left to an owner, and one that has announced the end does not look again.
DropCall(c) ==
    LET j == calls[c].job
        stuck == calls[c].acquired /\ owner[j] \in {"announced", "leaving"}
    IN  /\ \/ Step(c, "flag", "done") \/ Step(c, "read", "done") \/ Step(c, "put", "done")
           \/ calls[c].snap.status \in Terminal /\ Step(c, "again", "done")
        /\ MayOutlive(IF calls[c].pc = "put" THEN {<<j, calls[c].snap>>} ELSE {})
        /\ IF calls[c].acquired THEN Observe(j) ELSE UNCHANGED owner
        /\ abandoned' = IF stuck THEN abandoned \cup {j} ELSE abandoned
        /\ UNCHANGED <<rows, files, runner, mem, active, flagged, session, booting, crashes, dropped, touched>>

\* It is dropped, or fails, while the answer is put: its claim is disarmed, and
\* nobody observes the job.
DropPutAgain(c) ==
    LET j == calls[c].job
    IN  /\ Step(c, "again", "done")
        /\ MayOutlive({<<j, calls[c].snap>>})
        /\ IF calls[c].snap.status \in Terminal
           THEN ReleaseSession(j) /\ UNCHANGED abandoned
           ELSE /\ abandoned' = IF calls[c].acquired THEN abandoned \cup {j} ELSE abandoned
                /\ UNCHANGED session
        /\ UNCHANGED <<rows, files, runner, mem, active, flagged, owner, booting, crashes, dropped, touched>>

Cancel(c) ==
    ClaimSession(c) \/ SetFlag(c) \/ ReadCurrent(c) \/ PutCancelling(c) \/ PutAgain(c)

CancelGoesAway(c) == CancelFails(c) \/ DropCall(c) \/ DropPutAgain(c)

----------------------------------------------------------------------------
(* The materialization owner.                                              *)

\* Flawed: any row releases the session.
PollAnyRow(j) ==
    /\ ~booting /\ owner[j] = "polling" /\ rows[j] # Missing
    /\ ReleaseSession(j)
    /\ owner' = [owner EXCEPT ![j] = "announced"]
    /\ UNCHANGED <<rows, files, runner, mem, active, flagged, calls, booting, crashes, pending, aux>>

\* A terminal row releases the session before anything is attached; the owner
\* stays while an attachment is retried.
Poll(j) ==
    /\ ~booting /\ owner[j] = "polling" /\ Ended(j)
    /\ ReleaseSession(j)
    /\ owner' = [owner EXCEPT ![j] = "announced"]
    /\ UNCHANGED <<rows, files, runner, mem, active, flagged, calls, booting, crashes, pending, aux>>

\* Everything published is attached and the row is terminal still.
Attached(j) ==
    /\ ~booting /\ owner[j] = "announced" /\ Ended(j)
    /\ owner' = [owner EXCEPT ![j] = "leaving"]
    /\ UNCHANGED <<rows, files, runner, mem, active, flagged, session, calls, booting, crashes, pending, aux>>

\* Fifteen polls, six seconds, found no row: a put that was under way has landed.
GiveUpMissing(j) ==
    /\ ~booting /\ owner[j] = "polling" /\ rows[j] = Missing
    /\ \A write \in late : write[1] # j
    /\ ReleaseSession(j)
    /\ owner' = [owner EXCEPT ![j] = "leaving"]
    /\ UNCHANGED <<rows, files, runner, mem, active, flagged, calls, booting, crashes, pending, aux>>

\* A read error that is not transient ends the owner.
ObservationFails(j) ==
    /\ ~booting /\ owner[j] \in {"polling", "announced"}
    /\ owner' = [owner EXCEPT ![j] = "leaving"]
    /\ abandoned' = abandoned \cup {j}
    /\ UNCHANGED <<rows, files, runner, mem, active, flagged, session, calls, booting, crashes, pending, touched>>

Leave(j) ==
    /\ ~booting /\ owner[j] = "leaving"
    /\ owner' = [owner EXCEPT ![j] = "none"]
    /\ UNCHANGED <<rows, files, runner, mem, active, flagged, session, calls, booting, crashes, pending, aux>>

Own(j) == Poll(j) \/ Attached(j) \/ GiveUpMissing(j) \/ Leave(j)

----------------------------------------------------------------------------
(* Restart: recover_orphaned_jobs, then recover_recording_materializations. *)

Crash ==
    /\ crashes < MaxCrashes
    /\ crashes' = crashes + 1
    /\ booting' = TRUE
    /\ runner' = [j \in Jobs |->
          IF runner[j] = "idle" THEN "idle"
          ELSE IF rows[j].status \in {"missing", "completed", "cancelled"} THEN "done" ELSE "recover"]
    /\ mem' = [j \in Jobs |-> Missing]
    /\ active' = {} /\ flagged' = {} /\ abandoned' = {}
    /\ session' = "none"
    /\ owner' = [j \in Jobs |-> "none"]
    /\ calls' = [c \in Calls |-> IF calls[c].pc = "idle" THEN Idle ELSE [Idle EXCEPT !.pc = "done"]]
    /\ dropped' = {} /\ late' = {}
    /\ UNCHANGED <<rows, files, touched>>

Recover(j, from, to) == booting /\ runner[j] = from /\ runner' = [runner EXCEPT ![j] = to]

\* The last put of a recovery; when it fails the row waits for the next restart.
SaveRecovered(j, row) ==
    \/ Put(j, row) /\ UNCHANGED abandoned
    \/ UNCHANGED rows /\ abandoned' = IF Open(j) THEN abandoned \cup {j} ELSE abandoned

\* The lease names the item at the row's cursor, and the file is still there.
LeaseFits(j) == lease[j].item = rows[j].cursor + 1
Restorable(j) ==
    /\ LeaseFits(j)
    /\ <<j, lease[j].item>> \in media
    /\ rows[j].outputs \in {lease[j].item - 1, lease[j].item}

\* The end of a job that published nothing more.
Interrupted(j) ==
    CASE rows[j].status = "failed" -> rows[j]
      [] rows[j].status # "failed" /\ rows[j].outputs = ItemCount[j] ->
           [rows[j] EXCEPT !.status = "completed", !.cursor = ItemCount[j]]
      [] OTHER -> [rows[j] EXCEPT !.status = IF @ = "cancelling" THEN "cancelled" ELSE "failed"]

RecoverUnpublished(j) ==
    /\ lease[j] = NoLease \/ (~lease[j].published /\ LeaseFits(j))
    /\ Recover(j, "recover", "done")
    /\ SaveRecovered(j, Interrupted(j))
    /\ lease' = [lease EXCEPT ![j] = NoLease]
    /\ UNCHANGED <<library, media, mem, active, flagged, session, owner, calls, booting, crashes, pending, touched>>

\* The evidence cannot be read or does not fit: it is kept, the job has failed.
\* When its last put fails too, nothing happened to it, as when the jobs cannot
\* be listed at all.
RecoveryFails(j) ==
    /\ Recover(j, "recover", "done")
    /\ SaveRecovered(j, [rows[j] EXCEPT !.status = "failed"])
    /\ UNCHANGED <<files, mem, active, flagged, session, owner, calls, booting, crashes, pending, touched>>

RecoverPublished(j) ==
    /\ lease[j].published /\ Restorable(j)
    /\ Recover(j, "recover", "reattach")
    /\ library' = library \cup {<<j, lease[j].item>>}
    /\ UNCHANGED <<rows, lease, media, mem, active, flagged, session, owner, calls, booting, crashes, pending, aux>>

ReattachOutput(j) ==
    /\ Recover(j, "reattach", "retire_evidence")
    /\ Put(j, [rows[j] EXCEPT !.outputs = lease[j].item])
    /\ UNCHANGED <<files, mem, active, flagged, session, owner, calls, booting, crashes, pending, aux>>

RetireRecovered(j) ==
    /\ Recover(j, "retire_evidence", "settle")
    /\ lease' = [lease EXCEPT ![j] = NoLease]
    /\ UNCHANGED <<rows, library, media, mem, active, flagged, session, owner, calls, booting, crashes, pending, aux>>

\* The job cannot be put with the clip it got back, or the evidence cannot be
\* retired: the evidence is kept, the job has failed, and its last put may name
\* the clip after all.
RestoreFails(j) ==
    /\ \/ /\ Recover(j, "reattach", "done")
          /\ SaveRecovered(j, [rows[j] EXCEPT !.status = "failed", !.outputs = lease[j].item])
       \/ /\ Recover(j, "retire_evidence", "done")
          /\ SaveRecovered(j, [rows[j] EXCEPT !.status = "failed"])
    /\ UNCHANGED <<files, mem, active, flagged, session, owner, calls, booting, crashes, pending, touched>>

SettleRecovered(j) ==
    LET verdict == CASE rows[j].status = "cancelling" -> "cancelled"
                     [] rows[j].status = "failed" -> "failed"
                     [] OTHER -> IF rows[j].outputs = ItemCount[j] THEN "completed" ELSE "failed"
    IN  /\ Recover(j, "settle", "done")
        /\ SaveRecovered(j, [rows[j] EXCEPT !.status = verdict, !.cursor = @ + 1])
        /\ UNCHANGED <<files, mem, active, flagged, session, owner, calls, booting, crashes, pending, touched>>

\* Owners start for what is open or has published something.
Boot ==
    /\ booting
    /\ \A j \in Jobs : runner[j] \notin Recovering
    /\ booting' = FALSE
    /\ owner' = [j \in Jobs |-> IF rows[j].outputs > 0 \/ Open(j) THEN "polling" ELSE "none"]
    /\ UNCHANGED <<rows, files, runner, mem, active, flagged, session, calls, crashes, pending, aux>>

Restore(j) ==
    \/ RecoverUnpublished(j) \/ RecoveryFails(j) \/ RecoverPublished(j)
    \/ ReattachOutput(j) \/ RetireRecovered(j) \/ RestoreFails(j) \/ SettleRecovered(j)

----------------------------------------------------------------------------
Next ==
    \/ \E j \in Jobs :
          \/ Reserve(j) \/ Start(j) \/ DropStart(j) \/ Record(j) \/ PersistStage(j)
          \/ Own(j) \/ ObservationFails(j) \/ Restore(j)
          \/ \E c \in Calls : CallCancel(c, j)
    \/ \E c \in Calls : Cancel(c) \/ CancelGoesAway(c)
    \/ Playback \/ Crash \/ Boot

Spec == Init /\ [][Next]_vars

\* Every task that can run does run.  A capture ends by itself: the backend
\* bounds each of its phases by a timeout, and stops when the flag is set.
Fairness ==
    /\ \A j \in Jobs :
          WF_vars(Start(j)) /\ WF_vars(Record(j)) /\ WF_vars(Own(j)) /\ WF_vars(Restore(j))
    /\ \A c \in Calls : WF_vars(Cancel(c))
    /\ WF_vars(Boot)

FairSpec == Spec /\ Fairness

----------------------------------------------------------------------------
(* Properties.                                                             *)

HasEvidence(j, i) == lease[j] = [item |-> i, published |-> TRUE]
HasOutput(j, i) == <<j, i>> \in library /\ i <= rows[j].outputs
Traceable(j) == \A i \in 1..ItemCount[j] : <<j, i>> \in media => HasEvidence(j, i) \/ HasOutput(j, i)

\* A published clip is never lost: at every moment either its publication
\* lease survives or its clip and the job that owns it are in storage, through
\* failed puts, a crash at any step and a crash during recovery.  For jobs
\* that no cancel request has copied.  And of no job does a row name an output
\* whose clip is not in the library: the owner may attach any output it reads.
PublishedTakesAreTraceable ==
    /\ \A j \in Jobs \ touched : Traceable(j)
    /\ \A j \in Jobs : \A i \in 1..rows[j].outputs : <<j, i>> \in library \cap media

\* The same for every job: "Retires backend-owned publication evidence only
\* after the clip and its owning job output are durable" (recording.rs).
EvidenceIsRetiredLast == \A j \in Jobs : Traceable(j)

\* While a job captures it alone holds the capture session and the runtime, so
\* neither a playback nor another recording can take its game away.
CaptureOwnsTheSession ==
    \A j \in Jobs : runner[j] \in Capturing => session = j /\ active = {j}

\* A cancel request that was answered is honoured: the job does not turn out
\* completed afterwards, whatever the runner puts in between.
CancelIsHonoured ==
    \A c \in Calls :
        calls[c].snap.status = "cancelling" /\ calls[c].pc \in {"again", "done"} =>
            rows[calls[c].job].status # "completed"

\* Whatever a request, a dropped request or a crash leaves in the table reaches
\* a terminal status, unless a cancel request copied the row or the terminal
\* save failed, that of a recovery included: then a later restart ends it.
AcceptedJobsEnd ==
    \A j \in Jobs : Open(j) ~> (Ended(j) \/ j \in abandoned \/ j \in touched)

\* A recording that stays terminal gives the game session back, also when a
\* late cancel request claims it for the job once more.
TerminalFreesTheSession ==
    \A j \in Jobs : <>[](Ended(j) /\ j \notin abandoned) => <>[](session # j)

\* Whatever was terminal once gives the session back (ARCHITECTURE.md: "A
\* terminal recording releases the capture session").
TerminalReleasesTheSession ==
    \A j \in Jobs : Ended(j) ~> (session # j \/ j \in abandoned)
============================================================================
