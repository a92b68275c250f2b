---------------------------- MODULE AgentTurns -----------------------------
(***************************************************************************)
(* Agent turns on one Project: the desktop host that owns a turn           *)
(* (apps/desktop/src-tauri/src/agent.rs, crates/agent/src/lib.rs), the     *)
(* durable turn entry (crates/storage/src/repository/agent_sessions.rs)    *)
(* and the Edit Lease the turn edits under (repository/projects.rs).       *)
(*                                                                         *)
(* A turn is run by a supervisor task that outlives its renderer; it       *)
(* spawns a runner for the model loop and a heartbeat task for the lease.  *)
(* Every storage call is one atomic step.  A storage call that was already *)
(* handed to the blocking pool is not undone when its caller is dropped:   *)
(* "inflight" holds such a patch between the two.  The document is         *)
(* abstracted to its revision and the author of every revision.            *)
(***************************************************************************)
EXTENDS Naturals, Sequences, FiniteSets

CONSTANTS Turns,         \* the turns: request ids
          Sessions,      \* durable Agent sessions
          SessionOf,     \* the session of each turn
          ChatPermits,   \* permits of chat_gate
          LeaseTimeout,  \* PROJECT_EDIT_LEASE_TIMEOUT_SECONDS, in heartbeats
          MaxRevision    \* bound: revisions of the Project

ASSUME TurnsAssumption == {"human", "none"} \cap Turns = {}
ASSUME SessionOfAssumption == SessionOf \in [Turns -> Sessions]
ASSUME BoundsAssumption ==
    /\ ChatPermits \in Nat \ {0}
    /\ LeaseTimeout \in Nat
    /\ MaxRevision \in Nat \ {0}

VARIABLES pc,         \* where the supervisor of a turn stands
          cancelled,  \* turns whose Cancellation flag is set
          locked,     \* turns that hold their session's lock
          base,       \* the revision a turn read its context at
          inflight,   \* the base revision of a patch in the blocking pool, or 0
          outcome,    \* what the supervisor decided to save
          beating,    \* turns with a heartbeat task
          completed,  \* turns whose Complete event was sent
          abandoned,  \* turns whose terminal save failed for good
          sessions,   \* sessions that exist
          status,     \* the durable turn entry
          authors,    \* authors[i] made revision i + 1
          lease,      \* the row of project_edit_leases, or NoLease
          acquired    \* lease ids that were handed out

host == <<pc, cancelled, locked, base, outcome, beating, completed, abandoned>>
vars == <<host, inflight, sessions, status, authors, lease, acquired>>

Terminal == {"completed", "failed", "cancelled"}
Running == {"read", "acquire", "model"}
Revision == Len(authors) + 1
NoLease == [holder |-> "none", base |-> 0, age |-> 0]
LiveLease == IF lease.age > LeaseTimeout THEN NoLease ELSE lease
KeptLease(t) == lease   \* a flawed WithoutLease
WithoutLease(t) == IF lease.holder = t THEN NoLease ELSE lease

TypeOK ==
    /\ pc \in [Turns -> {"idle", "begin", "lock", "gate", "decide", "finish",
                         "report", "cleanup", "leave", "done"} \cup Running]
    /\ base \in [Turns -> 0..MaxRevision]
    /\ inflight \in [Turns -> 0..MaxRevision]
    /\ outcome \in [Turns -> {"none", "ok", "error"} \cup Terminal]
    /\ status \in [Turns -> {"none", "streaming", "deleted"} \cup Terminal]
    /\ \A S \in {cancelled, locked, beating, completed, abandoned, acquired} : S \subseteq Turns
    /\ sessions \subseteq Sessions
    /\ authors \in Seq(Turns \cup {"human"}) /\ Revision <= MaxRevision
    /\ lease \in [holder : Turns \cup {"none"}, base : 0..MaxRevision, age : 0..LeaseTimeout + 1]

Init ==
    /\ pc = [t \in Turns |-> "idle"]
    /\ cancelled = {} /\ locked = {} /\ beating = {}
    /\ completed = {} /\ abandoned = {} /\ acquired = {}
    /\ base = [t \in Turns |-> 0]
    /\ inflight = [t \in Turns |-> 0]
    /\ outcome = [t \in Turns |-> "none"]
    /\ status = [t \in Turns |-> "none"]
    /\ sessions = Sessions
    /\ authors = <<>>
    /\ lease = NoLease

Goto(t, from, to) == pc[t] = from /\ pc' = [pc EXCEPT ![t] = to]

\* The runner is over, with its result.
EndRun(t, from, result) ==
    /\ Goto(t, from, "decide")
    /\ outcome' = [outcome EXCEPT ![t] = result]

----------------------------------------------------------------------------
(* The supervisor and its runner.                                          *)

\* agent_chat registers the cancellation and spawns the supervisor.
Send(t) ==
    /\ Goto(t, "idle", "begin")
    /\ UNCHANGED <<cancelled, locked, base, outcome, beating, completed, abandoned,
                   inflight, sessions, status, authors, lease, acquired>>

BeginTurn(t) ==
    /\ \/ /\ SessionOf[t] \in sessions
          /\ Goto(t, "begin", "lock")
          /\ status' = [status EXCEPT ![t] = "streaming"]
       \/ /\ Goto(t, "begin", "leave")   \* no session, or a storage error
          /\ UNCHANGED status
    /\ UNCHANGED <<cancelled, locked, base, outcome, beating, completed, abandoned,
                   inflight, sessions, authors, lease, acquired>>

LockSession(t) ==
    /\ \A u \in locked : SessionOf[u] # SessionOf[t]
    /\ Goto(t, "lock", "gate")
    /\ locked' = locked \cup {t}
    /\ UNCHANGED <<cancelled, base, outcome, beating, completed, abandoned,
                   inflight, sessions, status, authors, lease, acquired>>

TakePermit(t) ==
    /\ Cardinality({u \in Turns : pc[u] \in Running}) < ChatPermits
    /\ Goto(t, "gate", "read")
    /\ UNCHANGED <<cancelled, locked, base, outcome, beating, completed, abandoned,
                   inflight, sessions, status, authors, lease, acquired>>

\* A flawed StopWaiting: a turn that waits for its session ignores the flag.
StopWaitingAtGate(t) ==
    /\ t \in cancelled
    /\ EndRun(t, "gate", "error")
    /\ UNCHANGED <<cancelled, locked, base, beating, completed, abandoned,
                   inflight, sessions, status, authors, lease, acquired>>

\* Both waits also end when the turn is cancelled.
StopWaiting(t) ==
    /\ t \in cancelled
    /\ EndRun(t, "lock", "error") \/ EndRun(t, "gate", "error")
    /\ UNCHANGED <<cancelled, locked, base, beating, completed, abandoned,
                   inflight, sessions, status, authors, lease, acquired>>

\* The session, the configuration and the Project the model will be shown.
ReadContext(t) ==
    /\ \/ /\ SessionOf[t] \in sessions
          /\ Goto(t, "read", "acquire")
          /\ base' = [base EXCEPT ![t] = Revision]
          /\ UNCHANGED outcome
       \/ /\ EndRun(t, "read", "error")
          /\ UNCHANGED base
    /\ UNCHANGED <<cancelled, locked, beating, completed, abandoned,
                   inflight, sessions, status, authors, lease, acquired>>

\* The conditions of acquire_project_edit_lease; a flawed form without the base.
CanAcquireAnyBase(t) == LiveLease = NoLease
CanAcquire(t) == base[t] = Revision /\ LiveLease = NoLease

\* acquire_project_edit_lease, then the heartbeat task and the model loop.
AcquireLease(t) ==
    /\ CanAcquire(t)
    /\ Goto(t, "acquire", "model")
    /\ lease' = [holder |-> t, base |-> base[t], age |-> 0]
    /\ acquired' = acquired \cup {t}
    /\ beating' = beating \cup {t}
    /\ UNCHANGED <<cancelled, locked, base, outcome, completed, abandoned,
                   inflight, sessions, status, authors>>

\* The Head moved on since the context was read, another turn holds the lease, or
\* the storage fails.
LeaseRefused(t) ==
    /\ EndRun(t, "acquire", "error")
    /\ UNCHANGED <<cancelled, locked, base, beating, completed, abandoned,
                   inflight, sessions, status, authors, lease, acquired>>

\* A tool call hands a patch to the blocking pool.
CallEditTool(t) ==
    /\ pc[t] = "model"
    /\ inflight[t] = 0
    /\ inflight' = [inflight EXCEPT ![t] = Revision]
    /\ UNCHANGED <<host, sessions, status, authors, lease, acquired>>

\* The model's final reply follows the results of its tools.
ReplyEnds(t) ==
    /\ inflight[t] = 0
    /\ EndRun(t, "model", "ok")
    /\ UNCHANGED <<cancelled, locked, base, beating, completed, abandoned,
                   inflight, sessions, status, authors, lease, acquired>>

\* Cancellation, the inactivity watchdog or the provider drops the model
\* stream at any point; a patch in the blocking pool stays there.
StreamDropped(t) ==
    /\ EndRun(t, "model", "error")
    /\ UNCHANGED <<cancelled, locked, base, beating, completed, abandoned,
                   inflight, sessions, status, authors, lease, acquired>>

Decide(t) ==
    /\ Goto(t, "decide", "finish")
    /\ outcome' = [outcome EXCEPT ![t] = IF t \in cancelled THEN "cancelled"
                                         ELSE IF @ = "ok" THEN "completed" ELSE "failed"]
    /\ UNCHANGED <<cancelled, locked, base, beating, completed, abandoned,
                   inflight, sessions, status, authors, lease, acquired>>

\* finish_agent_turn: the terminal entry and the release of the lease are one
\* transaction.  A transient error retries and is no step.
SaveTerminal(t) ==
    /\ SessionOf[t] \in sessions
    /\ status[t] = "streaming"
    /\ Goto(t, "finish", "report")
    /\ status' = [status EXCEPT ![t] = outcome[t]]
    /\ lease' = WithoutLease(t)
    /\ UNCHANGED <<cancelled, locked, base, outcome, beating, completed, abandoned,
                   inflight, sessions, authors, acquired>>

\* The session was deleted: the lease is released, nothing is left to save.
SessionDisappeared(t) ==
    /\ SessionOf[t] \notin sessions
    /\ Goto(t, "finish", "leave")
    /\ lease' = WithoutLease(t)
    /\ locked' = locked \ {t}
    /\ UNCHANGED <<cancelled, base, outcome, beating, completed, abandoned,
                   inflight, sessions, status, authors, acquired>>

SaveFails(t) ==
    /\ Goto(t, "finish", "cleanup")
    /\ abandoned' = abandoned \cup {t}
    /\ UNCHANGED <<cancelled, locked, base, outcome, beating, completed,
                   inflight, sessions, status, authors, lease, acquired>>

\* release_agent_turn_lease; its own failure is only logged.
Cleanup(t) ==
    /\ Goto(t, "cleanup", "leave")
    /\ lease' \in {WithoutLease(t), lease}
    /\ locked' = locked \ {t}
    /\ UNCHANGED <<cancelled, base, outcome, beating, completed, abandoned,
                   inflight, sessions, status, authors, acquired>>

\* A flawed Forget that leaves the heartbeat task running.
ForgetButBeat(t, from) ==
    /\ Goto(t, from, "done")
    /\ cancelled' = cancelled \ {t}
    /\ outcome' = [outcome EXCEPT ![t] = "none"]
    /\ UNCHANGED beating

\* The supervisor stops the heartbeat and forgets the turn.
Forget(t, from) ==
    /\ Goto(t, from, "done")
    /\ beating' = beating \ {t}
    /\ cancelled' = cancelled \ {t}
    /\ outcome' = [outcome EXCEPT ![t] = "none"]

\* The Complete event, and the end of a turn that was saved.
Report(t) ==
    /\ Forget(t, "report")
    /\ completed' = completed \cup {t}
    /\ locked' = locked \ {t}
    /\ UNCHANGED <<base, abandoned, inflight, sessions, status, authors, lease, acquired>>

\* The end of a turn that was not.
Leave(t) ==
    /\ Forget(t, "leave")
    /\ UNCHANGED <<locked, base, completed, abandoned,
                   inflight, sessions, status, authors, lease, acquired>>

----------------------------------------------------------------------------
(* The heartbeat task, the blocking pool and the world around the turn.    *)

\* The end of a heartbeat that failed; a flawed one tells nobody.
StopSilently(t) == beating' = beating \ {t} /\ cancelled' = cancelled
StopTurn(t) == beating' = beating \ {t} /\ cancelled' = cancelled \cup {t}

\* Anything but Ok(true) cancels the turn and ends the task.
Heartbeat(t) ==
    /\ t \in beating
    /\ \/ /\ lease.holder = t
          /\ lease' = [lease EXCEPT !.age = 0]
          /\ UNCHANGED <<cancelled, beating>>
       \/ /\ StopTurn(t)
          /\ UNCHANGED lease
    /\ UNCHANGED <<pc, locked, base, outcome, completed, abandoned,
                   inflight, sessions, status, authors, acquired>>

\* authorize_project_patch and the revision check; a flawed form forgets the lease.
MayCommitOnBase(t) == inflight[t] = Revision
MayCommit(t) == LiveLease.holder = t /\ inflight[t] = Revision

\* A patch runs: applied under the turn's live lease on its base, else refused.
CommitPatch(t) ==
    /\ inflight[t] # 0
    /\ inflight' = [inflight EXCEPT ![t] = 0]
    /\ IF MayCommit(t) /\ Revision < MaxRevision
       THEN authors' = Append(authors, t)
       ELSE UNCHANGED authors
    /\ UNCHANGED <<host, sessions, status, lease, acquired>>

\* agent_cancel, a lost event channel or a dropped IPC waiter.
Cancel(t) ==
    /\ pc[t] \notin {"idle", "done"}
    /\ t \notin cancelled
    /\ cancelled' = cancelled \cup {t}
    /\ UNCHANGED <<pc, locked, base, outcome, beating, completed, abandoned,
                   inflight, sessions, status, authors, lease, acquired>>

\* Deleting or expiring a session takes its turn entries along.
DeleteSession(s) ==
    /\ s \in sessions
    /\ sessions' = sessions \ {s}
    /\ status' = [t \in Turns |-> IF SessionOf[t] = s /\ status[t] # "none"
                                  THEN "deleted" ELSE status[t]]
    /\ UNCHANGED <<host, inflight, authors, lease, acquired>>

HumanEdit ==
    /\ Revision < MaxRevision
    /\ LiveLease = NoLease
    /\ authors' = Append(authors, "human")
    /\ lease' = NoLease
    /\ UNCHANGED <<host, inflight, sessions, status, acquired>>

\* Somebody reads the lease, which deletes a stale row.
ReadLease ==
    /\ lease # LiveLease
    /\ lease' = NoLease
    /\ UNCHANGED <<host, inflight, sessions, status, authors, acquired>>

Tick ==
    /\ lease # NoLease
    /\ lease = LiveLease
    /\ lease' = [lease EXCEPT !.age = @ + 1]
    /\ UNCHANGED <<host, inflight, sessions, status, authors, acquired>>

\* recover_interrupted_turns on the entries.
Recovered == [t \in Turns |-> IF status[t] = "streaming" THEN "cancelled" ELSE status[t]]

\* The process dies with every task; opening the storage again runs
\* recover_interrupted_turns.
CrashAndRestart ==
    /\ \E t \in Turns : pc[t] \notin {"idle", "done"}
    /\ pc' = [t \in Turns |-> IF pc[t] = "idle" THEN "idle" ELSE "done"]
    /\ cancelled' = {} /\ locked' = {} /\ beating' = {} /\ abandoned' = {}
    /\ outcome' = [t \in Turns |-> "none"]
    /\ inflight' = [t \in Turns |-> 0]
    /\ status' = Recovered
    /\ lease' = NoLease
    /\ UNCHANGED <<base, completed, sessions, authors, acquired>>

Supervise(t) ==
    \/ BeginTurn(t) \/ LockSession(t) \/ TakePermit(t) \/ StopWaiting(t)
    \/ ReadContext(t) \/ AcquireLease(t) \/ LeaseRefused(t)
    \/ Decide(t) \/ SaveTerminal(t) \/ SessionDisappeared(t) \/ SaveFails(t)
    \/ Cleanup(t) \/ Report(t) \/ Leave(t)

Next ==
    \/ \E t \in Turns :
          \/ Send(t) \/ Supervise(t)
          \/ CallEditTool(t) \/ ReplyEnds(t) \/ StreamDropped(t)
          \/ Heartbeat(t) \/ CommitPatch(t) \/ Cancel(t)
    \/ \E s \in Sessions : DeleteSession(s)
    \/ HumanEdit \/ ReadLease \/ Tick
    \/ CrashAndRestart

Spec == Init /\ [][Next]_vars

\* The executor runs every task that can run, the blocking pool runs every
\* queued call, a transient storage error does not last for ever, and time
\* passes.  A model reply need never end by itself; a cancelled one does.
Fairness ==
    /\ \A t \in Turns :
          /\ WF_vars(Supervise(t))
          /\ WF_vars(StreamDropped(t) /\ t \in cancelled)
          /\ WF_vars(Heartbeat(t))
          /\ WF_vars(CommitPatch(t))
    /\ WF_vars(Tick)

FairSpec == Spec /\ Fairness

----------------------------------------------------------------------------
(* Properties.                                                             *)

\* A turn edits only what it was shown: between the revision its context was
\* read at and any of its edits there are only edits of its own (run_agent_chat
\* reads the Project long before it asks for the lease, and edits long after).
EditsFollowTheirContext ==
    \A i \in 1..Len(authors) :
        authors[i] \in Turns => \A j \in base[authors[i]]..i : authors[j] = authors[i]

\* "persists terminal state and releases its exact Edit Lease in one storage
\* transaction before the renderer receives completion" (ARCHITECTURE.md), and a
\* turn whose session was deleted gives its lease back as well.  Only one whose
\* terminal save failed for good may leave without: its entry then tells no end,
\* and no other turn streams without a supervisor, not even after a restart.
LeaseEndsWithItsTurn ==
    /\ lease.holder \in Turns =>
          /\ status[lease.holder] \notin Terminal
          /\ pc[lease.holder] \in {"model", "decide", "finish"} \/ lease.holder \in abandoned
    /\ \A t \in completed : status[t] \in Terminal \cup {"deleted"} /\ lease.holder # t
    /\ \A t \in Turns : status[t] = "streaming" =>
          pc[t] \in {"lock", "gate", "decide", "finish"} \cup Running \/ t \in abandoned

\* No edit of a turn lands once its entry says how it ended, although a patch
\* may still sit in the blocking pool when the turn is stopped.
NoEditAfterTheEnd ==
    [][authors' # authors =>
          LET t == authors'[Len(authors')] IN t \in Turns => status[t] \notin Terminal]_vars

\* Stopping a turn works wherever it stands: waiting, editing or saving.
CancelledTurnsEnd ==
    \A t \in Turns : (t \in cancelled) ~> (pc[t] = "done")

\* CONTEXT.md, Edit Lease, "avoid: lock without cancellation": stopping the
\* turn that holds the Project gives the Project back, even when no storage
\* call of the turn succeeds any more.
StoppingFreesTheProject ==
    \A t \in Turns : (t \in cancelled /\ lease.holder = t) ~> (LiveLease.holder # t)

\* A turn that lost its lease (the machine slept, the row went stale) is stopped
\* by its heartbeat and does not talk on without the right to edit.
LostLeaseStopsTheTurn ==
    \A t \in Turns : (pc[t] = "model" /\ lease.holder # t) ~> (pc[t] # "model")

----------------------------------------------------------------------------
\* The Edit Lease the storage promises, under the tasks of the host: dropped
\* turns, late heartbeats and patches that outlive their turn included.
Lease == INSTANCE EditLease WITH
    Editors <- {"human"},
    writer <- lease.holder,
    live <- lease # NoLease /\ lease = LiveLease,
    begun <- acquired

\* Every step of the turns and of the people around them is a step of the Edit
\* Lease, or none: no task of the host ever edits without the right to.
ImplementsEditLease == Lease!Spec
============================================================================
