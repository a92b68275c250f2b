--------------------------- MODULE RecordingProofs ---------------------------
(***************************************************************************)
(* Proofs about recording jobs, the plans they are attempts at and the     *)
(* game session they share with playbacks, for every number of jobs,       *)
(* clips, cancel requests, playbacks, restarts and late puts.  In the      *)
(* first part only the status of a row and of its copies matters; the      *)
(* second is about its cursor and outputs, and what they are evidence of.  *)
(***************************************************************************)
EXTENDS GameSession, TLAPS

\* A runner before its row says Running, and in the loop over the clips.
Early == {"reserved", "registered", "queued", "launch"}
Loop == {"check", "announce", "finish", "fail"} \cup Capturing

Live(j) == runner[j] \in Early \cup Loop
Stored(j) == rows[j].status \in Statuses
OnItsWay == {"claim", "flag", "read", "put", "again"}

Shapes ==
    /\ DOMAIN rows = Jobs /\ DOMAIN mem = Jobs /\ DOMAIN runner = Jobs /\ DOMAIN owner = Jobs
    /\ \A j \in Jobs : "status" \in DOMAIN rows[j] /\ "status" \in DOMAIN mem[j]
    /\ DOMAIN calls = Calls
    /\ \A c \in Calls :
          /\ calls[c] = [pc |-> calls[c].pc, job |-> calls[c].job,
                         acquired |-> calls[c].acquired, snap |-> calls[c].snap]
          /\ "status" \in DOMAIN calls[c].snap
    /\ \A write \in late : write[1] \in Jobs /\ "status" \in DOMAIN write[2]

\* A job that runs, or may run, holds the session and is not terminal; without
\* a row nobody observes it.
Runners ==
    \A j \in Jobs :
        /\ rows[j].status \in Statuses \cup {"missing"}
        /\ runner[j] = "idle" => rows[j] = Missing /\ mem[j] = Missing /\ owner[j] = "none" /\ j \notin dropped
        /\ Live(j) => session = j /\ ~Ended(j) /\ ~booting
        /\ Live(j) /\ runner[j] # "reserved" => active = {j}
        /\ Live(j) /\ ~Stored(j) => owner[j] = "none" /\ j \notin dropped
        /\ runner[j] \in {"queued"} \cup Loop => Stored(j)
        /\ runner[j] \in Loop => mem[j].status = "running"
        /\ mem[j] # Missing => Stored(j)

\* A cancel request that met an end, or claimed a free session, is about a job
\* that runs no more; one that copied the row has set the flag before.
Fitting(c) ==
    LET j == calls[c].job
    IN  /\ calls[c].pc = "idle" => calls[c] = Idle
        /\ calls[c].pc \in OnItsWay => j \in Jobs /\ Stored(j)
        /\ calls[c].pc \in OnItsWay /\ calls[c].acquired => ~Live(j)
        /\ calls[c].pc = "put" => calls[c].snap.status = "cancelling"
        /\ calls[c].pc \in {"read", "put", "again"} => j \in flagged
        /\ calls[c].snap.status \in Terminal \cup {"cancelling", "missing"}
        /\ calls[c].pc = "again" => calls[c].snap.status # "missing"
        /\ calls[c].snap.status \in Terminal => j \in Jobs /\ ~Live(j) /\ runner[j] # "idle"
        /\ calls[c].snap.status = "cancelling" => j \in Jobs /\ j \in flagged

Requests == \A c \in Calls : Fitting(c)

\* A put that outlives its request is one of a start that was dropped, or of a
\* cancel request.
LatePuts ==
    \A write \in late :
        LET j == write[1]
        IN  /\ write[2].status \in Statuses
            /\ runner[j] # "idle"
            /\ write[2].status = "cancelling" => j \in flagged
            /\ write[2].status # "cancelling" => ~Live(j)

\* A completed job stays completed: nobody holds another copy of its row.
Completed ==
    /\ \A j \in Jobs : rows[j].status = "completed" =>
          /\ runner[j] \in {"unregister", "done"}
          /\ \A c \in Calls : calls[c].job = j => calls[c].snap.status \in {"missing", "completed"}
          /\ \A write \in late : write[1] = j => write[2].status = "completed"
    /\ \A c \in Calls : calls[c].snap.status = "completed" => rows[calls[c].job].status = "completed"
    /\ \A write \in late : write[2].status = "completed" => rows[write[1]].status = "completed"

\* A restart finds nobody who remembers anything.
Booting ==
    IF booting
    THEN /\ \A j \in Jobs : runner[j] \in {"idle", "done"} \cup Recovering
         /\ \A c \in Calls : calls[c].pc \in {"idle", "done"} /\ calls[c].snap = Missing
         /\ late = {} /\ dropped = {}
    ELSE \A j \in Jobs : runner[j] \notin Recovering

RecInv == Shapes /\ Runners /\ Requests /\ LatePuts /\ Completed /\ Booting

\* Nothing runs yet.
LEMMA InitEstablishesRecInv == Init => RecInv
BY DEF Init, RecInv, Shapes, Runners, Requests, Fitting, LatePuts, Completed, Booting, Live, Stored, Ended,
       Early, Loop, Capturing, Recovering, Terminal, Statuses, OnItsWay, Missing, Idle

----------------------------------------------------------------------------
(* The starts, the loop, the owners and the recovery of one job.           *)

\* Starts, retries and what is left of dropped ones.
LEMMA StartsPreserveRecInv ==
    ASSUME RecInv, NEW j \in Jobs, Reserve(j) \/ Start(j) \/ DropStart(j)
    PROVE  RecInv'
<1> USE HoldersAssumption
    DEF RecInv, Shapes, Runners, Requests, Fitting, LatePuts, Completed, Booting, Live, Stored, Ended,
        Early, Loop, Capturing, Recovering, Terminal, Statuses, OnItsWay, Missing, Idle,
        Goto, Put, PutStatus, Remember, ReleaseSession, Observe, Fresh, Open,
        pending, aux, MayOutlive, Unwritten
<1>1. CASE Reserve(j)
  BY <1>1 DEF Reserve
<1>2. CASE Register(j)
  BY <1>2 DEF Register
<1>3. CASE Enqueue(j)
  BY <1>3 DEF Enqueue
<1>4. CASE Launch(j)
  BY <1>4 DEF Launch
<1>5. CASE Run(j)
  BY <1>5 DEF Run
<1>6. CASE CancelledWhilePreparing(j)
  BY <1>6 DEF CancelledWhilePreparing
<1>7. CASE RetryFails(j)
  BY <1>7 DEF RetryFails
<1>8. CASE RefuseStart(j)
  BY <1>8 DEF RefuseStart
<1>9. CASE StartFails(j)
  BY <1>9 DEF StartFails
<1>10. CASE StartFailsUnsaved(j)
  BY <1>10 DEF StartFailsUnsaved
<1>11. CASE AbortStartup(j)
  BY SMTT(60), <1>11 DEF AbortStartup
<1>12. CASE AbortFails(j)
  BY <1>12 DEF AbortFails
<1>13. CASE WriteLate(j)
  BY <1>13 DEF WriteLate
<1>14. CASE DropStart(j)
  BY SMTT(60), <1>14 DEF DropStart
<1>15. CASE Reconcile(j)
  <2>1. Reconciled(j, FALSE) \/ (rows[j] = Missing /\ Reconciled(j, TRUE))
    <3>1. PICK frees \in {FALSE, rows[j] = Missing} : Reconciled(j, frees)
      BY <1>15, Zenon DEF Reconcile
    <3>2. CASE rows[j] = Missing
      BY <3>1, <3>2, ZenonT(60)
    <3>3. CASE rows[j] # Missing
      BY <3>1, <3>3, ZenonT(60)
    <3> QED
      BY <3>2, <3>3
  <2>2. CASE Reconciled(j, FALSE)
    BY <2>2 DEF Reconciled
  <2>3. CASE rows[j] = Missing /\ Reconciled(j, TRUE)
    <3>1. j \in dropped /\ ~Live(j)
      BY <2>3 DEF Reconciled
    <3> QED
      BY <2>3, <3>1 DEF Reconciled
  <2> QED
    BY <2>1, <2>2, <2>3
<1> QED
  BY Zenon, <1>1, <1>2, <1>3, <1>4, <1>5, <1>6, <1>7, <1>8, <1>9, <1>10, <1>11, <1>12, <1>13, <1>14, <1>15 DEF Start, Prepare, Accept, Refuse, CleanUp

\* Only a job whose flag is not set ends as completed.
LEMMA VerdictsAreTerminal ==
    ASSUME Shapes, NEW j \in Jobs, NEW verdict \in Verdicts(j)
    PROVE  /\ "status" \in DOMAIN verdict
           /\ verdict.status \in Terminal
           /\ verdict.status = "completed" => j \notin flagged
BY DEF Shapes, Verdicts, Terminal

\* The task that records a job.
LEMMA RecordingPreservesRecInv ==
    ASSUME RecInv, NEW j \in Jobs, Record(j) \/ PersistStage(j)
    PROVE  RecInv'
<1> USE HoldersAssumption
    DEF RecInv, Shapes, Runners, Requests, Fitting, LatePuts, Completed, Booting, Live, Stored, Ended,
        Early, Loop, Capturing, Recovering, Terminal, Statuses, OnItsWay, Missing, Idle,
        Goto, Put, Remember, PutOrFail, pending, aux
<1>1. CASE NextItem(j)
  BY <1>1 DEF NextItem
<1>2. CASE Announce(j)
  BY <1>2 DEF Announce
<1>3. CASE BeginCapture(j)
  BY <1>3 DEF BeginCapture
<1>4. CASE VerifyOutput(j)
  BY <1>4 DEF VerifyOutput
<1>5. CASE CaptureFails(j)
  BY <1>5 DEF CaptureFails
<1>6. CASE MarkPublished(j)
  BY <1>6 DEF MarkPublished
<1>7. CASE StoreClip(j)
  BY <1>7 DEF StoreClip
<1>8. CASE DiscardClip(j)
  BY <1>8 DEF DiscardClip
<1>9. CASE PushOutput(j)
  BY SMTT(60), <1>9 DEF PushOutput
<1>10. CASE RetireEvidence(j)
  BY <1>10 DEF RetireEvidence
<1>11. CASE AdvanceCursor(j)
  BY SMTT(60), <1>11 DEF AdvanceCursor
<1>12. CASE PersistTerminal(j)
  <2>1. PICK verdict \in Verdicts(j) : rows' = rows \/ Put(j, verdict)
    BY <1>12 DEF PersistTerminal
  <2>2. /\ "status" \in DOMAIN verdict
        /\ verdict.status \in Terminal
        /\ verdict.status = "completed" => j \notin flagged
    BY VerdictsAreTerminal
  <2>3. /\ runner[j] \in Loop
        /\ runner' = [runner EXCEPT ![j] = "unregister"]
        /\ UNCHANGED <<mem, active, flagged, session, owner, calls, booting, crashes, dropped, late>>
    BY <1>12 DEF PersistTerminal
  <2> QED
    BY SMTT(60), <2>1, <2>2, <2>3
<1>13. CASE Unregister(j)
  BY <1>13 DEF Unregister
<1>14. CASE PersistStage(j)
  BY <1>14 DEF PersistStage
<1> QED
  BY Zenon, <1>1, <1>2, <1>3, <1>4, <1>5, <1>6, <1>7, <1>8, <1>9, <1>10, <1>11, <1>12, <1>13, <1>14 DEF Record

\* The owners that observe jobs.
LEMMA OwnersPreserveRecInv ==
    ASSUME RecInv, NEW j \in Jobs, Own(j) \/ ObservationFails(j)
    PROVE  RecInv'
<1> USE HoldersAssumption
    DEF RecInv, Shapes, Runners, Requests, Fitting, LatePuts, Completed, Booting, Live, Stored, Ended,
        Early, Loop, Capturing, Recovering, Terminal, Statuses, OnItsWay, Missing, Idle,
        ReleaseSession, pending, aux
<1>1. CASE Poll(j)
  BY <1>1 DEF Poll
<1>2. CASE Attached(j)
  BY <1>2 DEF Attached
<1>3. CASE GiveUpMissing(j)
  BY <1>3 DEF GiveUpMissing
<1>4. CASE Leave(j)
  BY <1>4 DEF Leave
<1>5. CASE ObservationFails(j)
  BY <1>5 DEF ObservationFails
<1> QED
  BY Zenon, <1>1, <1>2, <1>3, <1>4, <1>5 DEF Own

\* At boot nobody holds a copy of the row that a recovery puts, or fails to put.
LEMMA RecoveredRowsPreserveRecInv ==
    ASSUME RecInv, NEW j \in Jobs, NEW to \in Recovering \cup {"done"},
           booting, runner[j] \in Recovering, runner' = [runner EXCEPT ![j] = to],
           NEW row, "status" \in DOMAIN row, row.status \in Statuses \cup {rows[j].status},
           row.status = "completed" => to = "done",
           rows' = rows \/ Put(j, row),
           UNCHANGED <<mem, active, flagged, session, owner, calls, booting, crashes, pending>>
    PROVE  RecInv'
<1> USE DEF RecInv, Recovering, Terminal, Statuses, Missing, pending
<1>1. /\ late = {} /\ dropped = {} /\ rows[j].status # "completed"
      /\ \A k \in Jobs : runner[k] \in {"idle", "done"} \cup Recovering
      /\ \A k \in Jobs : runner'[k] \in {"idle", "done"} \cup Recovering
      /\ \A k \in Jobs : runner'[k] = "idle" <=> runner[k] = "idle"
      /\ \A c \in Calls : calls[c].pc \in {"idle", "done"} /\ calls[c].snap = Missing
  BY DEF Booting, Completed, Shapes
<1>2. /\ \A k \in Jobs \ {j} : rows'[k] = rows[k] /\ runner'[k] = runner[k]
      /\ runner'[j] = to /\ (rows'[j] = rows[j] \/ rows'[j] = row)
      /\ DOMAIN rows' = Jobs /\ DOMAIN runner' = Jobs
  BY DEF Put, Shapes
<1>3. Shapes'
  BY <1>2 DEF Shapes
<1>4. Runners'
  BY <1>1, <1>2 DEF Runners, Live, Stored, Ended, Early, Loop, Capturing
<1>5. Requests'
  BY <1>1, <1>2 DEF Requests, Fitting, OnItsWay, Idle
<1>6. LatePuts' /\ Booting'
  BY <1>1 DEF LatePuts, Booting
<1>7. Completed'
  BY <1>1, <1>2 DEF Completed
<1> QED
  BY <1>3, <1>4, <1>5, <1>6, <1>7

\* The restoration of a job at boot.
LEMMA RestorePreservesRecInv ==
    ASSUME RecInv, NEW j \in Jobs, Restore(j)
    PROVE  RecInv'
<1> USE DEF Recover, SaveRecovered, Statuses, Recovering, aux
<1>1. /\ "status" \in DOMAIN rows[j] /\ rows[j].status \in Statuses \cup {"missing"}
      /\ booting
  BY DEF RecInv, Shapes, Runners, Restore, RecoverUnpublished, RecoveryFails, RecoverPublished,
         ReattachOutput, RetireRecovered, RestoreFails, SettleRecovered
<1>2. CASE RecoverUnpublished(j)
  <2>1. "status" \in DOMAIN Interrupted(j) /\ Interrupted(j).status \in Statuses
    BY <1>1 DEF Interrupted
  <2> QED
    BY <1>2, <2>1, RecoveredRowsPreserveRecInv DEF RecoverUnpublished
<1>3. CASE RecoverPublished(j) \/ RetireRecovered(j)
  <2>1. PICK to \in Recovering : /\ runner[j] \in Recovering /\ runner' = [runner EXCEPT ![j] = to]
                                /\ UNCHANGED <<rows, mem, active, flagged, session, owner, calls, booting,
                                               crashes, pending>>
    BY <1>3 DEF RecoverPublished, RetireRecovered
  <2>2. "status" \in DOMAIN Fresh("failed") /\ Fresh("failed").status = "failed"
    BY DEF Fresh, Missing
  <2> QED
    BY <1>1, <2>1, <2>2, RecoveredRowsPreserveRecInv DEF Statuses
<1>4. CASE ReattachOutput(j)
  <2>1. /\ "status" \in DOMAIN [rows[j] EXCEPT !.outputs = lease[j].item]
        /\ [rows[j] EXCEPT !.outputs = lease[j].item].status = rows[j].status
    BY <1>1
  <2>2. rows[j].status # "completed"
    BY <1>4 DEF RecInv, Completed, ReattachOutput
  <2> QED
    BY <1>1, <1>4, <2>1, <2>2, RecoveredRowsPreserveRecInv DEF ReattachOutput
<1>5. CASE RecoveryFails(j) \/ RestoreFails(j)
  <2>1. PICK row : /\ rows' = rows \/ Put(j, row)
                   /\ \/ row = [rows[j] EXCEPT !.status = "failed"]
                      \/ row = [rows[j] EXCEPT !.status = "failed", !.outputs = lease[j].item]
    BY <1>5 DEF RecoveryFails, RestoreFails
  <2>2. "status" \in DOMAIN row /\ row.status = "failed"
    BY <1>1, <2>1
  <2> QED
    BY <1>1, <1>5, <2>1, <2>2, RecoveredRowsPreserveRecInv DEF RecoveryFails, RestoreFails
<1>6. CASE SettleRecovered(j)
  <2>1. PICK verdict \in Terminal :
           rows' = rows \/ Put(j, [rows[j] EXCEPT !.status = verdict, !.cursor = @ + 1])
    BY <1>6 DEF SettleRecovered, Terminal
  <2>2. /\ "status" \in DOMAIN [rows[j] EXCEPT !.status = verdict, !.cursor = @ + 1]
        /\ [rows[j] EXCEPT !.status = verdict, !.cursor = @ + 1].status \in Terminal
    BY <1>1
  <2> QED
    BY <1>1, <1>6, <2>1, <2>2, RecoveredRowsPreserveRecInv DEF SettleRecovered, Terminal
<1> QED
  BY <1>2, <1>3, <1>4, <1>5, <1>6 DEF Restore

\* The process dies.
LEMMA CrashPreservesRecInv == ASSUME RecInv, Crash PROVE RecInv'
<1> USE HoldersAssumption
    DEF RecInv, Shapes, Runners, Requests, Fitting, LatePuts, Completed, Booting, Live, Stored, Ended,
        Early, Loop, Capturing, Recovering, Terminal, Statuses, OnItsWay, Missing, Idle,
        Crash, pending, aux
<1>1. Shapes'
  OBVIOUS
<1>2. Runners'
  OBVIOUS
<1>3. Requests' /\ LatePuts' /\ Completed'
  OBVIOUS
<1>4. Booting'
  OBVIOUS
<1> QED
  BY <1>1, <1>2, <1>3, <1>4

\* The process is back.
LEMMA BootPreservesRecInv == ASSUME RecInv, Boot PROVE RecInv'
<1> USE HoldersAssumption
    DEF RecInv, Shapes, Runners, Requests, Fitting, LatePuts, Completed, Booting, Live, Stored, Ended,
        Early, Loop, Capturing, Recovering, Terminal, Statuses, OnItsWay, Missing, Idle,
        Boot, Open, pending, aux
<1> QED
  OBVIOUS

----------------------------------------------------------------------------
(* The cancel requests.                                                    *)

\* A step of one request leaves the others and what it holds alone.
LEMMA StepsKeepTheCall ==
    ASSUME Shapes, NEW c \in Calls, NEW from, NEW to, Step(c, from, to)
    PROVE  /\ DOMAIN calls' = Calls
           /\ \A k \in Calls \ {c} : calls'[k] = calls[k]
           /\ calls[c].pc = from
           /\ calls'[c] = [pc |-> to, job |-> calls[c].job,
                          acquired |-> calls[c].acquired, snap |-> calls[c].snap]
BY DEF Shapes, Step

\* A cancel request, and a put that outlived it.
LEMMA CallsPreserveRecInv ==
    ASSUME RecInv, NEW c \in Calls,
           \/ ClaimSession(c) \/ SetFlag(c) \/ PutCancelling(c) \/ PutAgain(c)
           \/ CancelFails(c) \/ DropCall(c) \/ DropPutAgain(c)
    PROVE  RecInv'
<1> USE HoldersAssumption
    DEF RecInv, Shapes, Runners, Requests, Fitting, LatePuts, Completed, Booting, Live, Stored, Ended,
        Early, Loop, Capturing, Recovering, Terminal, Statuses, OnItsWay, Missing, Idle,
        Put, ReleaseSession, Observe, pending, aux, MayOutlive
<1> DEFINE Moves(from, to) ==
             /\ DOMAIN calls' = Calls
             /\ \A k \in Calls \ {c} : calls'[k] = calls[k]
             /\ calls[c].pc = from
             /\ calls'[c] = [pc |-> to, job |-> calls[c].job,
                            acquired |-> calls[c].acquired, snap |-> calls[c].snap]
<1>0. ASSUME NEW from, NEW to, Step(c, from, to) PROVE Moves(from, to)
  BY <1>0, StepsKeepTheCall
<1>1. CASE ClaimSession(c)
  <2>1. CASE Step(c, "claim", "done") /\ UNCHANGED session
    <3>1. Moves("claim", "done")
      BY <1>0, <2>1
    <3> QED
      BY SMTT(60), <1>1, <2>1, <3>1 DEF ClaimSession
  <2>2. CASE calls[c].pc = "claim" /\ session \in {calls[c].job, "none"} /\ session' = calls[c].job
             /\ calls' = [calls EXCEPT ![c].pc = "flag", ![c].acquired = session = "none"]
    <3>1. calls[c] = [pc |-> calls[c].pc, job |-> calls[c].job,
                      acquired |-> calls[c].acquired, snap |-> calls[c].snap]
      OBVIOUS
    <3>2. UNCHANGED <<rows, mem, runner, active, flagged, owner, booting, dropped, late>>
      BY <1>1 DEF ClaimSession
    <3>3. ASSUME NEW b, calls' = [calls EXCEPT ![c].pc = "flag", ![c].acquired = b],
                 b => ~Live(calls[c].job), b \in BOOLEAN
          PROVE  RecInv'
      <4>1. /\ DOMAIN calls' = Calls
            /\ \A k \in Calls \ {c} : calls'[k] = calls[k]
            /\ calls'[c] = [pc |-> "flag", job |-> calls[c].job,
                           acquired |-> b, snap |-> calls[c].snap]
        <5>1. calls'[c] = [[calls[c] EXCEPT !.pc = "flag"] EXCEPT !.acquired = b]
          BY <3>3
        <5> QED
          BY <3>1, <3>3, <5>1
      <4>2. Shapes'
        <5>1. ASSUME NEW k \in Calls
              PROVE  /\ calls'[k] = [pc |-> calls'[k].pc, job |-> calls'[k].job,
                                     acquired |-> calls'[k].acquired, snap |-> calls'[k].snap]
                     /\ "status" \in DOMAIN calls'[k].snap
          BY <4>1
        <5> QED
          BY <4>1, <3>2, <5>1
      <4>7. LatePuts'
        BY <3>2
      <4>8. Booting'
        BY <4>1, <3>2, <2>2
      <4>6. Completed'
        BY <4>1, <3>2, <2>2
      <4>3. Runners'
        BY <4>1, <3>2, <2>2
      <4>4. ASSUME NEW k \in Calls \ {c} PROVE Fitting(k)'
        BY <4>1, <3>2, <4>4
      <4>5. Fitting(c)'
        BY <4>1, <3>2, <3>3, <2>2
      <4> QED
        BY <4>2, <4>3, <4>4, <4>5, <4>6, <4>7, <4>8
    <3>4. calls[c].job \in Jobs /\ (session = "none" => ~Live(calls[c].job))
      BY <2>2
    <3>5. (session = "none") \in BOOLEAN
      OBVIOUS
    <3> QED
      BY <2>2, <3>3, <3>4, <3>5, Zenon
  <2> QED
    BY Zenon, <1>1, <2>1, <2>2 DEF ClaimSession
<1>2. CASE SetFlag(c)
  <2>1. PICK to \in {"read", "done"} : Moves("flag", to) /\ (to = "read" => calls[c].job \in flagged')
    BY <1>2, <1>0 DEF SetFlag
  <2>2. session' = session \/ (calls[c].acquired /\ session = calls[c].job /\ session' = "none")
    BY <1>2 DEF SetFlag
  <2>3. flagged \subseteq flagged' /\ UNCHANGED <<rows, mem, runner, active, owner, booting, dropped, late>>
    BY <1>2 DEF SetFlag
  <2> QED
    BY SMTT(60), <2>1, <2>2, <2>3
<1>3. CASE PutCancelling(c)
  BY SMTT(60), <1>3 DEF PutCancelling, Step
<1>4. CASE PutAgain(c)
  BY SMTT(60), <1>4 DEF PutAgain, Step
<1>5. CASE CancelFails(c)
  <2>1. Moves("read", "done") \/ Moves("put", "done")
    BY <1>5, <1>0 DEF CancelFails
  <2>2. session' = session \/ (calls[c].acquired /\ session = calls[c].job /\ session' = "none")
    BY <1>5 DEF CancelFails
  <2>3. UNCHANGED <<rows, mem, runner, active, owner, booting, dropped, late, flagged>>
    BY <1>5 DEF CancelFails
  <2>4. CASE Moves("read", "done")
    BY SMTT(60), <2>2, <2>3, <2>4
  <2>5. CASE Moves("put", "done")
    BY <2>2, <2>3, <2>5
  <2> QED
    BY <2>1, <2>4, <2>5
<1>6. CASE DropCall(c)
  <2>1. \E from \in {"flag", "read", "put", "again"} : Moves(from, "done")
    BY <1>6, <1>0 DEF DropCall
  <2>2. /\ UNCHANGED session
        /\ \/ UNCHANGED late
           \/ calls[c].pc = "put" /\ late' = late \cup {<<calls[c].job, calls[c].snap>>}
        /\ \/ UNCHANGED owner
           \/ /\ calls[c].acquired
              /\ owner' = [owner EXCEPT ![calls[c].job] = IF @ = "none" THEN "polling" ELSE @]
    BY <1>6 DEF DropCall
  <2>3. UNCHANGED <<rows, mem, runner, active, booting, dropped, flagged>>
    BY <1>6 DEF DropCall
  <2> QED
    BY SMTT(60), <2>1, <2>2, <2>3
<1>7. CASE DropPutAgain(c)
  BY SMTT(60), <1>7 DEF DropPutAgain, Step
<1> QED
  BY Zenon, <1>1, <1>2, <1>3, <1>4, <1>5, <1>6, <1>7

\* A cancel request reads its row.
LEMMA ReadsPreserveRecInv ==
    ASSUME RecInv, NEW c \in Calls, ReadCurrent(c)
    PROVE  RecInv'
<1> USE HoldersAssumption
    DEF RecInv, Shapes, Runners, Requests, Fitting, LatePuts, Completed, Booting, Live, Stored, Ended,
        Early, Loop, Capturing, Recovering, Terminal, Statuses, OnItsWay, Missing, Idle, pending
<1> DEFINE j == calls[c].job
<1>1. /\ calls[c].pc = "read"
      /\ UNCHANGED <<rows, mem, runner, active, flagged, session, owner, booting, dropped, late>>
  BY DEF ReadCurrent
<1>2. PICK to, snap :
        /\ calls' = [calls EXCEPT ![c].pc = to, ![c].snap = snap]
        /\ \/ Ended(j) /\ to = "again" /\ snap = rows[j]
           \/ ~Ended(j) /\ to = "put" /\ snap = [rows[j] EXCEPT !.status = "cancelling"]
  <2>1. CASE Ended(j)
    BY ONLY <2>1, ReadCurrent(c), Zenon DEF ReadCurrent
  <2>2. CASE ~Ended(j)
    BY ONLY <2>2, ReadCurrent(c), Zenon DEF ReadCurrent
  <2> QED
    BY <2>1, <2>2
<1>3. /\ "status" \in DOMAIN snap
      /\ Ended(j) => to = "again" /\ snap.status = rows[j].status
      /\ ~Ended(j) => to = "put" /\ snap.status = "cancelling"
  BY <1>1, <1>2
<1>4. /\ DOMAIN calls' = Calls
      /\ \A k \in Calls \ {c} : calls'[k] = calls[k]
      /\ calls'[c] = [pc |-> to, job |-> j, acquired |-> calls[c].acquired, snap |-> snap]
  <2>1. calls'[c] = [[calls[c] EXCEPT !.pc = to] EXCEPT !.snap = snap]
    BY <1>2
  <2>2. calls[c] = [pc |-> calls[c].pc, job |-> j, acquired |-> calls[c].acquired, snap |-> calls[c].snap]
    OBVIOUS
  <2> QED
    BY <1>2, <2>1, <2>2
<1>5. Shapes'
  <2>1. ASSUME NEW k \in Calls
        PROVE  /\ calls'[k] = [pc |-> calls'[k].pc, job |-> calls'[k].job,
                               acquired |-> calls'[k].acquired, snap |-> calls'[k].snap]
               /\ "status" \in DOMAIN calls'[k].snap
    BY <1>3, <1>4
  <2> QED
    BY <1>1, <1>4, <2>1
<1>6. Runners' /\ LatePuts'
  BY <1>1
<1>7. ASSUME NEW k \in Calls \ {c} PROVE Fitting(k)'
  BY <1>1, <1>4, <1>7
<1>8. Fitting(c)'
  BY <1>1, <1>3, <1>4
<1>9. Completed'
  BY SMTT(60), <1>1, <1>3, <1>4
<1>10. Booting'
  BY <1>1, <1>4
<1> QED
  BY SMTT(60), <1>5, <1>6, <1>7, <1>8, <1>9, <1>10

\* A cancel request arrives.
LEMMA NewCallsPreserveRecInv ==
    ASSUME RecInv, NEW c \in Calls, NEW j \in Jobs, CallCancel(c, j)
    PROVE  RecInv'
<1> USE HoldersAssumption
    DEF RecInv, Shapes, Runners, Requests, Fitting, LatePuts, Completed, Booting, Live, Stored, Ended,
        Early, Loop, Capturing, Recovering, Terminal, Statuses, OnItsWay, Missing, Idle, Open,
        pending, aux, ReleaseSession
<1>1. UNCHANGED <<rows, mem, runner, active, flagged, owner, booting, dropped, late>>
  BY DEF CallCancel
<1>2. /\ calls[c] = Idle /\ ~booting
      /\ session' = session \/ (Ended(j) /\ session = j /\ session' = "none")
  BY DEF CallCancel
<1>3. PICK to \in {"claim", "flag", "done"} :
        /\ calls' = [calls EXCEPT ![c] = [Idle EXCEPT !.pc = to, !.job = j]]
        /\ to # "done" => Open(j)
  BY Zenon DEF CallCancel
<1>4. /\ DOMAIN calls' = Calls
      /\ \A k \in Calls \ {c} : calls'[k] = calls[k]
      /\ calls'[c] = [pc |-> to, job |-> j, acquired |-> FALSE, snap |-> Missing]
  BY <1>3
<1>5. Shapes'
  <2>1. ASSUME NEW k \in Calls
        PROVE  /\ calls'[k] = [pc |-> calls'[k].pc, job |-> calls'[k].job,
                               acquired |-> calls'[k].acquired, snap |-> calls'[k].snap]
               /\ "status" \in DOMAIN calls'[k].snap
    BY <1>4
  <2> QED
    BY <1>1, <1>4, <2>1
<1>6. Runners'
  BY <1>1, <1>2
<1>7. LatePuts'
  BY <1>1
<1>8. ASSUME NEW k \in Calls \ {c} PROVE Fitting(k)'
  BY <1>1, <1>4, <1>8
<1>9. Fitting(c)'
  BY <1>1, <1>3, <1>4
<1>10. Completed'
  BY <1>1, <1>4
<1>11. Booting'
  BY <1>1, <1>2, <1>4
<1> QED
  BY SMTT(60), <1>5, <1>6, <1>7, <1>8, <1>9, <1>10, <1>11
----------------------------------------------------------------------------
(* The jobs by themselves, with restarts.                                  *)

\* What a playback may do to the session.
PlaybackTakesOrGivesBack ==
    \/ UNCHANGED session
    \/ session = "none" /\ session' \in Tokens
    \/ session \in Tokens /\ session' = "none"

\* A playback takes the free session or gives it back.
LEMMA PlaybackPreservesRecInv ==
    ASSUME RecInv, PlaybackTakesOrGivesBack,
           UNCHANGED <<rows, runner, mem, active, flagged, owner, calls, booting, dropped, late>>
    PROVE  RecInv'
<1> USE HoldersAssumption
    DEF PlaybackTakesOrGivesBack, RecInv, Shapes, Requests, Fitting, LatePuts, Completed, Booting, Live,
        Stored, Ended
<1>1. Runners'
  BY DEF Runners
<1>2. Shapes' /\ Requests' /\ LatePuts' /\ Completed' /\ Booting'
  OBVIOUS
<1> QED
  BY <1>1, <1>2

\* Every step of the jobs and of a restart.
LEMMA NextPreservesRecInv == ASSUME RecInv, [Next]_vars PROVE RecInv'
<1>1. CASE Playback
  BY <1>1, PlaybackPreservesRecInv DEF Playback, PlaybackTakesOrGivesBack, pending
<1>2. CASE UNCHANGED vars
  BY <1>2, PlaybackPreservesRecInv DEF vars, pending, PlaybackTakesOrGivesBack
<1>3. CASE Crash \/ Boot
  BY <1>3, CrashPreservesRecInv, BootPreservesRecInv
<1>4. ASSUME NEW j \in Jobs,
             \/ Reserve(j) \/ Start(j) \/ DropStart(j) \/ Record(j) \/ PersistStage(j)
             \/ Own(j) \/ ObservationFails(j) \/ Restore(j)
             \/ \E c \in Calls : CallCancel(c, j)
      PROVE  RecInv'
  BY <1>4, StartsPreserveRecInv, RecordingPreservesRecInv, OwnersPreserveRecInv,
     RestorePreservesRecInv, NewCallsPreserveRecInv
<1>5. ASSUME NEW c \in Calls, Cancel(c) \/ CancelGoesAway(c) PROVE RecInv'
  BY <1>5, CallsPreserveRecInv, ReadsPreserveRecInv DEF Cancel, CancelGoesAway
<1> QED
  BY <1>1, <1>2, <1>3, <1>4, <1>5 DEF Next

\* The invariant of the jobs.
LEMMA RecInvIsInvariant == Spec => []RecInv
BY InitEstablishesRecInv, NextPreservesRecInv, PTL DEF Spec

\* Who captures runs, and who runs holds the session.
LEMMA RecInvOwnsTheSession == RecInv => CaptureOwnsTheSession
BY DEF RecInv, Runners, CaptureOwnsTheSession, Live, Early, Loop, Capturing

\* An answered cancel was decided under the mutex, and the verdict keeps to it.
LEMMA RecInvHonoursCancel == RecInv => CancelIsHonoured
<1> SUFFICES ASSUME RecInv, NEW c \in Calls, calls[c].snap.status = "cancelling",
                    rows[calls[c].job].status = "completed"
             PROVE  FALSE
  BY DEF CancelIsHonoured
<1>1. calls[c].job \in Jobs
  BY DEF RecInv, Requests, Fitting
<1> QED
  BY <1>1 DEF RecInv, Completed

\* A job that captures alone holds the session and the runtime
\* (claim_active_job, recording.rs), with any requests, dropped requests, late
\* puts and restarts beside it.
THEOREM CapturesOwnTheSession == Spec => []CaptureOwnsTheSession
BY RecInvIsInvariant, RecInvOwnsTheSession, PTL

\* The flag of an answered cancel request is set before the runner looks at it
\* for the last time (cancel and finish_job, recording.rs).
THEOREM CancelsAreHonoured == Spec => []CancelIsHonoured
BY RecInvIsInvariant, RecInvHonoursCancel, PTL

----------------------------------------------------------------------------
(* Plans and playbacks beside them.                                        *)

\* A plan one of whose jobs ran, or is to be reconciled, belongs to that job;
\* a request that has its answer has started all it would start.
Leases ==
    /\ DOMAIN plans = Plans /\ ~booting
    /\ \A j \in Jobs :
          LET plan == plans[PlanOf[j]]
          IN  /\ mem[j] # Missing =>
                    plan \in {Lease("ok", j), Lease("dropped", j), Lease("started", j), Gone}
              /\ j \in dropped => plan = Lease("dropped", j)
              /\ plan \in {Lease("ok", j), Lease("error", j)} => runner[j] \notin Early \cup {"idle"}

GameInv == RecInv /\ Leases

\* A step of a job that its plan hears nothing of.
Onward ==
    /\ UNCHANGED <<plans, dropped, booting>>
    /\ \A j \in Jobs :
          /\ mem'[j] # Missing => mem[j] # Missing
          /\ runner[j] \notin Early \cup {"idle"} => runner'[j] \notin Early \cup {"idle"}

\* A step in which every job goes its way and no lease changes.
LEMMA OnwardKeepsLeases == ASSUME Leases, Onward PROVE Leases'
BY DEF Leases, Onward

\* The steps of jobs and owners.
LEMMA JobsGoOnward ==
    ASSUME RecInv, UNCHANGED plans, NEW j \in Jobs,
           CleanUp(j) \/ Record(j) \/ PersistStage(j) \/ Own(j) \/ ObservationFails(j)
    PROVE  Onward
<1> USE DEF RecInv, Shapes, Onward, Goto, pending, Early
<1>1. CASE CleanUp(j)
  BY <1>1 DEF CleanUp, AbortStartup, AbortFails, WriteLate
<1>2. CASE PushOutput(j) \/ AdvanceCursor(j)
  <2>1. mem[j] # Missing
    BY <1>2 DEF PushOutput, AdvanceCursor, PutOrFail, Runners, Loop, Capturing, Missing
  <2> QED
    BY <1>2, <2>1 DEF PushOutput, AdvanceCursor, PutOrFail, Remember
<1>3. CASE NextItem(j) \/ Announce(j) \/ BeginCapture(j) \/ VerifyOutput(j) \/ CaptureFails(j)
           \/ MarkPublished(j) \/ StoreClip(j) \/ DiscardClip(j)
  BY <1>3 DEF NextItem, Announce, BeginCapture, VerifyOutput, CaptureFails, MarkPublished,
              StoreClip, DiscardClip, PutOrFail
<1>4. CASE RetireEvidence(j) \/ PersistTerminal(j) \/ Unregister(j) \/ PersistStage(j)
  BY <1>4 DEF RetireEvidence, PersistTerminal, Unregister, PersistStage
<1>5. CASE Own(j) \/ ObservationFails(j)
  BY <1>5 DEF Own, Poll, Attached, GiveUpMissing, Leave, ObservationFails
<1> QED
  BY <1>1, <1>2, <1>3, <1>4, <1>5 DEF Record

\* The steps of cancel requests.
LEMMA CallsGoOnward ==
    ASSUME UNCHANGED plans, NEW c \in Calls,
           (\E j \in Jobs : CallCancel(c, j)) \/ Cancel(c) \/ CancelGoesAway(c)
    PROVE  Onward
<1>1. UNCHANGED <<mem, runner, dropped, booting>>
  BY Zenon DEF Cancel, CancelGoesAway, CallCancel, ClaimSession, SetFlag, ReadCurrent, PutCancelling,
         PutAgain, CancelFails, DropCall, DropPutAgain, pending
<1> QED
  BY <1>1 DEF Onward

\* Nothing was started of a plan that is on offer, or starts another job.
LEMMA StartsKeepLeases ==
    ASSUME RecInv, Leases, NEW j \in Jobs, StartAttempt(j)
    PROVE  Leases'
<1> USE PlansAssumption
    DEF RecInv, Shapes, Leases, StartAttempt, Starting, Answer, Change, Lease, Gone, Early, Goto,
        pending, Remember
<1>1. CASE (Reserve(j) \/ Prepare(j)) /\ UNCHANGED plans
  BY <1>1 DEF Reserve, Prepare, Register, Enqueue, Launch
<1>2. CASE Accept(j) /\ Answer(j, "ok")
  BY <1>2 DEF Accept, Run, CancelledWhilePreparing, RetryFails
<1>3. CASE Refuse(j) /\ Answer(j, "error")
  BY <1>3 DEF Refuse, RefuseStart, StartFails, StartFailsUnsaved
<1>4. CASE DropStart(j) /\ Answer(j, "dropped")
  BY <1>4 DEF DropStart
<1> QED
  BY <1>1, <1>2, <1>3, <1>4

\* A start whose answer the lease of its plan hears.
LEMMA AnswersKeepLeases ==
    ASSUME RecInv, Leases, NEW j \in Jobs,
           Execute(j) \/ RefusePlan(j) \/ DropAnswered(j) \/ Settle(j) \/ ReconcilePlan(j)
    PROVE  Leases'
<1> USE PlansAssumption
    DEF Leases, Answer, Change, Lease, Ready, Gone
<1>1. CASE Execute(j)
  BY <1>1 DEF Execute, vars, pending
<1>2. CASE RefusePlan(j)
  BY <1>2 DEF RefusePlan, Starting, vars, pending
<1>3. CASE DropAnswered(j)
  BY <1>3 DEF DropAnswered
<1>4. CASE Settle(j)
  BY <1>4 DEF Settle, vars, pending
<1>5. CASE ReconcilePlan(j)
  <2>1. rows[j] = Missing => mem[j] = Missing
    BY DEF RecInv, Runners, Stored, Statuses, Missing
  <2>2. /\ plans[PlanOf[j]] = Lease("dropped", j)
        /\ UNCHANGED <<mem, runner, booting>> /\ dropped' = dropped \ {j}
    BY <1>5 DEF ReconcilePlan, Reconciled
  <2>3. \/ Answer(j, "started") \/ Change(j, Gone)
        \/ Change(j, Ready) /\ mem[j] = Missing
    BY <1>5, <2>1 DEF ReconcilePlan
  <2> QED
    BY <2>2, <2>3
<1> QED
  BY <1>1, <1>2, <1>3, <1>4, <1>5

\* A plan expires.
LEMMA ExpiryKeepsLeases ==
    ASSUME Leases, NEW p \in Plans, Expire(p)
    PROVE  Leases'
BY PlansAssumption DEF Expire, Leases, Lease, Ready, Gone, vars, pending

\* A request that is dropped with its answer has no start left to be dropped.
LEMMA DroppedAnswersPreserveRecInv ==
    ASSUME RecInv, Leases, NEW j \in Jobs, DropAnswered(j)
    PROVE  RecInv'
<1>1. /\ UNCHANGED <<rows, runner, mem, active, flagged, session, owner, calls, booting, late>>
      /\ dropped' = dropped \cup {j}
  BY DEF DropAnswered
<1>2. runner[j] # "idle" /\ (Live(j) => Stored(j))
  BY DEF DropAnswered, Leases, Live, Early, RecInv, Runners
<1>3. Runners'
  BY <1>1, <1>2 DEF RecInv, Runners, Live, Stored, Ended
<1>4. ~booting
  BY DEF Leases
<1>5. Shapes' /\ Requests' /\ LatePuts' /\ Completed' /\ Booting'
  BY <1>1, <1>4 DEF RecInv, Shapes, Requests, Fitting, LatePuts, Completed, Booting, Live, Stored, Ended
<1> QED
  BY <1>3, <1>5 DEF RecInv

\* Plans, jobs and playback at the beginning.
LEMMA InitEstablishesGameInv == ASSUME GameInit PROVE GameInv
<1>1. Init /\ plans = [p \in Plans |-> Ready]
  BY DEF GameInit, PlansInit
<1>2. RecInv
  BY <1>1, InitEstablishesRecInv
<1>3. Leases
  BY <1>1, PlansAssumption DEF Init, Leases, Lease, Ready, Missing
<1> QED
  BY <1>2, <1>3 DEF GameInv

\* The steps of plans and jobs.
LEMMA PlansPreserveGameInv == ASSUME GameInv, PlansNext PROVE GameInv'
<1> USE DEF GameInv
<1>1. ASSUME NEW j \in Jobs, StartAttempt(j) PROVE GameInv'
  BY <1>1, StartsKeepLeases, StartsPreserveRecInv DEF StartAttempt, Start
<1>2. ASSUME NEW j \in Jobs, Execute(j) \/ RefusePlan(j) \/ Settle(j) PROVE GameInv'
  <2>1. UNCHANGED vars
    BY <1>2 DEF Execute, RefusePlan, Settle
  <2> QED
    BY <1>2, <2>1, AnswersKeepLeases, NextPreservesRecInv
<1>3. ASSUME NEW j \in Jobs, DropAnswered(j) PROVE GameInv'
  BY <1>3, AnswersKeepLeases, DroppedAnswersPreserveRecInv
<1>4. ASSUME NEW j \in Jobs, ReconcilePlan(j) PROVE GameInv'
  <2>1. Start(j)
    <3>1. Reconciled(j, FALSE) \/ (rows[j] = Missing /\ Reconciled(j, TRUE))
      BY <1>4 DEF ReconcilePlan
    <3>2. CASE Reconciled(j, FALSE)
      BY <3>2, Zenon DEF Start, Reconcile
    <3>3. CASE rows[j] = Missing /\ Reconciled(j, TRUE)
      BY <3>3, Zenon DEF Start, Reconcile
    <3> QED
      BY <3>1, <3>2, <3>3
  <2> QED
    BY <1>4, <2>1, AnswersKeepLeases, StartsPreserveRecInv
<1>5. ASSUME NEW p \in Plans, Expire(p) PROVE GameInv'
  <2>1. UNCHANGED vars
    BY <1>5 DEF Expire
  <2> QED
    BY <1>5, <2>1, ExpiryKeepsLeases, NextPreservesRecInv
<1>6. CASE Continue
  <2>1. ASSUME NEW j \in Jobs, UNCHANGED plans,
               CleanUp(j) \/ Record(j) \/ PersistStage(j) \/ Own(j) \/ ObservationFails(j)
        PROVE  GameInv'
    BY <2>1, JobsGoOnward, OnwardKeepsLeases, StartsPreserveRecInv, RecordingPreservesRecInv,
       OwnersPreserveRecInv DEF Start
  <2>2. ASSUME NEW c \in Calls, UNCHANGED plans,
               (\E j \in Jobs : CallCancel(c, j)) \/ Cancel(c) \/ CancelGoesAway(c)
        PROVE  GameInv'
    <3>1. RecInv'
      BY <2>2, NewCallsPreserveRecInv, CallsPreserveRecInv, ReadsPreserveRecInv
         DEF Cancel, CancelGoesAway
    <3> QED
      BY <2>2, <3>1, CallsGoOnward, OnwardKeepsLeases
  <2> QED
    BY <1>6, <2>1, <2>2 DEF Continue
<1> QED
  BY <1>1, <1>2, <1>3, <1>4, <1>5, <1>6 DEF PlansNext

\* A playback takes the free session or gives back its own.
LEMMA PlaybacksTakeOrGiveBack == ASSUME PlaybackNext PROVE PlaybackTakesOrGivesBack
BY DEF PlaybackNext, Play, ReservePlayback, WithdrawPlay, ReleaseWithdrawn, ReserveLaunch, LaunchEnds,
       SpawnPlayback, MarkActive, DropLaunched, CleanUpLaunch, Stop, BeginStop, StopTracked,
       KillPlayback, KillFails, LeaveStop, CompleteStop, ReconcileStop, GameExits, ReleasePlayback,
       Free, PlaybackTakesOrGivesBack

\* Every step of the game session.
LEMMA GamePreservesGameInv == ASSUME GameInv, [GameNext]_gameVars PROVE GameInv'
<1>1. CASE PlansNext
  BY <1>1, PlansPreserveGameInv
<1>2. CASE PlaybackNext /\ UNCHANGED recordingVars
  <2>1. UNCHANGED <<rows, runner, mem, active, flagged, owner, calls, booting, dropped, late, plans>>
    BY <1>2 DEF recordingVars, pending
  <2>2. RecInv'
    BY <1>2, <2>1, PlaybacksTakeOrGiveBack, PlaybackPreservesRecInv, Zenon DEF GameInv
  <2>3. Leases'
    BY <2>1 DEF GameInv, Leases
  <2> QED
    BY <2>2, <2>3 DEF GameInv
<1>3. CASE UNCHANGED gameVars
  <2>1. UNCHANGED <<vars, plans>>
    BY <1>3 DEF gameVars, planVars
  <2>2. Leases'
    BY <2>1 DEF GameInv, Leases, vars, pending
  <2> QED
    BY <2>1, <2>2, NextPreservesRecInv DEF GameInv
<1> QED
  BY <1>1, <1>2, <1>3 DEF GameNext

\* The invariant of plans and jobs beside playbacks.
LEMMA GameInvIsInvariant == GameSpec => []GameInv
BY InitEstablishesGameInv, GamePreservesGameInv, PTL DEF GameSpec

\* A plan is recorded once, whatever becomes of the requests that execute it
\* (execute_plan and reconcile_abandoned_recording_plan_start, routes/recording.rs).
THEOREM PlansAreRecordedOnce == GameSpec => []PlansRecordOnce
<1>1. GameInv => PlansRecordOnce
  <2> SUFFICES ASSUME Leases, NEW j \in Jobs, mem[j] # Missing
               PROVE  plans[PlanOf[j]] # Ready
    BY DEF GameInv, PlansRecordOnce
  <2>1. plans[PlanOf[j]] \in {Lease("ok", j), Lease("dropped", j), Lease("started", j), Gone}
    BY DEF Leases
  <2>2. plans[PlanOf[j]].state # "ready"
    BY <2>1 DEF Lease, Gone
  <2> QED
    BY <2>2 DEF Lease, Ready
<1> QED
  BY <1>1, GameInvIsInvariant, PTL

\* Beside plans and playbacks too a capture owns the session, and a cancel
\* request that was answered is honoured.
THEOREM CapturesOwnTheGame == GameSpec => [](CaptureOwnsTheSession /\ CancelIsHonoured)
<1>1. GameInv => CaptureOwnsTheSession /\ CancelIsHonoured
  BY RecInvOwnsTheSession, RecInvHonoursCancel DEF GameInv
<1> QED
  BY <1>1, GameInvIsInvariant, PTL

----------------------------------------------------------------------------
(* The game session under playback alone, for every number of playbacks    *)
(* and of recordings that take the session in between, and under both of   *)
(* its users: what is proved of PlaybackSession holds beside the recordings.*)

\* Only playbacks have a phase, and only a tracked process has a token.
Holder ==
    /\ phase = "none" <=> session \notin Tokens
    /\ tracked.state = "idle" <=> tracked.token = "none"

\* A request that plays holds the session until it is activated or cleaned up,
\* and its process is the tracked one.
Launching(t) ==
    /\ play[t] # "idle" => session = t /\ phase = "launching"
    /\ play[t] = "launching" <=> tracked = Tracked("launching", t)
    /\ play[t] = "launched" => tracked = Tracked("active", t)

\* Somebody stops a playback exactly while its session is stopping.
Stopping(t) ==
    /\ stop[t].by = "none" <=> stop[t].pc = "none"
    /\ stop[t] # NoStop <=> session = t /\ phase = "stopping"
    /\ stop[t].pc = "kill" <=> tracked = Tracked("stopping", t)
    /\ stop[t].pc = "yes" => tracked = Untracked

\* A tracked process belongs to the holder of the session, and a game is tracked.
Owned(t) ==
    /\ tracked.token = t => session = t
    /\ tracked.token = t /\ tracked.state # "launching" => t \in guards
    /\ tracked = Tracked("active", t) /\ phase = "launching" =>
          play[t] \in {"launched", "cleanup"}
    /\ t \in game => tracked \in {Tracked("active", t), Tracked("stopping", t)}

PlaybackInv ==
    /\ SessionTypeOK
    /\ Holder
    /\ \A t \in Tokens : Launching(t) /\ Stopping(t) /\ Owned(t)

----------------------------------------------------------------------------
\* No playback yet.
LEMMA InitEstablishesPlayback == SessionInit => PlaybackInv
BY HoldersAssumption
   DEF SessionInit, PlaybackInit, PlaybackInv, SessionTypeOK, Holders, Holder, Launching, Stopping, Owned,
       Untracked, Tracked, NoStop

\* The request that plays, and the task that cleans up after it.
LEMMA PlayPreserves ==
    ASSUME PlaybackInv, NEW t \in Tokens, Play(t) PROVE PlaybackInv'
<1> USE HoldersAssumption DEF PlaybackInv, SessionTypeOK, Holders, Holder, Launching, Stopping, Owned, Untracked, Tracked, NoStop, PlayStep, ReleasePlayback, Free, SetStop, Task
<1>1. CASE ReservePlayback(t)
  BY <1>1 DEF ReservePlayback
<1>2. CASE WithdrawPlay(t)
  BY <1>2 DEF WithdrawPlay
<1>3. CASE ReleaseWithdrawn(t)
  BY <1>3 DEF ReleaseWithdrawn
<1>4. CASE ReserveLaunch(t)
  BY <1>4 DEF ReserveLaunch
<1>5. CASE LaunchEnds(t)
  BY <1>5 DEF LaunchEnds
<1>6. CASE SpawnPlayback(t)
  BY <1>6 DEF SpawnPlayback
<1>7. CASE MarkActive(t)
  BY <1>7 DEF MarkActive
<1>8. CASE DropLaunched(t)
  BY <1>8 DEF DropLaunched
<1>9. CASE CleanUpLaunch(t)
  BY <1>9 DEF CleanUpLaunch
<1> QED
  BY <1>1, <1>2, <1>3, <1>4, <1>5, <1>6, <1>7, <1>8, <1>9 DEF Play

\* The request or task that stops.
LEMMA StopPreserves ==
    ASSUME PlaybackInv, NEW t \in Tokens, Stop(t) PROVE PlaybackInv'
<1> USE HoldersAssumption DEF PlaybackInv, SessionTypeOK, Holders, Holder, Launching, Stopping, Owned, Untracked, Tracked, NoStop, StopStep, ReleasePlayback, Free, SetStop, Task, Request
<1>1. CASE BeginStop(t)
  BY <1>1 DEF BeginStop
<1>2. CASE StopTracked(t)
  BY <1>2 DEF StopTracked
<1>3. CASE KillPlayback(t)
  BY <1>3 DEF KillPlayback
<1>4. CASE KillFails(t)
  BY <1>4 DEF KillFails
<1>5. CASE LeaveStop(t)
  BY <1>5 DEF LeaveStop
<1>6. CASE CompleteStop(t)
  BY <1>6 DEF CompleteStop
<1>7. CASE ReconcileStop(t)
  BY <1>7 DEF ReconcileStop
<1> QED
  BY <1>1, <1>2, <1>3, <1>4, <1>5, <1>6, <1>7 DEF Stop

\* The game exits by itself.
LEMMA GamesMayExit ==
    ASSUME PlaybackInv, NEW t \in Tokens, GameExits(t) PROVE PlaybackInv'
BY DEF GameExits, PlaybackInv, SessionTypeOK, Holders, Holder, Launching, Stopping, Owned

\* A recording finds no playback in its way, and leaves none behind.
LEMMA RecordingsPreserve == ASSUME PlaybackInv, Recording PROVE PlaybackInv'
BY HoldersAssumption
   DEF Recording, playbackVars, PlaybackInv, SessionTypeOK, Holders, Holder, Launching, Stopping, Owned,
       Tracked, NoStop

\* Every step of a playback or of the recordings beside it.
LEMMA SessionPreservesPlayback == PlaybackInv /\ [SessionNext]_sessionVars => PlaybackInv'
<1> SUFFICES ASSUME PlaybackInv, [SessionNext]_sessionVars PROVE PlaybackInv'
  OBVIOUS
<1>1. CASE PlaybackNext
  BY <1>1, PlayPreserves, StopPreserves, GamesMayExit DEF PlaybackNext
<1>2. CASE Recording
  BY <1>2, RecordingsPreserve
<1>3. CASE UNCHANGED sessionVars
  BY <1>3 DEF sessionVars, playbackVars, PlaybackInv, SessionTypeOK, Holders, Holder, Launching, Stopping, Owned
<1> QED
  BY <1>1, <1>2, <1>3 DEF SessionNext

\* The inductive invariant of the session, of the requests and tasks that play
\* and stop, and of the registry of the runtime (state.rs, integration.rs).
THEOREM PlaybackInvariant == SessionSpec => []PlaybackInv
BY InitEstablishesPlayback, SessionPreservesPlayback, PTL DEF SessionSpec

\* A running game has a holder that somebody can stop.
LEMMA InvariantOwnsTheGame == PlaybackInv => PlaybackOwnsItsGame
<1> SUFFICES ASSUME PlaybackInv, NEW t \in game
             PROVE  session = t /\ t \in guards /\ CanBeStopped(t)
  BY DEF PlaybackOwnsItsGame
<1>1. t \in Tokens
  BY DEF PlaybackInv, SessionTypeOK, Holders
<1>2. session = t /\ t \in guards
  BY <1>1 DEF PlaybackInv, Owned, Tracked
<1>3. CanBeStopped(t)
  BY <1>1, <1>2 DEF PlaybackInv, SessionTypeOK, Holders, Holder, Stopping, Owned, Tracked, NoStop, CanBeStopped
<1> QED
  BY <1>2, <1>3

\* The session of a running playback is its own, its copy of the Demo is held,
\* and there is always somebody who can stop it: no dropped request, failed
\* launch or failed stop loses a game or frees the session beneath it.
THEOREM GamesAreOwned == SessionSpec => []PlaybackOwnsItsGame
BY PlaybackInvariant, InvariantOwnsTheGame, PTL

\* While a recording holds the session, and while nobody does, no playback runs
\* and none is being launched (reserve_recording_session).
THEOREM RecordingsFindNoGame == SessionSpec => [](session \notin Tokens => game = {} /\ tracked = Untracked)
<1>1. PlaybackInv => (session \notin Tokens => game = {} /\ tracked = Untracked)
  BY DEF PlaybackInv, SessionTypeOK, Holders, Holder, Owned, Tracked, Untracked
<1> QED
  BY <1>1, PlaybackInvariant, PTL

----------------------------------------------------------------------------
(* The session beside the recordings.                                      *)

\* A cancel request names the job it is about to claim the session for.
CallsNameJobs ==
    /\ DOMAIN calls = Calls
    /\ \A c \in Calls :
          /\ calls[c] = [pc |-> calls[c].pc, job |-> calls[c].job,
                         acquired |-> calls[c].acquired, snap |-> calls[c].snap]
          /\ calls[c].pc # "idle" => calls[c].job \in Jobs

\* What a step of the recordings may do to the session.
TakesOrGivesBack ==
    \/ UNCHANGED session
    \/ session = "none" /\ session' \in Jobs
    \/ session \in Jobs /\ session' = "none"

Respectful == CallsNameJobs' /\ TakesOrGivesBack

----------------------------------------------------------------------------
(* The starts.                                                             *)

\* Starts take the session when it is free.
LEMMA StartsRespect ==
    ASSUME NEW j \in Jobs, CallsNameJobs, Reserve(j) \/ Start(j) \/ DropStart(j)
    PROVE  Respectful
<1> USE DEF ReleaseSession, Goto, Observe
<1>1. CASE Reserve(j)
  BY <1>1 DEF Reserve, Respectful, TakesOrGivesBack, CallsNameJobs
<1>2. CASE Prepare(j)
  BY <1>2 DEF Prepare, Register, Enqueue, Launch, Respectful, TakesOrGivesBack, CallsNameJobs
<1>3. CASE Accept(j)
  BY <1>3 DEF Accept, Run, CancelledWhilePreparing, RetryFails, Respectful, TakesOrGivesBack, CallsNameJobs
<1>4. CASE Refuse(j)
  BY <1>4 DEF Refuse, RefuseStart, StartFails, StartFailsUnsaved, Respectful, TakesOrGivesBack, CallsNameJobs
<1>5. CASE CleanUp(j)
  BY <1>5 DEF CleanUp, AbortStartup, AbortFails, WriteLate, Respectful, TakesOrGivesBack, CallsNameJobs
<1>6. CASE Reconcile(j)
  BY <1>6 DEF Reconcile, Reconciled, Respectful, TakesOrGivesBack, CallsNameJobs
<1>7. CASE DropStart(j)
  BY <1>7 DEF DropStart, Respectful, TakesOrGivesBack, CallsNameJobs
<1> QED
  BY <1>1, <1>2, <1>3, <1>4, <1>5, <1>6, <1>7 DEF Start

\* The loop leaves the session to the owner of the job.
LEMMA RecordingKeepsSession ==
    ASSUME NEW j \in Jobs, Record(j) \/ PersistStage(j) \/ ObservationFails(j)
    PROVE  UNCHANGED <<session, calls>>
BY DEF Record, NextItem, Announce, BeginCapture, VerifyOutput, CaptureFails, MarkPublished,
       StoreClip, DiscardClip, PushOutput, RetireEvidence, AdvanceCursor, PersistTerminal,
       Unregister, PersistStage, ObservationFails

\* Owners free the session of a job.
LEMMA OwnersRespect ==
    ASSUME NEW j \in Jobs, CallsNameJobs, Own(j)
    PROVE  Respectful
BY DEF Own, Poll, Attached, GiveUpMissing, Leave, ReleaseSession, Respectful, TakesOrGivesBack,
       CallsNameJobs

----------------------------------------------------------------------------
(* The cancel requests.                                                    *)

\* A request stays about the job it was made for.
LEMMA SnapshotsKeepTheJob ==
    ASSUME NEW c \in Calls, CallsNameJobs, calls[c].pc # "idle", NEW to, NEW snap,
           calls' = [calls EXCEPT ![c].pc = to, ![c].snap = snap]
    PROVE  CallsNameJobs'
<1>1. DOMAIN calls' = Calls /\ \A k \in Calls \ {c} : calls'[k] = calls[k]
  BY DEF CallsNameJobs
<1>2. calls'[c] = [pc |-> to, job |-> calls[c].job, acquired |-> calls[c].acquired, snap |-> snap]
  <2>1. calls'[c] = [[calls[c] EXCEPT !.pc = to] EXCEPT !.snap = snap]
    BY DEF CallsNameJobs
  <2>2. calls[c] = [pc |-> calls[c].pc, job |-> calls[c].job,
                    acquired |-> calls[c].acquired, snap |-> calls[c].snap]
    BY DEF CallsNameJobs
  <2> QED
    BY <2>1, <2>2
<1> QED
  BY <1>1, <1>2 DEF CallsNameJobs

\* A request that arrives leaves the session alone.
LEMMA NewCallsRespect ==
    ASSUME NEW c \in Calls, NEW j \in Jobs, CallsNameJobs, CallCancel(c, j)
    PROVE  Respectful
BY DEF CallCancel, Idle, ReleaseSession, Respectful, TakesOrGivesBack, CallsNameJobs

\* Requests free the session of a job, or leave it.
LEMMA CallsRespect ==
    ASSUME NEW c \in Calls, CallsNameJobs, Cancel(c) \/ CancelGoesAway(c)
    PROVE  Respectful
<1> USE DEF Respectful, TakesOrGivesBack
<1>1. CASE ClaimSession(c)
  BY <1>1 DEF ClaimSession, Step, CallsNameJobs
<1>2. CASE SetFlag(c)
  BY <1>2 DEF SetFlag, Step, CallsNameJobs, ReleaseSession
<1>3. CASE ReadCurrent(c)
  <2>1. UNCHANGED session /\ calls[c].pc # "idle"
    BY <1>3 DEF ReadCurrent
  <2>2. \E to, snap : calls' = [calls EXCEPT ![c].pc = to, ![c].snap = snap]
    BY <1>3, Zenon DEF ReadCurrent
  <2> QED
    BY <2>1, <2>2, SnapshotsKeepTheJob
<1>4. CASE PutCancelling(c)
  BY <1>4 DEF PutCancelling, Step, CallsNameJobs
<1>5. CASE PutAgain(c)
  BY <1>5 DEF PutAgain, Step, CallsNameJobs, ReleaseSession
<1>6. CASE CancelFails(c)
  BY <1>6 DEF CancelFails, Step, CallsNameJobs, ReleaseSession
<1>7. CASE DropCall(c)
  BY <1>7 DEF DropCall, Step, CallsNameJobs
<1>8. CASE DropPutAgain(c)
  BY <1>8 DEF DropPutAgain, Step, CallsNameJobs, ReleaseSession
<1> QED
  BY <1>1, <1>2, <1>3, <1>4, <1>5, <1>6, <1>7, <1>8 DEF Cancel, CancelGoesAway

----------------------------------------------------------------------------
(* The composition.                                                        *)

\* Every step of plans, jobs and requests.
LEMMA PlansRespect ==
    ASSUME CallsNameJobs, PlansNext
    PROVE  Respectful
<1>1. CASE UNCHANGED <<session, calls>>
  BY <1>1 DEF Respectful, TakesOrGivesBack, CallsNameJobs
<1>2. ASSUME NEW j \in Jobs, Execute(j) \/ RefusePlan(j) \/ DropAnswered(j) \/ Settle(j)
      PROVE  UNCHANGED <<session, calls>>
  BY <1>2 DEF Execute, RefusePlan, DropAnswered, Settle, vars
<1>3. ASSUME NEW j \in Jobs, StartAttempt(j) PROVE Respectful
  BY <1>3, StartsRespect DEF StartAttempt, Start
<1>4. ASSUME NEW j \in Jobs, ReconcilePlan(j) PROVE Respectful
  BY <1>4 DEF ReconcilePlan, Reconciled, ReleaseSession, Respectful, TakesOrGivesBack, CallsNameJobs
<1>5. ASSUME NEW p \in Plans, Expire(p) PROVE UNCHANGED <<session, calls>>
  BY <1>5 DEF Expire, vars
<1>6. CASE Continue
  BY <1>1, <1>6, StartsRespect, RecordingKeepsSession, OwnersRespect, NewCallsRespect, CallsRespect
     DEF Continue, Start
<1> QED
  BY <1>1, <1>2, <1>3, <1>4, <1>5, <1>6 DEF PlansNext

\* Every step of the game session is one of playback or of recordings that respect it.
LEMMA StepRespects ==
    ASSUME CallsNameJobs, [GameNext]_gameVars
    PROVE  CallsNameJobs' /\ [SessionNext]_sessionVars
<1>1. CASE PlansNext /\ UNCHANGED playbackVars
  <2>1. UNCHANGED session => UNCHANGED sessionVars
    BY <1>1 DEF sessionVars, playbackVars
  <2>2. ~UNCHANGED session => Recording
    BY <1>1, PlansRespect DEF Respectful, TakesOrGivesBack, playbackVars, Recording
  <2> QED
    BY <1>1, <2>1, <2>2, PlansRespect DEF Respectful, SessionNext
<1>2. CASE PlaybackNext /\ UNCHANGED recordingVars
  BY <1>2 DEF recordingVars, SessionNext, CallsNameJobs
<1>3. CASE UNCHANGED gameVars
  BY <1>3 DEF gameVars, planVars, vars, sessionVars, playbackVars, CallsNameJobs
<1> QED
  BY <1>1, <1>2, <1>3 DEF GameNext

\* Every release, claim and late request of the recordings takes a free session
\* or gives back a session of its own (recording.rs, recording_materialization.rs).
THEOREM RecordingsAreRespectful == GameSpec => RecordingsRespectPlayback
<1>1. GameInit => CallsNameJobs /\ SessionInit
  <2> SUFFICES ASSUME GameInit PROVE CallsNameJobs /\ SessionInit
    OBVIOUS
  <2>1. calls = [c \in Calls |-> Idle] /\ session = "none" /\ PlaybackInit
    BY Zenon DEF GameInit, PlansInit, Init
  <2>2. CallsNameJobs
    BY <2>1 DEF CallsNameJobs, Idle
  <2> QED
    BY <2>1, <2>2, Zenon DEF SessionInit
<1> QED
  BY <1>1, StepRespects, PTL DEF GameSpec, RecordingsRespectPlayback, SessionSpec

\* So, beside any recordings, a playback owns the session and the copy it plays
\* until its process is gone.
THEOREM PlaybacksAreOwned == GameSpec => []PlaybackOwnsItsGame
BY RecordingsAreRespectful, GamesAreOwned, PTL DEF RecordingsRespectPlayback

----------------------------------------------------------------------------
(* The takes of recording jobs: what the proofs above leave out of a row   *)
(* (its cursor and its outputs), the runner's copy of it, the publication  *)
(* evidence, the clips in the library and their files, and the types of    *)
(* all of them.                                                            *)

Before == {"idle"} \cup Early

Unpublished(j) == \A i \in Nat : <<j, i>> \notin media

\* A copy of the row of a job, wherever it is held, names only outputs that are
\* in the library, and no more than the runner has pushed.
Copy(j, row) ==
    /\ row.cursor <= ItemCount[j] /\ row.outputs <= ItemCount[j]
    /\ \A i \in 1..row.outputs : <<j, i>> \in library \cap media
    /\ runner[j] \in Before \cup Loop => row.outputs <= mem[j].outputs

\* A put that outlives its request writes what a cancel request copied, or the
\* row of a job that never ran.
Copies(j) ==
    /\ Copy(j, rows[j]) /\ Copy(j, mem[j])
    /\ \A c \in Calls : calls[c].job = j =>
          /\ Copy(j, calls[c].snap)
          /\ calls[c].pc \in {"put", "again"} => j \in touched
    /\ \A write \in late : write[1] = j =>
          /\ Copy(j, write[2])
          /\ j \in touched \/ (Unpublished(j) /\ write[2].status # "cancelling")

\* The runner's copy, its lease and its clip move on together, one step apart.
Recorder(j) ==
    LET next == mem[j].cursor + 1
    IN  /\ runner[j] \in Before => mem[j] = Missing /\ lease[j] = NoLease /\ Unpublished(j)
        /\ runner[j] \in {"check", "announce", "record", "advance", "finish"} => lease[j] = NoLease
        /\ runner[j] \in {"capture", "verified"} => lease[j] = [item |-> next, published |-> FALSE]
        /\ runner[j] \in {"store", "push", "retire"} => HasEvidence(j, next) /\ <<j, next>> \in media
        /\ runner[j] \in {"push", "retire"} => <<j, next>> \in library
        /\ runner[j] \in {"announce"} \cup Capturing => next <= ItemCount[j]
        /\ runner[j] \in Loop \ {"retire", "advance", "fail"} => mem[j].outputs = mem[j].cursor
        /\ runner[j] \in {"retire", "advance"} => mem[j].outputs = next
        /\ runner[j] = "retire" /\ j \notin touched => rows[j].outputs = next

\* The recovery retires the lease after the output is in the row.
Recovery(j) ==
    LET item == lease[j].item
    IN  /\ runner[j] = "reattach" =>
              /\ HasEvidence(j, item) /\ <<j, item>> \in library \cap media
              /\ item = rows[j].cursor + 1 /\ rows[j].outputs \in {item - 1, item}
        /\ runner[j] = "retire_evidence" => HasEvidence(j, item) /\ HasOutput(j, item)
        /\ runner[j] \in {"retire_evidence", "settle"} => rows[j].cursor < ItemCount[j]

Takes(j) ==
    /\ Copies(j) /\ Recorder(j) /\ Recovery(j)
    /\ lease[j].item <= ItemCount[j]
    /\ j \notin touched => Traceable(j)

TakesInv == TypeOK /\ \A j \in Jobs : Takes(j)

----------------------------------------------------------------------------

\* Nothing is recorded yet.
LEMMA InitEstablishesTakes == Init => TakesInv
<1> SUFFICES ASSUME Init PROVE TakesInv
  OBVIOUS
<1>1. TypeOK
  <2>1. rows \in [Jobs -> Row] /\ mem \in [Jobs -> Row]
    BY DEF Init, Row, Missing
  <2>2. \A j \in Jobs : \A row \in {rows[j], mem[j]} : row.cursor <= ItemCount[j] /\ row.outputs <= ItemCount[j]
    BY ItemCountAssumption DEF Init, Missing
  <2>3. calls \in [Calls -> [pc : {"idle", "claim", "flag", "read", "put", "again", "done"},
                             job : Jobs \cup {"none"}, acquired : BOOLEAN, snap : Row]]
    BY DEF Init, Idle, Row, Missing
  <2>4. lease \in [Jobs -> [item : Nat, published : BOOLEAN]]
    BY DEF Init, NoLease
  <2>5. crashes \in 0..MaxCrashes
    BY BoundsAssumption DEF Init
  <2> QED
    BY <2>1, <2>2, <2>3, <2>4, <2>5 DEF Init, TypeOK, Holders
<1>2. ASSUME NEW j \in Jobs PROVE Takes(j)
  BY ItemCountAssumption, HoldersAssumption
     DEF Init, Takes, Copies, Copy, Recorder, Recovery, Unpublished, Traceable, Missing, NoLease, Idle,
         Before, Early, Loop, Capturing
<1> QED
  BY <1>1, <1>2 DEF TakesInv

\* What a step of job j does not do to the other jobs.
Elsewhere(j) ==
    \A k \in Jobs \ {j} :
        /\ rows'[k] = rows[k] /\ mem'[k] = mem[k] /\ lease'[k] = lease[k] /\ runner'[k] = runner[k]
        /\ \A i : /\ <<k, i>> \in media' <=> <<k, i>> \in media
                  /\ <<k, i>> \in library' <=> <<k, i>> \in library
        /\ k \in touched' <=> k \in touched
        /\ \A c \in Calls : calls'[c].job = k => calls[c] = calls'[c]
        /\ \A write \in late' : write[1] = k => write \in late

\* A step of one job leaves the Takes of the others.
LEMMA OthersKeepTheirTakes ==
    ASSUME TakesInv, NEW j \in Jobs, Elsewhere(j), NEW k \in Jobs \ {j}
    PROVE  Takes(k)'
<1>1. Takes(k)
  BY DEF TakesInv
<1>2. /\ rows'[k] = rows[k] /\ mem'[k] = mem[k] /\ lease'[k] = lease[k] /\ runner'[k] = runner[k]
      /\ \A i : /\ <<k, i>> \in media' <=> <<k, i>> \in media
                /\ <<k, i>> \in library' <=> <<k, i>> \in library
      /\ k \in touched' <=> k \in touched
      /\ \A c \in Calls : calls'[c].job = k => calls[c] = calls'[c]
      /\ \A write \in late' : write[1] = k => write \in late
  BY DEF Elsewhere
<1>3. ASSUME NEW row, Copy(k, row) PROVE Copy(k, row)'
  BY <1>2, <1>3 DEF Copy
<1>4. Copies(k)'
  BY <1>1, <1>2, <1>3 DEF Takes, Copies, Unpublished
<1>5. Recorder(k)' /\ Recovery(k)'
  BY <1>1, <1>2 DEF Takes, Recorder, Recovery, HasEvidence, HasOutput, Unpublished
<1>6. lease'[k].item <= ItemCount[k] /\ (k \notin touched' => Traceable(k)')
  BY <1>1, <1>2 DEF Takes, Traceable, HasEvidence, HasOutput
<1> QED
  BY <1>4, <1>5, <1>6 DEF Takes

\* The rows, copies, leases and clips are what they should be.
LEMMA TakesTypes ==
    ASSUME TakesInv, NEW j \in Jobs
    PROVE  /\ rows[j] \in Row /\ mem[j] \in Row
           /\ lease[j] \in [item : Nat, published : BOOLEAN]
           /\ ItemCount[j] \in Nat \ {0}
           /\ DOMAIN rows = Jobs /\ DOMAIN mem = Jobs /\ DOMAIN lease = Jobs /\ DOMAIN runner = Jobs
           /\ \A c \in Calls : calls[c].snap \in Row
           /\ \A write \in late : write[1] \in Jobs /\ write[2] \in Row
BY ItemCountAssumption DEF TakesInv, TypeOK

\* A step of job j that leaves the requests and the late puts alone.
LEMMA OwnStepsStayElsewhere ==
    ASSUME TakesInv, NEW j \in Jobs, UNCHANGED <<calls, touched>>, late' \subseteq late,
           \A k \in Jobs \ {j} :
              /\ rows'[k] = rows[k] /\ mem'[k] = mem[k] /\ lease'[k] = lease[k] /\ runner'[k] = runner[k]
              /\ \A i : /\ <<k, i>> \in media' <=> <<k, i>> \in media
                        /\ <<k, i>> \in library' <=> <<k, i>> \in library
    PROVE  Elsewhere(j)
BY DEF Elsewhere

\* A step of job j keeps what it has to, of j alone.
LEMMA OwnStepsKeepTakes ==
    ASSUME TakesInv, NEW j \in Jobs,
           UNCHANGED <<calls, touched>>, late' \subseteq late,
           \A k \in Jobs \ {j} :
              /\ rows'[k] = rows[k] /\ mem'[k] = mem[k] /\ lease'[k] = lease[k] /\ runner'[k] = runner[k]
              /\ \A i : /\ <<k, i>> \in media' <=> <<k, i>> \in media
                        /\ <<k, i>> \in library' <=> <<k, i>> \in library,
           \A row \in Row : Copy(j, row) => Copy(j, row)',
           Copy(j, rows[j])', Copy(j, mem[j])',
           \A write \in late : write[1] = j /\ j \notin touched => Unpublished(j)',
           Recorder(j)', Recovery(j)', lease'[j].item <= ItemCount[j],
           j \notin touched => Traceable(j)'
    PROVE  \A k \in Jobs : Takes(k)'
<1>1. Elsewhere(j)
  BY OwnStepsStayElsewhere
<1>2. Copies(j)
  BY DEF TakesInv, Takes
<1>3. Copies(j)'
  BY <1>2, TakesTypes DEF Copies
<1>4. Takes(j)'
  BY <1>3 DEF Takes
<1> QED
  BY <1>1, <1>4, OthersKeepTheirTakes

\* Outputs stay where they are.
LEMMA CopiesStayTrue ==
    ASSUME NEW j \in Jobs, library \subseteq library',
           mem[j].outputs \in Nat, mem'[j].outputs \in Nat,
           runner'[j] \in Before \cup Loop =>
              runner[j] \in Before \cup Loop /\ mem[j].outputs <= mem'[j].outputs,
           \/ media \subseteq media'
           \/ runner[j] \in Loop /\ \A i \in 1..mem[j].outputs : <<j, i>> \in media => <<j, i>> \in media',
           NEW row \in Row, Copy(j, row)
    PROVE  Copy(j, row)'
BY DEF Copy, Row

\* Nothing of j changes but where its runner stands.
LEMMA MovesKeepTakes ==
    ASSUME TakesInv, NEW j \in Jobs,
           UNCHANGED <<rows, mem, library, media, lease, calls, touched>>, late' \subseteq late,
           \A k \in Jobs \ {j} : runner'[k] = runner[k],
           runner'[j] \in Before \cup Loop => runner[j] \in Before \cup Loop,
           Recorder(j)', Recovery(j)'
    PROVE  \A k \in Jobs : Takes(k)'
<1>1. Elsewhere(j)
  BY OwnStepsStayElsewhere
<1>2. Takes(j)
  BY DEF TakesInv
<1>3. ASSUME NEW row, Copy(j, row) PROVE Copy(j, row)'
  BY <1>3 DEF Copy
<1>4. Copies(j)'
  BY <1>2, <1>3 DEF Takes, Copies, Unpublished
<1>5. Takes(j)'
  BY <1>2, <1>4 DEF Takes, Traceable, HasEvidence, HasOutput
<1> QED
  BY <1>1, <1>5, OthersKeepTheirTakes

\* The runner puts its own copy, or fails to and goes where it is told.
LEMMA PutsKeepTakes ==
    ASSUME TakesInv, NEW j \in Jobs, runner[j] \in Loop, NEW row \in Row,
           UNCHANGED <<library, media, lease, calls, late, touched>>,
           \A k \in Jobs \ {j} : runner'[k] = runner[k] /\ rows'[k] = rows[k] /\ mem'[k] = mem[k],
           rows'[j] \in {rows[j], row}, mem'[j] \in {mem[j], row},
           mem[j].outputs <= row.outputs, Copy(j, row)',
           mem'[j] = row \/ runner'[j] \notin Before \cup Loop \/ row.outputs = mem[j].outputs,
           Recorder(j)', Recovery(j)'
    PROVE  \A k \in Jobs : Takes(k)'
<1> USE TakesTypes
<1>1. Takes(j)
  BY DEF TakesInv
<1>2. rows[j] \in Row /\ mem[j] \in Row /\ mem'[j].outputs \in Nat /\ mem[j].outputs \in Nat
      /\ row.outputs \in Nat /\ rows[j].outputs \in Nat
  BY DEF Row
<1>3. ASSUME NEW copy \in Row, Copy(j, copy) PROVE Copy(j, copy)'
  BY <1>2, <1>3, CopiesStayTrue DEF Before
<1>4. Copy(j, rows[j])' /\ Copy(j, mem[j])'
  <2>1. Copy(j, rows[j]) /\ Copy(j, mem[j])
    BY <1>1 DEF Takes, Copies
  <2>2. Copy(j, rows[j]) => \A copy : copy = rows[j] => Copy(j, copy)'
    BY <1>2, <1>3
  <2> QED
    BY <1>2, <1>3, <2>1 DEF Copy
<1>5. rows[j].outputs <= rows'[j].outputs
  BY <1>1, <1>2 DEF Takes, Copies, Copy
<1>6. j \notin touched => Traceable(j)'
  BY <1>1, <1>2, <1>5 DEF Takes, Traceable, HasEvidence, HasOutput
<1>7. \A write \in late : write[1] = j /\ j \notin touched => Unpublished(j)'
  BY <1>1 DEF Takes, Copies, Unpublished
<1> QED
  BY <1>1, <1>3, <1>4, <1>6, <1>7, OwnStepsKeepTakes DEF Takes

\* While a job runs only what a cancel request copied may be written late.
LEMMA RunningJobsAreNotWritten ==
    ASSUME TakesInv, RecInv, NEW j \in Jobs, runner[j] \in Loop,
           NEW write \in late, write[1] = j
    PROVE  j \in touched
BY DEF TakesInv, Takes, Copies, RecInv, LatePuts, Live

\* A step of the backend: the lease, the clip and the library.
LEMMA FilesKeepTakes ==
    ASSUME TakesInv, RecInv, NEW j \in Jobs, runner[j] \in Loop,
           UNCHANGED <<rows, mem, calls, late, touched>>,
           \A k \in Jobs \ {j} :
              /\ lease'[k] = lease[k] /\ runner'[k] = runner[k]
              /\ \A i : /\ <<k, i>> \in media' <=> <<k, i>> \in media
                        /\ <<k, i>> \in library' <=> <<k, i>> \in library,
           library \subseteq library',
           \A i \in 1..mem[j].outputs : <<j, i>> \in media => <<j, i>> \in media',
           Recorder(j)', Recovery(j)', lease'[j].item <= ItemCount[j],
           j \notin touched => Traceable(j)'
    PROVE  \A k \in Jobs : Takes(k)'
<1> USE TakesTypes
<1>1. Takes(j)
  BY DEF TakesInv
<1>2. mem[j].outputs \in Nat /\ rows[j] \in Row /\ mem[j] \in Row
  BY DEF Row
<1>3. ASSUME NEW copy \in Row, Copy(j, copy) PROVE Copy(j, copy)'
  BY <1>2, <1>3, CopiesStayTrue
<1>4. Copy(j, rows[j])' /\ Copy(j, mem[j])'
  BY <1>1, <1>2, <1>3 DEF Takes, Copies, Copy
<1> QED
  BY <1>3, <1>4, RunningJobsAreNotWritten, OwnStepsKeepTakes

\* A put of the runner, whether or not it succeeds.
LEMMA PersistingKeepsTakes ==
    ASSUME TakesInv, NEW j \in Jobs,
           \/ Announce(j) \/ PushOutput(j) \/ AdvanceCursor(j) \/ PersistTerminal(j) \/ PersistStage(j)
    PROVE  \A k \in Jobs : Takes(k)'
<1> USE TakesTypes DEF pending, aux, files
<1>0. Takes(j)
  BY DEF TakesInv
<1>1. rows[j] \in Row /\ mem[j] \in Row /\ ItemCount[j] \in Nat
  OBVIOUS
<1>2. mem[j].cursor \in Nat /\ mem[j].outputs \in Nat /\ rows[j].outputs \in Nat
  BY <1>1 DEF Row
<1>3. mem[j] = [status |-> mem[j].status, cursor |-> mem[j].cursor, outputs |-> mem[j].outputs]
  BY <1>1 DEF Row
<1>4. CASE Announce(j) \/ PersistStage(j)
  <2>1. /\ UNCHANGED <<mem, library, media, lease, calls, late, touched>>
        /\ \A k \in Jobs \ {j} : runner'[k] = runner[k] /\ rows'[k] = rows[k]
        /\ rows'[j] \in {rows[j], mem[j]}
        /\ \/ runner[j] = "announce" /\ (runner'[j] = "record" \/ runner'[j] = "fail")
           \/ runner[j] \in {"record", "capture", "verified", "store"} /\ runner' = runner
    BY <1>4 DEF Announce, PutOrFail, PersistStage, Goto, Put
  <2>2. Copy(j, mem[j]) /\ runner[j] \in Loop /\ runner'[j] \in Loop
    BY <1>0, <2>1 DEF Takes, Copies, Loop, Capturing
  <2>3. Recorder(j)' /\ Recovery(j)'
    BY <1>0, <2>1 DEF Takes, Recorder, Recovery, HasEvidence, Before, Early, Loop, Capturing
  <2>4. Copy(j, mem[j])'
    BY <1>2, <2>1, <2>2 DEF Copy
  <2> QED
    BY <1>1, <1>2, <2>1, <2>2, <2>3, <2>4, PutsKeepTakes
<1>5. CASE PushOutput(j)
  <2>1. PICK pushed :
        /\ pushed = [mem[j] EXCEPT !.outputs = @ + 1]
        /\ UNCHANGED <<library, media, lease, calls, late, touched>>
        /\ \A k \in Jobs \ {j} : runner'[k] = runner[k] /\ rows'[k] = rows[k] /\ mem'[k] = mem[k]
        /\ mem'[j] = pushed /\ runner[j] = "push"
        /\ \/ rows'[j] = pushed /\ runner'[j] = "retire"
           \/ rows'[j] = rows[j] /\ runner'[j] = "fail"
    BY <1>5 DEF PushOutput, PutOrFail, Goto, Put, Remember
  <2>2. pushed = [status |-> mem[j].status, cursor |-> mem[j].cursor, outputs |-> mem[j].outputs + 1]
    BY <1>3, <2>1
  <2>3. pushed \in Row /\ pushed.cursor = mem[j].cursor /\ pushed.outputs = mem[j].outputs + 1
    BY <1>1, <1>2, <2>2 DEF Row
  <2>4. mem[j].outputs = mem[j].cursor /\ mem[j].cursor + 1 <= ItemCount[j]
        /\ <<j, mem[j].outputs + 1>> \in library \cap media
    BY <1>0, <2>1 DEF Takes, Recorder, Loop, Capturing
  <2>5. Copy(j, mem[j]) /\ mem'[j].outputs = mem[j].outputs + 1 /\ mem'[j].cursor = mem[j].cursor
    BY <1>0, <2>1, <2>3 DEF Takes, Copies
  <2>6. Copy(j, pushed)'
    <3>1. ASSUME NEW i \in 1..pushed.outputs PROVE <<j, i>> \in library \cap media
      <4>1. CASE i = mem[j].outputs + 1
        BY <2>4, <4>1
      <4>2. CASE i # mem[j].outputs + 1
        <5>1. i \in 1..mem[j].outputs
          BY <1>2, <2>3, <4>2
        <5> QED
          BY <2>5, <5>1 DEF Copy
      <4> QED
        BY <4>1, <4>2
    <3>2. pushed.cursor <= ItemCount[j] /\ pushed.outputs <= ItemCount[j] /\ pushed.outputs <= mem'[j].outputs
      BY <1>1, <1>2, <2>3, <2>4, <2>5
    <3> QED
      BY <2>1, <3>1, <3>2 DEF Copy
  <2>7. Recorder(j)' /\ Recovery(j)'
    BY <1>0, <2>1, <2>3, <2>4 DEF Takes, Recorder, Recovery, HasEvidence, Before, Early, Loop, Capturing
  <2>8. runner[j] \in Loop /\ rows'[j] \in {rows[j], pushed} /\ mem'[j] \in {mem[j], pushed}
        /\ mem[j].outputs <= pushed.outputs
    BY <1>2, <2>1, <2>3 DEF Loop, Capturing
  <2> QED
    BY <2>1, <2>3, <2>6, <2>7, <2>8, PutsKeepTakes
<1>6. CASE AdvanceCursor(j)
  <2>1. PICK advanced :
        /\ advanced = [mem[j] EXCEPT !.cursor = @ + 1]
        /\ UNCHANGED <<library, media, lease, calls, late, touched>>
        /\ \A k \in Jobs \ {j} : runner'[k] = runner[k] /\ rows'[k] = rows[k] /\ mem'[k] = mem[k]
        /\ mem'[j] = advanced /\ runner[j] = "advance"
        /\ \/ rows'[j] = advanced /\ runner'[j] = "check"
           \/ rows'[j] = rows[j] /\ runner'[j] = "fail"
    BY <1>6 DEF AdvanceCursor, PutOrFail, Goto, Put, Remember
  <2>2. advanced = [status |-> mem[j].status, cursor |-> mem[j].cursor + 1, outputs |-> mem[j].outputs]
    BY <1>3, <2>1
  <2>3. advanced \in Row /\ advanced.cursor = mem[j].cursor + 1 /\ advanced.outputs = mem[j].outputs
    BY <1>1, <1>2, <2>2 DEF Row
  <2>4. mem[j].outputs = mem[j].cursor + 1 /\ mem[j].cursor + 1 <= ItemCount[j] /\ lease[j] = NoLease
    BY <1>0, <2>1 DEF Takes, Recorder, Loop, Capturing
  <2>5. Copy(j, mem[j]) /\ mem'[j].outputs = mem[j].outputs /\ mem'[j].cursor = mem[j].cursor + 1
    BY <1>0, <2>1, <2>3 DEF Takes, Copies
  <2>6. Copy(j, advanced)'
    <3>1. \A i \in 1..advanced.outputs : <<j, i>> \in library \cap media
      BY <2>3, <2>5 DEF Copy
    <3>2. advanced.cursor <= ItemCount[j] /\ advanced.outputs <= ItemCount[j]
          /\ advanced.outputs <= mem'[j].outputs
      BY <1>1, <1>2, <2>3, <2>4, <2>5
    <3> QED
      BY <2>1, <3>1, <3>2 DEF Copy
  <2>7. Recorder(j)' /\ Recovery(j)'
    BY <1>0, <2>1, <2>3, <2>4 DEF Takes, Recorder, Recovery, HasEvidence, Before, Early, Loop, Capturing
  <2>8. runner[j] \in Loop /\ rows'[j] \in {rows[j], advanced} /\ mem'[j] \in {mem[j], advanced}
        /\ mem[j].outputs <= advanced.outputs
    BY <1>2, <2>1, <2>3 DEF Loop, Capturing
  <2> QED
    BY <2>1, <2>3, <2>6, <2>7, <2>8, PutsKeepTakes
<1>7. CASE PersistTerminal(j)
  <2>1. PICK verdict \in Verdicts(j) :
              /\ UNCHANGED <<mem, library, media, lease, calls, late, touched>>
              /\ \A k \in Jobs \ {j} : runner'[k] = runner[k] /\ rows'[k] = rows[k]
              /\ rows'[j] \in {rows[j], verdict}
              /\ runner[j] \in Loop /\ runner'[j] = "unregister"
    BY <1>7 DEF PersistTerminal, Goto, Put, Loop
  <2>2. verdict \in Row /\ verdict.outputs = mem[j].outputs /\ verdict.cursor <= ItemCount[j]
    <3>1. /\ verdict.outputs = mem[j].outputs
          /\ \E status \in Statuses, cursor \in {mem[j].cursor, ItemCount[j]} :
                verdict = [status |-> status, cursor |-> cursor, outputs |-> mem[j].outputs]
      <4>1. PICK status \in {"cancelled", "completed", "failed"} :
               \/ verdict = [mem[j] EXCEPT !.status = status]
               \/ verdict = [mem[j] EXCEPT !.status = status, !.cursor = ItemCount[j]]
        BY DEF Verdicts
      <4>2. CASE verdict = [mem[j] EXCEPT !.status = status]
        <5>1. verdict = [status |-> status, cursor |-> mem[j].cursor, outputs |-> mem[j].outputs]
          BY <1>3, <4>2
        <5> QED
          BY <5>1 DEF Statuses
      <4>3. CASE verdict = [mem[j] EXCEPT !.status = status, !.cursor = ItemCount[j]]
        <5>1. verdict = [status |-> status, cursor |-> ItemCount[j], outputs |-> mem[j].outputs]
          BY <1>3, <4>3
        <5> QED
          BY <5>1 DEF Statuses
      <4> QED
        BY <4>1, <4>2, <4>3
    <3>2. mem[j].cursor <= ItemCount[j]
      BY <1>0 DEF Takes, Copies, Copy
    <3> QED
      BY <1>1, <1>2, <3>1, <3>2 DEF Row
  <2>3. Copy(j, verdict)'
    BY <1>0, <1>2, <2>1, <2>2 DEF Takes, Copies, Copy, Before, Early, Loop, Capturing
  <2>4. Recorder(j)' /\ Recovery(j)'
    BY <2>1 DEF Recorder, Recovery, Before, Early, Loop, Capturing
  <2>5. runner'[j] \notin Before \cup Loop
    BY <2>1 DEF Before, Early, Loop, Capturing
  <2> QED
    BY <1>2, <2>1, <2>2, <2>3, <2>4, <2>5, PutsKeepTakes
<1> QED
  BY <1>4, <1>5, <1>6, <1>7

\* A published lease keeps its item.
LEMMA LeaseRecords ==
    ASSUME NEW n, NEW l, l = [item |-> n, published |-> FALSE], NEW m, m = [l EXCEPT !.published = TRUE]
    PROVE  m = [item |-> n, published |-> TRUE]
<1>1. DOMAIN m = {"item", "published"} /\ m.item = n /\ m.published = TRUE
  OBVIOUS
<1> QED
  BY <1>1

\* An unpublished lease is no evidence.
LEMMA UnpublishedLeases ==
    ASSUME NEW j \in Jobs, ~lease[j].published
    PROVE  \A i : ~HasEvidence(j, i)
BY DEF HasEvidence

\* Capture, verification, publication and the library.
LEMMA CapturingKeepsTakes ==
    ASSUME TakesInv, RecInv, NEW j \in Jobs,
           \/ BeginCapture(j) \/ CaptureFails(j) \/ RetireEvidence(j)
           \/ MarkPublished(j) \/ StoreClip(j) \/ DiscardClip(j)
    PROVE  \A k \in Jobs : Takes(k)'
<1> USE TakesTypes DEF pending, aux, files
<1> DEFINE next == mem[j].cursor + 1
<1>0. Takes(j)
  BY DEF TakesInv
<1>1. /\ mem[j].cursor \in Nat /\ mem[j].outputs \in Nat /\ rows[j].outputs \in Nat
      /\ lease[j].item \in Nat
      /\ UNCHANGED <<rows, mem, calls, late, touched>>
  BY DEF Row, BeginCapture, CaptureFails, RetireEvidence, MarkPublished, StoreClip, DiscardClip
<1>2. CASE BeginCapture(j)
  <2>1. /\ UNCHANGED <<library, media>> /\ runner[j] = "record" /\ runner'[j] = "capture"
        /\ lease'[j] = [item |-> next, published |-> FALSE]
        /\ \A k \in Jobs \ {j} : lease'[k] = lease[k] /\ runner'[k] = runner[k]
    BY <1>2 DEF BeginCapture, Goto
  <2>2. next <= ItemCount[j] /\ lease[j] = NoLease
    BY <1>0, <2>1 DEF Takes, Recorder, Loop, Capturing
  <2>3. Recorder(j)' /\ Recovery(j)'
    BY <1>0, <1>1, <2>1, <2>2 DEF Takes, Recorder, Recovery, HasEvidence, Before, Early, Loop, Capturing
  <2>4. j \notin touched => Traceable(j)'
    BY <1>0, <1>1, <2>1, <2>2 DEF Takes, Traceable, HasEvidence, HasOutput, NoLease
  <2> QED
    BY <1>1, <2>1, <2>2, <2>3, <2>4, FilesKeepTakes DEF Loop, Capturing
<1>3. CASE CaptureFails(j)
  <2>1. /\ UNCHANGED <<library, media>> /\ runner[j] \in {"record", "capture", "verified"} /\ runner'[j] = "fail"
        /\ lease'[j] \in {lease[j], NoLease}
        /\ \A k \in Jobs \ {j} : lease'[k] = lease[k] /\ runner'[k] = runner[k]
    BY <1>3 DEF CaptureFails, Goto
  <2>2. ~lease[j].published
    BY <1>0, <2>1 DEF Takes, Recorder, Loop, Capturing, NoLease
  <2>3. Recorder(j)' /\ Recovery(j)'
    BY <2>1 DEF Recorder, Recovery, Before, Early, Loop, Capturing
  <2>4. j \notin touched => Traceable(j)'
    BY <1>0, <1>1, <2>1, <2>2, UnpublishedLeases DEF Takes, Traceable, HasOutput
  <2>5. lease'[j].item <= ItemCount[j] /\ runner[j] \in Loop
    BY <1>0, <2>1 DEF Takes, NoLease, Loop, Capturing
  <2> QED
    BY <1>1, <2>1, <2>3, <2>4, <2>5, FilesKeepTakes
<1>4. CASE RetireEvidence(j)
  <2>1. /\ UNCHANGED <<library, media>> /\ runner[j] = "retire"
        /\ \/ runner'[j] = "advance" /\ lease'[j] = NoLease
           \/ runner'[j] = "fail" /\ lease'[j] = lease[j]
        /\ \A k \in Jobs \ {j} : lease'[k] = lease[k] /\ runner'[k] = runner[k]
    BY <1>4 DEF RetireEvidence, Goto
  <2>2. /\ HasEvidence(j, next) /\ <<j, next>> \in library
        /\ mem[j].outputs = next /\ next <= ItemCount[j]
        /\ j \notin touched => rows[j].outputs = next
    BY <1>0, <2>1 DEF Takes, Recorder, Loop, Capturing
  <2>3. Recorder(j)' /\ Recovery(j)'
    BY <1>1, <2>1, <2>2 DEF Recorder, Recovery, Before, Early, Loop, Capturing
  <2>4. j \notin touched => Traceable(j)'
    <3> SUFFICES ASSUME j \notin touched, NEW i \in 1..ItemCount[j], <<j, i>> \in media
                 PROVE  HasEvidence(j, i)' \/ HasOutput(j, i)'
      BY <2>1 DEF Traceable
    <3>1. HasEvidence(j, i) \/ HasOutput(j, i)
      BY <1>0 DEF Takes, Traceable
    <3>2. CASE i = next
      BY <1>1, <2>1, <2>2, <3>2 DEF HasOutput
    <3>3. CASE i # next
      <4>1. HasOutput(j, i)
        BY <2>2, <3>1, <3>3 DEF HasEvidence
      <4> QED
        BY <1>1, <2>1, <4>1 DEF HasOutput
    <3> QED
      BY <3>2, <3>3
  <2>5. lease'[j].item <= ItemCount[j] /\ runner[j] \in Loop
    BY <1>0, <2>1 DEF NoLease, Loop, Capturing, Takes
  <2> QED
    BY <1>1, <2>1, <2>3, <2>4, <2>5, FilesKeepTakes
<1>5. CASE MarkPublished(j)
  <2>1. /\ library' = library /\ runner[j] = "verified" /\ runner'[j] = "store"
        /\ media' = media \cup {<<j, lease[j].item>>}
        /\ lease' = [lease EXCEPT ![j].published = TRUE]
        /\ \A k \in Jobs \ {j} : lease'[k] = lease[k] /\ runner'[k] = runner[k]
    BY <1>5 DEF MarkPublished, Goto
  <2>2. /\ lease[j] = [item |-> next, published |-> FALSE] /\ next <= ItemCount[j]
        /\ mem[j].outputs = mem[j].cursor
    BY <1>0, <2>1 DEF Takes, Recorder, Loop, Capturing
  <2>3. lease'[j] = [item |-> next, published |-> TRUE]
    <3>1. lease'[j] = [lease[j] EXCEPT !.published = TRUE]
      BY <2>1
    <3>2. lease[j] = [item |-> next, published |-> FALSE]
      BY <2>2
    <3>3. next \in Nat
      BY <1>1
    <3> HIDE DEF next
    <3> QED
      BY <3>1, <3>2, <3>3, LeaseRecords
  <2>4. Recorder(j)' /\ Recovery(j)'
    BY <1>1, <2>1, <2>2, <2>3 DEF Recorder, Recovery, HasEvidence, Before, Early, Loop, Capturing
  <2>5. j \notin touched => Traceable(j)'
    <3> SUFFICES ASSUME j \notin touched, NEW i \in 1..ItemCount[j], <<j, i>> \in media'
                 PROVE  HasEvidence(j, i)' \/ HasOutput(j, i)'
      BY <2>1 DEF Traceable
    <3>1. CASE i = next
      BY <2>3, <3>1 DEF HasEvidence
    <3>2. CASE i # next
      <4>1. <<j, i>> \in media
        BY <2>1, <2>2, <3>2
      <4>2. HasOutput(j, i)
        <5>1. ~lease[j].published
          BY <2>2
        <5> QED
          BY <1>0, <4>1, <5>1, UnpublishedLeases DEF Takes, Traceable
      <4> QED
        BY <1>1, <2>1, <4>2 DEF HasOutput
    <3> QED
      BY <3>1, <3>2
  <2>6. runner[j] \in Loop /\ lease'[j].item <= ItemCount[j]
    BY <2>1, <2>2, <2>3 DEF Loop, Capturing
  <2> QED
    BY <1>1, <2>1, <2>4, <2>5, <2>6, FilesKeepTakes
<1>6. CASE StoreClip(j)
  <2>1. /\ UNCHANGED <<media, lease>> /\ runner[j] = "store" /\ runner'[j] = "push"
        /\ library' = library \cup {<<j, lease[j].item>>}
        /\ \A k \in Jobs \ {j} : runner'[k] = runner[k]
    BY <1>6 DEF StoreClip, Goto
  <2>2. /\ HasEvidence(j, next) /\ <<j, next>> \in media /\ next <= ItemCount[j]
        /\ mem[j].outputs = mem[j].cursor
    BY <1>0, <2>1 DEF Takes, Recorder, Loop, Capturing
  <2>3. Recorder(j)' /\ Recovery(j)'
    BY <1>1, <2>1, <2>2 DEF Recorder, Recovery, HasEvidence, Before, Early, Loop, Capturing
  <2>4. j \notin touched => Traceable(j)'
    BY <1>0, <1>1, <2>1, <2>2 DEF Takes, Traceable, HasEvidence, HasOutput
  <2>5. runner[j] \in Loop /\ lease'[j].item <= ItemCount[j]
    BY <1>0, <2>1 DEF Loop, Capturing, Takes
  <2> QED
    BY <1>1, <2>1, <2>3, <2>4, <2>5, FilesKeepTakes
<1>7. CASE DiscardClip(j)
  <2>1. /\ UNCHANGED <<library, lease>> /\ runner[j] = "store" /\ runner'[j] = "fail"
        /\ media' = media \ {<<j, lease[j].item>>}
        /\ \A k \in Jobs \ {j} : runner'[k] = runner[k]
    BY <1>7 DEF DiscardClip, Goto
  <2>2. lease[j].item = next /\ mem[j].outputs = mem[j].cursor
    BY <1>0, <2>1 DEF Takes, Recorder, HasEvidence, Loop, Capturing
  <2>3. Recorder(j)' /\ Recovery(j)'
    BY <2>1 DEF Recorder, Recovery, Before, Early, Loop, Capturing
  <2>4. j \notin touched => Traceable(j)'
    BY <1>0, <1>1, <2>1 DEF Takes, Traceable, HasEvidence, HasOutput
  <2>5. runner[j] \in Loop /\ lease'[j].item <= ItemCount[j]
    BY <1>0, <2>1 DEF Loop, Capturing, Takes
  <2> QED
    BY <1>1, <2>1, <2>2, <2>3, <2>4, <2>5, FilesKeepTakes
<1> QED
  BY <1>2, <1>3, <1>4, <1>5, <1>6, <1>7

\* The runner goes on to the next clip or to its end.
LEMMA GoingOnKeepsTakes ==
    ASSUME TakesInv, NEW j \in Jobs, NextItem(j) \/ VerifyOutput(j) \/ Unregister(j)
    PROVE  \A k \in Jobs : Takes(k)'
<1> USE TakesTypes DEF pending, aux, files
<1>0. Takes(j)
  BY DEF TakesInv
<1>1. /\ UNCHANGED <<rows, mem, library, media, lease, calls, touched, late>>
      /\ \A k \in Jobs \ {j} : runner'[k] = runner[k]
      /\ \/ runner[j] = "check" /\ runner'[j] = "finish"
         \/ runner[j] = "check" /\ runner'[j] = "announce" /\ mem[j].cursor # ItemCount[j]
         \/ runner[j] = "capture" /\ runner'[j] = "verified"
         \/ runner[j] = "unregister" /\ runner'[j] = "done"
  BY DEF NextItem, VerifyOutput, Unregister, Goto
<1>2. mem[j].cursor \in Nat /\ mem[j].cursor <= ItemCount[j]
  BY <1>0 DEF Takes, Copies, Copy, Row
<1>3. Recorder(j)'
  BY <1>0, <1>1, <1>2 DEF Takes, Recorder, HasEvidence, Before, Early, Loop, Capturing
<1>4. Recovery(j)'
  BY <1>1 DEF Recovery
<1>5. runner'[j] \in Before \cup Loop => runner[j] \in Before \cup Loop
  BY <1>1 DEF Before, Early, Loop, Capturing
<1> QED
  BY <1>1, <1>3, <1>4, <1>5, MovesKeepTakes

\* The task that records a job.
LEMMA RecordingKeepsTakes ==
    ASSUME TakesInv, RecInv, NEW j \in Jobs, Record(j) \/ PersistStage(j)
    PROVE  \A k \in Jobs : Takes(k)'
BY PersistingKeepsTakes, CapturingKeepsTakes, GoingOnKeepsTakes, Zenon DEF Record

----------------------------------------------------------------------------
(* The starts and the recovery.                                            *)

\* Nobody touches a row, a clip, a lease or a copy.
LEMMA QuietStepsKeepTakes ==
    ASSUME TakesInv, UNCHANGED <<rows, mem, library, media, lease, runner, calls, touched, late>>
    PROVE  \A k \in Jobs : Takes(k)'
<1> SUFFICES ASSUME NEW j \in Jobs PROVE Takes(j)'
  OBVIOUS
<1>1. Takes(j)
  BY DEF TakesInv
<1>2. Copies(j)'
  <2>1. ASSUME NEW row, Copy(j, row) PROVE Copy(j, row)'
    BY <2>1 DEF Copy
  <2>2. Copy(j, rows[j])' /\ Copy(j, mem[j])'
    BY <1>1 DEF Takes, Copies, Copy
  <2>3. ASSUME NEW c \in Calls, calls[c]'.job = j
        PROVE  Copy(j, calls[c].snap)' /\ (calls'[c].pc \in {"put", "again"} => j \in touched')
    BY <1>1, <2>3 DEF Takes, Copies, Copy
  <2>4. ASSUME NEW write \in late, write[1] = j
        PROVE  Copy(j, write[2])' /\ (j \in touched' \/ (Unpublished(j)' /\ write[2].status # "cancelling"))
    BY <1>1, <2>1, <2>4 DEF Takes, Copies, Unpublished
  <2> QED
    BY <2>2, <2>3, <2>4 DEF Copies
<1>3. Recorder(j)'
  BY <1>1 DEF Takes, Recorder, HasEvidence, Unpublished
<1>4. Recovery(j)'
  BY <1>1 DEF Takes, Recovery, HasEvidence, HasOutput
<1>5. lease'[j].item <= ItemCount[j] /\ (j \notin touched' => Traceable(j)')
  BY <1>1 DEF Takes, Traceable, HasEvidence, HasOutput
<1> QED
  BY <1>2, <1>3, <1>4, <1>5 DEF Takes

\* A row of a new job has no outputs.
LEMMA FreshRows ==
    ASSUME NEW status
    PROVE  Fresh(status) = [status |-> status, cursor |-> 0, outputs |-> 0]
BY DEF Fresh, Missing

\* A copy with the same cursor and outputs is a copy of the row.
LEMMA CopiesAreOfOutputs ==
    ASSUME NEW j \in Jobs, NEW row, Copy(j, row), NEW copy,
           copy.cursor = row.cursor, copy.outputs = row.outputs
    PROVE  Copy(j, copy)
BY DEF Copy

\* A row that is put while its runner does not record.
LEMMA RowsKeepTakes ==
    ASSUME TakesInv, NEW j \in Jobs,
           UNCHANGED <<mem, library, media, lease, calls, touched>>, late' \subseteq late,
           \A k \in Jobs \ {j} : rows'[k] = rows[k] /\ runner'[k] = runner[k],
           runner'[j] \in Before \cup Loop => runner[j] \in Before \cup Loop,
           Copy(j, rows'[j]),
           j \in touched \/ Unpublished(j) \/ rows'[j].outputs = rows[j].outputs,
           Recorder(j)', Recovery(j)'
    PROVE  \A k \in Jobs : Takes(k)'
<1> USE TakesTypes
<1>1. Takes(j)
  BY DEF TakesInv
<1>2. ASSUME NEW row, Copy(j, row) PROVE Copy(j, row)'
  BY <1>2 DEF Copy
<1>3. Copy(j, rows[j])' /\ Copy(j, mem[j])'
  <2>1. Copy(j, mem[j])
    BY <1>1 DEF Takes, Copies
  <2> QED
    BY <2>1 DEF Copy
<1>4. j \notin touched => Traceable(j)'
  BY <1>1 DEF Takes, Traceable, HasEvidence, HasOutput, Unpublished
<1>5. \A write \in late : write[1] = j /\ j \notin touched => Unpublished(j)'
  BY <1>1 DEF Takes, Copies, Unpublished
<1>6. lease'[j].item <= ItemCount[j]
  BY <1>1 DEF Takes
<1> QED
  BY <1>2, <1>3, <1>4, <1>5, <1>6, OwnStepsKeepTakes

\* A start reserves, registers and writes its row.
LEMMA StartingKeepsTakes ==
    ASSUME TakesInv, RecInv, NEW j \in Jobs,
           \/ Reserve(j) \/ Register(j) \/ Launch(j) \/ RefuseStart(j) \/ StartFails(j)
           \/ StartFailsUnsaved(j) \/ AbortFails(j)
    PROVE  \A k \in Jobs : Takes(k)'
<1>1. /\ UNCHANGED <<rows, mem, library, media, lease, calls, touched, late>>
      /\ \A k \in Jobs \ {j} : runner'[k] = runner[k]
      /\ runner[j] \in Before \cup {"aborted"} /\ runner'[j] \in Before \cup {"aborted", "done"}
      /\ runner'[j] \in Before => runner[j] \in Before
  BY TakesTypes DEF Reserve, Register, Launch, RefuseStart, StartFails, StartFailsUnsaved, AbortFails,
     Goto, pending, aux, files, Before, Early
<1>2. Recorder(j)'
  BY <1>1 DEF TakesInv, Takes, Recorder, Unpublished, Before, Early, Loop, Capturing
<1>3. Recovery(j)'
  BY <1>1 DEF Recovery, Before, Early
<1>4. runner'[j] \in Before \cup Loop => runner[j] \in Before \cup Loop
  BY <1>1 DEF Before, Early, Loop, Capturing
<1> QED
  BY <1>1, <1>2, <1>3, <1>4, MovesKeepTakes

\* A new status leaves the outputs of a row.
LEMMA StatusesKeepOutputs ==
    ASSUME TakesInv, NEW j \in Jobs, NEW status, PutStatus(j, status)
    PROVE  /\ \A k \in Jobs \ {j} : rows'[k] = rows[k]
           /\ rows'[j].cursor = rows[j].cursor /\ rows'[j].outputs = rows[j].outputs
<1>1. DOMAIN rows = Jobs /\ DOMAIN rows[j] = {"status", "cursor", "outputs"}
  BY TakesTypes DEF Row
<1> QED
  BY <1>1 DEF PutStatus

\* A start, or its cleanup, puts a row of a job that does not run.
LEMMA EndingKeepsTakes ==
    ASSUME TakesInv, RecInv, NEW j \in Jobs,
           Enqueue(j) \/ RetryFails(j) \/ CancelledWhilePreparing(j) \/ AbortStartup(j)
    PROVE  \A k \in Jobs : Takes(k)'
<1> USE DEF pending, aux, files
<1>0. Takes(j) /\ rows[j] \in Row /\ mem[j] \in Row /\ ItemCount[j] \in Nat
  BY TakesTypes DEF TakesInv
<1>1. /\ UNCHANGED <<mem, library, media, lease, calls, touched, late>>
      /\ \A k \in Jobs \ {j} : runner'[k] = runner[k]
      /\ runner[j] \in Before \cup {"aborted"} /\ runner'[j] \in Before \cup {"aborted", "done"}
      /\ runner'[j] \in Before => runner[j] \in Before
  BY TakesTypes DEF Enqueue, RetryFails, CancelledWhilePreparing, AbortStartup, Goto, Before, Early
<1>2. /\ \A k \in Jobs \ {j} : rows'[k] = rows[k]
      /\ \/ rows'[j].cursor = 0 /\ rows'[j].outputs = 0 /\ runner[j] \in Before
         \/ rows'[j].cursor = rows[j].cursor /\ rows'[j].outputs = rows[j].outputs
  <2>1. CASE Enqueue(j) \/ RetryFails(j)
    <3>1. PICK status : Put(j, Fresh(status)) /\ runner[j] \in Before
      BY <2>1 DEF Enqueue, RetryFails, Goto, Before, Early
    <3>2. \A k \in Jobs \ {j} : rows'[k] = rows[k] /\ rows'[j] = Fresh(status)
      BY <3>1, TakesTypes DEF Put
    <3>3. rows'[j] = Fresh(status)
      BY <3>1, TakesTypes DEF Put
    <3>4. rows'[j].cursor = 0 /\ rows'[j].outputs = 0
      BY <3>3, FreshRows
    <3> QED
      BY <3>1, <3>2, <3>4
  <2>2. CASE CancelledWhilePreparing(j)
    BY <2>2, StatusesKeepOutputs DEF CancelledWhilePreparing
  <2>3. CASE AbortStartup(j)
    BY <2>3, StatusesKeepOutputs DEF AbortStartup
  <2> QED
    BY <2>1, <2>2, <2>3
<1>3. Recorder(j)'
  BY <1>0, <1>1 DEF Takes, Recorder, Unpublished, Before, Early, Loop, Capturing
<1>4. Recovery(j)'
  BY <1>1 DEF Recovery, Before, Early
<1>5. runner'[j] \in Before \cup Loop => runner[j] \in Before \cup Loop
  BY <1>1 DEF Before, Early, Loop, Capturing
<1>6. Copy(j, rows'[j])
  <2>1. CASE rows'[j].cursor = 0 /\ rows'[j].outputs = 0
    BY <1>0, <2>1 DEF Copy, Row
  <2>2. CASE rows'[j].cursor = rows[j].cursor /\ rows'[j].outputs = rows[j].outputs
    BY <1>0, <2>2, CopiesAreOfOutputs DEF Takes, Copies
  <2> QED
    BY <1>2, <2>1, <2>2
<1>7. j \in touched \/ Unpublished(j) \/ rows'[j].outputs = rows[j].outputs
  BY <1>0, <1>2 DEF Takes, Recorder
<1> QED
  BY <1>1, <1>2, <1>3, <1>4, <1>5, <1>6, <1>7, RowsKeepTakes

\* The row says Running.
LEMMA RunningKeepsTakes ==
    ASSUME TakesInv, RecInv, NEW j \in Jobs, Run(j)
    PROVE  \A k \in Jobs : Takes(k)'
<1> USE TakesTypes DEF pending, aux, files
<1> DEFINE row == Fresh("running")
<1>0. Takes(j)
  BY DEF TakesInv
<1>1. /\ UNCHANGED <<library, media, lease, calls, touched, late>>
      /\ \A k \in Jobs \ {j} : rows'[k] = rows[k] /\ mem'[k] = mem[k] /\ runner'[k] = runner[k]
      /\ runner[j] = "launch" /\ runner'[j] = "check"
      /\ rows'[j] = row /\ mem'[j] = row
  BY DEF Run, Goto, Put, Remember
<1>2. row.cursor = 0 /\ row.outputs = 0
  BY FreshRows
<1> HIDE DEF row
<1>3. mem[j] = Missing /\ lease[j] = NoLease /\ Unpublished(j)
  BY <1>0, <1>1 DEF Takes, Recorder, Before, Early
<1>4. mem[j].outputs = 0
  BY <1>3 DEF Missing
<1>5. ASSUME NEW copy \in Row, Copy(j, copy) PROVE Copy(j, copy)'
  BY <1>1, <1>2, <1>4, <1>5 DEF Copy, Before, Early
<1>6. Copy(j, rows[j])' /\ Copy(j, mem[j])'
  BY <1>1, <1>2 DEF Copy
<1>7. Recorder(j)'
  BY <1>1, <1>2, <1>3 DEF Recorder, Before, Early, Loop, Capturing
<1>8. Recovery(j)'
  BY <1>1 DEF Recovery
<1>9. Unpublished(j)' /\ Traceable(j)' /\ lease'[j].item <= ItemCount[j]
  BY <1>1, <1>3 DEF Unpublished, Traceable, NoLease
<1> QED
  BY <1>1, <1>5, <1>6, <1>7, <1>8, <1>9, OwnStepsKeepTakes

\* What is written late is a copy; of a job that no request copied, the row of
\* a start that did not get to run.
LEMMA LateRowsKeepTakes ==
    ASSUME TakesInv, RecInv, NEW j \in Jobs, WriteLate(j)
    PROVE  \A k \in Jobs : Takes(k)'
<1> USE TakesTypes DEF pending, aux, files
<1>0. Takes(j)
  BY DEF TakesInv
<1>1. PICK write \in late : write[1] = j /\ Put(j, write[2]) /\ late' = late \ {write}
  BY DEF WriteLate
<1>2. /\ UNCHANGED <<mem, library, media, lease, calls, touched, runner>> /\ ~booting
      /\ \A k \in Jobs \ {j} : rows'[k] = rows[k]
      /\ rows'[j] = write[2]
  BY <1>1 DEF WriteLate, Put
<1>3. Copy(j, write[2]) /\ (j \in touched \/ (Unpublished(j) /\ write[2].status # "cancelling"))
  BY <1>0, <1>1 DEF Takes, Copies
<1>4. runner[j] \notin Recovering
  BY <1>2 DEF RecInv, Booting
<1>5. j \notin touched => runner[j] \notin Loop
  BY <1>1, <1>3 DEF RecInv, LatePuts, Live
<1>6. Recorder(j)'
  BY <1>0, <1>2, <1>5 DEF Takes, Recorder, Unpublished, HasEvidence, Loop, Capturing
<1>7. Recovery(j)'
  BY <1>2, <1>4 DEF Recovery, Recovering
<1> QED
  BY <1>1, <1>2, <1>3, <1>6, <1>7, RowsKeepTakes

\* What is left of dropped starts is settled.
LEMMA DroppedStartsKeepTakes ==
    ASSUME TakesInv, RecInv, NEW j \in Jobs, DropStart(j)
    PROVE  \A k \in Jobs : Takes(k)'
<1> USE TakesTypes DEF pending, aux, files
<1>0. Takes(j)
  BY DEF TakesInv
<1>1. /\ UNCHANGED <<rows, mem, library, media, lease, calls, touched>>
      /\ \A k \in Jobs \ {j} : runner'[k] = runner[k]
      /\ runner[j] \in Early /\ runner'[j] \in {"done", "aborted"}
      /\ \A write \in late' \ late : \E status \in {"queued", "running"} : write = <<j, Fresh(status)>>
  BY DEF DropStart, Goto, MayOutlive, Unwritten, Early
<1>2. Unpublished(j)
  BY <1>0, <1>1 DEF Takes, Recorder, Before
<1>3. Elsewhere(j)
  BY <1>1 DEF Elsewhere
<1>4. ASSUME NEW row, Copy(j, row) PROVE Copy(j, row)'
  BY <1>1, <1>4 DEF Copy, Before, Loop, Capturing, Early
<1>5. ASSUME NEW status \in {"queued", "running"}
      PROVE  Copy(j, Fresh(status))' /\ Fresh(status).status # "cancelling"
  <2>1. Fresh(status).cursor = 0 /\ Fresh(status).outputs = 0 /\ Fresh(status).status = status
    BY FreshRows
  <2> QED
    BY <1>1, <2>1 DEF Copy, Before, Loop, Capturing, Early
<1>6. ASSUME NEW write \in late', write[1] = j
      PROVE  Copy(j, write[2])' /\ (j \in touched' \/ (Unpublished(j)' /\ write[2].status # "cancelling"))
  <2>1. CASE write \in late
    BY <1>0, <1>1, <1>4, <1>6, <2>1 DEF Takes, Copies, Unpublished
  <2>2. CASE write \notin late
    <3>1. PICK status \in {"queued", "running"} : write = <<j, Fresh(status)>>
      BY <1>1, <1>6, <2>2
    <3> QED
      BY <1>1, <1>2, <1>5, <3>1 DEF Unpublished
  <2> QED
    BY <2>1, <2>2
<1>7. Copies(j)'
  BY <1>0, <1>1, <1>4, <1>6 DEF Takes, Copies
<1>8. Recorder(j)' /\ Recovery(j)'
  BY <1>1 DEF Recorder, Recovery, Before, Early, Loop, Capturing
<1>9. Takes(j)'
  BY <1>0, <1>1, <1>7, <1>8 DEF Takes, Traceable, HasEvidence, HasOutput
<1> QED
  BY <1>3, <1>9, OthersKeepTheirTakes

\* Starts and retries.
LEMMA StartsKeepTakes ==
    ASSUME TakesInv, RecInv, NEW j \in Jobs, Reserve(j) \/ Start(j) \/ DropStart(j)
    PROVE  \A k \in Jobs : Takes(k)'
<1>1. CASE Reconcile(j)
  BY <1>1, QuietStepsKeepTakes DEF Reconcile, Reconciled, files, aux
<1> QED
  BY <1>1, StartingKeepsTakes, EndingKeepsTakes, RunningKeepsTakes, LateRowsKeepTakes,
     DroppedStartsKeepTakes DEF Start, Prepare, Accept, Refuse, CleanUp

\* A step of the recovery of j, which the runner is not in.
LEMMA RecoveringKeepsTakes ==
    ASSUME TakesInv, NEW j \in Jobs,
           UNCHANGED <<mem, media, calls, touched, late>>, library \subseteq library',
           \A k \in Jobs \ {j} :
              /\ rows'[k] = rows[k] /\ lease'[k] = lease[k] /\ runner'[k] = runner[k]
              /\ \A i : <<k, i>> \in library' <=> <<k, i>> \in library,
           runner'[j] \in Recovering \cup {"done"},
           rows'[j].cursor <= ItemCount[j], rows'[j].outputs <= ItemCount[j],
           \A i \in 1..rows'[j].outputs : <<j, i>> \in library' \cap media,
           lease'[j] \in {lease[j], NoLease},
           Recovery(j)', j \notin touched => Traceable(j)'
    PROVE  \A k \in Jobs : Takes(k)'
<1> USE TakesTypes
<1>0. Takes(j)
  BY DEF TakesInv
<1>1. runner'[j] \notin Before \cup Loop
  BY DEF Recovering, Before, Early, Loop, Capturing
<1>2. ASSUME NEW row \in Row, Copy(j, row) PROVE Copy(j, row)'
  BY <1>1, <1>2 DEF Copy
<1>3. Copy(j, rows[j])'
  BY <1>1 DEF Copy
<1>4. Copy(j, mem[j])'
  BY <1>0, <1>2 DEF Takes, Copies
<1>5. Recorder(j)'
  BY <1>1 DEF Recorder, Before, Loop, Early, Capturing
<1>6. \A write \in late : write[1] = j /\ j \notin touched => Unpublished(j)'
  BY <1>0 DEF Takes, Copies, Unpublished
<1>7. lease'[j].item <= ItemCount[j]
  BY <1>0 DEF Takes, NoLease
<1> QED
  BY <1>2, <1>3, <1>4, <1>5, <1>6, <1>7, OwnStepsKeepTakes

\* What the recovery finds of a job that was recording, or was cancelled.
LEMMA RestoreKeepsTakes ==
    ASSUME TakesInv, NEW j \in Jobs, Restore(j)
    PROVE  \A k \in Jobs : Takes(k)'
<1> USE TakesTypes DEF pending, aux, files
<1>0. Takes(j)
  BY DEF TakesInv
<1>1. /\ rows[j] = [status |-> rows[j].status, cursor |-> rows[j].cursor, outputs |-> rows[j].outputs]
      /\ rows[j].cursor \in Nat /\ rows[j].outputs \in Nat
      /\ lease[j] = [item |-> lease[j].item, published |-> lease[j].published]
      /\ lease[j].item \in Nat /\ lease[j].published \in BOOLEAN
  BY DEF Row
<1>2. /\ Copy(j, rows[j])
      /\ rows[j].cursor <= ItemCount[j] /\ rows[j].outputs <= ItemCount[j]
      /\ \A i \in 1..rows[j].outputs : <<j, i>> \in library \cap media
      /\ j \notin touched => Traceable(j)
  BY <1>0 DEF Takes, Copies, Copy
<1>3. CASE RecoverUnpublished(j)
  <2>1. /\ UNCHANGED <<mem, library, media, calls, touched, late>>
        /\ \A k \in Jobs \ {j} : rows'[k] = rows[k] /\ lease'[k] = lease[k] /\ runner'[k] = runner[k]
        /\ runner'[j] = "done" /\ rows'[j] \in {rows[j], Interrupted(j)} /\ lease'[j] = NoLease
        /\ ~lease[j].published
    BY <1>1, <1>3 DEF RecoverUnpublished, Recover, SaveRecovered, Put, NoLease
  <2>2. Interrupted(j).outputs = rows[j].outputs /\ Interrupted(j).cursor \in {rows[j].cursor, ItemCount[j]}
    <3>1. PICK status :
             \/ Interrupted(j) = rows[j]
             \/ Interrupted(j) = [rows[j] EXCEPT !.status = "completed", !.cursor = ItemCount[j]]
             \/ Interrupted(j) = [rows[j] EXCEPT !.status = status]
      BY <1>1 DEF Interrupted
    <3> QED
      BY <1>1, <3>1
  <2>3. Recovery(j)'
    BY <2>1 DEF Recovery
  <2>4. j \notin touched => Traceable(j)'
    BY <1>2, <2>1, <2>2, UnpublishedLeases DEF Traceable, HasOutput
  <2> QED
    BY <1>2, <2>1, <2>2, <2>3, <2>4, RecoveringKeepsTakes
<1>4. CASE RecoveryFails(j)
  <2>1. /\ UNCHANGED <<mem, library, media, lease, calls, touched, late>>
        /\ \A k \in Jobs \ {j} : rows'[k] = rows[k] /\ runner'[k] = runner[k]
        /\ runner'[j] = "done" /\ rows'[j] \in {rows[j], [rows[j] EXCEPT !.status = "failed"]}
    BY <1>4 DEF RecoveryFails, Recover, SaveRecovered, Put
  <2>2. rows'[j].outputs = rows[j].outputs /\ rows'[j].cursor = rows[j].cursor
    BY <1>1, <2>1
  <2>3. Recovery(j)'
    BY <2>1 DEF Recovery
  <2>4. j \notin touched => Traceable(j)'
    BY <1>2, <2>1, <2>2 DEF Traceable, HasEvidence, HasOutput
  <2> QED
    BY <1>2, <2>1, <2>2, <2>3, <2>4, RecoveringKeepsTakes
<1>5. CASE RecoverPublished(j)
  <2>1. /\ UNCHANGED <<rows, mem, media, lease, calls, touched, late>>
        /\ \A k \in Jobs \ {j} : runner'[k] = runner[k]
        /\ runner'[j] = "reattach" /\ library' = library \cup {<<j, lease[j].item>>}
        /\ lease[j].published /\ Restorable(j)
    BY <1>5 DEF RecoverPublished, Recover
  <2>2. Recovery(j)'
    BY <1>1, <2>1 DEF Recovery, Restorable, LeaseFits, HasEvidence
  <2>3. j \notin touched => Traceable(j)'
    BY <1>2, <2>1 DEF Traceable, HasEvidence, HasOutput
  <2>4. \A i \in 1..rows'[j].outputs : <<j, i>> \in library' \cap media
    BY <1>2, <2>1
  <2>5. \A k \in Jobs \ {j} : \A i : <<k, i>> \in library' <=> <<k, i>> \in library
    BY <2>1
  <2> QED
    BY <1>2, <2>1, <2>2, <2>3, <2>4, <2>5, RecoveringKeepsTakes DEF Recovering
<1>6. CASE \/ ReattachOutput(j)
           \/ RestoreFails(j) /\ runner[j] = "reattach"
  <2>1. /\ UNCHANGED <<mem, library, media, lease, calls, touched, late>>
        /\ \A k \in Jobs \ {j} : rows'[k] = rows[k] /\ runner'[k] = runner[k]
        /\ runner[j] = "reattach" /\ runner'[j] \in {"retire_evidence", "done"}
        /\ \/ rows'[j] = [rows[j] EXCEPT !.outputs = lease[j].item]
           \/ runner'[j] = "done" /\ rows'[j] = [rows[j] EXCEPT !.status = "failed", !.outputs = lease[j].item]
           \/ runner'[j] = "done" /\ rows'[j] = rows[j]
    BY <1>6 DEF ReattachOutput, RestoreFails, SaveRecovered, Recover, Put
  <2>2. /\ rows'[j].outputs = lease[j].item \/ (runner'[j] = "done" /\ rows'[j].outputs = rows[j].outputs)
        /\ rows'[j].cursor = rows[j].cursor
    BY <1>1, <2>1
  <2>3. /\ HasEvidence(j, lease[j].item) /\ <<j, lease[j].item>> \in library \cap media
        /\ lease[j].item = rows[j].cursor + 1 /\ rows[j].outputs \in {lease[j].item - 1, lease[j].item}
        /\ lease[j].item <= ItemCount[j]
    BY <1>0, <2>1 DEF Takes, Recovery
  <2>4. Recovery(j)'
    BY <1>1, <2>1, <2>2, <2>3 DEF Recovery, HasEvidence, HasOutput
  <2>5. j \notin touched => Traceable(j)'
    BY <1>1, <1>2, <2>1, <2>2, <2>3 DEF Traceable, HasEvidence, HasOutput
  <2>6. \A i \in 1..rows'[j].outputs : <<j, i>> \in library' \cap media
    <3> SUFFICES ASSUME NEW i \in 1..lease[j].item PROVE <<j, i>> \in library \cap media
      BY <1>1, <2>1, <2>2, <2>3
    <3>1. CASE i = lease[j].item
      BY <2>3, <3>1
    <3>2. CASE i # lease[j].item
      <4>1. i \in 1..rows[j].outputs
        BY <1>1, <2>3, <3>2
      <4> QED
        BY <1>2, <4>1
    <3> QED
      BY <3>1, <3>2
  <2>7. rows'[j].outputs <= ItemCount[j]
    BY <1>2, <2>2, <2>3
  <2> QED
    BY <1>2, <2>1, <2>2, <2>3, <2>4, <2>5, <2>6, <2>7, RecoveringKeepsTakes DEF Recovering
<1>7. CASE RetireRecovered(j)
  <2>1. /\ UNCHANGED <<rows, mem, library, media, calls, touched, late>>
        /\ \A k \in Jobs \ {j} : lease'[k] = lease[k] /\ runner'[k] = runner[k]
        /\ runner[j] = "retire_evidence" /\ runner'[j] = "settle" /\ lease'[j] = NoLease
    BY <1>7 DEF RetireRecovered, Recover
  <2>2. HasOutput(j, lease[j].item) /\ rows[j].cursor < ItemCount[j]
    BY <1>0, <2>1 DEF Takes, Recovery
  <2>3. Recovery(j)'
    BY <2>1, <2>2 DEF Recovery
  <2>4. j \notin touched => Traceable(j)'
    <3> SUFFICES ASSUME j \notin touched, NEW i \in 1..ItemCount[j], <<j, i>> \in media
                 PROVE  HasOutput(j, i)
      BY <2>1 DEF Traceable, HasOutput
    <3>1. HasEvidence(j, i) \/ HasOutput(j, i)
      BY <1>2 DEF Traceable
    <3>2. HasEvidence(j, i) => i = lease[j].item
      BY DEF HasEvidence
    <3> QED
      BY <2>2, <3>1, <3>2
  <2> QED
    BY <1>2, <2>1, <2>3, <2>4, RecoveringKeepsTakes DEF Recovering
<1>8. CASE SettleRecovered(j)
  <2>1. PICK verdict :
        /\ UNCHANGED <<mem, library, media, lease, calls, touched, late>>
        /\ \A k \in Jobs \ {j} : rows'[k] = rows[k] /\ runner'[k] = runner[k]
        /\ runner[j] = "settle" /\ runner'[j] = "done"
        /\ rows'[j] \in {rows[j], [rows[j] EXCEPT !.status = verdict, !.cursor = @ + 1]}
    BY <1>8 DEF SettleRecovered, Recover, SaveRecovered, Put
  <2>2. rows'[j].outputs = rows[j].outputs /\ rows'[j].cursor \in {rows[j].cursor, rows[j].cursor + 1}
    BY <1>1, <2>1
  <2>3. rows[j].cursor < ItemCount[j]
    BY <1>0, <2>1 DEF Takes, Recovery
  <2>4. Recovery(j)'
    BY <2>1 DEF Recovery
  <2>5. j \notin touched => Traceable(j)'
    BY <1>2, <2>1, <2>2 DEF Traceable, HasEvidence, HasOutput
  <2>6. rows'[j].cursor <= ItemCount[j]
    BY <1>1, <2>2, <2>3
  <2> QED
    BY <1>2, <2>1, <2>2, <2>4, <2>5, <2>6, RecoveringKeepsTakes
<1>9. CASE RestoreFails(j) /\ runner[j] # "reattach"
  <2>1. /\ UNCHANGED <<mem, library, media, lease, calls, touched, late>>
        /\ \A k \in Jobs \ {j} : rows'[k] = rows[k] /\ runner'[k] = runner[k]
        /\ runner'[j] = "done" /\ rows'[j] \in {rows[j], [rows[j] EXCEPT !.status = "failed"]}
    BY <1>9 DEF RestoreFails, Recover, SaveRecovered, Put
  <2>2. rows'[j].outputs = rows[j].outputs /\ rows'[j].cursor = rows[j].cursor
    BY <1>1, <2>1
  <2>3. Recovery(j)'
    BY <2>1 DEF Recovery
  <2>4. j \notin touched => Traceable(j)'
    BY <1>2, <2>1, <2>2 DEF Traceable, HasEvidence, HasOutput
  <2> QED
    BY <1>2, <2>1, <2>2, <2>3, <2>4, RecoveringKeepsTakes
<1> QED
  BY <1>3, <1>4, <1>5, <1>6, <1>7, <1>8, <1>9 DEF Restore

\* Of a restart only the table, the library, the lease and the files are left.
LEMMA CrashKeepsTakes == ASSUME TakesInv, Crash PROVE \A k \in Jobs : Takes(k)'
<1> USE TakesTypes DEF pending, aux, files
<1> SUFFICES ASSUME NEW j \in Jobs PROVE Takes(j)'
  OBVIOUS
<1>0. Takes(j)
  BY DEF TakesInv
<1>1. /\ UNCHANGED <<rows, library, lease, media, touched>>
      /\ mem'[j] = Missing /\ late' = {}
      /\ runner'[j] \in {"idle", "done", "recover"} /\ (runner'[j] = "idle" => runner[j] = "idle")
      /\ \A c \in Calls : calls'[c].snap = Missing /\ calls'[c].pc \notin {"put", "again"}
  BY DEF Crash, Idle
<1>2. runner[j] = "idle" => mem[j] = Missing /\ lease[j] = NoLease /\ Unpublished(j)
  BY <1>0 DEF Takes, Recorder, Before
<1>3. Copy(j, rows[j])'
  BY <1>0, <1>1, <1>2 DEF Takes, Copies, Copy, Missing, Before, Early, Loop, Capturing
<1>4. Copy(j, Missing)'
  BY <1>1 DEF Copy, Missing
<1>5. Copies(j)'
  BY <1>1, <1>3, <1>4 DEF Copies
<1>6. Recorder(j)' /\ Recovery(j)'
  BY <1>1, <1>2 DEF Recorder, Recovery, Unpublished, Before, Early, Loop, Capturing
<1> QED
  BY <1>0, <1>1, <1>5, <1>6 DEF Takes, Traceable, HasEvidence, HasOutput

----------------------------------------------------------------------------
(* The cancel requests.                                                    *)

\* A step of request c for job j: the row, if it is put, is a copy, and the
\* request has copied the row before.
LEMMA CallStepsKeepTakes ==
    ASSUME TakesInv, RecInv, NEW c \in Calls, NEW j \in Jobs, ~booting,
           UNCHANGED <<mem, library, media, lease, runner>>,
           \A k \in Calls \ {c} : calls'[k] = calls[k],
           calls'[c].job = j, Copy(j, calls'[c].snap),
           calls'[c].pc \in {"put", "again"} => j \in touched',
           touched' \in {touched, touched \cup {j}},
           \A k \in Jobs \ {j} : rows'[k] = rows[k],
           rows'[j] = rows[j] \/ (j \in touched' /\ Copy(j, rows'[j])),
           \A write \in late' \ late : write[1] = j /\ j \in touched' /\ Copy(j, write[2])
    PROVE  \A k \in Jobs : Takes(k)'
<1> USE TakesTypes
<1>0. Takes(j)
  BY DEF TakesInv
<1>1. Elsewhere(j)
  BY DEF Elsewhere
<1>2. ASSUME NEW row, Copy(j, row) PROVE Copy(j, row)'
  BY <1>2 DEF Copy
<1>3. Copy(j, rows'[j]) /\ Copy(j, mem[j])
  BY <1>0 DEF Takes, Copies
<1>4. Copy(j, rows[j])' /\ Copy(j, mem[j])'
  BY <1>2, <1>3
<1>5. ASSUME NEW k \in Calls, calls'[k].job = j
      PROVE  Copy(j, calls[k].snap)' /\ (calls'[k].pc \in {"put", "again"} => j \in touched')
  <2>1. CASE k = c
    BY SMTT(60), <1>2, <2>1
  <2>2. CASE k # c
    BY SMTT(60), <1>0, <1>2, <1>5, <2>2 DEF Takes, Copies
  <2> QED
    BY <2>1, <2>2
<1>6. ASSUME NEW write \in late', write[1] = j
      PROVE  Copy(j, write[2])' /\ (j \in touched' \/ (Unpublished(j)' /\ write[2].status # "cancelling"))
  <2>1. CASE write \in late
    BY <1>0, <1>2, <1>6, <2>1 DEF Takes, Copies, Unpublished
  <2>2. CASE write \notin late
    BY <1>2, <2>2
  <2> QED
    BY <2>1, <2>2
<1>7. Copies(j)'
  BY SMTT(60), <1>4, <1>5, <1>6 DEF Copies
<1>8. runner[j] \notin Recovering
  BY DEF RecInv, Booting
<1>9. Recorder(j)'
  BY <1>0 DEF Takes, Recorder, Unpublished, HasEvidence
<1>10. Recovery(j)'
  BY <1>8 DEF Recovery, Recovering
<1>11. j \notin touched' => Traceable(j)'
  BY <1>0 DEF Takes, Traceable, HasEvidence, HasOutput
<1>12. Takes(j)'
  BY <1>0, <1>7, <1>9, <1>10, <1>11 DEF Takes
<1> QED
  BY <1>1, <1>12, OthersKeepTheirTakes

\* A cancel request arrives.
LEMMA NewCallsKeepTakes ==
    ASSUME TakesInv, RecInv, NEW c \in Calls, NEW j \in Jobs, CallCancel(c, j)
    PROVE  \A k \in Jobs : Takes(k)'
<1>1. /\ UNCHANGED <<rows, mem, library, media, lease, runner, touched, late>> /\ ~booting
  BY DEF CallCancel, files, pending, aux
<1>2. PICK to \in {"claim", "flag", "done"} :
        calls' = [calls EXCEPT ![c] = [Idle EXCEPT !.pc = to, !.job = j]]
  BY Zenon DEF CallCancel
<1>3. /\ \A k \in Calls \ {c} : calls'[k] = calls[k]
      /\ calls'[c] = [pc |-> to, job |-> j, acquired |-> FALSE, snap |-> Missing]
  BY <1>2 DEF RecInv, Shapes, Idle
<1>4. Copy(j, Missing)
  BY TakesTypes DEF Copy, Missing, Row
<1> QED
  BY <1>1, <1>3, <1>4, CallStepsKeepTakes

\* What a request on its way holds.
LEMMA RequestsHoldCopies ==
    ASSUME TakesInv, RecInv, NEW c \in Calls, calls[c].pc \in OnItsWay
    PROVE  /\ calls[c].job \in Jobs /\ Copy(calls[c].job, calls[c].snap)
           /\ calls[c].pc \in {"put", "again"} => calls[c].job \in touched
           /\ calls[c] = [pc |-> calls[c].pc, job |-> calls[c].job,
                          acquired |-> calls[c].acquired, snap |-> calls[c].snap]
BY DEF RecInv, Requests, Fitting, Shapes, TakesInv, Takes, Copies

\* Cancel requests, and puts that outlived them.
LEMMA CallsKeepTakes ==
    ASSUME TakesInv, RecInv, NEW c \in Calls, Cancel(c) \/ CancelGoesAway(c)
    PROVE  \A k \in Jobs : Takes(k)'
<1> USE DEF pending, aux, files
<1> DEFINE j == calls[c].job
<1>1. calls[c].pc \in OnItsWay
  BY DEF Cancel, CancelGoesAway, ClaimSession, SetFlag, ReadCurrent, PutCancelling, PutAgain,
         CancelFails, DropCall, DropPutAgain, Step, OnItsWay
<1>2. /\ j \in Jobs /\ Copy(j, calls[c].snap)
      /\ calls[c].pc \in {"put", "again"} => j \in touched
      /\ calls[c] = [pc |-> calls[c].pc, job |-> j, acquired |-> calls[c].acquired, snap |-> calls[c].snap]
  BY <1>1, RequestsHoldCopies
<1>3. Shapes
  BY DEF RecInv
<1>4. ~booting /\ UNCHANGED <<mem, library, media, lease, runner>>
  BY DEF Cancel, CancelGoesAway, ClaimSession, SetFlag, ReadCurrent, PutCancelling, PutAgain,
         CancelFails, DropCall, DropPutAgain, Step
<1>5. CASE ReadCurrent(c)
  <2>1. UNCHANGED <<rows, late>> /\ touched' = touched \cup {j}
    BY <1>5 DEF ReadCurrent
  <2>2. PICK to, snap :
          /\ calls' = [calls EXCEPT ![c].pc = to, ![c].snap = snap]
          /\ snap = rows[j] \/ snap = [rows[j] EXCEPT !.status = "cancelling"]
    <3>1. CASE Ended(j)
      BY ONLY <3>1, <1>5, Zenon DEF ReadCurrent
    <3>2. CASE ~Ended(j)
      BY ONLY <3>2, <1>5, Zenon DEF ReadCurrent
    <3> QED
      BY <3>1, <3>2
  <2>3. /\ \A k \in Calls \ {c} : calls'[k] = calls[k]
        /\ calls'[c] = [pc |-> to, job |-> j, acquired |-> calls[c].acquired, snap |-> snap]
    <3>1. calls'[c] = [[calls[c] EXCEPT !.pc = to] EXCEPT !.snap = snap]
      BY <1>3, <2>2 DEF Shapes
    <3> QED
      BY <1>2, <1>3, <2>2, <3>1 DEF Shapes
  <2>4. Copy(j, snap)
    <3>1. Copy(j, rows[j]) /\ rows[j] \in Row
      BY <1>2, TakesTypes DEF TakesInv, Takes, Copies
    <3>2. snap.cursor = rows[j].cursor /\ snap.outputs = rows[j].outputs
      BY <2>2, <3>1 DEF Row
    <3> QED
      BY <1>2, <3>1, <3>2, CopiesAreOfOutputs
  <2> QED
    BY <1>2, <1>4, <2>1, <2>3, <2>4, CallStepsKeepTakes
<1>6. ASSUME \/ ClaimSession(c) \/ SetFlag(c) \/ PutCancelling(c) \/ PutAgain(c) \/ CancelGoesAway(c)
      PROVE  \A k \in Jobs : Takes(k)'
  <2> DEFINE Kept == /\ \A k \in Calls \ {c} : calls'[k] = calls[k]
                     /\ calls'[c].job = j /\ calls'[c].snap = calls[c].snap
                     /\ calls'[c].pc \in {"put", "again"} => calls[c].pc = "put"
  <2>1. Kept
    <3>1. ASSUME NEW from, NEW to, to \notin {"put", "again"} \/ from = "put", Step(c, from, to) PROVE Kept
      <4>1. /\ \A k \in Calls \ {c} : calls'[k] = calls[k]
            /\ calls[c].pc = from
            /\ calls'[c] = [pc |-> to, job |-> calls[c].job,
                            acquired |-> calls[c].acquired, snap |-> calls[c].snap]
        BY <1>3, <3>1, StepsKeepTheCall
      <4> QED
        BY <3>1, <4>1
    <3>2. ASSUME NEW b, calls' = [calls EXCEPT ![c].pc = "flag", ![c].acquired = b] PROVE Kept
      <4>1. calls'[c] = [[calls[c] EXCEPT !.pc = "flag"] EXCEPT !.acquired = b]
        BY <1>3, <3>2 DEF Shapes
      <4>2. calls'[c] = [pc |-> "flag", job |-> j, acquired |-> b, snap |-> calls[c].snap]
        BY <1>2, <4>1
      <4>3. \A k \in Calls \ {c} : calls'[k] = calls[k]
        BY <1>3, <3>2 DEF Shapes
      <4> QED
        BY <4>2, <4>3
    <3> HIDE DEF Kept
    <3>3. CASE ClaimSession(c)
      BY <3>1, <3>2, <3>3, Zenon DEF ClaimSession
    <3>4. CASE SetFlag(c) \/ PutCancelling(c) \/ PutAgain(c) \/ CancelGoesAway(c)
      <4>1. \E from, to : (to \notin {"put", "again"} \/ from = "put") /\ Step(c, from, to)
        <5>1. CASE SetFlag(c) \/ PutCancelling(c) \/ PutAgain(c)
          BY <5>1, Zenon DEF SetFlag, PutCancelling, PutAgain
        <5>2. CASE CancelGoesAway(c)
          BY <5>2, Zenon DEF CancelGoesAway, CancelFails, DropCall, DropPutAgain
        <5> QED
          BY <3>4, <5>1, <5>2
      <4> QED
        BY <3>1, <4>1
    <3> QED
      BY <1>6, <3>3, <3>4
  <2>2. /\ UNCHANGED touched
        /\ \A k \in Jobs \ {j} : rows'[k] = rows[k]
        /\ rows'[j] = rows[j] \/ (calls[c].pc \in {"put", "again"} /\ rows'[j] = calls[c].snap)
    <3>1. CASE ClaimSession(c) \/ SetFlag(c) \/ CancelGoesAway(c)
      <4>1. UNCHANGED <<touched, rows>>
        BY <3>1 DEF ClaimSession, SetFlag, CancelGoesAway, CancelFails, DropCall, DropPutAgain
      <4> QED
        BY <4>1
    <3>2. CASE PutCancelling(c) \/ PutAgain(c)
      <4>1. /\ UNCHANGED touched /\ rows' = [rows EXCEPT ![j] = calls[c].snap]
            /\ calls[c].pc \in {"put", "again"}
        BY <3>2 DEF PutCancelling, PutAgain, Put, Step
      <4> QED
        BY <1>3, <4>1 DEF Shapes
    <3> QED
      BY <1>6, <3>1, <3>2
  <2>3. \A write \in late' \ late : calls[c].pc \in {"put", "again"} /\ write = <<j, calls[c].snap>>
    BY <1>6 DEF ClaimSession, SetFlag, PutCancelling, PutAgain, CancelGoesAway, CancelFails,
       DropCall, DropPutAgain, MayOutlive, Step
  <2> QED
    BY <1>2, <1>4, <2>1, <2>2, <2>3, CallStepsKeepTakes
<1> QED
  BY <1>5, <1>6 DEF Cancel

\* Every step.
LEMMA NextKeepsTakes == ASSUME TakesInv, RecInv, [Next]_vars PROVE \A k \in Jobs : Takes(k)'
<1> USE DEF pending, aux, files
<1>1. CASE Crash
  BY <1>1, CrashKeepsTakes
<1>2. CASE Playback \/ Boot \/ UNCHANGED vars
  BY <1>2, QuietStepsKeepTakes DEF Playback, Boot, vars
<1>3. ASSUME NEW j \in Jobs, Own(j) \/ ObservationFails(j) PROVE \A k \in Jobs : Takes(k)'
  BY <1>3, QuietStepsKeepTakes DEF Own, Poll, Attached, GiveUpMissing, Leave, ObservationFails
<1>4. ASSUME NEW j \in Jobs,
             \/ Reserve(j) \/ Start(j) \/ DropStart(j) \/ Record(j) \/ PersistStage(j) \/ Restore(j)
             \/ \E c \in Calls : CallCancel(c, j)
      PROVE  \A k \in Jobs : Takes(k)'
  BY <1>4, StartsKeepTakes, RecordingKeepsTakes, RestoreKeepsTakes, NewCallsKeepTakes
<1>5. ASSUME NEW c \in Calls, Cancel(c) \/ CancelGoesAway(c) PROVE \A k \in Jobs : Takes(k)'
  BY <1>5, CallsKeepTakes
<1> QED
  BY <1>1, <1>2, <1>3, <1>4, <1>5 DEF Next

----------------------------------------------------------------------------
(* The types of what the steps write.                                      *)

RunnerStates == {"idle", "reserved", "registered", "queued", "launch", "aborted",
                 "check", "announce", "finish", "fail", "unregister", "done"} \cup Capturing \cup Recovering
CallStates == [pc : {"idle", "claim", "flag", "read", "put", "again", "done"},
               job : Jobs \cup {"none"}, acquired : BOOLEAN, snap : Row]

Tables ==
    /\ rows \in [Jobs -> Row] /\ mem \in [Jobs -> Row]
    /\ late \subseteq Jobs \X Row
Files ==
    /\ library \subseteq Jobs \X Nat /\ media \subseteq Jobs \X Nat
    /\ lease \in [Jobs -> [item : Nat, published : BOOLEAN]]
Places ==
    /\ runner \in [Jobs -> RunnerStates]
    /\ owner \in [Jobs -> {"none", "polling", "announced", "leaving"}]
    /\ \A S \in {active, flagged, abandoned, touched, dropped} : S \subseteq Jobs
    /\ session \in Holders
    /\ booting \in BOOLEAN /\ crashes \in 0..MaxCrashes
Asked == calls \in [Calls -> CallStates]

Parts == Tables /\ Files /\ Places /\ Asked

\* TypeOK, job by job and request by request.
LEMMA TypesHaveParts == TypeOK => Parts
BY DEF TypeOK, Parts, Tables, Files, Places, Asked, RunnerStates, CallStates

\* The parts make TypeOK.
LEMMA PartsMakeTypes == Parts /\ (\A j \in Jobs : Takes(j)) => TypeOK
<1> SUFFICES ASSUME Parts, \A j \in Jobs : Takes(j) PROVE TypeOK
  OBVIOUS
<1>1. \A j \in Jobs : \A row \in {rows[j], mem[j]} : row.cursor <= ItemCount[j] /\ row.outputs <= ItemCount[j]
  BY DEF Takes, Copies, Copy
<1> QED
  BY <1>1 DEF Parts, Tables, Files, Places, Asked, RunnerStates, CallStates, TypeOK

\* The parts of a row, typed.
LEMMA RowTypes ==
    ASSUME NEW row \in Row, NEW status \in Statuses, NEW n \in Nat
    PROVE  /\ Fresh(status) \in Row /\ Missing \in Row
           /\ [row EXCEPT !.status = status] \in Row
           /\ [row EXCEPT !.outputs = n] \in Row /\ [row EXCEPT !.cursor = n] \in Row
           /\ [row EXCEPT !.status = status, !.cursor = n] \in Row
<1>1. Fresh(status) \in Row
  BY FreshRows DEF Row
<1>2. [row EXCEPT !.status = status] \in Row
  BY DEF Row
<1>3. [row EXCEPT !.outputs = n] \in Row /\ [row EXCEPT !.cursor = n] \in Row
  BY DEF Row
<1>4. [row EXCEPT !.status = status, !.cursor = n] \in Row
  BY DEF Row
<1>5. Missing \in Row
  BY DEF Row, Missing
<1> QED
  BY <1>1, <1>2, <1>3, <1>4, <1>5

\* A row with another status is a row.
LEMMA MarkedRows ==
    ASSUME NEW row \in Row, NEW status \in Statuses, NEW n \in Nat,
           NEW mark \in {row, [row EXCEPT !.status = status], [row EXCEPT !.status = status, !.cursor = n]}
    PROVE  mark \in Row
<1>1. CASE mark = row
  BY <1>1
<1>2. CASE mark = [row EXCEPT !.status = status]
  BY <1>2 DEF Row
<1>3. CASE mark = [row EXCEPT !.status = status, !.cursor = n]
  BY <1>3 DEF Row
<1> QED
  BY <1>1, <1>2, <1>3

\* What one step of a job does to the tables.
LEMMA JobStepsKeepTables ==
    ASSUME Tables, NEW j \in Jobs, NEW row \in Row, NEW copy \in Row,
           rows' = rows \/ Put(j, row), mem' = mem \/ Remember(j, copy), late' \subseteq late
    PROVE  Tables'
BY DEF Tables, Put, Remember

\* A table stays one when a status changes.
LEMMA StatusesKeepTables ==
    ASSUME Tables, NEW j \in Jobs, NEW status \in Statuses, PutStatus(j, status), UNCHANGED <<mem, late>>
    PROVE  Tables'
<1>1. rows[j] \in Row
  BY DEF Tables
<1>2. [rows[j] EXCEPT !.status = status] \in Row
  BY <1>1 DEF Row
<1>3. rows' = [rows EXCEPT ![j] = [rows[j] EXCEPT !.status = status]]
  BY DEF PutStatus
<1> QED
  BY <1>2, <1>3 DEF Tables

\* A step of one job keeps the types of files and evidence.
LEMMA JobStepsKeepFiles ==
    ASSUME Files, NEW j \in Jobs, NEW to \in [item : Nat, published : BOOLEAN], NEW n \in Nat,
           library' \in {library, library \cup {<<j, n>>}},
           media' \in {media, media \ {<<j, n>>}, media \cup {<<j, n>>}},
           lease' = lease \/ lease' = [lease EXCEPT ![j] = to]
    PROVE  Files'
<1>1. lease' \in [Jobs -> [item : Nat, published : BOOLEAN]]
  BY DEF Files
<1>2. library' \subseteq Jobs \X Nat /\ media' \subseteq Jobs \X Nat
  BY DEF Files
<1> QED
  BY <1>1, <1>2 DEF Files

\* A step of j leaves everything but where its runner and its owner stand, and
\* sets that only remember jobs.
LEMMA JobStepsKeepPlaces ==
    ASSUME Places, NEW j \in Jobs, NEW to \in RunnerStates,
           runner' = runner \/ runner' = [runner EXCEPT ![j] = to],
           owner' = owner \/ Observe(j),
           active' \in {active, active \ {j}, {j}},
           abandoned' \in {abandoned, abandoned \cup {j}},
           dropped' \in {dropped, dropped \cup {j}, dropped \ {j}},
           session' \in {session, "none", j},
           UNCHANGED <<flagged, touched, booting, crashes>>
    PROVE  Places'
BY DEF Places, Observe, Holders

\* Starts write rows.
LEMMA StartsKeepTables ==
    ASSUME Tables, NEW j \in Jobs, Reserve(j) \/ Start(j) \/ DropStart(j)
    PROVE  Tables'
<1> USE DEF pending
<1>0. \A status \in Statuses : Fresh(status) \in Row
  BY FreshRows DEF Row
<1>1. CASE Reserve(j) \/ Register(j) \/ Launch(j) \/ Refuse(j) \/ AbortFails(j)
  <2>1. UNCHANGED <<rows, mem, late>>
    BY <1>1 DEF Reserve, Register, Launch, Refuse, RefuseStart, StartFails, StartFailsUnsaved, AbortFails
  <2> QED
    BY <2>1 DEF Tables
<1>2. CASE Enqueue(j) \/ RetryFails(j) \/ Run(j)
  <2>1. PICK status \in {"queued", "failed", "running"} :
           Put(j, Fresh(status)) /\ (mem' = mem \/ Remember(j, Fresh(status))) /\ late' = late
    BY <1>2 DEF Enqueue, RetryFails, Run
  <2>2. Fresh(status) \in Row
    BY <1>0 DEF Statuses
  <2> QED
    BY <2>1, <2>2, JobStepsKeepTables
<1>3. CASE CancelledWhilePreparing(j) \/ AbortStartup(j)
  <2>1. UNCHANGED <<mem, late>> /\ (rows' = rows \/ \E status \in Statuses : PutStatus(j, status))
    BY <1>3 DEF CancelledWhilePreparing, AbortStartup, Statuses
  <2> QED
    BY <2>1, StatusesKeepTables DEF Tables
<1>4. CASE WriteLate(j)
  <2>1. PICK write \in late : write[1] = j /\ Put(j, write[2]) /\ late' = late \ {write} /\ mem' = mem
    BY <1>4 DEF WriteLate
  <2>2. write[2] \in Row
    BY DEF Tables
  <2> QED
    BY <2>1, <2>2, JobStepsKeepTables
<1>5. CASE DropStart(j)
  <2>1. /\ UNCHANGED <<rows, mem>>
        /\ \A write \in late' : write \in late \/ \E status \in Statuses : write = <<j, Fresh(status)>>
    BY <1>5 DEF DropStart, MayOutlive, Unwritten, Statuses
  <2> QED
    BY <1>0, <2>1 DEF Tables
<1>6. CASE Reconcile(j)
  <2>1. PICK frees : Reconciled(j, frees)
    BY <1>6, Zenon DEF Reconcile
  <2> QED
    BY <2>1 DEF Tables, Reconciled, aux
<1> QED
  BY <1>1, <1>2, <1>3, <1>4, <1>5, <1>6 DEF Start, Prepare, Accept, CleanUp

\* Starts move their own runner and owner.
LEMMA StartsKeepPlaces ==
    ASSUME Places, NEW j \in Jobs, Reserve(j) \/ Start(j) \/ DropStart(j)
    PROVE  Places'
<1>1. PICK to \in RunnerStates : runner' = runner \/ runner' = [runner EXCEPT ![j] = to]
  BY DEF Reserve, Start, DropStart, Prepare, Accept, Refuse, CleanUp, Register, Enqueue, Launch, Run,
         CancelledWhilePreparing, RetryFails, RefuseStart, StartFails, StartFailsUnsaved, AbortStartup,
         AbortFails, WriteLate, Reconcile, Reconciled, Goto, RunnerStates
<1>2. /\ owner' = owner \/ Observe(j)
      /\ UNCHANGED <<flagged, touched, booting, crashes>>
  BY DEF Reserve, Start, DropStart, Prepare, Accept, Refuse, CleanUp, Register, Enqueue, Launch, Run,
         CancelledWhilePreparing, RetryFails, RefuseStart, StartFails, StartFailsUnsaved, AbortStartup,
         AbortFails, WriteLate, Reconcile, Reconciled, aux
<1>3. active' \in {active, active \ {j}, {j}}
  BY DEF Reserve, Start, DropStart, Prepare, Accept, Refuse, CleanUp, Register, Enqueue, Launch, Run,
         CancelledWhilePreparing, RetryFails, RefuseStart, StartFails, StartFailsUnsaved, AbortStartup,
         AbortFails, WriteLate, Reconcile, Reconciled
<1>4. abandoned' \in {abandoned, abandoned \cup {j}} /\ dropped' \in {dropped, dropped \cup {j}, dropped \ {j}}
  BY DEF Reserve, Start, DropStart, Prepare, Accept, Refuse, CleanUp, Register, Enqueue, Launch, Run,
         CancelledWhilePreparing, RetryFails, RefuseStart, StartFails, StartFailsUnsaved, AbortStartup,
         AbortFails, WriteLate, Reconcile, Reconciled, aux, pending
<1>5. session' \in {session, "none", j}
  BY DEF Reserve, Start, DropStart, Prepare, Accept, Refuse, CleanUp, Register, Enqueue, Launch, Run,
         CancelledWhilePreparing, RetryFails, RefuseStart, StartFails, StartFailsUnsaved, AbortStartup,
         AbortFails, WriteLate, Reconcile, Reconciled, ReleaseSession
<1> QED
  BY <1>1, <1>2, <1>3, <1>4, <1>5, JobStepsKeepPlaces

\* Starts and retries keep the types.
LEMMA StartsKeepParts ==
    ASSUME Parts, NEW j \in Jobs, Reserve(j) \/ Start(j) \/ DropStart(j)
    PROVE  Parts'
<1>1. UNCHANGED <<library, lease, media, calls>>
  BY DEF Reserve, Start, DropStart, Prepare, Accept, Refuse, CleanUp, Register, Enqueue, Launch, Run,
         CancelledWhilePreparing, RetryFails, RefuseStart, StartFails, StartFailsUnsaved, AbortStartup,
         AbortFails, WriteLate, Reconcile, Reconciled, files
<1>2. Files' /\ Asked'
  BY <1>1 DEF Parts, Files, Asked
<1> QED
  BY <1>2, StartsKeepTables, StartsKeepPlaces DEF Parts

\* The backend writes leases of the items it records.
LEMMA RecordingKeepsFiles ==
    ASSUME Tables, Files, NEW j \in Jobs, Record(j) \/ PersistStage(j)
    PROVE  Files'
<1> USE DEF files
<1>1. mem[j].cursor + 1 \in Nat /\ lease[j].item \in Nat /\ lease[j] \in [item : Nat, published : BOOLEAN]
  BY DEF Tables, Files, Row
<1>2. CASE BeginCapture(j) \/ CaptureFails(j) \/ RetireEvidence(j)
  <2>1. /\ UNCHANGED <<library, media>>
        /\ \/ lease' = lease
           \/ lease' = [lease EXCEPT ![j] = NoLease]
           \/ lease' = [lease EXCEPT ![j] = [item |-> mem[j].cursor + 1, published |-> FALSE]]
    BY <1>2 DEF BeginCapture, CaptureFails, RetireEvidence
  <2>2. /\ NoLease \in [item : Nat, published : BOOLEAN]
        /\ [item |-> mem[j].cursor + 1, published |-> FALSE] \in [item : Nat, published : BOOLEAN]
    BY <1>1 DEF NoLease
  <2>3. PICK to \in [item : Nat, published : BOOLEAN] : lease' = lease \/ lease' = [lease EXCEPT ![j] = to]
    BY <2>1, <2>2
  <2> QED
    BY <1>1, <2>1, <2>3, JobStepsKeepFiles
<1>3. CASE MarkPublished(j)
  <2>1. [lease[j] EXCEPT !.published = TRUE] \in [item : Nat, published : BOOLEAN]
    BY <1>1
  <2>2. /\ library' = library /\ media' = media \cup {<<j, lease[j].item>>}
        /\ lease' = [lease EXCEPT ![j] = [lease[j] EXCEPT !.published = TRUE]]
    BY <1>3 DEF MarkPublished
  <2> QED
    BY <1>1, <2>1, <2>2, JobStepsKeepFiles
<1>4. CASE StoreClip(j) \/ DiscardClip(j)
  BY <1>1, <1>4 DEF Files, StoreClip, DiscardClip
<1>5. CASE ~(BeginCapture(j) \/ CaptureFails(j) \/ RetireEvidence(j) \/ MarkPublished(j) \/ StoreClip(j)
             \/ DiscardClip(j))
  <2>1. UNCHANGED <<library, lease, media>>
    BY <1>5 DEF Record, NextItem, Announce, VerifyOutput, PushOutput, AdvanceCursor, PersistTerminal,
       Unregister, PersistStage
  <2> QED
    BY <2>1 DEF Files
<1> QED
  BY <1>2, <1>3, <1>4, <1>5

\* The task that records writes rows.
LEMMA RecordingKeepsTables ==
    ASSUME Tables, NEW j \in Jobs, Record(j) \/ PersistStage(j)
    PROVE  Tables'
<1> USE DEF pending
<1>1. /\ mem[j] \in Row /\ rows[j] \in Row /\ mem[j].cursor + 1 \in Nat /\ mem[j].outputs + 1 \in Nat
      /\ ItemCount[j] \in Nat
  BY ItemCountAssumption DEF Tables, Row
<1>2. CASE Announce(j) \/ PersistStage(j)
  <2>1. (rows' = rows \/ Put(j, mem[j])) /\ UNCHANGED <<mem, late>>
    BY <1>2 DEF Announce, PutOrFail, PersistStage
  <2>2. PICK row \in Row : rows' = rows \/ Put(j, row)
    BY <1>1, <2>1
  <2> QED
    BY <2>1, <2>2, JobStepsKeepTables
<1>3. CASE PushOutput(j) \/ AdvanceCursor(j)
  <2>1. PICK row : /\ row \in {[mem[j] EXCEPT !.outputs = @ + 1], [mem[j] EXCEPT !.cursor = @ + 1]}
                   /\ (rows' = rows \/ Put(j, row)) /\ Remember(j, row) /\ late' = late
    BY <1>3 DEF PushOutput, AdvanceCursor, PutOrFail
  <2>2. row \in Row
    BY <1>1, <2>1 DEF Row
  <2> QED
    BY <2>1, <2>2, JobStepsKeepTables
<1>4. CASE PersistTerminal(j)
  <2>1. PICK verdict \in Verdicts(j) : (rows' = rows \/ Put(j, verdict)) /\ UNCHANGED <<mem, late>>
    BY <1>4 DEF PersistTerminal
  <2>2. PICK status \in Statuses :
           verdict \in {[mem[j] EXCEPT !.status = status],
                        [mem[j] EXCEPT !.status = status, !.cursor = ItemCount[j]]}
    BY DEF Verdicts, Statuses
  <2>3. verdict \in Row
    BY <1>1, <2>2, MarkedRows, Zenon
  <2> QED
    BY <2>1, <2>3, JobStepsKeepTables
<1>5. CASE ~(Announce(j) \/ PersistStage(j) \/ PushOutput(j) \/ AdvanceCursor(j) \/ PersistTerminal(j))
  <2>1. UNCHANGED <<rows, mem, late>>
    BY <1>5 DEF Record, NextItem, BeginCapture, VerifyOutput, CaptureFails, MarkPublished, StoreClip,
       DiscardClip, RetireEvidence, Unregister
  <2> QED
    BY <2>1 DEF Tables
<1> QED
  BY <1>2, <1>3, <1>4, <1>5

\* The task that records keeps the types.
LEMMA RecordingKeepsParts ==
    ASSUME Parts, NEW j \in Jobs, Record(j) \/ PersistStage(j)
    PROVE  Parts'
<1>1. PICK to \in RunnerStates : runner' = runner \/ runner' = [runner EXCEPT ![j] = to]
  BY DEF Record, PersistStage, NextItem, Announce, VerifyOutput, PushOutput, AdvanceCursor, PersistTerminal,
     Unregister, BeginCapture, CaptureFails, MarkPublished, StoreClip, DiscardClip, RetireEvidence,
     PutOrFail, Goto, RunnerStates, Capturing
<1>2. /\ UNCHANGED <<owner, session, dropped, flagged, touched, booting, crashes, calls>>
      /\ active' \in {active, active \ {j}} /\ abandoned' \in {abandoned, abandoned \cup {j}}
  BY DEF Record, PersistStage, NextItem, Announce, VerifyOutput, PushOutput, AdvanceCursor, PersistTerminal,
     Unregister, BeginCapture, CaptureFails, MarkPublished, StoreClip, DiscardClip, RetireEvidence, pending, aux
<1>3. Places'
  BY <1>1, <1>2, JobStepsKeepPlaces DEF Parts
<1>4. Asked'
  BY <1>2 DEF Parts, Asked
<1> QED
  BY <1>3, <1>4, RecordingKeepsFiles, RecordingKeepsTables DEF Parts

\* Restoration keeps the types.
LEMMA RestoreKeepsParts ==
    ASSUME Parts, NEW j \in Jobs, Restore(j)
    PROVE  Parts'
<1> USE DEF files, pending, aux
<1>1. /\ rows[j] \in Row /\ rows[j].cursor + 1 \in Nat /\ ItemCount[j] \in Nat
      /\ lease[j].item \in Nat
  BY ItemCountAssumption DEF Parts, Tables, Files, Row
<1>2. PICK to \in RunnerStates : runner' = [runner EXCEPT ![j] = to]
  BY DEF Restore, RecoverUnpublished, RecoveryFails, RecoverPublished, ReattachOutput, RetireRecovered,
     RestoreFails, SettleRecovered, Recover, RunnerStates, Recovering
<1>3. /\ UNCHANGED <<mem, late, media, owner, session, dropped, flagged, active, touched, booting, crashes, calls>>
      /\ abandoned' \in {abandoned, abandoned \cup {j}}
  BY DEF Restore, RecoverUnpublished, RecoveryFails, RecoverPublished, ReattachOutput, RetireRecovered,
     RestoreFails, SettleRecovered, SaveRecovered
<1>4. Places' /\ Asked'
  BY <1>2, <1>3, JobStepsKeepPlaces DEF Parts, Asked
<1>5. Files'
  <2>1. /\ library' \in {library, library \cup {<<j, lease[j].item>>}}
        /\ lease' = lease \/ lease' = [lease EXCEPT ![j] = NoLease]
    BY DEF Restore, RecoverUnpublished, RecoveryFails, RecoverPublished, ReattachOutput, RetireRecovered,
       RestoreFails, SettleRecovered
  <2>2. NoLease \in [item : Nat, published : BOOLEAN]
    BY DEF NoLease
  <2> QED
    BY <1>1, <1>3, <2>1, <2>2, JobStepsKeepFiles DEF Parts
<1>6. Tables'
  <2>1. CASE RecoverUnpublished(j)
    <3>1. Interrupted(j) \in Row
      <4>1. PICK status \in Statuses :
               Interrupted(j) \in {rows[j], [rows[j] EXCEPT !.status = status],
                                   [rows[j] EXCEPT !.status = status, !.cursor = ItemCount[j]]}
        BY DEF Interrupted, Statuses
      <4> QED
        BY <1>1, <4>1, MarkedRows, Zenon
    <3>2. PICK row \in Row : rows' = rows \/ Put(j, row)
      BY <2>1, <3>1 DEF RecoverUnpublished, SaveRecovered
    <3> QED
      BY <1>1, <1>3, <3>2, JobStepsKeepTables DEF Parts
  <2>2. CASE RecoveryFails(j) \/ RestoreFails(j)
    <3>1. PICK row : /\ rows' = rows \/ Put(j, row)
                     /\ \/ row = [rows[j] EXCEPT !.status = "failed"]
                        \/ row = [rows[j] EXCEPT !.status = "failed", !.outputs = lease[j].item]
      BY <2>2 DEF RecoveryFails, RestoreFails, SaveRecovered
    <3>2. row \in Row
      BY <1>1, <3>1 DEF Row, Statuses
    <3> QED
      BY <1>1, <1>3, <3>1, <3>2, JobStepsKeepTables DEF Parts
  <2>3. CASE RecoverPublished(j) \/ RetireRecovered(j)
    BY <1>3, <2>3 DEF RecoverPublished, RetireRecovered, Parts, Tables
  <2>4. CASE ReattachOutput(j)
    <3>1. PICK row : Put(j, row) /\ row = [rows[j] EXCEPT !.outputs = lease[j].item]
      BY <2>4 DEF ReattachOutput
    <3>2. row \in Row
      BY <1>1, <3>1 DEF Row
    <3> QED
      BY <1>3, <3>1, <3>2, JobStepsKeepTables DEF Parts
  <2>5. CASE SettleRecovered(j)
    <3>1. PICK status \in Statuses :
             rows' = rows \/ Put(j, [rows[j] EXCEPT !.status = status, !.cursor = @ + 1])
      BY <2>5 DEF SettleRecovered, SaveRecovered, Statuses
    <3>2. [rows[j] EXCEPT !.status = status, !.cursor = @ + 1] \in Row
      BY <1>1 DEF Row
    <3>3. PICK row \in Row : rows' = rows \/ Put(j, row)
      BY <3>1, <3>2
    <3> QED
      BY <1>1, <1>3, <3>3, JobStepsKeepTables DEF Parts
  <2> QED
    BY <2>1, <2>2, <2>3, <2>4, <2>5 DEF Restore
<1> QED
  BY <1>4, <1>5, <1>6 DEF Parts

\* Owners, crash, boot and playback keep the types.
LEMMA OthersKeepParts ==
    ASSUME Parts,
           \/ \E j \in Jobs : Own(j) \/ ObservationFails(j)
           \/ Playback \/ Crash \/ Boot \/ UNCHANGED vars
    PROVE  Parts'
<1> USE DEF files, pending, aux
<1>1. ASSUME NEW j \in Jobs, Own(j) \/ ObservationFails(j) PROVE Parts'
  <2>1. UNCHANGED <<rows, mem, late, files, calls, runner, flagged, touched, booting, crashes>>
    BY <1>1 DEF Own, Poll, Attached, GiveUpMissing, Leave, ObservationFails
  <2>2. /\ session' \in {session, "none"} /\ active' = active
        /\ abandoned' \in {abandoned, abandoned \cup {j}} /\ dropped' = dropped
    BY <1>1 DEF Own, Poll, Attached, GiveUpMissing, Leave, ObservationFails, ReleaseSession
  <2>3. PICK to \in {"none", "announced", "leaving"} : owner' = [owner EXCEPT ![j] = to]
    BY <1>1 DEF Own, Poll, Attached, GiveUpMissing, Leave, ObservationFails
  <2>4. Places'
    BY <2>1, <2>2, <2>3 DEF Parts, Places, Holders
  <2> QED
    BY <2>1, <2>4 DEF Parts, Tables, Files, Asked
<1>2. CASE Playback \/ Boot \/ UNCHANGED vars
  <2>1. UNCHANGED <<rows, mem, late, files, calls, runner, active, flagged, touched, crashes, dropped,
                    abandoned>>
    BY <1>2 DEF Playback, Boot, vars
  <2>2. session' \in {session, "none"} \cup Tokens /\ booting' \in {booting, FALSE}
    BY <1>2 DEF Playback, Boot, vars
  <2>3. owner' = owner \/ owner' \in [Jobs -> {"none", "polling"}]
    BY <1>2 DEF Playback, Boot, vars
  <2> QED
    BY <2>1, <2>2, <2>3 DEF Parts, Tables, Files, Asked, Places, Holders
<1>3. CASE Crash
  <2>1. Missing \in Row
    BY DEF Row, Missing, Statuses
  <2>2. Asked'
    <3>1. /\ Idle \in CallStates /\ [Idle EXCEPT !.pc = "done"] \in CallStates
      BY <2>1 DEF Idle, CallStates
    <3> QED
      BY <1>3, <3>1 DEF Asked, Crash
  <2>3. Tables'
    BY <1>3, <2>1 DEF Parts, Tables, Crash
  <2>4. Places'
    BY <1>3, BoundsAssumption DEF Parts, Places, RunnerStates, Recovering, Holders, Crash
  <2> QED
    BY <1>3, <2>2, <2>3, <2>4 DEF Parts, Files, Crash
<1> QED
  BY <1>1, <1>2, <1>3

\* Cancel requests keep the types.
LEMMA RequestsKeepParts ==
    ASSUME Parts, RecInv, NEW c \in Calls,
           (\E j \in Jobs : CallCancel(c, j)) \/ Cancel(c) \/ CancelGoesAway(c)
    PROVE  Parts'
<1> USE DEF files, pending, aux
<1>1. calls[c] \in CallStates /\ calls \in [Calls -> CallStates]
  BY DEF Parts, Asked
<1>2. ASSUME NEW j \in Jobs, CallCancel(c, j) PROVE Parts'
  <2>1. PICK to \in {"claim", "flag", "done"} :
           calls' = [calls EXCEPT ![c] = [Idle EXCEPT !.pc = to, !.job = j]]
    BY <1>2, Zenon DEF CallCancel
  <2>2. [Idle EXCEPT !.pc = to, !.job = j] \in CallStates
    BY Zenon DEF Idle, CallStates, Row, Missing, Statuses
  <2>3. Asked'
    BY <1>1, <2>1, <2>2 DEF Asked
  <2>4. UNCHANGED <<rows, files, runner, mem, active, flagged, owner, booting, crashes, pending, aux>>
    BY Zenon, <1>2 DEF CallCancel
  <2>5. session' \in {session, "none"}
    BY Zenon, <1>2 DEF CallCancel, ReleaseSession
  <2> QED
    BY <2>3, <2>4, <2>5 DEF Parts, Tables, Files, Places, Holders
<1>3. ASSUME NEW from, NEW to \in {"flag", "read", "put", "again", "done"}, Step(c, from, to) PROVE Asked'
  BY <1>1, <1>3 DEF Asked, CallStates, Step
<1>4. ASSUME Cancel(c) \/ CancelGoesAway(c) PROVE calls[c].job \in Jobs /\ calls[c].snap \in Row
  <2>1. calls[c].pc \in OnItsWay
    BY <1>4 DEF Cancel, CancelGoesAway, ClaimSession, SetFlag, ReadCurrent, PutCancelling, PutAgain,
           CancelFails, DropCall, DropPutAgain, Step, OnItsWay
  <2> QED
    BY <1>1, <2>1 DEF RecInv, Requests, Fitting, CallStates
<1> DEFINE j == calls[c].job
<1>5. ASSUME Cancel(c) \/ CancelGoesAway(c) PROVE Asked'
  <2>1. CASE ClaimSession(c)
    <3>1. CASE Step(c, "claim", "done")
      BY <1>3, <3>1
    <3>2. CASE calls' = [calls EXCEPT ![c].pc = "flag", ![c].acquired = session = "none"]
      <4>1. PICK b \in BOOLEAN : calls' = [calls EXCEPT ![c].pc = "flag", ![c].acquired = b]
        BY <3>2, Zenon
      <4> QED
        BY <1>1, <4>1 DEF Asked, CallStates
    <3> QED
      BY <2>1, <3>1, <3>2, Zenon DEF ClaimSession
  <2>2. CASE SetFlag(c) \/ PutCancelling(c) \/ PutAgain(c) \/ CancelGoesAway(c)
    BY <1>3, <2>2 DEF SetFlag, PutCancelling, PutAgain, CancelGoesAway, CancelFails, DropCall, DropPutAgain
  <2>3. CASE ReadCurrent(c)
    <3>1. PICK row \in Row : row = rows[j]
      BY <1>4, <1>5 DEF Parts, Tables
    <3>2. [row EXCEPT !.status = "cancelling"] \in Row
      BY DEF Row, Statuses
    <3>3. PICK to \in {"put", "again"}, snap \in {row, [row EXCEPT !.status = "cancelling"]} :
             calls' = [calls EXCEPT ![c].pc = to, ![c].snap = snap]
      BY <2>3, <3>1, Zenon DEF ReadCurrent
    <3>4. PICK copy \in Row : calls' = [calls EXCEPT ![c].pc = to, ![c].snap = copy]
      BY <3>2, <3>3
    <3> QED
      BY <1>1, <3>4 DEF Asked, CallStates
  <2> QED
    BY <1>5, <2>1, <2>2, <2>3 DEF Cancel
<1>6. ASSUME Cancel(c) \/ CancelGoesAway(c) PROVE Tables'
  <2>1. mem' = mem /\ (rows' = rows \/ Put(j, calls[c].snap))
    BY <1>6 DEF Cancel, CancelGoesAway, ClaimSession, SetFlag, ReadCurrent, PutCancelling, PutAgain,
           CancelFails, DropCall, DropPutAgain
  <2>2. \A write \in late' : write \in late \/ write = <<j, calls[c].snap>>
    BY <1>6 DEF Cancel, CancelGoesAway, ClaimSession, SetFlag, ReadCurrent, PutCancelling, PutAgain,
           CancelFails, DropCall, DropPutAgain, MayOutlive
  <2> QED
    BY <1>4, <1>6, <2>1, <2>2 DEF Parts, Tables, Put
<1>7. ASSUME Cancel(c) \/ CancelGoesAway(c) PROVE Places'
  <2>1. /\ UNCHANGED <<runner, active, booting, crashes, dropped>>
        /\ flagged' \in {flagged, flagged \cup {j}} /\ touched' \in {touched, touched \cup {j}}
        /\ abandoned' \in {abandoned, abandoned \cup {j}}
    BY <1>7 DEF Cancel, CancelGoesAway, ClaimSession, SetFlag, ReadCurrent, PutCancelling, PutAgain,
           CancelFails, DropCall, DropPutAgain
  <2>2. session' \in {session, "none", j} /\ (owner' = owner \/ Observe(j))
    BY <1>7 DEF Cancel, CancelGoesAway, ClaimSession, SetFlag, ReadCurrent, PutCancelling, PutAgain,
           CancelFails, DropCall, DropPutAgain, ReleaseSession
  <2> HIDE DEF j
  <2>3. j \in Jobs
    BY <1>4, <1>7 DEF j
  <2> QED
    BY <2>1, <2>2, <2>3 DEF Parts, Places, Observe, Holders
<1>8. ASSUME Cancel(c) \/ CancelGoesAway(c) PROVE Files'
  <2>1. UNCHANGED files
    BY <1>8 DEF Cancel, CancelGoesAway, ClaimSession, SetFlag, ReadCurrent, PutCancelling, PutAgain,
           CancelFails, DropCall, DropPutAgain
  <2> QED
    BY <2>1 DEF Parts, Files
<1> QED
  BY <1>2, <1>5, <1>6, <1>7, <1>8 DEF Parts

\* Every step keeps the types.
LEMMA NextKeepsParts == ASSUME Parts, RecInv, [Next]_vars PROVE Parts'
<1>1. ASSUME NEW j \in Jobs,
             \/ Reserve(j) \/ Start(j) \/ DropStart(j) \/ Record(j) \/ PersistStage(j) \/ Restore(j)
      PROVE  Parts'
  BY <1>1, StartsKeepParts, RecordingKeepsParts, RestoreKeepsParts
<1> QED
  BY <1>1, OthersKeepParts, RequestsKeepParts DEF Next

\* Every step keeps the invariant of Takes.
LEMMA NextPreservesTakes == ASSUME TakesInv, RecInv, [Next]_vars PROVE TakesInv'
<1>1. \A j \in Jobs : Takes(j)'
  BY NextKeepsTakes
<1>2. Parts'
  BY TypesHaveParts, NextKeepsParts DEF TakesInv
<1>3. (Parts /\ \A j \in Jobs : Takes(j))' => TypeOK'
  BY PartsMakeTypes, PTL
<1> QED
  BY <1>1, <1>2, <1>3 DEF TakesInv

\* The invariant of Takes.
LEMMA TakesInvIsInvariant == Spec => []TakesInv
<1>1. TakesInv /\ RecInv /\ RecInv' /\ [Next]_vars => TakesInv'
  BY NextPreservesTakes
<1> QED
  BY <1>1, InitEstablishesTakes, RecInvIsInvariant, PTL DEF Spec

\* The rows, leases, requests and late puts are well formed, and no copy of a
\* row names more than the job records (recording.rs).
THEOREM RecordingTypesCorrect == Spec => []TypeOK
<1>1. TakesInv => TypeOK
  BY DEF TakesInv
<1> QED
  BY <1>1, TakesInvIsInvariant, PTL

\* A published clip keeps its lease until the clip and the job that owns it are
\* stored, through failed puts and any number of crashes, and a row names only
\* outputs whose clip is in the library (MarkPublished, record_all and
\* recover_orphaned_jobs; recording.rs, hlae_recording.rs).
THEOREM TakesAreTraceable == Spec => []PublishedTakesAreTraceable
<1>1. TakesInv => PublishedTakesAreTraceable
  BY DEF TakesInv, Takes, Copies, Copy, PublishedTakesAreTraceable
<1> QED
  BY <1>1, TakesInvIsInvariant, PTL
=============================================================================
