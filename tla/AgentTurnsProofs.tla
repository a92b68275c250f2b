-------------------------- MODULE AgentTurnsProofs --------------------------
(***************************************************************************)
(* Proofs about Agent turns, for every number of turns, sessions, permits  *)
(* and revisions: a turn edits only what it was shown, its lease ends with *)
(* its entry, and what the tasks of the host do to the lease is what an    *)
(* Edit Lease allows.                                                      *)
(***************************************************************************)
EXTENDS AgentTurns, SequenceTheorems, TLAPS

\* Before a turn has its lease, and while its supervisor may still save its end.
Early == {"idle", "begin", "lock", "gate", "read", "acquire"}
Supervised == {"lock", "gate", "decide", "finish"} \cup Running

\* The durable entry of a turn follows its supervisor, and goes with its session.
Entries ==
    \A t \in Turns :
        /\ pc[t] \in {"idle", "begin"} => status[t] = "none"
        /\ pc[t] \in Supervised => status[t] \in {"streaming", "deleted"}
        /\ pc[t] = "finish" => outcome[t] \in Terminal
        /\ status[t] = "streaming" =>
              /\ SessionOf[t] \in sessions
              /\ pc[t] \in Supervised \/ t \in abandoned

\* A turn that was given the lease had read the Project before, and is given it
\* once; a turn that holds it, be the row stale or not, has not ended, or failed to
\* save its end.
Leaseholders ==
    /\ \A t \in Turns : pc[t] \in Early => t \notin acquired
    /\ \A t \in acquired : base[t] >= 1
    /\ lease.holder \in Turns =>
          /\ lease.holder \in acquired /\ status[lease.holder] \notin Terminal
          /\ pc[lease.holder] \in {"model", "decide", "finish"} \/ lease.holder \in abandoned

\* Of a turn that was saved nothing is left.
Saved ==
    \A t \in Turns : pc[t] = "report" \/ t \in completed =>
        /\ pc[t] \in {"report", "done"}
        /\ status[t] \in Terminal \cup {"deleted"}
        /\ lease.holder # t

\* Only who was given the lease has edited, and the holder has made every edit
\* since its context was read.
Edits ==
    /\ \A i \in 1..Len(authors) : authors[i] \in Turns => authors[i] \in acquired
    /\ lease.holder \in Turns =>
          \A i \in base[lease.holder]..Len(authors) : authors[i] = lease.holder

TurnInv == TypeOK /\ Entries /\ Leaseholders /\ Saved /\ Edits /\ EditsFollowTheirContext

----------------------------------------------------------------------------
(* The invariant is inductive.                                             *)

\* No turn has begun.
LEMMA InitEstablishesTurnInv == Init => TurnInv
<1> SUFFICES ASSUME Init PROVE TurnInv
  OBVIOUS
<1>1. TypeOK
  <2>1. authors \in Seq(Turns \cup {"human"}) /\ Len(authors) = 0
    BY DEF Init
  <2> QED
    BY <2>1, BoundsAssumption DEF Init, TypeOK, NoLease, Terminal, Running, Revision
<1>2. Entries /\ Leaseholders /\ Saved
  BY TurnsAssumption DEF Init, Entries, Leaseholders, Saved, NoLease, Supervised, Running
<1>3. Edits /\ EditsFollowTheirContext
  BY TurnsAssumption DEF Init, Edits, EditsFollowTheirContext, NoLease
<1> QED
  BY <1>1, <1>2, <1>3 DEF TurnInv

\* A step that leaves the entries, the lease and the edits alone, and reads no
\* context again.
LEMMA QuietStepsKeepEdits ==
    ASSUME TurnInv, UNCHANGED <<base, authors, lease, acquired>>
    PROVE  Edits' /\ EditsFollowTheirContext'
BY DEF TurnInv, Edits, EditsFollowTheirContext

\* A turn waits for its session, a permit and its context.
LEMMA WaitingPreservesTurnInv ==
    ASSUME TurnInv, NEW t \in Turns,
           \/ Send(t) \/ LockSession(t) \/ TakePermit(t) \/ StopWaiting(t)
           \/ LeaseRefused(t) \/ CallEditTool(t) \/ ReplyEnds(t) \/ StreamDropped(t)
           \/ Decide(t) \/ SaveFails(t) \/ Leave(t) \/ Cancel(t)
    PROVE  TurnInv'
<1>1. UNCHANGED <<base, sessions, status, authors, lease, acquired>>
  BY DEF Send, LockSession, TakePermit, StopWaiting, LeaseRefused, CallEditTool, ReplyEnds,
         StreamDropped, Decide, SaveFails, Leave, Cancel, EndRun, Forget, host
<1>2. TypeOK'
  <2> USE DEF Send, LockSession, TakePermit, StopWaiting, LeaseRefused, CallEditTool, ReplyEnds,
              StreamDropped, Decide, SaveFails, Leave, Cancel, EndRun, Forget, Goto, host,
              TurnInv, TypeOK, Terminal, Running, Revision
  <2>1. pc' \in [Turns -> {"idle", "begin", "lock", "gate", "decide", "finish",
                           "report", "cleanup", "leave", "done"} \cup Running]
    BY ZenonT(60)
  <2>2. outcome' \in [Turns -> {"none", "ok", "error"} \cup Terminal]
    <3>1. CASE UNCHANGED outcome
      BY <3>1
    <3>2. CASE Decide(t)
      <4>1. outcome' = [outcome EXCEPT ![t] = IF t \in cancelled THEN "cancelled"
                                              ELSE IF outcome[t] = "ok" THEN "completed" ELSE "failed"]
        BY ONLY <3>2 DEF Decide
      <4>2. outcome \in [Turns -> {"none", "ok", "error"} \cup Terminal]
        BY ONLY TurnInv DEF TurnInv, TypeOK
      <4> QED
        BY ONLY <4>1, <4>2 DEF Terminal
    <3>3. CASE \E result \in {"none", "error", "ok"} : outcome' = [outcome EXCEPT ![t] = result]
      BY <3>3
    <3> QED
      BY Zenon, <3>1, <3>2, <3>3
  <2>3. inflight' \in [Turns -> 0..MaxRevision]
    <3>1. inflight' \in {inflight, [inflight EXCEPT ![t] = Revision]}
      BY Zenon
    <3>2. Revision \in 0..MaxRevision
      BY BoundsAssumption
    <3> HIDE DEF Revision
    <3> QED
      BY ONLY <3>1, <3>2, TypeOK DEF TypeOK
  <2>4. \A S \in {cancelled', locked', beating', completed', abandoned', acquired'} : S \subseteq Turns
    OBVIOUS
  <2> QED
    BY ONLY <1>1, <2>1, <2>2, <2>3, <2>4, TypeOK DEF TypeOK, Revision
<1>3. Entries' /\ Leaseholders' /\ Saved'
  BY SMTT(60) DEF Send, LockSession, TakePermit, StopWaiting, LeaseRefused, CallEditTool, ReplyEnds,
         StreamDropped, Decide, SaveFails, Leave, Cancel, EndRun, Forget, Goto, host,
         TurnInv, TypeOK, Entries, Leaseholders, Saved, Terminal, Running, Early, Supervised
<1> QED
  BY <1>1, <1>2, <1>3, QuietStepsKeepEdits DEF TurnInv

\* A turn begins: its entry streams, or its session is gone.
LEMMA BeginPreservesTurnInv == ASSUME TurnInv, NEW t \in Turns, BeginTurn(t) PROVE TurnInv'
<1>1. UNCHANGED <<base, authors, lease, acquired>>
  BY DEF BeginTurn
<1>2. TypeOK'
  BY DEF BeginTurn, Goto, TurnInv, TypeOK, Terminal, Running, Revision
<1>3. /\ pc[t] = "begin"
      /\ \/ pc'[t] = "lock" /\ status'[t] = "streaming" /\ SessionOf[t] \in sessions
         \/ pc'[t] = "leave" /\ status' = status
      /\ \A u \in Turns \ {t} : pc'[u] = pc[u] /\ status'[u] = status[u]
      /\ UNCHANGED <<sessions, abandoned, completed, outcome>>
  BY DEF BeginTurn, Goto, TurnInv, TypeOK
<1>4. Entries'
  BY <1>3 DEF TurnInv, Entries, Running, Supervised
<1>5. Leaseholders'
  BY <1>1, <1>3 DEF TurnInv, Leaseholders, Early, Terminal
<1>6. Saved'
  BY <1>1, <1>3 DEF TurnInv, Saved
<1> QED
  BY <1>1, <1>2, <1>4, <1>5, <1>6, QuietStepsKeepEdits DEF TurnInv

\* The context is read before the turn is given a lease, so no edit is its own.
LEMMA ReadPreservesTurnInv == ASSUME TurnInv, NEW t \in Turns, ReadContext(t) PROVE TurnInv'
<1>1. /\ UNCHANGED <<authors, lease, acquired, status, sessions>>
      /\ Revision \in 1..MaxRevision
      /\ base' \in {base, [base EXCEPT ![t] = Revision]}
  BY DEF ReadContext, TurnInv, TypeOK, Revision
<1>2. t \notin acquired
  BY DEF ReadContext, EndRun, Goto, TurnInv, Leaseholders, Early
<1>3. TypeOK'
  <2>1. /\ pc' \in [Turns -> {"idle", "begin", "lock", "gate", "decide", "finish",
                              "report", "cleanup", "leave", "done"} \cup Running]
        /\ outcome' \in [Turns -> {"none", "ok", "error"} \cup Terminal]
        /\ base' \in [Turns -> 0..MaxRevision]
    <3>1. /\ pc' \in {[pc EXCEPT ![t] = "acquire"], [pc EXCEPT ![t] = "decide"]}
          /\ outcome' \in {outcome, [outcome EXCEPT ![t] = "error"]}
      BY DEF ReadContext, EndRun, Goto
    <3>2. /\ pc \in [Turns -> {"idle", "begin", "lock", "gate", "decide", "finish",
                               "report", "cleanup", "leave", "done"} \cup Running]
          /\ outcome \in [Turns -> {"none", "ok", "error"} \cup Terminal]
          /\ base \in [Turns -> 0..MaxRevision]
      BY DEF TurnInv, TypeOK
    <3>3. Revision \in 0..MaxRevision
      BY <1>1, BoundsAssumption
    <3> QED
      BY <1>1, <3>1, <3>2, <3>3 DEF Running
  <2>2. UNCHANGED <<cancelled, locked, beating, completed, abandoned, inflight>>
    BY DEF ReadContext
  <2> QED
    BY <1>1, <2>1, <2>2 DEF TurnInv, TypeOK, Revision
<1>4. Entries' /\ Leaseholders' /\ Saved'
  <2>1. /\ pc[t] = "read" /\ pc' \in {[pc EXCEPT ![t] = "acquire"], [pc EXCEPT ![t] = "decide"]}
        /\ outcome' \in {outcome, [outcome EXCEPT ![t] = "error"]}
        /\ UNCHANGED <<abandoned, completed>>
    BY DEF ReadContext, EndRun, Goto
  <2>2. \A u \in Turns \ {t} : pc'[u] = pc[u] /\ outcome'[u] = outcome[u]
    BY <2>1 DEF TurnInv, TypeOK
  <2>3. pc'[t] \in {"acquire", "decide"}
    BY <2>1 DEF TurnInv, TypeOK
  <2>4. Entries'
    BY <1>1, <2>1, <2>2, <2>3 DEF TurnInv, Entries, Running, Supervised
  <2>5. Leaseholders'
    BY <1>1, <1>2, <2>1, <2>2, <2>3, <1>3 DEF TurnInv, Leaseholders, Early, TypeOK
  <2>6. Saved'
    BY <1>1, <2>1, <2>2, <2>3 DEF TurnInv, Saved
  <2> QED
    BY <2>4, <2>5, <2>6
<1>5. \A u \in Turns \ {t} : base'[u] = base[u]
  BY <1>1 DEF TurnInv, TypeOK
<1>6. Edits' /\ EditsFollowTheirContext'
  BY <1>1, <1>2, <1>5 DEF TurnInv, Leaseholders, Edits, EditsFollowTheirContext
<1> QED
  BY <1>3, <1>4, <1>6 DEF TurnInv

\* Whoever acquires the lease does so on the revision it was shown.
LEMMA AcquirePreservesTurnInv == ASSUME TurnInv, NEW t \in Turns, AcquireLease(t) PROVE TurnInv'
<1>1. /\ UNCHANGED <<base, authors, status, sessions>>
      /\ base[t] = Len(authors) + 1 /\ Len(authors) \in Nat
      /\ lease'.holder = t
      /\ acquired' = acquired \cup {t}
  BY DEF AcquireLease, CanAcquire, Revision, TurnInv, TypeOK
<1>2. TypeOK'
  <2>1. lease' \in [holder : Turns \cup {"none"}, base : 0..MaxRevision, age : 0..LeaseTimeout + 1]
    BY BoundsAssumption DEF AcquireLease, TurnInv, TypeOK
  <2>2. \A S \in {cancelled', locked', beating', completed', abandoned', acquired'} : S \subseteq Turns
    BY DEF AcquireLease, TurnInv, TypeOK
  <2> QED
    BY <2>1, <2>2 DEF AcquireLease, Goto, TurnInv, TypeOK, Terminal, Running, Revision
<1>3. Entries' /\ Leaseholders' /\ Saved'
  <2>1. /\ pc[t] = "acquire" /\ pc'[t] = "model"
        /\ \A u \in Turns \ {t} : pc'[u] = pc[u]
        /\ UNCHANGED <<abandoned, completed, outcome>>
    BY DEF AcquireLease, Goto, TurnInv, TypeOK
  <2>2. Entries'
    BY <1>1, <2>1 DEF TurnInv, Entries, Running, Supervised
  <2>3. status[t] \notin Terminal
    BY <2>1 DEF TurnInv, Entries, Supervised, Running, Terminal
  <2>4. Leaseholders'
    BY <1>1, <2>1, <2>3 DEF TurnInv, Leaseholders, Early
  <2>5. Saved'
    BY <1>1, <2>1 DEF TurnInv, Saved
  <2> QED
    BY <2>2, <2>4, <2>5
<1>4. Edits' /\ EditsFollowTheirContext'
  BY <1>1 DEF TurnInv, Edits, EditsFollowTheirContext
<1> QED
  BY <1>2, <1>3, <1>4 DEF TurnInv

\* A step after which the lease is gone, or is what it was.
LEMMA EndsPreserveTurnInv ==
    ASSUME TurnInv, NEW t \in Turns,
           SaveTerminal(t) \/ SessionDisappeared(t) \/ Cleanup(t) \/ Report(t)
    PROVE  TurnInv'
<1> USE TurnsAssumption
<1>1. /\ UNCHANGED <<base, authors, acquired, sessions>>
      /\ lease' \in {lease, WithoutLease(t)}
  BY DEF SaveTerminal, SessionDisappeared, Cleanup, Report, Forget
<1>2. lease' = lease \/ lease' = NoLease
  BY <1>1 DEF WithoutLease
<1>3. /\ pc[t] \in {"finish", "cleanup", "report"}
      /\ pc'[t] \in {"report", "leave", "done"}
      /\ pc' \in [Turns -> {"idle", "begin", "lock", "gate", "decide", "finish",
                            "report", "cleanup", "leave", "done"} \cup Running]
      /\ outcome' \in [Turns -> {"none", "ok", "error"} \cup Terminal]
      /\ status' \in [Turns -> {"none", "streaming", "deleted"} \cup Terminal]
      /\ \A u \in Turns \ {t} : pc'[u] = pc[u] /\ outcome'[u] = outcome[u] /\ status'[u] = status[u]
  BY ZenonT(60) DEF SaveTerminal, SessionDisappeared, Cleanup, Report, Forget, Goto, TurnInv, TypeOK, Entries
<1>4. TypeOK'
  <2>1. lease' \in [holder : Turns \cup {"none"}, base : 0..MaxRevision, age : 0..LeaseTimeout + 1]
    BY <1>2, BoundsAssumption DEF NoLease, TurnInv, TypeOK
  <2>2. UNCHANGED inflight /\ cancelled' \subseteq cancelled /\ locked' \subseteq locked
        /\ beating' \subseteq beating /\ completed' \subseteq completed \cup {t}
        /\ abandoned' = abandoned
    BY DEF SaveTerminal, SessionDisappeared, Cleanup, Report, Forget
  <2> QED
    BY <1>1, <1>3, <2>1, <2>2 DEF TurnInv, TypeOK, Revision
<1>6. \/ /\ pc[t] = "finish" /\ pc'[t] = "report" /\ status[t] = "streaming" /\ status'[t] = outcome[t]
         /\ lease' = WithoutLease(t) /\ completed' = completed
      \/ /\ pc[t] \in {"finish", "cleanup"} /\ pc'[t] = "leave" /\ status' = status /\ completed' = completed
         /\ pc[t] = "finish" => SessionOf[t] \notin sessions /\ lease' = WithoutLease(t)
      \/ /\ pc[t] = "report" /\ pc'[t] = "done" /\ status' = status /\ lease' = lease
         /\ completed' = completed \cup {t}
  BY DEF SaveTerminal, SessionDisappeared, Cleanup, Report, Forget, Goto, TurnInv, TypeOK
<1>7. abandoned' = abandoned
  BY DEF SaveTerminal, SessionDisappeared, Cleanup, Report, Forget
<1>8. Entries'
  BY <1>1, <1>3, <1>6, <1>7 DEF TurnInv, Entries, Running, Supervised, Terminal
<1>9. Leaseholders'
  BY <1>1, <1>2, <1>3, <1>6, <1>7 DEF TurnInv, Leaseholders, Saved, Early, NoLease, WithoutLease, Terminal
<1>10. Saved'
  BY <1>1, <1>2, <1>3, <1>6 DEF TurnInv, Saved, Entries, NoLease, WithoutLease, Terminal
<1>5. Edits' /\ EditsFollowTheirContext'
  BY <1>1, <1>2 DEF TurnInv, Edits, EditsFollowTheirContext, NoLease
<1> QED
  BY <1>4, <1>5, <1>8, <1>9, <1>10 DEF TurnInv

\* The heartbeat renews the lease, or cancels its turn.
LEMMA HeartbeatPreservesTurnInv == ASSUME TurnInv, NEW t \in Turns, Heartbeat(t) PROVE TurnInv'
<1>1. /\ UNCHANGED <<pc, base, outcome, completed, abandoned, sessions, status, authors, acquired>>
      /\ lease' \in [holder : Turns \cup {"none"}, base : 0..MaxRevision, age : 0..LeaseTimeout + 1]
      /\ lease'.holder = lease.holder
  BY BoundsAssumption DEF Heartbeat, TurnInv, TypeOK
<1>2. UNCHANGED <<inflight, locked>> /\ cancelled' \subseteq Turns /\ beating' \subseteq Turns
  BY DEF Heartbeat, StopTurn, TurnInv, TypeOK
<1>3. TypeOK'
  BY <1>1, <1>2 DEF TurnInv, TypeOK, Revision
<1>4. Entries' /\ Leaseholders' /\ Saved'
  BY <1>1 DEF TurnInv, Entries, Leaseholders, Saved
<1>5. Edits' /\ EditsFollowTheirContext'
  BY <1>1 DEF TurnInv, Edits, EditsFollowTheirContext
<1> QED
  BY <1>3, <1>4, <1>5 DEF TurnInv

\* One more edit at the end of the history.
LEMMA AppendedEdit ==
    ASSUME NEW S, NEW s \in Seq(S), NEW e \in S
    PROVE  /\ Append(s, e) \in Seq(S)
           /\ Len(s) \in Nat
           /\ Len(Append(s, e)) = Len(s) + 1
           /\ \A i \in 1..Len(s) : Append(s, e)[i] = s[i]
           /\ Append(s, e)[Len(s) + 1] = e
BY AppendProperties, LenProperties

\* A patch lands under the lease of its turn, or not at all.
LEMMA CommitPreservesTurnInv == ASSUME TurnInv, NEW t \in Turns, CommitPatch(t) PROVE TurnInv'
<1> DEFINE n == Len(authors)
<1>1. UNCHANGED <<host, sessions, status, lease, acquired>>
  BY DEF CommitPatch
<1>2. \/ authors' = authors
      \/ /\ authors' = Append(authors, t)
         /\ n + 1 < MaxRevision
         /\ lease.holder = t
  <2>1. CASE MayCommit(t) /\ Revision < MaxRevision
    BY <2>1, TurnsAssumption DEF CommitPatch, MayCommit, LiveLease, NoLease, Revision
  <2>2. CASE ~(MayCommit(t) /\ Revision < MaxRevision)
    BY <2>2, Zenon DEF CommitPatch
  <2> QED
    BY <2>1, <2>2
<1>3. authors' = authors \/ (/\ authors' \in Seq(Turns \cup {"human"})
                             /\ n \in Nat /\ Len(authors') = n + 1
                             /\ \A i \in 1..n : authors'[i] = authors[i]
                             /\ authors'[n + 1] = t)
  <2>1. authors \in Seq(Turns \cup {"human"}) /\ t \in Turns \cup {"human"}
    BY DEF TurnInv, TypeOK
  <2> QED
    BY <1>2, <2>1, AppendedEdit
<1>4. inflight' \in [Turns -> 0..MaxRevision]
  BY BoundsAssumption DEF CommitPatch, TurnInv, TypeOK
<1>5. TypeOK'
  <2>1. authors' \in Seq(Turns \cup {"human"}) /\ Revision' <= MaxRevision
    BY <1>2, <1>3, BoundsAssumption DEF TurnInv, TypeOK, Revision
  <2> QED
    BY <1>1, <1>4, <2>1 DEF TurnInv, TypeOK, host
<1>6. Entries' /\ Leaseholders' /\ Saved'
  BY <1>1 DEF TurnInv, Entries, Leaseholders, Saved, host
<1>7. UNCHANGED <<base, lease, acquired>>
  BY <1>1 DEF host
<1>8. CASE authors' = authors
  BY <1>5, <1>6, <1>7, <1>8, QuietStepsKeepEdits DEF TurnInv
<1>9. CASE authors' = Append(authors, t) /\ lease.holder = t
  <2>1. /\ n \in Nat /\ Len(authors') = n + 1
        /\ \A i \in 1..n : authors'[i] = authors[i]
        /\ authors'[n + 1] = t
    BY <1>9, AppendedEdit DEF TurnInv, TypeOK
  <2>2. /\ t \in acquired /\ base[t] \in Nat \ {0}
        /\ \A i \in base[t]..n : authors[i] = t
    BY <1>9 DEF TurnInv, TypeOK, Leaseholders, Edits
  <2>3. Edits'
    BY <1>7, <1>9, <2>1, <2>2 DEF TurnInv, Edits
  <2>4. ASSUME NEW i \in 1..(n + 1), authors'[i] \in Turns, NEW j \in base[authors'[i]]..i
        PROVE  authors'[j] = authors'[i]
    <3>1. CASE i = n + 1
      BY <2>1, <2>2, <2>4, <3>1
    <3>2. CASE i \in 1..n
      <4>1. authors[i] \in acquired /\ base[authors[i]] \in Nat \ {0}
        BY <2>1, <2>4, <3>2 DEF TurnInv, TypeOK, Edits, Leaseholders
      <4>2. j \in 1..n /\ authors[j] = authors[i]
        BY <2>1, <2>4, <3>2, <4>1 DEF TurnInv, EditsFollowTheirContext
      <4> QED
        BY <2>1, <3>2, <4>2
    <3> QED
      BY <2>1, <3>1, <3>2
  <2>5. EditsFollowTheirContext'
    BY <1>7, <2>1, <2>4 DEF EditsFollowTheirContext
  <2> QED
    BY <1>5, <1>6, <2>3, <2>5 DEF TurnInv
<1> QED
  BY <1>2, <1>8, <1>9

\* A person edits.
LEMMA HumanPreservesTurnInv == ASSUME TurnInv, HumanEdit PROVE TurnInv'
<1> DEFINE n == Len(authors)
<1>1. /\ UNCHANGED <<host, inflight, sessions, status, acquired>>
      /\ lease' = NoLease
      /\ authors' = Append(authors, "human") /\ n + 1 < MaxRevision
  BY DEF HumanEdit, Revision
<1>2. /\ authors' \in Seq(Turns \cup {"human"})
      /\ n \in Nat /\ Len(authors') = n + 1
      /\ \A i \in 1..n : authors'[i] = authors[i]
      /\ authors'[n + 1] = "human"
  BY <1>1, AppendedEdit DEF TurnInv, TypeOK
<1>3. TypeOK'
  BY <1>1, <1>2, BoundsAssumption DEF TurnInv, TypeOK, host, NoLease, Revision
<1>4. Entries' /\ Leaseholders' /\ Saved'
  BY <1>1, TurnsAssumption DEF TurnInv, Entries, Leaseholders, Saved, host, NoLease
<1>5. Edits'
  BY <1>1, <1>2, TurnsAssumption DEF TurnInv, Edits, NoLease, host
<1>6. EditsFollowTheirContext'
  BY <1>1, <1>2, TurnsAssumption DEF TurnInv, TypeOK, Leaseholders, Edits, EditsFollowTheirContext, host
<1> QED
  BY <1>3, <1>4, <1>5, <1>6 DEF TurnInv

\* Time passes, or somebody finds a stale row.
LEMMA LeaseTimePreservesTurnInv == ASSUME TurnInv, ReadLease \/ Tick PROVE TurnInv'
<1>1. UNCHANGED <<host, inflight, sessions, status, authors, acquired>>
  BY DEF ReadLease, Tick
<1>2. /\ lease' \in [holder : Turns \cup {"none"}, base : 0..MaxRevision, age : 0..LeaseTimeout + 1]
      /\ lease'.holder \in {lease.holder, "none"}
  <2>1. CASE ReadLease
    BY <2>1, BoundsAssumption DEF ReadLease, NoLease
  <2>2. CASE Tick
    <3>1. lease.age <= LeaseTimeout
      BY <2>2, BoundsAssumption DEF Tick, LiveLease, TurnInv, TypeOK
    <3>2. lease \in [holder : Turns \cup {"none"}, base : 0..MaxRevision, age : 0..LeaseTimeout + 1]
      BY DEF TurnInv, TypeOK
    <3>3. lease' = [lease EXCEPT !.age = lease.age + 1]
      BY <2>2 DEF Tick
    <3> QED
      BY <3>1, <3>2, <3>3, BoundsAssumption
  <2> QED
    BY <2>1, <2>2
<1>3. TypeOK'
  BY <1>1, <1>2 DEF TurnInv, TypeOK, host, Revision
<1>4. Entries' /\ Leaseholders' /\ Saved'
  BY <1>1, <1>2, TurnsAssumption DEF TurnInv, Entries, Leaseholders, Saved, host
<1>5. Edits' /\ EditsFollowTheirContext'
  BY <1>1, <1>2, TurnsAssumption DEF TurnInv, Edits, EditsFollowTheirContext, host
<1> QED
  BY <1>3, <1>4, <1>5 DEF TurnInv

\* A session is deleted.
LEMMA DeletionPreservesTurnInv == ASSUME TurnInv, NEW s \in Sessions, DeleteSession(s) PROVE TurnInv'
<1>1. UNCHANGED <<host, inflight, authors, lease, acquired>> /\ sessions' = sessions \ {s}
  BY DEF DeleteSession
<1>2. /\ DOMAIN status' = Turns
      /\ \A t \in Turns : status'[t] = IF SessionOf[t] = s /\ status[t] # "none" THEN "deleted" ELSE status[t]
  BY DEF DeleteSession
<1>3. TypeOK'
  <2>1. status' \in [Turns -> {"none", "streaming", "deleted"} \cup Terminal]
    BY DEF DeleteSession, TurnInv, TypeOK
  <2> QED
    BY <1>1, <2>1 DEF TurnInv, TypeOK, host, Revision
<1>4. Entries'
  BY <1>1, <1>2 DEF TurnInv, Entries, host
<1>5. Leaseholders'
  BY <1>1, <1>2 DEF TurnInv, Leaseholders, Terminal, host
<1>6. Saved'
  BY <1>1, <1>2 DEF TurnInv, Saved, Terminal, host
<1>7. Edits' /\ EditsFollowTheirContext'
  BY <1>1 DEF TurnInv, Edits, EditsFollowTheirContext, host
<1> QED
  BY <1>3, <1>4, <1>5, <1>6, <1>7 DEF TurnInv

\* The application starts again.
LEMMA RestartPreservesTurnInv == ASSUME TurnInv, CrashAndRestart PROVE TurnInv'
<1>1. /\ UNCHANGED <<base, completed, sessions, authors, acquired>>
      /\ lease' = NoLease
      /\ status' = [t \in Turns |-> IF status[t] = "streaming" THEN "cancelled" ELSE status[t]]
      /\ pc' = [t \in Turns |-> IF pc[t] = "idle" THEN "idle" ELSE "done"]
  BY DEF CrashAndRestart, Recovered
<1>2. TypeOK'
  <2>1. status' \in [Turns -> {"none", "streaming", "deleted"} \cup Terminal]
    BY <1>1 DEF TurnInv, TypeOK, Terminal
  <2>2. lease' \in [holder : Turns \cup {"none"}, base : 0..MaxRevision, age : 0..LeaseTimeout + 1]
    BY <1>1, BoundsAssumption DEF NoLease
  <2>3. pc' \in [Turns -> {"idle", "begin", "lock", "gate", "decide", "finish",
                           "report", "cleanup", "leave", "done"} \cup Running]
    BY <1>1
  <2> QED
    BY <1>1, <2>1, <2>2, <2>3, BoundsAssumption DEF CrashAndRestart, TurnInv, TypeOK, Revision
<1>3. Entries'
  BY <1>1 DEF TurnInv, Entries, Supervised, Running
<1>4. Leaseholders' /\ Saved'
  BY <1>1, TurnsAssumption DEF TurnInv, Leaseholders, Saved, Early, Terminal, NoLease
<1>5. Edits' /\ EditsFollowTheirContext'
  BY <1>1, TurnsAssumption DEF TurnInv, Edits, EditsFollowTheirContext, NoLease
<1> QED
  BY <1>2, <1>3, <1>4, <1>5 DEF TurnInv

\* Every step.
LEMMA StepPreservesTurnInv == ASSUME TurnInv, [Next]_vars PROVE TurnInv'
<1>1. ASSUME NEW t \in Turns, Send(t) \/ Supervise(t) PROVE TurnInv'
  BY <1>1, WaitingPreservesTurnInv, BeginPreservesTurnInv, ReadPreservesTurnInv,
     AcquirePreservesTurnInv, EndsPreserveTurnInv DEF Supervise
<1>2. ASSUME NEW t \in Turns,
             CallEditTool(t) \/ ReplyEnds(t) \/ StreamDropped(t) \/ Heartbeat(t) \/ CommitPatch(t) \/ Cancel(t)
      PROVE  TurnInv'
  BY <1>2, WaitingPreservesTurnInv, HeartbeatPreservesTurnInv, CommitPreservesTurnInv
<1>3. CASE UNCHANGED vars
  <2>1. UNCHANGED <<pc, cancelled, locked, base, outcome, beating, completed, abandoned, inflight,
                    sessions, status, authors, lease, acquired>>
    BY <1>3 DEF vars, host
  <2>2. TypeOK' /\ Entries' /\ Leaseholders' /\ Saved'
    BY <2>1 DEF TurnInv, TypeOK, Entries, Leaseholders, Saved, Revision
  <2> QED
    BY <2>1, <2>2, QuietStepsKeepEdits DEF TurnInv
<1> QED
  BY <1>1, <1>2, <1>3, DeletionPreservesTurnInv, HumanPreservesTurnInv, LeaseTimePreservesTurnInv,
     RestartPreservesTurnInv DEF Next

\* The inductive invariant of turns, their entries and their lease.
THEOREM TurnInvariant == Spec => []TurnInv
BY InitEstablishesTurnInv, StepPreservesTurnInv, PTL DEF Spec

\* The variables of a turn, its entry and its lease have their types.
THEOREM TurnsTypeCorrect == Spec => []TypeOK
<1>1. TurnInv => TypeOK
  BY DEF TurnInv
<1> QED
  BY <1>1, TurnInvariant, PTL

\* A turn edits only what it was shown: run_agent_chat reads the Project before
\* it asks for the lease, and acquire_project_edit_lease refuses another base.
THEOREM TurnsEditTheirContext == Spec => []EditsFollowTheirContext
<1>1. TurnInv => EditsFollowTheirContext
  BY DEF TurnInv
<1> QED
  BY <1>1, TurnInvariant, PTL

\* A lease has a turn that will end it.
LEMMA TurnInvEndsTheLease == TurnInv => LeaseEndsWithItsTurn
BY DEF TurnInv, TypeOK, Entries, Leaseholders, Saved, LeaseEndsWithItsTurn, Supervised

\* The lease row belongs to a turn that still edits or is being saved, or to one
\* whose save failed for good: a saved turn, one whose session is gone and one that
\* a restart ended hold none; and no entry is streaming without a supervisor but one
\* whose save failed (finish_agent_turn, recover_interrupted_turns).
THEOREM LeasesEndWithTheirTurns == Spec => []LeaseEndsWithItsTurn
BY TurnInvEndsTheLease, TurnInvariant, PTL

\* Who commits has not ended.
LEMMA StepEditsBeforeTheEnd ==
    ASSUME TurnInv, [Next]_vars, authors' # authors,
           authors'[Len(authors')] \in Turns
    PROVE  status[authors'[Len(authors')]] \notin Terminal
<1>1. CASE \E t \in Turns : CommitPatch(t)
  <2>1. PICK t \in Turns : CommitPatch(t)
    BY <1>1
  <2>2. MayCommit(t) /\ authors' = Append(authors, t)
    BY <2>1, Zenon DEF CommitPatch
  <2>3. lease.holder = t
    BY <2>2, TurnsAssumption DEF MayCommit, LiveLease, NoLease
  <2>4. authors \in Seq(Turns \cup {"human"}) /\ t \in Turns \cup {"human"}
    BY DEF TurnInv, TypeOK
  <2>5. authors'[Len(authors')] = t
    BY <2>2, <2>4, AppendedEdit
  <2> QED
    BY <2>3, <2>5 DEF TurnInv, Leaseholders
<1>2. CASE HumanEdit
  <2>1. authors \in Seq(Turns \cup {"human"}) /\ authors' = Append(authors, "human")
    BY <1>2 DEF HumanEdit, TurnInv, TypeOK
  <2>2. authors'[Len(authors')] = "human"
    BY <2>1, AppendedEdit
  <2> QED
    BY <2>2, TurnsAssumption
<1>3. CASE ~HumanEdit /\ ~(\E t \in Turns : CommitPatch(t))
  <2>1. ASSUME NEW t \in Turns, Send(t) \/ Supervise(t) \/ CallEditTool(t) \/ ReplyEnds(t)
                                \/ StreamDropped(t) \/ Heartbeat(t) \/ Cancel(t)
        PROVE  UNCHANGED authors
    BY <2>1 DEF Send, Supervise, BeginTurn, LockSession, TakePermit, StopWaiting, ReadContext,
                AcquireLease, LeaseRefused, Decide, SaveTerminal, SessionDisappeared, SaveFails,
                Cleanup, Report, Leave, CallEditTool, ReplyEnds, StreamDropped, Heartbeat, Cancel
  <2>2. ReadLease \/ Tick \/ CrashAndRestart \/ (\E s \in Sessions : DeleteSession(s)) \/ UNCHANGED vars
        => UNCHANGED authors
    BY DEF ReadLease, Tick, CrashAndRestart, DeleteSession, vars
  <2> QED
    BY <1>3, <2>1, <2>2 DEF Next
<1> QED
  BY <1>1, <1>2, <1>3

\* No edit of a turn lands once its entry says how it ended, although a patch
\* may sit in the blocking pool for as long as it likes.
THEOREM EditsEndWithTheirTurn == Spec => NoEditAfterTheEnd
<1>1. TurnInv /\ [Next]_vars =>
          [authors' # authors =>
              LET t == authors'[Len(authors')] IN t \in Turns => status[t] \notin Terminal]_vars
  BY StepEditsBeforeTheEnd
<1> QED
  BY <1>1, TurnInvariant, PTL DEF Spec, NoEditAfterTheEnd

----------------------------------------------------------------------------
(* The Edit Lease behind the turns.                                        *)

\* The row excludes everybody else.
Holds == lease # NoLease /\ lease = LiveLease

\* A row is live or stale.
LEMMA LeasesAreLiveOrStale ==
    ASSUME TypeOK
    PROVE  /\ Holds <=> lease # NoLease /\ ~(lease.age > LeaseTimeout)
           /\ LiveLease = NoLease <=> ~Holds
           /\ LiveLease = IF Holds THEN lease ELSE NoLease
BY DEF Holds, LiveLease, TypeOK

\* No edit and no lease yet.
LEMMA InitRefinesLease == Init => Lease!Init
BY DEF Init, Lease!Init, NoLease, LiveLease

\* The supervisor and its runner.
LEMMA SupervisionRefinesLease ==
    ASSUME TurnInv, NEW t \in Turns, Supervise(t)
    PROVE  [Lease!Next]_Lease!vars
<1> USE TurnsAssumption
<1>1. TypeOK /\ LeaseTimeout \in Nat
  BY BoundsAssumption DEF TurnInv
<1>2. CASE AcquireLease(t)
  <2>1. ~Holds /\ t \notin acquired
    BY <1>1, <1>2, LeasesAreLiveOrStale DEF AcquireLease, CanAcquire, Goto, TurnInv, Leaseholders, Early
  <2>2. lease'.holder = t /\ lease'.age = 0
    BY <1>2 DEF AcquireLease
  <2>3. Holds'
    BY <1>1, <2>2 DEF Holds, NoLease, LiveLease
  <2>4. Lease!Begin(t)
    BY <1>2, <2>1, <2>2, <2>3 DEF AcquireLease, Lease!Begin, Holds
  <2> QED
    BY <2>4 DEF Lease!Next
<1>3. CASE SaveTerminal(t) \/ SessionDisappeared(t) \/ Cleanup(t)
  <2>1. UNCHANGED <<authors, acquired>> /\ (lease' = lease \/ lease' = NoLease)
    BY <1>3 DEF SaveTerminal, SessionDisappeared, Cleanup, WithoutLease
  <2>2. CASE lease' = NoLease
    <3>1. Lease!End
      BY <2>1, <2>2 DEF Lease!End, NoLease
    <3> QED
      BY <3>1 DEF Lease!Next
  <2>3. CASE lease' = lease
    BY <2>1, <2>3 DEF Lease!vars, LiveLease
  <2> QED
    BY <2>1, <2>2, <2>3
<1>4. CASE \/ BeginTurn(t) \/ LockSession(t) \/ TakePermit(t) \/ StopWaiting(t) \/ ReadContext(t)
           \/ LeaseRefused(t) \/ Decide(t) \/ SaveFails(t) \/ Report(t) \/ Leave(t)
  <2>1. UNCHANGED <<authors, lease, acquired>>
    BY <1>4 DEF BeginTurn, LockSession, TakePermit, StopWaiting, ReadContext, LeaseRefused, Decide,
                SaveFails, Report, Leave
  <2> QED
    BY <2>1 DEF Lease!vars, LiveLease
<1> QED
  BY <1>2, <1>3, <1>4 DEF Supervise

\* Heartbeats that come too late, and patches that outlive their turn.
LEMMA TasksRefineLease ==
    ASSUME TurnInv, NEW t \in Turns,
           \/ Send(t) \/ CallEditTool(t) \/ ReplyEnds(t) \/ StreamDropped(t)
           \/ Heartbeat(t) \/ CommitPatch(t) \/ Cancel(t)
    PROVE  [Lease!Next]_Lease!vars
<1> USE TurnsAssumption
<1>1. TypeOK /\ LeaseTimeout \in Nat
  BY BoundsAssumption DEF TurnInv
<1>2. CASE Heartbeat(t) /\ lease' # lease
  <2>1. lease.holder = t /\ lease'.holder = t /\ lease'.age = 0 /\ UNCHANGED <<authors, acquired>>
    BY <1>1, <1>2 DEF Heartbeat, TypeOK
  <2>2. Holds'
    BY <1>1, <2>1 DEF Holds, NoLease, LiveLease
  <2>3. Lease!Renew
    BY <2>1, <2>2 DEF Lease!Renew, Holds
  <2> QED
    BY <2>3 DEF Lease!Next
<1>3. CASE CommitPatch(t) /\ authors' # authors
  <2>1. MayCommit(t) /\ authors' = Append(authors, t) /\ UNCHANGED <<lease, acquired>>
    BY <1>3, Zenon DEF CommitPatch
  <2>2. Holds /\ lease.holder = t
    BY <1>1, <2>1, LeasesAreLiveOrStale DEF MayCommit, NoLease
  <2>3. Lease!TurnEdit(t)
    BY <2>1, <2>2 DEF Lease!TurnEdit, Holds, LiveLease
  <2> QED
    BY <2>3 DEF Lease!Next
<1>4. CASE UNCHANGED <<authors, lease>>
  <2>1. UNCHANGED acquired
    BY DEF Send, CallEditTool, ReplyEnds, StreamDropped, Heartbeat, CommitPatch, Cancel
  <2> QED
    BY <1>4, <2>1 DEF Lease!vars, LiveLease
<1>5. /\ Heartbeat(t) \/ UNCHANGED lease
      /\ CommitPatch(t) \/ UNCHANGED authors
      /\ Heartbeat(t) => UNCHANGED authors
      /\ CommitPatch(t) => UNCHANGED lease
  BY DEF Send, CallEditTool, ReplyEnds, StreamDropped, Heartbeat, CommitPatch, Cancel
<1> QED
  BY <1>2, <1>3, <1>4, <1>5

\* People, time, deletions and restarts.
LEMMA WorldRefinesLease ==
    ASSUME TurnInv,
           \/ \E s \in Sessions : DeleteSession(s)
           \/ HumanEdit \/ ReadLease \/ Tick \/ CrashAndRestart \/ UNCHANGED vars
    PROVE  [Lease!Next]_Lease!vars
<1> USE TurnsAssumption
<1>1. TypeOK /\ LeaseTimeout \in Nat
  BY BoundsAssumption DEF TurnInv
<1>2. CASE HumanEdit
  <2>1. ~Holds /\ lease' = NoLease /\ authors' = Append(authors, "human") /\ UNCHANGED acquired
    BY <1>1, <1>2, LeasesAreLiveOrStale DEF HumanEdit
  <2>2. Lease!OtherEdit("human")
    BY <2>1 DEF Lease!OtherEdit, Holds, NoLease
  <2> QED
    BY <2>2 DEF Lease!Next
<1>3. CASE ReadLease \/ CrashAndRestart
  <2>1. Lease!End
    BY <1>3 DEF ReadLease, CrashAndRestart, Lease!End, NoLease
  <2> QED
    BY <2>1 DEF Lease!Next
<1>4. CASE Tick
  <2>1. UNCHANGED <<authors, acquired>> /\ Holds /\ lease'.holder = lease.holder
    BY <1>1, <1>4 DEF Tick, Holds, TypeOK
  <2>2. CASE Holds'
    BY <2>1, <2>2 DEF Lease!vars, Holds
  <2>3. CASE ~Holds'
    <3>1. Lease!Lapse
      BY <2>1, <2>3 DEF Lease!Lapse, Holds
    <3> QED
      BY <3>1 DEF Lease!Next
  <2> QED
    BY <2>2, <2>3
<1>5. CASE (\E s \in Sessions : DeleteSession(s)) \/ UNCHANGED vars
  <2>1. UNCHANGED <<authors, lease, acquired>>
    BY <1>5 DEF DeleteSession, vars
  <2> QED
    BY <2>1 DEF Lease!vars, LiveLease
<1> QED
  BY <1>2, <1>3, <1>4, <1>5

\* Every step is a step of the Edit Lease, or none.
LEMMA StepRefinesLease == ASSUME TurnInv, [Next]_vars PROVE [Lease!Next]_Lease!vars
<1>1. ASSUME NEW t \in Turns,
             \/ Send(t) \/ Supervise(t) \/ CallEditTool(t) \/ ReplyEnds(t) \/ StreamDropped(t)
             \/ Heartbeat(t) \/ CommitPatch(t) \/ Cancel(t)
      PROVE  [Lease!Next]_Lease!vars
  BY <1>1, SupervisionRefinesLease, TasksRefineLease
<1> QED
  BY <1>1, WorldRefinesLease DEF Next

\* The tasks of the host do to the right to edit only what an Edit Lease allows:
\* dropped turns, late heartbeats, patches that outlive their turn and restarts
\* included.
THEOREM TurnsRefineEditLease == Spec => ImplementsEditLease
BY InitRefinesLease, StepRefinesLease, TurnInvariant, PTL
   DEF Spec, ImplementsEditLease, Lease!Spec
=============================================================================
