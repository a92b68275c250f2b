------------------------ MODULE MatchDownloadsProofs ------------------------
(***************************************************************************)
(* Proofs about the download of a match, for every number of requests,     *)
(* cancellations, files and Demos.  What the steps read and write in the   *)
(* catalog and in the files stays opaque.                                  *)
(***************************************************************************)
EXTENDS MatchDownloads, TLAPS

Staged == {"queued", "downloading", "decompressing", "importing"}

\* A row that no worker may advance any more.
Closing == Verdicts \cup {"cancelling"}

\* A worker before it has a row, and one that owns its row.
Early == {"idle", "check", "reuse", "claim"}
Owning == Working \cup {"settle", "write", "leave"}

\* What is in memory; of what a worker has read only the verdict matters.
Shapes ==
    /\ DOMAIN jobs = Jobs
    /\ DOMAIN worker = Jobs
    /\ DOMAIN seen = Jobs
    /\ \A j \in Jobs : "verdict" \in DOMAIN seen[j]
    /\ "status" \in DOMAIN record
    /\ DOMAIN clients = Clients
    /\ \A k \in Clients : clients[k] = [step |-> clients[k].step, job |-> clients[k].job]
    /\ owners \subseteq Jobs

\* A worker has no row until its claim, a token while it works, and an active
\* row while it touches the Demo file.
Workers ==
    \A j \in Jobs :
        /\ worker[j] \in Early => jobs[j] = "none"
        /\ worker[j] \in Owning => j \in owners
        /\ worker[j] \in Touching => Active(j)
        /\ worker[j] \in {"settle", "write"} => seen[j].verdict \in Verdicts

\* A request to cancel has closed its row for the worker, and one that found no
\* owner met a worker that does not touch the file.
Cancellations ==
    \A k \in Clients :
        /\ clients[k].step \in {"find", "finish", "reply"} =>
              clients[k].job \in Jobs /\ jobs[clients[k].job] \in Closing
        /\ clients[k].step = "finish" => worker[clients[k].job] \notin Touching

\* The record of the match shows the one active job.
OneJob ==
    /\ \A i, j \in Jobs : Active(i) /\ Active(j) => i = j
    /\ record.status = "downloading" <=> \E j \in Jobs : Active(j)

IndInv == Shapes /\ Workers /\ Cancellations /\ OneJob

----------------------------------------------------------------------------
(* Every action preserves the inductive invariant.                         *)

\* The stages, and what is allowed to follow them.
LEMMA AdvancesAreStaged ==
    ASSUME NEW j \in Jobs, NEW status \in Staged
    PROVE  /\ MayAdvance(j, status) => jobs[j] \in Staged
           /\ Staged \cap (Closing \cup {"none"}) = {}
<1>1. ASSUME NEW i \in 1..4 PROVE Stages[i] \in Staged
  BY <1>1 DEF Stages, Staged
<1>2. MayAdvance(j, status) => \E i \in 1..4 : Stages[i] = jobs[j]
  BY DEF MayAdvance, StageOf
<1> QED
  BY <1>1, <1>2 DEF Staged, Closing, Verdicts

\* At the start there is no job, no worker and no request.
LEMMA InitEstablishesInvariant == Init => IndInv
<1> SUFFICES ASSUME Init PROVE IndInv
  OBVIOUS
<1>1. DOMAIN worker = Jobs /\ \A j \in Jobs : worker[j] \in {"idle", "done"}
  BY DEF Init, NeverDownloaded, DownloadedBefore
<1>2. \A j \in Jobs : ~Active(j) /\ jobs[j] = "none"
  BY DEF Init, Active
<1>3. \A k \in Clients : clients[k] = NoRequest
  BY DEF Init
<1>4. PICK demo : \/ record = [status |-> "available", demo |-> demo]
                  \/ record = [status |-> "downloaded", demo |-> demo]
  BY Zenon DEF Init, NeverDownloaded, DownloadedBefore
<1>5. Shapes
  BY <1>1, <1>4 DEF Init, Shapes, NothingSeen, NoRequest
<1>6. Workers
  BY <1>1, <1>2 DEF Workers, Owning, Touching, Working, Calls
<1>7. Cancellations
  BY <1>3 DEF Cancellations, NoRequest
<1>8. OneJob
  BY <1>2, <1>4 DEF OneJob
<1> QED
  BY <1>5, <1>6, <1>7, <1>8 DEF IndInv

\* What the others have read keeps its verdict.
Sees(j) ==
    /\ DOMAIN seen' = Jobs
    /\ \A e \in Jobs : "verdict" \in DOMAIN seen'[e]
    /\ \A e \in Jobs \ {j} : seen'[e].verdict = seen[e].verdict

\* A worker that owns its row moves, and touches the file only if it did before.
LEMMA OwnerStepPreservesInvariant ==
    ASSUME IndInv, UNCHANGED <<jobs, record, owners, clients>>,
           NEW j \in Jobs, worker[j] \in Owning,
           NEW to \in Owning, worker' = [worker EXCEPT ![j] = to],
           to \in Touching => worker[j] \in Touching,
           Sees(j),
           to \in {"settle", "write"} => seen'[j].verdict \in Verdicts
    PROVE  IndInv'
<1>1. /\ DOMAIN worker' = Jobs /\ worker'[j] = to
      /\ \A e \in Jobs \ {j} : worker'[e] = worker[e]
  BY DEF IndInv, Shapes
<1>2. Shapes' /\ OneJob'
  BY <1>1 DEF IndInv, Shapes, OneJob, Active, Sees
<1>3. Cancellations'
  BY <1>1 DEF IndInv, Cancellations
<1>4. to \notin Early
  BY DEF Owning, Working, Calls, Early
<1>5. Workers'
  <2>1. ASSUME NEW e \in Jobs \ {j}
        PROVE  /\ worker'[e] \in Early => jobs'[e] = "none"
               /\ worker'[e] \in Owning => e \in owners'
               /\ worker'[e] \in Touching => Active(e)'
               /\ worker'[e] \in {"settle", "write"} => seen'[e].verdict \in Verdicts
    BY <1>1, <2>1 DEF IndInv, Workers, Active, Sees
  <2>2. /\ worker'[j] \notin Early
        /\ worker'[j] \in Owning => j \in owners'
        /\ worker'[j] \in Touching => Active(j)'
        /\ worker'[j] \in {"settle", "write"} => seen'[j].verdict \in Verdicts
    BY <1>1, <1>4 DEF IndInv, Workers, Active
  <2> QED
    BY <2>1, <2>2 DEF Workers
<1> QED
  BY <1>2, <1>3, <1>5 DEF IndInv

\* An active row gets its verdict, from its worker or from a request that found
\* no owner; whoever is left behind does not touch the file.
LEMMA ClosingPreservesInvariant ==
    ASSUME IndInv, NEW j \in Jobs, Active(j),
           NEW verdict \in Verdicts, jobs' = [jobs EXCEPT ![j] = verdict],
           "status" \in DOMAIN record', record'.status # "downloading",
           UNCHANGED owners,
           DOMAIN worker' = Jobs, \A e \in Jobs \ {j} : worker'[e] = worker[e],
           worker'[j] \notin Touching,
           worker'[j] \in Early \cup {"settle", "write"} => worker'[j] = worker[j],
           worker'[j] \in Owning => j \in owners,
           Sees(j), worker'[j] = worker[j] => seen'[j].verdict = seen[j].verdict,
           DOMAIN clients' = Clients,
           \A k \in Clients :
               /\ clients'[k] = [step |-> clients'[k].step, job |-> clients'[k].job]
               /\ \/ clients'[k] = clients[k]
                  \/ clients'[k].step = "reply" /\ clients'[k].job = j
    PROVE  IndInv'
<1>1. /\ DOMAIN jobs' = Jobs /\ jobs'[j] = verdict
      /\ \A e \in Jobs \ {j} : jobs'[e] = jobs[e]
  BY DEF IndInv, Shapes
<1>2. Shapes'
  BY <1>1 DEF IndInv, Shapes, Sees
<1>3. \A e \in Jobs : ~Active(e)'
  BY <1>1 DEF IndInv, OneJob, Active
<1>4. OneJob'
  BY <1>3 DEF OneJob
<1>5. Workers'
  <2>1. ASSUME NEW e \in Jobs \ {j}
        PROVE  /\ worker'[e] \in Early => jobs'[e] = "none"
               /\ worker'[e] \in Owning => e \in owners'
               /\ worker'[e] \in Touching => Active(e)'
               /\ worker'[e] \in {"settle", "write"} => seen'[e].verdict \in Verdicts
    BY <1>1, <2>1 DEF IndInv, Workers, Active, Sees
  <2>2. worker[j] \notin Early
    BY DEF IndInv, Workers, Active
  <2>3. /\ worker'[j] \notin Early
        /\ worker'[j] \in Owning => j \in owners'
        /\ worker'[j] \notin Touching
        /\ worker'[j] \in {"settle", "write"} => seen'[j].verdict \in Verdicts
    BY <2>2 DEF IndInv, Workers
  <2> QED
    BY <2>1, <2>3 DEF Workers
<1>6. Cancellations'
  <2>1. verdict \in Closing
    BY DEF Closing
  <2> QED
    BY <1>1, <2>1 DEF IndInv, Cancellations
<1> QED
  BY <1>2, <1>4, <1>5, <1>6 DEF IndInv

\* A request that has no row yet moves on.
LEMMA EarlyStepPreservesInvariant ==
    ASSUME IndInv, UNCHANGED <<jobs, record, owners, clients>>,
           NEW j \in Jobs, worker[j] \in Early,
           NEW to \in Early \cup {"done"}, worker' = [worker EXCEPT ![j] = to],
           Sees(j)
    PROVE  IndInv'
<1>1. /\ DOMAIN worker' = Jobs /\ worker'[j] = to
      /\ \A e \in Jobs \ {j} : worker'[e] = worker[e]
  BY DEF IndInv, Shapes
<1>2. to \notin Owning \cup Touching \cup {"settle", "write"}
  BY DEF Early, Owning, Touching, Working, Calls
<1>3. Shapes' /\ OneJob'
  BY <1>1 DEF IndInv, Shapes, OneJob, Active, Sees
<1>4. Cancellations'
  BY <1>1, <1>2 DEF IndInv, Cancellations
<1>5. Workers'
  BY <1>1, <1>2 DEF IndInv, Workers, Active, Sees
<1> QED
  BY <1>3, <1>4, <1>5 DEF IndInv

\* reusable_downloaded_demo and the two ways into the storage.
LEMMA RequestPreservesInvariant ==
    ASSUME IndInv, NEW j \in Jobs, Request(j) \/ CheckLinked(j) \/ CompleteExisting(j) \/ ClaimMatch(j)
    PROVE  IndInv'
<1>1. /\ DOMAIN jobs = Jobs /\ DOMAIN worker = Jobs /\ DOMAIN seen = Jobs
      /\ \A e \in Jobs : "verdict" \in DOMAIN seen[e]
      /\ "verdict" \in DOMAIN NothingSeen
  BY DEF IndInv, Shapes, NothingSeen
<1>2. CASE Request(j)
  <2>1. Sees(j)
    BY <1>1, <1>2 DEF Request, Sees
  <2> QED
    BY <1>2, <2>1, EarlyStepPreservesInvariant DEF Request, Goto, memory, Early
<1>3. CASE CheckLinked(j)
  <2>1. Sees(j)
    BY <1>1, <1>3 DEF CheckLinked, Sees
  <2> QED
    BY <1>3, <2>1, EarlyStepPreservesInvariant DEF CheckLinked, Goto, memory, Early
<1>4. ASSUME worker[j] \in {"reuse", "claim"}, Ends(j, "done"), UNCHANGED <<jobs, record, owners, clients>>
      PROVE  IndInv'
  <2>1. Sees(j)
    BY <1>1, <1>4 DEF Ends, Sees
  <2> QED
    BY <1>4, <2>1, EarlyStepPreservesInvariant DEF Ends, Early
<1>5. ASSUME worker[j] \in {"reuse", "claim"}, NoActiveJob, UNCHANGED <<owners, clients>>,
             NEW status \in {"completed", "queued"}, jobs' = [jobs EXCEPT ![j] = status],
             NEW shown \in {"downloaded", "downloading"}, record' = [record EXCEPT !.status = shown],
             shown = "downloading" <=> status = "queued",
             NEW to \in {"done", "register"}, worker' = [worker EXCEPT ![j] = to],
             Sees(j)
      PROVE  IndInv'
  <2>1. /\ DOMAIN jobs' = Jobs /\ DOMAIN worker' = Jobs
        /\ jobs'[j] = status /\ worker'[j] = to
        /\ \A e \in Jobs \ {j} : jobs'[e] = jobs[e] /\ worker'[e] = worker[e]
        /\ record'.status = shown /\ "status" \in DOMAIN record'
    BY <1>1, <1>5 DEF IndInv, Shapes
  <2>2. Shapes'
    BY <1>5, <2>1 DEF IndInv, Shapes, Sees
  <2>3. /\ Active(j)' <=> status = "queued"
        /\ \A e \in Jobs \ {j} : ~Active(e)'
    BY <1>5, <2>1 DEF NoActiveJob, Active, Verdicts
  <2>4. OneJob'
    BY <1>5, <2>1, <2>3 DEF OneJob
  <2>5. to \notin Early \cup Owning \cup Touching \cup {"settle", "write"}
    BY DEF Early, Owning, Touching, Working, Calls
  <2>6. Workers'
    BY <1>5, <2>1, <2>5 DEF IndInv, Workers, Active, Sees
  <2>7. jobs[j] \notin Closing
    BY <1>5 DEF IndInv, Workers, Early, Closing, Verdicts
  <2>8. Cancellations'
    BY <1>5, <2>1, <2>5, <2>7 DEF IndInv, Cancellations
  <2> QED
    BY <2>2, <2>4, <2>6, <2>8 DEF IndInv
<1>6. CASE CompleteExisting(j)
  <2>1. Sees(j)
    BY <1>1, <1>6 DEF CompleteExisting, Ends, Sees
  <2> QED
    BY <1>4, <1>5, <1>6, <2>1 DEF CompleteExisting, Ends, memory
<1>7. CASE ClaimMatch(j)
  <2>1. CASE NoActiveJob /\ record.demo = seen[j].demo
    <3> DEFINE claimed == [NothingSeen EXCEPT
                    !.demo = IF record.demo \in Catalog!Rows THEN record.demo ELSE 0,
                    !.row = RowOf(record.demo), !.fresh = TRUE,
                    !.analysis = IF record.demo \in Catalog!Rows THEN analyses[record.demo]
                                 ELSE "none"]
    <3>1. "verdict" \in DOMAIN claimed
      BY DEF NothingSeen
    <3>2. seen' = [seen EXCEPT ![j] = claimed]
      BY <1>7, <2>1, Zenon DEF ClaimMatch
    <3> HIDE DEF claimed
    <3>3. Sees(j)
      BY <1>1, <3>1, <3>2 DEF Sees
    <3> QED
      BY <1>5, <1>7, <2>1, <3>3 DEF ClaimMatch, memory
  <2>2. CASE ~(NoActiveJob /\ record.demo = seen[j].demo)
    BY <1>4, <1>7, <2>2 DEF ClaimMatch, memory
  <2> QED
    BY <2>1, <2>2
<1> QED
  BY <1>2, <1>3, <1>6, <1>7

\* The worker takes its token, and gives it back whatever became of its row.
LEMMA TokenPreservesInvariant ==
    ASSUME IndInv, NEW j \in Jobs, Register(j) \/ Leave(j)
    PROVE  IndInv'
<1>1. PICK to \in {"begin", "lost", "done"} :
          /\ worker[j] \in {"register", "leave"}
          /\ worker' = [worker EXCEPT ![j] = to]
          /\ UNCHANGED <<jobs, record, seen, clients>>
          /\ to = "begin" => j \in owners'
          /\ owners' \subseteq Jobs
          /\ \A e \in Jobs \ {j} : e \in owners => e \in owners'
  BY DEF Register, Leave, Goto, IndInv, Shapes
<1>2. /\ DOMAIN worker' = Jobs /\ worker'[j] = to
      /\ \A e \in Jobs \ {j} : worker'[e] = worker[e]
  BY <1>1 DEF IndInv, Shapes
<1>3. Shapes' /\ OneJob'
  BY <1>1, <1>2 DEF IndInv, Shapes, OneJob, Active
<1>4. to \notin Early \cup Touching \cup {"settle", "write"} /\ (to \in Owning => to = "begin")
  BY DEF Early, Owning, Touching, Working, Calls
<1>5. Workers'
  BY <1>1, <1>2, <1>4 DEF IndInv, Workers, Active
<1>6. Cancellations'
  BY <1>1, <1>2, <1>4 DEF IndInv, Cancellations
<1> QED
  BY <1>3, <1>5, <1>6 DEF IndInv

\* An error leaves the worker with a verdict.
LEMMA FailPreservesInvariant ==
    ASSUME IndInv, NEW j \in Jobs, worker[j] \in Owning,
           NEW verdict \in Verdicts, Fail(j, verdict),
           UNCHANGED <<jobs, record, owners, clients>>
    PROVE  IndInv'
<1>1. Sees(j) /\ seen'[j].verdict = verdict
  BY DEF IndInv, Shapes, Fail, Sees, NothingSeen
<1>2. "settle" \in Owning /\ "settle" \notin Touching
  BY DEF Owning, Touching, Working, Calls
<1> QED
  BY <1>1, <1>2, OwnerStepPreservesInvariant DEF Fail

\* What a worker answers is one of the verdicts.
LEMMA VerdictIsOne == \A j, refused : Verdict(j, refused) \in Verdicts
  BY DEF Verdict, Verdicts

\* advance_match_download: the row is still staged, so that no request that
\* found no owner is about to close it.
LEMMA AdvancePreservesInvariant ==
    ASSUME IndInv, NEW j \in Jobs, NEW from \in Working, NEW status \in Staged, NEW to \in Working,
           Advance(j, from, status, to)
    PROVE  IndInv'
<1>1. CASE ~MayAdvance(j, status)
  <2>1. Fail(j, Verdict(j, jobs[j] \in {"cancelling", "cancelled"}))
    BY <1>1 DEF Advance
  <2>2. worker[j] \in Owning /\ UNCHANGED <<jobs, record, owners, clients>>
    BY <1>1 DEF Advance, memory, Owning
  <2> QED
    BY <2>1, <2>2, VerdictIsOne, FailPreservesInvariant
<1>2. CASE MayAdvance(j, status)
  <2>1. /\ worker[j] \in Owning /\ to \in Owning
        /\ jobs' = [jobs EXCEPT ![j] = status]
        /\ worker' = [worker EXCEPT ![j] = to]
        /\ UNCHANGED <<record, owners, clients, seen>>
    BY <1>2 DEF Advance, Goto, memory, Owning
  <2>2. /\ DOMAIN jobs' = Jobs /\ DOMAIN worker' = Jobs
        /\ jobs'[j] = status /\ worker'[j] = to
        /\ \A e \in Jobs \ {j} : jobs'[e] = jobs[e] /\ worker'[e] = worker[e]
    BY <2>1 DEF IndInv, Shapes
  <2>3. jobs[j] \in Staged /\ Staged \cap (Closing \cup {"none"}) = {}
    BY <1>2, AdvancesAreStaged
  <2>4. \A e \in Jobs : Active(e)' <=> Active(e)
    BY <2>2, <2>3 DEF Active, Closing
  <2>5. Shapes' /\ OneJob'
    BY <2>1, <2>2, <2>4 DEF IndInv, Shapes, OneJob
  <2>6. to \notin Early \cup {"settle", "write"}
    BY DEF Working, Calls, Early
  <2>7. Active(j)
    BY <2>3 DEF Active, Closing
  <2>8. Workers'
    BY <2>1, <2>2, <2>4, <2>6, <2>7 DEF IndInv, Workers
  <2>9. Cancellations'
    BY <2>1, <2>2, <2>3 DEF IndInv, Cancellations
  <2> QED
    BY <2>5, <2>8, <2>9 DEF IndInv
<1> QED
  BY <1>1, <1>2

\* A write of a row spoils observations, and no verdict.
LEMMA RewrittenKeepsVerdicts ==
    ASSUME Shapes, NEW D
    PROVE  /\ DOMAIN Rewritten(D) = Jobs
           /\ \A e \in Jobs : /\ "verdict" \in DOMAIN Rewritten(D)[e]
                              /\ Rewritten(D)[e].verdict = seen[e].verdict
<1>1. ASSUME NEW r, "verdict" \in DOMAIN r, NEW x
      PROVE  LET s == [r EXCEPT !.fresh = x]
             IN  "verdict" \in DOMAIN s /\ s.verdict = r.verdict
  BY <1>1
<1> QED
  BY <1>1 DEF Shapes, Rewritten

\* The call that returned the row of the Demo.
LEMMA ReturnPreservesInvariant ==
    ASSUME IndInv, NEW j \in Jobs, worker[j] \in Touching, NEW d, NEW row, Returned(j, d, row),
           UNCHANGED <<jobs, record, owners, clients>>
    PROVE  IndInv'
<1> DEFINE D == {e \in Ids : demos'[e] # demos[e]}
           found == [NothingSeen EXCEPT !.demo = d, !.row = row, !.verified = seen[j].verified]
<1>1. seen' = [Rewritten(D) EXCEPT ![j] = found]
  BY Zenon DEF Returned
<1>2. "verdict" \in DOMAIN found
  BY DEF NothingSeen
<1>3. /\ DOMAIN Rewritten(D) = Jobs
      /\ \A e \in Jobs : "verdict" \in DOMAIN Rewritten(D)[e] /\ Rewritten(D)[e].verdict = seen[e].verdict
  BY RewrittenKeepsVerdicts DEF IndInv
<1>4. PICK to \in {"complete", "copy"} : worker' = [worker EXCEPT ![j] = to]
  BY DEF Returned
<1> HIDE DEF D, found
<1>5. Sees(j)
  BY <1>1, <1>2, <1>3 DEF Sees
<1>6. worker[j] \in Owning /\ to \in Owning \ {"settle", "write"}
  BY DEF Owning, Touching, Working, Calls
<1> QED
  BY <1>4, <1>5, <1>6, OwnerStepPreservesInvariant

\* Up to the import: recovered files, the archive and the transfer.
LEMMA FetchingPreservesInvariant ==
    ASSUME IndInv, NEW j \in Jobs,
           Begin(j) \/ RemoveStaleArchive(j) \/ StartDownload(j) \/ Download(j) \/ Unpack(j)
               \/ Decompress(j) \/ CleanUp(j)
    PROVE  IndInv'
<1>1. DOMAIN seen = Jobs /\ \A e \in Jobs : "verdict" \in DOMAIN seen[e]
  BY DEF IndInv, Shapes
<1>2. Calls \subseteq Working /\ Working \subseteq Owning /\ {"decompress", "clean"} \subseteq Working
  BY DEF Working, Owning
<1>3. CASE Begin(j)
  <2>1. Sees(j)
    BY <1>1, <1>3 DEF Begin, Sees
  <2>2. PICK to \in {"import", "archive"} : worker' = [worker EXCEPT ![j] = to]
    BY <1>3 DEF Begin, Goto
  <2>3. worker[j] \in Owning /\ to \in Owning /\ to \notin Touching
    BY <1>2, <1>3 DEF Begin, Goto, Touching, Calls
  <2> QED
    BY <1>3, <2>1, <2>2, <2>3, OwnerStepPreservesInvariant DEF Begin, memory
<1>4. CASE RemoveStaleArchive(j) \/ Download(j)
  <2>1. Sees(j)
    BY <1>1, <1>4 DEF RemoveStaleArchive, Download, Sees
  <2>2. PICK to \in {"start", "unpack"} :
            /\ worker' = [worker EXCEPT ![j] = to]
            /\ worker[j] \in Calls
            /\ to \in Touching => worker[j] \in Touching
    BY <1>4 DEF RemoveStaleArchive, Download, Goto, Calls, Touching, Working
  <2>3. to \in Owning \ {"settle", "write"}
    BY <1>2 DEF Calls
  <2> QED
    BY <1>2, <1>4, <2>1, <2>2, <2>3, OwnerStepPreservesInvariant DEF RemoveStaleArchive, Download, memory
<1>5. CASE StartDownload(j) \/ Unpack(j)
  <2>1. /\ {"start", "unpack", "download", "decompress"} \subseteq Working
        /\ {"downloading", "decompressing"} \subseteq Staged
    BY DEF Working, Calls, Staged
  <2> QED
    BY <1>5, <2>1, AdvancePreservesInvariant DEF StartDownload, Unpack
<1>6. CASE Decompress(j)
  <2>1. ASSUME NEW v PROVE LET s == [seen[j] EXCEPT !.verdict = v] IN "verdict" \in DOMAIN s
    BY <1>1
  <2>2. Sees(j)
    BY <1>1, <1>6, <2>1 DEF Decompress, Sees
  <2>3. /\ worker[j] = "decompress" /\ worker' = [worker EXCEPT ![j] = "clean"]
        /\ UNCHANGED <<jobs, record, owners, clients>>
    BY <1>6 DEF Decompress, Goto, memory
  <2>4. {"decompress", "clean"} \subseteq Owning \cap Touching
    BY <1>2 DEF Touching, Working
  <2> QED
    BY <2>2, <2>3, <2>4, OwnerStepPreservesInvariant
<1>7. CASE CleanUp(j)
  <2>1. worker[j] = "clean" /\ UNCHANGED <<jobs, record, owners, clients>>
    BY <1>7 DEF CleanUp, memory
  <2>2. worker[j] \in Owning
    BY <1>2, <2>1
  <2>3. CASE Fail(j, Verdict(j, FALSE)) \/ Fail(j, "cancelled")
    BY <2>1, <2>2, <2>3, VerdictIsOne, FailPreservesInvariant DEF Verdicts
  <2>4. CASE Goto(j, "clean", "import") /\ UNCHANGED seen
    <3>1. "import" \in Owning /\ "import" \notin Touching
      BY <1>2 DEF Touching, Calls
    <3>2. Sees(j)
      BY <1>1, <2>4 DEF Sees
    <3> QED
      BY <2>1, <2>2, <2>4, <3>1, <3>2, OwnerStepPreservesInvariant DEF Goto
  <2> QED
    BY <1>7, <2>3, <2>4 DEF CleanUp
<1> QED
  BY <1>3, <1>4, <1>5, <1>6, <1>7

\* The import: validation, the row of the Demo and the files it leaves.
LEMMA ImportingPreservesInvariant ==
    ASSUME IndInv, NEW j \in Jobs,
           Import(j) \/ Validate(j) \/ Discard(j) \/ Put(j) \/ CheckCopy(j) \/ DropDuplicate(j)
               \/ Repair(j) \/ WorkerFails(j)
    PROVE  IndInv'
<1>1. DOMAIN seen = Jobs /\ \A e \in Jobs : "verdict" \in DOMAIN seen[e]
  BY DEF IndInv, Shapes
<1>2. Calls \subseteq Owning /\ Calls \subseteq Working
  BY DEF Working, Owning
<1>3. ASSUME NEW verdict \in Verdicts, Fail(j, verdict), worker[j] \in Calls,
             UNCHANGED <<jobs, record, owners, clients>>
      PROVE  IndInv'
  BY <1>2, <1>3, FailPreservesInvariant
<1>4. ASSUME NEW from \in Calls, NEW to \in Calls, Goto(j, from, to),
             to \in Touching => from \in Touching,
             UNCHANGED <<jobs, record, owners, clients>>, Sees(j)
      PROVE  IndInv'
  <2>1. to \notin {"settle", "write"}
    BY <1>4 DEF Calls
  <2> QED
    BY <1>2, <1>4, <2>1, OwnerStepPreservesInvariant DEF Goto
<1>5. CASE Import(j)
  <2>1. {"import", "validate"} \subseteq Working /\ "importing" \in Staged
    BY DEF Working, Calls, Staged
  <2> QED
    BY <1>5, <2>1, AdvancePreservesInvariant DEF Import
<1>6. CASE Validate(j)
  <2>1. worker[j] = "validate" /\ UNCHANGED <<jobs, record, owners, clients>>
    BY <1>6 DEF Validate, memory
  <2>2. {"validate", "put", "discard"} \subseteq Calls \cap Touching
    BY DEF Touching, Working, Calls
  <2>3. CASE Goto(j, "validate", "put") \/ Goto(j, "validate", "discard")
    <3>1. worker'[j] # "settle"
      BY <2>3 DEF Goto, IndInv, Shapes
    <3>2. seen' = seen \/ seen' = [seen EXCEPT ![j].content = disk[DemoPath], ![j].verified = DemoPath]
      BY <1>6, <3>1 DEF Validate, Fail, IndInv, Shapes
    <3>3. ASSUME NEW c PROVE "verdict" \in DOMAIN [seen[j] EXCEPT !.content = c, !.verified = DemoPath]
      BY <1>1
    <3>4. Sees(j)
      BY <1>1, <3>2, <3>3 DEF Sees
    <3> QED
      BY <1>4, <2>1, <2>2, <2>3, <3>4
  <2>4. CASE Fail(j, Verdict(j, FALSE))
    BY <1>3, <2>1, <2>2, <2>4, VerdictIsOne
  <2> QED
    BY <1>6, <2>3, <2>4 DEF Validate
<1>7. CASE Discard(j)
  <2>1. Sees(j)
    BY <1>1, <1>7 DEF Discard, Sees
  <2>2. "discard" \in Calls /\ "archive" \in Calls /\ "archive" \notin Touching
    BY DEF Touching, Calls
  <2> QED
    BY <1>4, <1>7, <2>1, <2>2 DEF Discard, memory
<1>8. CASE Put(j)
  <2>1. /\ worker[j] = "put" /\ UNCHANGED <<jobs, record, owners, clients>>
        /\ \/ Fail(j, Verdict(j, FALSE))
           \/ \E d, row : Returned(j, d, row)
    BY Zenon, <1>8 DEF Put, PutExisting, PutNew, memory, Catalog!Rows
  <2>2. "put" \in Calls /\ "put" \in Touching
    BY DEF Touching, Working, Calls
  <2> QED
    BY Zenon, <1>3, <2>1, <2>2, VerdictIsOne, ReturnPreservesInvariant
<1>9. CASE CheckCopy(j)
  <2>1. Sees(j)
    BY <1>1, <1>9 DEF CheckCopy, Sees
  <2>2. {"copy", "drop", "repair"} \subseteq Calls \cap Touching
    BY DEF Touching, Working, Calls
  <2> QED
    BY <1>4, <1>9, <2>1, <2>2 DEF CheckCopy, memory
<1>10. CASE DropDuplicate(j)
  <2>1. {"drop", "complete"} \subseteq Calls \cap Touching
    BY DEF Touching, Working, Calls
  <2>2. worker[j] = "drop" /\ UNCHANGED <<jobs, record, owners, clients>>
    BY <1>10 DEF DropDuplicate, memory
  <2>3. CASE Goto(j, "drop", "complete") /\ UNCHANGED seen
    <3>1. Sees(j)
      BY <1>1, <2>3 DEF Sees
    <3> QED
      BY <1>4, <2>1, <2>2, <2>3, <3>1
  <2>4. CASE Fail(j, Verdict(j, FALSE))
    BY <1>3, <2>1, <2>2, <2>4, VerdictIsOne
  <2> QED
    BY <1>10, <2>3, <2>4 DEF DropDuplicate
<1>11. CASE Repair(j)
  <2>1. /\ worker[j] = "repair" /\ UNCHANGED <<jobs, record, owners, clients>>
        /\ \/ Fail(j, Verdict(j, FALSE))
           \/ \E d, row : Returned(j, d, row)
    BY <1>11 DEF Repair, memory
  <2>2. "repair" \in Calls /\ "repair" \in Touching
    BY DEF Touching, Working, Calls
  <2> QED
    BY <1>3, <2>1, <2>2, VerdictIsOne, ReturnPreservesInvariant
<1>12. CASE WorkerFails(j)
  BY <1>3, <1>12, VerdictIsOne DEF WorkerFails, memory, Verdicts
<1> QED
  BY <1>5, <1>6, <1>7, <1>8, <1>9, <1>10, <1>11, <1>12

\* What a verdict does to the record of the match.
LEMMA RecordsClose ==
    ASSUME Shapes, NEW verdict, NEW demo
    PROVE  /\ "status" \in DOMAIN RecordOf(verdict, demo)
           /\ RecordOf(verdict, demo).status # "downloading"
<1>1. ASSUME NEW s \in {"available", "failed"}
      PROVE  LET r == [record EXCEPT !.status = s] IN "status" \in DOMAIN r /\ r.status = s
  BY DEF Shapes
<1>2. CASE verdict = "completed"
  BY <1>2 DEF RecordOf
<1>3. CASE verdict # "completed"
  BY <1>1, <1>3 DEF RecordOf
<1> QED
  BY <1>2, <1>3

\* persist_match_download_terminal and finalize_match_download.
LEMMA SettlingPreservesInvariant ==
    ASSUME IndInv, NEW j \in Jobs, Complete(j) \/ Settle(j) \/ Finalize(j)
    PROVE  IndInv'
<1>1. DOMAIN seen = Jobs /\ \A e \in Jobs : "verdict" \in DOMAIN seen[e]
  BY DEF IndInv, Shapes
<1>2. /\ {"complete", "settle", "write", "leave"} \subseteq Owning
      /\ {"settle", "write", "leave"} \cap Touching = {}
  BY DEF Owning, Working, Touching, Calls
<1>3. ASSUME Ends(j, "leave") PROVE Sees(j)
  BY <1>1, <1>3 DEF Ends, Sees, NothingSeen
<1>4. ASSUME worker[j] \in Owning, Ends(j, "leave"), UNCHANGED <<jobs, record, owners, clients>>
      PROVE  IndInv'
  BY <1>2, <1>3, <1>4, OwnerStepPreservesInvariant DEF Ends
<1>5. CASE Complete(j) \/ Settle(j)
  <2>1. PICK verdict \in Verdicts :
            /\ worker[j] \in {"complete", "settle"} /\ Inspect(j, verdict)
            /\ UNCHANGED <<jobs, record, owners, clients>>
    BY <1>5 DEF Complete, Settle, memory, Verdicts, IndInv, Workers
  <2>2. CASE Ends(j, "leave")
    BY <1>2, <1>4, <2>1, <2>2
  <2>3. CASE Active(j)
    <3>1. PICK written \in Verdicts : seen' = [seen EXCEPT ![j].verdict = written]
      BY <2>1, <2>3 DEF Inspect, Verdicts
    <3>2. Sees(j) /\ seen'[j].verdict = written
      BY <1>1, <3>1 DEF Sees
    <3> QED
      BY <1>2, <2>1, <2>3, <3>2, OwnerStepPreservesInvariant DEF Inspect
  <2> QED
    BY <2>1, <2>2, <2>3 DEF Inspect
<1>6. CASE Finalize(j)
  <2>1. worker[j] = "write" /\ UNCHANGED <<owners, clients>>
    BY <1>6 DEF Finalize, memory
  <2>2. CASE Active(j) /\ MayFinalize(j)
    <3>1. /\ jobs' = [jobs EXCEPT ![j] = seen[j].verdict] /\ seen[j].verdict \in Verdicts
          /\ record' = RecordOf(seen[j].verdict, seen[j].demo)
          /\ Ends(j, "leave")
      BY <1>6, <2>1, <2>2 DEF Finalize, IndInv, Workers
    <3>2. /\ DOMAIN worker' = Jobs /\ worker'[j] = "leave"
          /\ \A e \in Jobs \ {j} : worker'[e] = worker[e]
          /\ DOMAIN clients = Clients
          /\ \A k \in Clients : clients[k] = [step |-> clients[k].step, job |-> clients[k].job]
      BY <3>1 DEF IndInv, Shapes, Ends
    <3>3. j \in owners
      BY <1>2, <2>1 DEF IndInv, Workers
    <3>4. "status" \in DOMAIN record' /\ record'.status # "downloading"
      BY <3>1, RecordsClose DEF IndInv
    <3>5. worker'[j] \notin Early \cup {"settle", "write"} \cup Touching /\ worker[j] # "leave"
      BY <1>2, <2>1, <3>2 DEF Early
    <3> QED
      BY <1>3, <2>1, <2>2, <3>1, <3>2, <3>3, <3>4, <3>5, ClosingPreservesInvariant
  <2>3. CASE ~(Active(j) /\ MayFinalize(j))
    BY <1>2, <1>4, <1>6, <2>1, <2>3, VerdictIsOne, FailPreservesInvariant DEF Finalize
  <2> QED
    BY <2>2, <2>3
<1> QED
  BY <1>5, <1>6

\* A request to cancel is made: an active row is cancelling, and the others keep
\* what they have.
LEMMA CancelRequestPreservesInvariant ==
    ASSUME IndInv, NEW k \in Clients, NEW j \in Jobs, RequestCancel(k, j)
    PROVE  IndInv'
<1>1. /\ DOMAIN jobs' = Jobs /\ jobs'[j] = (IF Active(j) THEN "cancelling" ELSE jobs[j])
      /\ \A e \in Jobs \ {j} : jobs'[e] = jobs[e]
      /\ UNCHANGED <<record, owners, worker, seen>>
      /\ jobs[j] # "none" /\ clients[k].step = "idle"
  BY DEF RequestCancel, memory, IndInv, Shapes
<1>2. PICK step \in {"find", "answered", "told"}, job \in Jobs \cup {0} :
          /\ clients' = [clients EXCEPT ![k] = [step |-> step, job |-> job]]
          /\ step = "find" => job = j /\ Active(j)
  BY DEF RequestCancel, Answer
<1>3. /\ DOMAIN clients' = Clients /\ clients'[k] = [step |-> step, job |-> job]
      /\ \A c \in Clients \ {k} : clients'[c] = clients[c]
  BY <1>2 DEF IndInv, Shapes
<1>4. \A e \in Jobs : Active(e)' <=> Active(e)
  BY <1>1 DEF Active, Verdicts
<1>5. Shapes'
  BY <1>1, <1>3 DEF IndInv, Shapes
<1>6. Workers'
  BY <1>1, <1>4 DEF IndInv, Workers
<1>7. OneJob'
  BY <1>1, <1>4 DEF IndInv, OneJob
<1>8. Cancellations'
  BY <1>1, <1>2, <1>3 DEF IndInv, Cancellations, Closing
<1> QED
  BY <1>5, <1>6, <1>7, <1>8 DEF IndInv

\* cancel_steam_download after that: only who finds no owner may close the row,
\* and then its worker has not begun, or is gone.
LEMMA CancelPreservesInvariant ==
    ASSUME IndInv, NEW k \in Clients, Cancel(k)
    PROVE  IndInv'
<1>1. ASSUME UNCHANGED <<jobs, record, owners, worker, seen>>,
             NEW step \in {"finish", "answered", "told"}, NEW job,
             clients' = [clients EXCEPT ![k] = [step |-> step, job |-> job]],
             step = "finish" => /\ clients[k].step = "find" /\ job = clients[k].job
                                /\ job \notin owners
      PROVE  IndInv'
  <2>1. /\ DOMAIN clients' = Clients /\ clients'[k] = [step |-> step, job |-> job]
        /\ \A c \in Clients \ {k} : clients'[c] = clients[c]
    BY <1>1 DEF IndInv, Shapes
  <2>2. Shapes' /\ Workers' /\ OneJob'
    BY <1>1, <2>1 DEF IndInv, Shapes, Workers, OneJob, Active
  <2>3. step = "finish" => worker[job] \notin Touching
    BY <1>1 DEF IndInv, Cancellations, Workers, Touching, Owning
  <2>4. Cancellations'
    BY <1>1, <2>1, <2>3 DEF IndInv, Cancellations
  <2> QED
    BY <2>2, <2>4 DEF IndInv
<1>2. clients[k] = [step |-> clients[k].step, job |-> clients[k].job] /\ DOMAIN clients = Clients
  BY DEF IndInv, Shapes
<1>3. CASE FindOwner(k)
  <2>1. /\ clients[k].step = "find" /\ UNCHANGED <<jobs, record, owners, worker, seen>>
        /\ \/ clients[k].job \notin owners /\ clients' = [clients EXCEPT ![k].step = "finish"]
           \/ \E step \in {"answered", "told"}, job \in {clients[k].job, 0} :
                 clients' = [clients EXCEPT ![k] = [step |-> step, job |-> job]]
    BY <1>3 DEF FindOwner, Answer
  <2>2. clients' = [clients EXCEPT ![k].step = "finish"]
            => clients' = [clients EXCEPT ![k] = [step |-> "finish", job |-> clients[k].job]]
    <3>1. [clients[k] EXCEPT !.step = "finish"] = [step |-> "finish", job |-> clients[k].job]
      BY <1>2
    <3> QED
      BY <3>1
  <2> QED
    BY <1>1, <2>1, <2>2
<1>4. CASE Reply(k)
  <2>1. PICK step \in {"answered", "told"}, job \in {clients[k].job, 0} :
            clients' = [clients EXCEPT ![k] = [step |-> step, job |-> job]]
    BY <1>4 DEF Reply, Answer
  <2> QED
    BY <1>1, <1>4, <2>1 DEF Reply, memory
<1>5. CASE FinishCancel(k)
  <2> DEFINE j == clients[k].job
  <2>1. /\ clients[k].step = "finish"
        /\ jobs' = [jobs EXCEPT ![j] = IF Active(j) THEN "cancelled" ELSE @]
        /\ record' = IF Active(j) THEN RecordOf("cancelled", 0) ELSE record
        /\ clients' = [clients EXCEPT ![k].step = "reply"]
        /\ UNCHANGED <<owners, worker, seen>>
    BY <1>5 DEF FinishCancel, memory
  <2>2. j \in Jobs /\ jobs[j] \in Closing /\ worker[j] \notin Touching
    BY <2>1 DEF IndInv, Cancellations
  <2>3. /\ DOMAIN clients' = Clients /\ clients'[k] = [step |-> "reply", job |-> j]
        /\ \A c \in Clients \ {k} : clients'[c] = clients[c]
    <3>1. [clients[k] EXCEPT !.step = "reply"] = [step |-> "reply", job |-> clients[k].job]
      BY <1>2
    <3> QED
      BY <1>2, <2>1, <3>1
  <2>4. \A c \in Clients : clients'[c] = [step |-> clients'[c].step, job |-> clients'[c].job]
    BY <2>3 DEF IndInv, Shapes
  <2>5. Sees(j)
    BY <2>1 DEF IndInv, Shapes, Sees
  <2>6. CASE Active(j)
    <3>1. jobs' = [jobs EXCEPT ![j] = "cancelled"] /\ "cancelled" \in Verdicts
      BY <2>1, <2>6 DEF Verdicts
    <3>2. "status" \in DOMAIN record' /\ record'.status # "downloading"
      BY <2>1, <2>6, RecordsClose DEF IndInv
    <3>3. worker[j] \in Owning => j \in owners
      BY <2>2 DEF IndInv, Workers
    <3>4. DOMAIN worker' = Jobs /\ \A e \in Jobs \ {j} : worker'[e] = worker[e]
      BY <2>1 DEF IndInv, Shapes
    <3>5. UNCHANGED <<owners, worker, seen>> /\ j \in Jobs /\ worker[j] \notin Touching /\ DOMAIN clients' = Clients
      BY <2>1, <2>2, <2>3
    <3>6. \A c \in Clients : clients'[c] = clients[c] \/ (clients'[c].step = "reply" /\ clients'[c].job = j)
      BY <2>3
    <3> HIDE DEF j
    <3> QED
      BY <2>4, <2>5, <2>6, <3>1, <3>2, <3>3, <3>4, <3>5, <3>6, ClosingPreservesInvariant
  <2>7. CASE ~Active(j)
    <3>1. DOMAIN jobs' = Jobs /\ (\A e \in Jobs : jobs'[e] = jobs[e]) /\ record' = record
      BY <2>1, <2>2, <2>7 DEF IndInv, Shapes
    <3>2. Shapes' /\ Workers' /\ OneJob'
      BY <2>1, <2>3, <2>4, <3>1 DEF IndInv, Shapes, Workers, OneJob, Active
    <3>3. Cancellations'
      BY <2>1, <2>2, <2>3, <3>1 DEF IndInv, Cancellations
    <3> QED
      BY <3>2, <3>3 DEF IndInv
  <2> QED
    BY <2>6, <2>7
<1> QED
  BY <1>3, <1>4, <1>5 DEF Cancel

\* recover_orphaned_match_downloads: no job is active and nobody waits.
LEMMA RestartPreservesInvariant ==
    ASSUME IndInv, Restart
    PROVE  IndInv'
<1>1. /\ jobs' = [j \in Jobs |-> IF ~Active(j) THEN jobs[j]
                               ELSE IF jobs[j] = "cancelling" THEN "cancelled" ELSE "failed"]
      /\ record' = IF NoActiveJob THEN record
                   ELSE RecordOf(CHOOSE v \in Verdicts : \E j \in Jobs : Active(j) /\ jobs'[j] = v, 0)
      /\ owners' = {}
      /\ worker' = [j \in Jobs |-> IF worker[j] = "idle" THEN "idle" ELSE "done"]
      /\ seen' = [j \in Jobs |-> NothingSeen]
      /\ clients' = [k \in Clients |-> IF clients[k].step \in {"find", "finish", "reply"}
                                       THEN [step |-> "answered", job |-> 0] ELSE clients[k]]
  BY DEF Restart
<1>2. \A j \in Jobs : ~Active(j)'
  BY <1>1 DEF Active, Verdicts
<1>3. "status" \in DOMAIN record' /\ record'.status # "downloading"
  <2>1. CASE NoActiveJob
    BY <1>1, <2>1 DEF NoActiveJob, IndInv, Shapes, OneJob
  <2>2. CASE ~NoActiveJob
    BY <1>1, <2>2, RecordsClose DEF IndInv
  <2> QED
    BY <2>1, <2>2
<1>4. Shapes'
  BY <1>1, <1>3 DEF IndInv, Shapes, NothingSeen
<1>5. Workers'
  <2>1. \A j \in Jobs : worker'[j] = "idle" => jobs'[j] = "none"
    BY <1>1 DEF IndInv, Workers, Early, Active
  <2>2. {"idle", "done"} \cap (Owning \cup Touching) = {}
    BY DEF Owning, Touching, Working, Calls
  <2> QED
    BY <1>1, <2>1, <2>2 DEF Workers, Early
<1>6. Cancellations'
  BY <1>1 DEF Cancellations
<1>7. OneJob'
  BY <1>2, <1>3 DEF OneJob
<1> QED
  BY <1>4, <1>5, <1>6, <1>7 DEF IndInv

\* The catalog, the files and the analyses around the download.
LEMMA SurroundingsPreserveInvariant ==
    ASSUME IndInv, ScanCatalog \/ ChangeCatalog \/ PatchDemo \/ Analyse \/ ChangeFile \/ UNCHANGED vars
    PROVE  IndInv'
<1>1. UNCHANGED <<jobs, record, owners, worker, clients>>
  BY DEF ScanCatalog, ChangeCatalog, PatchDemo, Analyse, ChangeFile, Undisturbed, vars, memory
<1>2. /\ DOMAIN seen' = Jobs
      /\ \A j \in Jobs : "verdict" \in DOMAIN seen'[j] /\ seen'[j].verdict = seen[j].verdict
  <2>1. CASE ScanCatalog \/ ChangeCatalog \/ PatchDemo \/ Analyse
    <3>1. \E D : seen' = Rewritten(D)
      BY <2>1 DEF ScanCatalog, ChangeCatalog, PatchDemo, Analyse
    <3> QED
      BY <3>1, RewrittenKeepsVerdicts DEF IndInv
  <2>2. CASE ChangeFile
    <3>1. \A j \in Jobs : LET s == [seen[j] EXCEPT !.verified = "none"]
                          IN  "verdict" \in DOMAIN s /\ s.verdict = seen[j].verdict
      BY DEF IndInv, Shapes
    <3> QED
      BY <2>2, <3>1 DEF ChangeFile, IndInv, Shapes
  <2>3. CASE UNCHANGED vars
    BY <2>3 DEF vars, IndInv, Shapes
  <2> QED
    BY <2>1, <2>2, <2>3
<1> QED
  BY <1>1, <1>2 DEF IndInv, Shapes, Workers, Cancellations, OneJob, Active

\* Every step.
LEMMA StepPreservesInvariant == IndInv /\ [Next]_vars => IndInv'
<1> SUFFICES ASSUME IndInv, [Next]_vars PROVE IndInv'
  OBVIOUS
<1>1. ASSUME NEW j \in Jobs, Request(j) \/ Work(j) PROVE IndInv'
  BY <1>1, RequestPreservesInvariant, TokenPreservesInvariant, FetchingPreservesInvariant,
     ImportingPreservesInvariant, SettlingPreservesInvariant DEF Work
<1>2. ASSUME NEW k \in Clients, Cancel(k) \/ \E j \in Jobs : RequestCancel(k, j) PROVE IndInv'
  BY <1>2, CancelPreservesInvariant, CancelRequestPreservesInvariant
<1> QED
  BY <1>1, <1>2, RestartPreservesInvariant, SurroundingsPreserveInvariant DEF Next

----------------------------------------------------------------------------
(* The theorems.                                                           *)

\* The inductive invariant: rows, the record of the match, tokens, workers and
\* cancellations agree about every request.
THEOREM Invariant == Spec => []IndInv
<1> QED
  BY InitEstablishesInvariant, StepPreservesInvariant, PTL DEF Spec

\* A match has one active job, which its record shows, and one worker at its
\* Demo file, also after a cancellation was settled without its owner
\* (claim_match_download, request_match_download_cancel).
THEOREM DownloadsAreExclusive == Spec => []OneDownloadPerMatch
<1>1. IndInv => OneDownloadPerMatch
  BY DEF IndInv, OneJob, Workers, OneDownloadPerMatch
<1> QED
  BY <1>1, Invariant, PTL

----------------------------------------------------------------------------
(* Downloads implement the job lifecycle.                                  *)

\* A job and its confirmed cancellations, as the lifecycle sees them.
Status == [j \in Jobs |-> IF Active(j) THEN "open" ELSE jobs[j]]
Told == {j \in Jobs : \E k \in Clients : clients[k] = [step |-> "told", job |-> j]}

\* A job moves on, and nobody is told.
LEMMA JobsMove ==
    ASSUME Told' = Told, NEW j \in Jobs,
           \A e \in Jobs \ {j} : jobs'[e] = jobs[e],
           \/ jobs[j] = "none" /\ (jobs'[j] = "completed" \/ Active(j)')
           \/ Active(j) /\ (jobs'[j] \in Verdicts \/ Active(j)')
    PROVE  [Lifecycle!Next]_Lifecycle!vars
<1>1. Told' = Told
  OBVIOUS
<1>2. \A e \in Jobs \ {j} : Active(e)' <=> Active(e)
  BY DEF Active
<1>3. PICK to : to = (IF Active(j) THEN "open" ELSE jobs[j])'
  OBVIOUS
<1>4. Status' = [Status EXCEPT ![j] = to]
  BY <1>2, <1>3 DEF Status
<1>5. CASE Active(j) /\ Active(j)'
  <2>1. Status' = Status
    BY <1>2, <1>5 DEF Status
  <2> QED
    BY <1>1, <2>1 DEF Lifecycle!vars, Status, Told
<1>6. CASE Active(j) /\ ~Active(j)'
  <2>1. Status[j] = "open" /\ to \in Lifecycle!Verdicts
    BY <1>3, <1>6 DEF Status, Active, Verdicts, Lifecycle!Verdicts
  <2>2. Lifecycle!Close(j)
    BY <1>1, <1>4, <2>1 DEF Lifecycle!Close, Lifecycle!Move, Status, Told
  <2> QED
    BY <2>2 DEF Lifecycle!Next
<1>7. CASE jobs[j] = "none"
  <2>1. Status[j] = "none" /\ to \in {"completed", "open"}
    BY <1>3, <1>7 DEF Status, Active, Verdicts
  <2>2. Lifecycle!Accept(j) \/ Lifecycle!AcceptDone(j)
    BY <1>1, <1>4, <2>1 DEF Lifecycle!Accept, Lifecycle!AcceptDone, Lifecycle!Move, Status, Told
  <2> QED
    BY <2>2 DEF Lifecycle!Next
<1> QED
  BY <1>5, <1>6, <1>7

\* A request moves on; one that is told is told the truth.
LEMMA ClientsTell ==
    ASSUME IndInv, Status' = Status,
           NEW k \in Clients, clients[k].step # "told",
           NEW step, NEW job, clients' = [clients EXCEPT ![k] = [step |-> step, job |-> job]],
           step = "told" => job \in Jobs /\ jobs[job] = "cancelled"
    PROVE  [Lifecycle!Next]_Lifecycle!vars
<1>1. /\ DOMAIN clients' = Clients /\ clients'[k] = [step |-> step, job |-> job]
      /\ \A c \in Clients \ {k} : clients'[c] = clients[c]
  BY DEF IndInv, Shapes
<1>2. \A j \in Jobs : clients[k] # [step |-> "told", job |-> j]
  OBVIOUS
<1>3. CASE step = "told"
  <2>1. Told' = Told \cup {job}
    BY <1>1, <1>2, <1>3 DEF Told
  <2>2. Status[job] = "cancelled"
    BY <1>3 DEF Status, Active, Verdicts
  <2>3. Lifecycle!Tell(job)
    BY <2>1, <2>2 DEF Lifecycle!Tell, Status, Told
  <2> QED
    BY <1>3, <2>3 DEF Lifecycle!Next
<1>4. CASE step # "told"
  <2>1. Told' = Told
    BY <1>1, <1>2, <1>4 DEF Told
  <2> QED
    BY <2>1 DEF Lifecycle!vars, Status, Told
<1> QED
  BY <1>3, <1>4

\* At the start there is nothing to tell.
LEMMA InitRefinesJobLifecycle == Init => Lifecycle!Init
<1> SUFFICES ASSUME Init PROVE Lifecycle!Init
  OBVIOUS
<1>1. Status = [j \in Jobs |-> "none"]
  BY DEF Init, Status, Active
<1>2. Told = {}
  BY DEF Init, Told, NoRequest
<1> QED
  BY <1>1, <1>2 DEF Lifecycle!Init, Status, Told

\* The worker opens its job, advances it and closes it.
LEMMA WorkRefinesJobLifecycle ==
    ASSUME IndInv, NEW j \in Jobs, Request(j) \/ Work(j)
    PROVE  [Lifecycle!Next]_Lifecycle!vars
<1>1. Told' = Told
  <2>1. UNCHANGED clients
    BY DEF Request, Work, CheckLinked, CompleteExisting, ClaimMatch, Register, Begin, RemoveStaleArchive,
           StartDownload, Download, Unpack, Decompress, CleanUp, Import, Validate, Discard, Put, CheckCopy,
           DropDuplicate, Repair, Complete, Settle, Finalize, Leave, WorkerFails, Advance
  <2> QED
    BY <2>1 DEF Told
<1>2. ASSUME UNCHANGED jobs PROVE [Lifecycle!Next]_Lifecycle!vars
  BY <1>1, <1>2 DEF Lifecycle!vars, Status, Told, Active
<1>3. DOMAIN jobs = Jobs
  BY DEF IndInv, Shapes
<1>4. CASE CompleteExisting(j) \/ ClaimMatch(j)
  <2>1. jobs[j] = "none"
    BY <1>4 DEF CompleteExisting, ClaimMatch, IndInv, Workers, Early
  <2>2. \/ UNCHANGED jobs
        \/ \E status \in {"completed", "queued"} : jobs' = [jobs EXCEPT ![j] = status]
    BY <1>4 DEF CompleteExisting, ClaimMatch
  <2>3. ASSUME NEW status \in {"completed", "queued"}, jobs' = [jobs EXCEPT ![j] = status]
        PROVE  [Lifecycle!Next]_Lifecycle!vars
    <3>1. /\ \A e \in Jobs \ {j} : jobs'[e] = jobs[e]
          /\ jobs'[j] = "completed" \/ Active(j)'
      BY <1>3, <2>3 DEF Active, Verdicts
    <3> QED
      BY <1>1, <2>1, <3>1, JobsMove
  <2> QED
    BY <1>2, <2>2, <2>3
<1>5. CASE StartDownload(j) \/ Unpack(j) \/ Import(j)
  <2>1. PICK status \in Staged :
            \/ UNCHANGED jobs
            \/ MayAdvance(j, status) /\ jobs' = [jobs EXCEPT ![j] = status]
    BY <1>5 DEF StartDownload, Unpack, Import, Advance, Staged
  <2>2. CASE MayAdvance(j, status) /\ jobs' = [jobs EXCEPT ![j] = status]
    <3>1. /\ \A e \in Jobs \ {j} : jobs'[e] = jobs[e]
          /\ Active(j) /\ Active(j)'
      BY <1>3, <2>2, AdvancesAreStaged DEF Active, Closing
    <3> QED
      BY <1>1, <3>1, JobsMove
  <2> QED
    BY <1>2, <2>1, <2>2
<1>6. CASE Finalize(j)
  <2>1. CASE Active(j) /\ MayFinalize(j)
    <3>1. /\ \A e \in Jobs \ {j} : jobs'[e] = jobs[e]
          /\ jobs'[j] \in Verdicts
      BY <1>3, <1>6, <2>1 DEF Finalize, IndInv, Workers
    <3> QED
      BY <1>1, <2>1, <3>1, JobsMove
  <2> QED
    BY <1>2, <1>6, <2>1 DEF Finalize
<1> QED
  BY <1>2, <1>4, <1>5, <1>6 DEF Work, Request, CheckLinked, Register, Begin, RemoveStaleArchive, Download,
     Decompress, CleanUp, Validate, Discard, Put, CheckCopy, DropDuplicate, Repair, Complete, Settle,
     Leave, WorkerFails

\* A request to cancel closes a job, or is told of a verdict, or neither.
LEMMA CancelRefinesJobLifecycle ==
    ASSUME IndInv, NEW k \in Clients, Cancel(k) \/ \E j \in Jobs : RequestCancel(k, j)
    PROVE  [Lifecycle!Next]_Lifecycle!vars
<1>1. /\ DOMAIN jobs = Jobs /\ DOMAIN clients = Clients
      /\ clients[k] = [step |-> clients[k].step, job |-> clients[k].job]
  BY DEF IndInv, Shapes
<1>2. clients[k].step # "told"
  BY DEF Cancel, FindOwner, FinishCancel, Reply, RequestCancel
<1>3. ASSUME NEW step, NEW job, step # "told", clients' = [clients EXCEPT ![k] = [step |-> step, job |-> job]]
      PROVE  Told' = Told
  <2>1. /\ DOMAIN clients' = Clients /\ clients'[k] = [step |-> step, job |-> job]
        /\ \A c \in Clients \ {k} : clients'[c] = clients[c]
    BY <1>1, <1>3
  <2>2. \A j \in Jobs : /\ clients[k] # [step |-> "told", job |-> j]
                        /\ clients'[k] # [step |-> "told", job |-> j]
    BY <1>2, <1>3, <2>1
  <2> QED
    BY <2>1, <2>2 DEF Told
<1>4. \A step : [clients[k] EXCEPT !.step = step] = [step |-> step, job |-> clients[k].job]
  BY <1>1
<1>5. ASSUME \A e \in Jobs : jobs'[e] = jobs[e] PROVE Status' = Status
  BY <1>5 DEF Status, Active
<1>6. CASE FindOwner(k)
  <2>1. PICK step \in {"finish", "answered"}, job \in {clients[k].job, 0} :
            clients' = [clients EXCEPT ![k] = [step |-> step, job |-> job]]
    BY <1>4, <1>6 DEF FindOwner, Answer
  <2>2. Status' = Status
    BY <1>5, <1>6 DEF FindOwner
  <2> QED
    BY <1>2, <2>1, <2>2, ClientsTell
<1>7. CASE Reply(k)
  <2>1. PICK step \in {"answered", "told"}, job \in {clients[k].job, 0} :
            /\ clients' = [clients EXCEPT ![k] = [step |-> step, job |-> job]]
            /\ step = "told" => job = clients[k].job /\ jobs[job] = "cancelled"
    BY <1>7 DEF Reply, Answer
  <2>2. clients[k].job \in Jobs
    BY <1>7 DEF Reply, IndInv, Cancellations
  <2>3. Status' = Status
    BY <1>5, <1>7 DEF Reply
  <2> QED
    BY <1>2, <2>1, <2>2, <2>3, ClientsTell
<1>8. CASE FinishCancel(k)
  <2>1. PICK j \in Jobs : j = clients[k].job
    BY <1>8 DEF FinishCancel, IndInv, Cancellations
  <2>2. clients' = [clients EXCEPT ![k] = [step |-> "reply", job |-> j]]
    BY <1>4, <1>8, <2>1 DEF FinishCancel
  <2>3. jobs' = [jobs EXCEPT ![j] = IF Active(j) THEN "cancelled" ELSE @]
    BY <1>8, <2>1 DEF FinishCancel
  <2>4. CASE Active(j)
    <3>1. /\ \A e \in Jobs \ {j} : jobs'[e] = jobs[e]
          /\ jobs'[j] \in Verdicts
      BY <1>1, <2>3, <2>4 DEF Verdicts
    <3>2. Told' = Told
      BY <1>3, <2>2
    <3> QED
      BY <2>4, <3>1, <3>2, JobsMove
  <2>5. CASE ~Active(j)
    <3>1. Status' = Status
      BY <1>1, <1>5, <2>3, <2>5
    <3> QED
      BY <1>2, <2>2, <3>1, ClientsTell
  <2> QED
    BY <2>4, <2>5
<1>9. ASSUME NEW j \in Jobs, RequestCancel(k, j) PROVE [Lifecycle!Next]_Lifecycle!vars
  <2>1. jobs' = [jobs EXCEPT ![j] = IF Active(j) THEN "cancelling" ELSE @]
    BY <1>9 DEF RequestCancel
  <2>2. CASE Active(j)
    <3>1. /\ \A e \in Jobs \ {j} : jobs'[e] = jobs[e]
          /\ Active(j)'
      BY <1>1, <2>1, <2>2 DEF Active, Verdicts
    <3>2. Told' = Told
      BY <1>3, <1>9, <2>2 DEF RequestCancel
    <3> QED
      BY <2>2, <3>1, <3>2, JobsMove
  <2>3. CASE ~Active(j)
    <3>1. Status' = Status
      BY <1>1, <1>5, <2>1, <2>3
    <3>2. PICK step \in {"answered", "told"}, job \in {j, 0} :
              /\ clients' = [clients EXCEPT ![k] = [step |-> step, job |-> job]]
              /\ step = "told" => job = j /\ jobs[j] = "cancelled"
      BY <1>9, <2>3 DEF RequestCancel, Answer
    <3> QED
      BY <1>2, <3>1, <3>2, ClientsTell
  <2> QED
    BY <2>2, <2>3
<1> QED
  BY <1>6, <1>7, <1>8, <1>9 DEF Cancel

\* A restart closes the active job, of which there is at most one.
LEMMA RestartRefinesJobLifecycle ==
    ASSUME IndInv, Restart
    PROVE  [Lifecycle!Next]_Lifecycle!vars
<1>1. /\ jobs' = [j \in Jobs |-> IF ~Active(j) THEN jobs[j]
                               ELSE IF jobs[j] = "cancelling" THEN "cancelled" ELSE "failed"]
      /\ clients' = [k \in Clients |-> IF clients[k].step \in {"find", "finish", "reply"}
                                       THEN [step |-> "answered", job |-> 0] ELSE clients[k]]
  BY DEF Restart
<1>2. Told' = Told
  <2>1. ASSUME NEW j \in Jobs, NEW k \in Clients
        PROVE  clients'[k] = [step |-> "told", job |-> j] <=> clients[k] = [step |-> "told", job |-> j]
    BY <1>1, <2>1
  <2> QED
    BY <2>1 DEF Told
<1>3. CASE NoActiveJob
  <2>1. Status' = Status
    BY <1>1, <1>3 DEF NoActiveJob, Status, Active
  <2> QED
    BY <1>2, <2>1 DEF Lifecycle!vars, Status, Told
<1>4. CASE ~NoActiveJob
  <2>1. PICK j \in Jobs : Active(j)
    BY <1>4 DEF NoActiveJob
  <2>2. \A e \in Jobs \ {j} : jobs'[e] = jobs[e]
    BY <1>1, <2>1 DEF IndInv, OneJob
  <2>3. jobs'[j] \in Verdicts
    BY <1>1, <2>1 DEF Verdicts
  <2> QED
    BY <1>2, <2>1, <2>2, <2>3, JobsMove
<1> QED
  BY <1>3, <1>4

\* A download has one verdict and a confirmed cancellation is that verdict, for
\* any number of requests and restarts, whoever writes it.
THEOREM RefinesJobLifecycle == Spec => ImplementsJobLifecycle
<1>1. ASSUME IndInv, [Next]_vars PROVE [Lifecycle!Next]_Lifecycle!vars
  <2>1. CASE ScanCatalog \/ ChangeCatalog \/ PatchDemo \/ Analyse \/ ChangeFile \/ UNCHANGED vars
    <3>1. UNCHANGED <<jobs, clients>>
      BY <2>1 DEF ScanCatalog, ChangeCatalog, PatchDemo, Analyse, ChangeFile, Undisturbed, vars
    <3> QED
      BY <3>1 DEF Lifecycle!vars, Active
  <2> QED
    BY <1>1, <2>1, WorkRefinesJobLifecycle, CancelRefinesJobLifecycle, RestartRefinesJobLifecycle DEF Next
<1> QED
  BY <1>1, InitRefinesJobLifecycle, Invariant, PTL DEF Spec, ImplementsJobLifecycle, Lifecycle!Spec

(***************************************************************************)
(* What the downloads of a match do to the catalog of Demos: no analysis   *)
(* is lost that the claim of the match has not seen, and the inductive     *)
(* invariant of DemoCatalogProofs holds with downloads beside the scans,   *)
(* whose calls fall between those of the workers.  Here the rows of jobs   *)
(* and the requests to cancel stay opaque.                                 *)
(***************************************************************************)

CatalogProofs == INSTANCE DemoCatalogProofs

Fields == {"demo", "fresh", "analysis", "content"}

\* An observation that is still fresh is of the analysis the Demo has, and what a
\* worker is about to put was validated.
Reading(j) ==
    /\ Fields \subseteq DOMAIN seen[j]
    /\ seen[j].fresh \in BOOLEAN
    /\ worker[j] \in Early => ~seen[j].fresh
    /\ worker[j] = "put" => seen[j].content \in Contents
    /\ seen[j].fresh /\ seen[j].demo # 0 =>
          seen[j].demo \in Ids /\ analyses[seen[j].demo] = seen[j].analysis

Readings ==
    /\ DOMAIN seen = Jobs /\ DOMAIN worker = Jobs
    /\ \A j \in Jobs : Reading(j)

CatalogInv == CatalogProofs!IndInv /\ Readings

----------------------------------------------------------------------------
(* The two instances of DemoCatalog, the one the model is built from and   *)
(* the one its proofs are about, are the same.                             *)

\* The rows.
LEMMA SameRows ==
    /\ Catalog!NoRow = CatalogProofs!NoRow /\ Catalog!Rows = CatalogProofs!Rows
    /\ \A d : Catalog!FoundStatus(d) = CatalogProofs!FoundStatus(d)
    /\ \A d : Catalog!Touched(op, d) = CatalogProofs!Touched(op, d)
  BY Zenon DEF Catalog!NoRow, CatalogProofs!NoRow, Catalog!Rows, CatalogProofs!Rows,
     Catalog!FoundStatus, CatalogProofs!FoundStatus, Catalog!Touched, CatalogProofs!Touched

\* The calls of a scan.
LEMMA SameScans == \A s : Catalog!Scan(s) <=> CatalogProofs!Scan(s)
  BY Zenon DEF Catalog!Scan, CatalogProofs!Scan, Catalog!BeginPass, CatalogProofs!BeginPass,
     Catalog!ReadFile, CatalogProofs!ReadFile, Catalog!LookUp, CatalogProofs!LookUp,
     Catalog!Put, CatalogProofs!Put, Catalog!Replace, CatalogProofs!Replace,
     Catalog!Claim, CatalogProofs!Claim, Catalog!CheckCopy, CatalogProofs!CheckCopy,
     Catalog!Recover, CatalogProofs!Recover, Catalog!Invalidate, CatalogProofs!Invalidate,
     Catalog!Sweep, CatalogProofs!Sweep, Catalog!MarkMissing, CatalogProofs!MarkMissing,
     Catalog!EndPass, CatalogProofs!EndPass, Catalog!Rows, CatalogProofs!Rows,
     Catalog!NoRow, CatalogProofs!NoRow, Catalog!NoPass, CatalogProofs!NoPass,
     Catalog!NoOp, CatalogProofs!NoOp, Catalog!Row, CatalogProofs!Row,
     Catalog!catalog, CatalogProofs!catalog, Catalog!Unique, CatalogProofs!Unique,
     Catalog!Touched, CatalogProofs!Touched, Catalog!PutRow, CatalogProofs!PutRow,
     Catalog!FoundStatus, CatalogProofs!FoundStatus, Catalog!NewRecord, CatalogProofs!NewRecord,
     Catalog!KeptRecord, CatalogProofs!KeptRecord, Catalog!Outdated, CatalogProofs!Outdated,
     Catalog!ContentChanged, CatalogProofs!ContentChanged,
     Catalog!ForUnknown, CatalogProofs!ForUnknown, Catalog!ForKnown, CatalogProofs!ForKnown,
     Catalog!EndOp, CatalogProofs!EndOp, Catalog!FailOp, CatalogProofs!FailOp,
     Catalog!Relocate, CatalogProofs!Relocate, Catalog!Applied, CatalogProofs!Applied

\* The calls of the user and of analyses, the files and the restart.
LEMMA SameCalls ==
    /\ \A d : Catalog!DeleteDemo(d) <=> CatalogProofs!DeleteDemo(d)
    /\ \A d : Catalog!PatchDemo(d) <=> CatalogProofs!PatchDemo(d)
    /\ \A d : Catalog!StartAnalysis(d) <=> CatalogProofs!StartAnalysis(d)
    /\ \A d, content : Catalog!BindAnalysis(d, content) <=> CatalogProofs!BindAnalysis(d, content)
    /\ \A d, content : Catalog!PublishAnalysis(d, content) <=> CatalogProofs!PublishAnalysis(d, content)
    /\ \A d, status : Catalog!EndAnalysis(d, status) <=> CatalogProofs!EndAnalysis(d, status)
    /\ Catalog!ChangeFile <=> CatalogProofs!ChangeFile
    /\ Catalog!Restart <=> CatalogProofs!Restart
  BY Zenon DEF Catalog!DeleteDemo, CatalogProofs!DeleteDemo, Catalog!PatchDemo, CatalogProofs!PatchDemo,
     Catalog!StartAnalysis, CatalogProofs!StartAnalysis, Catalog!MayStart, CatalogProofs!MayStart,
     Catalog!BindAnalysis, CatalogProofs!BindAnalysis, Catalog!MayPublish, CatalogProofs!MayPublish,
     Catalog!PublishAnalysis, CatalogProofs!PublishAnalysis,
     Catalog!EndAnalysis, CatalogProofs!EndAnalysis, Catalog!ChangeFile, CatalogProofs!ChangeFile,
     Catalog!Restart, CatalogProofs!Restart, Catalog!SetStatus, CatalogProofs!SetStatus,
     Catalog!PutRow, CatalogProofs!PutRow, Catalog!Touched, CatalogProofs!Touched,
     Catalog!Rows, CatalogProofs!Rows, Catalog!NoRow, CatalogProofs!NoRow,
     Catalog!NoPass, CatalogProofs!NoPass, Catalog!NoOp, CatalogProofs!NoOp,
     Catalog!catalog, CatalogProofs!catalog

\* Facts about one Demo.
LEMMA DemoFacts ==
    ASSUME CatalogInv, NEW d \in Ids
    PROVE  /\ d \in Catalog!Rows <=> demos[d] # Catalog!NoRow
           /\ d \in Catalog!Rows => d \in issued /\ demos[d] \in CatalogProofs!RowType
           /\ CatalogProofs!DemoInv(demos[d], analyses[d], attempt[d], d \in overwritten)
           /\ analyses[d] \in Contents \cup {"none"}
           /\ attempt[d] \in Contents \cup {"none", "unbound"}
           /\ DOMAIN demos = Ids /\ demos = [demos EXCEPT ![d] = demos[d]]
           /\ DOMAIN analyses = Ids /\ analyses = [analyses EXCEPT ![d] = analyses[d]]
           /\ attempt = [attempt EXCEPT ![d] = attempt[d]]
           /\ d \notin issued => analyses[d] = "none"
<1>1. /\ d \in CatalogProofs!Rows <=> demos[d] # CatalogProofs!NoRow
      /\ d \in CatalogProofs!Rows => d \in issued /\ demos[d] \in CatalogProofs!RowType
      /\ CatalogProofs!DemoInv(demos[d], analyses[d], attempt[d], d \in overwritten)
      /\ analyses[d] \in Contents \cup {"none"}
      /\ attempt[d] \in Contents \cup {"none", "unbound"}
      /\ analyses = [analyses EXCEPT ![d] = analyses[d]]
      /\ attempt = [attempt EXCEPT ![d] = attempt[d]]
  BY CatalogProofs!DemoFacts, IdsAssumption, FilesAssumption, BoundsAssumption DEF CatalogInv
<1>2. DOMAIN demos = Ids /\ DOMAIN analyses = Ids /\ demos = [demos EXCEPT ![d] = demos[d]]
  BY DEF CatalogInv, CatalogProofs!IndInv, CatalogProofs!Typed, CatalogProofs!TypeOK
<1>3. analyses[d] # "none" => demos[d] # CatalogProofs!NoRow
  BY <1>1 DEF CatalogProofs!DemoInv
<1> QED
  BY <1>1, <1>2, <1>3, SameRows

----------------------------------------------------------------------------
(* Every action preserves the inductive invariant.                         *)

\* The catalog at the beginning.
LEMMA InitEstablishesCatalog == Init => CatalogInv
<1> SUFFICES ASSUME Init PROVE CatalogInv
  OBVIOUS
<1> DEFINE Begun ==
      /\ disk \in [Paths -> Contents \cup {"absent", "bad"}]
      /\ demos \in [Ids -> CatalogProofs!RowType \cup {CatalogProofs!NoRow}]
      /\ analyses \in [Ids -> Contents \cup {"none"}]
      /\ issued \subseteq Ids /\ CatalogProofs!Rows \subseteq issued
      /\ \A d \in Ids : CatalogProofs!DemoInv(demos[d], analyses[d], "none", FALSE)
      /\ DOMAIN worker = Jobs /\ \A j \in Jobs : worker[j] \in {"idle", "done"}
<1>1. Begun
  <2>1. "none" \notin Contents /\ "none" \notin Paths /\ Replay \in Contents
    BY FilesAssumption, DownloadAssumption
  <2>2. CASE NeverDownloaded
    BY <2>1, <2>2, SameRows
       DEF NeverDownloaded, CatalogProofs!DemoInv, CatalogProofs!NoRow, CatalogProofs!Rows
  <2>3. CASE DownloadedBefore
    <3>1. PICK demo \in Ids, content \in Contents, status \in {"ready", "missing"},
               place \in Paths \ {DemoPath} :
              /\ \A d \in Ids : demo <= d
              /\ disk = [p \in Paths |-> IF p = place THEN content ELSE "absent"]
              /\ demos = [d \in Ids |-> IF d = demo THEN Catalog!Row(place, content, status, FALSE)
                                        ELSE Catalog!NoRow]
              /\ issued = {demo}
              /\ analyses = [d \in Ids |-> IF d = demo THEN content ELSE "none"]
              /\ record = [status |-> "downloaded", demo |-> demo]
              /\ worker = [j \in Jobs |-> IF j = 1 THEN "done" ELSE "idle"]
      BY <2>3, Zenon DEF DownloadedBefore
    <3> DEFINE row == Catalog!Row(place, content, status, FALSE)
    <3>2. /\ row \in CatalogProofs!RowType /\ row # CatalogProofs!NoRow
          /\ row.content = content /\ row.status = status
      BY <2>1 DEF Catalog!Row, CatalogProofs!RowType, CatalogProofs!Statuses, CatalogProofs!NoRow
    <3>3. demos = [d \in Ids |-> IF d = demo THEN row ELSE CatalogProofs!NoRow]
      BY <3>1, SameRows
    <3> HIDE DEF row
    <3>4. CatalogProofs!DemoInv(row, content, "none", FALSE)
      BY <2>1, <3>2 DEF CatalogProofs!DemoInv
    <3>5. CatalogProofs!DemoInv(CatalogProofs!NoRow, "none", "none", FALSE)
      BY DEF CatalogProofs!DemoInv, CatalogProofs!NoRow
    <3> QED
      BY <3>1, <3>2, <3>3, <3>4, <3>5 DEF CatalogProofs!Rows
  <2> QED
    BY <2>2, <2>3 DEF Init
<1>2. Readings
  BY <1>1 DEF Init, Readings, Reading, NothingSeen, Fields, Early
<1>3. CatalogProofs!TypeOK
  <2>1. pass = [s \in Scanners |-> CatalogProofs!NoPass] /\ op = [s \in Scanners |-> CatalogProofs!NoOp]
    BY Zenon DEF Init, Catalog!NoPass, CatalogProofs!NoPass, Catalog!NoOp, CatalogProofs!NoOp,
       Catalog!NoRow, CatalogProofs!NoRow
  <2>2. changes \in 0..MaxChanges /\ overwritten = {} /\ attempt = [d \in Ids |-> "none"]
    BY BoundsAssumption DEF Init
  <2> QED
    BY <1>1, <2>1, <2>2 DEF CatalogProofs!TypeOK, CatalogProofs!NoPass, CatalogProofs!NoOp,
       CatalogProofs!RowType, CatalogProofs!Statuses
<1>4. op = [s \in Scanners |-> CatalogProofs!NoOp]
  BY Zenon DEF Init, Catalog!NoOp, CatalogProofs!NoOp, Catalog!NoRow, CatalogProofs!NoRow
<1>5. CatalogProofs!Typed /\ CatalogProofs!PutsAreOfDemos
  BY <1>3, <1>4, CatalogProofs!NothingDoing, IdsAssumption, FilesAssumption, BoundsAssumption
     DEF CatalogProofs!Typed, CatalogProofs!PutsAreOfDemos
<1>6. \A d \in Ids : CatalogProofs!DemoInv(demos[d], analyses[d], attempt[d], d \in overwritten)
  BY <1>1 DEF Init, CatalogProofs!DemoInv
<1>7. CatalogProofs!IndInv
  BY <1>5, <1>6, CatalogProofs!EachDemo, IdsAssumption, FilesAssumption, BoundsAssumption
     DEF CatalogProofs!IndInv
<1> QED
  BY <1>2, <1>7 DEF CatalogInv

\* A worker writes no row, at most its file.
LEMMA CatalogStays ==
    ASSUME CatalogInv, UNCHANGED <<changes, catalog>>,
           disk' = disk \/ \E content \in {Replay, "bad", "absent"} :
                              disk' = [disk EXCEPT ![DemoPath] = content]
    PROVE  CatalogProofs!IndInv'
<1>1. disk \in [Paths -> Contents \cup {"absent", "bad"}] /\ changes \in 0..MaxChanges
  BY DEF CatalogInv, CatalogProofs!IndInv, CatalogProofs!Typed, CatalogProofs!TypeOK
<1>2. disk' \in [Paths -> Contents \cup {"absent", "bad"}] /\ changes' \in 0..MaxChanges
  BY <1>1, DownloadAssumption
<1> QED
  BY <1>2, CatalogProofs!DiskStepPreservesInvariant, IdsAssumption, FilesAssumption, BoundsAssumption
     DEF CatalogInv, catalog, scans

\* What one worker reads, while no row is written.
LEMMA ReadingStepPreservesReadings ==
    ASSUME Readings, UNCHANGED analyses,
           NEW j \in Jobs, DOMAIN seen' = Jobs, DOMAIN worker' = Jobs,
           \A e \in Jobs \ {j} : seen'[e] = seen[e] /\ worker'[e] = worker[e],
           Fields \subseteq DOMAIN seen'[j],
           worker'[j] = "put" => seen'[j].content \in Contents,
           \/ seen'[j].fresh = FALSE
           \/ /\ seen'[j].fresh = seen[j].fresh
              /\ seen'[j].demo = seen[j].demo
              /\ seen'[j].analysis = seen[j].analysis
              /\ worker[j] \notin Early /\ worker'[j] \notin Early
    PROVE  Readings'
<1>1. \A e \in Jobs \ {j} : Reading(e)'
  BY DEF Readings, Reading
<1>2. Reading(j)'
  BY DEF Readings, Reading
<1> QED
  BY <1>1, <1>2 DEF Readings

\* What is read stays fresh only if the row was not written.
LEMMA RewrittenReadings ==
    ASSUME Readings, NEW D
    PROVE  /\ DOMAIN Rewritten(D) = Jobs
           /\ \A j \in Jobs :
                 /\ Fields \subseteq DOMAIN Rewritten(D)[j]
                 /\ Rewritten(D)[j].demo = seen[j].demo
                 /\ Rewritten(D)[j].analysis = seen[j].analysis
                 /\ Rewritten(D)[j].content = seen[j].content
                 /\ Rewritten(D)[j].fresh = (seen[j].fresh /\ seen[j].demo \notin D)
<1>1. ASSUME NEW r, Fields \subseteq DOMAIN r, NEW x
      PROVE  LET s == [r EXCEPT !.fresh = x]
             IN  /\ Fields \subseteq DOMAIN s /\ s.content = r.content
                 /\ s.demo = r.demo /\ s.analysis = r.analysis /\ s.fresh = x
  BY <1>1 DEF Fields
<1>2. \A j \in Jobs : Fields \subseteq DOMAIN seen[j]
  BY DEF Readings, Reading
<1>3. \A j \in Jobs : Rewritten(D)[j] = [seen[j] EXCEPT !.fresh = (seen[j].fresh /\ seen[j].demo \notin D)]
  BY DEF Rewritten
<1>4. ASSUME NEW j \in Jobs
      PROVE  /\ Fields \subseteq DOMAIN Rewritten(D)[j]
             /\ Rewritten(D)[j].demo = seen[j].demo
             /\ Rewritten(D)[j].analysis = seen[j].analysis
             /\ Rewritten(D)[j].content = seen[j].content
             /\ Rewritten(D)[j].fresh = (seen[j].fresh /\ seen[j].demo \notin D)
  <2> DEFINE x == seen[j].fresh /\ seen[j].demo \notin D
  <2>1. Rewritten(D)[j] = [seen[j] EXCEPT !.fresh = x]
    BY <1>3
  <2> HIDE DEF x
  <2>2. /\ Fields \subseteq DOMAIN Rewritten(D)[j] /\ Rewritten(D)[j].content = seen[j].content
        /\ Rewritten(D)[j].demo = seen[j].demo /\ Rewritten(D)[j].analysis = seen[j].analysis
        /\ Rewritten(D)[j].fresh = x
    BY <1>1, <1>2, <2>1
  <2> QED
    BY <2>2 DEF x
<1>5. DOMAIN Rewritten(D) = Jobs
  BY DEF Rewritten
<1> QED
  BY <1>4, <1>5

\* What a worker that does not move has read is fresh while its row is not written.
LEMMA StillReading ==
    ASSUME Readings, NEW D, \A d \in Ids \ D : analyses'[d] = analyses[d],
           NEW j \in Jobs, seen'[j] = Rewritten(D)[j], worker'[j] = worker[j]
    PROVE  Reading(j)'
<1>1. Reading(j)
  BY DEF Readings
<1>2. /\ Fields \subseteq DOMAIN seen'[j] /\ seen'[j].content = seen[j].content
      /\ seen'[j].demo = seen[j].demo /\ seen'[j].analysis = seen[j].analysis
      /\ seen'[j].fresh = (seen[j].fresh /\ seen[j].demo \notin D)
  BY RewrittenReadings
<1> QED
  BY <1>1, <1>2 DEF Reading

\* A row is written by somebody who is not a worker of the match.
LEMMA OtherWritePreservesReadings ==
    ASSUME Readings, NEW D, \A d \in Ids \ D : analyses'[d] = analyses[d],
           UNCHANGED worker, seen' = Rewritten(D)
    PROVE  Readings'
<1>1. DOMAIN seen' = Jobs /\ DOMAIN worker' = Jobs
  BY RewrittenReadings DEF Readings
<1>2. \A j \in Jobs : Reading(j)'
  BY StillReading
<1> QED
  BY <1>1, <1>2 DEF Readings

----------------------------------------------------------------------------
(* The worker.                                                             *)

\* A worker keeps its observation, or drops it.
Others(j) == DOMAIN seen' = Jobs /\ \A e \in Jobs \ {j} : seen'[e] = seen[e]
Keeps(j) ==
    /\ Others(j)
    /\ Fields \subseteq DOMAIN seen'[j]
    /\ seen'[j].fresh = seen[j].fresh
    /\ seen'[j].demo = seen[j].demo
    /\ seen'[j].analysis = seen[j].analysis
    /\ seen'[j].content = seen[j].content \/ seen'[j].content \in Contents
Drops(j) ==
    /\ Others(j)
    /\ Fields \subseteq DOMAIN seen'[j]
    /\ seen'[j].fresh = FALSE

\* A worker makes or removes the Demo file.
WritesItsFile ==
    /\ UNCHANGED <<changes, catalog>>
    /\ disk' = disk \/ \E content \in {Replay, "bad", "absent"} :
                          disk' = [disk EXCEPT ![DemoPath] = content]

\* A step that leaves the rows of the catalog.
LEMMA KeepingPreservesCatalog ==
    ASSUME CatalogInv, UNCHANGED <<files, catalog>> \/ WritesItsFile,
           NEW j \in Jobs, NEW to, worker' = [worker EXCEPT ![j] = to],
           to = "put" => seen'[j].content \in Contents,
           Drops(j) \/ (Keeps(j) /\ worker[j] \notin Early /\ to \notin Early)
    PROVE  CatalogInv'
<1>1. /\ DOMAIN worker' = Jobs /\ worker'[j] = to
      /\ \A e \in Jobs \ {j} : worker'[e] = worker[e]
  BY DEF CatalogInv, Readings
<1>2. UNCHANGED analyses /\ CatalogProofs!IndInv'
  BY CatalogStays DEF catalog, files, WritesItsFile
<1>3. CASE Drops(j)
  BY <1>1, <1>2, <1>3, ReadingStepPreservesReadings DEF Drops, Others, CatalogInv
<1>4. CASE Keeps(j) /\ worker[j] \notin Early /\ to \notin Early
  BY <1>1, <1>2, <1>4, ReadingStepPreservesReadings DEF Keeps, Others, CatalogInv
<1> QED
  BY <1>3, <1>4

\* An error, and the end of a worker.
LEMMA DroppingPreservesCatalog ==
    ASSUME CatalogInv, UNCHANGED <<files, catalog>> \/ WritesItsFile, NEW j \in Jobs,
           (\E verdict : Fail(j, verdict)) \/ (\E to \in {"done", "leave"} : Ends(j, to))
    PROVE  CatalogInv'
<1>1. DOMAIN seen = Jobs
  BY DEF CatalogInv, Readings
<1>2. Drops(j)
  BY <1>1 DEF Fail, Ends, Drops, Others, NothingSeen, Fields
<1>3. \E to \in {"settle", "done", "leave"} : worker' = [worker EXCEPT ![j] = to]
  BY DEF Fail, Ends
<1> QED
  BY <1>2, <1>3, KeepingPreservesCatalog

\* The request, up to the claim that observes the linked Demo.
LEMMA RequestPreservesCatalog ==
    ASSUME CatalogInv, NEW j \in Jobs,
           Request(j) \/ CheckLinked(j) \/ CompleteExisting(j) \/ ClaimMatch(j)
    PROVE  CatalogInv'
<1>1. /\ DOMAIN seen = Jobs /\ Fields \subseteq DOMAIN seen[j]
      /\ seen[j].fresh \in BOOLEAN
      /\ worker[j] \in Early => seen[j].fresh = FALSE
      /\ DOMAIN worker = Jobs
  BY DEF CatalogInv, Readings, Reading, Early
<1>2. CASE Request(j)
  <2>1. Drops(j)
    BY <1>1, <1>2 DEF Request, Goto, Drops, Others, Early, Fields
  <2>2. PICK to \in {"check", "claim"} : worker' = [worker EXCEPT ![j] = to]
    BY <1>2 DEF Request, Goto
  <2> QED
    BY <1>2, <2>1, <2>2, KeepingPreservesCatalog DEF Request
<1>3. CASE CheckLinked(j)
  <2>1. Drops(j)
    BY <1>1, <1>3 DEF CheckLinked, Goto, Drops, Others, Early, Fields
  <2>2. PICK to \in {"reuse", "claim"} : worker' = [worker EXCEPT ![j] = to]
    BY <1>3 DEF CheckLinked, Goto
  <2> QED
    BY <1>3, <2>1, <2>2, KeepingPreservesCatalog DEF CheckLinked
<1>4. CASE CompleteExisting(j)
  BY <1>4, DroppingPreservesCatalog DEF CompleteExisting
<1>5. CASE ClaimMatch(j) /\ ~Ends(j, "done")
  <2> DEFINE claimed == [NothingSeen EXCEPT
                    !.demo = IF record.demo \in Catalog!Rows THEN record.demo ELSE 0,
                    !.row = RowOf(record.demo), !.fresh = TRUE,
                    !.analysis = IF record.demo \in Catalog!Rows THEN analyses[record.demo]
                                 ELSE "none"]
  <2>1. /\ seen' = [seen EXCEPT ![j] = claimed]
        /\ worker' = [worker EXCEPT ![j] = "register"]
        /\ UNCHANGED <<files, catalog>>
    BY <1>5, Zenon DEF ClaimMatch
  <2>2. /\ Fields \subseteq DOMAIN claimed
        /\ claimed.fresh = TRUE
        /\ claimed.demo = IF record.demo \in Catalog!Rows THEN record.demo ELSE 0
        /\ claimed.analysis = IF record.demo \in Catalog!Rows THEN analyses[record.demo] ELSE "none"
    BY DEF NothingSeen, Fields
  <2> HIDE DEF claimed
  <2>3. CatalogProofs!IndInv' /\ UNCHANGED analyses
    BY <2>1, CatalogStays DEF catalog, files
  <2>4. /\ DOMAIN seen' = Jobs /\ seen'[j] = claimed
        /\ DOMAIN worker' = Jobs /\ worker'[j] = "register"
        /\ \A e \in Jobs \ {j} : seen'[e] = seen[e] /\ worker'[e] = worker[e]
    BY <1>1, <2>1
  <2>5. \A e \in Jobs \ {j} : Reading(e)'
    BY <2>3, <2>4 DEF CatalogInv, Readings, Reading
  <2>6. Reading(j)'
    BY <2>2, <2>3, <2>4 DEF Reading, Catalog!Rows, Early
  <2> QED
    BY <2>3, <2>4, <2>5, <2>6 DEF CatalogInv, Readings
<1>6. CASE ClaimMatch(j) /\ Ends(j, "done")
  BY <1>6, DroppingPreservesCatalog DEF ClaimMatch
<1> QED
  BY <1>2, <1>3, <1>4, <1>5, <1>6

\* The worker where it writes no row.
LEMMA WorkPreservesCatalog ==
    ASSUME CatalogInv, NEW j \in Jobs, Work(j), ~(Put(j) \/ Repair(j)),
           ~(CheckLinked(j) \/ CompleteExisting(j) \/ ClaimMatch(j))
    PROVE  CatalogInv'
<1>1. /\ DOMAIN seen = Jobs /\ Fields \subseteq DOMAIN seen[j]
      /\ UNCHANGED <<files, catalog>> \/ WritesItsFile
  <2>1. CASE Decompress(j) \/ CleanUp(j) \/ Discard(j) \/ DropDuplicate(j)
    <3>1. WritesItsFile
      BY <2>1 DEF Decompress, CleanUp, Discard, DropDuplicate, WritesItsFile
    <3> QED
      BY <3>1 DEF CatalogInv, Readings, Reading
  <2>2. CASE ~(Decompress(j) \/ CleanUp(j) \/ Discard(j) \/ DropDuplicate(j))
    <3>1. UNCHANGED <<files, catalog>>
      BY <2>2 DEF Work, Register, Begin, RemoveStaleArchive, StartDownload, Download, Unpack,
             Import, Validate, CheckCopy, Complete, Settle, Finalize, Leave, WorkerFails, Advance
    <3> QED
      BY <3>1 DEF CatalogInv, Readings, Reading
  <2> QED
    BY <2>1, <2>2
<1>2. ASSUME NEW from, NEW to, Goto(j, from, to), from \notin Early, to \notin Early,
             \/ UNCHANGED seen
             \/ \E v : seen' = [seen EXCEPT ![j].recovered = v]
             \/ \E v : seen' = [seen EXCEPT ![j].verified = v]
             \/ \E v : seen' = [seen EXCEPT ![j].verdict = v],
             to # "put"
      PROVE  CatalogInv'
  <2>1. Keeps(j)
    <3>1. CASE UNCHANGED seen
      BY <1>1, <3>1 DEF Keeps, Others
    <3>2. ASSUME NEW v, \/ seen' = [seen EXCEPT ![j].recovered = v]
                        \/ seen' = [seen EXCEPT ![j].verified = v]
                        \/ seen' = [seen EXCEPT ![j].verdict = v]
          PROVE  Keeps(j)
      BY <1>1, <3>2 DEF Keeps, Others, Fields
    <3> QED
      BY <1>2, <3>1, <3>2
  <2> QED
    BY <1>1, <1>2, <2>1, KeepingPreservesCatalog DEF Goto
<1>3. CASE (\E verdict : Fail(j, verdict)) \/ (\E to \in {"done", "leave"} : Ends(j, to))
  BY <1>1, <1>3, DroppingPreservesCatalog
<1>4. CASE Register(j) \/ RemoveStaleArchive(j) \/ Download(j) \/ Leave(j)
  BY <1>2, <1>4 DEF Register, RemoveStaleArchive, Download, Leave, Early
<1>5. CASE StartDownload(j) \/ Unpack(j) \/ Import(j)
  BY <1>2, <1>3, <1>5 DEF StartDownload, Unpack, Import, Advance, Early
<1>6. CASE Begin(j)
  BY <1>2, <1>6 DEF Begin, Early
<1>7. CASE Discard(j)
  BY <1>2, <1>7 DEF Discard, Early
<1>8. CASE CheckCopy(j)
  <2>1. Goto(j, "copy", "drop") \/ Goto(j, "copy", "repair")
    BY <1>8 DEF CheckCopy
  <2>2. UNCHANGED seen \/ \E v : seen' = [seen EXCEPT ![j].verified = v]
    BY <1>8 DEF CheckCopy
  <2> QED
    BY <1>2, <2>1, <2>2 DEF Early
<1>9. CASE Decompress(j)
  <2>1. Goto(j, "decompress", "clean")
    BY <1>9 DEF Decompress
  <2>2. UNCHANGED seen \/ \E v : seen' = [seen EXCEPT ![j].verdict = v]
    BY <1>9 DEF Decompress
  <2> QED
    BY <1>2, <2>1, <2>2 DEF Early
<1>10. CASE CleanUp(j)
  BY <1>2, <1>3, <1>10 DEF CleanUp, Early
<1>11. CASE Validate(j)
  <2>1. CASE /\ Goto(j, "validate", "put") /\ disk[DemoPath] \in Contents
             /\ seen' = [seen EXCEPT ![j].content = disk[DemoPath], ![j].verified = DemoPath]
    <3>1. Keeps(j) /\ seen'[j].content = disk[DemoPath]
      BY <1>1, <2>1 DEF Keeps, Others, Fields
    <3> QED
      BY <1>1, <2>1, <3>1, KeepingPreservesCatalog DEF Goto, Early
  <2>2. CASE Goto(j, "validate", "discard") /\ UNCHANGED seen
    BY <1>2, <2>2 DEF Early
  <2> QED
    BY <1>3, <1>11, <2>1, <2>2 DEF Validate
<1>12. CASE DropDuplicate(j)
  BY <1>2, <1>3, <1>12 DEF DropDuplicate, Early
<1>13. CASE WorkerFails(j)
  BY <1>3, <1>13 DEF WorkerFails
<1>14. CASE Complete(j) \/ Settle(j)
  <2>1. PICK verdict : worker[j] \in {"complete", "settle"} /\ Inspect(j, verdict)
    BY <1>14 DEF Complete, Settle
  <2>2. CASE Active(j)
    <3>1. /\ Goto(j, "complete", "write") \/ Goto(j, "settle", "write")
          /\ \E v : seen' = [seen EXCEPT ![j].verdict = v]
      BY <2>1, <2>2 DEF Inspect, Goto
    <3> QED
      BY <1>2, <3>1 DEF Early
  <2>3. CASE ~Active(j)
    BY <1>3, <2>1, <2>3 DEF Inspect
  <2> QED
    BY <2>2, <2>3
<1>15. CASE Finalize(j)
  BY <1>3, <1>15 DEF Finalize
<1> QED
  BY <1>4, <1>5, <1>6, <1>7, <1>8, <1>9, <1>10, <1>11, <1>12, <1>13, <1>14, <1>15 DEF Work

\* put_content_addressed_demo_observed and recover_content_addressed_demo: the
\* row that a call returned was written by it, or stayed.
LEMMA ReturningPreservesCatalog ==
    ASSUME CatalogInv, NEW j \in Jobs, UNCHANGED <<files, attempt, pass>>,
           NEW d \in Ids, NEW row \in CatalogProofs!RowType, NEW analysis \in Contents \cup {"none"},
           NEW found, NEW shown,
           demos' = [demos EXCEPT ![d] = row],
           analyses' = [analyses EXCEPT ![d] = analysis],
           overwritten' \in {overwritten, overwritten \ {d}},
           CatalogProofs!DemoInv(row, analysis, attempt[d], d \in overwritten'),
           issued' \in {issued, issued \cup {d}}, d \in issued',
           analysis # analyses[d] => row # demos[d],
           op' \in {op, Catalog!Touched(op, d)},
           Returned(j, found, shown)
    PROVE  CatalogInv'
<1> DEFINE D == {e \in Ids : demos'[e] # demos[e]}
           left == [NothingSeen EXCEPT !.demo = found, !.row = shown, !.verified = seen[j].verified]
<1>1. CatalogProofs!IndInv'
  <2>1. attempt[d] \in Contents \cup {"none", "unbound"} /\ attempt' = [attempt EXCEPT ![d] = attempt[d]]
    BY DemoFacts
  <2>2. row \in CatalogProofs!RowType \cup {CatalogProofs!NoRow}
        /\ op' \in {op, CatalogProofs!Touched(op, d)} /\ UNCHANGED <<disk, changes, pass>>
    BY SameRows DEF files
  <2> QED
    BY <2>1, <2>2, CatalogProofs!WritePreservesInvariant, IdsAssumption, FilesAssumption, BoundsAssumption
       DEF CatalogInv
<1>2. seen' = [Rewritten(D) EXCEPT ![j] = left]
  BY Zenon DEF Returned
<1>3. Fields \subseteq DOMAIN left /\ left.fresh = FALSE
  BY DEF NothingSeen, Fields
<1>4. DOMAIN Rewritten(D) = Jobs
  BY RewrittenReadings DEF CatalogInv
<1>5. \E to \in {"complete", "copy"} : worker' = [worker EXCEPT ![j] = to]
  BY DEF Returned
<1>6. DOMAIN worker' = Jobs /\ worker'[j] # "put" /\ \A e \in Jobs \ {j} : worker'[e] = worker[e]
  BY <1>5 DEF CatalogInv, Readings
<1>7. \A e \in Ids \ D : analyses'[e] = analyses[e]
  <2>1. d \in D \/ analyses' = analyses
    BY DemoFacts
  <2>2. \A e \in Ids : e # d => analyses'[e] = analyses[e]
    OBVIOUS
  <2> HIDE DEF D
  <2> QED
    BY <2>1, <2>2
<1>8. PICK written : written = D
  OBVIOUS
<1> HIDE DEF D, left
<1>9. /\ DOMAIN seen' = Jobs /\ seen'[j] = left
      /\ \A e \in Jobs \ {j} : seen'[e] = Rewritten(written)[e]
  BY <1>2, <1>4, <1>8
<1>10. Readings'
  <2>1. Reading(j)'
    BY <1>3, <1>6, <1>9 DEF Reading
  <2>2. ASSUME NEW e \in Jobs \ {j} PROVE Reading(e)'
    <3>1. /\ \A c \in Ids \ written : analyses'[c] = analyses[c]
          /\ seen'[e] = Rewritten(written)[e] /\ worker'[e] = worker[e]
      BY <1>6, <1>7, <1>8, <1>9
    <3> QED
      BY <3>1, StillReading DEF CatalogInv
  <2> QED
    BY <1>6, <1>9, <2>1, <2>2 DEF Readings
<1> QED
  BY <1>1, <1>10 DEF CatalogInv

\* A row that moves keeps its content, and is ready only with an analysis.
LEMMA MovedRows ==
    ASSUME CatalogInv, NEW d \in Catalog!Rows
    PROVE  LET row == [demos[d] EXCEPT !.path = DemoPath, !.status = Catalog!FoundStatus(d)]
           IN  /\ row \in CatalogProofs!RowType
               /\ CatalogProofs!DemoInv(row, analyses[d], attempt[d], d \in overwritten)
<1> DEFINE row == [demos[d] EXCEPT !.path = DemoPath, !.status = Catalog!FoundStatus(d)]
<1>1. /\ Catalog!FoundStatus(d) \in {"ready", "discovered"}
      /\ Catalog!FoundStatus(d) = "ready" => analyses[d] # "none"
  BY DEF Catalog!FoundStatus
<1>2. /\ demos[d] \in CatalogProofs!RowType
      /\ CatalogProofs!DemoInv(demos[d], analyses[d], attempt[d], d \in overwritten)
  BY DemoFacts DEF Catalog!Rows
<1>3. /\ row \in CatalogProofs!RowType
      /\ row.content = demos[d].content /\ row.status = Catalog!FoundStatus(d)
  BY <1>1, <1>2, DownloadAssumption DEF CatalogProofs!RowType, CatalogProofs!Statuses
<1> HIDE DEF row
<1>4. row # CatalogProofs!NoRow
  BY <1>1, <1>3 DEF CatalogProofs!NoRow
<1>5. CatalogProofs!DemoInv(row, analyses[d], attempt[d], d \in overwritten)
  BY <1>1, <1>2, <1>3, <1>4 DEF CatalogProofs!DemoInv
<1> QED
  BY <1>3, <1>5 DEF row

\* A Demo gets a row of new content, without an analysis.
LEMMA PutNewPreservesCatalog ==
    ASSUME CatalogInv, NEW j \in Jobs, worker[j] = "put", NEW d \in Ids, PutNew(j, d),
           UNCHANGED <<files, attempt, pass>>,
           \A e \in Catalog!Rows : demos[e].content # seen[j].content
    PROVE  CatalogInv'
<1> DEFINE row == Catalog!Row(DemoPath, seen[j].content, "discovered", FALSE)
<1>1. seen[j].content \in Contents
  BY DEF CatalogInv, Readings, Reading
<1>2. row \in CatalogProofs!RowType /\ row.content = seen[j].content /\ row.status = "discovered"
  BY <1>1, DownloadAssumption DEF Catalog!Row, CatalogProofs!RowType, CatalogProofs!Statuses
<1>3. CASE Fail(j, Verdict(j, FALSE)) /\ UNCHANGED <<demos, issued, analyses, overwritten, op>>
  BY <1>3, DroppingPreservesCatalog DEF catalog, scans
<1>4. CASE /\ WriteRow(d, row) /\ analyses' = [analyses EXCEPT ![d] = "none"]
           /\ overwritten' = overwritten \ {d} /\ issued' = issued \cup {d}
           /\ Returned(j, d, row)
  <2> HIDE DEF row
  <2>1. row # demos[d]
    <3>1. CASE d \in Catalog!Rows
      BY <1>2, <3>1
    <3>2. CASE d \notin Catalog!Rows
      <4>1. demos[d] = CatalogProofs!NoRow
        BY <3>2, DemoFacts, SameRows
      <4> QED
        BY <1>2, <4>1 DEF CatalogProofs!NoRow
    <3> QED
      BY <3>1, <3>2
  <2>2. CatalogProofs!DemoInv(row, "none", attempt[d], d \in overwritten')
    BY <1>2 DEF CatalogProofs!DemoInv
  <2>3. demos' = [demos EXCEPT ![d] = row] /\ op' = Catalog!Touched(op, d)
    BY <1>4 DEF WriteRow, Catalog!PutRow
  <2> QED
    BY <1>2, <1>4, <2>1, <2>2, <2>3, ReturningPreservesCatalog
<1> QED
  BY <1>3, <1>4 DEF PutNew

\* The worker puts the row of its Demo.
LEMMA PutPreservesCatalog ==
    ASSUME CatalogInv, NEW j \in Jobs, Put(j) \/ Repair(j)
    PROVE  CatalogInv'
<1>1. ASSUME NEW v, Fail(j, v), UNCHANGED <<files, catalog>>
      PROVE  CatalogInv'
  BY <1>1, DroppingPreservesCatalog
<1>2. ASSUME NEW d \in Catalog!Rows,
             LET row == [demos[d] EXCEPT !.path = DemoPath, !.status = Catalog!FoundStatus(d)]
             IN  WriteRow(d, row) /\ Returned(j, d, row),
             UNCHANGED <<files, issued, analyses, overwritten, attempt, pass>>
      PROVE  CatalogInv'
  <2> DEFINE row == [demos[d] EXCEPT !.path = DemoPath, !.status = Catalog!FoundStatus(d)]
  <2>1. d \in Ids
    BY DEF Catalog!Rows
  <2>2. /\ d \in issued /\ analyses[d] \in Contents \cup {"none"}
        /\ analyses' = [analyses EXCEPT ![d] = analyses[d]]
    BY <1>2, <2>1, DemoFacts
  <2>3. /\ row \in CatalogProofs!RowType
        /\ CatalogProofs!DemoInv(row, analyses[d], attempt[d], d \in overwritten)
    BY MovedRows
  <2>4. demos' = [demos EXCEPT ![d] = row] /\ op' = Catalog!Touched(op, d) /\ Returned(j, d, row)
    BY <1>2 DEF WriteRow, Catalog!PutRow
  <2>5. overwritten' = overwritten
    BY <1>2
  <2> HIDE DEF row
  <2> QED
    BY <1>2, <2>1, <2>2, <2>3, <2>4, <2>5, ReturningPreservesCatalog
<1>3. CASE Repair(j)
  <2> DEFINE d == seen[j].demo
             moved == [RowOf(d) EXCEPT !.path = DemoPath, !.status = Catalog!FoundStatus(d)]
  <2>1. CASE Observed(d, seen[j].row) /\ Catalog!Unique(d, moved)
    <3>1. d \in Catalog!Rows /\ RowOf(d) = demos[d]
      BY <2>1 DEF Observed, RowOf
    <3>2. LET row == [RowOf(d) EXCEPT !.path = DemoPath, !.status = Catalog!FoundStatus(d)]
          IN  WriteRow(d, row) /\ Returned(j, d, row)
      BY <1>3, <2>1 DEF Repair
    <3>3. UNCHANGED <<files, issued, analyses, overwritten, attempt, pass>>
      BY <1>3 DEF Repair
    <3> QED
      BY <1>2, <3>1, <3>2, <3>3
  <2>2. CASE ~(Observed(d, seen[j].row) /\ Catalog!Unique(d, moved))
    BY <1>1, <1>3, <2>2 DEF Repair, catalog, scans
  <2> QED
    BY <2>1, <2>2
<1>4. ASSUME NEW d \in Catalog!Rows, PutExisting(j, d),
             UNCHANGED <<files, issued, analyses, overwritten, attempt, pass>>
      PROVE  CatalogInv'
  <2>1. CASE UNCHANGED <<demos, op>> /\ Fail(j, Verdict(j, FALSE))
    BY <1>1, <1>4, <2>1 DEF catalog, scans
  <2>2. CASE UNCHANGED <<demos, op>> /\ Returned(j, d, demos[d])
    <3>1. d \in Ids
      BY DEF Catalog!Rows
    <3>2. /\ d \in issued /\ demos[d] \in CatalogProofs!RowType
          /\ analyses[d] \in Contents \cup {"none"}
          /\ demos' = [demos EXCEPT ![d] = demos[d]] /\ analyses' = [analyses EXCEPT ![d] = analyses[d]]
          /\ CatalogProofs!DemoInv(demos[d], analyses[d], attempt[d], d \in overwritten)
      BY <1>4, <2>2, <3>1, DemoFacts
    <3>3. /\ overwritten' = overwritten /\ issued' = issued /\ op' = op
          /\ UNCHANGED <<files, attempt, pass>>
          /\ CatalogProofs!DemoInv(demos[d], analyses[d], attempt[d], d \in overwritten')
      BY <1>4, <2>2, <3>2
    <3> QED
      BY <2>2, <3>1, <3>2, <3>3, ReturningPreservesCatalog
  <2>3. \/ UNCHANGED <<demos, op>> /\ (Fail(j, Verdict(j, FALSE)) \/ Returned(j, d, demos[d]))
        \/ LET row == [demos[d] EXCEPT !.path = DemoPath, !.status = Catalog!FoundStatus(d)]
           IN  WriteRow(d, row) /\ Returned(j, d, row)
    BY <1>4 DEF PutExisting
  <2> QED
    BY <1>2, <1>4, <2>1, <2>2, <2>3
<1>5. CASE Put(j)
  <2>1. \/ Fail(j, Verdict(j, FALSE)) /\ UNCHANGED catalog
        \/ \E d \in Catalog!Rows :
              PutExisting(j, d) /\ UNCHANGED <<issued, analyses, overwritten, attempt, pass>>
        \/ /\ \E d \in Ids : PutNew(j, d)
           /\ UNCHANGED <<attempt, pass>>
           /\ \A e \in Catalog!Rows : demos[e].content # seen[j].content
    BY <1>5 DEF Put
  <2>2. UNCHANGED files /\ worker[j] = "put"
    BY <1>5 DEF Put
  <2> QED
    BY <1>1, <1>4, <2>1, <2>2, PutNewPreservesCatalog
<1> QED
  BY <1>3, <1>5

----------------------------------------------------------------------------
(* The catalog around the download.                                        *)

\* A call of a scan that takes an analysis away writes the row of its Demo.
LEMMA ScansWriteRows ==
    ASSUME CatalogInv, NEW s \in Scanners, Catalog!Scan(s)
    PROVE  \A d \in Ids \ RowsWritten(s) : analyses'[d] = analyses[d]
<1>1. CASE UNCHANGED analyses
  BY <1>1
<1>2. CASE ~UNCHANGED analyses
  <2>1. Catalog!Replace(s) \/ Catalog!Invalidate(s)
    BY <1>2 DEF Catalog!Scan, Catalog!BeginPass, Catalog!ReadFile, Catalog!LookUp, Catalog!Put, Catalog!Claim,
       Catalog!CheckCopy, Catalog!Recover, Catalog!Sweep, Catalog!MarkMissing, Catalog!EndPass,
       Catalog!Relocate, Catalog!FailOp, Catalog!catalog
  <2>2. op[s].id \in Ids
    BY <2>1 DEF Catalog!Replace, Catalog!Invalidate, CatalogInv, CatalogProofs!IndInv,
       CatalogProofs!Typed, CatalogProofs!OpKnows
  <2>3. analyses' = [analyses EXCEPT ![op[s].id] = "none"] /\ Writes(s)
    BY <1>2, <2>1 DEF Catalog!Replace, Catalog!Invalidate, Catalog!FailOp, Catalog!catalog, Writes
  <2>4. op[s].id \in RowsWritten(s)
    BY <2>2, <2>3 DEF RowsWritten
  <2> QED
    BY <2>3, <2>4
<1> QED
  BY <1>1, <1>2

\* A scan goes on beside the workers.
LEMMA ScanningPreservesCatalog ==
    ASSUME CatalogInv, ScanCatalog
    PROVE  CatalogInv'
<1>1. PICK s \in Scanners : Catalog!Scan(s) /\ seen' = Rewritten(RowsWritten(s))
  BY DEF ScanCatalog
<1>2. UNCHANGED worker
  BY DEF ScanCatalog, Undisturbed
<1>3. CatalogProofs!IndInv'
  <2>1. CatalogProofs!Scan(s)
    BY <1>1, SameScans
  <2> QED
    BY <2>1, CatalogProofs!ScanPreservesInvariant, IdsAssumption, FilesAssumption, BoundsAssumption
       DEF CatalogInv
<1>4. Readings'
  BY <1>1, <1>2, ScansWriteRows, OtherWritePreservesReadings DEF CatalogInv
<1> QED
  BY <1>3, <1>4 DEF CatalogInv

\* The user deletes a Demo, and analysis runs come and go.
LEMMA AnalysisPreservesCatalog ==
    ASSUME CatalogInv, NEW d \in Ids, NEW content \in Contents, NEW status \in {"failed", "discovered"},
           \/ Catalog!DeleteDemo(d) \/ Catalog!StartAnalysis(d)
           \/ Catalog!BindAnalysis(d, content) \/ Catalog!PublishAnalysis(d, content)
           \/ Catalog!EndAnalysis(d, status),
           UNCHANGED worker, seen' = Rewritten({e \in Ids : demos'[e] # demos[e]})
    PROVE  CatalogInv'
<1> DEFINE D == {e \in Ids : demos'[e] # demos[e]}
<1>1. CatalogProofs!IndInv'
  <2>1. CatalogProofs!DeleteDemo(d) \/ CatalogProofs!Analyse(d)
    BY SameCalls DEF CatalogProofs!Analyse
  <2> QED
    BY <2>1, CatalogProofs!UserPreservesInvariant, CatalogProofs!AnalysingPreservesInvariant,
       IdsAssumption, FilesAssumption, BoundsAssumption DEF CatalogInv
<1>2. \A e \in Ids \ D : analyses'[e] = analyses[e]
  <2>1. CASE Catalog!DeleteDemo(d)
    <3>1. /\ demos' = [demos EXCEPT ![d] = Catalog!NoRow] /\ demos[d] # Catalog!NoRow
          /\ analyses' = [analyses EXCEPT ![d] = "none"]
      BY <2>1, DemoFacts DEF Catalog!DeleteDemo, Catalog!PutRow
    <3>2. d \in D
      BY <3>1, DemoFacts
    <3> HIDE DEF D
    <3> QED
      BY <3>1, <3>2
  <2>2. CASE Catalog!PublishAnalysis(d, content)
    <3>1. /\ demos' = [demos EXCEPT ![d].status = "ready"] /\ demos[d].status = "analyzing"
          /\ analyses' = [analyses EXCEPT ![d] = content]
      BY <2>2 DEF Catalog!PublishAnalysis, Catalog!MayPublish, Catalog!SetStatus, Catalog!PutRow
    <3>2. d \in Catalog!Rows
      BY <3>1, DemoFacts DEF Catalog!NoRow
    <3>3. demos[d] \in CatalogProofs!RowType /\ demos = [demos EXCEPT ![d] = demos[d]]
      BY <3>2, DemoFacts
    <3>4. demos'[d].status = "ready"
      BY <3>1, <3>3, DemoFacts DEF CatalogProofs!RowType
    <3>5. d \in D
      BY <3>1, <3>4
    <3> HIDE DEF D
    <3> QED
      BY <3>1, <3>5
  <2>3. CASE UNCHANGED analyses
    BY <2>3
  <2> QED
    BY <2>1, <2>2, <2>3 DEF Catalog!StartAnalysis, Catalog!BindAnalysis, Catalog!EndAnalysis, Catalog!catalog
<1> HIDE DEF D
<1>3. Readings'
  BY <1>2, OtherWritePreservesReadings DEF CatalogInv, D
<1> QED
  BY <1>1, <1>3 DEF CatalogInv

\* A restart ends every run and leaves no Demo analyzing.
LEMMA RestartPreservesCatalog ==
    ASSUME CatalogInv, Restart
    PROVE  CatalogInv'
<1>1. CatalogProofs!IndInv'
  <2>1. CatalogProofs!Restart
    BY SameCalls DEF Restart
  <2> QED
    BY <2>1, CatalogProofs!RestartPreservesInvariant, IdsAssumption, FilesAssumption, BoundsAssumption
       DEF CatalogInv
<1>2. Readings'
  BY DEF Restart, Readings, Reading, NothingSeen, Fields, Early
<1> QED
  BY <1>1, <1>2 DEF CatalogInv

\* Whatever else happens around the download.
LEMMA SurroundingsPreserveCatalog ==
    ASSUME CatalogInv, ChangeCatalog \/ PatchDemo \/ Analyse \/ ChangeFile
    PROVE  CatalogInv'
<1>1. UNCHANGED worker /\ Replay \in Contents
  BY DownloadAssumption DEF ChangeCatalog, PatchDemo, Analyse, ChangeFile, Undisturbed
<1>2. CASE ChangeCatalog
  <2>1. /\ seen' = Rewritten({e \in Ids : demos'[e] # demos[e]})
        /\ \E d \in Ids : Catalog!DeleteDemo(d) \/ Catalog!StartAnalysis(d)
    BY <1>2 DEF ChangeCatalog
  <2> QED
    BY <1>1, <2>1, AnalysisPreservesCatalog
<1>3. CASE Analyse
  <2>1. /\ seen' = Rewritten({e \in Ids : demos'[e] # demos[e]})
        /\ \E d \in Ids, content \in Contents, status \in {"failed", "discovered"} :
              \/ Catalog!BindAnalysis(d, content) \/ Catalog!PublishAnalysis(d, content)
              \/ Catalog!EndAnalysis(d, status)
    BY <1>1, <1>3 DEF Analyse
  <2> QED
    BY <1>1, <2>1, AnalysisPreservesCatalog
<1>4. CASE PatchDemo
  <2>1. PICK d \in Ids : Catalog!PatchDemo(d) /\ seen' = Rewritten({d})
    BY <1>4 DEF PatchDemo
  <2>2. CatalogProofs!PatchDemo(d) /\ UNCHANGED analyses
    BY <2>1, SameCalls DEF Catalog!PatchDemo, Catalog!catalog
  <2>3. CatalogProofs!IndInv'
    BY <2>2, CatalogProofs!UserPreservesInvariant, IdsAssumption, FilesAssumption, BoundsAssumption
       DEF CatalogInv
  <2>4. Readings'
    BY <1>1, <2>1, <2>2, OtherWritePreservesReadings DEF CatalogInv
  <2> QED
    BY <2>3, <2>4 DEF CatalogInv
<1>5. CASE ChangeFile
  <2>1. CatalogProofs!ChangeFile /\ UNCHANGED analyses
    BY <1>5, SameCalls DEF ChangeFile, Catalog!ChangeFile, Catalog!catalog
  <2>2. CatalogProofs!IndInv'
    BY <2>1, CatalogProofs!FilesPreserveInvariant, IdsAssumption, FilesAssumption, BoundsAssumption
       DEF CatalogInv
  <2>3. \A j \in Jobs : LET s == [seen[j] EXCEPT !.verified = "none"]
                        IN  /\ Fields \subseteq DOMAIN s
                            /\ s.demo = seen[j].demo /\ s.analysis = seen[j].analysis
                            /\ s.fresh = seen[j].fresh /\ s.content = seen[j].content
    BY DEF CatalogInv, Readings, Reading, Fields
  <2>4. /\ DOMAIN seen' = Jobs
        /\ \A j \in Jobs : seen'[j] = seen[j] \/ seen'[j] = [seen[j] EXCEPT !.verified = "none"]
    BY <1>5 DEF ChangeFile
  <2>5. ASSUME NEW j \in Jobs PROVE Reading(j)'
    <3>1. Reading(j)
      BY DEF CatalogInv, Readings
    <3>2. /\ Fields \subseteq DOMAIN seen'[j]
          /\ seen'[j].demo = seen[j].demo /\ seen'[j].analysis = seen[j].analysis
          /\ seen'[j].fresh = seen[j].fresh /\ seen'[j].content = seen[j].content
      BY <2>3, <2>4, <3>1 DEF Reading
    <3> QED
      BY <1>1, <2>1, <3>1, <3>2 DEF Reading
  <2> QED
    BY <1>1, <2>2, <2>4, <2>5 DEF CatalogInv, Readings
<1> QED
  BY <1>2, <1>3, <1>4, <1>5

\* Every step.
LEMMA StepPreservesCatalog == CatalogInv /\ [Next]_vars => CatalogInv'
<1> SUFFICES ASSUME CatalogInv, [Next]_vars PROVE CatalogInv'
  OBVIOUS
<1>1. ASSUME NEW j \in Jobs, Request(j) \/ Work(j) PROVE CatalogInv'
  BY <1>1, RequestPreservesCatalog, WorkPreservesCatalog, PutPreservesCatalog
<1>2. ASSUME UNCHANGED <<files, catalog, worker, seen>> PROVE CatalogInv'
  <2>1. CatalogProofs!IndInv'
    BY <1>2, CatalogStays DEF files
  <2>2. Readings'
    BY <1>2 DEF CatalogInv, Readings, Reading, catalog
  <2> QED
    BY <2>1, <2>2 DEF CatalogInv
<1>3. CASE UNCHANGED vars \/ \E k \in Clients : Cancel(k) \/ \E j \in Jobs : RequestCancel(k, j)
  <2>1. UNCHANGED <<files, catalog, worker, seen>>
    BY <1>3, Zenon DEF vars, Cancel, FindOwner, FinishCancel, Reply, RequestCancel
  <2> QED
    BY <1>2, <2>1
<1> QED
  BY <1>1, <1>3, ScanningPreservesCatalog, SurroundingsPreserveCatalog, RestartPreservesCatalog DEF Next

----------------------------------------------------------------------------
(* The theorems.                                                           *)

\* The inductive invariant: rows, analyses and runs agree, and so do fresh
\* observations with the analyses of the Demos they are of.
THEOREM CatalogInvariant == Spec => []CatalogInv
<1> QED
  BY InitEstablishesCatalog, StepPreservesCatalog, PTL DEF Spec

\* What the catalog promises holds with any number of downloads, scans and
\* analyses beside each other (put_content_addressed_demo_observed).
THEOREM CatalogIsSound == Spec => []CatalogStaysSound
<1>1. CatalogInv => CatalogStaysSound
  BY Zenon, SameRows DEF CatalogInv, CatalogProofs!IndInv, CatalogStaysSound,
     Catalog!AnalysesMatchTheirDemo, CatalogProofs!AnalysesMatchTheirDemo,
     Catalog!ReadyMeansAnalysed, CatalogProofs!ReadyMeansAnalysed,
     Catalog!AnalyzingDemosHaveARun, CatalogProofs!AnalyzingDemosHaveARun
<1> QED
  BY <1>1, CatalogInvariant, PTL

\* The only analysis a worker removes is the one its claim has observed: nothing
\* that was published since is lost, for any number of workers
\* (put_content_addressed_demo_observed).
THEOREM AnalysesSurvive == Spec => AnalysesSurviveDownloads
<1>1. ASSUME CatalogInv, [Next]_vars,
             NEW j \in Jobs, worker'[j] # worker[j], NEW d \in Ids, analyses'[d] # analyses[d]
      PROVE  d = seen[j].demo /\ analyses[d] = seen[j].analysis
  <2>1. ~(ScanCatalog \/ ChangeCatalog \/ PatchDemo \/ Analyse \/ ChangeFile)
    BY <1>1 DEF ScanCatalog, ChangeCatalog, PatchDemo, Analyse, ChangeFile, Undisturbed
  <2>2. ~Restart
    BY <1>1 DEF Restart, Catalog!Restart
  <2>3. ~(UNCHANGED vars \/ \E k \in Clients : Cancel(k) \/ \E i \in Jobs : RequestCancel(k, i))
    BY <1>1 DEF vars, catalog, Cancel, FindOwner, FinishCancel, Reply, RequestCancel
  <2>4. PICK i \in Jobs : Request(i) \/ Work(i)
    BY <1>1, <2>1, <2>2, <2>3 DEF Next
  <2>5. Put(i)
    BY <1>1, <2>4 DEF Request, Work, CheckLinked, CompleteExisting, ClaimMatch, Register, Begin,
       RemoveStaleArchive, StartDownload, Download, Unpack, Decompress, CleanUp, Import, Validate, Discard,
       CheckCopy, DropDuplicate, Repair, Complete, Settle, Finalize, Leave, WorkerFails, Advance, catalog
  <2>6. PICK e \in Ids :
            /\ LinkIsFresh(i)
            /\ IF seen[i].demo # 0 THEN e = seen[i].demo ELSE e \notin issued
            /\ PutNew(i, e)
    BY <1>1, <2>5 DEF Put, catalog
  <2>7. analyses' = [analyses EXCEPT ![e] = "none"]
    BY <1>1, <2>6 DEF PutNew
  <2>8. e = d /\ analyses'[d] = "none"
    BY <1>1, <2>6, <2>7, DemoFacts
  <2>9. d \in issued
    BY <1>1, <2>8, DemoFacts
  <2>10. seen[i].demo # 0 /\ seen[i].demo = d /\ seen[i].fresh
    BY <2>6, <2>8, <2>9 DEF LinkIsFresh
  <2>11. i = j
    <3>1. \A to : (worker' = [worker EXCEPT ![i] = to]) => i = j
      BY <1>1 DEF CatalogInv, Readings
    <3> QED
      BY <2>6, <3>1 DEF PutNew, Fail, Returned
  <2> QED
    BY <1>1, <2>10, <2>11 DEF CatalogInv, Readings, Reading
<1>2. CatalogInv /\ [Next]_vars =>
          (\A j \in Jobs : worker'[j] # worker[j] =>
              \A d \in Ids : analyses'[d] # analyses[d] /\ demos'[d] # Catalog!NoRow =>
                  \/ worker[j] = "idle"
                  \/ d = seen[j].demo /\ analyses[d] = seen[j].analysis)
  BY <1>1
<1> QED
  BY <1>2, CatalogInvariant, PTL DEF Spec, AnalysesSurviveDownloads
============================================================================
