------------------------- MODULE DemoCatalogProofs -------------------------
(***************************************************************************)
(* Proofs about the catalog of Demo files, for every number of files,      *)
(* contents, Demos, scans and changes.  The resident watcher and imports   *)
(* of the user work at the same time; a Demo that one of them wrote as it  *)
(* had been before is excepted until its content is replaced, found        *)
(* invalid, or the Demo deleted (README.md, observations).                 *)
(***************************************************************************)
EXTENDS DemoCatalog, TLAPS

Statuses == {"discovered", "analyzing", "ready", "failed", "missing"}
RowType == [path : Paths, content : Contents \cup {"none"}, status : Statuses, watched : BOOLEAN]
OpType == [step : {"idle", "put", "replace", "claim", "copy", "recover", "invalidate", "mark"},
           path : Paths \cup {"none"}, content : Contents \cup {"bad", "none"},
           id : Ids \cup {0}, row : RowType \cup {NoRow}, fresh : BOOLEAN]
PassType == [busy : BOOLEAN, found : SUBSET Paths, read : SUBSET (Paths \X (Contents \cup {"bad"})),
             listed : SUBSET (Ids \X Paths)]

\* What the scan of one file knows at each of its calls.
OpKnows(o) ==
    /\ o.step \in {"put", "replace", "copy", "recover", "invalidate", "mark"} => o.id \in Ids
    /\ o.step \in {"put", "replace", "claim", "copy", "recover"} =>
          o.path \in Paths /\ o.content \in Contents
    /\ o.step = "put" => o.row \in RowType /\ o.row.content \in {o.content, "none"}

Typed ==
    /\ TypeOK
    /\ op \in [Scanners -> OpType]
    /\ \A s \in Scanners : OpKnows(op[s])

\* The record that waits to be put is of a Demo that was in the catalog.
PutsAreOfDemos == \A s \in Scanners : op[s].step = "put" => op[s].id \in issued

IndInv ==
    /\ Typed
    /\ PutsAreOfDemos
    /\ AnalysesMatchTheirDemo
    /\ ReadyMeansAnalysed
    /\ AnalyzingDemosHaveARun

\* The part of the invariant that is about one Demo.
DemoInv(row, analysis, run, excepted) ==
    /\ row # NoRow => row \in RowType
    /\ analysis # "none" => row # NoRow
    /\ ~excepted =>
          /\ analysis # "none" => row.content = analysis
          /\ row.status = "ready" => analysis # "none"
          /\ row.status = "analyzing" => run # "none" /\ (run \in Contents => row.content = run)

----------------------------------------------------------------------------
(* Facts about rows.                                                       *)

\* The names of what is not there are not contents.
LEMMA Names == /\ "none" \notin Contents /\ "unbound" \notin Contents /\ "bad" \notin Contents
               /\ "absent" \notin Contents /\ "none" \notin Paths
  BY FilesAssumption

\* The invariant, Demo by Demo.
LEMMA EachDemo ==
    ASSUME Typed
    PROVE  AnalysesMatchTheirDemo /\ ReadyMeansAnalysed /\ AnalyzingDemosHaveARun
           <=> \A d \in Ids : DemoInv(demos[d], analyses[d], attempt[d], d \in overwritten)
<1>1. NoRow.status = "none"
  BY DEF NoRow
<1>2. \A d \in Ids : d \in Rows <=> demos[d] # NoRow
  BY DEF Rows
<1>3. \A d \in Ids : demos[d] # NoRow => demos[d] \in RowType
  BY DEF Typed, TypeOK, RowType, Statuses
<1>4. ASSUME AnalysesMatchTheirDemo, ReadyMeansAnalysed, AnalyzingDemosHaveARun, NEW d \in Ids
      PROVE  DemoInv(demos[d], analyses[d], attempt[d], d \in overwritten)
  <2>1. demos[d] # NoRow => demos[d] \in RowType
    BY <1>3
  <2>2. analyses[d] # "none" =>
            demos[d] # NoRow /\ (d \notin overwritten => demos[d].content = analyses[d])
    BY <1>2, <1>4 DEF AnalysesMatchTheirDemo
  <2>3. demos[d].status # "none" => d \in Rows
    BY <1>1, <1>2
  <2>4. d \notin overwritten =>
        /\ demos[d].status = "ready" => analyses[d] # "none"
        /\ demos[d].status = "analyzing" =>
              attempt[d] # "none" /\ (attempt[d] \in Contents => demos[d].content = attempt[d])
    BY <2>3, <1>4 DEF ReadyMeansAnalysed, AnalyzingDemosHaveARun
  <2> QED
    BY <2>1, <2>2, <2>4 DEF DemoInv
<1>5. ASSUME \A d \in Ids : DemoInv(demos[d], analyses[d], attempt[d], d \in overwritten)
      PROVE  AnalysesMatchTheirDemo /\ ReadyMeansAnalysed /\ AnalyzingDemosHaveARun
  BY <1>2, <1>5 DEF DemoInv, AnalysesMatchTheirDemo, ReadyMeansAnalysed,
     AnalyzingDemosHaveARun, Rows
<1> QED
  BY <1>4, <1>5

\* The next state's invariant, Demo by Demo.
LEMMA EachDemoNext ==
    ASSUME Typed', PutsAreOfDemos',
           \A d \in Ids : DemoInv(demos'[d], analyses'[d], attempt'[d], d \in overwritten')
    PROVE  IndInv'
<1>1. \A d \in Ids : d \in Rows' <=> demos'[d] # NoRow
  BY DEF Rows
<1> QED
  BY <1>1 DEF IndInv, DemoInv, AnalysesMatchTheirDemo, ReadyMeansAnalysed,
     AnalyzingDemosHaveARun, Rows

\* An observation that is no longer exact is an observation.
LEMMA TouchedOps ==
    ASSUME Typed, NEW d
    PROVE  /\ Touched(op, d) \in [Scanners -> OpType]
           /\ \A s \in Scanners :
                 /\ OpKnows(Touched(op, d)[s])
                 /\ Touched(op, d)[s].step = op[s].step
                 /\ Touched(op, d)[s].id = op[s].id
                 /\ Touched(op, d)[s].row = op[s].row
<1>1. \A s \in Scanners : op[s] \in OpType /\ OpKnows(op[s])
  BY DEF Typed
<1>2. ASSUME NEW o \in OpType, OpKnows(o)
      PROVE  LET t == [o EXCEPT !.fresh = FALSE]
             IN  /\ t \in OpType /\ OpKnows(t)
                 /\ t.step = o.step /\ t.id = o.id /\ t.row = o.row
  BY <1>2 DEF OpType, OpKnows
<1>3. Touched(op, d) = [s \in Scanners |-> IF op[s].id = d /\ op[s].step = "invalidate"
                                           THEN [op[s] EXCEPT !.fresh = FALSE] ELSE op[s]]
  BY DEF Touched
<1> QED
  BY <1>1, <1>2, <1>3

\* An idle scan knows nothing and needs nothing.
LEMMA NothingDoing == NoOp \in OpType /\ OpKnows(NoOp) /\ NoOp.step = "idle"
  BY DEF NoOp, OpType, OpKnows

\* After its last call about a file a scan is idle; the others go on.
OthersGoOn ==
    /\ op' \in [Scanners -> OpType]
    /\ \A t \in Scanners : OpKnows(op'[t])
    /\ \A t \in Scanners : op'[t].step = "put" => op[t].step = "put" /\ op'[t].id = op[t].id

LEMMA EndedOps ==
    ASSUME IndInv, NEW s \in Scanners, NEW d, EndOp(s, d)
    PROVE  OthersGoOn
<1>1. /\ Touched(op, d) \in [Scanners -> OpType]
      /\ \A t \in Scanners : /\ OpKnows(Touched(op, d)[t])
                             /\ Touched(op, d)[t].step = op[t].step
                             /\ Touched(op, d)[t].id = op[t].id
  BY TouchedOps DEF IndInv
<1>2. op' = [Touched(op, d) EXCEPT ![s] = NoOp]
  BY DEF EndOp
<1> QED
  BY <1>1, <1>2, NothingDoing DEF OthersGoOn

----------------------------------------------------------------------------
(* Steps that write no row.                                                *)

\* At the start there is no row and no scan.
LEMMA InitEstablishesInvariant == Init => IndInv
<1> SUFFICES ASSUME Init PROVE IndInv
  OBVIOUS
<1>1. Rows = {}
  BY DEF Init, Rows
<1>2. TypeOK
  BY <1>1, MaxChangesAssumption DEF Init, TypeOK, NoPass, NoOp
<1>3. Typed
  BY <1>2, NothingDoing DEF Init, Typed
<1>4. PutsAreOfDemos
  BY NothingDoing DEF Init, PutsAreOfDemos
<1> QED
  BY <1>1, <1>3, <1>4 DEF IndInv, Init, AnalysesMatchTheirDemo, ReadyMeansAnalysed,
     AnalyzingDemosHaveARun

\* A step that leaves rows, analyses and runs alone.
LEMMA IdleStepPreservesInvariant ==
    ASSUME IndInv, Typed', PutsAreOfDemos', UNCHANGED <<catalog, attempt>>
    PROVE  IndInv'
<1>1. \A d \in Ids : DemoInv(demos[d], analyses[d], attempt[d], d \in overwritten)
  BY EachDemo DEF IndInv
<1> QED
  BY <1>1, EachDemoNext DEF catalog

\* The reading of the files, and the listing of the rows.
LEMMA ReadingPreservesInvariant ==
    ASSUME IndInv, NEW s \in Scanners,
           BeginPass(s) \/ (\E p \in Paths : ReadFile(s, p)) \/ EndPass(s)
    PROVE  IndInv'
<1>1. UNCHANGED <<disk, catalog, attempt, op>> /\ changes' \in {changes, changes + 1}
      /\ (changes' = changes \/ changes < MaxChanges)
  BY DEF BeginPass, ReadFile, EndPass
<1>2. /\ disk \in [Paths -> Contents \cup {"absent", "bad"}]
      /\ changes \in 0..MaxChanges /\ MaxChanges \in Nat
      /\ pass \in [Scanners -> PassType]
  BY MaxChangesAssumption DEF IndInv, Typed, TypeOK, PassType
<1>3. \A d \in Rows : demos[d].path \in Paths
  BY DEF IndInv, Typed, TypeOK, Rows
<1>4. pass' \in [Scanners -> PassType]
  <2>1. CASE BeginPass(s)
    <3>1. {<<d, demos[d].path>> : d \in {e \in Rows : demos[e].watched /\ demos[e].status # "missing"}}
              \in SUBSET (Ids \X Paths)
      BY <1>3 DEF Rows
    <3>2. [busy |-> TRUE, found |-> {p \in Paths : disk[p] # "absent"}, read |-> {},
           listed |-> {<<d, demos[d].path>> : d \in
              {e \in Rows : demos[e].watched /\ demos[e].status # "missing"}}] \in PassType
      BY <3>1 DEF PassType
    <3>3. ASSUME NEW p \in Paths PROVE [NoPass EXCEPT !.busy = TRUE, !.found = {p}] \in PassType
      BY DEF PassType, NoPass
    <3>4. \E next \in PassType : pass' = [pass EXCEPT ![s] = next]
      BY <2>1, <3>2, <3>3 DEF BeginPass
    <3> QED
      BY <1>2, <3>4
  <2>2. ASSUME NEW p \in Paths, ReadFile(s, p)
        PROVE  pass' \in [Scanners -> PassType]
    <3> DEFINE content == IF disk[p] = "absent" THEN "bad" ELSE disk[p]
               seen == IF s # "watch" /\ content = "bad" THEN {} ELSE {<<p, content>>}
               next == [pass[s] EXCEPT !.found = @ \ {p}, !.read = @ \cup seen]
    <3>1. content \in Contents \cup {"bad"}
      BY <1>2
    <3>2. seen \in SUBSET (Paths \X (Contents \cup {"bad"}))
      BY <3>1
    <3>3. pass[s] \in PassType
      BY <1>2
    <3>4. next \in PassType
      <4> HIDE DEF seen
      <4> QED
        BY <3>2, <3>3 DEF PassType
    <3>5. pass' = [pass EXCEPT ![s] = next]
      BY <2>2 DEF ReadFile
    <3> HIDE DEF next
    <3> QED
      BY <1>2, <3>4, <3>5
  <2>3. CASE EndPass(s)
    <3>1. NoPass \in PassType
      BY DEF NoPass, PassType
    <3> QED
      BY <1>2, <2>3, <3>1 DEF EndPass
  <2> QED
    BY <2>1, <2>2, <2>3
<1>5. TypeOK'
  <2>1. changes' \in 0..MaxChanges
    BY <1>1, <1>2
  <2> QED
    BY <1>1, <1>2, <1>4, <2>1 DEF IndInv, Typed, TypeOK, PassType, catalog, Rows
<1>6. Typed' /\ PutsAreOfDemos'
  BY <1>1, <1>5 DEF IndInv, Typed, PutsAreOfDemos, catalog, Rows
<1> QED
  BY <1>1, <1>6, IdleStepPreservesInvariant DEF catalog

\* What happens to the files reaches no row by itself.
LEMMA DiskStepPreservesInvariant ==
    ASSUME IndInv, UNCHANGED <<demos, issued, analyses, overwritten, attempt, pass, op>>,
           disk' \in [Paths -> Contents \cup {"absent", "bad"}], changes' \in 0..MaxChanges
    PROVE  IndInv'
<1>1. TypeOK'
  BY DEF IndInv, Typed, TypeOK, Rows
<1>2. Typed' /\ PutsAreOfDemos'
  BY <1>1 DEF IndInv, Typed, PutsAreOfDemos
<1> QED
  BY <1>2, IdleStepPreservesInvariant DEF catalog

\* Somebody changes a file.
LEMMA FilesPreserveInvariant ==
    ASSUME IndInv, ChangeFile
    PROVE  IndInv'
<1>1. UNCHANGED <<demos, issued, analyses, overwritten, attempt, pass, op>>
  BY DEF ChangeFile, catalog
<1>2. disk \in [Paths -> Contents \cup {"absent", "bad"}] /\ changes \in 0..MaxChanges /\ MaxChanges \in Nat
  BY MaxChangesAssumption DEF IndInv, Typed, TypeOK
<1>3. disk' \in [Paths -> Contents \cup {"absent", "bad"}] /\ changes' \in 0..MaxChanges
  BY <1>2 DEF ChangeFile
<1> QED
  BY <1>1, <1>3, DiskStepPreservesInvariant

\* A scan decides about one file and writes nothing yet.
LEMMA DecidingPreservesInvariant ==
    ASSUME IndInv, NEW s \in Scanners,
           UNCHANGED <<disk, changes, catalog, attempt>>,
           pass' \in [Scanners -> PassType],
           NEW next, op' = [op EXCEPT ![s] = next],
           next \in OpType, OpKnows(next),
           next.step = "put" => next.id \in issued
    PROVE  IndInv'
<1>1. op \in [Scanners -> OpType] /\ \A t \in Scanners : OpKnows(op[t])
  BY DEF IndInv, Typed
<1>2. op' \in [Scanners -> OpType] /\ op'[s] = next /\ \A t \in Scanners \ {s} : op'[t] = op[t]
  BY <1>1
<1>3. \A t \in Scanners : op'[t].step \in {"idle", "put", "replace", "claim", "copy",
                                          "recover", "invalidate", "mark"}
  BY <1>2 DEF OpType
<1>4. TypeOK'
  BY <1>3 DEF IndInv, Typed, TypeOK, PassType, catalog, Rows
<1>5. Typed'
  BY <1>1, <1>2, <1>4 DEF Typed
<1>6. PutsAreOfDemos'
  BY <1>2 DEF IndInv, PutsAreOfDemos, catalog, Rows
<1> QED
  BY <1>5, <1>6, IdleStepPreservesInvariant

\* A scan that will put a row remembers it as it read it.
LEMMA LookUpPreservesInvariant ==
    ASSUME IndInv, NEW s \in Scanners, LookUp(s)
    PROVE  IndInv'
<1>1. pass \in [Scanners -> PassType]
  BY DEF IndInv, Typed, TypeOK, PassType
<1>2. PICK file \in pass[s].read :
        /\ pass' = [pass EXCEPT ![s].read = @ \ {file}]
        /\ \/ op' = [op EXCEPT ![s] = ForUnknown(s, file[1], file[2])]
           \/ \E d \in {d \in Rows : demos[d].path = file[1]} :
                 \E next \in ForKnown(s, file[1], file[2], d) : op' = [op EXCEPT ![s] = next]
  BY DEF LookUp
<1>3. file[1] \in Paths /\ file[2] \in Contents \cup {"bad"}
  BY <1>1 DEF PassType
<1>4. pass' \in [Scanners -> PassType]
  <2>1. pass[s] \in PassType
    BY <1>1
  <2>2. [pass[s] EXCEPT !.read = @ \ {file}] \in PassType
    BY <2>1 DEF PassType
  <2>3. pass' = [pass EXCEPT ![s] = [pass[s] EXCEPT !.read = @ \ {file}]]
    BY <1>2
  <2> QED
    BY <1>1, <2>2, <2>3
<1>5. UNCHANGED <<disk, changes, catalog, attempt>>
  BY DEF LookUp
<1>6. CASE op' = [op EXCEPT ![s] = ForUnknown(s, file[1], file[2])]
  <2> DEFINE next == ForUnknown(s, file[1], file[2])
  <2>1. next \in OpType /\ OpKnows(next) /\ next.step # "put"
    BY <1>3 DEF ForUnknown, NoOp, OpType, OpKnows
  <2> QED
    BY <1>4, <1>5, <1>6, <2>1, DecidingPreservesInvariant
<1>7. ASSUME NEW d \in Rows, NEW next \in ForKnown(s, file[1], file[2], d),
             op' = [op EXCEPT ![s] = next]
      PROVE  IndInv'
  <2>1. d \in Ids /\ d \in issued /\ demos[d] \in RowType
    BY <1>7 DEF IndInv, Typed, TypeOK, Rows, RowType, Statuses
  <2>2. CASE file[2] = "bad"
    <3>1. next = [NoOp EXCEPT !.path = file[1], !.content = file[2], !.id = d, !.step = "invalidate"]
      BY <1>7, <2>2 DEF ForKnown
    <3>2. next \in OpType /\ OpKnows(next) /\ next.step # "put"
      BY <1>3, <2>1, <3>1 DEF NoOp, OpType, OpKnows
    <3> QED
      BY <1>4, <1>5, <1>7, <3>2, DecidingPreservesInvariant
  <2>3. CASE file[2] # "bad"
    <3>1. file[2] \in Contents
      BY <1>3, <2>3
    <3>2. PICK changed \in ContentChanged(s, file[2], demos[d]) :
            next = IF changed
              THEN [[NoOp EXCEPT !.path = file[1], !.content = file[2], !.id = d]
                        EXCEPT !.step = "replace"]
              ELSE IF s = "watch" /\ demos[d].watched /\ demos[d].status # "missing"
              THEN NoOp
              ELSE [[NoOp EXCEPT !.path = file[1], !.content = file[2], !.id = d]
                        EXCEPT !.step = "put", !.row = demos[d]]
      BY <1>7, <2>3 DEF ForKnown
    <3>3. ~changed => demos[d].content \in {file[2], "none"}
      BY <3>2 DEF ContentChanged
    <3>4. CASE next = [NoOp EXCEPT !.path = file[1], !.content = file[2], !.id = d,
                                   !.step = "replace"]
      <4>1. next \in OpType /\ OpKnows(next) /\ next.step # "put"
        BY <1>3, <2>1, <3>1, <3>4 DEF NoOp, OpType, OpKnows
      <4> QED
        BY <1>4, <1>5, <1>7, <4>1, DecidingPreservesInvariant
    <3>5. CASE next = NoOp
      BY <1>4, <1>5, <1>7, <3>5, NothingDoing, DecidingPreservesInvariant
    <3>6. CASE ~changed /\ next = [NoOp EXCEPT !.path = file[1], !.content = file[2], !.id = d,
                                               !.step = "put", !.row = demos[d]]
      <4>1. next \in OpType /\ OpKnows(next) /\ next.id = d
        BY <1>3, <2>1, <3>1, <3>3, <3>6 DEF NoOp, OpType, OpKnows
      <4> QED
        BY <1>4, <1>5, <1>7, <2>1, <4>1, DecidingPreservesInvariant
    <3> QED
      BY <3>2, <3>4, <3>5, <3>6
  <2> QED
    BY <2>2, <2>3
<1> QED
  BY <1>2, <1>6, <1>7

\* A file that is found twice, and a file that is gone.
LEMMA CheckingPreservesInvariant ==
    ASSUME IndInv, NEW s \in Scanners, CheckCopy(s) \/ Sweep(s)
    PROVE  IndInv'
<1>1. op[s] \in OpType /\ OpKnows(op[s]) /\ pass \in [Scanners -> PassType]
  BY DEF IndInv, Typed, TypeOK, PassType
<1>2. CASE CheckCopy(s)
  <2>1. \E next \in {NoOp, [op[s] EXCEPT !.step = "recover"]} : op' = [op EXCEPT ![s] = next]
    BY <1>2 DEF CheckCopy
  <2>2. op[s].step = "copy" /\ UNCHANGED <<disk, changes, catalog, attempt, pass>>
    BY <1>2 DEF CheckCopy
  <2>3. LET next == [op[s] EXCEPT !.step = "recover"]
        IN  next \in OpType /\ OpKnows(next) /\ next.step # "put"
    BY <1>1, <2>2 DEF OpType, OpKnows
  <2> QED
    BY <1>1, <2>1, <2>2, <2>3, NothingDoing, DecidingPreservesInvariant
<1>3. CASE Sweep(s)
  <2>1. PICK entry \in pass[s].listed :
          /\ pass' = [pass EXCEPT ![s].listed = @ \ {entry}]
          /\ \/ op' = [op EXCEPT ![s] = [NoOp EXCEPT !.step = "mark", !.path = entry[2], !.id = entry[1]]]
             \/ op' = op
    BY <1>3 DEF Sweep
  <2>2. entry[1] \in Ids /\ entry[2] \in Paths
    BY <1>1 DEF PassType
  <2>3. pass' \in [Scanners -> PassType]
    <3>1. [pass[s] EXCEPT !.listed = @ \ {entry}] \in PassType
      BY <1>1 DEF PassType
    <3>2. pass' = [pass EXCEPT ![s] = [pass[s] EXCEPT !.listed = @ \ {entry}]]
      BY <2>1
    <3> QED
      BY <1>1, <3>1, <3>2
  <2>4. UNCHANGED <<disk, changes, catalog, attempt>>
    BY <1>3 DEF Sweep
  <2>5. LET next == [NoOp EXCEPT !.step = "mark", !.path = entry[2], !.id = entry[1]]
        IN  next \in OpType /\ OpKnows(next) /\ next.step # "put"
    BY <2>2 DEF NoOp, OpType, OpKnows
  <2>6. op = [op EXCEPT ![s] = op[s]]
    BY DEF IndInv, Typed
  <2>7. op[s].step # "put"
    BY <1>3 DEF Sweep, Applied
  <2> QED
    BY <1>1, <2>1, <2>3, <2>4, <2>5, <2>6, <2>7, DecidingPreservesInvariant
<1> QED
  BY <1>2, <1>3

----------------------------------------------------------------------------
(* Steps that write one row.                                               *)

\* One Demo changes, and every observation of it is outdated.
LEMMA RowStepPreservesInvariant ==
    ASSUME IndInv, UNCHANGED <<disk, changes, pass>>,
           NEW d \in Ids, NEW row \in RowType \cup {NoRow},
           NEW analysis \in Contents \cup {"none"}, NEW run \in Contents \cup {"none", "unbound"},
           demos' = [demos EXCEPT ![d] = row],
           analyses' = [analyses EXCEPT ![d] = analysis],
           attempt' = [attempt EXCEPT ![d] = run],
           overwritten' \in SUBSET Ids,
           \A e \in Ids \ {d} : e \in overwritten' <=> e \in overwritten,
           DemoInv(row, analysis, run, d \in overwritten'),
           issued' \in SUBSET Ids, issued \subseteq issued', row # NoRow => d \in issued',
           op' \in [Scanners -> OpType], \A s \in Scanners : OpKnows(op'[s]),
           PutsAreOfDemos'
    PROVE  IndInv'
<1>1. /\ demos \in [Ids -> RowType \cup {NoRow}]
      /\ analyses \in [Ids -> Contents \cup {"none"}]
      /\ attempt \in [Ids -> Contents \cup {"none", "unbound"}]
      /\ Rows \subseteq issued
  BY DEF IndInv, Typed, TypeOK, RowType, Statuses
<1>2. /\ demos' \in [Ids -> RowType \cup {NoRow}] /\ demos'[d] = row
      /\ analyses' \in [Ids -> Contents \cup {"none"}] /\ analyses'[d] = analysis
      /\ attempt' \in [Ids -> Contents \cup {"none", "unbound"}] /\ attempt'[d] = run
      /\ \A e \in Ids \ {d} :
            demos'[e] = demos[e] /\ analyses'[e] = analyses[e] /\ attempt'[e] = attempt[e]
  BY <1>1
<1>3. Rows' \subseteq issued'
  BY <1>1, <1>2 DEF Rows
<1>4. \A s \in Scanners : op'[s].step \in {"idle", "put", "replace", "claim", "copy",
                                          "recover", "invalidate", "mark"}
  BY DEF OpType
<1>5. TypeOK'
  BY <1>2, <1>3, <1>4 DEF IndInv, Typed, TypeOK, RowType, Statuses
<1>6. Typed'
  BY <1>5 DEF Typed
<1>7. \A e \in Ids : DemoInv(demos[e], analyses[e], attempt[e], e \in overwritten)
  BY EachDemo DEF IndInv
<1>8. \A e \in Ids : DemoInv(demos'[e], analyses'[e], attempt'[e], e \in overwritten')
  BY <1>2, <1>7 DEF DemoInv
<1> QED
  BY <1>6, <1>8, EachDemoNext

\* The scan that wrote the row is done with its file.
LEMMA ScanWritePreservesInvariant ==
    ASSUME IndInv, NEW s \in Scanners, UNCHANGED <<disk, changes, pass, attempt>>,
           NEW d \in Ids, NEW row \in RowType, NEW analysis \in Contents \cup {"none"},
           PutRow(d, row), EndOp(s, d),
           analyses' = [analyses EXCEPT ![d] = analysis],
           overwritten' \in SUBSET Ids,
           \A e \in Ids \ {d} : e \in overwritten' <=> e \in overwritten,
           DemoInv(row, analysis, attempt[d], d \in overwritten'),
           issued' \in SUBSET Ids, issued \subseteq issued', d \in issued'
    PROVE  IndInv'
<1>1. OthersGoOn
  BY EndedOps
<1>2. PutsAreOfDemos'
  BY <1>1 DEF OthersGoOn, IndInv, PutsAreOfDemos
<1>3. attempt[d] \in Contents \cup {"none", "unbound"} /\ attempt' = [attempt EXCEPT ![d] = attempt[d]]
  BY DEF IndInv, Typed, TypeOK
<1>4. demos' = [demos EXCEPT ![d] = row]
  BY DEF PutRow
<1> QED
  BY <1>1, <1>2, <1>3, <1>4, RowStepPreservesInvariant DEF OthersGoOn

\* A call of a scan that fails changes nothing.
LEMMA FailurePreservesInvariant ==
    ASSUME IndInv, NEW s \in Scanners, FailOp(s),
           UNCHANGED <<disk, changes, pass, attempt>>
    PROVE  IndInv'
<1>1. pass \in [Scanners -> PassType]
  BY DEF IndInv, Typed, TypeOK, PassType
<1> QED
  BY <1>1, NothingDoing, DecidingPreservesInvariant DEF FailOp

\* What the invariant says of a Demo and of the file a scan works on.
LEMMA DemoFacts ==
    ASSUME IndInv, NEW d \in Ids
    PROVE  /\ demos[d] \in RowType \cup {NoRow}
           /\ d \in Rows <=> demos[d] # NoRow
           /\ d \in Rows => demos[d] \in RowType /\ d \in issued
           /\ DemoInv(demos[d], analyses[d], attempt[d], d \in overwritten)
           /\ overwritten \in SUBSET Ids
           /\ analyses[d] \in Contents \cup {"none"}
           /\ analyses = [analyses EXCEPT ![d] = analyses[d]]
           /\ issued \in SUBSET Ids
           /\ attempt[d] \in Contents \cup {"none", "unbound"}
           /\ attempt = [attempt EXCEPT ![d] = attempt[d]]
<1>1. DemoInv(demos[d], analyses[d], attempt[d], d \in overwritten)
  BY EachDemo DEF IndInv
<1> QED
  BY <1>1 DEF IndInv, Typed, TypeOK, RowType, Statuses, Rows

\* put_demo writes what was true of the Demo when its row was read, which is true
\* of it now, or the Demo is excepted.
LEMMA PutPreservesInvariant ==
    ASSUME IndInv, NEW s \in Scanners, Put(s)
    PROVE  IndInv'
<1> DEFINE d == op[s].id
           read == op[s].row
           row == KeptRecord(s, op[s].path, op[s].content, read)
<1>1. /\ d \in Ids /\ d \in issued /\ read \in RowType
      /\ op[s].path \in Paths /\ op[s].content \in Contents
      /\ read.content \in {op[s].content, "none"}
      /\ UNCHANGED <<disk, changes, attempt, pass>>
  BY DEF IndInv, Typed, OpKnows, PutsAreOfDemos, Put
<1>2. /\ row \in RowType /\ row.content = op[s].content
      /\ row.status = IF read.status = "missing" THEN "discovered" ELSE read.status
  <2> HIDE DEF d, read
  <2> QED
    BY <1>1 DEF KeptRecord, Row, RowType, Statuses
<1>3. row # NoRow
  BY <1>1, <1>2, Names DEF NoRow
<1>4. CASE FailOp(s)
  BY <1>1, <1>4, FailurePreservesInvariant
<1>5. CASE ~FailOp(s)
  <2>1. /\ PutRow(d, row) /\ EndOp(s, d) /\ UNCHANGED <<issued, analyses>>
        /\ overwritten' = IF Outdated(d, read) THEN overwritten \cup {d} ELSE overwritten
    BY <1>5 DEF Put
  <2>2. /\ DemoInv(demos[d], analyses[d], attempt[d], d \in overwritten)
        /\ analyses[d] \in Contents \cup {"none"} /\ analyses = [analyses EXCEPT ![d] = analyses[d]]
        /\ attempt[d] \in Contents \cup {"none", "unbound"}
        /\ issued \in SUBSET Ids /\ overwritten \in SUBSET Ids
    BY <1>1, DemoFacts
  <2>3. /\ overwritten' \in SUBSET Ids
        /\ \A e \in Ids \ {d} : e \in overwritten' <=> e \in overwritten
    <3> HIDE DEF d, read
    <3> QED
      BY <1>1, <2>1, <2>2
  <2>4. ASSUME d \notin overwritten'
        PROVE  /\ d \notin overwritten
               /\ demos[d].status = read.status /\ demos[d].content = read.content
    <3> HIDE DEF d, read
    <3> QED
      BY <2>1, <2>4 DEF Outdated
  <2>5. read.status \in Statuses /\ NoRow.status = "none"
    BY <1>1 DEF RowType, NoRow
  <2> HIDE DEF d, read, row
  <2>6. analyses[d] # "none" => demos[d] # NoRow
    BY <2>2 DEF DemoInv
  <2>7. ASSUME d \notin overwritten'
        PROVE  /\ analyses[d] # "none" => row.content = analyses[d]
               /\ row.status = "ready" => analyses[d] # "none"
               /\ row.status = "analyzing" =>
                     attempt[d] # "none" /\ (attempt[d] \in Contents => row.content = attempt[d])
    <3>1. /\ analyses[d] # "none" => demos[d].content = analyses[d]
          /\ demos[d].status = "ready" => analyses[d] # "none"
          /\ demos[d].status = "analyzing" =>
                attempt[d] # "none" /\ (attempt[d] \in Contents => demos[d].content = attempt[d])
      BY <2>2, <2>4, <2>7 DEF DemoInv
    <3>2. read.content \in Contents => row.content = read.content
      BY <1>1, <1>2, Names
    <3>3. row.status \in {"ready", "analyzing"} => row.status = read.status
      BY <1>2
    <3> QED
      BY <2>2, <2>4, <2>7, <3>1, <3>2, <3>3
  <2>8. DemoInv(row, analyses[d], attempt[d], d \in overwritten')
    BY <1>2, <1>3, <2>6, <2>7 DEF DemoInv
  <2> QED
    BY <1>1, <1>2, <2>1, <2>2, <2>3, <2>8, ScanWritePreservesInvariant
<1> QED
  BY <1>4, <1>5

\* replace_demo_content writes a discovered Demo without an analysis.
LEMMA ReplacePreservesInvariant ==
    ASSUME IndInv, NEW s \in Scanners, Replace(s)
    PROVE  IndInv'
<1> DEFINE d == op[s].id
           row == NewRecord(s, op[s].path, op[s].content)
<1>1. /\ d \in Ids /\ op[s].path \in Paths /\ op[s].content \in Contents
      /\ UNCHANGED <<disk, changes, attempt, pass>>
  BY DEF IndInv, Typed, OpKnows, Replace
<1>2. row \in RowType /\ row.status = "discovered"
  <2> HIDE DEF d
  <2> QED
    BY <1>1 DEF NewRecord, Row, RowType, Statuses
<1>3. CASE FailOp(s)
  BY <1>1, <1>3, FailurePreservesInvariant
<1>4. CASE ~FailOp(s)
  <2>1. /\ PutRow(d, row) /\ EndOp(s, d) /\ analyses' = [analyses EXCEPT ![d] = "none"]
        /\ overwritten' = overwritten \ {d} /\ UNCHANGED issued /\ d \in Rows
    BY <1>4 DEF Replace
  <2>2. d \in issued /\ issued \in SUBSET Ids /\ overwritten \in SUBSET Ids
    BY <1>1, <2>1, DemoFacts
  <2> HIDE DEF d, row
  <2>3. DemoInv(row, "none", attempt[d], d \in overwritten')
    BY <1>1, <1>2 DEF DemoInv
  <2>4. overwritten' \in SUBSET Ids /\ \A e \in Ids \ {d} : e \in overwritten' <=> e \in overwritten
    BY <2>1, <2>2
  <2> QED
    BY <1>1, <1>2, <2>1, <2>2, <2>3, <2>4, ScanWritePreservesInvariant
<1> QED
  BY <1>3, <1>4

\* A row that moves keeps its content, and is ready only with an analysis.
LEMMA RelocatingPreservesInvariant ==
    ASSUME IndInv, NEW s \in Scanners, NEW d \in Rows,
           op[s].path \in Paths, Relocate(s, d), UNCHANGED <<disk, changes, attempt, pass>>
    PROVE  IndInv'
<1> DEFINE row == [demos[d] EXCEPT !.path = op[s].path, !.status = FoundStatus(d)]
<1>1. /\ d \in Ids /\ demos[d] \in RowType /\ d \in issued
      /\ DemoInv(demos[d], analyses[d], attempt[d], d \in overwritten) /\ overwritten \in SUBSET Ids
      /\ analyses[d] \in Contents \cup {"none"} /\ analyses = [analyses EXCEPT ![d] = analyses[d]]
      /\ issued \in SUBSET Ids
  BY DemoFacts DEF Rows
<1>2. FoundStatus(d) \in {"ready", "discovered"} /\ (FoundStatus(d) = "ready" => analyses[d] # "none")
  BY DEF FoundStatus
<1>3. /\ row \in RowType /\ row.content = demos[d].content
      /\ row.status = FoundStatus(d)
  BY <1>1, <1>2 DEF RowType, Statuses
<1>4. row # NoRow
  <2> HIDE DEF row
  <2> QED
    BY <1>2, <1>3 DEF NoRow
<1>5. DemoInv(row, analyses[d], attempt[d], d \in overwritten)
  <2> HIDE DEF row
  <2> QED
    BY <1>1, <1>2, <1>3, <1>4 DEF DemoInv
<1>6. CASE FailOp(s)
  BY <1>6, FailurePreservesInvariant
<1>7. CASE ~FailOp(s)
  <2>1. PutRow(d, row) /\ EndOp(s, d) /\ UNCHANGED <<issued, analyses, overwritten>>
    BY <1>7 DEF Relocate
  <2> HIDE DEF row
  <2> QED
    BY <1>1, <1>3, <1>5, <2>1, ScanWritePreservesInvariant
<1> QED
  BY <1>6, <1>7

\* put_content_addressed_demo makes a row, moves one, or looks at another file first.
LEMMA ClaimPreservesInvariant ==
    ASSUME IndInv, NEW s \in Scanners, Claim(s)
    PROVE  IndInv'
<1> DEFINE record == Row(op[s].path, op[s].content, "discovered", s = "watch")
<1>1. /\ op[s] \in OpType /\ OpKnows(op[s]) /\ op[s].step = "claim"
      /\ op[s].path \in Paths /\ op[s].content \in Contents
      /\ pass \in [Scanners -> PassType] /\ UNCHANGED <<disk, changes, attempt, pass>>
  BY DEF Claim, IndInv, Typed, TypeOK, PassType, OpKnows
<1>2. CASE FailOp(s)
  BY <1>1, <1>2, FailurePreservesInvariant
<1>3. ASSUME NEW d \in Ids \ issued, PutRow(d, record), issued' = issued \cup {d}, EndOp(s, d),
             UNCHANGED <<analyses, overwritten>>
      PROVE  IndInv'
  <2>1. record \in RowType /\ record.status = "discovered"
    BY <1>1 DEF Row, RowType, Statuses
  <2>2. record # NoRow
    BY <2>1 DEF NoRow
  <2>3. d \notin Rows
    BY <1>3, DemoFacts
  <2>4. analyses[d] = "none"
    BY <1>3, <2>3, DemoFacts DEF DemoInv
  <2>5. DemoInv(record, analyses[d], attempt[d], d \in overwritten)
    <3> HIDE DEF record
    <3> QED
      BY <2>1, <2>2, <2>4 DEF DemoInv
  <2>6. /\ issued' \in SUBSET Ids /\ issued \subseteq issued' /\ d \in issued' /\ overwritten \in SUBSET Ids
        /\ analyses[d] \in Contents \cup {"none"} /\ analyses = [analyses EXCEPT ![d] = analyses[d]]
    BY <1>3, DemoFacts
  <2> HIDE DEF record
  <2> QED
    BY <1>1, <1>3, <2>1, <2>5, <2>6, ScanWritePreservesInvariant
<1>4. ASSUME NEW d \in Rows, Relocate(s, d)
      PROVE  IndInv'
  BY <1>1, <1>4, RelocatingPreservesInvariant
<1>5. ASSUME NEW d \in Rows, UNCHANGED catalog,
             op' = [op EXCEPT ![s].step = "copy", ![s].id = d, ![s].row = demos[d]]
      PROVE  IndInv'
  <2> DEFINE next == [op[s] EXCEPT !.step = "copy", !.id = d, !.row = demos[d]]
  <2>1. d \in Ids /\ demos[d] \in RowType
    BY <1>5, DemoFacts DEF Rows
  <2>2. next \in OpType /\ OpKnows(next) /\ next.step # "put"
    BY <1>1, <2>1 DEF OpType, OpKnows
  <2>3. op' = [op EXCEPT ![s] = next]
    BY <1>5 DEF IndInv, Typed
  <2> HIDE DEF next
  <2> QED
    BY <1>1, <1>5, <2>2, <2>3, DecidingPreservesInvariant
<1> QED
  BY <1>2, <1>3, <1>4, <1>5 DEF Claim

\* recover_content_addressed_demo, invalidate_demo_content, set_demo_status.
LEMMA MaintenancePreservesInvariant ==
    ASSUME IndInv, NEW s \in Scanners, Recover(s) \/ Invalidate(s) \/ MarkMissing(s)
    PROVE  IndInv'
<1> DEFINE d == op[s].id
<1>1. /\ d \in Ids /\ UNCHANGED <<disk, changes, attempt, pass>>
      /\ op[s].step = "recover" => op[s].path \in Paths
  BY DEF Recover, Invalidate, MarkMissing, IndInv, Typed, OpKnows
<1>2. CASE FailOp(s)
  BY <1>1, <1>2, FailurePreservesInvariant
<1>3. CASE Recover(s) /\ ~FailOp(s)
  <2>1. d \in Rows /\ Relocate(s, d) /\ op[s].path \in Paths
    BY <1>1, <1>3 DEF Recover
  <2> QED
    BY <1>1, <2>1, RelocatingPreservesInvariant
<1>4. CASE Invalidate(s) /\ ~FailOp(s)
  <2> DEFINE row == [demos[d] EXCEPT !.content = "none", !.status = "failed"]
  <2>1. /\ d \in Rows /\ PutRow(d, row) /\ analyses' = [analyses EXCEPT ![d] = "none"]
        /\ overwritten' = overwritten \ {d} /\ EndOp(s, d) /\ UNCHANGED issued
    BY <1>4 DEF Invalidate
  <2>2. demos[d] \in RowType /\ d \in issued /\ issued \in SUBSET Ids /\ overwritten \in SUBSET Ids
    BY <1>1, <2>1, DemoFacts
  <2>3. row \in RowType /\ row.status = "failed"
    <3> HIDE DEF d
    <3> QED
      BY <2>2 DEF RowType, Statuses
  <2> HIDE DEF row, d
  <2>4. DemoInv(row, "none", attempt[d], d \in overwritten')
    BY <2>3 DEF DemoInv
  <2>5. overwritten' \in SUBSET Ids /\ \A e \in Ids \ {d} : e \in overwritten' <=> e \in overwritten
    BY <2>1, <2>2
  <2> QED
    BY <1>1, <2>1, <2>2, <2>3, <2>4, <2>5, ScanWritePreservesInvariant
<1>5. CASE MarkMissing(s) /\ d \in Rows
  <2> DEFINE row == [demos[d] EXCEPT !.status = "missing"]
  <2>1. PutRow(d, row) /\ EndOp(s, d) /\ UNCHANGED <<issued, analyses, overwritten>>
    BY <1>5 DEF MarkMissing
  <2>2. /\ demos[d] \in RowType /\ d \in issued /\ issued \in SUBSET Ids /\ overwritten \in SUBSET Ids
        /\ DemoInv(demos[d], analyses[d], attempt[d], d \in overwritten)
        /\ analyses[d] \in Contents \cup {"none"} /\ analyses = [analyses EXCEPT ![d] = analyses[d]]
    BY <1>1, <1>5, DemoFacts
  <2>3. row \in RowType /\ row.status = "missing" /\ row.content = demos[d].content
    <3> HIDE DEF d
    <3> QED
      BY <2>2 DEF RowType, Statuses
  <2>4. row # NoRow
    BY <2>3 DEF NoRow
  <2>5. DemoInv(row, analyses[d], attempt[d], d \in overwritten)
    <3> HIDE DEF row, d
    <3> QED
      BY <2>2, <2>3, <2>4 DEF DemoInv
  <2> HIDE DEF row, d
  <2> QED
    BY <1>1, <2>1, <2>2, <2>3, <2>5, ScanWritePreservesInvariant
<1>6. CASE MarkMissing(s) /\ d \notin Rows
  <2>1. UNCHANGED catalog /\ EndOp(s, d)
    BY <1>6 DEF MarkMissing, catalog
  <2>2. OthersGoOn
    BY <2>1, EndedOps
  <2>3. Typed'
    BY <1>1, <2>1, <2>2 DEF OthersGoOn, OpType, IndInv, Typed, TypeOK, Rows, catalog
  <2>4. PutsAreOfDemos'
    BY <2>1, <2>2 DEF OthersGoOn, IndInv, PutsAreOfDemos, catalog
  <2> QED
    BY <1>1, <2>1, <2>3, <2>4, IdleStepPreservesInvariant
<1> QED
  BY <1>2, <1>3, <1>4, <1>5, <1>6

\* A call that is not of a scan writes one row, and what scans observed of it is
\* no longer exact.
LEMMA WritePreservesInvariant ==
    ASSUME IndInv, UNCHANGED <<disk, changes, pass>>,
           NEW d \in Ids, NEW row \in RowType \cup {NoRow},
           NEW analysis \in Contents \cup {"none"}, NEW run \in Contents \cup {"none", "unbound"},
           demos' = [demos EXCEPT ![d] = row],
           analyses' = [analyses EXCEPT ![d] = analysis],
           attempt' = [attempt EXCEPT ![d] = run],
           overwritten' \in {overwritten, overwritten \ {d}},
           DemoInv(row, analysis, run, d \in overwritten'),
           issued' \in {issued, issued \cup {d}}, row # NoRow => d \in issued',
           op' \in {op, Touched(op, d)}
    PROVE  IndInv'
<1>1. issued \in SUBSET Ids /\ overwritten \in SUBSET Ids
  BY DemoFacts
<1>2. /\ op \in [Scanners -> OpType] /\ \A s \in Scanners : OpKnows(op[s])
      /\ Touched(op, d) \in [Scanners -> OpType]
      /\ \A s \in Scanners : /\ OpKnows(Touched(op, d)[s])
                             /\ Touched(op, d)[s].step = op[s].step
                             /\ Touched(op, d)[s].id = op[s].id
  BY TouchedOps DEF IndInv, Typed
<1>3. OthersGoOn
  <2>1. CASE op' = op
    BY <1>2, <2>1 DEF OthersGoOn
  <2>2. CASE op' = Touched(op, d)
    BY <1>2, <2>2 DEF OthersGoOn
  <2> QED
    BY <2>1, <2>2
<1>4. issued' \in SUBSET Ids /\ issued \subseteq issued'
  BY <1>1
<1>5. PutsAreOfDemos'
  BY <1>3, <1>4 DEF OthersGoOn, IndInv, PutsAreOfDemos
<1>6. overwritten' \in SUBSET Ids /\ \A e \in Ids \ {d} : e \in overwritten' <=> e \in overwritten
  BY <1>1
<1> QED
  BY <1>3, <1>4, <1>5, <1>6, RowStepPreservesInvariant DEF OthersGoOn

\* delete_demo and patch_demo.
LEMMA UserPreservesInvariant ==
    ASSUME IndInv, NEW d \in Ids, DeleteDemo(d) \/ PatchDemo(d)
    PROVE  IndInv'
<1>1. /\ d \in Rows
      /\ d \in issued
      /\ demos[d] \in RowType /\ DemoInv(demos[d], analyses[d], attempt[d], d \in overwritten)
      /\ demos = [demos EXCEPT ![d] = demos[d]]
      /\ analyses[d] \in Contents \cup {"none"} /\ analyses = [analyses EXCEPT ![d] = analyses[d]]
      /\ attempt[d] \in Contents \cup {"none", "unbound"} /\ attempt = [attempt EXCEPT ![d] = attempt[d]]
  BY DemoFacts DEF DeleteDemo, PatchDemo, IndInv, Typed, TypeOK
<1>2. CASE DeleteDemo(d)
  <2>1. DemoInv(NoRow, "none", "none", d \in overwritten')
    BY Names DEF DemoInv, NoRow
  <2> QED
    BY <1>1, <1>2, <2>1, WritePreservesInvariant DEF DeleteDemo, PutRow
<1>3. CASE PatchDemo(d)
  BY <1>1, <1>3, WritePreservesInvariant DEF PatchDemo, catalog
<1> QED
  BY <1>2, <1>3

\* A Demo's status changes with its run.
LEMMA AnalysingPreservesInvariant ==
    ASSUME IndInv, NEW d \in Ids, Analyse(d)
    PROVE  IndInv'
<1>1. /\ demos \in [Ids -> RowType \cup {NoRow}]
      /\ DemoInv(demos[d], analyses[d], attempt[d], d \in overwritten)
      /\ demos = [demos EXCEPT ![d] = demos[d]]
      /\ analyses[d] \in Contents \cup {"none"} /\ analyses = [analyses EXCEPT ![d] = analyses[d]]
      /\ attempt[d] \in Contents \cup {"none", "unbound"}
  BY DemoFacts DEF IndInv, Typed, TypeOK, RowType, Statuses
<1>0. issued' = issued
  BY DEF Analyse, StartAnalysis, BindAnalysis, PublishAnalysis, EndAnalysis, catalog
<1>2. (d \in Rows <=> demos[d] # NoRow) /\ (d \in Rows => d \in issued)
  BY DemoFacts
<1>3. ASSUME NEW status \in Statuses, d \in Rows
      PROVE  LET row == [demos[d] EXCEPT !.status = status]
             IN  /\ row \in RowType /\ row # NoRow
                 /\ row.content = demos[d].content /\ row.status = status
  <2>1. demos[d] \in RowType
    BY <1>3, DemoFacts
  <2>2. NoRow.status = "none"
    BY DEF NoRow
  <2> QED
    BY <2>1, <2>2 DEF RowType, Statuses
<1>4. demos[d].status = "analyzing" => d \in Rows
  BY <1>2 DEF NoRow
<1>5. CASE StartAnalysis(d)
  <2> DEFINE row == [demos[d] EXCEPT !.status = "analyzing"]
  <2>1. d \in Rows /\ analyses[d] = "none"
    BY <1>5 DEF StartAnalysis, MayStart
  <2>2. /\ row \in RowType /\ row # NoRow
        /\ row.content = demos[d].content /\ row.status = "analyzing"
    BY <1>3, <2>1 DEF Statuses
  <2>3. DemoInv(row, analyses[d], "unbound", d \in overwritten')
    <3> HIDE DEF row
    <3> QED
      BY <2>1, <2>2, Names DEF DemoInv
  <2>4. /\ demos' = [demos EXCEPT ![d] = row] /\ attempt' = [attempt EXCEPT ![d] = "unbound"]
        /\ op' = Touched(op, d) /\ UNCHANGED <<disk, changes, analyses, overwritten, pass>>
    BY <1>5 DEF StartAnalysis, SetStatus, PutRow
  <2> HIDE DEF row
  <2> QED
    BY <1>1, <2>1, <2>2, <2>3, <2>4, <1>0, <1>2, WritePreservesInvariant
<1>6. ASSUME NEW content \in Contents, BindAnalysis(d, content)
      PROVE  IndInv'
  <2>1. /\ attempt[d] = "unbound" /\ demos[d].content = content
        /\ attempt' = [attempt EXCEPT ![d] = content]
        /\ UNCHANGED <<disk, changes, demos, analyses, overwritten, pass, op>>
    BY <1>6 DEF BindAnalysis, catalog
  <2>2. d \in Rows
    BY <1>2, <2>1, <1>6, Names DEF NoRow
  <2>3. DemoInv(demos[d], analyses[d], content, d \in overwritten')
    BY <1>1, <1>6, <2>1, Names DEF DemoInv
  <2> QED
    BY <1>1, <1>6, <2>1, <2>2, <2>3, <1>0, <1>2, WritePreservesInvariant
<1>7. ASSUME NEW content \in Contents, PublishAnalysis(d, content)
      PROVE  IndInv'
  <2> DEFINE row == [demos[d] EXCEPT !.status = "ready"]
  <2>1. demos[d].status = "analyzing" /\ demos[d].content = content
    BY <1>7 DEF PublishAnalysis, MayPublish
  <2>2. /\ d \in Rows /\ row \in RowType /\ row # NoRow
        /\ row.content = content /\ row.status = "ready"
    BY <1>3, <1>4, <2>1 DEF Statuses
  <2>3. DemoInv(row, content, "none", d \in overwritten')
    <3> HIDE DEF row
    <3> QED
      BY <1>7, <2>2, Names DEF DemoInv
  <2>4. /\ demos' = [demos EXCEPT ![d] = row] /\ attempt' = [attempt EXCEPT ![d] = "none"]
        /\ analyses' = [analyses EXCEPT ![d] = content]
        /\ op' = Touched(op, d) /\ UNCHANGED <<disk, changes, overwritten, pass>>
    BY <1>7 DEF PublishAnalysis, SetStatus, PutRow
  <2> HIDE DEF row
  <2> QED
    BY <2>1, <2>2, <2>3, <2>4, <1>7, <1>0, <1>2, WritePreservesInvariant
<1>8. ASSUME NEW status \in {"failed", "discovered"}, EndAnalysis(d, status)
      PROVE  IndInv'
  <2>1. /\ attempt' = [attempt EXCEPT ![d] = "none"]
        /\ UNCHANGED <<disk, changes, analyses, pass>> /\ overwritten' = overwritten
    BY <1>8 DEF EndAnalysis
  <2>2. CASE demos[d].status = "analyzing"
    <3> DEFINE row == [demos[d] EXCEPT !.status = status]
    <3>1. /\ d \in Rows /\ row \in RowType /\ row # NoRow
          /\ row.content = demos[d].content /\ row.status = status
      BY <1>3, <1>4, <1>8, <2>2 DEF Statuses
    <3>2. DemoInv(row, analyses[d], "none", d \in overwritten')
      <4> HIDE DEF row
      <4> QED
        BY <1>1, <1>8, <2>1, <3>1, Names DEF DemoInv
    <3>3. demos' = [demos EXCEPT ![d] = row] /\ op' = Touched(op, d)
      BY <1>8, <2>2 DEF EndAnalysis, SetStatus, PutRow
    <3> HIDE DEF row
    <3> QED
      BY <1>1, <2>1, <3>1, <3>2, <3>3, <1>0, <1>2, WritePreservesInvariant
  <2>3. CASE demos[d].status # "analyzing"
    <3>1. UNCHANGED <<demos, op>>
      BY <1>8, <2>3 DEF EndAnalysis
    <3>2. DemoInv(demos[d], analyses[d], "none", d \in overwritten')
      BY <1>1, <2>1, <2>3, Names DEF DemoInv
    <3>3. demos[d] # NoRow => d \in issued'
      BY <1>0, <1>2
    <3> QED
      BY <1>1, <2>1, <3>1, <3>2, <3>3, <1>0, <1>2, WritePreservesInvariant
  <2> QED
    BY <2>2, <2>3
<1> QED
  BY <1>5, <1>6, <1>7, <1>8 DEF Analyse

\* The start of a process fails every Demo whose run it closes.
LEMMA RestartPreservesInvariant ==
    ASSUME IndInv, Restart
    PROVE  IndInv'
<1>1. \A d \in Ids : DemoInv(demos[d], analyses[d], attempt[d], d \in overwritten)
  BY EachDemo DEF IndInv
<1>2. /\ disk \in [Paths -> Contents \cup {"absent", "bad"}] /\ changes \in 0..MaxChanges
      /\ MaxChanges \in Nat /\ demos \in [Ids -> RowType \cup {NoRow}]
      /\ issued \subseteq Ids /\ Rows \subseteq issued /\ overwritten \subseteq Ids
      /\ analyses \in [Ids -> Contents \cup {"none"}]
  BY MaxChangesAssumption DEF IndInv, Typed, TypeOK, RowType, Statuses
<1>3. /\ changes' = changes + 1 /\ changes < MaxChanges
      /\ pass' = [s \in Scanners |-> NoPass] /\ op' = [s \in Scanners |-> NoOp]
      /\ attempt' = [d \in Ids |-> "none"]
      /\ demos' = [d \in Ids |-> IF demos[d].status = "analyzing"
                                THEN [demos[d] EXCEPT !.status = "failed"] ELSE demos[d]]
      /\ UNCHANGED <<disk, issued, analyses, overwritten>>
  BY DEF Restart
<1>4. ASSUME NEW d \in Ids
      PROVE  /\ demos'[d] \in RowType \cup {NoRow}
             /\ demos'[d] # NoRow <=> demos[d] # NoRow
             /\ DemoInv(demos'[d], analyses'[d], attempt'[d], d \in overwritten')
  <2>1. analyses'[d] = analyses[d] /\ attempt'[d] = "none" /\ overwritten' = overwritten
        /\ DemoInv(demos[d], analyses[d], attempt[d], d \in overwritten)
    BY <1>1, <1>3
  <2>2. CASE demos[d].status = "analyzing"
    <3> DEFINE row == [demos[d] EXCEPT !.status = "failed"]
    <3>1. demos'[d] = row
      BY <1>3, <2>2
    <3>2. demos[d] # NoRow
      BY <2>2 DEF NoRow
    <3>3. demos[d] \in RowType
      BY <2>1, <3>2 DEF DemoInv
    <3>4. /\ row \in RowType
          /\ row.status = "failed" /\ row.content = demos[d].content
      BY <3>3 DEF RowType, Statuses
    <3>5. row # NoRow
      BY <3>4 DEF NoRow
    <3>6. DemoInv(row, analyses[d], "none", d \in overwritten')
      <4> HIDE DEF row
      <4> QED
        BY <2>1, <3>4, <3>5, Names DEF DemoInv
    <3> HIDE DEF row
    <3> QED
      BY <2>1, <3>1, <3>2, <3>4, <3>5, <3>6
  <2>3. CASE demos[d].status # "analyzing"
    <3>1. demos'[d] = demos[d]
      BY <1>3, <2>3
    <3>2. DemoInv(demos[d], analyses[d], "none", d \in overwritten')
      BY <2>1, <2>3, Names DEF DemoInv
    <3> QED
      BY <1>2, <2>1, <3>1, <3>2
  <2> QED
    BY <2>2, <2>3
<1>5. Rows' \subseteq issued'
  BY <1>2, <1>3, <1>4 DEF Rows
<1>6. demos' \in [Ids -> RowType \cup {NoRow}]
  <2>1. \A d \in Ids : demos'[d] \in RowType \cup {NoRow}
    BY <1>4
  <2>2. DOMAIN demos' = Ids /\ demos' = [d \in Ids |-> demos'[d]]
    BY <1>3
  <2> QED
    BY <2>1, <2>2
<1>7. pass' \in [Scanners -> PassType] /\ op' \in [Scanners -> OpType]
      /\ \A s \in Scanners : op'[s] = NoOp
  BY <1>3, NothingDoing DEF PassType, NoPass
<1>8. TypeOK'
  <2>1. changes' \in 0..MaxChanges
    BY <1>2, <1>3
  <2>2. /\ disk' \in [Paths -> Contents \cup {"absent", "bad"}]
        /\ issued' \subseteq Ids
        /\ analyses' \in [Ids -> Contents \cup {"none"}] /\ overwritten' \subseteq Ids
        /\ attempt' \in [Ids -> Contents \cup {"none", "unbound"}]
    BY <1>2, <1>3
  <2>3. \A s \in Scanners : op'[s].step = "idle"
    BY <1>7, NothingDoing
  <2> QED
    BY <1>5, <1>6, <1>7, <2>1, <2>2, <2>3 DEF TypeOK, PassType, RowType, Statuses
<1>9. Typed' /\ PutsAreOfDemos'
  BY <1>7, <1>8, NothingDoing DEF Typed, PutsAreOfDemos
<1> QED
  BY <1>4, <1>9, EachDemoNext

----------------------------------------------------------------------------
(* The invariant.                                                          *)

\* Every call of a scan.
LEMMA ScanPreservesInvariant ==
    ASSUME IndInv, NEW s \in Scanners, Scan(s)
    PROVE  IndInv'
<1>1. CASE BeginPass(s) \/ (\E p \in Paths : ReadFile(s, p)) \/ EndPass(s)
  BY <1>1, ReadingPreservesInvariant
<1>2. CASE LookUp(s)
  BY <1>2, LookUpPreservesInvariant
<1>3. CASE Put(s) \/ Replace(s)
  BY <1>3, PutPreservesInvariant, ReplacePreservesInvariant
<1>4. CASE Claim(s)
  BY <1>4, ClaimPreservesInvariant
<1>5. CASE CheckCopy(s) \/ Sweep(s)
  BY <1>5, CheckingPreservesInvariant
<1>6. CASE Recover(s) \/ Invalidate(s) \/ MarkMissing(s)
  BY <1>6, MaintenancePreservesInvariant
<1> QED
  BY <1>1, <1>2, <1>3, <1>4, <1>5, <1>6 DEF Scan

\* Every step of the files, the scans, the user and the analyses.
LEMMA StepPreservesInvariant ==
    ASSUME IndInv, [Next]_vars
    PROVE  IndInv'
<1>1. ASSUME NEW s \in Scanners, Scan(s)
      PROVE  IndInv'
  BY <1>1, ScanPreservesInvariant
<1>2. ASSUME NEW d \in Ids, DeleteDemo(d) \/ PatchDemo(d) \/ Analyse(d)
      PROVE  IndInv'
  BY <1>2, UserPreservesInvariant, AnalysingPreservesInvariant
<1>3. CASE UNCHANGED vars
  <2>1. Typed' /\ PutsAreOfDemos'
    BY <1>3 DEF vars, catalog, IndInv, Typed, TypeOK, Rows, PutsAreOfDemos
  <2> QED
    BY <1>3, <2>1, IdleStepPreservesInvariant DEF vars
<1> QED
  BY <1>1, <1>2, <1>3, FilesPreserveInvariant, RestartPreservesInvariant DEF Next

\* The inductive invariant of the catalog.
THEOREM CatalogInvariant == Spec => []IndInv
<1>1. IndInv /\ [Next]_vars => IndInv'
  BY StepPreservesInvariant
<1> QED
  BY <1>1, InitEstablishesInvariant, PTL DEF Spec

\* Rows, analyses and runs of the catalog keep their types, and a row never has
\* an id that was not given out.
THEOREM CatalogIsTyped == Spec => []TypeOK
<1>1. IndInv => TypeOK
  BY DEF IndInv, Typed
<1> QED
  BY <1>1, CatalogInvariant, PTL

\* Whatever becomes of the files while the watcher and imports work on what they
\* read before, an analysis is of the content its Demo has, unless a scan put a
\* row it had read before the Demo changed: replace_demo_content and
\* invalidate_demo_content delete it in the transaction that changes the content.
THEOREM AnalysesFollowContent == Spec => []AnalysesMatchTheirDemo
<1>1. IndInv => AnalysesMatchTheirDemo
  BY DEF IndInv
<1> QED
  BY <1>1, CatalogInvariant, PTL

\* A ready Demo has an analysis, with the same exception: a file that returns is
\* ready only when the analysis is still there, and a put of a ready row finds it
\* still ready.
THEOREM ReadyDemosAreAnalysed == Spec => []ReadyMeansAnalysed
<1>1. IndInv => ReadyMeansAnalysed
  BY DEF IndInv
<1> QED
  BY <1>1, CatalogInvariant, PTL

\* A Demo that is analyzing has an active run, with the same exception, also after
\* a restart and when an analyzing row is put again, and a run
\* bound to content that was replaced finds its Demo not analyzing, which
\* complete_analysis_run refuses.
THEOREM AnalyzingDemosAreRun == Spec => []AnalyzingDemosHaveARun
<1>1. IndInv => AnalyzingDemosHaveARun
  BY DEF IndInv
<1> QED
  BY <1>1, CatalogInvariant, PTL
============================================================================
