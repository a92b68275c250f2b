--------------------- MODULE TakeMaterializationProofs ---------------------
(***************************************************************************)
(* Proofs about Take attachment, for every number of runs, clips, turns,   *)
(* edits, restarts and storage errors.  What is known of the Head and of   *)
(* documents comes from ProjectHeadProofs and EditingDocumentProofs.       *)
(***************************************************************************)
EXTENDS TakeMaterialization, ProjectHeadProofs

----------------------------------------------------------------------------
(* FlattenSeq, which is a recursive function: it exists, and it is the     *)
(* only one, by induction.                                                 *)

\* The first n sequences, joined.
IsJoin(f, ss, n) == f = [i \in 1..n |-> IF i = 1 THEN ss[i] ELSE f[i - 1] \o ss[i]]

\* The joined sequences exist, up to any of them.
LEMMA JoinExists ==
    ASSUME NEW ss, NEW m \in Nat
    PROVE  \E f : IsJoin(f, ss, m)
<1> DEFINE S == {n \in 0..m : \E f : IsJoin(f, ss, n)}
<1>1. 0 \in S
  <2> DEFINE g == [i \in 1..0 |-> <<>>]
  <2>1. IsJoin(g, ss, 0)
    BY DEF IsJoin
  <2> QED
    BY <2>1
<1>2. ASSUME NEW n \in 0..m, n \in S, n < m PROVE n + 1 \in S
  <2>1. PICK f : IsJoin(f, ss, n)
    BY <1>2
  <2> DEFINE g == [i \in 1..n + 1 |->
                      IF i = n + 1 THEN IF i = 1 THEN ss[i] ELSE f[n] \o ss[i] ELSE f[i]]
  <2>2. ASSUME NEW i \in 1..n + 1
        PROVE  g[i] = IF i = 1 THEN ss[i] ELSE g[i - 1] \o ss[i]
    <3>1. CASE i = n + 1
      <4>1. i # 1 => i - 1 = n /\ n \in 1..n + 1 /\ n # n + 1
        BY <3>1
      <4> QED
        BY <3>1, <4>1
    <3>2. CASE i # n + 1
      <4>1. i \in 1..n
        BY <3>2
      <4>2. g[i] = IF i = 1 THEN ss[i] ELSE f[i - 1] \o ss[i]
        BY <2>1, <3>2, <4>1 DEF IsJoin
      <4>3. i # 1 => i - 1 \in 1..n + 1 /\ i - 1 # n + 1
        BY <4>1
      <4> QED
        BY <4>2, <4>3
    <3> QED
      BY <3>1, <3>2
  <2>3. IsJoin(g, ss, n + 1)
    <3>1. g = [i \in 1..n + 1 |-> g[i]]
      OBVIOUS
    <3> HIDE DEF g
    <3> QED
      BY <2>2, <3>1 DEF IsJoin
  <2> QED
    BY <1>2, <2>3
<1>3. 0..m \subseteq S
  <2> HIDE DEF S
  <2> QED
    BY <1>1, <1>2, UpToEach
<1> QED
  BY <1>3

\* What is joined keeps its type: FlattenSeq invents nothing.
LEMMA FlattenedType ==
    ASSUME NEW X, NEW ss \in Seq(Seq(X))
    PROVE  FlattenSeq(ss) \in Seq(X)
<1> DEFINE n == Len(ss)
<1>0. n \in Nat /\ \A i \in 1..n : ss[i] \in Seq(X)
  BY LenProperties, ElementOfSeq
<1>1. CASE n = 0
  <2>1. ss = <<>> /\ FlattenSeq(ss) = ss
    BY <1>1, EmptySeq DEF FlattenSeq
  <2>2. <<>> \in Seq(X)
    BY EmptySeq
  <2> QED
    BY <2>1, <2>2, Zenon
<1>2. CASE n # 0
  <2> DEFINE g == CHOOSE f : IsJoin(f, ss, n)
  <2>1. IsJoin(g, ss, n)
    BY <1>0, JoinExists, Zenon
  <2>2. FlattenSeq(ss) = g[n]
    BY <1>2 DEF FlattenSeq, IsJoin
  <2> HIDE DEF g
  <2>3. \A i \in 1..n : g[i] = IF i = 1 THEN ss[i] ELSE g[i - 1] \o ss[i]
    BY <2>1 DEF IsJoin
  <2> DEFINE S == {k \in 0..n : k # 0 => g[k] \in Seq(X)}
  <2>4. 0 \in S
    BY <1>0
  <2>5. ASSUME NEW k \in 0..n, k \in S, k < n PROVE k + 1 \in S
    <3>1. k + 1 \in 1..n /\ (k + 1) - 1 = k /\ (k + 1 = 1 <=> k = 0) /\ k + 1 \in 0..n
      BY <1>0, <2>5
    <3>2. CASE k = 0
      BY <1>0, <2>3, <3>1, <3>2
    <3>3. CASE k # 0
      <4>1. g[k] \in Seq(X) /\ ss[k + 1] \in Seq(X)
        BY <1>0, <2>5, <3>1, <3>3
      <4>2. g[k + 1] = g[k] \o ss[k + 1]
        BY <2>3, <3>1, <3>3
      <4>3. g[k + 1] \in Seq(X)
        BY <4>1, <4>2, ConcatProperties
      <4> QED
        BY <3>1, <4>3
    <3> QED
      BY <3>2, <3>3
  <2>6. 0..n \subseteq S
    <3> HIDE DEF S
    <3> QED
      BY <1>0, <2>4, <2>5, UpToEach
  <2>7. n \in S
    BY <1>0, <2>6
  <2> QED
    BY <1>2, <2>2, <2>7
<1> QED
  BY <1>1, <1>2

\* The clips of a timeline are those of its tracks.
LEMMA TimelineOfDocument ==
    ASSUME NEW T, NEW C, NEW d \in Document(T, C)
    PROVE  Timeline(d) \in Seq(ClipsOf(d))
<1> DEFINE ss == [i \in DOMAIN d.tracks |-> d.tracks[i].clips]
<1>1. Len(d.tracks) \in Nat /\ DOMAIN d.tracks = 1..Len(d.tracks)
  BY TracksOfDocument
<1>2. ASSUME NEW i \in DOMAIN d.tracks PROVE d.tracks[i].clips \in Seq(ClipsOf(d))
  <2> DEFINE clips == d.tracks[i].clips
  <2>1. clips \in Seq(Clip(C)) /\ Len(clips) \in Nat
    BY TracksOfDocument, ClipsOfTrack
  <2>2. ASSUME NEW k \in 1..Len(clips) PROVE clips[k] \in ClipsOf(d)
    <3>1. clips[k] \in ToSet(clips)
      BY <2>1 DEF ToSet
    <3> QED
      BY <3>1 DEF ClipsOf
  <2> HIDE DEF clips
  <2>3. clips \in [1..Len(clips) -> ClipsOf(d)]
    BY <2>1, <2>2
  <2>4. clips \in Seq(ClipsOf(d))
    BY <2>1, <2>3, MadeSequence
  <2> QED
    BY <2>4 DEF clips
<1>3. ss \in Seq(Seq(ClipsOf(d)))
  BY <1>1, <1>2, MadeSequence
<1> QED
  BY <1>3, FlattenedType DEF Timeline
----------------------------------------------------------------------------
(* What an attachment does to a document.                                  *)

CONSTANT Intents   \* Capture Intents

\* What a clip shows: its intent, and one of these Takes or none.
Showing(S) == [intent : Intents, take : {NoTake} \cup S]

\* The documents agree in everything but Takes.
Retaken(d, e) ==
    /\ e.name = d.name /\ e.settings = d.settings /\ e.markers = d.markers
    /\ DOMAIN e.tracks = DOMAIN d.tracks
    /\ \A i \in DOMAIN d.tracks :
          /\ e.tracks[i].id = d.tracks[i].id
          /\ e.tracks[i].kind = d.tracks[i].kind
          /\ DOMAIN e.tracks[i].clips = DOMAIN d.tracks[i].clips
          /\ \A k \in DOMAIN d.tracks[i].clips :
                /\ e.tracks[i].clips[k].id = d.tracks[i].clips[k].id
                /\ e.tracks[i].clips[k].content.intent = d.tracks[i].clips[k].content.intent

\* For documents of the right type that is what the property says.
LEMMA RetakenMeans ==
    ASSUME NEW T, NEW S, NEW d \in Document(T, Showing(S)), NEW e \in Document(T, Showing(S)),
           Retaken(d, e)
    PROVE  OnlyTakesDiffer(d, e)
<1>1. /\ \A i \in DOMAIN d.tracks : d.tracks[i] \in Track(T, Showing(S))
      /\ \A i \in DOMAIN e.tracks : e.tracks[i] \in Track(T, Showing(S))
      /\ DOMAIN e.tracks = DOMAIN d.tracks
  BY TracksOfDocument DEF Retaken
<1>2. [e EXCEPT !.tracks = d.tracks] = d
  BY DEF Document, Retaken
<1>3. ASSUME NEW i \in DOMAIN d.tracks
      PROVE  [e.tracks[i] EXCEPT !.clips = d.tracks[i].clips] = d.tracks[i]
  <2>1. d.tracks[i] \in Track(T, Showing(S)) /\ e.tracks[i] \in Track(T, Showing(S))
    BY <1>1
  <2>2. e.tracks[i].id = d.tracks[i].id /\ e.tracks[i].kind = d.tracks[i].kind
    BY DEF Retaken
  <2> QED
    BY <2>1, <2>2 DEF Track
<1>4. ASSUME NEW i \in DOMAIN d.tracks, NEW k \in DOMAIN d.tracks[i].clips
      PROVE  e.tracks[i].clips[k] =
                 [d.tracks[i].clips[k] EXCEPT !.content.take = e.tracks[i].clips[k].content.take]
  <2>1. d.tracks[i] \in Track(T, Showing(S)) /\ e.tracks[i] \in Track(T, Showing(S))
    BY <1>1
  <2>2. DOMAIN e.tracks[i].clips = DOMAIN d.tracks[i].clips
    BY DEF Retaken
  <2>3. d.tracks[i].clips[k] \in Clip(Showing(S)) /\ e.tracks[i].clips[k] \in Clip(Showing(S))
    BY <2>1, <2>2, ClipsOfTrack
  <2>4. /\ e.tracks[i].clips[k].id = d.tracks[i].clips[k].id
        /\ e.tracks[i].clips[k].content.intent = d.tracks[i].clips[k].content.intent
    BY DEF Retaken
  <2> QED
    BY <2>3, <2>4 DEF Clip, Showing
<1>5. \A i \in DOMAIN d.tracks : DOMAIN e.tracks[i].clips = DOMAIN d.tracks[i].clips
  BY DEF Retaken
<1> QED
  BY <1>1, <1>2, <1>3, <1>4, <1>5 DEF OnlyTakesDiffer

\* An operation that gives a clip of the document another Take.
Retake(d, o) ==
    \E x \in ClipsOf(d) : \E t :
        o = [op |-> "replace_clip", clip_id |-> x.id, clip |-> [x EXCEPT !.content.take = t]]

\* The identities of a document whose Takes differ are as unique as before.
LEMMA RetakenUnique ==
    ASSUME NEW d, NEW e, Retaken(d, e), Unique(d)
    PROVE  Unique(e)
<1>1. UniqueTracks(e)
  BY DEF Retaken, Unique, UniqueTracks
<1>2. UniqueClips(e)
  BY DEF Retaken, Unique, UniqueClips
<1> QED
  BY <1>1, <1>2 DEF Unique

\* A clip of a document is somewhere on its tracks.
LEMMA ClipIsPlaced ==
    ASSUME NEW d, NEW x \in ClipsOf(d)
    PROVE  \E i \in DOMAIN d.tracks : \E k \in DOMAIN d.tracks[i].clips : d.tracks[i].clips[k] = x
BY DEF ClipsOf, ToSet

\* Such an operation finds the clip at its place and changes its Take.
LEMMA RetakeStep ==
    ASSUME NEW T, NEW S, NEW d \in Document(T, Showing(S)), NEW e \in Document(T, Showing(S)),
           Unique(d), Retaken(d, e), NEW o \in ReplaceClipOps(Showing(S)), Retake(d, o),
           NEW r, r = ApplyOperation(e, o), r.outcome = "applied"
    PROVE  Retaken(d, r.doc)
<1>b. PICK x \in ClipsOf(d) :
        \E t : o = [op |-> "replace_clip", clip_id |-> x.id,
                    clip |-> [x EXCEPT !.content.take = t]]
  BY DEF Retake
<1>1. PICK t : o = [op |-> "replace_clip", clip_id |-> x.id,
                    clip |-> [x EXCEPT !.content.take = t]]
  BY <1>b
<1>a. PICK i \in DOMAIN d.tracks : \E k \in DOMAIN d.tracks[i].clips : d.tracks[i].clips[k] = x
  BY ClipIsPlaced
<1>2. PICK k \in DOMAIN d.tracks[i].clips : d.tracks[i].clips[k] = x
  BY <1>a
<1>3. d.tracks[i] \in Track(T, Showing(S)) /\ x \in Clip(Showing(S))
  BY <1>2, TracksOfDocument, ClipsOfTrack
<1>4. o.op = "replace_clip" /\ o.clip_id = x.id /\ o.clip.id = x.id
      /\ o.clip.content.intent = x.content.intent /\ o.clip \in Clip(Showing(S))
  <2>1. o.clip \in Clip(Showing(S)) /\ o.op = "replace_clip"
    BY DEF ReplaceClipOps
  <2> QED
    BY <1>1, <1>3, <2>1 DEF Clip, Showing
<1> DEFINE before == e.tracks[i].clips
           l == [found |-> TRUE, track |-> i, at |-> k]
           s == [before EXCEPT ![k] = o.clip]
           u == WithClips(e, i, s)
<1>5. i \in DOMAIN e.tracks /\ k \in DOMAIN before /\ DOMAIN before = DOMAIN d.tracks[i].clips
      /\ before[k].id = x.id /\ e.tracks[i] \in Track(T, Showing(S))
  BY <1>2, TracksOfDocument DEF Retaken
<1>6. before \in Seq(Clip(Showing(S))) /\ Len(before) \in Nat /\ DOMAIN before = 1..Len(before)
  BY <1>5, ClipsOfTrack
<1>7. ClipLocation(e, o.clip_id) = l
  <2>1. Unique(e)
    BY RetakenUnique
  <2>2. ClipLocation(e, e.tracks[i].clips[k].id) = l
    BY <1>5, <2>1, OnlyClip DEF Unique
  <2> QED
    BY <1>4, <1>5, <2>2
<1>8. r = ReplaceClip(e, o, l)
  BY <1>4, <1>7, Dispatch
<1>9. r.doc = u
  <2>1. ~OutOfBounds(e, l)
    BY <1>5, <1>6 DEF OutOfBounds
  <2>2. r.doc = [e EXCEPT !.tracks[i].clips[k] = o.clip]
    BY <1>4, <1>8, <2>1, Accepted DEF ReplaceClip
  <2>3. [e EXCEPT !.tracks[i].clips[k] = o.clip] = u
    BY DEF WithClips
  <2> QED
    BY <2>2, <2>3, Zenon
<1> HIDE DEF l
<1>10. /\ s \in Seq(Clip(Showing(S))) /\ DOMAIN s = DOMAIN before /\ s[k] = o.clip
       /\ \A j \in DOMAIN before \ {k} : s[j] = before[j]
  <2>1. /\ s \in Seq(Clip(Showing(S))) /\ Len(s) = Len(before) /\ s[k] = o.clip
    BY <1>4, <1>5, <1>6, ExceptSeq
  <2>2. DOMAIN s = DOMAIN before /\ \A j \in DOMAIN before \ {k} : s[j] = before[j]
    OBVIOUS
  <2> QED
    BY <2>1, <2>2
<1> HIDE DEF s
<1>11. /\ u.name = e.name /\ u.settings = e.settings /\ u.markers = e.markers
       /\ DOMAIN u.tracks = DOMAIN e.tracks
       /\ \A j \in DOMAIN e.tracks : u.tracks[j].id = e.tracks[j].id
       /\ \A j \in DOMAIN e.tracks : u.tracks[j].kind = e.tracks[j].kind
       /\ u.tracks[i].clips = s
       /\ \A j \in DOMAIN e.tracks \ {i} : u.tracks[j] = e.tracks[j]
  BY <1>5, <1>10, OtherClips
<1> HIDE DEF u, before
<1>12. ASSUME NEW j \in DOMAIN d.tracks
       PROVE  /\ DOMAIN u.tracks[j].clips = DOMAIN d.tracks[j].clips
              /\ \A n \in DOMAIN d.tracks[j].clips :
                    /\ u.tracks[j].clips[n].id = d.tracks[j].clips[n].id
                    /\ u.tracks[j].clips[n].content.intent = d.tracks[j].clips[n].content.intent
  <2>1. CASE j = i
    <3>1. \A n \in DOMAIN before : before[n].id = d.tracks[i].clips[n].id
                                   /\ before[n].content.intent = d.tracks[i].clips[n].content.intent
      BY <1>5 DEF Retaken, before
    <3> QED
      BY <1>2, <1>4, <1>5, <1>10, <1>11, <2>1, <3>1
  <2>2. CASE j # i
    <3>1. u.tracks[j] = e.tracks[j]
      BY <1>11, <2>2 DEF Retaken
    <3> QED
      BY <3>1 DEF Retaken
  <2> QED
    BY <2>1, <2>2
<1>13. Retaken(d, u)
  <2>1. /\ u.name = d.name /\ u.settings = d.settings /\ u.markers = d.markers
        /\ DOMAIN u.tracks = DOMAIN d.tracks
        /\ \A j \in DOMAIN d.tracks : u.tracks[j].id = d.tracks[j].id /\ u.tracks[j].kind = d.tracks[j].kind
    BY <1>11 DEF Retaken
  <2> QED
    BY <1>12, <2>1 DEF Retaken
<1> QED
  BY <1>9, <1>13

\* So does a patch that consists of such operations.
LEMMA RetakePatch ==
    ASSUME NEW T, NEW S, NEW d \in Document(T, Showing(S)), Unique(d),
           NEW ops \in Seq(ReplaceClipOps(Showing(S))), \A k \in 1..Len(ops) : Retake(d, ops[k]),
           NEW s, s = Stage(d, ops), s.outcome = "applied"
    PROVE  Retaken(d, s.doc)
<1>1. PICK f : Steps(f, d, ops, Len(ops)) /\ f[Len(ops)] = Stage(d, ops)
  BY StagesOfPatch
<1>0. Len(ops) \in Nat /\ \A k \in 1..Len(ops) : ops[k] \in ReplaceClipOps(Showing(S))
  BY LenProperties, ElementOfSeq
<1>2. AppliedSteps(f, d, ops, Len(ops))
  BY <1>0, <1>1, AllApplied
<1>3. \A k \in 0..Len(ops) : f[k].doc \in Document(T, Showing(S))
  <2>1. ReplaceClipOps(Showing(S)) \subseteq Operation(T, Showing(S))
    BY DEF Operation
  <2>2. ops \in Seq(Operation(T, Showing(S)))
    BY <2>1, SeqMonotonic
  <2> QED
    BY <1>2, <2>2, StageTypes
<1> DEFINE A == {k \in 0..Len(ops) : Retaken(d, f[k].doc)}
<1>4. 0 \in A
  <2>1. f[0].doc = d
    BY <1>2, Accepted DEF AppliedSteps
  <2> QED
    BY <1>0, <2>1 DEF Retaken
<1>5. ASSUME NEW k \in 0..Len(ops), k \in A, k < Len(ops) PROVE k + 1 \in A
  <2> DEFINE r == ApplyOperation(f[k].doc, ops[k + 1])
  <2>1. k + 1 \in 1..Len(ops) /\ (k + 1) - 1 = k /\ k + 1 \in 0..Len(ops)
    BY <1>0, <1>5
  <2>a. r.outcome = "applied" /\ f[k + 1] = Accept(r.doc, <<r.inverse>> \o f[k].inverse)
    BY <1>2, <2>1 DEF AppliedSteps
  <2> HIDE DEF r
  <2>2. r.outcome = "applied" /\ f[k + 1].doc = r.doc
    BY <2>a, Accepted
  <2>3. Retaken(d, r.doc)
    <3>1. /\ f[k].doc \in Document(T, Showing(S)) /\ Retaken(d, f[k].doc)
          /\ ops[k + 1] \in ReplaceClipOps(Showing(S)) /\ Retake(d, ops[k + 1])
      BY <1>0, <1>3, <1>5, <2>1
    <3> QED
      BY <2>2, <3>1, RetakeStep DEF r
  <2> QED
    BY <2>1, <2>2, <2>3
<1>6. 0..Len(ops) \subseteq A
  <2> HIDE DEF A
  <2> QED
    BY <1>0, <1>4, <1>5, UpToEach
<1>7. Len(ops) \in A
  BY <1>0, <1>6
<1> QED
  BY <1>1, <1>7
----------------------------------------------------------------------------
(* The operations of an attachment.                                        *)

Replaceable(r) == {x \in ClipsOf(heads[view[r].base]) : x.id \in view[r].outputs}
Replacing(clip, r) ==
    [op |-> "replace_clip", clip_id |-> clip.id, clip |-> WithRecordedTake(clip, r)]
Replacements(r) == {Replacing(clip, r) : clip \in Replaceable(r)}

\* An attachment replaces clips that the owner has read, and nothing else.
LEMMA AttachmentOperations ==
    ASSUME NEW T, NEW C, NEW r, heads[view[r].base] \in Document(T, C)
    PROVE  Attachment(r) \in Seq(Replacements(r))
<1> DEFINE d == heads[view[r].base]
           clips == Timeline(d)
           ss == [k \in DOMAIN clips |->
                     IF clips[k].id \in view[r].outputs THEN <<Replacing(clips[k], r)>> ELSE <<>>]
<1>1. clips \in Seq(ClipsOf(d))
  BY TimelineOfDocument
<1>2. Attachment(r) = FlattenSeq(ss)
  BY DEF Attachment, Replacing
<1> HIDE DEF clips
<1>3. Len(clips) \in Nat /\ DOMAIN clips = 1..Len(clips) /\ \A k \in 1..Len(clips) : clips[k] \in ClipsOf(d)
  BY <1>1, LenProperties, ElementOfSeq
<1>4. ASSUME NEW k \in DOMAIN clips PROVE ss[k] \in Seq(Replacements(r))
  <2>1. CASE clips[k].id \in view[r].outputs
    <3>1. Replacing(clips[k], r) \in Replacements(r)
      BY <1>3, <2>1 DEF Replacements, Replaceable
    <3> QED
      BY <2>1, <3>1
  <2>2. CASE clips[k].id \notin view[r].outputs
    BY <2>2
  <2> QED
    BY <2>1, <2>2
<1>5. ss \in Seq(Seq(Replacements(r)))
  BY <1>3, <1>4, MadeSequence
<1> QED
  BY <1>2, <1>5, FlattenedType

\* Storage gives new identities to what is inserted; an attachment inserts nothing.
LEMMA AllocatedAttachment ==
    ASSUME NEW r, NEW ops \in Seq(Replacements(r)), NEW n
    PROVE  Allocate(ops, n) = ops
<1>1. ASSUME NEW i \in DOMAIN ops PROVE ops[i].op = "replace_clip"
  <2>1. ops[i] \in Replacements(r)
    BY LenProperties, ElementOfSeq
  <2> QED
    BY <2>1 DEF Replacements, Replacing
<1>2. Allocate(ops, n) = [i \in DOMAIN ops |-> ops[i]]
  BY <1>1 DEF Allocate
<1>3. ops = [i \in DOMAIN ops |-> ops[i]]
  OBVIOUS
<1> QED
  BY <1>2, <1>3, Zenon

----------------------------------------------------------------------------
(* The inductive invariant.                                                *)

Started(r) == runs[r].status \in {"running", "ended"}
Selected(r) == owner[r] \in {"attach", "commit"}

Shapes ==
    /\ DOMAIN runs = Runs /\ DOMAIN view = Runs
    /\ \A r \in Runs :
          /\ runs[r] = [status |-> runs[r].status, items |-> runs[r].items,
                        outputs |-> runs[r].outputs]
          /\ view[r] = [ended |-> view[r].ended, outputs |-> view[r].outputs,
                        base |-> view[r].base]

\* A run has a place from the moment it is started, and an owner or outputs only then.
RunsHavePlaces ==
    /\ bound \in Seq(Runs)
    /\ \A i, k \in 1..Len(bound) : bound[i] = bound[k] => i = k
    /\ \A r \in Runs :
          /\ Started(r) <=> \E i \in 1..Len(bound) : bound[i] = r
          /\ runs[r].outputs # {} \/ owner[r] # "none" => Started(r)

\* What an owner is about to attach was captured for the clips it has read.
SelectionFits(r) ==
    /\ Selected(r) => \A c \in view[r].outputs :
          /\ OnTimeline(heads[view[r].base], c)
          /\ ClipOf(heads[view[r].base], c).content.intent = runs[r].items[c]
    /\ owner[r] = "commit" => \A c \in view[r].outputs : <<r, c>> \in Stored

\* As long as the Head is the one it has read, there is no receipt for it.
SelectionIsNew(r) ==
    Selected(r) /\ view[r].base = project.revision => view[r].outputs \cap Receipts(r) = {}

SelectionsHold == \A r \in Runs : SelectionFits(r) /\ SelectionIsNew(r)

AttachedByBoundRuns ==
    \A g \in 1..Len(groups) : \A o \in ToSet(groups[g].operations) :
        Attaches(groups[g], o) => \E i \in 1..Len(bound) : bound[i] = o.clip.content.take.run

\* The Takes that may be shown: those of assets that are stored or were, for the intents of their runs.
TakeOf(output) ==
    [run |-> output[1], clip |-> output[2], fingerprint |-> runs[output[1]].items[output[2]]]
StoredTakes == {TakeOf(output) : output \in Stored}

HeadsShowStoredTakes ==
    /\ \A i \in 1..Len(heads) :
          heads[i] \in Document(TrackNames, Showing(StoredTakes)) /\ Valid(heads[i])
    /\ \A g \in 1..Len(groups) :
          groups[g].inverse \in Seq(Operation(TrackNames, Showing(StoredTakes)))

TakesInv ==
    /\ IndInv
    /\ TakesTypeOK
    /\ Shapes
    /\ RunsHavePlaces
    /\ SelectionsHold
    /\ AttachedByBoundRuns
    /\ TakesAttachInOrder
    /\ HeadsShowStoredTakes
    /\ AttachmentsKeepEdits

\* Projects start from valid documents without Takes, and clients send
\* well-typed patches that show no Take but those that the document shows.
TakeClients ==
    /\ \A r, n, k \in Nat : <<r, n, k>> \in ClipNames /\ <<r, n, k>> \in TrackNames
    /\ \A d \in Documents : d \in Document(TrackNames, Showing({})) /\ Valid(d)
    /\ \A S : \A d \in Document(TrackNames, Showing(S)) :
          Requests(d) \subseteq Seq(Operation(TrackNames, Showing(S)))

\* The invariant holds at the start.
LEMMA InitEstablishesTakes == TakeClients /\ TakesInit => TakesInv
<1> SUFFICES ASSUME TakeClients, TakesInit PROVE TakesInv
  OBVIOUS
<1>1. Init /\ IndInv
  BY InitEstablishesInvariant DEF TakesInit
<1>2. /\ groups = <<>> /\ heads = <<project.document>> /\ project.revision = 1
      /\ project.document \in Documents
  BY <1>1 DEF Init
<1>3. /\ runs = [r \in Runs |-> Unplanned] /\ bound = <<>> /\ media = {} /\ assets = {}
      /\ deleting = {} /\ deleted = {}
      /\ owner = [r \in Runs |-> "none"] /\ view = [r \in Runs |-> Blank] /\ failures = 0
  BY DEF TakesInit
<1>4. Len(groups) = 0 /\ Len(bound) = 0 /\ DOMAIN groups = {} /\ Len(heads) = 1 /\ heads[1] = project.document
      /\ bound \in Seq(Runs)
  BY <1>2, <1>3
<1>5. TakesTypeOK
  BY <1>2, <1>3, MaxFailuresAssumption DEF TakesTypeOK, Places, Unplanned, Blank, NoItems, Published, Stored
<1>6. Shapes
  BY <1>3 DEF Shapes, Unplanned, Blank
<1>7. RunsHavePlaces
  BY <1>3, <1>4 DEF RunsHavePlaces, Started, Unplanned
<1>8. SelectionsHold
  BY <1>3 DEF SelectionsHold, SelectionFits, SelectionIsNew, Selected
<1>9. AttachedByBoundRuns /\ TakesAttachInOrder /\ AttachmentsKeepEdits
  BY <1>4 DEF AttachedByBoundRuns, TakesAttachInOrder, AttachmentsKeepEdits
<1>10. HeadsShowStoredTakes
  <2>1. StoredTakes = {}
    BY <1>3 DEF StoredTakes, Stored
  <2> QED
    BY <1>2, <1>4, <2>1 DEF HeadsShowStoredTakes, TakeClients
<1> QED
  BY <1>1, <1>5, <1>6, <1>7, <1>8, <1>9, <1>10 DEF TakesInv
----------------------------------------------------------------------------
(* What every step leaves alone.                                           *)

\* The numbers of the history.
LEMMA History ==
    ASSUME IndInv
    PROVE  /\ project.revision \in Nat \ {0} /\ Len(heads) = project.revision
           /\ Len(groups) = project.revision - 1 /\ Len(groups) \in Nat
           /\ DOMAIN heads = 1..Len(heads) /\ DOMAIN groups = 1..Len(groups)
           /\ heads[project.revision] = project.document
<1>1. project.revision \in Nat \ {0} /\ Len(heads) = project.revision
  BY MaxRevisionAssumption DEF IndInv, TypeOK
<1>2. heads[project.revision] = project.document /\ Len(groups) = project.revision - 1
  BY DEF IndInv, HistoryExplainsHead
<1>3. DOMAIN heads = 1..Len(heads) /\ DOMAIN groups = 1..Len(groups)
  BY LenProperties DEF IndInv, Histories
<1> QED
  BY <1>1, <1>2, <1>3

\* Runs that were started keep their place and what they record.
RunsGrow ==
    /\ bound' \in Seq(Runs) /\ Len(bound) <= Len(bound')
    /\ \A i, k \in 1..Len(bound') : bound'[i] = bound'[k] => i = k
    /\ \A i \in 1..Len(bound) : bound'[i] = bound[i]
    /\ \A r \in Runs : Started(r) => runs'[r].items = runs[r].items

\* The place of a run is its row, then and now.
LEMMA PlaceIs ==
    ASSUME RunsHavePlaces, RunsGrow, NEW i \in 1..Len(bound), NEW r, bound[i] = r
    PROVE  Place(r) = i /\ Place(r)' = i
<1>1. /\ DOMAIN bound = 1..Len(bound) /\ Len(bound) \in Nat
      /\ DOMAIN bound' = 1..Len(bound') /\ Len(bound') \in Nat
  BY LenProperties DEF RunsHavePlaces, RunsGrow
<1>2. i \in DOMAIN bound /\ bound[i] = r /\ \A k \in DOMAIN bound : bound[k] = r => k = i
  BY <1>1 DEF RunsHavePlaces
<1>3. i \in DOMAIN bound' /\ bound'[i] = r /\ \A k \in DOMAIN bound' : bound'[k] = r => k = i
  BY <1>1 DEF RunsGrow
<1>4. Place(r) = i
  BY <1>2 DEF Place
<1>5. Place(r)' = i
  BY <1>3 DEF Place
<1> QED
  BY <1>4, <1>5

\* What a document may show only grows.
LEMMA StoredTakesGrow ==
    ASSUME TakesTypeOK, RunsHavePlaces, RunsGrow, Stored \subseteq Stored'
    PROVE  Showing(StoredTakes) \subseteq Showing(StoredTakes')
<1>1. ASSUME NEW output \in Stored PROVE TakeOf(output)' = TakeOf(output)
  <2>1. PICK r \in Runs : output \in {r} \X runs[r].outputs
    BY DEF TakesTypeOK, Published
  <2>2. output[1] = r /\ Started(r)
    BY <2>1 DEF RunsHavePlaces
  <2> QED
    BY <2>2 DEF RunsGrow, TakeOf
<1>2. StoredTakes \subseteq StoredTakes'
  BY <1>1 DEF StoredTakes
<1> QED
  BY <1>2 DEF Showing

\* The receipts of a run do not change with other runs.
LEMMA ReceiptsKept ==
    ASSUME RunsHavePlaces, RunsGrow, AttachedByBoundRuns, IndInv, groups' = groups,
           NEW i \in 1..Len(bound), NEW r, bound[i] = r
    PROVE  Receipts(r)' = Receipts(r)
<1>1. Place(r)' = Place(r)
  BY PlaceIs
<1>2. ASSUME NEW g \in DOMAIN groups, NEW o \in ToSet(groups[g].operations), Attaches(groups[g], o)
      PROVE  Place(o.clip.content.take.run)' = Place(o.clip.content.take.run)
  <2>1. g \in 1..Len(groups)
    BY History
  <2>2. PICK k \in 1..Len(bound) : bound[k] = o.clip.content.take.run
    BY <1>2, <2>1 DEF AttachedByBoundRuns
  <2> QED
    BY <2>2, PlaceIs
<1> DEFINE F(g) == {o.clip_id : o \in {x \in ToSet(groups[g].operations) :
                       Attaches(groups[g], x) /\ Place(x.clip.content.take.run) >= Place(r)}}
           H(g) == {o.clip_id : o \in {x \in ToSet(groups[g].operations) :
                       Attaches(groups[g], x) /\ Place(x.clip.content.take.run)' >= Place(r)'}}
<1>3. \A g \in DOMAIN groups : F(g) = H(g)
  BY <1>1, <1>2
<1>4. Receipts(r) = UNION {F(g) : g \in DOMAIN groups}
  BY DEF Receipts
<1>5. Receipts(r)' = UNION {H(g) : g \in DOMAIN groups}
  BY DEF Receipts, Attaches
<1> HIDE DEF F, H
<1> QED
  BY <1>3, <1>4, <1>5

\* A step that edits nothing keeps what is known of the history.
LEMMA QuietHistory ==
    ASSUME TakesInv, UNCHANGED <<project, groups, heads>>, RunsGrow, Stored \subseteq Stored'
    PROVE  AttachedByBoundRuns' /\ TakesAttachInOrder' /\ HeadsShowStoredTakes' /\ AttachmentsKeepEdits'
<1> USE DEF TakesInv
<1>0. Len(bound) \in Nat /\ Len(bound') \in Nat
  BY LenProperties DEF RunsHavePlaces, RunsGrow
<1>1. AttachedByBoundRuns'
  <2> SUFFICES ASSUME NEW g \in 1..Len(groups), NEW o \in ToSet(groups[g].operations),
                      Attaches(groups[g], o)
               PROVE  \E i \in 1..Len(bound') : bound'[i] = o.clip.content.take.run
    BY DEF AttachedByBoundRuns, Attaches
  <2>1. PICK i \in 1..Len(bound) : bound[i] = o.clip.content.take.run
    BY DEF AttachedByBoundRuns
  <2> QED
    BY <1>0, <2>1 DEF RunsGrow
<1>2. TakesAttachInOrder'
  <2> SUFFICES ASSUME NEW i \in DOMAIN groups, NEW k \in DOMAIN groups, i < k,
                      NEW o \in ToSet(groups[k].operations), Attaches(groups[k], o),
                      NEW x \in ToSet(groups[i].operations), Attaches(groups[i], x),
                      x.clip_id = o.clip_id
               PROVE  Place(x.clip.content.take.run)' < Place(o.clip.content.take.run)'
    BY DEF TakesAttachInOrder, AttachedBy, Attaches
  <2>1. i \in 1..Len(groups) /\ k \in 1..Len(groups)
    BY History
  <2>2. PICK m \in 1..Len(bound) : bound[m] = x.clip.content.take.run
    BY <2>1 DEF AttachedByBoundRuns
  <2>3. PICK n \in 1..Len(bound) : bound[n] = o.clip.content.take.run
    BY <2>1 DEF AttachedByBoundRuns
  <2>4. Place(x.clip.content.take.run) < Place(o.clip.content.take.run)
    BY DEF TakesAttachInOrder, AttachedBy
  <2> QED
    BY <2>2, <2>3, <2>4, PlaceIs
<1>3. HeadsShowStoredTakes'
  <2>1. Showing(StoredTakes) \subseteq Showing(StoredTakes')
    BY StoredTakesGrow
  <2>2. /\ Document(TrackNames, Showing(StoredTakes)) \subseteq Document(TrackNames, Showing(StoredTakes'))
        /\ Seq(Operation(TrackNames, Showing(StoredTakes)))
             \subseteq Seq(Operation(TrackNames, Showing(StoredTakes')))
    BY <2>1, TypesGrow
  <2>3. HeadsShowStoredTakes' <=>
          /\ \A i \in 1..Len(heads) : heads[i] \in Document(TrackNames, Showing(StoredTakes')) /\ Valid(heads[i])
          /\ \A g \in 1..Len(groups) : groups[g].inverse \in Seq(Operation(TrackNames, Showing(StoredTakes')))
    BY DEF HeadsShowStoredTakes, Document, Operation, Showing
  <2> QED
    BY <2>2, <2>3 DEF HeadsShowStoredTakes
<1>4. AttachmentsKeepEdits'
  BY DEF AttachmentsKeepEdits
<1> QED
  BY <1>1, <1>2, <1>3, <1>4
\* An owner that is not about to attach anything has selected nothing.
LEMMA Unselected ==
    ASSUME NEW r, owner'[r] \notin {"attach", "commit"}
    PROVE  SelectionFits(r)' /\ SelectionIsNew(r)'
BY DEF SelectionFits, SelectionIsNew, Selected

\* An owner that does not move keeps its selection.
LEMMA SelectionKept ==
    ASSUME TakesInv, UNCHANGED <<project, groups, heads>>, RunsGrow, Stored \subseteq Stored',
           NEW r \in Runs, owner'[r] = owner[r], view'[r] = view[r]
    PROVE  SelectionFits(r)' /\ SelectionIsNew(r)'
<1> USE DEF TakesInv
<1>1. CASE ~Selected(r)
  BY <1>1, Unselected DEF Selected
<1>2. CASE Selected(r)
  <2>1. Started(r) /\ runs'[r].items = runs[r].items
    BY <1>2 DEF Selected, RunsHavePlaces, RunsGrow
  <2>2. PICK i \in 1..Len(bound) : bound[i] = r
    BY <2>1 DEF RunsHavePlaces
  <2>3. Receipts(r)' = Receipts(r)
    BY <2>2, ReceiptsKept
  <2>4. SelectionFits(r)'
    <3>1. heads' = heads /\ owner'[r] = owner[r] /\ view'[r] = view[r]
      OBVIOUS
    <3>2. \A d, c : OnTimeline(d, c)' <=> OnTimeline(d, c)
      OBVIOUS
    <3> DEFINE d == heads[view[r].base]
    <3>3. \A c \in view[r].outputs :
             /\ OnTimeline(d, c)
             /\ ClipOf(d, c).content.intent = runs[r].items[c]
             /\ owner[r] = "commit" => <<r, c>> \in Stored
      BY <1>2 DEF SelectionsHold, SelectionFits, Selected
    <3>4. \A c \in view'[r].outputs :
             /\ OnTimeline(heads'[view'[r].base], c)
             /\ ClipOf(heads'[view'[r].base], c).content.intent = runs'[r].items[c]
             /\ owner'[r] = "commit" => <<r, c>> \in Stored'
      <4> HIDE DEF TakesInv
      <4> QED
        BY <2>1, <3>1, <3>3
    <3> QED
      BY <3>4 DEF SelectionFits, Selected
  <2>5. SelectionIsNew(r)'
    BY <2>3 DEF SelectionsHold, SelectionIsNew, Selected
  <2> QED
    BY <2>4, <2>5
<1> QED
  BY <1>1, <1>2

\* Where only one owner moves, the others keep their selections.
LEMMA SelectionsOfOthers ==
    ASSUME TakesInv, UNCHANGED <<project, groups, heads>>, RunsGrow, Stored \subseteq Stored',
           NEW r \in Runs, SelectionFits(r)' /\ SelectionIsNew(r)',
           \A x \in Runs \ {r} : owner'[x] = owner[x] /\ view'[x] = view[x]
    PROVE  SelectionsHold'
BY SelectionKept DEF SelectionsHold

\* Steps that leave the runs alone.
LEMMA RunsStay ==
    ASSUME RunsHavePlaces, UNCHANGED <<runs, bound>>
    PROVE  RunsGrow
<1>1. Len(bound) \in Nat
  BY LenProperties DEF RunsHavePlaces
<1> QED
  BY <1>1 DEF RunsHavePlaces, RunsGrow, Started

----------------------------------------------------------------------------
(* The recordings.                                                         *)

\* What the steps below establish; the history then follows.
RunsHold == TakesTypeOK /\ Shapes /\ RunsHavePlaces

\* A plan of a run that was not started.
LEMMA PlanPreserves ==
    ASSUME TakesInv, NEW r \in Runs, Plan(r)
    PROVE  RunsHold' /\ RunsGrow /\ SelectionsHold'
<1> USE DEF TakesInv
<1>1. /\ UNCHANGED <<project, groups, heads, bound, media, assets, deleting, deleted, Stored, owner, view, failures>>
      /\ runs[r].status = "none"
  BY DEF Plan, vars, Stored
<1>2. PICK items : runs' = [runs EXCEPT ![r] = [Unplanned EXCEPT !.status = "planned", !.items = items]]
  BY DEF Plan
<1>3. /\ DOMAIN runs' = Runs
      /\ runs'[r] = [status |-> "planned", items |-> items, outputs |-> {}]
      /\ \A x \in Runs \ {r} : runs'[x] = runs[x]
  BY <1>2 DEF Shapes, Unplanned
<1>4. ~Started(r) /\ ~Started(r)' /\ runs[r].outputs = {} /\ owner[r] = "none"
      /\ \A x \in Runs \ {r} : Started(x)' <=> Started(x)
  <2>1. ~Started(r) /\ ~Started(r)' /\ \A x \in Runs \ {r} : Started(x)' <=> Started(x)
    BY <1>1, <1>3 DEF Started
  <2> QED
    BY <2>1 DEF RunsHavePlaces
<1>5. TakesTypeOK'
  <2>1. Published' = Published
    BY <1>3, <1>4 DEF Published
  <2>2. \A x \in Runs : /\ runs'[x].status \in {"none", "planned", "running", "ended"}
                        /\ view'[x].outputs \subseteq runs'[x].outputs
                        /\ runs'[x].outputs \subseteq DOMAIN runs'[x].items
    BY <1>1, <1>3, <1>4 DEF TakesTypeOK
  <2> QED
    BY <1>1, <2>1, <2>2 DEF TakesTypeOK
<1>6. Shapes'
  BY <1>1, <1>3 DEF Shapes
<1>7. RunsHavePlaces'
  BY <1>1, <1>3, <1>4 DEF RunsHavePlaces
<1>8. RunsGrow
  <2>1. Len(bound) \in Nat
    BY LenProperties DEF RunsHavePlaces
  <2> QED
    BY <1>1, <1>3, <1>4, <2>1 DEF RunsGrow, RunsHavePlaces
<1>9. SelectionsHold'
  BY <1>1, <1>8, SelectionKept DEF SelectionsHold
<1> QED
  BY <1>5, <1>6, <1>7, <1>8, <1>9 DEF RunsHold

\* A run that starts gets the last place and an owner.
LEMMA StartRunPreserves ==
    ASSUME TakesInv, NEW r \in Runs, StartRun(r)
    PROVE  RunsHold' /\ RunsGrow /\ SelectionsHold'
<1> USE DEF TakesInv
<1>1. /\ UNCHANGED <<project, groups, heads, media, assets, deleting, deleted, Stored, view, failures>>
      /\ runs[r].status = "planned"
      /\ runs' = [runs EXCEPT ![r].status = "running"]
      /\ bound' = Append(bound, r)
      /\ owner' = [owner EXCEPT ![r] = IF @ = "none" THEN "poll" ELSE @]
  BY DEF StartRun, vars, Bind, Observe, Stored
<1>2. /\ DOMAIN runs' = Runs
      /\ runs'[r] = [status |-> "running", items |-> runs[r].items, outputs |-> runs[r].outputs]
      /\ \A x \in Runs \ {r} : runs'[x] = runs[x]
  BY <1>1 DEF Shapes
<1>3. ~Started(r) /\ Started(r)' /\ runs[r].outputs = {} /\ owner[r] = "none"
      /\ \A x \in Runs \ {r} : Started(x)' <=> Started(x)
  <2>1. ~Started(r) /\ Started(r)' /\ \A x \in Runs \ {r} : Started(x)' <=> Started(x)
    BY <1>1, <1>2 DEF Started
  <2> QED
    BY <2>1 DEF RunsHavePlaces
<1>4. /\ owner' \in [Runs -> Places] /\ owner'[r] = "poll" /\ \A x \in Runs \ {r} : owner'[x] = owner[x]
  BY <1>1, <1>3 DEF TakesTypeOK, Places
<1>5. TakesTypeOK'
  <2>1. \A x \in Runs : /\ runs'[x].outputs = runs[x].outputs
                        /\ runs'[x].status \in {"none", "planned", "running", "ended"}
                        /\ DOMAIN runs'[x].items = DOMAIN runs[x].items
    <3>1. \A x \in Runs : runs[x].status \in {"none", "planned", "running", "ended"}
      BY DEF TakesTypeOK
    <3> HIDE DEF TakesInv
    <3> QED
      BY <1>2, <3>1
  <2>2. Published' = Published
    BY <2>1 DEF Published
  <2>3. /\ failures' \in 0..MaxFailures /\ media' \cup Stored' \subseteq Published'
        /\ deleting' \subseteq assets'
    BY <1>1, <2>2 DEF TakesTypeOK
  <2>4. \A x \in Runs : /\ view'[x].base \in 1..project'.revision
                        /\ view'[x].outputs \subseteq runs'[x].outputs
                        /\ runs'[x].outputs \subseteq DOMAIN runs'[x].items
    BY <1>1, <2>1 DEF TakesTypeOK
  <2> HIDE DEF TakesInv
  <2> QED
    BY <1>4, <2>1, <2>3, <2>4 DEF TakesTypeOK
<1>6. Shapes'
  BY <1>1, <1>2 DEF Shapes
<1>7. /\ bound \in Seq(Runs) /\ Len(bound) \in Nat /\ bound' \in Seq(Runs) /\ Len(bound') = Len(bound) + 1
      /\ \A i \in 1..Len(bound) : bound'[i] = bound[i] /\ bound[i] # r
      /\ bound'[Len(bound) + 1] = r
  <2>1. bound \in Seq(Runs) /\ Len(bound) \in Nat
    BY LenProperties DEF RunsHavePlaces
  <2>2. \A i \in 1..Len(bound) : bound[i] # r
    BY <1>3 DEF RunsHavePlaces
  <2> QED
    BY <1>1, <2>1, <2>2, AppendProperties
<1>8. \A i \in 1..Len(bound') : i \in 1..Len(bound) \/ i = Len(bound) + 1
  BY <1>7
<1>9. \A i, k \in 1..Len(bound') : bound'[i] = bound'[k] => i = k
  BY <1>7, <1>8 DEF RunsHavePlaces
<1>10. RunsHavePlaces'
  <2>1. ASSUME NEW x \in Runs PROVE Started(x)' <=> \E i \in 1..Len(bound') : bound'[i] = x
    <3>1. CASE x = r
      <4>1. Len(bound) + 1 \in 1..Len(bound')
        BY <1>7
      <4> QED
        BY <1>3, <1>7, <3>1, <4>1
    <3>2. CASE x # r
      <4>1. \A i \in 1..Len(bound) : i \in 1..Len(bound')
        BY <1>7
      <4>2. Started(x) <=> \E i \in 1..Len(bound) : bound[i] = x
        BY DEF RunsHavePlaces
      <4> QED
        BY <1>3, <1>7, <1>8, <3>2, <4>1, <4>2
    <3> QED
      BY <3>1, <3>2
  <2>2. \A x \in Runs : runs'[x].outputs # {} \/ owner'[x] # "none" => Started(x)'
    BY <1>2, <1>3, <1>4 DEF RunsHavePlaces
  <2> QED
    BY <1>7, <1>9, <2>1, <2>2 DEF RunsHavePlaces
<1>11. RunsGrow
  <2>1. \A x \in Runs : runs'[x].items = runs[x].items
    BY <1>2
  <2> QED
    BY <1>7, <1>9, <2>1 DEF RunsGrow
<1>12. SelectionFits(r)' /\ SelectionIsNew(r)'
  BY <1>4, Unselected
<1>13. SelectionsHold'
  BY <1>1, <1>4, <1>11, <1>12, SelectionsOfOthers
<1> QED
  BY <1>5, <1>6, <1>10, <1>11, <1>13 DEF RunsHold

\* Outputs are added and runs end.
LEMMA RecordingPreserves ==
    ASSUME TakesInv, NEW r \in Runs, Publish(r) \/ EndRun(r)
    PROVE  RunsHold' /\ RunsGrow /\ SelectionsHold'
<1> USE DEF TakesInv
<1>1. /\ UNCHANGED <<project, groups, heads, bound, assets, deleting, deleted, Stored, owner, view, failures>>
      /\ runs[r].status = "running"
  BY DEF Publish, EndRun, vars, Stored
<1>2. PICK status \in {"running", "ended"}, added \in SUBSET DOMAIN runs[r].items :
         /\ runs' = [runs EXCEPT ![r].status = status, ![r].outputs = @ \cup added]
         /\ media' = media \cup {<<r, c>> : c \in added}
  <2>1. CASE Publish(r)
    <3>1. PICK c \in DOMAIN runs[r].items :
             runs' = [runs EXCEPT ![r].outputs = @ \cup {c}] /\ media' = media \cup {<<r, c>>}
      BY <2>1 DEF Publish
    <3>2. runs' = [runs EXCEPT ![r].status = "running", ![r].outputs = @ \cup {c}]
      <4>1. DOMAIN runs = Runs /\ runs[r] = [runs[r] EXCEPT !.status = "running"]
        BY <1>1 DEF Shapes
      <4> QED
        BY <3>1, <4>1
    <3>3. media' = media \cup {<<r, x>> : x \in {c}}
      BY <3>1
    <3> QED
      BY <3>2, <3>3
  <2>2. CASE EndRun(r)
    <3>1. runs' = [runs EXCEPT ![r].status = "ended", ![r].outputs = @ \cup {}]
      BY <2>2 DEF EndRun, Shapes
    <3>2. media' = media \cup {<<r, x>> : x \in {}}
      BY <2>2 DEF EndRun
    <3> QED
      BY <3>1, <3>2
  <2> QED
    BY <2>1, <2>2
<1>3. /\ DOMAIN runs' = Runs
      /\ runs'[r] = [status |-> status, items |-> runs[r].items, outputs |-> runs[r].outputs \cup added]
      /\ \A x \in Runs \ {r} : runs'[x] = runs[x]
  <2>1. DOMAIN runs = Runs /\ runs[r] = [status |-> runs[r].status, items |-> runs[r].items,
                                         outputs |-> runs[r].outputs]
    BY DEF Shapes
  <2> HIDE DEF TakesInv
  <2> QED
    BY <1>2, <2>1
<1>4. \A x \in Runs : (Started(x)' <=> Started(x)) /\ runs'[x].items = runs[x].items
                      /\ runs[x].outputs \subseteq runs'[x].outputs
  BY <1>1, <1>3 DEF Started
<1>5. Started(r)
  BY <1>1 DEF Started
<1>6. TakesTypeOK'
  <2>1. \A x \in Runs : /\ runs'[x].status \in {"none", "planned", "running", "ended"}
                        /\ runs'[x].outputs \subseteq DOMAIN runs'[x].items
                        /\ view'[x].outputs \subseteq runs'[x].outputs
    BY <1>1, <1>3, <1>4 DEF TakesTypeOK
  <2>2. Published \subseteq Published'
    BY <1>4 DEF Published
  <2>3. {<<r, c>> : c \in added} \subseteq Published'
    BY <1>3 DEF Published
  <2> QED
    BY <1>1, <1>2, <2>1, <2>2, <2>3 DEF TakesTypeOK
<1>7. Shapes'
  BY <1>1, <1>3 DEF Shapes
<1>8. RunsHavePlaces'
  BY <1>1, <1>3, <1>4, <1>5 DEF RunsHavePlaces
<1>9. RunsGrow
  <2>1. Len(bound) \in Nat
    BY LenProperties DEF RunsHavePlaces
  <2> QED
    BY <1>1, <1>4, <2>1 DEF RunsGrow, RunsHavePlaces
<1>10. SelectionsHold'
  BY <1>1, <1>9, SelectionKept DEF SelectionsHold
<1> QED
  BY <1>6, <1>7, <1>8, <1>9, <1>10 DEF RunsHold

\* A person deletes a file.
LEMMA DeletionPreserves ==
    ASSUME TakesInv, DeleteOutput
    PROVE  RunsHold' /\ RunsGrow /\ SelectionsHold'
<1> USE DEF TakesInv
<1>1. /\ UNCHANGED <<project, groups, heads, runs, bound, assets, deleting, deleted, Stored, owner, view, failures>>
      /\ media' \subseteq media
  BY DEF DeleteOutput, vars, Stored
<1>2. Published' = Published
  BY <1>1 DEF Published
<1>3. TakesTypeOK'
  BY <1>1, <1>2 DEF TakesTypeOK
<1>4. Shapes'
  BY <1>1 DEF Shapes
<1>5. RunsHavePlaces'
  BY <1>1 DEF RunsHavePlaces, Started
<1>6. RunsGrow
  BY <1>1, RunsStay
<1>7. SelectionsHold'
  BY <1>1, <1>6, SelectionKept DEF SelectionsHold
<1> QED
  BY <1>3, <1>4, <1>5, <1>6, <1>7 DEF RunsHold

\* A person deletes an asset: what is shown of it was stored once.
LEMMA AssetDeletionPreserves ==
    ASSUME TakesInv, CheckAsset \/ DeleteAsset
    PROVE  RunsHold' /\ RunsGrow /\ SelectionsHold' /\ UNCHANGED vars /\ Stored \subseteq Stored'
<1> USE DEF TakesInv
<1>1. /\ UNCHANGED <<project, groups, heads, runs, bound, media, owner, view, failures>> /\ UNCHANGED vars
      /\ deleting' \subseteq assets' /\ Stored' = Stored
  <2>1. deleting \subseteq assets
    BY DEF TakesTypeOK
  <2>2. CASE CheckAsset
    BY <2>1, <2>2 DEF CheckAsset, vars, Stored
  <2>3. CASE DeleteAsset
    BY <2>1, <2>3 DEF DeleteAsset, vars, Stored
  <2> QED
    BY <2>2, <2>3
<1>2. Published' = Published
  BY <1>1 DEF Published
<1>3. TakesTypeOK'
  BY <1>1, <1>2 DEF TakesTypeOK
<1>4. Shapes' /\ RunsHavePlaces'
  BY <1>1 DEF Shapes, RunsHavePlaces, Started
<1>5. RunsGrow
  BY <1>1, RunsStay
<1>6. SelectionsHold'
  BY <1>1, <1>5, SelectionKept DEF SelectionsHold
<1> QED
  BY <1>1, <1>3, <1>4, <1>5, <1>6 DEF RunsHold

----------------------------------------------------------------------------
(* The owners.                                                             *)

Read(read) == [ended |-> read.ended, outputs |-> read.outputs, base |-> read.base]

\* An owner that has a run moves on with what it has read.
LEMMA OwnerMoves ==
    ASSUME TakesInv, UNCHANGED <<runs, bound>>, NEW r \in Runs, NEW from \in Places \ {"none"},
           NEW to \in Places, NEW read, Goto(r, from, to, read), read = Read(read),
           project'.revision \in Nat, project.revision <= project'.revision,
           read.base \in 1..project'.revision, read.outputs \subseteq runs[r].outputs,
           failures' \in 0..MaxFailures, media' \cup Stored' \subseteq Published,
           deleting' \subseteq assets'
    PROVE  /\ RunsHold' /\ RunsGrow
           /\ owner'[r] = to /\ view'[r] = read
           /\ \A x \in Runs \ {r} : owner'[x] = owner[x] /\ view'[x] = view[x]
<1> USE DEF TakesInv
<1>1. /\ owner' \in [Runs -> Places] /\ owner'[r] = to
      /\ \A x \in Runs \ {r} : owner'[x] = owner[x]
  BY DEF Goto, TakesTypeOK
<1>2. /\ DOMAIN view' = Runs /\ view'[r] = read
      /\ \A x \in Runs \ {r} : view'[x] = view[x]
  BY DEF Goto, Shapes
<1>3. Published' = Published
  BY DEF Published
<1>4. project.revision \in Nat
  BY History
<1>5. TakesTypeOK'
  <2>1. ASSUME NEW x \in Runs
        PROVE  view'[x].base \in 1..project'.revision /\ view'[x].outputs \subseteq runs[x].outputs
    <3>1. view[x].base \in 1..project.revision /\ view[x].outputs \subseteq runs[x].outputs
      BY DEF TakesTypeOK
    <3>2. view[x].base \in 1..project'.revision
      BY <1>4, <3>1
    <3>3. CASE x = r
      BY <1>2, <3>3
    <3>4. CASE x # r
      BY <1>2, <3>1, <3>2, <3>4
    <3> QED
      BY <3>3, <3>4
  <2> QED
    BY <1>1, <1>3, <2>1 DEF TakesTypeOK
<1>6. Shapes'
  <2>1. \A x \in Runs : view'[x] = [ended |-> view'[x].ended, outputs |-> view'[x].outputs,
                                    base |-> view'[x].base]
    BY <1>2 DEF Shapes, Read
  <2> QED
    BY <1>2, <2>1 DEF Shapes
<1>7. RunsHavePlaces'
  <2>1. owner[r] # "none"
    BY DEF Goto
  <2> QED
    BY <1>1, <2>1 DEF RunsHavePlaces, Started
<1>8. RunsGrow
  BY RunsStay
<1> QED
  BY <1>1, <1>2, <1>5, <1>6, <1>7, <1>8 DEF RunsHold

\* The same for an owner that edits nothing.
LEMMA OwnerReads ==
    ASSUME TakesInv, UNCHANGED <<project, groups, heads, runs, bound>>, Stored \subseteq Stored',
           NEW r \in Runs, NEW from \in Places \ {"none"},
           NEW to \in Places, NEW read, Goto(r, from, to, read), read = Read(read),
           read.base \in 1..project.revision, read.outputs \subseteq runs[r].outputs,
           failures' \in 0..MaxFailures, media' \cup Stored' \subseteq Published,
           deleting' \subseteq assets',
           owner'[r] = to /\ view'[r] = read => SelectionFits(r)' /\ SelectionIsNew(r)'
    PROVE  RunsHold' /\ RunsGrow /\ SelectionsHold'
<1>1. project.revision \in Nat
  BY History DEF TakesInv
<1>2. /\ RunsHold' /\ RunsGrow
      /\ owner'[r] = to /\ view'[r] = read
      /\ \A x \in Runs \ {r} : owner'[x] = owner[x] /\ view'[x] = view[x]
  BY <1>1, OwnerMoves
<1>3. SelectionsHold'
  BY <1>2, SelectionsOfOthers
<1> QED
  BY <1>2, <1>3

\* What an owner has read, and nothing yet.
LEMMA OldReads ==
    ASSUME TakesInv, NEW r \in Runs
    PROVE  /\ view[r] = Read(view[r]) /\ view[r].base \in 1..project.revision
           /\ view[r].outputs \subseteq runs[r].outputs
           /\ Blank = Read(Blank) /\ Blank.outputs = {} /\ Blank.base = 1
           /\ Blank.base \in 1..project.revision
           /\ failures \in 0..MaxFailures /\ media \cup Stored \subseteq Published
           /\ deleting \subseteq assets
<1>1. project.revision \in Nat \ {0}
  BY History DEF TakesInv
<1>2. Blank = [ended |-> FALSE, outputs |-> {}, base |-> 1]
  BY DEF Blank
<1> QED
  BY <1>1, <1>2 DEF TakesInv, Shapes, TakesTypeOK, Read

\* The owner polls, reads the job, the Head and the receipts.
LEMMA ReadingPreserves ==
    ASSUME TakesInv, NEW r \in Runs, Poll(r) \/ ReadJob(r) \/ ReadHead(r)
    PROVE  RunsHold' /\ RunsGrow /\ SelectionsHold'
<1>0. project.revision \in Nat \ {0}
  BY History DEF TakesInv
<1>1. CASE Poll(r)
  <2> DEFINE read == [Blank EXCEPT !.ended = runs[r].status = "ended"]
  <2>1. read = Read(read) /\ read.outputs = {} /\ read.base = 1
    BY DEF Blank, Read
  <2>2. Goto(r, "poll", "job", read) /\ UNCHANGED <<vars, table, assets, failures>>
    BY <1>1 DEF Poll
  <2> HIDE DEF read
  <2>3. read.base \in 1..project.revision /\ read.outputs \subseteq runs[r].outputs
    BY <1>0, <2>1
  <2>4. owner'[r] = "job" => SelectionFits(r)' /\ SelectionIsNew(r)'
    BY Unselected
  <2> QED
    BY <2>1, <2>2, <2>3, <2>4, OldReads, OwnerReads DEF vars, table, Stored, Places
<1>2. CASE ReadJob(r)
  <2> DEFINE read == [view[r] EXCEPT !.outputs = runs[r].outputs]
  <2>1. read = Read(read) /\ read.outputs = runs[r].outputs /\ read.base = view[r].base
    BY DEF TakesInv, Shapes, Read
  <2>2. Goto(r, "job", "head", read) /\ UNCHANGED <<vars, table, assets, failures>>
    BY <1>2 DEF ReadJob
  <2> HIDE DEF read
  <2>3. owner'[r] = "head" => SelectionFits(r)' /\ SelectionIsNew(r)'
    BY Unselected
  <2> QED
    BY <2>1, <2>2, <2>3, OldReads, OwnerReads DEF vars, table, Stored, Places
<1>3. CASE ReadHead(r)
  <2> DEFINE read == [view[r] EXCEPT !.base = project.revision]
  <2>1. read = Read(read) /\ read.outputs = view[r].outputs /\ read.base = project.revision
    BY DEF TakesInv, Shapes, Read
  <2>2. Goto(r, "head", "receipts", read) /\ UNCHANGED <<vars, table, assets, failures>>
    BY <1>3 DEF ReadHead
  <2> HIDE DEF read
  <2>3. owner'[r] = "receipts" => SelectionFits(r)' /\ SelectionIsNew(r)'
    BY Unselected
  <2> QED
    BY <1>0, <2>1, <2>2, <2>3, OldReads, OwnerReads DEF vars, table, Stored, Places
<1> QED
  BY <1>1, <1>2, <1>3

\* The receipts are read after the Head: if the Head is still the same when
\* the patch is stored, so are they.
LEMMA ReceiptsPreserve ==
    ASSUME TakesInv, NEW r \in Runs, ReadReceipts(r)
    PROVE  RunsHold' /\ RunsGrow /\ SelectionsHold'
<1> DEFINE read == [view[r] EXCEPT !.outputs = Wanted(r)]
<1>1. read = Read(read) /\ read.outputs = Wanted(r) /\ read.base = view[r].base
  BY DEF TakesInv, Shapes, Read
<1>2. Goto(r, "receipts", "attach", read) /\ UNCHANGED <<vars, table, assets, failures>>
  BY DEF ReadReceipts
<1> HIDE DEF read
<1>3. Wanted(r) \subseteq view[r].outputs \ Receipts(r)
  BY DEF Wanted
<1>4. \A c \in Wanted(r) : /\ OnTimeline(heads[view[r].base], c)
                           /\ ClipOf(heads[view[r].base], c).content.intent = runs[r].items[c]
  BY DEF Wanted
<1>5. Receipts(r)' = Receipts(r)
  <2>1. RunsGrow
    BY <1>2, RunsStay DEF TakesInv, table
  <2>2. Started(r)
    BY <1>2 DEF TakesInv, RunsHavePlaces, Goto
  <2>3. PICK i \in 1..Len(bound) : bound[i] = r
    BY <2>2 DEF TakesInv, RunsHavePlaces
  <2> QED
    BY <1>2, <2>1, <2>3, ReceiptsKept DEF TakesInv, vars
<1>6. ASSUME owner'[r] = "attach", view'[r] = read
      PROVE  SelectionFits(r)' /\ SelectionIsNew(r)'
  <2>1. SelectionFits(r)'
    <3>1. \A c \in view'[r].outputs :
             /\ OnTimeline(heads'[view'[r].base], c)
             /\ ClipOf(heads'[view'[r].base], c).content.intent = runs'[r].items[c]
      BY <1>1, <1>2, <1>4, <1>6 DEF vars, table
    <3> QED
      BY <1>6, <3>1 DEF SelectionFits
  <2>2. SelectionIsNew(r)'
    BY <1>1, <1>3, <1>5, <1>6 DEF SelectionIsNew
  <2> QED
    BY <2>1, <2>2
<1> QED
  BY <1>1, <1>2, <1>3, <1>6, OldReads, OwnerReads DEF vars, table, Stored, Places

\* The rows of the selected outputs are stored before the patch.
LEMMA AssetsPreserve ==
    ASSUME TakesInv, NEW r \in Runs, PutAssets(r)
    PROVE  RunsHold' /\ RunsGrow /\ SelectionsHold'
<1>1. /\ Goto(r, "attach", "commit", view[r]) /\ UNCHANGED <<vars, table, failures>>
      /\ assets' = assets \cup {<<r, c>> : c \in view[r].outputs}
      /\ \A c \in view[r].outputs : <<r, c>> \in media
  BY DEF PutAssets
<1>2. Stored \subseteq Stored' /\ media' \cup Stored' \subseteq Published /\ deleting' \subseteq assets'
  BY <1>1, OldReads DEF table, Stored
<1>3. owner[r] = "attach" /\ RunsGrow
  BY <1>1, RunsStay DEF Goto, TakesInv, table
<1>4. Receipts(r)' = Receipts(r)
  <2>1. Started(r)
    BY <1>3 DEF TakesInv, RunsHavePlaces
  <2>2. PICK i \in 1..Len(bound) : bound[i] = r
    BY <2>1 DEF TakesInv, RunsHavePlaces
  <2> QED
    BY <1>1, <1>3, <2>2, ReceiptsKept DEF TakesInv, vars
<1>5. ASSUME owner'[r] = "commit", view'[r] = view[r]
      PROVE  SelectionFits(r)' /\ SelectionIsNew(r)'
  <2>1. /\ \A c \in view[r].outputs :
              /\ OnTimeline(heads[view[r].base], c)
              /\ ClipOf(heads[view[r].base], c).content.intent = runs[r].items[c]
        /\ view[r].base = project.revision => view[r].outputs \cap Receipts(r) = {}
    BY <1>3 DEF TakesInv, SelectionsHold, SelectionFits, SelectionIsNew, Selected
  <2>2. SelectionFits(r)'
    <3>1. \A c \in view'[r].outputs :
             /\ OnTimeline(heads'[view'[r].base], c)
             /\ ClipOf(heads'[view'[r].base], c).content.intent = runs'[r].items[c]
      BY <1>1, <1>5, <2>1 DEF vars, table
    <3>2. \A c \in view'[r].outputs : <<r, c>> \in Stored'
      BY <1>1, <1>5 DEF Stored
    <3> QED
      BY <3>1, <3>2 DEF SelectionFits
  <2>3. SelectionIsNew(r)'
    BY <1>1, <1>4, <1>5, <2>1 DEF SelectionIsNew, vars
  <2> QED
    BY <2>2, <2>3
<1> QED
  BY <1>1, <1>2, <1>5, OldReads, OwnerReads DEF vars, table, Stored, Places

\* An owner that gives up its poll, for now or for good.
LEMMA EndedPollPreserves ==
    ASSUME TakesInv, NEW r \in Runs,
           \/ NothingToAttach(r) \/ MediaUnavailable(r) \/ AttachmentRefused(r) \/ TransientError(r)
    PROVE  RunsHold' /\ RunsGrow /\ SelectionsHold' /\ UNCHANGED vars /\ Stored \subseteq Stored'
<1>1. /\ UNCHANGED <<vars, table>> /\ Stored \subseteq Stored' /\ Stored' \subseteq Stored \cup media
      /\ failures' \in 0..MaxFailures /\ deleting' \subseteq assets'
      /\ \E from \in {"attach", "commit"}, to \in {"none", "poll"} : Goto(r, from, to, Blank)
  <2>1. CASE NothingToAttach(r)
    BY <2>1, OldReads DEF NothingToAttach, Settle, table, Stored
  <2>2. CASE MediaUnavailable(r)
    <3>1. PICK stored \in SUBSET ({<<r, c>> : c \in view[r].outputs} \cap media) : assets' = assets \cup stored
      BY <2>2 DEF MediaUnavailable
    <3>2. deleting' = deleting /\ deleted' = deleted
      BY <2>2 DEF MediaUnavailable, table
    <3>3. Stored \subseteq Stored' /\ Stored' \subseteq Stored \cup media /\ deleting' \subseteq assets'
      BY <3>1, <3>2, OldReads DEF Stored
    <3> QED
      BY <2>2, <3>3, OldReads DEF MediaUnavailable, Settle
  <2>3. CASE AttachmentRefused(r)
    BY <2>3, OldReads DEF AttachmentRefused, Retry, table, Stored
  <2>4. CASE TransientError(r)
    <3>1. failures' = failures + 1 /\ failures < MaxFailures /\ failures \in 0..MaxFailures
      BY <2>4, OldReads DEF TransientError, Fail
    <3>2. failures' \in 0..MaxFailures
      BY <3>1, MaxFailuresAssumption
    <3> QED
      BY <2>4, <3>2, OldReads DEF TransientError, Retry, table, Stored
  <2> QED
    BY <2>1, <2>2, <2>3, <2>4
<1>2. PICK from \in {"attach", "commit"}, to \in {"none", "poll"} : Goto(r, from, to, Blank)
  BY <1>1
<1>3. owner'[r] = to => SelectionFits(r)' /\ SelectionIsNew(r)'
  BY Unselected
<1>4. media' \cup Stored' \subseteq Published
  BY <1>1, OldReads DEF table
<1> QED
  BY <1>1, <1>2, <1>3, <1>4, OldReads, OwnerReads DEF vars, table, Stored, Places

----------------------------------------------------------------------------
(* The edits.                                                              *)

\* A committed patch continues the history.
LEMMA CommitContinues ==
    ASSUME IndInv, NEW author, NEW operations, NEW reverts, NEW result,
           Commit(author, result, operations, reverts)
    PROVE  /\ project'.revision = project.revision + 1
           /\ Len(heads') = Len(heads) + 1 /\ DOMAIN heads' = 1..Len(heads')
           /\ \A i \in 1..Len(heads) : heads'[i] = heads[i]
           /\ heads'[Len(heads) + 1] = result.doc
           /\ Len(groups') = Len(groups) + 1 /\ DOMAIN groups' = 1..Len(groups')
           /\ \A g \in 1..Len(groups) : groups'[g] = groups[g]
           /\ groups'[Len(groups) + 1].author = author
           /\ groups'[Len(groups) + 1].operations = operations
           /\ groups'[Len(groups) + 1].inverse = result.inverse
<1> DEFINE entry == [from |-> project.revision, to |-> project.revision + 1, author |-> author,
                     reverts |-> reverts, operations |-> operations, inverse |-> result.inverse]
<1>1. /\ project'.revision = project.revision + 1
      /\ heads' = Append(heads, result.doc) /\ groups' = Append(groups, entry)
  BY DEF Commit
<1>2. entry.author = author /\ entry.operations = operations /\ entry.inverse = result.inverse
  OBVIOUS
<1> HIDE DEF entry
<1>3. heads \in Seq(Elements(heads)) /\ groups \in Seq(Elements(groups))
  BY DEF IndInv, Histories
<1>4. /\ Len(heads') = Len(heads) + 1 /\ heads' \in Seq(Elements(heads'))
      /\ \A i \in 1..Len(heads) : heads'[i] = heads[i]
      /\ heads'[Len(heads) + 1] = result.doc
  BY <1>1, <1>3, AppendedHistory
<1>5. /\ Len(groups') = Len(groups) + 1 /\ groups' \in Seq(Elements(groups'))
      /\ \A i \in 1..Len(groups) : groups'[i] = groups[i]
      /\ groups'[Len(groups) + 1] = entry
  BY <1>1, <1>3, AppendedHistory
<1>6. DOMAIN heads' = 1..Len(heads') /\ DOMAIN groups' = 1..Len(groups')
  BY <1>4, <1>5, LenProperties
<1> QED
  BY <1>1, <1>2, <1>4, <1>5, <1>6

\* It attaches nothing, or Takes of bound runs, later than those that their
\* clips were given before.
AttachesNew(author, operations) ==
    \A o \in ToSet(operations) :
        (author = "system" /\ o.op = "replace_clip" /\ o.clip.content.take # NoTake) =>
            /\ \E i \in 1..Len(bound) : bound[i] = o.clip.content.take.run
            /\ \A g \in DOMAIN groups : \A earlier \in AttachedBy(g, o.clip_id) :
                  earlier < Place(o.clip.content.take.run)

\* It shows stored Takes, undone as well.
ShowsStored(result) ==
    /\ result.doc \in Document(TrackNames, Showing(StoredTakes)) /\ Valid(result.doc)
    /\ result.inverse \in Seq(Operation(TrackNames, Showing(StoredTakes)))

\* Such an edit keeps what is known of the history.
LEMMA CommitKeepsHistory ==
    ASSUME TakesInv, UNCHANGED <<runs, bound, Stored>>,
           NEW author, NEW operations, NEW reverts, NEW result,
           Commit(author, result, operations, reverts),
           AttachesNew(author, operations), ShowsStored(result),
           author = "system" => OnlyTakesDiffer(project.document, result.doc)
    PROVE  AttachedByBoundRuns' /\ TakesAttachInOrder' /\ HeadsShowStoredTakes' /\ AttachmentsKeepEdits'
<1> DEFINE n == Len(groups)
<1>1. /\ n \in Nat /\ Len(heads) = n + 1 /\ heads[n + 1] = project.document
      /\ DOMAIN groups = 1..n
  <2>1. n \in Nat /\ project.revision \in Nat /\ n = project.revision - 1
    BY History DEF TakesInv
  <2>2. project.revision = n + 1
    BY <2>1
  <2> HIDE DEF n
  <2>3. n = Len(groups)
    BY DEF n
  <2> QED
    BY <2>1, <2>2, <2>3, History DEF TakesInv
<1>2. /\ Len(heads') = n + 2 /\ DOMAIN heads' = 1..n + 2
      /\ \A i \in 1..n + 1 : heads'[i] = heads[i]
      /\ heads'[n + 2] = result.doc
      /\ Len(groups') = n + 1 /\ DOMAIN groups' = 1..n + 1
      /\ \A g \in 1..n : groups'[g] = groups[g]
      /\ groups'[n + 1].author = author
      /\ groups'[n + 1].operations = operations
      /\ groups'[n + 1].inverse = result.inverse
  BY <1>1, CommitContinues DEF TakesInv
<1>3. \A i \in 1..n + 1 : i \in 1..n \/ i = n + 1
  BY <1>1
<1> HIDE DEF n
<1>4. AttachedByBoundRuns'
  <2> SUFFICES ASSUME NEW g \in 1..n + 1, NEW o \in ToSet(groups'[g].operations),
                      Attaches(groups'[g], o)
               PROVE  \E i \in 1..Len(bound) : bound[i] = o.clip.content.take.run
    BY <1>2 DEF AttachedByBoundRuns, Attaches
  <2>1. CASE g \in 1..n
    BY <1>2, <2>1 DEF TakesInv, AttachedByBoundRuns, n
  <2>2. CASE g = n + 1
    BY <1>2, <2>2 DEF AttachesNew, Attaches
  <2> QED
    BY <1>3, <2>1, <2>2
<1>5. TakesAttachInOrder'
  <2> SUFFICES ASSUME NEW i \in 1..n + 1, NEW k \in 1..n + 1, i < k,
                      NEW o \in ToSet(groups'[k].operations), Attaches(groups'[k], o),
                      NEW x \in ToSet(groups'[i].operations), Attaches(groups'[i], x),
                      x.clip_id = o.clip_id
               PROVE  Place(x.clip.content.take.run) < Place(o.clip.content.take.run)
    <3>1. \A run : Place(run)' = Place(run)
      BY DEF Place
    <3> QED
      BY <1>2, <3>1 DEF TakesAttachInOrder, AttachedBy, Attaches
  <2>1. i \in 1..n
    BY <1>1
  <2>2. Place(x.clip.content.take.run) \in AttachedBy(i, o.clip_id)
    BY <1>2, <2>1 DEF AttachedBy
  <2>3. CASE k \in 1..n
    BY <1>1, <1>2, <2>2, <2>1, <2>3 DEF TakesInv, TakesAttachInOrder
  <2>4. CASE k = n + 1
    BY <1>1, <1>2, <2>1, <2>2, <2>4 DEF AttachesNew, Attaches
  <2> QED
    BY <1>3, <2>3, <2>4
<1>6. HeadsShowStoredTakes'
  <2>1. \A i \in 1..n + 2 : i \in 1..n + 1 \/ i = n + 2
    BY <1>1
  <2>2. \A i \in 1..n + 2 : heads'[i] \in Document(TrackNames, Showing(StoredTakes)) /\ Valid(heads'[i])
    BY <1>1, <1>2, <2>1 DEF TakesInv, HeadsShowStoredTakes, ShowsStored
  <2>3. \A g \in 1..n + 1 : groups'[g].inverse \in Seq(Operation(TrackNames, Showing(StoredTakes)))
    BY <1>2, <1>3 DEF TakesInv, HeadsShowStoredTakes, ShowsStored, n
  <2>4. HeadsShowStoredTakes' <=>
          /\ \A i \in 1..Len(heads') : heads'[i] \in Document(TrackNames, Showing(StoredTakes')) /\ Valid(heads'[i])
          /\ \A g \in 1..Len(groups') : groups'[g].inverse \in Seq(Operation(TrackNames, Showing(StoredTakes')))
    BY DEF HeadsShowStoredTakes, Document, Operation, Showing
  <2>5. StoredTakes' = StoredTakes
    BY DEF StoredTakes, TakeOf
  <2> QED
    BY <1>2, <2>2, <2>3, <2>4, <2>5
<1>7. AttachmentsKeepEdits'
  <2> SUFFICES ASSUME NEW i \in 1..n + 1, groups'[i].author = "system"
               PROVE  OnlyTakesDiffer(heads'[i], heads'[i + 1])
    BY <1>2 DEF AttachmentsKeepEdits
  <2>1. CASE i \in 1..n
    <3>1. i + 1 \in 1..n + 1
      BY <1>1, <2>1
    <3>2. heads'[i] = heads[i] /\ heads'[i + 1] = heads[i + 1] /\ groups[i].author = "system"
      BY <1>2, <2>1, <3>1
    <3>3. OnlyTakesDiffer(heads[i], heads[i + 1])
      BY <1>1, <2>1, <3>2 DEF TakesInv, AttachmentsKeepEdits
    <3> QED
      BY <3>2, <3>3, Zenon
  <2>2. CASE i = n + 1
    <3>1. n + 1 \in 1..n + 1 /\ (n + 1) + 1 = n + 2
      BY <1>1
    <3>2. heads'[i] = project.document /\ heads'[i + 1] = result.doc /\ author = "system"
      BY <1>1, <1>2, <2>2, <3>1
    <3> QED
      BY <3>2, Zenon
  <2> QED
    BY <1>3, <2>1, <2>2
<1> QED
  BY <1>4, <1>5, <1>6, <1>7

\* An owner that does not move while others edit has now read an old Head.
LEMMA SelectionAfterEdit ==
    ASSUME TakesInv, UNCHANGED <<runs, bound, Stored>>,
           NEW author, NEW operations, NEW reverts, NEW result,
           Commit(author, result, operations, reverts),
           NEW r \in Runs, owner'[r] = owner[r], view'[r] = view[r]
    PROVE  SelectionFits(r)' /\ SelectionIsNew(r)'
<1> DEFINE base == view[r].base
<1>1. base \in 1..project.revision /\ project.revision \in Nat
  BY OldReads, History DEF TakesInv
<1>2. project'.revision = project.revision + 1 /\ heads'[base] = heads[base]
  BY <1>1, CommitContinues, History DEF TakesInv
<1>3. SelectionFits(r)'
  <2> HIDE DEF base
  <2>1. /\ Selected(r) => \A c \in view[r].outputs :
              OnTimeline(heads[base], c) /\ ClipOf(heads[base], c).content.intent = runs[r].items[c]
        /\ owner[r] = "commit" => \A c \in view[r].outputs : <<r, c>> \in Stored
    BY DEF TakesInv, SelectionsHold, SelectionFits, base
  <2>2. view'[r].base = base
    BY DEF base
  <2>3. \A c \in view'[r].outputs : Selected(r) =>
           /\ OnTimeline(heads'[view'[r].base], c)
           /\ ClipOf(heads'[view'[r].base], c).content.intent = runs'[r].items[c]
    BY <1>2, <2>1, <2>2
  <2> QED
    BY <2>1, <2>3 DEF SelectionFits, Selected
<1>4. SelectionIsNew(r)'
  BY <1>1, <1>2 DEF SelectionIsNew
<1> QED
  BY <1>3, <1>4

\* Both outcomes of a patch: it is committed, or it panics and changes nothing.
LEMMA ConcludeKeepsHistory ==
    ASSUME TakesInv, UNCHANGED <<runs, bound, Stored>>,
           NEW author, NEW operations, NEW reverts, NEW result,
           Conclude(author, result, operations, reverts),
           result.outcome = "applied" =>
              /\ AttachesNew(author, operations) /\ ShowsStored(result)
              /\ author = "system" => OnlyTakesDiffer(project.document, result.doc)
    PROVE  /\ AttachedByBoundRuns' /\ TakesAttachInOrder' /\ HeadsShowStoredTakes' /\ AttachmentsKeepEdits'
           /\ project'.revision \in Nat /\ project.revision <= project'.revision
           /\ \A r \in Runs : owner'[r] = owner[r] /\ view'[r] = view[r] =>
                 SelectionFits(r)' /\ SelectionIsNew(r)'
<1>1. project.revision \in Nat /\ RunsGrow
  BY History, RunsStay DEF TakesInv
<1>2. CASE result.outcome = "applied" /\ Commit(author, result, operations, reverts)
  <2>1. project'.revision = project.revision + 1
    BY <1>2, CommitContinues DEF TakesInv
  <2> QED
    BY <1>1, <1>2, <2>1, CommitKeepsHistory, SelectionAfterEdit
<1>3. CASE PoisonMutex
  <2>1. UNCHANGED <<project, groups, heads>> /\ Stored \subseteq Stored'
    BY <1>3 DEF PoisonMutex
  <2> QED
    BY <1>1, <2>1, QuietHistory, SelectionKept
<1> QED
  BY <1>2, <1>3 DEF Conclude

\* The same for patches that show nothing but stored Takes and are not of the system.
LEMMA EditKeepsHistory ==
    ASSUME TakesInv, UNCHANGED <<runs, bound, Stored>>,
           NEW author, author # "system", NEW reverts, NEW result,
           NEW operations \in Seq(Operation(TrackNames, Showing(StoredTakes))),
           Conclude(author, result, operations, reverts),
           result.outcome = "applied" => result = Stage(project.document, operations) /\ Valid(result.doc)
    PROVE  /\ AttachedByBoundRuns' /\ TakesAttachInOrder' /\ HeadsShowStoredTakes' /\ AttachmentsKeepEdits'
           /\ project'.revision \in Nat /\ project.revision <= project'.revision
           /\ \A r \in Runs : owner'[r] = owner[r] /\ view'[r] = view[r] =>
                 SelectionFits(r)' /\ SelectionIsNew(r)'
<1>1. project.document \in Document(TrackNames, Showing(StoredTakes))
  BY History DEF TakesInv, HeadsShowStoredTakes
<1>2. AttachesNew(author, operations)
  BY DEF AttachesNew
<1>3. result.outcome = "applied" => ShowsStored(result)
  BY <1>1, PatchTypes DEF ShowsStored
<1> QED
  BY <1>2, <1>3, ConcludeKeepsHistory

\* Whoever is not an owner leaves the runs and their owners alone.
LEMMA OthersStay ==
    ASSUME TakesInv, UNCHANGED <<runs, bound, media, assets, deleting, deleted, Stored, owner, view, failures>>,
           project'.revision \in Nat, project.revision <= project'.revision
    PROVE  RunsHold' /\ RunsGrow
<1> USE DEF TakesInv
<1>1. project.revision \in Nat
  BY History
<1>2. Published' = Published
  BY DEF Published
<1>3. \A r \in Runs : view[r].base \in 1..project'.revision
  BY <1>1 DEF TakesTypeOK
<1>4. TakesTypeOK'
  BY <1>2, <1>3 DEF TakesTypeOK
<1>5. Shapes' /\ RunsHavePlaces'
  BY DEF Shapes, RunsHavePlaces, Started
<1>6. RunsGrow
  BY RunsStay
<1> QED
  BY <1>4, <1>5, <1>6 DEF RunsHold

\* Edits and undos of people and turns.
LEMMA EditProjectPreserves ==
    ASSUME TakeClients, TakesInv, EditProject
    PROVE  TakesInv'
<1> DEFINE d == project.document
<1>0. project.revision \in Nat /\ d \in Document(TrackNames, Showing(StoredTakes))
      /\ children \subseteq Children /\ Len(groups) \in Nat /\ DOMAIN groups = 1..Len(groups)
  BY History DEF TakesInv, HeadsShowStoredTakes, IndInv, TypeOK
<1>1. PICK author, operations, result, reverts :
         /\ author # "system" /\ Authorized(author) /\ project.revision < MaxRevision
         /\ acquired' = acquired /\ children' = children
         /\ operations \in Seq(Operation(TrackNames, Showing(StoredTakes)))
         /\ Conclude(author, result, operations, reverts)
         /\ result.outcome = "applied" => result = Stage(d, operations) /\ Valid(result.doc)
  <2>1. ASSUME NEW author \in {"human"} \cup Turns, NEW ops \in Requests(d),
               ApplyProjectPatch(author, project.revision, ops)
        PROVE  \E operations, result, reverts :
                 /\ author # "system" /\ Authorized(author) /\ project.revision < MaxRevision
                 /\ acquired' = acquired /\ children' = children
                 /\ operations \in Seq(Operation(TrackNames, Showing(StoredTakes)))
                 /\ Conclude(author, result, operations, reverts)
                 /\ result.outcome = "applied" => result = Stage(d, operations) /\ Valid(result.doc)
    <3> DEFINE operations == Allocate(ops, project.revision)
               result == ApplyPatch(d, operations)
    <3>1. /\ Authorized(author) /\ project.revision < MaxRevision
          /\ acquired' = acquired /\ children' = children
          /\ Conclude(author, result, operations, 0)
      BY <2>1 DEF ApplyProjectPatch
    <3>2. operations \in Seq(Operation(TrackNames, Showing(StoredTakes)))
      <4>1. ops \in Seq(Operation(TrackNames, Showing(StoredTakes)))
        BY <1>0 DEF TakeClients
      <4>2. \A x, y, z \in Nat : <<x, y, z>> \in ClipNames /\ <<x, y, z>> \in TrackNames
        BY DEF TakeClients
      <4> QED
        BY <1>0, <4>1, <4>2, AllocatedPatch
    <3> HIDE DEF operations
    <3>3. result.outcome = "applied" => result = Stage(d, operations) /\ Valid(result.doc)
      BY AppliedPatch
    <3> HIDE DEF result
    <3>4. author # "system"
      BY TurnsAssumption
    <3> QED
      BY <3>1, <3>2, <3>3, <3>4
  <2>2. ASSUME NEW g \in DOMAIN groups, RevertProjectChangeGroup(g, project.revision)
        PROVE  \E operations, result, reverts :
                 /\ "human" # "system" /\ Authorized("human") /\ project.revision < MaxRevision
                 /\ acquired' = acquired /\ children' = children
                 /\ operations \in Seq(Operation(TrackNames, Showing(StoredTakes)))
                 /\ Conclude("human", result, operations, reverts)
                 /\ result.outcome = "applied" => result = Stage(d, operations) /\ Valid(result.doc)
    <3> DEFINE operations == groups[g].inverse
               result == Revert(d, groups[g])
    <3>1. /\ project.revision < MaxRevision
          /\ acquired' = acquired /\ children' = children
          /\ Conclude("human", result, operations, g)
      BY <2>2 DEF RevertProjectChangeGroup
    <3>2. Authorized("human")
      <4>1. LiveLease.holder = "none"
        BY <2>2 DEF RevertProjectChangeGroup, NoLease
      <4> QED
        BY <4>1, TurnsAssumption DEF Authorized
    <3>3. operations \in Seq(Operation(TrackNames, Showing(StoredTakes)))
      BY <1>0 DEF TakesInv, HeadsShowStoredTakes
    <3>4. ASSUME result.outcome = "applied" PROVE result = Stage(d, operations) /\ Valid(result.doc)
      <4>1. result = ApplyPatch(d, operations) /\ ApplyPatch(d, operations).outcome = "applied"
        BY <3>4, AppliedRevert
      <4> HIDE DEF operations, result
      <4> QED
        BY <4>1, AppliedPatch
    <3> HIDE DEF operations, result
    <3> QED
      BY <3>1, <3>2, <3>3, <3>4
  <2> QED
    BY <2>1, <2>2 DEF EditProject
<1>2. UNCHANGED <<runs, bound, media, assets, deleting, deleted, Stored, owner, view, failures>>
  BY DEF EditProject, table, Stored
<1>3. IndInv'
  BY <1>0, <1>1, ConcludePreservesInvariant DEF TakesInv
<1>4. /\ AttachedByBoundRuns' /\ TakesAttachInOrder' /\ HeadsShowStoredTakes' /\ AttachmentsKeepEdits'
      /\ project'.revision \in Nat /\ project.revision <= project'.revision
      /\ \A r \in Runs : SelectionFits(r)' /\ SelectionIsNew(r)'
  BY <1>1, <1>2, EditKeepsHistory
<1>5. RunsHold'
  BY <1>2, <1>4, OthersStay
<1> QED
  BY <1>3, <1>4, <1>5 DEF TakesInv, RunsHold, SelectionsHold

\* The clips of a valid document have identities.
LEMMA TheClip ==
    ASSUME NEW d, UniqueClips(d), NEW x \in ClipsOf(d)
    PROVE  ClipOf(d, x.id) = x
<1>1. ASSUME NEW y \in ClipsOf(d), y.id = x.id PROVE y = x
  <2>1. PICK i \in DOMAIN d.tracks : \E k \in DOMAIN d.tracks[i].clips : d.tracks[i].clips[k] = x
    BY ClipIsPlaced
  <2>2. PICK k \in DOMAIN d.tracks[i].clips : d.tracks[i].clips[k] = x
    BY <2>1
  <2>3. PICK j \in DOMAIN d.tracks : \E l \in DOMAIN d.tracks[j].clips : d.tracks[j].clips[l] = y
    BY ClipIsPlaced
  <2>4. PICK l \in DOMAIN d.tracks[j].clips : d.tracks[j].clips[l] = y
    BY <2>3
  <2> QED
    BY <1>1, <2>2, <2>4 DEF UniqueClips
<1>2. \E clip \in ClipsOf(d) : clip.id = x.id
  OBVIOUS
<1> QED
  BY <1>1, <1>2 DEF ClipOf

\* An attachment that is committed was selected on the very Head it changes.
LEMMA AttachmentPreserves ==
    ASSUME TakesInv, NEW r \in Runs, CommitAttachment(r)
    PROVE  TakesInv'
<1> DEFINE d == project.document
           ops == Attachment(r)
           result == ApplyPatch(d, ops)
           S == StoredTakes
<1>1. /\ owner[r] = "commit" /\ view[r].base = project.revision /\ Authorized("system")
      /\ project.revision < MaxRevision /\ acquired' = acquired /\ children' = children
      /\ UNCHANGED <<runs, bound, media, assets, deleting, deleted, Stored, failures>>
      /\ Goto(r, "commit", IF view[r].ended THEN "none" ELSE "poll", Blank)
  BY DEF CommitAttachment, ApplyProjectPatch, Settle, Goto, table, Stored
<1>2. /\ project.revision \in Nat /\ heads[view[r].base] = d
      /\ d \in Document(TrackNames, Showing(S)) /\ Valid(d) /\ Unique(d)
  <2>1. project.revision \in 1..Len(heads) /\ heads[project.revision] = d /\ project.revision \in Nat
    BY History DEF TakesInv
  <2>2. d \in Document(TrackNames, Showing(S)) /\ Valid(d)
    BY <2>1 DEF TakesInv, HeadsShowStoredTakes
  <2> QED
    BY <1>1, <2>1, <2>2, ValidTracks DEF Unique
<1>3. ops \in Seq(Replacements(r))
  BY <1>2, AttachmentOperations
<1>4. Conclude("system", result, ops, 0)
  <2>1. Allocate(ops, project.revision) = ops
    BY <1>3, AllocatedAttachment
  <2>2. Conclude("system", ApplyPatch(d, Allocate(ops, project.revision)), Allocate(ops, project.revision), 0)
    BY DEF CommitAttachment, ApplyProjectPatch
  <2> HIDE DEF ops
  <2> QED
    BY <2>1, <2>2
<1> HIDE DEF ops
<1>5. PICK place \in 1..Len(bound) : bound[place] = r
  <2>1. Started(r)
    BY <1>1 DEF TakesInv, RunsHavePlaces
  <2> QED
    BY <2>1 DEF TakesInv, RunsHavePlaces
<1>6. ASSUME NEW o \in Replacements(r)
      PROVE  /\ o \in ReplaceClipOps(Showing(S)) /\ Retake(d, o)
             /\ o.clip.content.take.run = r /\ o.clip_id \in view[r].outputs
  <2>1. PICK x \in ClipsOf(d) : x.id \in view[r].outputs /\ o = Replacing(x, r)
    BY <1>2 DEF Replacements, Replaceable
  <2>2. x \in Clip(Showing(S))
    <3>1. PICK i \in DOMAIN d.tracks : \E k \in DOMAIN d.tracks[i].clips : d.tracks[i].clips[k] = x
      BY ClipIsPlaced
    <3> QED
      BY <1>2, <3>1, TracksOfDocument, ClipsOfTrack
  <2> DEFINE take == [run |-> r, clip |-> x.id, fingerprint |-> x.content.intent]
  <2>3. take \in S
    <3>1. x.content.intent = runs[r].items[x.id] /\ <<r, x.id>> \in Stored
      <4>1. ClipOf(d, x.id) = x
        BY <1>2, TheClip DEF Unique
      <4>2. /\ ClipOf(heads[view[r].base], x.id).content.intent = runs[r].items[x.id]
            /\ <<r, x.id>> \in Stored
        BY <1>1, <2>1 DEF TakesInv, SelectionsHold, SelectionFits, Selected
      <4> QED
        BY <1>2, <4>1, <4>2
    <3>2. take = TakeOf(<<r, x.id>>)
      BY <3>1 DEF TakeOf
    <3> QED
      BY <3>1, <3>2 DEF StoredTakes
  <2>4. o = [op |-> "replace_clip", clip_id |-> x.id, clip |-> [x EXCEPT !.content.take = take]]
    BY <2>1 DEF Replacing, WithRecordedTake
  <2>5. take.run = r
    OBVIOUS
  <2> HIDE DEF take, S
  <2>6. [x EXCEPT !.content.take = take] \in Clip(Showing(S)) /\ [x EXCEPT !.content.take = take].content.take = take
    BY <2>2, <2>3 DEF Clip, Showing
  <2>7. x.id \in ClipNames
    BY <2>2 DEF Clip
  <2>8. o \in ReplaceClipOps(Showing(S))
    BY <2>4, <2>6, <2>7 DEF ReplaceClipOps
  <2>9. Retake(d, o)
    BY <2>4 DEF Retake
  <2>10. o.clip_id = x.id /\ o.clip = [x EXCEPT !.content.take = take]
    BY <2>4
  <2>11. o.clip.content.take.run = r /\ o.clip_id \in view[r].outputs
    BY <2>1, <2>5, <2>6, <2>10, Zenon
  <2> QED
    BY <2>8, <2>9, <2>11
<1>7. /\ ops \in Seq(ReplaceClipOps(Showing(S))) /\ ops \in Seq(Operation(TrackNames, Showing(S)))
      /\ \A k \in 1..Len(ops) : ops[k] \in Replacements(r)
      /\ ToSet(ops) \subseteq Replacements(r)
  <2>1. Replacements(r) \subseteq ReplaceClipOps(Showing(S))
    BY <1>6
  <2>2. ReplaceClipOps(Showing(S)) \subseteq Operation(TrackNames, Showing(S))
    BY DEF Operation
  <2>3. \A k \in 1..Len(ops) : ops[k] \in Replacements(r)
    BY <1>3, ElementOfSeq
  <2>4. DOMAIN ops = 1..Len(ops)
    BY <1>3, LenProperties
  <2> HIDE DEF S
  <2>5. ops \in Seq(ReplaceClipOps(Showing(S)))
    BY <1>3, <2>1, SeqMonotonic
  <2>6. ops \in Seq(Operation(TrackNames, Showing(S)))
    BY <2>2, <2>5, SeqMonotonic
  <2> QED
    BY <2>3, <2>4, <2>5, <2>6 DEF ToSet
<1>8. AttachesNew("system", ops)
  <2> SUFFICES ASSUME NEW o \in ToSet(ops)
               PROVE  /\ \E i \in 1..Len(bound) : bound[i] = o.clip.content.take.run
                      /\ \A g \in DOMAIN groups : \A earlier \in AttachedBy(g, o.clip_id) :
                            earlier < Place(o.clip.content.take.run)
    BY DEF AttachesNew
  <2>1. o.clip.content.take.run = r /\ o.clip_id \in view[r].outputs
    BY <1>6, <1>7
  <2>2. o.clip_id \notin Receipts(r)
    BY <1>1, <2>1 DEF TakesInv, SelectionsHold, SelectionIsNew, Selected
  <2>3. RunsGrow /\ Place(r) = place
    BY <1>1, <1>5, RunsStay, PlaceIs DEF TakesInv
  <2>4. ASSUME NEW g \in DOMAIN groups, NEW x \in ToSet(groups[g].operations),
               Attaches(groups[g], x), x.clip_id = o.clip_id
        PROVE  Place(x.clip.content.take.run) < Place(r)
    <3>1. g \in 1..Len(groups)
      BY History DEF TakesInv
    <3>2. PICK k \in 1..Len(bound) : bound[k] = x.clip.content.take.run
      BY <2>4, <3>1 DEF TakesInv, AttachedByBoundRuns
    <3>3. Place(x.clip.content.take.run) = k
      BY <2>3, <3>2, PlaceIs DEF TakesInv
    <3>4. ~(Place(x.clip.content.take.run) >= Place(r))
      BY <2>2, <2>4 DEF Receipts
    <3> QED
      BY <2>3, <3>3, <3>4
  <2> QED
    BY <1>5, <2>1, <2>4 DEF AttachedBy
<1>9. ASSUME result.outcome = "applied"
      PROVE  ShowsStored(result) /\ OnlyTakesDiffer(d, result.doc)
  <2>1. result = Stage(d, ops) /\ Valid(result.doc)
    BY <1>9, AppliedPatch
  <2> HIDE DEF result
  <2>2. result.doc \in Document(TrackNames, Showing(S))
        /\ result.inverse \in Seq(Operation(TrackNames, Showing(S)))
    BY <1>2, <1>7, <1>9, <2>1, PatchTypes
  <2>3. Retaken(d, result.doc)
    <3>1. \A k \in 1..Len(ops) : Retake(d, ops[k])
      BY <1>6, <1>7
    <3> QED
      BY <1>2, <1>7, <1>9, <2>1, <3>1, RetakePatch
  <2>4. OnlyTakesDiffer(d, result.doc)
    BY <1>2, <2>2, <2>3, RetakenMeans
  <2> QED
    BY <2>1, <2>2, <2>4 DEF ShowsStored
<1> HIDE DEF result
<1>10. /\ AttachedByBoundRuns' /\ TakesAttachInOrder' /\ HeadsShowStoredTakes' /\ AttachmentsKeepEdits'
       /\ project'.revision \in Nat /\ project.revision <= project'.revision
       /\ \A x \in Runs : owner'[x] = owner[x] /\ view'[x] = view[x] =>
             SelectionFits(x)' /\ SelectionIsNew(x)'
  BY <1>1, <1>4, <1>8, <1>9, ConcludeKeepsHistory
<1>11. IndInv'
  <2>1. children \subseteq Children
    BY DEF TakesInv, IndInv, TypeOK
  <2> QED
    BY <1>1, <1>4, <2>1, ConcludePreservesInvariant DEF TakesInv
<1>12. PICK to \in {"none", "poll"} : Goto(r, "commit", to, Blank)
  BY <1>1
<1>13. /\ RunsHold' /\ owner'[r] = to
       /\ \A x \in Runs \ {r} : owner'[x] = owner[x] /\ view'[x] = view[x]
  <2>1. /\ Blank = Read(Blank) /\ Blank.outputs = {} /\ Blank.base \in 1..project'.revision
        /\ failures' \in 0..MaxFailures /\ media' \cup Stored' \subseteq Published
        /\ deleting' \subseteq assets'
    BY <1>1, <1>2, <1>10, OldReads
  <2> QED
    BY <1>1, <1>10, <1>12, <2>1, OwnerMoves DEF Places
<1>14. SelectionsHold'
  BY <1>10, <1>13, Unselected DEF SelectionsHold
<1> QED
  BY <1>10, <1>11, <1>13, <1>14 DEF TakesInv, RunsHold

----------------------------------------------------------------------------
(* Every step.                                                             *)

\* Steps that edit nothing.
LEMMA QuietPreserves ==
    ASSUME TakesInv, IndInv', UNCHANGED <<project, groups, heads>>, Stored \subseteq Stored',
           RunsHold', RunsGrow, SelectionsHold'
    PROVE  TakesInv'
BY QuietHistory DEF TakesInv, RunsHold

\* Steps that do not touch the Project at all.
LEMMA ForeignPreserves ==
    ASSUME TakesInv, UNCHANGED vars, Stored \subseteq Stored', RunsHold', RunsGrow, SelectionsHold'
    PROVE  TakesInv'
<1>1. IndInv'
  BY StepPreservesInvariant DEF TakesInv
<1> QED
  BY <1>1, QuietPreserves DEF vars

\* The Edit Lease comes and goes.
LEMMA LeasePreserves ==
    ASSUME TakesInv, TakeLease \/ ReleaseLease
    PROVE  TakesInv'
<1>1. /\ UNCHANGED <<project, groups, heads, runs, bound, media, assets, deleting, deleted, Stored, owner, view, failures>>
      /\ Next
  <2>1. project.revision \in 1..project.revision
    BY History DEF TakesInv
  <2>2. CASE TakeLease
    <3>1. PICK turn \in Turns : AcquireProjectEditLease(turn, project.revision)
      BY <2>2 DEF TakeLease
    <3> QED
      BY <2>1, <2>2, <3>1 DEF TakeLease, AcquireProjectEditLease, Next, table, Stored
  <2>3. CASE ReleaseLease
    <3>1. PICK turn \in Turns : ReleaseProjectEditLease(turn)
      BY <2>3 DEF ReleaseLease
    <3> QED
      BY <2>3, <3>1 DEF ReleaseLease, ReleaseProjectEditLease, Next, table, Stored
  <2> QED
    BY <2>2, <2>3
<1>2. IndInv'
  BY <1>1, StepPreservesInvariant DEF TakesInv
<1>3. RunsHold' /\ RunsGrow
  <2>1. project'.revision = project.revision /\ project.revision \in Nat
    BY <1>1, History DEF TakesInv
  <2> QED
    BY <1>1, <2>1, OthersStay
<1>4. SelectionsHold'
  BY <1>1, <1>3, SelectionKept DEF SelectionsHold
<1> QED
  BY <1>1, <1>2, <1>3, <1>4, QuietPreserves

\* A restart ends the runs and starts the owners anew.
LEMMA RestartPreserves ==
    ASSUME TakesInv, RestartHost
    PROVE  TakesInv'
<1> USE DEF TakesInv
<1>1. /\ Restart /\ UNCHANGED <<project, groups, heads, bound, media, assets, deleted, Stored>> /\ deleting' = {}
      /\ failures < MaxFailures /\ failures' = failures + 1
      /\ owner' = [r \in Runs |-> IF runs[r].outputs # {} THEN "poll" ELSE "none"]
      /\ view' = [r \in Runs |-> Blank]
      /\ DOMAIN runs' = Runs
      /\ \A r \in Runs : runs'[r] =
            CASE runs[r].status = "running" -> [runs[r] EXCEPT !.status = "ended"]
              [] runs[r].status = "planned" -> Unplanned
              [] OTHER -> runs[r]
  BY DEF RestartHost, Restart, Fail, Stored
<1>2. IndInv'
  BY <1>1, StepPreservesInvariant DEF Next
<1>3. ASSUME NEW r \in Runs
      PROVE  /\ runs'[r].status \in {"none", "planned", "running", "ended"}
             /\ runs'[r].outputs = runs[r].outputs
             /\ Started(r) => runs'[r].items = runs[r].items
             /\ Started(r)' <=> Started(r)
             /\ runs'[r].outputs \subseteq DOMAIN runs'[r].items
             /\ runs'[r] = [status |-> runs'[r].status, items |-> runs'[r].items,
                            outputs |-> runs'[r].outputs]
  <2>1. /\ runs[r].status \in {"none", "planned", "running", "ended"}
        /\ runs[r].outputs \subseteq DOMAIN runs[r].items
        /\ runs[r] = [status |-> runs[r].status, items |-> runs[r].items, outputs |-> runs[r].outputs]
    BY DEF TakesTypeOK, Shapes
  <2>2. runs[r].outputs # {} => Started(r)
    BY DEF RunsHavePlaces
  <2> HIDE DEF TakesInv
  <2>3. CASE runs[r].status = "running"
    <3>1. runs'[r] = [status |-> "ended", items |-> runs[r].items, outputs |-> runs[r].outputs]
      BY <1>1, <2>1, <2>3
    <3> QED
      BY <2>1, <2>3, <3>1 DEF Started
  <2>4. CASE runs[r].status = "planned"
    <3>1. runs'[r] = [status |-> "none", items |-> NoItems, outputs |-> {}]
      BY <1>1, <2>4 DEF Unplanned
    <3> QED
      BY <2>2, <2>4, <3>1 DEF Started
  <2>5. CASE runs[r].status \in {"none", "ended"}
    <3>1. runs'[r] = runs[r]
      BY <1>1, <2>5
    <3> QED
      BY <2>1, <3>1 DEF Started
  <2> QED
    BY <2>1, <2>3, <2>4, <2>5
<1>4. Blank = Read(Blank) /\ Blank.outputs = {} /\ Blank.base \in 1..project.revision
  <2>1. project.revision \in Nat \ {0} /\ Blank.base = 1
    BY History DEF Blank
  <2> QED
    BY <2>1 DEF Blank, Read
<1>5. TakesTypeOK'
  <2>1. Published' = Published
    BY <1>3 DEF Published
  <2>2. failures' \in 0..MaxFailures
    BY <1>1, MaxFailuresAssumption DEF TakesTypeOK
  <2>3. owner' \in [Runs -> Places]
    BY <1>1 DEF Places
  <2>4. \A r \in Runs : /\ view'[r].base \in 1..project'.revision
                        /\ view'[r].outputs \subseteq runs'[r].outputs
    BY <1>1, <1>4
  <2>5. media' \cup Stored' \subseteq Published
    BY <1>1 DEF TakesTypeOK
  <2> QED
    BY <1>1, <1>3, <2>1, <2>2, <2>3, <2>4, <2>5 DEF TakesTypeOK
<1>6. Shapes'
  <2>1. DOMAIN view' = Runs /\ \A r \in Runs : view'[r] = Blank
    BY <1>1
  <2>2. Blank = [ended |-> Blank.ended, outputs |-> Blank.outputs, base |-> Blank.base]
    BY DEF Blank
  <2> QED
    BY <1>1, <1>3, <2>1, <2>2 DEF Shapes
<1>7. RunsHavePlaces'
  <2>1. \A r \in Runs : runs'[r].outputs # {} \/ owner'[r] # "none" => runs[r].outputs # {}
    BY <1>1, <1>3
  <2> QED
    BY <1>1, <1>3, <2>1 DEF RunsHavePlaces
<1>8. RunsGrow
  <2>1. Len(bound) \in Nat
    BY LenProperties DEF RunsHavePlaces
  <2> QED
    BY <1>1, <1>3, <2>1 DEF RunsGrow, RunsHavePlaces
<1>9. SelectionsHold'
  <2>1. \A r \in Runs : owner'[r] \notin {"attach", "commit"}
    BY <1>1
  <2> QED
    BY <2>1, Unselected DEF SelectionsHold
<1> HIDE DEF TakesInv
<1> QED
  BY <1>1, <1>2, <1>5, <1>6, <1>7, <1>8, <1>9, QuietPreserves DEF RunsHold

\* All of them.
LEMMA StepPreservesTakes ==
    ASSUME TakeClients, TakesInv, [TakesNext]_allVars
    PROVE  TakesInv'
<1>1. ASSUME NEW r \in Runs, Plan(r) \/ StartRun(r) \/ Publish(r) \/ EndRun(r)
      PROVE  TakesInv'
  <2>1. UNCHANGED vars /\ Stored' = Stored
    BY <1>1 DEF Plan, StartRun, Publish, EndRun, Stored
  <2>2. RunsHold' /\ RunsGrow /\ SelectionsHold'
    BY <1>1, PlanPreserves, StartRunPreserves, RecordingPreserves
  <2> QED
    BY <2>1, <2>2, ForeignPreserves
<1>2. ASSUME NEW r \in Runs, Poll(r) \/ ReadJob(r) \/ ReadHead(r) \/ ReadReceipts(r) \/ PutAssets(r)
      PROVE  TakesInv'
  <2>1. UNCHANGED vars /\ Stored \subseteq Stored'
    BY <1>2 DEF Poll, ReadJob, ReadHead, ReadReceipts, PutAssets, table, Stored
  <2>2. RunsHold' /\ RunsGrow /\ SelectionsHold'
    BY <1>2, ReadingPreserves, ReceiptsPreserve, AssetsPreserve
  <2> QED
    BY <2>1, <2>2, ForeignPreserves
<1>3. ASSUME NEW r \in Runs,
             \/ NothingToAttach(r) \/ MediaUnavailable(r) \/ AttachmentRefused(r) \/ TransientError(r)
      PROVE  TakesInv'
  BY <1>3, EndedPollPreserves, ForeignPreserves
<1>4. ASSUME NEW r \in Runs, CommitAttachment(r) PROVE TakesInv'
  BY <1>4, AttachmentPreserves
<1>5. CASE EditProject
  BY <1>5, EditProjectPreserves
<1>6. CASE TakeLease \/ ReleaseLease
  BY <1>6, LeasePreserves
<1>7. CASE DeleteOutput
  <2>1. UNCHANGED vars /\ Stored' = Stored
    BY <1>7 DEF DeleteOutput, Stored
  <2> QED
    BY <1>7, <2>1, DeletionPreserves, ForeignPreserves
<1>8. CASE RestartHost
  BY <1>8, RestartPreserves
<1>10. CASE CheckAsset \/ DeleteAsset
  BY <1>10, AssetDeletionPreserves, ForeignPreserves
<1>9. CASE UNCHANGED allVars
  <2>1. /\ UNCHANGED vars /\ UNCHANGED <<project, groups, heads, Stored>>
        /\ UNCHANGED <<runs, bound, media, assets, deleting, deleted, owner, view, failures>>
    BY <1>9 DEF allVars, table, vars, Stored
  <2>2. project'.revision = project.revision /\ project.revision \in Nat
    BY <2>1, History DEF TakesInv
  <2>3. RunsHold' /\ RunsGrow
    BY <2>1, <2>2, OthersStay
  <2>4. SelectionsHold'
    BY <2>1, <2>3, SelectionKept DEF SelectionsHold
  <2> QED
    BY <2>1, <2>3, <2>4, ForeignPreserves
<1> QED
  BY <1>1, <1>2, <1>3, <1>4, <1>5, <1>6, <1>7, <1>8, <1>9, <1>10 DEF TakesNext, Own

----------------------------------------------------------------------------
(* The theorems.                                                           *)

\* What a clip of the history shows has its row.
LEMMA ShownTakesAreStored ==
    ASSUME TakesInv, NEW i \in DOMAIN heads, NEW clip \in ClipsOf(heads[i]),
           clip.content.take # NoTake
    PROVE  clip.content.take \in StoredTakes
<1> DEFINE d == heads[i]
<1>1. d \in Document(TrackNames, Showing(StoredTakes))
  BY History DEF TakesInv, HeadsShowStoredTakes
<1>2. PICK k \in DOMAIN d.tracks : \E n \in DOMAIN d.tracks[k].clips : d.tracks[k].clips[n] = clip
  BY ClipIsPlaced
<1>3. clip \in Clip(Showing(StoredTakes))
  BY <1>1, <1>2, TracksOfDocument, ClipsOfTrack
<1> QED
  BY <1>3 DEF Clip, Showing

\* The inductive invariant: selections are of the Head they were read on, and
\* documents show stored Takes only (reconcile_project_recording reads the
\* Head before the receipts and stores the assets before the patch).
THEOREM TakesInvariant ==
    ASSUME TakeClients
    PROVE  TakesSpec => []TakesInv
<1>1. TakesInit => TakesInv
  BY InitEstablishesTakes
<1>2. TakesInv /\ [TakesNext]_allVars => TakesInv'
  BY StepPreservesTakes
<1> QED
  BY <1>1, <1>2, PTL DEF TakesSpec

\* Types.
THEOREM TakesTypesCorrect ==
    ASSUME TakeClients
    PROVE  TakesSpec => []TakesTypeOK
<1>1. TakesInv => TakesTypeOK
  BY DEF TakesInv
<1> QED
  BY <1>1, TakesInvariant, PTL

\* A clip receives the Takes of its runs in the order of the runs, each at
\* most once, and an undone attachment is never repeated
\* (reconciled_recording_clip_ids).
THEOREM TakesArriveInOrder ==
    ASSUME TakeClients
    PROVE  TakesSpec => []TakesAttachInOrder
<1>1. TakesInv => TakesAttachInOrder
  BY DEF TakesInv
<1> QED
  BY <1>1, TakesInvariant, PTL

\* Every Take of every revision vouches for the intent that its run captured
\* (with_recorded_take and the fingerprint of the planned item).
THEOREM TakesVouchForTheirIntent ==
    ASSUME TakeClients
    PROVE  TakesSpec => []TakesShowTheirIntent
<1>1. TakesInv => TakesShowTheirIntent
  <2> SUFFICES ASSUME TakesInv, NEW i \in DOMAIN heads, NEW clip \in ClipsOf(heads[i]),
                      clip.content.take # NoTake
               PROVE  clip.content.take.fingerprint
                        = runs[clip.content.take.run].items[clip.content.take.clip]
    BY DEF TakesShowTheirIntent
  <2>1. clip.content.take \in StoredTakes
    BY ShownTakesAreStored
  <2> QED
    BY <2>1 DEF StoredTakes, TakeOf
<1> QED
  BY <1>1, TakesInvariant, PTL

\* Every Take of every revision has its media_assets row (put_asset comes
\* before the patch), or had it until a person deleted it (delete_asset).
THEOREM TakesAreStored ==
    ASSUME TakeClients
    PROVE  TakesSpec => []TakesHaveAssets
<1>1. TakesInv => TakesHaveAssets
  <2> SUFFICES ASSUME TakesInv, NEW i \in DOMAIN heads, NEW clip \in ClipsOf(heads[i]),
                      clip.content.take # NoTake
               PROVE  <<clip.content.take.run, clip.content.take.clip>> \in Stored
    BY DEF TakesHaveAssets
  <2>1. PICK output \in Stored : clip.content.take = TakeOf(output)
    BY ShownTakesAreStored DEF StoredTakes
  <2>2. PICK r \in Runs : output \in {r} \X runs[r].outputs
    BY DEF TakesInv, TakesTypeOK, Published
  <2>3. output = <<output[1], output[2]>>
    BY <2>2
  <2> QED
    BY <2>1, <2>3 DEF TakeOf
<1> QED
  BY <1>1, TakesInvariant, PTL

\* An attachment changes Takes and nothing else, on the Head its owner read
\* (the patch keeps its base revision through every retry).
THEOREM AttachmentsPreserveEdits ==
    ASSUME TakeClients
    PROVE  TakesSpec => []AttachmentsKeepEdits
<1>1. TakesInv => AttachmentsKeepEdits
  BY DEF TakesInv
<1> QED
  BY <1>1, TakesInvariant, PTL
============================================================================
