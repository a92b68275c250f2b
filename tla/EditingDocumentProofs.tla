----------------------- MODULE EditingDocumentProofs -----------------------
(***************************************************************************)
(* Proofs about the algebra of edit operations, for every document and     *)
(* every patch whose parts have the types of the code.                     *)
(***************************************************************************)
EXTENDS EditingDocument, FiniteSetTheorems, SequenceTheorems, WellFoundedInduction, TLAPS

CONSTANTS ClipNames, Kinds, Values   \* identities of clips, kinds, field values

\* T: the identities of tracks; C: what clips show.
Clip(C) == [id : ClipNames, content : C]
Track(T, C) == [id : T, kind : Kinds, clips : Seq(Clip(C))]
Document(T, C) ==
    [name : Values, settings : Values, markers : Values, tracks : Seq(Track(T, C))]

\* EditOperation.
Positions == Nat \ {0}
ReplaceFieldOps == [op : {"replace_field"}, field : {"name", "settings", "markers"}, value : Values]
InsertTrackOps(T, C) == [op : {"insert_track"}, at : Positions, track : Track(T, C)]
RemoveTrackOps(T) == [op : {"remove_track"}, track_id : T]
ReplaceTrackOps(T, C) == [op : {"replace_track"}, track_id : T, track : Track(T, C)]
ReorderTracksOps(T) == [op : {"reorder_tracks"}, track_ids : Seq(T)]
InsertClipOps(T, C) == [op : {"insert_clip"}, track_id : T, at : Positions, clip : Clip(C)]
RemoveClipOps == [op : {"remove_clip"}, clip_id : ClipNames]
ReplaceClipOps(C) == [op : {"replace_clip"}, clip_id : ClipNames, clip : Clip(C)]
MoveClipOps(T) == [op : {"move_clip"}, clip_id : ClipNames, to_track_id : T, at : Positions]
ReplaceTrackClipsOps(T, C) == [op : {"replace_track_clips"}, track_id : T, clips : Seq(Clip(C))]

Operation(T, C) ==
    ReplaceFieldOps
      \cup InsertTrackOps(T, C) \cup RemoveTrackOps(T) \cup ReplaceTrackOps(T, C)
      \cup ReorderTracksOps(T)
      \cup InsertClipOps(T, C) \cup RemoveClipOps \cup ReplaceClipOps(C) \cup MoveClipOps(T)
      \cup ReplaceTrackClipsOps(T, C)

UniqueTracks(d) == \A i, j \in DOMAIN d.tracks : d.tracks[i].id = d.tracks[j].id => i = j

----------------------------------------------------------------------------
(* Induction, and the first of several.                                    *)

\* A set of numbers that is not empty has a least one.
LEMMA LeastOf == ASSUME NEW S, S \subseteq Nat, S # {} PROVE \E i \in S : \A j \in S : i <= j
<1> DEFINE R == {ss \in Nat \X Nat : ss[1] < ss[2]}
<1>1. IsWellFoundedOn(R, Nat)
  BY NatLessThanWellFounded, Zenon DEF OpToRel
<1>2. \A x, y \in Nat : x < y => <<x, y>> \in R
  OBVIOUS
<1> HIDE DEF R
<1>3. PICK i \in S : \A j \in S : ~(<<j, i>> \in R)
  BY <1>1, WFMin
<1>4. \A j \in S : ~(j < i)
  BY <1>2, <1>3
<1>5. \A j \in S : i <= j
  BY <1>4
<1> QED
  BY <1>5

\* A set that contains 0 and with each number the next one contains them all.
LEMMA UpToEach ==
    ASSUME NEW m \in Nat, NEW S, 0 \in S, \A n \in 0..m : n \in S /\ n < m => n + 1 \in S
    PROVE  0..m \subseteq S
<1> SUFFICES ASSUME (0..m) \ S # {} PROVE FALSE
  OBVIOUS
<1>0. (0..m) \ S \subseteq Nat
  OBVIOUS
<1>1. PICK i \in (0..m) \ S : \A j \in (0..m) \ S : i <= j
  BY <1>0, LeastOf
<1>2. i # 0 /\ i - 1 \in 0..m /\ (i - 1) + 1 = i /\ i - 1 < m /\ ~(i <= i - 1)
  BY <1>1
<1>3. i - 1 \in S
  BY <1>1, <1>2
<1>4. i \in S
  BY <1>2, <1>3
<1> QED
  BY <1>1, <1>4

\* First is 0 for the empty set, and otherwise the least element.
LEMMA FirstProperties ==
    ASSUME NEW S, S \subseteq Positions
    PROVE  /\ S = {} => First(S) = 0
           /\ S # {} => First(S) \in S /\ \A j \in S : First(S) <= j
<1>1. S # {} => \E i \in S : \A j \in S : i <= j
  BY LeastOf DEF Positions
<1> QED
  BY <1>1 DEF First

\* The only element is the first.
LEMMA FirstIs ==
    ASSUME NEW S, S \subseteq Positions, NEW i \in S, \A j \in S : j = i
    PROVE  First(S) = i
BY FirstProperties

----------------------------------------------------------------------------
(* Sequences.                                                              *)

\* What Vec::insert does: the new element at its place, the rest moved up.
LEMMA Inserted ==
    ASSUME NEW X, NEW s \in Seq(X), NEW e \in X, NEW i \in 1..Len(s) + 1
    PROVE  /\ InsertAt(s, i, e) \in Seq(X) /\ Len(InsertAt(s, i, e)) = Len(s) + 1
           /\ InsertAt(s, i, e)[i] = e
           /\ \A k \in 1..i - 1 : InsertAt(s, i, e)[k] = s[k]
           /\ \A k \in i..Len(s) : InsertAt(s, i, e)[k + 1] = s[k]
<1> DEFINE p == SubSeq(s, 1, i - 1)
           q == SubSeq(s, i, Len(s))
           pe == p \o <<e>>
<1>0. i \in Nat /\ Len(s) \in Nat /\ i - 1 \in 0..Len(s)
  BY LenProperties
<1>1. p \in Seq(X) /\ Len(p) = i - 1 /\ \A k \in 1..i-1 : p[k] = s[k]
  BY <1>0, SubSeqProperties
<1>2. q \in Seq(X) /\ Len(q) = Len(s) - i + 1 /\ \A k \in 1..Len(q) : q[k] = s[k + i - 1]
  BY <1>0, SubSeqProperties
<1>3. InsertAt(s, i, e) = pe \o q
  BY DEF InsertAt
<1> HIDE DEF p, q
<1>4. <<e>> \in Seq(X) /\ Len(<<e>>) = 1 /\ <<e>>[1] = e
  OBVIOUS
<1>5. pe \in Seq(X) /\ Len(pe) = i /\ pe[i] = e /\ \A k \in 1..i - 1 : pe[k] = s[k]
  BY <1>0, <1>1, <1>4, ConcatProperties
<1> HIDE DEF pe
<1>6. /\ pe \o q \in Seq(X) /\ Len(pe \o q) = Len(s) + 1
      /\ \A k \in 1..Len(s) + 1 : (pe \o q)[k] = IF k <= i THEN pe[k] ELSE q[k - i]
  BY <1>0, <1>2, <1>5, ConcatProperties
<1>7. \A k \in i..Len(s) : (pe \o q)[k + 1] = s[k]
  <2> SUFFICES ASSUME NEW k \in i..Len(s) PROVE (pe \o q)[k + 1] = s[k]
    OBVIOUS
  <2>1. k + 1 - i \in 1..Len(q) /\ ~(k + 1 <= i) /\ k + 1 \in 1..Len(s) + 1 /\ (k + 1 - i) + i - 1 = k
    BY <1>0, <1>2
  <2> QED
    BY <1>2, <1>6, <2>1
<1> QED
  BY <1>0, <1>3, <1>5, <1>6, <1>7

\* What Vec::remove does: the rest moved down.
LEMMA Removed ==
    ASSUME NEW X, NEW s \in Seq(X), NEW i \in 1..Len(s)
    PROVE  /\ RemoveAt(s, i) \in Seq(X) /\ Len(RemoveAt(s, i)) = Len(s) - 1
           /\ \A k \in 1..i - 1 : RemoveAt(s, i)[k] = s[k]
           /\ \A k \in i..Len(s) - 1 : RemoveAt(s, i)[k] = s[k + 1]
<1> DEFINE p == SubSeq(s, 1, i - 1)
           q == SubSeq(s, i + 1, Len(s))
<1>0. i \in Nat /\ Len(s) \in Nat /\ i - 1 \in 0..Len(s)
  BY LenProperties
<1>1. p \in Seq(X) /\ Len(p) = i - 1 /\ \A k \in 1..i-1 : p[k] = s[k]
  BY <1>0, SubSeqProperties
<1>2. q \in Seq(X) /\ Len(q) = Len(s) - i /\ \A k \in 1..Len(q) : q[k] = s[k + i]
  <2>1. i + 1 \in 1..Len(s) + 1
    BY <1>0
  <2> QED
    BY <1>0, <2>1, SubSeqProperties
<1>3. RemoveAt(s, i) = p \o q
  BY DEF RemoveAt
<1> HIDE DEF p, q
<1>4. /\ p \o q \in Seq(X) /\ Len(p \o q) = Len(s) - 1
      /\ \A k \in 1..Len(s) - 1 : (p \o q)[k] = IF k <= i - 1 THEN p[k] ELSE q[k - (i - 1)]
  BY <1>0, <1>1, <1>2, ConcatProperties
<1>5. \A k \in i..Len(s) - 1 : (p \o q)[k] = s[k + 1]
  <2> SUFFICES ASSUME NEW k \in i..Len(s) - 1 PROVE (p \o q)[k] = s[k + 1]
    OBVIOUS
  <2>1. k - (i - 1) \in 1..Len(q) /\ ~(k <= i - 1) /\ k \in 1..Len(s) - 1 /\ (k - (i - 1)) + i = k + 1
    BY <1>0, <1>2
  <2> QED
    BY <1>2, <1>4, <2>1
<1> QED
  BY <1>0, <1>1, <1>3, <1>4, <1>5

\* A function on 1..n is a sequence.
LEMMA MadeSequence ==
    ASSUME NEW X, NEW n \in Nat, NEW f \in [1..n -> X]
    PROVE  f \in Seq(X) /\ Len(f) = n /\ DOMAIN f = 1..n
OBVIOUS

\* What was replaced is put back.
LEMMA ExceptBack ==
    ASSUME NEW X, NEW s \in Seq(X), NEW i \in 1..Len(s), NEW x \in X
    PROVE  [[s EXCEPT ![i] = x] EXCEPT ![i] = s[i]] = s
<1>1. s \in [1..Len(s) -> X]
  BY LenProperties
<1> QED
  BY <1>1

\* Taking out what was put in gives the sequence back.
LEMMA RemoveInserted ==
    ASSUME NEW X, NEW s \in Seq(X), NEW e \in X, NEW i \in 1..Len(s) + 1
    PROVE  RemoveAt(InsertAt(s, i, e), i) = s
<1> DEFINE t == InsertAt(s, i, e)
           u == RemoveAt(t, i)
<1>0. Len(s) \in Nat /\ i \in Nat
  BY LenProperties
<1>1. /\ t \in Seq(X) /\ Len(t) = Len(s) + 1
      /\ \A k \in 1..i - 1 : t[k] = s[k]
      /\ \A k \in i..Len(s) : t[k + 1] = s[k]
  BY Inserted
<1> HIDE DEF t
<1>2. /\ u \in Seq(X) /\ Len(u) = Len(s)
      /\ \A k \in 1..i - 1 : u[k] = t[k]
      /\ \A k \in i..Len(s) : u[k] = t[k + 1]
  <2>1. i \in 1..Len(t) /\ Len(t) - 1 = Len(s)
    BY <1>0, <1>1
  <2>2. /\ u \in Seq(X) /\ Len(u) = Len(t) - 1
        /\ \A k \in 1..i - 1 : u[k] = t[k]
        /\ \A k \in i..Len(t) - 1 : u[k] = t[k + 1]
    BY <1>1, <2>1, Removed
  <2> QED
    BY <2>1, <2>2
<1> HIDE DEF u
<1>3. ASSUME NEW k \in 1..Len(s) PROVE u[k] = s[k]
  <2>1. k \in 1..i - 1 \/ k \in i..Len(s)
    BY <1>0
  <2> QED
    BY <1>1, <1>2, <2>1
<1>4. u = s
  BY <1>0, <1>2, <1>3, SeqEqual
<1> QED
  BY <1>4 DEF t, u

\* Putting back what was taken out gives the sequence back.
LEMMA InsertRemoved ==
    ASSUME NEW X, NEW s \in Seq(X), NEW i \in 1..Len(s)
    PROVE  InsertAt(RemoveAt(s, i), i, s[i]) = s
<1> DEFINE t == RemoveAt(s, i)
           u == InsertAt(t, i, s[i])
<1>0. Len(s) \in Nat /\ i \in Nat /\ s[i] \in X
  BY LenProperties, ElementOfSeq
<1>1. /\ t \in Seq(X) /\ Len(t) = Len(s) - 1
      /\ \A k \in 1..i - 1 : t[k] = s[k]
      /\ \A k \in i..Len(s) - 1 : t[k] = s[k + 1]
  BY Removed
<1> HIDE DEF t
<1>2. /\ u \in Seq(X) /\ Len(u) = Len(s) /\ u[i] = s[i]
      /\ \A k \in 1..i - 1 : u[k] = t[k]
      /\ \A k \in i..Len(s) - 1 : u[k + 1] = t[k]
  <2>1. i \in 1..Len(t) + 1 /\ Len(t) + 1 = Len(s) /\ t \in Seq(X) /\ s[i] \in X
    BY <1>0, <1>1
  <2>2. /\ u \in Seq(X) /\ Len(u) = Len(t) + 1 /\ u[i] = s[i]
        /\ \A k \in 1..i - 1 : u[k] = t[k]
        /\ \A k \in i..Len(t) : u[k + 1] = t[k]
    BY <2>1, Inserted
  <2> HIDE DEF u
  <2>3. Len(s) - 1 = Len(t)
    BY <1>1
  <2> QED
    BY <2>1, <2>2, <2>3
<1> HIDE DEF u
<1>3. ASSUME NEW k \in i + 1..Len(s) PROVE u[k] = s[k]
  <2>1. k - 1 \in i..Len(s) - 1 /\ (k - 1) + 1 = k
    BY <1>0
  <2>2. u[(k - 1) + 1] = t[k - 1]
    BY <1>2, <2>1
  <2>3. t[k - 1] = s[(k - 1) + 1]
    BY <1>1, <2>1
  <2> QED
    BY <2>1, <2>2, <2>3
<1>4. ASSUME NEW k \in 1..Len(s) PROVE u[k] = s[k]
  <2>1. k \in 1..i - 1 \/ k = i \/ k \in i + 1..Len(s)
    BY <1>0
  <2> QED
    BY <1>1, <1>2, <1>3, <2>1
<1>5. u = s
  BY <1>0, <1>2, <1>4, SeqEqual
<1> QED
  BY <1>5 DEF t, u

----------------------------------------------------------------------------
(* Documents, their tracks and their clips.                                *)

\* The tracks of a document, typed.
LEMMA TracksOfDocument ==
    ASSUME NEW T, NEW C, NEW d \in Document(T, C)
    PROVE  /\ d.tracks \in Seq(Track(T, C))
           /\ Len(d.tracks) \in Nat
           /\ DOMAIN d.tracks = 1..Len(d.tracks)
           /\ \A i \in DOMAIN d.tracks : d.tracks[i] \in Track(T, C)
<1>1. d.tracks \in Seq(Track(T, C))
  BY DEF Document
<1> QED
  BY <1>1, LenProperties, ElementOfSeq

\* The parts of a track, typed.
LEMMA ClipsOfTrack ==
    ASSUME NEW T, NEW C, NEW track \in Track(T, C)
    PROVE  /\ track.id \in T
           /\ track.clips \in Seq(Clip(C))
           /\ Len(track.clips) \in Nat
           /\ DOMAIN track.clips = 1..Len(track.clips)
           /\ \A i \in DOMAIN track.clips : track.clips[i] \in Clip(C)
<1>1. track.clips \in Seq(Clip(C)) /\ track.id \in T
  BY DEF Track
<1> QED
  BY <1>1, LenProperties, ElementOfSeq

\* Documents with the same parts are equal.
LEMMA SameDocument ==
    ASSUME NEW T, NEW C, NEW d \in Document(T, C), NEW e \in Document(T, C),
           d.name = e.name, d.settings = e.settings, d.markers = e.markers,
           d.tracks = e.tracks
    PROVE  d = e
BY DEF Document

\* Tracks that agree place by place are the same.
LEMMA SameTracks ==
    ASSUME NEW T, NEW C, NEW d \in Document(T, C), NEW e \in Document(T, C),
           DOMAIN d.tracks = DOMAIN e.tracks,
           \A i \in DOMAIN d.tracks : d.tracks[i] = e.tracks[i]
    PROVE  d.tracks = e.tracks
<1>1. Len(d.tracks) = Len(e.tracks)
  BY TracksOfDocument
<1> QED
  BY <1>1, TracksOfDocument, SeqEqual

\* Tracks with the same parts are equal.
LEMMA SameTrack ==
    ASSUME NEW T, NEW C, NEW x \in Track(T, C), NEW y \in Track(T, C),
           x.id = y.id, x.kind = y.kind, x.clips = y.clips
    PROVE  x = y
BY DEF Track

\* The same tracks at the same places, whatever they hold.
KeepsIds(d, e) ==
    /\ DOMAIN e.tracks = DOMAIN d.tracks
    /\ \A j \in DOMAIN d.tracks : e.tracks[j].id = d.tracks[j].id

\* A document with other tracks.
LEMMA OtherTracks ==
    ASSUME NEW T, NEW C, NEW d \in Document(T, C), NEW s \in Seq(Track(T, C)),
           NEW e, e = [d EXCEPT !.tracks = s]
    PROVE  /\ e \in Document(T, C)
           /\ e.tracks = s
           /\ e.name = d.name /\ e.settings = d.settings /\ e.markers = d.markers
BY DEF Document

\* A document gets its tracks back.
LEMMA TracksBack ==
    ASSUME NEW T, NEW C, NEW d \in Document(T, C), NEW s,
           NEW e, e = [d EXCEPT !.tracks = s]
    PROVE  [e EXCEPT !.tracks = d.tracks] = d
BY DEF Document

\* A track with other clips keeps its place, its identity and its neighbours.
LEMMA OtherClips ==
    ASSUME NEW T, NEW C, NEW d \in Document(T, C), NEW i \in DOMAIN d.tracks,
           NEW clips \in Seq(Clip(C)), NEW e, e = WithClips(d, i, clips)
    PROVE  /\ e \in Document(T, C)
           /\ e.name = d.name /\ e.settings = d.settings /\ e.markers = d.markers
           /\ KeepsIds(d, e)
           /\ DOMAIN e.tracks = DOMAIN d.tracks
           /\ \A j \in DOMAIN d.tracks : e.tracks[j].id = d.tracks[j].id
           /\ \A j \in DOMAIN d.tracks : e.tracks[j].kind = d.tracks[j].kind
           /\ e.tracks[i].clips = clips
           /\ \A j \in DOMAIN d.tracks \ {i} : e.tracks[j] = d.tracks[j]
<1> DEFINE track == [d.tracks[i] EXCEPT !.clips = clips]
           s == [d.tracks EXCEPT ![i] = track]
<1>1. d.tracks[i] \in Track(T, C) /\ d.tracks \in Seq(Track(T, C)) /\ i \in 1..Len(d.tracks)
  BY TracksOfDocument
<1>2. track \in Track(T, C) /\ track.id = d.tracks[i].id /\ track.kind = d.tracks[i].kind
      /\ track.clips = clips
  BY <1>1 DEF Track
<1>3. e = [d EXCEPT !.tracks = s]
  BY DEF WithClips
<1> HIDE DEF track
<1>4. /\ s \in Seq(Track(T, C)) /\ DOMAIN s = DOMAIN d.tracks
      /\ s[i] = track /\ \A j \in DOMAIN d.tracks \ {i} : s[j] = d.tracks[j]
  BY <1>1, <1>2, ExceptSeq
<1> HIDE DEF s
<1>5. e \in Document(T, C) /\ e.tracks = s
      /\ e.name = d.name /\ e.settings = d.settings /\ e.markers = d.markers
  BY <1>3, <1>4, OtherTracks
<1> QED
  BY <1>2, <1>4, <1>5 DEF KeepsIds

\* A track gets its clips back.
LEMMA ClipsBack ==
    ASSUME NEW T, NEW C, NEW d \in Document(T, C), NEW i \in DOMAIN d.tracks,
           NEW clips \in Seq(Clip(C))
    PROVE  WithClips(WithClips(d, i, clips), i, d.tracks[i].clips) = d
<1> DEFINE e == WithClips(d, i, clips)
           f == WithClips(e, i, d.tracks[i].clips)
<1>0. d.tracks[i] \in Track(T, C) /\ d.tracks[i].clips \in Seq(Clip(C))
  BY TracksOfDocument, ClipsOfTrack
<1>1. /\ e \in Document(T, C)
      /\ e.name = d.name /\ e.settings = d.settings /\ e.markers = d.markers
      /\ DOMAIN e.tracks = DOMAIN d.tracks
      /\ \A j \in DOMAIN d.tracks : e.tracks[j].id = d.tracks[j].id
      /\ \A j \in DOMAIN d.tracks : e.tracks[j].kind = d.tracks[j].kind
      /\ \A j \in DOMAIN d.tracks \ {i} : e.tracks[j] = d.tracks[j]
  BY OtherClips
<1> HIDE DEF e
<1>2. /\ f \in Document(T, C)
      /\ f.name = e.name /\ f.settings = e.settings /\ f.markers = e.markers
      /\ DOMAIN f.tracks = DOMAIN e.tracks
      /\ \A j \in DOMAIN e.tracks : f.tracks[j].id = e.tracks[j].id
      /\ \A j \in DOMAIN e.tracks : f.tracks[j].kind = e.tracks[j].kind
      /\ f.tracks[i].clips = d.tracks[i].clips
      /\ \A j \in DOMAIN e.tracks \ {i} : f.tracks[j] = e.tracks[j]
  BY <1>0, <1>1, OtherClips
<1> HIDE DEF f
<1>3. f.tracks[i] \in Track(T, C)
  BY <1>1, <1>2, TracksOfDocument
<1>4. f.tracks[i] = d.tracks[i]
  BY <1>0, <1>1, <1>2, <1>3, SameTrack
<1>5. \A j \in DOMAIN f.tracks : f.tracks[j] = d.tracks[j]
  BY <1>1, <1>2, <1>4
<1>6. f.tracks = d.tracks
  BY <1>1, <1>2, <1>5, SameTracks
<1>7. f = d
  BY <1>1, <1>2, <1>6, SameDocument
<1> QED
  BY <1>7 DEF e, f

----------------------------------------------------------------------------
(* Lookup.                                                                 *)

\* A lookup finds a track of this identity, or there is none.
LEMMA IndexOfTrack ==
    ASSUME NEW T, NEW C, NEW d \in Document(T, C), NEW t
    PROVE  \/ /\ TrackIndex(d, t) = 0
              /\ \A j \in DOMAIN d.tracks : d.tracks[j].id # t
           \/ /\ TrackIndex(d, t) \in DOMAIN d.tracks
              /\ TrackIndex(d, t) # 0
              /\ d.tracks[TrackIndex(d, t)].id = t
              /\ \A j \in DOMAIN d.tracks : d.tracks[j].id = t => TrackIndex(d, t) <= j
<1> DEFINE S == {i \in DOMAIN d.tracks : d.tracks[i].id = t}
<1>1. S \subseteq Positions
  BY TracksOfDocument DEF Positions
<1>2. TrackIndex(d, t) = First(S)
  BY DEF TrackIndex
<1>3. S = {} => First(S) = 0
  BY <1>1, FirstProperties
<1>4. S # {} => First(S) \in S /\ \A j \in S : First(S) <= j
  BY <1>1, FirstProperties
<1>5. CASE S = {}
  BY <1>2, <1>3, <1>5
<1>6. CASE S # {}
  <2>1. First(S) \in S /\ First(S) # 0
    BY <1>1, <1>4, <1>6 DEF Positions
  <2> QED
    BY <1>2, <1>4, <1>6, <2>1
<1> QED
  BY <1>5, <1>6

\* Where no identity is held twice a lookup finds the track itself.
LEMMA OnlyTrack ==
    ASSUME NEW T, NEW C, NEW d \in Document(T, C), UniqueTracks(d), NEW i \in DOMAIN d.tracks
    PROVE  TrackIndex(d, d.tracks[i].id) = i
BY IndexOfTrack DEF UniqueTracks

\* Lookups depend on nothing but the identities.
LEMMA SameIndex ==
    ASSUME NEW d, NEW e, DOMAIN d.tracks = DOMAIN e.tracks,
           \A j \in DOMAIN d.tracks : e.tracks[j].id = d.tracks[j].id, NEW t
    PROVE  TrackIndex(e, t) = TrackIndex(d, t)
<1>1. {i \in DOMAIN e.tracks : e.tracks[i].id = t} = {i \in DOMAIN d.tracks : d.tracks[i].id = t}
  OBVIOUS
<1> QED
  BY <1>1 DEF TrackIndex

\* A lookup in a track finds a clip of this identity, or there is none.
LEMMA IndexOfClip ==
    ASSUME NEW T, NEW C, NEW track \in Track(T, C), NEW c
    PROVE  \/ /\ ClipIndex(track, c) = 0
              /\ \A k \in DOMAIN track.clips : track.clips[k].id # c
           \/ /\ ClipIndex(track, c) \in DOMAIN track.clips
              /\ ClipIndex(track, c) # 0
              /\ track.clips[ClipIndex(track, c)].id = c
<1> DEFINE S == {i \in DOMAIN track.clips : track.clips[i].id = c}
<1>1. S \subseteq Positions
  BY ClipsOfTrack DEF Positions
<1>2. ClipIndex(track, c) = First(S)
  BY DEF ClipIndex
<1>3. S = {} => First(S) = 0
  BY <1>1, FirstProperties
<1>4. S # {} => First(S) \in S
  BY <1>1, FirstProperties
<1>5. CASE S = {}
  BY <1>2, <1>3, <1>5
<1>6. CASE S # {}
  <2>1. First(S) \in S /\ First(S) # 0
    BY <1>1, <1>4, <1>6 DEF Positions
  <2> QED
    BY <1>2, <1>6, <2>1
<1> QED
  BY <1>5, <1>6

\* Where the lookup of a clip may lead.
LEMMA LocationOfClip ==
    ASSUME NEW T, NEW C, NEW d \in Document(T, C), NEW c,
           NEW l, l = ClipLocation(d, c), l.found
    PROVE  \E owner \in DOMAIN d.tracks :
              /\ l.track = TrackIndex(d, d.tracks[owner].id)
              /\ l.track \in DOMAIN d.tracks
              /\ d.tracks[l.track].id = d.tracks[owner].id
              /\ l.at \in DOMAIN d.tracks[owner].clips
              /\ l.at \in Positions
              /\ d.tracks[owner].clips[l.at].id = c
              /\ UniqueTracks(d) => l.track = owner
<1> DEFINE S == {i \in DOMAIN d.tracks : ClipIndex(d.tracks[i], c) # 0}
           owner == First(S)
<1>1. S \subseteq Positions
  BY TracksOfDocument DEF Positions
<1>2. owner # 0 /\ l.track = TrackIndex(d, d.tracks[owner].id) /\ l.at = ClipIndex(d.tracks[owner], c)
  BY DEF ClipLocation
<1>3. owner \in S
  BY <1>1, <1>2, FirstProperties
<1> HIDE DEF owner
<1>4. d.tracks[owner] \in Track(T, C)
  BY <1>3, TracksOfDocument
<1>5. l.at # 0 /\ l.at \in DOMAIN d.tracks[owner].clips /\ d.tracks[owner].clips[l.at].id = c
  BY <1>2, <1>3, <1>4, IndexOfClip
<1>6. l.at \in Positions
  BY <1>4, <1>5, ClipsOfTrack DEF Positions
<1>7. l.track \in DOMAIN d.tracks /\ d.tracks[l.track].id = d.tracks[owner].id
  BY <1>2, <1>3, IndexOfTrack
<1>8. UniqueTracks(d) => l.track = owner
  BY SMTT(30), <1>2, <1>3, OnlyTrack
<1> QED
  BY <1>2, <1>3, <1>5, <1>6, <1>7, <1>8

\* In a document without duplicates a clip is found where it is.
LEMMA OnlyClip ==
    ASSUME NEW T, NEW C, NEW d \in Document(T, C), UniqueTracks(d), UniqueClips(d),
           NEW i \in DOMAIN d.tracks, NEW k \in DOMAIN d.tracks[i].clips
    PROVE  ClipLocation(d, d.tracks[i].clips[k].id) = [found |-> TRUE, track |-> i, at |-> k]
<1> DEFINE c == d.tracks[i].clips[k].id
           S == {j \in DOMAIN d.tracks : ClipIndex(d.tracks[j], c) # 0}
<1>1. S \subseteq Positions
  BY TracksOfDocument DEF Positions
<1>2. \A j \in DOMAIN d.tracks : d.tracks[j] \in Track(T, C)
  BY TracksOfDocument
<1>3. ClipIndex(d.tracks[i], c) # 0
  BY <1>2, IndexOfClip
<1>4. ASSUME NEW j \in DOMAIN d.tracks, ClipIndex(d.tracks[j], c) # 0
      PROVE  j = i /\ ClipIndex(d.tracks[j], c) = k
  <2>1. ClipIndex(d.tracks[j], c) \in DOMAIN d.tracks[j].clips
        /\ d.tracks[j].clips[ClipIndex(d.tracks[j], c)].id = c
    BY <1>2, <1>4, IndexOfClip
  <2> QED
    BY <2>1 DEF UniqueClips
<1>5. First(S) = i
  BY <1>1, <1>3, <1>4, FirstIs
<1>6. i # 0 /\ ClipIndex(d.tracks[i], c) = k
  BY <1>1, <1>3, <1>4 DEF Positions
<1>7. TrackIndex(d, d.tracks[i].id) = i
  BY OnlyTrack
<1> QED
  BY <1>5, <1>6, <1>7 DEF ClipLocation

----------------------------------------------------------------------------
(* One operation: what it makes of a document has the types of a document, *)
(* its inverse is an operation, and where no identity is held twice the    *)
(* inverse gives the document back.                                        *)

Undone(d, r) ==
    /\ ApplyOperation(r.doc, r.inverse).outcome = "applied"
    /\ ApplyOperation(r.doc, r.inverse).doc = d

Unique(d) == UniqueTracks(d) /\ UniqueClips(d)

\* The outcomes of an edit differ, and an applied one has its parts.
LEMMA Accepted ==
    /\ \A x, y : Accept(x, y).outcome = "applied" /\ Accept(x, y).doc = x /\ Accept(x, y).inverse = y
    /\ Reject.outcome # "applied" /\ Panic.outcome # "applied"
BY DEF Accept, Reject, Panic

\* Which function applies an operation.
LEMMA Dispatch ==
    ASSUME NEW d, NEW o
    PROVE  /\ o.op = "replace_field" => ApplyOperation(d, o) = ReplaceField(d, o)
           /\ o.op = "insert_track" => ApplyOperation(d, o) = InsertTrack(d, o)
           /\ o.op = "remove_track" => ApplyOperation(d, o) = RemoveTrack(d, o)
           /\ o.op = "replace_track" => ApplyOperation(d, o) = ReplaceTrack(d, o)
           /\ o.op = "reorder_tracks" => ApplyOperation(d, o) = ReorderTracks(d, o)
           /\ o.op = "insert_clip" => ApplyOperation(d, o) = InsertClip(d, o)
           /\ o.op = "remove_clip" => ApplyOperation(d, o) = RemoveClip(d, o, ClipLocation(d, o.clip_id))
           /\ o.op = "replace_clip" => ApplyOperation(d, o) = ReplaceClip(d, o, ClipLocation(d, o.clip_id))
           /\ o.op = "move_clip" => ApplyOperation(d, o) = MoveClip(d, o, ClipLocation(d, o.clip_id))
           /\ o.op = "replace_track_clips" => ApplyOperation(d, o) = ReplaceTrackClips(d, o)
BY DEF ApplyOperation

\* RenameProject, ReplaceSettings, ReplaceMarkers and their inverse.
LEMMA ReplaceFieldUndo ==
    ASSUME NEW T, NEW C, NEW d \in Document(T, C), NEW o \in ReplaceFieldOps,
           NEW r, r = ApplyOperation(d, o)
    PROVE  r.doc \in Document(T, C) /\ r.inverse \in ReplaceFieldOps /\ Undone(d, r) /\ KeepsIds(d, r.doc)
<1> DEFINE e == [d EXCEPT ![o.field] = o.value]
           u == [o EXCEPT !.value = d[o.field]]
           f == [e EXCEPT ![u.field] = u.value]
<1>1. o.op = "replace_field" /\ o.field \in {"name", "settings", "markers"} /\ o.value \in Values
  BY DEF ReplaceFieldOps
<1>2. r = Accept(e, u)
  BY <1>1, Dispatch DEF ReplaceField
<1>3. d[o.field] \in Values
  BY <1>1 DEF Document
<1>4. u \in ReplaceFieldOps /\ u.op = "replace_field" /\ u.field = o.field /\ u.value = d[o.field]
  BY <1>3 DEF ReplaceFieldOps
<1>5. e \in Document(T, C) /\ f = d /\ e.tracks = d.tracks
  <2>1. CASE o.field = "name"
    BY <1>1, <1>4, <2>1 DEF Document
  <2>2. CASE o.field = "settings"
    BY <1>1, <1>4, <2>2 DEF Document
  <2>3. CASE o.field = "markers"
    BY <1>1, <1>4, <2>3 DEF Document
  <2> QED
    BY <1>1, <2>1, <2>2, <2>3
<1> HIDE DEF e, u
<1>6. ApplyOperation(e, u) = Accept(f, [u EXCEPT !.value = e[u.field]])
  BY <1>4, Dispatch DEF ReplaceField
<1>7. r.doc = e /\ r.inverse = u
  BY <1>2, Accepted
<1>8. ApplyOperation(e, u).outcome = "applied" /\ ApplyOperation(e, u).doc = f
  BY <1>6, Accepted
<1> HIDE DEF f
<1> QED
  BY <1>4, <1>5, <1>7, <1>8 DEF Undone, KeepsIds

\* InsertTrack and its inverse.
LEMMA InsertTrackUndo ==
    ASSUME NEW T, NEW C, NEW d \in Document(T, C), NEW o \in InsertTrackOps(T, C),
           NEW r, r = ApplyOperation(d, o), r.outcome = "applied"
    PROVE  /\ r.doc \in Document(T, C) /\ r.inverse \in RemoveTrackOps(T)
           /\ r.inverse.track_id = o.track.id
           /\ o.at \in 1..Len(d.tracks) + 1 /\ r.doc.tracks = InsertAt(d.tracks, o.at, o.track)
           /\ UniqueTracks(r.doc) => Undone(d, r)
<1> DEFINE s == InsertAt(d.tracks, o.at, o.track)
           e == [d EXCEPT !.tracks = s]
           u == [op |-> "remove_track", track_id |-> o.track.id]
<1>1. o.op = "insert_track" /\ o.at \in Nat \ {0} /\ o.track \in Track(T, C)
  BY DEF InsertTrackOps, Positions
<1>2. r = Accept(e, u) /\ ~(o.at > Len(d.tracks) + 1)
  BY <1>1, Dispatch, Accepted DEF InsertTrack
<1>3. d.tracks \in Seq(Track(T, C)) /\ Len(d.tracks) \in Nat /\ o.at \in 1..Len(d.tracks) + 1
  BY <1>1, <1>2, TracksOfDocument
<1>4. s \in Seq(Track(T, C)) /\ Len(s) = Len(d.tracks) + 1 /\ s[o.at] = o.track
  BY <1>1, <1>3, Inserted
<1>5. RemoveAt(s, o.at) = d.tracks
  BY <1>1, <1>3, RemoveInserted
<1> HIDE DEF s
<1>6. /\ e \in Document(T, C) /\ e.tracks = s
      /\ e.name = d.name /\ e.settings = d.settings /\ e.markers = d.markers
  BY <1>4, OtherTracks
<1>7. u \in RemoveTrackOps(T) /\ u.op = "remove_track" /\ u.track_id = o.track.id
  BY <1>1, ClipsOfTrack DEF RemoveTrackOps
<1> HIDE DEF e, u
<1>8. r.doc = e /\ r.inverse = u
  BY <1>2, Accepted
<1>9. ASSUME UniqueTracks(e) PROVE Undone(d, r)
  <2>1. o.at \in DOMAIN e.tracks /\ e.tracks[o.at].id = u.track_id /\ o.at # 0
    BY <1>1, <1>3, <1>4, <1>6, <1>7, TracksOfDocument
  <2>2. TrackIndex(e, u.track_id) = o.at
    BY <1>6, <1>9, <2>1, OnlyTrack
  <2>3. ApplyOperation(e, u) = RemoveTrack(e, u)
    BY <1>7, Dispatch
  <2>4. RemoveTrack(e, u) =
          Accept([e EXCEPT !.tracks = RemoveAt(e.tracks, o.at)],
                 [op |-> "insert_track", at |-> o.at, track |-> e.tracks[o.at]])
    BY <2>1, <2>2 DEF RemoveTrack
  <2>5. [e EXCEPT !.tracks = RemoveAt(e.tracks, o.at)] = d
    BY <1>5, <1>6, TracksBack DEF e
  <2> QED
    BY <1>8, <2>3, <2>4, <2>5, Accepted DEF Undone
<1> QED
  BY <1>3, <1>6, <1>7, <1>8, <1>9 DEF s

\* RemoveTrack and its inverse.
LEMMA RemoveTrackUndo ==
    ASSUME NEW T, NEW C, NEW d \in Document(T, C), NEW o \in RemoveTrackOps(T),
           NEW r, r = ApplyOperation(d, o), r.outcome = "applied"
    PROVE  /\ r.doc \in Document(T, C) /\ r.inverse \in InsertTrackOps(T, C)
           /\ r.inverse.track.id = o.track_id
           /\ \E i \in 1..Len(d.tracks) : d.tracks[i].id = o.track_id /\ r.doc.tracks = RemoveAt(d.tracks, i)
           /\ Undone(d, r)
<1> DEFINE i == TrackIndex(d, o.track_id)
           s == RemoveAt(d.tracks, i)
           e == [d EXCEPT !.tracks = s]
           u == [op |-> "insert_track", at |-> i, track |-> d.tracks[i]]
<1>1. o.op = "remove_track"
  BY DEF RemoveTrackOps
<1>2. r = RemoveTrack(d, o)
  BY <1>1, Dispatch
<1>3. r = Accept(e, u) /\ i # 0
  BY <1>2, Accepted DEF RemoveTrack
<1>4. /\ d.tracks \in Seq(Track(T, C)) /\ Len(d.tracks) \in Nat
      /\ i \in 1..Len(d.tracks) /\ d.tracks[i] \in Track(T, C) /\ d.tracks[i].id = o.track_id
  BY <1>3, TracksOfDocument, IndexOfTrack
<1>5. s \in Seq(Track(T, C)) /\ Len(s) = Len(d.tracks) - 1 /\ InsertAt(s, i, d.tracks[i]) = d.tracks
  BY <1>4, Removed, InsertRemoved
<1> HIDE DEF i, s
<1>6. e \in Document(T, C) /\ e.tracks = s
  BY <1>5, OtherTracks
<1>7. u \in InsertTrackOps(T, C) /\ u.op = "insert_track" /\ u.at = i /\ u.track = d.tracks[i]
  BY <1>4 DEF InsertTrackOps, Positions
<1> HIDE DEF e, u
<1>8. r.doc = e /\ r.inverse = u
  BY <1>3, Accepted
<1>9. ApplyOperation(e, u) = InsertTrack(e, u)
  BY <1>7, Dispatch
<1>10. InsertTrack(e, u) =
         Accept([e EXCEPT !.tracks = InsertAt(s, i, d.tracks[i])],
                [op |-> "remove_track", track_id |-> d.tracks[i].id])
  BY SMTT(30), <1>4, <1>5, <1>6, <1>7 DEF InsertTrack
<1>11. [e EXCEPT !.tracks = InsertAt(s, i, d.tracks[i])] = d
  BY <1>5, TracksBack DEF e
<1>12. Undone(d, r)
  BY <1>8, <1>9, <1>10, <1>11, Accepted DEF Undone
<1> QED
  BY <1>4, <1>6, <1>7, <1>8, <1>12 DEF s

\* ReplaceTrack and its inverse.
LEMMA ReplaceTrackUndo ==
    ASSUME NEW T, NEW C, NEW d \in Document(T, C), NEW o \in ReplaceTrackOps(T, C),
           NEW r, r = ApplyOperation(d, o), r.outcome = "applied"
    PROVE  r.doc \in Document(T, C) /\ r.inverse \in ReplaceTrackOps(T, C) /\ Undone(d, r) /\ KeepsIds(d, r.doc)
<1> DEFINE i == TrackIndex(d, o.track_id)
           s == [d.tracks EXCEPT ![i] = o.track]
           e == [d EXCEPT !.tracks = s]
           u == [o EXCEPT !.track = d.tracks[i]]
<1>1. o.op = "replace_track" /\ o.track \in Track(T, C)
  BY DEF ReplaceTrackOps
<1>2. r = ReplaceTrack(d, o)
  BY <1>1, Dispatch
<1>3. r = Accept(e, u) /\ i # 0 /\ o.track.id = o.track_id
  BY <1>2, Accepted DEF ReplaceTrack
<1>4. /\ d.tracks \in Seq(Track(T, C)) /\ i \in DOMAIN d.tracks /\ i \in 1..Len(d.tracks)
      /\ d.tracks[i] \in Track(T, C) /\ d.tracks[i].id = o.track_id
  BY <1>3, TracksOfDocument, IndexOfTrack
<1>5. [s EXCEPT ![i] = d.tracks[i]] = d.tracks
  BY <1>4
<1>6. /\ s \in Seq(Track(T, C)) /\ DOMAIN s = DOMAIN d.tracks
      /\ s[i] = o.track /\ \A j \in DOMAIN d.tracks \ {i} : s[j] = d.tracks[j]
  BY <1>1, <1>4, ExceptSeq
<1>7. \A j \in DOMAIN d.tracks : s[j].id = d.tracks[j].id
  BY <1>3, <1>4, <1>6
<1> HIDE DEF s
<1>8. e \in Document(T, C) /\ e.tracks = s
  BY <1>6, OtherTracks
<1>9. /\ u \in ReplaceTrackOps(T, C) /\ u.op = "replace_track"
      /\ u.track_id = o.track_id /\ u.track = d.tracks[i]
  BY <1>4 DEF ReplaceTrackOps
<1> HIDE DEF e, u
<1>10. r.doc = e /\ r.inverse = u
  BY <1>3, Accepted
<1>11. TrackIndex(e, u.track_id) = i
  BY <1>6, <1>7, <1>8, <1>9, SameIndex
<1>12. ApplyOperation(e, u) = ReplaceTrack(e, u)
  BY <1>9, Dispatch
<1> HIDE DEF i
<1>13. ReplaceTrack(e, u) =
         Accept([e EXCEPT !.tracks = [s EXCEPT ![i] = d.tracks[i]]], [u EXCEPT !.track = s[i]])
  BY <1>3, <1>4, <1>8, <1>9, <1>11 DEF ReplaceTrack
<1>14. [e EXCEPT !.tracks = [s EXCEPT ![i] = d.tracks[i]]] = d
  BY <1>5, TracksBack DEF e
<1> QED
  BY SMTT(30), <1>6, <1>7, <1>8, <1>9, <1>10, <1>12, <1>13, <1>14, Accepted DEF Undone, KeepsIds

\* The named tracks are those of the document, and the result has their order.
Reordered(d, ids, e) ==
    /\ DOMAIN e.tracks = DOMAIN d.tracks /\ DOMAIN ids = DOMAIN d.tracks
    /\ \A i \in DOMAIN d.tracks : e.tracks[i].id = ids[i]
    /\ \A i \in DOMAIN d.tracks : \E j \in DOMAIN d.tracks : ids[i] = d.tracks[j].id
    /\ \A i, j \in DOMAIN d.tracks : ids[i] = ids[j] => i = j

\* ReorderTracks and its inverse.
LEMMA ReorderTracksUndo ==
    ASSUME NEW T, NEW C, NEW d \in Document(T, C), NEW o \in ReorderTracksOps(T),
           NEW r, r = ApplyOperation(d, o), r.outcome = "applied"
    PROVE  /\ r.doc \in Document(T, C) /\ r.inverse \in ReorderTracksOps(T)
           /\ Reordered(d, o.track_ids, r.doc)
           /\ UniqueTracks(d) => Undone(d, r)
<1> DEFINE present == [i \in DOMAIN d.tracks |-> d.tracks[i].id]
           ids == o.track_ids
           s == [i \in DOMAIN d.tracks |-> d.tracks[TrackIndex(d, ids[i])]]
           e == [d EXCEPT !.tracks = s]
           u == [o EXCEPT !.track_ids = present]
<1>1. o.op = "reorder_tracks" /\ ids \in Seq(T)
  BY DEF ReorderTracksOps
<1>2. r = ReorderTracks(d, o)
  BY <1>1, Dispatch
<1>3. /\ r = Accept(e, u) /\ Len(ids) = Len(d.tracks) /\ ToSet(ids) = ToSet(present)
      /\ IsInjective(ids)
  BY <1>2, Accepted DEF ReorderTracks
<1>4. /\ Len(d.tracks) \in Nat /\ DOMAIN d.tracks = 1..Len(d.tracks)
      /\ \A i \in DOMAIN d.tracks : d.tracks[i] \in Track(T, C) /\ d.tracks[i].id \in T
  BY TracksOfDocument, ClipsOfTrack
<1>5. present \in Seq(T) /\ Len(present) = Len(d.tracks) /\ DOMAIN present = DOMAIN d.tracks
  BY <1>4
<1>6. DOMAIN ids = DOMAIN d.tracks
  BY <1>1, <1>3, <1>4, LenProperties
<1>7. \A i \in DOMAIN d.tracks : \E j \in DOMAIN d.tracks : ids[i] = d.tracks[j].id
  BY <1>3, <1>5, <1>6 DEF ToSet
<1>8. ASSUME NEW i \in DOMAIN d.tracks PROVE \E j \in DOMAIN d.tracks : ids[j] = d.tracks[i].id
  <2>1. d.tracks[i].id \in ToSet(present)
    BY DEF ToSet
  <2> QED
    BY <1>3, <1>6, <2>1 DEF ToSet
<1>9. \A i \in DOMAIN d.tracks : /\ TrackIndex(d, ids[i]) \in DOMAIN d.tracks
                                 /\ d.tracks[TrackIndex(d, ids[i])].id = ids[i]
  BY <1>7, IndexOfTrack
<1>10. \A i \in DOMAIN d.tracks : s[i] = d.tracks[TrackIndex(d, ids[i])] /\ s[i].id = ids[i]
                                    /\ s[i] \in Track(T, C)
  BY <1>4, <1>9
<1>11. s \in Seq(Track(T, C)) /\ Len(s) = Len(d.tracks) /\ DOMAIN s = DOMAIN d.tracks
  <2>1. s \in [1..Len(d.tracks) -> Track(T, C)]
    BY <1>4, <1>9
  <2> QED
    BY <1>4, <2>1, MadeSequence
<1> HIDE DEF s
<1>12. e \in Document(T, C) /\ e.tracks = s
  BY <1>11, OtherTracks
<1>13. u \in ReorderTracksOps(T) /\ u.op = "reorder_tracks" /\ u.track_ids = present
  BY <1>5 DEF ReorderTracksOps
<1> HIDE DEF u
<1>14. r.doc = e /\ r.inverse = u
  BY <1>3, Accepted
<1>15. ASSUME UniqueTracks(d) PROVE Undone(d, r)
  <2> DEFINE v == [i \in DOMAIN s |-> s[i].id]
             t == [i \in DOMAIN s |-> s[TrackIndex(e, present[i])]]
             w == [u EXCEPT !.track_ids = v]
  <2>1. IsInjective(present)
    BY <1>15, <1>5 DEF UniqueTracks, IsInjective
  <2>2. ToSet(v) = ToSet(present)
    <3>1. \A i \in DOMAIN s : v[i] = ids[i]
      BY <1>10, <1>11
    <3>2. ToSet(v) = ToSet(ids)
      BY <1>6, <1>11, <3>1 DEF ToSet
    <3> QED
      BY <1>3, <3>2
  <2>3. \A i \in DOMAIN d.tracks : t[i] = d.tracks[i]
    <3> SUFFICES ASSUME NEW i \in DOMAIN d.tracks PROVE s[TrackIndex(e, present[i])] = d.tracks[i]
      BY <1>11
    <3> DEFINE j == TrackIndex(e, present[i])
    <3>1. \E k \in DOMAIN e.tracks : e.tracks[k].id = present[i]
      BY <1>8, <1>10, <1>11, <1>12
    <3>2. j \in DOMAIN e.tracks /\ e.tracks[j].id = present[i]
      <4> HIDE DEF e, present
      <4> QED
        BY <1>12, <3>1, IndexOfTrack
    <3>3. j \in DOMAIN d.tracks /\ s[j].id = d.tracks[i].id
      BY <1>11, <1>12, <3>2
    <3> HIDE DEF j
    <3>4. s[j] = d.tracks[TrackIndex(d, d.tracks[i].id)]
      BY <1>10, <3>3
    <3>5. TrackIndex(d, d.tracks[i].id) = i
      BY <1>15, OnlyTrack
    <3> QED
      BY <3>4, <3>5 DEF j
  <2>4. t = d.tracks
    <3>0. t \in [1..Len(d.tracks) -> Track(T, C)]
      <4>1. t = [i \in 1..Len(d.tracks) |-> t[i]]
        BY <1>4, <1>11
      <4> HIDE DEF t
      <4> QED
        BY <1>4, <2>3, <4>1
    <3>1. t \in Seq(Track(T, C)) /\ Len(t) = Len(d.tracks)
      BY <1>4, <3>0, MadeSequence
    <3> QED
      BY <1>4, <2>3, <3>1, TracksOfDocument, SeqEqual
  <2>5. ApplyOperation(e, u) = ReorderTracks(e, u)
    BY <1>13, Dispatch
  <2> HIDE DEF v
  <2>6. ReorderTracks(e, u) = Accept([e EXCEPT !.tracks = t], w)
    <3> HIDE DEF present, e
    <3> QED
      BY <1>5, <1>11, <1>12, <1>13, <2>1, <2>2 DEF ReorderTracks, v
  <2>7. [e EXCEPT !.tracks = t] = d
    BY <2>4, TracksBack
  <2> HIDE DEF t, w, e
  <2> QED
    BY <1>14, <2>5, <2>6, <2>7, Accepted DEF Undone
<1>16. \A i, j \in DOMAIN d.tracks : ids[i] = ids[j] => i = j
  BY <1>3, <1>6 DEF IsInjective
<1> HIDE DEF e
<1>17. Reordered(d, ids, r.doc)
  BY <1>6, <1>7, <1>10, <1>11, <1>12, <1>14, <1>16 DEF Reordered
<1> QED
  BY <1>12, <1>13, <1>14, <1>15, <1>17

\* ReplaceTrackClips and its inverse.
LEMMA ReplaceTrackClipsUndo ==
    ASSUME NEW T, NEW C, NEW d \in Document(T, C), NEW o \in ReplaceTrackClipsOps(T, C),
           NEW r, r = ApplyOperation(d, o), r.outcome = "applied"
    PROVE  r.doc \in Document(T, C) /\ r.inverse \in ReplaceTrackClipsOps(T, C) /\ Undone(d, r) /\ KeepsIds(d, r.doc)
<1> DEFINE i == TrackIndex(d, o.track_id)
           before == d.tracks[i].clips
           e == WithClips(d, i, o.clips)
           u == [o EXCEPT !.clips = before]
<1>1. o.op = "replace_track_clips" /\ o.clips \in Seq(Clip(C))
  BY DEF ReplaceTrackClipsOps
<1>2. r = ReplaceTrackClips(d, o)
  BY <1>1, Dispatch
<1>3. r = Accept(e, u) /\ i # 0
  BY <1>2, Accepted DEF ReplaceTrackClips
<1>4. i \in DOMAIN d.tracks /\ before \in Seq(Clip(C))
  BY <1>3, TracksOfDocument, ClipsOfTrack, IndexOfTrack
<1>5. /\ e \in Document(T, C) /\ DOMAIN e.tracks = DOMAIN d.tracks
      /\ \A j \in DOMAIN d.tracks : e.tracks[j].id = d.tracks[j].id
  BY <1>1, <1>4, OtherClips
<1>6. /\ u \in ReplaceTrackClipsOps(T, C) /\ u.op = "replace_track_clips"
      /\ u.track_id = o.track_id /\ u.clips = before
  BY <1>4 DEF ReplaceTrackClipsOps
<1>7. WithClips(e, i, before) = d
  BY <1>1, <1>4, ClipsBack
<1> HIDE DEF e, u, before
<1>8. r.doc = e /\ r.inverse = u
  BY <1>3, Accepted
<1>9. TrackIndex(e, u.track_id) = i
  BY <1>5, <1>6, SameIndex
<1>10. ApplyOperation(e, u) = ReplaceTrackClips(e, u)
  BY <1>6, Dispatch
<1>11. ReplaceTrackClips(e, u) = Accept(WithClips(e, i, before), [u EXCEPT !.clips = e.tracks[i].clips])
  BY <1>3, <1>6, <1>9 DEF ReplaceTrackClips
<1> QED
  BY <1>5, <1>6, <1>7, <1>8, <1>10, <1>11, Accepted DEF Undone, KeepsIds

\* The clip of a located track.
LEMMA LocatedClip ==
    ASSUME NEW T, NEW C, NEW d \in Document(T, C), NEW c,
           NEW l, l = ClipLocation(d, c), l.found, ~OutOfBounds(d, l)
    PROVE  /\ l.track \in DOMAIN d.tracks
           /\ d.tracks[l.track] \in Track(T, C)
           /\ d.tracks[l.track].id \in T
           /\ d.tracks[l.track].clips \in Seq(Clip(C))
           /\ Len(d.tracks[l.track].clips) \in Nat
           /\ l.at \in 1..Len(d.tracks[l.track].clips)
           /\ d.tracks[l.track].clips[l.at] \in Clip(C)
           /\ TrackIndex(d, d.tracks[l.track].id) = l.track
           /\ UniqueTracks(d) => d.tracks[l.track].clips[l.at].id = c
<1>1. PICK owner \in DOMAIN d.tracks :
        /\ l.track = TrackIndex(d, d.tracks[owner].id)
        /\ l.track \in DOMAIN d.tracks
        /\ d.tracks[l.track].id = d.tracks[owner].id
        /\ l.at \in DOMAIN d.tracks[owner].clips
        /\ l.at \in Positions
        /\ d.tracks[owner].clips[l.at].id = c
        /\ UniqueTracks(d) => l.track = owner
  BY LocationOfClip
<1>2. /\ d.tracks[l.track] \in Track(T, C)
      /\ d.tracks[l.track].id \in T
      /\ d.tracks[l.track].clips \in Seq(Clip(C))
      /\ Len(d.tracks[l.track].clips) \in Nat
      /\ DOMAIN d.tracks[l.track].clips = 1..Len(d.tracks[l.track].clips)
      /\ \A k \in DOMAIN d.tracks[l.track].clips : d.tracks[l.track].clips[k] \in Clip(C)
  BY <1>1, TracksOfDocument, ClipsOfTrack
<1>3. l.at \in 1..Len(d.tracks[l.track].clips)
  BY <1>1, <1>2 DEF OutOfBounds, Positions
<1> QED
  BY <1>1, <1>2, <1>3

\* InsertClip and its inverse.
LEMMA InsertClipUndo ==
    ASSUME NEW T, NEW C, NEW d \in Document(T, C), NEW o \in InsertClipOps(T, C),
           NEW r, r = ApplyOperation(d, o), r.outcome = "applied"
    PROVE  /\ r.doc \in Document(T, C) /\ r.inverse \in RemoveClipOps /\ KeepsIds(d, r.doc)
           /\ Unique(r.doc) => Undone(d, r)
<1> DEFINE i == TrackIndex(d, o.track_id)
           before == d.tracks[i].clips
           s == InsertAt(before, o.at, o.clip)
           e == WithClips(d, i, s)
           u == [op |-> "remove_clip", clip_id |-> o.clip.id]
<1>1. o.op = "insert_clip" /\ o.at \in Nat \ {0} /\ o.clip \in Clip(C) /\ o.clip.id \in ClipNames
  BY DEF InsertClipOps, Positions, Clip
<1>2. r = InsertClip(d, o)
  BY <1>1, Dispatch
<1>3. r = Accept(e, u) /\ i # 0 /\ ~(o.at > Len(before) + 1)
  BY <1>2, Accepted DEF InsertClip
<1>4. i \in DOMAIN d.tracks /\ before \in Seq(Clip(C)) /\ Len(before) \in Nat
  BY <1>3, TracksOfDocument, ClipsOfTrack, IndexOfTrack
<1> HIDE DEF before
<1>5. o.at \in 1..Len(before) + 1
  BY <1>1, <1>3, <1>4
<1>6. s \in Seq(Clip(C)) /\ Len(s) = Len(before) + 1 /\ s[o.at] = o.clip /\ RemoveAt(s, o.at) = before
  BY <1>1, <1>4, <1>5, Inserted, RemoveInserted
<1> HIDE DEF s
<1>7. e \in Document(T, C) /\ KeepsIds(d, e) /\ DOMAIN e.tracks = DOMAIN d.tracks /\ e.tracks[i].clips = s
  BY <1>4, <1>6, OtherClips
<1>8. WithClips(e, i, before) = d
  BY <1>4, <1>6, ClipsBack DEF before
<1>9. u \in RemoveClipOps /\ u.op = "remove_clip" /\ u.clip_id = o.clip.id
  BY <1>1 DEF RemoveClipOps
<1> HIDE DEF e, u, i
<1>10. r.doc = e /\ r.inverse = u
  BY <1>3, Accepted
<1>11. ASSUME Unique(e) PROVE Undone(d, r)
  <2> DEFINE l == [found |-> TRUE, track |-> i, at |-> o.at]
             v == [op |-> "insert_clip", track_id |-> e.tracks[i].id, at |-> o.at, clip |-> s[o.at]]
  <2>1. o.at \in DOMAIN s
    BY <1>4, <1>5, <1>6, LenProperties
  <2>2. ClipLocation(e, u.clip_id) = l
    <3>1. /\ i \in DOMAIN e.tracks /\ o.at \in DOMAIN e.tracks[i].clips
          /\ e.tracks[i].clips[o.at].id = u.clip_id /\ UniqueTracks(e) /\ UniqueClips(e)
      BY <1>4, <1>6, <1>7, <1>9, <1>11, <2>1 DEF Unique
    <3>2. ClipLocation(e, e.tracks[i].clips[o.at].id) = l
      BY <1>7, <3>1, OnlyClip
    <3> QED
      BY <3>1, <3>2
  <2>3. ApplyOperation(e, u) = RemoveClip(e, u, l)
    BY <1>9, <2>2, Dispatch
  <2>4. ~OutOfBounds(e, l)
    BY <1>4, <1>5, <1>6, <1>7 DEF OutOfBounds
  <2>5. RemoveClip(e, u, l) = Accept(WithClips(e, i, before), v)
    BY <1>6, <1>7, <2>4 DEF RemoveClip
  <2> QED
    BY <1>8, <1>10, <2>3, <2>5, Accepted DEF Undone
<1> QED
  BY <1>7, <1>9, <1>10, <1>11

\* RemoveClip and its inverse.
LEMMA RemoveClipUndo ==
    ASSUME NEW T, NEW C, NEW d \in Document(T, C), NEW o \in RemoveClipOps,
           NEW r, r = ApplyOperation(d, o), r.outcome = "applied"
    PROVE  r.doc \in Document(T, C) /\ r.inverse \in InsertClipOps(T, C) /\ Undone(d, r) /\ KeepsIds(d, r.doc)
<1> DEFINE l == ClipLocation(d, o.clip_id)
           i == l.track
           before == d.tracks[i].clips
           s == RemoveAt(before, l.at)
           e == WithClips(d, i, s)
           u == [op |-> "insert_clip", track_id |-> d.tracks[i].id, at |-> l.at, clip |-> before[l.at]]
<1>1. o.op = "remove_clip"
  BY DEF RemoveClipOps
<1>2. r = RemoveClip(d, o, l)
  BY <1>1, Dispatch
<1>3. l.found /\ ~OutOfBounds(d, l) /\ r = Accept(e, u)
  <2> HIDE DEF l
  <2> QED
    BY <1>2, Accepted DEF RemoveClip
<1>4. /\ i \in DOMAIN d.tracks /\ d.tracks[i].id \in T
      /\ before \in Seq(Clip(C)) /\ Len(before) \in Nat
      /\ l.at \in 1..Len(before) /\ before[l.at] \in Clip(C)
      /\ TrackIndex(d, d.tracks[i].id) = i
  BY ZenonT(60), <1>3, LocatedClip
<1> HIDE DEF l, i, before
<1>5. s \in Seq(Clip(C)) /\ Len(s) = Len(before) - 1 /\ InsertAt(s, l.at, before[l.at]) = before
  BY <1>4, Removed, InsertRemoved
<1> HIDE DEF s
<1>6. /\ e \in Document(T, C) /\ DOMAIN e.tracks = DOMAIN d.tracks /\ e.tracks[i].clips = s
      /\ \A j \in DOMAIN d.tracks : e.tracks[j].id = d.tracks[j].id
  BY <1>4, <1>5, OtherClips
<1>7. WithClips(e, i, before) = d
  BY <1>4, <1>5, ClipsBack DEF before
<1>8. /\ u \in InsertClipOps(T, C) /\ u.op = "insert_clip" /\ u.track_id = d.tracks[i].id
      /\ u.at = l.at /\ u.clip = before[l.at]
  BY <1>4 DEF InsertClipOps, Positions
<1> HIDE DEF e, u
<1>9. r.doc = e /\ r.inverse = u
  BY <1>3, Accepted
<1>10. TrackIndex(e, u.track_id) = i /\ i # 0
  <2>1. TrackIndex(e, u.track_id) = TrackIndex(d, u.track_id)
    BY <1>6, SameIndex
  <2>2. i \in 1..Len(d.tracks)
    BY <1>4, TracksOfDocument
  <2> QED
    BY <1>4, <1>8, <2>1, <2>2
<1>11. ApplyOperation(e, u) = InsertClip(e, u)
  BY <1>8, Dispatch
<1>12. InsertClip(e, u) =
         Accept(WithClips(e, i, before), [op |-> "remove_clip", clip_id |-> before[l.at].id])
  BY <1>4, <1>5, <1>6, <1>8, <1>10 DEF InsertClip
<1> QED
  BY <1>6, <1>7, <1>8, <1>9, <1>11, <1>12, Accepted DEF Undone, KeepsIds

\* ReplaceClip and its inverse.
LEMMA ReplaceClipUndo ==
    ASSUME NEW T, NEW C, NEW d \in Document(T, C), NEW o \in ReplaceClipOps(C),
           NEW r, r = ApplyOperation(d, o), r.outcome = "applied"
    PROVE  /\ r.doc \in Document(T, C) /\ r.inverse \in ReplaceClipOps(C) /\ KeepsIds(d, r.doc)
           /\ UniqueTracks(d) /\ Unique(r.doc) => Undone(d, r)
<1> DEFINE l == ClipLocation(d, o.clip_id)
           i == l.track
           before == d.tracks[i].clips
           s == [before EXCEPT ![l.at] = o.clip]
           e == WithClips(d, i, s)
           u == [o EXCEPT !.clip = before[l.at]]
<1>1. o.op = "replace_clip" /\ o.clip \in Clip(C)
  BY DEF ReplaceClipOps
<1>2. r = ReplaceClip(d, o, l)
  BY <1>1, Dispatch
<1>3. l.found /\ ~OutOfBounds(d, l) /\ o.clip.id = o.clip_id /\ r = Accept(e, u)
  <2>1. r = Accept([d EXCEPT !.tracks[i].clips[l.at] = o.clip], u)
        /\ l.found /\ ~OutOfBounds(d, l) /\ o.clip.id = o.clip_id
    <3> HIDE DEF l
    <3> QED
      BY <1>2, Accepted DEF ReplaceClip
  <2>2. [d EXCEPT !.tracks[i].clips[l.at] = o.clip] = e
    BY DEF WithClips
  <2> QED
    BY Zenon, <2>1, <2>2
<1>4. /\ i \in DOMAIN d.tracks
      /\ before \in Seq(Clip(C)) /\ Len(before) \in Nat
      /\ l.at \in 1..Len(before) /\ before[l.at] \in Clip(C)
      /\ UniqueTracks(d) => before[l.at].id = o.clip_id
  BY ZenonT(60), <1>3, LocatedClip
<1> HIDE DEF l, i, before
<1>5. /\ s \in Seq(Clip(C)) /\ Len(s) = Len(before) /\ l.at \in DOMAIN s /\ s[l.at] = o.clip
      /\ [s EXCEPT ![l.at] = before[l.at]] = before
  <2>1. DOMAIN before = 1..Len(before)
    BY <1>4, LenProperties
  <2>2. [s EXCEPT ![l.at] = before[l.at]] = before
    BY <1>1, <1>4, ExceptBack
  <2>3. /\ s \in Seq(Clip(C)) /\ Len(s) = Len(before) /\ DOMAIN s = DOMAIN before /\ s[l.at] = o.clip
    BY <1>1, <1>4, <2>1, ExceptSeq
  <2> QED
    BY <1>4, <2>1, <2>2, <2>3
<1> HIDE DEF s
<1>6. e \in Document(T, C) /\ KeepsIds(d, e) /\ DOMAIN e.tracks = DOMAIN d.tracks /\ e.tracks[i].clips = s
  BY <1>4, <1>5, OtherClips
<1>7. WithClips(e, i, before) = d
  BY <1>4, <1>5, ClipsBack DEF before
<1>8. u \in ReplaceClipOps(C) /\ u.op = "replace_clip" /\ u.clip_id = o.clip_id /\ u.clip = before[l.at]
  BY <1>4 DEF ReplaceClipOps
<1> HIDE DEF e, u
<1>9. r.doc = e /\ r.inverse = u
  BY <1>3, Accepted
<1>10. ASSUME UniqueTracks(d), Unique(e) PROVE Undone(d, r)
  <2> DEFINE m == [found |-> TRUE, track |-> i, at |-> l.at]
             v == [u EXCEPT !.clip = s[l.at]]
  <2>1. ClipLocation(e, u.clip_id) = m
    <3>1. /\ i \in DOMAIN e.tracks /\ l.at \in DOMAIN e.tracks[i].clips
          /\ e.tracks[i].clips[l.at].id = u.clip_id /\ UniqueTracks(e) /\ UniqueClips(e)
      BY <1>3, <1>4, <1>5, <1>6, <1>8, <1>10 DEF Unique
    <3>2. ClipLocation(e, e.tracks[i].clips[l.at].id) = m
      BY <1>6, <3>1, OnlyClip
    <3> QED
      BY <3>1, <3>2
  <2>2. ApplyOperation(e, u) = ReplaceClip(e, u, m)
    BY <1>8, <2>1, Dispatch
  <2>3. ~OutOfBounds(e, m)
    BY <1>4, <1>5, <1>6 DEF OutOfBounds
  <2>4. u.clip.id = u.clip_id
    BY <1>4, <1>8, <1>10
  <2>5. ReplaceClip(e, u, m) = Accept([e EXCEPT !.tracks[i].clips[l.at] = before[l.at]], v)
    BY <1>6, <1>8, <2>3, <2>4 DEF ReplaceClip
  <2>6. [e EXCEPT !.tracks[i].clips[l.at] = before[l.at]] = WithClips(e, i, [s EXCEPT ![l.at] = before[l.at]])
    BY <1>6 DEF WithClips
  <2>7. ApplyOperation(e, u) = Accept(d, v)
    BY <1>5, <1>7, <2>2, <2>5, <2>6
  <2> HIDE DEF v
  <2> QED
    BY <1>9, <2>7, Accepted DEF Undone
<1> QED
  BY <1>6, <1>8, <1>9, <1>10

\* MoveClip and its inverse, on one track or between two.
LEMMA MoveClipUndo ==
    ASSUME NEW T, NEW C, NEW d \in Document(T, C), NEW o \in MoveClipOps(T),
           NEW r, r = ApplyOperation(d, o), r.outcome = "applied"
    PROVE  /\ r.doc \in Document(T, C) /\ r.inverse \in MoveClipOps(T) /\ KeepsIds(d, r.doc)
           /\ UniqueTracks(d) /\ Unique(r.doc) => Undone(d, r)
<1> DEFINE l == ClipLocation(d, o.clip_id)
           i == l.track
           before == d.tracks[i].clips
           clip == before[l.at]
           s == RemoveAt(before, l.at)
           taken == WithClips(d, i, s)
           to == TrackIndex(taken, o.to_track_id)
           there == taken.tracks[to].clips
           t == InsertAt(there, o.at, clip)
           e == WithClips(taken, to, t)
           u == [o EXCEPT !.to_track_id = d.tracks[i].id, !.at = l.at]
<1>1. o.op = "move_clip" /\ o.at \in Nat \ {0}
  BY DEF MoveClipOps, Positions
<1>2. r = MoveClip(d, o, l)
  BY <1>1, Dispatch
<1>3. l.found /\ ~OutOfBounds(d, l) /\ r = PutDown(taken, o, d.tracks[i], l)
  <2> HIDE DEF l
  <2> QED
    BY <1>2, Accepted DEF MoveClip
<1>4. r = Accept(e, u) /\ to # 0 /\ ~(o.at > Len(there) + 1)
  <2> HIDE DEF l, taken
  <2> QED
    BY <1>3, Accepted DEF PutDown
<1>5. /\ i \in DOMAIN d.tracks /\ d.tracks[i].id \in T
      /\ before \in Seq(Clip(C)) /\ Len(before) \in Nat
      /\ l.at \in 1..Len(before) /\ clip \in Clip(C)
      /\ TrackIndex(d, d.tracks[i].id) = i
      /\ UniqueTracks(d) => clip.id = o.clip_id
  BY ZenonT(60), <1>3, LocatedClip
<1> HIDE DEF l, i, before
<1>6. s \in Seq(Clip(C)) /\ Len(s) = Len(before) - 1 /\ InsertAt(s, l.at, clip) = before
  BY <1>5, Removed, InsertRemoved
<1> HIDE DEF s, clip
<1>7. /\ taken \in Document(T, C) /\ DOMAIN taken.tracks = DOMAIN d.tracks /\ taken.tracks[i].clips = s
      /\ \A j \in DOMAIN d.tracks : taken.tracks[j].id = d.tracks[j].id
  BY <1>5, <1>6, OtherClips
<1>8. WithClips(taken, i, before) = d
  BY <1>5, <1>6, ClipsBack DEF before
<1> HIDE DEF taken
<1>9. to \in DOMAIN taken.tracks /\ there \in Seq(Clip(C)) /\ Len(there) \in Nat
  <2>1. to \in DOMAIN taken.tracks
    BY <1>4, <1>7, IndexOfTrack
  <2> HIDE DEF to
  <2>2. taken.tracks[to] \in Track(T, C)
    BY <1>7, <2>1, TracksOfDocument
  <2> QED
    BY <2>1, <2>2, ClipsOfTrack
<1>10. o.at \in 1..Len(there) + 1
  BY <1>1, <1>4, <1>9
<1> HIDE DEF to, there
<1>11. t \in Seq(Clip(C)) /\ Len(t) = Len(there) + 1 /\ t[o.at] = clip /\ RemoveAt(t, o.at) = there
  BY <1>5, <1>9, <1>10, Inserted, RemoveInserted
<1> HIDE DEF t
<1>12. e \in Document(T, C) /\ KeepsIds(taken, e) /\ DOMAIN e.tracks = DOMAIN taken.tracks /\ e.tracks[to].clips = t
  BY <1>7, <1>9, <1>11, OtherClips
<1>13. WithClips(e, to, there) = taken
  BY <1>7, <1>9, <1>11, ClipsBack DEF there
<1>14. /\ u \in MoveClipOps(T) /\ u.op = "move_clip" /\ u.clip_id = o.clip_id
       /\ u.to_track_id = d.tracks[i].id /\ u.at = l.at
  <2>1. d.tracks[i].id \in T /\ l.at \in Nat \ {0}
    BY <1>5
  <2> QED
    BY <2>1 DEF MoveClipOps, Positions
<1> HIDE DEF e, u
<1>15. r.doc = e /\ r.inverse = u
  BY <1>4, Accepted
<1>16. ASSUME UniqueTracks(d), Unique(e) PROVE Undone(d, r)
  <2> DEFINE m == [found |-> TRUE, track |-> to, at |-> o.at]
             w == [u EXCEPT !.to_track_id = e.tracks[to].id, !.at = o.at]
  <2>1. ClipLocation(e, u.clip_id) = m
    <3>1. o.at \in DOMAIN t
      BY <1>9, <1>10, <1>11, LenProperties
    <3>2. /\ to \in DOMAIN e.tracks /\ o.at \in DOMAIN e.tracks[to].clips
          /\ e.tracks[to].clips[o.at].id = u.clip_id /\ UniqueTracks(e) /\ UniqueClips(e)
      BY <1>5, <1>9, <1>11, <1>12, <1>14, <1>16, <3>1 DEF Unique
    <3>3. ClipLocation(e, e.tracks[to].clips[o.at].id) = m
      BY <1>12, <3>2, OnlyClip
    <3> QED
      BY <3>2, <3>3
  <2>2. ApplyOperation(e, u) = MoveClip(e, u, m)
    BY <1>14, <2>1, Dispatch
  <2>3. ~OutOfBounds(e, m)
    BY <1>9, <1>10, <1>11, <1>12 DEF OutOfBounds
  <2>4. MoveClip(e, u, m) = PutDown(taken, u, e.tracks[to], m)
    BY <1>11, <1>12, <1>13, <2>3 DEF MoveClip
  <2>5. TrackIndex(taken, u.to_track_id) = i /\ i # 0
    <3>1. TrackIndex(taken, u.to_track_id) = TrackIndex(d, u.to_track_id)
      BY <1>7, SameIndex
    <3>2. i \in 1..Len(d.tracks)
      BY <1>5, TracksOfDocument
    <3> QED
      BY <1>5, <1>14, <3>1, <3>2
  <2>6. PutDown(taken, u, e.tracks[to], m) = Accept(WithClips(taken, i, before), w)
    BY <1>5, <1>6, <1>7, <1>11, <1>12, <1>14, <2>5 DEF PutDown
  <2>7. ApplyOperation(e, u) = Accept(d, w)
    BY <1>8, <2>2, <2>4, <2>6
  <2> HIDE DEF w
  <2> QED
    BY <1>15, <2>7, Accepted DEF Undone
<1> QED
  BY <1>7, <1>12, <1>14, <1>15, <1>16 DEF KeepsIds

\* An operation of any kind.
LEMMA OperationUndo ==
    ASSUME NEW T, NEW C, NEW d \in Document(T, C), NEW o \in Operation(T, C),
           NEW r, r = ApplyOperation(d, o), r.outcome = "applied"
    PROVE  /\ r.doc \in Document(T, C) /\ r.inverse \in Operation(T, C)
           /\ UniqueTracks(d) /\ Unique(r.doc) => Undone(d, r)
<1>1. CASE o \in ReplaceFieldOps
  BY <1>1, ReplaceFieldUndo DEF Operation
<1>2. CASE o \in InsertTrackOps(T, C)
  BY <1>2, InsertTrackUndo DEF Operation, Unique
<1>3. CASE o \in RemoveTrackOps(T)
  BY <1>3, RemoveTrackUndo DEF Operation
<1>4. CASE o \in ReplaceTrackOps(T, C)
  BY <1>4, ReplaceTrackUndo DEF Operation
<1>5. CASE o \in ReorderTracksOps(T)
  BY <1>5, ReorderTracksUndo DEF Operation
<1>6. CASE o \in InsertClipOps(T, C)
  BY <1>6, InsertClipUndo DEF Operation
<1>7. CASE o \in RemoveClipOps
  BY <1>7, RemoveClipUndo DEF Operation
<1>8. CASE o \in ReplaceClipOps(C)
  BY <1>8, ReplaceClipUndo DEF Operation
<1>9. CASE o \in MoveClipOps(T)
  BY <1>9, MoveClipUndo DEF Operation
<1>10. CASE o \in ReplaceTrackClipsOps(T, C)
  BY <1>10, ReplaceTrackClipsUndo DEF Operation
<1> QED
  BY <1>1, <1>2, <1>3, <1>4, <1>5, <1>6, <1>7, <1>8, <1>9, <1>10 DEF Operation

----------------------------------------------------------------------------
(* One operation and the identities of the tracks: only the insertion of a *)
(* track brings one in, and a document that holds one twice holds it twice *)
(* until a track with this identity is removed.                            *)

TrackIds(d) == {d.tracks[i].id : i \in DOMAIN d.tracks}
Inserts(o, t) == o.op = "insert_track" /\ o.track.id = t
Removes(o, t) == o.op = "remove_track" /\ o.track_id = t
Doubled(d, t) ==
    \E i, j \in DOMAIN d.tracks : i # j /\ d.tracks[i].id = t /\ d.tracks[j].id = t

TrackStep(d, o, e) ==
    /\ \A t \in TrackIds(e) : t \in TrackIds(d) \/ Inserts(o, t)
    /\ \A t : Removes(o, t) => t \in TrackIds(d)
    /\ UniqueTracks(d) => \A t \in TrackIds(e) : ~Removes(o, t)
    /\ UniqueTracks(d) /\ (\A t \in TrackIds(d) : ~Inserts(o, t)) => UniqueTracks(e)
    /\ \A t : Doubled(d, t) /\ ~Removes(o, t) => Doubled(e, t)
    /\ \A t \in TrackIds(d) : Inserts(o, t) => Doubled(e, t)

\* The inverse takes out what was brought in, and the other way round.
Opposite(o, i) ==
    /\ \A t : Inserts(i, t) <=> Removes(o, t)
    /\ \A t : Removes(i, t) <=> Inserts(o, t)

TrackRules(d, o, r) == TrackStep(d, o, r.doc) /\ Opposite(o, r.inverse)

\* Operations on fields, on what a track holds and on clips.
LEMMA RulesOfOthers ==
    ASSUME NEW T, NEW C, NEW d \in Document(T, C), NEW o \in Operation(T, C),
           NEW r, r = ApplyOperation(d, o), r.outcome = "applied",
           o.op \notin {"insert_track", "remove_track", "reorder_tracks"}
    PROVE  TrackRules(d, o, r)
<1>1. KeepsIds(d, r.doc) /\ r.inverse.op \notin {"insert_track", "remove_track"}
  <2>1. CASE o \in ReplaceFieldOps
    BY <2>1, ReplaceFieldUndo DEF ReplaceFieldOps
  <2>2. CASE o \in InsertTrackOps(T, C) \cup RemoveTrackOps(T) \cup ReorderTracksOps(T)
    BY <2>2 DEF InsertTrackOps, RemoveTrackOps, ReorderTracksOps
  <2>3. CASE o \in ReplaceTrackOps(T, C)
    BY <2>3, ReplaceTrackUndo DEF ReplaceTrackOps
  <2>4. CASE o \in InsertClipOps(T, C)
    BY <2>4, InsertClipUndo DEF RemoveClipOps
  <2>5. CASE o \in RemoveClipOps
    BY <2>5, RemoveClipUndo DEF InsertClipOps
  <2>6. CASE o \in ReplaceClipOps(C)
    BY <2>6, ReplaceClipUndo DEF ReplaceClipOps
  <2>7. CASE o \in MoveClipOps(T)
    BY <2>7, MoveClipUndo DEF MoveClipOps
  <2>8. CASE o \in ReplaceTrackClipsOps(T, C)
    BY <2>8, ReplaceTrackClipsUndo DEF ReplaceTrackClipsOps
  <2> QED
    BY <2>1, <2>2, <2>3, <2>4, <2>5, <2>6, <2>7, <2>8 DEF Operation
<1>2. \A t : ~Inserts(o, t) /\ ~Removes(o, t) /\ ~Inserts(r.inverse, t) /\ ~Removes(r.inverse, t)
  BY <1>1 DEF Inserts, Removes
<1>3. TrackIds(r.doc) = TrackIds(d)
  BY <1>1 DEF KeepsIds, TrackIds
<1>4. UniqueTracks(d) => UniqueTracks(r.doc)
  BY <1>1 DEF KeepsIds, UniqueTracks
<1>5. \A t : Doubled(d, t) => Doubled(r.doc, t)
  BY <1>1 DEF KeepsIds, Doubled
<1> QED
  BY <1>2, <1>3, <1>4, <1>5 DEF TrackRules, TrackStep, Opposite

\* InsertTrack brings one track in.
LEMMA RulesOfInsert ==
    ASSUME NEW T, NEW C, NEW d \in Document(T, C), NEW o \in InsertTrackOps(T, C),
           NEW r, r = ApplyOperation(d, o), r.outcome = "applied"
    PROVE  TrackRules(d, o, r)
<1> DEFINE s == d.tracks
           e == r.doc
           n == Len(s)
           Up(j) == IF j < o.at THEN j ELSE j + 1
<1>1. /\ e \in Document(T, C) /\ r.inverse \in RemoveTrackOps(T) /\ r.inverse.track_id = o.track.id
      /\ o.at \in 1..n + 1 /\ e.tracks = InsertAt(s, o.at, o.track)
  BY InsertTrackUndo
<1>2. o.op = "insert_track" /\ o.track \in Track(T, C) /\ r.inverse.op = "remove_track"
  BY <1>1 DEF InsertTrackOps, RemoveTrackOps
<1>3. s \in Seq(Track(T, C)) /\ n \in Nat /\ DOMAIN s = 1..n
  BY TracksOfDocument
<1>4. /\ Len(e.tracks) = n + 1
      /\ e.tracks[o.at] = o.track
      /\ \A k \in 1..o.at - 1 : e.tracks[k] = s[k]
      /\ \A k \in o.at..n : e.tracks[k + 1] = s[k]
  BY SMTT(30), <1>1, <1>2, <1>3, Inserted
<1>5. DOMAIN e.tracks = 1..n + 1 /\ o.at \in DOMAIN e.tracks
  BY <1>1, <1>4, TracksOfDocument
<1> HIDE DEF s, e, n
<1>6. ASSUME NEW j \in 1..n
      PROVE  Up(j) \in 1..n + 1 /\ Up(j) # o.at /\ e.tracks[Up(j)] = s[j]
  <2>1. CASE j < o.at
    <3>1. j \in 1..o.at - 1 /\ j \in 1..n + 1
      BY <1>1, <1>3, <2>1
    <3> QED
      BY <1>1, <1>4, <2>1, <3>1
  <2>2. CASE ~(j < o.at)
    <3>1. j \in o.at..n /\ j + 1 \in 1..n + 1 /\ j + 1 # o.at
      BY <1>1, <1>3, <2>2
    <3> QED
      BY <1>4, <2>2, <3>1
  <2> QED
    BY <2>1, <2>2
<1>7. ASSUME NEW k \in 1..n + 1, k # o.at PROVE \E j \in 1..n : k = Up(j)
  <2>1. CASE k < o.at
    <3>1. k \in 1..n
      BY <1>1, <1>3, <2>1
    <3> QED
      BY <2>1, <3>1
  <2>2. CASE ~(k < o.at)
    <3>1. k - 1 \in 1..n /\ ~(k - 1 < o.at) /\ (k - 1) + 1 = k
      BY <1>1, <1>3, <1>7, <2>2
    <3> QED
      BY <3>1
  <2> QED
    BY <2>1, <2>2
<1>8. \A i, j \in 1..n : Up(i) = Up(j) => i = j
  BY <1>1, <1>3
<1> HIDE DEF Up
<1>9. TrackIds(d) = {s[j].id : j \in 1..n} /\ TrackIds(e) = {e.tracks[k].id : k \in 1..n + 1}
  BY <1>3, <1>5 DEF TrackIds, s
<1>10. \A t \in TrackIds(e) : t \in TrackIds(d) \/ t = o.track.id
  <2> SUFFICES ASSUME NEW k \in 1..n + 1, k # o.at PROVE e.tracks[k].id \in TrackIds(d)
    BY <1>4, <1>9
  <2>1. PICK j \in 1..n : k = Up(j)
    BY <1>7
  <2> QED
    BY <1>6, <1>9, <2>1
<1>11. UniqueTracks(d) /\ o.track.id \notin TrackIds(d) => UniqueTracks(e)
  <2> SUFFICES ASSUME UniqueTracks(d), o.track.id \notin TrackIds(d),
                      NEW i \in 1..n + 1, NEW j \in 1..n + 1, e.tracks[i].id = e.tracks[j].id
               PROVE  i = j
    BY <1>5 DEF UniqueTracks
  <2>1. i # o.at => \E k \in 1..n : i = Up(k) /\ e.tracks[i] = s[k] /\ s[k].id # o.track.id
    BY <1>6, <1>7, <1>9
  <2>2. j # o.at => \E k \in 1..n : j = Up(k) /\ e.tracks[j] = s[k] /\ s[k].id # o.track.id
    BY <1>6, <1>7, <1>9
  <2>3. \A x, y \in 1..n : s[x].id = s[y].id => x = y
    BY <1>3 DEF UniqueTracks, s
  <2> QED
    BY <1>4, <2>1, <2>2, <2>3
<1>12. \A t : Doubled(d, t) => Doubled(e, t)
  <2> SUFFICES ASSUME NEW t, NEW i \in 1..n, NEW j \in 1..n, i # j, s[i].id = t, s[j].id = t
               PROVE  Doubled(e, t)
    BY <1>3 DEF Doubled, s
  <2>1. Up(i) # Up(j) /\ Up(i) \in 1..n + 1 /\ Up(j) \in 1..n + 1
    BY <1>6, <1>8
  <2> QED
    BY <1>5, <1>6, <2>1 DEF Doubled
<1>13. o.track.id \in TrackIds(d) => Doubled(e, o.track.id)
  <2> SUFFICES ASSUME NEW j \in 1..n, s[j].id = o.track.id PROVE Doubled(e, o.track.id)
    BY <1>9
  <2> QED
    BY <1>4, <1>5, <1>6 DEF Doubled
<1>14. \A t : (Inserts(o, t) <=> t = o.track.id) /\ ~Removes(o, t)
  BY <1>2 DEF Inserts, Removes
<1>15. \A t : (Removes(r.inverse, t) <=> t = o.track.id) /\ ~Inserts(r.inverse, t)
  BY <1>1, <1>2 DEF Inserts, Removes
<1> QED
  BY <1>10, <1>11, <1>12, <1>13, <1>14, <1>15 DEF TrackRules, TrackStep, Opposite, e

\* RemoveTrack takes one track out, and the only one of its identity for good.
LEMMA RulesOfRemove ==
    ASSUME NEW T, NEW C, NEW d \in Document(T, C), NEW o \in RemoveTrackOps(T),
           NEW r, r = ApplyOperation(d, o), r.outcome = "applied"
    PROVE  TrackRules(d, o, r)
<1> DEFINE s == d.tracks
           e == r.doc
           n == Len(s)
<1>1. /\ e \in Document(T, C) /\ r.inverse \in InsertTrackOps(T, C) /\ r.inverse.track.id = o.track_id
      /\ \E i \in 1..n : s[i].id = o.track_id /\ e.tracks = RemoveAt(s, i)
  BY RemoveTrackUndo
<1>2. o.op = "remove_track" /\ r.inverse.op = "insert_track"
  BY <1>1 DEF InsertTrackOps, RemoveTrackOps
<1>3. s \in Seq(Track(T, C)) /\ n \in Nat /\ DOMAIN s = 1..n
  BY TracksOfDocument
<1>4. PICK i \in 1..n : s[i].id = o.track_id /\ e.tracks = RemoveAt(s, i)
  BY <1>1
<1> DEFINE Up(j) == IF j < i THEN j ELSE j + 1
<1>5. /\ Len(e.tracks) = n - 1
      /\ \A k \in 1..i - 1 : e.tracks[k] = s[k]
      /\ \A k \in i..n - 1 : e.tracks[k] = s[k + 1]
  <2> DEFINE t == RemoveAt(s, i)
  <2> HIDE DEF s, n
  <2>1. /\ Len(t) = Len(s) - 1
        /\ \A k \in 1..i - 1 : t[k] = s[k]
        /\ \A k \in i..Len(s) - 1 : t[k] = s[k + 1]
    BY Zenon, <1>3, <1>4, Removed DEF n
  <2> QED
    BY <1>4, <2>1 DEF n
<1>6. DOMAIN e.tracks = 1..n - 1
  BY <1>1, <1>5, TracksOfDocument
<1> HIDE DEF s, e, n
<1>7. ASSUME NEW k \in 1..n - 1 PROVE Up(k) \in 1..n /\ Up(k) # i /\ e.tracks[k] = s[Up(k)]
  <2>1. CASE k < i
    <3>1. k \in 1..i - 1 /\ k \in 1..n
      BY <1>3, <2>1
    <3> QED
      BY <1>5, <2>1, <3>1
  <2>2. CASE ~(k < i)
    <3>1. k \in i..n - 1 /\ k + 1 \in 1..n /\ k + 1 # i
      BY <1>3, <2>2
    <3> QED
      BY <1>5, <2>2, <3>1
  <2> QED
    BY <2>1, <2>2
<1>8. ASSUME NEW j \in 1..n, j # i PROVE \E k \in 1..n - 1 : j = Up(k)
  <2>1. CASE j < i
    <3>1. j \in 1..n - 1
      BY <1>3, <2>1
    <3> QED
      BY <2>1, <3>1
  <2>2. CASE ~(j < i)
    <3>1. j - 1 \in 1..n - 1 /\ ~(j - 1 < i) /\ (j - 1) + 1 = j
      BY <1>3, <1>8, <2>2
    <3> QED
      BY <3>1
  <2> QED
    BY <2>1, <2>2
<1>9. \A k, l \in 1..n - 1 : Up(k) = Up(l) => k = l
  BY <1>3
<1> HIDE DEF Up
<1>10. TrackIds(d) = {s[j].id : j \in 1..n} /\ TrackIds(e) = {e.tracks[k].id : k \in 1..n - 1}
  BY <1>3, <1>6 DEF TrackIds, s
<1>11. \A t \in TrackIds(e) : t \in TrackIds(d)
  BY <1>7, <1>10
<1>12. o.track_id \in TrackIds(d)
  BY <1>4, <1>10
<1>13. UniqueTracks(d) => o.track_id \notin TrackIds(e) /\ UniqueTracks(e)
  <2> SUFFICES ASSUME UniqueTracks(d) PROVE o.track_id \notin TrackIds(e) /\ UniqueTracks(e)
    OBVIOUS
  <2>1. \A x, y \in 1..n : s[x].id = s[y].id => x = y
    BY <1>3 DEF UniqueTracks, s
  <2>2. o.track_id \notin TrackIds(e)
    BY <1>4, <1>7, <1>10, <2>1
  <2>3. UniqueTracks(e)
    BY <1>6, <1>7, <1>9, <2>1 DEF UniqueTracks
  <2> QED
    BY <2>2, <2>3
<1>14. ASSUME NEW t, t # o.track_id, Doubled(d, t) PROVE Doubled(e, t)
  <2>1. PICK x \in 1..n, y \in 1..n : x # y /\ s[x].id = t /\ s[y].id = t
    BY <1>3, <1>14 DEF Doubled, s
  <2>2. PICK k \in 1..n - 1 : x = Up(k)
    BY <1>4, <1>8, <1>14, <2>1
  <2>3. PICK l \in 1..n - 1 : y = Up(l)
    BY <1>4, <1>8, <1>14, <2>1
  <2> QED
    BY <1>6, <1>7, <2>1, <2>2, <2>3 DEF Doubled
<1>15. \A t : (Removes(o, t) <=> t = o.track_id) /\ ~Inserts(o, t)
  BY <1>2 DEF Inserts, Removes
<1>16. \A t : (Inserts(r.inverse, t) <=> t = o.track_id) /\ ~Removes(r.inverse, t)
  BY <1>1, <1>2 DEF Inserts, Removes
<1> QED
  BY <1>11, <1>12, <1>13, <1>14, <1>15, <1>16 DEF TrackRules, TrackStep, Opposite, e

\* Fewer holes than pigeons.
LEMMA Pigeons ==
    ASSUME NEW I, NEW U, IsFiniteSet(I), IsFiniteSet(U), Cardinality(U) < Cardinality(I),
           NEW f, f \in [I -> U]
    PROVE  \E k, l \in I : k # l /\ f[k] = f[l]
BY FS_PigeonHole

\* Reordering names every track exactly once, so it is refused where an
\* identity is held twice.
LEMMA RulesOfReorder ==
    ASSUME NEW T, NEW C, NEW d \in Document(T, C), NEW o \in ReorderTracksOps(T),
           NEW r, r = ApplyOperation(d, o), r.outcome = "applied"
    PROVE  TrackRules(d, o, r)
<1> DEFINE s == d.tracks
           e == r.doc
           ids == o.track_ids
           n == Len(s)
<1>1. /\ r.inverse \in ReorderTracksOps(T)
      /\ DOMAIN e.tracks = DOMAIN s /\ DOMAIN ids = DOMAIN s
      /\ \A i \in DOMAIN s : e.tracks[i].id = ids[i]
      /\ \A i \in DOMAIN s : \E j \in DOMAIN s : ids[i] = s[j].id
      /\ \A i, j \in DOMAIN s : ids[i] = ids[j] => i = j
  BY ReorderTracksUndo DEF Reordered
<1>2. n \in Nat /\ DOMAIN s = 1..n
  BY TracksOfDocument
<1> HIDE DEF s, e, ids, n
<1>3. \A t \in TrackIds(e) : t \in TrackIds(d)
  BY <1>1 DEF TrackIds, s
<1>4. UniqueTracks(e)
  BY <1>1 DEF UniqueTracks
<1>5. \A t : ~Doubled(d, t)
  <2> SUFFICES ASSUME NEW x \in 1..n, NEW y \in 1..n, x # y, s[x].id = s[y].id PROVE FALSE
    BY <1>2 DEF Doubled, s
  <2> DEFINE U == (1..n) \ {y}
             f == [k \in 1..n |-> CHOOSE j \in U : s[j].id = ids[k]]
  <2>1. ASSUME NEW k \in 1..n PROVE \E j \in U : s[j].id = ids[k]
    <3>1. PICK j \in 1..n : ids[k] = s[j].id
      BY <1>1, <1>2
    <3>2. CASE j = y
      BY <3>1, <3>2
    <3>3. CASE j # y
      BY <3>1, <3>3
    <3> QED
      BY <3>2, <3>3
  <2>2. \A k \in 1..n : f[k] \in U /\ s[f[k]].id = ids[k]
    BY <2>1
  <2>3. f \in [1..n -> U]
    BY <2>2
  <2>4. IsFiniteSet(1..n) /\ Cardinality(1..n) = n
    BY <1>2, FS_Interval
  <2>5. IsFiniteSet(U) /\ Cardinality(U) = n - 1
    BY <2>4, FS_RemoveElement
  <2> HIDE DEF f, U
  <2>6. PICK k \in 1..n, l \in 1..n : k # l /\ f[k] = f[l]
    <3> DEFINE I == 1..n
    <3>1. /\ IsFiniteSet(I) /\ IsFiniteSet(U) /\ Cardinality(U) < Cardinality(I)
          /\ f \in [I -> U]
      BY <1>2, <2>3, <2>4, <2>5
    <3> HIDE DEF I
    <3>2. \E k, l \in I : k # l /\ f[k] = f[l]
      BY <3>1, Pigeons
    <3> QED
      BY <3>2 DEF I
  <2>7. ids[k] = ids[l]
    BY <2>2, <2>6
  <2> QED
    BY <1>1, <1>2, <2>6, <2>7
<1>6. \A t : ~Inserts(o, t) /\ ~Removes(o, t) /\ ~Inserts(r.inverse, t) /\ ~Removes(r.inverse, t)
  BY <1>1 DEF ReorderTracksOps, Inserts, Removes
<1> QED
  BY <1>3, <1>4, <1>5, <1>6 DEF TrackRules, TrackStep, Opposite, e

\* The rules hold of every operation.
LEMMA RulesOfOperation ==
    ASSUME NEW T, NEW C, NEW d \in Document(T, C), NEW o \in Operation(T, C),
           NEW r, r = ApplyOperation(d, o), r.outcome = "applied"
    PROVE  TrackRules(d, o, r)
<1>1. CASE o \in InsertTrackOps(T, C)
  BY <1>1, RulesOfInsert
<1>2. CASE o \in RemoveTrackOps(T)
  BY <1>2, RulesOfRemove
<1>3. CASE o \in ReorderTracksOps(T)
  BY <1>3, RulesOfReorder
<1>4. CASE o \notin InsertTrackOps(T, C) \cup RemoveTrackOps(T) \cup ReorderTracksOps(T)
  <2>1. o.op \notin {"insert_track", "remove_track", "reorder_tracks"}
    BY <1>4 DEF Operation, ReplaceFieldOps, ReplaceTrackOps, InsertClipOps, RemoveClipOps,
                ReplaceClipOps, MoveClipOps, ReplaceTrackClipsOps
  <2> QED
    BY <2>1, RulesOfOthers
<1> QED
  BY <1>1, <1>2, <1>3, <1>4

----------------------------------------------------------------------------
(* A patch, operation by operation.  Stage is a recursive function over    *)
(* the operations: it exists, and it is the only one, by induction.        *)

\* The stages of a patch up to operation n.
IsRun(f, d, ops, n) ==
    f = [k \in 0..n |-> IF k = 0 THEN Accept(d, <<>>) ELSE Advance(f[k - 1], ops[k])]

\* The stages exist, up to every operation.
LEMMA RunExists ==
    ASSUME NEW d, NEW ops, NEW m \in Nat
    PROVE  \E f : IsRun(f, d, ops, m)
<1> DEFINE S == {n \in 0..m : \E f : IsRun(f, d, ops, n)}
<1>1. 0 \in S
  <2> DEFINE g == [k \in 0..0 |-> Accept(d, <<>>)]
  <2>1. IsRun(g, d, ops, 0)
    BY DEF IsRun
  <2> QED
    BY <2>1
<1>2. ASSUME NEW n \in 0..m, n \in S, n < m PROVE n + 1 \in S
  <2>1. PICK f : IsRun(f, d, ops, n)
    BY <1>2
  <2> DEFINE g == [k \in 0..n + 1 |-> IF k = n + 1 THEN Advance(f[n], ops[n + 1]) ELSE f[k]]
  <2>2. ASSUME NEW k \in 0..n + 1
        PROVE  g[k] = IF k = 0 THEN Accept(d, <<>>) ELSE Advance(g[k - 1], ops[k])
    <3>1. CASE k = n + 1
      <4>1. k # 0 /\ k - 1 = n /\ n \in 0..n + 1 /\ n # n + 1
        BY <3>1
      <4> QED
        BY <3>1, <4>1
    <3>2. CASE k # n + 1
      <4>1. k \in 0..n
        BY <3>2
      <4>2. g[k] = IF k = 0 THEN Accept(d, <<>>) ELSE Advance(f[k - 1], ops[k])
        BY <2>1, <3>2, <4>1 DEF IsRun
      <4>3. k # 0 => k - 1 \in 0..n + 1 /\ k - 1 # n + 1
        BY <4>1
      <4> QED
        BY <4>2, <4>3
    <3> QED
      BY <3>1, <3>2
  <2>3. IsRun(g, d, ops, n + 1)
    <3>1. g = [k \in 0..n + 1 |-> g[k]]
      OBVIOUS
    <3> HIDE DEF g
    <3> QED
      BY <2>2, <3>1 DEF IsRun
  <2> QED
    BY <1>2, <2>3
<1>3. 0..m \subseteq S
  <2> HIDE DEF S
  <2> QED
    BY <1>1, <1>2, UpToEach
<1> QED
  BY <1>3

Steps(f, d, ops, n) ==
    /\ f[0] = Accept(d, <<>>)
    /\ \A k \in 1..n : f[k] = Advance(f[k - 1], ops[k])

\* The stages, step by step.
LEMMA RunStep ==
    ASSUME NEW d, NEW ops, NEW m \in Nat, NEW f, IsRun(f, d, ops, m)
    PROVE  Steps(f, d, ops, m)
<1>1. \A k \in 0..m : f[k] = IF k = 0 THEN Accept(d, <<>>) ELSE Advance(f[k - 1], ops[k])
  BY DEF IsRun
<1>2. \A k \in 1..m : k \in 0..m /\ k # 0
  OBVIOUS
<1> QED
  BY <1>1, <1>2 DEF Steps

\* Two runs agree as far as their operations do.
Agree(f, g, S) == \A k \in S : f[k] = g[k]

\* Patches with the same first operations have the same first stages.
LEMMA RunsAgree ==
    ASSUME NEW d, NEW ops, NEW others, NEW m \in Nat, NEW n \in Nat, NEW f, NEW g,
           IsRun(f, d, ops, m), IsRun(g, d, others, n), n <= m, Agree(others, ops, 1..n)
    PROVE  Agree(f, g, 0..n)
<1> DEFINE S == {k \in 0..n : f[k] = g[k]}
<1>a. Steps(f, d, ops, m) /\ Steps(g, d, others, n)
  BY RunStep
<1> USE DEF Steps, Agree
<1>1. 0 \in S
  BY <1>a
<1>2. ASSUME NEW k \in 0..n, k \in S, k < n PROVE k + 1 \in S
  <2>1. k + 1 \in 1..n /\ k + 1 \in 1..m /\ (k + 1) - 1 = k /\ k + 1 \in 0..n
    BY <1>2
  <2>2. f[k + 1] = Advance(f[k], ops[k + 1]) /\ g[k + 1] = Advance(g[k], others[k + 1])
    BY <1>a, <2>1
  <2> QED
    BY <1>2, <2>1, <2>2
<1>3. 0..n \subseteq S
  <2> HIDE DEF S
  <2> QED
    BY <1>1, <1>2, UpToEach
<1> QED
  BY <1>3

\* The result of a patch is its last stage.
LEMMA StageOfRun ==
    ASSUME NEW d, NEW ops, Len(ops) \in Nat, NEW f, IsRun(f, d, ops, Len(ops))
    PROVE  Stage(d, ops) = f[Len(ops)]
<1> DEFINE g == CHOOSE h : IsRun(h, d, ops, Len(ops))
<1>1. IsRun(g, d, ops, Len(ops))
  BY Zenon
<1>2. Stage(d, ops) = g[Len(ops)]
  BY DEF Stage, IsRun
<1> HIDE DEF g
<1>3. f[Len(ops)] = g[Len(ops)]
  BY <1>1, RunsAgree DEF Agree
<1> QED
  BY <1>2, <1>3

\* The stages of a patch are those of its first operations.
LEMMA StagesOfPatch ==
    ASSUME NEW X, NEW d, NEW ops \in Seq(X)
    PROVE  \E f : /\ Steps(f, d, ops, Len(ops))
                  /\ \A n \in 0..Len(ops) : f[n] = Stage(d, SubSeq(ops, 1, n))
                  /\ f[Len(ops)] = Stage(d, ops)
<1>1. Len(ops) \in Nat
  BY LenProperties
<1>2. PICK f : IsRun(f, d, ops, Len(ops))
  BY <1>1, RunExists
<1>3. ASSUME NEW n \in 0..Len(ops) PROVE f[n] = Stage(d, SubSeq(ops, 1, n))
  <2> DEFINE first == SubSeq(ops, 1, n)
  <2>1. Len(first) = n /\ n \in Nat /\ n <= Len(ops) /\ \A k \in 1..n : first[k] = ops[k]
    BY <1>1, SubSeqProperties
  <2> HIDE DEF first
  <2>2. PICK g : IsRun(g, d, first, n)
    BY <2>1, RunExists
  <2>3. Stage(d, first) = g[n]
    BY <2>1, <2>2, StageOfRun
  <2>4. Agree(first, ops, 1..n)
    BY <2>1 DEF Agree
  <2>5. Agree(f, g, 0..n)
    BY <1>1, <1>2, <2>1, <2>2, <2>4, RunsAgree
  <2>6. f[n] = g[n]
    BY <2>1, <2>5 DEF Agree
  <2> QED
    BY <2>3, <2>6 DEF first
<1>4. Steps(f, d, ops, Len(ops))
  BY <1>1, <1>2, RunStep
<1>5. f[Len(ops)] = Stage(d, ops)
  BY <1>1, <1>2, StageOfRun
<1> QED
  BY <1>3, <1>4, <1>5

\* Stages in which every operation is applied.
AppliedSteps(f, d, ops, n) ==
    /\ f[0] = Accept(d, <<>>)
    /\ \A k \in 1..n :
          LET r == ApplyOperation(f[k - 1].doc, ops[k])
          IN  /\ f[k - 1].outcome = "applied"
              /\ r.outcome = "applied"
              /\ f[k] = Accept(r.doc, <<r.inverse>> \o f[k - 1].inverse)

\* An applied operation after an applied stage; nothing else is applied.
LEMMA AdvanceApplied ==
    ASSUME NEW s, NEW o, Advance(s, o).outcome = "applied", NEW r, r = ApplyOperation(s.doc, o)
    PROVE  /\ s.outcome = "applied"
           /\ r.outcome = "applied"
           /\ Advance(s, o) = Accept(r.doc, <<r.inverse>> \o s.inverse)
BY DEF Advance, Join

\* A patch is applied only if each of its operations was.
LEMMA AllApplied ==
    ASSUME NEW d, NEW ops, NEW m \in Nat, NEW f, Steps(f, d, ops, m), f[m].outcome = "applied"
    PROVE  AppliedSteps(f, d, ops, m)
<1> DEFINE S == {n \in 0..m : f[m - n].outcome = "applied"}
<1>1. 0 \in S
  OBVIOUS
<1>2. ASSUME NEW n \in 0..m, n \in S, n < m PROVE n + 1 \in S
  <2>1. m - n \in 1..m /\ (m - n) - 1 = m - (n + 1) /\ n + 1 \in 0..m
    BY <1>2
  <2>2. f[m - n] = Advance(f[(m - n) - 1], ops[m - n])
    BY <2>1 DEF Steps
  <2>3. f[(m - n) - 1].outcome = "applied"
    BY <1>2, <2>2, AdvanceApplied
  <2> QED
    BY <2>1, <2>3
<1>3. 0..m \subseteq S
  <2> HIDE DEF S
  <2> QED
    BY <1>1, <1>2, UpToEach
<1>4. ASSUME NEW k \in 1..m
      PROVE  LET r == ApplyOperation(f[k - 1].doc, ops[k])
             IN  /\ f[k - 1].outcome = "applied"
                 /\ r.outcome = "applied"
                 /\ f[k] = Accept(r.doc, <<r.inverse>> \o f[k - 1].inverse)
  <2>0. m - k \in 0..m /\ m - (m - k) = k
    OBVIOUS
  <2>1. m - k \in S /\ m - (m - k) = k
    BY <1>3, <2>0
  <2>2. f[k].outcome = "applied"
    BY <2>1
  <2>3. f[k] = Advance(f[k - 1], ops[k])
    BY DEF Steps
  <2> QED
    BY <2>2, <2>3, AdvanceApplied
<1> QED
  BY <1>4 DEF AppliedSteps, Steps

\* The types of the stages, and what an inverse is made of.
LEMMA StageTypes ==
    ASSUME NEW T, NEW C, NEW d \in Document(T, C), NEW ops \in Seq(Operation(T, C)),
           NEW f, AppliedSteps(f, d, ops, Len(ops))
    PROVE  \A k \in 0..Len(ops) :
              /\ f[k].outcome = "applied"
              /\ f[k].doc \in Document(T, C)
              /\ f[k].inverse \in Seq(Operation(T, C))
              /\ Len(f[k].inverse) = k
              /\ \A j \in 1..k : f[k].inverse[j] = ApplyOperation(f[k - j].doc, ops[k - j + 1]).inverse
<1> DEFINE Made(k) ==
             /\ f[k].outcome = "applied"
             /\ f[k].doc \in Document(T, C)
             /\ f[k].inverse \in Seq(Operation(T, C))
             /\ Len(f[k].inverse) = k
             /\ \A j \in 1..k : f[k].inverse[j] = ApplyOperation(f[k - j].doc, ops[k - j + 1]).inverse
           S == {k \in 0..Len(ops) : Made(k)}
<1>0. Len(ops) \in Nat /\ \A k \in 1..Len(ops) : ops[k] \in Operation(T, C)
  BY LenProperties, ElementOfSeq
<1>1. 0 \in S
  <2>1. f[0].outcome = "applied" /\ f[0].doc = d /\ f[0].inverse = <<>>
    BY Accepted DEF AppliedSteps
  <2>2. 0 \in 0..Len(ops) /\ \A j \in 1..0 : FALSE
    BY <1>0
  <2>3. <<>> \in Seq(Operation(T, C)) /\ Len(<<>>) = 0
    OBVIOUS
  <2>4. Made(0)
    BY <2>1, <2>2, <2>3
  <2> HIDE DEF Made
  <2> QED
    BY <2>2, <2>4
<1>2. ASSUME NEW k \in 0..Len(ops), k \in S, k < Len(ops) PROVE k + 1 \in S
  <2> DEFINE r == ApplyOperation(f[k].doc, ops[k + 1])
             before == f[k].inverse
             after == <<r.inverse>> \o before
  <2>1. k + 1 \in 1..Len(ops) /\ (k + 1) - 1 = k /\ k + 1 \in 0..Len(ops)
    BY <1>0, <1>2
  <2>2. r.outcome = "applied" /\ f[k + 1] = Accept(r.doc, after)
    BY <2>1 DEF AppliedSteps
  <2>3. Made(k)
    BY <1>2
  <2>4. r.doc \in Document(T, C) /\ r.inverse \in Operation(T, C)
    BY <1>0, <2>1, <2>2, <2>3, OperationUndo
  <2>5. before \in Seq(Operation(T, C)) /\ Len(before) = k
        /\ \A j \in 1..k : before[j] = ApplyOperation(f[k - j].doc, ops[k - j + 1]).inverse
    BY <2>3
  <2> HIDE DEF before
  <2>6. <<r.inverse>> \in Seq(Operation(T, C)) /\ Len(<<r.inverse>>) = 1 /\ <<r.inverse>>[1] = r.inverse
    BY <2>4
  <2>7. /\ after \in Seq(Operation(T, C)) /\ Len(after) = k + 1
        /\ \A j \in 1..k + 1 : after[j] = IF j <= 1 THEN <<r.inverse>>[j] ELSE before[j - 1]
    BY <2>5, <2>6, ConcatProperties
  <2> HIDE DEF after
  <2>8. ASSUME NEW j \in 1..k + 1
        PROVE  after[j] = ApplyOperation(f[(k + 1) - j].doc, ops[(k + 1) - j + 1]).inverse
    <3>1. CASE j = 1
      <4>1. (k + 1) - j = k /\ (k + 1) - j + 1 = k + 1
        BY <3>1
      <4> QED
        BY <2>6, <2>7, <3>1, <4>1
    <3>2. CASE j # 1
      <4>1. j - 1 \in 1..k /\ ~(j <= 1) /\ k - (j - 1) = (k + 1) - j
        BY <3>2
      <4> QED
        BY <2>5, <2>7, <4>1
    <3> QED
      BY <3>1, <3>2
  <2>9. f[k + 1].outcome = "applied" /\ f[k + 1].doc = r.doc /\ f[k + 1].inverse = after
    BY <2>2, Accepted
  <2>10. Made(k + 1)
    BY <2>4, <2>7, <2>8, <2>9
  <2> HIDE DEF Made
  <2> QED
    BY <2>1, <2>10
<1>3. 0..Len(ops) \subseteq S
  <2> HIDE DEF S
  <2> QED
    BY <1>0, <1>1, <1>2, UpToEach
<1> QED
  BY <1>3

\* A patch whose operations lead from document to document is applied.
Lead(docs, ops) ==
    \A k \in 1..Len(ops) : /\ ApplyOperation(docs[k - 1], ops[k]).outcome = "applied"
                           /\ ApplyOperation(docs[k - 1], ops[k]).doc = docs[k]

\* Documents that lead from one to the next are the stages.
LEMMA StageOfDocuments ==
    ASSUME NEW X, NEW d, NEW ops \in Seq(X), NEW docs, docs[0] = d, Lead(docs, ops)
    PROVE  Stage(d, ops).outcome = "applied" /\ Stage(d, ops).doc = docs[Len(ops)]
<1>1. PICK f : Steps(f, d, ops, Len(ops)) /\ f[Len(ops)] = Stage(d, ops)
  BY StagesOfPatch
<1> DEFINE S == {k \in 0..Len(ops) : f[k].outcome = "applied" /\ f[k].doc = docs[k]}
<1>0. Len(ops) \in Nat
  BY LenProperties
<1>2. 0 \in S
  BY <1>0, <1>1, Accepted DEF Steps
<1>3. ASSUME NEW k \in 0..Len(ops), k \in S, k < Len(ops) PROVE k + 1 \in S
  <2> DEFINE r == ApplyOperation(docs[k], ops[k + 1])
  <2>1. k + 1 \in 1..Len(ops) /\ (k + 1) - 1 = k /\ k + 1 \in 0..Len(ops)
    BY <1>0, <1>3
  <2>2. f[k + 1] = Advance(f[k], ops[k + 1]) /\ r.outcome = "applied" /\ r.doc = docs[k + 1]
    BY <1>1, <2>1 DEF Steps, Lead
  <2>3. f[k].outcome = "applied" /\ f[k].doc = docs[k]
    BY <1>3
  <2> HIDE DEF r
  <2>4. f[k + 1] = Accept(r.doc, <<r.inverse>> \o f[k].inverse)
    BY <2>2, <2>3 DEF Advance, Join, r
  <2> QED
    BY <2>1, <2>2, <2>4, Accepted
<1>4. 0..Len(ops) \subseteq S
  <2> HIDE DEF S
  <2> QED
    BY <1>0, <1>2, <1>3, UpToEach
<1>5. Len(ops) \in S
  BY <1>0, <1>4
<1> QED
  BY <1>1, <1>5

\* What an applied patch makes of a document, and its inverse.
LEMMA PatchTypes ==
    ASSUME NEW T, NEW C, NEW d \in Document(T, C), NEW ops \in Seq(Operation(T, C)),
           NEW s, s = Stage(d, ops), s.outcome = "applied"
    PROVE  /\ s.doc \in Document(T, C)
           /\ s.inverse \in Seq(Operation(T, C))
           /\ Len(s.inverse) = Len(ops)
<1>1. PICK f : Steps(f, d, ops, Len(ops)) /\ f[Len(ops)] = Stage(d, ops)
  BY StagesOfPatch
<1>2. Len(ops) \in Nat /\ Len(ops) \in 0..Len(ops)
  BY LenProperties
<1>3. AppliedSteps(f, d, ops, Len(ops))
  BY <1>1, <1>2, AllApplied
<1>4. \A k \in 0..Len(ops) : /\ f[k].doc \in Document(T, C)
                             /\ f[k].inverse \in Seq(Operation(T, C))
                             /\ Len(f[k].inverse) = k
  BY <1>3, StageTypes
<1>5. s = f[Len(ops)]
  BY <1>1
<1> QED
  BY <1>2, <1>4, <1>5

\* Undo: where no identity is ever held twice, the inverse of a patch gives
\* the document back.
LEMMA PatchUndo ==
    ASSUME NEW T, NEW C, NEW d \in Document(T, C), NEW ops \in Seq(Operation(T, C)),
           NEW s, s = Stage(d, ops), s.outcome = "applied",
           \A n \in 0..Len(ops) : Unique(Stage(d, SubSeq(ops, 1, n)).doc)
    PROVE  Stage(s.doc, s.inverse).outcome = "applied" /\ Stage(s.doc, s.inverse).doc = d
<1> DEFINE m == Len(ops)
<1>1. PICK f : /\ Steps(f, d, ops, m)
               /\ \A n \in 0..m : f[n] = Stage(d, SubSeq(ops, 1, n))
               /\ f[m] = Stage(d, ops)
  BY StagesOfPatch
<1>2. m \in Nat /\ m \in 0..m /\ \A k \in 1..m : ops[k] \in Operation(T, C)
  BY LenProperties, ElementOfSeq
<1>3. AppliedSteps(f, d, ops, m)
  BY <1>1, <1>2, AllApplied
<1>4. \A k \in 0..m : /\ f[k].doc \in Document(T, C)
                      /\ f[k].inverse \in Seq(Operation(T, C))
                      /\ Len(f[k].inverse) = k
                      /\ \A j \in 1..k : f[k].inverse[j] = ApplyOperation(f[k - j].doc, ops[k - j + 1]).inverse
                      /\ Unique(f[k].doc)
  <2>1. \A k \in 0..m : /\ f[k].doc \in Document(T, C)
                         /\ f[k].inverse \in Seq(Operation(T, C))
                         /\ Len(f[k].inverse) = k
                         /\ \A j \in 1..k : f[k].inverse[j] = ApplyOperation(f[k - j].doc, ops[k - j + 1]).inverse
    BY <1>3, StageTypes
  <2> QED
    BY <1>1, <2>1
<1> DEFINE docs == [k \in 0..m |-> f[m - k].doc]
<1>5. f[0].doc = d /\ s = f[m]
  BY <1>1, Accepted DEF Steps
<1>6. s.inverse \in Seq(Operation(T, C)) /\ Len(s.inverse) = m
      /\ \A j \in 1..m : s.inverse[j] = ApplyOperation(f[m - j].doc, ops[m - j + 1]).inverse
  BY <1>2, <1>4, <1>5
<1>7. docs[0] = s.doc /\ docs[m] = d
  <2>1. m - 0 = m /\ m - m = 0 /\ 0 \in 0..m
    BY <1>2
  <2> QED
    BY <1>2, <1>5, <2>1
<1>8. ASSUME NEW k \in 1..m
      PROVE  /\ ApplyOperation(docs[k - 1], s.inverse[k]).outcome = "applied"
             /\ ApplyOperation(docs[k - 1], s.inverse[k]).doc = docs[k]
  <2> DEFINE j == m - k
             r == ApplyOperation(f[j].doc, ops[j + 1])
  <2>1. /\ j \in 0..m /\ j + 1 \in 0..m /\ j + 1 \in 1..m /\ (j + 1) - 1 = j
        /\ k \in 0..m /\ k - 1 \in 0..m /\ m - (k - 1) = j + 1
    BY <1>2
  <2>2. r.outcome = "applied" /\ f[j + 1] = Accept(r.doc, <<r.inverse>> \o f[j].inverse)
    BY <1>3, <2>1 DEF AppliedSteps
  <2>3. f[j + 1].doc = r.doc
    BY <2>2, Accepted
  <2>4. docs[k - 1] = r.doc /\ docs[k] = f[j].doc
    BY <2>1, <2>3
  <2>5. s.inverse[k] = r.inverse
    BY <1>6
  <2>6. /\ f[j].doc \in Document(T, C) /\ ops[j + 1] \in Operation(T, C)
        /\ UniqueTracks(f[j].doc) /\ Unique(r.doc)
    BY <1>2, <1>4, <2>1, <2>3 DEF Unique
  <2>7. Undone(f[j].doc, r)
    BY <2>2, <2>6, OperationUndo
  <2> QED
    BY <2>4, <2>5, <2>7 DEF Undone
<1> HIDE DEF docs
<1>9. Lead(docs, s.inverse)
  BY <1>6, <1>8 DEF Lead
<1> QED
  BY <1>6, <1>7, <1>9, StageOfDocuments

----------------------------------------------------------------------------
(* A patch and the identities of the tracks.                               *)

\* docs[k] is the document after k operations.
TrackSteps(docs, ops) == \A k \in 1..Len(ops) : TrackStep(docs[k - 1], ops[k], docs[k])

\* What is away stays away until it is brought in.
LEMMA StaysAway ==
    ASSUME NEW docs, NEW ops, Len(ops) \in Nat, TrackSteps(docs, ops), NEW t,
           NEW a \in 0..Len(ops), NEW b \in a..Len(ops), t \notin TrackIds(docs[a]),
           \A k \in a + 1..b : ~Inserts(ops[k], t)
    PROVE  t \notin TrackIds(docs[b])
<1> DEFINE S == {n \in 0..b - a : t \notin TrackIds(docs[a + n])}
<1>1. 0 \in S
  OBVIOUS
<1>2. ASSUME NEW n \in 0..b - a, n \in S, n < b - a PROVE n + 1 \in S
  <2>1. /\ a + (n + 1) \in 1..Len(ops) /\ a + (n + 1) \in a + 1..b
        /\ (a + (n + 1)) - 1 = a + n /\ n + 1 \in 0..b - a
    BY <1>2
  <2>2. TrackStep(docs[a + n], ops[a + (n + 1)], docs[a + (n + 1)])
    BY <2>1 DEF TrackSteps
  <2> QED
    BY <1>2, <2>1, <2>2 DEF TrackStep
<1>3. 0..b - a \subseteq S
  <2>1. b - a \in Nat
    OBVIOUS
  <2> HIDE DEF S
  <2> QED
    BY <1>1, <1>2, <2>1, UpToEach
<1>4. b - a \in 0..b - a /\ a + (b - a) = b
  OBVIOUS
<1> QED
  BY <1>3, <1>4

\* What is held twice stays so until it is removed.
LEMMA StaysDoubled ==
    ASSUME NEW docs, NEW ops, Len(ops) \in Nat, TrackSteps(docs, ops), NEW t,
           NEW a \in 0..Len(ops), NEW b \in a..Len(ops), Doubled(docs[a], t),
           \A k \in a + 1..b : ~Removes(ops[k], t)
    PROVE  Doubled(docs[b], t)
<1> DEFINE S == {n \in 0..b - a : Doubled(docs[a + n], t)}
<1>1. 0 \in S
  OBVIOUS
<1>2. ASSUME NEW n \in 0..b - a, n \in S, n < b - a PROVE n + 1 \in S
  <2>1. /\ a + (n + 1) \in 1..Len(ops) /\ a + (n + 1) \in a + 1..b
        /\ (a + (n + 1)) - 1 = a + n /\ n + 1 \in 0..b - a
    BY <1>2
  <2>2. TrackStep(docs[a + n], ops[a + (n + 1)], docs[a + (n + 1)])
    BY <2>1 DEF TrackSteps
  <2> QED
    BY <1>2, <2>1, <2>2 DEF TrackStep
<1>3. 0..b - a \subseteq S
  <2>1. b - a \in Nat
    OBVIOUS
  <2> HIDE DEF S
  <2> QED
    BY <1>1, <1>2, <2>1, UpToEach
<1>4. b - a \in 0..b - a /\ a + (b - a) = b
  OBVIOUS
<1> QED
  BY <1>3, <1>4

\* Where no track is brought in that is there, no identity is held twice.
LEMMA StayApart ==
    ASSUME NEW docs, NEW ops, Len(ops) \in Nat, TrackSteps(docs, ops), UniqueTracks(docs[0]),
           \A k \in 1..Len(ops) : \A t \in TrackIds(docs[k - 1]) : ~Inserts(ops[k], t)
    PROVE  \A k \in 0..Len(ops) : UniqueTracks(docs[k])
<1> DEFINE S == {n \in 0..Len(ops) : UniqueTracks(docs[n])}
<1>1. 0 \in S
  OBVIOUS
<1>2. ASSUME NEW n \in 0..Len(ops), n \in S, n < Len(ops) PROVE n + 1 \in S
  <2>1. n + 1 \in 1..Len(ops) /\ (n + 1) - 1 = n /\ n + 1 \in 0..Len(ops)
    BY <1>2
  <2>2. TrackStep(docs[n], ops[n + 1], docs[n + 1])
    BY <2>1 DEF TrackSteps
  <2>3. \A t \in TrackIds(docs[n]) : ~Inserts(ops[n + 1], t)
    BY <2>1
  <2> QED
    BY <1>2, <2>1, <2>2, <2>3 DEF TrackStep
<1>3. 0..Len(ops) \subseteq S
  <2> HIDE DEF S
  <2> QED
    BY <1>1, <1>2, UpToEach
<1> QED
  BY <1>3

\* What a patch does to one identity: nothing; nothing or one thing; or it
\* brings the track in and takes it out again.
Touches(o, t) == Inserts(o, t) \/ Removes(o, t)
Untouched(ops, t) == \A k \in 1..Len(ops) : ~Touches(ops[k], t)
Once(ops, t) ==
    \A j, k \in 1..Len(ops) : Touches(ops[j], t) /\ Touches(ops[k], t) => j = k
ComesAndGoes(ops, t, a, b) ==
    \A k \in 1..Len(ops) : (Inserts(ops[k], t) <=> k = a) /\ (Removes(ops[k], t) <=> k = b)
Passing(ops, t) ==
    \E a, b \in 1..Len(ops) : a < b /\ ComesAndGoes(ops, t, a, b)
Brief(ops, t) == Untouched(ops, t) \/ Passing(ops, t)

Mirrored(ops, inverse) ==
    /\ Len(inverse) = Len(ops)
    /\ \A k \in 1..Len(ops) : Opposite(ops[k], inverse[(Len(ops) + 1) - k])

\* The inverse of a patch does the same in the opposite order.
LEMMA MirrorKeeps ==
    ASSUME NEW ops, NEW inverse, Len(ops) \in Nat, Mirrored(ops, inverse), NEW t
    PROVE  /\ Untouched(ops, t) => Untouched(inverse, t)
           /\ Once(ops, t) => Once(inverse, t)
           /\ Brief(ops, t) => Brief(inverse, t)
<1> DEFINE m == Len(ops)
           At(j) == (m + 1) - j
<1>1. \A j \in 1..m : At(j) \in 1..m /\ At(At(j)) = j
  OBVIOUS
<1>2. \A i, j \in 1..m : At(i) = At(j) => i = j
  OBVIOUS
<1>3. Len(inverse) = m
  BY DEF Mirrored
<1>4. ASSUME NEW j \in 1..m
      PROVE  /\ Inserts(inverse[j], t) <=> Removes(ops[At(j)], t)
             /\ Removes(inverse[j], t) <=> Inserts(ops[At(j)], t)
  <2>1. Opposite(ops[At(j)], inverse[At(At(j))])
    <3> HIDE DEF At
    <3> QED
      BY <1>1 DEF Mirrored, At
  <2>2. At(At(j)) = j
    BY <1>1
  <2> QED
    BY <2>1, <2>2 DEF Opposite
<1> HIDE DEF At, m
<1>5. \A j \in 1..m : Touches(inverse[j], t) <=> Touches(ops[At(j)], t)
  BY <1>4 DEF Touches
<1>6. Untouched(ops, t) => Untouched(inverse, t)
  BY <1>1, <1>3, <1>5 DEF Untouched, m
<1>7. Once(ops, t) => Once(inverse, t)
  BY <1>1, <1>2, <1>3, <1>5 DEF Once, m
<1>8. Passing(ops, t) => Passing(inverse, t)
  <2> SUFFICES ASSUME NEW a \in 1..m, NEW b \in 1..m, a < b, ComesAndGoes(ops, t, a, b)
               PROVE  Passing(inverse, t)
    BY DEF Passing, m
  <2>1. At(a) \in 1..m /\ At(b) \in 1..m /\ At(b) < At(a)
    BY <1>1 DEF At, m
  <2>2. \A k \in 1..m : (At(k) = a <=> k = At(a)) /\ (At(k) = b <=> k = At(b))
    BY <1>1
  <2>3. \A k \in 1..m : (Inserts(ops[k], t) <=> k = a) /\ (Removes(ops[k], t) <=> k = b)
    BY DEF ComesAndGoes, m
  <2>4. \A k \in 1..m : (Inserts(inverse[k], t) <=> k = At(b)) /\ (Removes(inverse[k], t) <=> k = At(a))
    BY <1>1, <1>4, <2>2, <2>3
  <2>5. ComesAndGoes(inverse, t, At(b), At(a))
    BY <1>3, <2>4 DEF ComesAndGoes
  <2> QED
    BY <1>3, <2>1, <2>5 DEF Passing
<1> QED
  BY <1>6, <1>7, <1>8 DEF Brief

\* The identities a patch brings in: each is new, and brought in once.
BringsInOnce(ops) ==
    \A j, k \in 1..Len(ops) : \A t : Inserts(ops[j], t) /\ Inserts(ops[k], t) => j = k
BringsIn(ops, N) == \A k \in 1..Len(ops) : \A t : Inserts(ops[k], t) => t \in N

\* A patch whose tracks get new identities holds none twice at any moment; it
\* brings a track in or takes one out, or does both and leaves no trace of it.
LEMMA PatchOfNewTracks ==
    ASSUME NEW docs, NEW ops, Len(ops) \in Nat, TrackSteps(docs, ops), UniqueTracks(docs[0]),
           NEW N, N \cap TrackIds(docs[0]) = {}, BringsIn(ops, N), BringsInOnce(ops)
    PROVE  /\ \A k \in 0..Len(ops) : UniqueTracks(docs[k])
           /\ \A t : t \notin N => Once(ops, t)
           /\ \A t : t \notin N /\ t \notin TrackIds(docs[0]) =>
                        Untouched(ops, t) /\ t \notin TrackIds(docs[Len(ops)])
           /\ \A t : Once(ops, t) \/ (Passing(ops, t) /\ t \notin TrackIds(docs[Len(ops)]))
<1> DEFINE m == Len(ops)
<1> HIDE DEF m
<1>0. m \in Nat /\ m = Len(ops)
  BY DEF m
\* From a moment at which it is away, a track is there only if it came.
<1>1. ASSUME NEW t, NEW a \in 0..m, NEW b \in a..m, t \notin TrackIds(docs[a]), t \in TrackIds(docs[b])
      PROVE  \E k \in a + 1..b : Inserts(ops[k], t)
  BY <1>0, <1>1, StaysAway
<1>2. ASSUME NEW k \in 1..m, NEW t, Inserts(ops[k], t)
      PROVE  t \in N /\ t \notin TrackIds(docs[0]) /\ t \notin TrackIds(docs[k - 1])
  <2>1. t \in N /\ t \notin TrackIds(docs[0])
    BY <1>0, <1>2 DEF BringsIn
  <2>2. 0 \in 0..m /\ k - 1 \in 0..m
    BY <1>0
  <2>3. \A j \in 0 + 1..k - 1 : ~Inserts(ops[j], t)
    <3> SUFFICES ASSUME NEW j \in 0 + 1..k - 1, Inserts(ops[j], t) PROVE FALSE
      OBVIOUS
    <3>1. j \in 1..m /\ j # k
      BY <1>0
    <3> QED
      BY <1>0, <1>2, <3>1 DEF BringsInOnce
  <2> QED
    BY <1>1, <2>1, <2>2, <2>3
<1>3. \A k \in 0..m : UniqueTracks(docs[k])
  <2>1. \A k \in 1..m : \A t \in TrackIds(docs[k - 1]) : ~Inserts(ops[k], t)
    BY <1>2
  <2> QED
    BY <1>0, <2>1, StayApart
<1>4. ASSUME NEW k \in 1..m, NEW t, Removes(ops[k], t)
      PROVE  t \in TrackIds(docs[k - 1]) /\ t \notin TrackIds(docs[k])
  <2>1. TrackStep(docs[k - 1], ops[k], docs[k]) /\ UniqueTracks(docs[k - 1])
    BY <1>0, <1>3 DEF TrackSteps
  <2> QED
    BY <1>4, <2>1 DEF TrackStep
\* Of two removals the track would have come in between, a second time.
<1>5. ASSUME NEW t, NEW j \in 1..m, NEW k \in 1..m, Removes(ops[j], t), Removes(ops[k], t), j < k
      PROVE  FALSE
  <2>1. j \in 0..m /\ k - 1 \in j..m
    BY <1>0, <1>5
  <2>2. PICK i \in j + 1..k - 1 : Inserts(ops[i], t)
    BY <1>1, <1>4, <1>5, <2>1
  <2>3. i \in 1..m /\ 0 \in 0..m /\ j - 1 \in 0..m
    BY <1>0, <2>2
  <2>4. t \notin TrackIds(docs[0])
    BY <1>2, <2>2, <2>3
  <2>5. PICK h \in 0 + 1..j - 1 : Inserts(ops[h], t)
    BY <1>1, <1>4, <1>5, <2>3, <2>4
  <2>6. h \in 1..m /\ h # i
    BY <1>0, <2>2, <2>5
  <2> QED
    BY <1>0, <2>2, <2>3, <2>5, <2>6 DEF BringsInOnce
<1>6. ASSUME NEW t, NEW j \in 1..m, NEW k \in 1..m, Removes(ops[j], t), Removes(ops[k], t)
      PROVE  j = k
  <2>1. j < k \/ k < j \/ j = k
    BY <1>0
  <2> QED
    BY <1>5, <1>6, <2>1
\* A track that came is taken out after it came.
<1>7. ASSUME NEW t, NEW a \in 1..m, NEW b \in 1..m, Inserts(ops[a], t), Removes(ops[b], t)
      PROVE  a < b /\ t \notin TrackIds(docs[m])
  <2>1. 0 \in 0..m /\ b - 1 \in 0..m
    BY <1>0
  <2>2. t \notin TrackIds(docs[0]) /\ t \in TrackIds(docs[b - 1])
    BY <1>2, <1>4, <1>7
  <2>3. PICK h \in 0 + 1..b - 1 : Inserts(ops[h], t)
    BY <1>1, <2>1, <2>2
  <2>4. h \in 1..m /\ h < b
    BY <1>0, <2>3
  <2>5. h = a
    BY <1>0, <1>7, <2>3, <2>4 DEF BringsInOnce
  <2>6. ASSUME t \in TrackIds(docs[m]) PROVE FALSE
    <3>1. b \in 0..m /\ m \in b..m
      BY <1>0
    <3>2. PICK i \in b + 1..m : Inserts(ops[i], t)
      BY <1>1, <1>4, <1>7, <2>6, <3>1
    <3>3. i \in 1..m /\ i # h
      BY <1>0, <2>4, <3>2
    <3> QED
      BY <1>0, <2>3, <2>4, <3>2, <3>3 DEF BringsInOnce
  <2> QED
    BY <2>4, <2>5, <2>6
<1>8. ASSUME NEW t PROVE Once(ops, t) \/ (Passing(ops, t) /\ t \notin TrackIds(docs[m]))
  <2>1. CASE \E a \in 1..m, b \in 1..m : Inserts(ops[a], t) /\ Removes(ops[b], t)
    <3>1. PICK a \in 1..m, b \in 1..m : Inserts(ops[a], t) /\ Removes(ops[b], t)
      BY <2>1
    <3>2. ComesAndGoes(ops, t, a, b)
      BY <1>0, <1>6, <3>1 DEF ComesAndGoes, BringsInOnce
    <3>3. a < b /\ t \notin TrackIds(docs[m])
      BY <1>7, <3>1
    <3> QED
      BY <1>0, <3>2, <3>3 DEF Passing
  <2>2. CASE ~\E a \in 1..m, b \in 1..m : Inserts(ops[a], t) /\ Removes(ops[b], t)
    <3> SUFFICES ASSUME NEW j \in 1..m, NEW k \in 1..m, Touches(ops[j], t), Touches(ops[k], t)
                 PROVE  j = k
      BY <1>0 DEF Once
    <3> QED
      BY <1>0, <1>6, <2>2 DEF Touches, BringsInOnce
  <2> QED
    BY <2>1, <2>2
<1>9. ASSUME NEW t, t \notin N PROVE Once(ops, t)
  <2> SUFFICES ASSUME NEW j \in 1..m, NEW k \in 1..m, Touches(ops[j], t), Touches(ops[k], t)
               PROVE  j = k
    BY <1>0 DEF Once
  <2>1. Removes(ops[j], t) /\ Removes(ops[k], t)
    BY <1>2, <1>9 DEF Touches
  <2> QED
    BY <1>6, <2>1
<1>10. ASSUME NEW t, t \notin N, t \notin TrackIds(docs[0])
       PROVE  Untouched(ops, t) /\ t \notin TrackIds(docs[m])
  <2>1. \A k \in 1..m : ~Inserts(ops[k], t)
    BY <1>2, <1>10
  <2>2. ASSUME NEW k \in 0..m, t \in TrackIds(docs[k]) PROVE FALSE
    <3>1. 0 \in 0..m /\ k \in 0..m /\ \A j \in 0 + 1..k : j \in 1..m
      BY <1>0
    <3> QED
      BY <1>1, <1>10, <2>1, <2>2, <3>1
  <2>3. \A k \in 1..m : ~Removes(ops[k], t)
    <3>1. \A k \in 1..m : k - 1 \in 0..m
      BY <1>0
    <3> QED
      BY <1>4, <2>2, <3>1
  <2>4. m \in 0..m
    BY <1>0
  <2> QED
    BY <1>0, <2>1, <2>2, <2>3, <2>4 DEF Untouched, Touches
<1> QED
  BY <1>0, <1>3, <1>8, <1>9, <1>10

\* A patch that touches each identity once, or in passing one that is not
\* there, and whose result holds none twice, holds none twice on the way.
LEMMA PatchOfOldTracks ==
    ASSUME NEW docs, NEW ops, Len(ops) \in Nat, TrackSteps(docs, ops), UniqueTracks(docs[0]),
           UniqueTracks(docs[Len(ops)]),
           \A t : Once(ops, t) \/ (Brief(ops, t) /\ t \notin TrackIds(docs[0]))
    PROVE  /\ \A k \in 0..Len(ops) : UniqueTracks(docs[k])
           /\ \A t : Brief(ops, t) /\ t \notin TrackIds(docs[0]) => t \notin TrackIds(docs[Len(ops)])
<1> DEFINE m == Len(ops)
<1> HIDE DEF m
<1>0. m \in Nat /\ m = Len(ops)
  BY DEF m
<1>1. ASSUME NEW k \in 1..m, NEW t \in TrackIds(docs[k - 1]), Inserts(ops[k], t) PROVE FALSE
  <2>1. CASE Once(ops, t)
    <3>1. TrackStep(docs[k - 1], ops[k], docs[k])
      BY <1>0 DEF TrackSteps
    <3>2. Doubled(docs[k], t)
      BY <1>1, <3>1 DEF TrackStep
    <3>3. k \in 0..m /\ m \in k..m
      BY <1>0
    <3>4. \A j \in k + 1..m : ~Removes(ops[j], t)
      <4> SUFFICES ASSUME NEW j \in k + 1..m, Removes(ops[j], t) PROVE FALSE
        OBVIOUS
      <4>1. j \in 1..m /\ j # k
        BY <1>0
      <4> QED
        BY <1>0, <1>1, <2>1, <4>1 DEF Once, Touches
    <3>5. Doubled(docs[m], t)
      BY <1>0, <3>2, <3>3, <3>4, StaysDoubled
    <3> QED
      BY <1>0, <3>5 DEF Doubled, UniqueTracks
  <2>2. CASE Brief(ops, t) /\ t \notin TrackIds(docs[0])
    <3>1. \A j \in 1..m : Inserts(ops[j], t) => j = k
      BY <1>0, <1>1, <2>2 DEF Brief, Untouched, Touches, Passing, ComesAndGoes
    <3>2. 0 \in 0..m /\ k - 1 \in 0..m /\ \A j \in 0 + 1..k - 1 : j \in 1..m /\ j # k
      BY <1>0
    <3> QED
      BY <1>0, <1>1, <2>2, <3>1, <3>2, StaysAway
  <2> QED
    BY <2>1, <2>2
<1>2. \A k \in 0..m : UniqueTracks(docs[k])
  BY <1>0, <1>1, StayApart
<1>3. ASSUME NEW t, Brief(ops, t), t \notin TrackIds(docs[0]) PROVE t \notin TrackIds(docs[m])
  <2>1. CASE Untouched(ops, t)
    <3>1. 0 \in 0..m /\ m \in 0..m /\ \A j \in 0 + 1..m : j \in 1..m
      BY <1>0
    <3>2. \A j \in 1..m : ~Inserts(ops[j], t)
      BY <1>0, <2>1 DEF Untouched, Touches
    <3> QED
      BY <1>0, <1>3, <3>1, <3>2, StaysAway
  <2>2. CASE Passing(ops, t)
    <3>1. PICK a \in 1..m, b \in 1..m : a < b /\ ComesAndGoes(ops, t, a, b)
      BY <1>0, <2>2 DEF Passing
    <3>2. TrackStep(docs[b - 1], ops[b], docs[b])
      BY <1>0 DEF TrackSteps
    <3>3. UniqueTracks(docs[b - 1])
      BY <1>0, <1>2
    <3>4. t \notin TrackIds(docs[b])
      BY <1>0, <3>1, <3>2, <3>3 DEF TrackStep, ComesAndGoes
    <3>5. b \in 0..m /\ m \in b..m /\ \A j \in b + 1..m : j \in 1..m /\ j # a
      BY <1>0, <3>1
    <3>6. \A j \in b + 1..m : ~Inserts(ops[j], t)
      BY <1>0, <3>1, <3>5 DEF ComesAndGoes
    <3> QED
      BY <1>0, <3>4, <3>5, <3>6, StaysAway
  <2> QED
    BY <1>3, <2>1, <2>2 DEF Brief
<1> QED
  BY <1>0, <1>2, <1>3

\* The stages of an applied patch, as documents, and its inverse.
LEMMA DocumentsOfPatch ==
    ASSUME NEW T, NEW C, NEW d \in Document(T, C), NEW ops \in Seq(Operation(T, C)),
           NEW s, s = Stage(d, ops), s.outcome = "applied"
    PROVE  /\ \E docs : /\ TrackSteps(docs, ops)
                        /\ docs[0] = d
                        /\ docs[Len(ops)] = s.doc
                        /\ \A n \in 0..Len(ops) : docs[n] = Stage(d, SubSeq(ops, 1, n)).doc
           /\ \A n \in 0..Len(ops) : Stage(d, SubSeq(ops, 1, n)).outcome = "applied"
           /\ Mirrored(ops, s.inverse)
<1> DEFINE m == Len(ops)
<1>1. PICK f : /\ Steps(f, d, ops, m)
               /\ \A n \in 0..m : f[n] = Stage(d, SubSeq(ops, 1, n))
               /\ f[m] = Stage(d, ops)
  BY StagesOfPatch
<1>2. m \in Nat /\ 0 \in 0..m /\ m \in 0..m /\ \A k \in 1..m : ops[k] \in Operation(T, C)
  BY LenProperties, ElementOfSeq
<1>3. AppliedSteps(f, d, ops, m)
  BY <1>1, <1>2, AllApplied
<1>4. \A k \in 0..m : /\ f[k].outcome = "applied"
                      /\ f[k].doc \in Document(T, C)
                      /\ Len(f[k].inverse) = k
                      /\ \A j \in 1..k : f[k].inverse[j] = ApplyOperation(f[k - j].doc, ops[k - j + 1]).inverse
  BY <1>3, StageTypes
<1> HIDE DEF m
<1>5. ASSUME NEW k \in 1..m
      PROVE  /\ TrackStep(f[k - 1].doc, ops[k], f[k].doc)
             /\ Opposite(ops[k], ApplyOperation(f[k - 1].doc, ops[k]).inverse)
  <2> DEFINE r == ApplyOperation(f[k - 1].doc, ops[k])
  <2>1. r.outcome = "applied" /\ f[k] = Accept(r.doc, <<r.inverse>> \o f[k - 1].inverse)
    BY <1>3 DEF AppliedSteps
  <2>2. k - 1 \in 0..m
    BY <1>2
  <2>3. f[k - 1].doc \in Document(T, C) /\ ops[k] \in Operation(T, C)
    BY <1>2, <1>4, <2>2
  <2>4. TrackRules(f[k - 1].doc, ops[k], r)
    BY <2>1, <2>3, RulesOfOperation
  <2>5. f[k].doc = r.doc
    BY <2>1, Accepted
  <2> QED
    BY <2>4, <2>5 DEF TrackRules
<1> DEFINE docs == [k \in 0..m |-> f[k].doc]
<1>6. ASSUME NEW k \in 1..m PROVE TrackStep(docs[k - 1], ops[k], docs[k])
  <2>1. k \in 0..m /\ k - 1 \in 0..m
    BY <1>2
  <2> QED
    BY <1>5, <2>1
<1>7. docs[0] = d /\ docs[m] = s.doc
  <2>1. f[0].doc = d
    BY <1>1, Accepted DEF Steps
  <2> QED
    BY <1>1, <1>2, <2>1
<1>8. \A n \in 0..m : docs[n] = Stage(d, SubSeq(ops, 1, n)).doc
  BY <1>1
<1> HIDE DEF docs
<1>9. TrackSteps(docs, ops)
  BY <1>6 DEF TrackSteps, m
<1>10. Mirrored(ops, s.inverse)
  <2>1. Len(s.inverse) = m
    BY <1>1, <1>2, <1>4
  <2>2. ASSUME NEW k \in 1..m PROVE Opposite(ops[k], s.inverse[(m + 1) - k])
    <3> DEFINE j == (m + 1) - k
    <3>1. j \in 1..m /\ m - j = k - 1 /\ m - j + 1 = k
      BY <1>2
    <3> HIDE DEF j
    <3>2. f[m].inverse[j] = ApplyOperation(f[m - j].doc, ops[m - j + 1]).inverse
      BY <1>2, <1>4, <3>1
    <3>3. s.inverse[j] = ApplyOperation(f[k - 1].doc, ops[k]).inverse
      BY <1>1, <3>1, <3>2
    <3> QED
      BY <1>5, <3>3 DEF j
  <2> QED
    BY <2>1, <2>2 DEF Mirrored, m
<1> QED
  BY <1>1, <1>4, <1>7, <1>8, <1>9, <1>10 DEF m
=============================================================================
