-------------------------- MODULE EditingDocument --------------------------
(***************************************************************************)
(* The Editing Document of a Project and the algebra of its edit           *)
(* operations: crates/domain/src/project.rs.                               *)
(*                                                                         *)
(* A document is a record of three whole-value fields (the project name,   *)
(* its settings and its markers) and the sequence of its tracks; a track   *)
(* is [id, kind, clips] and a clip is [id, content].  Positions count from *)
(* 1 where the code's indices count from 0.  A track's order number and    *)
(* the duration of the document are functions of the tracks that           *)
(* apply_patch recomputes, so they are not kept.  Validation keeps the     *)
(* rules on identity and on what a track accepts; the ranges of single     *)
(* numeric values are left out.                                            *)
(*                                                                         *)
(* An edit has one of three outcomes: it is applied, it is rejected with a *)
(* DomainError, or it panics (an index out of bounds in Vec::remove).      *)
(***************************************************************************)
EXTENDS Naturals, Sequences, SequencesExt

CONSTANTS StoryTrack,   \* document.story_track_id
          TextContent   \* the clip contents a text or caption track accepts

Accept(d, inverse) == [outcome |-> "applied", doc |-> d, inverse |-> inverse]
Reject == [outcome |-> "rejected"]
Panic  == [outcome |-> "panicked"]

----------------------------------------------------------------------------
(* Lookup: the first track, and the first clip in track order.             *)

First(S) == IF S = {} THEN 0 ELSE CHOOSE i \in S : \A j \in S : i <= j

TrackIndex(d, t) == First({i \in DOMAIN d.tracks : d.tracks[i].id = t})

ClipIndex(track, c) == First({i \in DOMAIN track.clips : track.clips[i].id = c})

\* find_clip_location names the track by its id, and find_track_mut then takes
\* the first track with that id: "track" is the track the edit will touch.
ClipLocation(d, c) ==
    LET owner == First({i \in DOMAIN d.tracks : ClipIndex(d.tracks[i], c) # 0})
    IN  IF owner = 0
        THEN [found |-> FALSE]
        ELSE [found |-> TRUE,
              track |-> TrackIndex(d, d.tracks[owner].id),
              at    |-> ClipIndex(d.tracks[owner], c)]

WithClips(d, i, clips) == [d EXCEPT !.tracks[i].clips = clips]

----------------------------------------------------------------------------
(* The operations: each yields the edited document and its own inverse.    *)

\* RenameProject, ReplaceSettings and ReplaceMarkers.
ReplaceField(d, o) ==
    Accept([d EXCEPT ![o.field] = o.value], [o EXCEPT !.value = d[o.field]])

InsertTrack(d, o) ==
    IF o.at > Len(d.tracks) + 1
    THEN Reject
    ELSE Accept([d EXCEPT !.tracks = InsertAt(@, o.at, o.track)],
                [op |-> "remove_track", track_id |-> o.track.id])

\* A flawed RemoveTrack whose inverse forgets where the track was.
RemoveTrackForgetsPlace(d, o) ==
    LET i == TrackIndex(d, o.track_id)
    IN  IF i = 0
        THEN Reject
        ELSE Accept([d EXCEPT !.tracks = RemoveAt(@, i)],
                    [op |-> "insert_track", at |-> 1, track |-> d.tracks[i]])

RemoveTrack(d, o) ==
    LET i == TrackIndex(d, o.track_id)
    IN  IF i = 0
        THEN Reject
        ELSE Accept([d EXCEPT !.tracks = RemoveAt(@, i)],
                    [op |-> "insert_track", at |-> i, track |-> d.tracks[i]])

ReplaceTrack(d, o) ==
    LET i == TrackIndex(d, o.track_id)
    IN  IF o.track.id # o.track_id \/ i = 0
        THEN Reject
        ELSE Accept([d EXCEPT !.tracks[i] = o.track],
                    [o EXCEPT !.track = d.tracks[i]])

ReorderTracks(d, o) ==
    LET present == [i \in DOMAIN d.tracks |-> d.tracks[i].id]
    IN  IF \/ Len(o.track_ids) # Len(d.tracks)
           \/ ~IsInjective(o.track_ids)
           \/ ToSet(o.track_ids) # ToSet(present)
        THEN Reject
        ELSE Accept([d EXCEPT !.tracks =
                        [i \in DOMAIN @ |-> @[TrackIndex(d, o.track_ids[i])]]],
                    [o EXCEPT !.track_ids = present])

InsertClip(d, o) ==
    LET i == TrackIndex(d, o.track_id)
    IN  IF i = 0
        THEN Reject
        ELSE IF o.at > Len(d.tracks[i].clips) + 1
        THEN Reject
        ELSE Accept(WithClips(d, i, InsertAt(d.tracks[i].clips, o.at, o.clip)),
                    [op |-> "remove_clip", clip_id |-> o.clip.id])

\* The code indexes the clips of the located track without a bounds check.
OutOfBounds(d, l) == l.at > Len(d.tracks[l.track].clips)

RemoveClip(d, o, l) ==
    LET track == d.tracks[l.track]
    IN  CASE ~l.found -> Reject
          [] l.found /\ OutOfBounds(d, l) -> Panic
          [] OTHER -> Accept(WithClips(d, l.track, RemoveAt(track.clips, l.at)),
                             [op |-> "insert_clip", track_id |-> track.id,
                              at |-> l.at, clip |-> track.clips[l.at]])

ReplaceClip(d, o, l) ==
    CASE o.clip.id # o.clip_id \/ ~l.found -> Reject
      [] o.clip.id = o.clip_id /\ l.found /\ OutOfBounds(d, l) -> Panic
      [] OTHER -> Accept([d EXCEPT !.tracks[l.track].clips[l.at] = o.clip],
                         [o EXCEPT !.clip = d.tracks[l.track].clips[l.at]])

\* The second half of a move: the clip was taken from its track.
PutDown(taken, o, from, l) ==
    LET to == TrackIndex(taken, o.to_track_id)
        clips == taken.tracks[to].clips
    IN  IF to = 0
        THEN Reject
        ELSE IF o.at > Len(clips) + 1
        THEN Reject
        ELSE Accept(WithClips(taken, to, InsertAt(clips, o.at, from.clips[l.at])),
                    [o EXCEPT !.to_track_id = from.id, !.at = l.at])

MoveClip(d, o, l) ==
    LET from == d.tracks[l.track]
    IN  CASE ~l.found -> Reject
          [] l.found /\ OutOfBounds(d, l) -> Panic
          [] OTHER -> PutDown(WithClips(d, l.track, RemoveAt(from.clips, l.at)), o, from, l)

ReplaceTrackClips(d, o) ==
    LET i == TrackIndex(d, o.track_id)
    IN  IF i = 0
        THEN Reject
        ELSE Accept(WithClips(d, i, o.clips), [o EXCEPT !.clips = d.tracks[i].clips])

ApplyOperation(d, o) ==
    CASE o.op = "replace_field"       -> ReplaceField(d, o)
      [] o.op = "insert_track"        -> InsertTrack(d, o)
      [] o.op = "remove_track"        -> RemoveTrack(d, o)
      [] o.op = "replace_track"       -> ReplaceTrack(d, o)
      [] o.op = "reorder_tracks"      -> ReorderTracks(d, o)
      [] o.op = "insert_clip"         -> InsertClip(d, o)
      [] o.op = "remove_clip"         -> RemoveClip(d, o, ClipLocation(d, o.clip_id))
      [] o.op = "replace_clip"        -> ReplaceClip(d, o, ClipLocation(d, o.clip_id))
      [] o.op = "move_clip"           -> MoveClip(d, o, ClipLocation(d, o.clip_id))
      [] o.op = "replace_track_clips" -> ReplaceTrackClips(d, o)

----------------------------------------------------------------------------
(* EditingDocument::validate: what a committed document must satisfy.      *)

ClipsOf(d) == UNION {ToSet(d.tracks[i].clips) : i \in DOMAIN d.tracks}

UniqueClips(d) ==
    \A i, j \in DOMAIN d.tracks :
        \A k \in DOMAIN d.tracks[i].clips, l \in DOMAIN d.tracks[j].clips :
            d.tracks[i].clips[k].id = d.tracks[j].clips[l].id => i = j /\ k = l

Valid(d) ==
    /\ \E i \in DOMAIN d.tracks :
          /\ i = TrackIndex(d, StoryTrack)
          /\ d.tracks[i].kind = "video"
    /\ IsInjective([i \in DOMAIN d.tracks |-> d.tracks[i].id])
    /\ UniqueClips(d)
    /\ \A i \in DOMAIN d.tracks :
          d.tracks[i].kind = "text" =>
              \A k \in DOMAIN d.tracks[i].clips :
                  d.tracks[i].clips[k].content \in TextContent

----------------------------------------------------------------------------
(* Patches and reverts.                                                    *)

\* The inverse of a later operation is undone first.
Join(s, r) ==
    IF r.outcome # "applied" THEN r ELSE Accept(r.doc, <<r.inverse>> \o s.inverse)

\* One more operation on the staged copy; the first failure ends the patch.
Advance(s, o) ==
    IF s.outcome # "applied" THEN s ELSE Join(s, ApplyOperation(s.doc, o))

Stage(d, ops) ==
    LET stage[n \in 0..Len(ops)] ==
            IF n = 0 THEN Accept(d, <<>>) ELSE Advance(stage[n - 1], ops[n])
    IN  stage[Len(ops)]

Complete(ops, s) ==
    IF ops = <<>> \/ (s.outcome = "applied" /\ ~Valid(s.doc)) THEN Reject ELSE s

\* Project::apply_patch on a current base: the operations in order, then
\* validation of the complete result.
ApplyPatch(d, ops) == Complete(ops, Stage(d, ops))

Replayed(d, reverted, replayed) ==
    IF replayed.outcome # "applied"
    THEN replayed
    ELSE IF replayed.doc # d THEN Reject ELSE reverted

Confirm(d, group, reverted) ==
    IF reverted.outcome # "applied"
    THEN reverted
    ELSE Replayed(d, reverted, ApplyPatch(reverted.doc, group.operations))

\* A flawed Revert that does not replay the forward operations.
RevertUnchecked(d, group) == ApplyPatch(d, group.inverse)

\* Project::revert_change_group: the inverse is kept only if the forward
\* operations, replayed on it, give the current document back.
Revert(d, group) == Confirm(d, group, ApplyPatch(d, group.inverse))

\* Storage::apply_project_patch gives every inserted track and clip a new
\* identity: here the revision it is inserted at and its place in the patch.
Allocate(ops, revision) ==
    [i \in DOMAIN ops |->
        CASE ops[i].op = "insert_track" ->
               [ops[i] EXCEPT !.track.id = <<revision, i, 0>>,
                              !.track.clips = [k \in DOMAIN @ |->
                                  [@[k] EXCEPT !.id = <<revision, i, k>>]]]
          [] ops[i].op = "insert_clip" ->
               [ops[i] EXCEPT !.clip.id = <<revision, i, 0>>]
          [] OTHER -> ops[i]]
============================================================================
