--------------------------- MODULE MCEditHistory ---------------------------
(* The edit operations, undo and redo of people on two tracks; and, on a    *)
(* plain document, two Agent turns and a person who edit one field under an *)
(* Edit Lease.                                                              *)
EXTENDS ProjectHead

CONSTANTS turn1, turn2,  \* Agent turns
          t1, t2,        \* the tracks of the first document
          a, b,          \* its clips
          nested         \* a Project made by nesting

Track(id, kind, clips) == [id |-> id, kind |-> kind, clips |-> clips]
Clip(id, content) == [id |-> id, content |-> content]

\* The Story track comes second, so that a lookup in track order meets the
\* other track first.
FirstDocument ==
    [name |-> 0, settings |-> 0, markers |-> 0,
     tracks |-> <<Track(t2, "text", <<Clip(b, "text")>>),
                  Track(t1, "video", <<Clip(a, "v0")>>)>>]

TrackIds(d) == {d.tracks[i].id : i \in DOMAIN d.tracks}

FieldOps(d) == [op : {"replace_field"}, field : {"name"}, value : {1 - d.name}]
TrackOps(d) ==
    [op : {"insert_track"}, at : {1}, track : {Track(0, "video", <<Clip(0, "v0")>>)}]
      \cup [op : {"remove_track"}, track_id : TrackIds(d)]
      \cup {[op |-> "replace_track", track_id |-> t, track |-> Track(t, "video", <<Clip(a, "v1")>>)]
               : t \in TrackIds(d)}
      \cup {[op |-> "reorder_tracks",
             track_ids |-> [i \in DOMAIN d.tracks |-> d.tracks[Len(d.tracks) + 1 - i].id]]}
ClipOps(d) ==
    [op : {"insert_clip"}, track_id : {StoryTrack}, at : {2}, clip : {Clip(0, "text")}]
      \cup [op : {"remove_clip"}, clip_id : {a, b}]
      \cup {[op |-> "replace_clip", clip_id |-> c, clip |-> Clip(c, v)]
               : c \in {a, b}, v \in {"v1"}}
      \cup [op : {"move_clip"}, clip_id : {a, b}, to_track_id : {t1, t2}, at : {1, 2}]
      \cup [op : {"replace_track_clips"}, track_id : {t1, t2},
            clips : {<<>>, <<Clip(a, "v1")>>, <<Clip(b, "text"), Clip(a, "text")>>}]

\* Its markers, which no request edits, tell it from every other document.
PlainDocument ==
    [name |-> 0, settings |-> 0, markers |-> 1, tracks |-> <<Track(t1, "video", <<>>)>>]

MCDocuments == {FirstDocument, PlainDocument}

Operations(d) == FieldOps(d) \cup TrackOps(d) \cup ClipOps(d)

LaterOperations(d) ==
    FieldOps(d)
      \cup [op : {"insert_clip"}, track_id : {StoryTrack}, at : {1}, clip : {Clip(0, "text")}]
      \cup [op : {"remove_clip"}, clip_id : {b}]
      \cup [op : {"replace_clip"}, clip_id : {a}, clip : {Clip(a, "text")}]
      \cup [op : {"move_clip"}, clip_id : {b}, to_track_id : {t1}, at : {1, 2}]
      \cup [op : {"remove_track"}, track_id : {t2}]

\* Two operations at once on the first document, one afterwards.
MCRequests(d) ==
    CASE d.markers = 1 -> {<<o>> : o \in FieldOps(d)}
      [] d = FirstDocument -> {<<o>> : o \in Operations(d)}
           \cup {<<o1, o2>> : o1 \in Operations(d), o2 \in Operations(d)}
      [] OTHER -> {<<o>> : o \in LaterOperations(d)}

\* The operations are explored with people alone, who need no lease.
Focus ==
    \/ project.document.markers = 1
    \/ acquired = {}
============================================================================
