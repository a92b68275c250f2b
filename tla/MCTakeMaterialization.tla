----------------------- MODULE MCTakeMaterialization -----------------------
EXTENDS TakeMaterialization

CONSTANTS old, new,      \* two runs
          agent, story,
          a, b           \* two clips

\* A clip without a take; intent 0 is a clip that is not captured at all.
Clip(c, intent) == [id |-> c, content |-> [intent |-> intent, take |-> NoTake]]

Story(clips) ==
    [name |-> 0, settings |-> 0, markers |-> 0,
     tracks |-> <<[id |-> StoryTrack, kind |-> "video", clips |-> clips]>>]

OneCapture == {Story(<<Clip(a, 1)>>)}
TwoCaptures == {Story(<<Clip(a, 1), Clip(b, 1)>>)}

Shown(d) == {clip \in ClipsOf(d) : clip.id = a}

\* A capture edit of the first clip.
CaptureEdits(d) ==
    {<<[op |-> "replace_clip", clip_id |-> a, clip |-> [clip EXCEPT !.content.intent = 3 - @]]>>
        : clip \in Shown(d)}

\* A copy of it, with its Take; the removal of the second.
Copies(d) ==
    {<<[op |-> "insert_clip", track_id |-> story, at |-> 1, clip |-> clip]>>
        : clip \in {x \in Shown(d) : ~Unrecorded(x)}}
Removals(d) == {<<[op |-> "remove_clip", clip_id |-> b]>>}

CopyRequests(d) == CaptureEdits(d) \cup Copies(d)
RemovalRequests(d) == CaptureEdits(d) \cup Removals(d)

OneFile == {<<old, a>>}
Others == {"human", "system"}
============================================================================
