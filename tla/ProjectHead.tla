---------------------------- MODULE ProjectHead ----------------------------
(***************************************************************************)
(* The durable Project Head, its Change Group history and its Edit Lease:  *)
(* crates/storage/src/repository/projects.rs.  Every storage call runs     *)
(* under one connection mutex and one immediate transaction, so a call is  *)
(* one action.  A call that fails rolls back, the deletion of a stale      *)
(* lease included: it is no step at all.  A call that panics rolls back    *)
(* too, but poisons the connection mutex, and every later call fails until *)
(* the application is started again.                                       *)
(*                                                                         *)
(* "heads" is an auxiliary variable: the document of every revision.       *)
(***************************************************************************)
EXTENDS EditingDocument

CONSTANTS Turns,          \* Agent turns, each with one lease id of its own
          Editors,        \* who else sends patches: "human", "system"
          Children,       \* Projects that a nested sequence may create
          Documents,      \* the documents a Project may start from
          Requests(_),    \* the patches clients send against a document
          LeaseTimeout,   \* PROJECT_EDIT_LEASE_TIMEOUT_SECONDS, in heartbeats
          MaxRevision     \* bound: revisions of the modelled Project

ASSUME LeaseTimeoutAssumption == LeaseTimeout \in Nat
ASSUME MaxRevisionAssumption == MaxRevision \in Nat \ {0}
ASSUME TurnsAssumption == {"human", "system", "none"} \cap Turns = {}
ASSUME EditorsAssumption == Editors \subseteq {"human", "system"}

VARIABLES project,   \* the row of the projects table: [revision, document]
          groups,    \* the rows of project_change_groups, oldest first
          lease,     \* the row of project_edit_leases, or NoLease
          acquired,  \* lease ids that were handed out
          children,  \* rows of the projects table made by nesting
          poisoned,  \* the connection mutex is poisoned
          heads      \* auxiliary: heads[r] is the document of revision r

vars == <<project, groups, lease, acquired, children, poisoned, heads>>

Authors == Editors \cup Turns
NoLease == [holder |-> "none", base |-> 0, age |-> 0]

\* The age of a row is the time since heartbeat_at; the row is stale only when
\* heartbeat_at lies strictly before now - timeout.
HasLease == lease.holder # "none"
Stale == lease.age > LeaseTimeout
LiveLease == IF HasLease /\ ~Stale THEN lease ELSE NoLease

----------------------------------------------------------------------------
Init ==
    /\ \E d \in Documents : project = [revision |-> 1, document |-> d]
    /\ groups = <<>>
    /\ lease = NoLease
    /\ acquired = {}
    /\ children = {}
    /\ poisoned = FALSE
    /\ heads = <<project.document>>

\* A flawed authorization: a person edits under a lease.
AuthorizedPeople(author) == author \in Turns => LiveLease.holder = author

\* authorize_project_patch: an Agent needs its own live lease, anybody else
\* needs that there is none.
Authorized(author) ==
    LiveLease.holder = IF author \in Turns THEN author ELSE "none"

\* UPDATE projects ... WHERE revision = from, then insert_change_group.
Commit(author, result, operations, reverts) ==
    /\ project' = [revision |-> project.revision + 1, document |-> result.doc]
    /\ groups' = Append(groups,
                        [from       |-> project.revision,
                         to         |-> project.revision + 1,
                         author     |-> author,
                         reverts    |-> reverts,
                         operations |-> operations,
                         inverse    |-> result.inverse])
    /\ heads' = Append(heads, result.doc)
    /\ lease' = LiveLease
    /\ poisoned' = poisoned

\* The closure panicked while it held the mutex; the transaction is dropped.
PoisonMutex ==
    /\ poisoned' = TRUE
    /\ UNCHANGED <<project, groups, lease, heads>>

\* A flawed Conclude that updates the Project and records no Change Group.
ConcludeWithoutGroup(author, result, operations, reverts) ==
    /\ result.outcome = "applied"
    /\ project' = [revision |-> project.revision + 1, document |-> result.doc]
    /\ heads' = Append(heads, result.doc)
    /\ UNCHANGED <<groups, lease, poisoned>>

Conclude(author, result, operations, reverts) ==
    \/ /\ result.outcome = "applied"
       /\ Commit(author, result, operations, reverts)
    \/ /\ result.outcome = "panicked"
       /\ PoisonMutex

ApplyProjectPatch(author, base, ops) ==
    LET operations == Allocate(ops, project.revision)
    IN  /\ ~poisoned
        /\ project.revision < MaxRevision
        /\ Authorized(author)
        /\ base = project.revision
        /\ Conclude(author, ApplyPatch(project.document, operations), operations, 0)
        /\ UNCHANGED <<acquired, children>>

\* The route replaces the consecutive Story clips first..last by one clip that
\* plays the child Project.
NestingPatch(d, first, last, clip) ==
    LET placed == d.tracks[TrackIndex(d, StoryTrack)].clips
    IN  <<[op |-> "replace_track_clips", track_id |-> StoryTrack,
           clips |-> SubSeq(placed, 1, first - 1) \o <<clip>>
                         \o SubSeq(placed, last + 1, Len(placed))]>>

\* The child's row is part of the transaction of its parent's patch.
InsertChildLater(child, result) == children' = children   \* a flawed InsertChild
InsertChild(child, result) ==
    children' = IF result.outcome = "applied" THEN children \cup {child} ELSE children

\* The patch keeps the ids the route chose; the child Project is inserted in
\* the same transaction.  The route read the document at revision base.
CreateNestedProject(child, base, first, last) ==
    LET clip == [id |-> <<project.revision, 0, 0>>, content |-> child]
        ops == NestingPatch(project.document, first, last, clip)
        result == ApplyPatch(project.document, ops)
    IN  /\ ~poisoned
        /\ project.revision < MaxRevision
        /\ Authorized("human")
        /\ child \notin children
        /\ base = project.revision
        /\ Conclude("human", result, ops, 0)
        /\ InsertChild(child, result)
        /\ UNCHANGED acquired

\* groups[g] is the Change Group named by the request, whose identity is g.
RevertProjectChangeGroup(g, expected) ==
    LET target == groups[g]
        result == Revert(project.document, target)
    IN  /\ ~poisoned
        /\ project.revision < MaxRevision
        /\ LiveLease = NoLease
        /\ expected = project.revision
        /\ Conclude("human", result, target.inverse, g)
        /\ UNCHANGED <<acquired, children>>

\* The insert does nothing when a live row exists (Held).
AcquireProjectEditLease(turn, base) ==
    /\ ~poisoned
    /\ turn \notin acquired
    /\ base = project.revision
    /\ LiveLease = NoLease
    /\ lease' = [holder |-> turn, base |-> base, age |-> 0]
    /\ acquired' = acquired \cup {turn}
    /\ UNCHANGED <<project, groups, children, poisoned, heads>>

\* The update names the lease id and does not look at the age of the row.
HeartbeatProjectEditLease(turn) ==
    /\ ~poisoned
    /\ lease.holder = turn
    /\ lease' = [lease EXCEPT !.age = 0]
    /\ UNCHANGED <<project, groups, acquired, children, poisoned, heads>>

ReleaseProjectEditLease(turn) ==
    /\ ~poisoned
    /\ lease.holder = turn
    /\ lease' = NoLease
    /\ UNCHANGED <<project, groups, acquired, children, poisoned, heads>>

\* Reading the lease deletes a stale row.
GetProjectEditLease ==
    /\ ~poisoned
    /\ lease' = LiveLease
    /\ UNCHANGED <<project, groups, acquired, children, poisoned, heads>>

\* One heartbeat interval passes.
Tick ==
    /\ HasLease
    /\ ~Stale
    /\ lease' = [lease EXCEPT !.age = @ + 1]
    /\ UNCHANGED <<project, groups, acquired, children, poisoned, heads>>

\* Opening the storage runs recover_interrupted_turns: all leases go.
Restart ==
    /\ lease' = NoLease
    /\ poisoned' = FALSE
    /\ UNCHANGED <<project, groups, acquired, children, heads>>

PatchByAnyone ==
    \E author \in Authors, base \in 1..project.revision :
        \E ops \in Requests(project.document) : ApplyProjectPatch(author, base, ops)

StoryPositions ==
    DOMAIN project.document.tracks[TrackIndex(project.document, StoryTrack)].clips

Nest ==
    \E child \in Children, base \in 1..project.revision :
        \E first \in StoryPositions, last \in StoryPositions :
            /\ first <= last
            /\ CreateNestedProject(child, base, first, last)

RevertByAnyone ==
    \E g \in 1..Len(groups), expected \in 1..project.revision :
        RevertProjectChangeGroup(g, expected)

Next ==
    \/ PatchByAnyone
    \/ Nest
    \/ RevertByAnyone
    \/ \E turn \in Turns :
          \/ \E base \in 1..project.revision : AcquireProjectEditLease(turn, base)
          \/ HeartbeatProjectEditLease(turn)
          \/ ReleaseProjectEditLease(turn)
    \/ GetProjectEditLease
    \/ Tick
    \/ Restart

Spec == Init /\ [][Next]_vars

----------------------------------------------------------------------------
(* Properties.                                                             *)

\* Types.  The documents are those of the history; their shape is the business
\* of EditingDocument.
TypeOK ==
    /\ project.revision \in 1..MaxRevision
    /\ lease \in [holder : Turns \cup {"none"}, base : 0..MaxRevision,
                  age : 0..LeaseTimeout + 1]
    /\ acquired \subseteq Turns
    /\ children \subseteq Children
    /\ poisoned \in BOOLEAN
    /\ Len(heads) = project.revision

\* The history explains the Head: one group for every revision but the first,
\* group i leads from revision i to i + 1, and the Head is the last document.
HistoryExplainsHead ==
    /\ Len(groups) = project.revision - 1
    /\ heads[project.revision] = project.document
    /\ \A i \in 1..Len(groups) : groups[i].from = i /\ groups[i].to = i + 1

\* A patch that never holds a clip identity twice while it is being applied.
\* Validation does not ask for this, and a patch that copies a clip and removes
\* the original afterwards may not be undoable.
StaysUnique(d, ops) ==
    \A n \in 1..Len(ops) :
        LET s == Stage(d, SubSeq(ops, 1, n)) IN s.outcome = "applied" => UniqueClips(s.doc)

Undoes(g) ==
    LET r == Revert(project.document, groups[g])
    IN  r.outcome = "applied" /\ r.doc = heads[g]

\* The newest Change Group can always be undone, and undoing it gives back the
\* document before it to the last detail (apply_patch: "returns its undoable
\* Change Group"); a revert is such a group too, so undo can be redone.
LatestEditIsUndoable ==
    groups # <<>> /\ StaysUnique(heads[Len(groups)], groups[Len(groups)].operations)
        => Undoes(Len(groups))

\* What one can point at in a document, and its value there.
Fields == {"name", "settings", "markers"}
ClipIds(d) == {clip.id : clip \in ClipsOf(d)}
Content(d, c) == {clip.content : clip \in {x \in ClipsOf(d) : x.id = c}}
Owner(d, c) == {d.tracks[i].id : i \in {x \in DOMAIN d.tracks : ClipIndex(d.tracks[x], c) # 0}}

\* Undoing an older Change Group never touches what later edits changed: a
\* field, a clip's content or the track a clip lies on (revert_change_group
\* "preserves later edits"; CONTEXT.md: conflicting fields are "never
\* overwritten automatically").
LaterEditsSurviveRevert ==
    [][\A g \in 1..Len(groups) :
        (groups' # groups /\ groups'[Len(groups')].reverts = g) =>
            LET then == heads[g + 1]
                now == project.document
                after == project'.document
                known == ClipIds(then) \cup ClipIds(now)
            IN  /\ \A f \in Fields : now[f] # then[f] => after[f] = now[f]
                /\ \A c \in known :
                      /\ Content(now, c) # Content(then, c) => Content(after, c) = Content(now, c)
                      /\ Owner(now, c) # Owner(then, c) => Owner(after, c) = Owner(now, c)]_vars

\* Every nested clip of every revision, also of one that undo or redo may
\* bring back, plays a Project that exists.
NestedSequencesResolve ==
    \A r \in 1..Len(heads) :
        \A clip \in ClipsOf(heads[r]) : clip.content \in Children => clip.content \in children

\* No request makes the storage unusable (the docs of apply_patch and of
\* revert_change_group promise InvalidInput or Conflict).
RequestsNeverPoisonStorage == ~poisoned

\* Everything committed since a lease was taken was committed by its turn, also
\* when the row grew stale in between and a late heartbeat renewed it.
LeaseCoversItsEdits ==
    HasLease =>
        \A i \in 1..Len(groups) : groups[i].from >= lease.base => groups[i].author = lease.holder

\* No edit of a person, of the system or of another turn ever lands between two
\* edits of one Agent turn: the turn never works on a document it did not see.
TurnEditsAreContiguous ==
    \A i, k \in 1..Len(groups) :
        (groups[i].author \in Turns /\ groups[k].author = groups[i].author) =>
            \A j \in i..k : groups[j].author = groups[i].author

----------------------------------------------------------------------------
\* The Edit Lease of this Project is an Edit Lease: the row may grow stale, be
\* renewed late, be deleted by whoever reads it or taken over, and the right to
\* edit still never returns to a turn that lost it.  Nesting and reverting are
\* edits of a person.
Lease == INSTANCE EditLease WITH
    Editors <- Editors \cup {"human"},
    authors <- [i \in 1..Len(groups) |-> groups[i].author],
    writer <- lease.holder,
    live <- HasLease /\ ~Stale,
    begun <- acquired

\* Every step of the storage is a step of the Edit Lease, or none.
ImplementsEditLease == Lease!Spec
============================================================================
