------------------------ MODULE TakeMaterialization ------------------------
(***************************************************************************)
(* Take attachment: how published recordings reach the Project Head        *)
(* (crates/application/src/recording_materialization.rs, the recording     *)
(* plan of routes/projects.rs and the receipts of                          *)
(* storage/src/repository/projects.rs).  The Project is that of            *)
(* ProjectHead, whose operations this module composes with the owners of   *)
(* the recording runs, a person who edits and undoes, and an Agent turn    *)
(* that holds the Edit Lease.                                              *)
(*                                                                         *)
(* The content of a clip is its Capture Intent and its Take; a Take names  *)
(* the output of a run that it shows and the fingerprint it was attached   *)
(* under.  An owner holds no transaction: each of its reads is one step,   *)
(* and so are the two calls of the route that deletes an asset.  The run   *)
(* that produced a clip is RecordingJobs; here it publishes its outputs in *)
(* any order and ends at any time.                                         *)
(*                                                                         *)
(* "deleted" is an auxiliary variable: the assets that people deleted.     *)
(***************************************************************************)
EXTENDS ProjectHead, FiniteSets

CONSTANTS Runs,          \* recording jobs bound to the Project
          Losable,       \* outputs whose file may be deleted
          Deletable,     \* assets that people may delete
          MaxFailures,   \* bound: restarts and storage errors
          MaxEdits       \* bound: edits of people and turns

ASSUME MaxFailuresAssumption == MaxFailures \in Nat
ASSUME RunsAssumption == "none" \notin Runs

VARIABLES runs,      \* the recording jobs: their items, outputs and status
          bound,     \* the rows of project_recording_runs, oldest first
          media,     \* outputs whose file exists
          assets,    \* outputs with a row in media_assets
          deleting,  \* those that delete_asset found unused
          deleted,   \* auxiliary: those it deleted
          owner,     \* where the materialization owner of a run stands
          view,      \* what it has read so far
          failures   \* restarts and storage errors

table == <<runs, bound, media, deleting, deleted>>
allVars == <<vars, table, assets, owner, view, failures>>

NoTake == [run |-> "none", clip |-> <<>>, fingerprint |-> 0]
NoItems == [c \in {} |-> 0]
Unplanned == [status |-> "none", items |-> NoItems, outputs |-> {}]
Blank == [ended |-> FALSE, outputs |-> {}, base |-> 1]

Timeline(d) == FlattenSeq([i \in DOMAIN d.tracks |-> d.tracks[i].clips])
ClipOf(d, c) == CHOOSE clip \in ClipsOf(d) : clip.id = c
OnTimeline(d, c) == \E clip \in ClipsOf(d) : clip.id = c

\* materialization_state: what a recording plan picks up.
Unrecorded(clip) == clip.content.take.fingerprint # clip.content.intent

\* The clips a recording may be planned for.
CapturedClips ==
    UNION {{clip.id : clip \in {x \in ClipsOf(d) : Unrecorded(x)}} : d \in Documents}

Places == {"none", "poll", "job", "head", "receipts", "attach", "commit"}

TakesInit ==
    /\ Init
    /\ runs = [r \in Runs |-> Unplanned]
    /\ bound = <<>> /\ media = {} /\ assets = {}
    /\ deleting = {} /\ deleted = {}
    /\ owner = [r \in Runs |-> "none"]
    /\ view = [r \in Runs |-> Blank]
    /\ failures = 0

----------------------------------------------------------------------------
(* Recording plans and runs.                                               *)

\* create_project_recording_plan on the current Head.
Plan(r) ==
    /\ runs[r].status = "none"
    /\ \E picked \in SUBSET {clip.id : clip \in {x \in ClipsOf(project.document) : Unrecorded(x)}} \ {{}} :
          runs' = [runs EXCEPT ![r] =
                      [Unplanned EXCEPT !.status = "planned",
                           !.items = [c \in picked |-> ClipOf(project.document, c).content.intent]]]
    /\ UNCHANGED <<vars, bound, media, assets, deleting, deleted, owner, view, failures>>

Observe(r) == owner' = [owner EXCEPT ![r] = IF @ = "none" THEN "poll" ELSE @]

\* bind_project_recording_run: the row that gives a run its place.
Bind(r) == bound' = Append(bound, r)

\* start_recording_job: one run captures at a time.  The run is bound to the
\* Project before its job is stored and observed.
StartRun(r) ==
    /\ runs[r].status = "planned"
    /\ \A other \in Runs : runs[other].status # "running"
    /\ runs' = [runs EXCEPT ![r].status = "running"]
    /\ Bind(r)
    /\ Observe(r)
    /\ UNCHANGED <<vars, media, assets, deleting, deleted, view, failures>>

Publish(r) ==
    /\ runs[r].status = "running"
    /\ \E c \in DOMAIN runs[r].items \ runs[r].outputs :
          /\ runs' = [runs EXCEPT ![r].outputs = @ \cup {c}]
          /\ media' = media \cup {<<r, c>>}
    /\ UNCHANGED <<vars, bound, assets, deleting, deleted, owner, view, failures>>

EndRun(r) ==
    /\ runs[r].status = "running"
    /\ runs' = [runs EXCEPT ![r].status = "ended"]
    /\ UNCHANGED <<vars, bound, media, assets, deleting, deleted, owner, view, failures>>

\* A person deletes an output and its file.
DeleteOutput ==
    /\ \E output \in Losable \cap media : media' = media \ {output}
    /\ UNCHANGED <<vars, runs, bound, assets, deleting, deleted, owner, view, failures>>

\* Project::references_media_asset, of the Project Head.
References(d, asset) ==
    \E clip \in ClipsOf(d) :
        LET take == clip.content.take IN take # NoTake /\ <<take.run, take.clip>> = asset

\* A person deletes the row of an asset: delete_asset looks for it in every
\* Project Head and deletes it afterwards, by a second call.
CheckAsset ==
    /\ \E asset \in Deletable \cap assets :
          ~References(project.document, asset) /\ deleting' = deleting \cup {asset}
    /\ UNCHANGED <<vars, runs, bound, media, assets, deleted, owner, view, failures>>

DeleteAsset ==
    /\ \E asset \in deleting :
          /\ deleting' = deleting \ {asset}
          /\ assets' = assets \ {asset}
          /\ deleted' = deleted \cup {asset}
    /\ UNCHANGED <<vars, runs, bound, media, owner, view, failures>>

----------------------------------------------------------------------------
(* MaterializationOwner::poll and reconcile_project_recording.             *)

\* The owner's next step, with what it has read so far.
Goto(r, from, to, read) ==
    /\ owner[r] = from
    /\ owner' = [owner EXCEPT ![r] = to]
    /\ view' = [view EXCEPT ![r] = read]

\* A flawed Settle that looks at the job again.
SettleOnNewStatus(r, from) ==
    Goto(r, from, IF runs[r].status = "ended" THEN "none" ELSE "poll", Blank)

\* A poll that need not be repeated is the last one if the job was terminal
\* before it.
Settle(r, from) == Goto(r, from, IF view[r].ended THEN "none" ELSE "poll", Blank)
Retry(r, from) == Goto(r, from, "poll", Blank)

\* Whether the job is terminal is read first, its outputs afterwards.
Poll(r) ==
    /\ Goto(r, "poll", "job", [Blank EXCEPT !.ended = runs[r].status = "ended"])
    /\ UNCHANGED <<vars, table, assets, failures>>

ReadJob(r) ==
    /\ Goto(r, "job", "head", [view[r] EXCEPT !.outputs = runs[r].outputs])
    /\ UNCHANGED <<vars, table, assets, failures>>

ReadHead(r) ==
    /\ Goto(r, "head", "receipts", [view[r] EXCEPT !.base = project.revision])
    /\ UNCHANGED <<vars, table, assets, failures>>

Place(r) == CHOOSE i \in DOMAIN bound : bound[i] = r
Attaches(g, o) == g.author = "system" /\ o.op = "replace_clip" /\ o.clip.content.take # NoTake

\* Flawed Receipts that look at the run itself only.
ReceiptsOfThisRun(r) ==
    UNION {{o.clip_id : o \in {x \in ToSet(groups[i].operations) :
                Attaches(groups[i], x) /\ x.clip.content.take.run = r}}
           : i \in DOMAIN groups}

\* reconciled_recording_clip_ids: clips attached by this run or a later one,
\* also if the attachment was undone.  A Take of the system's names the run
\* whose operation attached it.
Receipts(r) ==
    UNION {{o.clip_id : o \in {x \in ToSet(groups[i].operations) :
                Attaches(groups[i], x) /\ Place(x.clip.content.take.run) >= Place(r)}}
           : i \in DOMAIN groups}

\* The clip shows the run's output for it already (take_id == output.id).
ShowsOutput(clip, r) ==
    clip.content.take.run = r /\ clip.content.take.clip = clip.id

\* A flawed Wanted that does not look at the intent.
WantedForAnyIntent(r) ==
    {c \in view[r].outputs \ Receipts(r) :
        /\ OnTimeline(heads[view[r].base], c)
        /\ ~ShowsOutput(ClipOf(heads[view[r].base], c), r)}

\* The outputs that belong on the timeline the owner has read: the footage
\* was captured for the clip's present intent.
Wanted(r) ==
    {c \in view[r].outputs \ Receipts(r) :
        /\ OnTimeline(heads[view[r].base], c)
        /\ LET clip == ClipOf(heads[view[r].base], c)
           IN  ~ShowsOutput(clip, r) /\ clip.content.intent = runs[r].items[c]}

\* From here on view.outputs are the outputs to attach.
ReadReceipts(r) ==
    /\ Goto(r, "receipts", "attach", [view[r] EXCEPT !.outputs = Wanted(r)])
    /\ UNCHANGED <<vars, table, assets, failures>>

\* TimelineClip::with_recorded_take.
WithRecordedTake(clip, r) ==
    [clip EXCEPT !.content.take =
        [run |-> r, clip |-> clip.id, fingerprint |-> clip.content.intent]]

\* The clips as they were read, with their Takes, in timeline order.
Attachment(r) ==
    LET clips == Timeline(heads[view[r].base])
        Replacements(clip) ==
            IF clip.id \in view[r].outputs
            THEN <<[op |-> "replace_clip", clip_id |-> clip.id, clip |-> WithRecordedTake(clip, r)]>>
            ELSE <<>>
    IN  FlattenSeq([k \in DOMAIN clips |-> Replacements(clips[k])])

\* A flawed PutAssets that leaves the rows for later.
PutAssetsLater(r) ==
    /\ view[r].outputs # {}
    /\ \A c \in view[r].outputs : <<r, c>> \in media
    /\ Goto(r, "attach", "commit", view[r])
    /\ UNCHANGED <<vars, table, assets, failures>>

\* A media_assets row for every Take, before the patch that refers to it.
PutAssets(r) ==
    /\ view[r].outputs # {}
    /\ \A c \in view[r].outputs : <<r, c>> \in media
    /\ Goto(r, "attach", "commit", view[r])
    /\ assets' = assets \cup {<<r, c>> : c \in view[r].outputs}
    /\ UNCHANGED <<vars, table, failures>>

NothingToAttach(r) ==
    /\ view[r].outputs = {}
    /\ Settle(r, "attach")
    /\ UNCHANGED <<vars, table, assets, failures>>

\* The first output without a file ends the poll, and a terminal job's owner;
\* the rows of the outputs before it are there already.
MediaUnavailable(r) ==
    /\ \E c \in view[r].outputs : <<r, c>> \notin media
    /\ Settle(r, "attach")
    /\ \E stored \in SUBSET ({<<r, c>> : c \in view[r].outputs} \cap media) : assets' = assets \cup stored
    /\ UNCHANGED <<vars, table, failures>>

\* A flawed CommitAttachment that rebases on the present revision.
CommitOnNewHead(r) ==
    /\ Settle(r, "commit")
    /\ ApplyProjectPatch("system", project.revision, Attachment(r))
    /\ UNCHANGED <<table, assets, failures>>

CommitAttachment(r) ==
    /\ Settle(r, "commit")
    /\ ApplyProjectPatch("system", view[r].base, Attachment(r))
    /\ UNCHANGED <<table, assets, failures>>

\* A lost race with another edit, or an Edit Lease: the owner polls again.
AttachmentRefused(r) ==
    /\ ~Authorized("system") \/ view[r].base # project.revision
    /\ Retry(r, "commit")
    /\ UNCHANGED <<vars, table, assets, failures>>

Fail == failures < MaxFailures /\ failures' = failures + 1

\* A transient storage error does, too.  At a read or at put_asset it leaves
\* the state in which it has just begun to poll.
TransientError(r) ==
    /\ Fail
    /\ Retry(r, "commit")
    /\ UNCHANGED <<vars, table, assets>>

Own(r) ==
    \/ Poll(r) \/ ReadJob(r) \/ ReadHead(r) \/ ReadReceipts(r)
    \/ PutAssets(r) \/ NothingToAttach(r) \/ MediaUnavailable(r)
    \/ CommitAttachment(r) \/ AttachmentRefused(r)

----------------------------------------------------------------------------
(* Everybody else.                                                         *)

Edits == {i \in DOMAIN groups : groups[i].author # "system"}

\* People edit and undo, a turn edits under its lease.
EditProject ==
    /\ Cardinality(Edits) < MaxEdits
    /\ \/ \E author \in {"human"} \cup Turns, ops \in Requests(project.document) :
             ApplyProjectPatch(author, project.revision, ops)
       \/ \E g \in DOMAIN groups : RevertProjectChangeGroup(g, project.revision)
    /\ UNCHANGED <<table, assets, owner, view, failures>>

TakeLease ==
    /\ \E turn \in Turns : AcquireProjectEditLease(turn, project.revision)
    /\ UNCHANGED <<table, assets, owner, view, failures>>

ReleaseLease ==
    /\ \E turn \in Turns : ReleaseProjectEditLease(turn)
    /\ UNCHANGED <<table, assets, owner, view, failures>>

\* Startup: interrupted runs have ended, every run that published something
\* gets an owner again, unconfirmed plans are gone.
RestartHost ==
    /\ Fail
    /\ Restart
    /\ runs' = [r \in Runs |->
          CASE runs[r].status = "running" -> [runs[r] EXCEPT !.status = "ended"]
            [] runs[r].status = "planned" -> Unplanned
            [] OTHER -> runs[r]]
    /\ owner' = [r \in Runs |-> IF runs[r].outputs # {} THEN "poll" ELSE "none"]
    /\ view' = [r \in Runs |-> Blank]
    /\ deleting' = {}
    /\ UNCHANGED <<bound, media, assets, deleted>>

TakesNext ==
    \/ \E r \in Runs :
          Plan(r) \/ StartRun(r) \/ Publish(r) \/ EndRun(r) \/ Own(r) \/ TransientError(r)
    \/ EditProject \/ TakeLease \/ ReleaseLease \/ RestartHost
    \/ DeleteOutput \/ CheckAsset \/ DeleteAsset

TakesSpec == TakesInit /\ [][TakesNext]_allVars

\* The owner takes a step.  Said of its position alone, so that TLC need not
\* apply a patch to find out whether one could be applied; in every state one
\* of the actions of Own(r) is such a step.
Moves(r) ==
    /\ owner[r] # "none"
    /\ \E place \in Places \ {owner[r]} : owner' = [owner EXCEPT ![r] = place]

\* Owners run, a recording ends, and so does a turn (AgentTurns).
Fairness ==
    /\ \A r \in Runs : WF_owner(Moves(r)) /\ WF_runs(EndRun(r))
    /\ WF_lease(ReleaseLease)

FairSpec == TakesSpec /\ Fairness

----------------------------------------------------------------------------
(* Properties.                                                             *)

\* The assets that are stored, or were.
Stored == assets \cup deleted

\* Types.
Published == UNION {{r} \X runs[r].outputs : r \in Runs}
TakesTypeOK ==
    /\ owner \in [Runs -> Places]
    /\ \A r \in Runs :
          /\ view[r].base \in 1..project.revision
          /\ runs[r].status \in {"none", "planned", "running", "ended"}
          /\ view[r].outputs \subseteq runs[r].outputs
          /\ runs[r].outputs \subseteq DOMAIN runs[r].items
    /\ failures \in 0..MaxFailures
    /\ media \cup Stored \subseteq Published
    /\ deleting \subseteq assets

\* The Takes that were attached, in the order of their commits.
AttachedBy(i, c) ==
    {Place(o.clip.content.take.run) :
        o \in {x \in ToSet(groups[i].operations) : Attaches(groups[i], x) /\ x.clip_id = c}}

\* A clip receives the Takes of its runs in the order of the runs, each at
\* most once: an old completion never replaces a newer Take, and an attachment
\* that a person undid is never repeated, after a restart either
\* (ARCHITECTURE.md: receipts protect "replacement Takes and human undo").
TakesAttachInOrder ==
    \A i, k \in DOMAIN groups : i < k =>
        \A o \in ToSet(groups[k].operations) : Attaches(groups[k], o) =>
            \A earlier \in AttachedBy(i, o.clip_id) : earlier < Place(o.clip.content.take.run)

\* A Take vouches for the intent it was really captured for, in every revision
\* ("an intervening capture edit cannot bless old footage").
TakesShowTheirIntent ==
    \A i \in DOMAIN heads : \A clip \in ClipsOf(heads[i]) :
        LET take == clip.content.take
        IN  take # NoTake => take.fingerprint = runs[take.run].items[take.clip]

\* Nothing of a document but Takes.
OnlyTakesDiffer(d, e) ==
    /\ [e EXCEPT !.tracks = d.tracks] = d
    /\ DOMAIN e.tracks = DOMAIN d.tracks
    /\ \A i \in DOMAIN d.tracks :
          LET before == d.tracks[i].clips
              after == e.tracks[i].clips
          IN  /\ [e.tracks[i] EXCEPT !.clips = before] = d.tracks[i]
              /\ DOMAIN after = DOMAIN before
              /\ \A k \in DOMAIN before :
                    after[k] = [before[k] EXCEPT !.content.take = after[k].content.take]

\* An attachment changes the Takes of its clips and nothing else: no edit that
\* a person or a turn made since the owner read the Head is taken back.
AttachmentsKeepEdits ==
    \A i \in DOMAIN groups :
        groups[i].author = "system" => OnlyTakesDiffer(heads[i], heads[i + 1])

\* Every Take of every revision, also of one that undo may bring back or that a
\* copy of its clip shows, has the media_assets row that preview and delivery
\* look up, or had it until a person deleted it.
TakesHaveAssets ==
    \A i \in DOMAIN heads : \A clip \in ClipsOf(heads[i]) :
        LET take == clip.content.take
        IN  take # NoTake => <<take.run, take.clip>> \in Stored

\* No asset goes while the Project Head refers to it (design-qa.md: the delete
\* route "scans every current Project Head and rejects any Asset/Take material
\* reference"; that is "the integrity boundary").  It does not hold: a Take may
\* be attached between CheckAsset and DeleteAsset.
UsedAssetsAreKept ==
    [][\A asset \in assets \ assets' : ~References(project.document, asset)]_allVars

\* Nothing is left to do for a published output: it was attached by its run or a later
\* one, its clip is gone or wants different footage, or its file is gone.
Done(r, c) ==
    /\ c \in runs[r].outputs
    /\ \/ c \in Receipts(r)
       \/ <<r, c>> \notin media
       \/ ~OnTimeline(project.document, c)
       \/ ClipOf(project.document, c).content.intent # runs[r].items[c]

\* Every published output gets its turn: there is a moment after publication
\* at which it is attached or needs not be, through lease contention, lost races
\* and restarts, and although the end of the recording races its last output
\* (repository/projects.rs: receipts are kept "per clip so partial outputs can
\* arrive incrementally and failed jobs retain their successful prefix").
OutputsAreAttached ==
    \A r \in Runs : \A c \in CapturedClips :
        <>(c \in runs[r].outputs) => <>Done(r, c)
============================================================================
