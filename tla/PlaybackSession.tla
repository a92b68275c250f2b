--------------------------- MODULE PlaybackSession ---------------------------
(***************************************************************************)
(* Demo playback and the game session it shares with recordings: the       *)
(* session of the application (crates/application/src/state.rs), the       *)
(* requests that play and stop (routes/demos.rs), and the process registry *)
(* of the runtime (crates/runtime/src/integration.rs).                     *)
(*                                                                         *)
(* Every mutex section is one step.  A request can be dropped wherever it  *)
(* waits: its future goes first, with the transaction of the registry it   *)
(* holds, then its reservation, whose Drop leaves the session to a task.   *)
(* A playback has a token of its own; one of which nothing is left stands  *)
(* for a fresh one.  A process that was stopped is as good as none: how it *)
(* ended is only told.                                                     *)
(***************************************************************************)
EXTENDS RuntimeSession

VARIABLES phase,     \* of a playback session: launching, active or stopping
          play,      \* where the request that plays, or its cleanup, stands
          stop,      \* where the request or the task that stops a playback stands
          tracked,   \* the playback process the runtime tracks
          guards,    \* the playbacks whose managed copy of the demo is held
          game       \* the playbacks whose process runs

playbackVars == <<phase, play, stop, tracked, guards, game>>
sessionVars == <<session, playbackVars>>

NoStop == [by |-> "none", pc |-> "none"]
Task == [by |-> "task", pc |-> "begin"]
Request == [by |-> "request", pc |-> "begin"]
Tracked(state, t) == [state |-> state, token |-> t]
Untracked == Tracked("idle", "none")   \* or stopped

SessionTypeOK ==
    /\ session \in Holders
    /\ phase \in {"none", "launching", "active", "stopping"}
    /\ play \in [Tokens -> {"idle", "reserved", "releasing", "launching", "launched", "cleanup"}]
    /\ stop \in [Tokens -> [by : {"none", "request", "task"},
                            pc : {"none", "begin", "kill", "yes", "no"}]]
    /\ tracked \in [state : {"idle", "launching", "active", "stopping"},
                    token : Tokens \cup {"none"}]
    /\ guards \subseteq Tokens /\ game \subseteq Tokens

PlaybackInit ==
    /\ phase = "none" /\ tracked = Untracked
    /\ play = [t \in Tokens |-> "idle"]
    /\ stop = [t \in Tokens |-> NoStop]
    /\ guards = {} /\ game = {}

SessionInit == session = "none" /\ PlaybackInit

PlayStep(t, from, to) == play[t] = from /\ play' = [play EXCEPT ![t] = to]
StopStep(t, from, to) == stop[t].pc = from /\ stop' = [stop EXCEPT ![t].pc = to]
SetStop(t, s) == stop' = [stop EXCEPT ![t] = s]
Free == session' = "none" /\ phase' = "none"

\* release_playback_session leaves a session alone that is not its own.
ReleasePlayback(t) ==
    IF session = t THEN Free ELSE UNCHANGED <<session, phase>>

----------------------------------------------------------------------------
(* The request that plays a demo.                                          *)

ReservePlayback(t) ==
    /\ session = "none"
    /\ stop[t] = NoStop /\ PlayStep(t, "idle", "reserved")
    /\ session' = t /\ phase' = "launching"
    /\ UNCHANGED <<stop, tracked, guards, game>>

\* The demo is missing or the request is dropped: a task gives the session back.
WithdrawPlay(t) ==
    /\ PlayStep(t, "reserved", "releasing")
    /\ UNCHANGED <<session, phase, stop, tracked, guards, game>>

ReleaseWithdrawn(t) ==
    /\ PlayStep(t, "releasing", "idle")
    /\ ReleasePlayback(t)
    /\ UNCHANGED <<stop, tracked, guards, game>>

\* TrackedPlaybackLaunch::reserve; one process is tracked at a time.
ReserveLaunch(t) ==
    /\ IF tracked = Untracked
       THEN PlayStep(t, "reserved", "launching") /\ tracked' = Tracked("launching", t)
       ELSE PlayStep(t, "reserved", "cleanup") /\ UNCHANGED tracked
    /\ UNCHANGED <<session, phase, stop, guards, game>>

\* The preflight, the copy or the spawn fails, or the request is dropped.
LaunchEnds(t) ==
    /\ PlayStep(t, "launching", "cleanup")
    /\ tracked' = IF tracked = Tracked("launching", t) THEN Untracked ELSE tracked
    /\ UNCHANGED <<session, phase, stop, guards, game>>

\* The process is spawned, its copy is guarded and it is tracked, with no wait
\* in between.
SpawnPlayback(t) ==
    /\ tracked = Tracked("launching", t)
    /\ PlayStep(t, "launching", "launched")
    /\ tracked' = Tracked("active", t)
    /\ guards' = guards \cup {t} /\ game' = game \cup {t}
    /\ UNCHANGED <<session, phase, stop>>

MarkActive(t) ==
    /\ IF session = t /\ phase = "launching"
       THEN PlayStep(t, "launched", "idle") /\ phase' = "active"
       ELSE PlayStep(t, "launched", "cleanup") /\ UNCHANGED phase
    /\ UNCHANGED <<session, stop, tracked, guards, game>>

DropLaunched(t) ==
    /\ PlayStep(t, "launched", "cleanup")
    /\ UNCHANGED <<session, phase, stop, tracked, guards, game>>

\* Flawed: the reservation is released as if nothing had been launched.
CleanUpUnstopped(t) ==
    /\ PlayStep(t, "cleanup", "idle")
    /\ ReleasePlayback(t)
    /\ UNCHANGED <<stop, tracked, guards, game>>

\* The task of a reservation dropped after its launch began stops it.
CleanUpLaunch(t) ==
    /\ PlayStep(t, "cleanup", "idle")
    /\ IF session = t /\ phase \in {"launching", "active"}
       THEN phase' = "stopping" /\ SetStop(t, Task)
       ELSE UNCHANGED <<phase, stop>>
    /\ UNCHANGED <<session, tracked, guards, game>>

----------------------------------------------------------------------------
(* Stopping it: a request, or a task that reconciles a dropped one.        *)

BeginStop(t) ==
    /\ session = t /\ phase = "active"
    /\ phase' = "stopping"
    /\ SetStop(t, Request)
    /\ UNCHANGED <<session, play, tracked, guards, game>>

\* stop_demo: nothing is tracked, or another process is, or this one.  It waits
\* for a launch or a stop of the same playback.
StopTracked(t) ==
    /\ CASE tracked = Untracked ->
              StopStep(t, "begin", "yes") /\ UNCHANGED tracked
         [] tracked = Tracked("active", t) ->
              StopStep(t, "begin", "kill") /\ tracked' = Tracked("stopping", t)
         [] OTHER ->
              tracked.token # t /\ StopStep(t, "begin", "no") /\ UNCHANGED tracked
    /\ UNCHANGED <<session, phase, play, guards, game>>

\* TrackedPlaybackStop::complete after the child was killed or found dead.
KillPlayback(t) ==
    /\ StopStep(t, "kill", "yes")
    /\ tracked' = Untracked
    /\ guards' = guards \ {t} /\ game' = game \ {t}
    /\ UNCHANGED <<session, phase, play>>

\* The child survives, or nobody waited for it: it is tracked again.
KillFails(t) ==
    /\ StopStep(t, "kill", "no")
    /\ tracked' = Tracked("active", t)
    /\ game' \in {game, game \ {t}}
    /\ UNCHANGED <<session, phase, play, guards>>

\* The request goes away or has no confirmation: a task asks again.
LeaveStop(t) ==
    /\ stop[t].by = "request"
    /\ SetStop(t, Task)
    /\ IF stop[t].pc = "kill"
       THEN tracked' = Tracked("active", t) /\ game' \in {game, game \ {t}}
       ELSE UNCHANGED <<tracked, game>>
    /\ UNCHANGED <<session, phase, play, guards>>

CompleteStop(t) ==
    /\ stop[t] = [by |-> "request", pc |-> "yes"]
    /\ SetStop(t, NoStop)
    /\ ReleasePlayback(t)
    /\ UNCHANGED <<play, tracked, guards, game>>

\* reconcile_playback_stop: a stop that is not confirmed makes it active again.
ReconcileStop(t) ==
    /\ stop[t].by = "task" /\ stop[t].pc \in {"yes", "no"}
    /\ SetStop(t, NoStop)
    /\ IF session = t /\ phase = "stopping"
       THEN IF stop[t].pc = "yes" THEN Free ELSE phase' = "active" /\ UNCHANGED session
       ELSE UNCHANGED <<session, phase>>
    /\ UNCHANGED <<play, tracked, guards, game>>

\* The player closes the game.
GameExits(t) ==
    /\ t \in game
    /\ game' = game \ {t}
    /\ UNCHANGED <<session, phase, play, stop, tracked, guards>>

----------------------------------------------------------------------------
Play(t) ==
    \/ ReservePlayback(t) \/ WithdrawPlay(t) \/ ReleaseWithdrawn(t) \/ ReserveLaunch(t)
    \/ LaunchEnds(t) \/ SpawnPlayback(t) \/ MarkActive(t) \/ DropLaunched(t) \/ CleanUpLaunch(t)

Stop(t) ==
    \/ BeginStop(t) \/ StopTracked(t) \/ KillPlayback(t) \/ KillFails(t) \/ LeaveStop(t)
    \/ CompleteStop(t) \/ ReconcileStop(t)

PlaybackNext == \E t \in Tokens : Play(t) \/ Stop(t) \/ GameExits(t)

\* What a recording does to the session: it takes a free one, or gives back its own.
Recording ==
    /\ \/ session = "none" /\ session' \in Jobs
       \/ session \in Jobs /\ session' = "none"
    /\ UNCHANGED playbackVars

SessionNext == PlaybackNext \/ Recording

SessionSpec == SessionInit /\ [][SessionNext]_sessionVars

----------------------------------------------------------------------------
(* Properties.                                                             *)

\* A game that plays a demo owns the session and the copy it plays: whatever
\* request was dropped, and whatever failed, no recording and no other playback
\* starts beside it, and the session is not free while it runs.  And it is not
\* lost: it can be stopped, or the request or task that does so is under way.
CanBeStopped(t) ==
    CASE phase = "active" -> TRUE
      [] phase = "launching" -> play[t] \in {"launched", "cleanup"}
      [] phase = "stopping" -> stop[t] # NoStop
      [] OTHER -> FALSE

PlaybackOwnsItsGame == \A t \in game : session = t /\ t \in guards /\ CanBeStopped(t)
=============================================================================
