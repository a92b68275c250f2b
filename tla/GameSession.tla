----------------------------- MODULE GameSession -----------------------------
(***************************************************************************)
(* The game session under both of its users: the recording jobs and their  *)
(* plans (RecordingPlans), and the playback of Demos (PlaybackSession),    *)
(* whose steps take the place of the two lines RecordingJobs has for it.   *)
(* They meet in one variable, "session"; a step of one leaves the state of *)
(* the other alone.                                                        *)
(***************************************************************************)
EXTENDS RecordingPlans, PlaybackSession

gameVars == <<planVars, playbackVars>>

GameInit == PlansInit /\ PlaybackInit

\* Everything of the recordings but the session.
recordingVars == <<rows, files, runner, mem, active, flagged, owner, calls, booting, crashes, pending, aux, plans>>

GameNext ==
    \/ PlansNext /\ UNCHANGED playbackVars
    \/ PlaybackNext /\ UNCHANGED recordingVars

GameSpec == GameInit /\ [][GameNext]_gameVars

----------------------------------------------------------------------------
(* Properties.                                                             *)

\* The recordings use the session as playback expects: whatever releases,
\* claims and late requests there are, they take a free one or give back their
\* own, so what is proved of PlaybackSession holds beside them.
RecordingsRespectPlayback == SessionSpec
=============================================================================
