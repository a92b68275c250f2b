--------------------------- MODULE RuntimeSession ---------------------------
(***************************************************************************)
(* The one game session of the application (RuntimeSessionState in         *)
(* crates/application/src/state.rs): a recording job or a Demo playback    *)
(* holds it, or nobody does.                                               *)
(***************************************************************************)

CONSTANTS Jobs,      \* recording jobs
          Tokens     \* sessions of Demo playback

ASSUME HoldersAssumption == "none" \notin Jobs \cup Tokens /\ Jobs \cap Tokens = {}

VARIABLE session     \* who holds the game session

Holders == Jobs \cup Tokens \cup {"none"}
=============================================================================
