-------------------------- MODULE MCMatchDownloads --------------------------
(* One match, its own file and another one.                                *)
EXTENDS MatchDownloads

CONSTANTS dl, lib, one, two, k
============================================================================
