--------------------------- MODULE MCDemoCatalog ---------------------------
(* Two files of two contents, and two Demo rows for them.                  *)
EXTENDS DemoCatalog

CONSTANTS p, q, one, two
============================================================================
