----------------------------- MODULE EditLease -----------------------------
(***************************************************************************)
(* What an Edit Lease promises, whoever keeps it: the right to edit passes *)
(* from hand to hand and never comes back to a turn that lost it.          *)
(*                                                                         *)
(* The specification behind the lease functions and                        *)
(* authorize_project_patch of crates/storage/src/repository/projects.rs;   *)
(* ProjectHead and AgentTurns are shown to implement it.                   *)
(***************************************************************************)
EXTENDS Naturals, Sequences

CONSTANTS Turns,    \* who edits under a lease
          Editors   \* who edits when there is none


VARIABLES authors,  \* authors[i] made edit i
          writer,   \* the turn that holds the lease, or "none"
          live,     \* the lease excludes everybody else
          begun     \* the turns that were given a lease

vars == <<authors, writer, live, begun>>

Init ==
    /\ authors = <<>>
    /\ writer = "none"
    /\ live = FALSE
    /\ begun = {}

Begin(t) ==
    /\ ~live
    /\ t \notin begun
    /\ writer' = t
    /\ live' = TRUE
    /\ begun' = begun \cup {t}
    /\ UNCHANGED authors

TurnEdit(t) ==
    /\ live
    /\ writer = t
    /\ authors' = Append(authors, t)
    /\ UNCHANGED <<writer, live, begun>>

\* An edit of anybody else ends a lease that nobody renewed.
OtherEdit(e) ==
    /\ ~live
    /\ authors' = Append(authors, e)
    /\ writer' = "none"
    /\ UNCHANGED <<live, begun>>

Lapse ==
    /\ live' = FALSE
    /\ UNCHANGED <<authors, writer, begun>>

Renew ==
    /\ writer # "none"
    /\ live' = TRUE
    /\ UNCHANGED <<authors, writer, begun>>

End ==
    /\ writer' = "none"
    /\ live' = FALSE
    /\ UNCHANGED <<authors, begun>>

Next ==
    \/ \E t \in Turns : Begin(t) \/ TurnEdit(t)
    \/ \E e \in Editors : OtherEdit(e)
    \/ Lapse \/ Renew \/ End

Spec == Init /\ [][Next]_vars
============================================================================
