------------------------- MODULE ProjectHeadProofs -------------------------
(***************************************************************************)
(* Proofs about the Project Head and its Edit Lease, for every set of      *)
(* turns, editors, documents and requests: first the history and the       *)
(* lease, for which what a patch does to a document does not matter, then  *)
(* the documents and the groups that lead from one to the next.            *)
(***************************************************************************)
EXTENDS ProjectHead, EditingDocumentProofs

USE DEF Authors, NoLease, HasLease, Stale

Elements(s) == {s[i] : i \in 1..Len(s)}

\* The shape of the two histories, which TypeOK bounds and does not type.
Histories ==
    /\ heads \in Seq(Elements(heads))
    /\ groups \in Seq(Elements(groups))

\* A turn that appears in the history was given the lease.
AuthorsAreKnown ==
    \A i \in 1..Len(groups) : groups[i].author \in Turns => groups[i].author \in acquired

\* The row of a lease, stale or not: its turn acquired it at a revision of the
\* Project and has no edit before that revision.
LeaseRow ==
    HasLease =>
        /\ lease.holder \in acquired
        /\ lease.base \in 1..project.revision
        /\ \A i \in 1..Len(groups) : groups[i].from < lease.base => groups[i].author # lease.holder

\* The inductive invariant: the properties and what they need.
IndInv ==
    /\ TypeOK
    /\ Histories
    /\ HistoryExplainsHead
    /\ AuthorsAreKnown
    /\ LeaseRow
    /\ LeaseCoversItsEdits
    /\ TurnEditsAreContiguous

----------------------------------------------------------------------------
(* Appending to a history.                                                 *)

\* An appended sequence is a sequence of its own elements and keeps the old
\* ones at their places.
LEMMA AppendedHistory ==
    ASSUME NEW s, s \in Seq(Elements(s)), NEW e
    PROVE  /\ Append(s, e) \in Seq(Elements(Append(s, e)))
           /\ Len(Append(s, e)) = Len(s) + 1
           /\ \A i \in 1..Len(s) : Append(s, e)[i] = s[i]
           /\ Append(s, e)[Len(s) + 1] = e
<1> DEFINE t == Append(s, e)
           S == Elements(s) \cup {e}
<1>1. s \in Seq(S) /\ e \in S
  BY SeqMonotonic DEF Elements
<1>2. /\ t \in Seq(S)
      /\ Len(t) = Len(s) + 1
      /\ \A i \in 1..Len(s) : t[i] = s[i]
      /\ t[Len(s) + 1] = e
  BY <1>1, AppendProperties
<1>3. \A i \in 1..Len(t) : t[i] \in Elements(t)
  BY DEF Elements
<1>4. t \in Seq(Elements(t))
  BY <1>2, <1>3
<1> QED
  BY <1>2, <1>4

----------------------------------------------------------------------------
(* Every action preserves the inductive invariant.                         *)

\* A Project starts with an empty history and no lease.
LEMMA InitEstablishesInvariant == Init => IndInv
<1> SUFFICES ASSUME Init PROVE IndInv
  OBVIOUS
<1>1. TypeOK
  <2>1. project.revision = 1 /\ 1 \in 1..MaxRevision
    BY MaxRevisionAssumption DEF Init
  <2>2. Len(heads) = 1 /\ Len(groups) = 0
    BY DEF Init
  <2>3. lease \in [holder : Turns \cup {"none"}, base : 0..MaxRevision, age : 0..LeaseTimeout + 1]
    BY LeaseTimeoutAssumption, MaxRevisionAssumption DEF Init
  <2>4. acquired \subseteq Turns /\ children \subseteq Children /\ poisoned \in BOOLEAN
    BY DEF Init
  <2> QED
    BY <2>1, <2>2, <2>3, <2>4 DEF TypeOK
<1>2. Histories
  BY DEF Init, Histories, Elements
<1>3. HistoryExplainsHead
  BY DEF Init, HistoryExplainsHead
<1>4. AuthorsAreKnown /\ LeaseRow /\ LeaseCoversItsEdits /\ TurnEditsAreContiguous
  BY DEF Init, AuthorsAreKnown, LeaseRow, LeaseCoversItsEdits, TurnEditsAreContiguous
<1> QED
  BY <1>1, <1>2, <1>3, <1>4 DEF IndInv

\* A committed patch: whoever may commit leaves the lease and the history in
\* agreement.
LEMMA CommitPreservesInvariant ==
    ASSUME IndInv,
           NEW author, NEW result, NEW operations, NEW reverts,
           Authorized(author),
           project.revision < MaxRevision,
           Commit(author, result, operations, reverts),
           acquired' = acquired,
           children' \subseteq Children
    PROVE  IndInv'
<1> DEFINE r == project.revision
           n == Len(groups)
           entry == [from |-> r, to |-> r + 1, author |-> author, reverts |-> reverts,
                     operations |-> operations, inverse |-> result.inverse]
<1>1. /\ r \in Nat \ {0} /\ r < MaxRevision /\ MaxRevision \in Nat
      /\ n = r - 1 /\ n \in Nat /\ Len(heads) = r
  BY MaxRevisionAssumption DEF IndInv, TypeOK, HistoryExplainsHead
<1>2. /\ project'.revision = r + 1
      /\ project'.document = result.doc
      /\ groups' = Append(groups, entry)
      /\ heads' = Append(heads, result.doc)
      /\ lease' = LiveLease
      /\ poisoned' = poisoned
  BY DEF Commit
<1>3. /\ groups' \in Seq(Elements(groups'))
      /\ Len(groups') = r
      /\ \A i \in 1..n : groups'[i] = groups[i]
      /\ groups'[r] = entry
  <2>1. groups \in Seq(Elements(groups))
    BY DEF IndInv, Histories
  <2>2. n + 1 = r
    BY <1>1
  <2> QED
    BY <1>2, <2>1, <2>2, AppendedHistory
<1>4. /\ heads' \in Seq(Elements(heads'))
      /\ Len(heads') = r + 1
      /\ \A i \in 1..r : heads'[i] = heads[i]
      /\ heads'[r + 1] = result.doc
  <2>1. heads \in Seq(Elements(heads))
    BY DEF IndInv, Histories
  <2> QED
    BY <1>1, <1>2, <2>1, AppendedHistory
<1>5. \A i \in 1..r : i \in 1..n \/ i = r
  BY <1>1
<1>6. lease' = lease \/ lease' = [holder |-> "none", base |-> 0, age |-> 0]
  BY <1>2 DEF LiveLease
<1>7. author \in Turns => lease'.holder = author /\ lease' = lease
  BY <1>2, TurnsAssumption DEF Authorized, LiveLease
<1>8. author \notin Turns => lease'.holder = "none"
  BY <1>2 DEF Authorized
<1>9. TypeOK'
  BY SMTT(30), <1>1, <1>2, <1>3, <1>4, <1>6, LeaseTimeoutAssumption DEF IndInv, TypeOK
<1>10. Histories'
  BY <1>3, <1>4 DEF Histories, Elements
<1>11. HistoryExplainsHead'
  BY <1>1, <1>2, <1>3, <1>4, <1>5 DEF IndInv, HistoryExplainsHead
<1>12. AuthorsAreKnown'
  <2>1. author \in Turns => author \in acquired
    BY <1>7, TurnsAssumption DEF IndInv, LeaseRow
  <2> QED
    BY <1>3, <1>5, <2>1 DEF IndInv, AuthorsAreKnown
<1>13. LeaseRow'
  BY <1>1, <1>2, <1>3, <1>5, <1>6 DEF IndInv, LeaseRow, TypeOK
<1>14. LeaseCoversItsEdits'
  <2>1. CASE author \in Turns
    <3>1. lease' = lease /\ lease.holder = author
      BY <1>7, <2>1
    <3>2. \A i \in 1..n : groups[i].from >= lease.base => groups[i].author = author
      BY <2>1, <3>1, TurnsAssumption DEF IndInv, LeaseCoversItsEdits
    <3> QED
      BY <1>3, <1>5, <3>1, <3>2 DEF LeaseCoversItsEdits
  <2>2. CASE author \notin Turns
    BY <1>8, <2>2 DEF LeaseCoversItsEdits
  <2> QED
    BY <2>1, <2>2
<1>15. TurnEditsAreContiguous'
  <2> SUFFICES ASSUME NEW i \in 1..r, NEW k \in 1..r,
                      groups'[i].author \in Turns,
                      groups'[k].author = groups'[i].author,
                      NEW j \in i..k
               PROVE  groups'[j].author = groups'[i].author
    BY <1>3 DEF TurnEditsAreContiguous
  <2>1. j \in 1..r
    BY <1>1
  <2>2. CASE k \in 1..n
    <3>1. i \in 1..n /\ j \in 1..n
      BY <1>1, <2>2
    <3> QED
      BY <1>3, <2>2, <3>1 DEF IndInv, TurnEditsAreContiguous
  <2>3. CASE k = r /\ i \in 1..n
    <3>1. author \in Turns /\ groups[i].author = author /\ lease.holder = author
      BY <1>3, <1>7, <2>3
    <3>2. HasLease
      BY <3>1, TurnsAssumption
    <3>3. groups[i].from = i /\ (j \in 1..n => groups[j].from = j)
      BY <2>3 DEF IndInv, HistoryExplainsHead
    <3>4. lease.base <= i
      BY <1>1, <2>3, <3>1, <3>2, <3>3 DEF IndInv, LeaseRow
    <3>5. j \in 1..n => groups[j].author = author
      BY <1>1, <3>1, <3>2, <3>3, <3>4 DEF IndInv, LeaseRow, LeaseCoversItsEdits
    <3>6. groups'[i].author = author /\ groups'[r].author = author
      BY <1>3, <2>3, <3>1
    <3>7. j \in 1..n => groups'[j] = groups[j]
      BY <1>3
    <3> QED
      BY <1>5, <2>1, <3>5, <3>6, <3>7
  <2>4. CASE k = r /\ i = r
    BY <1>1, <2>4
  <2> QED
    BY <1>5, <2>2, <2>3, <2>4
<1> QED
  BY <1>9, <1>10, <1>11, <1>12, <1>13, <1>14, <1>15 DEF IndInv

\* A step that leaves the Project and its history alone and either forgets the
\* lease or keeps its holder and base.
LEMMA LeaseStepPreservesInvariant ==
    ASSUME IndInv,
           UNCHANGED <<project, groups, heads>>,
           children' \subseteq Children,
           acquired \subseteq acquired' /\ acquired' \subseteq Turns,
           poisoned' \in BOOLEAN,
           lease' \in [holder : Turns \cup {"none"}, base : 0..MaxRevision,
                       age : 0..LeaseTimeout + 1],
           \/ lease'.holder = "none"
           \/ lease'.holder = lease.holder /\ lease'.base = lease.base
    PROVE  IndInv'
<1>1. TypeOK'
  BY DEF IndInv, TypeOK
<1>2. Histories'
  BY DEF IndInv, Histories, Elements
<1>3. HistoryExplainsHead'
  BY DEF IndInv, HistoryExplainsHead
<1>4. TurnEditsAreContiguous'
  BY DEF IndInv, TurnEditsAreContiguous
<1>5. AuthorsAreKnown'
  BY DEF IndInv, AuthorsAreKnown
<1>6. LeaseRow'
  BY DEF IndInv, LeaseRow
<1>7. LeaseCoversItsEdits'
  BY DEF IndInv, LeaseCoversItsEdits
<1> QED
  BY <1>1, <1>2, <1>3, <1>4, <1>5, <1>6, <1>7 DEF IndInv

\* A new lease: no group reaches its base yet, and its turn has none at all.
LEMMA AcquirePreservesInvariant ==
    ASSUME IndInv, NEW turn \in Turns, NEW base,
           AcquireProjectEditLease(turn, base)
    PROVE  IndInv'
<1> USE DEF AcquireProjectEditLease
<1>1. base = project.revision /\ base \in 1..MaxRevision /\ base \in Nat
  BY MaxRevisionAssumption DEF IndInv, TypeOK
<1>2. TypeOK'
  BY <1>1, LeaseTimeoutAssumption DEF IndInv, TypeOK
<1>3. Histories' /\ HistoryExplainsHead' /\ TurnEditsAreContiguous'
  BY DEF IndInv, Histories, Elements, HistoryExplainsHead, TurnEditsAreContiguous
<1>4. AuthorsAreKnown'
  BY DEF IndInv, AuthorsAreKnown
<1>5. \A i \in 1..Len(groups) : groups[i].from < base /\ groups[i].author # turn
  BY <1>1 DEF IndInv, TypeOK, HistoryExplainsHead, AuthorsAreKnown
<1>6. LeaseRow'
  BY <1>1, <1>5 DEF LeaseRow
<1>7. LeaseCoversItsEdits'
  <2> SUFFICES ASSUME NEW i \in 1..Len(groups), groups[i].from >= base PROVE FALSE
    BY DEF LeaseCoversItsEdits
  <2>1. groups[i].from = i
    BY DEF IndInv, HistoryExplainsHead
  <2> QED
    BY <1>1, <1>5, <2>1
<1> QED
  BY <1>2, <1>3, <1>4, <1>6, <1>7 DEF IndInv

\* A patch, a nesting or a revert: it commits, or it poisons the mutex.
LEMMA ConcludePreservesInvariant ==
    ASSUME IndInv,
           NEW author, NEW result, NEW operations, NEW reverts,
           Authorized(author),
           project.revision < MaxRevision,
           Conclude(author, result, operations, reverts),
           acquired' = acquired,
           children' \subseteq Children
    PROVE  IndInv'
<1>1. CASE Commit(author, result, operations, reverts)
  BY <1>1, CommitPreservesInvariant
<1>2. CASE PoisonMutex
  <2>1. /\ lease \in [holder : Turns \cup {"none"}, base : 0..MaxRevision, age : 0..LeaseTimeout + 1]
        /\ acquired \subseteq Turns
    BY DEF IndInv, TypeOK
  <2> QED
    BY <1>2, <2>1, LeaseStepPreservesInvariant DEF PoisonMutex
<1> QED
  BY <1>1, <1>2 DEF Conclude

\* Every call of the repository, every heartbeat and every restart keeps it.
LEMMA StepPreservesInvariant == IndInv /\ [Next]_vars => IndInv'
<1> SUFFICES ASSUME IndInv, [Next]_vars PROVE IndInv'
  OBVIOUS
<1>1. /\ acquired \subseteq Turns /\ children \subseteq Children /\ poisoned \in BOOLEAN
      /\ lease \in [holder : Turns \cup {"none"}, base : 0..MaxRevision, age : 0..LeaseTimeout + 1]
      /\ NoLease \in [holder : Turns \cup {"none"}, base : 0..MaxRevision, age : 0..LeaseTimeout + 1]
  BY LeaseTimeoutAssumption, MaxRevisionAssumption DEF IndInv, TypeOK
<1>2. CASE PatchByAnyone
  <2> PICK author \in Authors, base \in 1..project.revision :
           \E ops \in Requests(project.document) : ApplyProjectPatch(author, base, ops)
    BY <1>2 DEF PatchByAnyone
  <2> PICK ops \in Requests(project.document) : ApplyProjectPatch(author, base, ops)
    OBVIOUS
  <2> QED
    BY <1>1, ConcludePreservesInvariant DEF ApplyProjectPatch
<1>3. CASE Nest
  <2> PICK child \in Children, base \in 1..project.revision,
           first \in StoryPositions, last \in StoryPositions :
           CreateNestedProject(child, base, first, last)
    BY <1>3 DEF Nest
  <2>1. Authorized("human") /\ project.revision < MaxRevision
    BY DEF CreateNestedProject
  <2>2. \E result, ops : Conclude("human", result, ops, 0)
    BY DEF CreateNestedProject
  <2>3. children' \subseteq Children /\ acquired' = acquired
    BY <1>1 DEF CreateNestedProject, InsertChild
  <2> QED
    BY <2>1, <2>2, <2>3, ConcludePreservesInvariant
<1>4. CASE RevertByAnyone
  <2> PICK g \in 1..Len(groups), expected \in 1..project.revision :
           RevertProjectChangeGroup(g, expected)
    BY <1>4 DEF RevertByAnyone
  <2>1. Authorized("human") /\ project.revision < MaxRevision
    BY TurnsAssumption DEF RevertProjectChangeGroup, Authorized
  <2> QED
    BY <1>1, <2>1, ConcludePreservesInvariant DEF RevertProjectChangeGroup
<1>5. CASE \E turn \in Turns, base \in 1..project.revision : AcquireProjectEditLease(turn, base)
  BY <1>5, AcquirePreservesInvariant
<1>6. CASE \E turn \in Turns : HeartbeatProjectEditLease(turn)
  BY <1>1, <1>6, LeaseTimeoutAssumption, LeaseStepPreservesInvariant DEF HeartbeatProjectEditLease
<1>7. CASE \E turn \in Turns : ReleaseProjectEditLease(turn)
  BY <1>1, <1>7, LeaseStepPreservesInvariant DEF ReleaseProjectEditLease
<1>8. CASE GetProjectEditLease
  BY <1>1, <1>8, LeaseStepPreservesInvariant DEF GetProjectEditLease, LiveLease
<1>9. CASE Tick
  <2>1. lease.age \in Nat /\ lease.age <= LeaseTimeout
    BY <1>1, <1>9, LeaseTimeoutAssumption DEF Tick
  <2>2. lease.age + 1 \in 0..LeaseTimeout + 1
    BY <2>1, LeaseTimeoutAssumption
  <2>3. lease' = [lease EXCEPT !.age = lease.age + 1]
    BY <1>9 DEF Tick
  <2>4. /\ lease' \in [holder : Turns \cup {"none"}, base : 0..MaxRevision, age : 0..LeaseTimeout + 1]
        /\ lease'.holder = lease.holder /\ lease'.base = lease.base
    BY <1>1, <2>2, <2>3
  <2> QED
    BY <1>1, <1>9, <2>4, LeaseStepPreservesInvariant DEF Tick
<1>10. CASE Restart
  BY <1>1, <1>10, LeaseStepPreservesInvariant DEF Restart
<1>11. CASE UNCHANGED vars
  BY <1>1, <1>11, LeaseStepPreservesInvariant DEF vars
<1> QED
  BY <1>2, <1>3, <1>4, <1>5, <1>6, <1>7, <1>8, <1>9, <1>10, <1>11 DEF Next

----------------------------------------------------------------------------
(* The theorems.                                                           *)

\* The inductive invariant: the lease row, stale or not, accounts for every edit
\* since its base (read_live_project_edit_lease, authorize_project_patch).
THEOREM Invariant == Spec => []IndInv
<1> QED
  BY InitEstablishesInvariant, StepPreservesInvariant, PTL DEF Spec

\* The Head, the history and the lease keep their types, and the history has
\* one group per revision (insert_change_group in every committing call).
THEOREM TypeCorrect == Spec => []TypeOK
<1>1. IndInv => TypeOK
  BY DEF IndInv
<1> QED
  BY <1>1, Invariant, PTL

\* The history explains the Head (UPDATE ... WHERE revision, then insert_change_group).
THEOREM HistoryIsComplete == Spec => []HistoryExplainsHead
<1>1. IndInv => HistoryExplainsHead
  BY DEF IndInv
<1> QED
  BY <1>1, Invariant, PTL

\* What was committed since a lease was taken is its turn's, for any number of
\* turns, heartbeats, stale rows and restarts (authorize_project_patch,
\* acquire_project_edit_lease, read_live_project_edit_lease).
THEOREM LeaseIsExclusive == Spec => []LeaseCoversItsEdits
<1>1. IndInv => LeaseCoversItsEdits
  BY DEF IndInv
<1> QED
  BY <1>1, Invariant, PTL

\* The edits of an Agent turn are one block of the history.
THEOREM TurnsEditAlone == Spec => []TurnEditsAreContiguous
<1>1. IndInv => TurnEditsAreContiguous
  BY DEF IndInv
<1> QED
  BY <1>1, Invariant, PTL

----------------------------------------------------------------------------
(* The Project Head implements the Edit Lease.                             *)

\* Who edited, as the Edit Lease sees it.
EditorsOf(history) == [i \in 1..Len(history) |-> history[i].author]

\* A commit appends its author.
LEMMA AppendedEditor ==
    ASSUME NEW s, s \in Seq(Elements(s)), NEW e
    PROVE  EditorsOf(Append(s, e)) = Append(EditorsOf(s), e.author)
<1> DEFINE n == Len(s)
           old == EditorsOf(s)
           A == {s[i].author : i \in 1..n} \cup {e.author}
<1>1. n \in Nat
  BY LenProperties
<1>2. /\ Len(Append(s, e)) = n + 1
      /\ \A i \in 1..n : Append(s, e)[i] = s[i]
      /\ Append(s, e)[n + 1] = e
  BY AppendedHistory
<1>3. old \in Seq(A) /\ Len(old) = n
  BY <1>1 DEF EditorsOf
<1>4. /\ Append(old, e.author) \in Seq(A)
      /\ Len(Append(old, e.author)) = n + 1
      /\ \A i \in 1..n : Append(old, e.author)[i] = old[i]
      /\ Append(old, e.author)[n + 1] = e.author
  BY <1>3, AppendProperties
<1>5. EditorsOf(Append(s, e)) \in [1..n + 1 -> A]
  BY <1>1, <1>2 DEF EditorsOf
<1>6. Append(old, e.author) \in [1..n + 1 -> A]
  BY <1>1, <1>4, LenProperties
<1>7. \A i \in 1..n + 1 : EditorsOf(Append(s, e))[i] = Append(old, e.author)[i]
  BY <1>1, <1>2, <1>4 DEF EditorsOf
<1> QED
  BY <1>5, <1>6, <1>7

\* A new Project has no edit and no lease.
LEMMA InitRefinesEditLease == Init => Lease!Init
  BY DEF Init, Lease!Init

\* Whoever commits is the turn that holds the live lease, or somebody else
\* while there is none.
LEMMA CommitRefinesEditLease ==
    ASSUME IndInv,
           NEW author \in Authors \cup {"human"}, NEW result, NEW operations, NEW reverts,
           Authorized(author),
           Commit(author, result, operations, reverts),
           acquired' = acquired
    PROVE  [Lease!Next]_Lease!vars
<1>1. groups \in Seq(Elements(groups))
  BY DEF IndInv, Histories
<1>2. EditorsOf(groups') = Append(EditorsOf(groups), author)
  BY <1>1, AppendedEditor DEF Commit
<1>3. lease' = LiveLease
  BY DEF Commit
<1>4. "none" \notin Turns /\ "human" \notin Turns
  BY TurnsAssumption
<1>5. CASE author \in Turns
  <2>1. LiveLease.holder = author
    BY <1>5 DEF Authorized
  <2>2. LiveLease = lease /\ lease.holder = author /\ lease.holder # "none" /\ ~Stale
    BY <2>1, <1>4, <1>5 DEF LiveLease
  <2>3. Lease!TurnEdit(author)
    BY <1>2, <1>3, <1>5, <2>2 DEF Lease!TurnEdit, EditorsOf
  <2> QED
    BY <1>5, <2>3 DEF Lease!Next
<1>6. CASE author \notin Turns
  <2>1. LiveLease.holder = "none"
    BY <1>6 DEF Authorized
  <2>2. ~(HasLease /\ ~Stale)
    BY <2>1 DEF LiveLease
  <2>3. lease'.holder = "none"
    BY <1>3, <2>1
  <2>4. Lease!OtherEdit(author)
    BY <1>2, <2>2, <2>3 DEF Lease!OtherEdit, EditorsOf
  <2>5. author \in Editors \cup {"human"}
    BY <1>6
  <2> QED
    BY <2>4, <2>5 DEF Lease!Next
<1> QED
  BY <1>5, <1>6

\* A call that ends in a commit or in a poisoned mutex.
LEMMA ConcludeRefinesEditLease ==
    ASSUME IndInv,
           NEW author \in Authors \cup {"human"}, NEW result, NEW operations, NEW reverts,
           Authorized(author),
           Conclude(author, result, operations, reverts),
           acquired' = acquired
    PROVE  [Lease!Next]_Lease!vars
<1>1. CASE Commit(author, result, operations, reverts)
  BY <1>1, CommitRefinesEditLease
<1>2. CASE PoisonMutex
  BY <1>2 DEF PoisonMutex, Lease!vars
<1> QED
  BY <1>1, <1>2 DEF Conclude

\* Every call of the repository is a step of the Edit Lease, or none.
LEMMA StepRefinesEditLease ==
    ASSUME IndInv, [Next]_vars
    PROVE  [Lease!Next]_Lease!vars
<1>1. lease \in [holder : Turns \cup {"none"}, base : 0..MaxRevision, age : 0..LeaseTimeout + 1]
  BY DEF IndInv, TypeOK
<1>2. "none" \notin Turns /\ "human" \notin Turns /\ LeaseTimeout \in Nat
  BY TurnsAssumption, LeaseTimeoutAssumption
<1>3. CASE PatchByAnyone
  <2>1. PICK author \in Authors, base \in 1..project.revision :
          \E ops \in Requests(project.document) : ApplyProjectPatch(author, base, ops)
    BY <1>3 DEF PatchByAnyone
  <2>2. PICK ops : ApplyProjectPatch(author, base, ops)
    BY <2>1
  <2>3. PICK result, operations : Conclude(author, result, operations, 0)
    BY <2>2 DEF ApplyProjectPatch
  <2>4. Authorized(author) /\ acquired' = acquired
    BY <2>2 DEF ApplyProjectPatch
  <2> QED
    BY <2>3, <2>4, ConcludeRefinesEditLease
<1>4. CASE Nest
  <2>1. PICK child, base, first, last : CreateNestedProject(child, base, first, last)
    BY <1>4 DEF Nest
  <2>2. PICK result, operations : Conclude("human", result, operations, 0)
    BY <2>1 DEF CreateNestedProject
  <2>3. Authorized("human") /\ acquired' = acquired
    BY <2>1 DEF CreateNestedProject
  <2> QED
    BY <2>2, <2>3, ConcludeRefinesEditLease
<1>5. CASE RevertByAnyone
  <2>1. PICK g, expected : RevertProjectChangeGroup(g, expected)
    BY <1>5 DEF RevertByAnyone
  <2>2. PICK result, operations : Conclude("human", result, operations, g)
    BY <2>1 DEF RevertProjectChangeGroup
  <2>3. LiveLease = NoLease /\ acquired' = acquired
    BY <2>1 DEF RevertProjectChangeGroup
  <2>4. Authorized("human")
    BY <1>2, <2>3 DEF Authorized
  <2> QED
    BY <2>2, <2>3, <2>4, ConcludeRefinesEditLease
<1>6. ASSUME NEW turn \in Turns, NEW base, AcquireProjectEditLease(turn, base)
      PROVE  Lease!Begin(turn)
  <2>1. ~(HasLease /\ ~Stale)
    BY <1>1, <1>2, <1>6 DEF AcquireProjectEditLease, LiveLease
  <2>2. lease'.holder = turn /\ lease'.age = 0 /\ turn # "none"
    BY <1>2, <1>6 DEF AcquireProjectEditLease
  <2>3. ~(0 > LeaseTimeout)
    BY <1>2
  <2> QED
    BY <1>6, <2>1, <2>2, <2>3 DEF AcquireProjectEditLease, Lease!Begin
<1>7. ASSUME NEW turn \in Turns, HeartbeatProjectEditLease(turn)
      PROVE  Lease!Renew
  <2>1. lease.holder # "none" /\ lease'.holder = lease.holder /\ lease'.age = 0
    BY <1>1, <1>2, <1>7 DEF HeartbeatProjectEditLease
  <2>2. ~(0 > LeaseTimeout)
    BY <1>2
  <2> QED
    BY <1>7, <2>1, <2>2 DEF HeartbeatProjectEditLease, Lease!Renew
<1>8. ASSUME NEW turn \in Turns, ReleaseProjectEditLease(turn)
      PROVE  Lease!End
  BY <1>8 DEF ReleaseProjectEditLease, Lease!End
<1>9. CASE GetProjectEditLease
  <2>1. CASE HasLease /\ ~Stale
    BY <1>9, <2>1 DEF GetProjectEditLease, LiveLease, Lease!vars
  <2>2. CASE ~(HasLease /\ ~Stale)
    <3>1. Lease!End
      BY <1>9, <2>2 DEF GetProjectEditLease, LiveLease, Lease!End
    <3> QED
      BY <3>1 DEF Lease!Next
  <2> QED
    BY <2>1, <2>2
<1>10. CASE Tick
  <2>1. lease'.holder = lease.holder /\ HasLease /\ ~Stale
    BY <1>1, <1>10 DEF Tick
  <2>2. UNCHANGED <<groups, acquired>>
    BY <1>10 DEF Tick
  <2>3. CASE Stale'
    <3>1. Lease!Lapse
      BY <2>1, <2>2, <2>3 DEF Lease!Lapse
    <3> QED
      BY <3>1 DEF Lease!Next
  <2>4. CASE ~Stale'
    BY <2>1, <2>2, <2>4 DEF Lease!vars
  <2> QED
    BY <2>3, <2>4
<1>11. CASE Restart
  <2>1. Lease!End
    BY <1>11 DEF Restart, Lease!End
  <2> QED
    BY <2>1 DEF Lease!Next
<1>12. CASE UNCHANGED vars
  BY <1>12 DEF vars, Lease!vars
<1> QED
  BY <1>3, <1>4, <1>5, <1>6, <1>7, <1>8, <1>9, <1>10, <1>11, <1>12 DEF Next, Lease!Next

\* The storage keeps what an Edit Lease promises, for every set of turns and
\* documents and every timeout (acquire, heartbeat, release, read_live and
\* authorize_project_patch).
THEOREM RefinesEditLease == Spec => ImplementsEditLease
<1> QED
  BY InitRefinesEditLease, StepRefinesEditLease, Invariant, PTL
  DEF Spec, ImplementsEditLease, Lease!Spec

----------------------------------------------------------------------------
(* What the edits are.  From here on the documents, the patches and the    *)
(* operations have the types of the code (EditingDocumentProofs), and the  *)
(* history is looked into: every group can be replayed on the document it  *)
(* was made on, and its inverse is what that gives.                        *)

CONSTANTS TrackNames,   \* identities of tracks
          Contents      \* what clips show, nested Projects aside

\* Names that storage gives a track it inserts at revision r or later.
GivenFrom(t, r) == \E q, n \in Nat : q >= r /\ t = <<q, n, 0>>

\* Projects start from valid documents, whose tracks have names of their own,
\* and clients send well-typed patches that show no nested Project but those
\* that the document shows.
TypedClients ==
    /\ Children \cap Contents = {}
    /\ StoryTrack \in TrackNames
    /\ \A r, n, k \in Nat : <<r, n, k>> \in ClipNames /\ <<r, n, k>> \in TrackNames
    /\ \A d \in Documents :
          /\ d \in Document(TrackNames, Contents)
          /\ Valid(d)
          /\ \A t \in TrackIds(d) : ~GivenFrom(t, 1)
    /\ \A K \in SUBSET Children : \A d \in Document(TrackNames, Contents \cup K) :
          Requests(d) \subseteq Seq(Operation(TrackNames, Contents \cup K))

\* Contents that resolve.
Known == Contents \cup children

DocumentsAreTyped ==
    \A i \in 1..Len(heads) : heads[i] \in Document(TrackNames, Known) /\ Valid(heads[i])

PatchesAreTyped ==
    \A g \in 1..Len(groups) :
        /\ groups[g].operations \in Seq(Operation(TrackNames, Known))
        /\ groups[g].inverse \in Seq(Operation(TrackNames, Known))
        /\ groups[g].operations # <<>>
        /\ Len(groups[g].inverse) = Len(groups[g].operations)

\* A group leads from its document to the next one.
Leads(d, group, e) ==
    LET s == Stage(d, group.operations)
    IN  s.outcome = "applied" /\ s.doc = e /\ s.inverse = group.inverse

\* On the way no identity of a track is held twice.
TracksApart(d, ops) == \A n \in 0..Len(ops) : UniqueTracks(Stage(d, SubSeq(ops, 1, n)).doc)

GroupsReplay ==
    \A g \in 1..Len(groups) :
        Leads(heads[g], groups[g], heads[g + 1]) /\ TracksApart(heads[g], groups[g].operations)

\* A track is brought in or taken out by a group once at most; or it is one that
\* groups bring in and take out again, and is in no revision.
OnceEach(t) ==
    \A g \in 1..Len(groups) : Once(groups[g].operations, t) /\ Once(groups[g].inverse, t)
InPassing(t) ==
    /\ \A g \in 1..Len(groups) : Brief(groups[g].operations, t) /\ Brief(groups[g].inverse, t)
    /\ \A i \in 1..Len(heads) : t \notin TrackIds(heads[i])
TracksComeAndGo == \A t : OnceEach(t) \/ InPassing(t)

\* The names that are still to be given occur nowhere.
NamesAreNew ==
    \A t : GivenFrom(t, project.revision) =>
        /\ \A i \in 1..Len(heads) : t \notin TrackIds(heads[i])
        /\ \A g \in 1..Len(groups) :
              Untouched(groups[g].operations, t) /\ Untouched(groups[g].inverse, t)

EditInv ==
    /\ DocumentsAreTyped
    /\ PatchesAreTyped
    /\ GroupsReplay
    /\ TracksComeAndGo
    /\ NamesAreNew

----------------------------------------------------------------------------
(* Types grow with the nested Projects.                                    *)

\* What may be shown may grow.
LEMMA TypesGrow ==
    ASSUME NEW T, NEW C, NEW D, C \subseteq D
    PROVE  /\ Document(T, C) \subseteq Document(T, D)
           /\ Seq(Operation(T, C)) \subseteq Seq(Operation(T, D))
<1>1. Clip(C) \subseteq Clip(D)
  BY DEF Clip
<1>2. Seq(Clip(C)) \subseteq Seq(Clip(D))
  BY <1>1, SeqMonotonic
<1>3. Track(T, C) \subseteq Track(T, D)
  BY <1>2 DEF Track
<1>4. Seq(Track(T, C)) \subseteq Seq(Track(T, D))
  BY <1>3, SeqMonotonic
<1>5. Document(T, C) \subseteq Document(T, D)
  BY <1>4 DEF Document
<1>6. /\ InsertTrackOps(T, C) \subseteq InsertTrackOps(T, D)
      /\ ReplaceTrackOps(T, C) \subseteq ReplaceTrackOps(T, D)
  BY <1>3 DEF InsertTrackOps, ReplaceTrackOps
<1>7. /\ InsertClipOps(T, C) \subseteq InsertClipOps(T, D)
      /\ ReplaceClipOps(C) \subseteq ReplaceClipOps(D)
      /\ ReplaceTrackClipsOps(T, C) \subseteq ReplaceTrackClipsOps(T, D)
  BY <1>1, <1>2 DEF InsertClipOps, ReplaceClipOps, ReplaceTrackClipsOps
<1>8. Operation(T, C) \subseteq Operation(T, D)
  BY <1>6, <1>7 DEF Operation
<1> QED
  BY <1>5, <1>8, SeqMonotonic

\* A valid document holds each identity of a track once, and has its Story track.
LEMMA ValidTracks ==
    ASSUME NEW d, Valid(d)
    PROVE  UniqueTracks(d) /\ UniqueClips(d) /\ TrackIndex(d, StoryTrack) \in DOMAIN d.tracks
<1>1. UniqueTracks(d)
  <2> SUFFICES ASSUME NEW i \in DOMAIN d.tracks, NEW j \in DOMAIN d.tracks,
                      d.tracks[i].id = d.tracks[j].id
               PROVE  i = j
    BY DEF UniqueTracks
  <2> DEFINE ids == [k \in DOMAIN d.tracks |-> d.tracks[k].id]
  <2>1. \A x, y \in DOMAIN ids : ids[x] = ids[y] => x = y
    BY DEF Valid, IsInjective
  <2> QED
    BY <2>1
<1> QED
  BY <1>1 DEF Valid

\* What an applied patch is.
LEMMA AppliedPatch ==
    ASSUME NEW d, NEW ops, ApplyPatch(d, ops).outcome = "applied"
    PROVE  ops # <<>> /\ ApplyPatch(d, ops) = Stage(d, ops) /\ Valid(Stage(d, ops).doc)
BY Accepted DEF ApplyPatch, Complete

\* A revert that is applied is its group's inverse, applied as a patch.
LEMMA AppliedRevert ==
    ASSUME NEW d, NEW group, Revert(d, group).outcome = "applied"
    PROVE  ApplyPatch(d, group.inverse).outcome = "applied"
           /\ Revert(d, group) = ApplyPatch(d, group.inverse)
<1> DEFINE p == ApplyPatch(d, group.inverse)
           q == ApplyPatch(p.doc, group.operations)
<1>1. Revert(d, group) = Confirm(d, group, p)
  BY DEF Revert
<1> HIDE DEF p
<1>2. p.outcome = "applied"
  BY <1>1 DEF Confirm
<1>3. Revert(d, group) = Replayed(d, p, q)
  BY <1>1, <1>2 DEF Confirm
<1> HIDE DEF q
<1>4. Revert(d, group) = p
  BY <1>3, Accepted DEF Replayed
<1> QED
  BY <1>2, <1>4 DEF p

----------------------------------------------------------------------------
(* A new group fits the history.                                           *)

Fits(ops, result) ==
    /\ TracksApart(project.document, ops)
    /\ \A t : \/ OnceEach(t) /\ Once(ops, t)
              \/ InPassing(t) /\ Brief(ops, t) /\ t \notin TrackIds(result.doc)
    /\ \A t : GivenFrom(t, project.revision + 1) =>
          Untouched(ops, t) /\ t \notin TrackIds(result.doc)

\* What the Head is: the last document of the history.
LEMMA HeadOfHistory ==
    ASSUME IndInv, EditInv
    PROVE  /\ project.revision \in 1..Len(heads) /\ heads[project.revision] = project.document
           /\ project.revision \in Nat /\ Len(heads) = project.revision
           /\ Len(groups) = project.revision - 1
           /\ project.document \in Document(TrackNames, Known)
           /\ Valid(project.document)
<1>1. project.revision \in Nat \ {0} /\ Len(heads) = project.revision
  BY MaxRevisionAssumption DEF IndInv, TypeOK
<1>2. heads[project.revision] = project.document /\ Len(groups) = project.revision - 1
  BY DEF IndInv, HistoryExplainsHead
<1> QED
  BY <1>1, <1>2 DEF EditInv, DocumentsAreTyped

\* Who touches a track once or not at all; who touches it in passing.
LEMMA Patterns ==
    ASSUME NEW ops, NEW t
    PROVE  /\ Untouched(ops, t) => Once(ops, t) /\ Brief(ops, t)
           /\ Passing(ops, t) => Brief(ops, t)
BY DEF Untouched, Once, Brief

\* A patch that gives its tracks the names of this revision.
LEMMA NewTracksFit ==
    ASSUME IndInv, EditInv, NEW C, project.document \in Document(TrackNames, C),
           NEW ops \in Seq(Operation(TrackNames, C)), NEW s, s = Stage(project.document, ops),
           s.outcome = "applied",
           BringsInOnce(ops), BringsIn(ops, {<<project.revision, n, 0>> : n \in Nat})
    PROVE  Fits(ops, s)
<1> DEFINE d == project.document
           N == {<<project.revision, n, 0>> : n \in Nat}
<1>1. PICK docs : /\ TrackSteps(docs, ops)
                  /\ docs[0] = d
                  /\ docs[Len(ops)] = s.doc
                  /\ \A n \in 0..Len(ops) : docs[n] = Stage(d, SubSeq(ops, 1, n)).doc
  BY DocumentsOfPatch
<1>2. Len(ops) \in Nat
  BY LenProperties
<1>3. project.revision \in Nat /\ UniqueTracks(d) /\ project.revision \in 1..Len(heads)
      /\ heads[project.revision] = d
  BY HeadOfHistory, ValidTracks
<1>4. \A t \in N : GivenFrom(t, project.revision)
  BY <1>3 DEF GivenFrom
<1>5. \A t \in N : /\ t \notin TrackIds(d)
                   /\ \A i \in 1..Len(heads) : t \notin TrackIds(heads[i])
                   /\ \A g \in 1..Len(groups) :
                         Untouched(groups[g].operations, t) /\ Untouched(groups[g].inverse, t)
  BY <1>3, <1>4 DEF EditInv, NamesAreNew
<1>6. N \cap TrackIds(docs[0]) = {} /\ UniqueTracks(docs[0]) /\ BringsIn(ops, N)
  BY <1>1, <1>3, <1>5
<1> HIDE DEF N, d
<1>7. /\ \A k \in 0..Len(ops) : UniqueTracks(docs[k])
      /\ \A t : t \notin N => Once(ops, t)
      /\ \A t : t \notin N /\ t \notin TrackIds(d) => Untouched(ops, t) /\ t \notin TrackIds(s.doc)
      /\ \A t : Once(ops, t) \/ (Passing(ops, t) /\ t \notin TrackIds(s.doc))
  BY <1>1, <1>2, <1>6, PatchOfNewTracks
<1>8. TracksApart(d, ops)
  BY <1>1, <1>7 DEF TracksApart
<1>9. ASSUME NEW t
      PROVE  \/ OnceEach(t) /\ Once(ops, t)
             \/ InPassing(t) /\ Brief(ops, t) /\ t \notin TrackIds(s.doc)
  <2>1. CASE t \in N
    <3>1. OnceEach(t) /\ InPassing(t)
      BY <1>5, <2>1, Patterns DEF OnceEach, InPassing
    <3> QED
      BY <1>7, <3>1, Patterns
  <2>2. CASE t \notin N /\ OnceEach(t)
    BY <1>7, <2>2
  <2>3. CASE t \notin N /\ InPassing(t)
    <3>1. t \notin TrackIds(d)
      BY <1>3, <2>3 DEF InPassing
    <3> QED
      BY <1>7, <2>3, <3>1, Patterns
  <2> QED
    BY <2>1, <2>2, <2>3 DEF EditInv, TracksComeAndGo
<1>10. ASSUME NEW t, GivenFrom(t, project.revision + 1)
       PROVE  Untouched(ops, t) /\ t \notin TrackIds(s.doc)
  <2>1. PICK q \in Nat, n \in Nat : q >= project.revision + 1 /\ t = <<q, n, 0>>
    BY <1>10 DEF GivenFrom
  <2>2. q # project.revision /\ q >= project.revision
    BY <1>3, <2>1
  <2>3. t \notin N
    BY <2>1, <2>2 DEF N
  <2>4. GivenFrom(t, project.revision)
    BY <2>1, <2>2 DEF GivenFrom
  <2>5. t \notin TrackIds(d)
    BY <1>3, <2>4 DEF EditInv, NamesAreNew
  <2> QED
    BY <1>7, <2>3, <2>5
<1> QED
  BY <1>8, <1>9, <1>10 DEF Fits, d

\* The inverse of a group of the history, with a valid result.
LEMMA OldTracksFit ==
    ASSUME IndInv, EditInv, NEW g \in 1..Len(groups), NEW s,
           s = Stage(project.document, groups[g].inverse), s.outcome = "applied", Valid(s.doc)
    PROVE  Fits(groups[g].inverse, s)
<1> DEFINE d == project.document
           ops == groups[g].inverse
<1>0. ops \in Seq(Operation(TrackNames, Known)) /\ d \in Document(TrackNames, Known)
  BY HeadOfHistory DEF EditInv, PatchesAreTyped
<1>1. PICK docs : /\ TrackSteps(docs, ops)
                  /\ docs[0] = d
                  /\ docs[Len(ops)] = s.doc
                  /\ \A n \in 0..Len(ops) : docs[n] = Stage(d, SubSeq(ops, 1, n)).doc
  BY <1>0, DocumentsOfPatch
<1>2. Len(ops) \in Nat
  BY <1>0, LenProperties
<1>3. project.revision \in Nat /\ UniqueTracks(d) /\ project.revision \in 1..Len(heads)
      /\ heads[project.revision] = d /\ UniqueTracks(s.doc)
  BY HeadOfHistory, ValidTracks
<1>4. \A t : Once(ops, t) \/ (Brief(ops, t) /\ t \notin TrackIds(d))
  BY <1>3 DEF EditInv, TracksComeAndGo, OnceEach, InPassing
<1> HIDE DEF ops, d
<1>5. /\ \A k \in 0..Len(ops) : UniqueTracks(docs[k])
      /\ \A t : Brief(ops, t) /\ t \notin TrackIds(d) => t \notin TrackIds(s.doc)
  BY <1>1, <1>2, <1>3, <1>4, PatchOfOldTracks
<1>6. TracksApart(d, ops)
  BY <1>1, <1>5 DEF TracksApart
<1>7. ASSUME NEW t
      PROVE  \/ OnceEach(t) /\ Once(ops, t)
             \/ InPassing(t) /\ Brief(ops, t) /\ t \notin TrackIds(s.doc)
  <2>1. CASE OnceEach(t)
    BY <2>1 DEF OnceEach, ops
  <2>2. CASE InPassing(t)
    <3>1. Brief(ops, t) /\ t \notin TrackIds(d)
      BY <1>3, <2>2 DEF InPassing, ops
    <3> QED
      BY <1>5, <2>2, <3>1
  <2> QED
    BY <2>1, <2>2 DEF EditInv, TracksComeAndGo
<1>8. ASSUME NEW t, GivenFrom(t, project.revision + 1)
      PROVE  Untouched(ops, t) /\ t \notin TrackIds(s.doc)
  <2>1. PICK q \in Nat, n \in Nat : q >= project.revision + 1 /\ t = <<q, n, 0>>
    BY <1>8 DEF GivenFrom
  <2>2. q >= project.revision
    BY <1>3, <2>1
  <2>3. GivenFrom(t, project.revision)
    BY <2>1, <2>2 DEF GivenFrom
  <2>4. t \notin TrackIds(d) /\ Untouched(ops, t)
    BY <1>3, <2>3 DEF EditInv, NamesAreNew, ops
  <2> QED
    BY <1>5, <2>4, Patterns
<1> QED
  BY <1>6, <1>7, <1>8 DEF Fits, d, ops

\* A committed edit that fits the history.
LEMMA EditPreserves ==
    ASSUME IndInv, EditInv, IndInv',
           NEW author, NEW operations, NEW result, NEW reverts,
           Commit(author, result, operations, reverts),
           children \subseteq children',
           operations \in Seq(Operation(TrackNames, Known')), operations # <<>>,
           result = Stage(project.document, operations), result.outcome = "applied",
           Valid(result.doc), Fits(operations, result)
    PROVE  EditInv'
<1> DEFINE d == project.document
           r == project.revision
           n == Len(groups)
           entry == [from |-> r, to |-> r + 1, author |-> author, reverts |-> reverts,
                     operations |-> operations, inverse |-> result.inverse]
<1>1. r \in Nat \ {0} /\ n = r - 1 /\ n + 1 = r /\ Len(heads) = r /\ heads[r] = d /\ r \in 1..Len(heads)
      /\ n \in Nat /\ d \in Document(TrackNames, Known)
  BY HeadOfHistory
<1>2. project'.revision = r + 1
  BY DEF Commit
<1>3. /\ Len(groups') = r
      /\ \A i \in 1..n : groups'[i] = groups[i]
      /\ groups'[r] = entry
  <2>1. groups \in Seq(Elements(groups)) /\ groups' = Append(groups, entry)
    BY DEF IndInv, Histories, Commit
  <2> QED
    BY <1>1, <2>1, AppendedHistory
<1>4. /\ Len(heads') = r + 1
      /\ \A i \in 1..r : heads'[i] = heads[i]
      /\ heads'[r + 1] = result.doc
  <2>1. heads \in Seq(Elements(heads)) /\ heads' = Append(heads, result.doc)
    BY DEF IndInv, Histories, Commit
  <2> QED
    BY <1>1, <2>1, AppendedHistory
<1>5. groups'[r].operations = operations /\ groups'[r].inverse = result.inverse
  BY <1>3
<1>6. /\ \A i \in 1..r : i \in 1..n \/ i = r
      /\ \A i \in 1..r + 1 : i \in 1..r \/ i = r + 1
      /\ \A i \in 1..n : i \in 1..r /\ i + 1 \in 1..r
  BY <1>1
<1> DEFINE D == Known'
<1>7. Known \subseteq D
  BY DEF Known
<1>8. d \in Document(TrackNames, D) /\ operations \in Seq(Operation(TrackNames, D))
  BY <1>1, <1>7, TypesGrow
<1> HIDE DEF d, r, n, entry, D
<1>9. /\ result.doc \in Document(TrackNames, D)
      /\ result.inverse \in Seq(Operation(TrackNames, D))
      /\ Len(result.inverse) = Len(operations)
  BY <1>8, PatchTypes DEF d
<1>10. Mirrored(operations, result.inverse) /\ Len(operations) \in Nat
  BY <1>8, DocumentsOfPatch, LenProperties DEF d
<1>11. DocumentsAreTyped'
  <2>1. \A i \in 1..r : heads[i] \in Document(TrackNames, D) /\ Valid(heads[i])
    BY <1>1, <1>7, TypesGrow DEF EditInv, DocumentsAreTyped
  <2>2. \A i \in 1..r + 1 : heads'[i] \in Document(TrackNames, D) /\ Valid(heads'[i])
    BY <1>4, <1>6, <1>9, <2>1
  <2> QED
    BY <1>4, <2>2 DEF DocumentsAreTyped, D
<1>12. PatchesAreTyped'
  <2>1. \A g \in 1..n : /\ groups[g].operations \in Seq(Operation(TrackNames, D))
                        /\ groups[g].inverse \in Seq(Operation(TrackNames, D))
                        /\ groups[g].operations # <<>>
                        /\ Len(groups[g].inverse) = Len(groups[g].operations)
    BY <1>7, TypesGrow DEF EditInv, PatchesAreTyped, n
  <2>2. \A g \in 1..r : /\ groups'[g].operations \in Seq(Operation(TrackNames, D))
                        /\ groups'[g].inverse \in Seq(Operation(TrackNames, D))
                        /\ groups'[g].operations # <<>>
                        /\ Len(groups'[g].inverse) = Len(groups'[g].operations)
    BY <1>3, <1>5, <1>6, <1>8, <1>9, <2>1
  <2> QED
    BY <1>3, <2>2 DEF PatchesAreTyped, D
<1>13. GroupsReplay'
  <2>1. ASSUME NEW g \in 1..n
        PROVE  Leads(heads'[g], groups'[g], heads'[g + 1]) /\ TracksApart(heads'[g], groups'[g].operations)
    <3>1. Leads(heads[g], groups[g], heads[g + 1]) /\ TracksApart(heads[g], groups[g].operations)
      BY DEF EditInv, GroupsReplay, n
    <3>2. groups'[g] = groups[g] /\ heads'[g] = heads[g] /\ heads'[g + 1] = heads[g + 1]
      BY <1>3, <1>4, <1>6
    <3> QED
      BY <3>1, <3>2
  <2>2. Leads(heads'[r], groups'[r], heads'[r + 1]) /\ TracksApart(heads'[r], groups'[r].operations)
    <3>1. heads'[r] = d /\ heads'[r + 1] = result.doc
      BY <1>1, <1>4
    <3> QED
      BY <1>5, <3>1 DEF Leads, Fits, d
  <2>3. \A g \in 1..r : Leads(heads'[g], groups'[g], heads'[g + 1]) /\ TracksApart(heads'[g], groups'[g].operations)
    BY <1>6, <2>1, <2>2
  <2> QED
    BY <1>3, <2>3 DEF GroupsReplay
<1>14. TracksComeAndGo'
  <2> SUFFICES ASSUME NEW t PROVE OnceEach(t)' \/ InPassing(t)'
    BY DEF TracksComeAndGo, OnceEach, InPassing
  <2>1. CASE OnceEach(t) /\ Once(operations, t)
    <3>1. Once(result.inverse, t)
      BY <1>10, <2>1, MirrorKeeps
    <3>2. \A g \in 1..n : Once(groups[g].operations, t) /\ Once(groups[g].inverse, t)
      BY <2>1 DEF OnceEach, n
    <3>3. \A g \in 1..r : Once(groups'[g].operations, t) /\ Once(groups'[g].inverse, t)
      BY <1>3, <1>5, <1>6, <2>1, <3>1, <3>2
    <3> QED
      BY <1>3, <3>3 DEF OnceEach
  <2>2. CASE InPassing(t) /\ Brief(operations, t) /\ t \notin TrackIds(result.doc)
    <3>1. Brief(result.inverse, t)
      BY <1>10, <2>2, MirrorKeeps
    <3>2. \A g \in 1..n : Brief(groups[g].operations, t) /\ Brief(groups[g].inverse, t)
      BY <2>2 DEF InPassing, n
    <3>3. \A g \in 1..r : Brief(groups'[g].operations, t) /\ Brief(groups'[g].inverse, t)
      BY <1>3, <1>5, <1>6, <2>2, <3>1, <3>2
    <3>4. \A i \in 1..r : t \notin TrackIds(heads[i])
      BY <1>1, <2>2 DEF InPassing
    <3>5. \A i \in 1..r + 1 : t \notin TrackIds(heads'[i])
      BY <1>4, <1>6, <2>2, <3>4
    <3> QED
      BY <1>3, <1>4, <3>3, <3>5 DEF InPassing
  <2> QED
    BY <2>1, <2>2 DEF Fits
<1>15. NamesAreNew'
  <2> SUFFICES ASSUME NEW t, GivenFrom(t, r + 1)
               PROVE  /\ \A i \in 1..Len(heads') : t \notin TrackIds(heads'[i])
                      /\ \A g \in 1..Len(groups') :
                            Untouched(groups'[g].operations, t) /\ Untouched(groups'[g].inverse, t)
    BY <1>2 DEF NamesAreNew
  <2>1. GivenFrom(t, r)
    <3>1. PICK q \in Nat, k \in Nat : q >= r + 1 /\ t = <<q, k, 0>>
      BY DEF GivenFrom
    <3>2. q >= r
      BY <1>1, <3>1
    <3> QED
      BY <3>1, <3>2 DEF GivenFrom
  <2>2. /\ \A i \in 1..r : t \notin TrackIds(heads[i])
        /\ \A g \in 1..n : Untouched(groups[g].operations, t) /\ Untouched(groups[g].inverse, t)
    BY <1>1, <2>1 DEF EditInv, NamesAreNew, r, n
  <2>3. Untouched(operations, t) /\ t \notin TrackIds(result.doc)
    BY DEF Fits, r
  <2>4. Untouched(result.inverse, t)
    BY <1>10, <2>3, MirrorKeeps
  <2>5. \A i \in 1..r + 1 : t \notin TrackIds(heads'[i])
    BY <1>4, <1>6, <2>2, <2>3
  <2>6. \A g \in 1..r : Untouched(groups'[g].operations, t) /\ Untouched(groups'[g].inverse, t)
    BY <1>3, <1>5, <1>6, <2>2, <2>3, <2>4
  <2> QED
    BY <1>3, <1>4, <2>5, <2>6
<1> QED
  BY <1>11, <1>12, <1>13, <1>14, <1>15 DEF EditInv

----------------------------------------------------------------------------
(* The patches of the calls.                                               *)

\* What Allocate makes of one operation.
Given(o, r, i) ==
    CASE o.op = "insert_track" ->
           [o EXCEPT !.track.id = <<r, i, 0>>,
                     !.track.clips = [k \in DOMAIN @ |-> [@[k] EXCEPT !.id = <<r, i, k>>]]]
      [] o.op = "insert_clip" -> [o EXCEPT !.clip.id = <<r, i, 0>>]
      [] OTHER -> o

\* An operation with its new names: it has the same type, and the one that
\* inserts a track inserts one of this name.
LEMMA GivenOperation ==
    ASSUME NEW T, NEW C, \A x, y, z \in Nat : <<x, y, z>> \in ClipNames /\ <<x, y, z>> \in T,
           NEW o \in Operation(T, C), NEW r \in Nat, NEW i \in Nat
    PROVE  /\ Given(o, r, i) \in Operation(T, C)
           /\ \A t : Inserts(Given(o, r, i), t) => t = <<r, i, 0>>
<1>1. CASE o \in InsertTrackOps(T, C)
  <2> DEFINE clips == [k \in DOMAIN o.track.clips |-> [o.track.clips[k] EXCEPT !.id = <<r, i, k>>]]
             track == [id |-> <<r, i, 0>>, kind |-> o.track.kind, clips |-> clips]
  <2>1. o.track \in Track(T, C) /\ o.at \in Positions /\ o.op = "insert_track"
    BY <1>1 DEF InsertTrackOps
  <2>2. /\ o.track.clips \in Seq(Clip(C)) /\ Len(o.track.clips) \in Nat
        /\ DOMAIN o.track.clips = 1..Len(o.track.clips)
        /\ \A k \in DOMAIN o.track.clips : o.track.clips[k] \in Clip(C)
    BY <2>1, ClipsOfTrack
  <2>3. clips \in [1..Len(o.track.clips) -> Clip(C)]
    <3> SUFFICES ASSUME NEW k \in 1..Len(o.track.clips)
                 PROVE  [o.track.clips[k] EXCEPT !.id = <<r, i, k>>] \in Clip(C)
      BY <2>2
    <3>1. <<r, i, k>> \in ClipNames /\ o.track.clips[k] \in Clip(C)
      BY <2>2
    <3> QED
      BY <3>1 DEF Clip
  <2>4. clips \in Seq(Clip(C))
    BY <2>2, <2>3, MadeSequence
  <2>5. Given(o, r, i) = [op |-> "insert_track", at |-> o.at, track |-> track]
    BY <1>1, <2>1 DEF Given, InsertTrackOps, Track
  <2> HIDE DEF clips
  <2>6. track \in Track(T, C)
    BY <2>1, <2>4 DEF Track
  <2>7. Given(o, r, i) \in InsertTrackOps(T, C) /\ Given(o, r, i).track.id = <<r, i, 0>>
    BY <2>1, <2>5, <2>6 DEF InsertTrackOps
  <2> QED
    BY <2>7 DEF Operation, Inserts
<1>2. CASE o \in InsertClipOps(T, C)
  <2>1. Given(o, r, i) = [o EXCEPT !.clip.id = <<r, i, 0>>] /\ <<r, i, 0>> \in ClipNames
    BY <1>2 DEF Given, InsertClipOps
  <2>2. Given(o, r, i) \in InsertClipOps(T, C)
    BY <1>2, <2>1 DEF InsertClipOps, Clip
  <2>3. Given(o, r, i).op # "insert_track"
    BY <2>2 DEF InsertClipOps
  <2> QED
    BY <2>2, <2>3 DEF Operation, Inserts
<1>3. CASE o \notin InsertTrackOps(T, C) \cup InsertClipOps(T, C)
  <2>1. o.op \notin {"insert_track", "insert_clip"}
    BY <1>3 DEF Operation, ReplaceFieldOps, RemoveTrackOps, ReplaceTrackOps, ReorderTracksOps,
                RemoveClipOps, ReplaceClipOps, MoveClipOps, ReplaceTrackClipsOps
  <2> QED
    BY <2>1 DEF Given, Inserts
<1> QED
  BY <1>1, <1>2, <1>3

\* A patch with its new names (Storage::apply_project_patch).
LEMMA AllocatedPatch ==
    ASSUME NEW T, NEW C, \A x, y, z \in Nat : <<x, y, z>> \in ClipNames /\ <<x, y, z>> \in T,
           NEW ops \in Seq(Operation(T, C)), NEW r \in Nat
    PROVE  /\ Allocate(ops, r) \in Seq(Operation(T, C))
           /\ BringsInOnce(Allocate(ops, r))
           /\ BringsIn(Allocate(ops, r), {<<r, n, 0>> : n \in Nat})
<1> DEFINE given == Allocate(ops, r)
           m == Len(ops)
<1>1. m \in Nat /\ DOMAIN ops = 1..m /\ \A i \in 1..m : ops[i] \in Operation(T, C)
  BY LenProperties, ElementOfSeq
<1>2. given = [i \in 1..m |-> Given(ops[i], r, i)]
  BY <1>1 DEF Allocate, Given
<1>3. \A i \in 1..m : /\ Given(ops[i], r, i) \in Operation(T, C)
                      /\ \A t : Inserts(Given(ops[i], r, i), t) => t = <<r, i, 0>>
  BY SMTT(30), <1>1, GivenOperation
<1> HIDE DEF given, m
<1>4. given \in [1..m -> Operation(T, C)]
  BY <1>2, <1>3
<1>5. given \in Seq(Operation(T, C)) /\ Len(given) = m
  BY <1>1, <1>4, MadeSequence
<1>6. \A i \in 1..m : \A t : Inserts(given[i], t) => t = <<r, i, 0>>
  BY <1>2, <1>3
<1>7. BringsInOnce(given)
  <2> SUFFICES ASSUME NEW j \in 1..m, NEW k \in 1..m, NEW t, Inserts(given[j], t), Inserts(given[k], t)
               PROVE  j = k
    BY <1>5 DEF BringsInOnce
  <2>1. <<r, j, 0>> = <<r, k, 0>>
    BY <1>6
  <2> QED
    BY <2>1
<1>8. BringsIn(given, {<<r, n, 0>> : n \in Nat})
  BY <1>1, <1>5, <1>6 DEF BringsIn
<1> QED
  BY <1>5, <1>7, <1>8 DEF given

\* The patch of a nesting brings no track in.
LEMMA NestingIsTyped ==
    ASSUME NEW T, NEW C, StoryTrack \in T, NEW d \in Document(T, C), Valid(d),
           NEW clip \in Clip(C),
           NEW first \in DOMAIN d.tracks[TrackIndex(d, StoryTrack)].clips,
           NEW last \in DOMAIN d.tracks[TrackIndex(d, StoryTrack)].clips,
           NEW ops, ops = NestingPatch(d, first, last, clip)
    PROVE  /\ ops \in Seq(Operation(T, C)) /\ BringsInOnce(ops) /\ \A N : BringsIn(ops, N)
<1> DEFINE placed == d.tracks[TrackIndex(d, StoryTrack)].clips
           before == SubSeq(placed, 1, first - 1)
           after == SubSeq(placed, last + 1, Len(placed))
           o == [op |-> "replace_track_clips", track_id |-> StoryTrack,
                 clips |-> before \o <<clip>> \o after]
<1>1. placed \in Seq(Clip(C)) /\ Len(placed) \in Nat /\ DOMAIN placed = 1..Len(placed)
  <2>1. TrackIndex(d, StoryTrack) \in DOMAIN d.tracks
    BY ValidTracks
  <2> QED
    BY <2>1, TracksOfDocument, ClipsOfTrack
<1>2. before \in Seq(Clip(C)) /\ after \in Seq(Clip(C))
  <2> HIDE DEF placed
  <2>1. first \in 1..Len(placed) /\ last \in 1..Len(placed)
    BY <1>1 DEF placed
  <2>2. \A i \in 1..first - 1 : placed[i] \in Clip(C)
    BY <1>1, <2>1, ElementOfSeq
  <2>3. \A i \in last + 1..Len(placed) : placed[i] \in Clip(C)
    BY <1>1, <2>1, ElementOfSeq
  <2> QED
    BY <1>1, <2>1, <2>2, <2>3, SubSeqProperties
<1> HIDE DEF before, after
<1>3. before \o <<clip>> \o after \in Seq(Clip(C))
  BY <1>2, ConcatProperties
<1>4. o \in Operation(T, C) /\ o.op = "replace_track_clips"
  BY <1>3 DEF Operation, ReplaceTrackClipsOps
<1>5. ops = <<o>>
  BY DEF NestingPatch, before, after
<1> HIDE DEF o
<1>6. ops \in Seq(Operation(T, C)) /\ Len(ops) = 1 /\ ops[1] = o
  BY <1>4, <1>5
<1>7. \A k \in 1..Len(ops) : \A t : ~Inserts(ops[k], t)
  BY <1>4, <1>6 DEF Inserts
<1> QED
  BY <1>6, <1>7 DEF BringsIn, BringsInOnce

----------------------------------------------------------------------------
(* Every call keeps what is known of the edits.                            *)

\* A new Project has a valid document and no edits.
LEMMA InitEstablishesEdits == TypedClients /\ Init => EditInv
<1> SUFFICES ASSUME TypedClients, Init PROVE EditInv
  OBVIOUS
<1>1. PICK d \in Documents : project = [revision |-> 1, document |-> d]
  BY DEF Init
<1>2. Len(heads) = 1 /\ heads[1] = d /\ Len(groups) = 0
  BY <1>1 DEF Init
<1>3. d \in Document(TrackNames, Contents) /\ Valid(d) /\ \A t \in TrackIds(d) : ~GivenFrom(t, 1)
  BY DEF TypedClients
<1>4. \A i \in 1..Len(heads) : heads[i] = d
  BY <1>2
<1>5. d \in Document(TrackNames, Known)
  BY <1>3, TypesGrow DEF Known
<1>6. \A g \in 1..Len(groups) : FALSE
  BY <1>2
<1>7. DocumentsAreTyped /\ PatchesAreTyped /\ GroupsReplay
  BY <1>3, <1>4, <1>5, <1>6 DEF DocumentsAreTyped, PatchesAreTyped, GroupsReplay
<1>8. TracksComeAndGo /\ NamesAreNew
  BY <1>1, <1>3, <1>4, <1>6 DEF TracksComeAndGo, OnceEach, NamesAreNew
<1> QED
  BY <1>7, <1>8 DEF EditInv

\* A step that commits nothing and takes no nested Project away.
LEMMA QuietStepPreserves ==
    ASSUME EditInv, UNCHANGED <<project, groups, heads, children>>
    PROVE  EditInv'
<1> USE DEF EditInv
<1>1. DocumentsAreTyped' /\ PatchesAreTyped'
  BY DEF DocumentsAreTyped, PatchesAreTyped, Known
<1>2. GroupsReplay'
  BY DEF GroupsReplay
<1>3. TracksComeAndGo'
  BY DEF TracksComeAndGo, OnceEach, InPassing
<1>4. NamesAreNew'
  BY DEF NamesAreNew
<1> QED
  BY <1>1, <1>2, <1>3, <1>4

\* apply_project_patch.
LEMMA PatchPreservesEdits ==
    ASSUME TypedClients, IndInv, EditInv, IndInv', NEW author, NEW base,
           NEW ops \in Requests(project.document), ApplyProjectPatch(author, base, ops)
    PROVE  EditInv'
<1> DEFINE d == project.document
           given == Allocate(ops, project.revision)
           result == ApplyPatch(d, given)
<1>1. children' = children /\ Conclude(author, result, given, 0)
  BY DEF ApplyProjectPatch
<1>2. project.revision \in Nat /\ d \in Document(TrackNames, Known)
  BY HeadOfHistory
<1>3. given \in Seq(Operation(TrackNames, Known)) /\ BringsInOnce(given)
      /\ BringsIn(given, {<<project.revision, n, 0>> : n \in Nat})
  <2>1. children \in SUBSET Children
    BY DEF IndInv, TypeOK
  <2>2. ops \in Seq(Operation(TrackNames, Known))
    BY <1>2, <2>1 DEF TypedClients, Known
  <2>3. \A x, y, z \in Nat : <<x, y, z>> \in ClipNames /\ <<x, y, z>> \in TrackNames
    BY DEF TypedClients
  <2> QED
    BY <1>2, <2>2, <2>3, AllocatedPatch
<1> HIDE DEF given, d
<1>4. CASE result.outcome = "applied" /\ Commit(author, result, given, 0)
  <2>1. given # <<>> /\ result = Stage(d, given) /\ Valid(result.doc)
    BY <1>4, AppliedPatch
  <2> HIDE DEF result
  <2>2. Fits(given, result)
    BY <1>2, <1>3, <1>4, <2>1, NewTracksFit DEF d
  <2>3. given \in Seq(Operation(TrackNames, Known'))
    BY <1>1, <1>3 DEF Known
  <2> QED
    BY <1>1, <1>4, <2>1, <2>2, <2>3, EditPreserves DEF d
<1>5. CASE PoisonMutex
  BY <1>1, <1>5, QuietStepPreserves DEF PoisonMutex
<1> QED
  BY <1>1, <1>4, <1>5 DEF Conclude

\* create_nested_project: the child is known from the commit on that shows it.
LEMMA NestPreservesEdits ==
    ASSUME TypedClients, IndInv, EditInv, IndInv', NEW child \in Children, NEW base,
           NEW first \in StoryPositions, NEW last \in StoryPositions,
           CreateNestedProject(child, base, first, last)
    PROVE  EditInv'
<1> DEFINE d == project.document
           clip == [id |-> <<project.revision, 0, 0>>, content |-> child]
           ops == NestingPatch(d, first, last, clip)
           result == ApplyPatch(d, ops)
           D == Contents \cup (children \cup {child})
<1>1. Conclude("human", result, ops, 0) /\ InsertChild(child, result)
  BY DEF CreateNestedProject
<1>2. project.revision \in Nat /\ d \in Document(TrackNames, Known) /\ Valid(d)
  BY HeadOfHistory
<1>3. d \in Document(TrackNames, D)
  BY <1>2, TypesGrow DEF Known
<1>4. ops \in Seq(Operation(TrackNames, D)) /\ BringsInOnce(ops) /\ \A N : BringsIn(ops, N)
  <2>1. clip \in Clip(D) /\ StoryTrack \in TrackNames
    BY <1>2 DEF TypedClients, Clip
  <2>2. /\ first \in DOMAIN d.tracks[TrackIndex(d, StoryTrack)].clips
        /\ last \in DOMAIN d.tracks[TrackIndex(d, StoryTrack)].clips
    BY DEF StoryPositions
  <2> HIDE DEF d, clip, D
  <2> QED
    BY <1>2, <1>3, <2>1, <2>2, NestingIsTyped
<1> HIDE DEF d, ops
<1>5. CASE result.outcome = "applied" /\ Commit("human", result, ops, 0)
  <2>1. ops # <<>> /\ result = Stage(d, ops) /\ Valid(result.doc)
    BY <1>5, AppliedPatch
  <2>2. children' = children \cup {child}
    BY <1>1, <1>5 DEF InsertChild
  <2> HIDE DEF result
  <2>3. Fits(ops, result)
    BY <1>3, <1>4, <1>5, <2>1, NewTracksFit DEF d
  <2>4. ops \in Seq(Operation(TrackNames, Known'))
    BY <1>4, <2>2 DEF Known
  <2> QED
    BY <1>5, <2>1, <2>2, <2>3, <2>4, EditPreserves DEF d
<1>6. CASE result.outcome = "panicked" /\ PoisonMutex
  <2>1. children' = children
    BY <1>1, <1>6 DEF InsertChild
  <2> QED
    BY <1>6, <2>1, QuietStepPreserves DEF PoisonMutex
<1> QED
  BY <1>1, <1>5, <1>6 DEF Conclude

\* revert_project_change_group.
LEMMA RevertPreservesEdits ==
    ASSUME IndInv, EditInv, IndInv', NEW g \in 1..Len(groups), NEW expected,
           RevertProjectChangeGroup(g, expected)
    PROVE  EditInv'
<1> DEFINE d == project.document
           ops == groups[g].inverse
           result == Revert(d, groups[g])
<1>1. children' = children /\ Conclude("human", result, ops, g)
  BY DEF RevertProjectChangeGroup
<1>2. ops \in Seq(Operation(TrackNames, Known))
  BY DEF EditInv, PatchesAreTyped
<1> HIDE DEF d, ops
<1>3. CASE result.outcome = "applied" /\ Commit("human", result, ops, g)
  <2>1. result = ApplyPatch(d, ops) /\ ApplyPatch(d, ops).outcome = "applied"
    BY <1>3, AppliedRevert DEF ops
  <2> HIDE DEF result
  <2>2. ops # <<>> /\ result = Stage(d, ops) /\ Valid(result.doc)
    BY <2>1, AppliedPatch
  <2>3. Fits(ops, result)
    BY <1>3, <2>2, OldTracksFit DEF d, ops
  <2>4. ops \in Seq(Operation(TrackNames, Known'))
    BY <1>1, <1>2 DEF Known
  <2> QED
    BY <1>1, <1>3, <2>2, <2>3, <2>4, EditPreserves DEF d
<1>4. CASE PoisonMutex
  BY <1>1, <1>4, QuietStepPreserves DEF PoisonMutex
<1> QED
  BY <1>1, <1>3, <1>4 DEF Conclude

\* Every call.
LEMMA StepPreservesEdits ==
    ASSUME TypedClients
    PROVE  IndInv /\ EditInv /\ [Next]_vars => EditInv'
<1> SUFFICES ASSUME IndInv, EditInv, [Next]_vars PROVE EditInv'
  OBVIOUS
<1>1. IndInv'
  BY StepPreservesInvariant
<1>2. CASE PatchByAnyone
  BY <1>1, <1>2, PatchPreservesEdits DEF PatchByAnyone
<1>3. CASE Nest
  BY <1>1, <1>3, NestPreservesEdits DEF Nest
<1>4. CASE RevertByAnyone
  BY <1>1, <1>4, RevertPreservesEdits DEF RevertByAnyone
<1>5. ASSUME \/ \E turn \in Turns :
                   \/ \E base \in 1..project.revision : AcquireProjectEditLease(turn, base)
                   \/ HeartbeatProjectEditLease(turn)
                   \/ ReleaseProjectEditLease(turn)
             \/ GetProjectEditLease
             \/ Tick
             \/ Restart
             \/ UNCHANGED vars
      PROVE  EditInv'
  <2>1. UNCHANGED <<project, groups, heads, children>>
    BY <1>5 DEF AcquireProjectEditLease, HeartbeatProjectEditLease, ReleaseProjectEditLease,
                GetProjectEditLease, Tick, Restart, vars
  <2> QED
    BY <2>1, QuietStepPreserves
<1> QED
  BY <1>2, <1>3, <1>4, <1>5 DEF Next

----------------------------------------------------------------------------
(* Theorems about the edits.                                               *)

\* Every group can be replayed on the document it was made on, its inverse is
\* what the replay gives, and no patch on the way held a track twice.
THEOREM EditInvariant ==
    ASSUME TypedClients
    PROVE  Spec => []EditInv
<1>1. Init => EditInv
  BY InitEstablishesEdits
<1>2. IndInv /\ EditInv /\ [Next]_vars => EditInv'
  BY StepPreservesEdits
<1> QED
  BY <1>1, <1>2, Invariant, PTL DEF Spec

\* Nested clips resolve: in every revision, also in those that undo and redo
\* bring back, a nested clip plays a Project that exists (create_nested_project
\* inserts the child in the transaction of its parent's patch).
THEOREM NestedClipsResolve ==
    ASSUME TypedClients
    PROVE  Spec => []NestedSequencesResolve
<1>1. EditInv => NestedSequencesResolve
  <2> SUFFICES ASSUME EditInv, NEW r \in 1..Len(heads), NEW clip \in ClipsOf(heads[r]),
                      clip.content \in Children
               PROVE  clip.content \in children
    BY DEF NestedSequencesResolve
  <2> DEFINE d == heads[r]
  <2>1. d \in Document(TrackNames, Known)
    BY DEF EditInv, DocumentsAreTyped
  <2>2. PICK i \in DOMAIN d.tracks : clip \in ToSet(d.tracks[i].clips)
    BY DEF ClipsOf
  <2>3. PICK k \in DOMAIN d.tracks[i].clips : clip = d.tracks[i].clips[k]
    BY <2>2 DEF ToSet
  <2>4. clip \in Clip(Known)
    BY <2>1, <2>3, TracksOfDocument, ClipsOfTrack
  <2>5. clip.content \in Contents \cup children
    BY <2>4 DEF Clip, Known
  <2> QED
    BY <2>5 DEF TypedClients
<1> QED
  BY <1>1, EditInvariant, PTL

\* The newest group can be undone to the last detail, whatever the documents and
\* the patches, undos and redos before it (Project::apply_patch and
\* revert_change_group).
THEOREM NewestEditIsUndoable ==
    ASSUME TypedClients
    PROVE  Spec => []LatestEditIsUndoable
<1>1. IndInv /\ EditInv => LatestEditIsUndoable
  <2> SUFFICES ASSUME IndInv, EditInv, groups # <<>>,
                      StaysUnique(heads[Len(groups)], groups[Len(groups)].operations)
               PROVE  Undoes(Len(groups))
    BY DEF LatestEditIsUndoable
  <2> DEFINE n == Len(groups)
             d == heads[n]
             e == project.document
             ops == groups[n].operations
             inverse == groups[n].inverse
             s == Stage(d, ops)
  <2>1. /\ n \in 1..Len(groups) /\ n \in 1..Len(heads) /\ heads[n + 1] = e
        /\ Valid(e) /\ e \in Document(TrackNames, Known)
    <3>1. groups \in Seq(Elements(groups))
      BY DEF IndInv, Histories
    <3>2. n \in Nat /\ n # 0
      BY <3>1, EmptySeq, LenProperties
    <3> QED
      BY <3>2, HeadOfHistory
  <2>2. d \in Document(TrackNames, Known) /\ Valid(d)
    BY <2>1 DEF EditInv, DocumentsAreTyped
  <2>3. /\ ops \in Seq(Operation(TrackNames, Known)) /\ ops # <<>>
        /\ inverse \in Seq(Operation(TrackNames, Known)) /\ Len(inverse) = Len(ops)
    BY <2>1 DEF EditInv, PatchesAreTyped
  <2>4. s.outcome = "applied" /\ s.doc = e /\ s.inverse = inverse /\ TracksApart(d, ops)
    BY <2>1 DEF EditInv, GroupsReplay, Leads
  <2> HIDE DEF d, e, ops, inverse
  <2>5. Len(ops) \in Nat /\ 0 \in 0..Len(ops) /\ \A k \in 0..Len(ops) : k = 0 \/ k \in 1..Len(ops)
    BY <2>3, LenProperties
  <2>6. \A k \in 0..Len(ops) : Unique(Stage(d, SubSeq(ops, 1, k)).doc)
    <3>1. PICK docs : docs[0] = d /\ \A k \in 0..Len(ops) : docs[k] = Stage(d, SubSeq(ops, 1, k)).doc
      BY <2>2, <2>3, <2>4, DocumentsOfPatch
    <3>2. \A k \in 0..Len(ops) : Stage(d, SubSeq(ops, 1, k)).outcome = "applied"
      BY <2>2, <2>3, <2>4, DocumentsOfPatch
    <3>3. UniqueClips(Stage(d, SubSeq(ops, 1, 0)).doc)
      BY <2>2, <2>5, <3>1, ValidTracks
    <3>4. \A k \in 1..Len(ops) : UniqueClips(Stage(d, SubSeq(ops, 1, k)).doc)
      BY <2>5, <3>2 DEF StaysUnique, d, ops
    <3> QED
      BY <2>4, <2>5, <3>3, <3>4 DEF TracksApart, Unique
  <2>7. Stage(e, inverse).outcome = "applied" /\ Stage(e, inverse).doc = d
    BY <2>2, <2>3, <2>4, <2>6, PatchUndo
  <2>8. inverse # <<>>
    <3>1. Len(ops) # 0
      BY <2>3, EmptySeq
    <3> QED
      BY <2>3, <3>1, EmptySeq
  <2>9. ApplyPatch(e, inverse) = Stage(e, inverse)
    BY <2>2, <2>7, <2>8 DEF ApplyPatch, Complete
  <2>10. ApplyPatch(d, ops) = s
    BY <2>1, <2>3, <2>4 DEF ApplyPatch, Complete, e
  <2> HIDE DEF s
  <2>11. Revert(e, groups[n]) = Stage(e, inverse)
    BY <2>4, <2>7, <2>9, <2>10 DEF Revert, Confirm, Replayed, ops, inverse
  <2> QED
    BY <2>7, <2>11 DEF Undoes, d, e
<1> QED
  BY <1>1, EditInvariant, Invariant, PTL
=============================================================================
