---------------------------- MODULE ProductRelease ----------------------------
(***************************************************************************)
(* The releases of one market, for catalogue and for commercial data (the  *)
(* two repositories are the same protocol over two tables).  A release is  *)
(* approved, activated in place of the active one, and rolled back to, by  *)
(* serializable transactions; the caller states the revisions it has seen. *)
(* The snapshot of a transaction is taken by its first read, before the    *)
(* market's advisory lock is granted, so a transaction that waited for the *)
(* lock still reads the old rows: it commits only if the rows it writes    *)
(* are the ones it read (Postgres refuses the update otherwise) and the    *)
(* unique index on the active release of a market holds.  What more a      *)
(* serializable transaction refuses only removes behaviours.               *)
(***************************************************************************)
EXTENDS Naturals, FiniteSets

CONSTANTS
  Release,      \* releases of the market
  Operator,     \* workforce members with a command each
  SubmitterOf,  \* who submitted each release
  MaxRevision,  \* bound: revision of a release
  Nil

VARIABLES
  release,      \* rows: state and revision
  eligible,     \* releases all of whose pinned sources may be published now
  seen,         \* the market as each operator last looked at it
  transaction   \* the open transaction of each operator

vars == <<release, eligible, seen, transaction>>

States == {"draft", "approved", "active", "superseded"}
Rows == [state : States, revision : 0..MaxRevision]
Markets == [Release -> Rows]
Commands == [kind : {"approve", "activate", "rollback"}, release : Release,
             asked : Markets, rows : Markets, eligible : BOOLEAN]

TypeOK ==
  /\ release \in Markets
  /\ eligible \subseteq Release
  /\ seen \in [Operator -> Markets \cup {Nil}]
  /\ transaction \in [Operator -> Commands \cup {Nil}]

Init ==
  /\ release = [r \in Release |-> [state |-> "draft", revision |-> 0]]
  /\ eligible = Release
  /\ seen = [o \in Operator |-> Nil]
  /\ transaction = [o \in Operator |-> Nil]

ActiveIn(rows) == {r \in Release : rows[r].state = "active"}

-----------------------------------------------------------------------------

\* An operator looks at the market and remembers the revisions.
Look(o) ==
  /\ transaction[o] = Nil
  /\ seen[o] # release
  /\ seen' = [seen EXCEPT ![o] = release]
  /\ UNCHANGED <<release, eligible, transaction>>

\* A pinned source is retired, expires or goes stale; or a new approval or
\* observation of it makes the release publishable again.
ChangeSources(r) ==
  /\ eligible' = IF r \in eligible THEN eligible \ {r} ELSE eligible \cup {r}
  /\ UNCHANGED <<release, seen, transaction>>

\* The first read of the transaction fixes what all its reads return.
Begin(o, kind, r) ==
  /\ transaction[o] = Nil /\ seen[o] # Nil
  /\ transaction' = [transaction EXCEPT
       ![o] = [kind |-> kind, release |-> r, asked |-> seen[o],
               rows |-> release, eligible |-> r \in eligible]]
  /\ UNCHANGED <<release, eligible, seen>>

\* The checks of a command over its snapshot.  The revisions are compared
\* as numbers: rollback is given one for its target and one for "the active
\* release", whichever that is.
Admits(o, t) ==
  LET row == t.rows[t.release]
  IN /\ row.revision = t.asked[t.release].revision
     /\ row.revision < MaxRevision
     /\ t.eligible
     /\ t.kind = "approve" => row.state = "draft" /\ SubmitterOf[t.release] # o
     /\ t.kind = "activate" => row.state = "approved"
     /\ t.kind = "rollback" =>
          /\ row.state = "superseded"
          /\ \E c \in ActiveIn(t.rows), a \in ActiveIn(t.asked) :
               t.rows[c].revision = t.asked[a].revision

\* Fault: every command supersedes the active release, approval too.
MovedWithActive(t) ==
  LET new == IF t.kind = "approve" THEN "approved" ELSE "active"
      To(row, state) == [state |-> state, revision |-> row.revision + 1]
  IN [r \in {t.release} \cup ActiveIn(t.rows) |->
        To(t.rows[r], IF r = t.release THEN new ELSE "superseded")]

\* The rows the command writes: its release, and the active one it replaces.
Moved(t) ==
  LET new == IF t.kind = "approve" THEN "approved" ELSE "active"
      old == IF t.kind = "approve" THEN {} ELSE ActiveIn(t.rows)
      To(row, state) == [state |-> state, revision |-> row.revision + 1]
  IN [r \in {t.release} \cup old |->
        To(t.rows[r], IF r = t.release THEN new ELSE "superseded")]

\* No row written has changed since the snapshot.
FirstUpdater(t) == \A r \in DOMAIN Moved(t) : release[r] = t.rows[r]

\* The unique index: one active release of a market.
UniqueActive(rows) == Cardinality(ActiveIn(rows)) <= 1

After(t) ==
  [r \in Release |-> IF r \in DOMAIN Moved(t) THEN Moved(t)[r] ELSE release[r]]

Commit(o) ==
  /\ transaction[o] # Nil
  /\ LET t == transaction[o]
     IN /\ Admits(o, t)
        /\ \A r \in DOMAIN Moved(t) : Moved(t)[r].revision <= MaxRevision
        /\ FirstUpdater(t)
        /\ UniqueActive(After(t))
        /\ release' = After(t)
  /\ transaction' = [transaction EXCEPT ![o] = Nil]
  /\ UNCHANGED <<eligible, seen>>

\* A check fails, the transaction conflicts, or its connection is lost.
Abort(o) ==
  /\ transaction[o] # Nil
  /\ transaction' = [transaction EXCEPT ![o] = Nil]
  /\ UNCHANGED <<release, eligible, seen>>

Next ==
  \/ \E o \in Operator : Look(o) \/ Commit(o) \/ Abort(o)
  \/ \E o \in Operator, kind \in {"approve", "activate", "rollback"},
        r \in Release : Begin(o, kind, r)
  \/ \E r \in Release : ChangeSources(r)

Spec == Init /\ [][Next]_vars

-----------------------------------------------------------------------------
(* Properties.                                                             *)

\* A market that has an active release keeps exactly one: activation and
\* rollback replace it in one step, however transactions interleave.
MarketStaysServed ==
  [][ActiveIn(release) # {} => Cardinality(ActiveIn(release')) = 1]_vars

\* Every release passes draft, approved, active and superseded in that order,
\* with one revision a step, whatever transactions overlap: its revision tells
\* how many of them it took.
RevisionCountsMoves ==
  \A r \in Release :
    CASE release[r].state = "draft"      -> release[r].revision = 0
      [] release[r].state = "approved"   -> release[r].revision = 1
      [] release[r].state = "active"     ->
           release[r].revision >= 2 /\ release[r].revision % 2 = 0
      [] release[r].state = "superseded" ->
           release[r].revision >= 3 /\ release[r].revision % 2 = 1

=============================================================================
