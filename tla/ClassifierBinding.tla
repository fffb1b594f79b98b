-------------------------- MODULE ClassifierBinding --------------------------
(***************************************************************************)
(* The semantic classifier's binding to one assistant activation: rows     *)
(* that begin active, are revoked or superseded by an atomic replacement,  *)
(* and leave an immutable history, with the triggers that guard them; and  *)
(* the resolver that reads the binding for a turn.  An action is one       *)
(* database transaction.                                                   *)
(*                                                                         *)
(* Documents, digests and the activation's own window are left out: a      *)
(* binding is its identifier and its window, and whether everything it     *)
(* names is trusted.                                                       *)
(***************************************************************************)
EXTENDS Naturals, FiniteSets

CONSTANTS
  Binding,    \* binding documents of one activation
  WindowOf,   \* when a binding is effective: [from, to)
  EventRef,   \* references operators give their decisions
  Resolver,   \* turns that resolve the binding
  MaxClock,   \* bound on the clock
  Nil

VARIABLES
  state,     \* per binding: none, active, revoked or superseded
  revision,  \* per binding: its revision, 0 before the row exists
  history,   \* immutable lifecycle events
  trusted,   \* bindings whose evidence and artifacts are trusted
  resolver,  \* what each resolver does next and the binding it read
  clock

vars == <<state, revision, history, trusted, resolver, clock>>
rows == <<state, revision>>

Retired == {"revoked", "superseded"}
Event == [ref : EventRef, binding : Binding, type : Retired, from : 1..2]
Outcome == {"verify", "resolved", "unavailable", "ambiguous"}

TypeOK ==
  /\ state \in [Binding -> {"none", "active"} \cup Retired]
  /\ revision \in [Binding -> 0..2]
  /\ history \subseteq Event /\ trusted \subseteq Binding
  /\ resolver \in [Resolver -> {Nil} \cup [step : Outcome, binding : Binding \cup {Nil}]]
  /\ clock \in 0..MaxClock

Init ==
  /\ state = [b \in Binding |-> "none"] /\ revision = [b \in Binding |-> 0]
  /\ history = {} /\ trusted = Binding
  /\ resolver = [r \in Resolver |-> Nil] /\ clock = 0

Effective(b) == WindowOf[b].from <= clock /\ clock < WindowOf[b].to
Active(st) == {b \in Binding : st[b] = "active"}

\* The insert and the validation trigger: a binding is born active, at revision
\* one, of parts the registry trusts; the partial index admits one active row.
Trusted(b) == b \in trusted
Admits(st, b) == st[b] = "none" /\ Trusted(b) /\ Active(st) = {}
Born(st, rev, b) ==
  /\ state' = [st EXCEPT ![b] = "active"]
  /\ revision' = [rev EXCEPT ![b] = 1]

Insert(b) ==
  /\ Admits(state, b) /\ Born(state, revision, b)
  /\ UNCHANGED <<history, trusted, resolver, clock>>

(***************************************************************************)
(* semantic_classifier_binding_transition: a decision that was recorded    *)
(* before is a replay, any other needs the active row at the revision the  *)
(* operator saw.  Evidence of the decision can only refuse and is left out.*)
(***************************************************************************)
Recorded(ref) == \E e \in history : e.ref = ref
Decision(ref, b, type, from) == [ref |-> ref, binding |-> b, type |-> type, from |-> from]
Fenced(b, expected) == state[b] = "active" /\ revision[b] = expected

Revoke(b, expected, ref) ==
  /\ ~Recorded(ref) /\ Fenced(b, expected)
  /\ state' = [state EXCEPT ![b] = "revoked"]
  /\ revision' = [revision EXCEPT ![b] = @ + 1]
  /\ history' = history \cup {Decision(ref, b, "revoked", expected)}
  /\ UNCHANGED <<trusted, resolver, clock>>

\* The deferred trigger on the history: another binding is active and effective
\* when the transaction that supersedes this one commits.
\* Fault: the trigger does not look at the window.
ReplacedByAny(b) == Active(state') \ {b} # {}
Replaced(b) == \E c \in Active(state') \ {b} : Effective(c)

\* semantic_classifier_binding_supersede with a fresh decision: the row and its
\* replacement change together.
Supersede(b, expected, replacement, ref) ==
  /\ ~Recorded(ref) /\ Fenced(b, expected) /\ replacement # b
  /\ LET st == [state EXCEPT ![b] = "superseded"]
         rev == [revision EXCEPT ![b] = @ + 1]
     IN  Admits(st, replacement) /\ Born(st, rev, replacement)
  /\ Replaced(b)
  /\ history' = history \cup {Decision(ref, b, "superseded", expected)}
  /\ UNCHANGED <<trusted, resolver, clock>>

\* The same call under a recorded decision: the transition is a replay, and a
\* replacement that has no row yet is inserted all the same.
SupersedeAgain(b, expected, replacement, ref) ==
  /\ Decision(ref, b, "superseded", expected) \in history
  /\ Admits(state, replacement) /\ Born(state, revision, replacement)
  /\ UNCHANGED <<history, trusted, resolver, clock>>

\* The registry revokes evidence or an artifact a binding names.
RevokeTrust(b) ==
  /\ Trusted(b) /\ trusted' = trusted \ {b}
  /\ UNCHANGED <<rows, history, resolver, clock>>

Tick ==
  /\ clock < MaxClock /\ clock' = clock + 1
  /\ UNCHANGED <<rows, history, trusted, resolver>>

(***************************************************************************)
(* The resolver: one read of the activation's rows, then the evidence, then*)
(* the freshness fence over the registry entries it relied on.             *)
(***************************************************************************)
Set(r, step, b) == resolver' = [resolver EXCEPT ![r] = [step |-> step, binding |-> b]]

\* The query asks for the rows of the activation, whatever their state, and
\* more than one is an error of the store.
Rows == {b \in Binding : state[b] # "none"}

ReadBinding(r) ==
  /\ resolver[r] = Nil
  /\ IF Cardinality(Rows) > 1 THEN Set(r, "ambiguous", Nil)
     ELSE \/ \E b \in Rows : state[b] = "active" /\ Effective(b) /\ Set(r, "verify", b)
          \/ /\ \A b \in Rows : state[b] # "active" \/ ~Effective(b)
             /\ Set(r, "unavailable", Nil)
  /\ UNCHANGED <<rows, history, trusted, clock>>

Verify(r) ==
  /\ resolver[r] # Nil /\ resolver[r].step = "verify"
  /\ LET b == resolver[r].binding
     IN  Set(r, IF Trusted(b) THEN "resolved" ELSE "unavailable", b)
  /\ UNCHANGED <<rows, history, trusted, clock>>

\* Without a binding, and after the turn, routing is deterministic again.
EndTurn(r) ==
  /\ resolver[r] # Nil /\ resolver[r].step # "verify"
  /\ resolver' = [resolver EXCEPT ![r] = Nil]
  /\ UNCHANGED <<rows, history, trusted, clock>>

Next ==
  \/ \E b \in Binding : Insert(b) \/ RevokeTrust(b)
  \/ \E b \in Binding, expected \in 1..2, ref \in EventRef :
       \/ Revoke(b, expected, ref)
       \/ \E replacement \in Binding :
            \/ Supersede(b, expected, replacement, ref)
            \/ SupersedeAgain(b, expected, replacement, ref)
  \/ \E r \in Resolver : ReadBinding(r) \/ Verify(r) \/ EndTurn(r)
  \/ Tick

Spec == Init /\ [][Next]_vars

(***************************************************************************)
(* Properties.                                                             *)
(***************************************************************************)

\* A binding that is no longer active has exactly the one event that retired it,
\* and an active or absent one has none, whatever was retried.
HistoryExplainsRetirement ==
  \A b \in Binding :
    LET events == {e \in history : e.binding = b}
    IN  IF state[b] \in Retired
        THEN \E e \in events : e.type = state[b] /\ events = {e}
        ELSE events = {}

\* Cutover leaves no gap: the step that supersedes a binding makes another one
\* active, and that one is effective at once.
CutoverIsAtomic ==
  [][\A b \in Binding : state[b] = "active" /\ state'[b] = "superseded" =>
       \E c \in Binding : state'[c] = "active" /\ Effective(c)]_vars

\* A retired binding never routes again, and a turn is given a binding only if
\* everything it names was trusted at that moment.
RetiredStaysRetired ==
  [][/\ \A b \in Binding : state[b] \in Retired => state'[b] = state[b]
     /\ \A r \in Resolver :
          resolver'[r] # Nil /\ resolver'[r].step = "resolved" /\ resolver[r] # resolver'[r]
            => resolver'[r].binding \in trusted]_vars

\* docs/work/items/VFBIZ-0189.md:49-52: superseded rows are retained and their
\* effective replacement is the usable binding, so a read never fails because
\* of them.  The store's query matches both.
ReplacementIsResolved == \A r \in Resolver : resolver[r] # Nil => resolver[r].step # "ambiguous"

=============================================================================
