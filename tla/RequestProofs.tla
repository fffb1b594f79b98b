--------------------------- MODULE RequestProofs ---------------------------
(***************************************************************************)
(* Proofs about the parts MCRequests puts side by side, whose requests     *)
(* must take effect once and under the authority they were made with.      *)
(* Each part has an inductive invariant of its own; the last section       *)
(* carries them to the whole, for any number of requests, processes,       *)
(* subjects, roles and cases.                                              *)
(***************************************************************************)
EXTENDS MCRequests, FiniteSetTheorems, SequenceTheorems, TLAPS

-----------------------------------------------------------------------------
(* Workforce authorization.                                                *)

Period == [from |-> 0, until |-> 1]
Writing == {"write", "apply"}
Deciding == {"decide", "apply"}

\* A request somebody may still decide.
Proposed(c) ==
  /\ c.role \in Role
  /\ c.type = "assign" => c.subject \in Subject /\ c.period = Period
\* What a process has in hand is there, and what it is going to commit still is
\* as it was when it took its locks.
HasInHand(t) ==
  /\ t.step \in {"replace", "assign", "write"} => t.role \in Role
  /\ t.step = "assign" => t.subject \in Subject /\ t.period = Period
  /\ t.step = "revoke" => t.assignment \in Assignment
  /\ t.step \in Deciding => t.request \in Request /\ Proposed(t.change)
  /\ t.step = "apply" => t.role = (IF t.change.type = "assign" THEN Nil ELSE t.change.role)
RoleStands(t, roles) == t.step = "write" => roles[t.role].version < 2
RequestStands(t, requests) ==
  t.step = "apply" => requests[t.request].status = "pending"

InHand ==
  \A p \in Process : /\ HasInHand(serving[p]) /\ RoleStands(serving[p], role)
                     /\ RequestStands(serving[p], request)
\* A row is locked by one process.
Locked ==
  /\ \A p, q \in Process :
       (/\ serving[p].step \in Writing /\ serving[q].step \in Writing
        /\ serving[p].role = serving[q].role /\ serving[p].role \in Role) => p = q
  /\ \A p, q \in Process :
       (/\ serving[p].step = "apply" /\ serving[q].step = "apply"
        /\ serving[p].request = serving[q].request) => p = q
PendingProposed == \A q \in Request : request[q].status = "pending" => Proposed(request[q])
Approved(requests) == {q \in Request : requests[q].status = "approved"}
VersionsBounded ==
  \A r \in Role : role[r].version <= 2 + Cardinality(Approved(request))
GrantInv ==
  /\ Grants!TypeOK /\ InHand /\ Locked /\ PendingProposed /\ VersionsBounded /\ Grants!AppliedOnce

\* Versions are counted up to a number.
LEMMA GrantVersions ==
  ASSUME GrantConstants
  PROVE  /\ Cardinality(Request) \in Nat /\ Grants!Version = 0..(2 + Cardinality(Request))
         /\ \A requests : Cardinality(Approved(requests)) \in 0..Cardinality(Request)
<1>1. Grants!Cardinality(Request) = Cardinality(Request)
  BY DEF Grants!Cardinality, Cardinality, Grants!IsFiniteSet, IsFiniteSet
<1>2. Cardinality(Request) \in Nat
  BY FS_CardinalityType DEF GrantConstants
<1>3. ASSUME NEW requests PROVE Cardinality(Approved(requests)) \in 0..Cardinality(Request)
  BY FS_Subset, FS_CardinalityType, <1>2 DEF Approved, GrantConstants
<1> QED BY <1>1, <1>2, <1>3 DEF Grants!Version

LEMMA GrantIdle ==
  ASSUME GrantConstants
  PROVE  /\ 0 \in Grants!Version /\ Grants!NoRequest \in Grants!RequestRow
         /\ Grants!Idle \in Grants!Served /\ Grants!Idle.step = "idle"
BY GrantVersions DEF Grants!NoRequest, Grants!RequestRow, Grants!Idle, Grants!Served

LEMMA GrantInit == ASSUME GrantConstants, Grants!Init PROVE GrantInv
<1>1. 0 \in Grants!Version
  BY GrantIdle
<1>2. Grants!NoAssignment \in Grants!AssignmentRow /\ Grants!NoAssignment.status = "absent"
  BY DEF Grants!NoAssignment, Grants!AssignmentRow
<1>3. Grants!NoRequest \in Grants!RequestRow
  BY GrantIdle
<1>4. Grants!Idle \in Grants!Served /\ Grants!Idle.step = "idle"
  BY GrantIdle
<1>5. [status |-> "absent", capabilities |-> {}, version |-> 0] \in Grants!RoleRow
  BY <1>1 DEF Grants!RoleRow
<1>6. Grants!TypeOK
  BY <1>2, <1>3, <1>4, <1>5 DEF Grants!Init, Grants!TypeOK
<1>7. Grants!NoRequest.status = "absent" /\ Grants!NoRequest.applied = 0
  BY DEF Grants!NoRequest
<1>8. PendingProposed /\ Grants!AppliedOnce /\ Approved(request) = {}
  BY <1>7 DEF Grants!Init, PendingProposed, Grants!AppliedOnce, Approved
<1>9. VersionsBounded
  <2>1. Cardinality(Approved(request)) = 0
    BY <1>8, FS_EmptySet
  <2> QED BY <2>1 DEF VersionsBounded, Grants!Init
<1>10. InHand /\ Locked
  BY <1>4 DEF InHand, Locked, HasInHand, RoleStands, RequestStands, Deciding, Writing, Grants!Init
<1> QED BY <1>6, <1>8, <1>9, <1>10 DEF GrantInv

LEMMA GrantTypes ==
  ASSUME GrantInv
  PROVE  /\ now \in 0..1 /\ role \in [Role -> Grants!RoleRow]
         /\ assignment \in [Assignment -> Grants!AssignmentRow]
         /\ request \in [Request -> Grants!RequestRow] /\ revision \in [Subject -> 0..1]
         /\ serving \in [Process -> Grants!Served]
BY DEF GrantInv, Grants!TypeOK

\* A step in which a process takes up, or puts down, what it serves.
LEMMA GrantServes ==
  ASSUME GrantInv, NEW p \in Process, NEW t \in Grants!Served, Grants!Serve(p, t),
         UNCHANGED <<now, role, assignment, request, revision>>,
         HasInHand(t), RoleStands(t, role), RequestStands(t, request),
         t.step \in Writing => ~(t.role \in Role /\ Grants!RoleLocked(t.role)),
         t.step = "apply" => ~Grants!RequestLocked(t.request)
  PROVE  GrantInv'
<1>1. /\ serving'[p] = t /\ \A q \in Process : q # p => serving'[q] = serving[q]
      /\ serving' \in [Process -> Grants!Served]
  BY GrantTypes DEF Grants!Serve
<1>2. Grants!TypeOK'
  BY <1>1 DEF GrantInv, Grants!TypeOK
<1>3. InHand'
  BY <1>1 DEF GrantInv, InHand
<1>4. Locked'
  BY <1>1 DEF GrantInv, Locked, Grants!RoleLocked, Grants!RequestLocked, Writing
<1>5. PendingProposed' /\ VersionsBounded' /\ Grants!AppliedOnce'
  BY DEF GrantInv, PendingProposed, VersionsBounded, Grants!AppliedOnce
<1> QED BY <1>2, <1>3, <1>4, <1>5 DEF GrantInv

\* A step that changes rows, after which its process is free.
LEMMA GrantCommits ==
  ASSUME GrantInv, Grants!TypeOK', VersionsBounded',
         \A p \in Process : serving'[p] = serving[p] \/ serving'[p].step = "idle",
         \A p \in Process : serving'[p].step = "write" => role'[serving'[p].role].version < 2,
         \A p \in Process : serving'[p].step = "apply" =>
           request'[serving'[p].request] = request[serving'[p].request],
         \A q \in Request : \/ request'[q] = request[q]
                            \/ /\ request'[q].applied = 0
                               /\ request'[q].status \in {"pending", "rejected"}
                               /\ request'[q].status = "pending" => Proposed(request'[q])
                            \/ request'[q].applied = 1 /\ request'[q].status = "approved"
  PROVE  GrantInv'
<1>1. InHand'
  BY DEF GrantInv, InHand, HasInHand, RoleStands, RequestStands, Deciding
<1>2. Locked'
  BY DEF GrantInv, Locked, Writing
<1>3. PendingProposed'
  BY DEF GrantInv, PendingProposed
<1>4. Grants!AppliedOnce'
  BY DEF GrantInv, Grants!AppliedOnce
<1> QED BY <1>1, <1>2, <1>3, <1>4 DEF GrantInv

LEMMA GrantAborts ==
  ASSUME GrantConstants, GrantInv, NEW p \in Process, Grants!Abort(p) PROVE GrantInv'
BY GrantIdle, GrantServes DEF Grants!Abort, Grants!Finish, HasInHand, RoleStands, RequestStands,
   Writing, Deciding

\* Whoever has an assignment that is active is a subject.
LEMMA GrantHolders ==
  ASSUME GrantConstants, GrantInv, NEW r PROVE Grants!HoldersOf(r) \in SUBSET Subject
BY GrantTypes DEF GrantInv, Grants!TypeOK, Grants!AssignmentRow, Grants!HoldersOf, Grants!Active

LEMMA GrantBegins ==
  ASSUME GrantConstants, GrantInv, NEW p \in Process,
         \/ \E actor \in Subject, r \in Role,
               keys \in {{"standard"}, {"assignment.create", "approval.approve", "manage", "standard"}} :
              Grants!BeginReplace(p, actor, r, keys)
         \/ \E actor, s \in Subject, r \in Role, g \in {TRUE}, d \in {Period} :
              Grants!BeginAssign(p, actor, s, r, g, d)
         \/ \E actor \in Subject, a \in Assignment : Grants!BeginRevoke(p, actor, a)
         \/ \E actor \in Subject, q \in Request : Grants!BeginApprove(p, actor, q)
  PROVE  GrantInv'
<1>0. Grants!Idle \in Grants!Served
  BY GrantIdle
<1>1. ASSUME NEW actor \in Subject, NEW r \in Role,
             NEW keys \in {{"standard"}, {"assignment.create", "approval.approve", "manage", "standard"}},
             Grants!BeginReplace(p, actor, r, keys)
      PROVE  GrantInv'
  <2> DEFINE t == [Grants!Idle EXCEPT !.step = "replace", !.role = r,
                     !.capabilities = keys, !.version = role[r].version]
  <2>1. keys \in SUBSET Grants!Capability
    BY DEF Grants!Capability
  <2>2. role[r].version \in Grants!Version
    BY GrantTypes DEF Grants!RoleRow
  <2>3. t \in Grants!Served /\ t.step = "replace" /\ t.role = r
    BY <1>0, <2>1, <2>2 DEF Grants!Served
  <2>4. Grants!Serve(p, t) /\ UNCHANGED <<now, role, assignment, request, revision>>
    BY <1>1 DEF Grants!BeginReplace
  <2> HIDE DEF t
  <2> QED BY <2>3, <2>4, GrantServes DEF HasInHand, RoleStands, RequestStands, Writing, Deciding
<1>2. ASSUME NEW actor \in Subject, NEW s \in Subject, NEW r \in Role,
             Grants!BeginAssign(p, actor, s, r, TRUE, Period)
      PROVE  GrantInv'
  <2> DEFINE t == [Grants!Idle EXCEPT !.step = "assign", !.actor = actor, !.role = r,
                     !.subject = s, !.global = TRUE, !.period = Period]
  <2>1. t \in Grants!Served
    BY <1>0 DEF Grants!Served, Period
  <2>2. t.step = "assign" /\ t.role = r /\ t.subject = s /\ t.period = Period
    BY <1>0 DEF Grants!Served
  <2>3. Grants!Serve(p, t) /\ UNCHANGED <<now, role, assignment, request, revision>>
    BY <1>2 DEF Grants!BeginAssign
  <2> HIDE DEF t
  <2> QED BY <2>1, <2>2, <2>3, GrantServes DEF HasInHand, RoleStands, RequestStands, Writing, Deciding
<1>3. ASSUME NEW actor \in Subject, NEW a \in Assignment, Grants!BeginRevoke(p, actor, a)
      PROVE  GrantInv'
  <2> DEFINE t == [Grants!Idle EXCEPT !.step = "revoke", !.assignment = a]
  <2>1. t \in Grants!Served /\ t.step = "revoke" /\ t.assignment = a
    BY <1>0 DEF Grants!Served
  <2>2. Grants!Serve(p, t) /\ UNCHANGED <<now, role, assignment, request, revision>>
    BY <1>3 DEF Grants!BeginRevoke
  <2> HIDE DEF t
  <2> QED BY <2>1, <2>2, GrantServes DEF HasInHand, RoleStands, RequestStands, Writing, Deciding
<1>4. ASSUME NEW actor \in Subject, NEW q \in Request, Grants!BeginApprove(p, actor, q)
      PROVE  GrantInv'
  <2> DEFINE c == request[q]
             t == [Grants!Idle EXCEPT !.step = "decide", !.request = q, !.change = c]
  <2>1. c \in Grants!RequestRow /\ Proposed(c)
    BY <1>4, GrantTypes DEF Grants!BeginApprove, Grants!MayDecide, GrantInv, PendingProposed
  <2>2. Grants!Serve(p, t) /\ UNCHANGED <<now, role, assignment, request, revision>>
    BY <1>4 DEF Grants!BeginApprove
  <2> HIDE DEF c
  <2>3. t \in Grants!Served /\ t.step = "decide" /\ t.request = q /\ t.change = c
    BY <1>0, <2>1 DEF Grants!Served
  <2> HIDE DEF t
  <2> QED BY <2>1, <2>2, <2>3, GrantServes DEF HasInHand, RoleStands, RequestStands, Writing, Deciding
<1> QED BY <1>1, <1>2, <1>3, <1>4

LEMMA GrantLocksRole ==
  ASSUME GrantConstants, GrantInv, NEW p \in Process, Grants!LockReplace(p) PROVE GrantInv'
<1> DEFINE x == serving[p]
           holders == Grants!HoldersOf(x.role)
           t == [x EXCEPT !.step = "write", !.holders = holders]
<1>1. x \in Grants!Served /\ holders \in SUBSET Subject /\ x.step = "replace" /\ HasInHand(x)
  BY GrantTypes, GrantHolders DEF GrantInv, InHand, Grants!LockReplace
<1>2. /\ role[x.role].version < 2 /\ ~Grants!RoleLocked(x.role)
      /\ Grants!Serve(p, t) /\ UNCHANGED <<now, role, assignment, request, revision>>
  BY DEF Grants!LockReplace, Grants!UnchangedSince
<1> HIDE DEF x, holders
<1>3. t \in Grants!Served /\ t.step = "write" /\ t.role = x.role
  BY <1>1 DEF Grants!Served
<1> HIDE DEF t
<1>4. HasInHand(t) /\ RoleStands(t, role) /\ RequestStands(t, request)
  BY <1>1, <1>2, <1>3 DEF HasInHand, RoleStands, RequestStands, Deciding
<1> QED BY <1>2, <1>3, <1>4, GrantServes

LEMMA GrantLocksRequest ==
  ASSUME GrantConstants, GrantInv, NEW p \in Process, Grants!LockApprove(p) PROVE GrantInv'
<1> DEFINE x == serving[p]
           c == x.change
           holders == IF c.type = "assign" THEN {c.subject} ELSE Grants!HoldersOf(c.role)
           row == IF c.type = "assign" THEN Nil ELSE c.role
           t == [x EXCEPT !.step = "apply", !.role = row, !.holders = holders]
<1>1. x \in Grants!Served /\ x.step = "decide" /\ x.request \in Request /\ Proposed(c)
  BY GrantTypes DEF GrantInv, InHand, HasInHand, Deciding, Grants!LockApprove
<1>2. holders \in SUBSET Subject
  BY <1>1, GrantHolders DEF Proposed
<1>3. row \in Role \cup {Nil}
  BY <1>1 DEF Proposed
<1>4. /\ ~Grants!RequestLocked(x.request) /\ request[x.request].status = "pending"
      /\ row \in Role => ~Grants!RoleLocked(row)
      /\ Grants!Serve(p, t) /\ UNCHANGED <<now, role, assignment, request, revision>>
  BY DEF Grants!LockApprove, Grants!Undecided, GrantConstants, Grants!MayApplyAssign
<1>5. row = (IF c.type = "assign" THEN Nil ELSE c.role) /\ c = x.change
  OBVIOUS
<1> HIDE DEF x, holders, row, c
<1>6. t \in Grants!Served /\ t.step = "apply" /\ t.role = row /\ t.request = x.request /\ t.change = x.change
  BY <1>1, <1>2, <1>3 DEF Grants!Served
<1> HIDE DEF t
<1>7. HasInHand(t) /\ RoleStands(t, role) /\ RequestStands(t, request)
  BY <1>1, <1>4, <1>5, <1>6 DEF HasInHand, RoleStands, RequestStands, Deciding
<1> QED BY <1>4, <1>6, <1>7, GrantServes

\* A new row of an assignment.
LEMMA GrantGranted ==
  ASSUME GrantConstants, GrantInv, NEW a \in Assignment, NEW s \in Subject, NEW r \in Role,
         NEW g \in BOOLEAN, NEW b \in BOOLEAN, Grants!Grant(a, s, r, g, Period, b)
  PROVE  /\ assignment' \in [Assignment -> Grants!AssignmentRow]
         /\ \A x \in Assignment : assignment'[x].status = "active" =>
              /\ assignment'[x].subject # Nil /\ assignment'[x].role # Nil
              /\ assignment'[x].from < assignment'[x].until
BY GrantTypes DEF Grants!AssignmentRow, Grants!Grant, Period, GrantConstants, GrantInv,
   Grants!TypeOK

LEMMA GrantBumps ==
  ASSUME GrantInv, NEW subjects, Grants!Bump(subjects) PROVE revision' \in [Subject -> 0..1]
BY GrantTypes DEF Grants!Bump

LEMMA GrantFinishes ==
  ASSUME GrantConstants, GrantInv, NEW p \in Process, Grants!Finish(p)
  PROVE  /\ serving' \in [Process -> Grants!Served] /\ serving'[p].step = "idle"
         /\ \A q \in Process : q # p => serving'[q] = serving[q]
         /\ \A q \in Process : serving'[q] = serving[q] \/ serving'[q].step = "idle"
BY GrantIdle, GrantTypes DEF Grants!Finish, Grants!Serve

\* Other processes that are about to write a role are not about to write this one.
LEMMA GrantRoleMine ==
  ASSUME GrantInv, NEW p \in Process, serving[p].step \in Writing, serving[p].role \in Role,
         NEW q \in Process, q # p, serving[q].step = "write"
  PROVE  serving[q].role \in Role /\ serving[q].role # serving[p].role
         /\ role[serving[q].role].version < 2
BY DEF GrantInv, InHand, HasInHand, RoleStands, Locked, Writing

LEMMA GrantCommitsReplace ==
  ASSUME GrantConstants, GrantInv, NEW p \in Process, Grants!CommitReplace(p) PROVE GrantInv'
<1> DEFINE r == serving[p].role
           keys == serving[p].capabilities
           row == [role[r] EXCEPT !.capabilities = keys, !.version = @ + 1]
<1>1. /\ serving[p].step = "write" /\ r \in Role /\ role[r].version < 2 /\ role[r] \in Grants!RoleRow
      /\ keys \in SUBSET Grants!Capability
  BY GrantTypes DEF GrantInv, InHand, HasInHand, RoleStands, Grants!CommitReplace, Grants!Served
<1>2. /\ role' = [role EXCEPT ![r] = row] /\ Grants!Finish(p) /\ UNCHANGED <<now, assignment, request>>
      /\ Grants!Bump(serving[p].holders)
  BY DEF Grants!CommitReplace, Grants!SetCapabilities
<1>3. role[r].version \in Nat /\ role[r].version + 1 \in Grants!Version
  BY <1>1, GrantVersions DEF Grants!RoleRow
<1>4. row \in Grants!RoleRow /\ row.version = role[r].version + 1
  BY <1>1, <1>3 DEF Grants!RoleRow
<1> HIDE DEF row, keys
<1>5. /\ role' \in [Role -> Grants!RoleRow] /\ role'[r] = row
      /\ \A x \in Role : x # r => role'[x] = role[x]
  BY <1>1, <1>2, <1>4, GrantTypes
<1>6. Cardinality(Approved(request)) \in Nat
  BY GrantVersions
<1>7. VersionsBounded'
  BY <1>1, <1>2, <1>3, <1>4, <1>5, <1>6 DEF GrantInv, VersionsBounded
<1>8. /\ serving' \in [Process -> Grants!Served]
      /\ serving'[p].step = "idle" /\ \A q \in Process : q # p => serving'[q] = serving[q]
      /\ \A q \in Process : serving'[q] = serving[q] \/ serving'[q].step = "idle"
  BY <1>2, GrantFinishes
<1>9. revision' \in [Subject -> 0..1]
  BY <1>2, GrantBumps
<1>10. Grants!TypeOK'
  BY <1>2, <1>5, <1>8, <1>9 DEF GrantInv, Grants!TypeOK
<1>11. \A q \in Process : serving'[q].step = "write" => role'[serving'[q].role].version < 2
  BY <1>1, <1>5, <1>8, GrantRoleMine DEF Writing
<1> QED BY <1>2, <1>7, <1>8, <1>10, <1>11, GrantCommits

LEMMA GrantCommitsAssign ==
  ASSUME GrantConstants, GrantInv, NEW p \in Process, Grants!CommitAssign(p) PROVE GrantInv'
<1>1. /\ serving[p].step = "assign" /\ serving[p].subject \in Subject /\ serving[p].role \in Role
      /\ serving[p].period = Period /\ serving[p].global \in BOOLEAN
  BY GrantTypes DEF GrantInv, InHand, HasInHand, Grants!CommitAssign, Grants!Served
<1>2. /\ Grants!Finish(p) /\ UNCHANGED <<now, role, request>> /\ Grants!Bump({serving[p].subject})
  BY DEF Grants!CommitAssign
<1>3. PICK a \in Assignment :
        Grants!Grant(a, serving[p].subject, serving[p].role, serving[p].global, Period, FALSE)
  BY <1>1 DEF Grants!CommitAssign
<1>4. /\ assignment' \in [Assignment -> Grants!AssignmentRow]
      /\ \A x \in Assignment : assignment'[x].status = "active" =>
           /\ assignment'[x].subject # Nil /\ assignment'[x].role # Nil
           /\ assignment'[x].from < assignment'[x].until
  BY <1>1, <1>3, GrantGranted
<1>5. /\ serving' \in [Process -> Grants!Served]
      /\ \A q \in Process : serving'[q] = serving[q] \/ serving'[q].step = "idle"
  BY <1>2, GrantFinishes
<1>6. revision' \in [Subject -> 0..1]
  BY <1>2, GrantBumps
<1>7. Grants!TypeOK'
  BY <1>2, <1>4, <1>5, <1>6 DEF GrantInv, Grants!TypeOK
<1>8. VersionsBounded' /\ \A q \in Process : serving'[q].step = "write" => role'[serving'[q].role].version < 2
  BY <1>2, <1>5 DEF GrantInv, VersionsBounded, InHand, RoleStands
<1> QED BY <1>2, <1>5, <1>7, <1>8, GrantCommits

LEMMA GrantCommitsRevoke ==
  ASSUME GrantConstants, GrantInv, NEW p \in Process, Grants!CommitRevoke(p) PROVE GrantInv'
<1> DEFINE a == serving[p].assignment
<1>1. a \in Assignment
  BY DEF GrantInv, InHand, HasInHand, Grants!CommitRevoke
<1>2. /\ Grants!Finish(p) /\ UNCHANGED <<now, role, request>> /\ Grants!Bump(Grants!RevokedSubjects(a))
      /\ assignment' = [assignment EXCEPT ![a] = Grants!NoAssignment]
  BY DEF Grants!CommitRevoke
<1>3. Grants!NoAssignment \in Grants!AssignmentRow /\ Grants!NoAssignment.status = "absent"
  BY DEF Grants!NoAssignment, Grants!AssignmentRow
<1>4. /\ assignment' \in [Assignment -> Grants!AssignmentRow]
      /\ \A x \in Assignment : assignment'[x].status = "active" =>
           /\ assignment'[x].subject # Nil /\ assignment'[x].role # Nil
           /\ assignment'[x].from < assignment'[x].until
  BY <1>1, <1>2, <1>3 DEF GrantInv, Grants!TypeOK
<1>5. /\ serving' \in [Process -> Grants!Served]
      /\ \A q \in Process : serving'[q] = serving[q] \/ serving'[q].step = "idle"
  BY <1>2, GrantFinishes
<1>6. revision' \in [Subject -> 0..1]
  BY <1>2, GrantBumps
<1>7. Grants!TypeOK'
  BY <1>2, <1>4, <1>5, <1>6 DEF GrantInv, Grants!TypeOK
<1>8. VersionsBounded' /\ \A q \in Process : serving'[q].step = "write" => role'[serving'[q].role].version < 2
  BY <1>2, <1>5 DEF GrantInv, VersionsBounded, InHand, RoleStands
<1> QED BY <1>2, <1>5, <1>7, <1>8, GrantCommits

LEMMA GrantDecided ==
  ASSUME GrantConstants, NEW status \in {"approved", "rejected"}, NEW applied \in 0..1
  PROVE  /\ Grants!Decided(status, applied) \in Grants!RequestRow
         /\ Grants!Decided(status, applied).status = status
         /\ Grants!Decided(status, applied).applied = applied
<1> DEFINE c == Grants!NoRequest
           row == [c EXCEPT !.status = status, !.applied = applied]
<1>1. c \in Grants!RequestRow
  BY GrantIdle
<1>2. row = Grants!Decided(status, applied)
  BY DEF Grants!Decided
<1> HIDE DEF c
<1>3. applied \in Nat /\ status \in {"absent", "pending", "approved", "rejected"}
  OBVIOUS
<1>4. row \in Grants!RequestRow
  BY <1>1, <1>3 DEF Grants!RequestRow
<1>5. row.status = status /\ row.applied = applied
  BY <1>1 DEF Grants!RequestRow
<1> HIDE DEF row
<1> QED BY <1>2, <1>4, <1>5

\* Approving counts one more request, and lets its role go one version further.
LEMMA GrantApproves ==
  ASSUME GrantConstants, GrantInv, NEW p \in Process, Grants!CommitApprove(p) PROVE GrantInv'
<1> DEFINE q == serving[p].request
           c == serving[p].change
           row == Grants!Decided("approved", request[q].applied + 1)
           n == Cardinality(Approved(request))
<1>1. /\ serving[p].step = "apply" /\ q \in Request /\ c \in Grants!RequestRow /\ Proposed(c)
      /\ request[q].status = "pending" /\ request[q].applied = 0
      /\ serving[p].role = (IF c.type = "assign" THEN Nil ELSE c.role)
  BY GrantTypes DEF GrantInv, InHand, HasInHand, Deciding, RequestStands, Grants!CommitApprove,
     Grants!Served, Grants!AppliedOnce
<1>2. /\ Grants!Finish(p) /\ UNCHANGED now /\ Grants!Bump(serving[p].holders)
      /\ request' = [request EXCEPT ![q] = row]
      /\ Grants!ApplyReplace(c) \/ Grants!ApplyDisable(c) \/ Grants!ApplyAssign(c)
  BY DEF Grants!CommitApprove
<1>3. row \in Grants!RequestRow /\ row.status = "approved" /\ row.applied = 1
  BY <1>1, GrantDecided
<1> HIDE DEF row, c
<1>4. /\ request' \in [Request -> Grants!RequestRow] /\ request'[q] = row
      /\ \A x \in Request : x # q => request'[x] = request[x]
  BY <1>1, <1>2, <1>3, GrantTypes
<1>5. n \in Nat /\ Cardinality(Approved(request')) = n + 1 /\ n + 1 <= Cardinality(Request)
      /\ Cardinality(Request) \in Nat
  <2>1. Approved(request') = Approved(request) \cup {q} /\ q \notin Approved(request)
    BY <1>1, <1>3, <1>4 DEF Approved
  <2>2. IsFiniteSet(Approved(request))
    BY FS_Subset DEF GrantConstants, Approved
  <2> DEFINE S == Approved(request)
  <2>3. Cardinality(S \cup {q}) = Cardinality(S) + 1
    <3> HIDE DEF S, q
    <3> QED BY <2>1, <2>2, FS_AddElement DEF S
  <2>4. Cardinality(Approved(request')) \in 0..Cardinality(Request)
    BY GrantVersions
  <2> QED BY <2>1, <2>3, <2>4, GrantVersions
<1>6. /\ serving' \in [Process -> Grants!Served] /\ serving'[p].step = "idle"
      /\ \A x \in Process : x # p => serving'[x] = serving[x]
      /\ \A x \in Process : serving'[x] = serving[x] \/ serving'[x].step = "idle"
  BY <1>2, GrantFinishes
<1>7. revision' \in [Subject -> 0..1]
  BY <1>2, GrantBumps
<1>8. \A x \in Process : serving'[x].step = "apply" =>
        request'[serving'[x].request] = request[serving'[x].request]
  BY <1>1, <1>4, <1>6 DEF GrantInv, InHand, HasInHand, Deciding, Locked
<1>9. \/ UNCHANGED role
      \/ /\ c.type # "assign" /\ c.role \in Role
         /\ \E new \in Grants!RoleRow : /\ new.version = role[c.role].version + 1
                                       /\ role' = [role EXCEPT ![c.role] = new]
  <2> DEFINE r == c.role
             replaced == [role[r] EXCEPT !.capabilities = c.capabilities, !.version = @ + 1]
             disabled == [role[r] EXCEPT !.status = "disabled", !.version = @ + 1]
  <2>1. c.type # "assign" => role[r] \in Grants!RoleRow /\ c.role \in Role
    BY <1>1, GrantTypes DEF Proposed
  <2>2. c.type # "assign" => role[r].version \in Nat /\ role[r].version + 1 \in Grants!Version
    BY <2>1, <1>5, GrantVersions DEF GrantInv, VersionsBounded, Grants!RoleRow
  <2>3. c.capabilities \in SUBSET Grants!Capability
    BY <1>1 DEF Grants!RequestRow
  <2>4. c.type # "assign" => /\ replaced \in Grants!RoleRow /\ replaced.version = role[r].version + 1
                             /\ disabled \in Grants!RoleRow /\ disabled.version = role[r].version + 1
    BY <2>1, <2>2, <2>3 DEF Grants!RoleRow
  <2>5. Grants!ApplyReplace(c) => c.type # "assign" /\ role' = [role EXCEPT ![r] = replaced]
    BY DEF Grants!ApplyReplace, Grants!SetCapabilities
  <2>6. Grants!ApplyDisable(c) => c.type # "assign" /\ role' = [role EXCEPT ![r] = disabled]
    BY DEF Grants!ApplyDisable
  <2>7. Grants!ApplyAssign(c) => UNCHANGED role
    BY DEF Grants!ApplyAssign
  <2> HIDE DEF replaced, disabled
  <2> QED BY <1>2, <2>1, <2>4, <2>5, <2>6, <2>7
<1>10. /\ role' \in [Role -> Grants!RoleRow] /\ VersionsBounded'
       /\ \A x \in Process : serving'[x].step = "write" => role'[serving'[x].role].version < 2
  <2>1. CASE UNCHANGED role
    <3>1. \A r \in Role : role[r].version \in Nat
      BY GrantTypes, GrantVersions DEF Grants!RoleRow
    <3>2. VersionsBounded'
      BY <1>5, <2>1, <3>1 DEF GrantInv, VersionsBounded
    <3> QED BY <1>6, <2>1, <3>2, GrantTypes DEF GrantInv, InHand, RoleStands
  <2>2. CASE /\ c.type # "assign" /\ c.role \in Role
             /\ \E new \in Grants!RoleRow : /\ new.version = role[c.role].version + 1
                                           /\ role' = [role EXCEPT ![c.role] = new]
    <3>1. PICK new \in Grants!RoleRow : /\ new.version = role[c.role].version + 1
                                        /\ role' = [role EXCEPT ![c.role] = new]
      BY <2>2
    <3>2. /\ role' \in [Role -> Grants!RoleRow] /\ role'[c.role] = new
          /\ \A x \in Role : x # c.role => role'[x] = role[x]
      BY <2>2, <3>1, GrantTypes
    <3>3. \A r \in Role : role[r].version \in Nat
      BY GrantTypes, GrantVersions DEF Grants!RoleRow
    <3>4. VersionsBounded'
      BY <1>5, <3>1, <3>2, <3>3, <2>2 DEF GrantInv, VersionsBounded
    <3>5. \A x \in Process : serving'[x].step = "write" => role'[serving'[x].role].version < 2
      BY <1>1, <1>6, <2>2, <3>2, GrantRoleMine DEF Writing
    <3> QED BY <3>2, <3>4, <3>5
  <2> QED BY <1>9, <2>1, <2>2
<1>11. /\ assignment' \in [Assignment -> Grants!AssignmentRow]
       /\ \A x \in Assignment : assignment'[x].status = "active" =>
            /\ assignment'[x].subject # Nil /\ assignment'[x].role # Nil
            /\ assignment'[x].from < assignment'[x].until
  <2>1. CASE UNCHANGED assignment
    BY <2>1 DEF GrantInv, Grants!TypeOK
  <2>2. CASE Grants!ApplyAssign(c)
    <3>1. c.subject \in Subject /\ c.role \in Role /\ c.period = Period /\ c.global \in BOOLEAN
      BY <1>1, <2>2 DEF Proposed, Grants!ApplyAssign, Grants!RequestRow
    <3>2. PICK a \in Assignment : Grants!Grant(a, c.subject, c.role, c.global, Period, TRUE)
      BY <2>2, <3>1 DEF Grants!ApplyAssign
    <3> QED BY <3>1, <3>2, GrantGranted
  <2> QED BY <1>2, <2>1, <2>2 DEF Grants!ApplyReplace, Grants!ApplyDisable
<1>12. Grants!TypeOK'
  BY <1>2, <1>4, <1>6, <1>7, <1>10, <1>11 DEF GrantInv, Grants!TypeOK
<1> HIDE DEF q
<1> QED BY <1>3, <1>4, <1>6, <1>8, <1>10, <1>12, GrantCommits

\* A role written by a request that serves nobody else's.
LEMMA GrantWritesRole ==
  ASSUME GrantConstants, GrantInv, NEW r \in Role, NEW row \in Grants!RoleRow,
         role' = [role EXCEPT ![r] = row], row.version <= 2 \/ row.version = role[r].version,
         row.version < 2 \/ row.version = role[r].version \/ ~Grants!RoleLocked(r)
  PROVE  /\ role' \in [Role -> Grants!RoleRow]
         /\ \A x \in Role : role'[x].version <= 2 + Cardinality(Approved(request))
         /\ \A x \in Process : serving[x].step = "write" => role'[serving[x].role].version < 2
BY GrantTypes, GrantVersions DEF Grants!RoleRow, GrantInv, VersionsBounded, InHand, HasInHand,
   RoleStands, Grants!RoleLocked

LEMMA GrantRoles ==
  ASSUME GrantConstants, GrantInv, NEW actor \in Subject, NEW r \in Role,
         Grants!CreateRole(actor, r) \/ Grants!UpdateRole(actor, r)
  PROVE  GrantInv'
<1>1. UNCHANGED <<now, assignment, request, revision, serving>>
  BY DEF Grants!CreateRole, Grants!UpdateRole
<1> DEFINE created == [status |-> "active", capabilities |-> {}, version |-> 1]
           updated == [role[r] EXCEPT !.version = @ + 1]
<1>2. 1 \in Grants!Version /\ 2 \in Grants!Version /\ role[r].version \in Nat /\ role[r] \in Grants!RoleRow
  BY GrantTypes, GrantVersions DEF Grants!RoleRow
<1>3. created \in Grants!RoleRow /\ created.version = 1
  BY <1>2 DEF Grants!RoleRow
<1>4. role[r].version < 2 => updated \in Grants!RoleRow /\ updated.version = role[r].version + 1
  BY <1>2, GrantVersions DEF Grants!RoleRow
<1>5. \/ role' = [role EXCEPT ![r] = created]
      \/ role' = [role EXCEPT ![r] = updated] /\ ~Grants!RoleLocked(r) /\ role[r].version < 2
  BY DEF Grants!CreateRole, Grants!UpdateRole
<1> HIDE DEF created, updated
<1>6. /\ role' \in [Role -> Grants!RoleRow]
      /\ \A x \in Role : role'[x].version <= 2 + Cardinality(Approved(request))
      /\ \A x \in Process : serving[x].step = "write" => role'[serving[x].role].version < 2
  BY <1>2, <1>3, <1>4, <1>5, GrantWritesRole
<1>7. Grants!TypeOK' /\ VersionsBounded'
  BY <1>1, <1>6 DEF GrantInv, Grants!TypeOK, VersionsBounded
<1> QED BY <1>1, <1>6, <1>7, GrantCommits

\* A request that is written leaves everybody else's.
LEMMA GrantWritesRequest ==
  ASSUME GrantConstants, GrantInv, NEW q \in Request, NEW row \in Grants!RequestRow,
         request' = [request EXCEPT ![q] = row], UNCHANGED <<now, role, assignment, revision, serving>>,
         request[q].status # "approved", row.status \in {"pending", "rejected"}, row.applied = 0,
         row.status = "pending" => Proposed(row),
         ~Grants!RequestLocked(q)
  PROVE  GrantInv'
<1>1. /\ request' \in [Request -> Grants!RequestRow] /\ request'[q] = row
      /\ \A x \in Request : x # q => request'[x] = request[x]
  BY GrantTypes
<1>2. Approved(request') = Approved(request)
  BY <1>1 DEF Approved
<1>3. Grants!TypeOK' /\ VersionsBounded'
  BY <1>1, <1>2 DEF GrantInv, Grants!TypeOK, VersionsBounded
<1>4. \A x \in Process : serving'[x].step = "write" => role'[serving'[x].role].version < 2
  BY DEF GrantInv, InHand, RoleStands
<1>5. \A x \in Process : serving'[x].step = "apply" =>
        request'[serving'[x].request] = request[serving'[x].request]
  BY <1>1 DEF GrantInv, InHand, HasInHand, Deciding, Grants!RequestLocked
<1> QED BY <1>1, <1>3, <1>4, <1>5, GrantCommits

LEMMA GrantProposes ==
  ASSUME GrantConstants, GrantInv, NEW actor \in Subject, NEW q \in Request, NEW r \in Role,
         \/ \E keys \in {{"standard"}, {"assignment.create", "approval.approve", "manage", "standard"}} :
              Grants!ProposeReplace(actor, q, r, keys)
         \/ Grants!ProposeDisable(actor, q, r)
         \/ \E s \in Subject : Grants!ProposeAssign(actor, q, r, s, TRUE, Period)
  PROVE  GrantInv'
<1> DEFINE blank == Grants!Pending(actor, r)
<1>1. /\ blank \in Grants!RequestRow /\ blank.status = "pending" /\ blank.role = r
      /\ blank.type = "replace" /\ blank.applied = 0
  <2> DEFINE c == Grants!NoRequest
  <2>1. c \in Grants!RequestRow /\ c.type = "replace" /\ c.applied = 0
    BY GrantIdle DEF Grants!NoRequest
  <2>2. blank = [c EXCEPT !.status = "pending", !.requester = actor, !.role = r, !.expires = now + 1]
    BY DEF Grants!Pending
  <2>3. now + 1 \in Nat
    BY GrantTypes
  <2> HIDE DEF c, blank
  <2> QED BY <2>1, <2>2, <2>3 DEF Grants!RequestRow
<1> HIDE DEF blank
<1>2. ~Grants!RequestLocked(q) \/ request[q].status # "absent"
  BY DEF GrantInv, InHand, RequestStands, Grants!RequestLocked
<1>3. role[r].version \in Grants!Version /\ role[r].capabilities \in SUBSET Grants!Capability
  BY GrantTypes DEF Grants!RoleRow
<1>4. ASSUME NEW row \in Grants!RequestRow, row.status = "pending", row.applied = 0, Proposed(row),
             Grants!Propose(actor, q, row)
      PROVE  GrantInv'
  BY <1>4, <1>2, GrantWritesRequest DEF Grants!Propose
<1>5. ASSUME NEW keys \in {{"standard"}, {"assignment.create", "approval.approve", "manage", "standard"}},
             Grants!ProposeReplace(actor, q, r, keys)
      PROVE  GrantInv'
  <2> DEFINE row == [blank EXCEPT !.capabilities = keys, !.version = role[r].version,
                       !.seen = role[r].capabilities]
  <2>1. keys \in SUBSET Grants!Capability
    BY DEF Grants!Capability
  <2>2. /\ row \in Grants!RequestRow /\ row.status = "pending" /\ row.applied = 0
        /\ row.type = "replace" /\ row.role = r
    BY <1>1, <1>3, <2>1 DEF Grants!RequestRow
  <2>3. Grants!Propose(actor, q, row)
    BY <1>5 DEF Grants!ProposeReplace, blank
  <2> HIDE DEF row
  <2> QED BY <1>4, <2>2, <2>3 DEF Proposed
<1>6. ASSUME Grants!ProposeDisable(actor, q, r) PROVE GrantInv'
  BY <1>1, <1>3, <1>6, <1>4 DEF Grants!RequestRow, Grants!ProposeDisable, blank, Proposed
<1>7. ASSUME NEW s \in Subject, Grants!ProposeAssign(actor, q, r, s, TRUE, Period) PROVE GrantInv'
  <2> DEFINE row == [blank EXCEPT !.type = "assign", !.subject = s, !.global = TRUE, !.period = Period]
  <2>1. row \in Grants!RequestRow
    BY <1>1 DEF Grants!RequestRow, Period
  <2>2. /\ row.status = "pending" /\ row.applied = 0 /\ row.type = "assign" /\ row.role = r
        /\ row.subject = s /\ row.period = Period
    BY <1>1 DEF Grants!RequestRow
  <2>3. Grants!Propose(actor, q, row)
    BY <1>7 DEF Grants!ProposeAssign, blank
  <2> HIDE DEF row
  <2> QED BY <1>4, <2>1, <2>2, <2>3 DEF Proposed
<1> QED BY <1>5, <1>6, <1>7

LEMMA GrantRejects ==
  ASSUME GrantConstants, GrantInv, NEW actor \in Subject, NEW q \in Request, Grants!Reject(actor, q)
  PROVE  GrantInv'
<1>1. /\ request[q].status = "pending" /\ request[q].applied = 0 /\ ~Grants!RequestLocked(q)
      /\ request' = [request EXCEPT ![q] = Grants!Decided("rejected", request[q].applied)]
      /\ UNCHANGED <<now, role, assignment, revision, serving>>
  BY GrantTypes DEF Grants!Reject, Grants!MayDecide, GrantInv, Grants!AppliedOnce
<1> DEFINE row == Grants!Decided("rejected", 0)
<1>2. row \in Grants!RequestRow /\ row.status = "rejected" /\ row.applied = 0
  BY GrantDecided
<1>3. request' = [request EXCEPT ![q] = row]
  BY <1>1
<1> HIDE DEF row
<1> QED BY <1>1, <1>2, <1>3, GrantWritesRequest

\* The operator makes two administrators at once.
LEMMA GrantBootstraps ==
  ASSUME GrantConstants, GrantInv, NEW s \in Subject, NEW t \in Subject, Grants!Bootstrap(s, t)
  PROVE  GrantInv'
<1>1. /\ ~Grants!RoleLocked(BootRole) /\ BootRole \in Role /\ Grants!Bump({s, t})
      /\ UNCHANGED <<now, request, serving>>
  BY DEF Grants!Bootstrap, GrantConstants
<1> DEFINE version == IF role[BootRole].version = 0 THEN 1 ELSE role[BootRole].version
           row == [status |-> "active", capabilities |-> Grants!Capability, version |-> version]
           new(x) == [status |-> "active", subject |-> x, role |-> BootRole, global |-> TRUE,
                      from |-> now, until |-> now + 2, approved |-> TRUE]
<1>2. row \in Grants!RoleRow /\ row.version = version
  BY <1>1, GrantTypes, GrantVersions DEF Grants!RoleRow
<1>3. role' = [role EXCEPT ![BootRole] = row]
  BY DEF Grants!Bootstrap
<1>4. /\ role' \in [Role -> Grants!RoleRow]
      /\ \A x \in Role : role'[x].version <= 2 + Cardinality(Approved(request))
      /\ \A x \in Process : serving[x].step = "write" => role'[serving[x].role].version < 2
  <2>1. version <= 2 \/ version = role[BootRole].version
    OBVIOUS
  <2> HIDE DEF row, version
  <2> QED BY <1>1, <1>2, <1>3, <2>1, GrantWritesRole
<1>5. ASSUME NEW x \in Subject
      PROVE  /\ new(x) \in Grants!AssignmentRow /\ new(x).subject = x /\ new(x).role = BootRole
             /\ new(x).from < new(x).until /\ x # Nil /\ BootRole # Nil
  BY <1>1, GrantTypes DEF Grants!AssignmentRow, GrantConstants
<1>6. PICK a \in Assignment, b \in Assignment :
        a # b /\ assignment' = [assignment EXCEPT ![a] = new(s), ![b] = new(t)]
  BY DEF Grants!Bootstrap
<1> HIDE DEF new
<1>7. /\ assignment' \in [Assignment -> Grants!AssignmentRow]
      /\ \A x \in Assignment : assignment'[x].status = "active" =>
           /\ assignment'[x].subject # Nil /\ assignment'[x].role # Nil
           /\ assignment'[x].from < assignment'[x].until
  BY <1>5, <1>6, GrantTypes DEF GrantInv, Grants!TypeOK
<1>8. revision' \in [Subject -> 0..1]
  BY <1>1, GrantBumps
<1>9. Grants!TypeOK' /\ VersionsBounded'
  BY <1>1, <1>4, <1>7, <1>8 DEF GrantInv, Grants!TypeOK, VersionsBounded
<1> QED BY <1>1, <1>4, <1>9, GrantCommits

\* Every step keeps the invariant.
LEMMA GrantNextKeeps ==
  ASSUME GrantConstants, GrantInv, [Grants!Next]_grantVars PROVE GrantInv'
<1>1. ASSUME NEW p \in Process, Grants!Serving(p) PROVE GrantInv'
  BY <1>1, GrantBegins, GrantLocksRole, GrantCommitsReplace, GrantCommitsAssign, GrantCommitsRevoke,
     GrantLocksRequest, GrantApproves, GrantAborts DEF Grants!Serving, Period
<1>2. ASSUME NEW actor \in Subject, NEW q \in Request, Grants!Proposing(actor, q) PROVE GrantInv'
  BY <1>2, GrantProposes, GrantRejects DEF Grants!Proposing, Period
<1>3. CASE Grants!Tick
  <2>1. now' \in 0..1 /\ UNCHANGED <<role, assignment, request, revision, serving>>
    BY <1>3, GrantTypes DEF Grants!Tick
  <2> QED BY <2>1 DEF GrantInv, Grants!TypeOK, InHand, Locked, PendingProposed, VersionsBounded,
      Grants!AppliedOnce
<1>4. CASE UNCHANGED grantVars
  BY <1>4 DEF grantVars, GrantInv, Grants!TypeOK, InHand, Locked, PendingProposed, VersionsBounded,
     Grants!AppliedOnce
<1> QED BY <1>1, <1>2, <1>3, <1>4, GrantRoles, GrantBootstraps DEF Grants!Next

-----------------------------------------------------------------------------
(* What was seen of a role when a change was asked for.                    *)

\* The version in a request stands for the capabilities its author saw, and that in
\* the hands of a process for a role without privileges.  The bootstrap gives its
\* role all capabilities and leaves the version; of that role this is not so.
Saw(c, roles) ==
  c.role # BootRole =>
    /\ c.version <= roles[c.role].version
    /\ c.version = roles[c.role].version => roles[c.role].capabilities = c.seen
Harmless(t, roles) ==
  /\ t.capabilities \cap Grants!Privileged = {}
  /\ t.role # BootRole =>
       /\ t.version <= roles[t.role].version
       /\ t.version = roles[t.role].version => roles[t.role].capabilities \cap Grants!Privileged = {}
SawInHand(t, roles) ==
  /\ t.request # Nil => t.step \in Deciding
  /\ t.step \in Deciding /\ t.change.type = "replace" => Saw(t.change, roles)
  /\ t.step \in {"replace", "write"} => Harmless(t, roles)
  /\ t.step = "write" => t.version = roles[t.role].version /\ roles[t.role].status # "absent"
  /\ t.step = "apply" /\ t.change.type # "assign" =>
       /\ t.change.version = roles[t.change.role].version
       /\ roles[t.change.role].status # "absent"
SawRequested(c, roles) == c.status = "pending" /\ c.type = "replace" => Saw(c, roles)
SeenInv ==
  /\ \A r \in Role : role[r].status = "absent" => role[r].version = 0 /\ role[r].capabilities = {}
  /\ \A q \in Request : SawRequested(request[q], role)
  /\ \A p \in Process : SawInHand(serving[p], role)

LEMMA IdleSees ==
  ASSUME NEW roles
  PROVE  SawInHand(Grants!Idle, roles) /\ Grants!Idle.request = Nil
BY DEF Grants!Idle, SawInHand, Deciding

LEMMA SeenInit == Grants!Init => SeenInv
BY IdleSees DEF Grants!NoRequest, Grants!Init, SeenInv, SawRequested

\* A role other than the bootstrap one that is written has a new version.
LEMMA SeenMoves ==
  ASSUME GrantConstants, GrantInv, SeenInv, role' \in [Role -> Grants!RoleRow],
         \A r \in Role : role'[r] = role[r] \/ role'[r].status # "absent",
         \A r \in Role \ {BootRole} : role'[r] = role[r] \/ role[r].version < role'[r].version,
         \A p \in Process :
           \/ SawInHand(serving'[p], role')
           \/ /\ serving'[p] = serving[p]
              /\ serving[p].step \in Writing /\ serving[p].role \in Role =>
                   role'[serving[p].role] = role[serving[p].role],
         \A q \in Request : request'[q] = request[q] \/ SawRequested(request'[q], role')
  PROVE  SeenInv'
<1>1. \A r \in Role : role[r].version \in Nat /\ role'[r].version \in Nat
  BY GrantTypes, GrantVersions DEF Grants!RoleRow
<1>2. ASSUME NEW c \in Grants!RequestRow, c.role \in Role, Saw(c, role)
      PROVE  Saw(c, role')
  BY GrantVersions, <1>1, <1>2 DEF Grants!RequestRow, Saw
<1>3. ASSUME NEW t \in Grants!Served, t.role \in Role, Harmless(t, role)
      PROVE  Harmless(t, role')
  BY GrantVersions, <1>1, <1>3 DEF Grants!Served, Harmless
<1>4. ASSUME NEW q \in Request
      PROVE  SawRequested(request'[q], role')
  BY GrantTypes, <1>2 DEF GrantInv, PendingProposed, Proposed, SeenInv, SawRequested
<1>5. ASSUME NEW p \in Process
      PROVE  SawInHand(serving'[p], role')
  <2>1. CASE /\ serving'[p] = serving[p]
             /\ serving[p].step \in Writing /\ serving[p].role \in Role =>
                  role'[serving[p].role] = role[serving[p].role]
    <3> DEFINE t == serving[p]
    <3>1. t \in Grants!Served /\ t.change \in Grants!RequestRow /\ HasInHand(t) /\ SawInHand(t, role)
      BY GrantTypes DEF Grants!Served, GrantInv, InHand, SeenInv
    <3>2. t.step \in Deciding => t.change.role \in Role
      BY <3>1 DEF HasInHand, Proposed
    <3>3. t.step \in {"replace", "write"} => t.role \in Role
      BY <3>1 DEF HasInHand
    <3>4. t.step = "apply" /\ t.change.type # "assign" => t.role = t.change.role /\ t.role \in Role
      BY <3>1, <3>2 DEF HasInHand, Deciding
    <3>5. t.step \in {"write", "apply"} /\ t.role \in Role => role'[t.role] = role[t.role]
      BY <2>1 DEF Writing
    <3> HIDE DEF t
    <3>6. SawInHand(t, role')
      BY <1>2, <1>3, <3>1, <3>2, <3>3, <3>4, <3>5 DEF SawInHand
    <3> QED
      BY <2>1, <3>6 DEF t
  <2> QED
    BY <2>1
<1> QED
  BY <1>4, <1>5 DEF SeenInv

\* A step of a process that leaves the rows.
LEMMA SeenServes ==
  ASSUME GrantConstants, GrantInv, SeenInv, NEW p \in Process, NEW t, Grants!Serve(p, t),
         UNCHANGED <<role, request>>, SawInHand(t, role)
  PROVE  SeenInv'
BY GrantTypes DEF Grants!Serve, SeenInv

LEMMA SeenStops ==
  ASSUME GrantConstants, GrantInv, SeenInv, NEW p \in Process,
         Grants!Abort(p) \/ Grants!CommitAssign(p) \/ Grants!CommitRevoke(p)
  PROVE  SeenInv' /\ UNCHANGED <<role, request>>
BY IdleSees, SeenServes DEF Grants!Abort, Grants!CommitAssign, Grants!CommitRevoke, Grants!Finish

LEMMA SeenBegins ==
  ASSUME GrantConstants, GrantInv, SeenInv, NEW p \in Process,
         \/ \E actor \in Subject, r \in Role,
               keys \in {{"standard"}, {"assignment.create", "approval.approve", "manage", "standard"}} :
              Grants!BeginReplace(p, actor, r, keys)
         \/ \E actor, s \in Subject, r \in Role, g \in {TRUE}, d \in {Period} :
              Grants!BeginAssign(p, actor, s, r, g, d)
         \/ \E actor \in Subject, a \in Assignment : Grants!BeginRevoke(p, actor, a)
         \/ \E actor \in Subject, q \in Request : Grants!BeginApprove(p, actor, q)
  PROVE  SeenInv' /\ UNCHANGED <<role, request>>
<1>0. Grants!Idle \in Grants!Served /\ Grants!Idle.request = Nil
  BY GrantIdle, IdleSees
<1>1. ASSUME NEW actor \in Subject, NEW r \in Role,
             NEW keys \in {{"standard"}, {"assignment.create", "approval.approve", "manage", "standard"}},
             Grants!BeginReplace(p, actor, r, keys)
      PROVE  SeenInv' /\ UNCHANGED <<role, request>>
  <2> DEFINE t == [Grants!Idle EXCEPT !.step = "replace", !.role = r,
                     !.capabilities = keys, !.version = role[r].version]
  <2>1. /\ t.step = "replace" /\ t.role = r /\ t.capabilities = keys /\ t.request = Nil
        /\ t.version = role[r].version
    BY <1>0 DEF Grants!Served
  <2>2. Grants!Serve(p, t) /\ UNCHANGED <<role, request>>
    BY <1>1 DEF Grants!BeginReplace
  <2>3. (keys \cup role[r].capabilities) \cap Grants!Privileged = {}
    BY <1>1 DEF Grants!BeginReplace, Grants!MayReplace
  <2> HIDE DEF t
  <2>4. role[r].version \in Nat
    BY GrantTypes, GrantVersions DEF Grants!RoleRow
  <2>5. SawInHand(t, role)
    BY <2>1, <2>3, <2>4 DEF SawInHand, Harmless, Deciding
  <2> QED
    BY <2>2, <2>5, SeenServes
<1>2. ASSUME NEW actor \in Subject, NEW s \in Subject, NEW r \in Role,
             Grants!BeginAssign(p, actor, s, r, TRUE, Period)
      PROVE  SeenInv' /\ UNCHANGED <<role, request>>
  <2> DEFINE t == [Grants!Idle EXCEPT !.step = "assign", !.actor = actor, !.role = r,
                     !.subject = s, !.global = TRUE, !.period = Period]
  <2>1. t.step = "assign" /\ t.request = Nil
    BY <1>0 DEF Grants!Served
  <2>2. Grants!Serve(p, t) /\ UNCHANGED <<role, request>>
    BY <1>2 DEF Grants!BeginAssign
  <2> HIDE DEF t
  <2>3. SawInHand(t, role)
    BY <2>1 DEF SawInHand, Deciding
  <2> QED
    BY <2>2, <2>3, SeenServes
<1>3. ASSUME NEW actor \in Subject, NEW a \in Assignment, Grants!BeginRevoke(p, actor, a)
      PROVE  SeenInv' /\ UNCHANGED <<role, request>>
  <2> DEFINE t == [Grants!Idle EXCEPT !.step = "revoke", !.assignment = a]
  <2>1. t.step = "revoke" /\ t.request = Nil
    BY <1>0 DEF Grants!Served
  <2>2. Grants!Serve(p, t) /\ UNCHANGED <<role, request>>
    BY <1>3 DEF Grants!BeginRevoke
  <2> HIDE DEF t
  <2>3. SawInHand(t, role)
    BY <2>1 DEF SawInHand, Deciding
  <2> QED
    BY <2>2, <2>3, SeenServes
<1>4. ASSUME NEW actor \in Subject, NEW q \in Request, Grants!BeginApprove(p, actor, q)
      PROVE  SeenInv' /\ UNCHANGED <<role, request>>
  <2> DEFINE c == request[q]
             t == [Grants!Idle EXCEPT !.step = "decide", !.request = q, !.change = c]
  <2>1. c.status = "pending" /\ SawRequested(c, role)
    BY <1>4 DEF Grants!BeginApprove, Grants!MayDecide, SeenInv
  <2>2. Grants!Serve(p, t) /\ UNCHANGED <<role, request>>
    BY <1>4 DEF Grants!BeginApprove
  <2> HIDE DEF c
  <2>3. t.step = "decide" /\ t.change = c
    BY <1>0 DEF Grants!Served
  <2> HIDE DEF t
  <2>4. SawInHand(t, role)
    BY <2>1, <2>3 DEF SawInHand, SawRequested, Deciding
  <2> QED
    BY <2>2, <2>4, SeenServes
<1> QED
  BY <1>1, <1>2, <1>3, <1>4

LEMMA SeenLocksRole ==
  ASSUME GrantConstants, GrantInv, SeenInv, NEW p \in Process, Grants!LockReplace(p)
  PROVE  SeenInv' /\ UNCHANGED <<role, request>>
<1> DEFINE x == serving[p]
           holders == Grants!HoldersOf(x.role)
           t == [x EXCEPT !.step = "write", !.holders = holders]
<1>1. x \in Grants!Served /\ x.step = "replace" /\ SawInHand(x, role)
  BY GrantTypes DEF SeenInv, Grants!LockReplace
<1>2. /\ role[x.role].version = x.version /\ role[x.role].status = "active"
      /\ Grants!Serve(p, t) /\ UNCHANGED <<role, request>>
  BY DEF Grants!LockReplace, Grants!UnchangedSince
<1> HIDE DEF x, holders
<1>3. /\ t.step = "write" /\ t.role = x.role /\ t.version = x.version /\ t.request = x.request
      /\ t.capabilities = x.capabilities
  BY <1>1 DEF Grants!Served
<1> HIDE DEF t
<1>4. SawInHand(t, role)
  BY <1>1, <1>2, <1>3 DEF SawInHand, Harmless, Deciding
<1> QED
  BY <1>2, <1>4, SeenServes

LEMMA SeenLocksRequest ==
  ASSUME GrantConstants, GrantInv, SeenInv, NEW p \in Process, Grants!LockApprove(p)
  PROVE  SeenInv' /\ UNCHANGED <<role, request>>
<1> DEFINE x == serving[p]
           c == x.change
           holders == IF c.type = "assign" THEN {c.subject} ELSE Grants!HoldersOf(c.role)
           row == IF c.type = "assign" THEN Nil ELSE c.role
           t == [x EXCEPT !.step = "apply", !.role = row, !.holders = holders]
<1>1. x \in Grants!Served /\ x.step = "decide" /\ SawInHand(x, role) /\ c = x.change
  BY GrantTypes DEF SeenInv, Grants!LockApprove
<1>2. /\ c.type # "assign" => role[c.role].version = c.version /\ role[c.role].status = "active"
      /\ Grants!Serve(p, t) /\ UNCHANGED <<role, request>>
  BY DEF Grants!LockApprove, Grants!UnchangedSince, Grants!MayApplyReplace, Grants!MayApplyDisable,
         Grants!MayApplyAssign
<1> HIDE DEF x, holders, row, c
<1>3. t.step = "apply" /\ t.change = c
  BY <1>1 DEF Grants!Served
<1> HIDE DEF t
<1>4. SawInHand(t, role)
  BY <1>1, <1>2, <1>3 DEF SawInHand, Deciding
<1> QED
  BY <1>2, <1>4, SeenServes

\* An approval of a change to a role other than the bootstrap one replaces exactly
\* the capabilities its author saw.
ApprovedElsewhereAsSeen ==
  \A q \in Request : request'[q].applied > request[q].applied =>
    \A p \in Process :
      LET c == serving[p].change IN
      serving[p].request = q /\ serving'[p].step = "idle" /\ c.type = "replace" /\ c.role # BootRole
        => role[c.role].capabilities = c.seen

\* Any other role than the bootstrap one gains or loses a privilege by an approved
\* request for exactly that set of capabilities, and in no other way.
PrivilegesElsewhereApproved ==
  \A r \in Role \ {BootRole} :
    /\ role'[r].capabilities # role[r].capabilities
    /\ (role[r].capabilities \cup role'[r].capabilities) \cap Grants!Privileged # {}
    => \E p \in Process : LET q == serving[p].request IN
         /\ q # Nil /\ request'[q].applied > request[q].applied
         /\ serving[p].change.role = r /\ serving[p].change.capabilities = role'[r].capabilities

SeenSteps == ApprovedElsewhereAsSeen /\ PrivilegesElsewhereApproved

LEMMA NothingApplied ==
  ASSUME GrantInv, UNCHANGED <<role, request>>
  PROVE  SeenSteps
BY GrantTypes DEF Grants!RequestRow, SeenSteps, ApprovedElsewhereAsSeen,
   PrivilegesElsewhereApproved

LEMMA SeenCommitsReplace ==
  ASSUME GrantConstants, GrantInv, SeenInv, NEW p \in Process, Grants!CommitReplace(p)
  PROVE  SeenInv' /\ SeenSteps
<1> DEFINE t == serving[p]
           r == t.role
<1>1. /\ t.step = "write" /\ r \in Role /\ SawInHand(t, role) /\ role[r] \in Grants!RoleRow
      /\ role[r].version \in Nat
  BY GrantTypes, GrantVersions
     DEF GrantInv, InHand, HasInHand, SeenInv, Grants!CommitReplace, Grants!RoleRow
<1>2. GrantInv' /\ UNCHANGED request
  BY GrantCommitsReplace DEF Grants!CommitReplace
<1>3. role' \in [Role -> Grants!RoleRow]
  BY <1>2 DEF GrantInv, Grants!TypeOK
<1>4. /\ role'[r].capabilities = t.capabilities /\ role'[r].version = role[r].version + 1
      /\ role'[r].status = role[r].status /\ \A x \in Role : x # r => role'[x] = role[x]
  BY <1>1, GrantTypes DEF Grants!CommitReplace, Grants!SetCapabilities, Grants!RoleRow
<1>5. /\ serving'[p] = Grants!Idle /\ \A q \in Process : q # p => serving'[q] = serving[q]
  BY GrantTypes DEF Grants!CommitReplace, Grants!Finish, Grants!Serve
<1>6. role[r].status # "absent" /\ role[r].version = t.version
  BY <1>1 DEF SawInHand
<1>7. \A x \in Process : x # p => /\ serving'[x] = serving[x]
                                  /\ serving[x].step \in Writing /\ serving[x].role \in Role =>
                                       role'[serving[x].role] = role[serving[x].role]
  BY <1>1, <1>4, <1>5 DEF GrantInv, Locked, Writing
<1>8. SeenInv'
  BY <1>4, <1>6, <1>1, <1>5, IdleSees, <1>7, <1>2, <1>3, SeenMoves
<1>9. r # BootRole =>
        (role[r].capabilities \cup role'[r].capabilities) \cap Grants!Privileged = {}
  BY <1>1, <1>4, <1>6 DEF SawInHand, Harmless
<1>10. PrivilegesElsewhereApproved
  BY <1>4, <1>9 DEF PrivilegesElsewhereApproved
<1>11. ApprovedElsewhereAsSeen
  BY GrantTypes, <1>2 DEF Grants!RequestRow, ApprovedElsewhereAsSeen
<1> QED
  BY <1>8, <1>10, <1>11 DEF SeenSteps

LEMMA SeenApproves ==
  ASSUME GrantConstants, GrantInv, SeenInv, NEW p \in Process, Grants!CommitApprove(p)
  PROVE  SeenInv' /\ SeenSteps
<1> DEFINE t == serving[p]
           c == t.change
           q == t.request
           r == c.role
<1>1. /\ t.step = "apply" /\ q \in Request /\ SawInHand(t, role) /\ Proposed(c)
      /\ t.role = (IF c.type = "assign" THEN Nil ELSE r) /\ r \in Role /\ r # Nil
      /\ role[r] \in Grants!RoleRow /\ role[r].version \in Nat /\ request[q].applied = 0
  BY GrantTypes, GrantVersions
     DEF GrantInv, InHand, HasInHand, SeenInv, Grants!CommitApprove, Grants!RoleRow, Deciding,
         Proposed, GrantConstants, RequestStands, Grants!AppliedOnce
<1>2. GrantInv'
  BY GrantApproves
<1>3. role' \in [Role -> Grants!RoleRow]
  BY <1>2 DEF GrantInv, Grants!TypeOK
<1>4. /\ serving'[p] = Grants!Idle /\ \A x \in Process : x # p => serving'[x] = serving[x]
  BY GrantTypes DEF Grants!CommitApprove, Grants!Finish, Grants!Serve
<1>5. /\ request'[q].status = "approved" /\ request'[q].applied = 1
      /\ \A x \in Request : x # q => request'[x] = request[x]
  <2> DEFINE row == Grants!Decided("approved", request[q].applied + 1)
  <2>1. request' = [request EXCEPT ![q] = row]
    BY DEF Grants!CommitApprove
  <2>2. row = Grants!Decided("approved", 1)
    BY <1>1
  <2>3. row.status = "approved" /\ row.applied = 1
    <3> HIDE DEF row
    <3> QED
      BY <2>2, GrantDecided
  <2> HIDE DEF row
  <2> QED
    BY <1>1, <2>1, <2>3, GrantTypes
<1>6. \/ UNCHANGED role
      \/ /\ c.type # "assign" /\ role'[r].version = role[r].version + 1
         /\ role'[r].status # "absent" /\ \A x \in Role : x # r => role'[x] = role[x]
         /\ role'[r].capabilities \in {c.capabilities, role[r].capabilities}
  <2>1. CASE Grants!ApplyReplace(c)
    <3>1. /\ role' = [role EXCEPT ![r].capabilities = c.capabilities, ![r].version = @ + 1]
          /\ c.type # "assign"
      BY <2>1 DEF Grants!ApplyReplace, Grants!SetCapabilities
    <3>2. role[r].status # "absent"
      BY <1>1, <3>1 DEF SawInHand
    <3> HIDE DEF c, r
    <3> QED
      BY <1>1, <3>1, <3>2, GrantTypes DEF Grants!RoleRow
  <2>2. CASE Grants!ApplyDisable(c)
    <3>1. /\ role' = [role EXCEPT ![r].status = "disabled", ![r].version = @ + 1]
          /\ c.type # "assign"
      BY <2>2 DEF Grants!ApplyDisable
    <3> HIDE DEF c, r
    <3> QED
      BY <1>1, <3>1, GrantTypes DEF Grants!RoleRow
  <2>3. CASE Grants!ApplyAssign(c)
    BY <2>3 DEF Grants!ApplyAssign
  <2> QED
    BY <2>1, <2>2, <2>3 DEF Grants!CommitApprove
<1> HIDE DEF t, c, q, r
<1>7. c = t.change /\ q = t.request /\ r = c.role /\ t = serving[p]
  BY DEF t, c, q, r
<1>8. \A x \in Process : x # p => /\ serving'[x] = serving[x]
                                  /\ serving[x].step \in Writing /\ serving[x].role \in Role =>
                                       role'[serving[x].role] = role[serving[x].role]
  BY <1>1, <1>7, <1>4, <1>6 DEF GrantInv, Locked, Writing
<1>9. SeenInv'
  BY <1>6, <1>1, <1>4, IdleSees, <1>8, <1>5, <1>3, SeenMoves DEF SawRequested
<1>10. ApprovedElsewhereAsSeen
  <2> SUFFICES ASSUME NEW o \in Request, request'[o].applied > request[o].applied,
                      NEW x \in Process, serving[x].request = o, serving'[x].step = "idle",
                      serving[x].change.type = "replace", serving[x].change.role # BootRole
               PROVE  role[serving[x].change.role].capabilities = serving[x].change.seen
    BY DEF ApprovedElsewhereAsSeen
  <2>1. serving[x].request # Nil /\ SawInHand(serving[x], role)
    BY DEF GrantConstants, SeenInv
  <2>2. x = p
    BY <1>4, <2>1 DEF SawInHand, Deciding
  <2>3. c.type = "replace" /\ c.role # BootRole
    BY <1>7, <2>2
  <2>4. Saw(c, role) /\ role[r].version = c.version
    BY <1>1, <1>7, <2>3 DEF SawInHand, Deciding
  <2> QED
    BY <1>7, <2>2, <2>3, <2>4 DEF Saw
<1>11. PrivilegesElsewhereApproved
  <2> SUFFICES ASSUME NEW x \in Role \ {BootRole}, role'[x].capabilities # role[x].capabilities
               PROVE  \E y \in Process :
                        /\ serving[y].request # Nil
                        /\ request'[serving[y].request].applied > request[serving[y].request].applied
                        /\ serving[y].change.role = x
                        /\ serving[y].change.capabilities = role'[x].capabilities
    BY DEF PrivilegesElsewhereApproved
  <2>1. x = r /\ role'[x].capabilities = c.capabilities
    BY <1>6
  <2>2. q # Nil /\ request'[q].applied > request[q].applied
    BY <1>1, <1>5 DEF GrantConstants
  <2> QED
    BY <1>7, <2>1, <2>2
<1> QED
  BY <1>9, <1>10, <1>11 DEF SeenSteps

LEMMA SeenRoles ==
  ASSUME GrantConstants, GrantInv, SeenInv, NEW actor \in Subject, NEW r \in Role,
         Grants!CreateRole(actor, r) \/ Grants!UpdateRole(actor, r)
  PROVE  SeenInv' /\ SeenSteps
<1>1. UNCHANGED <<request, serving>> /\ GrantInv'
  BY GrantRoles DEF Grants!CreateRole, Grants!UpdateRole
<1>2. role' \in [Role -> Grants!RoleRow] /\ role[r] \in Grants!RoleRow /\ role[r].version \in Nat
  BY <1>1, GrantTypes, GrantVersions DEF GrantInv, Grants!TypeOK, Grants!RoleRow
<1>3. /\ role'[r].version = role[r].version + 1 /\ role'[r].status # "absent"
      /\ role'[r].capabilities = role[r].capabilities
      /\ \A x \in Role : x # r => role'[x] = role[x]
  <2>1. CASE Grants!CreateRole(actor, r)
    BY <2>1, <1>2, GrantTypes DEF Grants!CreateRole, SeenInv
  <2>2. CASE Grants!UpdateRole(actor, r)
    BY <2>2, <1>2, GrantTypes DEF Grants!UpdateRole, Grants!UnchangedSince, Grants!RoleRow
  <2> QED
    BY <2>1, <2>2
<1>4. ASSUME NEW p \in Process, serving[p].step \in Writing, serving[p].role = r
      PROVE  FALSE
  <2>1. CASE Grants!UpdateRole(actor, r)
    BY <1>4, <2>1 DEF Grants!UpdateRole, Grants!RoleLocked, Writing
  <2>2. CASE Grants!CreateRole(actor, r)
    <3>1. role[r].status = "absent" /\ SawInHand(serving[p], role) /\ HasInHand(serving[p])
      BY <2>2 DEF Grants!CreateRole, SeenInv, GrantInv, InHand
    <3>2. CASE serving[p].step = "write"
      BY <1>4, <3>1, <3>2 DEF SawInHand
    <3>3. CASE serving[p].step = "apply"
      BY <1>4, <3>1, <3>3 DEF GrantConstants, HasInHand, SawInHand
    <3> QED
      BY <1>4, <3>2, <3>3 DEF Writing
  <2> QED
    BY <2>1, <2>2
<1>5. SeenInv'
  BY <1>3, <1>2, <1>1, <1>4, SeenMoves
<1>6. SeenSteps
  BY GrantTypes, <1>1, <1>3 DEF Grants!RequestRow, ApprovedElsewhereAsSeen,
     PrivilegesElsewhereApproved, SeenSteps
<1> QED
  BY <1>5, <1>6

\* A request that is written leaves the rest.
LEMMA SeenWritesRequest ==
  ASSUME GrantConstants, GrantInv, SeenInv, NEW q \in Request, NEW row,
         request' = [request EXCEPT ![q] = row], UNCHANGED <<role, serving>>,
         SawRequested(row, role), row.applied = request[q].applied
  PROVE  SeenInv' /\ SeenSteps
BY GrantTypes DEF SeenInv, Grants!RequestRow, SeenSteps, ApprovedElsewhereAsSeen,
   PrivilegesElsewhereApproved

LEMMA SeenProposes ==
  ASSUME GrantConstants, GrantInv, SeenInv, NEW actor \in Subject, NEW q \in Request, NEW r \in Role,
         \/ \E keys \in {{"standard"}, {"assignment.create", "approval.approve", "manage", "standard"}} :
              Grants!ProposeReplace(actor, q, r, keys)
         \/ Grants!ProposeDisable(actor, q, r)
         \/ \E s \in Subject : Grants!ProposeAssign(actor, q, r, s, TRUE, Period)
  PROVE  SeenInv' /\ SeenSteps
<1> DEFINE blank == Grants!Pending(actor, r)
<1>1. blank \in Grants!RequestRow /\ blank.applied = 0 /\ blank.role = r
  <2> DEFINE c == Grants!NoRequest
  <2>1. c \in Grants!RequestRow /\ c.applied = 0
    BY GrantIdle DEF Grants!NoRequest
  <2>2. blank = [c EXCEPT !.status = "pending", !.requester = actor, !.role = r, !.expires = now + 1]
    BY DEF Grants!Pending
  <2>3. now + 1 \in Nat
    BY GrantTypes
  <2> HIDE DEF c, blank
  <2> QED
    BY <2>1, <2>2, <2>3 DEF Grants!RequestRow
<1> HIDE DEF blank
<1>3. role[r].version \in Nat
  BY GrantTypes, GrantVersions DEF Grants!RoleRow
<1>4. ASSUME NEW row, row.applied = 0, SawRequested(row, role), Grants!Propose(actor, q, row)
      PROVE  SeenInv' /\ SeenSteps
  BY <1>4, SeenWritesRequest DEF Grants!Propose, GrantInv, Grants!AppliedOnce
<1>5. ASSUME NEW keys \in {{"standard"}, {"assignment.create", "approval.approve", "manage", "standard"}},
             Grants!ProposeReplace(actor, q, r, keys)
      PROVE  SeenInv' /\ SeenSteps
  <2> DEFINE row == [blank EXCEPT !.capabilities = keys, !.version = role[r].version,
                       !.seen = role[r].capabilities]
  <2>1. /\ row.applied = 0 /\ row.role = r /\ row.version = role[r].version
        /\ row.seen = role[r].capabilities
    BY <1>1 DEF Grants!RequestRow
  <2>2. Grants!Propose(actor, q, row)
    BY <1>5 DEF Grants!ProposeReplace, blank
  <2> HIDE DEF row
  <2>3. SawRequested(row, role)
    BY <1>3, <2>1 DEF SawRequested, Saw
  <2> QED
    BY <1>4, <2>1, <2>2, <2>3
<1>6. ASSUME Grants!ProposeDisable(actor, q, r) PROVE SeenInv' /\ SeenSteps
  BY <1>1, <1>6, <1>4 DEF Grants!RequestRow, Grants!ProposeDisable, blank, SawRequested
<1>7. ASSUME NEW s \in Subject, Grants!ProposeAssign(actor, q, r, s, TRUE, Period)
      PROVE  SeenInv' /\ SeenSteps
  <2> DEFINE row == [blank EXCEPT !.type = "assign", !.subject = s, !.global = TRUE, !.period = Period]
  <2>1. row.applied = 0 /\ row.type = "assign"
    BY <1>1 DEF Grants!RequestRow
  <2>2. Grants!Propose(actor, q, row)
    BY <1>7 DEF Grants!ProposeAssign, blank
  <2> HIDE DEF row
  <2> QED
    BY <1>4, <2>1, <2>2 DEF SawRequested
<1> QED
  BY <1>5, <1>6, <1>7

LEMMA SeenRejects ==
  ASSUME GrantConstants, GrantInv, SeenInv, NEW actor \in Subject, NEW q \in Request,
         Grants!Reject(actor, q)
  PROVE  SeenInv' /\ SeenSteps
<1>1. /\ request[q].applied = 0 /\ UNCHANGED <<role, serving>>
      /\ request' = [request EXCEPT ![q] = Grants!Decided("rejected", request[q].applied)]
  BY GrantTypes DEF Grants!Reject, Grants!MayDecide, GrantInv, Grants!AppliedOnce
<1> DEFINE row == Grants!Decided("rejected", 0)
<1>2. row.status = "rejected" /\ row.applied = 0
  BY GrantDecided
<1>3. request' = [request EXCEPT ![q] = row]
  BY <1>1
<1> HIDE DEF row
<1> QED
  BY <1>1, <1>2, <1>3, SeenWritesRequest DEF SawRequested

LEMMA SeenBootstraps ==
  ASSUME GrantConstants, GrantInv, SeenInv, NEW s \in Subject, NEW t \in Subject,
         Grants!Bootstrap(s, t)
  PROVE  SeenInv' /\ SeenSteps
<1>1. UNCHANGED <<request, serving>> /\ GrantInv' /\ ~Grants!RoleLocked(BootRole)
  BY GrantBootstraps DEF Grants!Bootstrap
<1>2. role' \in [Role -> Grants!RoleRow]
  BY <1>1 DEF GrantInv, Grants!TypeOK
<1>3. role'[BootRole].status # "absent" /\ \A x \in Role : x # BootRole => role'[x] = role[x]
  BY GrantTypes DEF Grants!Bootstrap, GrantConstants
<1>4. SeenInv'
  BY <1>3, <1>1, <1>2, SeenMoves DEF Grants!RoleLocked, Writing
<1>5. \A q \in Request : request[q].applied \in Nat
  BY GrantTypes DEF Grants!RequestRow
<1>6. SeenSteps
  BY <1>1, <1>3, <1>5 DEF SeenSteps, ApprovedElsewhereAsSeen, PrivilegesElsewhereApproved
<1> QED
  BY <1>4, <1>6

\* Every step keeps what was seen, and changes a role as it was seen.
LEMMA SeenNextKeeps ==
  ASSUME GrantConstants, GrantInv, SeenInv, [Grants!Next]_grantVars
  PROVE  SeenInv' /\ SeenSteps
<1>1. ASSUME NEW p \in Process, Grants!Serving(p) PROVE SeenInv' /\ SeenSteps
  <2>1. CASE Grants!CommitReplace(p) \/ Grants!CommitApprove(p)
    BY <2>1, SeenCommitsReplace, SeenApproves
  <2>2. CASE ~(Grants!CommitReplace(p) \/ Grants!CommitApprove(p))
    BY <1>1, <2>2, SeenBegins, SeenLocksRole, SeenLocksRequest, SeenStops, NothingApplied DEF
       Grants!Serving, Period
  <2> QED
    BY <2>1, <2>2
<1>2. ASSUME NEW actor \in Subject, NEW q \in Request, Grants!Proposing(actor, q)
      PROVE  SeenInv' /\ SeenSteps
  BY <1>2, SeenProposes, SeenRejects DEF Grants!Proposing, Period
<1>3. CASE Grants!Tick \/ UNCHANGED grantVars
  BY <1>3, NothingApplied DEF Grants!Tick, grantVars, SeenInv
<1> QED
  BY <1>1, <1>2, <1>3, SeenRoles, SeenBootstraps DEF Grants!Next

-----------------------------------------------------------------------------
(* Idempotency keys: a reservation per execution, one outcome while none   *)
(* lapses.                                                                 *)

Key4 == 1..4
\* Requests whose command may still commit, or has.
Executing == {r \in Key4 : step[r] = "run"} \cup executed
\* Requests whose own outcome the key records, or may.
Owners == {r \in Key4 : step[r] \in {"run", "record"} \/ outcome[r] = r}
KeyUntouched ==
  record = Nil => executed = {} /\ \A r \in Key4 : step[r] = "idle" /\ outcome[r] = Nil
ExecutingCounted ==
  Cardinality(Executing) <= 1 + reclaims /\ (record = Nil => Executing = {})
SameContent ==
  \A r \in Key4 : step[r] \in {"run", "record"} \/ outcome[r] # Nil => Hashes[r] = record.hash
AnswersOwned ==
  \A r \in Key4 : outcome[r] # Nil =>
    step[r] = "done" /\ outcome[r] \in Key4 /\ outcome[outcome[r]] = outcome[r]
OutcomeOwned ==
  record # Nil /\ record.completed =>
    record.result \in Owners /\ outcome[record.result] = record.result
OneOwner == reclaims = 0 => \A q, r \in Owners : q = r
KeyInv ==
  /\ Reservations!KeyTypeOK /\ KeyUntouched /\ ExecutingCounted /\ SameContent
  /\ AnswersOwned /\ OutcomeOwned /\ OneOwner

LEMMA KeyInit == ASSUME KeyConstants, Reservations!KeyInit PROVE KeyInv
<1>1. Executing = {} /\ Owners = {}
  BY DEF KeyConstants, Reservations!KeyInit, Executing, Owners, Key4
<1>2. Cardinality(Executing) = 0
  BY <1>1, FS_EmptySet
<1>3. lapsed \in BOOLEAN
  BY DEF Reservations!KeyInit
<1>4. Reservations!KeyTypeOK
  BY <1>3 DEF Reservations!KeyInit, Reservations!KeyTypeOK, Reservations!KeyStep
<1> QED BY <1>1, <1>2, <1>4 DEF KeyConstants, Reservations!KeyInit, KeyInv, Key4, KeyUntouched,
     ExecutingCounted, SameContent, AnswersOwned, OutcomeOwned, OneOwner

LEMMA KeyTyped ==
  ASSUME KeyConstants, KeyInv, Reservations!KeyNext PROVE Reservations!KeyTypeOK'
<1>1. \A r \in Key4 : [hash |-> Hashes[r], completed |-> FALSE, result |-> Nil] \in Reservations!KeyRow
  BY DEF Reservations!KeyRow, Key4
<1>2. \A r \in Key4 : record # Nil =>
        [record EXCEPT !.completed = TRUE, !.result = r] \in Reservations!KeyRow
  BY DEF KeyInv, Reservations!KeyTypeOK, Reservations!KeyRow, Key4
<1>3. \A r \in Key4 : record # Nil => record.result \in Key4 \cup {Nil}
  BY DEF KeyInv, Reservations!KeyTypeOK, Reservations!KeyRow, Key4
<1>4. CASE Reservations!LapseKey
  BY <1>4 DEF KeyInv, Reservations!LapseKey, Reservations!KeyTypeOK
<1>5. ASSUME NEW r \in Key4, Reservations!ReserveKey(r) PROVE Reservations!KeyTypeOK'
  <2>1. lapsed' \in BOOLEAN
    BY <1>5, Zenon DEF KeyInv, Reservations!KeyTypeOK, Reservations!ReserveKey
  <2>2. record' \in Reservations!KeyRow \cup {Nil} /\ executed' \subseteq Key4
    BY <1>1, <1>5 DEF KeyInv, Reservations!KeyTypeOK, Reservations!ReserveKey, Reservations!Reserved,
       Key4
  <2>3. step' \in [Key4 -> Reservations!KeyStep]
    BY <1>5 DEF KeyInv, Reservations!KeyTypeOK, Reservations!ReserveKey, Reservations!Goto,
       Reservations!KeyStep, Key4
  <2>4. outcome' \in [Key4 -> Key4 \cup {Nil}] /\ reclaims' \in 0..1
    BY <1>3, <1>5 DEF KeyInv, Reservations!KeyTypeOK, Reservations!ReserveKey, Key4
  <2> QED BY <2>1, <2>2, <2>3, <2>4 DEF Reservations!KeyTypeOK, Key4
<1>6. ASSUME NEW r \in Key4, Reservations!RunCommand(r) \/ Reservations!CrashCommand(r)
      PROVE  Reservations!KeyTypeOK'
  BY <1>6 DEF KeyInv, Reservations!RunCommand, Reservations!CrashCommand, Reservations!Goto,
     Reservations!KeyTypeOK, Reservations!KeyStep, Key4
<1>7. ASSUME NEW r \in Key4, Reservations!RecordOutcome(r) PROVE Reservations!KeyTypeOK'
  BY <1>7, <1>2 DEF KeyInv, Reservations!KeyTypeOK, Reservations!RecordOutcome, KeyUntouched,
     Reservations!Goto, Reservations!KeyStep, Key4
<1> QED BY <1>4, <1>5, <1>6, <1>7 DEF Reservations!KeyNext, Key4

\* What is kept of the key's row and of the requests by every step.
LEMMA KeysFinite == IsFiniteSet(Key4)
<1>1. 1 \in Int /\ 4 \in Int
  OBVIOUS
<1> QED BY <1>1, FS_Interval DEF Key4

LEMMA KeyStays ==
  ASSUME KeyConstants, KeyInv, UNCHANGED <<record, step, outcome, executed, reclaims>>,
         Reservations!KeyTypeOK'
  PROVE  KeyInv'
BY DEF Executing, Owners, KeyInv, KeyUntouched, ExecutingCounted, SameContent, AnswersOwned,
   OutcomeOwned, OneOwner

LEMMA KeyReserved ==
  ASSUME KeyConstants, KeyInv, NEW r \in Key4, Reservations!ReserveKey(r),
         Reservations!KeyTypeOK'
  PROVE  KeyInv'
<1>a. /\ step \in [Key4 -> Reservations!KeyStep] /\ step[r] = "idle" /\ executed \subseteq Key4
      /\ outcome \in [Key4 -> Key4 \cup {Nil}] /\ reclaims \in Nat /\ r # Nil
  BY DEF KeyConstants, KeyInv, Reservations!ReserveKey, Reservations!KeyTypeOK, Key4
<1>b. IsFiniteSet(Key4)
  BY KeysFinite
<1>c. outcome[r] = Nil
  BY <1>a DEF KeyInv, AnswersOwned
<1>0. /\ step \in [Key4 -> Reservations!KeyStep] /\ step[r] = "idle" /\ outcome[r] # r
      /\ outcome[r] = Nil /\ r # Nil /\ Executing \subseteq Key4 /\ IsFiniteSet(Key4)
      /\ outcome \in [Key4 -> Key4 \cup {Nil}] /\ reclaims \in Nat /\ r \notin Owners
  BY <1>a, <1>b, <1>c DEF Executing, Owners
<1>1. IsFiniteSet(Executing) /\ Cardinality(Executing) \in Nat
  BY <1>0, FS_Subset, FS_CardinalityType
<1>2. Cardinality(Executing \cup {r}) <= Cardinality(Executing) + 1
  <2>1. Cardinality(Executing \cup {r}) =
          IF r \in Executing THEN Cardinality(Executing) ELSE Cardinality(Executing) + 1
    BY <1>1, FS_AddElement, Zenon
  <2> QED BY <1>1, <2>1
<1>3. CASE Reservations!Goto(r, "conflict")
  <2>1. step' = [step EXCEPT ![r] = "conflict"] /\ UNCHANGED <<record, outcome, executed, reclaims>>
    BY <1>0, <1>3 DEF Reservations!ReserveKey, Reservations!Goto, Reservations!KeyStep
  <2>2. Executing' = Executing /\ Owners' = Owners
    BY <1>0, <2>1 DEF Executing, Owners
  <2>3. SameContent' /\ AnswersOwned'
    BY <1>0, <2>1 DEF KeyInv, SameContent, AnswersOwned
  <2>4. record # Nil
    BY <1>0, <1>3 DEF Reservations!ReserveKey, Reservations!Goto, Reservations!KeyStep
  <2> QED BY <2>1, <2>2, <2>3, <2>4
      DEF KeyInv, KeyUntouched, ExecutingCounted, OutcomeOwned, OneOwner
<1>4. CASE Reservations!Goto(r, "done")
  <2>1. /\ step' = [step EXCEPT ![r] = "done"] /\ UNCHANGED <<record, executed, reclaims>>
        /\ outcome' = [outcome EXCEPT ![r] = record.result]
        /\ record # Nil /\ record.completed /\ record.hash = Hashes[r]
    BY <1>0, <1>4 DEF Reservations!ReserveKey, Reservations!Goto, Reservations!KeyStep
  <2>2. record.result \in Owners /\ record.result # r /\ record.result \in Key4
    BY <1>0, <2>1 DEF KeyInv, OutcomeOwned, Owners
  <2>3. Executing' = Executing /\ Owners' = Owners
    BY <1>0, <2>1, <2>2 DEF Executing, Owners
  <2>a. SameContent'
    BY <1>0, <2>1, <2>2 DEF KeyInv, SameContent
  <2>b. \A q \in Key4 : outcome[q] # Nil => outcome[q] # r /\ q # r
    BY <1>0 DEF KeyInv, AnswersOwned
  <2>c. outcome[record.result] = record.result
    BY <2>1 DEF KeyInv, OutcomeOwned
  <2>4. SameContent' /\ AnswersOwned'
    BY <1>0, <2>1, <2>2, <2>a, <2>b, <2>c DEF KeyInv, AnswersOwned
  <2>5. outcome'[record.result] = outcome[record.result]
    BY <1>0, <2>1, <2>2
  <2> QED BY <2>1, <2>3, <2>4, <2>5
      DEF KeyInv, KeyUntouched, ExecutingCounted, OutcomeOwned, OneOwner
<1>5. CASE Reservations!Goto(r, "run")
  <2>1. /\ step' = [step EXCEPT ![r] = "run"] /\ UNCHANGED <<outcome, executed>>
        /\ record' = [hash |-> Hashes[r], completed |-> FALSE, result |-> Nil]
        /\ \/ record = Nil /\ reclaims' = reclaims
           \/ record # Nil /\ record.hash = Hashes[r] /\ reclaims' = reclaims + 1
    BY <1>0, <1>5 DEF Reservations!ReserveKey, Reservations!Goto, Reservations!KeyStep,
       Reservations!Reserved
  <2>2. Executing' = Executing \cup {r} /\ Owners' = Owners \cup {r}
    BY <1>0, <2>1 DEF Executing, Owners
  <2>3. record' # Nil /\ record'.hash = Hashes[r] /\ record'.completed = FALSE
    <3>1. [hash |-> Hashes[r], completed |-> FALSE, result |-> Nil] \in Reservations!KeyRow
      BY DEF Reservations!KeyRow, Key4
    <3> QED BY <2>1, <3>1 DEF KeyConstants
  <2>4. record = Nil => Cardinality(Executing) = 0 /\ Owners = {}
    <3>1. Cardinality({}) = 0
      BY FS_EmptySet
    <3> QED BY ZenonT(60), <1>0, <3>1 DEF KeyConstants, KeyInv, KeyUntouched, ExecutingCounted, Owners, Key4
  <2>5. Cardinality(Executing') <= 1 + reclaims'
    <3>1. Cardinality(Executing') \in Nat
      BY <1>0, <1>1, <2>2, FS_AddElement, FS_CardinalityType
    <3>2. Cardinality(Executing') <= Cardinality(Executing) + 1
      BY <1>2, <2>2
    <3> QED BY <1>0, <1>1, <2>1, <2>4, <3>1, <3>2 DEF KeyInv, ExecutingCounted
  <2>6. \A q \in Key4 : step'[q] \in {"run", "record"} \/ outcome'[q] # Nil =>
          Hashes[q] = record'.hash
    BY <1>0, <2>1, <2>3 DEF KeyInv, KeyUntouched, SameContent
  <2>7. AnswersOwned'
    BY <1>0, <2>1, <2>2 DEF KeyInv, AnswersOwned
  <2>8. reclaims' = 0 => \A q, s \in Owners' : q = s
    BY <1>0, <2>1, <2>2, <2>4 DEF KeyInv, OneOwner
  <2> QED BY <2>3, <2>5, <2>6, <2>7, <2>8
      DEF KeyInv, KeyUntouched, ExecutingCounted, SameContent, AnswersOwned, OutcomeOwned, OneOwner
<1> QED BY <1>3, <1>4, <1>5 DEF Reservations!ReserveKey

LEMMA KeyRan ==
  ASSUME KeyConstants, KeyInv, NEW r \in Key4, Reservations!KeyTypeOK',
         Reservations!RunCommand(r) \/ Reservations!CrashCommand(r)
  PROVE  KeyInv'
<1>a. /\ step \in [Key4 -> Reservations!KeyStep] /\ outcome \in [Key4 -> Key4 \cup {Nil}]
      /\ reclaims \in Nat /\ executed \subseteq Key4 /\ step[r] \in {"run", "record"}
  BY DEF KeyInv, Reservations!KeyTypeOK, Key4, Reservations!RunCommand, Reservations!CrashCommand
<1>b. IsFiniteSet(Key4)
  BY KeysFinite
<1>c. record # Nil
  BY <1>a DEF KeyInv, KeyUntouched
<1>0. /\ step \in [Key4 -> Reservations!KeyStep] /\ outcome \in [Key4 -> Key4 \cup {Nil}]
      /\ reclaims \in Nat /\ Executing \subseteq Key4 /\ IsFiniteSet(Key4)
      /\ step[r] \in {"run", "record"} /\ record # Nil
  BY <1>a, <1>b, <1>c DEF Executing
<1>1. PICK s \in {"record", "failed"} :
        /\ step' = [step EXCEPT ![r] = s] /\ UNCHANGED <<record, outcome, reclaims>>
        /\ executed' = executed \/ (step[r] = "run" /\ executed' = executed \cup {r})
  BY DEF Reservations!RunCommand, Reservations!CrashCommand, Reservations!Goto
<1>2. Executing' \subseteq Executing /\ Owners' \subseteq Owners
  BY <1>0, <1>1 DEF Executing, Owners
<1>3. Cardinality(Executing') <= Cardinality(Executing) /\ Cardinality(Executing) \in Nat
      /\ Cardinality(Executing') \in Nat
  BY <1>0, <1>2, FS_Subset, FS_CardinalityType
<1>4. \A q \in Key4 : q \in Owners /\ outcome[q] = q => q \in Owners'
  BY <1>0, <1>1 DEF Owners
<1>5. \A q \in Key4 : outcome[q] # Nil => q # r
  BY <1>0 DEF KeyInv, AnswersOwned
<1>6. AnswersOwned'
  BY <1>0, <1>1, <1>5 DEF KeyInv, AnswersOwned
<1>7. ExecutingCounted'
  BY <1>0, <1>1, <1>2, <1>3 DEF KeyInv, ExecutingCounted
<1>8. SameContent'
  BY <1>0, <1>1 DEF KeyInv, SameContent
<1>9. OutcomeOwned'
  BY <1>0, <1>1, <1>4 DEF KeyInv, OutcomeOwned, Owners
<1> QED BY <1>0, <1>1, <1>2, <1>6, <1>7, <1>8, <1>9
        DEF KeyInv, KeyUntouched, OneOwner

LEMMA KeyRecorded ==
  ASSUME KeyConstants, KeyInv, NEW r \in Key4, Reservations!KeyTypeOK',
         Reservations!RecordOutcome(r)
  PROVE  KeyInv'
<1>1. /\ step[r] = "record" /\ step' = [step EXCEPT ![r] = "done"]
      /\ outcome' = [outcome EXCEPT ![r] = r] /\ UNCHANGED <<executed, reclaims>>
      /\ record' = [record EXCEPT !.completed = TRUE, !.result = r]
  BY DEF Reservations!RecordOutcome, Reservations!Goto
<1>2. /\ step \in [Key4 -> Reservations!KeyStep] /\ outcome \in [Key4 -> Key4 \cup {Nil}]
      /\ executed \subseteq Key4 /\ r # Nil /\ r \in Owners
      /\ record \in Reservations!KeyRow \cup {Nil}
  BY <1>1 DEF KeyConstants, KeyInv, Reservations!KeyTypeOK, Key4, Owners
<1>3. record # Nil /\ record \in Reservations!KeyRow
  BY <1>1, <1>2 DEF KeyInv, KeyUntouched
<1>4. record'.hash = record.hash /\ record'.result = r /\ record' \in Reservations!KeyRow
  BY <1>1, <1>3 DEF Reservations!KeyRow, Key4
<1>5. record' # Nil
  BY <1>4 DEF KeyConstants
<1>6. Executing' = Executing /\ Owners' = Owners
  BY <1>1, <1>2 DEF Executing, Owners
<1>7. ExecutingCounted'
  BY <1>1, <1>3, <1>5, <1>6 DEF KeyInv, ExecutingCounted
<1>8. SameContent'
  BY <1>1, <1>2, <1>4 DEF KeyInv, SameContent
<1>9. AnswersOwned'
  BY <1>1, <1>2 DEF KeyInv, AnswersOwned
<1>10. OutcomeOwned'
  BY <1>1, <1>2, <1>4, <1>6 DEF OutcomeOwned
<1> QED BY <1>1, <1>5, <1>6, <1>7, <1>8, <1>9, <1>10 DEF KeyInv, KeyUntouched, OneOwner

LEMMA KeyNextKeeps ==
  ASSUME KeyConstants, KeyInv, [Reservations!KeyNext]_(Reservations!keyVars) PROVE KeyInv'
<1>1. CASE UNCHANGED Reservations!keyVars
  BY <1>1, KeyStays DEF KeyInv, Reservations!KeyTypeOK, Reservations!keyVars
<1>2. CASE Reservations!KeyNext
  BY <1>2, KeyTyped, KeyStays, KeyReserved, KeyRan, KeyRecorded DEF Reservations!LapseKey,
     Reservations!KeyNext, Key4
<1> QED BY <1>1, <1>2

\* A command commits once per reservation of its key, and the replies agree.
LEMMA RepliesOfKey ==
  ASSUME KeyConstants, KeyInv
  PROVE  Reservations!ExecutedOncePerReservation /\ Reservations!RepliesAgree
<1>1. Reservations!RepliesAgree
  BY DEF Reservations!RepliesAgree, Key4, KeyInv, SameContent, AnswersOwned, Owners, OneOwner
<1>2. executed \subseteq Executing /\ Executing \subseteq Key4 /\ reclaims \in Nat
  <2>1. executed \subseteq Key4 /\ reclaims \in Nat
    BY DEF KeyInv, Reservations!KeyTypeOK, Key4
  <2> QED BY <2>1 DEF Executing
<1>3. /\ Cardinality(executed) <= Cardinality(Executing)
      /\ Cardinality(executed) \in Nat /\ Cardinality(Executing) \in Nat
  BY <1>2, KeysFinite, FS_Subset, FS_CardinalityType
<1>4. Reservations!Cardinality(executed) = Cardinality(executed)
  BY DEF Reservations!Cardinality, Cardinality, Reservations!IsFiniteSet, IsFiniteSet
<1> QED BY <1>1, <1>2, <1>3, <1>4
        DEF KeyInv, ExecutingCounted, Reservations!ExecutedOncePerReservation

-----------------------------------------------------------------------------
(* The reservations of controlled applies.                                 *)

ApplyInv == Reservations!ApplyTypeOK /\ Reservations!NonceSpentOnce

LEMMA ApplyInit == ASSUME ApplyConstants, Reservations!ApplyInit PROVE ApplyInv
BY DEF Reservations!ApplyInit, ApplyInv, Reservations!ApplyTypeOK, Reservations!NonceSpentOnce

\* A new row is of a nonce no other row has.
LEMMA ApplyReserved ==
  ASSUME ApplyConstants, ApplyInv, NEW c \in Process, Reservations!ReserveApply(c)
  PROVE  ApplyInv'
<1>0. /\ reservation \in [{"k1", "k2"} -> Reservations!ApplyRow \cup {Nil}]
      /\ verified \in [Process -> Reservations!VerifiedRequest \cup {Nil}] /\ clock \in 0..1
      /\ verified[c] # Nil /\ clock' = clock /\ verified' = [verified EXCEPT ![c] = Nil]
  BY DEF ApplyInv, Reservations!ApplyTypeOK, Reservations!ReserveApply
<1> DEFINE x == verified[c]
           row == [request |-> x, state |-> "reserved", receipt |-> Nil]
<1>1. x \in Reservations!VerifiedRequest /\ x.key \in {"k1", "k2"}
  BY <1>0 DEF Reservations!VerifiedRequest
<1>2. row \in Reservations!ApplyRow /\ row.request = x
  BY <1>1 DEF Reservations!ApplyRow, Reservations!ApplyState
<1>3. \/ UNCHANGED reservation
      \/ /\ reservation' = [reservation EXCEPT ![x.key] = row]
         /\ \A k \in {"k1", "k2"} : reservation[k] # Nil => reservation[k].request.nonce # x.nonce
  BY DEF Reservations!ReserveApply
<1>4. Reservations!ApplyTypeOK'
  <2> HIDE DEF row, x
  <2> QED BY <1>0, <1>1, <1>2, <1>3 DEF Reservations!ApplyTypeOK
<1>5. Reservations!NonceSpentOnce'
  <2> HIDE DEF row, x
  <2> QED BY <1>0, <1>1, <1>2, <1>3 DEF ApplyInv, Reservations!NonceSpentOnce
<1> QED BY <1>4, <1>5 DEF ApplyInv

\* Settling keeps the request of its row, and only touches one that is reserved.
LEMMA ApplySettled ==
  ASSUME ApplyConstants, ApplyInv, NEW k \in {"k1", "k2"}, NEW claim \in {"l1", "l2"},
         NEW receipt \in {"p1", "p2"}, NEW state \in {"completed", "cancelled"},
         Reservations!Settle(k, claim, receipt, state)
  PROVE  /\ ApplyInv'
         /\ \A j \in {"k1", "k2"} : reservation[j] # Nil =>
              /\ reservation'[j] # Nil /\ reservation'[j].request = reservation[j].request
              /\ reservation[j].state # "reserved" => reservation'[j] = reservation[j]
BY DEF ApplyInv, Reservations!ApplyTypeOK, Reservations!Settle, Reservations!ApplyRow,
   Reservations!ApplyState, ApplyConstants, Reservations!NonceSpentOnce

LEMMA ApplyNextKeeps ==
  ASSUME ApplyConstants, ApplyInv, [Reservations!ApplyNext]_(Reservations!applyVars)
  PROVE  /\ ApplyInv'
         /\ \A j \in {"k1", "k2"} : reservation[j] # Nil =>
              /\ reservation'[j].request = reservation[j].request
              /\ reservation[j].state # "reserved" => reservation'[j] = reservation[j]
<1>0. Reservations!ApplyTypeOK
  BY DEF ApplyInv
<1>1. CASE reservation' = reservation
  <2>1. Reservations!ApplyTypeOK'
    <3>0. UNCHANGED clock \/ (clock < 1 /\ clock' = clock + 1)
      BY DEF Reservations!ApplyNext, Reservations!applyVars,
         Reservations!ReserveApply, Reservations!VerifyApply, Reservations!Tick,
         Reservations!CompleteApply, Reservations!CancelApply, Reservations!Settle
    <3>1. clock' \in 0..1
      BY <1>0, <3>0 DEF Reservations!ApplyTypeOK
    <3>2. \/ UNCHANGED verified
          \/ \E c \in Process : verified' = [verified EXCEPT ![c] = Nil]
          \/ \E c \in Process, x \in Reservations!VerifiedRequest :
               verified' = [verified EXCEPT ![c] = x]
      BY DEF Reservations!ApplyNext, Reservations!applyVars, Reservations!ReserveApply,
         Reservations!VerifyApply, Reservations!Tick, Reservations!CompleteApply,
         Reservations!CancelApply, Reservations!Settle
    <3> QED BY <1>0, <1>1, <3>1, <3>2 DEF Reservations!ApplyTypeOK
  <2> QED BY <1>1, <2>1 DEF ApplyInv, Reservations!NonceSpentOnce
<1>2. ASSUME NEW c \in Process, Reservations!ReserveApply(c)
      PROVE  /\ ApplyInv'
             /\ \A j \in {"k1", "k2"} : reservation[j] # Nil => reservation'[j] = reservation[j]
  BY <1>0, <1>2, ApplyReserved DEF Reservations!ReserveApply, Reservations!ApplyTypeOK
<1>3. ASSUME NEW k \in {"k1", "k2"}, NEW claim \in {"l1", "l2"}, NEW receipt \in {"p1", "p2"},
             \/ Reservations!CompleteApply(k, claim, receipt)
             \/ Reservations!CancelApply(k, claim, receipt)
      PROVE  /\ ApplyInv'
             /\ \A j \in {"k1", "k2"} : reservation[j] # Nil =>
                  /\ reservation'[j].request = reservation[j].request
                  /\ reservation[j].state # "reserved" => reservation'[j] = reservation[j]
  BY <1>3, ApplySettled DEF Reservations!CompleteApply, Reservations!CancelApply
<1> QED BY <1>1, <1>2, <1>3 DEF Reservations!ApplyNext, Reservations!applyVars,
           Reservations!VerifyApply, Reservations!Tick

-----------------------------------------------------------------------------
(* The evaluation run.                                                     *)

\* What a runner is doing.
RunnerRow ==
  [step : {"off", "queue", "materialize", "start", "claim", "handle", "complete", "check",
           "grade", "compare", "collect", "seal"},
   case : Assignment \cup {Nil}, attempt : 0..2, allowance : 0..2, used : 0..3, version : Nat,
   bundle : Evaluation!Evidence \cup {Nil}]

Leasing(r) == runner[r].step \in {"handle", "complete"}
Busy(c) == task[c].status = "running"
AllDone == task # Nil /\ \A c \in Assignment : task[c].status = "completed"

EvaluationTyped ==
  /\ run \in [status : Evaluation!States, version : Nat, completed : 0..Cardinality(Assignment),
              evidence : Evaluation!Evidence \cup {Nil}]
  /\ task = Nil \/ task \in [Assignment -> Evaluation!Task]
  /\ results \subseteq Evaluation!Result /\ IsFiniteSet(results)
  /\ runner \in [Process -> RunnerRow]
  /\ revoked \subseteq Evaluation!Definitions /\ spent \in Nat

\* Cases are there before they run, one at a time; past them, all are completed.
TasksStand ==
  /\ run.status \in {"running", "grading", "comparing", "decision_ready"} => task # Nil
  /\ run.status \in {"absent", "requested", "queued"} => run.completed = 0 /\ results = {}
  /\ run.status = "running" /\ Evaluation!Whole => AllDone
  /\ run.status \in {"grading", "comparing", "decision_ready"} => AllDone
  /\ task # Nil => /\ \A c, d \in Assignment : Busy(c) /\ Busy(d) => c = d
                   /\ \A c \in Assignment : Busy(c) => task[c].attempt >= 1

\* A result is of an attempt made, not of one under way, and is the only one of it.
ResultsStand ==
  /\ \A x \in results :
       /\ task # Nil /\ x.attempt <= task[x.case].attempt
       /\ run.status = "running" /\ Busy(x.case) => x.attempt < task[x.case].attempt
  /\ \A x, y \in results : x.case = y.case /\ x.attempt = y.attempt => x = y

\* What a runner relies on: while the run is running, the case of its lease is under
\* way, and what it may still spend is left.
Relies(r) ==
  /\ runner[r].step = "start" => task # Nil
  /\ runner[r].step = "grade" =>
       /\ run.status \notin {"absent", "requested", "queued"}
       /\ run.status = "running" => AllDone
  /\ Leasing(r) =>
       /\ runner[r].case \in Assignment /\ runner[r].attempt \in 1..2 /\ task # Nil
       /\ run.status \in {"running", "failed", "cancelled"}
       /\ run.status = "running" => /\ Busy(runner[r].case)
                                    /\ task[runner[r].case].attempt = runner[r].attempt
  /\ runner[r].step = "handle" =>
       /\ spent + runner[r].allowance <= 2
       /\ run.status = "running" => spent <= Evaluation!Consumed
  /\ runner[r].step = "complete" /\ run.status = "running" =>
       spent <= Evaluation!Consumed + runner[r].used
RunnersStand ==
  /\ \A r \in Process : Relies(r)
  /\ \A r, q \in Process : Leasing(r) /\ Leasing(q) => r = q

AccountsStand ==
  /\ Evaluation!Consumed <= 2 /\ spent <= 2
  /\ run.status = "failed" => Evaluation!Consumed = 2
  /\ run.status # "cancelled" /\ (task = Nil \/ \A c \in Assignment : ~Busy(c)) =>
       spent <= Evaluation!Consumed

EvaluationInv ==
  /\ EvaluationTyped /\ TasksStand /\ ResultsStand /\ RunnersStand /\ AccountsStand
  /\ Evaluation!SealedFromResults

LEMMA CasesCounted ==
  ASSUME EvaluationConstants
  PROVE  /\ Cardinality(Assignment) \in Nat
         /\ Evaluation!Cardinality(Assignment) = Cardinality(Assignment)
BY FS_CardinalityType DEF EvaluationConstants, Evaluation!Cardinality, Cardinality,
   Evaluation!IsFiniteSet, IsFiniteSet

\* What results used is counted in units.
Units(R) == UNION {{x} \X (1..x.used) : x \in R}
LEMMA ConsumedIsUnits == Evaluation!Consumed = Cardinality(Units(results))
BY DEF Evaluation!Consumed, Units, Evaluation!Cardinality, Cardinality,
   Evaluation!IsFiniteSet, IsFiniteSet

LEMMA UnitsCounted ==
  ASSUME NEW R \in SUBSET Evaluation!Result, IsFiniteSet(R)
  PROVE  IsFiniteSet(Units(R)) /\ Cardinality(Units(R)) \in Nat
<1>1. IsFiniteSet(1..2)
  BY FS_Interval, 1 \in Int, 2 \in Int
<1>2. IsFiniteSet(R \X (1..2))
  BY <1>1, FS_Product
<1>3. Units(R) \subseteq R \X (1..2)
  BY DEF Evaluation!Result, Units
<1>4. IsFiniteSet(Units(R))
  BY <1>2, <1>3, FS_Subset
<1> QED BY <1>4, FS_CardinalityType

LEMMA UnitsAdded ==
  ASSUME NEW R \in SUBSET Evaluation!Result, IsFiniteSet(R), NEW x \in Evaluation!Result, x \notin R
  PROVE  Cardinality(Units(R \cup {x})) = Cardinality(Units(R)) + x.used
<1> DEFINE mine == {x} \X (1..x.used)
<1>1. x.used \in 0..2
  BY DEF Evaluation!Result
<1>2. IsFiniteSet({x}) /\ Cardinality({x}) = 1
  BY FS_Singleton
<1>3. IsFiniteSet(1..x.used) /\ Cardinality(1..x.used) = x.used
  BY <1>1, FS_Interval
<1>4. IsFiniteSet(mine) /\ Cardinality(mine) = x.used
  BY <1>2, <1>3, FS_Product, <1>1
<1>5. Units(R \cup {x}) = Units(R) \cup mine
  BY DEF Units
<1>6. Units(R) \cap mine = {}
  BY DEF Units
<1>7. IsFiniteSet(Units(R)) /\ Cardinality(Units(R)) \in Nat
  BY UnitsCounted
<1> HIDE DEF mine
<1>8. Cardinality(Units(R) \cup mine) =
        Cardinality(Units(R)) + Cardinality(mine) - Cardinality(Units(R) \cap mine)
  BY <1>4, <1>7, FS_Union
<1>9. Cardinality(Units(R) \cap mine) = 0
  BY <1>6, FS_EmptySet
<1>10. Cardinality(Units(R) \cup mine) = Cardinality(Units(R)) + x.used
  BY <1>1, <1>4, <1>7, <1>8, <1>9
<1> QED BY <1>5, <1>10

\* Results with one more.
LEMMA ConsumedGrows ==
  ASSUME EvaluationTyped, NEW x \in Evaluation!Result, x \notin results,
         results' = results \cup {x}
  PROVE  /\ Evaluation!Consumed' = Evaluation!Consumed + x.used
         /\ results' \subseteq Evaluation!Result /\ IsFiniteSet(results')
<1>1. results \in SUBSET Evaluation!Result /\ IsFiniteSet(results)
  BY DEF EvaluationTyped
<1>2. Cardinality(Units(results \cup {x})) = Cardinality(Units(results)) + x.used
  BY <1>1, UnitsAdded
<1>3. Evaluation!Consumed' = Cardinality(Units(results'))
  BY DEF Evaluation!Consumed, Units, Evaluation!Cardinality, Cardinality,
     Evaluation!IsFiniteSet, IsFiniteSet
<1>4. IsFiniteSet(results \cup {x})
  BY <1>1, FS_AddElement
<1> QED BY <1>1, <1>2, <1>3, <1>4, ConsumedIsUnits

LEMMA ConsumedIsNatural ==
  ASSUME EvaluationTyped
  PROVE  /\ Evaluation!Consumed \in Nat
         /\ results' = results => Evaluation!Consumed' = Evaluation!Consumed
         /\ Evaluation!Consumed <= 2 =>
              Evaluation!Remaining = 2 - Evaluation!Consumed /\ Evaluation!Remaining \in 0..2
<1>1. Evaluation!Consumed \in Nat
  BY ConsumedIsUnits, UnitsCounted DEF EvaluationTyped
<1>2. results' = results => Evaluation!Consumed' = Evaluation!Consumed
  BY DEF Evaluation!Consumed
<1>3. Evaluation!Consumed <= 2 =>
        Evaluation!Remaining = 2 - Evaluation!Consumed /\ Evaluation!Remaining \in 0..2
  BY <1>1 DEF Evaluation!Remaining
<1> QED BY <1>1, <1>2, <1>3

LEMMA EvaluationInit == ASSUME EvaluationConstants, Evaluation!Init PROVE EvaluationInv
<1>1. Evaluation!Idle \in RunnerRow /\ Evaluation!Idle.step = "off"
  BY DEF Evaluation!Idle, RunnerRow
<1>2. IsFiniteSet({})
  BY FS_EmptySet
<1>3. EvaluationTyped
  BY <1>1, CasesCounted, <1>2 DEF Evaluation!Init, Evaluation!States, EvaluationTyped
<1>4. Evaluation!Consumed \in Nat /\ Evaluation!Consumed <= 2
  BY ConsumedIsUnits, FS_EmptySet DEF Units, Evaluation!Init
<1>5. TasksStand /\ ResultsStand
  BY DEF Evaluation!Init, TasksStand, ResultsStand
<1>6. RunnersStand
  BY <1>1 DEF Evaluation!Init, RunnersStand, Relies, Leasing
<1>7. AccountsStand
  BY <1>4 DEF Evaluation!Init, AccountsStand
<1>8. Evaluation!SealedFromResults
  BY DEF Evaluation!Init, Evaluation!SealedFromResults
<1> QED BY <1>3, <1>5, <1>6, <1>7, <1>8 DEF EvaluationInv

\* Evidence made from sound results.
LEMMA BundleTyped ==
  ASSUME EvaluationConstants, EvaluationTyped, ResultsStand, Evaluation!Sound
  PROVE  Evaluation!Bundle \in Evaluation!Evidence
<1> DEFINE latest == Evaluation!Latest
           good == {x \in latest : x.outcome = "valid"}
<1>1. {x.case : x \in latest} = Assignment /\ latest \subseteq results
      /\ \A x \in latest : x.attempt = Evaluation!LastAttempt(x.case)
  BY DEF Evaluation!Sound, Evaluation!Latest
<1>2. latest \subseteq Evaluation!Result
  BY <1>1 DEF EvaluationTyped
<1>3. ASSUME NEW c \in Assignment PROVE Evaluation!LastAttempt(c) \in 1..2
  BY <1>1, <1>2 DEF Evaluation!Result
<1>4. [c \in Assignment |-> Evaluation!LastAttempt(c)] \in [Assignment -> 1..2]
  BY <1>3
<1>5. /\ IsFiniteSet(latest) /\ Cardinality(latest) \in Nat
      /\ Cardinality(latest) <= Cardinality(Assignment)
  <2> DEFINE f == [x \in latest |-> x.case]
  <2>1. \A x, y \in latest : x.case = y.case => x = y
    BY <1>1 DEF ResultsStand
  <2>2. \A x \in latest : x.case \in Assignment
    BY <1>1
  <2>3. f \in [latest -> Assignment] /\ \A x, y \in latest : f[x] = f[y] => x = y
    BY <2>1, <2>2
  <2> HIDE DEF f, latest
  <2>4. f \in Injection(latest, Assignment)
    BY <2>3 DEF Injection, IsInjective
  <2> QED BY <2>4, FS_Injection, FS_CardinalityType DEF EvaluationConstants
<1>6. IsFiniteSet(good) /\ Cardinality(good) \in Nat /\ Cardinality(good) <= Cardinality(latest)
  BY <1>5, FS_Subset, FS_CardinalityType
<1>7. Evaluation!Cardinality(latest) = Cardinality(latest)
      /\ Evaluation!Cardinality(good) = Cardinality(good)
  BY DEF Evaluation!Cardinality, Cardinality, Evaluation!IsFiniteSet, IsFiniteSet
<1>8. Evaluation!Metrics = [size |-> Cardinality(latest), passed |-> Cardinality(good)]
  BY <1>7 DEF Evaluation!Metrics
<1> HIDE DEF good, latest
<1>9. Evaluation!Metrics \in [size : 0..Cardinality(Assignment), passed : 0..Cardinality(Assignment)]
  BY <1>5, <1>6, <1>8, CasesCounted
<1>10. Evaluation!Recommendation \in {"recommend", "reject", "needs-human-decision"}
  BY DEF Evaluation!Recommendation
<1> QED BY <1>4, <1>9, <1>10, CasesCounted DEF Evaluation!Bundle, Evaluation!Evidence

LEMMA EvaluationTypes ==
  ASSUME EvaluationInv
  PROVE  /\ runner \in [Process -> RunnerRow] /\ \A r \in Process : runner[r] \in RunnerRow
         /\ run.status \in Evaluation!States /\ run.version \in Nat
         /\ run.completed \in 0..Cardinality(Assignment)
         /\ task # Nil => /\ task \in [Assignment -> Evaluation!Task]
                          /\ \A c \in Assignment : task[c] \in Evaluation!Task
         /\ Evaluation!Consumed \in Nat /\ spent \in Nat
BY ConsumedIsNatural DEF EvaluationInv, EvaluationTyped

\* Steps of a runner that holds no lease afterwards.
Free(row) ==
  /\ row \in RunnerRow /\ row.step \notin {"handle", "complete"}
  /\ row.step = "start" => task # Nil
  /\ row.step = "grade" =>
       /\ run.status \notin {"absent", "requested", "queued"}
       /\ run.status = "running" => AllDone

LEMMA RunnerMoves ==
  ASSUME EvaluationInv, NEW r \in Process, NEW row, Free(row),
         runner' = [runner EXCEPT ![r] = row],
         UNCHANGED <<run, task, results, revoked, spent>>
  PROVE  EvaluationInv'
<1>1. /\ runner'[r] = row /\ \A q \in Process : q # r => runner'[q] = runner[q]
      /\ runner' \in [Process -> RunnerRow]
  BY EvaluationTypes DEF Free
<1>2. EvaluationTyped'
  BY <1>1 DEF EvaluationInv, EvaluationTyped
<1>3. TasksStand' /\ ResultsStand' /\ AccountsStand' /\ Evaluation!SealedFromResults'
  <2>1. TasksStand' /\ ResultsStand'
    BY DEF EvaluationInv, TasksStand, ResultsStand, AllDone, Busy, Evaluation!Whole
  <2>2. AccountsStand'
    BY ConsumedIsNatural DEF EvaluationInv, AccountsStand, Busy
  <2>3. Evaluation!SealedFromResults'
    BY DEF EvaluationInv, Evaluation!SealedFromResults, Evaluation!Sound, Evaluation!Bundle,
       Evaluation!Latest, Evaluation!LastAttempt, Evaluation!Metrics, Evaluation!Recommendation,
       Evaluation!GateFailed
  <2> QED BY <2>1, <2>2, <2>3
<1>4. RunnersStand'
  <2>1. \A q \in Process : q # r => (Leasing(q)' <=> Leasing(q))
    BY <1>1 DEF Leasing
  <2>2. ~Leasing(r)'
    BY <1>1 DEF Leasing, Free
  <2>3. ASSUME NEW q \in Process PROVE Relies(q)'
    <3>1. CASE q = r
      BY <1>1, <2>2, <3>1 DEF Free, Relies, AllDone, Leasing
    <3>2. CASE q # r
      BY <1>1, <3>2, ConsumedIsNatural DEF EvaluationInv, RunnersStand, Relies, AllDone, Leasing,
         Busy
    <3> QED BY <3>1, <3>2
  <2> QED BY <2>1, <2>2, <2>3 DEF EvaluationInv, RunnersStand
<1> QED BY <1>2, <1>3, <1>4 DEF EvaluationInv

\* Stopping, and going on to a step that needs nothing.
LEMMA RunnerRows ==
  ASSUME EvaluationInv, NEW r \in Process
  PROVE  /\ Free(Evaluation!Idle)
         /\ \A s \in {"queue", "materialize", "claim", "check", "compare", "collect"} :
              Free([runner[r] EXCEPT !.step = s])
         /\ \A s \in {"start", "grade"} :
              LET row == [runner[r] EXCEPT !.step = s]
              IN row \in RunnerRow /\ row.step = s
BY EvaluationTypes DEF Evaluation!Idle, RunnerRow, Free

\* The next state of a run that was neither decided nor given up.
LEMMA RunAdvances ==
  ASSUME EvaluationConstants, EvaluationInv, NEW r \in Process, NEW row, NEW s,
         \/ run.status = "absent" /\ s = "requested"
         \/ run.status = "requested" /\ s = "queued"
         \/ run.status = "queued" /\ s = "running" /\ task # Nil
         \/ run.status = "running" /\ s = "grading" /\ AllDone
         \/ run.status = "grading" /\ s = "comparing",
         NEW v \in Nat, run' = [run EXCEPT !.status = s, !.version = v],
         row \in RunnerRow, row.step \in {"queue", "materialize", "claim", "compare", "collect"},
         runner' = [runner EXCEPT ![r] = row],
         UNCHANGED <<task, results, revoked, spent>>
  PROVE  EvaluationInv'
<1>1. /\ runner'[r] = row /\ \A q \in Process : q # r => runner'[q] = runner[q]
      /\ runner' \in [Process -> RunnerRow]
  BY EvaluationTypes
<1>2. /\ run'.status = s /\ run'.completed = run.completed /\ run'.evidence = run.evidence
      /\ run' \in [status : Evaluation!States, version : Nat, completed : 0..Cardinality(Assignment),
                   evidence : Evaluation!Evidence \cup {Nil}]
  BY DEF Evaluation!States, EvaluationInv, EvaluationTyped
<1>3. EvaluationTyped'
  BY <1>1, <1>2 DEF EvaluationInv, EvaluationTyped
<1>4. TasksStand'
  BY CasesCounted, FS_EmptySet, <1>2 DEF Evaluation!Whole, EvaluationInv, TasksStand,
     EvaluationConstants, AllDone, Busy
<1>5. ResultsStand'
  BY <1>2 DEF EvaluationInv, TasksStand, ResultsStand, Busy
<1>6. ASSUME NEW q \in Process PROVE ~Leasing(q) /\ ~Leasing(q)'
  BY <1>1 DEF EvaluationInv, RunnersStand, Relies, AllDone, Busy, Leasing
<1>7. RunnersStand'
  BY <1>1, <1>2, <1>6 DEF EvaluationInv, RunnersStand, Relies, AllDone, Leasing
<1>8. AccountsStand'
  BY <1>2, ConsumedIsNatural DEF EvaluationInv, AccountsStand, Busy
<1>9. Evaluation!SealedFromResults'
  BY <1>2 DEF Evaluation!SealedFromResults
<1> QED BY <1>3, <1>4, <1>5, <1>7, <1>8, <1>9 DEF EvaluationInv

LEMMA EvaluationRegisters ==
  ASSUME EvaluationConstants, EvaluationInv, NEW r \in Process, Evaluation!Register(r)
  PROVE  EvaluationInv'
<1> DEFINE row == [runner[r] EXCEPT !.step = "queue"]
<1>1. Free(row) /\ row \in RunnerRow /\ row.step = "queue"
  BY RunnerRows, EvaluationTypes DEF RunnerRow
<1>2. runner' = [runner EXCEPT ![r] = row] /\ UNCHANGED <<task, results, revoked, spent>>
  BY DEF Evaluation!Register, Evaluation!Goto
<1> HIDE DEF row
<1>3. CASE run.status = "absent"
  <2>1. run' = [run EXCEPT !.status = "requested", !.version = run.version]
    BY <1>3 DEF Evaluation!Register, EvaluationInv, EvaluationTyped
  <2>2. run.version \in Nat
    BY EvaluationTypes
  <2> QED BY <1>1, <1>2, <1>3, <2>1, <2>2, RunAdvances
<1>4. CASE run.status # "absent"
  <2>1. run' = run
    BY <1>4 DEF Evaluation!Register
  <2> QED BY <1>1, <1>2, <2>1, RunnerMoves
<1> QED BY <1>3, <1>4

LEMMA EvaluationTransitions ==
  ASSUME EvaluationConstants, EvaluationInv, NEW r \in Process, Evaluation!Transition(r)
  PROVE  EvaluationInv'
<1>1. PICK t \in Evaluation!Transitions :
        /\ runner[r].step = t[1]
        /\ \/ run.status = t[2] /\ Evaluation!Goto(r, t[3]) /\ UNCHANGED run
           \/ /\ Evaluation!Leads(run.status, t[2])
              /\ Evaluation!Save(t[2]) /\ Evaluation!Goto(r, t[3])
           \/ Evaluation!Stop(r) /\ UNCHANGED run
        /\ UNCHANGED <<task, results, revoked, spent>>
  BY DEF Evaluation!Transition, Evaluation!At
<1>2. /\ t[1] \in {"queue", "start", "grade", "compare"}
      /\ t[2] \in {"queued", "running", "grading", "comparing"}
      /\ t[3] \in {"materialize", "claim", "compare", "collect"}
      /\ t[2] = "running" => t[1] = "start"
      /\ t[2] = "grading" => t[1] = "grade"
  BY DEF Evaluation!Transitions
<1> DEFINE row == [runner[r] EXCEPT !.step = t[3]]
<1>3. Free(row) /\ row \in RunnerRow /\ row.step = t[3]
  <2>1. Free(row)
    BY <1>2, RunnerRows
  <2>2. runner[r] \in RunnerRow
    BY EvaluationTypes
  <2> QED BY <1>2, <2>1, <2>2 DEF RunnerRow
<1>4. CASE run.status = t[2] /\ Evaluation!Goto(r, t[3]) /\ UNCHANGED run
  BY <1>4, <1>1, <1>3, RunnerMoves DEF Evaluation!Goto
<1>5. CASE Evaluation!Leads(run.status, t[2]) /\ Evaluation!Save(t[2]) /\ Evaluation!Goto(r, t[3])
  <2>1. runner' = [runner EXCEPT ![r] = row]
    BY <1>5 DEF Evaluation!Goto
  <2>2. \/ run.status = "requested" /\ t[2] = "queued"
        \/ run.status = "queued" /\ t[2] = "running"
        \/ run.status = "running" /\ t[2] = "grading"
        \/ run.status = "grading" /\ t[2] = "comparing"
    BY <1>5 DEF Evaluation!Leads, Evaluation!Successor
  <2>3. Relies(r)
    BY DEF EvaluationInv, RunnersStand
  <2>4. t[2] = "running" => task # Nil
    BY <1>1, <1>2, <2>3 DEF Relies
  <2>5. t[2] = "grading" /\ run.status = "running" => AllDone
    BY <1>1, <1>2, <2>3 DEF Relies
  <2> DEFINE v == run.version + 1
             s == t[2]
  <2>6. run' = [run EXCEPT !.status = s, !.version = v] /\ v \in Nat
    BY <1>5, EvaluationTypes DEF Evaluation!Save
  <2> HIDE DEF row, v
  <2>7. row.step \in {"queue", "materialize", "claim", "compare", "collect"}
    BY <1>2, <1>3
  <2>8. \/ run.status = "absent" /\ s = "requested"
        \/ run.status = "requested" /\ s = "queued"
        \/ run.status = "queued" /\ s = "running" /\ task # Nil
        \/ run.status = "running" /\ s = "grading" /\ AllDone
        \/ run.status = "grading" /\ s = "comparing"
    BY <2>2, <2>4, <2>5
  <2>9. UNCHANGED <<task, results, revoked, spent>>
    BY <1>1
  <2> HIDE DEF s
  <2> QED BY <1>3, <2>1, <2>6, <2>7, <2>8, <2>9, RunAdvances
<1>6. CASE Evaluation!Stop(r) /\ UNCHANGED run
  BY <1>6, <1>1, RunnerMoves, RunnerRows DEF Evaluation!Stop
<1> QED BY <1>1, <1>4, <1>5, <1>6

\* Steps that only move the runner, and those that stop it.
LEMMA EvaluationSteps ==
  ASSUME EvaluationInv, NEW r \in Process,
         \/ Evaluation!Check(r) \/ Evaluation!Crash(r)
  PROVE  EvaluationInv'
BY RunnerMoves, RunnerRows DEF Evaluation!Check, Evaluation!Crash, Evaluation!Stop,
   Evaluation!Goto, EvaluationInv, TasksStand, Free

LEMMA EvaluationCollects ==
  ASSUME EvaluationConstants, EvaluationInv, NEW r \in Process, Evaluation!Collect(r)
  PROVE  EvaluationInv'
<1>1. UNCHANGED <<run, task, results, revoked, spent>>
  BY DEF Evaluation!Collect
<1>2. CASE Evaluation!Stop(r)
  <2>1. runner' = [runner EXCEPT ![r] = Evaluation!Idle]
    BY <1>2 DEF Evaluation!Stop
  <2> QED BY <1>1, <2>1, RunnerMoves, RunnerRows
<1>3. CASE ~Evaluation!Stop(r)
  BY <1>3, EvaluationTypes, BundleTyped, <1>1, RunnerMoves DEF Evaluation!Collect, EvaluationInv,
     RunnerRow, Free
<1> QED BY <1>2, <1>3

LEMMA EvaluationMaterializes ==
  ASSUME EvaluationConstants, EvaluationInv, NEW r \in Process, Evaluation!Materialize(r)
  PROVE  EvaluationInv'
<1>1. UNCHANGED <<run, results, revoked, spent>>
  BY DEF Evaluation!Materialize
<1>2. CASE Evaluation!Stop(r) /\ UNCHANGED task
  BY <1>2, <1>1, RunnerMoves, RunnerRows DEF Evaluation!Stop
<1> DEFINE row == [runner[r] EXCEPT !.step = "start"]
           fresh == [c \in Assignment |-> [status |-> "pending", attempt |-> 0, expired |-> FALSE]]
<1>3. row \in RunnerRow /\ row.step = "start"
  BY RunnerRows
<1>4. CASE run.status = "queued" /\ task # Nil
  BY <1>4, <1>3, <1>1, RunnerMoves DEF Evaluation!Materialize, Evaluation!Goto, Free
<1>5. CASE run.status = "queued" /\ task = Nil
  <2>1. runner' = [runner EXCEPT ![r] = row] /\ task' = fresh
    BY <1>5 DEF Evaluation!Materialize, Evaluation!Goto
  <2>2. fresh \in [Assignment -> Evaluation!Task] /\ \A c \in Assignment : fresh[c].status = "pending"
    BY DEF Evaluation!Task
  <2>3. fresh # Nil
    BY <2>2 DEF EvaluationConstants
  <2> HIDE DEF row, fresh
  <2>4. /\ runner'[r] = row /\ \A q \in Process : q # r => runner'[q] = runner[q]
        /\ runner' \in [Process -> RunnerRow]
    BY <1>3, <2>1, EvaluationTypes
  <2>5. EvaluationTyped'
    BY <1>1, <2>1, <2>2, <2>4 DEF EvaluationInv, EvaluationTyped
  <2>6. TasksStand' /\ ResultsStand'
    BY <1>1, <1>5, <2>1, <2>2, <2>3 DEF EvaluationInv, TasksStand, ResultsStand, Busy
  <2>7. ASSUME NEW q \in Process PROVE ~Leasing(q)' /\ Relies(q)'
    <3>1. ~Leasing(q) /\ Relies(q)
      BY <1>5 DEF EvaluationInv, RunnersStand, Relies
    <3>2. ~Leasing(q)'
      BY <1>3, <2>4, <3>1 DEF Leasing
    <3>3. Relies(q)'
      BY <1>1, <1>3, <1>5, <2>1, <2>3, <2>4, <3>1, <3>2 DEF Relies, Leasing
    <3> QED BY <3>2, <3>3
  <2>8. RunnersStand'
    BY <2>7 DEF RunnersStand
  <2>9. AccountsStand'
    BY <1>1, <1>5, ConsumedIsNatural DEF EvaluationInv, AccountsStand
  <2>10. Evaluation!SealedFromResults'
    BY <1>1, <1>5 DEF Evaluation!SealedFromResults
  <2> QED BY <2>5, <2>6, <2>8, <2>9, <2>10 DEF EvaluationInv
<1> QED BY <1>2, <1>4, <1>5 DEF Evaluation!Materialize

\* The run fails; what is left of the budget is written off.
LEMMA EvaluationFails ==
  ASSUME EvaluationConstants, EvaluationInv, NEW r \in Process, run.status = "running",
         Evaluation!Fail, Evaluation!Goto(r, "check"), UNCHANGED <<revoked, spent>>,
         \/ Evaluation!Remaining = 0 /\ UNCHANGED <<task, results>>
         \/ Evaluation!Reap
  PROVE  EvaluationInv'
<1> DEFINE row == [runner[r] EXCEPT !.step = "check"]
<1>1. row \in RunnerRow /\ row.step = "check"
  BY EvaluationTypes DEF RunnerRow
<1>2. runner' = [runner EXCEPT ![r] = row]
  BY DEF Evaluation!Goto
<1> HIDE DEF row
<1>3. /\ runner'[r] = row /\ \A q \in Process : q # r => runner'[q] = runner[q]
      /\ runner' \in [Process -> RunnerRow]
  BY <1>1, <1>2, EvaluationTypes
<1>4. /\ run'.status = "failed"
      /\ run' \in [status : Evaluation!States, version : Nat, completed : 0..Cardinality(Assignment),
                   evidence : Evaluation!Evidence \cup {Nil}]
  <2>1. "failed" \in Evaluation!States
    BY DEF Evaluation!States
  <2> DEFINE v == run.version + 1
  <2>2. v \in Nat /\ run' = [run EXCEPT !.status = "failed", !.version = v]
    BY EvaluationTypes DEF Evaluation!Fail, Evaluation!Save
  <2> HIDE DEF v
  <2> QED BY <2>1, <2>2 DEF EvaluationInv, EvaluationTyped
<1>5. task # Nil /\ task \in [Assignment -> Evaluation!Task]
  BY EvaluationTypes DEF EvaluationInv, TasksStand
<1>6. /\ Evaluation!Consumed \in Nat /\ Evaluation!Consumed <= 2
      /\ Evaluation!Remaining = 2 - Evaluation!Consumed /\ Evaluation!Remaining \in 0..2
  BY ConsumedIsNatural DEF EvaluationInv, AccountsStand
\* What the cases and results are afterwards.
<1>7. /\ task' # Nil /\ task' \in [Assignment -> Evaluation!Task]
      /\ \A c \in Assignment : task'[c].attempt = task[c].attempt
                               /\ (task'[c].status = "running" => Busy(c))
      /\ results' \subseteq Evaluation!Result /\ IsFiniteSet(results') /\ Evaluation!Consumed' = 2
      /\ \A x \in results' \ results : /\ Busy(x.case) /\ x.case \in Assignment
                                       /\ x.attempt = task[x.case].attempt
      /\ \A x, y \in results' \ results : x = y
  <2>1. CASE Evaluation!Remaining = 0 /\ UNCHANGED <<task, results>>
    BY <1>6, <2>1, ConsumedIsNatural, <1>5 DEF EvaluationInv, EvaluationTyped, Busy
  <2>2. CASE Evaluation!Reap
    <3>1. PICK c \in Assignment : Busy(c) /\ c \in Evaluation!Expired
      BY <2>2 DEF Evaluation!Reap, Evaluation!Expired, Evaluation!Running, Busy
    <3>2. Evaluation!Expired = {c}
      BY <1>5, <3>1 DEF EvaluationInv, TasksStand, Evaluation!Expired, Evaluation!Running, Busy
    <3> DEFINE x == [case |-> c, attempt |-> task[c].attempt, outcome |-> "unknown",
                     used |-> Evaluation!Remaining]
               failed == [task[c] EXCEPT !.status = "failed"]
    <3>3. results' = results \cup {x}
      BY <2>2, <3>2 DEF Evaluation!Reap
    <3>4. task[c] \in Evaluation!Task /\ task[c].attempt \in 1..2
      BY <1>5, <3>1 DEF EvaluationInv, TasksStand, Evaluation!Task
    <3>5. /\ x \in Evaluation!Result /\ x.case = c /\ x.attempt = task[c].attempt
          /\ x.used = Evaluation!Remaining
      BY <1>6, <3>4 DEF Evaluation!Result, Evaluation!Outcomes
    <3>6. failed \in Evaluation!Task /\ failed.attempt = task[c].attempt /\ failed.status = "failed"
      BY <3>4 DEF Evaluation!Task
    <3>7. task' = [d \in Assignment |-> IF d \in {c} THEN [task[d] EXCEPT !.status = "failed"] ELSE task[d]]
      BY <2>2, <3>2 DEF Evaluation!Reap
    <3> HIDE DEF x
    <3>8. x \notin results
      BY <3>1, <3>4, <3>5 DEF EvaluationInv, ResultsStand
    <3>9. Evaluation!Consumed' = Evaluation!Consumed + x.used
          /\ results' \subseteq Evaluation!Result /\ IsFiniteSet(results')
      BY <3>3, <3>5, <3>8, ConsumedGrows DEF EvaluationInv
    <3>10. \A d \in Assignment : task'[d] = IF d = c THEN failed ELSE task[d]
      BY <3>7
    <3>11. task' = [d \in Assignment |-> IF d = c THEN failed ELSE task[d]]
      BY <3>7
    <3> HIDE DEF failed
    <3>12. task' \in [Assignment -> Evaluation!Task]
      BY <1>5, <3>6, <3>11
    <3>13. task' # Nil
      BY <3>12 DEF EvaluationConstants
    <3>14. \A d \in Assignment : task'[d].attempt = task[d].attempt
                                 /\ (task'[d].status = "running" => Busy(d))
      BY <3>6, <3>10 DEF Busy
    <3>15. Evaluation!Consumed' = 2
      BY <1>6, <3>5, <3>9
    <3> QED BY <3>1, <3>3, <3>5, <3>9, <3>12, <3>13, <3>14, <3>15
  <2> QED BY <2>1, <2>2
<1>8. EvaluationTyped'
  BY <1>3, <1>4, <1>7 DEF EvaluationInv, EvaluationTyped
<1>9. TasksStand'
  BY <1>5, <1>7, <1>4 DEF EvaluationInv, TasksStand, Busy
<1>10. ResultsStand'
  BY <1>7, <1>4 DEF Evaluation!Result, EvaluationInv, ResultsStand
<1>11. RunnersStand'
  BY <1>1, <1>3, <1>4, <1>7 DEF Leasing, Relies, EvaluationInv, RunnersStand
<1>12. AccountsStand'
  BY <1>4, <1>7 DEF EvaluationInv, AccountsStand
<1>13. Evaluation!SealedFromResults'
  BY <1>4 DEF Evaluation!SealedFromResults
<1> QED BY <1>8, <1>9, <1>10, <1>11, <1>12, <1>13 DEF EvaluationInv

LEMMA EvaluationLeases ==
  ASSUME EvaluationConstants, EvaluationInv, NEW r \in Process, NEW c \in Assignment,
         run.status = "running", Evaluation!Lease(r, c), UNCHANGED <<run, results, revoked, spent>>
  PROVE  EvaluationInv'
<1> DEFINE mine == [status |-> "running", attempt |-> task[c].attempt + 1, expired |-> FALSE]
           row == [Evaluation!Idle EXCEPT !.step = "handle", !.case = c,
                     !.attempt = task[c].attempt + 1, !.allowance = Evaluation!Remaining]
<1>1. task # Nil /\ task \in [Assignment -> Evaluation!Task]
  BY EvaluationTypes DEF EvaluationInv, TasksStand
<1>2. /\ \A d \in Assignment : ~Busy(d)
      /\ task[c].status = "pending" /\ task[c].attempt < 2 /\ task[c].attempt \in Nat
      /\ task' = [task EXCEPT ![c] = mine] /\ runner' = [runner EXCEPT ![r] = row]
  BY <1>1 DEF Evaluation!Lease, Evaluation!Task, Evaluation!Running, Evaluation!Claimable, Busy
<1>3. mine \in Evaluation!Task /\ mine.status = "running" /\ mine.attempt = task[c].attempt + 1
  BY <1>2 DEF Evaluation!Task
<1>4. /\ Evaluation!Consumed \in Nat /\ Evaluation!Consumed <= 2 /\ Evaluation!Remaining \in 0..2
      /\ Evaluation!Remaining = 2 - Evaluation!Consumed /\ Evaluation!Consumed' = Evaluation!Consumed
  BY ConsumedIsNatural DEF EvaluationInv, AccountsStand
<1>5. /\ row \in RunnerRow /\ row.step = "handle" /\ row.case = c
      /\ row.attempt = task[c].attempt + 1 /\ row.allowance = Evaluation!Remaining
  <2> DEFINE n == task[c].attempt + 1
             a == Evaluation!Remaining
  <2>1. n \in 0..2 /\ a \in 0..2
    BY <1>2, <1>4
  <2> DEFINE base == Evaluation!Idle
  <2>2. base \in RunnerRow
    BY DEF Evaluation!Idle, RunnerRow
  <2>3. row = [base EXCEPT !.step = "handle", !.case = c, !.attempt = n, !.allowance = a]
    OBVIOUS
  <2> HIDE DEF n, a, row, base
  <2>4. row \in RunnerRow
    BY <2>1, <2>2, <2>3 DEF RunnerRow
  <2>5. row.step = "handle" /\ row.case = c /\ row.attempt = n /\ row.allowance = a
    BY <2>2, <2>3 DEF RunnerRow
  <2> QED BY <2>4, <2>5 DEF n, a
<1> HIDE DEF mine, row
<1>6. /\ runner'[r] = row /\ \A q \in Process : q # r => runner'[q] = runner[q]
      /\ runner' \in [Process -> RunnerRow]
      /\ task'[c] = mine /\ \A d \in Assignment : d # c => task'[d] = task[d]
      /\ task' \in [Assignment -> Evaluation!Task]
  BY <1>1, <1>2, <1>3, <1>5, EvaluationTypes
<1>7. task' # Nil
  BY <1>6 DEF EvaluationConstants
<1>8. ~AllDone
  BY <1>2 DEF AllDone
<1>9. EvaluationTyped'
  BY <1>6 DEF EvaluationInv, EvaluationTyped
<1>10. TasksStand'
  BY <1>8, <1>2, <1>6, <1>3, <1>7 DEF EvaluationInv, TasksStand, Evaluation!Whole, Busy
<1>11. ResultsStand'
  BY <1>2, <1>3, <1>6, <1>7 DEF EvaluationInv, EvaluationTyped, ResultsStand, Evaluation!Result,
     Busy
<1>12. ASSUME NEW q \in Process PROVE ~Leasing(q)
  BY <1>2 DEF EvaluationInv, RunnersStand, Relies
<1>13. RunnersStand'
  <2>1. \A q \in Process : Leasing(q)' => q = r
    BY <1>6, <1>12 DEF Leasing
  <2>2. spent \in Nat /\ spent <= Evaluation!Consumed
    BY <1>2, EvaluationTypes DEF EvaluationInv, AccountsStand
  <2>3. ASSUME NEW q \in Process PROVE Relies(q)'
    <3>1. CASE q = r
      <4>1. runner'[q].case = c /\ runner'[q].attempt \in 1..2 /\ Busy(c)'
            /\ task'[c].attempt = runner'[q].attempt
        BY <1>2, <1>3, <1>5, <1>6, <3>1 DEF Busy
      <4>2. spent' + runner'[q].allowance <= 2 /\ spent' <= Evaluation!Consumed'
        BY <1>4, <1>5, <1>6, <2>2, <3>1
      <4> QED BY <1>5, <1>6, <1>7, <3>1, <4>1, <4>2 DEF Relies
    <3>2. CASE q # r
      <4>1. runner'[q] = runner[q] /\ Relies(q) /\ ~Leasing(q)
        BY <1>6, <1>12, <3>2 DEF EvaluationInv, RunnersStand
      <4>2. ~Leasing(q)'
        BY <2>1, <3>2
      <4> QED BY <1>7, <1>8, <4>1, <4>2 DEF Relies, Leasing
    <3> QED BY <3>1, <3>2
  <2> QED BY <2>1, <2>3 DEF RunnersStand
<1>14. AccountsStand'
  BY <1>3, <1>6, <1>4, <1>7 DEF Busy, EvaluationInv, AccountsStand
<1>15. Evaluation!SealedFromResults'
  BY DEF Evaluation!SealedFromResults
<1> QED BY <1>9, <1>10, <1>11, <1>13, <1>14, <1>15 DEF EvaluationInv

LEMMA EvaluationClaims ==
  ASSUME EvaluationConstants, EvaluationInv, NEW r \in Process, Evaluation!Claim(r)
  PROVE  EvaluationInv'
BY RunnerRows, RunnerMoves, EvaluationFails, EvaluationLeases DEF Evaluation!Claim,
   Evaluation!Goto, Evaluation!Stop, Evaluation!Reap

\* Of two numbers the smaller.
LEMMA SmallerOf ==
  ASSUME NEW m \in Nat, NEW n \in Nat
  PROVE  Evaluation!Min({m, n}) \in Nat /\ Evaluation!Min({m, n}) <= m /\ Evaluation!Min({m, n}) <= n
<1>1. \E x \in {m, n} : \A y \in {m, n} : x <= y
  <2>1. CASE m <= n
    BY <2>1
  <2>2. CASE ~(m <= n)
    <3>1. n <= m
      BY <2>2
    <3> QED BY <3>1
  <2> QED BY <2>1, <2>2
<1> DEFINE s == CHOOSE x \in {m, n} : \A y \in {m, n} : x <= y
<1>2. s \in {m, n} /\ \A y \in {m, n} : s <= y
  BY <1>1
<1>3. Evaluation!Min({m, n}) = s
  BY DEF Evaluation!Min
<1> HIDE DEF s
<1> QED BY <1>2, <1>3

LEMMA EvaluationHandles ==
  ASSUME EvaluationConstants, EvaluationInv, NEW r \in Process, Evaluation!Handle(r)
  PROVE  EvaluationInv'
<1> DEFINE a == runner[r].allowance
<1>1. /\ runner[r] \in RunnerRow /\ runner[r].step = "handle" /\ a \in 0..2
      /\ UNCHANGED <<run, task, results, revoked>>
  BY EvaluationTypes DEF Evaluation!Handle, Evaluation!At, RunnerRow
<1>2. PICK used \in 0..(a + 1) :
        /\ runner' = [runner EXCEPT ![r].step = "complete", ![r].used = used]
        /\ spent' = spent + Evaluation!Min({used, a})
  BY DEF Evaluation!Handle
<1> DEFINE m == Evaluation!Min({used, a})
           row == [runner[r] EXCEPT !.step = "complete", !.used = used]
<1>3. used \in 0..3 /\ m \in Nat /\ m <= used /\ m <= a
  <2>1. used \in 0..3 /\ used \in Nat /\ a \in Nat
    BY <1>1
  <2> HIDE DEF a
  <2> QED BY <2>1, SmallerOf
<1>4. /\ row \in RunnerRow /\ row.step = "complete" /\ row.used = used
      /\ row.case = runner[r].case /\ row.attempt = runner[r].attempt
  BY <1>1, <1>3 DEF RunnerRow
<1>5. runner' = [runner EXCEPT ![r] = row] /\ spent' = spent + m
  BY <1>1, <1>2, EvaluationTypes
<1> HIDE DEF m, row
<1>6. /\ runner'[r] = row /\ \A q \in Process : q # r => runner'[q] = runner[q]
      /\ runner' \in [Process -> RunnerRow]
  BY <1>4, <1>5, EvaluationTypes
<1>7. /\ Evaluation!Consumed \in Nat /\ Evaluation!Consumed' = Evaluation!Consumed
      /\ spent \in Nat /\ spent' \in Nat
  BY <1>1, <1>3, <1>5, EvaluationTypes, ConsumedIsNatural DEF EvaluationInv
<1>8. Leasing(r) /\ Relies(r) /\ \A q \in Process : Leasing(q) => q = r
  BY <1>1 DEF EvaluationInv, RunnersStand, Leasing
<1>9. EvaluationTyped'
  BY <1>1, <1>6, <1>7 DEF EvaluationInv, EvaluationTyped
<1>10. TasksStand' /\ ResultsStand'
  BY <1>1 DEF EvaluationInv, TasksStand, ResultsStand, AllDone, Busy, Evaluation!Whole
<1>11. RunnersStand'
  <2>1. \A q \in Process : Leasing(q)' => q = r
    BY <1>6, <1>8 DEF Leasing
  <2>2. ASSUME NEW q \in Process PROVE Relies(q)'
    <3>1. CASE q = r
      <4>1. run.status = "running" => spent' <= Evaluation!Consumed' + row.used
        BY <1>1, <1>3, <1>4, <1>5, <1>7, <1>8 DEF Relies
      <4>2. /\ row.case \in Assignment /\ row.attempt \in 1..2 /\ task # Nil
            /\ run.status \in {"running", "failed", "cancelled"}
            /\ run.status = "running" => Busy(row.case) /\ task[row.case].attempt = row.attempt
        BY <1>4, <1>8 DEF Relies
      <4> QED BY <1>1, <1>4, <1>6, <3>1, <4>1, <4>2 DEF Relies, Busy
    <3>2. CASE q # r
      <4>1. runner'[q] = runner[q] /\ Relies(q) /\ ~Leasing(q) /\ ~Leasing(q)'
        BY <1>6, <1>8, <2>1, <3>2 DEF EvaluationInv, RunnersStand
      <4> QED BY <1>1, <4>1 DEF Relies, Leasing, AllDone
    <3> QED BY <3>1, <3>2
  <2> QED BY <2>1, <2>2 DEF RunnersStand
<1>12. AccountsStand'
  BY <1>1, <1>3, <1>5, <1>7, <1>8 DEF Relies, EvaluationInv, AccountsStand, Busy
<1>13. Evaluation!SealedFromResults'
  BY <1>1 DEF EvaluationInv, Evaluation!SealedFromResults, Evaluation!Sound, Evaluation!Bundle,
     Evaluation!Latest, Evaluation!LastAttempt, Evaluation!Metrics, Evaluation!Recommendation,
     Evaluation!GateFailed
<1> QED BY <1>9, <1>10, <1>11, <1>12, <1>13 DEF EvaluationInv

\* A result is recorded of the attempt under way.
LEMMA EvaluationRecords ==
  ASSUME EvaluationConstants, EvaluationInv, NEW r \in Process,
         NEW verdict \in Evaluation!Reported, NEW status \in {"pending", "completed"},
         runner[r].step = "complete", Evaluation!Current(r), Evaluation!Affordable(r),
         results' = results \cup {[case |-> runner[r].case, attempt |-> runner[r].attempt,
                                   outcome |-> verdict, used |-> runner[r].used]},
         task' = [task EXCEPT ![runner[r].case].status = status],
         run' = [run EXCEPT !.version = @ + 1,
                   !.completed = Evaluation!Cardinality({c \in Assignment : task'[c].status = "completed"})],
         runner' = [runner EXCEPT ![r] = [Evaluation!Idle EXCEPT !.step = "claim"]],
         UNCHANGED <<revoked, spent>>
  PROVE  EvaluationInv'
<1> DEFINE c == runner[r].case
           n == runner[r].attempt
           u == runner[r].used
           x == [case |-> c, attempt |-> n, outcome |-> verdict, used |-> u]
           mine == [task[c] EXCEPT !.status = status]
           done == {d \in Assignment : task'[d].status = "completed"}
           k == Cardinality(done)
           row == [Evaluation!Idle EXCEPT !.step = "claim"]
<1>1. run.status = "running" /\ Relies(r) /\ Leasing(r) /\ \A q \in Process : Leasing(q) => q = r
  BY DEF Evaluation!Current, EvaluationInv, RunnersStand, Leasing
<1>2. /\ c \in Assignment /\ n \in 1..2 /\ task # Nil /\ task \in [Assignment -> Evaluation!Task]
      /\ Busy(c) /\ task[c].attempt = n /\ task[c] \in Evaluation!Task
  BY <1>1, EvaluationTypes DEF Relies
<1>3. /\ u \in Nat /\ Evaluation!Consumed \in Nat /\ Evaluation!Consumed + u <= 2 /\ u \in 0..2
      /\ spent \in Nat /\ spent <= Evaluation!Consumed + u
  BY EvaluationTypes, <1>1 DEF Evaluation!Affordable, RunnerRow, Relies
<1>4. x \in Evaluation!Result /\ x.case = c /\ x.attempt = n /\ x.used = u
  BY <1>2, <1>3 DEF Evaluation!Result, Evaluation!Reported
<1>5. /\ mine \in Evaluation!Task /\ mine.attempt = n /\ mine.status = status
      /\ task' = [task EXCEPT ![c] = mine]
  BY <1>2 DEF Evaluation!Task
<1>6. row \in RunnerRow /\ row.step = "claim"
  BY DEF Evaluation!Idle, RunnerRow
<1>7. results' = results \cup {x} /\ runner' = [runner EXCEPT ![r] = row]
  OBVIOUS
<1> HIDE DEF x, mine, row
<1>8. /\ task'[c] = mine /\ \A d \in Assignment : d # c => task'[d] = task[d]
      /\ task' \in [Assignment -> Evaluation!Task]
      /\ runner'[r] = row /\ \A q \in Process : q # r => runner'[q] = runner[q]
      /\ runner' \in [Process -> RunnerRow]
  BY <1>2, <1>5, <1>6, <1>7, EvaluationTypes
<1>9. task' # Nil
  BY <1>8 DEF EvaluationConstants
<1>10. x \notin results
  BY <1>1, <1>2, <1>4 DEF EvaluationInv, ResultsStand
<1>11. /\ Evaluation!Consumed' = Evaluation!Consumed + u
       /\ results' \subseteq Evaluation!Result /\ IsFiniteSet(results')
  BY <1>4, <1>7, <1>10, ConsumedGrows DEF EvaluationInv
<1>12. /\ IsFiniteSet(done) /\ k \in 0..Cardinality(Assignment)
       /\ k = Cardinality(Assignment) => \A d \in Assignment : task'[d].status = "completed"
       /\ run' = [run EXCEPT !.version = @ + 1, !.completed = k]
  <2>1. done \in SUBSET Assignment
    OBVIOUS
  <2>2. Evaluation!Cardinality(done) = Cardinality(done)
    BY DEF Evaluation!Cardinality, Cardinality, Evaluation!IsFiniteSet, IsFiniteSet
  <2>3. run' = [run EXCEPT !.version = @ + 1, !.completed = k]
    BY <2>2
  <2> HIDE DEF done
  <2>4. /\ IsFiniteSet(done) /\ k \in 0..Cardinality(Assignment)
        /\ k = Cardinality(Assignment) => done = Assignment
    BY <2>1, CasesCounted, FS_Subset, FS_CardinalityType DEF EvaluationConstants
  <2> QED BY <2>3, <2>4 DEF done
<1> HIDE DEF k, done
<1>13. /\ run'.status = "running" /\ run'.completed = k
       /\ run' \in [status : Evaluation!States, version : Nat, completed : 0..Cardinality(Assignment),
                    evidence : Evaluation!Evidence \cup {Nil}]
  <2> DEFINE v == run.version + 1
  <2>1. v \in Nat /\ run' = [run EXCEPT !.version = v, !.completed = k]
    BY <1>12, EvaluationTypes
  <2> HIDE DEF v
  <2> QED BY ZenonT(60), <1>1, <1>12, <2>1 DEF EvaluationInv, EvaluationTyped
<1>14. EvaluationTyped'
  BY <1>8, <1>11, <1>13 DEF EvaluationInv, EvaluationTyped
<1>15. \A d \in Assignment : ~Busy(d)'
  BY <1>2, <1>5, <1>8 DEF EvaluationInv, TasksStand, Busy
<1>16. TasksStand'
  BY <1>13, CasesCounted, <1>9, <1>12, <1>15 DEF Evaluation!Whole, AllDone, TasksStand
<1>17. ResultsStand'
  <2>1. ASSUME NEW y \in results' PROVE y.attempt <= task'[y.case].attempt /\ ~Busy(y.case)'
    <3>1. y.case \in Assignment /\ y.attempt \in 1..2
      BY <1>11 DEF Evaluation!Result
    <3>2. CASE y = x
      BY <1>2, <1>4, <1>5, <1>8, <1>15, <3>2
    <3>3. CASE y \in results
      BY <3>3, <1>2, <1>5, <1>8, <1>15, <3>1 DEF EvaluationInv, ResultsStand
    <3> QED BY <1>7, <3>2, <3>3
  <2>2. ASSUME NEW y \in results, y.case = x.case, y.attempt = x.attempt PROVE FALSE
    BY <1>1, <1>2, <1>4, <2>2 DEF EvaluationInv, ResultsStand
  <2>3. \A y, z \in results' : y.case = z.case /\ y.attempt = z.attempt => y = z
    BY <1>7, <2>2 DEF EvaluationInv, ResultsStand
  <2> QED BY <1>9, <2>1, <2>3 DEF ResultsStand
<1>18. RunnersStand'
  <2>1. ASSUME NEW q \in Process PROVE ~Leasing(q)'
    BY <1>6, <1>8, <1>1 DEF Leasing
  <2>2. ASSUME NEW q \in Process PROVE Relies(q)'
    <3>1. CASE q = r
      BY <1>6, <1>8, <2>1, <3>1 DEF Relies, Leasing
    <3>2. CASE q # r
      <4>1. runner'[q] = runner[q] /\ Relies(q)
        BY <1>8, <3>2 DEF EvaluationInv, RunnersStand
      <4>2. runner[q].step # "grade"
        BY <1>2, <1>1, <4>1 DEF AllDone, Busy, Relies
      <4> QED BY <1>9, <2>1, <4>1, <4>2 DEF Relies, Leasing
    <3> QED BY <3>1, <3>2
  <2> QED BY <2>1, <2>2 DEF RunnersStand
<1>19. AccountsStand'
  BY <1>3, <1>11, <1>13 DEF EvaluationInv, AccountsStand
<1>20. Evaluation!SealedFromResults'
  BY <1>13 DEF Evaluation!SealedFromResults
<1> QED BY <1>14, <1>16, <1>17, <1>18, <1>19, <1>20 DEF EvaluationInv

LEMMA EvaluationCompletes ==
  ASSUME EvaluationConstants, EvaluationInv, NEW r \in Process, Evaluation!Complete(r)
  PROVE  EvaluationInv'
<1>1. UNCHANGED <<revoked, spent>> /\ runner[r].step = "complete"
  BY DEF Evaluation!Complete, Evaluation!At
<1>2. CASE Evaluation!Stop(r) /\ UNCHANGED <<run, task, results>>
  BY <1>2, <1>1, RunnerMoves, RunnerRows DEF Evaluation!Stop
<1>3. CASE Evaluation!Current(r) /\ Evaluation!Affordable(r)
  <2>1. PICK verdict \in Evaluation!Reported :
          LET mine == runner[r]
              settled == [task EXCEPT ![mine.case].status =
                            IF Evaluation!Retried(r, verdict) THEN "pending" ELSE "completed"]
          IN  /\ results' = results \cup {[case |-> mine.case, attempt |-> mine.attempt,
                                           outcome |-> verdict, used |-> mine.used]}
              /\ task' = settled
              /\ run' = [run EXCEPT !.version = @ + 1,
                   !.completed = Evaluation!Cardinality({c \in Assignment : settled[c].status = "completed"})]
              /\ runner' = [runner EXCEPT ![r] = [Evaluation!Idle EXCEPT !.step = "claim"]]
    BY <1>3 DEF Evaluation!Complete
  <2> DEFINE status == IF Evaluation!Retried(r, verdict) THEN "pending" ELSE "completed"
  <2>2. status \in {"pending", "completed"}
    OBVIOUS
  <2>3. task' = [task EXCEPT ![runner[r].case].status = status]
    BY <2>1
  <2>4. /\ results' = results \cup {[case |-> runner[r].case, attempt |-> runner[r].attempt,
                                     outcome |-> verdict, used |-> runner[r].used]}
        /\ runner' = [runner EXCEPT ![r] = [Evaluation!Idle EXCEPT !.step = "claim"]]
    BY <2>1
  <2>5. run' = [run EXCEPT !.version = @ + 1,
                  !.completed = Evaluation!Cardinality({c \in Assignment : task'[c].status = "completed"})]
    BY <2>1
  <2> HIDE DEF status
  <2> QED BY <1>1, <1>3, <2>2, <2>3, <2>4, <2>5, EvaluationRecords
<1> QED BY <1>2, <1>3 DEF Evaluation!Complete

LEMMA EvaluationSeals ==
  ASSUME EvaluationConstants, EvaluationInv, NEW r \in Process, Evaluation!Seal(r)
  PROVE  EvaluationInv'
<1>0. /\ runner' = [runner EXCEPT ![r] = Evaluation!Idle]
      /\ UNCHANGED <<task, results, revoked, spent>>
  BY DEF Evaluation!Seal, Evaluation!Stop
<1>1. CASE ~Evaluation!Sealable(r)
  <2>1. run' = run
    BY <1>1 DEF Evaluation!Seal
  <2> QED BY <1>0, <2>1, RunnerMoves, RunnerRows
<1>2. CASE Evaluation!Sealable(r)
  <2> DEFINE bundle == Evaluation!Bundle
             v == run.version + 1
  <2>1. /\ run.status = "comparing" /\ Evaluation!Sound
        /\ \A c \in Assignment : task[c].status = "completed"
        /\ run' = [run EXCEPT !.status = "decision_ready", !.version = v, !.evidence = bundle]
    BY <1>2 DEF Evaluation!Seal, Evaluation!Sealable, Evaluation!SealedFrom, Evaluation!Rederived,
       Evaluation!Decided
  <2>2. bundle \in Evaluation!Evidence /\ v \in Nat
    BY <2>1, BundleTyped, EvaluationTypes DEF EvaluationInv
  <2>3. Evaluation!Bundle' = bundle /\ Evaluation!Sound'
    BY <1>0, <2>1 DEF Evaluation!Sound, Evaluation!Bundle,
       Evaluation!Latest, Evaluation!LastAttempt, Evaluation!Metrics, Evaluation!Recommendation,
       Evaluation!GateFailed
  <2> HIDE DEF bundle, v
  <2>4. /\ run'.status = "decision_ready" /\ run'.evidence = bundle /\ run'.completed = run.completed
        /\ run' \in [status : Evaluation!States, version : Nat, completed : 0..Cardinality(Assignment),
                     evidence : Evaluation!Evidence \cup {Nil}]
    BY <2>1, <2>2 DEF Evaluation!States, EvaluationInv, EvaluationTyped
  <2>5. /\ runner'[r] = Evaluation!Idle /\ \A q \in Process : q # r => runner'[q] = runner[q]
        /\ runner' \in [Process -> RunnerRow] /\ Evaluation!Idle.step = "off"
    BY <1>0, EvaluationTypes DEF Evaluation!Idle, RunnerRow
  <2>6. AllDone
    BY <2>1 DEF EvaluationInv, TasksStand
  <2>7. EvaluationTyped'
    BY <1>0, <2>4, <2>5 DEF EvaluationInv, EvaluationTyped
  <2>8. TasksStand' /\ ResultsStand'
    BY <1>0, <2>4, <2>6 DEF EvaluationInv, TasksStand, ResultsStand, AllDone, Busy
  <2>9. ASSUME NEW q \in Process PROVE ~Leasing(q)' /\ Relies(q)'
    BY <2>1, <2>5, <1>0, <2>4 DEF EvaluationInv, RunnersStand, Relies, Leasing
  <2>10. RunnersStand'
    BY <2>9 DEF RunnersStand
  <2>11. AccountsStand'
    BY <1>0, <2>1, <2>4, ConsumedIsNatural DEF EvaluationInv, AccountsStand, Busy
  <2>12. Evaluation!SealedFromResults'
    BY <1>0, <2>1, <2>3, <2>4 DEF Evaluation!SealedFromResults
  <2> QED BY <2>7, <2>8, <2>10, <2>11, <2>12 DEF EvaluationInv
<1> QED BY <1>1, <1>2

LEMMA EvaluationCancels ==
  ASSUME EvaluationConstants, EvaluationInv, Evaluation!Cancel
  PROVE  EvaluationInv'
<1>0. UNCHANGED <<results, runner, revoked, spent>> /\ run.status # "decision_ready"
  BY DEF Evaluation!Cancel, Evaluation!Terminal
<1> DEFINE v == run.version + 1
<1>1. run' = [run EXCEPT !.status = "cancelled", !.version = v] /\ v \in Nat
  BY EvaluationTypes DEF Evaluation!Cancel, Evaluation!Save
<1> HIDE DEF v
<1>2. /\ run'.status = "cancelled"
      /\ run' \in [status : Evaluation!States, version : Nat, completed : 0..Cardinality(Assignment),
                   evidence : Evaluation!Evidence \cup {Nil}]
  BY <1>1 DEF Evaluation!States, EvaluationInv, EvaluationTyped
<1>3. /\ task = Nil => task' = Nil
      /\ task # Nil => /\ task' # Nil /\ task' \in [Assignment -> Evaluation!Task]
                       /\ \A c \in Assignment : /\ task'[c].attempt = task[c].attempt
                                                /\ task'[c].status = "running" => Busy(c)
  BY EvaluationTypes DEF Evaluation!Cancel, Evaluation!Task, Busy, EvaluationConstants
<1>4. EvaluationTyped'
  BY <1>0, <1>2, <1>3 DEF EvaluationInv, EvaluationTyped
<1>5. TasksStand'
  BY <1>3, <1>2 DEF EvaluationInv, TasksStand, Busy
<1>6. ResultsStand'
  BY <1>0, <1>2, <1>3 DEF EvaluationInv, EvaluationTyped, Evaluation!Result, ResultsStand
<1>7. RunnersStand'
  BY <1>0, <1>2, <1>3 DEF Leasing, EvaluationInv, RunnersStand, Relies
<1>8. AccountsStand'
  BY <1>0, <1>2, ConsumedIsNatural DEF EvaluationInv, AccountsStand
<1>9. Evaluation!SealedFromResults'
  BY <1>2 DEF Evaluation!SealedFromResults
<1> QED BY <1>4, <1>5, <1>6, <1>7, <1>8, <1>9 DEF EvaluationInv

\* A lease runs out, a definition is revoked, and nothing.
LEMMA EvaluationLapses ==
  ASSUME EvaluationConstants, EvaluationInv,
         Evaluation!Lapse \/ Evaluation!Revoke \/ UNCHANGED evaluationVars
  PROVE  EvaluationInv'
<1>1. UNCHANGED <<run, results, runner, spent>> /\ revoked' \subseteq Evaluation!Definitions
  BY DEF Evaluation!Lapse, Evaluation!Revoke, evaluationVars, EvaluationInv, EvaluationTyped
<1>2. /\ task = Nil => task' = Nil
      /\ task # Nil => /\ task' # Nil /\ task' \in [Assignment -> Evaluation!Task]
                       /\ \A c \in Assignment : /\ task'[c].attempt = task[c].attempt
                                                /\ task'[c].status = task[c].status
  <2>1. CASE Evaluation!Lapse
    <3>1. PICK c \in Assignment : task' = [task EXCEPT ![c].expired = TRUE]
      BY <2>1 DEF Evaluation!Lapse, Evaluation!Running
    <3>2. task # Nil /\ task \in [Assignment -> Evaluation!Task] /\ task[c] \in Evaluation!Task
      BY <2>1, EvaluationTypes DEF Evaluation!Lapse
    <3> DEFINE mine == [task[c] EXCEPT !.expired = TRUE]
    <3>3. mine \in Evaluation!Task /\ mine.attempt = task[c].attempt /\ mine.status = task[c].status
      BY <3>2 DEF Evaluation!Task
    <3>4. task' = [task EXCEPT ![c] = mine]
      BY <3>1
    <3> HIDE DEF mine
    <3>5. task' \in [Assignment -> Evaluation!Task]
      BY <3>2, <3>3, <3>4
    <3>6. task' # Nil
      BY <3>5 DEF EvaluationConstants
    <3> QED BY <3>2, <3>3, <3>4, <3>5, <3>6
  <2>2. CASE task' = task
    BY <2>2, EvaluationTypes
  <2> QED BY <2>1, <2>2 DEF Evaluation!Revoke, evaluationVars
<1>3. EvaluationTyped'
  BY <1>1, <1>2 DEF EvaluationInv, EvaluationTyped
<1>4. task # Nil => \A c \in Assignment : (Busy(c)' <=> Busy(c))
  BY <1>2 DEF Busy
<1>5. (AllDone' <=> AllDone) /\ (Evaluation!Whole' <=> Evaluation!Whole)
  BY <1>1, <1>2 DEF AllDone, Evaluation!Whole
<1>6. TasksStand'
  BY <1>1, <1>2, <1>4, <1>5 DEF EvaluationInv, TasksStand
<1>7. ResultsStand'
  BY <1>1, <1>2, <1>4 DEF EvaluationInv, EvaluationTyped, Evaluation!Result, ResultsStand
<1>8. RunnersStand'
  BY <1>1, ConsumedIsNatural, <1>2, <1>5 DEF Leasing, EvaluationInv, RunnersStand, Relies, Busy
<1>9. AccountsStand'
  BY <1>1, <1>2, <1>4, ConsumedIsNatural DEF EvaluationInv, AccountsStand
<1>10. Evaluation!SealedFromResults'
  <2>1. (Evaluation!Sound' <=> Evaluation!Sound) /\ Evaluation!Bundle' = Evaluation!Bundle
    BY <1>1 DEF Evaluation!Sound, Evaluation!Bundle,
       Evaluation!Latest, Evaluation!LastAttempt, Evaluation!Metrics, Evaluation!Recommendation,
       Evaluation!GateFailed
  <2>2. run.status = "decision_ready" => task # Nil
    BY DEF EvaluationInv, TasksStand
  <2> QED BY <1>1, <1>2, <2>1, <2>2 DEF EvaluationInv, Evaluation!SealedFromResults
<1> QED BY <1>3, <1>6, <1>7, <1>8, <1>9, <1>10 DEF EvaluationInv

LEMMA EvaluationNextKeeps ==
  ASSUME EvaluationConstants, EvaluationInv, [Evaluation!Next]_evaluationVars
  PROVE  EvaluationInv'
BY EvaluationRegisters, EvaluationTransitions, EvaluationMaterializes, EvaluationClaims,
   EvaluationHandles, EvaluationCompletes, EvaluationSteps, EvaluationCollects, EvaluationSeals,
   EvaluationCancels, EvaluationLapses
DEF Evaluation!Next

LEMMA EvaluationTypesKept == EvaluationConstants /\ EvaluationInv => Evaluation!TypeOK
BY CasesCounted, EvaluationTypes DEF EvaluationInv, EvaluationTyped, Evaluation!TypeOK

\* What the handlers used is accounted for.
LEMMA SpendIsCovered == EvaluationInv => Evaluation!LedgerCoversSpend
BY DEF Evaluation!Running, Busy, EvaluationInv, AccountsStand, Evaluation!LedgerCoversSpend

\* A run that is over stays as it is, and none is decided on what was revoked.
LEMMA EvaluationDecides ==
  ASSUME EvaluationInv, [Evaluation!Next]_evaluationVars
  PROVE  /\ run.status \in Evaluation!Terminal => run' = run /\ results' = results
         /\ run'.status = "decision_ready" /\ run.status # "decision_ready" => revoked = {}
<1> DEFINE Goal == /\ run.status \in Evaluation!Terminal => run' = run /\ results' = results
                   /\ run'.status = "decision_ready" /\ run.status # "decision_ready" => revoked = {}
<1>0. /\ \A s, v : [run EXCEPT !.status = s, !.version = v].status = s
      /\ \A v, k : [run EXCEPT !.version = v, !.completed = k].status = run.status
  BY DEF EvaluationInv, EvaluationTyped
<1>1. ASSUME UNCHANGED <<run, results>> PROVE Goal
  BY <1>1
<1>2. ASSUME NEW r \in Process, Evaluation!Register(r) PROVE Goal
  BY <1>2 DEF Evaluation!Register, Evaluation!Terminal
<1>3. ASSUME NEW r \in Process, Evaluation!Transition(r) PROVE Goal
  <2>1. CASE UNCHANGED run
    BY <1>3, <2>1 DEF Evaluation!Transition
  <2>2. CASE ~UNCHANGED run
    <3>1. PICK t \in Evaluation!Transitions :
            Evaluation!Leads(run.status, t[2]) /\ Evaluation!Save(t[2])
      BY <1>3, <2>2 DEF Evaluation!Transition
    <3>2. t[2] \in {"queued", "running", "grading", "comparing"}
      BY DEF Evaluation!Transitions
    <3>3. run'.status = t[2]
      BY <1>0, <3>1 DEF Evaluation!Save
    <3>4. run.status \notin Evaluation!Terminal
      BY <3>1 DEF Evaluation!Leads, Evaluation!Successor, Evaluation!Terminal
    <3> QED BY <3>2, <3>3, <3>4
  <2> QED BY <2>1, <2>2
<1>4. ASSUME NEW r \in Process, Evaluation!Claim(r) PROVE Goal
  BY <1>4, <1>0 DEF Evaluation!Claim, Evaluation!Reap, Evaluation!Fail, Evaluation!Save,
     Evaluation!Terminal
<1>5. ASSUME NEW r \in Process, Evaluation!Complete(r) PROVE Goal
  <2>1. CASE UNCHANGED <<run, results>>
    BY <1>1, <2>1
  <2>2. CASE ~UNCHANGED <<run, results>>
    <3>1. Evaluation!Current(r)
          /\ \E k : run' = [run EXCEPT !.version = @ + 1, !.completed = k]
      BY <1>5, <2>2 DEF Evaluation!Complete
    <3>2. run.status = "running" /\ run'.status = "running"
      BY <1>0, <3>1 DEF Evaluation!Current
    <3> QED BY <3>2 DEF Evaluation!Terminal
  <2> QED BY <2>1, <2>2
<1>6. ASSUME NEW r \in Process, Evaluation!Seal(r) PROVE Goal
  BY <1>6 DEF Evaluation!Seal, Evaluation!Sealable, Evaluation!SealedFrom, Evaluation!Terminal,
     Evaluation!AuthorityReleased
<1>7. ASSUME Evaluation!Cancel PROVE Goal
  BY <1>7 DEF Evaluation!Cancel, Evaluation!Save, Evaluation!Terminal
<1>8. ASSUME NEW r \in Process,
             Evaluation!Materialize(r) \/ Evaluation!Handle(r) \/ Evaluation!Check(r)
             \/ Evaluation!Collect(r) \/ Evaluation!Crash(r)
      PROVE  UNCHANGED <<run, results>>
  BY <1>8 DEF Evaluation!Materialize, Evaluation!Handle, Evaluation!Check, Evaluation!Collect,
     Evaluation!Crash
<1>9. ASSUME Evaluation!Lapse \/ Evaluation!Revoke \/ UNCHANGED evaluationVars
      PROVE  UNCHANGED <<run, results>>
  BY <1>9 DEF Evaluation!Lapse, Evaluation!Revoke, evaluationVars
<1> HIDE DEF Goal
<1>10. Goal
  BY <1>1, <1>2, <1>3, <1>4, <1>5, <1>6, <1>7, <1>8, <1>9 DEF Evaluation!Next
<1> QED BY <1>10 DEF Goal

-----------------------------------------------------------------------------
(* The definitions an evaluation rests on.                                 *)

Elems(s) == {s[i] : i \in 1..Len(s)}
FoundKinds == {"metric", "grader", "calibration", "suite", "suite-authority", "baseline-policy"}
Words == {"m", "g", "p", "s", "s1", Nil}
Asks == [kind : FoundKinds \cup {"clock"}, key : Words, rev : Words]
Statement == {"benchmark", "graders", "suite", "policy", "metrics"}
Plans == [benchmark : Submittable \cup {Nil}, found : SUBSET Submittable, at : Nat]
ServiceRow ==
  [step : {"off", "plan", "insert", "conflict", "verify", "commit"}, todo : Seq(Asks \cup Statement),
   plan : Plans, gone : SUBSET Submittable, locked : SUBSET Submittable]

\* The kinds of definition a statement of the insert looks at.
Looked(statement) ==
  CASE statement = "benchmark" -> {"benchmark"}
    [] statement = "graders"   -> {"grader", "calibration"}
    [] statement = "suite"     -> {"suite", "suite-authority"}
    [] statement = "policy"    -> {"baseline-policy"}
    [] statement = "metrics"   -> {"metric"}

\* What was found fits together.
PlanSound(plan, docs) ==
  /\ plan.benchmark \in docs /\ plan.benchmark.kind = "benchmark" /\ plan.found \subseteq docs
  /\ \A d \in plan.found : d.kind \in FoundKinds
  /\ \A s \in Definitions!Of(plan, "suite") : s.rev = plan.benchmark.suite.rev
  /\ \A a \in Definitions!Of(plan, "suite-authority") :
       \E s \in Definitions!Of(plan, "suite") :
         s.key = a.key /\ s.authority = a.rev /\ s.terms = a.terms
  /\ \A c \in Definitions!Of(plan, "calibration") :
       /\ c.from <= plan.at /\ plan.at < c.until
       /\ \E g \in Definitions!Of(plan, "grader") :
            g.key = c.key /\ g.implementation = c.implementation

\* What the benchmark needs was found, or is still to be read.
Answered(plan, asks) ==
  /\ \A i \in DOMAIN plan.benchmark.graders :
       \/ \E c \in Definitions!Of(plan, "calibration") : c.key = plan.benchmark.graders[i]
       \/ \E ask \in asks : ask.kind = "calibration" /\ ask.key = plan.benchmark.graders[i]
  /\ \A i \in DOMAIN plan.benchmark.metrics :
       \/ \E m \in Definitions!Of(plan, "metric") : m.key = plan.benchmark.metrics[i]
       \/ \E ask \in asks : ask.kind = "metric" /\ ask.key = plan.benchmark.metrics[i]
  /\ \/ Definitions!Of(plan, "suite-authority") # {}
     \/ \E ask \in asks : ask.kind = "suite-authority"

\* No calibration is read before the clock.
ClockFirst(todo) ==
  \A i, j \in 1..Len(todo) : todo[i].kind = "calibration" /\ todo[j].kind = "clock" => j < i

Planning(row, docs) ==
  /\ PlanSound(row.plan, docs) /\ Answered(row.plan, Elems(row.todo))
  /\ row.todo \in Seq(Asks) /\ ClockFirst(row.todo)
  /\ \A ask \in Elems(row.todo) :
       /\ ask.kind = "suite" => ask.rev = row.plan.benchmark.suite.rev
       /\ ask.kind = "clock" => Definitions!Of(row.plan, "calibration") = {}

NotAllJudges(plan) == \E g \in Definitions!Of(plan, "grader") : g.sort # "model-judge"
Inserting(row, docs, out) ==
  /\ PlanSound(row.plan, docs) /\ Answered(row.plan, {})
  /\ row.todo \in Seq(Statement) /\ row.gone \subseteq out \cap Definitions!Names(row.plan)
  /\ \A statement \in Statement \ Elems(row.todo) :
       \A d \in row.gone : d.kind \notin Looked(statement)
  /\ "graders" \notin Elems(row.todo) => NotAllJudges(row.plan)

Registered(plan, docs) == PlanSound(plan, docs) /\ Answered(plan, {}) /\ NotAllJudges(plan)

\* A definition that is not locked was revoked, or is an authority without its suite.
Sealing(row, out, ev) ==
  /\ ev # Nil /\ row.plan = ev.plan
  /\ \A d \in Definitions!Names(row.plan) \ row.locked :
       /\ row.step = "verify"
       /\ d \in out \/ (d.kind = "suite-authority"
                        /\ \E s \in Definitions!Of(row.plan, "suite") : s \in out)

ServiceStands(row, docs, out, ev) ==
  /\ row \in ServiceRow /\ row.locked \subseteq docs \ out
  /\ row.step = "plan" => Planning(row, docs)
  /\ row.step = "insert" => Inserting(row, docs, out)
  /\ row.step \in {"verify", "commit"} => Sealing(row, out, ev)

\* A suite repeats the terms of one authority.
SuiteStands(s, docs) ==
  /\ Definitions!SuiteSound(s.terms)
  /\ \E a \in docs : Definitions!Identity(a) = <<"suite-authority", s.key, s.authority>>
                     /\ a.terms = s.terms

DocumentsStand ==
  /\ released \subseteq Submittable /\ withdrawn \subseteq released /\ today \in 0..1
  /\ \A d, e \in released : Definitions!Identity(d) = Definitions!Identity(e) => d = e
  /\ \A d \in released : d.kind = "calibration" => Definitions!CalibrationReadable(d)
  /\ \A s \in released : s.kind = "suite" => SuiteStands(s, released)

DefinitionsInv ==
  /\ DocumentsStand /\ service \in [{"service"} -> ServiceRow]
  /\ \A p \in {"service"} : ServiceStands(service[p], released, withdrawn, evaluation)
  /\ evaluation # Nil => /\ evaluation \in [plan : Plans, sealed : BOOLEAN]
                         /\ Registered(evaluation.plan, released)

-----------------------------------------------------------------------------
(* What the database admits is what the service reads.                     *)

LEMMA SmallerFactor ==
  ASSUME NEW a \in Nat, NEW b \in Nat, NEW k \in Nat, k > 0, a * k <= b * k
  PROVE  a <= b
OBVIOUS

LEMMA LargerFactor ==
  ASSUME NEW a \in Nat, NEW b \in Nat, NEW k \in Nat, a <= b
  PROVE  a * k <= b * k
OBVIOUS

Figures == [tp : Nat, tn : Nat, fp : Nat, fn : Nat, sample : Nat,
            balanced : Nat \X Nat, f1 : Nat \X Nat]

\* The database and the service, each multiplying the ratios out in its own order,
\* accept the same confusion matrices with the same figures.
THEOREM MeasuresAgree ==
  ASSUME NEW m \in Figures
  PROVE  Definitions!MeasureAdmitted(m) <=> Definitions!MeasureReadable(m)
<1> DEFINE p == m.tp + m.fn
           n == m.tn + m.fp
           u == m.tp * n + m.tn * p
           v == 2 * m.tp + m.fp + m.fn
           b1 == m.balanced[1]
           b2 == m.balanced[2]
           f1 == m.f1[1]
           f2 == m.f1[2]
<1>t. /\ m.tp \in Nat /\ m.tn \in Nat /\ m.fp \in Nat /\ m.fn \in Nat /\ m.sample \in Nat
      /\ b1 \in Nat /\ b2 \in Nat /\ f1 \in Nat /\ f2 \in Nat
  BY DEF Figures
<1>n. p \in Nat /\ n \in Nat /\ u \in Nat /\ v \in Nat
  BY <1>t
<1>1. Definitions!MeasureAdmitted(m) <=>
        /\ p + n = m.sample /\ p > 0 /\ n > 0 /\ v > 0
        /\ b1 * (2 * (p * n)) = u * b2 /\ f1 * v = (2 * m.tp) * f2
  BY <1>t DEF Definitions!Half, Definitions!Plus, Definitions!MeasureAdmitted, Definitions!Equal
<1>2. Definitions!MeasureReadable(m) <=>
        /\ p + n = m.sample /\ b1 <= b2 /\ f1 <= f2 /\ p > 0 /\ n > 0
        /\ b1 * (2 * p * n) = u * b2 /\ f1 * v = (2 * m.tp) * f2
  BY DEF Definitions!MeasureReadable, Definitions!Equal
<1>3. 2 * p * n = 2 * (p * n)
  BY <1>n
<1>4. v > 0 <=> p > 0 \/ n > m.tn
  BY <1>t
<1>5. ASSUME p > 0, n > 0, b1 * (2 * (p * n)) = u * b2
      PROVE  b1 <= b2
  <2>1. m.tp * n <= p * n /\ m.tn * p <= n * p
    BY <1>t, <1>n, LargerFactor
  <2>2. u <= 2 * (p * n)
    BY <2>1, <1>t, <1>n
  <2>3. u * b2 <= (2 * (p * n)) * b2
    BY <2>2, <1>t, <1>n, LargerFactor
  <2>4. b1 * (2 * (p * n)) <= b2 * (2 * (p * n))
    BY <2>3, <1>5, <1>t, <1>n
  <2>5. 2 * (p * n) \in Nat /\ 2 * (p * n) > 0
    BY <1>5, <1>n
  <2> HIDE DEF p, n, b1, b2
  <2> QED
    BY <2>4, <2>5, <1>t, SmallerFactor
<1>6. ASSUME v > 0, f1 * v = (2 * m.tp) * f2
      PROVE  f1 <= f2
  <2>1. 2 * m.tp <= v
    BY <1>t
  <2>2. (2 * m.tp) * f2 <= v * f2
    BY <2>1, <1>t, <1>n, LargerFactor
  <2>3. f1 * v <= f2 * v
    BY <2>2, <1>6, <1>t, <1>n
  <2> HIDE DEF v, f1, f2
  <2> QED
    BY <2>3, <1>6, <1>t, <1>n, SmallerFactor
<1> HIDE DEF p, n, u, v, b1, b2, f1, f2
<1> QED
  BY <1>1, <1>2, <1>3, <1>4, <1>5, <1>6, <1>t, <1>n

LEMMA CalibrationsAgree ==
  ASSUME NEW c, c.overall \in Figures, \A s \in DOMAIN c.slices : c.slices[s] \in Figures,
         Definitions!CalibrationAdmitted(c)
  PROVE  Definitions!CalibrationReadable(c)
<1>1. ASSUME NEW m \in Figures, Definitions!MeasureAdmitted(m)
      PROVE  m.sample \in Nat /\ m.sample > 0
  BY <1>1 DEF Definitions!MeasureAdmitted, Figures
<1>2. ASSUME NEW s \in DOMAIN c.slices
      PROVE  /\ c.slices[s].sample \in 1..c.overall.sample
             /\ Definitions!MeasureReadable(c.slices[s])
  BY <1>2, MeasuresAgree, <1>1 DEF Definitions!CalibrationAdmitted, Figures
<1>3. Definitions!MeasureReadable(c.overall)
  BY MeasuresAgree DEF Definitions!CalibrationAdmitted
<1> QED
  BY <1>2, <1>3 DEF Definitions!CalibrationAdmitted, Definitions!CalibrationReadable

\* What may be submitted, kind by kind.
LEMMA MatrixTyped == Matrix \in Figures /\ [Matrix EXCEPT !.sample = 4] \in Figures
BY DEF Matrix, Figures

SubmittedCalibrations ==
  {Calibration("c1", 1, Matrix), Calibration("c2", 2, Matrix),
   Calibration("c3", 2, [Matrix EXCEPT !.sample = 4])}
SubmittedSuites == {Suite("s1", Terms), Suite("s2", [Terms EXCEPT !.cases = {"d"}])}
SubmittedAuthorities ==
  {Authority("a1", Terms), Authority("a2", [Terms EXCEPT !.evaluator = "owner"])}

LEMMA SubmittableKinds ==
  ASSUME NEW d \in Submittable
  PROVE  /\ d.kind \in Definitions!Kinds
         /\ d.kind = "calibration" => d \in SubmittedCalibrations
         /\ d.kind = "suite" => d \in SubmittedSuites
         /\ d.kind = "suite-authority" => d \in SubmittedAuthorities
         /\ d.kind = "benchmark" => /\ d.metrics = <<"m">> /\ d.graders = <<"g">> /\ d.policy = "p"
                                    /\ d.suite = [key |-> "s", rev |-> "s1"]
BY DEF Submittable, AlreadyReleased, SubmittedCalibrations, SubmittedSuites,
       SubmittedAuthorities, Calibration, Suite, Authority, Definitions!Kinds

LEMMA CalibrationsTyped ==
  ASSUME NEW c \in Submittable, c.kind = "calibration"
  PROVE  /\ c.overall \in Figures /\ \A s \in DOMAIN c.slices : c.slices[s] \in Figures
BY SubmittableKinds, MatrixTyped DEF SubmittedCalibrations, Calibration

\* Nothing was released twice under one identity.
LEMMA SeededApart ==
  /\ \A d, e \in AlreadyReleased : d.kind = e.kind => d = e
  /\ \A d \in AlreadyReleased : d.kind # "suite"
BY DEF AlreadyReleased, Calibration, Authority

LEMMA SeededReadable ==
  ASSUME NEW c \in AlreadyReleased, c.kind = "calibration"
  PROVE  Definitions!CalibrationReadable(c)
<1>1. c = Calibration("c1", 1, Matrix)
  BY DEF AlreadyReleased, Authority
<1>2. Definitions!MeasureReadable(Matrix)
  BY DEF Matrix, Definitions!MeasureReadable, Definitions!Equal
<1> QED
  BY <1>1, <1>2 DEF Calibration, Definitions!CalibrationReadable, Matrix

-----------------------------------------------------------------------------
(* Steps of a service that leave the documents as they are.                *)

LEMMA ServiceMoves ==
  ASSUME DefinitionsInv, NEW p \in {"service"}, NEW row,
         service' = [service EXCEPT ![p] = row],
         UNCHANGED <<released, withdrawn, today, evaluation>>,
         ServiceStands(row, released, withdrawn, evaluation)
  PROVE  DefinitionsInv'
BY DEF DefinitionsInv, DocumentsStand, Registered, ServiceStands

LEMMA IdleStands ==
  ASSUME NEW docs, NEW out, NEW ev
  PROVE  ServiceStands(Definitions!Idle, docs, out, ev)
BY DEF Definitions!NoPlan, Plans, Definitions!Idle, ServiceRow, ServiceStands

LEMMA StopKeeps ==
  ASSUME DefinitionsInv, NEW p \in {"service"}, Definitions!Stop(p),
         UNCHANGED <<released, withdrawn, today, evaluation>>
  PROVE  DefinitionsInv'
BY IdleStands, ServiceMoves DEF Definitions!Stop

LEMMA DefinitionsInit == Definitions!Init => DefinitionsInv
<1> SUFFICES ASSUME Definitions!Init PROVE DefinitionsInv
  OBVIOUS
<1>1. released = AlreadyReleased /\ withdrawn = {} /\ today = 0 /\ evaluation = Nil
  BY DEF Definitions!Init
<1>2. DocumentsStand
  BY <1>1, SeededReadable, SeededApart DEF Definitions!Identity, Submittable, DocumentsStand
<1>3. service = [p \in {"service"} |-> Definitions!Idle]
  BY DEF Definitions!Init
<1>4. ServiceStands(Definitions!Idle, released, withdrawn, evaluation)
  BY IdleStands
<1>5. Definitions!Idle \in ServiceRow
  BY <1>4 DEF ServiceStands
<1> QED
  BY <1>1, <1>2, <1>3, <1>4, <1>5 DEF DefinitionsInv

\* What the planner is to read for a benchmark.
Questions ==
  <<Definitions!Ask("metric", "m", "m"), Definitions!Ask("clock", Nil, Nil),
    Definitions!Ask("grader", "g", "g"), Definitions!Ask("calibration", "g", Nil),
    Definitions!Ask("suite", "s", "s1"), Definitions!Ask("suite-authority", "s", Nil),
    Definitions!Ask("baseline-policy", "p", "p")>>

LEMMA Joined ==
  ASSUME NEW S, NEW s \in Seq(S), NEW t \in Seq(S), NEW u \in Seq(S), Len(u) = Len(s) + Len(t),
         \A i \in 1..Len(s) : u[i] = s[i], \A i \in 1..Len(t) : u[Len(s) + i] = t[i]
  PROVE  s \o t = u
<1>1. s \o t \in Seq(S) /\ Len(s \o t) = Len(s) + Len(t)
  OBVIOUS
<1>2. ASSUME NEW i \in 1..Len(u)
      PROVE  (s \o t)[i] = u[i]
  <2>1. CASE i \in 1..Len(s)
    BY <2>1
  <2>2. CASE i \notin 1..Len(s)
    BY <2>2
  <2> QED
    BY <2>1, <2>2
<1> QED
  BY <1>1, <1>2, SeqEqual

LEMMA OneAndOne ==
  ASSUME NEW S, NEW x1 \in S, NEW x2 \in S
  PROVE  <<x1>> \o <<x2>> = <<x1, x2>>
<1> DEFINE s == <<x1>>
           t == <<x2>>
           u == <<x1, x2>>
<1>1. u \in Seq(S) /\ s \in Seq(S) /\ t \in Seq(S)
  OBVIOUS
<1>2. /\ Len(u) = 2 /\ u[1] = x1 /\ u[2] = x2
      /\ Len(s) = 1 /\ s[1] = x1 /\ Len(t) = 1 /\ t[1] = x2
  OBVIOUS
<1> HIDE DEF s, t, u
<1>3. /\ Len(u) = Len(s) + Len(t) /\ \A i \in 1..Len(s) : u[i] = s[i]
      /\ \A i \in 1..Len(t) : u[Len(s) + i] = t[i]
  BY <1>2
<1>4. s \o t = u
  BY <1>1, <1>3, Joined, Zenon
<1> QED
  BY <1>4 DEF s, t, u

LEMMA TwoAndTwo ==
  ASSUME NEW S, NEW x1 \in S, NEW x2 \in S, NEW x3 \in S, NEW x4 \in S
  PROVE  <<x1, x2>> \o <<x3, x4>> = <<x1, x2, x3, x4>>
<1> DEFINE u == <<x1, x2, x3, x4>>
<1>1. u \in Seq(S) /\ <<x1, x2>> \in Seq(S) /\ <<x3, x4>> \in Seq(S)
  OBVIOUS
<1>2. /\ Len(u) = 4 /\ u[1] = x1 /\ u[2] = x2 /\ u[3] = x3 /\ u[4] = x4
  OBVIOUS
<1> HIDE DEF u
<1>3. <<x1, x2>> \o <<x3, x4>> = u
  BY <1>1, <1>2, Joined
<1> QED
  BY <1>3 DEF u

LEMMA FourAndThree ==
  ASSUME NEW S, NEW x1 \in S, NEW x2 \in S, NEW x3 \in S, NEW x4 \in S,
         NEW x5 \in S, NEW x6 \in S, NEW x7 \in S
  PROVE  <<x1, x2, x3, x4>> \o <<x5, x6, x7>> = <<x1, x2, x3, x4, x5, x6, x7>>
<1> DEFINE u == <<x1, x2, x3, x4, x5, x6, x7>>
<1>1. u \in Seq(S) /\ <<x1, x2, x3, x4>> \in Seq(S) /\ <<x5, x6, x7>> \in Seq(S)
  OBVIOUS
<1>2. /\ Len(u) = 7 /\ u[1] = x1 /\ u[2] = x2 /\ u[3] = x3 /\ u[4] = x4
      /\ u[5] = x5 /\ u[6] = x6 /\ u[7] = x7
  OBVIOUS
<1> HIDE DEF u
<1>3. <<x1, x2, x3, x4>> \o <<x5, x6, x7>> = u
  BY <1>1, <1>2, Joined
<1> QED
  BY <1>3 DEF u

LEMMA ReadsAre ==
  ASSUME NEW b \in Submittable, b.kind = "benchmark"
  PROVE  Definitions!Reads(b) = Questions
<1>b. /\ b.metrics = <<"m">> /\ b.graders = <<"g">> /\ b.policy = "p"
      /\ b.suite = [key |-> "s", rev |-> "s1"]
  BY SubmittableKinds
<1>1. [i \in DOMAIN b.metrics |-> Definitions!Ask("metric", b.metrics[i], b.metrics[i])]
        = <<Definitions!Ask("metric", "m", "m")>>
  BY <1>b
<1>2. [i \in 1..(2 * Len(b.graders)) |->
        LET g == b.graders[(i + 1) \div 2]
        IN IF i % 2 = 1 THEN Definitions!Ask("grader", g, g) ELSE Definitions!Ask("calibration", g, Nil)]
        = <<Definitions!Ask("grader", "g", "g"), Definitions!Ask("calibration", "g", Nil)>>
  BY <1>b
<1>3. b.suite.key = "s" /\ b.suite.rev = "s1"
  BY <1>b
<1>4. Definitions!Reads(b) =
        <<Definitions!Ask("metric", "m", "m")>> \o <<Definitions!Ask("clock", Nil, Nil)>>
        \o <<Definitions!Ask("grader", "g", "g"), Definitions!Ask("calibration", "g", Nil)>>
        \o <<Definitions!Ask("suite", "s", "s1"), Definitions!Ask("suite-authority", "s", Nil),
             Definitions!Ask("baseline-policy", "p", "p")>>
  BY <1>b, <1>1, <1>2, <1>3 DEF Definitions!Reads
<1>5. ASSUME NEW x1, NEW x2, NEW x3, NEW x4, NEW x5, NEW x6, NEW x7
      PROVE  <<x1>> \o <<x2>> \o <<x3, x4>> \o <<x5, x6, x7>> = <<x1, x2, x3, x4, x5, x6, x7>>
  <2> DEFINE S == {x1, x2, x3, x4, x5, x6, x7}
  <2>s. x1 \in S /\ x2 \in S /\ x3 \in S /\ x4 \in S /\ x5 \in S /\ x6 \in S /\ x7 \in S
    OBVIOUS
  <2> HIDE DEF S
  <2>1. <<x1>> \o <<x2>> = <<x1, x2>>
    BY <2>s, OneAndOne
  <2>2. <<x1, x2>> \o <<x3, x4>> = <<x1, x2, x3, x4>>
    BY <2>s, TwoAndTwo
  <2>3. <<x1, x2, x3, x4>> \o <<x5, x6, x7>> = <<x1, x2, x3, x4, x5, x6, x7>>
    BY <2>s, FourAndThree
  <2> QED
    BY <2>1, <2>2, <2>3
<1> QED
  BY <1>4, <1>5 DEF Questions

LEMMA QuestionsStand ==
  /\ Questions \in Seq(Asks) /\ ClockFirst(Questions)
  /\ \A ask \in Elems(Questions) : ask.kind = "suite" => ask.rev = "s1"
  /\ \E ask \in Elems(Questions) : ask.kind = "metric" /\ ask.key = "m"
  /\ \E ask \in Elems(Questions) : ask.kind = "calibration" /\ ask.key = "g"
  /\ \E ask \in Elems(Questions) : ask.kind = "suite-authority"
BY DEF Questions, FoundKinds, Words, Definitions!Ask, Asks, ClockFirst, Elems

LEMMA PlanKeeps ==
  ASSUME DefinitionsInv, NEW p \in {"service"}, Definitions!Plan(p)
  PROVE  DefinitionsInv'
<1>1. PICK b \in Definitions!Benchmarks :
        service' = [service EXCEPT ![p] = [Definitions!Idle EXCEPT
          !.step = "plan", !.plan.benchmark = b, !.todo = Definitions!Reads(b)]]
  BY DEF Definitions!Plan
<1>b. b \in released /\ b \in Submittable /\ b.kind = "benchmark"
  BY DEF Definitions!Benchmarks, Definitions!Active, DefinitionsInv, DocumentsStand
<1> DEFINE row == [Definitions!Idle EXCEPT
                      !.step = "plan", !.plan.benchmark = b, !.todo = Definitions!Reads(b)]
           plan == row.plan
<1>2. /\ row.step = "plan" /\ row.todo = Questions /\ row.locked = {}
      /\ plan.benchmark = b /\ plan.found = {} /\ plan.at = 0 /\ row \in ServiceRow
  <2>1. Definitions!Reads(b) = Questions
    BY <1>b, ReadsAre
  <2>2. Definitions!Idle \in ServiceRow
    BY IdleStands DEF ServiceStands
  <2>3. Questions \in Seq(Asks \cup Statement)
    BY QuestionsStand
  <2>4. /\ row.step = "plan" /\ row.todo = Questions /\ row.locked = {}
        /\ plan.benchmark = b /\ plan.found = {} /\ plan.at = 0
    BY <2>1 DEF Definitions!Idle, Definitions!NoPlan
  <2>5. row \in ServiceRow
    BY <1>b, <2>1, <2>2, <2>3 DEF ServiceRow, Plans
  <2> QED
    BY <2>4, <2>5
<1>3. service' = [service EXCEPT ![p] = row]
  BY <1>1
<1> HIDE DEF row
<1>4. PlanSound(plan, released)
  BY <1>b, <1>2 DEF PlanSound, Definitions!Of
<1>5. Answered(plan, Elems(Questions))
  BY <1>b, SubmittableKinds, <1>2, QuestionsStand DEF Answered
<1>6. Planning(row, released)
  BY <1>b, SubmittableKinds, <1>2, <1>4, <1>5, QuestionsStand DEF Definitions!Of, Planning
<1>7. ServiceStands(row, released, withdrawn, evaluation)
  BY <1>2, <1>6 DEF ServiceStands
<1> QED
  BY <1>3, <1>7, ServiceMoves DEF Definitions!Plan

LEMMA TodoSplits ==
  ASSUME NEW S, NEW todo \in Seq(S), todo # <<>>
  PROVE  /\ Head(todo) = todo[1] /\ Head(todo) \in S /\ Tail(todo) \in Seq(S)
         /\ Len(Tail(todo)) = Len(todo) - 1 /\ Len(todo) \in Nat /\ Len(todo) > 0
         /\ \A i \in 1..Len(Tail(todo)) : Tail(todo)[i] = todo[i + 1] /\ i + 1 \in 1..Len(todo)
         /\ Elems(todo) = {Head(todo)} \cup Elems(Tail(todo))
<1>1. /\ Head(todo) = todo[1] /\ Head(todo) \in S /\ Tail(todo) \in Seq(S)
      /\ Len(Tail(todo)) = Len(todo) - 1 /\ Len(todo) \in Nat /\ Len(todo) > 0
      /\ \A i \in 1..Len(Tail(todo)) : Tail(todo)[i] = todo[i + 1] /\ i + 1 \in 1..Len(todo)
  OBVIOUS
<1>2. ASSUME NEW i \in 1..Len(todo)
      PROVE  todo[i] \in {Head(todo)} \cup Elems(Tail(todo))
  <2>1. CASE i = 1
    BY <1>1, <2>1
  <2>2. CASE i # 1
    <3>1. i - 1 \in 1..Len(Tail(todo)) /\ Tail(todo)[i - 1] = todo[i]
      BY <1>1, <2>2
    <3> QED
      BY <3>1 DEF Elems
  <2> QED
    BY <2>1, <2>2
<1>3. Elems(todo) = {Head(todo)} \cup Elems(Tail(todo))
  BY <1>2, <1>1 DEF Elems
<1> QED
  BY <1>1, <1>3

LEMMA ClockStaysFirst ==
  ASSUME NEW todo \in Seq(Asks), todo # <<>>, ClockFirst(todo)
  PROVE  /\ ClockFirst(Tail(todo))
         /\ Head(todo).kind = "calibration" =>
              \A ask \in Elems(Tail(todo)) : ask.kind # "clock"
<1> DEFINE rest == Tail(todo)
<1>1. /\ Len(rest) \in Nat /\ 1 \in 1..Len(todo) /\ Head(todo) = todo[1]
      /\ \A i \in 1..Len(rest) : rest[i] = todo[i + 1] /\ i + 1 \in 1..Len(todo)
  BY TodoSplits
<1> HIDE DEF rest
<1>2. ASSUME NEW i \in 1..Len(rest), NEW j \in 1..Len(rest),
             rest[i].kind = "calibration", rest[j].kind = "clock"
      PROVE  j < i
  <2>1. j + 1 < i + 1
    BY <1>1, <1>2 DEF ClockFirst
  <2> QED
    BY <2>1
<1>3. ASSUME todo[1].kind = "calibration", NEW i \in 1..Len(rest)
      PROVE  rest[i].kind # "clock"
  BY <1>1, <1>3 DEF ClockFirst
<1>4. ClockFirst(rest)
  BY <1>2 DEF ClockFirst
<1> QED
  BY <1>1, <1>3, <1>4 DEF rest, Elems

\* What a read adds to a plan goes with what was found before it.
LEMMA FoundFits ==
  ASSUME DefinitionsInv, NEW plan \in Plans, PlanSound(plan, released),
         NEW ask \in Asks, ask.kind # "clock",
         ask.kind = "suite" => ask.rev = plan.benchmark.suite.rev,
         NEW d \in Definitions!Found(plan, ask),
         NEW more, more.benchmark = plan.benchmark, more.at = plan.at,
         more.found = plan.found \cup {d}
  PROVE  /\ d \in released /\ d.kind = ask.kind
         /\ ask.kind \in {"calibration", "metric"} => d.key = ask.key
         /\ PlanSound(more, released)
<1>k. ask.kind \in FoundKinds
  BY DEF Asks
<1>1. CASE ask.kind = "calibration"
  BY <1>1 DEF Definitions!Found, Definitions!FoundCalibration, Definitions!TheOnly,
     Definitions!Active, Definitions!Fits, Definitions!Of, PlanSound, FoundKinds
<1>2. CASE ask.kind = "suite"
  BY <1>2 DEF Definitions!Found, Definitions!Named, Definitions!Active, Definitions!Identity,
     Definitions!Of, PlanSound, FoundKinds
<1>3. CASE ask.kind = "suite-authority"
  BY <1>3 DEF Definitions!Found, Definitions!FoundAuthority, Definitions!Active,
     Definitions!SuiteReadable, Definitions!Of, PlanSound, FoundKinds
<1>4. CASE ask.kind \in {"metric", "grader", "baseline-policy"}
  <2>1. d \in released /\ d.kind = ask.kind /\ (ask.kind = "metric" => d.key = ask.key)
    BY <1>4 DEF Definitions!Found, Definitions!FoundPolicy, Definitions!TheOnly,
                Definitions!Named, Definitions!Active, Definitions!Identity
  <2>2. /\ \A kind : Definitions!Of(plan, kind) \subseteq Definitions!Of(more, kind)
        /\ \A kind \in {"suite", "suite-authority", "calibration"} :
             Definitions!Of(more, kind) = Definitions!Of(plan, kind)
    BY <1>4, <2>1 DEF Definitions!Of
  <2> QED
    BY <1>4, <2>1, <2>2 DEF PlanSound, FoundKinds
<1> QED
  BY <1>k, <1>1, <1>2, <1>3, <1>4 DEF FoundKinds

LEMMA ReadKeeps ==
  ASSUME DefinitionsInv, NEW p \in {"service"}, Definitions!Read(p)
  PROVE  DefinitionsInv'
<1> DEFINE mine == service[p]
           ask == Head(mine.todo)
           rest == Tail(mine.todo)
           plan == mine.plan
<1>r. mine \in ServiceRow /\ mine.step = "plan" /\ mine.todo # <<>>
      /\ ServiceStands(mine, released, withdrawn, evaluation)
  BY DEF DefinitionsInv, Definitions!Read, Definitions!At
<1>p. /\ PlanSound(plan, released) /\ Answered(plan, Elems(mine.todo)) /\ plan \in Plans
      /\ mine.todo \in Seq(Asks) /\ ClockFirst(mine.todo) /\ mine.locked \subseteq released \ withdrawn
      /\ \A a \in Elems(mine.todo) :
           /\ a.kind = "suite" => a.rev = plan.benchmark.suite.rev
           /\ a.kind = "clock" => Definitions!Of(plan, "calibration") = {}
  BY <1>r DEF ServiceStands, Planning, ServiceRow
<1>t. /\ ask \in Asks /\ rest \in Seq(Asks) /\ ask \in Elems(mine.todo)
      /\ Elems(mine.todo) = {ask} \cup Elems(rest) /\ ClockFirst(rest)
      /\ ask.kind = "calibration" => \A a \in Elems(rest) : a.kind # "clock"
  BY <1>r, <1>p, TodoSplits, ClockStaysFirst
<1>s. rest \in Seq(Asks \cup Statement)
  BY <1>t
<1>u. UNCHANGED <<released, withdrawn, today, evaluation>>
  BY DEF Definitions!Read
<1>1. CASE ask.kind = "clock"
  <2> DEFINE row == [mine EXCEPT !.todo = rest, !.plan.at = today]
  <2>1. /\ row.step = "plan" /\ row.todo = rest /\ row.locked = mine.locked
        /\ row.plan.benchmark = plan.benchmark /\ row.plan.found = plan.found
        /\ row.plan.at = today
    BY <1>r DEF ServiceRow, Plans
  <2>2. row \in ServiceRow
    <3>1. today \in Nat
      BY DEF DefinitionsInv, DocumentsStand
    <3> HIDE DEF mine
    <3> QED
      BY <1>r, <1>s, <3>1 DEF ServiceRow, Plans
  <2>3. service' = [service EXCEPT ![p] = row]
    BY <1>1 DEF Definitions!Read
  <2> HIDE DEF row, mine, ask, rest, plan
  <2>4. \A kind : Definitions!Of(row.plan, kind) = Definitions!Of(plan, kind)
    BY <2>1 DEF Definitions!Of
  <2>5. Definitions!Of(plan, "calibration") = {}
    BY <1>1, <1>p, <1>t
  <2>6. PlanSound(row.plan, released)
    BY <1>p, <2>1, <2>4, <2>5 DEF PlanSound
  <2>7. Answered(row.plan, Elems(rest))
    BY <1>1, <1>p, <1>t, <2>1, <2>4 DEF Answered
  <2>8. Planning(row, released)
    BY <1>p, <1>t, <2>1, <2>4, <2>5, <2>6, <2>7 DEF Planning
  <2>9. ServiceStands(row, released, withdrawn, evaluation)
    BY <1>p, <2>1, <2>2, <2>8 DEF ServiceStands
  <2> QED
    BY <1>u, <2>3, <2>9, ServiceMoves
<1>2. CASE ask.kind # "clock" /\ Definitions!Found(plan, ask) = {}
  BY <1>2, <1>u, StopKeeps DEF Definitions!Read
<1>3. CASE ask.kind # "clock" /\ Definitions!Found(plan, ask) # {}
  <2>1. PICK d \in Definitions!Found(plan, ask) :
          service' = [service EXCEPT ![p].todo = Tail(@), ![p].plan.found = @ \cup {d}]
    BY <1>3 DEF Definitions!Read
  <2> DEFINE row == [mine EXCEPT !.todo = rest, !.plan.found = plan.found \cup {d}]
  <2>2. /\ row.step = "plan" /\ row.todo = rest /\ row.locked = mine.locked
        /\ row.plan.benchmark = plan.benchmark /\ row.plan.found = plan.found \cup {d}
        /\ row.plan.at = plan.at
    BY <1>r DEF ServiceRow, Plans
  <2>3. service' = [service EXCEPT ![p] = row]
    BY <2>1
  <2> HIDE DEF row, mine, ask, rest, plan
  <2>4. /\ d \in released /\ d.kind = ask.kind
        /\ ask.kind \in {"calibration", "metric"} => d.key = ask.key
        /\ PlanSound(row.plan, released)
    BY <1>p, <1>t, <1>3, <2>2, FoundFits
  <2>5. row \in ServiceRow
    <3>1. d \in Submittable
      BY <2>4 DEF DefinitionsInv, DocumentsStand
    <3> QED
      BY <1>r, <1>s, <3>1 DEF ServiceRow, Plans, row, plan
  <2>6. /\ \A kind : Definitions!Of(plan, kind) \subseteq Definitions!Of(row.plan, kind)
        /\ d \in Definitions!Of(row.plan, ask.kind)
        /\ ask.kind # "calibration" =>
             Definitions!Of(row.plan, "calibration") = Definitions!Of(plan, "calibration")
    BY <2>2, <2>4 DEF Definitions!Of
  <2>7. Answered(row.plan, Elems(rest))
    BY <1>p, <1>t, <2>2, <2>4, <2>6 DEF Answered
  <2>8. Planning(row, released)
    BY <1>p, <1>t, <2>2, <2>6, <2>4, <2>7 DEF Planning
  <2>9. ServiceStands(row, released, withdrawn, evaluation)
    BY <1>p, <2>2, <2>5, <2>8 DEF ServiceStands
  <2> QED
    BY <1>u, <2>3, <2>9, ServiceMoves
<1> QED
  BY <1>1, <1>2, <1>3

\* A definition that a statement of the insert looked at is in force.
LEMMA StatementClears ==
  ASSUME DocumentsStand, NEW plan, PlanSound(plan, released), NEW statement \in Statement,
         Definitions!Stands(plan, statement), NEW d \in Definitions!Names(plan),
         d.kind \in Looked(statement)
  PROVE  d \notin withdrawn
<1>1. d \in Definitions!Of(plan, d.kind) \/ d = plan.benchmark
  BY DEF Definitions!Names, Definitions!Of
<1>2. d.kind # "benchmark" => d \in Definitions!Of(plan, d.kind)
  BY <1>1 DEF PlanSound
<1>3. CASE statement = "benchmark"
  BY <1>3 DEF Looked, PlanSound, FoundKinds, Definitions!Names, Definitions!Stands,
     Definitions!BenchmarkStands, Definitions!Active
<1>4. CASE statement = "graders"
  BY <1>4, <1>2 DEF Looked, Definitions!Stands, Definitions!GradersStand, Definitions!InForce,
     Definitions!Active
<1>5. CASE statement = "suite"
  <2>1. d.kind \in {"suite", "suite-authority"}
    BY <1>5 DEF Looked
  <2>2. Definitions!SuiteStands(plan)
    BY <1>5 DEF Definitions!Stands
  <2>3. CASE d.kind = "suite"
    BY <1>2, <2>2, <2>3 DEF Definitions!SuiteStands, Definitions!InForce, Definitions!Active
  <2>4. CASE d.kind = "suite-authority"
    <3>1. PICK s \in Definitions!Of(plan, "suite") : s.key = d.key /\ s.authority = d.rev
      BY <1>2, <2>4 DEF PlanSound
    <3>2. PICK a : a \in Definitions!Named("suite-authority", s.key, s.authority)
      BY <2>2, <3>1 DEF Definitions!SuiteStands
    <3>3. a \in Definitions!Active /\ Definitions!Identity(a) = Definitions!Identity(d)
      BY <2>4, <3>1, <3>2 DEF Definitions!Named, Definitions!Identity
    <3>4. d \in released
      BY <1>2, <2>4 DEF PlanSound, Definitions!Of
    <3>5. a = d
      BY <3>3, <3>4 DEF DocumentsStand, Definitions!Active
    <3> QED
      BY <3>3, <3>5 DEF Definitions!Active
  <2> QED
    BY <2>1, <2>3, <2>4
<1>6. CASE statement = "policy"
  BY <1>6, <1>2 DEF Looked, Definitions!Stands, Definitions!PolicyStands, Definitions!InForce,
     Definitions!Active
<1>7. CASE statement = "metrics"
  BY <1>7, <1>2 DEF Looked, Definitions!Stands, Definitions!MetricsStand, Definitions!InForce,
     Definitions!Active
<1> QED
  BY <1>3, <1>4, <1>5, <1>6, <1>7 DEF Statement

\* Every definition a plan names is of a kind that some statement looks at.
LEMMA SomeStatementLooks ==
  ASSUME NEW plan, NEW docs, PlanSound(plan, docs), NEW d \in Definitions!Names(plan)
  PROVE  \E statement \in Statement : d.kind \in Looked(statement)
BY DEF PlanSound, Definitions!Names, Looked, FoundKinds, Statement

LEMMA NothingToDo == Elems(<<>>) = {}
BY DEF Elems

LEMMA StatementsAre ==
  /\ Definitions!Statements \in Seq(Statement) /\ Elems(Definitions!Statements) = Statement
BY DEF Definitions!Statements, Statement, Elems

LEMMA SubmitKeeps ==
  ASSUME DefinitionsInv, NEW p \in {"service"}, Definitions!Submit(p)
  PROVE  DefinitionsInv'
<1> DEFINE mine == service[p]
           gone == withdrawn \cap Definitions!Names(mine.plan)
<1>r. mine \in ServiceRow /\ mine.step = "plan" /\ mine.todo = <<>>
      /\ ServiceStands(mine, released, withdrawn, evaluation)
  BY DEF DefinitionsInv, Definitions!Submit, Definitions!At
<1>u. UNCHANGED <<released, withdrawn, today, evaluation>>
  BY DEF Definitions!Submit
<1>p. PlanSound(mine.plan, released) /\ Answered(mine.plan, {})
      /\ mine.locked \subseteq released \ withdrawn
  BY <1>r, NothingToDo DEF ServiceStands, Planning
<1>1. CASE Definitions!WellFormed(mine.plan)
  <2> DEFINE row == [mine EXCEPT !.step = "insert", !.todo = Definitions!Statements,
                                 !.gone = gone]
  <2>1. service' = [service EXCEPT ![p] = row]
    BY <1>1 DEF Definitions!Submit
  <2>2. /\ row.step = "insert" /\ row.todo = Definitions!Statements /\ row.plan = mine.plan
        /\ row.gone = gone /\ row.locked = mine.locked
    BY <1>r DEF ServiceRow
  <2>3. row \in ServiceRow
    <3>1. Definitions!Statements \in Seq(Asks \cup Statement)
      BY StatementsAre
    <3>2. gone \subseteq Submittable
      BY DEF DefinitionsInv, DocumentsStand
    <3> HIDE DEF mine, gone
    <3> QED
      BY <1>r, <3>1, <3>2 DEF ServiceRow
  <2> HIDE DEF row, mine
  <2>4. Inserting(row, released, withdrawn)
    BY <1>p, <2>2, StatementsAre DEF Inserting, Statement
  <2>5. ServiceStands(row, released, withdrawn, evaluation)
    BY <1>p, <2>2, <2>3, <2>4 DEF ServiceStands
  <2> QED
    BY <1>u, <2>1, <2>5, ServiceMoves
<1>2. CASE ~Definitions!WellFormed(mine.plan)
  BY <1>2, <1>u, StopKeeps DEF Definitions!Submit
<1> QED
  BY <1>1, <1>2

LEMMA CheckKeeps ==
  ASSUME DefinitionsInv, NEW p \in {"service"}, Definitions!Check(p)
  PROVE  DefinitionsInv'
<1> DEFINE mine == service[p]
           rest == Tail(mine.todo)
           statement == Head(mine.todo)
<1>r. mine \in ServiceRow /\ mine.step = "insert" /\ mine.todo # <<>>
      /\ ServiceStands(mine, released, withdrawn, evaluation)
  BY DEF DefinitionsInv, Definitions!Check, Definitions!At
<1>u. UNCHANGED <<released, withdrawn, today, evaluation>>
  BY DEF Definitions!Check
<1>i. Inserting(mine, released, withdrawn) /\ mine.locked \subseteq released \ withdrawn
  BY <1>r DEF ServiceStands
<1>t. /\ rest \in Seq(Statement) /\ statement \in Statement
      /\ Elems(mine.todo) = {statement} \cup Elems(rest)
  <2> HIDE DEF mine
  <2> QED
    BY <1>r, <1>i, TodoSplits DEF Inserting
<1>1. CASE Definitions!Stands(mine.plan, statement)
  <2> DEFINE row == [mine EXCEPT !.todo = rest]
  <2>1. service' = [service EXCEPT ![p] = row]
    BY <1>1 DEF Definitions!Check
  <2>2. /\ row.step = "insert" /\ row.todo = rest /\ row.plan = mine.plan
        /\ row.gone = mine.gone /\ row.locked = mine.locked
    BY <1>r DEF ServiceRow
  <2>3. row \in ServiceRow
    <3>1. rest \in Seq(Asks \cup Statement)
      BY <1>t
    <3> HIDE DEF mine, rest
    <3> QED
      BY <1>r, <3>1 DEF ServiceRow
  <2> HIDE DEF row, mine, rest, statement
  <2>4. ASSUME NEW d \in mine.gone
        PROVE  d.kind \notin Looked(statement)
    BY <1>1, <1>i, <1>t, StatementClears DEF Inserting, DefinitionsInv
  <2>5. statement = "graders" => NotAllJudges(mine.plan)
    BY <1>1 DEF Definitions!Stands, Definitions!GradersStand, NotAllJudges
  <2>6. Inserting(row, released, withdrawn)
    BY <1>i, <1>t, <2>2, <2>4, <2>5 DEF Inserting
  <2>7. ServiceStands(row, released, withdrawn, evaluation)
    BY <1>i, <2>2, <2>3, <2>6 DEF ServiceStands
  <2> QED
    BY <1>u, <2>1, <2>7, ServiceMoves
<1>2. CASE ~Definitions!Stands(mine.plan, statement)
  BY <1>2, <1>u, StopKeeps DEF Definitions!Check
<1> QED
  BY <1>1, <1>2

\* A run that is registered, or sealed, while its service stops or goes on.
LEMMA EvaluationMoves ==
  ASSUME DefinitionsInv, NEW p \in {"service"}, NEW row,
         service' = [service EXCEPT ![p] = row],
         UNCHANGED <<released, withdrawn, today>>,
         ServiceStands(row, released, withdrawn, evaluation'),
         evaluation' \in [plan : Plans, sealed : BOOLEAN],
         Registered(evaluation'.plan, released)
  PROVE  DefinitionsInv'
BY DEF DefinitionsInv, DocumentsStand, ServiceStands

LEMMA RegisterKeeps ==
  ASSUME DefinitionsInv, NEW p \in {"service"}, Definitions!Register(p)
  PROVE  /\ DefinitionsInv'
         /\ evaluation = Nil /\ evaluation' # Nil =>
              evaluation'.plan = service[p].plan /\ service[p].gone = {}
         /\ evaluation # Nil => evaluation' = evaluation
<1> DEFINE mine == service[p]
           plan == mine.plan
<1>r. mine \in ServiceRow /\ mine.step = "insert" /\ mine.todo = <<>>
      /\ ServiceStands(mine, released, withdrawn, evaluation)
  BY DEF DefinitionsInv, Definitions!Register, Definitions!At
<1>i. /\ Inserting(mine, released, withdrawn) /\ mine.locked \subseteq released \ withdrawn
      /\ plan \in Plans
  BY <1>r DEF ServiceStands, ServiceRow
<1>u. UNCHANGED <<released, withdrawn, today>>
  BY DEF Definitions!Register
<1>g. mine.gone = {}
  BY <1>i, SomeStatementLooks, <1>r, NothingToDo DEF Inserting
<1>w. Registered(plan, released)
  BY <1>r, NothingToDo, <1>i DEF Inserting, Registered
<1>1. CASE evaluation = Nil
  <2>1. evaluation' = [plan |-> plan, sealed |-> FALSE] /\ Definitions!Stop(p)
    BY <1>1 DEF Definitions!Register, Definitions!Insert
  <2>2. evaluation' \in [plan : Plans, sealed : BOOLEAN] /\ evaluation'.plan = plan
    BY <1>i, <2>1
  <2>3. ServiceStands(Definitions!Idle, released, withdrawn, evaluation')
    BY IdleStands
  <2>4. service' = [service EXCEPT ![p] = Definitions!Idle]
    BY <2>1 DEF Definitions!Stop
  <2> HIDE DEF mine, plan
  <2>5. DefinitionsInv'
    BY <1>u, <1>w, <2>2, <2>3, <2>4, EvaluationMoves
  <2> QED
    BY <1>1, <1>g, <2>2, <2>5 DEF mine, plan
<1>2. CASE evaluation # Nil
  <2>1. UNCHANGED evaluation
    BY <1>2 DEF Definitions!Register, Definitions!Insert
  <2>2. CASE Definitions!Stop(p)
    BY <1>2, <1>u, <2>1, <2>2, StopKeeps
  <2>3. CASE ~Definitions!Stop(p)
    <3> DEFINE row == [mine EXCEPT !.step = "conflict"]
    <3>1. service' = [service EXCEPT ![p] = row]
      BY <2>3 DEF Definitions!Register
    <3>2. row.step = "conflict" /\ row.locked = mine.locked
      BY <1>r DEF ServiceRow
    <3>3. row \in ServiceRow
      BY <1>r DEF ServiceRow
    <3> HIDE DEF row, mine, plan
    <3>4. ServiceStands(row, released, withdrawn, evaluation)
      BY <1>i, <3>2, <3>3 DEF ServiceStands
    <3> QED
      BY <1>2, <1>u, <2>1, <3>1, <3>4, ServiceMoves
  <2> QED
    BY <2>2, <2>3
<1> QED
  BY <1>1, <1>2

LEMMA LockKeeps ==
  ASSUME DefinitionsInv, NEW p \in {"service"}, Definitions!Lock(p)
  PROVE  DefinitionsInv'
<1> DEFINE plan == evaluation.plan
           locked == Definitions!Lockable(plan)
           row == [Definitions!Idle EXCEPT !.step = "verify", !.plan = plan, !.locked = locked]
<1>e. evaluation # Nil /\ plan \in Plans /\ Registered(plan, released)
  BY DEF Definitions!Lock, DefinitionsInv
<1>u. UNCHANGED <<released, withdrawn, today, evaluation>>
  BY DEF Definitions!Lock
<1>1. service' = [service EXCEPT ![p] = row]
  BY DEF Definitions!Lock
<1>2. row.step = "verify" /\ row.plan = plan /\ row.locked = locked
  BY DEF Definitions!Idle
<1>3. locked \subseteq released \ withdrawn /\ released \subseteq Submittable
  BY DEF Definitions!Lockable, Definitions!Active, DefinitionsInv, DocumentsStand
<1>4. row \in ServiceRow
  BY IdleStands, <1>3, <1>e DEF ServiceStands, ServiceRow
<1> HIDE DEF row
<1>5. ASSUME NEW d \in Definitions!Names(plan) \ locked
      PROVE  d \in withdrawn \/ (d.kind = "suite-authority"
                                 /\ \E s \in Definitions!Of(plan, "suite") : s \in withdrawn)
  BY <1>e, <1>5 DEF Registered, PlanSound, Definitions!Names, Definitions!Lockable,
     Definitions!InForce, Definitions!Of, Definitions!Active
<1> HIDE DEF locked
<1>6. Sealing(row, withdrawn, evaluation)
  BY <1>e, <1>2, <1>5 DEF Sealing
<1>7. ServiceStands(row, released, withdrawn, evaluation)
  BY <1>2, <1>3, <1>4, <1>6 DEF ServiceStands
<1> QED
  BY <1>u, <1>1, <1>7, ServiceMoves

LEMMA VerifyKeeps ==
  ASSUME DefinitionsInv, NEW p \in {"service"}, Definitions!Verify(p)
  PROVE  DefinitionsInv'
<1> DEFINE mine == service[p]
           plan == mine.plan
<1>r. mine \in ServiceRow /\ mine.step = "verify"
      /\ ServiceStands(mine, released, withdrawn, evaluation)
  BY DEF DefinitionsInv, Definitions!Verify, Definitions!At
<1>u. UNCHANGED <<released, withdrawn, today, evaluation>>
  BY DEF Definitions!Verify
<1>s. Sealing(mine, withdrawn, evaluation) /\ mine.locked \subseteq released \ withdrawn
  BY <1>r DEF ServiceStands
<1>p. PlanSound(plan, released) /\ evaluation # Nil /\ plan = evaluation.plan
  BY <1>s DEF Sealing, DefinitionsInv, Registered
<1>1. CASE \A i \in DOMAIN Definitions!Statements :
             Definitions!Stands(plan, Definitions!Statements[i])
  <2> DEFINE row == [mine EXCEPT !.step = "commit"]
  <2>1. service' = [service EXCEPT ![p] = row]
    BY <1>1 DEF Definitions!Verify
  <2>2. row.step = "commit" /\ row.plan = plan /\ row.locked = mine.locked
    BY <1>r DEF ServiceRow
  <2>3. row \in ServiceRow
    <3> HIDE DEF mine
    <3> QED
      BY <1>r DEF ServiceRow
  <2> HIDE DEF row, mine, plan
  <2>4. \A statement \in Statement : Definitions!Stands(plan, statement)
    BY <1>1, StatementsAre DEF Elems
  <2>5. ASSUME NEW d \in Definitions!Names(plan)
        PROVE  d \notin withdrawn
    BY <1>p, SomeStatementLooks, <2>4, StatementClears DEF DefinitionsInv
  <2>6. \A s \in Definitions!Of(plan, "suite") : s \in Definitions!Names(plan)
    BY DEF Definitions!Of, Definitions!Names
  <2>7. Sealing(row, withdrawn, evaluation)
    BY <1>s, <1>p, <2>2, <2>5, <2>6 DEF Sealing, plan
  <2>8. ServiceStands(row, released, withdrawn, evaluation)
    BY <1>s, <2>2, <2>3, <2>7 DEF ServiceStands
  <2> QED
    BY <1>u, <2>1, <2>8, ServiceMoves
<1>2. CASE ~\A i \in DOMAIN Definitions!Statements :
              Definitions!Stands(plan, Definitions!Statements[i])
  BY <1>2, <1>u, StopKeeps DEF Definitions!Verify
<1> QED
  BY <1>1, <1>2

LEMMA CommitKeeps ==
  ASSUME DefinitionsInv, NEW p \in {"service"}, Definitions!Commit(p)
  PROVE  /\ DefinitionsInv' /\ evaluation # Nil
         /\ Definitions!Names(evaluation'.plan) \cap withdrawn' = {}
<1>r. service[p].step = "commit" /\ ServiceStands(service[p], released, withdrawn, evaluation)
  BY DEF DefinitionsInv, Definitions!Commit, Definitions!At
<1>u. UNCHANGED <<released, withdrawn, today>>
  BY DEF Definitions!Commit
<1>s. /\ Sealing(service[p], withdrawn, evaluation)
      /\ service[p].locked \subseteq released \ withdrawn
  BY <1>r DEF ServiceStands
<1>e. /\ evaluation # Nil /\ evaluation \in [plan : Plans, sealed : BOOLEAN]
      /\ Registered(evaluation.plan, released) /\ service[p].plan = evaluation.plan
  BY <1>s DEF Sealing, DefinitionsInv
<1>1. evaluation' = [evaluation EXCEPT !.sealed = TRUE] /\ Definitions!Stop(p)
  BY DEF Definitions!Commit
<1>2. evaluation'.plan = evaluation.plan /\ evaluation' \in [plan : Plans, sealed : BOOLEAN]
  BY <1>e, <1>1
<1>3. Definitions!Names(evaluation.plan) \cap withdrawn = {}
  BY <1>r, <1>s, <1>e DEF Sealing
<1>4. ServiceStands(Definitions!Idle, released, withdrawn, evaluation')
  BY IdleStands
<1>5. DefinitionsInv'
  BY <1>u, <1>e, <1>1, <1>2, <1>4, EvaluationMoves DEF Definitions!Stop
<1> QED
  BY <1>u, <1>e, <1>2, <1>3, <1>5

LEMMA AnsweredStays ==
  ASSUME NEW plan, NEW docs, NEW more, docs \subseteq more, PlanSound(plan, docs)
  PROVE  PlanSound(plan, more)
BY DEF PlanSound

\* Definitions are added, and revoked while no seal holds them.
LEMMA DocumentsMove ==
  ASSUME DefinitionsInv, DocumentsStand', UNCHANGED <<evaluation, service>>,
         released \subseteq released', withdrawn \subseteq withdrawn',
         \A p \in {"service"} : service[p].locked \cap withdrawn' = {}
  PROVE  DefinitionsInv'
BY AnsweredStays DEF DefinitionsInv, ServiceStands, Planning, Inserting, Sealing, Registered

\* What the database admits, the service can read.
LEMMA ReleaseKeeps ==
  ASSUME DefinitionsInv, Definitions!Release
  PROVE  DefinitionsInv'
<1>1. PICK d \in Submittable \ released, owner \in {"owner"} :
        /\ Definitions!Unused(d) /\ Definitions!Admitted(d, owner)
        /\ released' = released \cup {d}
  BY DEF Definitions!Release
<1>u. UNCHANGED <<withdrawn, today, evaluation, service>>
  BY DEF Definitions!Release
<1>2. d.kind = "calibration" => Definitions!CalibrationReadable(d)
  BY <1>1, CalibrationsTyped, CalibrationsAgree DEF Definitions!Admitted
<1>3. d.kind = "suite" => SuiteStands(d, released)
  BY <1>1 DEF Definitions!Admitted, Definitions!SuiteAdmitted, Definitions!Named,
     Definitions!Active, Definitions!SuiteSound, SuiteStands
<1>4. DocumentsStand'
  BY <1>1, <1>u, <1>2, <1>3 DEF DefinitionsInv, DocumentsStand, Definitions!Unused, SuiteStands
<1>5. \A p \in {"service"} : service[p].locked \cap withdrawn' = {}
  BY <1>u DEF DefinitionsInv, ServiceStands
<1> QED
  BY <1>1, <1>u, <1>4, <1>5, DocumentsMove

LEMMA RevokeKeeps ==
  ASSUME DefinitionsInv, Definitions!Revoke
  PROVE  DefinitionsInv'
BY DocumentsMove DEF Definitions!Revoke, DefinitionsInv, DocumentsStand, Definitions!Active,
   ServiceStands, Definitions!Held

LEMMA TickKeeps ==
  ASSUME DefinitionsInv, Definitions!Tick
  PROVE  DefinitionsInv'
BY DocumentsMove DEF Definitions!Tick, DefinitionsInv, DocumentsStand, ServiceStands

LEMMA DefinitionsNextKeeps ==
  ASSUME DefinitionsInv, [Definitions!Next]_definitionVars
  PROVE  DefinitionsInv' /\ (Definitions!SealedUnderAuthority \/ UNCHANGED definitionVars)
<1>1. CASE UNCHANGED definitionVars
  BY <1>1, DocumentsMove DEF definitionVars, DefinitionsInv, DocumentsStand, ServiceStands
<1>2. UNCHANGED evaluation => Definitions!SealedUnderAuthority
  BY DEF Definitions!SealedUnderAuthority
<1>3. CASE Definitions!Release \/ Definitions!Revoke \/ Definitions!Tick
  BY <1>3, ReleaseKeeps, RevokeKeeps, TickKeeps DEF Definitions!Release, Definitions!Revoke,
     Definitions!Tick, Definitions!SealedUnderAuthority
<1>4. ASSUME NEW p \in {"service"},
             \/ Definitions!Plan(p) \/ Definitions!Read(p) \/ Definitions!Submit(p)
             \/ Definitions!Check(p) \/ Definitions!Lock(p) \/ Definitions!Verify(p)
             \/ Definitions!Crash(p)
      PROVE  DefinitionsInv' /\ UNCHANGED evaluation
  <2>1. CASE Definitions!Crash(p)
    BY <2>1, StopKeeps DEF Definitions!Crash
  <2>2. CASE Definitions!Plan(p)
    BY <2>2, PlanKeeps DEF Definitions!Plan
  <2>3. CASE Definitions!Read(p)
    BY <2>3, ReadKeeps DEF Definitions!Read
  <2>4. CASE Definitions!Submit(p)
    BY <2>4, SubmitKeeps DEF Definitions!Submit
  <2>5. CASE Definitions!Check(p)
    BY <2>5, CheckKeeps DEF Definitions!Check
  <2>6. CASE Definitions!Lock(p)
    BY <2>6, LockKeeps DEF Definitions!Lock
  <2>7. CASE Definitions!Verify(p)
    BY <2>7, VerifyKeeps DEF Definitions!Verify
  <2> QED
    BY <1>4, <2>1, <2>2, <2>3, <2>4, <2>5, <2>6, <2>7
<1>5. ASSUME NEW p \in {"service"}, Definitions!Register(p)
      PROVE  DefinitionsInv' /\ Definitions!SealedUnderAuthority
  BY <1>5, RegisterKeeps DEF Definitions!SealedUnderAuthority
<1>6. ASSUME NEW p \in {"service"}, Definitions!Commit(p)
      PROVE  DefinitionsInv' /\ Definitions!SealedUnderAuthority
  BY <1>6, CommitKeeps DEF Definitions!SealedUnderAuthority
<1> QED
  BY <1>1, <1>2, <1>3, <1>4, <1>5, <1>6 DEF Definitions!Next

LEMMA DefinitionsTyped == DefinitionsInv => Definitions!TypeOK
BY SubmittableKinds DEF DefinitionsInv, DocumentsStand, Registered, PlanSound, Definitions!Names,
   ServiceStands, Definitions!TypeOK

LEMMA ReleasedReadable == DefinitionsInv => Definitions!ReleasedIsReadable
BY DEF DefinitionsInv, DocumentsStand, Definitions!Active, SuiteStands, Definitions!Named,
   Definitions!Identity, Definitions!SuiteReadable, Definitions!ReleasedIsReadable

LEMMA PlansCohere == DefinitionsInv => Definitions!PlanIsCoherent
BY DEF Definitions!PlanIsCoherent, DefinitionsInv, Registered, PlanSound, Answered, NotAllJudges

-----------------------------------------------------------------------------
(* The synthetic smoke.                                                    *)

Dirs == {"d1", "d2"}
Manifests == {"m1", "m2"}
Caps == {"generation", "embedding"}
Underway == {"reserve", "replace", "begin", "token", "send", "settle"}
Unsent == {"claim", "reserve", "replace", "begin", "token", "send"}
Open == {"token", "send", "settle"}
Reserving == {"begin"} \cup Open
Stage == {"off", "claim", "packet", "done", "killed"} \cup Underway
Counted == {"dispatching", "succeeded", "ambiguous"}

Packet == [attempts : Nat, outcome : {"succeeded", "ambiguous", "failed"}]
Script ==
  [at : Stage, dir : Dirs \cup {Nil}, manifest : Manifests \cup {Nil},
   capability : Caps \cup {Nil}, outcome : Spend!Outcome \cup {Nil},
   results : SUBSET Caps, packet : Packet \cup {Nil}]

\* The ledger of a script is its own and has a row of it for the capability.
Own(p, y, c, L) ==
  /\ L[y.dir] # Nil /\ L[y.dir].manifest = y.manifest
  /\ c \in DOMAIN L[y.dir].rows /\ L[y.dir].rows[c].by = p
StateIn(y, c, L) == L[y.dir].rows[c].state

\* What was sent for a capability is in the ledger as something that may have cost.
Accounted(p, y, c, L) ==
  /\ Own(p, y, c, L) /\ StateIn(y, c, L) \in Counted
  /\ StateIn(y, c, L) = "dispatching" => y.at \in {"settle", "killed"} /\ c = y.capability
  /\ StateIn(y, c, L) = "succeeded" => c \in y.results

\* The packet of a script that sent for s.
Truthful(y, s) ==
  /\ y.at = "done" /\ y.packet.attempts >= Cardinality(s)
  /\ y.packet.outcome = "succeeded" => s = Caps
  /\ y.packet.outcome = "failed" => s \subseteq y.results

\* What is true of a script p at y that sent for s, under the ledgers L.
Staged(y, s) ==
  /\ y.at = "off" => y = Spend!NoScript /\ s = {}
  /\ y.at # "off" => y.dir \in Dirs /\ y.manifest \in Manifests /\ y.capability \in Caps
  /\ y.at \in Unsent => y.capability \notin s
  /\ y.capability = "generation" => s \subseteq {"generation"}
  /\ y.at = "settle" => /\ y.outcome \in Spend!Outcome
                        /\ y.outcome = "succeeded" => y.capability \in s
                        /\ y.capability \in s => y.outcome \in {"succeeded", "ambiguous"}
  /\ y.results \subseteq s
  /\ y.packet # Nil => Truthful(y, s)
Sound(p, y, s, L) ==
  /\ Staged(y, s)
  /\ y.at \in Reserving => Own(p, y, y.capability, L)
  /\ y.at \in Open => StateIn(y, y.capability, L) = "dispatching"
  /\ \A c \in s : Accounted(p, y, c, L)

\* Whose turn with the provider a capability is, or was.
Holding(y, s, c) == c \in s \/ (y.at \in Underway /\ y.capability = c)

SmokeTyped ==
  /\ smokeLedger \in [Dirs -> Spend!Book \cup {Nil}]
  /\ smokeAnchor \in [Dirs -> Manifests \cup {Nil}] /\ witness \subseteq Caps
  /\ script \in [Process -> Script] /\ sent \in [Process -> SUBSET Caps]
Anchored ==
  \A d \in Dirs : smokeLedger[d] # Nil => smokeAnchor[d] = smokeLedger[d].manifest
\* Between the anchor and the first file there is one script in the directory.
FirstWrite ==
  \A p \in Process : script[p].at = "replace" =>
    /\ smokeLedger[script[p].dir] = Nil /\ smokeAnchor[script[p].dir] = script[p].manifest
    /\ \A q \in Process : script[q].at = "replace" /\ script[q].dir = script[p].dir => p = q
OneHolder ==
  \A c \in Caps, p \in Process : Holding(script[p], sent[p], c) =>
    c \in witness /\ \A q \in Process : Holding(script[q], sent[q], c) => p = q
ScriptsSound == \A p \in Process : Sound(p, script[p], sent[p], smokeLedger)
SmokeInv == SmokeTyped /\ Anchored /\ FirstWrite /\ OneHolder /\ ScriptsSound

LEMMA SmokeInit == ASSUME SmokeConstants, Spend!SmokeInit PROVE SmokeInv
<1>1. Spend!NoScript \in Script
  BY DEF Spend!NoScript, Script, Stage
<1>2. SmokeTyped
  BY <1>1 DEF Spend!SmokeInit, SmokeTyped, Dirs
<1>3. \A p \in Process : script[p] = Spend!NoScript /\ sent[p] = {}
  BY DEF Spend!SmokeInit
<1>4. ScriptsSound
  BY <1>3 DEF Staged, Unsent, Spend!NoScript, Open, Reserving, Sound, ScriptsSound
<1>5. Anchored /\ FirstWrite /\ OneHolder
  BY <1>3 DEF Spend!SmokeInit, Anchored, FirstWrite, OneHolder, Holding, Spend!NoScript, Underway, Dirs
<1> QED BY <1>2, <1>4, <1>5 DEF SmokeInv

\* A step of one script that leaves the stores as they are.
LEMMA ScriptGoes ==
  ASSUME SmokeInv, NEW p \in Process, NEW y \in Script,
         script' = [script EXCEPT ![p] = y], UNCHANGED <<smokeLedger, smokeAnchor, sent>>,
         witness \subseteq witness', witness' \subseteq Caps,
         y.at # "replace", Sound(p, y, sent[p], smokeLedger),
         y.at \in Underway =>
           \/ script[p].at \in Underway /\ y.capability = script[p].capability
           \/ y.capability \notin witness /\ y.capability \in witness'
  PROVE  SmokeInv'
BY DEF SmokeInv, SmokeTyped, Anchored, FirstWrite, ScriptsSound, Holding, OneHolder

\* Writing a reservation of a script's own changes nothing else in its ledger.
LEMMA PutFields ==
  ASSUME SmokeTyped, NEW p \in Process, NEW c \in Caps,
         NEW state \in {"reserved", "dispatching"} \cup Spend!Outcome,
         script[p].dir \in Dirs, script[p].manifest \in Manifests, Spend!Put(p, c, state)
  PROVE  /\ smokeLedger' \in [Dirs -> Spend!Book \cup {Nil}]
         /\ \A d \in Dirs : d # script[p].dir => smokeLedger'[d] = smokeLedger[d]
         /\ smokeLedger'[script[p].dir] \in Spend!Book
         /\ smokeLedger'[script[p].dir].manifest = script[p].manifest
         /\ DOMAIN smokeLedger'[script[p].dir].rows = DOMAIN Spend!Rows(script[p].dir) \cup {c}
         /\ smokeLedger'[script[p].dir].rows[c] = [state |-> state, by |-> p]
         /\ \A x \in DOMAIN Spend!Rows(script[p].dir) : x # c =>
              smokeLedger'[script[p].dir].rows[x] = Spend!Rows(script[p].dir)[x]
<1> DEFINE d == script[p].dir
           old == Spend!Rows(d)
           rows == [x \in DOMAIN old \cup {c} |-> IF x = c THEN [state |-> state, by |-> p] ELSE old[x]]
           book == [manifest |-> script[p].manifest, rows |-> rows]
<1>1. d \in Dirs /\ smokeLedger[d] \in Spend!Book \cup {Nil}
  BY DEF SmokeTyped
<1>a. Spend!Book = [manifest : Manifests, rows : UNION {[S -> Spend!Row] : S \in SUBSET Caps}]
  BY DEF Spend!Book, Manifests, Caps, Spend!Capability
<1>2. DOMAIN old \subseteq Caps /\ \A x \in DOMAIN old : old[x] \in Spend!Row
  BY <1>1, <1>a DEF Spend!Rows
<1>3. [state |-> state, by |-> p] \in Spend!Row
  BY DEF Spend!Row
<1>4. rows \in [DOMAIN old \cup {c} -> Spend!Row]
  <2> HIDE DEF old
  <2> QED BY <1>2, <1>3
<1>5. rows \in UNION {[S -> Spend!Row] : S \in SUBSET Caps}
  BY <1>2, <1>4
<1>6. book \in Spend!Book
  <2> HIDE DEF rows
  <2> QED BY <1>5, <1>a
<1>7. smokeLedger' = [smokeLedger EXCEPT ![d] = book]
  BY DEF Spend!Put
<1>8. DOMAIN rows = DOMAIN old \cup {c} /\ rows[c] = [state |-> state, by |-> p]
      /\ \A x \in DOMAIN old : x # c => rows[x] = old[x]
  OBVIOUS
<1>9. book.manifest = script[p].manifest /\ book.rows = rows
  OBVIOUS
<1> HIDE DEF book, rows, old
<1>10. smokeLedger'[d] = book /\ \A e \in Dirs : e # d => smokeLedger'[e] = smokeLedger[e]
  BY <1>1, <1>7 DEF SmokeTyped
<1>11. smokeLedger' \in [Dirs -> Spend!Book \cup {Nil}]
  BY <1>1, <1>6, <1>7 DEF SmokeTyped
<1> QED BY <1>6, <1>8, <1>9, <1>10, <1>11 DEF old

\* A step that writes a reservation of the script whose turn it is.
LEMMA ScriptWrites ==
  ASSUME SmokeConstants, SmokeInv, NEW p \in Process, NEW y \in Script, NEW c \in Caps,
         NEW state \in {"reserved", "dispatching"} \cup Spend!Outcome,
         script[p].at \in Underway, c = script[p].capability, Spend!Put(p, c, state),
         script' = [script EXCEPT ![p] = y], UNCHANGED <<smokeAnchor, witness, sent>>,
         \/ script[p].at = "replace"
         \/ script[p].at # "replace" /\ Spend!Mine(p) /\ Spend!Unlocked(script[p].dir),
         smokeAnchor[script[p].dir] = script[p].manifest,
         y.at # "replace", y.dir = script[p].dir, y.manifest = script[p].manifest,
         y.at \in Underway => y.capability = c,
         Staged(y, sent[p]),
         y.at \in Open => state = "dispatching",
         c \in sent[p] => /\ state \in Counted
                          /\ state = "dispatching" => y.at \in {"settle", "killed"} /\ c = y.capability
                          /\ state = "succeeded" => c \in y.results,
         \A x \in sent[p] : x # c => /\ y.at \notin {"settle", "killed"}
                                     /\ script[p].results \subseteq y.results
                                     /\ StateIn(script[p], x, smokeLedger) # "dispatching"
  PROVE  SmokeInv'
<1> DEFINE d == script[p].dir
<1>0. /\ script[p] \in Script /\ d \in Dirs /\ script[p].manifest \in Manifests
      /\ Sound(p, script[p], sent[p], smokeLedger) /\ sent[p] \subseteq Caps
  BY DEF SmokeInv, SmokeTyped, ScriptsSound, Sound, Staged, Underway
<1>1. /\ script'[p] = y /\ \A q \in Process : q # p => script'[q] = script[q]
      /\ script' \in [Process -> Script]
  BY DEF SmokeInv, SmokeTyped
<1>2. /\ smokeLedger' \in [Dirs -> Spend!Book \cup {Nil}]
      /\ \A e \in Dirs : e # d => smokeLedger'[e] = smokeLedger[e]
      /\ smokeLedger'[d] # Nil /\ smokeLedger'[d].manifest = script[p].manifest
      /\ DOMAIN smokeLedger'[d].rows = DOMAIN Spend!Rows(d) \cup {c}
      /\ smokeLedger'[d].rows[c] = [state |-> state, by |-> p]
      /\ \A x \in DOMAIN Spend!Rows(d) : x # c =>
           smokeLedger'[d].rows[x] = Spend!Rows(d)[x]
  BY <1>0, PutFields DEF SmokeInv, SmokeConstants
<1>3. SmokeTyped' /\ Anchored'
  BY <1>1, <1>2 DEF SmokeInv, SmokeTyped, Anchored
<1>4. \A q \in Process : script[q].at = "replace" /\ script[q].dir = d => q = p
  BY DEF SmokeInv, FirstWrite, Spend!Unlocked, Spend!At
<1>5. FirstWrite'
  BY <1>1, <1>2, <1>4 DEF SmokeInv, FirstWrite, SmokeTyped, ScriptsSound, Sound, Staged
<1>6. \A x \in Caps, q \in Process : Holding(script'[q], sent[q], x) => Holding(script[q], sent[q], x)
  BY <1>1 DEF Holding
<1>7. OneHolder'
  BY <1>6 DEF SmokeInv, OneHolder
<1>8. smokeLedger[d] # Nil =>
        Spend!Rows(d) = smokeLedger[d].rows /\ smokeLedger[d].manifest = script[p].manifest
  BY DEF SmokeInv, FirstWrite, Spend!Rows, Spend!Mine
<1>9. ASSUME NEW q \in Process, NEW z \in Script, NEW x \in Caps, z.dir \in Dirs, Own(q, z, x, smokeLedger),
             x # c \/ z.dir # d
      PROVE  Own(q, z, x, smokeLedger') /\ StateIn(z, x, smokeLedger') = StateIn(z, x, smokeLedger)
  BY SMTT(60), <1>2, <1>8, <1>9 DEF Own, StateIn
<1>10. ASSUME NEW q \in Process, q # p
       PROVE  Sound(q, script[q], sent[q], smokeLedger')
  <2>1. /\ Sound(q, script[q], sent[q], smokeLedger) /\ script[q] \in Script /\ sent[q] \subseteq Caps
    BY DEF SmokeInv, ScriptsSound, SmokeTyped
  <2>2. script[q].at = "off" => sent[q] = {}
    BY <2>1 DEF Sound, Staged
  <2>3. script[q].at # "off" => script[q].dir \in Dirs /\ script[q].capability \in Caps
    BY <2>1 DEF Sound, Staged
  <2>4. ~Holding(script[q], sent[q], c)
    BY <1>10 DEF SmokeInv, OneHolder, Holding
  <2>5. \A x \in sent[q] : Accounted(q, script[q], x, smokeLedger')
    BY <1>9, <2>1, <2>2, <2>3, <2>4 DEF Sound, Accounted, Holding
  <2>6. script[q].at \in Reserving =>
          /\ Own(q, script[q], script[q].capability, smokeLedger')
          /\ script[q].at \in Open => StateIn(script[q], script[q].capability, smokeLedger') = "dispatching"
    BY <1>9, <2>1, <2>3, <2>4 DEF Sound, Holding, Open, Underway, Reserving
  <2> QED BY <2>1, <2>5, <2>6 DEF Sound, Reserving
<1>11. Own(p, y, c, smokeLedger') /\ StateIn(y, c, smokeLedger') = state
  BY SMTT(60), <1>2 DEF Own, StateIn
<1>12. ASSUME NEW x \in sent[p], x # c PROVE Accounted(p, y, x, smokeLedger')
  <2>1. Accounted(p, script[p], x, smokeLedger)
    BY <1>0 DEF Sound
  <2>2. x \in Caps /\ Own(p, script[p], x, smokeLedger') 
        /\ StateIn(script[p], x, smokeLedger') = StateIn(script[p], x, smokeLedger)
    BY <1>0, <1>9, <1>12, <2>1 DEF Accounted
  <2>3. Own(p, y, x, smokeLedger') /\ StateIn(y, x, smokeLedger') = StateIn(script[p], x, smokeLedger)
    BY <2>2 DEF Own, StateIn
  <2> QED BY <1>12, <2>1, <2>3 DEF Accounted
<1>13. Sound(p, y, sent[p], smokeLedger')
  BY <1>11, <1>12 DEF Accounted, Open, Underway, Reserving, Sound
<1>14. ScriptsSound'
  BY <1>1, <1>10, <1>13 DEF ScriptsSound
<1> QED BY <1>3, <1>5, <1>7, <1>14 DEF SmokeInv

LEMMA SmokeFacts ==
  ASSUME SmokeInv, NEW p \in Process
  PROVE  /\ script[p] \in Script /\ sent[p] \subseteq Caps
         /\ Sound(p, script[p], sent[p], smokeLedger) /\ Staged(script[p], sent[p])
         /\ script[p].at # "off" => /\ script[p].dir \in Dirs /\ script[p].manifest \in Manifests
                                    /\ script[p].capability \in Caps
BY DEF SmokeInv, SmokeTyped, ScriptsSound, Sound, Staged

\* Going to another stage changes nothing else of the script.
LEMMA GoneTo ==
  ASSUME SmokeInv, NEW p \in Process, NEW at \in Stage, Spend!Goto(p, at)
  PROVE  \E y \in Script :
           /\ script' = [script EXCEPT ![p] = y] /\ y.at = at /\ y.dir = script[p].dir
           /\ y.manifest = script[p].manifest /\ y.capability = script[p].capability
           /\ y.outcome = script[p].outcome /\ y.results = script[p].results
           /\ y.packet = script[p].packet
<1> DEFINE y == [script[p] EXCEPT !.at = at]
<1>1. script[p] \in Script
  BY SmokeFacts
<1>2. /\ y \in Script /\ y.at = at /\ y.dir = script[p].dir
      /\ y.manifest = script[p].manifest /\ y.capability = script[p].capability
      /\ y.outcome = script[p].outcome /\ y.results = script[p].results
      /\ y.packet = script[p].packet
  BY <1>1 DEF Script
<1>3. script' = [script EXCEPT ![p] = y]
  BY DEF Spend!Goto
<1> HIDE DEF y
<1> QED BY <1>2, <1>3

LEMMA SmokeBegins ==
  ASSUME SmokeInv, NEW p \in Process, Spend!Begin(p) PROVE SmokeInv'
<1>1. PICK d \in Dirs, m \in Manifests, verdict \in {"claim", "packet"} :
        script' = [script EXCEPT ![p] = [Spend!Opened(d, m) EXCEPT !.at = verdict]]
  BY DEF Spend!Begin, Dirs, Manifests, Spend!Preflight
<1> DEFINE y == [Spend!Opened(d, m) EXCEPT !.at = verdict]
<1>2. /\ y \in Script /\ y.at = verdict /\ y.dir = d /\ y.manifest = m
      /\ y.capability = "generation" /\ y.results = {} /\ y.packet = Nil
  BY DEF Spend!Opened, Spend!NoScript, Script, Stage, Caps
<1>3. sent[p] = {}
  BY SmokeFacts DEF Spend!Begin, Spend!At, Staged
<1>4. Sound(p, y, sent[p], smokeLedger) /\ y.at \notin Underway
  <2> HIDE DEF y
  <2> QED BY <1>2, <1>3 DEF Sound, Staged, Open, Reserving, Underway, Caps
<1>5. script' = [script EXCEPT ![p] = y] /\ y.at # "replace"
  BY <1>1, <1>2
<1> HIDE DEF y
<1> QED BY <1>2, <1>4, <1>5, ScriptGoes DEF Spend!Begin, SmokeInv, SmokeTyped

LEMMA SmokeClaims ==
  ASSUME SmokeInv, NEW p \in Process, Spend!Claim(p) PROVE SmokeInv'
<1>1. script[p].at = "claim" /\ script[p].capability \in Caps /\ script[p].capability \notin sent[p]
      /\ Staged(script[p], sent[p]) /\ Sound(p, script[p], sent[p], smokeLedger)
  BY SmokeFacts DEF Spend!Claim, Spend!At, Staged, Unsent
<1>2. UNCHANGED <<smokeLedger, smokeAnchor, sent>>
  BY DEF Spend!Claim
<1>3. CASE /\ script[p].capability \notin witness
           /\ witness' = witness \cup {script[p].capability} /\ Spend!Goto(p, "reserve")
  <2>1. PICK y \in Script :
           /\ script' = [script EXCEPT ![p] = y] /\ y.at = "reserve" /\ y.dir = script[p].dir
           /\ y.manifest = script[p].manifest /\ y.capability = script[p].capability
           /\ y.outcome = script[p].outcome /\ y.results = script[p].results
           /\ y.packet = script[p].packet
    BY <1>3, GoneTo DEF Stage, Underway
  <2>2. Sound(p, y, sent[p], smokeLedger)
    BY <1>1, <2>1 DEF Sound, Staged, Open, Reserving, Unsent, Own, StateIn, Accounted, Truthful
  <2> QED BY <1>1, <1>2, <1>3, <2>1, <2>2, ScriptGoes DEF SmokeInv, SmokeTyped
<1>4. CASE /\ witness' \in {witness, witness \cup {script[p].capability}}
           /\ Spend!Goto(p, "packet")
  <2>1. PICK y \in Script :
           /\ script' = [script EXCEPT ![p] = y] /\ y.at = "packet" /\ y.dir = script[p].dir
           /\ y.manifest = script[p].manifest /\ y.capability = script[p].capability
           /\ y.outcome = script[p].outcome /\ y.results = script[p].results
           /\ y.packet = script[p].packet
    BY <1>4, GoneTo DEF Stage, Underway
  <2>2. Sound(p, y, sent[p], smokeLedger)
    BY <1>1, <2>1 DEF Sound, Staged, Open, Reserving, Unsent, Own, StateIn, Accounted, Truthful
  <2> QED BY <1>1, <1>2, <1>4, <2>1, <2>2, ScriptGoes DEF SmokeInv, SmokeTyped, Underway
<1> QED BY <1>3, <1>4 DEF Spend!Claim, Spend!Unclaimed, Spend!Failed

\* A script that gives up, and one that is killed.
LEMMA SmokeLeaves ==
  ASSUME SmokeInv, NEW p \in Process, UNCHANGED <<smokeLedger, smokeAnchor, witness, sent>>,
         \/ script[p].at \in {"claim", "reserve", "begin"} /\ Spend!Goto(p, "packet")
         \/ script[p].at \notin {"off", "done"} /\ Spend!Goto(p, "killed")
         \/ script[p].at = "token" /\ Spend!Goto(p, "send")
  PROVE  SmokeInv'
<1>1. PICK at \in {"packet", "killed", "send"} :
        /\ \/ script[p].at \in {"claim", "reserve", "begin"} /\ at = "packet"
           \/ script[p].at \notin {"off", "done"} /\ at = "killed"
           \/ script[p].at = "token" /\ at = "send"
        /\ Spend!Goto(p, at)
  OBVIOUS
<1>2. PICK y \in Script :
           /\ script' = [script EXCEPT ![p] = y] /\ y.at = at /\ y.dir = script[p].dir
           /\ y.manifest = script[p].manifest /\ y.capability = script[p].capability
           /\ y.outcome = script[p].outcome /\ y.results = script[p].results
           /\ y.packet = script[p].packet
  BY <1>1, GoneTo DEF Stage, Underway
<1>3. Staged(script[p], sent[p]) /\ Sound(p, script[p], sent[p], smokeLedger)
  BY SmokeFacts
<1>4. Staged(y, sent[p])
  BY <1>1, <1>2, <1>3 DEF Staged, Unsent, Truthful
<1>5. \A c \in sent[p] : Accounted(p, y, c, smokeLedger)
  BY <1>1, <1>2, <1>3 DEF Sound, Own, StateIn, Accounted, Staged
<1>6. Sound(p, y, sent[p], smokeLedger)
  BY <1>1, <1>2, <1>3, <1>4, <1>5 DEF Sound, Open, Reserving, Own, StateIn
<1>7. y.at \in Underway => script[p].at \in Underway
  BY <1>1, <1>2 DEF Underway
<1> QED BY <1>1, <1>2, <1>6, <1>7, ScriptGoes DEF SmokeInv, SmokeTyped

\* A script that stops with what it knows of its request.
LEMMA SettlingTo ==
  ASSUME SmokeInv, NEW p \in Process, NEW o \in Spend!Outcome, Spend!Settling(p, o)
  PROVE  \E y \in Script :
           /\ script' = [script EXCEPT ![p] = y] /\ y.at = "settle" /\ y.dir = script[p].dir
           /\ y.manifest = script[p].manifest /\ y.capability = script[p].capability
           /\ y.outcome = o /\ y.results = script[p].results
           /\ y.packet = script[p].packet
<1> DEFINE y == [script[p] EXCEPT !.at = "settle", !.outcome = o]
<1>1. script[p] \in Script
  BY SmokeFacts
<1>2. /\ y \in Script /\ y.at = "settle" /\ y.dir = script[p].dir
      /\ y.manifest = script[p].manifest /\ y.capability = script[p].capability
      /\ y.outcome = o /\ y.results = script[p].results
      /\ y.packet = script[p].packet
  BY <1>1 DEF Script, Stage, Underway
<1>3. script' = [script EXCEPT ![p] = y]
  BY DEF Spend!Settling
<1> HIDE DEF y
<1> QED BY <1>2, <1>3

\* What a script that is about to write knows of the rows it wrote before.
LEMMA Before ==
  ASSUME SmokeInv, NEW p \in Process, script[p].at \in Unsent \cup {"settle", "packet"}
  PROVE  /\ \A x \in sent[p] : /\ Own(p, script[p], x, smokeLedger)
                               /\ StateIn(script[p], x, smokeLedger) \in Counted
                               /\ StateIn(script[p], x, smokeLedger) = "succeeded" => x \in script[p].results
                               /\ x # script[p].capability \/ script[p].at # "settle" =>
                                    StateIn(script[p], x, smokeLedger) # "dispatching"
         /\ script[p].packet = Nil
         /\ script[p].at \in Reserving => smokeAnchor[script[p].dir] = script[p].manifest
<1>1. Sound(p, script[p], sent[p], smokeLedger) /\ Staged(script[p], sent[p])
      /\ script[p].at \notin {"off", "done", "killed"} /\ script[p].dir \in Dirs
  BY SmokeFacts DEF Unsent
<1>2. \A x \in sent[p] : Accounted(p, script[p], x, smokeLedger)
  BY <1>1 DEF Sound
<1>3. script[p].packet = Nil
  BY <1>1 DEF Staged, Truthful
<1>4. script[p].at \in Reserving => smokeAnchor[script[p].dir] = script[p].manifest
  BY <1>1 DEF Sound, Own, SmokeInv, Anchored
<1> QED BY <1>1, <1>2, <1>3, <1>4 DEF Accounted

LEMMA SmokeReserves ==
  ASSUME SmokeConstants, SmokeInv, NEW p \in Process, Spend!Reserve(p) PROVE SmokeInv'
<1> DEFINE d == script[p].dir
           c == script[p].capability
<1>1. /\ script[p].at = "reserve" /\ Spend!Unlocked(d) /\ UNCHANGED <<witness, sent>>
      /\ d \in Dirs /\ script[p].manifest \in Manifests /\ c \in Caps /\ c \notin sent[p]
      /\ Sound(p, script[p], sent[p], smokeLedger) /\ Staged(script[p], sent[p])
  BY SmokeFacts DEF Spend!Reserve, Spend!At, Staged, Unsent
<1>2. CASE /\ Spend!Admissible(p, c) /\ smokeAnchor[d] = Nil
           /\ smokeAnchor' = [smokeAnchor EXCEPT ![d] = script[p].manifest]
           /\ Spend!Goto(p, "replace") /\ UNCHANGED smokeLedger
  <2>1. PICK y \in Script :
           /\ script' = [script EXCEPT ![p] = y] /\ y.at = "replace" /\ y.dir = d
           /\ y.manifest = script[p].manifest /\ y.capability = c
           /\ y.outcome = script[p].outcome /\ y.results = script[p].results
           /\ y.packet = script[p].packet
    BY <1>2, GoneTo DEF Stage, Underway
  <2>2. /\ script'[p] = y /\ \A q \in Process : q # p => script'[q] = script[q]
        /\ script' \in [Process -> Script]
    BY <2>1 DEF SmokeInv, SmokeTyped
  <2>3. smokeLedger[d] = Nil
    BY <1>1, <1>2 DEF SmokeInv, SmokeTyped, Anchored, Spend!Book, Manifests, SmokeConstants
  <2>4. /\ smokeAnchor' \in [Dirs -> Manifests \cup {Nil}] /\ smokeAnchor'[d] = script[p].manifest
        /\ \A e \in Dirs : e # d => smokeAnchor'[e] = smokeAnchor[e]
    BY <1>1, <1>2 DEF SmokeInv, SmokeTyped
  <2>5. SmokeTyped'
    BY <1>1, <1>2, <2>2, <2>4 DEF SmokeInv, SmokeTyped
  <2>6. Anchored'
    BY <1>2, <2>3, <2>4 DEF SmokeInv, Anchored
  <2>7. \A q \in Process : script[q].at = "replace" => script[q].dir # d /\ script[q].dir \in Dirs
    BY <1>1, SmokeFacts DEF Spend!Unlocked, Spend!At
  <2>8. FirstWrite'
    BY <1>2, <2>1, <2>2, <2>3, <2>4, <2>7 DEF SmokeInv, FirstWrite
  <2>9. \A x \in Caps, q \in Process : Holding(script'[q], sent[q], x) => Holding(script[q], sent[q], x)
    BY <1>1, <2>1, <2>2 DEF Holding, Underway
  <2>10. OneHolder'
    BY <1>1, <2>9 DEF SmokeInv, OneHolder
  <2>11. Sound(p, y, sent[p], smokeLedger)
    BY <1>1, <2>1 DEF Sound, Staged, Open, Reserving, Unsent, Own, StateIn, Accounted, Truthful
  <2>12. ScriptsSound'
    BY <1>1, <1>2, <2>2, <2>11 DEF SmokeInv, ScriptsSound
  <2> QED BY <2>5, <2>6, <2>8, <2>10, <2>12 DEF SmokeInv
<1>3. CASE /\ Spend!Admissible(p, c) /\ smokeAnchor[d] = script[p].manifest
           /\ Spend!Put(p, c, "reserved") /\ Spend!Goto(p, "begin") /\ UNCHANGED smokeAnchor
  <2>1. PICK y \in Script :
           /\ script' = [script EXCEPT ![p] = y] /\ y.at = "begin" /\ y.dir = d
           /\ y.manifest = script[p].manifest /\ y.capability = c
           /\ y.outcome = script[p].outcome /\ y.results = script[p].results
           /\ y.packet = script[p].packet
    BY <1>3, GoneTo DEF Stage, Underway
  <2>2. Staged(y, sent[p])
    BY <1>1, <2>1 DEF Staged, Unsent, Truthful
  <2>3. \A x \in sent[p] : StateIn(script[p], x, smokeLedger) # "dispatching"
    BY <1>1, Before DEF Unsent
  <2>4. Spend!Mine(p)
    BY <1>3 DEF Spend!Admissible
  <2> HIDE DEF c, d
  <2>5. script[p].at \in Underway /\ y.at \notin Open /\ y.at # "replace"
    BY <1>1, <2>1 DEF Underway, Open
  <2> QED BY <1>1, <1>3, <2>1, <2>2, <2>3, <2>4, <2>5, ScriptWrites DEF c, d
<1>4. CASE Spend!Failed(p) /\ UNCHANGED <<smokeLedger, smokeAnchor>>
  BY <1>1, <1>4, SmokeLeaves DEF Spend!Failed
<1> QED BY <1>2, <1>3, <1>4 DEF Spend!Reserve

LEMMA SmokeReplaces ==
  ASSUME SmokeConstants, SmokeInv, NEW p \in Process, Spend!Replace(p) PROVE SmokeInv'
<1> DEFINE d == script[p].dir
           c == script[p].capability
<1>1. /\ script[p].at = "replace" /\ UNCHANGED <<smokeAnchor, witness, sent>>
      /\ d \in Dirs /\ script[p].manifest \in Manifests /\ c \in Caps /\ c \notin sent[p]
      /\ Sound(p, script[p], sent[p], smokeLedger) /\ Staged(script[p], sent[p])
      /\ Spend!Put(p, c, "reserved") /\ Spend!Goto(p, "begin")
  BY SmokeFacts DEF Spend!Replace, Spend!At, Staged, Unsent
<1>2. smokeAnchor[d] = script[p].manifest
  BY <1>1 DEF SmokeInv, FirstWrite
<1>3. PICK y \in Script :
         /\ script' = [script EXCEPT ![p] = y] /\ y.at = "begin" /\ y.dir = d
         /\ y.manifest = script[p].manifest /\ y.capability = c
         /\ y.outcome = script[p].outcome /\ y.results = script[p].results
         /\ y.packet = script[p].packet
  BY <1>1, GoneTo DEF Stage, Underway
<1>4. Staged(y, sent[p])
  BY <1>1, <1>3 DEF Staged, Unsent, Truthful
<1>5. \A x \in sent[p] : StateIn(script[p], x, smokeLedger) # "dispatching"
  BY <1>1, Before DEF Unsent
<1>6. script[p].at \in Underway /\ y.at \notin Open /\ y.at # "replace"
  BY <1>1, <1>3 DEF Underway, Open
<1> HIDE DEF c, d
<1> QED BY <1>1, <1>2, <1>3, <1>4, <1>5, <1>6, ScriptWrites DEF c, d

LEMMA SmokeDispatching ==
  ASSUME SmokeConstants, SmokeInv, NEW p \in Process, Spend!BeginDispatch(p) PROVE SmokeInv'
<1> DEFINE d == script[p].dir
           c == script[p].capability
<1>1. /\ script[p].at = "begin" /\ Spend!Unlocked(d) /\ UNCHANGED <<smokeAnchor, witness, sent>>
      /\ d \in Dirs /\ script[p].manifest \in Manifests /\ c \in Caps /\ c \notin sent[p]
      /\ Sound(p, script[p], sent[p], smokeLedger) /\ Staged(script[p], sent[p])
  BY SmokeFacts DEF Spend!BeginDispatch, Spend!At, Staged, Unsent
<1>2. CASE Spend!Failed(p) /\ UNCHANGED smokeLedger
  BY <1>1, <1>2, SmokeLeaves DEF Spend!Failed
<1>3. CASE Spend!Mine(p) /\ Spend!Put(p, c, "dispatching") /\ Spend!Goto(p, "token")
  <2>1. PICK y \in Script :
           /\ script' = [script EXCEPT ![p] = y] /\ y.at = "token" /\ y.dir = d
           /\ y.manifest = script[p].manifest /\ y.capability = c
           /\ y.outcome = script[p].outcome /\ y.results = script[p].results
           /\ y.packet = script[p].packet
    BY <1>3, GoneTo DEF Stage, Underway
  <2>2. Staged(y, sent[p])
    BY <1>1, <2>1 DEF Staged, Unsent, Truthful
  <2>3. \A x \in sent[p] : StateIn(script[p], x, smokeLedger) # "dispatching"
    BY <1>1, Before DEF Unsent
  <2>4. smokeAnchor[d] = script[p].manifest
    BY <1>1, Before DEF Unsent, Reserving
  <2>5. script[p].at \in Underway /\ y.at # "replace" /\ script[p].at # "replace"
    BY <1>1, <2>1 DEF Underway
  <2> HIDE DEF c, d
  <2> QED BY <1>1, <1>3, <2>1, <2>2, <2>3, <2>4, <2>5, ScriptWrites DEF c, d
<1> QED BY <1>2, <1>3 DEF Spend!BeginDispatch

\* Settling without having sent.
LEMMA SmokeSettling ==
  ASSUME SmokeInv, NEW p \in Process, script[p].at \in {"token", "send"},
         NEW o \in {"cancelled", "failed", "ambiguous"}, Spend!Settling(p, o),
         UNCHANGED <<smokeLedger, smokeAnchor, witness, sent>>
  PROVE  SmokeInv'
<1>1. /\ script[p].capability \in Caps /\ script[p].capability \notin sent[p]
      /\ Sound(p, script[p], sent[p], smokeLedger) /\ Staged(script[p], sent[p])
  BY SmokeFacts DEF Staged, Unsent
<1>2. PICK y \in Script :
         /\ script' = [script EXCEPT ![p] = y] /\ y.at = "settle" /\ y.dir = script[p].dir
         /\ y.manifest = script[p].manifest /\ y.capability = script[p].capability
         /\ y.outcome = o /\ y.results = script[p].results
         /\ y.packet = script[p].packet
  BY SettlingTo DEF Spend!Outcome
<1>3. Staged(y, sent[p])
  BY <1>1, <1>2 DEF Staged, Unsent, Truthful, Spend!Outcome
<1>4. \A x \in sent[p] : Accounted(p, y, x, smokeLedger)
  BY <1>1, <1>2 DEF Sound, Own, StateIn, Accounted
<1>5. Sound(p, y, sent[p], smokeLedger)
  BY <1>1, <1>2, <1>3, <1>4 DEF Sound, Open, Reserving, Own, StateIn
<1> QED BY <1>1, <1>2, <1>5, ScriptGoes DEF SmokeInv, SmokeTyped, Underway

\* The request leaves.
LEMMA SmokeSends ==
  ASSUME SmokeInv, NEW p \in Process, script[p].at = "send",
         NEW o \in {"succeeded", "ambiguous"}, Spend!Settling(p, o),
         sent' = [sent EXCEPT ![p] = @ \cup {script[p].capability}],
         UNCHANGED <<smokeLedger, smokeAnchor, witness>>
  PROVE  SmokeInv'
<1> DEFINE c == script[p].capability
           s == sent[p] \cup {c}
<1>1. /\ c \in Caps /\ c \notin sent[p] /\ sent[p] \subseteq Caps
      /\ Sound(p, script[p], sent[p], smokeLedger) /\ Staged(script[p], sent[p])
  BY SmokeFacts DEF Staged, Unsent
<1>2. PICK y \in Script :
         /\ script' = [script EXCEPT ![p] = y] /\ y.at = "settle" /\ y.dir = script[p].dir
         /\ y.manifest = script[p].manifest /\ y.capability = c
         /\ y.outcome = o /\ y.results = script[p].results
         /\ y.packet = script[p].packet
  BY SettlingTo DEF Spend!Outcome
<1>3. /\ script'[p] = y /\ \A q \in Process : q # p => script'[q] = script[q]
      /\ script' \in [Process -> Script]
  BY <1>2 DEF SmokeInv, SmokeTyped
<1>4. /\ sent'[p] = s /\ \A q \in Process : q # p => sent'[q] = sent[q]
      /\ sent' \in [Process -> SUBSET Caps]
  BY <1>1 DEF SmokeInv, SmokeTyped
<1>5. Staged(y, s)
  BY <1>1, <1>2 DEF Staged, Unsent, Truthful, Spend!Outcome
<1>6. \A x \in s : Accounted(p, y, x, smokeLedger)
  BY <1>1, <1>2 DEF Sound, Own, StateIn, Accounted, Open, Reserving, Counted
<1>7. Sound(p, y, s, smokeLedger)
  <2> HIDE DEF s
  <2> QED BY <1>1, <1>2, <1>5, <1>6 DEF Sound, Open, Reserving, Own, StateIn
<1>8. SmokeTyped' /\ Anchored'
  BY <1>3, <1>4 DEF SmokeInv, SmokeTyped, Anchored
<1>9. FirstWrite'
  BY <1>2, <1>3 DEF SmokeInv, FirstWrite
<1>10. \A x \in Caps, q \in Process : Holding(script'[q], sent'[q], x) => Holding(script[q], sent[q], x)
  BY <1>2, <1>3, <1>4 DEF Holding, Underway
<1>11. OneHolder'
  BY <1>10 DEF SmokeInv, OneHolder
<1>12. ScriptsSound'
  <2> HIDE DEF s
  <2> QED BY <1>3, <1>4, <1>7 DEF SmokeInv, ScriptsSound
<1> QED BY <1>8, <1>9, <1>11, <1>12 DEF SmokeInv

LEMMA SmokeReconciles ==
  ASSUME SmokeConstants, SmokeInv, NEW p \in Process, Spend!Reconcile(p) PROVE SmokeInv'
<1> DEFINE d == script[p].dir
           c == script[p].capability
           o == script[p].outcome
<1>1. /\ script[p].at = "settle" /\ Spend!Unlocked(d) /\ UNCHANGED <<smokeAnchor, witness, sent>>
      /\ d \in Dirs /\ script[p].manifest \in Manifests /\ c \in Caps
      /\ o \in Spend!Outcome
      /\ o = "succeeded" => c \in sent[p]
      /\ c \in sent[p] => o \in {"succeeded", "ambiguous"}
      /\ script[p] \in Script /\ Staged(script[p], sent[p])
      /\ Spend!Mine(p) /\ Spend!Put(p, c, o)
  BY SmokeFacts DEF Spend!Reconcile, Spend!At, Staged
<1>2. /\ smokeAnchor[d] = script[p].manifest /\ script[p].packet = Nil
      /\ \A x \in sent[p] : x # c => StateIn(script[p], x, smokeLedger) # "dispatching"
  BY <1>1, Before DEF Unsent, Reserving, Open
<1>3. \E y \in Script :
        /\ script' = [script EXCEPT ![p] = y] /\ y.dir = d /\ y.manifest = script[p].manifest
        /\ y.at \in {"claim", "packet"} /\ y.packet = Nil
        /\ script[p].results \subseteq y.results /\ (o = "succeeded" => c \in y.results)
        /\ Staged(y, sent[p])
  <2>1. CASE o # "succeeded" /\ Spend!Failed(p)
    BY <2>1, GoneTo, <1>1, <1>2 DEF Stage, Underway, Spend!Failed, Staged, Unsent
  <2>2. CASE /\ o = "succeeded"
             /\ \E verdict \in IF c = "generation" THEN Spend!Preflight ELSE {"packet"} :
                  script' = [script EXCEPT ![p].results = @ \cup {c},
                               ![p].capability = "embedding", ![p].at = verdict]
    <3>1. PICK verdict \in {"claim", "packet"} :
            /\ verdict = "claim" => c = "generation"
            /\ script' = [script EXCEPT ![p].results = @ \cup {c},
                               ![p].capability = "embedding", ![p].at = verdict]
      BY <2>2 DEF Spend!Preflight
    <3> DEFINE y == [script[p] EXCEPT !.results = @ \cup {c}, !.capability = "embedding", !.at = verdict]
    <3>2. /\ y \in Script /\ y.dir = d /\ y.manifest = script[p].manifest /\ y.packet = Nil
          /\ y.at = verdict /\ y.capability = "embedding" /\ y.results = script[p].results \cup {c}
      BY <1>1, <1>2 DEF Script, Stage, Caps
    <3>3. script' = [script EXCEPT ![p] = y]
      BY <3>1
    <3> HIDE DEF y
    <3>4. Staged(y, sent[p])
      BY <1>1, <1>2, <2>2, <3>1, <3>2 DEF Staged, Unsent, Caps
    <3> QED BY <3>2, <3>3, <3>4
  <2> QED BY <2>1, <2>2 DEF Spend!Reconcile
<1>4. PICK y \in Script :
        /\ script' = [script EXCEPT ![p] = y] /\ y.dir = d /\ y.manifest = script[p].manifest
        /\ y.at \in {"claim", "packet"} /\ y.packet = Nil
        /\ script[p].results \subseteq y.results /\ (o = "succeeded" => c \in y.results)
        /\ Staged(y, sent[p])
  BY <1>3
<1>5. y.at \notin Underway /\ y.at \notin Open /\ y.at \notin {"settle", "killed", "replace"}
      /\ script[p].at \in Underway /\ script[p].at # "replace"
  BY <1>1, <1>4 DEF Underway, Open
<1>6. c \in sent[p] => o \in Counted /\ (o = "dispatching" => FALSE)
  BY <1>1 DEF Counted
<1>7. o \in {"reserved", "dispatching"} \cup Spend!Outcome
  BY <1>1
<1>8. \A x \in sent[p] : x # c => /\ y.at \notin {"settle", "killed"}
                                  /\ script[p].results \subseteq y.results
                                  /\ StateIn(script[p], x, smokeLedger) # "dispatching"
  BY <1>2, <1>4, <1>5
<1> HIDE DEF c, d, o
<1> QED BY <1>1, <1>2, <1>4, <1>5, <1>6, <1>7, <1>8, ScriptWrites DEF c, d, o

\* The packet counts the rows the script finds in a ledger of its own.
LEMMA SmokePacket ==
  ASSUME SmokeInv, NEW p \in Process, Spend!WritePacket(p) PROVE SmokeInv'
<1> DEFINE d == script[p].dir
           s == sent[p]
           rows == IF Spend!Mine(p) THEN Spend!Rows(d) ELSE [c \in {} |-> Nil]
           In(states) == {c \in DOMAIN rows : rows[c].state \in states}
           packet == [attempts |-> Spend!Cardinality(In({"ambiguous", "succeeded"})),
                      outcome |-> IF script[p].results = Spend!Capability THEN "succeeded"
                                  ELSE IF In({"ambiguous", "dispatching"}) # {} THEN "ambiguous"
                                  ELSE "failed"]
           y == [script[p] EXCEPT !.at = "done", !.packet = packet]
<1>1. /\ script[p].at = "packet" /\ UNCHANGED <<smokeLedger, smokeAnchor, witness, sent>>
      /\ d \in Dirs /\ script[p].manifest \in Manifests /\ script[p].capability \in Caps
      /\ script[p] \in Script /\ Staged(script[p], s) /\ Sound(p, script[p], s, smokeLedger)
      /\ s \subseteq Caps /\ script[p].results \subseteq s
  BY SmokeFacts DEF Spend!WritePacket, Spend!At, Staged
<1>2. script' = [script EXCEPT ![p] = y]
  BY DEF Spend!WritePacket
<1>3. \A x \in s : /\ Own(p, script[p], x, smokeLedger)
                   /\ StateIn(script[p], x, smokeLedger) \in {"succeeded", "ambiguous"}
                   /\ StateIn(script[p], x, smokeLedger) = "succeeded" => x \in script[p].results
  BY <1>1, Before DEF Counted
<1>4. \A x \in s : x \in DOMAIN rows /\ rows[x].state = StateIn(script[p], x, smokeLedger)
  BY <1>3 DEF Own, StateIn, Spend!Mine, Spend!Readable, Spend!Rows
<1>5. DOMAIN rows \subseteq Caps
  <2>1. smokeLedger[d] = Nil \/ smokeLedger[d] \in Spend!Book
    BY <1>1 DEF SmokeInv, SmokeTyped
  <2>2. smokeLedger[d] \in Spend!Book => DOMAIN smokeLedger[d].rows \subseteq Caps
    BY DEF Spend!Book, Spend!Capability, Caps
  <2> QED BY <2>1, <2>2 DEF Spend!Rows
<1> HIDE DEF rows
<1>6. packet.attempts \in Nat /\ packet.attempts >= Cardinality(s)
  <2> DEFINE T == In({"ambiguous", "succeeded"})
  <2>1. T \subseteq Caps /\ s \subseteq T
    BY <1>3, <1>4, <1>5
  <2>2. IsFiniteSet(Caps)
    <3>1. IsFiniteSet({"generation"})
      BY FS_Singleton
    <3>2. IsFiniteSet({"generation"} \cup {"embedding"})
      BY <3>1, FS_AddElement
    <3>3. Caps = {"generation"} \cup {"embedding"}
      BY DEF Caps
    <3> QED BY <3>2, <3>3
  <2>3. IsFiniteSet(T)
    <3> HIDE DEF T
    <3> QED BY <2>1, <2>2, FS_Subset
  <2>4. Cardinality(s) <= Cardinality(T) /\ Cardinality(T) \in Nat /\ Cardinality(s) \in Nat
    <3> HIDE DEF T
    <3> QED BY <2>1, <2>3, FS_Subset, FS_CardinalityType
  <2>5. Spend!Cardinality(T) = Cardinality(T)
    BY DEF Spend!Cardinality, Cardinality, Spend!IsFiniteSet, IsFiniteSet
  <2>6. packet.attempts = Spend!Cardinality(T)
    OBVIOUS
  <2> HIDE DEF T, packet
  <2> QED BY <2>4, <2>5, <2>6
<1>7. /\ packet.outcome \in {"succeeded", "ambiguous", "failed"}
      /\ packet.outcome = "succeeded" => s = Caps
      /\ packet.outcome = "failed" => s \subseteq script[p].results
  BY <1>4, <1>1, <1>3 DEF Caps, Spend!Capability
<1>8. packet \in Packet
  BY <1>6, <1>7 DEF Packet
<1> HIDE DEF packet
<1>9. /\ y \in Script /\ y.at = "done" /\ y.dir = d /\ y.manifest = script[p].manifest
      /\ y.capability = script[p].capability /\ y.results = script[p].results /\ y.packet = packet
  BY <1>1, <1>8 DEF Script, Stage
<1> HIDE DEF y
<1>10. Staged(y, s)
  BY <1>1, <1>6, <1>7, <1>9 DEF Staged, Unsent, Truthful
<1>11. \A x \in s : Accounted(p, y, x, smokeLedger)
  BY <1>3, <1>9 DEF Own, StateIn, Accounted, Counted
<1>12. Sound(p, y, s, smokeLedger)
  BY <1>9, <1>10, <1>11 DEF Sound, Open, Reserving
<1> QED BY <1>1, <1>2, <1>9, <1>12, ScriptGoes DEF SmokeInv, SmokeTyped, Underway

\* Every step of a script keeps the invariant.
LEMMA SmokeNextKeeps ==
  ASSUME SmokeConstants, SmokeInv, [Spend!SmokeNext]_smokeVars PROVE SmokeInv'
<1>1. ASSUME NEW p \in Process, Spend!AcquireToken(p) PROVE SmokeInv'
  BY <1>1, SmokeLeaves, SmokeSettling DEF Spend!AcquireToken, Spend!At
<1>2. ASSUME NEW p \in Process, Spend!Dispatch(p) PROVE SmokeInv'
  BY <1>2, SmokeSends, SmokeSettling DEF Spend!Dispatch, Spend!At, Spend!Verdicts
<1>3. ASSUME NEW p \in Process, Spend!KillScript(p) PROVE SmokeInv'
  BY <1>3, SmokeLeaves DEF Spend!KillScript
<1>4. CASE UNCHANGED smokeVars
  BY <1>4 DEF smokeVars, SmokeInv, SmokeTyped, Anchored, FirstWrite, OneHolder, ScriptsSound
<1>5. CASE Spend!SmokeNext
  BY <1>1, <1>2, <1>3, <1>5, SmokeBegins, SmokeClaims, SmokeReserves, SmokeReplaces,
     SmokeDispatching, SmokeReconciles, SmokePacket
     DEF Spend!SmokeNext
<1> QED BY <1>4, <1>5

\* A capability is sent to the provider by one script.
LEMMA SmokeSentOnce == ASSUME SmokeConstants, SmokeInv PROVE Spend!SentOnce
<1> SUFFICES ASSUME NEW c \in Spend!Capability
             PROVE  Spend!Cardinality({p \in Process : c \in sent[p]}) <= 1
  BY DEF Spend!SentOnce
<1> DEFINE S == {p \in Process : c \in sent[p]}
<1>1. \A p, q \in S : p = q
  BY DEF SmokeInv, OneHolder, Holding, Spend!Capability, Caps
<1>2. Spend!Cardinality(S) = Cardinality(S)
  BY DEF Spend!Cardinality, Cardinality, Spend!IsFiniteSet, IsFiniteSet
<1>3. Cardinality(S) <= 1
  <2>1. CASE S = {}
    BY <2>1, FS_EmptySet
  <2>2. CASE S # {}
    BY <2>2, <1>1, FS_Singleton
  <2> QED BY <2>1, <2>2
<1> QED BY <1>2, <1>3

\* What a request may have cost is in its ledger, and no ledger goes over the cap.
LEMMA SmokeReserved == ASSUME SmokeInv PROVE Spend!SentIsReserved
<1>1. ASSUME NEW p \in Process, NEW c \in sent[p]
      PROVE  /\ c \in DOMAIN Spend!Rows(script[p].dir)
             /\ Spend!Rows(script[p].dir)[c].by = p
             /\ Spend!Rows(script[p].dir)[c].state \in {"dispatching", "succeeded", "ambiguous"}
  <2>1. Accounted(p, script[p], c, smokeLedger)
    BY <1>1, SmokeFacts DEF Sound
  <2> QED BY <2>1 DEF Accounted, Own, StateIn, Counted, Spend!Rows
<1>2. ASSUME NEW d \in Dirs PROVE Spend!Reserved(d) <= 3
  BY DEF Spend!Reserved, Spend!CostOf
<1> QED BY <1>1, <1>2 DEF Spend!SentIsReserved, Dirs

LEMMA SmokePacketTrue == ASSUME SmokeInv PROVE Spend!PacketTellsTheTruth
<1>1. ASSUME NEW p \in Process, script[p].packet # Nil PROVE Truthful(script[p], sent[p])
  BY <1>1, SmokeFacts DEF Staged
<1>2. ASSUME NEW p \in Process PROVE Spend!Cardinality(sent[p]) = Cardinality(sent[p])
  BY DEF Spend!Cardinality, Cardinality, Spend!IsFiniteSet, IsFiniteSet
<1> QED BY <1>1, <1>2 DEF Truthful, Spend!PacketTellsTheTruth, Spend!Capability, Caps

LEMMA SmokeTypes == ASSUME SmokeInv PROVE Spend!SmokeTypeOK
<1>1. Spend!ManifestValid
  BY DEF Spend!ManifestValid, Spend!CostOf, Spend!Capability
<1>2. \A p \in Process : script[p].at \in Stage
  BY SmokeFacts DEF Script
<1> QED BY <1>1, <1>2 DEF Spend!SmokeTypeOK, SmokeInv, SmokeTyped, Stage, Underway, Dirs, Manifests, Caps,
     Spend!Capability

-----------------------------------------------------------------------------
(* The tuning rehearsal.                                                   *)

Operations == {"baseline", "training", "post_tune_evaluation", "storage"}
File == UNION {[S -> Spend!OperationState] : S \in SUBSET Operations}
Call ==
  [at : {"free", "anchoring", "settling", "killed"}, operation : Operations \cup {Nil},
   writes : Spend!OperationState \cup {Nil}]

TuningTyped ==
  /\ tuningLedger \in File \cup {Nil} /\ tuningAnchor \in File \cup {Nil}
  /\ granted \in [Operations -> 0..1] /\ caller \in [Process -> Call]
\* A call that has written the file waits alone for its anchor, and what it will
\* grant has not been granted.
OneAnchors ==
  /\ \A c, d \in Process : caller[c].at = "anchoring" /\ caller[d].at = "anchoring" => c = d
  /\ \A c \in Process : caller[c].at \in {"anchoring", "settling"} => caller[c].operation \in Operations
  /\ \A c \in Process : caller[c].at = "anchoring" /\ caller[c].writes = "dispatching" =>
       caller[c].operation \in DOMAIN Spend!Asked /\ granted[caller[c].operation] = 0
GrantedIsAsked == \A o \in Operations : granted[o] = 1 => o \in DOMAIN Spend!Asked
TuningInv == TuningTyped /\ OneAnchors /\ GrantedIsAsked

LEMMA TuningInit == ASSUME Spend!TuningInit PROVE TuningInv
BY DEF Spend!NoCall, Call, Spend!TuningInit, TuningTyped, Operations, Spend!Operation,
   OneAnchors, GrantedIsAsked, TuningInv

\* The rows of the file are a function of operations, and with one of them written
\* still are.
LEMMA AskedRows ==
  ASSUME TuningTyped
  PROVE  Spend!Asked \in File /\ DOMAIN Spend!Asked \subseteq Operations
BY DEF File, TuningTyped, Spend!Asked

LEMMA AskedWithRow ==
  ASSUME TuningTyped, NEW o \in Operations, NEW state \in Spend!OperationState
  PROVE  /\ Spend!AskedWith(o, state) \in File
         /\ DOMAIN Spend!AskedWith(o, state) = DOMAIN Spend!Asked \cup {o}
<1> DEFINE old == Spend!Asked
           new == [x \in DOMAIN old \cup {o} |-> IF x = o THEN state ELSE old[x]]
<1>1. old \in File /\ DOMAIN old \subseteq Operations
  BY AskedRows
<1>2. \A x \in DOMAIN old : old[x] \in Spend!OperationState
  BY <1>1 DEF File
<1> HIDE DEF old
<1>3. new \in [DOMAIN old \cup {o} -> Spend!OperationState] /\ DOMAIN old \cup {o} \in SUBSET Operations
  BY <1>1, <1>2
<1>4. new = Spend!AskedWith(o, state) /\ DOMAIN new = DOMAIN old \cup {o}
  BY DEF Spend!AskedWith, old
<1> HIDE DEF new
<1>5. new \in File
  BY <1>3 DEF File
<1> QED BY <1>4, <1>5 DEF old

\* Writing the file of the ledger, of an operation that is new or was granted.
LEMMA FileWritten ==
  ASSUME TuningConstants, TuningInv, NEW c \in Process, NEW o \in Operations,
         NEW state \in Spend!OperationState, Spend!NobodyWrites, Spend!WriteFile(c, o, state),
         UNCHANGED <<tuningAnchor, granted>>, state = "dispatching" => o \notin DOMAIN Spend!Asked
  PROVE  TuningInv'
<1> DEFINE call == [at |-> "anchoring", operation |-> o, writes |-> state]
<1>1. /\ tuningLedger' \in File /\ DOMAIN tuningLedger' = DOMAIN Spend!Asked \cup {o}
  BY AskedWithRow DEF TuningInv, Spend!WriteFile
<1>2. /\ call \in Call /\ call.at = "anchoring" /\ call.operation = o /\ call.writes = state
      /\ caller' = [caller EXCEPT ![c] = call]
  BY DEF Call, Spend!WriteFile
<1> HIDE DEF call
<1>3. caller'[c] = call /\ \A d \in Process : d # c => caller'[d] = caller[d]
  BY <1>2 DEF TuningInv, TuningTyped
<1>4. tuningLedger' # Nil
  BY <1>1 DEF TuningConstants, File, Operations, Spend!Operation
<1>5. Spend!Asked' = tuningLedger'
  BY <1>4 DEF Spend!Asked
<1>6. TuningTyped'
  BY <1>1, <1>2 DEF TuningInv, TuningTyped
<1>7. GrantedIsAsked'
  BY <1>1, <1>5 DEF TuningInv, GrantedIsAsked
<1>8. state = "dispatching" => granted[o] = 0
  BY DEF TuningInv, TuningTyped, GrantedIsAsked
<1>9. \A d \in Process : d # c => caller[d].at # "anchoring"
  BY DEF Spend!NobodyWrites
<1>10. OneAnchors'
  BY <1>1, <1>2, <1>3, <1>5, <1>8, <1>9 DEF TuningInv, OneAnchors
<1> QED BY <1>6, <1>7, <1>10 DEF TuningInv

LEMMA TuningAuthorized ==
  ASSUME TuningConstants, TuningInv, NEW c \in Process, Spend!Authorize(c) PROVE TuningInv'
BY FileWritten DEF Spend!Authorize, Operations, Spend!Operation, Spend!OperationState

LEMMA TuningSettles ==
  ASSUME TuningConstants, TuningInv, NEW c \in Process, Spend!SettleOperation(c) PROVE TuningInv'
BY FileWritten DEF Spend!SettleOperation, Spend!OperationState, Spend!Terminal, TuningInv,
   OneAnchors

\* A call changes its own state, and grants what it wrote.
LEMMA TuningAnchored ==
  ASSUME TuningInv, NEW c \in Process, Spend!WriteAnchor(c) PROVE TuningInv'
BY DEF Spend!WriteAnchor, TuningInv, TuningTyped, OneAnchors, Spend!Asked, Call, GrantedIsAsked,
   Spend!NoCall

LEMMA TuningKilled ==
  ASSUME TuningInv, NEW c \in Process, Spend!KillCaller(c) PROVE TuningInv'
BY DEF Call, TuningInv, TuningTyped, Spend!KillCaller, GrantedIsAsked, Spend!Asked, OneAnchors

\* Every step of the rehearsal keeps the invariant, and writes nothing when the
\* file and its anchor differ and nobody is between them.
LEMMA TuningNextKeeps ==
  ASSUME TuningConstants, TuningInv, [Spend!TuningNext]_tuningVars
  PROVE  TuningInv' /\ Spend!TornStaysTorn
<1>1. CASE UNCHANGED tuningVars
  BY <1>1 DEF tuningVars, TuningInv, TuningTyped, OneAnchors, GrantedIsAsked, Spend!Asked,
     Spend!TornStaysTorn
<1>2. CASE Spend!TuningNext
  <2>1. PICK c \in Process : \/ Spend!Authorize(c) \/ Spend!SettleOperation(c)
                             \/ Spend!WriteAnchor(c) \/ Spend!KillCaller(c)
    BY <1>2 DEF Spend!TuningNext
  <2>2. TuningInv'
    BY <2>1, TuningAuthorized, TuningSettles, TuningAnchored, TuningKilled
  <2>3. Spend!TornStaysTorn
    BY <2>1 DEF Spend!TornStaysTorn, Spend!Authorize, Spend!SettleOperation, Spend!WriteAnchor,
       Spend!KillCaller, Spend!Intact, Spend!NobodyWrites
  <2> QED BY <2>2, <2>3
<1> QED BY <1>1, <1>2

LEMMA TuningGrantedOnce == ASSUME TuningInv PROVE Spend!GrantedOnce
BY DEF Spend!AskedPrice, Spend!PriceOf, TuningInv, TuningTyped, GrantedIsAsked,
   Spend!GrantedOnce, Operations, Spend!Operation

LEMMA TuningTypes == ASSUME TuningInv PROVE Spend!TuningTypeOK
<1>1. Spend!PricesValid
  BY DEF Spend!PricesValid, Spend!PriceOf, Spend!Operation
<1>2. \A f \in File : DOMAIN f \subseteq Operations /\ \A o \in DOMAIN f : f[o] \in Spend!OperationState
  BY DEF File
<1>3. \A c \in Process : caller[c].at \in {"free", "anchoring", "settling", "killed"}
  BY DEF TuningInv, TuningTyped, Call
<1>4. granted \in [Spend!Operation -> Nat]
  BY DEF TuningInv, TuningTyped, Operations, Spend!Operation
<1>5. \A file \in {tuningLedger, tuningAnchor} : file # Nil => file \in File
  BY DEF TuningInv, TuningTyped
<1> QED BY <1>1, <1>2, <1>3, <1>4, <1>5 DEF Spend!TuningTypeOK, Operations, Spend!Operation

-----------------------------------------------------------------------------
(* The dataset registry.                                                   *)

\* A copy is not younger than its row, and of the same version is the same.
CopyOf(copy, sources, fetches) ==
  /\ copy # Nil /\ copy.kind = "source" =>
       /\ sources[copy.id] # Nil /\ copy.row.version <= 2
       /\ copy.row.version <= sources[copy.id].version
       /\ copy.row.version = sources[copy.id].version => copy.row = sources[copy.id]
  /\ copy # Nil /\ copy.kind = "fetch" =>
       /\ fetches[copy.id] # Nil /\ copy.row.version <= 3
       /\ copy.row.version <= fetches[copy.id].version
       /\ copy.row.version = fetches[copy.id].version => copy.row = fetches[copy.id]
CopiesStand == \A a \in Process : CopyOf(held[a], source, fetch)
RegistryInv == Registry!RegistryTypeOK /\ CopiesStand /\ Registry!ProvenanceStands

LEMMA RegistryInit == ASSUME Registry!RegistryInit PROVE RegistryInv
BY DEF Registry!RegistryInit, Registry!RegistryTypeOK, Registry!PointerRow, CopiesStand, CopyOf,
   Registry!ProvenanceStands, Registry!Guarded, RegistryInv

LEMMA RegistryTypes ==
  ASSUME RegistryInv
  PROVE  /\ source \in [{"s1"} -> Registry!SourceRow \cup {Nil}]
         /\ fetch \in [{"f1"} -> Registry!FetchRow \cup {Nil}]
         /\ release \in [{"r1"} -> Registry!ReleaseRow \cup {Nil}]
         /\ pointer \in [Subject -> {"r1"} \cup {Nil}]
         /\ held \in [Process -> Registry!Copy \cup {Nil}]
BY DEF RegistryInv, Registry!RegistryTypeOK, Registry!PointerRow

\* What a copy is of.
LEMMA CopyKinds ==
  ASSUME NEW c \in Registry!Copy
  PROVE  /\ c.kind = "source" => c.id \in {"s1"} /\ c.row \in Registry!SourceRow
         /\ c.kind = "fetch" => c.id \in {"f1"} /\ c.row \in Registry!FetchRow
         /\ c.kind = "resolved" => c.id \in {"r1"} /\ c.row \in Registry!SourceRow
         /\ c.kind = "cleared" => c.id \in {"r1"}
BY DEF Registry!Copy

LEMMA CopiesMade ==
  /\ \A s \in {"s1"}, row \in Registry!SourceRow :
       [kind |-> "source", id |-> s, row |-> row] \in Registry!Copy
  /\ \A f \in {"f1"}, row \in Registry!FetchRow :
       [kind |-> "fetch", id |-> f, row |-> row] \in Registry!Copy
  /\ \A r \in {"r1"}, row \in Registry!SourceRow :
       [kind |-> "resolved", id |-> r, row |-> row] \in Registry!Copy
  /\ \A r \in {"r1"} : [kind |-> "cleared", id |-> r, row |-> Nil] \in Registry!Copy
BY DEF Registry!Copy

LEMMA RegistryMoves ==
  /\ \A s \in Registry!SourceStatus : Registry!SourceMoves[s] \subseteq Registry!SourceStatus
  /\ \A s \in Registry!FetchState : Registry!FetchMoves[s] \subseteq Registry!FetchState
BY DEF Registry!SourceMoves, Registry!SourceStatus, Registry!FetchMoves, Registry!FetchState

\* A copy taken, exchanged or put down.
LEMMA RegistryHolds ==
  ASSUME RegistryInv, NEW a \in Process, NEW c \in Registry!Copy \cup {Nil},
         held' = [held EXCEPT ![a] = c], CopyOf(c, source, fetch),
         UNCHANGED <<schema, source, fetch, release, pointer>>
  PROVE  RegistryInv' /\ Registry!RowsMoveOn
<1>1. /\ held'[a] = c /\ \A b \in Process : b # a => held'[b] = held[b]
      /\ held' \in [Process -> Registry!Copy \cup {Nil}]
  BY RegistryTypes
<1>2. Registry!RegistryTypeOK'
  BY <1>1 DEF RegistryInv, Registry!RegistryTypeOK
<1>3. CopiesStand'
  BY <1>1 DEF RegistryInv, CopiesStand
<1>4. Registry!ProvenanceStands'
  BY DEF RegistryInv, Registry!ProvenanceStands, Registry!Guarded, Registry!Rows, Registry!Provenanced,
     Registry!Resolves, Registry!PurposeApproved, Registry!ScanPassed
<1>5. Registry!RowsMoveOn
  BY DEF Registry!RowsMoveOn
<1> QED BY <1>2, <1>3, <1>4, <1>5 DEF RegistryInv

LEMMA RegistryLoads ==
  ASSUME RegistryConstants, RegistryInv, NEW a \in Process,
         \/ \E s \in {"s1"} : Registry!LoadSource(a, s)
         \/ \E f \in {"f1"} : Registry!LoadFetch(a, f)
         \/ \E r \in {"r1"} : Registry!Resolve(a, r)
  PROVE  RegistryInv' /\ Registry!RowsMoveOn
<1>1. ASSUME NEW s \in {"s1"}, Registry!LoadSource(a, s) PROVE RegistryInv' /\ Registry!RowsMoveOn
  <2> DEFINE c == [kind |-> "source", id |-> s, row |-> source[s]]
  <2>1. source[s] \in Registry!SourceRow /\ source[s].version <= 2 /\ source[s] # Nil
    BY <1>1, RegistryTypes DEF Registry!LoadSource
  <2>2. c \in Registry!Copy /\ c.kind = "source" /\ c.id = s /\ c.row = source[s]
    BY <2>1, CopiesMade
  <2>3. held' = [held EXCEPT ![a] = c] /\ UNCHANGED <<schema, source, fetch, release, pointer>>
    BY <1>1 DEF Registry!LoadSource, Registry!Hold
  <2> HIDE DEF c
  <2>4. source[s].version <= source[s].version
    BY <2>1 DEF Registry!SourceRow
  <2>5. CopyOf(c, source, fetch)
    BY <2>1, <2>2, <2>4 DEF CopyOf
  <2> QED BY <2>2, <2>3, <2>5, RegistryHolds
<1>2. ASSUME NEW f \in {"f1"}, Registry!LoadFetch(a, f) PROVE RegistryInv' /\ Registry!RowsMoveOn
  <2> DEFINE c == [kind |-> "fetch", id |-> f, row |-> fetch[f]]
  <2>1. fetch[f] \in Registry!FetchRow /\ fetch[f].version <= 3 /\ fetch[f] # Nil
    BY <1>2, RegistryTypes DEF Registry!LoadFetch
  <2>2. c \in Registry!Copy /\ c.kind = "fetch" /\ c.id = f /\ c.row = fetch[f]
    BY <2>1, CopiesMade
  <2>3. held' = [held EXCEPT ![a] = c] /\ UNCHANGED <<schema, source, fetch, release, pointer>>
    BY <1>2 DEF Registry!LoadFetch, Registry!Hold
  <2> HIDE DEF c
  <2>4. fetch[f].version <= fetch[f].version
    BY <2>1 DEF Registry!FetchRow
  <2>5. CopyOf(c, source, fetch)
    BY <2>1, <2>2, <2>4 DEF CopyOf
  <2> QED BY <2>2, <2>3, <2>5, RegistryHolds
<1>3. ASSUME NEW r \in {"r1"}, Registry!Resolve(a, r) PROVE RegistryInv' /\ Registry!RowsMoveOn
  <2> DEFINE row == source[release[r].from]
             c == [kind |-> "resolved", id |-> r, row |-> row]
  <2>1. row \in Registry!SourceRow
    BY <1>3, RegistryTypes DEF Registry!Resolve, Registry!ReleaseRow
  <2>2. held' = [held EXCEPT ![a] = c] /\ UNCHANGED <<schema, source, fetch, release, pointer>>
    BY <1>3 DEF Registry!Resolve, Registry!Hold
  <2> HIDE DEF row
  <2>3. c \in Registry!Copy /\ c.kind = "resolved"
    BY <2>1, CopiesMade
  <2> HIDE DEF c
  <2>4. CopyOf(c, source, fetch)
    BY <2>3 DEF CopyOf
  <2> QED BY <2>2, <2>3, <2>4, RegistryHolds
<1> QED BY <1>1, <1>2, <1>3

LEMMA RegistryClears ==
  ASSUME RegistryInv, NEW a \in Process, Registry!ClearRelease(a)
  PROVE  RegistryInv' /\ Registry!RowsMoveOn
BY RegistryTypes, CopyKinds, CopiesMade, RegistryHolds DEF Registry!ClearRelease, Registry!Hold,
   Registry!Drop, CopyOf

\* Writing a source under no release in force, and writing none.
LEMMA RegistryWritesSource ==
  ASSUME RegistryConstants, RegistryInv, UNCHANGED <<schema, fetch, release, pointer>>,
         NEW s \in {"s1"}, NEW next \in Registry!SourceRow,
         source' = [source EXCEPT ![s] = next],
         \/ source[s] = Nil
         \/ next.version = source[s].version + 1 /\ next.status \in Registry!SourceMoves[source[s].status],
         source[s] # Nil => Registry!SourceMayChange(s),
         held' \in [Process -> Registry!Copy \cup {Nil}],
         \A a \in Process : held'[a] = held[a] \/ held'[a] = Nil
  PROVE  RegistryInv' /\ Registry!RowsMoveOn
<1>1. /\ source'[s] = next /\ source' \in [{"s1"} -> Registry!SourceRow \cup {Nil}]
      /\ \A x \in {"s1"} : x # s => source'[x] = source[x]
  BY RegistryTypes
<1>2. Registry!RegistryTypeOK'
  BY <1>1 DEF RegistryInv, Registry!RegistryTypeOK
<1>3. next # Nil /\ next.version \in Nat /\ (source[s] # Nil => source[s].version \in Nat)
  BY RegistryTypes DEF RegistryConstants, Registry!SourceRow
<1>4. ASSUME NEW a \in Process PROVE CopyOf(held'[a], source', fetch')
  <2>1. CASE held'[a] = Nil
    BY <2>1 DEF CopyOf
  <2>2. CASE held'[a] # Nil
    <3>1. held'[a] = held[a] /\ held[a] \in Registry!Copy /\ CopyOf(held[a], source, fetch)
      BY <2>2, RegistryTypes DEF RegistryInv, CopiesStand
    <3> DEFINE c == held[a]
    <3>2. c.kind = "source" => c.id \in {"s1"} /\ c.row.version \in Nat
      BY <3>1, CopyKinds DEF Registry!SourceRow
    <3> HIDE DEF c
    <3>3. CopyOf(c, source', fetch')
      BY <1>1, <1>3, <3>1, <3>2 DEF CopyOf, c
    <3> QED BY <3>1, <3>3 DEF c
  <2> QED BY <2>1, <2>2
<1>5. Registry!ProvenanceStands'
  <2> SUFFICES ASSUME Registry!Guarded
               PROVE  /\ \A r \in Registry!Rows(release) : Registry!Provenanced(release[r])'
                      /\ \A u \in Registry!Rows(pointer) : Registry!Resolves(u, pointer[u])'
    BY DEF Registry!ProvenanceStands, Registry!Guarded, Registry!Rows
  <2>1. /\ \A r \in Registry!Rows(release) : Registry!Provenanced(release[r])
        /\ \A u \in Registry!Rows(pointer) : Registry!Resolves(u, pointer[u])
    BY DEF RegistryInv, Registry!ProvenanceStands
  <2>2. ASSUME NEW r \in Registry!Rows(release) PROVE Registry!Provenanced(release[r])'
    <3>1. release[r] \in Registry!ReleaseRow /\ r \in {"r1"} /\ release[r] # Nil
      BY RegistryTypes DEF Registry!Rows
    <3>2. Registry!Provenanced(release[r])
      BY <2>1
    <3>3. release[r].status \in Registry!InForce => release[r].from # s
      BY <3>2, <3>1 DEF Registry!Provenanced, Registry!PurposeApproved, Registry!SourceMayChange,
         Registry!InForceFrom
    <3>4. release[r].from \in {"s1"}
      BY <3>1 DEF Registry!ReleaseRow
    <3> QED BY <1>1, <3>2, <3>3, <3>4 DEF Registry!Provenanced, Registry!PurposeApproved, Registry!ScanPassed
  <2>3. \A u \in Registry!Rows(pointer) : Registry!Resolves(u, pointer[u])'
    BY <2>1 DEF Registry!Resolves
  <2> QED BY <2>2, <2>3
<1>6. Registry!RowsMoveOn
  BY <1>1 DEF Registry!RowsMoveOn
<1> QED BY <1>2, <1>4, <1>5, <1>6 DEF RegistryInv, CopiesStand

LEMMA RegistryDrops ==
  ASSUME RegistryInv, NEW a \in Process, held' = [held EXCEPT ![a] = Nil]
  PROVE  /\ held' \in [Process -> Registry!Copy \cup {Nil}]
         /\ \A b \in Process : held'[b] = held[b] \/ held'[b] = Nil
BY RegistryTypes

LEMMA RegistrySources ==
  ASSUME RegistryConstants, RegistryInv,
         \/ \E s \in {"s1"} : Registry!AddSource(s)
         \/ \E a \in Process : Registry!SaveSource(a)
  PROVE  RegistryInv' /\ Registry!RowsMoveOn
<1>1. ASSUME NEW s \in {"s1"}, Registry!AddSource(s) PROVE RegistryInv' /\ Registry!RowsMoveOn
  <2>1. PICK row \in Registry!NewSource : source' = [source EXCEPT ![s] = row]
    BY <1>1 DEF Registry!AddSource
  <2>2. row \in Registry!SourceRow
    <3>1. [status |-> "candidate", approved |-> {}, evident |-> FALSE, version |-> 1]
            \in Registry!SourceRow
      BY DEF Registry!SourceRow, Registry!SourceStatus
    <3>2. [status |-> "fetch-approved", approved |-> {}, evident |-> TRUE, version |-> 1]
            \in Registry!SourceRow
      BY DEF Registry!SourceRow, Registry!SourceStatus
    <3> QED BY <3>1, <3>2 DEF Registry!NewSource
  <2>3. source[s] = Nil /\ UNCHANGED <<schema, fetch, release, pointer, held>>
    BY <1>1 DEF Registry!AddSource
  <2> QED BY <2>1, <2>2, <2>3, RegistryWritesSource, RegistryTypes
<1>2. ASSUME NEW a \in Process, Registry!SaveSource(a) PROVE RegistryInv' /\ Registry!RowsMoveOn
  <2> DEFINE c == held[a]
             s == c.id
  <2>1. /\ c \in Registry!Copy /\ c # Nil /\ c.kind = "source" /\ CopyOf(c, source, fetch)
        /\ held' = [held EXCEPT ![a] = Nil] /\ UNCHANGED <<schema, fetch, release, pointer>>
    BY <1>2, RegistryTypes DEF Registry!SaveSource, Registry!Drop, RegistryInv, CopiesStand
  <2>2. s \in {"s1"} /\ c.row \in Registry!SourceRow
    BY <2>1, CopyKinds
  <2>3. PICK next \in Registry!SourceMovesOn(c.row) :
          source' = IF Registry!Unmoved(source[s], c.row) /\ Registry!SourceMayChange(s)
                    THEN [source EXCEPT ![s] = next] ELSE source
    BY <1>2 DEF Registry!SaveSource
  <2> HIDE DEF c, s
  <2>4. /\ next.version = c.row.version + 1 /\ next.status \in Registry!SourceMoves[c.row.status]
        /\ next.approved \in SUBSET Subject /\ next.evident \in BOOLEAN
        /\ next = [status |-> next.status, approved |-> next.approved, evident |-> next.evident,
                   version |-> next.version]
    BY DEF Registry!SourceMovesOn
  <2>5. c.row.version <= 2 /\ c.row.version \in Nat
    BY <2>1, <2>2 DEF CopyOf, Registry!SourceRow
  <2>6. next.version \in 1..3 /\ next.status \in Registry!SourceStatus
    BY <2>2, <2>4, <2>5, RegistryMoves DEF Registry!SourceRow
  <2>7. next \in Registry!SourceRow
    BY <2>4, <2>6 DEF Registry!SourceRow
  <2>8. CASE Registry!Unmoved(source[s], c.row) /\ Registry!SourceMayChange(s)
    <3>1. source[s] = c.row
      BY <2>1, <2>8 DEF CopyOf, Registry!Unmoved, s
    <3> QED BY <2>1, <2>2, <2>3, <2>4, <2>7, <2>8, <3>1, RegistryWritesSource, RegistryDrops
  <2>9. CASE ~(Registry!Unmoved(source[s], c.row) /\ Registry!SourceMayChange(s))
    BY <2>1, <2>3, <2>9, RegistryHolds DEF CopyOf
  <2> QED BY <2>8, <2>9
<1> QED BY <1>1, <1>2

LEMMA RegistryWritesFetch ==
  ASSUME RegistryConstants, RegistryInv, UNCHANGED <<schema, source, release, pointer>>,
         NEW f \in {"f1"}, NEW next \in Registry!FetchRow,
         fetch' = [fetch EXCEPT ![f] = next],
         \/ fetch[f] = Nil
         \/ next.version = fetch[f].version + 1 /\ next.state \in Registry!FetchMoves[fetch[f].state],
         fetch[f] # Nil => Registry!FetchMayChange(f),
         held' \in [Process -> Registry!Copy \cup {Nil}],
         \A a \in Process : held'[a] = held[a] \/ held'[a] = Nil
  PROVE  RegistryInv' /\ Registry!RowsMoveOn
<1>1. /\ fetch'[f] = next /\ fetch' \in [{"f1"} -> Registry!FetchRow \cup {Nil}]
      /\ \A x \in {"f1"} : x # f => fetch'[x] = fetch[x]
  BY RegistryTypes
<1>2. Registry!RegistryTypeOK'
  BY <1>1 DEF RegistryInv, Registry!RegistryTypeOK
<1>3. next # Nil /\ next.version \in Nat /\ (fetch[f] # Nil => fetch[f].version \in Nat)
  BY RegistryTypes DEF RegistryConstants, Registry!FetchRow
<1>4. ASSUME NEW a \in Process PROVE CopyOf(held'[a], source', fetch')
  BY RegistryTypes, CopyKinds, <1>1, <1>3 DEF CopyOf, RegistryInv, CopiesStand, Registry!FetchRow
<1>5. Registry!ProvenanceStands'
  <2> SUFFICES ASSUME Registry!Guarded
               PROVE  /\ \A r \in Registry!Rows(release) : Registry!Provenanced(release[r])'
                      /\ \A u \in Registry!Rows(pointer) : Registry!Resolves(u, pointer[u])'
    BY DEF Registry!ProvenanceStands, Registry!Guarded, Registry!Rows
  <2>1. /\ \A r \in Registry!Rows(release) : Registry!Provenanced(release[r])
        /\ \A u \in Registry!Rows(pointer) : Registry!Resolves(u, pointer[u])
    BY DEF RegistryInv, Registry!ProvenanceStands
  <2>2. ASSUME NEW r \in Registry!Rows(release), release[r].status \in Registry!InForce
        PROVE  Registry!ScanPassed(release[r].from, release[r].digest)'
    <3>1. release[r] \in Registry!ReleaseRow /\ r \in {"r1"} /\ release[r] # Nil
      BY RegistryTypes DEF Registry!Rows
    <3>2. Registry!ScanPassed(release[r].from, release[r].digest)
      BY <2>1, <2>2 DEF Registry!Provenanced
    <3>3. PICK x \in {"f1"} :
            /\ fetch[x] # Nil /\ fetch[x].source = release[r].from /\ fetch[x].state = "scan-passed"
            /\ fetch[x].digest = release[r].digest
            /\ fetch[x].scan = [of |-> release[r].digest, passed |-> TRUE]
      BY <3>2 DEF Registry!ScanPassed
    <3>4. x # f
      BY <3>1, <2>2, <3>3 DEF Registry!ReleaseRow, RegistryConstants, Registry!FetchMayChange,
         Registry!InForceFrom
    <3> QED BY <1>1, <3>3, <3>4 DEF Registry!ScanPassed
  <2>3. \A r \in Registry!Rows(release) : Registry!Provenanced(release[r])'
    BY <2>1, <2>2 DEF Registry!Provenanced, Registry!PurposeApproved
  <2>4. \A u \in Registry!Rows(pointer) : Registry!Resolves(u, pointer[u])'
    BY <2>1 DEF Registry!Resolves
  <2> QED BY <2>3, <2>4
<1>6. Registry!RowsMoveOn
  BY <1>1 DEF Registry!RowsMoveOn
<1> QED BY <1>2, <1>4, <1>5, <1>6 DEF RegistryInv, CopiesStand

LEMMA RegistryFetches ==
  ASSUME RegistryConstants, RegistryInv,
         \/ \E f \in {"f1"} : Registry!AddFetch(f)
         \/ \E a \in Process : Registry!SaveFetch(a)
  PROVE  RegistryInv' /\ Registry!RowsMoveOn
<1>1. ASSUME NEW f \in {"f1"}, Registry!AddFetch(f) PROVE RegistryInv' /\ Registry!RowsMoveOn
  <2>1. PICK row \in Registry!NewFetch("s1") : fetch' = [fetch EXCEPT ![f] = row]
    BY <1>1 DEF Registry!AddFetch
  <2>2. row \in Registry!FetchRow
    BY DEF Registry!NewFetch, Registry!FetchRow, Registry!FetchState
  <2>3. fetch[f] = Nil /\ UNCHANGED <<schema, source, release, pointer, held>>
    BY <1>1 DEF Registry!AddFetch
  <2> QED BY <2>1, <2>2, <2>3, RegistryWritesFetch, RegistryTypes
<1>2. ASSUME NEW a \in Process, Registry!SaveFetch(a) PROVE RegistryInv' /\ Registry!RowsMoveOn
  <2> DEFINE c == held[a]
             f == c.id
  <2>1. /\ c \in Registry!Copy /\ c # Nil /\ c.kind = "fetch" /\ CopyOf(c, source, fetch)
        /\ held' = [held EXCEPT ![a] = Nil] /\ UNCHANGED <<schema, source, release, pointer>>
    BY <1>2, RegistryTypes DEF Registry!SaveFetch, Registry!Drop, RegistryInv, CopiesStand
  <2>2. f \in {"f1"} /\ c.row \in Registry!FetchRow
    BY <2>1, CopyKinds
  <2>3. PICK next \in Registry!FetchMovesOn(c.row) :
          fetch' = IF Registry!Unmoved(fetch[f], c.row) /\ Registry!FetchMayChange(f)
                   THEN [fetch EXCEPT ![f] = next] ELSE fetch
    BY <1>2 DEF Registry!SaveFetch
  <2> HIDE DEF c, f
  <2>4. /\ next.version = c.row.version + 1 /\ next.state \in Registry!FetchMoves[c.row.state]
        /\ next.source = c.row.source /\ next.digest \in Assignment \cup {c.row.digest}
        /\ next.scan \in Registry!ScanEvidence \cup {c.row.scan}
        /\ next = [source |-> next.source, state |-> next.state, digest |-> next.digest,
                   scan |-> next.scan, version |-> next.version]
    BY DEF Registry!FetchMovesOn
  <2>5. c.row.version <= 3 /\ c.row.version \in Nat
    BY <2>1, <2>2 DEF CopyOf, Registry!FetchRow
  <2>6. next.version \in 1..4 /\ next.state \in Registry!FetchState
    BY <2>2, <2>4, <2>5, RegistryMoves DEF Registry!FetchRow
  <2>7. next \in Registry!FetchRow
    BY <2>2, <2>4, <2>6 DEF Registry!FetchRow
  <2>8. CASE Registry!Unmoved(fetch[f], c.row) /\ Registry!FetchMayChange(f)
    <3>1. fetch[f] = c.row
      BY <2>1, <2>8 DEF CopyOf, Registry!Unmoved, f
    <3> QED BY <2>1, <2>2, <2>3, <2>4, <2>7, <2>8, <3>1, RegistryWritesFetch, RegistryDrops
  <2>9. CASE ~(Registry!Unmoved(fetch[f], c.row) /\ Registry!FetchMayChange(f))
    BY <2>1, <2>3, <2>9, RegistryHolds DEF CopyOf
  <2> QED BY <2>8, <2>9
<1> QED BY <1>1, <1>2

\* Writing a release the pointers do not name, with its provenance if the guards ask.
LEMMA RegistryWritesRelease ==
  ASSUME RegistryInv, UNCHANGED <<schema, source, fetch, pointer>>,
         NEW r \in {"r1"}, NEW row \in Registry!ReleaseRow,
         release' = [release EXCEPT ![r] = row],
         Registry!Guarded => Registry!Provenanced(row),
         release[r] = Nil \/ Registry!ReleaseMayChange(r),
         held' \in [Process -> Registry!Copy \cup {Nil}],
         \A a \in Process : held'[a] = held[a] \/ held'[a] = Nil
  PROVE  RegistryInv' /\ Registry!RowsMoveOn
<1>1. /\ release'[r] = row /\ release' \in [{"r1"} -> Registry!ReleaseRow \cup {Nil}]
      /\ \A x \in {"r1"} : x = r
  BY RegistryTypes
<1>2. Registry!RegistryTypeOK'
  BY <1>1 DEF RegistryInv, Registry!RegistryTypeOK
<1>3. ASSUME NEW a \in Process PROVE CopyOf(held'[a], source', fetch')
  BY DEF CopyOf, RegistryInv, CopiesStand
<1>4. Registry!ProvenanceStands'
  <2> SUFFICES ASSUME Registry!Guarded
               PROVE  /\ \A x \in Registry!Rows(release)' : Registry!Provenanced(release[x])'
                      /\ \A u \in Registry!Rows(pointer) : Registry!Resolves(u, pointer[u])'
    BY DEF Registry!ProvenanceStands, Registry!Guarded, Registry!Rows
  <2>1. ASSUME NEW x \in Registry!Rows(release)' PROVE Registry!Provenanced(release[x])'
    BY <1>1 DEF Registry!Rows, Registry!Provenanced, Registry!PurposeApproved,
       Registry!ScanPassed
  <2>2. ASSUME NEW u \in Registry!Rows(pointer) PROVE FALSE
    BY <1>1, RegistryTypes DEF RegistryInv, Registry!ProvenanceStands, Registry!Rows,
       Registry!Resolves, Registry!ReleaseMayChange, Registry!Pointed
  <2> QED BY <2>1, <2>2
<1>5. Registry!RowsMoveOn
  BY DEF Registry!RowsMoveOn
<1> QED BY <1>2, <1>3, <1>4, <1>5 DEF RegistryInv, CopiesStand

LEMMA ReleaseChanged ==
  ASSUME NEW row \in Registry!ReleaseRow
  PROVE  /\ \A status \in Registry!ReleaseStatus : [row EXCEPT !.status = status] \in Registry!ReleaseRow
         /\ \A digest \in Assignment : [row EXCEPT !.digest = digest] \in Registry!ReleaseRow
         /\ [row EXCEPT !.status = "rolled-back"].status = "rolled-back"
BY DEF Registry!ReleaseRow, Registry!ReleaseStatus

LEMMA RegistryReleases ==
  ASSUME RegistryConstants, RegistryInv, NEW r \in {"r1"},
         Registry!DraftRelease(r) \/ Registry!Edit(r) \/ Registry!Retire(r, "rolled-back")
  PROVE  RegistryInv' /\ Registry!RowsMoveOn
<1>0. /\ UNCHANGED <<schema, source, fetch, pointer, held>>
      /\ held' \in [Process -> Registry!Copy \cup {Nil}]
  BY RegistryTypes DEF Registry!DraftRelease, Registry!Edit, Registry!Retire
<1>1. CASE Registry!DraftRelease(r)
  BY <1>1, <1>0, RegistryWritesRelease DEF Registry!DraftRelease, Registry!Provenanced,
     Registry!InForce
<1>2. CASE Registry!Edit(r)
  BY <1>2, RegistryTypes, ReleaseChanged, <1>0, RegistryWritesRelease DEF Registry!Edit
<1>3. CASE Registry!Retire(r, "rolled-back")
  <2> DEFINE row == [release[r] EXCEPT !.status = "rolled-back"]
  <2>1. release[r] \in Registry!ReleaseRow /\ Registry!ReleaseMayChange(r)
        /\ release' = [release EXCEPT ![r] = row]
    BY <1>3, RegistryTypes DEF Registry!Retire
  <2>2. row \in Registry!ReleaseRow /\ row.status = "rolled-back"
    BY <2>1, ReleaseChanged DEF Registry!ReleaseStatus
  <2> HIDE DEF row
  <2>3. Registry!Provenanced(row)
    BY <2>2 DEF Registry!Provenanced, Registry!InForce
  <2> QED BY <1>0, <2>1, <2>2, <2>3, RegistryWritesRelease
<1> QED BY <1>1, <1>2, <1>3

LEMMA RegistryPromotes ==
  ASSUME RegistryInv, NEW a \in Process, NEW status \in Registry!InForce, Registry!Promote(a, status)
  PROVE  RegistryInv' /\ Registry!RowsMoveOn
<1> DEFINE r == held[a].id
           row == [release[r] EXCEPT !.status = status]
<1>1. /\ r \in {"r1"} /\ release[r] # Nil /\ held' = [held EXCEPT ![a] = Nil]
      /\ UNCHANGED <<schema, source, fetch, pointer>>
      /\ release' = IF Registry!Guarded => Registry!Provenanced(row) /\ Registry!ReleaseMayChange(r)
                    THEN [release EXCEPT ![r] = row] ELSE release
  BY RegistryTypes, CopyKinds DEF Registry!Promote, Registry!Drop
<1>2. release[r] \in Registry!ReleaseRow
  BY <1>1, RegistryTypes
<1>3. row \in Registry!ReleaseRow
  BY <1>2, ReleaseChanged DEF Registry!InForce, Registry!ReleaseStatus
<1> HIDE DEF r, row
<1>4. CASE Registry!Guarded => Registry!Provenanced(row) /\ Registry!ReleaseMayChange(r)
  BY <1>1, <1>4, RegistryDrops, <1>3, RegistryWritesRelease DEF Registry!ReleaseMayChange
<1>5. CASE ~(Registry!Guarded => Registry!Provenanced(row) /\ Registry!ReleaseMayChange(r))
  BY <1>1, <1>5, RegistryHolds DEF CopyOf
<1> QED BY <1>4, <1>5

LEMMA RegistryPoints ==
  ASSUME RegistryInv, NEW u \in Subject,
         Registry!Unpoint(u) \/ \E r \in {"r1"} : Registry!Point(u, r)
  PROVE  RegistryInv' /\ Registry!RowsMoveOn
<1>1. PICK r \in {"r1"} \cup {Nil} : /\ pointer' = [pointer EXCEPT ![u] = r]
                                     /\ r # Nil /\ Registry!Guarded => Registry!Resolves(u, r)
  BY DEF Registry!Unpoint, Registry!Point
<1>2. UNCHANGED <<schema, source, fetch, release, held>>
  BY DEF Registry!Unpoint, Registry!Point
<1>3. /\ pointer' \in [Subject -> {"r1"} \cup {Nil}] /\ pointer'[u] = r
      /\ \A x \in Subject : x # u => pointer'[x] = pointer[x]
  BY <1>1, RegistryTypes
<1>4. Registry!RegistryTypeOK'
  BY <1>2, <1>3 DEF RegistryInv, Registry!RegistryTypeOK, Registry!PointerRow
<1>5. CopiesStand'
  BY <1>2 DEF RegistryInv, CopiesStand
<1>6. Registry!ProvenanceStands'
  <2> SUFFICES ASSUME Registry!Guarded
               PROVE  /\ \A x \in Registry!Rows(release) : Registry!Provenanced(release[x])'
                      /\ \A x \in Registry!Rows(pointer)' : Registry!Resolves(x, pointer[x])'
    BY <1>2 DEF Registry!ProvenanceStands, Registry!Guarded, Registry!Rows
  <2>1. \A x \in Registry!Rows(release) : Registry!Provenanced(release[x])'
    BY <1>2 DEF RegistryInv, Registry!ProvenanceStands, Registry!Provenanced,
       Registry!PurposeApproved, Registry!ScanPassed
  <2>2. ASSUME NEW x \in Registry!Rows(pointer)' PROVE Registry!Resolves(x, pointer[x])'
    BY <1>3, <1>1, RegistryTypes, <1>2 DEF Registry!Rows, RegistryInv, Registry!ProvenanceStands,
       Registry!Resolves
  <2> QED BY <2>1, <2>2
<1>7. Registry!RowsMoveOn
  BY <1>2 DEF Registry!RowsMoveOn
<1> QED BY <1>4, <1>5, <1>6, <1>7 DEF RegistryInv

LEMMA RegistryMigrates ==
  ASSUME RegistryInv,
         \/ Registry!Provision \/ Registry!Upgrade \/ Registry!Downgrade \/ Registry!Unprovision
         \/ UNCHANGED registryVars
  PROVE  RegistryInv' /\ Registry!RowsMoveOn
<1>1. UNCHANGED <<source, fetch, release, pointer, held>>
  BY DEF Registry!Provision, Registry!Upgrade, Registry!Downgrade, Registry!Unprovision, registryVars
<1>2. schema' \in {"none", "registry", "guarded"}
  BY DEF Registry!Provision, Registry!Upgrade, Registry!Downgrade, Registry!Unprovision, registryVars,
     RegistryInv, Registry!RegistryTypeOK
<1>3. Registry!RegistryTypeOK' /\ CopiesStand'
  BY <1>1, <1>2 DEF RegistryInv, Registry!RegistryTypeOK, CopiesStand, Registry!PointerRow
<1>4. schema' = "guarded" => /\ \A r \in Registry!Rows(release) : Registry!Provenanced(release[r])
                             /\ \A u \in Registry!Rows(pointer) : Registry!Resolves(u, pointer[u])
  BY DEF Registry!Provision, Registry!Upgrade, Registry!Downgrade, Registry!Unprovision, registryVars,
     RegistryInv, Registry!ProvenanceStands, Registry!Guarded, Registry!UpgradeAdmits
<1>5. Registry!ProvenanceStands'
  BY <1>1, <1>4 DEF Registry!ProvenanceStands, Registry!Guarded, Registry!Rows, Registry!Provenanced,
     Registry!Resolves, Registry!PurposeApproved, Registry!ScanPassed
<1>6. Registry!RowsMoveOn
  BY <1>1 DEF Registry!RowsMoveOn
<1> QED BY <1>3, <1>5, <1>6 DEF RegistryInv

LEMMA RegistryNextKeeps ==
  ASSUME RegistryConstants, RegistryInv, [Registry!RegistryNext]_registryVars
  PROVE  RegistryInv' /\ Registry!RowsMoveOn
<1>1. ASSUME NEW a \in Process, Registry!Works(a) PROVE RegistryInv' /\ Registry!RowsMoveOn
  BY <1>1, RegistryLoads, RegistrySources, RegistryFetches, RegistryClears, RegistryPromotes
  DEF Registry!Works
<1> QED
  BY <1>1, RegistrySources, RegistryFetches, RegistryReleases, RegistryPoints, RegistryMigrates
  DEF Registry!RegistryNext

-----------------------------------------------------------------------------
(* The manifest of a dataset release.                                      *)

\* What a manifest is made of.
EvidenceRecord == [of : Assignment, state : {"pending", "verified"}, revoked : BOOLEAN, expires : 0..1]
ManifestRow ==
  [status : {"candidate", "decision-ready", "released"}, use : Registry!Uses, candidate : Nat,
   accepted : Nat, rejected : Nat, artifacts : Seq(Registry!Artifact), bound : Seq(Assignment),
   partitions : Nat, evidence : SUBSET EvidenceRecord, actors : Seq(Subject),
   ids : SUBSET {"s1"}, sources : SUBSET {"s1"}, resolved : BOOLEAN]

\* It has artifacts and is bound to them, evidence that counts was given by somebody
\* and stands, and nothing is accepted or rejected before somebody decides.
ManifestStands(m, verifiers, decided) ==
  /\ m \in ManifestRow /\ m.artifacts # <<>> /\ Len(m.bound) = Len(m.artifacts)
  /\ \A e \in m.evidence : e.state = "verified" /\ ~e.revoked => e.of \in verifiers
  /\ decided \/ (m.accepted = 0 /\ m.rejected = 0)
ManifestInv ==
  /\ evidenceAge \in 0..1 /\ counted \in BOOLEAN /\ verifiedShas \subseteq Assignment
  /\ manifest # Nil => ManifestStands(manifest, verifiedShas, counted)

LEMMA ManifestInit == ASSUME Registry!ManifestInit PROVE ManifestInv
<1>1. evidenceAge = 0 /\ 0 \in 0..1
  BY DEF Registry!ManifestInit
<1>2. counted \in BOOLEAN
  BY DEF Registry!ManifestInit
<1> QED BY <1>1, <1>2 DEF Registry!ManifestInit, ManifestInv

\* The digests of artifacts.
LEMMA ShasOf ==
  ASSUME NEW artifacts \in Seq(Registry!Artifact)
  PROVE  /\ [i \in DOMAIN artifacts |-> artifacts[i].sha] \in Seq(Assignment)
         /\ Len([i \in DOMAIN artifacts |-> artifacts[i].sha]) = Len(artifacts)
<1> DEFINE shas == [i \in DOMAIN artifacts |-> artifacts[i].sha]
<1>1. DOMAIN artifacts = 1..Len(artifacts) /\ Len(artifacts) \in Nat
      /\ \A i \in 1..Len(artifacts) : artifacts[i] \in Registry!Artifact
  BY LenProperties, ElementOfSeq
<1>2. \A i \in 1..Len(artifacts) : artifacts[i].sha \in Assignment
  BY <1>1 DEF Registry!Artifact
<1>3. shas \in [1..Len(artifacts) -> Assignment]
  BY <1>1, <1>2
<1>4. shas \in Seq(Assignment)
  BY <1>1, <1>3, SeqDef
<1>5. DOMAIN shas = 1..Len(artifacts)
  BY <1>3
<1> HIDE DEF shas
<1>6. DOMAIN shas = 1..Len(shas) /\ Len(shas) \in Nat
  BY <1>4, LenProperties
<1>7. Len(shas) = Len(artifacts)
  BY <1>1, <1>5, <1>6
<1> QED BY <1>4, <1>7 DEF shas

LEMMA LegacyRows ==
  ASSUME NEW l \in Registry!Legacy
  PROVE  /\ l.artifacts \in Seq(Registry!Artifact) /\ l.artifacts # <<>>
         /\ l.artifacts[1] \in Registry!Artifact
         /\ l.candidate \in Nat /\ l.partitions \in Nat /\ l.ids \in SUBSET {"s1"}
         /\ l.resolved \in BOOLEAN
<1>1. /\ l.artifacts \in {<<a>> : a \in Registry!Artifact} \cup (Registry!Artifact \X Registry!Artifact)
      /\ l.candidate \in 0..2 /\ l.partitions \in 0..2 /\ l.ids \in SUBSET {"s1"}
      /\ l.resolved \in BOOLEAN
  BY DEF Registry!Legacy
<1>2. CASE l.artifacts \in {<<a>> : a \in Registry!Artifact}
  <2>1. PICK a \in Registry!Artifact : l.artifacts = <<a>>
    BY <1>2
  <2>2. <<a>> \in Seq(Registry!Artifact) /\ <<a>> # <<>> /\ <<a>>[1] = a
    OBVIOUS
  <2> QED BY <1>1, <2>1, <2>2
<1>3. CASE l.artifacts \in Registry!Artifact \X Registry!Artifact
  <2>1. PICK a \in Registry!Artifact, b \in Registry!Artifact : l.artifacts = <<a, b>>
    BY <1>3
  <2>2. <<a, b>> \in Seq(Registry!Artifact) /\ <<a, b>> # <<>> /\ <<a, b>>[1] = a
    OBVIOUS
  <2> QED BY <1>1, <2>1, <2>2
<1> QED BY <1>1, <1>2, <1>3

\* What is imported is bound to its artifacts and nothing is decided about it.
LEMMA ManifestImports ==
  ASSUME NEW l \in Registry!Legacy, NEW known \in SUBSET {"s1"}, Registry!Import(l, known),
         manifest = Nil, ManifestInv
  PROVE  ManifestInv'
<1> DEFINE m == Registry!Imported(l, known)
<1>1. manifest' = m /\ UNCHANGED <<evidenceAge, verifiedShas, counted>>
      /\ l.purpose \in DOMAIN Registry!UseOf
  BY DEF Registry!Import
<1>2. Registry!UseOf[l.purpose] \in Registry!Uses
  BY <1>1 DEF Registry!UseOf, Registry!Uses
<1>3. /\ [i \in DOMAIN l.artifacts |-> l.artifacts[i].sha] \in Seq(Assignment)
      /\ Len([i \in DOMAIN l.artifacts |-> l.artifacts[i].sha]) = Len(l.artifacts)
  BY LegacyRows, ShasOf
<1>4. Registry!Pending(l) \in EvidenceRecord /\ Registry!Pending(l).state = "pending"
  BY LegacyRows DEF Registry!Artifact, Registry!Pending, EvidenceRecord
<1>5. <<>> \in Seq(Subject)
  OBVIOUS
<1>6. m \in ManifestRow
  BY <1>2, <1>3, <1>4, <1>5, LegacyRows DEF Registry!Imported, ManifestRow
<1>7. /\ m.artifacts = l.artifacts /\ m.bound = [i \in DOMAIN l.artifacts |-> l.artifacts[i].sha]
      /\ m.evidence = {Registry!Pending(l)} /\ m.accepted = 0 /\ m.rejected = 0
  BY DEF Registry!Imported
<1> HIDE DEF m
<1>8. ManifestStands(m, verifiedShas, counted)
  BY <1>3, <1>4, <1>6, <1>7, LegacyRows DEF ManifestStands
<1> QED BY <1>1, <1>8 DEF ManifestInv

\* A manifest changed.
LEMMA ManifestBecomes ==
  ASSUME ManifestInv, NEW m, manifest' = m, evidenceAge' = evidenceAge,
         verifiedShas' \subseteq Assignment, counted' \in BOOLEAN,
         ManifestStands(m, verifiedShas', counted')
  PROVE  ManifestInv'
BY DEF ManifestInv

LEMMA ManifestDecides ==
  ASSUME ManifestInv, NEW accepted \in 0..1, Registry!Decide(accepted)
  PROVE  ManifestInv'
<1>1. PICK artifacts \in {manifest.artifacts, <<[sha |-> manifest.bound[1], records |-> accepted]>>} :
        manifest' = [manifest EXCEPT
          !.accepted = accepted, !.rejected = manifest.candidate - accepted,
          !.partitions = accepted, !.artifacts = artifacts,
          !.bound = [i \in DOMAIN artifacts |-> artifacts[i].sha],
          !.evidence = {e \in manifest.evidence : \E a \in Registry!ToSet(artifacts) : a.sha = e.of}]
  BY DEF Registry!Decide
<1> DEFINE rest == manifest.candidate - accepted
           bound == [i \in DOMAIN artifacts |-> artifacts[i].sha]
           evidence == {e \in manifest.evidence : \E a \in Registry!ToSet(artifacts) : a.sha = e.of}
           m == [manifest EXCEPT !.accepted = accepted, !.rejected = rest, !.partitions = accepted,
                                 !.artifacts = artifacts, !.bound = bound, !.evidence = evidence]
<1>2. /\ manifest' = m /\ accepted <= manifest.candidate /\ UNCHANGED <<evidenceAge, verifiedShas>>
      /\ ManifestStands(manifest, verifiedShas, counted)
  BY <1>1 DEF Registry!Decide, ManifestInv
<1>3. counted'
  BY DEF Registry!Decide
<1>4. manifest \in ManifestRow /\ manifest.artifacts # <<>>
      /\ Len(manifest.bound) = Len(manifest.artifacts)
  BY <1>2 DEF ManifestStands
<1>5. artifacts \in Seq(Registry!Artifact) /\ artifacts # <<>>
  <2>1. manifest.artifacts \in Seq(Registry!Artifact) /\ manifest.bound \in Seq(Assignment)
    BY <1>4 DEF ManifestRow
  <2>2. manifest.bound[1] \in Assignment
    BY <1>4, <2>1, EmptySeq, ElementOfSeq
  <2>3. [sha |-> manifest.bound[1], records |-> accepted] \in Registry!Artifact
    BY <2>2 DEF Registry!Artifact
  <2>4. \A a \in Registry!Artifact : <<a>> \in Seq(Registry!Artifact) /\ <<a>> # <<>>
    OBVIOUS
  <2> QED BY <1>4, <2>1, <2>3, <2>4
<1>6. bound \in Seq(Assignment) /\ Len(bound) = Len(artifacts)
  BY <1>5, ShasOf
<1>7. rest \in Nat /\ accepted \in Nat /\ evidence \subseteq manifest.evidence
  BY <1>2, <1>4 DEF ManifestRow
<1> HIDE DEF rest, bound, evidence
<1>8. m \in ManifestRow /\ m.artifacts = artifacts /\ m.bound = bound /\ m.evidence = evidence
  BY <1>4, <1>5, <1>6, <1>7 DEF ManifestRow
<1> HIDE DEF m
<1>9. ManifestStands(m, verifiedShas, TRUE)
  BY <1>2, <1>5, <1>6, <1>7, <1>8 DEF ManifestStands
<1>10. counted' \in BOOLEAN /\ ManifestStands(m, verifiedShas', counted')
  BY <1>2, <1>3, <1>9 DEF ManifestStands
<1>11. verifiedShas' \subseteq Assignment
  BY <1>2 DEF ManifestInv
<1> QED BY <1>2, <1>10, <1>11, ManifestBecomes

\* Its evidence, its signatures or its status changed.
LEMMA RowChanged ==
  ASSUME NEW m \in ManifestRow
  PROVE  /\ \A x \in SUBSET EvidenceRecord :
              LET n == [m EXCEPT !.evidence = x]
              IN n \in ManifestRow /\ n.evidence = x /\ n.artifacts = m.artifacts
                 /\ n.bound = m.bound /\ n.accepted = m.accepted /\ n.rejected = m.rejected
         /\ \A x \in Seq(Subject) :
              LET n == [m EXCEPT !.actors = x]
              IN n \in ManifestRow /\ n.evidence = m.evidence /\ n.artifacts = m.artifacts
                 /\ n.bound = m.bound /\ n.accepted = m.accepted /\ n.rejected = m.rejected
         /\ \A x \in {"candidate", "decision-ready", "released"} :
              LET n == [m EXCEPT !.status = x]
              IN n \in ManifestRow /\ n.evidence = m.evidence /\ n.artifacts = m.artifacts
                 /\ n.bound = m.bound /\ n.accepted = m.accepted /\ n.rejected = m.rejected
BY DEF ManifestRow

LEMMA ManifestVerifies ==
  ASSUME ManifestInv, NEW sha \in Assignment, Registry!Verify(sha)
  PROVE  ManifestInv'
<1> DEFINE given == [of |-> sha, state |-> "verified", revoked |-> FALSE, expires |-> 1]
           evidence == {e \in manifest.evidence : e.of # sha} \cup {given}
           m == [manifest EXCEPT !.evidence = evidence]
<1>1. /\ manifest' = m /\ verifiedShas' = verifiedShas \cup {sha} /\ UNCHANGED <<evidenceAge, counted>>
      /\ ManifestStands(manifest, verifiedShas, counted)
  BY DEF Registry!Verify, ManifestInv
<1>2. manifest \in ManifestRow /\ manifest.evidence \in SUBSET EvidenceRecord
  BY <1>1 DEF ManifestStands, ManifestRow
<1>3. given \in EvidenceRecord /\ given.of = sha
  BY DEF EvidenceRecord
<1> HIDE DEF given
<1>4. evidence \in SUBSET EvidenceRecord /\ \A e \in evidence : e \in manifest.evidence \/ e.of = sha
  BY <1>2, <1>3
<1> HIDE DEF evidence
<1>5. /\ m \in ManifestRow /\ m.evidence = evidence /\ m.artifacts = manifest.artifacts
      /\ m.bound = manifest.bound /\ m.accepted = manifest.accepted /\ m.rejected = manifest.rejected
  BY <1>2, <1>4, RowChanged
<1> HIDE DEF m
<1>6. ManifestStands(m, verifiedShas', counted)
  BY <1>1, <1>4, <1>5 DEF ManifestStands
<1>7. verifiedShas' \subseteq Assignment /\ counted' \in BOOLEAN
  BY <1>1 DEF ManifestInv
<1>8. ManifestStands(m, verifiedShas', counted')
  BY <1>1, <1>6 DEF ManifestStands
<1> QED BY <1>1, <1>7, <1>8, ManifestBecomes

LEMMA ManifestRevokes ==
  ASSUME ManifestInv, NEW sha \in Assignment, Registry!Revoke(sha)
  PROVE  ManifestInv'
<1> DEFINE evidence == {[e EXCEPT !.revoked = e.revoked \/ e.of = sha] : e \in manifest.evidence}
           m == [manifest EXCEPT !.evidence = evidence]
<1>1. /\ manifest' = m /\ verifiedShas' = verifiedShas \ {sha} /\ UNCHANGED <<evidenceAge, counted>>
      /\ ManifestStands(manifest, verifiedShas, counted)
  BY DEF Registry!Revoke, ManifestInv
<1>2. manifest \in ManifestRow /\ manifest.evidence \in SUBSET EvidenceRecord
  BY <1>1 DEF ManifestStands, ManifestRow
<1>3. \A e \in manifest.evidence : e.state = "verified" /\ ~e.revoked => e.of \in verifiedShas
  BY <1>1 DEF ManifestStands
<1>4. ASSUME NEW x \in evidence
      PROVE  x \in EvidenceRecord /\ (x.state = "verified" /\ ~x.revoked => x.of \in verifiedShas \ {sha})
  BY <1>2, <1>3 DEF EvidenceRecord
<1>5. evidence \in SUBSET EvidenceRecord
  BY <1>4
<1> HIDE DEF evidence
<1>6. /\ m \in ManifestRow /\ m.evidence = evidence /\ m.artifacts = manifest.artifacts
      /\ m.bound = manifest.bound /\ m.accepted = manifest.accepted /\ m.rejected = manifest.rejected
  BY <1>2, <1>5, RowChanged
<1> HIDE DEF m
<1>7. ManifestStands(m, verifiedShas', counted)
  BY <1>1, <1>4, <1>6 DEF ManifestStands
<1>8. verifiedShas' \subseteq Assignment /\ counted' \in BOOLEAN
  BY <1>1 DEF ManifestInv
<1>9. ManifestStands(m, verifiedShas', counted')
  BY <1>1, <1>7 DEF ManifestStands
<1> QED BY <1>1, <1>8, <1>9, ManifestBecomes

LEMMA ManifestSigned ==
  ASSUME ManifestInv,
         \/ \E p \in Subject : Registry!Sign(p)
         \/ \E status \in {"candidate", "decision-ready", "released"} : Registry!Declare(status)
  PROVE  ManifestInv'
<1> DEFINE m == manifest'
<1>1. ManifestStands(manifest, verifiedShas, counted) /\ UNCHANGED <<evidenceAge, verifiedShas, counted>>
  BY DEF Registry!Sign, Registry!Declare, ManifestInv
<1>2. manifest \in ManifestRow
  BY <1>1 DEF ManifestStands
<1>3. /\ m \in ManifestRow /\ m.evidence = manifest.evidence /\ m.artifacts = manifest.artifacts
      /\ m.bound = manifest.bound /\ m.accepted = manifest.accepted /\ m.rejected = manifest.rejected
  <2>1. CASE \E p \in Subject : Registry!Sign(p)
    <3>1. PICK p \in Subject : manifest' = [manifest EXCEPT !.actors = Append(manifest.actors, p)]
      BY <2>1 DEF Registry!Sign
    <3>2. Append(manifest.actors, p) \in Seq(Subject)
      BY <1>2 DEF ManifestRow
    <3> QED BY <1>2, <3>1, <3>2, RowChanged
  <2>2. CASE \E status \in {"candidate", "decision-ready", "released"} : Registry!Declare(status)
    BY <1>2, <2>2, RowChanged DEF Registry!Declare
  <2> QED BY <2>1, <2>2
<1> HIDE DEF m
<1>4. ManifestStands(m, verifiedShas, counted)
  BY <1>1, <1>3 DEF ManifestStands
<1>5. ManifestStands(m, verifiedShas', counted')
  BY <1>1, <1>4 DEF ManifestStands
<1>6. verifiedShas' \subseteq Assignment /\ counted' \in BOOLEAN
  BY <1>1 DEF ManifestInv
<1> QED BY <1>1, <1>5, <1>6, ManifestBecomes DEF m

LEMMA ManifestNextKeeps ==
  ASSUME ManifestInv, [Registry!ManifestNext]_manifestVars
  PROVE  ManifestInv'
<1>1. CASE Registry!Expire
  BY <1>1 DEF Registry!Expire, ManifestInv, ManifestStands
<1>2. CASE UNCHANGED manifestVars
  BY <1>2 DEF manifestVars, ManifestInv, ManifestStands
<1> QED
  BY <1>1, <1>2, ManifestImports, ManifestDecides, ManifestVerifies, ManifestRevokes, ManifestSigned
  DEF Registry!ManifestNext

LEMMA ManifestTypes == ManifestInv => Registry!ManifestTypeOK
BY DEF ManifestInv, ManifestStands, ManifestRow, Registry!ManifestTypeOK

\* A manifest that is valid as ready was reviewed after its import.
LEMMA ManifestReviewed == ASSUME ManifestInv PROVE Registry!ReadyWasReviewed
<1> SUFFICES ASSUME manifest # Nil, Registry!Ready(manifest), Registry!Valid(manifest)
             PROVE  /\ {a.sha : a \in Registry!ToSet(manifest.artifacts)} \subseteq verifiedShas
                    /\ evidenceAge = 0
                    /\ counted \/ manifest.candidate = 0
                    /\ Registry!Total(manifest.artifacts) + manifest.rejected = manifest.candidate
  BY DEF Registry!ReadyWasReviewed
<1>1. manifest \in ManifestRow /\ manifest.artifacts # <<>>
      /\ \A e \in manifest.evidence : e.state = "verified" /\ ~e.revoked => e.of \in verifiedShas
  BY DEF ManifestInv, ManifestStands
<1>2. counted \/ (manifest.accepted = 0 /\ manifest.rejected = 0)
  BY DEF ManifestInv, ManifestStands
<1>3. /\ manifest.candidate = manifest.accepted + manifest.rejected
      /\ Registry!Total(manifest.artifacts) = manifest.accepted
  BY DEF Registry!Valid, Registry!Counted, Registry!Bound, Registry!Expected
<1>4. manifest.accepted \in Nat /\ manifest.rejected \in Nat /\ manifest.evidence \subseteq EvidenceRecord
      /\ manifest.artifacts \in Seq(Registry!Artifact)
  BY <1>1 DEF ManifestRow
<1> DEFINE shas == {a.sha : a \in Registry!ToSet(manifest.artifacts)}
<1>5. ASSUME NEW sha \in shas PROVE sha \in verifiedShas /\ evidenceAge = 0
  <2>1. PICK e \in manifest.evidence : e.of = sha /\ Registry!Current(e)
    BY DEF Registry!Valid, Registry!Evidenced
  <2>2. e.state = "verified" /\ ~e.revoked /\ e.expires > evidenceAge
    BY <2>1 DEF Registry!Current
  <2>3. e.expires \in 0..1
    BY <1>4 DEF EvidenceRecord
  <2>4. evidenceAge \in 0..1
    BY DEF ManifestInv
  <2>5. evidenceAge = 0
    BY <2>2, <2>3, <2>4
  <2> QED BY <1>1, <2>1, <2>2, <2>5
<1>6. \E sha \in shas : TRUE
  <2>1. 1 \in DOMAIN manifest.artifacts
    BY <1>1, <1>4, EmptySeq, LenProperties
  <2> QED BY <2>1 DEF Registry!ToSet
<1>7. evidenceAge = 0
  BY <1>5, <1>6
<1>8. counted \/ manifest.candidate = 0
  BY <1>3, <1>2
<1>9. Registry!Total(manifest.artifacts) + manifest.rejected = manifest.candidate
  BY <1>3
<1> QED BY <1>5, <1>7, <1>8, <1>9

-----------------------------------------------------------------------------
(* The parts together.                                                     *)

\* What the parts keep, side by side.
RequestsInv ==
  /\ GrantInv /\ SeenInv /\ KeyInv /\ ApplyInv /\ EvaluationInv
  /\ DefinitionsInv /\ SmokeInv /\ TuningInv /\ RegistryInv /\ ManifestInv

LEMMA RequestsBegin == Init => RequestsInv
<1> SUFFICES ASSUME Init PROVE RequestsInv
  OBVIOUS
<1>1. GrantInv /\ SeenInv
  BY RequestsAssumption, GrantInit, SeenInit DEF Init
<1>2. KeyInv /\ ApplyInv
  BY RequestsAssumption, KeyInit, ApplyInit DEF Init
<1>3. EvaluationInv /\ DefinitionsInv
  BY RequestsAssumption, EvaluationInit, DefinitionsInit DEF Init
<1>4. SmokeInv /\ TuningInv
  BY RequestsAssumption, SmokeInit, TuningInit DEF Init
<1>5. RegistryInv /\ ManifestInv
  BY RegistryInit, ManifestInit DEF Init
<1> QED
  BY <1>1, <1>2, <1>3, <1>4, <1>5 DEF RequestsInv

\* A step of the whole is, for every part, a step of it or none.
LEMMA RequestsMove ==
  ASSUME [Next]_vars
  PROVE  /\ [Grants!Next]_grantVars
         /\ [Reservations!KeyNext]_(Reservations!keyVars)
         /\ [Reservations!ApplyNext]_(Reservations!applyVars)
         /\ [Evaluation!Next]_evaluationVars /\ [Definitions!Next]_definitionVars
         /\ [Spend!SmokeNext]_smokeVars /\ [Spend!TuningNext]_tuningVars
         /\ [Registry!RegistryNext]_registryVars /\ [Registry!ManifestNext]_manifestVars
<1>1. [Grants!Next]_grantVars
  BY DEF Next, vars, requestVars
<1>2. [Reservations!KeyNext]_(Reservations!keyVars)
  <2>1. [Reservations!KeyNext]_keyVars
    BY DEF Next, vars, requestVars
  <2> QED
    BY <2>1 DEF keyVars, Reservations!keyVars
<1>3. [Reservations!ApplyNext]_(Reservations!applyVars)
  <2>1. [Reservations!ApplyNext]_applyVars
    BY DEF Next, vars, requestVars
  <2> QED
    BY <2>1 DEF applyVars, Reservations!applyVars
<1>4. [Evaluation!Next]_evaluationVars /\ [Definitions!Next]_definitionVars
  BY DEF Next, vars, requestVars
<1>5. /\ [Spend!SmokeNext]_smokeVars /\ [Spend!TuningNext]_tuningVars
      /\ [Registry!RegistryNext]_registryVars /\ [Registry!ManifestNext]_manifestVars
  BY DEF Next, vars, offlineVars
<1> QED
  BY <1>1, <1>2, <1>3, <1>4, <1>5

LEMMA RequestsStep == ASSUME RequestsInv, [Next]_vars PROVE RequestsInv'
<1>1. GrantInv' /\ SeenInv'
  BY RequestsAssumption, RequestsMove, GrantNextKeeps, SeenNextKeeps DEF RequestsInv
<1>2. KeyInv'
  BY RequestsAssumption, RequestsMove, KeyNextKeeps DEF RequestsInv
<1>3. ApplyInv'
  BY RequestsAssumption, RequestsMove, ApplyNextKeeps DEF RequestsInv
<1>4. EvaluationInv'
  BY RequestsAssumption, RequestsMove, EvaluationNextKeeps DEF RequestsInv
<1>5. DefinitionsInv'
  BY RequestsMove, DefinitionsNextKeeps DEF RequestsInv
<1>6. SmokeInv'
  BY RequestsAssumption, RequestsMove, SmokeNextKeeps DEF RequestsInv
<1>7. TuningInv'
  BY RequestsAssumption, RequestsMove, TuningNextKeeps DEF RequestsInv
<1>8. RegistryInv'
  BY RequestsAssumption, RequestsMove, RegistryNextKeeps DEF RequestsInv
<1>9. ManifestInv'
  BY RequestsMove, ManifestNextKeeps DEF RequestsInv
<1> QED
  BY <1>1, <1>2, <1>3, <1>4, <1>5, <1>6, <1>7, <1>8, <1>9 DEF RequestsInv

\* Every part keeps what it keeps, whichever of them a behaviour takes up.
THEOREM RequestsInvariance == Spec => []RequestsInv
<1>1. RequestsInv /\ [Next]_vars => RequestsInv'
  BY RequestsStep
<1> QED
  BY <1>1, RequestsBegin, PTL DEF Spec

\* The rows of every part keep their types.
THEOREM RequestsTyped == Spec => []TypeOK
<1>1. RequestsInv => TypeOK
  <2> SUFFICES ASSUME RequestsInv PROVE TypeOK
    OBVIOUS
  <2>1. Grants!TypeOK /\ Reservations!KeyTypeOK /\ Reservations!ApplyTypeOK
    BY DEF RequestsInv, GrantInv, KeyInv, ApplyInv
  <2>2. Evaluation!TypeOK
    BY RequestsAssumption, EvaluationTypesKept DEF RequestsInv
  <2>3. Definitions!TypeOK
    BY DefinitionsTyped DEF RequestsInv
  <2>4. Spend!SmokeTypeOK /\ Spend!TuningTypeOK
    BY SmokeTypes, TuningTypes DEF RequestsInv
  <2>5. Registry!RegistryTypeOK /\ Registry!ManifestTypeOK
    BY ManifestTypes DEF RequestsInv, RegistryInv
  <2> QED
    BY <2>1, <2>2, <2>3, <2>4, <2>5 DEF TypeOK
<1> QED
  BY <1>1, RequestsInvariance, PTL

\* Whoever races whom, a change request is applied once, a command commits once per
\* reservation of its key, a nonce is spent by one reservation, a capability is sent by
\* one script and an operation of the rehearsal is granted once.
THEOREM RequestsApplyOnce == Spec => []AppliedOnce
<1>1. RequestsInv => AppliedOnce
  <2> SUFFICES ASSUME RequestsInv PROVE AppliedOnce
    OBVIOUS
  <2>1. Grants!AppliedOnce /\ Reservations!NonceSpentOnce
    BY DEF RequestsInv, GrantInv, ApplyInv
  <2>2. Reservations!ExecutedOncePerReservation /\ Reservations!RepliesAgree
    BY RequestsAssumption, RepliesOfKey DEF RequestsInv
  <2>3. Spend!SentOnce /\ Spend!GrantedOnce
    BY RequestsAssumption, SmokeSentOnce, TuningGrantedOnce DEF RequestsInv
  <2> QED
    BY <2>1, <2>2, <2>3 DEF AppliedOnce
<1> QED
  BY <1>1, RequestsInvariance, PTL

\* Usage recorded covers what was spent and sealed evidence is the last valid result of
\* every case; what is released can be read and a plan's definitions cohere; the ledger
\* of the smoke has what was sent and its packet tells it; releases have their
\* provenance and manifests their reviews.
THEOREM EvaluationIsAccountedFor == Spec => []EvaluationAccounts
<1>1. RequestsInv => EvaluationAccounts
  <2> SUFFICES ASSUME RequestsInv PROVE EvaluationAccounts
    OBVIOUS
  <2>1. Evaluation!LedgerCoversSpend /\ Evaluation!SealedFromResults
    BY SpendIsCovered DEF RequestsInv, EvaluationInv
  <2>2. Definitions!ReleasedIsReadable /\ Definitions!PlanIsCoherent
    BY ReleasedReadable, PlansCohere DEF RequestsInv
  <2>3. Spend!SentIsReserved /\ Spend!PacketTellsTheTruth
    BY SmokeReserved, SmokePacketTrue DEF RequestsInv
  <2>4. Registry!ProvenanceStands /\ Registry!ReadyWasReviewed
    BY ManifestReviewed DEF RequestsInv, RegistryInv
  <2> QED
    BY <2>1, <2>2, <2>3, <2>4 DEF EvaluationAccounts
<1> QED
  BY <1>1, RequestsInvariance, PTL

\* Steps happen under the authority they were asked with: an approved change is the one
\* its author saw, a privilege moves by an approved request, a run is decided and sealed
\* under definitions in force, a settled reservation and a torn ledger stay as they are,
\* and a row of the registry moves on from where it is.
THEOREM ChangesAreAsSeen == Spec => ApprovedAsSeen
<1>1. RequestsInv /\ [Next]_vars =>
        [\A q \in Request :
           request'[q].applied > request[q].applied =>
             \A p \in Process :
               LET c == serving[p].change IN
               serving[p].request = q /\ Grants!Free(p)' /\ c.type = "replace" /\ c.role # BootRole
                 => role[c.role].capabilities = c.seen]_(Grants!vars)
  <2> SUFFICES ASSUME RequestsInv, [Next]_vars, ApprovedElsewhereAsSeen,
                      NEW q \in Request, request'[q].applied > request[q].applied,
                      NEW p \in Process, serving[p].request = q, Grants!Free(p)',
                      serving[p].change.type = "replace", serving[p].change.role # BootRole
               PROVE  role[serving[p].change.role].capabilities = serving[p].change.seen
    BY RequestsAssumption, RequestsMove, SeenNextKeeps DEF RequestsInv, SeenSteps
  <2>1. serving'[p].step = "idle"
    BY DEF Grants!Free
  <2> QED
    BY <2>1 DEF ApprovedElsewhereAsSeen
<1>2. RequestsInv /\ [Next]_vars =>
        [\A r \in Role \ {BootRole} :
           /\ role'[r].capabilities # role[r].capabilities
           /\ (role[r].capabilities \cup role'[r].capabilities) \cap Grants!Privileged # {}
           => \E p \in Process : LET q == serving[p].request IN
                /\ q # Nil
                /\ request'[q].applied > request[q].applied
                /\ serving[p].change.role = r
                /\ serving[p].change.capabilities = role'[r].capabilities]_(Grants!vars)
  <2>1. RequestsInv /\ [Next]_vars => PrivilegesElsewhereApproved
    BY RequestsAssumption, RequestsMove, SeenNextKeeps DEF RequestsInv, SeenSteps
  <2> QED
    BY <2>1 DEF PrivilegesElsewhereApproved
<1>3. RequestsInv /\ [Next]_vars =>
        [/\ run.status \in Evaluation!Terminal => run' = run /\ results' = results
         /\ run'.status = "decision_ready" /\ run.status # "decision_ready" => revoked = {}
        ]_(Evaluation!vars)
  BY RequestsMove, EvaluationDecides DEF RequestsInv
<1>4. RequestsInv /\ [Next]_vars => [Definitions!SealedUnderAuthority]_definitionVars
  BY RequestsMove, DefinitionsNextKeeps DEF RequestsInv
<1>5. RequestsInv /\ [Next]_vars =>
        [\A k \in {"k1", "k2"} : reservation[k] # Nil =>
           /\ reservation'[k].request = reservation[k].request
           /\ reservation[k].state # "reserved" => reservation'[k] = reservation[k]
        ]_(Reservations!applyVars)
  BY RequestsAssumption, RequestsMove, ApplyNextKeeps DEF RequestsInv
<1>6. RequestsInv /\ [Next]_vars => [Spend!TornStaysTorn]_tuningVars
  BY RequestsAssumption, RequestsMove, TuningNextKeeps DEF RequestsInv
<1>7. RequestsInv /\ [Next]_vars => [Registry!RowsMoveOn]_registryVars
  BY RequestsAssumption, RequestsMove, RegistryNextKeeps DEF RequestsInv
<1>8. Spec => Grants!ApprovedAsSeen /\ Grants!PrivilegedChangesApproved
  BY <1>1, <1>2, RequestsInvariance, PTL
  DEF Spec, Grants!ApprovedAsSeen, Grants!PrivilegedChangesApproved
<1>9. Spec => Evaluation!DecidedUnderAuthority /\ Reservations!SettledReservationStays
  BY <1>3, <1>5, RequestsInvariance, PTL
  DEF Spec, Evaluation!DecidedUnderAuthority, Reservations!SettledReservationStays
<1>10. Spec => /\ [][Definitions!SealedUnderAuthority]_definitionVars
               /\ [][Spend!TornStaysTorn]_tuningVars /\ [][Registry!RowsMoveOn]_registryVars
  BY <1>4, <1>6, <1>7, RequestsInvariance, PTL DEF Spec
<1> QED
  BY <1>8, <1>9, <1>10 DEF ApprovedAsSeen

=============================================================================
