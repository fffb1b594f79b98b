------------------------ MODULE WorkforceAuthorization ------------------------
(***************************************************************************)
(* Roles, role assignments, change requests and entitlement revisions of   *)
(* the workforce, and the requests that change them.  Every mutation is a  *)
(* database transaction at the default isolation level, read committed: a  *)
(* statement sees what is committed when it runs, a conditional update     *)
(* waits for the writer of its row and then evaluates its condition again. *)
(* A request therefore takes steps: what it reads, the rows it locks, and  *)
(* its commit; other requests run in between.                              *)
(*                                                                         *)
(* Abstracted: organisational scopes other than the global one (the routes *)
(* of this controller name none, so only a global grant passes the guard), *)
(* names and descriptions, audit and outbox rows, deactivated identities,  *)
(* recent authentication, and expected versions older than the current one *)
(* (a version never goes back, so such an update can only be refused).     *)
(* Reads of one request with no wait between them are one step.            *)
(***************************************************************************)
EXTENDS Integers, FiniteSets, FiniteSetsExt

CONSTANTS
  Subject,      \* workforce identities
  Role,         \* role rows
  BootRole,     \* authorization-bootstrap-administrator, a system role
  Assignment,   \* assignment rows
  Request,      \* change request rows
  Process,      \* requests the API serves at a time
  CapabilitySet,\* the capability sets a client asks for
  Scope,        \* whether the assignments it asks for are global
  Period,       \* the validity periods a client asks for
  RequestTtl,   \* PRIVILEGED_REQUEST_TTL_MS
  BootstrapTtl, \* validity of the bootstrap's assignments
  Horizon,      \* bound: ticks
  MaxVersion,   \* bound: versions of a role before change requests are applied
  None

Never == Horizon + 1

Capability == {"assignment.create", "approval.approve", "manage", "standard"}
(* "manage" stands for the other privileged authorization capabilities.    *)
Privileged == Capability \ {"standard"}
AdminCapabilities == {"assignment.create", "approval.approve"}

VARIABLES
  now,
  role,        \* a row and its capabilities
  assignment,
  request,     \* with observations: the capabilities its author saw, and
               \* how often it was applied
  revision,    \* entitlement revision of each subject, modulo two: a step
               \* moves it at most once, and whether it moved is what counts
  serving      \* the request each process is serving

vars == <<now, role, assignment, request, revision, serving>>

Version == 0..(MaxVersion + Cardinality(Request))

RoleRow ==
  [status : {"absent", "active", "disabled"}, capabilities : SUBSET Capability,
   version : Version]
AssignmentRow ==
  [status : {"absent", "active"}, subject : Subject \cup {None},
   role : Role \cup {None}, global : BOOLEAN, from : Nat, until : Nat,
   approved : BOOLEAN]
RequestRow ==
  [status : {"absent", "pending", "approved", "rejected"},
   type : {"replace", "disable", "assign"}, requester : Subject \cup {None},
   role : Role \cup {None}, version : Version,
   capabilities : SUBSET Capability, subject : Subject \cup {None},
   global : BOOLEAN, period : Period \cup {None}, expires : Nat,
   seen : SUBSET Capability, applied : Nat]
Served ==
  [step : {"idle", "assign", "revoke", "replace", "decide", "write", "apply"},
   actor : Subject \cup {None}, role : Role \cup {None},
   capabilities : SUBSET Capability, subject : Subject \cup {None},
   period : Period \cup {None}, global : BOOLEAN,
   assignment : Assignment \cup {None}, request : Request \cup {None},
   change : RequestRow, version : Version, holders : SUBSET Subject]

TypeOK ==
  /\ now \in 0..Horizon
  /\ role \in [Role -> RoleRow]
  /\ assignment \in [Assignment -> AssignmentRow]
  /\ \A a \in Assignment :
       assignment[a].status = "active" =>
         /\ assignment[a].subject # None /\ assignment[a].role # None
         /\ assignment[a].from < assignment[a].until
  /\ request \in [Request -> RequestRow]
  /\ revision \in [Subject -> 0..1]
  /\ serving \in [Process -> Served]

NoAssignment ==
  [status |-> "absent", subject |-> None, role |-> None, global |-> FALSE,
   from |-> 0, until |-> 0, approved |-> FALSE]
NoRequest ==
  [status |-> "absent", type |-> "replace", requester |-> None, role |-> None,
   version |-> 0, capabilities |-> {}, subject |-> None,
   global |-> FALSE, period |-> None, expires |-> 0, seen |-> {}, applied |-> 0]
Idle ==
  [step |-> "idle", actor |-> None, role |-> None, capabilities |-> {},
   subject |-> None, period |-> None, global |-> FALSE, assignment |-> None,
   request |-> None, change |-> NoRequest, version |-> 0, holders |-> {}]

Init ==
  /\ now = 0
  /\ role = [r \in Role |->
               [status |-> "absent", capabilities |-> {}, version |-> 0]]
  /\ assignment = [a \in Assignment |-> NoAssignment]
  /\ request = [q \in Request |-> NoRequest]
  /\ revision = [s \in Subject |-> 0]
  /\ serving = [p \in Process |-> Idle]

-----------------------------------------------------------------------------
(* Entitlements: what active, current assignments of active roles grant.   *)

Active(a) == assignment[a].status = "active"
InForce(a) ==
  /\ Active(a)
  /\ assignment[a].from <= now
  /\ now < assignment[a].until
  /\ role[assignment[a].role].status = "active"
Granted(a) == role[assignment[a].role].capabilities
Entitlements(s) ==
  UNION {Granted(a) \X {assignment[a].global} :
           a \in {b \in Assignment : assignment[b].subject = s /\ InForce(b)}}
(* The guard: no scope is requested, so the grant has to be global.        *)
Holds(s, capability) ==
  \E a \in Assignment : /\ assignment[a].subject = s
                        /\ assignment[a].global
                        /\ InForce(a)
                        /\ capability \in Granted(a)

HasAdministratorCapabilities(keys) == AdminCapabilities \subseteq keys
GlobalAdministrator(a) ==
  /\ InForce(a)
  /\ assignment[a].global
  /\ HasAdministratorCapabilities(Granted(a))
Administrators ==
  {assignment[a].subject : a \in {b \in Assignment : GlobalAdministrator(b)}}

(* Whose revision a change of a role moves.                                *)
HoldersOf(r) ==
  {assignment[a].subject :
     a \in {b \in Assignment : Active(b) /\ assignment[b].role = r}}
Bump(subjects) ==
  revision' = [s \in Subject |->
                 IF s \in subjects THEN 1 - revision[s] ELSE revision[s]]

(* Rows another request has written and not committed.                     *)
RoleLocked(r) ==
  \E p \in Process : /\ serving[p].step \in {"write", "apply"}
                     /\ serving[p].role = r
RequestLocked(q) ==
  \E p \in Process : serving[p].step = "apply" /\ serving[p].request = q

Free(p) == serving[p].step = "idle"
Serve(p, s) == serving' = [serving EXCEPT ![p] = s]
Finish(p) == Serve(p, Idle)

(* A rolled back transaction: nothing but the request itself is gone.      *)
Abort(p) ==
  /\ ~Free(p)
  /\ Finish(p)
  /\ UNCHANGED <<now, role, assignment, request, revision>>
-----------------------------------------------------------------------------
(* Roles.                                                                  *)

CreateRole(actor, r) ==
  /\ Holds(actor, "manage")
  /\ role[r].status = "absent" /\ r # BootRole
  /\ role' = [role EXCEPT ![r] =
                [status |-> "active", capabilities |-> {}, version |-> 1]]
  /\ UNCHANGED <<now, assignment, request, revision, serving>>

\* Fault: the conditional update leaves the version out.
UnchangedSinceUnversioned(r, version) == role[r].status = "active"
UnchangedSince(r, version) == role[r].status = "active" /\ role[r].version = version

UpdateRole(actor, r) ==
  /\ Holds(actor, "manage")
  /\ ~RoleLocked(r)
  /\ UnchangedSince(r, role[r].version) /\ role[r].version < MaxVersion
  /\ role' = [role EXCEPT ![r].version = @ + 1]
  /\ UNCHANGED <<now, assignment, request, revision, serving>>

AssignedTo(r, s) ==
  \E a \in Assignment : /\ InForce(a)
                        /\ assignment[a].role = r
                        /\ assignment[a].subject = s

(* What the service checks before the transaction.                         *)
MayReplace(actor, r, keys) ==
  /\ role[r].status # "absent"
  /\ keys \subseteq role[r].capabilities \/ ~AssignedTo(r, actor)
  /\ (keys \cup role[r].capabilities) \cap Privileged = {}

BeginReplace(p, actor, r, keys) ==
  /\ Free(p)
  /\ Holds(actor, "manage")
  /\ MayReplace(actor, r, keys)
  /\ Serve(p, [Idle EXCEPT !.step = "replace", !.role = r,
                 !.capabilities = keys, !.version = role[r].version])
  /\ UNCHANGED <<now, role, assignment, request, revision>>

(* The role row is locked, its subjects are collected.                     *)
LockReplace(p) ==
  /\ serving[p].step = "replace"
  /\ ~RoleLocked(serving[p].role)
  /\ UnchangedSince(serving[p].role, serving[p].version)
  /\ serving[p].version < MaxVersion
  /\ Serve(p, [serving[p] EXCEPT !.step = "write",
                 !.holders = HoldersOf(serving[p].role)])
  /\ UNCHANGED <<now, role, assignment, request, revision>>

SetCapabilities(r, keys) ==
  role' = [role EXCEPT ![r].capabilities = keys, ![r].version = @ + 1]

CommitReplace(p) ==
  /\ serving[p].step = "write"
  /\ SetCapabilities(serving[p].role, serving[p].capabilities)
  /\ Bump(serving[p].holders)
  /\ Finish(p)
  /\ UNCHANGED <<now, assignment, request>>

-----------------------------------------------------------------------------
(* Assignments.                                                            *)

(* A row of Assignment is any that is not active, nor in a request's hands:*)
(* nothing reads a revoked assignment again, so its identifier may serve   *)
(* for a new one.                                                          *)
Unused(a) ==
  assignment[a].status = "absent" /\ \A p \in Process : serving[p].assignment # a

\* Fault: the bounds of the period change places.
GrantBackwards(a, s, r, global, period, approved) ==
  /\ Unused(a)
  /\ assignment' = [assignment EXCEPT ![a] =
       [status |-> "active", subject |-> s, role |-> r, global |-> global,
        from |-> period.until, until |-> period.from, approved |-> approved]]
Grant(a, s, r, global, period, approved) ==
  /\ Unused(a)
  /\ assignment' = [assignment EXCEPT ![a] =
       [status |-> "active", subject |-> s, role |-> r, global |-> global,
        from |-> period.from, until |-> period.until, approved |-> approved]]

Assignable(r) ==
  /\ role[r].status # "absent"
  /\ role[r].capabilities \cap Privileged = {}

BeginAssign(p, actor, s, r, global, period) ==
  /\ Free(p)
  /\ Holds(actor, "assignment.create")
  /\ Assignable(r)
  /\ Serve(p, [Idle EXCEPT !.step = "assign", !.actor = actor, !.role = r,
                 !.subject = s, !.global = global, !.period = period])
  /\ UNCHANGED <<now, role, assignment, request, revision>>

CommitAssign(p) ==
  LET t == serving[p] IN
  /\ t.step = "assign"
  /\ t.subject # t.actor
  /\ role[t.role].status = "active"
  /\ \E a \in Assignment :
       Grant(a, t.subject, t.role, t.global, t.period, FALSE)
  /\ Bump({t.subject})
  /\ Finish(p)
  /\ UNCHANGED <<now, role, request>>

(* An administrator other than through the assignments left out.           *)
AdministratorWithout(without) ==
  \E a \in Assignment \ without : GlobalAdministrator(a)

\* Fault: the assignment itself is counted as another administrator.
MayRevokeSelf(a) == AdministratorWithout({})
MayRevoke(a) ==
  \/ role[assignment[a].role].status # "active"
  \/ ~assignment[a].global
  \/ ~HasAdministratorCapabilities(Granted(a))
  \/ AdministratorWithout({a})

BeginRevoke(p, actor, a) ==
  /\ Free(p)
  /\ Holds(actor, "manage")
  /\ Active(a)
  /\ MayRevoke(a)
  /\ Serve(p, [Idle EXCEPT !.step = "revoke", !.assignment = a])
  /\ UNCHANGED <<now, role, assignment, request, revision>>

RevokedSubjects(a) == {assignment[a].subject}

CommitRevoke(p) ==
  LET a == serving[p].assignment IN
  /\ serving[p].step = "revoke"
  /\ Active(a)
  /\ assignment' = [assignment EXCEPT ![a] = NoAssignment]
  /\ Bump(RevokedSubjects(a))
  /\ Finish(p)
  /\ UNCHANGED <<now, role, request>>

-----------------------------------------------------------------------------
(* Change requests: proposed by one, decided by another.                   *)

MayPropose(actor) ==
  Holds(actor, "manage") \/ Holds(actor, "assignment.create")

Propose(actor, q, proposal) ==
  /\ MayPropose(actor)
  /\ role[proposal.role].status # "absent"
  /\ request[q].status = "absent"
  /\ request' = [request EXCEPT ![q] = proposal]
  /\ UNCHANGED <<now, role, assignment, revision, serving>>

Pending(actor, r) ==
  [NoRequest EXCEPT !.status = "pending", !.requester = actor, !.role = r,
     !.expires = now + RequestTtl]
ProposeReplace(actor, q, r, keys) ==
  Propose(actor, q, [Pending(actor, r) EXCEPT !.capabilities = keys,
                       !.version = role[r].version,
                       !.seen = role[r].capabilities])
ProposeDisable(actor, q, r) ==
  Propose(actor, q, [Pending(actor, r) EXCEPT !.type = "disable",
                       !.version = role[r].version])
ProposeAssign(actor, q, r, s, global, period) ==
  Propose(actor, q, [Pending(actor, r) EXCEPT !.type = "assign",
                       !.subject = s, !.global = global, !.period = period])

(* The decision's transaction reads the request, and applies what it read. *)
MayDecide(actor, q) ==
  /\ request[q].status = "pending"
  /\ now < request[q].expires
  /\ request[q].requester # actor

(* Of a decided request only that it is one is kept: nothing reads more.   *)
Decided(status, applied) ==
  [NoRequest EXCEPT !.status = status, !.applied = applied]

Reject(actor, q) ==
  /\ Holds(actor, "manage")
  /\ MayDecide(actor, q)
  /\ ~RequestLocked(q)
  /\ request' = [request EXCEPT ![q] = Decided("rejected", @.applied)]
  /\ UNCHANGED <<now, role, assignment, revision, serving>>

BeginApprove(p, actor, q) ==
  /\ Free(p)
  /\ Holds(actor, "approval.approve")
  /\ MayDecide(actor, q)
  /\ Serve(p, [Idle EXCEPT !.step = "decide", !.request = q,
                 !.change = request[q]])
  /\ UNCHANGED <<now, role, assignment, request, revision>>

AssignmentsOf(r) == {a \in Assignment : assignment[a].role = r}
KeepsAdministrator(r) ==
  \/ ~HasAdministratorCapabilities(role[r].capabilities)
  \/ AdministratorWithout(AssignmentsOf(r))

MayApplyReplace(c) ==
  /\ c.type = "replace"
  /\ UnchangedSince(c.role, c.version)
  /\ HasAdministratorCapabilities(c.capabilities) \/ KeepsAdministrator(c.role)
MayApplyDisable(c) ==
  /\ c.type = "disable"
  /\ c.role # BootRole
  /\ KeepsAdministrator(c.role)
  /\ UnchangedSince(c.role, c.version)
MayApplyAssign(c) ==
  /\ c.type = "assign"
  /\ c.period.until # Never
  /\ c.subject # c.requester
  /\ role[c.role].status = "active"
  /\ role[c.role].capabilities \cap Privileged # {}

\* Fault: the conditional update leaves the status out.
UndecidedAnyway(q) == TRUE
Undecided(q) == request[q].status = "pending"

(* The request's row is locked, then the role's if it changes; the rest is *)
(* checked and, for a role, its subjects are collected.                    *)
LockApprove(p) ==
  LET q == serving[p].request
      c == serving[p].change IN
  /\ serving[p].step = "decide"
  /\ ~RequestLocked(q)
  /\ Undecided(q)
  /\ \/ ~RoleLocked(c.role) /\ (MayApplyReplace(c) \/ MayApplyDisable(c))
     \/ MayApplyAssign(c)
  /\ Serve(p, [serving[p] EXCEPT !.step = "apply",
                 !.role = IF c.type = "assign" THEN None ELSE c.role,
                 !.holders = IF c.type = "assign" THEN {c.subject}
                             ELSE HoldersOf(c.role)])
  /\ UNCHANGED <<now, role, assignment, request, revision>>

ApplyReplace(c) ==
  /\ c.type = "replace"
  /\ SetCapabilities(c.role, c.capabilities)
  /\ UNCHANGED assignment
ApplyDisable(c) ==
  /\ c.type = "disable"
  /\ role' = [role EXCEPT ![c.role].status = "disabled",
                          ![c.role].version = @ + 1]
  /\ UNCHANGED assignment
ApplyAssign(c) ==
  /\ c.type = "assign"
  /\ \E a \in Assignment :
       Grant(a, c.subject, c.role, c.global, c.period, TRUE)
  /\ UNCHANGED role

CommitApprove(p) ==
  LET q == serving[p].request
      c == serving[p].change IN
  /\ serving[p].step = "apply"
  /\ ApplyReplace(c) \/ ApplyDisable(c) \/ ApplyAssign(c)
  /\ request' = [request EXCEPT ![q] = Decided("approved", @.applied + 1)]
  /\ Bump(serving[p].holders)
  /\ Finish(p)
  /\ UNCHANGED now

-----------------------------------------------------------------------------
(* The operator's bootstrap of two administrators, and time.               *)

Bootstrap(s, t) ==
  /\ s # t
  /\ Administrators = {}
  /\ \A a \in Assignment : Active(a) => assignment[a].subject \notin {s, t}
  /\ ~RoleLocked(BootRole)
  /\ role' = [role EXCEPT ![BootRole] =
       [status |-> "active", capabilities |-> Capability,
        version |-> IF @.version = 0 THEN 1 ELSE @.version]]
  /\ \E a, b \in Assignment :
       /\ a # b
       /\ Unused(a) /\ Unused(b)
       /\ assignment' = [assignment EXCEPT
            ![a] = [status |-> "active", subject |-> s, role |-> BootRole,
                    global |-> TRUE, from |-> now,
                    until |-> now + BootstrapTtl, approved |-> TRUE],
            ![b] = [status |-> "active", subject |-> t, role |-> BootRole,
                    global |-> TRUE, from |-> now,
                    until |-> now + BootstrapTtl, approved |-> TRUE]]
  /\ Bump({s, t})
  /\ UNCHANGED <<now, request, serving>>

Tick ==
  /\ now < Horizon
  /\ now' = now + 1
  /\ UNCHANGED <<role, assignment, request, revision, serving>>

Serving(p) ==
  \/ \E actor \in Subject, r \in Role, keys \in CapabilitySet :
       BeginReplace(p, actor, r, keys)
  \/ LockReplace(p) \/ CommitReplace(p)
  \/ \E actor, s \in Subject, r \in Role, g \in Scope, d \in Period :
       BeginAssign(p, actor, s, r, g, d)
  \/ CommitAssign(p)
  \/ \E actor \in Subject, a \in Assignment : BeginRevoke(p, actor, a)
  \/ CommitRevoke(p)
  \/ \E actor \in Subject, q \in Request : BeginApprove(p, actor, q)
  \/ LockApprove(p) \/ CommitApprove(p)
  \/ Abort(p)

Proposing(actor, q) ==
  \/ \E r \in Role, keys \in CapabilitySet : ProposeReplace(actor, q, r, keys)
  \/ \E r \in Role : ProposeDisable(actor, q, r)
  \/ \E r \in Role, s \in Subject, g \in Scope, d \in Period :
       ProposeAssign(actor, q, r, s, g, d)
  \/ Reject(actor, q)

Next ==
  \/ \E p \in Process : Serving(p)
  \/ \E actor \in Subject, q \in Request : Proposing(actor, q)
  \/ \E actor \in Subject, r \in Role : CreateRole(actor, r) \/ UpdateRole(actor, r)
  \/ \E s, t \in Subject : Bootstrap(s, t)
  \/ Tick

Spec == Init /\ [][Next]_vars

-----------------------------------------------------------------------------
(* Properties.                                                             *)

(* A change request takes effect once if it is approved and never if it is *)
(* not, whoever decides it at the same time.  decideChangeRequest,         *)
(* applyApprovedRequest.                                                   *)
AppliedOnce ==
  \A q \in Request :
    request[q].applied = IF request[q].status = "approved" THEN 1 ELSE 0

(* An approval replaces exactly the capabilities the requester had before  *)
(* them, not what others made of the role since: the version in the        *)
(* request's payload stands for what was seen.  Not so for the bootstrap   *)
(* role, whose capabilities the script restores without raising the        *)
(* version (bootstrap-workforce-administrators.ts:161-186): a request made *)
(* before that is approved over what its author never saw.                 *)
ApprovedAsSeen ==
  [][\A q \in Request :
       request'[q].applied > request[q].applied =>
         \A p \in Process :
           LET c == serving[p].change IN
           serving[p].request = q /\ Free(p)' /\ c.type = "replace" /\ c.role # BootRole
             => role[c.role].capabilities = c.seen]_vars

(* A role other than the bootstrap one gains or loses a privileged         *)
(* capability only by an approved request for exactly that set of          *)
(* capabilities, although the service looks at the tiers before the        *)
(* transaction that replaces them.  replaceRoleCapabilities.               *)
PrivilegedChangesApproved ==
  [][\A r \in Role \ {BootRole} :
       /\ role'[r].capabilities # role[r].capabilities
       /\ (role[r].capabilities \cup role'[r].capabilities) \cap Privileged # {}
       => \E p \in Process : LET q == serving[p].request IN
            /\ q # None
            /\ request'[q].applied > request[q].applied
            /\ serving[p].change.role = r
            /\ serving[p].change.capabilities = role'[r].capabilities]_vars

(* Time may end the last administrator's assignment, a request may not.    *)
(* revokeAssignment, assertAnotherGlobalAdministrator.                     *)
LastAdministratorKept ==
  [][now' = now /\ Administrators # {} => Administrators' # {}]_vars

(* What a subject may do does not change, other than by time, under an     *)
(* unchanged entitlement revision.  bumpEntitlementRevision.               *)
RevisionFollows ==
  [][\A s \in Subject :
       now' = now /\ Entitlements(s)' # Entitlements(s)
         => revision'[s] # revision[s]]_vars

(* A new assignment of a role that is privileged has been approved by a    *)
(* second person.  createAssignment.                                       *)
PrivilegedGrantsApproved ==
  [][\A a \in Assignment :
       /\ ~Active(a) /\ Active(a)'
       /\ Granted(a)' \cap Privileged # {}
       => assignment'[a].approved]_vars

=============================================================================
