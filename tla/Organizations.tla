--------------------------- MODULE Organizations ---------------------------
(* Who runs an organization and who runs the instance.                       *)
(* An organization has members and invitations. A request is authorized by   *)
(* an unlocked read, its audit entry is written, and only then does its      *)
(* transaction lock the organization, so whatever the read showed may have   *)
(* changed. Accepting an invitation locks the invitation first and touches   *)
(* the organization (the membership's foreign key) second: the other order.  *)
(* An instance has an owner, made by the first bootstrap, administrators the *)
(* owner names, and accounts they disable; every request looks up its        *)
(* caller's role first and writes in a later transaction.                    *)
EXTENDS Naturals, FiniteSets

CONSTANTS People,   \* platform users and addresses that may become one
          Founder,  \* the person who creates the organization
          Guests,   \* addresses without an account at first
          Invites,  \* rows of organization_invitations
          Calls,    \* requests
          Nobody

ASSUME OrganizationsAssumption ==
  /\ Founder \in People \ Guests /\ Guests \subseteq People
  /\ Nobody \notin People \cup Calls \cup Invites

VARIABLES
  org,      \* "none", "active" or "disabled"
  accounts, \* people who have an account
  members,  \* role of each person, "none" for the others
  invites,  \* the invitations
  calls,    \* running requests
  orgLock   \* the request whose transaction holds the organization's row

orgVars == <<org, accounts, members, invites, calls, orgLock>>

Roles == {"owner", "admin", "developer"}
Admins == {"owner", "admin"}
NoCall == [op |-> "none", step |-> "none", actor |-> Nobody, target |-> Nobody,
           role |-> "none", seen |-> "none", row |-> Nobody]
NoInvite == [status |-> "none", to |-> Nobody, role |-> "none", sent |-> 0, vouched |-> 0]

OrganizationsInit ==
  /\ org = "none" /\ accounts = People \ Guests
  /\ members = [p \in People |-> "none"]
  /\ invites = [i \in Invites |-> NoInvite]
  /\ calls = [c \in Calls |-> NoCall] /\ orgLock = Nobody

Owners == {p \in People : members[p] = "owner"}
Open(i) == invites[i].status \in {"pending", "expired"}
RowHeld(i) == \E c \in Calls : calls[c].op = "accept" /\ calls[c].row = i
End(c) == calls' = [calls EXCEPT ![c] = NoCall]
Unlock(c) == orgLock' = IF orgLock = c THEN Nobody ELSE orgLock

\* The organization and its first owner, in one transaction.
CreateOrganization(p) ==
  /\ org = "none" /\ p = Founder
  /\ org' = "active" /\ members' = [members EXCEPT ![p] = "owner"]
  /\ UNCHANGED <<accounts, invites, calls, orgLock>>

\* authorized_organization_admin: an unlocked read.
Authorized(p) == org = "active" /\ members[p] \in Admins

Start(c, op, p, target, role) ==
  /\ calls[c] = NoCall /\ Authorized(p)
  /\ calls' = [calls EXCEPT ![c] = [NoCall EXCEPT !.op = op, !.step = "audited", !.actor = p,
                 !.target = target, !.role = role, !.seen = members[p]]]
  /\ UNCHANGED <<org, accounts, members, invites, orgLock>>

\* add_member, update_member, remove_member: the audit entry is required.
AddMember(c, p, target, role) == Start(c, "add", p, target, role)
ChangeMember(c, p, target, role) == Start(c, "change", p, target, role)

\* create_invitation: only an owner invites owners, and somebody who has an
\* account is answered as if invited.
CreateInvitation(c, p, target, role) ==
  /\ role = "owner" => members[p] = "owner"
  /\ target \notin accounts
  /\ Start(c, "invite", p, target, role)

\* Mutant: the lock is taken when nobody was holding it or somebody was.
LockShared(c) ==
  /\ calls[c].step = "audited" /\ calls[c].op # "accept"
  /\ Authorized(calls[c].actor)
  /\ orgLock' = c
  /\ calls' = [calls EXCEPT ![c].step = "locked", ![c].seen = members[calls[c].actor]]
  /\ UNCHANGED <<org, accounts, members, invites>>

\* Mutant: the role of the first read is used.
LockStale(c) ==
  /\ calls[c].step = "audited" /\ calls[c].op # "accept"
  /\ orgLock = Nobody /\ org = "active" /\ orgLock' = c
  /\ calls' = [calls EXCEPT ![c].step = "locked"]
  /\ UNCHANGED <<org, accounts, members, invites>>

\* Mutant: the lock is held for the person, not for the transaction.
LockByActor(c) ==
  /\ calls[c].step = "audited" /\ calls[c].op # "accept"
  /\ orgLock = Nobody /\ Authorized(calls[c].actor) /\ orgLock' = calls[c].actor
  /\ calls' = [calls EXCEPT ![c].step = "locked"]
  /\ UNCHANGED <<org, accounts, members, invites>>

\* lock_organization_actor: the row, and the role the actor has now.
LockOrganization(c) ==
  /\ calls[c].step = "audited" /\ calls[c].op # "accept"
  /\ orgLock = Nobody /\ Authorized(calls[c].actor)
  /\ orgLock' = c
  /\ calls' = [calls EXCEPT ![c].step = "locked", ![c].seen = members[calls[c].actor]]
  /\ UNCHANGED <<org, accounts, members, invites>>

InLock(c, op) == calls[c].op = op /\ calls[c].step = "locked"

\* add_member_transaction.
CommitAdd(c) ==
  /\ InLock(c, "add")
  /\ calls[c].role = "owner" => calls[c].seen = "owner"
  /\ calls[c].target \in accounts /\ members[calls[c].target] = "none"
  /\ members' = [members EXCEPT ![calls[c].target] = calls[c].role]
  /\ End(c) /\ Unlock(c) /\ UNCHANGED <<org, accounts, invites>>

\* validate_member_transition and the count of authorize_member_transition:
\* owners are changed by owners, and the last one stays.
TransitionAllowed(seen, current, next, owners) ==
  /\ "owner" \in {current, next} => seen = "owner"
  /\ current = "owner" /\ next # "owner" => owners > 1

\* The target is locked and counted in one step, and written in the next.
CheckChange(c) ==
  /\ InLock(c, "change")
  /\ members[calls[c].target] # "none"
  /\ TransitionAllowed(calls[c].seen, members[calls[c].target], calls[c].role, Cardinality(Owners))
  /\ calls' = [calls EXCEPT ![c].step = "allowed"]
  /\ UNCHANGED <<org, accounts, members, invites, orgLock>>

\* update_member_transaction and remove_member_transaction.
CommitChange(c) ==
  /\ calls[c].op = "change" /\ calls[c].step = "allowed"
  /\ members' = [members EXCEPT ![calls[c].target] = calls[c].role]
  /\ End(c) /\ Unlock(c) /\ UNCHANGED <<org, accounts, invites>>

\* create_invitation's transaction: earlier invitations of the address are
\* revoked (waiting for a row an acceptance holds) and a new one is inserted.
CommitInvitation(c, i) ==
  /\ InLock(c, "invite")
  /\ calls[c].role = "owner" => calls[c].seen = "owner"
  /\ invites[i] = NoInvite
  /\ \A j \in Invites : Open(j) /\ invites[j].to = calls[c].target => ~RowHeld(j)
  /\ invites' = [j \in Invites |->
       IF j = i THEN [status |-> "pending", to |-> calls[c].target, role |-> calls[c].role, sent |-> 0,
                      vouched |-> IF members[calls[c].actor] = "owner" THEN 1 ELSE 0]
       ELSE IF Open(j) /\ invites[j].to = calls[c].target THEN [invites[j] EXCEPT !.status = "revoked"]
       ELSE invites[j]]
  /\ calls' = [calls EXCEPT ![c].step = "enqueue", ![c].row = i]
  /\ Unlock(c) /\ UNCHANGED <<org, accounts, members>>

\* The message is queued, or the invitation is revoked again.
EnqueueInvitation(c) ==
  /\ calls[c].op = "invite" /\ calls[c].step = "enqueue"
  /\ \/ invites' = [invites EXCEPT ![calls[c].row].sent = 1]
     \/ /\ ~RowHeld(calls[c].row)
        /\ invites' = [invites EXCEPT ![calls[c].row].status = IF Open(calls[c].row) THEN "revoked" ELSE @]
  /\ End(c) /\ UNCHANGED <<org, accounts, members, orgLock>>

\* expires_at passes.
Expire(i) ==
  /\ invites[i].status = "pending" /\ ~RowHeld(i)
  /\ invites' = [invites EXCEPT ![i].status = "expired"]
  /\ UNCHANGED <<org, accounts, members, calls, orgLock>>

\* accept_invitation: the invitation is locked, then the audit entry is written.
AcceptInvitation(c, i) ==
  /\ calls[c] = NoCall /\ invites[i].status = "pending" /\ invites[i].sent = 1 /\ ~RowHeld(i)
  /\ calls' = [calls EXCEPT ![c] = [NoCall EXCEPT !.op = "accept", !.step = "join", !.row = i]]
  /\ UNCHANGED <<org, accounts, members, invites, orgLock>>

\* Mutant: an account the address got meanwhile is used.
JoinAgain(c) ==
  /\ calls[c].op = "accept" /\ orgLock = Nobody
  /\ accounts' = accounts \cup {invites[calls[c].row].to}
  /\ members' = [members EXCEPT ![invites[calls[c].row].to] = invites[calls[c].row].role]
  /\ invites' = [invites EXCEPT ![calls[c].row].status = "accepted"]
  /\ End(c) /\ UNCHANGED <<org, orgLock>>

\* The account, the membership (its foreign key waits for the organization's
\* row) and the used invitation, unless the address got an account meanwhile.
\* Nothing asks whether the organization is disabled.
Join(c) ==
  /\ calls[c].op = "accept" /\ orgLock = Nobody
  /\ invites[calls[c].row].to \notin accounts
  /\ accounts' = accounts \cup {invites[calls[c].row].to}
  /\ members' = [members EXCEPT ![invites[calls[c].row].to] = invites[calls[c].row].role]
  /\ invites' = [invites EXCEPT ![calls[c].row].status = "accepted"]
  /\ End(c) /\ UNCHANGED <<org, orgLock>>

\* A refusal, an error, the victim of a deadlock, or the end of the process.
CallStops(c) ==
  /\ calls[c] # NoCall
  /\ End(c) /\ Unlock(c) /\ UNCHANGED <<org, accounts, members, invites>>

\* set_organization_disabled: one statement, which waits for the row.
SetOrganizationDisabled ==
  /\ org # "none" /\ orgLock = Nobody
  /\ org' = IF org = "active" THEN "disabled" ELSE "active"
  /\ UNCHANGED <<accounts, members, invites, calls, orgLock>>

OrganizationsNext ==
  \/ \E p \in People : CreateOrganization(p)
  \/ \E c \in Calls, p, target \in People, role \in Roles :
       \/ AddMember(c, p, target, role) \/ ChangeMember(c, p, target, role)
       \/ ChangeMember(c, p, target, "none") \/ CreateInvitation(c, p, target, role)
  \/ \E c \in Calls :
       \/ LockOrganization(c) \/ CommitAdd(c) \/ CheckChange(c) \/ CommitChange(c)
       \/ EnqueueInvitation(c) \/ Join(c) \/ CallStops(c)
       \/ \E i \in Invites : CommitInvitation(c, i) \/ AcceptInvitation(c, i)
  \/ \E i \in Invites : Expire(i)
  \/ SetOrganizationDisabled

OrganizationsSpec == OrganizationsInit /\ [][OrganizationsNext]_orgVars

OrganizationsTypeOK ==
  /\ org \in {"none", "active", "disabled"} /\ accounts \subseteq People
  /\ members \in [People -> Roles \cup {"none"}]
  /\ invites \in [Invites -> [status : {"none", "pending", "expired", "accepted", "revoked"},
       to : People \cup {Nobody}, role : Roles \cup {"none"}, sent : {0, 1}, vouched : {0, 1}]]
  /\ calls \in [Calls -> [op : {"none", "add", "change", "invite", "accept"},
       step : {"none", "audited", "locked", "allowed", "enqueue", "join"},
       actor : People \cup {Nobody}, target : People \cup {Nobody},
       role : Roles \cup {"none"}, seen : Roles \cup {"none"}, row : Invites \cup {Nobody}]]
  /\ orgLock \in Calls \cup {Nobody}

\* An organization never loses its last owner: owners who demote or remove
\* each other, or themselves, are counted under the organization's lock.
OwnerRemains == org # "none" => Owners # {}

\* Ownership is given by somebody who is an owner when it is given, or was
\* one when the invitation was written: an owner who was demoted between the
\* authorization of a request and its transaction gives nothing.
OwnersMakeOwners ==
  [][\A p \in People :
       members[p] # "owner" /\ members'[p] = "owner" =>
         \/ org = "none"
         \/ \E c \in Calls : calls[c].target = p /\ calls'[c] = NoCall /\ members[calls[c].actor] = "owner"
         \/ \E i \in Invites : /\ invites[i].to = p /\ invites[i].vouched = 1
                               /\ invites[i].status # "accepted" /\ invites'[i].status = "accepted"]_orgVars

\* An address has at most one open invitation and joins through at most one.
InvitationsOnce ==
  \A i, j \in Invites : i # j /\ invites[i].to = invites[j].to /\ invites[i] # NoInvite =>
    /\ ~(Open(i) /\ Open(j))
    /\ ~(invites[i].status = "accepted" /\ invites[j].status = "accepted")

-----------------------------------------------------------------------------
(* The people who run the instance.                                          *)
CONSTANTS Staff,  \* platform users
          Tasks,  \* administrative requests
          NoStaff

ASSUME AdministratorsAssumption == NoStaff \notin Staff

VARIABLES
  staff,    \* platform_users and instance_administrators: role, and disabled or not
  owner,    \* instance_settings.owner_user_id
  policy,   \* instance_settings.organization_creation_policy
  setup,    \* instance_settings.setup_completed_at: 1 when it is set
  tasks     \* running requests

staffVars == <<staff, owner, policy, setup, tasks>>

NoTask == [op |-> "none", by |-> NoStaff, to |-> NoStaff]
Unknown == [role |-> "none", account |-> "none"]

AdministratorsInit ==
  /\ staff = [u \in Staff |-> Unknown] /\ owner = NoStaff /\ policy = "owner_only" /\ setup = 0
  /\ tasks = [t \in Tasks |-> NoTask]

Finish(t) == tasks' = [tasks EXCEPT ![t] = NoTask]

\* bootstrap: the token is checked and the attempt is audited.
Bootstrap(t, u) ==
  /\ tasks[t] = NoTask /\ staff[u] = Unknown
  /\ tasks' = [tasks EXCEPT ![t] = [op |-> "bootstrap", by |-> u, to |-> u]]
  /\ UNCHANGED <<staff, owner, policy, setup>>

\* insert_first: under the advisory lock, when there is no user yet, the user,
\* the settings and the owner in one transaction.
InsertFirst(t) ==
  /\ tasks[t].op = "bootstrap"
  /\ \A u \in Staff : staff[u] = Unknown
  /\ staff' = [staff EXCEPT ![tasks[t].by] = [role |-> "owner", account |-> "enabled"]]
  /\ owner' = tasks[t].by
  /\ Finish(t) /\ UNCHANGED <<policy, setup>>

\* Other accounts come from invitations.
JoinStaff(u) ==
  /\ owner # NoStaff /\ staff[u] = Unknown
  /\ staff' = [staff EXCEPT ![u].account = "enabled"]
  /\ UNCHANGED <<owner, policy, setup, tasks>>

\* require_administrator and require_owner.
RoleOf(u) == IF staff[u].account = "enabled" THEN staff[u].role ELSE "none"
Owner(u) == RoleOf(u) = "owner"
Administrator(u) == RoleOf(u) \in {"owner", "admin"}

Ask(t, op, by, to) ==
  /\ tasks[t] = NoTask
  /\ tasks' = [tasks EXCEPT ![t] = [op |-> op, by |-> by, to |-> to]]
  /\ UNCHANGED <<staff, owner, policy, setup>>

AskGrant(t, by, to) == Owner(by) /\ by # to /\ Ask(t, "grant", by, to)
AskDismiss(t, by, to) == Owner(by) /\ by # to /\ Ask(t, "dismiss", by, to)
AskDisable(t, by, to) == Administrator(by) /\ Ask(t, "disable", by, to)
AskEnable(t, by, to) == Administrator(by) /\ Ask(t, "enable", by, to)
AskPolicy(t, by) == Owner(by) /\ Ask(t, "policy", by, by)
AskSetup(t, by) == Owner(by) /\ Ask(t, "setup", by, by)

\* grant_administrator: an enabled user who is not the owner.
Grant(t) ==
  /\ tasks[t].op = "grant" /\ staff[tasks[t].to].account = "enabled"
  /\ staff[tasks[t].to].role # "owner"
  /\ staff' = [staff EXCEPT ![tasks[t].to].role = "admin"]
  /\ Finish(t) /\ UNCHANGED <<owner, policy, setup>>

\* revoke_administrator.
Dismiss(t) ==
  /\ tasks[t].op = "dismiss" /\ staff[tasks[t].to].role = "admin"
  /\ staff' = [staff EXCEPT ![tasks[t].to].role = "none"]
  /\ Finish(t) /\ UNCHANGED <<owner, policy, setup>>

OtherAdministrators(u) == {v \in Staff \ {u} : Administrator(v)}

\* Mutant: whoever is not alone can be disabled.
AnyoneDisabled(by, to) == by = to => OtherAdministrators(to) # {}

\* authorize_user_disable: never the owner, and never oneself when nobody
\* else is left.
MayDisable(by, to) ==
  /\ staff[to].role # "owner"
  /\ by = to => OtherAdministrators(to) # {}

\* set_user_disabled.
SetStaffDisabled(t) ==
  /\ \/ /\ tasks[t].op = "disable" /\ staff[tasks[t].to] # Unknown
        /\ MayDisable(tasks[t].by, tasks[t].to)
        /\ staff' = [staff EXCEPT ![tasks[t].to].account = "disabled"]
     \/ /\ tasks[t].op = "enable" /\ staff[tasks[t].to] # Unknown
        /\ staff' = [staff EXCEPT ![tasks[t].to].account = "enabled"]
  /\ Finish(t) /\ UNCHANGED <<owner, policy, setup>>

\* update_organization_creation_policy.
SetPolicy(t, next) ==
  /\ tasks[t].op = "policy" /\ owner = tasks[t].by
  /\ policy' = next
  /\ Finish(t) /\ UNCHANGED <<staff, owner, setup>>

\* complete_setup under the lock of the settings: the mode asked for, which
\* InstanceAdministration chooses, decides whether the setup is complete
\* (ready) or open, and opens one that was complete; a refresh of the
\* account keeps the policy (refresh_connect).
CompleteSetup(t, next, ready) ==
  /\ tasks[t].op = "setup" /\ owner = tasks[t].by
  /\ policy' = next /\ setup' = ready
  /\ Finish(t) /\ UNCHANGED <<staff, owner>>

\* authorize_organization_creation.
MayCreateOrganization(u, member) ==
  /\ setup = 1
  /\ \/ policy = "authenticated" \/ staff[u].role # "none"
     \/ policy = "invitation_only" /\ member

\* A refusal, an error or the end of the process.
TaskEnds(t) == tasks[t] # NoTask /\ Finish(t) /\ UNCHANGED <<staff, owner, policy, setup>>

AdministratorsNext ==
  \/ \E t \in Tasks :
       \/ \E by, to \in Staff :
            \/ AskGrant(t, by, to) \/ AskDismiss(t, by, to)
            \/ AskDisable(t, by, to) \/ AskEnable(t, by, to)
       \/ \E u \in Staff : Bootstrap(t, u) \/ AskPolicy(t, u) \/ AskSetup(t, u)
       \/ InsertFirst(t) \/ Grant(t) \/ Dismiss(t) \/ SetStaffDisabled(t) \/ TaskEnds(t)
       \/ \E next \in {"owner_only", "invitation_only", "authenticated"} :
            SetPolicy(t, next) \/ \E ready \in {0, 1} : CompleteSetup(t, next, ready)
  \/ \E u \in Staff : JoinStaff(u)

AdministratorsSpec == AdministratorsInit /\ [][AdministratorsNext]_staffVars

AdministratorsTypeOK ==
  /\ staff \in [Staff -> [role : {"none", "admin", "owner"}, account : {"none", "enabled", "disabled"}]]
  /\ owner \in Staff \cup {NoStaff}
  /\ policy \in {"owner_only", "invitation_only", "authenticated"} /\ setup \in {0, 1}
  /\ tasks \in [Tasks -> [op : {"none", "bootstrap", "grant", "dismiss", "disable", "enable", "policy", "setup"},
                          by : Staff \cup {NoStaff}, to : Staff \cup {NoStaff}]]

\* After the first bootstrap the instance always has one owner, the one its
\* settings name, who can act: bootstraps race, administrators disable each
\* other and themselves on roles read earlier, and nobody locks the instance
\* out. The setup is complete only under an owner, who may then create
\* organizations whatever the policy is.
OwnerPresides ==
  /\ {u \in Staff : staff[u].role = "owner"} = {owner} \ {NoStaff}
  /\ owner # NoStaff => Owner(owner)
  /\ setup = 1 => owner # NoStaff /\ MayCreateOrganization(owner, FALSE)

\* However the members of an organization and the administrators of the
\* instance change each other's roles, each keeps an owner, only owners make
\* owners, and an invitation makes one member (update_member, remove_member,
\* accept_invitation, set_user_disabled).
OwnershipHolds ==
  /\ [](OrganizationsTypeOK /\ AdministratorsTypeOK /\ OwnerRemains /\ InvitationsOnce /\ OwnerPresides)
  /\ OwnersMakeOwners
=============================================================================
