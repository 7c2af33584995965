---------------------------- MODULE ControlProofs ----------------------------
(***************************************************************************)
(* Theorems about the control plane, for any number of people, requests,   *)
(* invitations, accounts and events: organizations and the instance keep   *)
(* an owner and only owners make owners, the instance's billing is set up  *)
(* in one piece, and an organization's row follows the newest event. So do *)
(* the memberships a project sells, and the entitlements follow them.      *)
(* Projects stay within the allowance, and one that is answered was        *)
(* provisioned.                                                            *)
(***************************************************************************)
EXTENDS Organizations, ProjectProvisioning, PlatformBilling, CommerceMemberships, FiniteSetTheorems, TLAPS

-----------------------------------------------------------------------------
(* Organizations. The inductive invariant.                                   *)

CallRow ==
  [op : {"none", "add", "change", "invite", "accept"},
   step : {"none", "audited", "locked", "allowed", "enqueue", "join"},
   actor : People \cup {Nobody}, target : People \cup {Nobody},
   role : Roles \cup {"none"}, seen : Roles \cup {"none"}, row : Invites \cup {Nobody}]

InviteRow ==
  [status : {"none", "pending", "expired", "accepted", "revoked"},
   to : People \cup {Nobody}, role : Roles \cup {"none"}, sent : {0, 1}, vouched : {0, 1}]

\* A request has the fields its next step relies on.
CallShaped(call) ==
  /\ call.op = "none" => call.step = "none"
  /\ call.op = "accept" => call.step = "join" /\ call.row \in Invites
  /\ call.op \in {"add", "change", "invite"} =>
       call.step # "none" /\ call.actor \in People /\ call.target \in People
  /\ call.op \in {"add", "invite"} => call.role \in Roles
  /\ call.step = "allowed" => call.op = "change"
  /\ call.step = "enqueue" => call.op = "invite" /\ call.row \in Invites

InTransaction(call) == call.step \in {"locked", "allowed"}

\* Whoever is in a transaction holds the organization's row; until it ends the
\* organization, the actor's role and what was checked of the target stay.
TransactionFits(c, call) ==
  InTransaction(call) =>
    /\ orgLock = c /\ org # "none" /\ call.op # "accept"
    /\ call.seen = members[call.actor]
    /\ call.step = "allowed" => /\ members[call.target] # "none"
                                /\ TransitionAllowed(call.seen, members[call.target], call.role, Cardinality(Owners))

LockKeeps == \A c \in Calls : TransactionFits(c, calls[c])

\* An acceptance holds a pending invitation for itself.
HeldPending ==
  \A c \in Calls : calls[c].op = "accept" =>
    /\ invites[calls[c].row].status = "pending"
    /\ \A d \in Calls : calls[d].op = "accept" /\ calls[d].row = calls[c].row => d = c

\* A written invitation names an address, a role and, for an owner, an owner.
InvitesShaped ==
  \A i \in Invites :
    /\ invites[i].status # "none" => invites[i].to \in People /\ invites[i].role \in Roles
    /\ invites[i].role = "owner" => invites[i].vouched = 1
    /\ invites[i].status = "accepted" => invites[i].to \in accounts

MembersHaveAccounts == \A p \in People : members[p] # "none" => p \in accounts

OrganizationsInvariant ==
  /\ OrganizationsTypeOK /\ \A c \in Calls : CallShaped(calls[c])
  /\ LockKeeps /\ HeldPending /\ InvitesShaped /\ MembersHaveAccounts
  /\ OwnerRemains /\ InvitationsOnce /\ Founder \in accounts

-----------------------------------------------------------------------------
(* Administrators.                                                           *)

TaskShaped(task) == task.op # "none" => task.by \in Staff /\ task.to \in Staff

AdministratorsInvariant ==
  AdministratorsTypeOK /\ (\A t \in Tasks : TaskShaped(tasks[t])) /\ OwnerPresides

-----------------------------------------------------------------------------
(* The instance's billing.                                                   *)

Accounts == StripeAccounts \cup {NoAccount}

AdminRow ==
  [op : {"none", "setup", "refresh", "refreshed", "reload", "activate", "plan"},
   mode : {"none", "unconfigured", "private"} \cup Paid, id : Accounts,
   status : {"none", "pending", "enabled", "active", "retired"}, saw : Accounts,
   price : 0..MaxPrice, late : {0, 1}]

\* The mode decides what is stored beside it.
ModeFits ==
  /\ inst.mode = "byo" => acct.mode = "byo" /\ acct.id = secrets.byo /\ catalog.of = secrets.byo
  /\ inst.mode = "connect" => acct.mode = "connect" /\ acct.id # NoAccount
  /\ inst.mode \notin Paid => catalog.of = NoAccount

\* What a request knows that no commit has overtaken.
RefreshFits(r) ==
  r.op \in {"refresh", "refreshed"} => r.mode = inst.mode /\ r.id = acct.id
PlanFits(r) ==
  r.op = "plan" /\ r.status = "active" /\ catalog.of # NoAccount => r.price = catalog.price

\* A setup holds the settings row, and the account of a tenant it saw is bound.
SetupFits(s, r) ==
  r.op = "setup" =>
    /\ setupLock = s
    /\ r.saw # NoAccount => inst.mode = r.mode /\ acct.mode = r.mode /\ acct.id # NoAccount

AdminShaped(r) ==
  /\ r.op = "refreshed" => r.status \in {"pending", "enabled"}
  /\ r.op \in {"refresh", "refreshed"} => r.mode \in Paid
  /\ r.op = "none" => r = Idle

InstanceInvariant ==
  /\ InstanceTypeOK /\ admins \in [Operators -> AdminRow]
  /\ \A s \in Operators : AdminShaped(admins[s]) /\ SetupFits(s, admins[s])
  /\ raced = 0 => ModeFits
  /\ \A s \in Operators : raced = 0 /\ admins[s].late = 0 => RefreshFits(admins[s]) /\ PlanFits(admins[s])
  /\ SetupSound /\ TenantsKeepAccount

-----------------------------------------------------------------------------
(* Organizations' bills.                                                     *)

Event == [kind : {"checkout", "contract", "invoice"}, contract : Contracts, payer : Payers,
          status : Statuses \cup {"open", "paid"}, stamp : Stamps]

\* Events have stamps of their own, and a status of their kind.
EventsFit ==
  /\ \A e, f \in outbound : e.stamp = f.stamp => e = f
  /\ \A e \in outbound : /\ e.stamp.id > 0
                         /\ e.kind = "invoice" <=> e.status \in {"open", "paid"}

\* A webhook's transaction is about an event that was sent, and beyond its
\* first step about a subscription.
HooksFit ==
  \A h \in Hooks : hooks[h].step # "none" =>
    \E e \in outbound : e.stamp = hooks[h].event /\ (hooks[h].step \in {"first", "locked"} => e.kind # "invoice")

BillingInvariant ==
  /\ BillingTypeOK /\ EventsFit /\ HooksFit /\ RowFollowsNewest
  /\ \A s \in Contracts : contracts[s].status # "none" => contracts[s].payer \in Payers

-----------------------------------------------------------------------------
(* Organizations: the steps.                                                 *)

\* The rows of the tables, one at a time.
LEMMA OrganizationParts ==
  ASSUME OrganizationsInvariant
  PROVE  /\ calls \in [Calls -> CallRow] /\ invites \in [Invites -> InviteRow]
         /\ members \in [People -> Roles \cup {"none"}] /\ accounts \subseteq People
         /\ org \in {"none", "active", "disabled"} /\ orgLock \in Calls \cup {Nobody}
         /\ \A c \in Calls : CallShaped(calls[c])
         /\ LockKeeps /\ HeldPending /\ InvitesShaped /\ MembersHaveAccounts
         /\ OwnerRemains /\ InvitationsOnce /\ Founder \in accounts
BY DEF OrganizationsInvariant, OrganizationsTypeOK, CallRow, InviteRow

\* Only one request is in a transaction.
LEMMA OneTransaction ==
  ASSUME OrganizationsInvariant, NEW c \in Calls, InTransaction(calls[c]),
         NEW d \in Calls, InTransaction(calls[d])
  PROVE  d = c
BY OrganizationParts DEF LockKeeps, TransactionFits

\* An ended request is a row that promises nothing.
LEMMA EndedCall ==
  /\ NoCall \in CallRow /\ CallShaped(NoCall) /\ ~InTransaction(NoCall)
  /\ NoCall.op = "none" /\ NoCall.step = "none"
BY DEF NoCall, CallRow, CallShaped, InTransaction

\* A request that goes on, ends or takes the lock, with no table changed.
LEMMA CallStep ==
  ASSUME OrganizationsInvariant, NEW c \in Calls, NEW new \in CallRow, CallShaped(new),
         calls' = [calls EXCEPT ![c] = new], UNCHANGED <<org, accounts, members, invites>>,
         orgLock' \in Calls \cup {Nobody},
         InTransaction(new) =>
           /\ orgLock' = c /\ org # "none" /\ new.op # "accept" /\ new.seen = members[new.actor]
           /\ new.step = "allowed" => /\ members[new.target] # "none"
                                      /\ TransitionAllowed(new.seen, members[new.target], new.role, Cardinality(Owners)),
         \A d \in Calls : d # c /\ InTransaction(calls[d]) => orgLock' = d,
         new.op = "accept" =>
           /\ invites[new.row].status = "pending"
           /\ \A d \in Calls : d # c => ~(calls[d].op = "accept" /\ calls[d].row = new.row)
  PROVE  OrganizationsInvariant'
<1>0. /\ calls \in [Calls -> CallRow] /\ LockKeeps /\ HeldPending
      /\ \A d \in Calls : CallShaped(calls[d])
  BY OrganizationParts
<1>1. calls' \in [Calls -> CallRow] /\ calls'[c] = new /\ \A d \in Calls : d # c => calls'[d] = calls[d]
  BY <1>0
<1>2. OrganizationsTypeOK'
  BY <1>1 DEF OrganizationsInvariant, OrganizationsTypeOK, CallRow
<1>3. \A d \in Calls : CallShaped(calls[d])'
  BY <1>0, <1>1 DEF CallShaped
<1>4. Cardinality(Owners)' = Cardinality(Owners)
  BY DEF Owners
<1>5. LockKeeps'
  <2> SUFFICES ASSUME NEW d \in Calls, InTransaction(calls'[d])
               PROVE  TransactionFits(d, calls[d])'
    BY DEF LockKeeps, TransactionFits, InTransaction
  <2>1. CASE d = c
    BY <1>1, <1>4, <2>1 DEF TransactionFits, TransitionAllowed, InTransaction
  <2>2. CASE d # c
    <3>1. TransactionFits(d, calls[d]) /\ InTransaction(calls[d]) /\ calls'[d] = calls[d] /\ orgLock' = d
      BY <1>0, <1>1, <2>2 DEF LockKeeps
    <3> QED
      BY <1>4, <3>1 DEF TransactionFits, TransitionAllowed, InTransaction
  <2> QED
    BY <2>1, <2>2
<1>6. HeldPending'
  <2> SUFFICES ASSUME NEW d \in Calls, calls'[d].op = "accept"
               PROVE  /\ invites[calls'[d].row].status = "pending"
                      /\ \A e \in Calls : calls'[e].op = "accept" /\ calls'[e].row = calls'[d].row => e = d
    BY DEF HeldPending
  <2>1. CASE d = c
    BY <1>1, <2>1
  <2>2. CASE d # c
    BY <1>0, <1>1, <2>2 DEF HeldPending
  <2> QED
    BY <2>1, <2>2
<1>7. InvitesShaped' /\ MembersHaveAccounts' /\ OwnerRemains' /\ InvitationsOnce' /\ (Founder \in accounts)'
  BY DEF OrganizationsInvariant, InvitesShaped, MembersHaveAccounts, OwnerRemains, Owners, InvitationsOnce, Open
<1> QED
  BY <1>2, <1>3, <1>5, <1>6, <1>7 DEF OrganizationsInvariant

\* A request is authorized and audited.
LEMMA StartStep ==
  ASSUME OrganizationsInvariant, NEW c \in Calls, NEW op \in {"add", "change", "invite"}, NEW p \in People,
         NEW target \in People, NEW role \in Roles \cup {"none"}, role = "none" => op = "change",
         Start(c, op, p, target, role)
  PROVE  OrganizationsInvariant'
<1>0. calls \in [Calls -> CallRow] /\ members \in [People -> Roles \cup {"none"}] /\ LockKeeps
  BY OrganizationParts
<1>1. PICK new : new = [NoCall EXCEPT !.op = op, !.step = "audited", !.actor = p, !.target = target,
                                      !.role = role, !.seen = members[p]]
  OBVIOUS
<1>2. new = [op |-> op, step |-> "audited", actor |-> p, target |-> target, role |-> role,
             seen |-> members[p], row |-> Nobody]
  BY <1>1 DEF NoCall
<1>3. new \in CallRow /\ CallShaped(new) /\ ~InTransaction(new) /\ new.op # "accept"
  BY <1>0, <1>2 DEF CallRow, CallShaped, InTransaction
<1>4. calls' = [calls EXCEPT ![c] = new] /\ UNCHANGED <<org, accounts, members, invites, orgLock>>
  BY <1>1 DEF Start
<1>5. orgLock \in Calls \cup {Nobody} /\ \A d \in Calls : InTransaction(calls[d]) => orgLock = d
  BY <1>0, OrganizationParts DEF LockKeeps, TransactionFits
<1> QED
  BY <1>3, <1>4, <1>5, CallStep

\* The organization is locked and the actor's role read again.
LEMMA LockStep ==
  ASSUME OrganizationsInvariant, NEW c \in Calls, LockOrganization(c)
  PROVE  OrganizationsInvariant'
<1>0. /\ calls \in [Calls -> CallRow] /\ members \in [People -> Roles \cup {"none"}] /\ LockKeeps
      /\ CallShaped(calls[c])
  BY OrganizationParts
<1>1. PICK old \in CallRow : old = calls[c]
  BY <1>0
<1>2. /\ old.step = "audited" /\ old.op # "accept" /\ orgLock = Nobody /\ org = "active" /\ orgLock' = c
      /\ UNCHANGED <<org, accounts, members, invites>>
  BY <1>1 DEF LockOrganization, Authorized
<1>3. old.actor \in People /\ members[old.actor] \in Roles \cup {"none"}
  BY <1>0, <1>1, <1>2 DEF CallShaped, CallRow
<1>4. PICK new : new = [old EXCEPT !.step = "locked", !.seen = members[old.actor]]
  OBVIOUS
<1>5. calls' = [calls EXCEPT ![c] = new]
  BY <1>0, <1>1, <1>4 DEF LockOrganization
<1>6. /\ new \in CallRow /\ new.step = "locked" /\ new.op = old.op /\ new.actor = old.actor
      /\ new.target = old.target /\ new.role = old.role /\ new.seen = members[old.actor]
  BY <1>3, <1>4 DEF CallRow
<1>7. CallShaped(new)
  BY <1>0, <1>1, <1>2, <1>6 DEF CallShaped
<1>8. \A d \in Calls : ~InTransaction(calls[d])
  BY <1>0, <1>2, OrganizationsAssumption DEF LockKeeps, TransactionFits
<1> QED
  BY <1>2, <1>5, <1>6, <1>7, <1>8, CallStep

\* The target of a change is counted and checked.
LEMMA CheckStep ==
  ASSUME OrganizationsInvariant, NEW c \in Calls, CheckChange(c)
  PROVE  OrganizationsInvariant'
<1>0. /\ calls \in [Calls -> CallRow] /\ LockKeeps /\ CallShaped(calls[c])
  BY OrganizationParts
<1>1. PICK old \in CallRow : old = calls[c]
  BY <1>0
<1>2. /\ old.step = "locked" /\ old.op = "change" /\ members[old.target] # "none"
      /\ TransitionAllowed(old.seen, members[old.target], old.role, Cardinality(Owners))
      /\ UNCHANGED <<org, accounts, members, invites, orgLock>>
  BY <1>1 DEF CheckChange, InLock
<1>3. PICK new : new = [old EXCEPT !.step = "allowed"]
  OBVIOUS
<1>4. calls' = [calls EXCEPT ![c] = new]
  BY <1>0, <1>1, <1>3 DEF CheckChange
<1>5. /\ new \in CallRow /\ new.step = "allowed" /\ new.op = old.op /\ new.actor = old.actor
      /\ new.target = old.target /\ new.role = old.role /\ new.seen = old.seen
  BY <1>3 DEF CallRow
<1>6. CallShaped(new)
  BY <1>0, <1>1, <1>2, <1>5 DEF CallShaped
<1>7. /\ orgLock = c /\ org # "none" /\ old.seen = members[old.actor]
      /\ \A d \in Calls : InTransaction(calls[d]) => orgLock = d
  BY <1>0, <1>1, <1>2 DEF LockKeeps, TransactionFits, InTransaction
<1>8. TransitionAllowed(new.seen, members[new.target], new.role, Cardinality(Owners)) /\ members[new.target] # "none"
  BY <1>2, <1>5
<1> QED
  BY <1>2, <1>4, <1>5, <1>6, <1>7, <1>8, CallStep

\* A request ends, and its transaction with it.
LEMMA StopStep ==
  ASSUME OrganizationsInvariant, NEW c \in Calls, CallStops(c)
  PROVE  OrganizationsInvariant'
<1>1. calls' = [calls EXCEPT ![c] = NoCall] /\ UNCHANGED <<org, accounts, members, invites>>
  BY DEF CallStops, End
<1>2. orgLock' \in Calls \cup {Nobody} /\ \A d \in Calls : d # c /\ InTransaction(calls[d]) => orgLock' = d
  BY OrganizationParts DEF CallStops, Unlock, LockKeeps, TransactionFits
<1>3. NoCall.op # "accept"
  BY EndedCall
<1> QED
  BY <1>1, <1>2, <1>3, EndedCall, CallStep

\* An invitation is locked by its acceptance.
LEMMA AcceptStep ==
  ASSUME OrganizationsInvariant, NEW c \in Calls, NEW i \in Invites, AcceptInvitation(c, i)
  PROVE  OrganizationsInvariant'
<1>1. PICK new : new = [NoCall EXCEPT !.op = "accept", !.step = "join", !.row = i]
  OBVIOUS
<1>2. new = [op |-> "accept", step |-> "join", actor |-> Nobody, target |-> Nobody, role |-> "none",
             seen |-> "none", row |-> i]
  BY <1>1 DEF NoCall
<1>3. new \in CallRow /\ CallShaped(new) /\ ~InTransaction(new) /\ new.row = i
  BY <1>2 DEF CallRow, CallShaped, InTransaction
<1>4. /\ calls' = [calls EXCEPT ![c] = new] /\ UNCHANGED <<org, accounts, members, invites, orgLock>>
      /\ invites[i].status = "pending" /\ \A d \in Calls : ~(calls[d].op = "accept" /\ calls[d].row = i)
  BY <1>1 DEF AcceptInvitation, RowHeld
<1>5. orgLock \in Calls \cup {Nobody} /\ \A d \in Calls : InTransaction(calls[d]) => orgLock = d
  BY OrganizationParts DEF LockKeeps, TransactionFits
<1> QED
  BY <1>3, <1>4, <1>5, CallStep

\* Members change while, afterwards, nobody is in a transaction.
LEMMA MembersStep ==
  ASSUME OrganizationsInvariant, calls' \in [Calls -> CallRow],
         \A d \in Calls : calls'[d] = calls[d] \/ calls'[d] = NoCall,
         \A d \in Calls : ~InTransaction(calls'[d]),
         NEW t \in People, NEW r \in Roles \cup {"none"}, members' = [members EXCEPT ![t] = r],
         t \in accounts, org' \in {"none", "active", "disabled"}, orgLock' \in Calls \cup {Nobody},
         UNCHANGED <<accounts, invites>>,
         org' # "none" => \E p \in People : members'[p] = "owner"
  PROVE  OrganizationsInvariant'
<1>0. /\ members \in [People -> Roles \cup {"none"}] /\ HeldPending /\ MembersHaveAccounts
      /\ \A d \in Calls : CallShaped(calls[d])
  BY OrganizationParts
<1>1. OrganizationsTypeOK'
  BY <1>0 DEF OrganizationsInvariant, OrganizationsTypeOK, CallRow
<1>2. \A d \in Calls : CallShaped(calls[d])'
  <2>1. \A d \in Calls : CallShaped(calls'[d])
    BY <1>0, EndedCall
  <2> QED
    BY <2>1 DEF CallShaped
<1>3. LockKeeps'
  BY DEF LockKeeps, TransactionFits, InTransaction
<1>4. HeldPending'
  BY <1>0, EndedCall DEF HeldPending
<1>5. MembersHaveAccounts' /\ OwnerRemains'
  BY <1>0 DEF MembersHaveAccounts, OwnerRemains, Owners
<1>6. InvitesShaped' /\ InvitationsOnce' /\ (Founder \in accounts)'
  BY DEF OrganizationsInvariant, InvitesShaped, InvitationsOnce, Open
<1> QED
  BY <1>1, <1>2, <1>3, <1>4, <1>5, <1>6 DEF OrganizationsInvariant

\* The organization is created with its owner.
LEMMA CreateStep ==
  ASSUME OrganizationsInvariant, NEW p \in People, CreateOrganization(p)
  PROVE  OrganizationsInvariant'
<1>0. /\ calls \in [Calls -> CallRow] /\ members \in [People -> Roles \cup {"none"}] /\ LockKeeps
      /\ Founder \in accounts /\ orgLock \in Calls \cup {Nobody}
  BY OrganizationParts
<1>1. /\ org = "none" /\ p = Founder /\ org' = "active" /\ members' = [members EXCEPT ![p] = "owner"]
      /\ UNCHANGED <<accounts, invites, calls, orgLock>>
  BY DEF CreateOrganization
<1>2. \A d \in Calls : ~InTransaction(calls'[d])
  BY <1>0, <1>1 DEF LockKeeps, TransactionFits
<1>3. "owner" \in Roles \cup {"none"} /\ members'[p] = "owner"
  BY <1>0, <1>1 DEF Roles
<1> QED
  BY <1>0, <1>1, <1>2, <1>3, MembersStep

\* What the end of a transaction leaves of the requests.
LEMMA TransactionEnds ==
  ASSUME OrganizationsInvariant, NEW c \in Calls, InTransaction(calls[c]), End(c), Unlock(c)
  PROVE  /\ calls' \in [Calls -> CallRow] /\ calls'[c] = NoCall
         /\ \A d \in Calls : calls'[d] = calls[d] \/ calls'[d] = NoCall
         /\ \A d \in Calls : ~InTransaction(calls'[d])
         /\ orgLock' \in Calls \cup {Nobody} /\ org # "none"
<1>0. calls \in [Calls -> CallRow] /\ LockKeeps
  BY OrganizationParts
<1>1. /\ calls' \in [Calls -> CallRow] /\ calls'[c] = NoCall
      /\ \A d \in Calls : d # c => calls'[d] = calls[d]
  BY <1>0, EndedCall DEF End
<1>2. \A d \in Calls : ~InTransaction(calls'[d])
  BY <1>1, OneTransaction, EndedCall
<1>3. orgLock' \in Calls \cup {Nobody} /\ org # "none"
  BY <1>0 DEF Unlock, LockKeeps, TransactionFits
<1> QED
  BY <1>1, <1>2, <1>3

\* A member is added.
LEMMA AddStep ==
  ASSUME OrganizationsInvariant, NEW c \in Calls, CommitAdd(c)
  PROVE  /\ OrganizationsInvariant'
         /\ \A p \in People : members[p] # "owner" /\ members'[p] = "owner" =>
              calls[c].target = p /\ calls'[c] = NoCall /\ members[calls[c].actor] = "owner"
<1>0. /\ members \in [People -> Roles \cup {"none"}] /\ LockKeeps /\ CallShaped(calls[c]) /\ OwnerRemains
      /\ org \in {"none", "active", "disabled"} /\ calls[c] \in CallRow
  BY OrganizationParts
<1>1. PICK t, r : t = calls[c].target /\ r = calls[c].role
  OBVIOUS
<1>2. /\ InTransaction(calls[c]) /\ t \in accounts /\ members[t] = "none" /\ End(c) /\ Unlock(c)
      /\ members' = [members EXCEPT ![t] = r] /\ UNCHANGED <<org, accounts, invites>>
      /\ (r = "owner" => calls[c].seen = "owner") /\ calls[c].op = "add"
  BY <1>1 DEF CommitAdd, InLock, InTransaction
<1>3. t \in People /\ r \in Roles \cup {"none"}
  BY <1>0, <1>1, <1>2 DEF CallShaped
<1>4. /\ calls' \in [Calls -> CallRow] /\ calls'[c] = NoCall
      /\ \A d \in Calls : calls'[d] = calls[d] \/ calls'[d] = NoCall
      /\ \A d \in Calls : ~InTransaction(calls'[d])
      /\ orgLock' \in Calls \cup {Nobody} /\ org # "none"
  BY <1>2, TransactionEnds
<1>5. \E p \in People : members'[p] = "owner"
  BY <1>0, <1>2, <1>3, <1>4 DEF OwnerRemains, Owners
<1>6. OrganizationsInvariant'
  BY <1>0, <1>2, <1>3, <1>4, <1>5, MembersStep
<1>7. calls[c].seen = members[calls[c].actor]
  BY <1>0, <1>2 DEF LockKeeps, TransactionFits
<1> QED
  BY <1>0, <1>1, <1>2, <1>3, <1>4, <1>6, <1>7

\* A member is changed or removed, and another owner is there.
LEMMA ChangeStep ==
  ASSUME OrganizationsInvariant, NEW c \in Calls, CommitChange(c)
  PROVE  /\ OrganizationsInvariant'
         /\ \A p \in People : members[p] # "owner" /\ members'[p] = "owner" =>
              calls[c].target = p /\ calls'[c] = NoCall /\ members[calls[c].actor] = "owner"
<1>0. /\ members \in [People -> Roles \cup {"none"}] /\ LockKeeps /\ CallShaped(calls[c]) /\ OwnerRemains
      /\ org \in {"none", "active", "disabled"} /\ calls[c] \in CallRow /\ MembersHaveAccounts
  BY OrganizationParts
<1>1. PICK t, r : t = calls[c].target /\ r = calls[c].role
  OBVIOUS
<1>2. /\ InTransaction(calls[c]) /\ End(c) /\ Unlock(c) /\ calls[c].step = "allowed" /\ calls[c].op = "change"
      /\ members' = [members EXCEPT ![t] = r] /\ UNCHANGED <<org, accounts, invites>>
  BY <1>1 DEF CommitChange, InTransaction
<1>3. t \in People /\ r \in Roles \cup {"none"}
  BY <1>0, <1>1, <1>2 DEF CallShaped, CallRow
<1>4. /\ calls' \in [Calls -> CallRow] /\ calls'[c] = NoCall
      /\ \A d \in Calls : calls'[d] = calls[d] \/ calls'[d] = NoCall
      /\ \A d \in Calls : ~InTransaction(calls'[d])
      /\ orgLock' \in Calls \cup {Nobody} /\ org # "none"
  BY <1>2, TransactionEnds
<1>5. /\ members[t] # "none" /\ calls[c].seen = members[calls[c].actor]
      /\ TransitionAllowed(calls[c].seen, members[t], r, Cardinality(Owners))
  BY <1>0, <1>1, <1>2 DEF LockKeeps, TransactionFits
<1>6. \E p \in People : members'[p] = "owner"
  <2>1. CASE r = "owner"
    BY <1>0, <1>2, <1>3, <2>1
  <2>2. CASE r # "owner" /\ members[t] # "owner"
    BY <1>0, <1>2, <1>3, <1>4, <2>2 DEF OwnerRemains, Owners
  <2>3. CASE r # "owner" /\ members[t] = "owner"
    <3>1. Cardinality(Owners) > 1
      BY <1>5, <2>3 DEF TransitionAllowed
    <3>2. Owners # {t}
      <4>1. Cardinality({t}) = 1
        BY FS_Singleton
      <4> QED
        BY <3>1, <4>1
    <3>3. PICK q \in Owners : q # t
      BY <1>3, <2>3, <3>2 DEF Owners
    <3> QED
      BY <1>0, <1>2, <1>3, <3>3 DEF Owners
  <2> QED
    BY <2>1, <2>2, <2>3
<1>7. t \in accounts
  BY <1>0, <1>3, <1>5 DEF MembersHaveAccounts
<1>8. OrganizationsInvariant'
  BY <1>0, <1>2, <1>3, <1>4, <1>6, <1>7, MembersStep
<1>9. r = "owner" => calls[c].seen = "owner"
  BY <1>5 DEF TransitionAllowed
<1> QED
  BY <1>0, <1>1, <1>2, <1>3, <1>4, <1>5, <1>8, <1>9


\* One invitation is sent, expires or is revoked; the others stay.
LEMMA InviteStep ==
  ASSUME OrganizationsInvariant, NEW i \in Invites, NEW new \in InviteRow,
         invites' = [invites EXCEPT ![i] = new], UNCHANGED <<org, accounts, members, orgLock>>,
         calls' \in [Calls -> CallRow], \A d \in Calls : calls'[d] = calls[d] \/ calls'[d] = NoCall,
         new.to = invites[i].to, new.role = invites[i].role, new.vouched = invites[i].vouched,
         \/ new.status = invites[i].status
         \/ /\ Open(i) /\ new.status \in {"expired", "revoked"}
            /\ \A d \in Calls : ~(calls[d].op = "accept" /\ calls[d].row = i)
  PROVE  OrganizationsInvariant'
<1>0. /\ calls \in [Calls -> CallRow] /\ invites \in [Invites -> InviteRow] /\ LockKeeps /\ HeldPending
      /\ \A d \in Calls : CallShaped(calls[d])
  BY OrganizationParts
<1>1. /\ invites' \in [Invites -> InviteRow] /\ invites'[i] = new
      /\ \A j \in Invites : j # i => invites'[j] = invites[j]
  BY <1>0
<1>2. OrganizationsTypeOK'
  BY <1>1 DEF OrganizationsInvariant, OrganizationsTypeOK, CallRow, InviteRow
<1>3. \A d \in Calls : CallShaped(calls[d])'
  <2>1. \A d \in Calls : CallShaped(calls'[d])
    BY <1>0, EndedCall
  <2> QED
    BY <2>1 DEF CallShaped
<1>4. LockKeeps'
  <2> SUFFICES ASSUME NEW d \in Calls, InTransaction(calls'[d])
               PROVE  TransactionFits(d, calls[d])'
    BY DEF LockKeeps, TransactionFits, InTransaction
  <2>1. calls'[d] = calls[d] /\ TransactionFits(d, calls[d]) /\ Cardinality(Owners)' = Cardinality(Owners)
    BY <1>0, EndedCall DEF LockKeeps, Owners
  <2> QED
    BY <2>1 DEF TransactionFits, TransitionAllowed, InTransaction
<1>5. HeldPending'
  <2> SUFFICES ASSUME NEW d \in Calls, calls'[d].op = "accept"
               PROVE  /\ invites'[calls'[d].row].status = "pending"
                      /\ \A e \in Calls : calls'[e].op = "accept" /\ calls'[e].row = calls'[d].row => e = d
    BY DEF HeldPending
  <2>1. calls'[d] = calls[d] /\ calls[d].row \in Invites
    BY <1>0, EndedCall DEF CallShaped
  <2>2. \A e \in Calls : calls'[e].op = "accept" => calls'[e] = calls[e]
    BY EndedCall
  <2> QED
    BY <1>0, <1>1, <2>1, <2>2 DEF HeldPending
<1>6. InvitesShaped'
  BY <1>1 DEF OrganizationsInvariant, InvitesShaped, Open
<1>7. InvitationsOnce'
  <2>1. \A j \in Invites : /\ invites'[j].to = invites[j].to /\ (Open(j)' => Open(j))
                           /\ (invites'[j].status = "accepted" => invites[j].status = "accepted")
    BY <1>1 DEF Open
  <2>2. \A j \in Invites : Open(j) \/ invites[j].status = "accepted" => invites[j] # NoInvite
    BY DEF Open, NoInvite
  <2> QED
    BY <2>1, <2>2 DEF OrganizationsInvariant, InvitationsOnce
<1>8. MembersHaveAccounts' /\ OwnerRemains' /\ (Founder \in accounts)'
  BY DEF OrganizationsInvariant, MembersHaveAccounts, OwnerRemains, Owners
<1> QED
  BY <1>2, <1>3, <1>4, <1>5, <1>6, <1>7, <1>8 DEF OrganizationsInvariant

\* An invitation expires.
LEMMA ExpireStep ==
  ASSUME OrganizationsInvariant, NEW i \in Invites, Expire(i)
  PROVE  OrganizationsInvariant'
<1>0. calls \in [Calls -> CallRow] /\ invites \in [Invites -> InviteRow]
  BY OrganizationParts
<1>1. PICK old \in InviteRow : old = invites[i]
  BY <1>0
<1>2. PICK new : new = [old EXCEPT !.status = "expired"]
  OBVIOUS
<1>3. /\ new \in InviteRow /\ new.to = old.to /\ new.role = old.role /\ new.vouched = old.vouched
      /\ new.status = "expired"
  BY <1>2 DEF InviteRow
<1>4. invites' = [invites EXCEPT ![i] = new]
  BY <1>0, <1>1, <1>2 DEF Expire
<1>5. /\ Open(i) /\ \A d \in Calls : ~(calls[d].op = "accept" /\ calls[d].row = i)
      /\ UNCHANGED <<org, accounts, members, orgLock, calls>>
  BY DEF Expire, RowHeld, Open
<1> QED
  BY <1>0, <1>1, <1>3, <1>4, <1>5, InviteStep

\* The invitation's message is queued, or the invitation is revoked.
LEMMA EnqueueStep ==
  ASSUME OrganizationsInvariant, NEW c \in Calls, EnqueueInvitation(c)
  PROVE  OrganizationsInvariant'
<1>0. calls \in [Calls -> CallRow] /\ invites \in [Invites -> InviteRow] /\ CallShaped(calls[c])
  BY OrganizationParts
<1>1. PICK i : i = calls[c].row
  OBVIOUS
<1>2. i \in Invites
  BY <1>0, <1>1 DEF EnqueueInvitation, CallShaped
<1>3. PICK old \in InviteRow : old = invites[i]
  BY <1>0, <1>2
<1>4. /\ calls' \in [Calls -> CallRow] /\ \A d \in Calls : calls'[d] = calls[d] \/ calls'[d] = NoCall
      /\ UNCHANGED <<org, accounts, members, orgLock>>
  BY <1>0, EndedCall DEF EnqueueInvitation, End
<1>5. CASE invites' = [invites EXCEPT ![calls[c].row].sent = 1]
  <2>1. PICK new : new = [old EXCEPT !.sent = 1]
    OBVIOUS
  <2>2. /\ new \in InviteRow /\ new.to = old.to /\ new.role = old.role /\ new.vouched = old.vouched
        /\ new.status = old.status
    BY <2>1 DEF InviteRow
  <2>3. invites' = [invites EXCEPT ![i] = new]
    BY <1>0, <1>1, <1>3, <1>5, <2>1
  <2> QED
    BY <1>2, <1>3, <1>4, <2>2, <2>3, InviteStep
<1>6. CASE /\ ~RowHeld(calls[c].row)
           /\ invites' = [invites EXCEPT ![calls[c].row].status = IF Open(calls[c].row) THEN "revoked" ELSE @]
  <2>1. PICK st : st = IF Open(i) THEN "revoked" ELSE old.status
    OBVIOUS
  <2>2. PICK new : new = [old EXCEPT !.status = st]
    OBVIOUS
  <2>3. st \in {"none", "pending", "expired", "accepted", "revoked"}
    BY <2>1 DEF InviteRow
  <2>4. /\ new \in InviteRow /\ new.to = old.to /\ new.role = old.role /\ new.vouched = old.vouched
        /\ new.status = st
    BY <2>2, <2>3 DEF InviteRow
  <2>5. invites' = [invites EXCEPT ![i] = new]
    BY <1>0, <1>1, <1>3, <1>6, <2>1, <2>2
  <2>6. \A d \in Calls : ~(calls[d].op = "accept" /\ calls[d].row = i)
    BY <1>1, <1>6 DEF RowHeld
  <2>7. new.status = old.status \/ (Open(i) /\ new.status \in {"expired", "revoked"})
    BY <2>1, <2>4
  <2> QED
    BY <1>2, <1>3, <1>4, <2>4, <2>5, <2>6, <2>7, InviteStep
<1> QED
  BY <1>5, <1>6 DEF EnqueueInvitation

\* An invitation is written and the open ones of its address are revoked.
LEMMA InviteWritten ==
  ASSUME OrganizationsInvariant, NEW c \in Calls, NEW i \in Invites, CommitInvitation(c, i)
  PROVE  OrganizationsInvariant'
<1>0. /\ calls \in [Calls -> CallRow] /\ invites \in [Invites -> InviteRow] /\ LockKeeps /\ HeldPending
      /\ (\A d \in Calls : CallShaped(calls[d])) /\ InvitesShaped /\ InvitationsOnce
  BY OrganizationParts
<1>1. PICK old \in CallRow : old = calls[c]
  BY <1>0
<1>2. /\ old.op = "invite" /\ old.step = "locked" /\ (old.role = "owner" => old.seen = "owner")
      /\ invites[i] = NoInvite
      /\ \A j \in Invites : Open(j) /\ invites[j].to = old.target => ~RowHeld(j)
      /\ UNCHANGED <<org, accounts, members>> /\ Unlock(c)
  BY <1>1 DEF CommitInvitation, InLock
<1>3. old.target \in People /\ old.role \in Roles /\ old.seen = members[old.actor]
  BY <1>0, <1>1, <1>2 DEF CallShaped, LockKeeps, TransactionFits, InTransaction
<1>4. PICK v : v = IF members[old.actor] = "owner" THEN 1 ELSE 0
  OBVIOUS
<1>5. PICK new : new = [status |-> "pending", to |-> old.target, role |-> old.role, sent |-> 0, vouched |-> v]
  OBVIOUS
<1>6. /\ new \in InviteRow /\ new.status = "pending" /\ new.to = old.target /\ new.role = old.role
      /\ new.vouched = v /\ (old.role = "owner" => v = 1)
  BY <1>2, <1>3, <1>4, <1>5 DEF InviteRow
<1>7. invites' = [j \in Invites |->
         IF j = i THEN new
         ELSE IF Open(j) /\ invites[j].to = old.target THEN [invites[j] EXCEPT !.status = "revoked"]
         ELSE invites[j]]
  BY <1>1, <1>4, <1>5 DEF CommitInvitation
<1>8. \A j \in Invites : j # i /\ Open(j) /\ invites[j].to = old.target =>
        /\ invites'[j] \in InviteRow /\ invites'[j].status = "revoked" /\ invites'[j].to = invites[j].to
        /\ invites'[j].role = invites[j].role /\ invites'[j].vouched = invites[j].vouched
  <2> SUFFICES ASSUME NEW j \in Invites, j # i, Open(j), invites[j].to = old.target
               PROVE  /\ invites'[j] \in InviteRow /\ invites'[j].status = "revoked" /\ invites'[j].to = invites[j].to
                      /\ invites'[j].role = invites[j].role /\ invites'[j].vouched = invites[j].vouched
    OBVIOUS
  <2>1. PICK one \in InviteRow : one = invites[j]
    BY <1>0
  <2>2. invites'[j] = [one EXCEPT !.status = "revoked"]
    BY <1>7, <2>1
  <2> QED
    BY <2>1, <2>2 DEF InviteRow
<1>9. \A j \in Invites : j # i /\ ~(Open(j) /\ invites[j].to = old.target) => invites'[j] = invites[j]
  BY <1>7
<1>10. invites'[i] = new /\ invites' \in [Invites -> InviteRow]
  <2>1. \A j \in Invites : invites'[j] \in InviteRow
    BY <1>0, <1>6, <1>7, <1>8, <1>9
  <2> QED
    BY <1>7, <2>1
<1>11. PICK next : next = [old EXCEPT !.step = "enqueue", !.row = i]
  OBVIOUS
<1>12. /\ next \in CallRow /\ next.step = "enqueue" /\ next.row = i /\ next.op = old.op
       /\ next.actor = old.actor /\ next.target = old.target /\ next.role = old.role
  BY <1>11 DEF CallRow
<1>13. calls' = [calls EXCEPT ![c] = next]
  BY <1>0, <1>1, <1>11 DEF CommitInvitation
<1>14. calls' \in [Calls -> CallRow] /\ calls'[c] = next /\ \A d \in Calls : d # c => calls'[d] = calls[d]
  BY <1>0, <1>12, <1>13
<1>15. orgLock' \in Calls \cup {Nobody}
  BY <1>2, OrganizationParts DEF Unlock
<1>16. OrganizationsTypeOK'
  BY <1>2, <1>10, <1>14, <1>15 DEF OrganizationsInvariant, OrganizationsTypeOK, CallRow, InviteRow
<1>17. \A d \in Calls : CallShaped(calls[d])'
  <2>1. CallShaped(next)
    BY <1>0, <1>1, <1>2, <1>12 DEF CallShaped
  <2>2. \A d \in Calls : CallShaped(calls'[d])
    BY <1>0, <1>14, <2>1
  <2> QED
    BY <2>2 DEF CallShaped
<1>18. LockKeeps'
  <2>1. InTransaction(calls[c]) /\ ~InTransaction(next)
    BY <1>1, <1>2, <1>12 DEF InTransaction
  <2>2. \A d \in Calls : ~InTransaction(calls'[d])
    BY <1>14, <2>1, OneTransaction
  <2> QED
    BY <2>2 DEF LockKeeps, TransactionFits, InTransaction
<1>19. HeldPending'
  <2> SUFFICES ASSUME NEW d \in Calls, calls'[d].op = "accept"
               PROVE  /\ invites'[calls'[d].row].status = "pending"
                      /\ \A e \in Calls : calls'[e].op = "accept" /\ calls'[e].row = calls'[d].row => e = d
    BY DEF HeldPending
  <2>1. \A e \in Calls : calls'[e].op = "accept" => calls'[e] = calls[e] /\ e # c
    BY <1>2, <1>12, <1>14
  <2>2. calls[d].row \in Invites /\ invites[calls[d].row].status = "pending" /\ RowHeld(calls[d].row)
    BY <1>0, <2>1 DEF CallShaped, HeldPending, RowHeld
  <2>3. calls[d].row # i
    BY <1>2, <2>2 DEF NoInvite
  <2>4. ~(Open(calls[d].row) /\ invites[calls[d].row].to = old.target)
    BY <1>2, <2>2
  <2>5. invites'[calls[d].row].status = "pending"
    BY <1>9, <2>2, <2>3, <2>4
  <2> QED
    BY <1>0, <2>1, <2>5 DEF HeldPending
<1>20. InvitesShaped'
  <2> SUFFICES ASSUME NEW j \in Invites
               PROVE  /\ invites'[j].status # "none" => invites'[j].to \in People /\ invites'[j].role \in Roles
                      /\ invites'[j].role = "owner" => invites'[j].vouched = 1
                      /\ invites'[j].status = "accepted" => invites'[j].to \in accounts
    BY <1>2 DEF InvitesShaped
  <2>1. CASE j = i
    BY <1>3, <1>6, <1>10, <2>1
  <2>2. CASE j # i /\ Open(j) /\ invites[j].to = old.target
    BY <1>0, <1>8, <2>2 DEF InvitesShaped, Open
  <2>3. CASE j # i /\ ~(Open(j) /\ invites[j].to = old.target)
    BY <1>0, <1>9, <2>3 DEF InvitesShaped
  <2> QED
    BY <2>1, <2>2, <2>3
<1>21. InvitationsOnce'
  <2>1. \A j \in Invites : Open(j)' <=> invites'[j].status \in {"pending", "expired"}
    BY DEF Open
  <2>2. \A j \in Invites : j # i => /\ invites'[j].to = invites[j].to /\ (Open(j)' => Open(j))
                                    /\ (invites'[j].status = "accepted" => invites[j].status = "accepted")
                                    /\ (invites[j].to = old.target => ~Open(j)')
    BY <1>8, <1>9, <2>1 DEF Open
  <2>3. \A j \in Invites : Open(j) \/ invites[j].status = "accepted" => invites[j] # NoInvite
    BY DEF Open, NoInvite
  <2>4. invites'[i].status # "accepted" /\ invites'[i].to = old.target
    BY <1>6, <1>10
  <2> QED
    BY <1>0, <2>2, <2>3, <2>4 DEF InvitationsOnce
<1>22. MembersHaveAccounts' /\ OwnerRemains' /\ (Founder \in accounts)'
  BY <1>2 DEF OrganizationsInvariant, MembersHaveAccounts, OwnerRemains, Owners
<1> QED
  BY <1>16, <1>17, <1>18, <1>19, <1>20, <1>21, <1>22 DEF OrganizationsInvariant

\* An invited person joins, and becomes an owner only if an owner invited.
LEMMA JoinStep ==
  ASSUME OrganizationsInvariant, NEW c \in Calls, Join(c)
  PROVE  /\ OrganizationsInvariant'
         /\ \A p \in People : members[p] # "owner" /\ members'[p] = "owner" =>
              \E i \in Invites : /\ invites[i].to = p /\ invites[i].vouched = 1
                                 /\ invites[i].status # "accepted" /\ invites'[i].status = "accepted"
<1>0. /\ calls \in [Calls -> CallRow] /\ invites \in [Invites -> InviteRow] /\ LockKeeps /\ HeldPending
      /\ (\A d \in Calls : CallShaped(calls[d])) /\ InvitesShaped /\ InvitationsOnce
      /\ members \in [People -> Roles \cup {"none"}] /\ MembersHaveAccounts /\ OwnerRemains
      /\ accounts \subseteq People /\ Founder \in accounts
  BY OrganizationParts
<1>1. PICK i : i = calls[c].row
  OBVIOUS
<1>2. i \in Invites /\ invites[i].status = "pending" /\ calls[c].op = "accept"
  BY <1>0, <1>1 DEF Join, CallShaped, HeldPending
<1>3. PICK old \in InviteRow : old = invites[i]
  BY <1>0, <1>2
<1>4. PICK p, r : p = old.to /\ r = old.role
  OBVIOUS
<1>5. /\ p \in People /\ r \in Roles /\ (r = "owner" => old.vouched = 1)
  BY <1>0, <1>2, <1>3, <1>4 DEF InvitesShaped
<1>6. /\ orgLock = Nobody /\ p \notin accounts /\ accounts' = accounts \cup {p}
      /\ members' = [members EXCEPT ![p] = r] /\ UNCHANGED <<org, orgLock>> /\ End(c)
  BY <1>1, <1>3, <1>4 DEF Join
<1>7. PICK new : new = [old EXCEPT !.status = "accepted"]
  OBVIOUS
<1>8. /\ new \in InviteRow /\ new.to = p /\ new.role = r /\ new.vouched = old.vouched
      /\ new.status = "accepted"
  BY <1>4, <1>7 DEF InviteRow
<1>9. invites' = [invites EXCEPT ![i] = new]
  BY <1>0, <1>1, <1>3, <1>7 DEF Join
<1>10. /\ invites' \in [Invites -> InviteRow] /\ invites'[i] = new
       /\ \A j \in Invites : j # i => invites'[j] = invites[j]
  BY <1>0, <1>2, <1>8, <1>9
<1>11. /\ members' \in [People -> Roles \cup {"none"}] /\ members'[p] = r
       /\ \A q \in People : q # p => members'[q] = members[q]
  BY <1>0, <1>5, <1>6
<1>12. /\ calls' \in [Calls -> CallRow] /\ calls'[c] = NoCall /\ \A d \in Calls : d # c => calls'[d] = calls[d]
  BY <1>0, <1>6, EndedCall DEF End
<1>13. members[p] = "none"
  BY <1>0, <1>5, <1>6 DEF MembersHaveAccounts
<1>14. OrganizationsTypeOK'
  BY <1>5, <1>6, <1>10, <1>11, <1>12 DEF OrganizationsInvariant, OrganizationsTypeOK, CallRow, InviteRow
<1>15. \A d \in Calls : CallShaped(calls[d])'
  <2>1. \A d \in Calls : CallShaped(calls'[d])
    BY <1>0, <1>12, EndedCall
  <2> QED
    BY <2>1 DEF CallShaped
<1>16. LockKeeps'
  <2>1. \A d \in Calls : ~InTransaction(calls[d])
    BY <1>0, <1>6, OrganizationsAssumption DEF LockKeeps, TransactionFits
  <2>2. \A d \in Calls : ~InTransaction(calls'[d])
    BY <1>12, <2>1, EndedCall
  <2> QED
    BY <2>2 DEF LockKeeps, TransactionFits, InTransaction
<1>17. HeldPending'
  <2> SUFFICES ASSUME NEW d \in Calls, calls'[d].op = "accept"
               PROVE  /\ invites'[calls'[d].row].status = "pending"
                      /\ \A e \in Calls : calls'[e].op = "accept" /\ calls'[e].row = calls'[d].row => e = d
    BY DEF HeldPending
  <2>1. \A e \in Calls : calls'[e].op = "accept" => calls'[e] = calls[e] /\ e # c
    BY <1>12, EndedCall
  <2>2. calls[d].row \in Invites /\ invites[calls[d].row].status = "pending" /\ calls[d].row # i
    BY <1>0, <1>1, <1>2, <2>1 DEF CallShaped, HeldPending
  <2> QED
    BY <1>0, <1>10, <2>1, <2>2 DEF HeldPending
<1>18. InvitesShaped'
  <2>1. \A j \in Invites :
          /\ invites'[j].status # "none" => invites'[j].to \in People /\ invites'[j].role \in Roles
          /\ invites'[j].role = "owner" => invites'[j].vouched = 1
          /\ invites'[j].status = "accepted" => invites'[j].to \in accounts'
    BY <1>0, <1>5, <1>6, <1>8, <1>10 DEF InvitesShaped
  <2> QED
    BY <2>1 DEF InvitesShaped
<1>19. InvitationsOnce'
  <2>1. \A j \in Invites : Open(j)' <=> invites'[j].status \in {"pending", "expired"}
    BY DEF Open
  <2>2. \A j \in Invites : j # i => /\ invites'[j].to = invites[j].to /\ (Open(j)' <=> Open(j))
                                    /\ invites'[j].status = invites[j].status
    BY <1>10, <2>1 DEF Open
  <2>3. \A j \in Invites : Open(j) \/ invites[j].status = "accepted" => invites[j] # NoInvite
    BY DEF Open, NoInvite
  <2>4. ~Open(i)' /\ invites'[i].to = p /\ \A j \in Invites : invites[j].status = "accepted" => invites[j].to # p
    BY <1>0, <1>2, <1>6, <1>8, <1>10, <2>1 DEF InvitesShaped
  <2> QED
    BY <1>0, <2>2, <2>3, <2>4 DEF InvitationsOnce
<1>20. MembersHaveAccounts' /\ (Founder \in accounts)'
  BY <1>0, <1>6, <1>11 DEF MembersHaveAccounts
<1>21. OwnerRemains'
  BY <1>0, <1>6, <1>11, <1>13 DEF OwnerRemains, Owners
<1>22. OrganizationsInvariant'
  BY <1>14, <1>15, <1>16, <1>17, <1>18, <1>19, <1>20, <1>21 DEF OrganizationsInvariant
<1>23. \A q \in People : members[q] # "owner" /\ members'[q] = "owner" => q = p /\ old.vouched = 1
  BY <1>5, <1>11
<1> QED
  BY <1>2, <1>3, <1>4, <1>8, <1>10, <1>22, <1>23

\* The organization is disabled or enabled, outside every transaction.
LEMMA DisabledStep ==
  ASSUME OrganizationsInvariant, SetOrganizationDisabled
  PROVE  OrganizationsInvariant'
<1>1. /\ org # "none" /\ orgLock = Nobody /\ org' \in {"active", "disabled"}
      /\ UNCHANGED <<accounts, members, invites, calls, orgLock>>
  BY DEF SetOrganizationDisabled
<1>2. OrganizationsTypeOK'
  BY <1>1 DEF OrganizationsInvariant, OrganizationsTypeOK
<1>3. LockKeeps'
  <2>1. \A d \in Calls : ~InTransaction(calls[d])
    BY <1>1, OrganizationParts, OrganizationsAssumption DEF LockKeeps, TransactionFits
  <2> QED
    BY <1>1, <2>1 DEF LockKeeps, TransactionFits, InTransaction
<1>4. /\ (\A c \in Calls : CallShaped(calls[c])') /\ HeldPending' /\ InvitesShaped' /\ MembersHaveAccounts'
      /\ InvitationsOnce' /\ (Founder \in accounts)'
  BY <1>1 DEF OrganizationsInvariant, CallShaped, HeldPending, InvitesShaped, MembersHaveAccounts, InvitationsOnce, Open
<1>5. OwnerRemains'
  BY <1>1 DEF OrganizationsInvariant, OwnerRemains, Owners
<1> QED
  BY <1>2, <1>3, <1>4, <1>5 DEF OrganizationsInvariant

\* A new organization's tables are empty.
LEMMA OrganizationsStart ==
  ASSUME OrganizationsInit PROVE OrganizationsInvariant
<1>1. /\ org = "none" /\ accounts = People \ Guests /\ members = [p \in People |-> "none"]
      /\ invites = [i \in Invites |-> NoInvite] /\ calls = [c \in Calls |-> NoCall] /\ orgLock = Nobody
  BY DEF OrganizationsInit
<1>2. NoInvite \in InviteRow /\ NoInvite.status = "none" /\ NoInvite.role = "none"
  BY DEF NoInvite, InviteRow
<1>3. (\A c \in Calls : calls[c] = NoCall) /\ calls \in [Calls -> CallRow]
  BY <1>1, EndedCall
<1>4. (\A i \in Invites : invites[i] = NoInvite) /\ invites \in [Invites -> InviteRow]
  BY <1>1, <1>2
<1>5. OrganizationsTypeOK
  BY <1>1, <1>3, <1>4 DEF OrganizationsTypeOK, CallRow, InviteRow
<1>6. LockKeeps /\ HeldPending /\ \A c \in Calls : CallShaped(calls[c])
  BY <1>3, EndedCall DEF LockKeeps, TransactionFits, HeldPending
<1>7. InvitesShaped /\ InvitationsOnce
  BY <1>2, <1>4 DEF InvitesShaped, InvitationsOnce
<1>8. MembersHaveAccounts /\ OwnerRemains /\ Founder \in accounts
  BY <1>1, OrganizationsAssumption DEF MembersHaveAccounts, OwnerRemains
<1> QED
  BY <1>5, <1>6, <1>7, <1>8 DEF OrganizationsInvariant

\* Ownership was given by an owner, in a transaction or by an invitation.
GivenByOwner(p) ==
  \/ org = "none"
  \/ \E c \in Calls : calls[c].target = p /\ calls'[c] = NoCall /\ members[calls[c].actor] = "owner"
  \/ \E i \in Invites : /\ invites[i].to = p /\ invites[i].vouched = 1
                        /\ invites[i].status # "accepted" /\ invites'[i].status = "accepted"

\* Every step keeps the invariant, and only owners make owners.
LEMMA OrganizationsStep ==
  ASSUME OrganizationsInvariant, [OrganizationsNext]_orgVars
  PROVE  /\ OrganizationsInvariant'
         /\ \A p \in People : members[p] # "owner" /\ members'[p] = "owner" => GivenByOwner(p)
<1>1. ASSUME NEW p \in People, CreateOrganization(p)
      PROVE  OrganizationsInvariant' /\ org = "none"
  BY <1>1, CreateStep DEF CreateOrganization
<1>2. ASSUME NEW c \in Calls, NEW p \in People, NEW target \in People, NEW role \in Roles,
             \/ AddMember(c, p, target, role) \/ ChangeMember(c, p, target, role)
             \/ ChangeMember(c, p, target, "none") \/ CreateInvitation(c, p, target, role)
      PROVE  OrganizationsInvariant' /\ members' = members
  <2>1. role \in Roles \cup {"none"} /\ role # "none" /\ "none" \in Roles \cup {"none"}
    BY <1>2 DEF Roles
  <2>2. CASE AddMember(c, p, target, role)
    BY <2>1, <2>2, StartStep DEF AddMember, Start
  <2>3. CASE ChangeMember(c, p, target, role)
    BY <2>1, <2>3, StartStep DEF ChangeMember, Start
  <2>4. CASE ChangeMember(c, p, target, "none")
    BY <2>1, <2>4, StartStep DEF ChangeMember, Start
  <2>5. CASE CreateInvitation(c, p, target, role)
    <3>1. Start(c, "invite", p, target, role)
      BY <2>5 DEF CreateInvitation
    <3> QED
      BY <2>1, <3>1, StartStep DEF Start
  <2> QED
    BY <1>2, <2>2, <2>3, <2>4, <2>5
<1>3. ASSUME NEW c \in Calls, LockOrganization(c) \/ CheckChange(c) \/ EnqueueInvitation(c) \/ CallStops(c)
      PROVE  OrganizationsInvariant' /\ members' = members
  BY <1>3, LockStep, CheckStep, EnqueueStep, StopStep
     DEF LockOrganization, CheckChange, EnqueueInvitation, CallStops
<1>4. ASSUME NEW c \in Calls, CommitAdd(c) \/ CommitChange(c)
      PROVE  /\ OrganizationsInvariant'
             /\ \A p \in People : members[p] # "owner" /\ members'[p] = "owner" => GivenByOwner(p)
  BY <1>4, AddStep, ChangeStep DEF GivenByOwner
<1>5. ASSUME NEW c \in Calls, Join(c)
      PROVE  /\ OrganizationsInvariant'
             /\ \A p \in People : members[p] # "owner" /\ members'[p] = "owner" => GivenByOwner(p)
  BY <1>5, JoinStep DEF GivenByOwner
<1>6. ASSUME NEW c \in Calls, NEW i \in Invites, CommitInvitation(c, i) \/ AcceptInvitation(c, i)
      PROVE  OrganizationsInvariant' /\ members' = members
  BY <1>6, InviteWritten, AcceptStep DEF CommitInvitation, AcceptInvitation
<1>7. ASSUME NEW i \in Invites, Expire(i)
      PROVE  OrganizationsInvariant' /\ members' = members
  BY <1>7, ExpireStep DEF Expire
<1>8. CASE SetOrganizationDisabled
  <2>1. OrganizationsInvariant' /\ members' = members
    BY <1>8, DisabledStep DEF SetOrganizationDisabled
  <2> QED
    BY <2>1
<1>9. CASE UNCHANGED orgVars
  <2>1. OrganizationsInvariant'
    <3>1. /\ OrganizationsTypeOK' /\ (\A c \in Calls : CallShaped(calls[c])') /\ HeldPending' /\ InvitesShaped'
          /\ MembersHaveAccounts' /\ OwnerRemains' /\ InvitationsOnce' /\ (Founder \in accounts)'
      BY <1>9 DEF orgVars, OrganizationsInvariant, OrganizationsTypeOK, CallShaped, HeldPending, InvitesShaped,
                  MembersHaveAccounts, OwnerRemains, Owners, InvitationsOnce, Open
    <3>2. Cardinality(Owners)' = Cardinality(Owners)
      BY <1>9 DEF orgVars, Owners
    <3>3. LockKeeps'
      BY <1>9, <3>2 DEF orgVars, OrganizationsInvariant, LockKeeps, TransactionFits, InTransaction, TransitionAllowed
    <3> QED
      BY <3>1, <3>3 DEF OrganizationsInvariant
  <2> QED
    BY <1>9, <2>1 DEF orgVars
<1> QED
  <2>1. CASE \E p \in People : CreateOrganization(p)
    BY <1>1, <2>1 DEF GivenByOwner
  <2>2. CASE \E c \in Calls, p, target \in People, role \in Roles :
               \/ AddMember(c, p, target, role) \/ ChangeMember(c, p, target, role)
               \/ ChangeMember(c, p, target, "none") \/ CreateInvitation(c, p, target, role)
    <3>1. OrganizationsInvariant' /\ members' = members
      BY <1>2, <2>2
    <3> QED
      BY <3>1
  <2>3. CASE \E c \in Calls :
               \/ LockOrganization(c) \/ CommitAdd(c) \/ CheckChange(c) \/ CommitChange(c)
               \/ EnqueueInvitation(c) \/ Join(c) \/ CallStops(c)
               \/ \E i \in Invites : CommitInvitation(c, i) \/ AcceptInvitation(c, i)
    BY <1>3, <1>4, <1>5, <1>6, <2>3
  <2>4. CASE \E i \in Invites : Expire(i)
    BY <1>7, <2>4
  <2> QED
    BY <1>8, <1>9, <2>1, <2>2, <2>3, <2>4 DEF OrganizationsNext

-----------------------------------------------------------------------------
(* Administrators: the steps.                                                *)

StaffRow == [role : {"none", "admin", "owner"}, account : {"none", "enabled", "disabled"}]
TaskRow == [op : {"none", "bootstrap", "grant", "dismiss", "disable", "enable", "policy", "setup"},
            by : Staff \cup {NoStaff}, to : Staff \cup {NoStaff}]

\* A step of a request that leaves the users alone.
LEMMA TaskStep ==
  ASSUME AdministratorsInvariant, NEW t \in Tasks, NEW new \in TaskRow, TaskShaped(new),
         tasks' = [tasks EXCEPT ![t] = new], UNCHANGED <<staff, owner>>,
         policy' \in {"owner_only", "invitation_only", "authenticated"},
         setup' \in {0, 1}, setup' = 1 => owner # NoStaff
  PROVE  AdministratorsInvariant'
<1>1. tasks \in [Tasks -> TaskRow] /\ tasks' \in [Tasks -> TaskRow]
  BY DEF AdministratorsInvariant, AdministratorsTypeOK, TaskRow
<1>2. \A u \in Tasks : TaskShaped(tasks'[u])
  BY <1>1 DEF AdministratorsInvariant
<1>3. (\A u \in Tasks : TaskShaped(tasks[u]))'
  BY <1>2 DEF TaskShaped
<1>4. AdministratorsTypeOK'
  BY <1>1 DEF AdministratorsInvariant, AdministratorsTypeOK, TaskRow
<1>5. OwnerPresides'
  <2>1. owner # NoStaff => staff[owner].role = "owner"
    BY DEF AdministratorsInvariant, OwnerPresides
  <2> QED
    BY <2>1 DEF AdministratorsInvariant, OwnerPresides, Owner, RoleOf, MayCreateOrganization
<1> QED
  BY <1>3, <1>4, <1>5 DEF AdministratorsInvariant

\* A user who is not the owner changes, and does not become one.
LEMMA StaffStep ==
  ASSUME AdministratorsInvariant, NEW u \in Staff, NEW new \in StaffRow,
         staff' = [staff EXCEPT ![u] = new], new.role = "owner" <=> staff[u].role = "owner",
         staff[u].role = "owner" => new.account = "enabled",
         UNCHANGED <<owner, policy, setup>>,
         tasks' = tasks \/ \E t \in Tasks : tasks' = [tasks EXCEPT ![t] = NoTask]
  PROVE  AdministratorsInvariant'
<1>1. tasks \in [Tasks -> TaskRow] /\ staff \in [Staff -> StaffRow] /\ owner \in Staff \cup {NoStaff}
  BY DEF AdministratorsInvariant, AdministratorsTypeOK, TaskRow, StaffRow
<1>2. NoTask \in TaskRow /\ TaskShaped(NoTask)
  BY DEF NoTask, TaskRow, TaskShaped
<1>3. tasks' \in [Tasks -> TaskRow] /\ \A t \in Tasks : TaskShaped(tasks'[t])
  BY <1>1, <1>2 DEF AdministratorsInvariant
<1>4. (\A t \in Tasks : TaskShaped(tasks[t]))'
  BY <1>3 DEF TaskShaped
<1>5. /\ staff' \in [Staff -> StaffRow] /\ staff'[u] = new /\ \A v \in Staff : v # u => staff'[v] = staff[v]
  BY <1>1
<1>6. AdministratorsTypeOK'
  BY <1>3, <1>5 DEF AdministratorsInvariant, AdministratorsTypeOK, TaskRow, StaffRow
<1>7. \A v \in Staff : staff'[v].role = "owner" <=> staff[v].role = "owner"
  BY <1>5
<1>8. /\ {v \in Staff : staff[v].role = "owner"} = {owner} \ {NoStaff}
      /\ owner # NoStaff => staff[owner].account = "enabled" /\ staff[owner].role = "owner"
  BY DEF AdministratorsInvariant, OwnerPresides, Owner, RoleOf
<1>9. {v \in Staff : staff'[v].role = "owner"} = {owner'} \ {NoStaff}
  BY <1>7, <1>8
<1>10. owner' # NoStaff => staff'[owner'].account = "enabled" /\ staff'[owner'].role = "owner"
  BY <1>1, <1>5, <1>8
<1>11. setup' = 1 => owner' # NoStaff
  BY DEF AdministratorsInvariant, OwnerPresides
<1>12. OwnerPresides'
  BY <1>9, <1>10, <1>11 DEF OwnerPresides, Owner, RoleOf, MayCreateOrganization
<1> QED
  BY <1>4, <1>6, <1>12 DEF AdministratorsInvariant

\* The first bootstrap makes the owner.
LEMMA FirstStep ==
  ASSUME AdministratorsInvariant, NEW t \in Tasks, InsertFirst(t)
  PROVE  AdministratorsInvariant'
<1>1. tasks \in [Tasks -> TaskRow] /\ staff \in [Staff -> StaffRow] /\ TaskShaped(tasks[t])
  BY DEF AdministratorsInvariant, AdministratorsTypeOK, TaskRow, StaffRow
<1>2. NoTask \in TaskRow /\ TaskShaped(NoTask)
  BY DEF NoTask, TaskRow, TaskShaped
<1>3. PICK u : u = tasks[t].by
  OBVIOUS
<1>4. PICK new : new = [role |-> "owner", account |-> "enabled"]
  OBVIOUS
<1>5. new \in StaffRow /\ new.role = "owner" /\ new.account = "enabled"
  BY <1>4 DEF StaffRow
<1>6. /\ u \in Staff /\ staff' = [staff EXCEPT ![u] = new] /\ owner' = u /\ UNCHANGED <<policy, setup>>
      /\ tasks' = [tasks EXCEPT ![t] = NoTask] /\ \A v \in Staff : staff[v].role = "none"
  BY <1>1, <1>3, <1>4 DEF InsertFirst, Finish, TaskShaped, Unknown
<1>7. tasks' \in [Tasks -> TaskRow] /\ \A x \in Tasks : TaskShaped(tasks'[x])
  BY <1>1, <1>2, <1>6 DEF AdministratorsInvariant
<1>8. (\A x \in Tasks : TaskShaped(tasks[x]))'
  BY <1>7 DEF TaskShaped
<1>9. staff' \in [Staff -> StaffRow] /\ staff'[u] = new /\ \A v \in Staff : v # u => staff'[v] = staff[v]
  BY <1>1, <1>5, <1>6
<1>10. AdministratorsTypeOK'
  BY <1>6, <1>7, <1>9 DEF AdministratorsInvariant, AdministratorsTypeOK, TaskRow, StaffRow
<1>11. {v \in Staff : staff'[v].role = "owner"} = {u}
  BY <1>5, <1>6, <1>9
<1>12. OwnerPresides'
  BY <1>5, <1>6, <1>9, <1>11, AdministratorsAssumption DEF OwnerPresides, Owner, RoleOf, MayCreateOrganization
<1> QED
  BY <1>8, <1>10, <1>12 DEF AdministratorsInvariant

\* Every step keeps the invariant of the administrators.
LEMMA AdministratorsStep ==
  ASSUME AdministratorsInvariant, [AdministratorsNext]_staffVars
  PROVE  AdministratorsInvariant'
<1>0. /\ tasks \in [Tasks -> TaskRow] /\ staff \in [Staff -> StaffRow] /\ (\A t \in Tasks : TaskShaped(tasks[t]))
      /\ policy \in {"owner_only", "invitation_only", "authenticated"} /\ setup \in {0, 1}
      /\ setup = 1 => owner # NoStaff
  BY DEF AdministratorsInvariant, AdministratorsTypeOK, OwnerPresides, TaskRow, StaffRow
<1>1. NoTask \in TaskRow /\ TaskShaped(NoTask)
  BY DEF NoTask, TaskRow, TaskShaped
<1>2. ASSUME NEW t \in Tasks, NEW op \in {"bootstrap", "grant", "dismiss", "disable", "enable", "policy", "setup"},
             NEW by \in Staff, NEW to \in Staff,
             tasks' = [tasks EXCEPT ![t] = [op |-> op, by |-> by, to |-> to]], UNCHANGED <<staff, owner, policy, setup>>
      PROVE  AdministratorsInvariant'
  <2>1. PICK new : new = [op |-> op, by |-> by, to |-> to]
    OBVIOUS
  <2>2. new \in TaskRow /\ TaskShaped(new)
    BY <2>1 DEF TaskRow, TaskShaped
  <2> QED
    BY <1>0, <1>2, <2>1, <2>2, TaskStep
<1>3. ASSUME NEW t \in Tasks, NEW by \in Staff, NEW to \in Staff,
             \/ AskGrant(t, by, to) \/ AskDismiss(t, by, to) \/ AskDisable(t, by, to) \/ AskEnable(t, by, to)
      PROVE  AdministratorsInvariant'
  BY <1>2, <1>3 DEF AskGrant, AskDismiss, AskDisable, AskEnable, Ask
<1>4. ASSUME NEW t \in Tasks, NEW u \in Staff, Bootstrap(t, u) \/ AskPolicy(t, u) \/ AskSetup(t, u)
      PROVE  AdministratorsInvariant'
  BY <1>2, <1>4 DEF Bootstrap, AskPolicy, AskSetup, Ask
<1>5. ASSUME NEW t \in Tasks, TaskEnds(t) PROVE AdministratorsInvariant'
  BY <1>0, <1>1, <1>5, TaskStep DEF TaskEnds, Finish
<1>6. ASSUME NEW t \in Tasks, NEW next \in {"owner_only", "invitation_only", "authenticated"},
             SetPolicy(t, next) \/ \E ready \in {0, 1} : CompleteSetup(t, next, ready)
      PROVE  AdministratorsInvariant'
  <2>1. CASE SetPolicy(t, next)
    BY <1>0, <1>1, <1>6, <2>1, TaskStep DEF SetPolicy, Finish
  <2>2. ASSUME NEW ready \in {0, 1}, CompleteSetup(t, next, ready)
        PROVE  AdministratorsInvariant'
    <3>1. tasks[t].op # "none" /\ owner = tasks[t].by /\ tasks' = [tasks EXCEPT ![t] = NoTask]
      BY <2>2 DEF CompleteSetup, Finish
    <3>2. owner # NoStaff
      BY <1>0, <3>1, AdministratorsAssumption DEF TaskShaped
    <3>3. policy' = next /\ setup' = ready /\ UNCHANGED <<staff, owner>>
      BY <2>2 DEF CompleteSetup
    <3> QED
      BY <1>1, <1>6, <3>1, <3>2, <3>3, TaskStep
  <2> QED
    BY <1>6, <2>1, <2>2
<1>7. ASSUME NEW t \in Tasks, Grant(t) \/ Dismiss(t) PROVE AdministratorsInvariant'
  <2>1. PICK u : u = tasks[t].to
    OBVIOUS
  <2>2. u \in Staff /\ UNCHANGED <<owner, policy, setup>> /\ tasks' = [tasks EXCEPT ![t] = NoTask]
    BY <1>0, <1>7, <2>1 DEF Grant, Dismiss, Finish, TaskShaped
  <2>3. PICK old \in StaffRow : old = staff[u]
    BY <1>0, <2>2
  <2>4. PICK r \in {"admin", "none"} : staff' = [staff EXCEPT ![u] = [old EXCEPT !.role = r]] /\ old.role # "owner"
    BY <1>0, <1>7, <2>1, <2>2, <2>3 DEF Grant, Dismiss
  <2>5. PICK new : new = [old EXCEPT !.role = r]
    OBVIOUS
  <2>6. new \in StaffRow /\ new.role = r
    BY <2>5 DEF StaffRow
  <2>7. staff' = [staff EXCEPT ![u] = new]
    BY <2>4, <2>5
  <2> QED
    BY <2>2, <2>3, <2>4, <2>6, <2>7, StaffStep
<1>8. ASSUME NEW t \in Tasks, SetStaffDisabled(t) PROVE AdministratorsInvariant'
  <2>1. PICK u : u = tasks[t].to
    OBVIOUS
  <2>2. u \in Staff /\ UNCHANGED <<owner, policy, setup>> /\ tasks' = [tasks EXCEPT ![t] = NoTask]
    BY <1>0, <1>8, <2>1 DEF SetStaffDisabled, Finish, TaskShaped
  <2>3. PICK old \in StaffRow : old = staff[u]
    BY <1>0, <2>2
  <2>4. PICK a \in {"enabled", "disabled"} :
          staff' = [staff EXCEPT ![u] = [old EXCEPT !.account = a]] /\ (a = "disabled" => old.role # "owner")
    BY <1>0, <1>8, <2>1, <2>2, <2>3 DEF SetStaffDisabled, MayDisable
  <2>5. PICK new : new = [old EXCEPT !.account = a]
    OBVIOUS
  <2>6. new \in StaffRow /\ new.role = old.role /\ new.account = a
    BY <2>5 DEF StaffRow
  <2>7. staff' = [staff EXCEPT ![u] = new]
    BY <2>4, <2>5
  <2> QED
    BY <2>2, <2>3, <2>4, <2>6, <2>7, StaffStep
<1>9. ASSUME NEW u \in Staff, JoinStaff(u) PROVE AdministratorsInvariant'
  <2>1. PICK old \in StaffRow : old = staff[u]
    BY <1>0
  <2>2. PICK new : new = [old EXCEPT !.account = "enabled"]
    OBVIOUS
  <2>3. new \in StaffRow /\ new.role = old.role /\ new.account = "enabled"
    BY <2>2 DEF StaffRow
  <2>4. staff' = [staff EXCEPT ![u] = new] /\ UNCHANGED <<owner, policy, setup, tasks>>
    BY <1>0, <1>9, <2>1, <2>2 DEF JoinStaff
  <2> QED
    BY <2>1, <2>3, <2>4, StaffStep
<1>10. CASE UNCHANGED staffVars
  BY <1>10 DEF staffVars, AdministratorsInvariant, AdministratorsTypeOK, TaskShaped, OwnerPresides, Owner, RoleOf,
     MayCreateOrganization
<1> QED
  BY <1>3, <1>4, <1>5, <1>6, <1>7, <1>8, <1>9, <1>10, FirstStep DEF AdministratorsNext

\* At first there are no users.
LEMMA AdministratorsStart ==
  ASSUME AdministratorsInit PROVE AdministratorsInvariant
<1>1. \A u \in Staff : staff[u] = Unknown /\ Unknown.role = "none" /\ Unknown \in StaffRow
  BY DEF AdministratorsInit, Unknown, StaffRow
<1>2. \A t \in Tasks : tasks[t] = NoTask /\ NoTask \in TaskRow /\ TaskShaped(NoTask)
  BY DEF AdministratorsInit, NoTask, TaskRow, TaskShaped
<1>3. AdministratorsTypeOK
  BY <1>1, <1>2 DEF AdministratorsInit, AdministratorsTypeOK, StaffRow, TaskRow
<1> QED
  BY <1>1, <1>2, <1>3 DEF AdministratorsInvariant, AdministratorsInit, OwnerPresides

\* However the members of an organization and the administrators of the
\* instance change each other's roles, each keeps an owner, only owners make
\* owners, and an invitation makes one member (update_member, remove_member,
\* accept_invitation, set_user_disabled).
THEOREM OwnershipKept == OrganizationsSpec /\ AdministratorsSpec => OwnershipHolds
<1>1. OrganizationsInit => OrganizationsInvariant
  BY OrganizationsStart
<1>2. OrganizationsInvariant /\ [OrganizationsNext]_orgVars => OrganizationsInvariant'
  BY OrganizationsStep
<1>3. OrganizationsInvariant /\ [OrganizationsNext]_orgVars =>
        [\A p \in People :
           members[p] # "owner" /\ members'[p] = "owner" =>
             \/ org = "none"
             \/ \E c \in Calls : calls[c].target = p /\ calls'[c] = NoCall /\ members[calls[c].actor] = "owner"
             \/ \E i \in Invites : /\ invites[i].to = p /\ invites[i].vouched = 1
                                   /\ invites[i].status # "accepted" /\ invites'[i].status = "accepted"]_orgVars
  BY OrganizationsStep DEF GivenByOwner
<1>4. AdministratorsInit => AdministratorsInvariant
  BY AdministratorsStart
<1>5. AdministratorsInvariant /\ [AdministratorsNext]_staffVars => AdministratorsInvariant'
  BY AdministratorsStep
<1>6. OrganizationsInvariant => OrganizationsTypeOK /\ OwnerRemains /\ InvitationsOnce
  BY DEF OrganizationsInvariant
<1>7. AdministratorsInvariant => AdministratorsTypeOK /\ OwnerPresides
  BY DEF AdministratorsInvariant
<1> QED
  BY <1>1, <1>2, <1>3, <1>4, <1>5, <1>6, <1>7, PTL
     DEF OrganizationsSpec, AdministratorsSpec, OwnershipHolds, OwnersMakeOwners

-----------------------------------------------------------------------------
(* Organizations' bills: the steps.                                          *)

HookRow == [step : {"none", "inserted", "first", "locked"}, event : Stamps]

\* The second and then the id order the stamps of events.
LEMMA StampOrder ==
  ASSUME NEW a \in Stamps, NEW b \in Stamps, NEW c \in Stamps, a.id > 0, b.id > 0, c.id > 0
  PROVE  /\ a # NoStamp /\ ~IsNewer(a, a) /\ (IsNewer(a, b) /\ IsNewer(b, c) => IsNewer(a, c))
         /\ (a # b => IsNewer(a, b) \/ IsNewer(b, a))
<1>1. a.at \in Nat /\ a.id \in Nat /\ b.at \in Nat /\ b.id \in Nat /\ c.at \in Nat /\ c.id \in Nat
  BY StripeEventsAssumption DEF Stamps
<1>2. a # NoStamp /\ b # NoStamp /\ c # NoStamp
  BY <1>1 DEF NoStamp
<1>3. a # b => a.at # b.at \/ a.id # b.id
  BY DEF Stamps
<1> QED
  BY <1>1, <1>2, <1>3 DEF IsNewer

\* Events that stand beside each other.
Distinct(events) ==
  /\ events \subseteq Event /\ \A e \in events : e.stamp.id > 0
  /\ \A e, f \in events : e.stamp = f.stamp => e = f

\* A row that takes newer events and leaves the others shows the newest.
LEMMA NewestShown ==
  ASSUME NEW all, Distinct(all), NEW S \in SUBSET all, NEW e \in all, NEW r, NEW new, Shows(r, S),
         IsNewer(e.stamp, r.stamp) => new.stamp = e.stamp /\ new.status = e.status,
         ~IsNewer(e.stamp, r.stamp) => new = r
  PROVE  Shows(new, S \cup {e})
<1>0. /\ \A x \in all : x.stamp \in Stamps /\ x.stamp.id > 0
      /\ \A x, y \in all : x.stamp = y.stamp => x = y
  BY DEF Distinct, Event
<1>1. CASE r.stamp = NoStamp /\ S = {}
  <2>1. IsNewer(e.stamp, r.stamp) /\ e \in Newest(S \cup {e})
    BY <1>1 DEF IsNewer, Newest
  <2> QED
    BY <2>1 DEF Shows
<1>2. CASE \E m \in Newest(S) : m.stamp = r.stamp /\ m.status = r.status
  <2>1. PICK m \in Newest(S) : m.stamp = r.stamp /\ m.status = r.status
    BY <1>2
  <2>2. m \in S /\ m \in all /\ \A f \in S : f = m \/ IsNewer(m.stamp, f.stamp)
    BY <2>1 DEF Newest
  <2>3. CASE IsNewer(e.stamp, r.stamp)
    <3>1. \A f \in S : IsNewer(e.stamp, f.stamp)
      <4> SUFFICES ASSUME NEW f \in S PROVE IsNewer(e.stamp, f.stamp)
        OBVIOUS
      <4>1. CASE f = m
        BY <2>1, <2>3, <4>1
      <4>2. CASE IsNewer(m.stamp, f.stamp)
        <5>1. f \in all
          OBVIOUS
        <5> QED
          BY <1>0, <2>1, <2>2, <2>3, <4>2, <5>1, StampOrder
      <4> QED
        BY <2>2, <4>1, <4>2
    <3>2. e \in Newest(S \cup {e})
      BY <3>1 DEF Newest
    <3> QED
      BY <2>3, <3>2 DEF Shows
  <2>4. CASE ~IsNewer(e.stamp, r.stamp)
    <3>1. e = m \/ IsNewer(m.stamp, e.stamp)
      BY <1>0, <2>1, <2>2, <2>4, StampOrder
    <3>2. m \in Newest(S \cup {e})
      BY <2>2, <3>1 DEF Newest
    <3> QED
      BY <2>1, <2>4, <3>2 DEF Shows
  <2> QED
    BY <2>3, <2>4
<1> QED
  BY <1>1, <1>2 DEF Shows

\* What the invariant says of the events and the hooks.
LEMMA BillingParts ==
  ASSUME BillingInvariant
  PROVE  /\ Distinct(outbound) /\ received \subseteq outbound
         /\ (\A e \in outbound : e.kind # "invoice" => e.status \in Statuses)
         /\ (\A e \in outbound : e.kind = "invoice" => e.status \in {"open", "paid"})
         /\ hooks \in [Hooks -> HookRow]
         /\ Shows(row, {e \in received : e.kind # "invoice"})
         /\ Shows(invoice, {e \in received : e.kind = "invoice"})
<1>1. /\ outbound \subseteq Event /\ received \subseteq outbound /\ hooks \in [Hooks -> HookRow]
  BY DEF BillingInvariant, BillingTypeOK, Event, HookRow
<1>2. Distinct(outbound)
  BY <1>1 DEF BillingInvariant, EventsFit, Distinct
<1>3. \A e \in outbound : e.status \in Statuses \cup {"open", "paid"} /\ (e.kind = "invoice" <=> e.status \in {"open", "paid"})
  BY <1>1 DEF BillingInvariant, EventsFit, Event
<1> QED
  BY <1>1, <1>2, <1>3 DEF BillingInvariant, RowFollowsNewest

\* The event a transaction is about was sent and is the only one of its stamp.
LEMMA HookEvent ==
  ASSUME BillingInvariant, NEW h \in Hooks, hooks[h].step # "none"
  PROVE  /\ EventOf(h) \in outbound /\ EventOf(h).stamp = hooks[h].event
         /\ hooks[h].step \in {"first", "locked"} => EventOf(h).kind # "invoice"
<1>1. PICK e \in outbound : /\ e.stamp = hooks[h].event
                            /\ hooks[h].step \in {"first", "locked"} => e.kind # "invoice"
  BY DEF BillingInvariant, HooksFit
<1>2. EventOf(h) \in outbound /\ EventOf(h).stamp = hooks[h].event
  BY <1>1 DEF EventOf
<1>3. EventOf(h) = e
  BY <1>1, <1>2 DEF BillingInvariant, EventsFit
<1> QED
  BY <1>1, <1>2, <1>3

\* Stripe creates an event.
LEMMA EmitStep ==
  ASSUME BillingInvariant, NEW kind \in {"checkout", "contract", "invoice"}, NEW s \in Contracts, NEW payer \in Payers,
         NEW status \in Statuses \cup {"open", "paid"}, kind = "invoice" <=> status \in {"open", "paid"},
         Emit(kind, s, payer, status),
         contracts' \in [Contracts -> [payer : Payers \cup {NoContract}, status : Statuses]],
         \A x \in Contracts : contracts'[x].status # "none" => contracts'[x].payer \in Payers,
         UNCHANGED <<stripeTime, hooks, received, row, invoice>>
  PROVE  BillingInvariant'
<1>1. PICK stamp \in FreshStamps(stripeTime, outbound) :
        outbound' = outbound \cup {[kind |-> kind, contract |-> s, payer |-> payer, status |-> status, stamp |-> stamp]}
  BY DEF Emit
<1>2. stamp \in Stamps /\ stamp.id > 0 /\ \A e \in outbound : e.stamp # stamp
  BY <1>1 DEF FreshStamps
<1>3. PICK new : new = [kind |-> kind, contract |-> s, payer |-> payer, status |-> status, stamp |-> stamp]
  OBVIOUS
<1>4. new \in Event /\ new.stamp = stamp /\ new.kind = kind /\ new.status = status
  BY <1>2, <1>3 DEF Event
<1>5. outbound' = outbound \cup {new}
  BY <1>1, <1>3
<1>6. outbound \subseteq Event
  BY DEF BillingInvariant, BillingTypeOK, Event
<1>7. BillingTypeOK'
  <2>1. outbound' \subseteq Event /\ received' \subseteq outbound'
    BY <1>4, <1>5, <1>6 DEF BillingInvariant, BillingTypeOK
  <2> QED
    BY <2>1 DEF BillingInvariant, BillingTypeOK, Event
<1>8. EventsFit'
  BY <1>2, <1>4, <1>5 DEF BillingInvariant, EventsFit
<1>9. HooksFit'
  BY <1>5 DEF BillingInvariant, HooksFit
<1>10. RowFollowsNewest'
  BY DEF BillingInvariant, RowFollowsNewest
<1> QED
  BY <1>7, <1>8, <1>9, <1>10 DEF BillingInvariant

\* A transaction goes on, or ends without a trace.
LEMMA HookStep ==
  ASSUME BillingInvariant, NEW h \in Hooks, NEW new \in HookRow, hooks' = [hooks EXCEPT ![h] = new],
         new.step # "none" =>
           \E e \in outbound : e.stamp = new.event /\ (new.step \in {"first", "locked"} => e.kind # "invoice"),
         UNCHANGED <<contracts, outbound, stripeTime, received, row, invoice>>
  PROVE  BillingInvariant'
<1>1. hooks \in [Hooks -> HookRow] /\ hooks' \in [Hooks -> HookRow]
  BY DEF BillingInvariant, BillingTypeOK, HookRow
<1>2. BillingTypeOK'
  BY <1>1 DEF BillingInvariant, BillingTypeOK, HookRow
<1>3. HooksFit'
  BY <1>1 DEF BillingInvariant, HooksFit
<1>4. EventsFit' /\ RowFollowsNewest' /\ (\A s \in Contracts : contracts[s].status # "none" => contracts[s].payer \in Payers)'
  BY DEF BillingInvariant, EventsFit, RowFollowsNewest
<1> QED
  BY <1>2, <1>3, <1>4 DEF BillingInvariant

RowType ==
  [payer : Payers \cup {NoContract}, contract : Contracts \cup {NoContract}, status : Statuses, stamp : Stamps]

\* No transaction is a row of its own.
LEMMA EndedHook == NoHook \in HookRow /\ NoHook.step = "none"
<1>1. NoStamp \in Stamps
  BY StripeEventsAssumption DEF NoStamp, Stamps
<1> QED
  BY <1>1 DEF NoHook, HookRow

\* A transaction commits: its event is kept and the rows are right.
LEMMA HookCommits ==
  ASSUME BillingInvariant, NEW h \in Hooks, NEW e \in outbound,
         hooks' = [hooks EXCEPT ![h] = NoHook], received' = received \cup {e},
         UNCHANGED <<contracts, outbound, stripeTime>>,
         row' \in RowType, invoice' \in [status : {"none", "open", "paid"}, stamp : Stamps],
         Shows(row', {x \in received' : x.kind # "invoice"}), Shows(invoice', {x \in received' : x.kind = "invoice"})
  PROVE  BillingInvariant'
<1>1. hooks \in [Hooks -> HookRow] /\ hooks' \in [Hooks -> HookRow]
  BY EndedHook DEF BillingInvariant, BillingTypeOK, HookRow
<1>2. BillingTypeOK'
  BY <1>1 DEF BillingInvariant, BillingTypeOK, HookRow, RowType
<1>3. HooksFit'
  BY <1>1, EndedHook DEF BillingInvariant, HooksFit
<1>4. EventsFit' /\ (\A s \in Contracts : contracts[s].status # "none" => contracts[s].payer \in Payers)'
  BY DEF BillingInvariant, EventsFit
<1>5. RowFollowsNewest'
  BY DEF RowFollowsNewest
<1> QED
  BY <1>2, <1>3, <1>4, <1>5 DEF BillingInvariant

\* The organization's row after an event about its subscription.
LEMMA RowWritten ==
  ASSUME BillingInvariant, NEW h \in Hooks, NEW e \in outbound, e.kind # "invoice",
         row' = IF IsNewer(e.stamp, row.stamp)
                THEN [payer |-> e.payer, contract |-> e.contract, status |-> e.status, stamp |-> e.stamp] ELSE row,
         hooks' = [hooks EXCEPT ![h] = NoHook], received' = received \cup {e},
         UNCHANGED <<contracts, outbound, stripeTime, invoice>>
  PROVE  BillingInvariant'
<1>0. /\ Distinct(outbound) /\ received \subseteq outbound /\ e.status \in Statuses /\ e \in Event
      /\ Shows(row, {x \in received : x.kind # "invoice"}) /\ Shows(invoice, {x \in received : x.kind = "invoice"})
  BY BillingParts DEF Distinct
<1>1. PICK new : new = [payer |-> e.payer, contract |-> e.contract, status |-> e.status, stamp |-> e.stamp]
  OBVIOUS
<1>2. new \in RowType /\ new.stamp = e.stamp /\ new.status = e.status
  BY <1>0, <1>1 DEF RowType, Event
<1>3. row' = IF IsNewer(e.stamp, row.stamp) THEN new ELSE row
  BY <1>1
<1>4. row' \in RowType /\ invoice' \in [status : {"none", "open", "paid"}, stamp : Stamps]
  BY <1>2, <1>3 DEF BillingInvariant, BillingTypeOK, RowType
<1>5. {x \in received' : x.kind # "invoice"} = {x \in received : x.kind # "invoice"} \cup {e}
  OBVIOUS
<1>6. {x \in received' : x.kind = "invoice"} = {x \in received : x.kind = "invoice"}
  OBVIOUS
<1>7. {x \in received : x.kind # "invoice"} \in SUBSET outbound
  BY <1>0
<1>8. /\ IsNewer(e.stamp, row.stamp) => row'.stamp = e.stamp /\ row'.status = e.status
      /\ ~IsNewer(e.stamp, row.stamp) => row' = row
  BY <1>2, <1>3
<1>9. Shows(row', {x \in received : x.kind # "invoice"} \cup {e})
  BY <1>0, <1>7, <1>8, NewestShown
<1> QED
  BY <1>0, <1>4, <1>5, <1>6, <1>9, HookCommits

\* The invoice's row after an event about it.
LEMMA InvoiceWritten ==
  ASSUME BillingInvariant, NEW h \in Hooks, NEW e \in outbound, e.kind = "invoice",
         invoice' = IF IsNewer(e.stamp, invoice.stamp)
                    THEN [status |-> e.status, stamp |-> e.stamp] ELSE invoice,
         hooks' = [hooks EXCEPT ![h] = NoHook], received' = received \cup {e},
         UNCHANGED <<contracts, outbound, stripeTime, row>>
  PROVE  BillingInvariant'
<1>0. /\ Distinct(outbound) /\ received \subseteq outbound /\ e.status \in {"open", "paid"} /\ e \in Event
      /\ Shows(row, {x \in received : x.kind # "invoice"}) /\ Shows(invoice, {x \in received : x.kind = "invoice"})
  BY BillingParts DEF Distinct
<1>1. PICK new : new = [status |-> e.status, stamp |-> e.stamp]
  OBVIOUS
<1>2. new \in [status : {"none", "open", "paid"}, stamp : Stamps] /\ new.stamp = e.stamp /\ new.status = e.status
  BY <1>0, <1>1 DEF Event
<1>3. invoice' = IF IsNewer(e.stamp, invoice.stamp) THEN new ELSE invoice
  BY <1>1
<1>4. row' \in RowType /\ invoice' \in [status : {"none", "open", "paid"}, stamp : Stamps]
  BY <1>2, <1>3 DEF BillingInvariant, BillingTypeOK, RowType
<1>5. {x \in received' : x.kind = "invoice"} = {x \in received : x.kind = "invoice"} \cup {e}
  OBVIOUS
<1>6. {x \in received' : x.kind # "invoice"} = {x \in received : x.kind # "invoice"}
  OBVIOUS
<1>7. {x \in received : x.kind = "invoice"} \in SUBSET outbound
  BY <1>0
<1>8. /\ IsNewer(e.stamp, invoice.stamp) => invoice'.stamp = e.stamp /\ invoice'.status = e.status
      /\ ~IsNewer(e.stamp, invoice.stamp) => invoice' = invoice
  BY <1>2, <1>3
<1>9. Shows(invoice', {x \in received : x.kind = "invoice"} \cup {e})
  BY <1>0, <1>7, <1>8, NewestShown
<1> QED
  BY <1>0, <1>4, <1>5, <1>6, <1>9, HookCommits

ContractRow == [payer : Payers \cup {NoContract}, status : Statuses]

\* Stripe's steps: a checkout, a change of a subscription, an invoice.
LEMMA StripeStep ==
  ASSUME BillingInvariant, NEW s \in Contracts,
         \/ \E p \in Payers : CheckoutCompleted(s, p)
         \/ \E status \in {"active", "past_due", "canceled"} : ContractChanges(s, status)
         \/ \E status \in {"open", "paid"} : InvoiceChanges(s, status)
  PROVE  BillingInvariant'
<1>0. /\ contracts \in [Contracts -> ContractRow]
      /\ \A x \in Contracts : contracts[x].status # "none" => contracts[x].payer \in Payers
  BY DEF BillingInvariant, BillingTypeOK, ContractRow
<1>1. ASSUME NEW p \in Payers, CheckoutCompleted(s, p) PROVE BillingInvariant'
  <2>1. PICK new : new = [payer |-> p, status |-> "incomplete"]
    OBVIOUS
  <2>2. new \in ContractRow /\ new.payer \in Payers
    BY <2>1 DEF ContractRow, Statuses
  <2>3. /\ contracts' = [contracts EXCEPT ![s] = new] /\ Emit("checkout", s, p, "checkout_pending")
        /\ UNCHANGED <<stripeTime, hooks, received, row, invoice>>
    BY <1>1, <2>1 DEF CheckoutCompleted
  <2>4. /\ contracts' \in [Contracts -> ContractRow]
        /\ \A x \in Contracts : contracts'[x].status # "none" => contracts'[x].payer \in Payers
    BY <1>0, <2>2, <2>3
  <2>5. "checkout_pending" \in Statuses
    BY DEF Statuses
  <2> QED
    BY <2>3, <2>4, <2>5, EmitStep DEF ContractRow
<1>2. ASSUME NEW status \in {"active", "past_due", "canceled"}, ContractChanges(s, status) PROVE BillingInvariant'
  <2>1. PICK old \in ContractRow : old = contracts[s]
    BY <1>0
  <2>2. PICK new : new = [old EXCEPT !.status = status]
    OBVIOUS
  <2>3. new \in ContractRow /\ new.payer = old.payer /\ status \in Statuses
    BY <2>2 DEF ContractRow, Statuses
  <2>4. /\ contracts' = [contracts EXCEPT ![s] = new] /\ Emit("contract", s, old.payer, status) /\ old.status # "none"
        /\ UNCHANGED <<stripeTime, hooks, received, row, invoice>>
    BY <1>0, <1>2, <2>1, <2>2 DEF ContractChanges
  <2>5. old.payer \in Payers
    BY <1>0, <2>1, <2>4
  <2>6. /\ contracts' \in [Contracts -> ContractRow]
        /\ \A x \in Contracts : contracts'[x].status # "none" => contracts'[x].payer \in Payers
    BY <1>0, <2>3, <2>4, <2>5
  <2> QED
    BY <2>3, <2>4, <2>5, <2>6, EmitStep DEF ContractRow
<1>3. ASSUME NEW status \in {"open", "paid"}, InvoiceChanges(s, status) PROVE BillingInvariant'
  <2>1. /\ contracts[s].payer \in Payers /\ Emit("invoice", s, contracts[s].payer, status)
        /\ UNCHANGED <<contracts, stripeTime, hooks, received, row, invoice>>
    BY <1>0, <1>3 DEF InvoiceChanges
  <2> QED
    BY <1>0, <2>1, EmitStep DEF ContractRow
<1> QED
  BY <1>1, <1>2, <1>3

\* A webhook's steps: the event is inserted, the row is read, written or left.
LEMMA WebhookStep ==
  ASSUME BillingInvariant, NEW h \in Hooks,
         \/ \E e \in outbound : Deliver(h, e)
         \/ ReadRow(h) \/ WriteRow(h) \/ ApplyInvoice(h) \/ HookFails(h)
  PROVE  BillingInvariant'
<1>0. hooks \in [Hooks -> HookRow] /\ Distinct(outbound)
  BY BillingParts
<1>1. ASSUME NEW e \in outbound, Deliver(h, e) PROVE BillingInvariant'
  <2>1. PICK new : new = [step |-> "inserted", event |-> e.stamp]
    OBVIOUS
  <2>2. new \in HookRow /\ new.step = "inserted" /\ new.event = e.stamp
    BY <1>0, <2>1 DEF HookRow, Distinct, Event
  <2>3. /\ hooks' = [hooks EXCEPT ![h] = new]
        /\ UNCHANGED <<contracts, outbound, stripeTime, received, row, invoice>>
    BY <1>1, <2>1 DEF Deliver
  <2> QED
    BY <2>2, <2>3, HookStep
<1>2. CASE HookFails(h)
  <2>1. /\ hooks' = [hooks EXCEPT ![h] = NoHook]
        /\ UNCHANGED <<contracts, outbound, stripeTime, received, row, invoice>>
    BY <1>2 DEF HookFails
  <2> QED
    BY <2>1, EndedHook, HookStep
<1>3. CASE ReadRow(h)
  <2>1. PICK e : e = EventOf(h)
    OBVIOUS
  <2>2. hooks[h].step = "inserted" /\ e.kind # "invoice" /\ UNCHANGED <<contracts, outbound, stripeTime, row, invoice>>
    BY <1>3, <2>1 DEF ReadRow
  <2>3. e \in outbound /\ e.stamp = hooks[h].event
    BY <2>1, <2>2, HookEvent
  <2>4. ASSUME NEW st \in {"first", "locked"}, hooks' = [hooks EXCEPT ![h].step = st], UNCHANGED received
        PROVE  BillingInvariant'
    <3>1. PICK old \in HookRow : old = hooks[h]
      BY <1>0
    <3>2. PICK new : new = [old EXCEPT !.step = st]
      OBVIOUS
    <3>3. new \in HookRow /\ new.event = old.event
      BY <3>2 DEF HookRow
    <3>4. hooks' = [hooks EXCEPT ![h] = new]
      BY <1>0, <2>4, <3>1, <3>2
    <3>5. \E x \in outbound : x.stamp = new.event /\ (new.step \in {"first", "locked"} => x.kind # "invoice")
      BY <2>2, <2>3, <3>1, <3>3
    <3>6. UNCHANGED <<contracts, outbound, stripeTime, received, row, invoice>>
      BY <2>2, <2>4
    <3> QED
      BY <3>3, <3>4, <3>5, <3>6, HookStep
  <2>5. ASSUME ~IsNewer(e.stamp, row.stamp), hooks' = [hooks EXCEPT ![h] = NoHook], received' = received \cup {e}
        PROVE  BillingInvariant'
    <3>1. row' = IF IsNewer(e.stamp, row.stamp)
                 THEN [payer |-> e.payer, contract |-> e.contract, status |-> e.status, stamp |-> e.stamp] ELSE row
      BY <2>2, <2>5
    <3> QED
      BY <2>2, <2>3, <2>5, <3>1, RowWritten
  <2>6. \/ hooks' = [hooks EXCEPT ![h].step = "first"] /\ UNCHANGED received
        \/ hooks' = [hooks EXCEPT ![h].step = "locked"] /\ UNCHANGED received
        \/ ~IsNewer(e.stamp, row.stamp) /\ hooks' = [hooks EXCEPT ![h] = NoHook] /\ received' = received \cup {e}
    BY <1>3, <2>1 DEF ReadRow
  <2> QED
    BY <2>4, <2>5, <2>6
<1>4. CASE WriteRow(h)
  <2>1. PICK e : e = EventOf(h)
    OBVIOUS
  <2>2. /\ hooks[h].step \in {"first", "locked"} /\ UNCHANGED <<contracts, outbound, stripeTime, invoice>>
        /\ hooks' = [hooks EXCEPT ![h] = NoHook] /\ received' = received \cup {e}
        /\ row' = IF IsNewer(e.stamp, row.stamp)
                  THEN [payer |-> e.payer, contract |-> e.contract, status |-> e.status, stamp |-> e.stamp] ELSE row
    BY <1>4, <2>1 DEF WriteRow, UpsertTakes
  <2>3. e \in outbound /\ e.kind # "invoice"
    BY <2>1, <2>2, HookEvent
  <2> QED
    BY <2>2, <2>3, RowWritten
<1>5. CASE ApplyInvoice(h)
  <2>1. PICK e : e = EventOf(h)
    OBVIOUS
  <2>2. /\ hooks[h].step = "inserted" /\ UNCHANGED <<contracts, outbound, stripeTime, row>>
        /\ hooks' = [hooks EXCEPT ![h] = NoHook] /\ received' = received \cup {e} /\ e.kind = "invoice"
        /\ invoice' = IF IsNewer(e.stamp, invoice.stamp) THEN [status |-> e.status, stamp |-> e.stamp] ELSE invoice
    BY <1>5, <2>1 DEF ApplyInvoice
  <2>3. e \in outbound
    BY <2>1, <2>2, HookEvent
  <2> QED
    BY <2>2, <2>3, InvoiceWritten
<1> QED
  BY <1>1, <1>2, <1>3, <1>4, <1>5

\* Every step keeps the invariant of the bills.
LEMMA BillingStep ==
  ASSUME BillingInvariant, [BillingNext]_billingVars
  PROVE  BillingInvariant'
<1>1. CASE StripeSecond
  <2>1. stripeTime' \in 0..MaxClock /\ UNCHANGED <<contracts, outbound, hooks, received, row, invoice>>
    BY <1>1, StripeEventsAssumption DEF StripeSecond, BillingInvariant, BillingTypeOK
  <2> QED
    BY <2>1 DEF BillingInvariant, BillingTypeOK, EventsFit, HooksFit, RowFollowsNewest
<1>2. CASE UNCHANGED billingVars
  BY <1>2 DEF billingVars, BillingInvariant, BillingTypeOK, EventsFit, HooksFit, RowFollowsNewest
<1> QED
  BY <1>1, <1>2, StripeStep, WebhookStep DEF BillingNext

\* At first there are no subscriptions, no events and no rows.
LEMMA BillingStart ==
  ASSUME BillingInit PROVE BillingInvariant
<1>1. NoStamp \in Stamps /\ 0 \in 0..MaxClock
  BY StripeEventsAssumption DEF NoStamp, Stamps
<1>2. PICK none : none = [payer |-> NoContract, status |-> "none"]
  OBVIOUS
<1>3. none \in ContractRow /\ none.status = "none"
  BY <1>2 DEF ContractRow, Statuses
<1>4. \A s \in Contracts : contracts[s] = none
  BY <1>2 DEF BillingInit
<1>5. contracts \in [Contracts -> ContractRow] /\ hooks \in [Hooks -> HookRow]
  BY <1>2, <1>3, EndedHook DEF BillingInit
<1>6. NoAccountRow \in RowType /\ NoAccountRow.stamp = NoStamp
  BY <1>1 DEF NoAccountRow, RowType, Statuses
<1>7. NoBill \in [status : {"none", "open", "paid"}, stamp : Stamps] /\ NoBill.stamp = NoStamp
  BY <1>1 DEF NoBill
<1>8. BillingTypeOK
  BY <1>1, <1>5, <1>6, <1>7 DEF BillingInit, BillingTypeOK, ContractRow, HookRow, RowType
<1>9. \A h \in Hooks : hooks[h].step = "none"
  BY EndedHook DEF BillingInit
<1>10. EventsFit /\ HooksFit
  BY <1>9 DEF BillingInit, EventsFit, HooksFit
<1>11. RowFollowsNewest
  BY <1>6, <1>7 DEF BillingInit, RowFollowsNewest, Shows
<1> QED
  BY <1>3, <1>4, <1>8, <1>10, <1>11 DEF BillingInvariant

-----------------------------------------------------------------------------
(* The instance's billing: the steps.                                        *)

\* The settings and what is stored beside them, one at a time.
LEMMA InstanceParts ==
  ASSUME InstanceInvariant
  PROVE  /\ inst.mode \in {"unconfigured", "private"} \cup Paid /\ inst.complete \in {0, 1}
         /\ acct.mode \in {"none"} \cup Paid /\ acct.id \in Accounts /\ acct.status \in {"none", "pending", "enabled"}
         /\ secrets.byo \in Accounts /\ secrets.connect \in {0, 1}
         /\ catalog.of \in Accounts /\ catalog.price \in 0..MaxPrice
         /\ plan.price \in 0..MaxPrice /\ plan.active \in {0, 1}
         /\ tenant \in Accounts /\ setupLock \in Operators \cup {NoAccount} /\ raced \in {0, 1}
         /\ admins \in [Operators -> AdminRow]
         /\ \A s \in Operators : AdminShaped(admins[s]) /\ SetupFits(s, admins[s])
BY DEF InstanceInvariant, InstanceTypeOK, Accounts

\* A waiting row asks for nothing.
LEMMA IdleRow ==
  /\ Idle \in AdminRow /\ AdminShaped(Idle) /\ Idle.op = "none" /\ Idle.late = 0
  /\ [Idle EXCEPT !.op = "reload"] \in AdminRow /\ AdminShaped([Idle EXCEPT !.op = "reload"])
  /\ [Idle EXCEPT !.op = "reload"].op = "reload"
<1>1. 0 \in 0..MaxPrice
  BY InstanceAssumption
<1>2. Idle \in AdminRow /\ Idle.op = "none" /\ Idle.late = 0
  BY <1>1 DEF Idle, AdminRow, Accounts
<1>3. [Idle EXCEPT !.op = "reload"] = [op |-> "reload", mode |-> "none", id |-> NoAccount, status |-> "none",
                                       saw |-> NoAccount, price |-> 0, late |-> 0]
  BY DEF Idle
<1>4. PICK r : r = [op |-> "reload", mode |-> "none", id |-> NoAccount, status |-> "none",
                    saw |-> NoAccount, price |-> 0, late |-> 0]
  OBVIOUS
<1>5. r \in AdminRow /\ r.op = "reload"
  BY <1>1, <1>4 DEF AdminRow, Accounts
<1>6. AdminShaped(r) /\ AdminShaped(Idle)
  BY <1>2, <1>5 DEF AdminShaped
<1> QED
  BY <1>2, <1>3, <1>4, <1>5, <1>6

\* A request reads, asks Stripe or ends; the tables stay.
LEMMA AdminStep ==
  ASSUME InstanceInvariant, NEW s \in Operators, NEW new \in AdminRow, admins' = [admins EXCEPT ![s] = new],
         UNCHANGED <<inst, acct, secrets, catalog, plan, tenant>>,
         provider' \in [account : StripeAccounts \cup {NoAccount}, catalog : StripeAccounts \cup {NoAccount}],
         setupLock' \in Operators \cup {NoAccount}, raced' \in {0, 1}, raced' = 0 => raced = 0,
         AdminShaped(new),
         new.op = "setup" =>
           /\ setupLock' = s
           /\ new.saw # NoAccount => inst.mode = new.mode /\ acct.mode = new.mode /\ acct.id # NoAccount,
         raced = 0 /\ new.late = 0 => RefreshFits(new) /\ PlanFits(new),
         \A x \in Operators : x # s /\ admins[x].op = "setup" => setupLock' = x
  PROVE  InstanceInvariant'
<1>0. admins \in [Operators -> AdminRow] /\ \A x \in Operators : AdminShaped(admins[x]) /\ SetupFits(x, admins[x])
  BY InstanceParts
<1>1. admins' \in [Operators -> AdminRow] /\ admins'[s] = new /\ \A x \in Operators : x # s => admins'[x] = admins[x]
  BY <1>0
<1>2. InstanceTypeOK'
  BY DEF InstanceInvariant, InstanceTypeOK
<1>3. \A x \in Operators : AdminShaped(admins'[x])
  BY <1>0, <1>1
<1>4. \A x \in Operators : SetupFits(x, admins[x])'
  <2> SUFFICES ASSUME NEW x \in Operators PROVE SetupFits(x, admins[x])'
    OBVIOUS
  <2>1. CASE x = s
    BY <1>1, <2>1 DEF SetupFits
  <2>2. CASE x # s
    BY <1>0, <1>1, <2>2 DEF SetupFits
  <2> QED
    BY <2>1, <2>2
<1>5. (raced = 0 => ModeFits)' /\ SetupSound' /\ TenantsKeepAccount'
  BY DEF InstanceInvariant, ModeFits, SetupSound, SecretsFit, TenantsKeepAccount
<1>6. (\A x \in Operators : raced = 0 /\ admins[x].late = 0 => RefreshFits(admins[x]) /\ PlanFits(admins[x]))'
  <2>1. \A x \in Operators : raced = 0 /\ admins'[x].late = 0 => RefreshFits(admins'[x]) /\ PlanFits(admins'[x])
    BY <1>1 DEF InstanceInvariant
  <2> QED
    BY <2>1 DEF RefreshFits, PlanFits
<1>7. (\A x \in Operators : AdminShaped(admins[x]))'
  BY <1>3 DEF AdminShaped
<1> QED
  BY <1>1, <1>2, <1>4, <1>5, <1>6, <1>7 DEF InstanceInvariant

\* What a commit leaves of the requests.
LEMMA Overtaken ==
  ASSUME InstanceInvariant, NEW s \in Operators, NEW next \in AdminRow, AdminShaped(next),
         next.op \in {"none", "reload"}, Overtake(s, next)
  PROVE  /\ admins' \in [Operators -> AdminRow]
         /\ \A x \in Operators :
              /\ AdminShaped(admins'[x]) /\ (admins'[x].late = 1 \/ admins'[x].op \in {"none", "reload"})
              /\ admins'[x].op = "setup" => /\ x # s /\ admins[x].op = "setup" /\ admins'[x].mode = admins[x].mode
                                            /\ admins'[x].saw = admins[x].saw
<1>0. admins \in [Operators -> AdminRow] /\ \A x \in Operators : AdminShaped(admins[x])
  BY InstanceParts
<1>1. admins' = [x \in Operators |-> IF x = s THEN next
                   ELSE IF admins[x] = Idle THEN Idle ELSE [admins[x] EXCEPT !.late = 1]]
  BY DEF Overtake
<1>2. ASSUME NEW x \in Operators
      PROVE  /\ admins'[x] \in AdminRow
             /\ AdminShaped(admins'[x]) /\ (admins'[x].late = 1 \/ admins'[x].op \in {"none", "reload"})
             /\ admins'[x].op = "setup" => /\ x # s /\ admins[x].op = "setup" /\ admins'[x].mode = admins[x].mode
                                           /\ admins'[x].saw = admins[x].saw
  <2>1. CASE x = s
    BY <1>1, <2>1
  <2>2. CASE x # s /\ admins[x] = Idle
    <3>1. admins'[x] = Idle
      BY <1>1, <2>2
    <3> QED
      BY <3>1, IdleRow
  <2>3. CASE x # s /\ admins[x] # Idle
    <3>1. PICK old \in AdminRow : old = admins[x]
      BY <1>0
    <3>2. PICK new : new = [old EXCEPT !.late = 1]
      OBVIOUS
    <3>3. admins'[x] = new
      BY <1>1, <2>3, <3>1, <3>2
    <3>4. /\ new \in AdminRow /\ new.late = 1 /\ new.op = old.op /\ new.mode = old.mode /\ new.saw = old.saw
          /\ new.status = old.status
      BY <3>2 DEF AdminRow
    <3>5. AdminShaped(old) /\ old # Idle
      BY <1>0, <2>3, <3>1
    <3>6. AdminShaped(new)
      BY <3>4, <3>5 DEF AdminShaped
    <3> QED
      BY <2>3, <3>1, <3>3, <3>4, <3>6
  <2> QED
    BY <2>1, <2>2, <2>3
<1>3. admins' \in [Operators -> AdminRow]
  BY <1>1, <1>2
<1> QED
  BY <1>2, <1>3

\* A commit that leaves the tables right leaves the invariant.
LEMMA CommitStep ==
  ASSUME InstanceInvariant, NEW s \in Operators, NEW next \in AdminRow, AdminShaped(next),
         next.op \in {"none", "reload"}, Overtake(s, next),
         InstanceTypeOK', raced' = 0 => ModeFits', SetupSound', TenantsKeepAccount',
         \A x \in Operators : x # s /\ admins[x].op = "setup" => UNCHANGED <<inst, acct, setupLock>>
  PROVE  InstanceInvariant'
<1>0. \A x \in Operators : SetupFits(x, admins[x])
  BY InstanceParts
<1>1. /\ admins' \in [Operators -> AdminRow]
      /\ \A x \in Operators :
           /\ AdminShaped(admins'[x]) /\ (admins'[x].late = 1 \/ admins'[x].op \in {"none", "reload"})
           /\ admins'[x].op = "setup" => /\ x # s /\ admins[x].op = "setup" /\ admins'[x].mode = admins[x].mode
                                         /\ admins'[x].saw = admins[x].saw
  BY Overtaken
<1>2. (\A x \in Operators : AdminShaped(admins[x]))'
  BY <1>1 DEF AdminShaped
<1>3. \A x \in Operators : SetupFits(x, admins[x])'
  <2> SUFFICES ASSUME NEW x \in Operators, admins'[x].op = "setup" PROVE SetupFits(x, admins[x])'
    BY DEF SetupFits
  <2>1. /\ admins[x].op = "setup" /\ admins'[x].mode = admins[x].mode /\ admins'[x].saw = admins[x].saw
        /\ UNCHANGED <<inst, acct, setupLock>>
    BY <1>1
  <2> QED
    BY <1>0, <2>1 DEF SetupFits
<1>4. (\A x \in Operators : raced = 0 /\ admins[x].late = 0 => RefreshFits(admins[x]) /\ PlanFits(admins[x]))'
  BY <1>1 DEF RefreshFits, PlanFits
<1> QED
  BY <1>1, <1>2, <1>3, <1>4 DEF InstanceInvariant

\* A setup begins: the settings row is locked.
LEMMA SetupBegins ==
  ASSUME InstanceInvariant, NEW s \in Operators, NEW mode \in {"private", "byo", "connect"}, BeginSetup(s, mode)
  PROVE  InstanceInvariant'
<1>1. PICK new : new = [Idle EXCEPT !.op = "setup", !.mode = mode, !.saw = tenant]
  OBVIOUS
<1>2. new = [op |-> "setup", mode |-> mode, id |-> NoAccount, status |-> "none", saw |-> tenant, price |-> 0, late |-> 0]
  BY <1>1 DEF Idle
<1>3. tenant \in Accounts /\ 0 \in 0..MaxPrice
  BY InstanceParts, InstanceAssumption
<1>4. new \in AdminRow /\ new.op = "setup" /\ new.mode = mode /\ new.saw = tenant
  BY <1>2, <1>3 DEF AdminRow, Accounts, Paid
<1>5. AdminShaped(new) /\ RefreshFits(new) /\ PlanFits(new)
  BY <1>4 DEF AdminShaped, RefreshFits, PlanFits
<1>6. /\ setupLock = NoAccount /\ ReconfigurationSafe(mode) /\ setupLock' = s /\ admins' = [admins EXCEPT ![s] = new]
      /\ UNCHANGED <<inst, acct, secrets, catalog, plan, provider, tenant, raced>>
  BY <1>1 DEF BeginSetup
<1>7. \A x \in Operators : admins[x].op # "setup"
  BY <1>6, InstanceParts, InstanceAssumption DEF SetupFits
<1>8. provider \in [account : StripeAccounts \cup {NoAccount}, catalog : StripeAccounts \cup {NoAccount}] /\ raced \in {0, 1}
  BY DEF InstanceInvariant, InstanceTypeOK
<1> QED
  BY <1>4, <1>5, <1>6, <1>7, <1>8, AdminStep DEF ReconfigurationSafe

\* A request whose row changes and nothing else.
LEMMA QuietStep ==
  ASSUME InstanceInvariant, NEW s \in Operators, NEW new \in AdminRow, admins' = [admins EXCEPT ![s] = new],
         UNCHANGED <<inst, acct, secrets, catalog, plan, tenant, setupLock>>,
         provider' \in [account : StripeAccounts \cup {NoAccount}, catalog : StripeAccounts \cup {NoAccount}],
         raced' \in {0, 1}, raced' = 0 => raced = 0,
         AdminShaped(new), new.op # "setup", raced = 0 /\ new.late = 0 => RefreshFits(new) /\ PlanFits(new)
  PROVE  InstanceInvariant'
<1>1. setupLock' \in Operators \cup {NoAccount} /\ \A x \in Operators : x # s /\ admins[x].op = "setup" => setupLock' = x
  BY InstanceParts DEF SetupFits
<1> QED
  BY <1>1, AdminStep

\* A refresh reads the mode and the account.
LEMMA RefreshBegins ==
  ASSUME InstanceInvariant, NEW s \in Operators, BeginRefresh(s)
  PROVE  InstanceInvariant'
<1>1. PICK new : new = [Idle EXCEPT !.op = "refresh", !.mode = inst.mode, !.id = acct.id]
  OBVIOUS
<1>2. new = [op |-> "refresh", mode |-> inst.mode, id |-> acct.id, status |-> "none", saw |-> NoAccount,
             price |-> 0, late |-> 0]
  BY <1>1 DEF Idle
<1>3. acct.id \in Accounts /\ 0 \in 0..MaxPrice /\ inst.mode \in Paid /\ raced \in {0, 1}
      /\ provider \in [account : StripeAccounts \cup {NoAccount}, catalog : StripeAccounts \cup {NoAccount}]
  BY InstanceParts, InstanceAssumption DEF BeginRefresh, InstanceInvariant, InstanceTypeOK
<1>4. new \in AdminRow /\ new.op = "refresh" /\ new.mode = inst.mode /\ new.id = acct.id
  BY <1>2, <1>3 DEF AdminRow, Accounts, Paid
<1>5. AdminShaped(new) /\ RefreshFits(new) /\ PlanFits(new)
  BY <1>3, <1>4 DEF AdminShaped, RefreshFits, PlanFits
<1>6. /\ admins' = [admins EXCEPT ![s] = new]
      /\ UNCHANGED <<inst, acct, secrets, catalog, plan, provider, tenant, setupLock, raced>>
  BY <1>1 DEF BeginRefresh
<1> QED
  BY <1>3, <1>4, <1>5, <1>6, QuietStep

\* A refresh asks Stripe with the stored key, which is the account's.
LEMMA StripeAnswers ==
  ASSUME InstanceInvariant, NEW s \in Operators, NEW status \in {"pending", "enabled"}, AskStripe(s, status)
  PROVE  InstanceInvariant'
<1>0. /\ admins \in [Operators -> AdminRow] /\ AdminShaped(admins[s]) /\ secrets.byo \in Accounts /\ raced \in {0, 1}
      /\ provider \in [account : StripeAccounts \cup {NoAccount}, catalog : StripeAccounts \cup {NoAccount}]
  BY InstanceParts DEF InstanceInvariant, InstanceTypeOK
<1>1. PICK old \in AdminRow : old = admins[s]
  BY <1>0
<1>2. PICK a : a = IF old.mode = "byo" THEN secrets.byo ELSE old.id
  OBVIOUS
<1>3. PICK new : new = [old EXCEPT !.op = "refreshed", !.status = status, !.id = a]
  OBVIOUS
<1>4. admins' = [admins EXCEPT ![s] = new]
  BY <1>0, <1>1, <1>2, <1>3 DEF AskStripe
<1>5. a \in Accounts
  BY <1>0, <1>2 DEF AdminRow
<1>6. /\ new \in AdminRow /\ new.op = "refreshed" /\ new.status = status /\ new.id = a /\ new.mode = old.mode
      /\ new.late = old.late
  BY <1>3, <1>5 DEF AdminRow
<1>7. old.op = "refresh" /\ UNCHANGED <<inst, acct, secrets, catalog, plan, provider, tenant, setupLock, raced>>
  BY <1>1 DEF AskStripe, Doing
<1>8. AdminShaped(new) /\ PlanFits(new)
  BY <1>0, <1>1, <1>6, <1>7 DEF AdminShaped, PlanFits
<1>9. raced = 0 /\ new.late = 0 => RefreshFits(new)
  <2> SUFFICES ASSUME raced = 0, new.late = 0 PROVE RefreshFits(new)
    OBVIOUS
  <2>1. old.mode = inst.mode /\ old.id = acct.id
    BY <1>1, <1>6, <1>7 DEF InstanceInvariant, RefreshFits
  <2>2. inst.mode = "byo" => acct.id = secrets.byo
    BY DEF InstanceInvariant, ModeFits
  <2> QED
    BY <1>2, <1>6, <2>1, <2>2 DEF RefreshFits
<1> QED
  BY <1>0, <1>4, <1>6, <1>7, <1>8, <1>9, QuietStep

\* The provider is rebuilt in two steps.
LEMMA ProviderStep ==
  ASSUME InstanceInvariant, NEW s \in Operators, ReadBinding(s) \/ ActivateProvider(s)
  PROVE  InstanceInvariant'
<1>0. /\ admins \in [Operators -> AdminRow] /\ secrets.byo \in Accounts /\ catalog.of \in Accounts /\ raced \in {0, 1}
      /\ acct.id \in Accounts /\ 0 \in 0..MaxPrice /\ admins[s].id \in Accounts
      /\ inst.mode \in {"unconfigured", "private"} \cup Paid
      /\ provider \in [account : StripeAccounts \cup {NoAccount}, catalog : StripeAccounts \cup {NoAccount}]
  BY InstanceParts, InstanceAssumption DEF InstanceInvariant, InstanceTypeOK, AdminRow
<1>1. Off \in [account : StripeAccounts \cup {NoAccount}, catalog : StripeAccounts \cup {NoAccount}]
  BY DEF Off
<1>2. RefreshFits(Idle) /\ PlanFits(Idle) /\ Idle.op # "setup"
  BY IdleRow DEF RefreshFits, PlanFits
<1>3. CASE ReadBinding(s) /\ provider' = Off /\ admins' = [admins EXCEPT ![s] = Idle]
  <2>1. UNCHANGED <<inst, acct, secrets, catalog, plan, tenant, setupLock, raced>>
    BY <1>3 DEF ReadBinding
  <2> QED
    BY <1>0, <1>1, <1>2, <1>3, <2>1, IdleRow, QuietStep
<1>4. CASE /\ ReadBinding(s) /\ UNCHANGED provider
           /\ admins' = [admins EXCEPT ![s] = [Idle EXCEPT !.op = "activate", !.mode = inst.mode, !.id = acct.id]]
  <2>1. PICK new : new = [Idle EXCEPT !.op = "activate", !.mode = inst.mode, !.id = acct.id]
    OBVIOUS
  <2>2. new = [op |-> "activate", mode |-> inst.mode, id |-> acct.id, status |-> "none", saw |-> NoAccount,
               price |-> 0, late |-> 0]
    BY <2>1 DEF Idle
  <2>3. new \in AdminRow /\ new.op = "activate"
    BY <1>0, <2>2 DEF AdminRow, Accounts, Paid
  <2>4. AdminShaped(new) /\ RefreshFits(new) /\ PlanFits(new)
    BY <2>3 DEF AdminShaped, RefreshFits, PlanFits
  <2>5. UNCHANGED <<inst, acct, secrets, catalog, plan, tenant, setupLock, raced>>
    BY <1>4 DEF ReadBinding
  <2> QED
    BY <1>0, <1>4, <2>1, <2>3, <2>4, <2>5, QuietStep
<1>5. CASE ActivateProvider(s)
  <2>1. PICK a : a = IF admins[s].mode = "byo" THEN secrets.byo ELSE admins[s].id
    OBVIOUS
  <2>2. PICK p : p = [account |-> a, catalog |-> catalog.of]
    OBVIOUS
  <2>3. p \in [account : StripeAccounts \cup {NoAccount}, catalog : StripeAccounts \cup {NoAccount}]
    BY <1>0, <2>1, <2>2 DEF Accounts
  <2>4. provider' = p \/ provider' = provider
    BY <1>5, <2>1, <2>2 DEF ActivateProvider
  <2>5. /\ admins' = [admins EXCEPT ![s] = Idle] /\ raced' \in {0, 1} /\ (raced' = 0 => raced = 0)
        /\ UNCHANGED <<inst, acct, secrets, catalog, plan, tenant, setupLock>>
    BY <1>0, <1>5 DEF ActivateProvider, Race
  <2> QED
    BY <1>0, <1>2, <2>3, <2>4, <2>5, IdleRow, QuietStep
<1> QED
  BY <1>3, <1>4, <1>5 DEF ReadBinding

\* A plan is checked against the catalog.
LEMMA PlanChecked ==
  ASSUME InstanceInvariant, NEW s \in Operators, NEW price \in 0..MaxPrice, NEW active \in {0, 1}, PutPlan(s, price, active)
  PROVE  InstanceInvariant'
<1>0. /\ raced \in {0, 1}
      /\ provider \in [account : StripeAccounts \cup {NoAccount}, catalog : StripeAccounts \cup {NoAccount}]
  BY DEF InstanceInvariant, InstanceTypeOK
<1>1. PICK st : st = IF active = 1 THEN "active" ELSE "retired"
  OBVIOUS
<1>2. PICK new : new = [Idle EXCEPT !.op = "plan", !.price = price, !.status = st]
  OBVIOUS
<1>3. new = [op |-> "plan", mode |-> "none", id |-> NoAccount, status |-> st, saw |-> NoAccount,
             price |-> price, late |-> 0]
  BY <1>2 DEF Idle
<1>4. new \in AdminRow /\ new.op = "plan" /\ new.price = price /\ new.status = st
  BY <1>1, <1>3 DEF AdminRow, Accounts
<1>5. AdminShaped(new) /\ RefreshFits(new)
  BY <1>4 DEF AdminShaped, RefreshFits
<1>6. /\ admins' = [admins EXCEPT ![s] = new]
      /\ UNCHANGED <<inst, acct, secrets, catalog, plan, provider, tenant, setupLock, raced>>
      /\ (active = 1 /\ inst.mode \in Paid => price = catalog.price)
  BY <1>1, <1>2 DEF PutPlan
<1>7. raced = 0 => PlanFits(new)
  <2>1. raced = 0 => (inst.mode \notin Paid => catalog.of = NoAccount)
    BY DEF InstanceInvariant, ModeFits
  <2> QED
    BY <1>1, <1>4, <1>6, <2>1 DEF PlanFits
<1> QED
  BY <1>0, <1>4, <1>5, <1>6, <1>7, QuietStep

\* A request fails, and a setup that held the settings row lets it go.
LEMMA FailStep ==
  ASSUME InstanceInvariant, NEW s \in Operators, RequestFails(s)
  PROVE  InstanceInvariant'
<1>1. /\ admins' = [admins EXCEPT ![s] = Idle] /\ setupLock' = IF setupLock = s THEN NoAccount ELSE setupLock
      /\ UNCHANGED <<inst, acct, secrets, catalog, plan, provider, tenant, raced>>
  BY DEF RequestFails
<1>2. /\ setupLock' \in Operators \cup {NoAccount}
      /\ \A x \in Operators : x # s /\ admins[x].op = "setup" => setupLock' = x
  BY <1>1, InstanceParts DEF SetupFits
<1>3. RefreshFits(Idle) /\ PlanFits(Idle) /\ Idle.op # "setup"
  BY IdleRow DEF RefreshFits, PlanFits
<1>4. /\ raced \in {0, 1}
      /\ provider \in [account : StripeAccounts \cup {NoAccount}, catalog : StripeAccounts \cup {NoAccount}]
  BY DEF InstanceInvariant, InstanceTypeOK
<1> QED
  BY <1>1, <1>2, <1>3, <1>4, IdleRow, AdminStep

\* A commit by a setup meets no other setup.
LEMMA SetupAlone ==
  ASSUME InstanceInvariant, NEW s \in Operators, admins[s].op = "setup" \/ setupLock = NoAccount
  PROVE  \A x \in Operators : x # s => admins[x].op # "setup"
BY InstanceParts, InstanceAssumption DEF SetupFits

\* An instance is made private: nothing is billed.
LEMMA PrivateStep ==
  ASSUME InstanceInvariant, NEW s \in Operators, SetupPrivate(s)
  PROVE  InstanceInvariant'
<1>0. /\ tenant \in Accounts /\ raced \in {0, 1} /\ acct.mode # "private" /\ plan.price \in 0..MaxPrice
      /\ SetupFits(s, admins[s]) /\ 0 \in 0..MaxPrice
  BY InstanceParts, InstanceAssumption DEF Paid
<1>1. /\ admins[s].op = "setup" /\ admins[s].mode = "private" /\ inst' = [mode |-> "private", complete |-> 1]
      /\ acct' = NoBinding /\ secrets' = NoSecrets /\ catalog' = NoCatalog /\ setupLock' = NoAccount
      /\ Overtake(s, Idle) /\ provider' = Off /\ UNCHANGED <<plan, tenant>>
      /\ Race(s, tenant \notin {NoAccount, admins[s].saw})
  BY DEF SetupPrivate, Doing
<1>2. admins[s].saw = NoAccount
  BY <1>0, <1>1 DEF SetupFits
<1>3. raced' \in {0, 1} /\ (raced' = 0 => tenant' = NoAccount)
  BY <1>0, <1>1, <1>2 DEF Race
<1>4. inst'.mode = "private" /\ secrets'.byo = NoAccount /\ secrets'.connect = 0 /\ catalog'.of = NoAccount
  BY <1>1 DEF NoSecrets, NoCatalog
<1>5. InstanceTypeOK'
  BY <1>0, <1>1, <1>3 DEF InstanceInvariant, InstanceTypeOK, NoBinding, NoSecrets, NoCatalog, Off, Paid
<1>6. ModeFits' /\ SetupSound' /\ TenantsKeepAccount'
  BY <1>3, <1>4 DEF ModeFits, SetupSound, SecretsFit, TenantsKeepAccount, Paid
<1> QED
  BY <1>1, <1>5, <1>6, IdleRow, SetupAlone, CommitStep

\* The catalog for an account is the account's.
LEMMA CatalogFits ==
  ASSUME InstanceInvariant, NEW a \in StripeAccounts
  PROVE  /\ CatalogFor(a) \in [of : StripeAccounts \cup {NoAccount}, price : 0..MaxPrice] /\ CatalogFor(a).of = a
         /\ catalog.of # a => CatalogFor(a).price = plan.price
         /\ catalog.of = a => CatalogFor(a) = catalog
<1>1. plan.price \in 0..MaxPrice /\ catalog \in [of : StripeAccounts \cup {NoAccount}, price : 0..MaxPrice]
  BY DEF InstanceInvariant, InstanceTypeOK
<1>2. PICK new : new = [of |-> a, price |-> plan.price]
  OBVIOUS
<1>3. /\ new \in [of : StripeAccounts \cup {NoAccount}, price : 0..MaxPrice] /\ new.of = a /\ new.price = plan.price
  BY <1>1, <1>2
<1> QED
  BY <1>1, <1>2, <1>3 DEF CatalogFor

\* The instance's own account is configured.
LEMMA ByoStep ==
  ASSUME InstanceInvariant, NEW s \in Operators, NEW a \in StripeAccounts, NEW status \in {"pending", "enabled"},
         ConfigureByo(s, a, status)
  PROVE  InstanceInvariant'
<1>0. tenant \in Accounts /\ raced \in {0, 1} /\ SetupFits(s, admins[s]) /\ a # NoAccount
  BY InstanceParts, InstanceAssumption
<1>1. PICK cat, ready : cat = CatalogFor(a) /\ ready = IF status = "enabled" THEN 1 ELSE 0
  OBVIOUS
<1>2. cat \in [of : StripeAccounts \cup {NoAccount}, price : 0..MaxPrice] /\ cat.of = a /\ ready \in {0, 1}
  BY <1>1, CatalogFits
<1>3. /\ admins[s].op = "setup" /\ admins[s].mode = "byo" /\ (admins[s].saw # NoAccount => a = acct.id)
      /\ (plan.active = 1 => cat.price = plan.price)
      /\ inst' = [mode |-> "byo", complete |-> ready] /\ secrets' = [byo |-> a, connect |-> 0]
      /\ acct' = [mode |-> "byo", id |-> a, status |-> status] /\ catalog' = cat /\ setupLock' = NoAccount
      /\ Overtake(s, [Idle EXCEPT !.op = "reload"]) /\ UNCHANGED <<plan, provider, tenant>>
      /\ Race(s, tenant \notin {NoAccount, a, admins[s].saw})
  BY <1>1 DEF ConfigureByo, Doing
<1>4. raced' \in {0, 1} /\ (raced' = 0 => raced = 0 /\ tenant \in {NoAccount, a, admins[s].saw})
  BY <1>0, <1>3 DEF Race
<1>5. /\ inst'.mode = "byo" /\ inst'.complete = ready /\ secrets'.byo = a /\ secrets'.connect = 0
      /\ acct'.mode = "byo" /\ acct'.id = a /\ acct'.status = status /\ catalog'.of = a /\ catalog'.price = cat.price
  BY <1>2, <1>3
<1>6. InstanceTypeOK'
  BY <1>2, <1>3, <1>4 DEF InstanceInvariant, InstanceTypeOK, Paid
<1>7. ModeFits' /\ SetupSound'
  BY <1>0, <1>1, <1>3, <1>5 DEF ModeFits, SetupSound, SecretsFit, Paid
<1>8. TenantsKeepAccount'
  <2> SUFFICES ASSUME raced' = 0, tenant # NoAccount PROVE a = tenant
    BY <1>3, <1>5 DEF TenantsKeepAccount
  <2>1. acct.id = tenant
    BY <1>4 DEF InstanceInvariant, TenantsKeepAccount
  <2> QED
    BY <1>3, <1>4, <2>1
<1> QED
  BY <1>3, <1>6, <1>7, <1>8, IdleRow, SetupAlone, CommitStep

\* A connected account is configured.
LEMMA ConnectStep ==
  ASSUME InstanceInvariant, NEW s \in Operators, NEW a \in StripeAccounts, NEW status \in {"pending", "enabled"},
         ConfigureConnect(s, a, status)
  PROVE  InstanceInvariant'
<1>0. tenant \in Accounts /\ raced \in {0, 1} /\ SetupFits(s, admins[s]) /\ a # NoAccount /\ 0 \in 0..MaxPrice
  BY InstanceParts, InstanceAssumption
<1>1. /\ admins[s].op = "setup" /\ admins[s].mode = "connect"
      /\ (inst.mode = "connect" /\ acct.mode = "connect" /\ acct.id # NoAccount => a = acct.id)
      /\ inst' = [mode |-> "connect", complete |-> 0] /\ secrets' = [byo |-> NoAccount, connect |-> 1]
      /\ acct' = [mode |-> "connect", id |-> a, status |-> status] /\ catalog' = NoCatalog /\ setupLock' = NoAccount
      /\ Overtake(s, [Idle EXCEPT !.op = "reload"]) /\ UNCHANGED <<plan, provider, tenant>>
      /\ Race(s, tenant \notin {NoAccount, a, admins[s].saw})
  BY DEF ConfigureConnect, ConnectComplete, Doing
<1>2. admins[s].saw # NoAccount => a = acct.id
  BY <1>0, <1>1 DEF SetupFits
<1>3. raced' \in {0, 1} /\ (raced' = 0 => raced = 0 /\ tenant \in {NoAccount, a, admins[s].saw})
  BY <1>0, <1>1 DEF Race
<1>4. /\ inst'.mode = "connect" /\ inst'.complete = 0 /\ secrets'.byo = NoAccount /\ secrets'.connect = 1
      /\ acct'.mode = "connect" /\ acct'.id = a /\ catalog'.of = NoAccount
  BY <1>1 DEF NoCatalog
<1>5. InstanceTypeOK'
  BY <1>0, <1>1, <1>3 DEF InstanceInvariant, InstanceTypeOK, NoCatalog, Paid
<1>6. ModeFits' /\ SetupSound'
  BY <1>0, <1>4 DEF ModeFits, SetupSound, SecretsFit, Paid
<1>7. TenantsKeepAccount'
  <2> SUFFICES ASSUME raced' = 0, tenant # NoAccount PROVE a = tenant
    BY <1>1, <1>4 DEF TenantsKeepAccount
  <2>1. acct.id = tenant
    BY <1>3 DEF InstanceInvariant, TenantsKeepAccount
  <2> QED
    BY <1>2, <1>3, <2>1
<1> QED
  BY <1>1, <1>5, <1>6, <1>7, IdleRow, SetupAlone, CommitStep

\* A refresh writes what it read, and Stripe's answer.
LEMMA RefreshStep ==
  ASSUME InstanceInvariant, NEW s \in Operators, CommitRefresh(s)
  PROVE  InstanceInvariant'
<1>0. /\ admins \in [Operators -> AdminRow] /\ AdminShaped(admins[s]) /\ raced \in {0, 1}
      /\ inst \in [mode : {"unconfigured", "private"} \cup Paid, complete : {0, 1}]
      /\ catalog \in [of : StripeAccounts \cup {NoAccount}, price : 0..MaxPrice]
  BY InstanceParts DEF InstanceInvariant, InstanceTypeOK
<1>1. PICK r \in AdminRow : r = admins[s]
  BY <1>0
<1>2. PICK ready : ready = IF r.status = "enabled" THEN 1 ELSE 0
  OBVIOUS
<1>3. PICK cat : cat = IF r.mode = "connect" /\ r.status = "enabled" THEN CatalogFor(r.id) ELSE catalog
  OBVIOUS
<1>4. /\ r.op = "refreshed" /\ setupLock = NoAccount /\ acct' = [mode |-> r.mode, id |-> r.id, status |-> r.status]
      /\ catalog' = cat /\ inst' = [inst EXCEPT !.complete = ready]
      /\ Race(s, FALSE) /\ Overtake(s, [Idle EXCEPT !.op = "reload"])
      /\ UNCHANGED <<secrets, plan, provider, tenant, setupLock>>
  BY <1>1, <1>2, <1>3 DEF CommitRefresh, Doing
<1>5. r.mode \in Paid /\ r.status \in {"pending", "enabled"} /\ r.id \in StripeAccounts \cup {NoAccount} /\ ready \in {0, 1}
  BY <1>0, <1>1, <1>2, <1>4 DEF AdminShaped, AdminRow, Accounts
<1>6. /\ inst' \in [mode : {"unconfigured", "private"} \cup Paid, complete : {0, 1}]
      /\ inst'.mode = inst.mode /\ inst'.complete = ready
  BY <1>0, <1>4, <1>5
<1>7. acct'.mode = r.mode /\ acct'.id = r.id /\ acct'.status = r.status
  BY <1>4
<1>8. raced' \in {0, 1} /\ (raced' = 0 => raced = 0 /\ r.late # 1)
  BY <1>0, <1>1, <1>4 DEF Race
<1>9. raced' = 0 => /\ r.mode = inst.mode /\ r.id = acct.id /\ ModeFits
                    /\ (plan.active = 1 /\ catalog.of # NoAccount => plan.price = catalog.price)
                    /\ (tenant # NoAccount => acct.id = tenant)
  <2> SUFFICES ASSUME raced' = 0
               PROVE  /\ r.mode = inst.mode /\ r.id = acct.id /\ ModeFits
                      /\ (plan.active = 1 /\ catalog.of # NoAccount => plan.price = catalog.price)
                      /\ (tenant # NoAccount => acct.id = tenant)
    OBVIOUS
  <2>1. raced = 0 /\ admins[s].late = 0
    BY <1>1, <1>8 DEF AdminRow
  <2>2. RefreshFits(r)
    BY <1>1, <2>1 DEF InstanceInvariant
  <2> QED
    BY <1>4, <2>1, <2>2 DEF InstanceInvariant, RefreshFits, SetupSound, TenantsKeepAccount
<1>10. cat \in [of : StripeAccounts \cup {NoAccount}, price : 0..MaxPrice]
  <2>1. plan.price \in 0..MaxPrice
    BY InstanceParts
  <2>2. PICK new : new = [of |-> r.id, price |-> plan.price]
    OBVIOUS
  <2>3. new \in [of : StripeAccounts \cup {NoAccount}, price : 0..MaxPrice]
    BY <1>5, <2>1, <2>2
  <2> QED
    BY <1>0, <1>3, <2>2, <2>3 DEF CatalogFor
<1>11. InstanceTypeOK'
  <2>1. acct' \in [mode : {"none"} \cup Paid, id : StripeAccounts \cup {NoAccount}, status : {"none", "pending", "enabled"}]
    BY <1>4, <1>5
  <2> QED
    BY <1>4, <1>6, <1>8, <1>10, <2>1 DEF InstanceInvariant, InstanceTypeOK
<1>12. ASSUME raced' = 0
       PROVE  ModeFits' /\ TenantsKeepAccount'
              /\ (inst'.complete = 1 => acct'.status = "enabled" /\ acct'.mode = inst'.mode /\ catalog'.of = acct'.id)
              /\ (plan'.active = 1 /\ catalog'.of # NoAccount => plan'.price = catalog'.price)
  <2>1. /\ r.mode = inst.mode /\ r.id = acct.id /\ ModeFits
        /\ (plan.active = 1 /\ catalog.of # NoAccount => plan.price = catalog.price)
        /\ (tenant # NoAccount => acct.id = tenant)
    BY <1>9, <1>12
  <2>2. TenantsKeepAccount'
    BY <1>4, <1>7, <2>1 DEF TenantsKeepAccount
  <2>3. CASE r.mode = "byo"
    <3>1. cat = catalog
      BY <1>3, <2>3
    <3>2. ModeFits'
      BY <1>4, <1>6, <1>7, <2>1, <2>3, <3>1 DEF ModeFits, Paid
    <3>3. inst'.complete = 1 => acct'.status = "enabled" /\ acct'.mode = inst'.mode /\ catalog'.of = acct'.id
      BY <1>2, <1>4, <1>6, <1>7, <2>1, <2>3, <3>1 DEF ModeFits
    <3> QED
      BY <1>4, <2>1, <2>2, <3>1, <3>2, <3>3
  <2>4. CASE r.mode = "connect"
    <3>1. r.id \in StripeAccounts
      BY <1>5, <2>1, <2>4 DEF ModeFits
    <3>2. r.status = "enabled" => cat.of = r.id
      BY <1>3, <2>4, <3>1, CatalogFits
    <3>3. plan.active = 1 /\ cat.of # NoAccount => plan.price = cat.price
      BY <1>3, <2>1, <3>1, CatalogFits
    <3>4. ModeFits'
      BY <1>4, <1>6, <1>7, <2>1, <2>4, <3>1, InstanceAssumption DEF ModeFits, Paid
    <3> QED
      BY <1>2, <1>4, <1>6, <1>7, <2>1, <2>2, <3>2, <3>3, <3>4
  <2> QED
    BY <1>5, <2>3, <2>4 DEF Paid
<1>13. SetupSound'
  <2>1. SecretsFit'
    BY <1>4, <1>6 DEF InstanceInvariant, SetupSound, SecretsFit
  <2> QED
    BY <1>12, <2>1 DEF SetupSound
<1>14. (raced' = 0 => ModeFits') /\ TenantsKeepAccount'
  BY <1>12 DEF TenantsKeepAccount
<1> QED
  BY <1>4, <1>11, <1>13, <1>14, IdleRow, SetupAlone, CommitStep

\* A plan is written with the price that was checked.
LEMMA PlanStep ==
  ASSUME InstanceInvariant, NEW s \in Operators, WritePlan(s)
  PROVE  InstanceInvariant'
<1>0. admins \in [Operators -> AdminRow] /\ raced \in {0, 1}
  BY InstanceParts
<1>1. PICK r \in AdminRow : r = admins[s]
  BY <1>0
<1>2. PICK on : on = IF r.status = "active" THEN 1 ELSE 0
  OBVIOUS
<1>3. /\ r.op = "plan" /\ plan' = [price |-> r.price, active |-> on] /\ Overtake(s, Idle)
      /\ Race(s, r.status = "retired" /\ tenant # NoAccount)
      /\ UNCHANGED <<inst, acct, secrets, catalog, provider, tenant, setupLock>>
  BY <1>1, <1>2 DEF WritePlan, Doing
<1>4. plan'.price = r.price /\ plan'.active = on /\ r.price \in 0..MaxPrice /\ on \in {0, 1}
  BY <1>2, <1>3 DEF AdminRow
<1>5. raced' \in {0, 1} /\ (raced' = 0 => raced = 0 /\ r.late = 0)
  BY <1>0, <1>1, <1>3 DEF Race, AdminRow
<1>6. InstanceTypeOK'
  BY <1>3, <1>4, <1>5 DEF InstanceInvariant, InstanceTypeOK
<1>7. (raced' = 0 => ModeFits') /\ TenantsKeepAccount'
  BY <1>3, <1>5 DEF InstanceInvariant, ModeFits, TenantsKeepAccount
<1>8. raced' = 0 => PlanFits(r)
  BY <1>1, <1>5 DEF InstanceInvariant
<1>9. raced' = 0 /\ plan'.active = 1 /\ catalog'.of # NoAccount => plan'.price = catalog'.price
  BY <1>2, <1>3, <1>4, <1>8 DEF PlanFits
<1>10. SetupSound'
  BY <1>3, <1>5, <1>9 DEF InstanceInvariant, SetupSound, SecretsFit
<1>11. \A x \in Operators : x # s /\ admins[x].op = "setup" => UNCHANGED <<inst, acct, setupLock>>
  BY <1>3
<1> QED
  BY <1>3, <1>6, <1>7, <1>10, <1>11, IdleRow, CommitStep

\* A tenant subscribes or cancels.
LEMMA TenantStep ==
  ASSUME InstanceInvariant, Subscribe \/ Unsubscribe
  PROVE  InstanceInvariant'
<1>0. raced \in {0, 1} /\ provider.account \in StripeAccounts \cup {NoAccount}
  BY DEF InstanceInvariant, InstanceTypeOK
<1>1. /\ UNCHANGED <<inst, acct, secrets, catalog, plan, provider, admins, setupLock>>
      /\ tenant' \in StripeAccounts \cup {NoAccount} /\ raced' \in {0, 1}
      /\ (raced' = 0 => raced = 0 /\ (tenant' = NoAccount \/ tenant' = acct.id))
  BY <1>0 DEF Subscribe, Unsubscribe
<1>2. InstanceTypeOK'
  BY <1>1 DEF InstanceInvariant, InstanceTypeOK
<1>3. (raced = 0 => ModeFits)' /\ SetupSound' /\ TenantsKeepAccount'
  BY <1>1 DEF InstanceInvariant, ModeFits, SetupSound, SecretsFit, TenantsKeepAccount
<1>4. /\ (admins \in [Operators -> AdminRow])'
      /\ (\A s \in Operators : AdminShaped(admins[s]) /\ SetupFits(s, admins[s]))'
  BY <1>1 DEF InstanceInvariant, AdminShaped, SetupFits
<1>5. (\A s \in Operators : raced = 0 /\ admins[s].late = 0 => RefreshFits(admins[s]) /\ PlanFits(admins[s]))'
  BY <1>1 DEF InstanceInvariant, RefreshFits, PlanFits
<1> QED
  BY <1>2, <1>3, <1>4, <1>5 DEF InstanceInvariant

\* After a restart only the tables are left.
LEMMA RestartStep ==
  ASSUME InstanceInvariant, NEW s \in Operators, Restart(s)
  PROVE  InstanceInvariant'
<1>1. PICK next : next = [Idle EXCEPT !.op = "reload"]
  OBVIOUS
<1>2. next \in AdminRow /\ AdminShaped(next) /\ next.op = "reload"
  BY <1>1, IdleRow
<1>3. /\ admins' = [x \in Operators |-> IF x = s THEN next ELSE Idle] /\ setupLock' = NoAccount /\ provider' = Off
      /\ UNCHANGED <<inst, acct, secrets, catalog, plan, tenant, raced>>
  BY <1>1 DEF Restart
<1>4. /\ admins' \in [Operators -> AdminRow]
      /\ \A x \in Operators : AdminShaped(admins'[x]) /\ admins'[x].op \in {"none", "reload"}
  BY <1>2, <1>3, IdleRow
<1>5. InstanceTypeOK'
  BY <1>3 DEF InstanceInvariant, InstanceTypeOK, Off
<1>6. (raced = 0 => ModeFits)' /\ SetupSound' /\ TenantsKeepAccount'
  BY <1>3 DEF InstanceInvariant, ModeFits, SetupSound, SecretsFit, TenantsKeepAccount
<1>7. (\A x \in Operators : AdminShaped(admins[x]) /\ SetupFits(x, admins[x]))'
  <2>1. (\A x \in Operators : AdminShaped(admins[x]))'
    BY <1>4 DEF AdminShaped
  <2>2. (\A x \in Operators : SetupFits(x, admins[x]))'
    BY <1>4 DEF SetupFits
  <2> QED
    BY <2>1, <2>2
<1>8. (\A x \in Operators : raced = 0 /\ admins[x].late = 0 => RefreshFits(admins[x]) /\ PlanFits(admins[x]))'
  BY <1>4 DEF RefreshFits, PlanFits
<1> QED
  BY <1>4, <1>5, <1>6, <1>7, <1>8 DEF InstanceInvariant

\* Every step keeps the invariant of the instance.
LEMMA InstanceStep ==
  ASSUME InstanceInvariant, [InstanceNext]_instanceVars
  PROVE  InstanceInvariant'
<1>1. ASSUME NEW s \in Operators, RetirePlan(s) PROVE InstanceInvariant'
  <2>1. plan.price \in 0..MaxPrice
    BY InstanceParts
  <2> QED
    BY <1>1, <2>1, PlanChecked DEF RetirePlan
<1>2. ASSUME NEW s \in Operators,
             \/ \E mode \in {"private", "byo", "connect"} : BeginSetup(s, mode)
             \/ \E a \in StripeAccounts, status \in {"pending", "enabled"} :
                  ConfigureByo(s, a, status) \/ ConfigureConnect(s, a, status)
             \/ \E status \in {"pending", "enabled"} : AskStripe(s, status)
             \/ \E price \in 0..MaxPrice, active \in {0, 1} : PutPlan(s, price, active)
      PROVE  InstanceInvariant'
  BY <1>2, SetupBegins, ByoStep, ConnectStep, StripeAnswers, PlanChecked
<1>3. ASSUME NEW s \in Operators,
             \/ SetupPrivate(s) \/ BeginRefresh(s) \/ CommitRefresh(s) \/ ReadBinding(s) \/ ActivateProvider(s)
             \/ WritePlan(s) \/ RequestFails(s) \/ Restart(s)
      PROVE  InstanceInvariant'
  BY <1>3, PrivateStep, RefreshBegins, RefreshStep, ProviderStep, PlanStep, FailStep, RestartStep
<1>4. CASE UNCHANGED instanceVars
  <2>1. InstanceTypeOK' /\ (raced = 0 => ModeFits)' /\ SetupSound' /\ TenantsKeepAccount'
    BY <1>4 DEF instanceVars, InstanceInvariant, InstanceTypeOK, ModeFits, SetupSound, SecretsFit, TenantsKeepAccount
  <2>2. /\ (admins \in [Operators -> AdminRow])'
        /\ (\A s \in Operators : AdminShaped(admins[s]) /\ SetupFits(s, admins[s]))'
    BY <1>4 DEF instanceVars, InstanceInvariant, AdminShaped, SetupFits
  <2>3. (\A s \in Operators : raced = 0 /\ admins[s].late = 0 => RefreshFits(admins[s]) /\ PlanFits(admins[s]))'
    BY <1>4 DEF instanceVars, InstanceInvariant, RefreshFits, PlanFits
  <2> QED
    BY <2>1, <2>2, <2>3 DEF InstanceInvariant
<1> QED
  BY <1>1, <1>2, <1>3, <1>4, TenantStep DEF InstanceNext

\* A new instance is not configured.
LEMMA InstanceStart ==
  ASSUME InstanceInit PROVE InstanceInvariant
<1>0. 0 \in 0..MaxPrice
  BY InstanceAssumption
<1>1. /\ inst = [mode |-> "unconfigured", complete |-> 0] /\ acct = NoBinding /\ secrets = NoSecrets
      /\ catalog = NoCatalog /\ plan = [price |-> 0, active |-> 1] /\ provider = Off /\ tenant = NoAccount
      /\ admins = [s \in Operators |-> Idle] /\ setupLock = NoAccount /\ raced = 0
  BY DEF InstanceInit
<1>2. inst.mode = "unconfigured" /\ secrets.byo = NoAccount /\ secrets.connect = 0 /\ catalog.of = NoAccount
  BY <1>1 DEF NoSecrets, NoCatalog
<1>3. InstanceTypeOK
  BY <1>0, <1>1 DEF InstanceTypeOK, NoBinding, NoSecrets, NoCatalog, Off, Paid
<1>4. ModeFits /\ SetupSound /\ TenantsKeepAccount
  BY <1>1, <1>2 DEF ModeFits, SetupSound, SecretsFit, TenantsKeepAccount, Paid
<1>5. admins \in [Operators -> AdminRow] /\ \A s \in Operators : admins[s] = Idle
  BY <1>1, IdleRow
<1>6. \A s \in Operators : /\ AdminShaped(admins[s]) /\ SetupFits(s, admins[s])
                           /\ RefreshFits(admins[s]) /\ PlanFits(admins[s])
  BY <1>5, IdleRow DEF SetupFits, RefreshFits, PlanFits
<1> QED
  BY <1>3, <1>4, <1>5, <1>6 DEF InstanceInvariant

\* The instance's billing is set up in one piece, no tenant that pays loses
\* the account it pays into, and an organization's subscription is that of
\* the newest event, whatever requests overlap, fail or are restarted and in
\* whatever order events come (complete_setup,
\* ensure_billing_reconfiguration_safe, apply_update).
THEOREM BillingKept == InstanceSpec /\ BillingSpec => []BillingFollows
<1>1. InstanceInit => InstanceInvariant
  BY InstanceStart
<1>2. InstanceInvariant /\ [InstanceNext]_instanceVars => InstanceInvariant'
  BY InstanceStep
<1>3. BillingInit => BillingInvariant
  BY BillingStart
<1>4. BillingInvariant /\ [BillingNext]_billingVars => BillingInvariant'
  BY BillingStep
<1>5. InstanceInvariant /\ BillingInvariant => BillingFollows
  BY DEF InstanceInvariant, BillingInvariant, BillingFollows
<1> QED
  BY <1>1, <1>2, <1>3, <1>4, <1>5, PTL DEF InstanceSpec, BillingSpec

-----------------------------------------------------------------------------
(* Memberships. A subscription's row carries the stamp of the last report    *)
(* that was applied; the invariant says what that report still explains.     *)

SubRow ==
  [status : {"none", "checkout_pending", "active", "past_due", "canceled", "expired"},
   session : BOOLEAN, bound : BOOLEAN, atEnd : BOOLEAN, last : Stamps]
StripeRow ==
  [session : {"none", "open", "complete", "expired"}, status : {"none", "active", "past_due", "canceled"},
   atEnd : BOOLEAN]
EntRow == [status : {"none", "active", "revoked", "expired"}, sub : Subs \cup {"none"}]
Reported == {"active", "past_due", "canceled"}

NewsFits ==
  /\ newsDone \subseteq news
  /\ \A e \in news : /\ e.stamp \in Stamps /\ e.stamp.id > 0 /\ e.sub \in Subs /\ e.atEnd \in BOOLEAN
                     /\ e.kind = "subscription" => e.status \in Reported
  /\ \A e, f \in news : e.stamp = f.stamp => e = f

MembersShape ==
  /\ subs \in [Subs -> SubRow] /\ ents \in [Slots -> EntRow] /\ atStripe \in [Subs -> StripeRow]
  /\ canceling \in [Subs -> {"idle", "ended", "ending", "revoking"}]
  /\ \A x \in Slots : ents[x].status = "active" => ents[x].sub \in Subs
  /\ NewsFits

\* No entitlement is active through the subscription.
HoldsNone(s) == \A x \in Slots : ents[x].sub = s => ents[x].status # "active"

\* The end that Stripe confirmed to a cancel request.
EndConfirmed(s) == subs[s].status = "canceled" /\ atStripe[s].status = "canceled"

\* Report e was the last to be applied, and nothing newer was put aside.
LastApplied(s, e) ==
  /\ e.stamp = subs[s].last
  /\ subs[s].status = e.status \/ EndConfirmed(s)
  /\ e.status \notin Granting => HoldsNone(s)
  /\ \A f \in Changes(s) : f \in newsDone => f = e \/ IsNewer(e.stamp, f.stamp)

ReportsFit(s) ==
  /\ subs[s].last = NoStamp => HoldsNone(s) /\ \A f \in Changes(s) : f \notin newsDone
  /\ subs[s].last # NoStamp => \E e \in Changes(s) : LastApplied(s, e)

\* A cancel request went to a subscription that Stripe reports as ended, and a
\* session is completed once.
StripeFits(s) ==
  /\ canceling[s] \in {"ended", "revoking"} => atStripe[s].status = "canceled"
  /\ atStripe[s].status = "canceled" => \E e \in Changes(s) : e.status = "canceled"
  /\ atStripe[s].status # "none" => atStripe[s].session = "complete"

MembersInvariant == MembersShape /\ \A s \in Subs : ReportsFit(s) /\ StripeFits(s)

\* What a step may do to a subscription without reporting on it.
SubKept(s) ==
  /\ subs'[s].last = subs[s].last
  /\ subs[s].last # NoStamp => subs'[s].status = subs[s].status \/ EndConfirmed(s)'
  /\ atStripe[s].status = "canceled" => atStripe'[s].status = "canceled"
  /\ news \subseteq news'
  /\ \A f \in news' : f.sub = s /\ f.kind = "subscription" /\ f \in newsDone' => f \in newsDone
  /\ \A x \in Slots : ents'[x].sub = s /\ ents'[x].status = "active"
                        => ents[x].sub = s /\ ents[x].status = "active"

StripeKept(s) ==
  /\ atStripe'[s] = atStripe[s] /\ news \subseteq news'
  /\ canceling'[s] \in {"ended", "revoking"} => canceling[s] \in {"ended", "revoking"}

LEMMA KeptFits ==
  ASSUME MembersInvariant, NEW s \in Subs
  PROVE  /\ SubKept(s) => ReportsFit(s)'
         /\ StripeKept(s) => StripeFits(s)'
<1>1. ReportsFit(s) /\ StripeFits(s) /\ newsDone \subseteq news
  BY DEF MembersInvariant, MembersShape, NewsFits
<1>2. ASSUME SubKept(s) PROVE ReportsFit(s)'
  <2>1. HoldsNone(s) => HoldsNone(s)'
    BY <1>2 DEF SubKept, HoldsNone
  <2>2. Changes(s) \subseteq Changes(s)' /\ \A f \in Changes(s)' : f \in newsDone' => f \in newsDone /\ f \in Changes(s)
    BY <1>1, <1>2 DEF SubKept, Changes
  <2>3. CASE subs[s].last = NoStamp
    BY <2>1, <2>2, <2>3, <1>1, <1>2 DEF SubKept, ReportsFit
  <2>4. CASE subs[s].last # NoStamp
    <3>1. PICK e \in Changes(s) : LastApplied(s, e)
      BY <2>4, <1>1 DEF ReportsFit
    <3>2. e.stamp = subs'[s].last /\ (e.status \notin Granting => HoldsNone(s)')
      BY <3>1, <2>1, <1>2 DEF LastApplied, SubKept
    <3>3. (subs[s].status = e.status \/ EndConfirmed(s))'
      BY <3>1, <2>4, <1>2 DEF LastApplied, SubKept, EndConfirmed
    <3>4. \A f \in Changes(s)' : f \in newsDone' => f = e \/ IsNewer(e.stamp, f.stamp)
      BY <3>1, <2>2 DEF LastApplied
    <3>5. LastApplied(s, e)' /\ e \in Changes(s)'
      BY <3>2, <3>3, <3>4, <2>2 DEF LastApplied
    <3> QED
      BY <3>5, <2>4, <1>2 DEF ReportsFit, SubKept
  <2> QED
    BY <2>3, <2>4
<1>3. ASSUME StripeKept(s) PROVE StripeFits(s)'
  <2>1. Changes(s) \subseteq Changes(s)'
    BY <1>3 DEF StripeKept, Changes
  <2> QED
    BY <2>1, <1>1, <1>3 DEF StripeKept, StripeFits
<1> QED
  BY <1>2, <1>3

\* A row with fields changed.
LEMMA SubChanged ==
  ASSUME NEW A, NEW B, NEW C, NEW w \in [status : A, session : B, bound : B, atEnd : B, last : C],
         NEW a \in A, NEW b \in B, NEW d \in B, NEW c \in C
  PROVE  LET n == [w EXCEPT !.status = a]
             k == [w EXCEPT !.session = b]
             l == [w EXCEPT !.bound = b]
             m == [w EXCEPT !.atEnd = b]
             p == [w EXCEPT !.status = a, !.atEnd = b]
             q == [w EXCEPT !.status = a, !.bound = b, !.last = c, !.atEnd = d]
             R == [status : A, session : B, bound : B, atEnd : B, last : C]
         IN /\ n \in R /\ n.status = a /\ n.last = w.last
            /\ k \in R /\ k.status = w.status /\ k.last = w.last
            /\ l \in R /\ l.status = w.status /\ l.last = w.last
            /\ m \in R /\ m.status = w.status /\ m.last = w.last
            /\ p \in R /\ p.status = a /\ p.last = w.last
            /\ q \in R /\ q.status = a /\ q.last = c
OBVIOUS

LEMMA StripeChanged ==
  ASSUME NEW A, NEW B, NEW C, NEW w \in [session : A, status : B, atEnd : C],
         NEW a \in A, NEW b \in B, NEW c \in C
  PROVE  LET n == [w EXCEPT !.session = a]
             k == [w EXCEPT !.status = b]
             l == [w EXCEPT !.atEnd = c]
             m == [w EXCEPT !.session = a, !.status = b]
             R == [session : A, status : B, atEnd : C]
         IN /\ n \in R /\ n.session = a /\ n.status = w.status
            /\ k \in R /\ k.session = w.session /\ k.status = b
            /\ l \in R /\ l.session = w.session /\ l.status = w.status
            /\ m \in R /\ m.session = a /\ m.status = b
OBVIOUS

\* The fields of rows.
LEMMA MemberParts ==
  ASSUME MembersShape
  PROVE  /\ \A s \in Subs : /\ subs[s] \in SubRow /\ subs[s].last \in Stamps
                            /\ subs[s].status \in {"none", "checkout_pending"} \cup Reported \cup {"expired"}
                            /\ atStripe[s] \in StripeRow
                            /\ atStripe[s].status \in {"none"} \cup Reported
                            /\ atStripe[s].session \in {"none", "open", "complete", "expired"}
         /\ \A x \in Slots : ents[x] \in EntRow
BY DEF MembersShape, SubRow, StripeRow, Reported

LEMMA MembersStart ==
  ASSUME MembershipsInit
  PROVE  MembersInvariant
<1>1. NoSub \in SubRow /\ NoSub.last = NoStamp
  BY StripeEventsAssumption DEF NoSub, SubRow, Stamps, NoStamp
<1>2. /\ [session |-> "none", status |-> "none", atEnd |-> FALSE] \in StripeRow
      /\ [session |-> "none", status |-> "none", atEnd |-> FALSE].status = "none"
      /\ [status |-> "none", sub |-> "none"] \in EntRow
      /\ [status |-> "none", sub |-> "none"].status = "none"
  BY DEF StripeRow, EntRow
<1>3. /\ \A s \in Subs : subs[s].last = NoStamp /\ atStripe[s].status = "none" /\ canceling[s] = "idle"
      /\ \A x \in Slots : ents[x].status = "none"
      /\ news = {} /\ newsDone = {}
  BY <1>1, <1>2 DEF MembershipsInit
<1>4. NewsFits
  BY <1>3 DEF NewsFits
<1>5. MembersShape
  BY <1>1, <1>2, <1>3, <1>4 DEF MembershipsInit, MembersShape
<1>6. \A s \in Subs : ReportsFit(s) /\ StripeFits(s)
  BY <1>3 DEF ReportsFit, StripeFits, HoldsNone, Changes
<1> QED
  BY <1>5, <1>6 DEF MembersInvariant

\* A step on the row of one subscription that is no report.
LEMMA RowStep ==
  ASSUME MembersInvariant, NEW s \in Subs, NEW n \in SubRow, subs' = [subs EXCEPT ![s] = n],
         n.last = subs[s].last,
         subs[s].last # NoStamp => n.status = subs[s].status \/ EndConfirmed(s)',
         UNCHANGED <<ents, news>>, newsDone' \subseteq news,
         \A f \in news : f.kind = "subscription" /\ f \in newsDone' => f \in newsDone,
         canceling' \in [Subs -> {"idle", "ended", "ending", "revoking"}],
         atStripe' \in [Subs -> StripeRow],
         \A t \in Subs : /\ atStripe[t].status = "canceled" => atStripe'[t].status = "canceled"
                         /\ StripeFits(t)'
  PROVE  MembersInvariant'
<1>1. MembersShape /\ NewsFits
  BY DEF MembersInvariant, MembersShape
<1>2. subs' \in [Subs -> SubRow] /\ subs'[s] = n /\ \A t \in Subs : t # s => subs'[t] = subs[t]
  BY <1>1 DEF MembersShape
<1>3. NewsFits'
  BY <1>1 DEF NewsFits
<1>4. MembersShape'
  BY <1>1, <1>2, <1>3 DEF MembersShape
<1>5. ASSUME NEW t \in Subs PROVE SubKept(t)
  <2>1. CASE t = s
    BY <2>1, <1>2 DEF SubKept
  <2>2. CASE t # s
    BY <2>2, <1>2 DEF SubKept
  <2> QED
    BY <2>1, <2>2
<1> QED
  BY <1>4, <1>5, KeptFits DEF MembersInvariant


\* Events that are created now.
LEMMA NewsAdded ==
  ASSUME NewsFits, NEW e, NEW f, e.stamp \in FreshStamps(newsClock, news), f.stamp \in FreshStamps(newsClock, news),
         e.sub \in Subs, f.sub \in Subs, e.atEnd \in BOOLEAN, f.atEnd \in BOOLEAN,
         e.kind = "subscription" => e.status \in Reported,
         f.kind = "subscription" => f.status \in Reported,
         e = f \/ e.stamp # f.stamp,
         news' = news \cup {e, f}, newsDone' = newsDone
  PROVE  NewsFits' /\ news \subseteq news'
<1>1. /\ e.stamp \in Stamps /\ e.stamp.id > 0 /\ f.stamp \in Stamps /\ f.stamp.id > 0
      /\ \A g \in news : g.stamp # e.stamp /\ g.stamp # f.stamp
  BY DEF FreshStamps
<1>2. newsDone' \subseteq news' /\ news \subseteq news'
  BY DEF NewsFits
<1>3. \A g \in news' : /\ g.stamp \in Stamps /\ g.stamp.id > 0 /\ g.sub \in Subs /\ g.atEnd \in BOOLEAN
                       /\ g.kind = "subscription" => g.status \in Reported
  BY <1>1 DEF NewsFits
<1>4. \A g, h \in news' : g.stamp = h.stamp => g = h
  BY <1>1 DEF NewsFits
<1> QED
  BY <1>2, <1>3, <1>4 DEF NewsFits

\* What an event says.
LEMMA NewsParts ==
  ASSUME NEW st, NEW kind, NEW s, NEW status, NEW p, NEW end
  PROVE  LET e == News(st, kind, s, status, p, end)
         IN e.stamp = st /\ e.kind = kind /\ e.sub = s /\ e.status = status /\ e.atEnd = end
BY DEF News

\* A step of Stripe.
LEMMA StripeRowStep ==
  ASSUME MembersInvariant, NEW s \in Subs, NEW n \in StripeRow, atStripe' = [atStripe EXCEPT ![s] = n],
         UNCHANGED <<subs, ents, newsDone>>, NewsFits', news \subseteq news',
         canceling' \in [Subs -> {"idle", "ended", "ending", "revoking"}],
         \A t \in Subs : t # s => canceling'[t] = canceling[t],
         atStripe[s].status = "canceled" => n.status = "canceled",
         StripeFits(s)'
  PROVE  MembersInvariant'
<1>1. MembersShape
  BY DEF MembersInvariant
<1>2. atStripe' \in [Subs -> StripeRow] /\ atStripe'[s] = n /\ \A t \in Subs : t # s => atStripe'[t] = atStripe[t]
  BY <1>1 DEF MembersShape
<1>3. MembersShape'
  BY <1>1, <1>2 DEF MembersShape
<1>4. ASSUME NEW t \in Subs PROVE ReportsFit(t)' /\ StripeFits(t)'
  <2>1. SubKept(t)
    BY <1>2 DEF SubKept
  <2>2. t # s => StripeKept(t)
    BY <1>2 DEF StripeKept
  <2> QED
    BY <2>1, <2>2, KeptFits
<1> QED
  BY <1>3, <1>4 DEF MembersInvariant

LEMMA CheckoutKeeps ==
  ASSUME MembersInvariant, NEW s \in Subs, RecurringCheckout(s)
  PROVE  MembersInvariant'
<1>1. MembersShape /\ ReportsFit(s)
  BY DEF MembersInvariant
<1>2. PICK w \in SubRow : w = subs[s]
  BY <1>1, MemberParts
<1>3. PICK n : n = [w EXCEPT !.status = "checkout_pending"]
  OBVIOUS
<1>4. n \in SubRow /\ n.last = w.last
  BY <1>3 DEF SubRow
<1>5. subs' = [subs EXCEPT ![s] = n]
  BY <1>1, <1>2, <1>3 DEF RecurringCheckout, ReserveSubscription, MembersShape
<1>6. subs[s].last = NoStamp
  <2>1. subs[s].status \in {"none", "checkout_pending"}
    BY DEF RecurringCheckout, ReserveSubscription
  <2> SUFFICES ASSUME subs[s].last # NoStamp PROVE FALSE
    OBVIOUS
  <2>2. PICK e \in Changes(s) : LastApplied(s, e)
    BY <1>1 DEF ReportsFit
  <2>3. e.status \in Reported
    BY <1>1 DEF MembersShape, NewsFits, Changes
  <2> QED
    BY <2>1, <2>2, <2>3 DEF LastApplied, EndConfirmed, Reported
<1>7. UNCHANGED <<ents, canceling, atStripe, news, newsDone>>
  BY DEF RecurringCheckout, stripeSide
<1>8. \A t \in Subs : StripeFits(t)'
  BY <1>7, KeptFits DEF StripeKept
<1> QED
  BY <1>1, <1>2, <1>4, <1>5, <1>6, <1>7, <1>8, RowStep DEF MembersShape, NewsFits

\* A session that is opened by a call.
LEMMA SessionOpened ==
  ASSUME MembersInvariant, NEW s \in Subs, UNCHANGED <<news, canceling>>,
         atStripe' = [atStripe EXCEPT ![s].session = IF @ = "none" THEN "open" ELSE @]
  PROVE  /\ atStripe' \in [Subs -> StripeRow]
         /\ \A t \in Subs : atStripe'[t].status = atStripe[t].status /\ StripeFits(t)'
         /\ \E n \in StripeRow : atStripe' = [atStripe EXCEPT ![s] = n]
<1>1. MembersShape
  BY DEF MembersInvariant
<1>2. PICK w \in StripeRow : w = atStripe[s]
  BY <1>1, MemberParts
<1>3. PICK session : session = IF w.session = "none" THEN "open" ELSE w.session
  OBVIOUS
<1>4. PICK n : n = [w EXCEPT !.session = session]
  OBVIOUS
<1>5. n \in StripeRow /\ n.status = w.status /\ n.session = session
  BY <1>3, <1>4 DEF StripeRow
<1>6. atStripe' = [atStripe EXCEPT ![s] = n]
  BY <1>1, <1>2, <1>3, <1>4 DEF MembersShape
<1>7. atStripe' \in [Subs -> StripeRow] /\ atStripe'[s] = n /\ \A t \in Subs : t # s => atStripe'[t] = atStripe[t]
  BY <1>1, <1>5, <1>6 DEF MembersShape
<1>8. ASSUME NEW t \in Subs PROVE atStripe'[t].status = atStripe[t].status /\ StripeFits(t)'
  <2>1. CASE t = s
    <3>1. StripeFits(s) /\ Changes(s)' = Changes(s)
      BY DEF MembersInvariant, Changes
    <3> QED
      BY <2>1, <3>1, <1>2, <1>3, <1>5, <1>7 DEF StripeFits
  <2>2. CASE t # s
    BY <2>2, <1>7, KeptFits DEF StripeKept
  <2> QED
    BY <2>1, <2>2
<1> QED
  BY <1>5, <1>6, <1>7, <1>8

LEMMA AnsweredKeeps ==
  ASSUME MembersInvariant, NEW s \in Subs, RecurringAnswered(s)
  PROVE  MembersInvariant'
<1>1. MembersShape
  BY DEF MembersInvariant
<1>2. PICK w \in SubRow : w = subs[s]
  BY <1>1, MemberParts
<1>3. PICK b \in BOOLEAN : b = (w.session \/ w.status = "checkout_pending")
  OBVIOUS
<1>4. PICK n : n = [w EXCEPT !.session = b]
  OBVIOUS
<1>5. n \in SubRow /\ n.last = w.last /\ n.status = w.status
  BY <1>4, SubChanged DEF SubRow
<1>6. subs' = [subs EXCEPT ![s] = n]
  BY <1>1, <1>2, <1>3, <1>4 DEF RecurringAnswered, MembersShape
<1>7. UNCHANGED <<ents, canceling, news, newsDone>>
      /\ atStripe' = [atStripe EXCEPT ![s].session = IF @ = "none" THEN "open" ELSE @]
  BY DEF RecurringAnswered
<1>8. /\ atStripe' \in [Subs -> StripeRow]
      /\ \A t \in Subs : atStripe'[t].status = atStripe[t].status /\ StripeFits(t)'
  BY <1>7, SessionOpened
<1> QED
  BY <1>1, <1>2, <1>5, <1>6, <1>7, <1>8, RowStep DEF MembersShape, NewsFits

LEMMA FailedKeeps ==
  ASSUME MembersInvariant, NEW s \in Subs, RecurringFailed(s) \/ StopRequest(s)
  PROVE  MembersInvariant'
<1>1. MembersShape
  BY DEF MembersInvariant
<1>2. UNCHANGED <<subs, ents, news, newsDone>>
  BY DEF RecurringFailed, StopRequest, stripeSide
<1>3. CASE UNCHANGED atStripe
  <2>1. canceling' = canceling \/ canceling' = [canceling EXCEPT ![s] = "idle"]
    BY DEF RecurringFailed, StopRequest
  <2>2. /\ canceling' \in [Subs -> {"idle", "ended", "ending", "revoking"}]
        /\ \A t \in Subs : canceling'[t] = canceling[t] \/ canceling'[t] = "idle"
    BY <2>1, <1>1 DEF MembersShape
  <2>3. \A t \in Subs : SubKept(t) /\ StripeKept(t)
    BY <1>2, <1>3, <2>2 DEF SubKept, StripeKept
  <2>4. MembersShape'
    BY <1>1, <1>2, <1>3, <2>2 DEF MembersShape, NewsFits
  <2> QED
    BY <2>3, <2>4, KeptFits DEF MembersInvariant
<1>4. CASE atStripe' = [atStripe EXCEPT ![s].session = IF @ = "none" THEN "open" ELSE @] /\ UNCHANGED canceling
  <2>1. /\ atStripe' \in [Subs -> StripeRow]
        /\ \A t \in Subs : atStripe'[t].status = atStripe[t].status /\ StripeFits(t)'
    BY <1>2, <1>4, SessionOpened
  <2>2. \A t \in Subs : SubKept(t)
    BY <1>2, <2>1 DEF SubKept
  <2>3. MembersShape'
    BY <1>1, <1>2, <1>4, <2>1 DEF MembersShape, NewsFits
  <2> QED
    BY <2>1, <2>2, <2>3, KeptFits DEF MembersInvariant
<1> QED
  BY <1>3, <1>4 DEF RecurringFailed, StopRequest, stripeSide

LEMMA CancelKeeps ==
  ASSUME MembersInvariant, NEW s \in Subs, NEW now \in BOOLEAN, CancelSubscription(s, now)
  PROVE  MembersInvariant'
<1>1. MembersShape /\ NewsFits /\ StripeFits(s)
  BY DEF MembersInvariant, MembersShape
<1>2. PICK w \in StripeRow : w = atStripe[s]
  BY <1>1, MemberParts
<1>3. PICK status : status = IF now THEN "canceled" ELSE w.status
  OBVIOUS
<1>4. w.status \in {"active", "past_due"} /\ status \in Reported
  BY <1>1, <1>2, <1>3, MemberParts DEF CancelSubscription, Reported
<1>5. PICK st \in FreshStamps(newsClock, news), p \in Periods :
        news' = news \cup {News(st, "subscription", s, status, p, ~now)}
  BY <1>2, <1>3 DEF CancelSubscription, Report
<1>6. PICK e : e = News(st, "subscription", s, status, p, ~now)
  OBVIOUS
<1>7. e.stamp = st /\ e.kind = "subscription" /\ e.sub = s /\ e.status = status /\ e.atEnd = ~now
  BY <1>6, NewsParts
<1>8. e.atEnd \in BOOLEAN
  BY <1>7, Zenon
<1>9. NewsFits' /\ news \subseteq news' /\ e \in news' /\ UNCHANGED <<subs, ents, newsDone>>
  <2>1. UNCHANGED <<subs, ents, newsDone>> /\ news' = news \cup {e, e}
    BY <1>5, <1>6 DEF CancelSubscription
  <2>2. e.stamp \in FreshStamps(newsClock, news)
    BY <1>5, <1>7
  <2>3. NewsFits' /\ news \subseteq news'
    BY <2>1, <2>2, <1>1, <1>4, <1>7, <1>8, NewsAdded
  <2> QED
    BY <2>1, <2>3
<1>10. PICK n : n = IF now THEN [w EXCEPT !.status = "canceled"] ELSE [w EXCEPT !.atEnd = TRUE]
  OBVIOUS
<1>11. n \in StripeRow /\ n.session = w.session /\ n.status = status
  BY <1>2, <1>3, <1>10 DEF StripeRow
<1>12. atStripe' = [atStripe EXCEPT ![s] = n]
  BY <1>1, <1>2, <1>10 DEF CancelSubscription, MembersShape
<1>13. PICK at : at = IF now THEN "ended" ELSE "ending"
  OBVIOUS
<1>14. canceling' = [canceling EXCEPT ![s] = at] /\ at \in {"ended", "ending"}
  BY <1>13 DEF CancelSubscription
<1>15. /\ canceling' \in [Subs -> {"idle", "ended", "ending", "revoking"}] /\ canceling'[s] = at
       /\ \A t \in Subs : t # s => canceling'[t] = canceling[t]
  BY <1>1, <1>14 DEF MembersShape
<1>16. atStripe'[s] = n
  BY <1>1, <1>12 DEF MembersShape
<1>17. e \in Changes(s)'
  BY <1>7, <1>9 DEF Changes
<1>18. StripeFits(s)'
  <2>1. at = "ended" => n.status = "canceled"
    BY <1>3, <1>11, <1>13
  <2>2. n.status = "canceled" => e.status = "canceled"
    BY <1>7, <1>11
  <2>3. n.session = "complete"
    BY <1>1, <1>2, <1>4, <1>11 DEF StripeFits
  <2>4. canceling'[s] \in {"ended", "revoking"} => at = "ended"
    BY <1>14, <1>15
  <2> QED
    BY <2>1, <2>2, <2>3, <2>4, <1>16, <1>17 DEF StripeFits
<1> QED
  BY <1>2, <1>4, <1>9, <1>11, <1>12, <1>15, <1>18, StripeRowStep

LEMMA RecordCancelKeeps ==
  ASSUME MembersInvariant, NEW s \in Subs, RecordCancel(s)
  PROVE  MembersInvariant'
<1>1. MembersShape /\ StripeFits(s)
  BY DEF MembersInvariant
<1>2. PICK w \in SubRow : w = subs[s]
  BY <1>1, MemberParts
<1>3. PICK n : n = IF canceling[s] = "ended" THEN [w EXCEPT !.status = "canceled", !.atEnd = FALSE]
                   ELSE IF w.status \in {"canceled", "expired"} THEN w ELSE [w EXCEPT !.atEnd = TRUE]
  OBVIOUS
<1>4. /\ n \in SubRow /\ n.last = w.last
      /\ IF canceling[s] = "ended" THEN n.status = "canceled" ELSE n.status = w.status
  BY <1>2, <1>3 DEF SubRow
<1>5. subs' = [subs EXCEPT ![s] = n]
  BY <1>1, <1>2, <1>3 DEF RecordCancel, MembersShape
<1>6. UNCHANGED <<ents, atStripe, news, newsDone>>
  BY DEF RecordCancel, stripeSide
<1>7. PICK at : at = IF canceling[s] = "ended" THEN "revoking" ELSE "idle"
  OBVIOUS
<1>8. canceling' = [canceling EXCEPT ![s] = at]
  BY <1>7 DEF RecordCancel
<1>9. /\ canceling' \in [Subs -> {"idle", "ended", "ending", "revoking"}] /\ canceling'[s] = at
      /\ \A t \in Subs : t # s => canceling'[t] = canceling[t]
  BY <1>1, <1>7, <1>8 DEF MembersShape
<1>10. ASSUME NEW t \in Subs PROVE StripeFits(t)'
  <2>1. StripeKept(t)
    BY <1>6, <1>7, <1>9 DEF StripeKept
  <2> QED
    BY <2>1, KeptFits
<1>11. n.status = w.status \/ EndConfirmed(s)'
  <2>1. subs'[s] = n
    BY <1>1, <1>5 DEF MembersShape
  <2>2. canceling[s] = "ended" => atStripe'[s].status = "canceled"
    BY <1>1, <1>6 DEF StripeFits
  <2> QED
    BY <2>1, <2>2, <1>4 DEF EndConfirmed
<1>12. newsDone' \subseteq news /\ atStripe' \in [Subs -> StripeRow]
  BY <1>1, <1>6 DEF MembersShape, NewsFits
<1> QED
  BY <1>2, <1>4, <1>5, <1>6, <1>9, <1>10, <1>11, <1>12, RowStep

LEMMA RevokeCanceledKeeps ==
  ASSUME MembersInvariant, NEW s \in Subs, RevokeCanceled(s)
  PROVE  MembersInvariant'
<1>1. MembersShape
  BY DEF MembersInvariant
<1>2. UNCHANGED <<subs, atStripe, news, newsDone>> /\ canceling' = [canceling EXCEPT ![s] = "idle"]
  BY DEF RevokeCanceled, stripeSide
<1>3. ASSUME NEW x \in Slots
      PROVE  ents'[x] \in EntRow /\ (ents'[x].status = "active" => ents'[x] = ents[x])
  <2>1. PICK w \in EntRow : w = ents[x]
    BY <1>1, MemberParts
  <2>2. ents'[x] = IF w.sub = s /\ w.status = "active" THEN [w EXCEPT !.status = "revoked"] ELSE w
    BY <2>1 DEF RevokeCanceled
  <2>3. [w EXCEPT !.status = "revoked"] \in EntRow /\ [w EXCEPT !.status = "revoked"].status = "revoked"
    BY DEF EntRow
  <2> QED
    BY <2>1, <2>2, <2>3
<1>4. ents' \in [Slots -> EntRow]
  <2>1. ents' = [x \in Slots |-> ents'[x]]
    BY DEF RevokeCanceled
  <2> QED
    BY <2>1, <1>3
<1>5. /\ canceling' \in [Subs -> {"idle", "ended", "ending", "revoking"}]
      /\ \A t \in Subs : canceling'[t] = canceling[t] \/ canceling'[t] = "idle"
  BY <1>1, <1>2 DEF MembersShape
<1>6. MembersShape'
  BY <1>1, <1>2, <1>3, <1>4, <1>5 DEF MembersShape, NewsFits
<1>7. \A t \in Subs : SubKept(t) /\ StripeKept(t)
  BY <1>2, <1>3, <1>5 DEF SubKept, StripeKept
<1> QED
  BY <1>6, <1>7, KeptFits DEF MembersInvariant

LEMMA JoinKeeps ==
  ASSUME MembersInvariant, NEW s \in Subs, MemberJoins(s)
  PROVE  MembersInvariant'
<1>1. MembersShape /\ NewsFits /\ StripeFits(s)
  BY DEF MembersInvariant, MembersShape
<1>2. PICK w \in StripeRow : w = atStripe[s]
  BY <1>1, MemberParts
<1>3. PICK st1 \in FreshStamps(newsClock, news), st2 \in FreshStamps(newsClock, news), p \in Periods :
        /\ st1 # st2
        /\ news' = news \cup {News(st1, "completed", s, "active", TRUE, FALSE),
                              News(st2, "subscription", s, "active", p, FALSE)}
  BY DEF MemberJoins
<1>4. PICK e : e = News(st1, "completed", s, "active", TRUE, FALSE)
  OBVIOUS
<1>5. PICK f : f = News(st2, "subscription", s, "active", p, FALSE)
  OBVIOUS
<1>6. /\ e.stamp = st1 /\ e.kind = "completed" /\ e.sub = s /\ e.atEnd = FALSE
      /\ f.stamp = st2 /\ f.kind = "subscription" /\ f.sub = s /\ f.status = "active" /\ f.atEnd = FALSE
  BY <1>4, <1>5 DEF News
<1>7. e.atEnd \in BOOLEAN /\ f.atEnd \in BOOLEAN
  BY <1>6
<1>8. UNCHANGED <<subs, ents, newsDone, canceling>> /\ news' = news \cup {e, f}
  BY <1>3, <1>4, <1>5 DEF MemberJoins
<1>9. NewsFits' /\ news \subseteq news'
  <2>1. /\ e.stamp \in FreshStamps(newsClock, news) /\ f.stamp \in FreshStamps(newsClock, news)
        /\ e.stamp # f.stamp
    BY <1>3, <1>6
  <2>2. "active" \in Reported
    BY DEF Reported
  <2> QED
    BY <2>1, <2>2, <1>1, <1>6, <1>7, <1>8, NewsAdded
<1>10. PICK n : n = [w EXCEPT !.session = "complete", !.status = "active"]
  OBVIOUS
<1>11. n \in StripeRow /\ n.session = "complete" /\ n.status = "active"
  BY <1>10 DEF StripeRow
<1>12. atStripe' = [atStripe EXCEPT ![s] = n]
  BY <1>1, <1>2, <1>10 DEF MemberJoins, MembersShape
<1>13. w.status = "none"
  BY <1>1, <1>2, MemberParts DEF StripeFits, MemberJoins
<1>14. StripeFits(s)'
  <2>1. atStripe'[s] = n
    BY <1>1, <1>12 DEF MembersShape
  <2>2. canceling'[s] \notin {"ended", "revoking"}
    BY <1>1, <1>2, <1>8, <1>13 DEF StripeFits
  <2> QED
    BY <2>1, <2>2, <1>11 DEF StripeFits
<1>15. /\ canceling' \in [Subs -> {"idle", "ended", "ending", "revoking"}]
       /\ \A t \in Subs : canceling'[t] = canceling[t]
  BY <1>1, <1>8 DEF MembersShape
<1>16. UNCHANGED <<subs, ents, newsDone>> /\ (atStripe[s].status = "canceled" => n.status = "canceled")
  BY <1>2, <1>8, <1>13
<1> QED
  BY <1>9, <1>11, <1>12, <1>14, <1>15, <1>16, StripeRowStep

LEMMA ExpiresKeeps ==
  ASSUME MembersInvariant, NEW s \in Subs, MemberSessionExpires(s)
  PROVE  MembersInvariant'
<1>1. MembersShape /\ NewsFits /\ StripeFits(s)
  BY DEF MembersInvariant, MembersShape
<1>2. PICK w \in StripeRow : w = atStripe[s]
  BY <1>1, MemberParts
<1>3. PICK st \in FreshStamps(newsClock, news) :
        news' = news \cup {News(st, "expired", s, "expired", TRUE, FALSE)}
  BY DEF MemberSessionExpires
<1>4. PICK e : e = News(st, "expired", s, "expired", TRUE, FALSE)
  OBVIOUS
<1>5. e.stamp = st /\ e.kind = "expired" /\ e.sub = s /\ e.atEnd = FALSE
  BY <1>4 DEF News
<1>6. e.atEnd \in BOOLEAN
  BY <1>5
<1>7. UNCHANGED <<subs, ents, newsDone, canceling>> /\ news' = news \cup {e, e}
  BY <1>3, <1>4 DEF MemberSessionExpires
<1>8. NewsFits' /\ news \subseteq news'
  <2>1. e.stamp \in FreshStamps(newsClock, news)
    BY <1>3, <1>5
  <2> QED
    BY <2>1, <1>1, <1>5, <1>6, <1>7, NewsAdded
<1>9. PICK n : n = [w EXCEPT !.session = "expired"]
  OBVIOUS
<1>10. n \in StripeRow /\ n.session = "expired" /\ n.status = w.status
  BY <1>9 DEF StripeRow
<1>11. atStripe' = [atStripe EXCEPT ![s] = n]
  BY <1>1, <1>2, <1>9 DEF MemberSessionExpires, MembersShape
<1>12. w.status = "none"
  BY <1>1, <1>2, MemberParts DEF StripeFits, MemberSessionExpires
<1>13. StripeFits(s)'
  <2>1. atStripe'[s] = n
    BY <1>1, <1>11 DEF MembersShape
  <2>2. canceling'[s] \notin {"ended", "revoking"}
    BY <1>1, <1>2, <1>7, <1>12 DEF StripeFits
  <2> QED
    BY <2>1, <2>2, <1>10, <1>12 DEF StripeFits
<1>14. /\ canceling' \in [Subs -> {"idle", "ended", "ending", "revoking"}]
       /\ \A t \in Subs : canceling'[t] = canceling[t]
  BY <1>1, <1>7 DEF MembersShape
<1>15. UNCHANGED <<subs, ents, newsDone>> /\ (atStripe[s].status = "canceled" => n.status = "canceled")
  BY <1>2, <1>7, <1>12
<1> QED
  BY <1>8, <1>10, <1>11, <1>13, <1>14, <1>15, StripeRowStep

LEMMA ChangeKeeps ==
  ASSUME MembersInvariant, NEW s \in Subs, NEW status \in Reported, SubscriptionChanges(s, status)
  PROVE  MembersInvariant'
<1>1. MembersShape /\ NewsFits /\ StripeFits(s)
  BY DEF MembersInvariant, MembersShape
<1>2. PICK w \in StripeRow : w = atStripe[s]
  BY <1>1, MemberParts
<1>3. PICK end \in BOOLEAN : end = w.atEnd
  BY <1>2 DEF StripeRow
<1>4. PICK st \in FreshStamps(newsClock, news), p \in Periods :
        news' = news \cup {News(st, "subscription", s, status, p, end)}
  BY <1>2, <1>3 DEF SubscriptionChanges, Report
<1>5. PICK e : e = News(st, "subscription", s, status, p, end)
  OBVIOUS
<1>6. e.stamp = st /\ e.kind = "subscription" /\ e.sub = s /\ e.status = status /\ e.atEnd = end
  BY <1>5, NewsParts
<1>7. UNCHANGED <<subs, ents, newsDone, canceling>> /\ news' = news \cup {e, e}
  BY <1>4, <1>5 DEF SubscriptionChanges
<1>8. NewsFits' /\ news \subseteq news'
  <2>1. e.stamp \in FreshStamps(newsClock, news) /\ e.status \in Reported /\ e.atEnd \in BOOLEAN
    BY <1>3, <1>4, <1>6
  <2> QED
    BY <2>1, <1>1, <1>6, <1>7, NewsAdded
<1>9. PICK n : n = [w EXCEPT !.status = status]
  OBVIOUS
<1>10. n \in StripeRow /\ n.session = w.session /\ n.status = status
  BY <1>9 DEF StripeRow, Reported
<1>11. atStripe' = [atStripe EXCEPT ![s] = n]
  BY <1>1, <1>2, <1>9 DEF SubscriptionChanges, MembersShape
<1>12. w.status \notin {"none", "canceled"}
  BY <1>2 DEF SubscriptionChanges
<1>13. StripeFits(s)'
  <2>1. atStripe'[s] = n
    BY <1>1, <1>11 DEF MembersShape
  <2>2. canceling'[s] \notin {"ended", "revoking"} /\ w.session = "complete"
    BY <1>1, <1>2, <1>7, <1>12 DEF StripeFits
  <2>3. e \in Changes(s)'
    BY <1>6, <1>7 DEF Changes
  <2> QED
    BY <2>1, <2>2, <2>3, <1>6, <1>10 DEF StripeFits
<1>14. /\ canceling' \in [Subs -> {"idle", "ended", "ending", "revoking"}]
       /\ \A t \in Subs : canceling'[t] = canceling[t]
  BY <1>1, <1>7 DEF MembersShape
<1>15. UNCHANGED <<subs, ents, newsDone>> /\ (atStripe[s].status = "canceled" => n.status = "canceled")
  BY <1>2, <1>7, <1>12
<1> QED
  BY <1>8, <1>10, <1>11, <1>13, <1>14, <1>15, StripeRowStep

LEMMA SettlesKeeps ==
  ASSUME MembersInvariant, NEW s \in Subs, NEW status, InvoiceSettles(s, status)
  PROVE  MembersInvariant'
<1>1. MembersShape /\ NewsFits
  BY DEF MembersInvariant, MembersShape
<1>2. PICK st \in FreshStamps(newsClock, news) :
        news' = news \cup {News(st, "invoice", s, status, TRUE, FALSE)}
  BY DEF InvoiceSettles
<1>3. PICK e : e = News(st, "invoice", s, status, TRUE, FALSE)
  OBVIOUS
<1>4. e.stamp = st /\ e.kind = "invoice" /\ e.sub = s /\ e.atEnd = FALSE
  BY <1>3 DEF News
<1>5. e.atEnd \in BOOLEAN
  BY <1>4
<1>6. UNCHANGED <<subs, ents, newsDone, canceling, atStripe>> /\ news' = news \cup {e, e}
  BY <1>2, <1>3 DEF InvoiceSettles
<1>7. NewsFits' /\ news \subseteq news'
  <2>1. e.stamp \in FreshStamps(newsClock, news)
    BY <1>2, <1>4
  <2> QED
    BY <2>1, <1>1, <1>4, <1>5, <1>6, NewsAdded
<1>8. MembersShape'
  BY <1>1, <1>6, <1>7 DEF MembersShape
<1>9. \A t \in Subs : SubKept(t) /\ StripeKept(t)
  BY <1>6, <1>7 DEF SubKept, StripeKept
<1> QED
  BY <1>8, <1>9, KeptFits DEF MembersInvariant

\* The webhook for a completed or expired session, or for an invoice.
LEMMA NoReportKeeps ==
  ASSUME MembersInvariant, NEW e \in news, UNCHANGED <<canceling, atStripe, news>>,
         e.kind # "subscription",
         BindSubscription(e) \/ ExpireSubscription(e) \/ ApplySubscriptionInvoice(e)
  PROVE  MembersInvariant'
<1>1. MembersShape /\ NewsFits
  BY DEF MembersInvariant, MembersShape
<1>2. PICK s \in Subs : s = e.sub
  BY <1>1 DEF NewsFits
<1>3. PICK w \in SubRow : w = subs[s]
  BY <1>1, MemberParts
<1>4. ReportsFit(s)
  BY DEF MembersInvariant
<1>5. newsDone' \subseteq newsDone \cup {e} /\ ents' = ents
  BY DEF BindSubscription, ExpireSubscription, ApplySubscriptionInvoice
<1>6. newsDone' \subseteq news /\ \A f \in news : f.kind = "subscription" /\ f \in newsDone' => f \in newsDone
  BY <1>1, <1>5 DEF NewsFits
<1>7. \A t \in Subs : StripeFits(t)'
  BY KeptFits DEF StripeKept
<1>8. PICK n \in SubRow : /\ subs' = [subs EXCEPT ![s] = n] /\ n.last = w.last
                          /\ w.status # "checkout_pending" => n.status = w.status
  <2>1. CASE BindSubscription(e)
    <3>1. PICK b \in BOOLEAN : b = (w.bound \/ w.session)
      OBVIOUS
    <3>2. PICK n : n = [w EXCEPT !.bound = b]
      OBVIOUS
    <3>3. n \in SubRow /\ n.last = w.last /\ n.status = w.status
      BY <3>1, <3>2, SubChanged DEF SubRow
    <3>4. subs' = [subs EXCEPT ![s] = n]
      BY <2>1, <3>1, <3>2, <1>1, <1>2, <1>3 DEF BindSubscription, MembersShape
    <3> QED
      BY <3>3, <3>4
  <2>2. CASE ExpireSubscription(e)
    <3>1. PICK status : status = IF w.status = "checkout_pending" /\ w.session THEN "expired" ELSE w.status
      OBVIOUS
    <3>2. PICK n : n = [w EXCEPT !.status = status]
      OBVIOUS
    <3>3. n \in SubRow /\ n.last = w.last /\ n.status = status
      BY <3>1, <3>2 DEF SubRow
    <3>4. subs' = [subs EXCEPT ![s] = n]
      BY <2>2, <3>1, <3>2, <1>1, <1>2, <1>3 DEF ExpireSubscription, MembersShape
    <3> QED
      BY <3>1, <3>3, <3>4
  <2>3. CASE ApplySubscriptionInvoice(e)
    <3>1. subs' = [subs EXCEPT ![s] = w]
      BY <2>3, <1>1, <1>3 DEF ApplySubscriptionInvoice, MembersShape
    <3> QED
      BY <3>1
  <2> QED
    BY <2>1, <2>2, <2>3
<1>9. w.last # NoStamp => w.status # "checkout_pending"
  <2> SUFFICES ASSUME subs[s].last # NoStamp PROVE subs[s].status # "checkout_pending"
    BY <1>3
  <2>1. PICK f \in Changes(s) : LastApplied(s, f)
    BY <1>4 DEF ReportsFit
  <2>2. f.status \in Reported
    BY <1>1 DEF NewsFits, Changes
  <2> QED
    BY <2>1, <2>2 DEF LastApplied, EndConfirmed, Reported
<1>10. canceling' \in [Subs -> {"idle", "ended", "ending", "revoking"}] /\ atStripe' \in [Subs -> StripeRow]
  BY <1>1 DEF MembersShape
<1>11. \A t \in Subs : atStripe[t].status = "canceled" => atStripe'[t].status = "canceled"
  OBVIOUS
<1> QED
  BY <1>3, <1>5, <1>6, <1>7, <1>8, <1>9, <1>10, <1>11, RowStep

\* The entitlements after a report.
LEMMA Refreshed ==
  ASSUME MembersShape, NEW s \in Subs, NEW status, ents' = RefreshEntitlements(s, status)
  PROVE  /\ ents' \in [Slots -> EntRow]
         /\ \A x \in Slots : ents'[x].status = "active" =>
              (ents'[x] = ents[x]) \/ (ents'[x].sub = s /\ status \in Granting)
         /\ status \notin Granting => HoldsNone(s)'
<1>1. ASSUME NEW x \in Slots
      PROVE  /\ ents'[x] \in EntRow
             /\ ents'[x].status = "active" =>
              (ents'[x] = ents[x]) \/ (ents'[x].sub = s /\ status \in Granting)
             /\ status \notin Granting => (ents'[x].sub = s => ents'[x].status # "active")
  <2>1. PICK w \in EntRow : w = ents[x]
    BY MemberParts
  <2>2. CASE status \in Granting
    <3>1. ents'[x] = IF x \in Entitles[s] THEN [status |-> "active", sub |-> s] ELSE w
      BY <2>1, <2>2 DEF RefreshEntitlements
    <3>2. [status |-> "active", sub |-> s] \in EntRow /\ [status |-> "active", sub |-> s].sub = s
      BY DEF EntRow
    <3> QED
      BY <2>1, <2>2, <3>1, <3>2
  <2>3. CASE status \notin Granting
    <3>1. PICK end \in {"expired", "revoked"} : end = IF status \in {"canceled", "expired"} THEN "expired" ELSE "revoked"
      OBVIOUS
    <3>2. ents'[x] = IF w.sub = s /\ w.status = "active" THEN [w EXCEPT !.status = end] ELSE w
      BY <2>1, <2>3, <3>1 DEF RefreshEntitlements
    <3>3. [w EXCEPT !.status = end] \in EntRow /\ [w EXCEPT !.status = end].status = end
      BY <3>1 DEF EntRow
    <3> QED
      BY <2>1, <2>3, <3>1, <3>2, <3>3
  <2> QED
    BY <2>2, <2>3
<1>2. ents' = [x \in Slots |-> ents'[x]]
  BY DEF RefreshEntitlements
<1>3. ents' \in [Slots -> EntRow]
  BY <1>1, <1>2
<1> QED
  BY <1>1, <1>3 DEF HoldsNone

LEMMA ReportKeeps ==
  ASSUME MembersInvariant, NEW e \in news, UNCHANGED <<canceling, atStripe, news>>,
         e.kind = "subscription", ApplySubscription(e)
  PROVE  MembersInvariant'
<1>1. MembersShape /\ NewsFits
  BY DEF MembersInvariant, MembersShape
<1>2. PICK s \in Subs : s = e.sub
  BY <1>1 DEF NewsFits
<1>3. PICK w \in SubRow : w = subs[s]
  BY <1>1, MemberParts
<1>4. ReportsFit(s) /\ e \in Changes(s) /\ Changes(s)' = Changes(s)
  BY <1>2 DEF MembersInvariant, Changes
<1>5. \A t \in Subs : StripeFits(t)'
  BY KeptFits DEF StripeKept
<1>6. newsDone \subseteq newsDone' /\ newsDone' \subseteq newsDone \cup {e}
  BY DEF ApplySubscription
<1>7. NewsFits'
  BY <1>1, <1>6 DEF NewsFits
<1>8. e.stamp \in Stamps /\ e.stamp.id > 0 /\ e.status \in Reported /\ e.atEnd \in BOOLEAN
  BY <1>1 DEF NewsFits
<1>9. e.stamp # NoStamp
  BY <1>8, StampOrder
<1>10. CASE ~IsNewer(e.stamp, subs[s].last)
  <2>1. UNCHANGED <<subs, ents>>
    BY <1>2, <1>10 DEF ApplySubscription
  <2>2. MembersShape'
    BY <1>1, <1>7, <2>1 DEF MembersShape
  <2>3. ASSUME NEW t \in Subs, t # s PROVE ReportsFit(t)'
    <3>1. SubKept(t)
      BY <2>1, <2>3, <1>2, <1>6 DEF SubKept
    <3> QED
      BY <3>1, KeptFits
  <2>4. ReportsFit(s)'
    <3>1. subs[s].last # NoStamp
      BY <1>10 DEF IsNewer
    <3>2. PICK l \in Changes(s) : LastApplied(s, l)
      BY <3>1, <1>4 DEF ReportsFit
    <3>3. e = l \/ IsNewer(l.stamp, e.stamp)
      <4>1. l \in news /\ l.stamp = subs[s].last
        BY <3>2 DEF Changes, LastApplied
      <4>2. l.stamp \in Stamps /\ l.stamp.id > 0 /\ (e.stamp = l.stamp => e = l)
        BY <4>1, <1>1 DEF NewsFits
      <4> QED
        BY <4>1, <4>2, <1>8, <1>10, StampOrder
    <3>4. LastApplied(s, l)'
      <4>1. HoldsNone(s)' <=> HoldsNone(s)
        BY <2>1 DEF HoldsNone
      <4>2. (subs[s].status = l.status \/ EndConfirmed(s))'
        BY <3>2, <2>1 DEF LastApplied, EndConfirmed
      <4>3. \A f \in Changes(s)' : f \in newsDone' => f = l \/ IsNewer(l.stamp, f.stamp)
        BY <3>2, <3>3, <1>4, <1>6 DEF LastApplied
      <4>4. l.stamp = subs'[s].last /\ (l.status \notin Granting => HoldsNone(s)')
        BY <3>2, <2>1, <4>1 DEF LastApplied
      <4> QED
        BY <4>2, <4>3, <4>4 DEF LastApplied
    <3> QED
      BY <3>1, <3>4, <2>1, <1>4 DEF ReportsFit
  <2> QED
    BY <2>2, <2>3, <2>4, <1>5 DEF MembersInvariant
<1>11. CASE IsNewer(e.stamp, subs[s].last)
  <2>1. PICK n : n = [w EXCEPT !.status = e.status, !.bound = TRUE, !.last = e.stamp, !.atEnd = e.atEnd]
    OBVIOUS
  <2>2. n \in SubRow /\ n.status = e.status /\ n.last = e.stamp
    BY <2>1, <1>8 DEF SubRow, Reported
  <2>3. subs' = [subs EXCEPT ![s] = n]
    BY <2>1, <1>1, <1>2, <1>3, <1>11 DEF ApplySubscription, MembersShape
  <2>4. subs' \in [Subs -> SubRow] /\ subs'[s] = n /\ \A t \in Subs : t # s => subs'[t] = subs[t]
    BY <2>2, <2>3, <1>1 DEF MembersShape
  <2>5. /\ ents' \in [Slots -> EntRow]
        /\ \A x \in Slots : ents'[x].status = "active" =>
              (ents'[x] = ents[x]) \/ (ents'[x].sub = s /\ e.status \in Granting)
        /\ e.status \notin Granting => HoldsNone(s)'
    <3>1. (ents' = ents /\ e.status \in Granting) \/ ents' = RefreshEntitlements(s, e.status)
      BY <1>2, <1>11 DEF ApplySubscription
    <3>2. CASE ents' = ents /\ e.status \in Granting
      BY <3>2, <1>1 DEF MembersShape
    <3>3. CASE ents' = RefreshEntitlements(s, e.status)
      BY <3>3, <1>1, Refreshed
    <3> QED
      BY <3>1, <3>2, <3>3
  <2>6. MembersShape'
    BY <2>4, <2>5, <1>1, <1>7 DEF MembersShape
  <2>7. ASSUME NEW t \in Subs, t # s PROVE ReportsFit(t)'
    <3>1. SubKept(t)
      BY <2>4, <2>5, <2>7, <1>2, <1>6 DEF SubKept
    <3> QED
      BY <3>1, KeptFits
  <2>8. \A f \in Changes(s) : f \in newsDone => f = e \/ IsNewer(e.stamp, f.stamp)
    <3>1. CASE subs[s].last = NoStamp
      BY <3>1, <1>4 DEF ReportsFit
    <3>2. CASE subs[s].last # NoStamp
      <4>1. PICK l \in Changes(s) : LastApplied(s, l)
        BY <3>2, <1>4 DEF ReportsFit
      <4>2. l \in news /\ IsNewer(e.stamp, l.stamp)
        BY <4>1, <1>11 DEF Changes, LastApplied
      <4>3. ASSUME NEW f \in Changes(s), f \in newsDone PROVE IsNewer(e.stamp, f.stamp)
        <5>1. f = l \/ IsNewer(l.stamp, f.stamp)
          BY <4>1, <4>3 DEF LastApplied
        <5>2. /\ f.stamp \in Stamps /\ f.stamp.id > 0 /\ l.stamp \in Stamps /\ l.stamp.id > 0
          BY <4>2, <1>1 DEF NewsFits, Changes
        <5> QED
          BY <5>1, <5>2, <4>2, <1>8, StampOrder
      <4> QED
        BY <4>3
    <3> QED
      BY <3>1, <3>2
  <2>9. LastApplied(s, e)'
    BY <2>2, <2>4, <2>5, <2>8, <1>4, <1>6 DEF LastApplied
  <2>10. ReportsFit(s)'
    BY <2>2, <2>4, <2>9, <1>4, <1>9 DEF ReportsFit
  <2> QED
    BY <2>6, <2>7, <2>10, <1>5 DEF MembersInvariant
<1> QED
  BY <1>10, <1>11

LEMMA MembersNext ==
  ASSUME MembersInvariant, [MembershipsNext]_memberVars
  PROVE  MembersInvariant'
<1>1. CASE UNCHANGED <<subs, ents, canceling, atStripe, news, newsDone>>
  <2>1. MembersShape'
    BY <1>1 DEF MembersInvariant, MembersShape, NewsFits
  <2>2. \A t \in Subs : SubKept(t) /\ StripeKept(t)
    BY <1>1 DEF SubKept, StripeKept
  <2> QED
    BY <2>1, <2>2, KeptFits DEF MembersInvariant
<1>2. ASSUME NEW s \in Subs, RecurringCheckout(s) \/ RecurringAnswered(s) \/ RecurringFailed(s) \/ StopRequest(s)
      PROVE  MembersInvariant'
  BY <1>2, CheckoutKeeps, AnsweredKeeps, FailedKeeps
<1>3. ASSUME NEW s \in Subs, \/ \E now \in BOOLEAN : CancelSubscription(s, now)
                             \/ RecordCancel(s) \/ RevokeCanceled(s)
      PROVE  MembersInvariant'
  BY <1>3, CancelKeeps, RecordCancelKeeps, RevokeCanceledKeeps
<1>4. ASSUME NEW s \in Subs, \/ MemberJoins(s) \/ MemberSessionExpires(s)
                             \/ \E status \in {"active", "past_due", "canceled"} : SubscriptionChanges(s, status)
                             \/ \E status \in {"captured", "failed"} : InvoiceSettles(s, status)
      PROVE  MembersInvariant'
  BY <1>4, JoinKeeps, ExpiresKeeps, ChangeKeeps, SettlesKeeps DEF Reported
<1>5. ASSUME NEW e \in news, MembershipWebhook(e) PROVE MembersInvariant'
  <2>1. UNCHANGED <<canceling, atStripe, news>>
    BY <1>5 DEF MembershipWebhook, stripeSide
  <2> QED
    BY <2>1, <1>5, NoReportKeeps, ReportKeeps DEF MembershipWebhook
<1>6. CASE NewsTick
  BY <1>6, <1>1 DEF NewsTick
<1>7. CASE UNCHANGED memberVars
  BY <1>7, <1>1 DEF memberVars
<1> QED
  BY <1>2, <1>3, <1>4, <1>5, <1>6, <1>7 DEF MembershipsNext

\* The report that was applied last decides: what is newer is not processed, so
\* the newest, once processed, is the one.
LEMMA MembersMeans ==
  ASSUME MembersInvariant
  PROVE  MembershipsSound
<1>1. MembersShape /\ NewsFits
  BY DEF MembersInvariant, MembersShape
<1>2. MembershipsTypeOK
  BY <1>1, MemberParts DEF MembersShape, NewsFits, MembershipsTypeOK, SubRow, EntRow
<1>3. ASSUME NEW x \in Slots, ents[x].status = "active"
      PROVE  LET s == ents[x].sub
             IN \/ subs[s].status \in Granting
                \/ /\ atStripe[s].status = "canceled"
                   /\ \E e \in Changes(s) : /\ e.status = "canceled"
                                            /\ e \notin newsDone \/ e \notin Newest(Changes(s))
                \/ canceling[s] = "revoking"
  <2>1. PICK s \in Subs : s = ents[x].sub
    BY <1>1, <1>3 DEF MembersShape
  <2>2. ReportsFit(s) /\ StripeFits(s) /\ ~HoldsNone(s)
    BY <2>1, <1>3 DEF MembersInvariant, HoldsNone
  <2>3. PICK l \in Changes(s) : LastApplied(s, l)
    BY <2>2 DEF ReportsFit
  <2>4. l.status \in Granting /\ (subs[s].status = l.status \/ EndConfirmed(s))
    BY <2>2, <2>3 DEF LastApplied
  <2>5. ASSUME EndConfirmed(s)
        PROVE  \E e \in Changes(s) : e.status = "canceled" /\ (e \notin newsDone \/ e \notin Newest(Changes(s)))
    <3>1. PICK e \in Changes(s) : e.status = "canceled"
      BY <2>2, <2>5 DEF StripeFits, EndConfirmed
    <3>2. e # l
      BY <2>4, <3>1 DEF Granting
    <3>3. ASSUME e \in newsDone, e \in Newest(Changes(s)) PROVE FALSE
      <4>1. IsNewer(l.stamp, e.stamp) /\ IsNewer(e.stamp, l.stamp)
        BY <3>2, <3>3, <2>3 DEF LastApplied, Newest
      <4>2. e.stamp \in Stamps /\ e.stamp.id > 0 /\ l.stamp \in Stamps /\ l.stamp.id > 0
        BY <1>1 DEF NewsFits, Changes
      <4> QED
        BY <4>1, <4>2, StampOrder
    <3> QED
      BY <3>1, <3>3
  <2> QED
    BY <2>1, <2>4, <2>5 DEF EndConfirmed
<1>4. EntitlementsBacked
  BY <1>3 DEF EntitlementsBacked
<1>5. ASSUME NEW s \in Subs, NEW e \in Newest(Changes(s)), e \in newsDone
      PROVE  /\ \/ subs[s].status = e.status
                \/ subs[s].status = "canceled" /\ atStripe[s].status = "canceled"
             /\ e.status \notin Granting =>
                  \A x \in Slots : ents[x].sub = s => ents[x].status # "active"
  <2>1. e \in Changes(s) /\ ReportsFit(s)
    BY DEF Newest, MembersInvariant
  <2>2. subs[s].last # NoStamp
    BY <2>1, <1>5 DEF ReportsFit
  <2>3. PICK l \in Changes(s) : LastApplied(s, l)
    BY <2>1, <2>2 DEF ReportsFit
  <2>4. l = e
    <3> SUFFICES ASSUME l # e PROVE FALSE
      OBVIOUS
    <3>1. IsNewer(l.stamp, e.stamp) /\ IsNewer(e.stamp, l.stamp)
      BY <2>1, <2>3, <1>5 DEF LastApplied, Newest
    <3>2. e.stamp \in Stamps /\ e.stamp.id > 0 /\ l.stamp \in Stamps /\ l.stamp.id > 0
      BY <2>1, <1>1 DEF NewsFits, Changes
    <3> QED
      BY <3>1, <3>2, StampOrder
  <2> QED
    BY <2>3, <2>4 DEF LastApplied, EndConfirmed, HoldsNone
<1>6. MembershipConverges
  BY <1>5 DEF MembershipConverges
<1> QED
  BY <1>2, <1>4, <1>6 DEF MembershipsSound

\* For any subscriptions, entitlements and events, in whatever order they
\* arrive: an active entitlement is backed by its subscription, and a processed
\* newest report is what the row shows (apply_subscription,
\* refresh_subscription_entitlements, cancel_subscription).
THEOREM MembershipsHold == MembershipsSpec => []MembershipsSound
<1>1. MembershipsInit => MembersInvariant
  BY MembersStart
<1>2. MembersInvariant /\ [MembershipsNext]_memberVars => MembersInvariant'
  BY MembersNext
<1>3. MembersInvariant => MembershipsSound
  BY MembersMeans
<1> QED
  BY <1>1, <1>2, <1>3, PTL DEF MembershipsSpec

-----------------------------------------------------------------------------
(* Projects. The inductive invariant: the organization's row is locked by     *)
(* whoever is about to insert, and there is room for that project; a request  *)
(* past provisioning has a project that went through it, and so does every    *)
(* recorded answer, which nobody owns any more.                               *)

ProjectRow ==
  [slug : Slugs \cup {Nothing}, signing : {0, 1},
   state : {"none", "provisioning", "active", "failed"},
   database : {"none", "provisioning", "active", "failed"}]

KeyRow ==
  [owner : Attempts \cup {Nothing}, live : {0, 1}, slug : Slugs \cup {Nothing},
   answer : Projects \cup {Nothing}]

AttemptRow ==
  [key : Keys \cup {Nothing}, slug : Slugs \cup {Nothing}, project : Projects \cup {Nothing},
   step : {"none", "create", "insert", "recover", "bootstrap", "activate", "fail", "confirm"}]

\* The signing key was made and the database was opened.
Provisioned(ps, p) == ps[p].signing = 1 /\ ps[p].state # "provisioning"

\* What a request at a step has, the projects being ps.
AttemptFits(ps, x) ==
  /\ x.step # "none" => x.key \in Keys /\ x.slug \in Slugs
  /\ x.step \in {"bootstrap", "activate", "fail", "confirm"} => x.project \in Projects
  /\ x.step = "activate" => ps[x.project].signing = 1
  /\ x.step = "confirm" => Provisioned(ps, x.project)

\* A recorded answer is a provisioned project and belongs to nobody.
ClaimFits(ps, c) ==
  c.answer # Nothing => c.owner = Nothing /\ c.answer \in Projects /\ Provisioned(ps, c.answer)

ProjectsFit ==
  /\ projects \in [Projects -> ProjectRow]
  /\ \A p \in Projects : projects[p].state = "active" => projects[p].signing = 1

AttemptsFit ==
  /\ attempts \in [Attempts -> AttemptRow]
  /\ \A x \in Attempts : AttemptFits(projects, attempts[x])

ClaimsFit ==
  /\ claims \in [Keys -> KeyRow]
  /\ \A k \in Keys : ClaimFits(projects, claims[k])

AnswersFit ==
  /\ answers \in [Keys -> SUBSET Projects]
  /\ \A k \in Keys : answers[k] \subseteq {claims[k].answer} \ {Nothing}

LockFits ==
  /\ rowLock \in Attempts \cup {Nothing}
  /\ \A x \in Attempts : attempts[x].step = "insert" <=> rowLock = x

RoomFits ==
  /\ billed \in {0, 1} /\ freeLimit \in 1..FreeLimit /\ room \in 0..FreeLimit /\ IsFiniteSet(Counted)
  /\ places \in [Projects -> [place : Nat, limit : 0..FreeLimit]]
  /\ \A p \in Counted : places[p].place <= Cardinality(Counted)
  /\ rowLock # Nothing /\ room > 0 => Cardinality(Counted) < room
  /\ AllowanceHolds

ProvisioningInvariant ==
  ProjectsFit /\ AttemptsFit /\ ClaimsFit /\ AnswersFit /\ LockFits /\ RoomFits

\* What no step takes back.
ProjectsGrow ==
  /\ projects' \in [Projects -> ProjectRow]
  /\ \A p \in Projects : projects'[p].state = "active" => projects'[p].signing = 1
  /\ \A p \in Projects : projects[p].signing = 1 => projects'[p].signing = 1
  /\ \A p \in Projects : Provisioned(projects, p) => Provisioned(projects', p)

-----------------------------------------------------------------------------
(* What changes the projects.                                                *)

LEMMA ProjectsStay ==
  ASSUME ProjectsFit, projects' = projects
  PROVE  ProjectsGrow /\ Counted' = Counted
BY DEF ProjectsFit, ProjectsGrow, Provisioned, Counted

LEMMA ProjectSigned ==
  ASSUME ProjectsFit, NEW p \in Projects, projects' = [projects EXCEPT ![p].signing = 1]
  PROVE  ProjectsGrow /\ Counted' = Counted /\ projects'[p].signing = 1
<1> PICK w : w = projects[p] OBVIOUS
<1> PICK n : n = [w EXCEPT !.signing = 1] OBVIOUS
<1>w. w \in ProjectRow BY DEF ProjectsFit
<1>n. n \in ProjectRow /\ n.signing = 1 /\ n.state = w.state
  BY <1>w DEF ProjectRow
<1>1. projects' = [projects EXCEPT ![p] = n] OBVIOUS
<1>2. projects' \in [Projects -> ProjectRow] BY <1>1, <1>n DEF ProjectsFit
<1>3. projects'[p] = n /\ \A q \in Projects : q # p => projects'[q] = projects[q]
  BY <1>1 DEF ProjectsFit
<1>4. \A q \in Projects : projects'[q].state = projects[q].state
  BY <1>3, <1>n
<1>5. \A q \in Projects : projects[q].signing = 1 => projects'[q].signing = 1
  BY <1>3, <1>n
<1>6. \A q \in Projects : projects'[q].state = "active" => projects'[q].signing = 1
  BY <1>4, <1>5 DEF ProjectsFit
<1>7. \A q \in Projects : Provisioned(projects, q) => Provisioned(projects', q)
  BY <1>4, <1>5 DEF Provisioned
<1>8. Counted' = Counted BY <1>4 DEF Counted
<1> QED BY <1>2, <1>3, <1>n, <1>5, <1>6, <1>7, <1>8 DEF ProjectsGrow

LEMMA ProjectStateSet ==
  ASSUME ProjectsFit, NEW p \in Projects, NEW to \in {"active", "failed"},
         to = "active" => projects[p].signing = 1, SetProjectState(p, to)
  PROVE  ProjectsGrow /\ Counted' = Counted /\ (to = "active" => projects'[p].state # "provisioning")
<1> PICK w : w = projects[p] OBVIOUS
<1>w. w \in ProjectRow BY DEF ProjectsFit
<1>1. CASE ValidTransition(w.state, to)
  <2> PICK n : n = [w EXCEPT !.state = to, !.database = DatabaseState(to, @)] OBVIOUS
  <2>d. \A b : DatabaseState(to, b) = to BY DEF DatabaseState
  <2>n. n \in ProjectRow /\ n.signing = w.signing /\ n.state = to
    BY <1>w, <2>d DEF ProjectRow
  <2>1. projects' = [projects EXCEPT ![p] = n] BY <1>1 DEF SetProjectState
  <2>2. projects' \in [Projects -> ProjectRow] BY <2>1, <2>n DEF ProjectsFit
  <2>3. projects'[p] = n /\ \A q \in Projects : q # p => projects'[q] = projects[q]
    BY <2>1 DEF ProjectsFit
  <2>4. \A q \in Projects : projects'[q].signing = projects[q].signing
    BY <2>3, <2>n
  <2>5. \A q \in Projects : projects'[q].state = "active" => projects'[q].signing = 1
    BY <2>3, <2>4, <2>n DEF ProjectsFit
  <2>6. \A q \in Projects : Provisioned(projects, q) => Provisioned(projects', q)
    BY <2>3, <2>4, <2>n DEF Provisioned
  <2>7. w.state \notin {"none", "deleted"}
    BY <1>1, <1>w DEF ValidTransition, ProjectRow
  <2>8. \A q \in Projects : projects'[q].state \in {"none", "deleted"} <=> projects[q].state \in {"none", "deleted"}
    BY <2>3, <2>n, <2>7
  <2>9. Counted' = Counted BY <2>8 DEF Counted
  <2> QED BY <2>2, <2>3, <2>4, <2>5, <2>6, <2>9, <2>n DEF ProjectsGrow
<1>2. CASE ~ValidTransition(w.state, to)
  <2>1. projects' = projects BY <1>2 DEF SetProjectState
  <2>2. to = "active" => w.state # "provisioning" BY <1>2 DEF ValidTransition
  <2> QED BY <2>1, <2>2, ProjectsStay
<1> QED BY <1>1, <1>2

LEMMA ProjectInserted ==
  ASSUME ProvisioningAssumption, ProjectsFit, NEW p \in Projects, NEW s \in Slugs, projects[p] = NoProject,
         projects' = [projects EXCEPT ![p] = [slug |-> s, state |-> "provisioning",
                        database |-> "provisioning", signing |-> 0]]
  PROVE  ProjectsGrow /\ p \notin Counted /\ Counted' = Counted \cup {p}
<1> PICK n : n = [slug |-> s, state |-> "provisioning", database |-> "provisioning", signing |-> 0] OBVIOUS
<1>n. n \in ProjectRow /\ n.state = "provisioning" BY DEF ProjectRow
<1>w. projects[p].state = "none" /\ projects[p].signing = 0 BY DEF NoProject
<1>1. projects' = [projects EXCEPT ![p] = n] OBVIOUS
<1>2. projects' \in [Projects -> ProjectRow] BY <1>1, <1>n DEF ProjectsFit
<1>3. projects'[p] = n /\ \A q \in Projects : q # p => projects'[q] = projects[q]
  BY <1>1 DEF ProjectsFit
<1>4. \A q \in Projects : projects'[q].state = "active" => projects'[q].signing = 1
  BY <1>3, <1>n DEF ProjectsFit
<1>5. \A q \in Projects : projects[q].signing = 1 => projects'[q].signing = 1
  BY <1>3, <1>w
<1>6. \A q \in Projects : Provisioned(projects, q) => Provisioned(projects', q)
  BY <1>3, <1>w DEF Provisioned
<1>7. p \notin Counted BY <1>w DEF Counted
<1>8. Counted' = Counted \cup {p}
  BY <1>3, <1>n DEF Counted
<1> QED BY <1>2, <1>4, <1>5, <1>6, <1>7, <1>8 DEF ProjectsGrow

-----------------------------------------------------------------------------
(* What holds of the requests, the keys and the answers as projects grow.    *)

LEMMA FitsGrow ==
  ASSUME ProjectsGrow
  PROVE  /\ \A x \in AttemptRow : AttemptFits(projects, x) => AttemptFits(projects', x)
         /\ \A c \in KeyRow : ClaimFits(projects, c) => ClaimFits(projects', c)
<1>1. \A x \in AttemptRow : AttemptFits(projects, x) => AttemptFits(projects', x)
  BY DEF AttemptFits, ProjectsGrow
<1>2. \A c \in KeyRow : ClaimFits(projects, c) => ClaimFits(projects', c)
  BY DEF ClaimFits, ProjectsGrow
<1> QED BY <1>1, <1>2

LEMMA AttemptsGrow ==
  ASSUME AttemptsFit, ProjectsGrow, NEW a \in Attempts, NEW n \in AttemptRow, AttemptFits(projects', n),
         attempts' = [attempts EXCEPT ![a] = n]
  PROVE  AttemptsFit'
<1>1. attempts' \in [Attempts -> AttemptRow] BY DEF AttemptsFit
<1>2. \A x \in Attempts : AttemptFits(projects', attempts'[x])
  <2> TAKE x \in Attempts
  <2>1. CASE x = a BY <2>1 DEF AttemptsFit
  <2>2. CASE x # a
    <3>1. attempts'[x] = attempts[x] BY <2>2 DEF AttemptsFit
    <3> QED BY <3>1, FitsGrow DEF AttemptsFit
  <2> QED BY <2>1, <2>2
<1> QED BY <1>1, <1>2 DEF AttemptsFit

LEMMA AttemptsStay ==
  ASSUME AttemptsFit, ProjectsGrow, attempts' = attempts
  PROVE  AttemptsFit'
<1>1. \A x \in Attempts : AttemptFits(projects', attempts[x]) BY FitsGrow DEF AttemptsFit
<1> QED BY <1>1 DEF AttemptsFit

LEMMA KeysStay ==
  ASSUME ClaimsFit, AnswersFit, ProjectsGrow, claims' = claims, answers' = answers
  PROVE  ClaimsFit' /\ AnswersFit'
<1>1. \A k \in Keys : ClaimFits(projects', claims[k]) BY FitsGrow DEF ClaimsFit
<1> QED BY <1>1 DEF ClaimsFit, AnswersFit

\* A claim without an answer becomes another: nothing was answered for it.
LEMMA KeyChanges ==
  ASSUME ClaimsFit, AnswersFit, ProjectsGrow, NEW k \in Keys, NEW c \in KeyRow, c.answer = Nothing,
         claims[k].answer = Nothing, claims' = [claims EXCEPT ![k] = c], answers' = answers
  PROVE  ClaimsFit' /\ AnswersFit'
<1>1. claims' \in [Keys -> KeyRow] BY DEF ClaimsFit
<1>2. claims'[k] = c /\ \A j \in Keys : j # k => claims'[j] = claims[j] BY DEF ClaimsFit
<1>3. \A j \in Keys : ClaimFits(projects', claims'[j])
  <2> TAKE j \in Keys
  <2>1. CASE j = k BY <2>1, <1>2 DEF ClaimFits
  <2>2. CASE j # k BY <2>2, <1>2, FitsGrow DEF ClaimsFit
  <2> QED BY <2>1, <2>2
<1>4. \A j \in Keys : answers[j] \subseteq {claims'[j].answer} \ {Nothing}
  BY <1>2 DEF AnswersFit
<1> QED BY <1>1, <1>3, <1>4 DEF ClaimsFit, AnswersFit

NoAttemptFits == NoAttempt \in AttemptRow /\ \A ps : AttemptFits(ps, NoAttempt)

LEMMA NoAttemptShaped == NoAttemptFits
BY DEF NoAttemptFits, NoAttempt, AttemptRow, AttemptFits

LEMMA NoClaimShaped == NoClaim \in KeyRow /\ NoClaim.answer = Nothing
BY DEF NoClaim, KeyRow

\* abandon.
LEMMA AbandonFits ==
  ASSUME ProvisioningAssumption, AttemptsFit, ClaimsFit, AnswersFit, LockFits, ProjectsGrow, NEW a \in Attempts,
         attempts[a].step # "none", attempts[a].step # "insert", rowLock' = rowLock, Abandon(a)
  PROVE  AttemptsFit' /\ ClaimsFit' /\ AnswersFit' /\ LockFits'
<1>1. attempts' = [attempts EXCEPT ![a] = NoAttempt] BY DEF Abandon, Leave
<1>2. AttemptsFit' BY <1>1, NoAttemptShaped, AttemptsGrow DEF NoAttemptFits
<1>3. answers' = answers BY DEF Abandon
<1>4. ClaimsFit' /\ AnswersFit'
  <2> PICK k : k = attempts[a].key OBVIOUS
  <2>k. k \in Keys BY DEF AttemptsFit, AttemptFits
  <2>1. CASE claims[k].owner = a
    <3>1. claims' = [claims EXCEPT ![k] = NoClaim] BY <2>1 DEF Abandon, Owns
    <3>2. claims[k].answer = Nothing
      BY <2>1, <2>k DEF ClaimsFit, ClaimFits, ProvisioningAssumption
    <3> QED BY <3>1, <3>2, <2>k, <1>3, NoClaimShaped, KeyChanges
  <2>2. CASE claims[k].owner # a
    <3>1. claims' = claims BY <2>2 DEF Abandon, Owns
    <3> QED BY <3>1, <1>3, KeysStay
  <2> QED BY <2>1, <2>2
<1>5. LockFits'
  <2>1. attempts'[a].step # "insert" BY <1>1 DEF AttemptsFit, NoAttempt
  <2>2. \A x \in Attempts : x # a => attempts'[x] = attempts[x] BY <1>1 DEF AttemptsFit
  <2> QED BY <2>1, <2>2 DEF LockFits
<1> QED BY <1>2, <1>4, <1>5

\* The request goes on to another step.
LEMMA GoFits ==
  ASSUME AttemptsFit, ProjectsGrow, NEW a \in Attempts, attempts[a].step # "none",
         NEW to \in {"insert", "recover", "activate", "fail", "confirm"}, Go(a, to),
         to \in {"activate", "fail", "confirm"} => attempts[a].project \in Projects,
         to = "activate" => projects'[attempts[a].project].signing = 1,
         to = "confirm" => Provisioned(projects', attempts[a].project)
  PROVE  /\ AttemptsFit' /\ attempts'[a].step = to
         /\ \A x \in Attempts : x # a => attempts'[x] = attempts[x]
<1> PICK w : w = attempts[a] OBVIOUS
<1> PICK n : n = [w EXCEPT !.step = to] OBVIOUS
<1>w. w \in AttemptRow /\ AttemptFits(projects, w) BY DEF AttemptsFit
<1>n. n \in AttemptRow /\ n.step = to /\ n.key = w.key /\ n.slug = w.slug /\ n.project = w.project
  BY <1>w DEF AttemptRow
<1>1. attempts' = [attempts EXCEPT ![a] = n] BY DEF Go
<1>2. AttemptFits(projects', n)
  BY <1>w, <1>n DEF AttemptFits
<1>3. AttemptsFit' BY <1>1, <1>2, <1>n, AttemptsGrow
<1> QED BY <1>1, <1>3, <1>n DEF AttemptsFit

LEMMA RoomStays ==
  ASSUME RoomFits, Counted' = Counted, UNCHANGED allowance, rowLock' \in {rowLock, Nothing}
  PROVE  RoomFits'
BY DEF RoomFits, AllowanceHolds, allowance

LEMMA RoomReleased ==
  ASSUME ProvisioningAssumption, RoomFits, Counted' = Counted, UNCHANGED <<billed, freeLimit, places>>,
         NEW a \in Attempts, Release(a)
  PROVE  RoomFits'
<1>1. AllowanceHolds' BY DEF RoomFits, AllowanceHolds
<1>2. rowLock' \in {rowLock, Nothing} /\ room' \in {room, 0} BY DEF Release
<1>3. room' \in 0..FreeLimit BY <1>2 DEF RoomFits, ProvisioningAssumption
<1>4. rowLock' # Nothing /\ room' > 0 => Cardinality(Counted)' < room' BY <1>2 DEF RoomFits
<1> QED BY <1>1, <1>3, <1>4 DEF RoomFits

-----------------------------------------------------------------------------
(* The steps.                                                                *)

LEMMA AdmitKeeps ==
  ASSUME ProvisioningAssumption, ProvisioningInvariant, NEW a \in Attempts, NEW k \in Keys, NEW s \in Slugs,
         AdmitProject(a, k, s)
  PROVE  ProvisioningInvariant'
<1> USE DEF ProvisioningInvariant
<1>p. projects' = projects /\ UNCHANGED allowance /\ rowLock' = rowLock BY DEF AdmitProject
<1>g. ProjectsGrow /\ Counted' = Counted BY <1>p, ProjectsStay
<1>f. ProjectsFit' BY <1>p DEF ProjectsFit
<1>r. RoomFits' BY <1>g, <1>p, RoomStays
<1>c. claims[k] \in KeyRow BY DEF ClaimsFit
<1>1. CASE /\ claims[k] = NoClaim \/ (claims[k].slug = s /\ claims[k].live = 0 /\ claims[k].answer = Nothing)
           /\ claims' = [claims EXCEPT ![k] = [owner |-> a, live |-> 1, slug |-> s, answer |-> Nothing]]
           /\ attempts' = [attempts EXCEPT ![a] = [NoAttempt EXCEPT !.step = "create", !.key = k, !.slug = s]]
           /\ UNCHANGED answers
  <2> PICK n : n = [NoAttempt EXCEPT !.step = "create", !.key = k, !.slug = s] OBVIOUS
  <2> PICK c : c = [owner |-> a, live |-> 1, slug |-> s, answer |-> Nothing] OBVIOUS
  <2>n. n \in AttemptRow /\ n.step = "create" /\ n.key = k /\ n.slug = s BY DEF NoAttempt, AttemptRow
  <2>c. c \in KeyRow /\ c.answer = Nothing BY DEF KeyRow
  <2>1. attempts' = [attempts EXCEPT ![a] = n] BY <1>1
  <2>2. AttemptsFit' BY <2>1, <2>n, <1>g, AttemptsGrow DEF AttemptFits
  <2>3. claims[k].answer = Nothing BY <1>1, NoClaimShaped
  <2>4. claims' = [claims EXCEPT ![k] = c] BY <1>1
  <2>5. answers' = answers BY <1>1
  <2>6. ClaimsFit' /\ AnswersFit' BY <2>3, <2>4, <2>5, <2>c, <1>g, KeyChanges
  <2>7. attempts[a].step = "none" BY DEF AdmitProject, NoAttempt
  <2>8. attempts'[a] = n /\ \A x \in Attempts : x # a => attempts'[x] = attempts[x]
    BY <2>1 DEF AttemptsFit
  <2>9. LockFits' BY <2>7, <2>8, <2>n, <1>p DEF LockFits
  <2> QED BY <2>2, <2>6, <2>9, <1>f, <1>r
<1>2. CASE /\ claims[k].slug = s /\ claims[k].answer # Nothing
           /\ Answer(k, claims[k].answer) /\ UNCHANGED <<claims, attempts>>
  <2>1. AttemptsFit' BY <1>2, <1>g, AttemptsStay
  <2>2. LockFits' BY <1>2, <1>p DEF LockFits
  <2>3. ClaimsFit' BY <1>2, <1>p DEF ClaimsFit
  <2>4. answers' = [answers EXCEPT ![k] = answers[k] \cup {claims[k].answer}] BY <1>2 DEF Answer
  <2>5. claims[k].answer \in Projects BY <1>2, <1>c DEF KeyRow
  <2>6. AnswersFit'
    <3>1. answers' \in [Keys -> SUBSET Projects] BY <2>4, <2>5 DEF AnswersFit
    <3>2. \A j \in Keys : answers'[j] \subseteq {claims[j].answer} \ {Nothing}
      BY <1>2, <2>4 DEF AnswersFit
    <3> QED BY <3>1, <3>2, <1>2 DEF AnswersFit
  <2> QED BY <2>1, <2>2, <2>3, <2>6, <1>f, <1>r
<1> QED BY <1>1, <1>2 DEF AdmitProject

LEMMA LeaseKeeps ==
  ASSUME ProvisioningAssumption, ProvisioningInvariant, NEW k \in Keys, LeaseChanges(k)
  PROVE  ProvisioningInvariant'
<1> USE DEF ProvisioningInvariant
<1>p. projects' = projects /\ UNCHANGED allowance /\ rowLock' = rowLock /\ attempts' = attempts /\ answers' = answers
  BY DEF LeaseChanges
<1>g. ProjectsGrow /\ Counted' = Counted BY <1>p, ProjectsStay
<1>f. ProjectsFit' BY <1>p DEF ProjectsFit
<1>r. RoomFits' BY <1>g, <1>p, RoomStays
<1>1. AttemptsFit' BY <1>p, <1>g, AttemptsStay
<1>2. LockFits' BY <1>p DEF LockFits
<1> PICK w : w = claims[k] OBVIOUS
<1>w. w \in KeyRow BY DEF ClaimsFit
<1> PICK n : n = [w EXCEPT !.live = 1 - w.live] OBVIOUS
<1>n. n \in KeyRow /\ n.answer = w.answer BY <1>w DEF KeyRow
<1>3. claims' = [claims EXCEPT ![k] = n] BY DEF LeaseChanges
<1>4. w.answer = Nothing BY DEF LeaseChanges, ClaimsFit, ClaimFits
<1>5. ClaimsFit' /\ AnswersFit' BY <1>3, <1>4, <1>n, <1>p, <1>g, KeyChanges
<1> QED BY <1>1, <1>2, <1>5, <1>f, <1>r

LEMMA EnforceKeeps ==
  ASSUME ProvisioningAssumption, ProvisioningInvariant, NEW a \in Attempts, EnforceAllowance(a)
  PROVE  ProvisioningInvariant'
<1> USE DEF ProvisioningInvariant
<1>p. projects' = projects /\ UNCHANGED <<billed, freeLimit, places>> /\ claims' = claims /\ answers' = answers
      /\ rowLock = Nothing /\ room' = (IF billed = 1 THEN 0 ELSE freeLimit)
      /\ rowLock' = a /\ Go(a, "insert") /\ attempts[a].step = "create"
  BY DEF EnforceAllowance, At
<1>g. ProjectsGrow /\ Counted' = Counted BY <1>p, ProjectsStay
<1>f. ProjectsFit' BY <1>p DEF ProjectsFit
<1>1. /\ AttemptsFit' /\ attempts'[a].step = "insert"
      /\ \A x \in Attempts : x # a => attempts'[x] = attempts[x]
  BY <1>p, <1>g, GoFits
<1>2. ClaimsFit' /\ AnswersFit' BY <1>p, <1>g, KeysStay
<1>3. LockFits' BY <1>1, <1>p DEF LockFits, ProvisioningAssumption
<1>4. RoomFits'
  <2>1. billed = 1 \/ Cardinality(Counted) < freeLimit BY DEF EnforceAllowance
  <2>2. AllowanceHolds' BY <1>g, <1>p DEF RoomFits, AllowanceHolds
  <2>3. room' \in 0..FreeLimit BY <1>p DEF RoomFits, ProvisioningAssumption
  <2>4. room' > 0 => Cardinality(Counted)' < room' BY <1>g, <1>p, <2>1 DEF RoomFits
  <2> QED BY <1>g, <1>p, <2>2, <2>3, <2>4 DEF RoomFits
<1> QED BY <1>1, <1>2, <1>3, <1>4, <1>f

LEMMA OverKeeps ==
  ASSUME ProvisioningAssumption, ProvisioningInvariant, NEW a \in Attempts, OverAllowance(a)
  PROVE  ProvisioningInvariant'
<1> USE DEF ProvisioningInvariant
<1>p. projects' = projects /\ UNCHANGED allowance /\ rowLock' = rowLock /\ attempts[a].step = "create" /\ Abandon(a)
  BY DEF OverAllowance, At, Abandon
<1>g. ProjectsGrow /\ Counted' = Counted BY <1>p, ProjectsStay
<1>f. ProjectsFit' BY <1>p DEF ProjectsFit
<1>r. RoomFits' BY <1>g, <1>p, RoomStays
<1>1. AttemptsFit' /\ ClaimsFit' /\ AnswersFit' /\ LockFits' BY <1>p, <1>g, AbandonFits
<1> QED BY <1>1, <1>f, <1>r

\* Whoever inserts lets the organization's row go.
LEMMA Unlocks ==
  ASSUME ProvisioningAssumption, LockFits, NEW a \in Attempts,
         rowLock' = (IF rowLock = a THEN Nothing ELSE rowLock),
         attempts'[a].step # "insert", \A x \in Attempts : x # a => attempts'[x] = attempts[x]
  PROVE  LockFits' /\ rowLock' \in {rowLock, Nothing}
BY DEF LockFits, ProvisioningAssumption

LEMMA InsertKeeps ==
  ASSUME ProvisioningAssumption, ProvisioningInvariant, NEW a \in Attempts, NEW p \in Projects, InsertProject(a, p)
  PROVE  ProvisioningInvariant'
<1> USE DEF ProvisioningInvariant
<1>p. UNCHANGED <<billed, freeLimit>> /\ claims' = claims /\ answers' = answers /\ attempts[a].step = "insert"
      /\ Release(a) /\ rowLock' = (IF rowLock = a THEN Nothing ELSE rowLock)
  BY DEF InsertProject, At, Release
<1>a. rowLock = a BY <1>p DEF LockFits
<1>n. rowLock' = Nothing /\ room' = 0 BY <1>a, <1>p DEF Release
<1>1. CASE SlugTaken(attempts[a].slug)
  <2>0. Go(a, "recover") /\ projects' = projects /\ places' = places BY <1>1 DEF InsertProject
  <2>g. ProjectsGrow /\ Counted' = Counted BY <2>0, ProjectsStay
  <2>f. ProjectsFit' BY <2>0 DEF ProjectsFit
  <2>1. /\ AttemptsFit' /\ attempts'[a].step = "recover"
        /\ \A x \in Attempts : x # a => attempts'[x] = attempts[x]
    BY <1>p, <2>0, <2>g, GoFits
  <2>2. ClaimsFit' /\ AnswersFit' BY <1>p, <2>g, KeysStay
  <2>3. LockFits' /\ rowLock' \in {rowLock, Nothing} BY <2>1, <1>p, Unlocks
  <2>4. RoomFits' BY <2>0, <2>g, <1>p, RoomReleased
  <2> QED BY <2>f, <2>1, <2>2, <2>3, <2>4
<1>2. CASE ~SlugTaken(attempts[a].slug)
  <2> PICK w : w = attempts[a] OBVIOUS
  <2>w. w \in AttemptRow /\ AttemptFits(projects, w) BY DEF AttemptsFit
  <2>s. w.slug \in Slugs /\ w.key \in Keys BY <2>w, <1>p DEF AttemptFits
  <2>0. /\ projects[p] = NoProject
        /\ projects' = [projects EXCEPT ![p] = [slug |-> w.slug, state |-> "provisioning",
                          database |-> "provisioning", signing |-> 0]]
        /\ attempts' = [attempts EXCEPT ![a].step = "bootstrap", ![a].project = p]
        /\ places' = [places EXCEPT ![p] = [place |-> Cardinality(Counted) + 1, limit |-> room]]
    BY <1>2 DEF InsertProject
  <2>g. ProjectsGrow /\ p \notin Counted /\ Counted' = Counted \cup {p}
    BY <2>0, <2>s, ProjectInserted
  <2>f. ProjectsFit' BY <2>g DEF ProjectsGrow, ProjectsFit
  <2> PICK n : n = [w EXCEPT !.step = "bootstrap", !.project = p] OBVIOUS
  <2>n. n \in AttemptRow /\ n.step = "bootstrap" /\ n.project = p /\ n.key = w.key /\ n.slug = w.slug
    BY <2>w DEF AttemptRow
  <2>1. attempts' = [attempts EXCEPT ![a] = n] BY <2>0 DEF AttemptsFit
  <2>2. AttemptsFit' BY <2>1, <2>n, <2>s, <2>g, AttemptsGrow DEF AttemptFits
  <2>3. ClaimsFit' /\ AnswersFit' BY <1>p, <2>g, KeysStay
  <2>4. attempts'[a] = n /\ \A x \in Attempts : x # a => attempts'[x] = attempts[x]
    BY <2>1 DEF AttemptsFit
  <2>5. LockFits' BY <2>4, <2>n, <1>p, Unlocks
  <2>6. RoomFits'
    <3>1. IsFiniteSet(Counted') /\ Cardinality(Counted') = Cardinality(Counted) + 1
      BY <2>g, FS_AddElement DEF RoomFits
    <3>2. Cardinality(Counted) \in Nat BY FS_CardinalityType DEF RoomFits
    <3>3. room > 0 => Cardinality(Counted) < room BY <1>a DEF RoomFits, ProvisioningAssumption
    <3> PICK m : m = Cardinality(Counted) OBVIOUS
    <3> PICK e : e = [place |-> m + 1, limit |-> room] OBVIOUS
    <3>4. m \in Nat /\ e \in [place : Nat, limit : 0..FreeLimit] /\ e.place = m + 1 /\ e.limit = room
      BY <3>2 DEF RoomFits
    <3>5. places' = [places EXCEPT ![p] = e] BY <2>0
    <3>6. /\ places' \in [Projects -> [place : Nat, limit : 0..FreeLimit]] /\ places'[p] = e
          /\ \A q \in Projects : q # p => places'[q] = places[q]
      BY <3>4, <3>5 DEF RoomFits
    <3>7. \A q \in Counted : q \in Projects /\ q # p /\ places[q].place \in Nat /\ places[q].place <= m
      BY <2>g DEF RoomFits, Counted
    <3>8. \A q \in Counted : places'[q] = places[q] BY <3>6, <3>7
    <3>9. \A q \in Counted' : places'[q].place <= m + 1
      <4>1. \A q \in Counted : places'[q].place <= m + 1 BY <3>4, <3>7, <3>8
      <4>2. places'[p].place <= m + 1 BY <3>4, <3>6
      <4> QED BY <4>1, <4>2, <2>g
    <3>10. \A q \in Counted' : places'[q].limit > 0 => places'[q].place <= places'[q].limit
      <4>1. \A q \in Counted : places'[q].limit > 0 => places'[q].place <= places'[q].limit
        BY <3>8 DEF RoomFits, AllowanceHolds
      <4>2. e.limit > 0 => e.place <= e.limit BY <3>3, <3>4 DEF RoomFits
      <4> QED BY <4>1, <4>2, <3>6, <2>g
    <3>11. \A q, o \in Counted' : q # o => places'[q].place # places'[o].place
      <4>1. \A q, o \in Counted : q # o => places'[q].place # places'[o].place
        BY <3>8 DEF RoomFits, AllowanceHolds
      <4>2. \A q \in Counted : places'[q].place # e.place BY <3>4, <3>7, <3>8
      <4> QED BY <4>1, <4>2, <3>6, <2>g
    <3>12. AllowanceHolds' BY <3>10, <3>11 DEF AllowanceHolds
    <3>13. Cardinality(Counted)' = m + 1 BY <3>1
    <3>14. \A q \in Counted' : places'[q].place <= Cardinality(Counted)' BY <3>9, <3>13
    <3>15. room' \in 0..FreeLimit BY <1>n DEF ProvisioningAssumption
    <3> QED BY <3>1, <3>6, <3>12, <3>14, <3>15, <1>n, <1>p DEF RoomFits
  <2> QED BY <2>f, <2>2, <2>3, <2>5, <2>6
<1> QED BY <1>1, <1>2

LEMMA RecoverKeeps ==
  ASSUME ProvisioningAssumption, ProvisioningInvariant, NEW a \in Attempts, Recover(a)
  PROVE  ProvisioningInvariant'
<1> USE DEF ProvisioningInvariant
<1>p. projects' = projects /\ rowLock' = rowLock /\ attempts[a].step = "recover" BY DEF Recover, At
<1>g. ProjectsGrow /\ Counted' = Counted BY <1>p, ProjectsStay
<1>f. ProjectsFit' BY <1>p DEF ProjectsFit
<1>b. UNCHANGED allowance BY DEF Recover, Abandon
<1>r. RoomFits' BY <1>g, <1>p, <1>b, RoomStays
<1> PICK p \in Projects :
      IF Completed(p)
      THEN /\ attempts' = [attempts EXCEPT ![a].step = "confirm", ![a].project = p]
           /\ UNCHANGED <<claims, allowance, answers>>
      ELSE Abandon(a)
  BY DEF Recover
<1>1. CASE Completed(p)
  <2> PICK w : w = attempts[a] OBVIOUS
  <2>w. w \in AttemptRow /\ AttemptFits(projects, w) BY DEF AttemptsFit
  <2>s. w.slug \in Slugs /\ w.key \in Keys BY <2>w, <1>p DEF AttemptFits
  <2> PICK n : n = [w EXCEPT !.step = "confirm", !.project = p] OBVIOUS
  <2>n. n \in AttemptRow /\ n.step = "confirm" /\ n.project = p /\ n.key = w.key /\ n.slug = w.slug
    BY <2>w DEF AttemptRow
  <2>1. attempts' = [attempts EXCEPT ![a] = n] BY <1>1 DEF AttemptsFit
  <2>2. Provisioned(projects', p) BY <1>1, <1>p DEF Completed, ProjectsFit, Provisioned
  <2>3. AttemptsFit' BY <2>1, <2>n, <2>s, <2>2, <1>g, AttemptsGrow DEF AttemptFits
  <2>4. ClaimsFit' /\ AnswersFit' BY <1>1, <1>g, KeysStay
  <2>5. attempts'[a] = n /\ \A x \in Attempts : x # a => attempts'[x] = attempts[x]
    BY <2>1 DEF AttemptsFit
  <2>6. LockFits' BY <2>5, <2>n, <1>p, ZenonT(60) DEF LockFits
  <2> QED BY <2>3, <2>4, <2>6, <1>f, <1>r
<1>2. CASE ~Completed(p)
  <2>1. AttemptsFit' /\ ClaimsFit' /\ AnswersFit' /\ LockFits' BY <1>2, <1>p, <1>g, AbandonFits
  <2> QED BY <2>1, <1>f, <1>r
<1> QED BY <1>1, <1>2

\* A request that holds nothing of the organization goes on.
LEMMA WalkOn ==
  ASSUME ProvisioningAssumption, ProvisioningInvariant, NEW a \in Attempts, NEW to \in {"activate", "fail", "confirm"},
         attempts[a].step \in {"bootstrap", "activate"}, Go(a, to), ProjectsGrow, Counted' = Counted,
         UNCHANGED <<claims, allowance, rowLock, answers>>,
         to = "activate" => projects'[attempts[a].project].signing = 1,
         to = "confirm" => Provisioned(projects', attempts[a].project)
  PROVE  ProvisioningInvariant'
<1> USE DEF ProvisioningInvariant
<1>0. attempts[a].project \in Projects BY DEF AttemptsFit, AttemptFits
<1>1. /\ AttemptsFit' /\ attempts'[a].step = to
      /\ \A x \in Attempts : x # a => attempts'[x] = attempts[x]
  BY <1>0, GoFits
<1>2. ClaimsFit' /\ AnswersFit' BY KeysStay
<1>3. LockFits' BY <1>1 DEF LockFits
<1>4. RoomFits' BY RoomStays
<1>5. ProjectsFit' BY DEF ProjectsGrow, ProjectsFit
<1> QED BY <1>1, <1>2, <1>3, <1>4, <1>5

LEMMA BootstrapKeeps ==
  ASSUME ProvisioningAssumption, ProvisioningInvariant, NEW a \in Attempts, BootstrapSigning(a)
  PROVE  ProvisioningInvariant'
<1>p. attempts[a].step = "bootstrap" /\ UNCHANGED <<claims, allowance, rowLock, answers>>
  BY DEF BootstrapSigning, At
<1>0. attempts[a].project \in Projects BY <1>p DEF ProvisioningInvariant, AttemptsFit, AttemptFits
<1>1. CASE projects' = [projects EXCEPT ![attempts[a].project].signing = 1] /\ Go(a, "activate")
  <2>1. ProjectsGrow /\ Counted' = Counted /\ projects'[attempts[a].project].signing = 1
    BY <1>0, <1>1, ProjectSigned DEF ProvisioningInvariant
  <2> QED BY <2>1, <1>p, <1>1, WalkOn
<1>2. CASE Go(a, "fail") /\ UNCHANGED projects
  <2>1. ProjectsGrow /\ Counted' = Counted BY <1>2, ProjectsStay DEF ProvisioningInvariant
  <2> QED BY <2>1, <1>p, <1>2, WalkOn
<1> QED BY <1>1, <1>2 DEF BootstrapSigning

LEMMA ActivateKeeps ==
  ASSUME ProvisioningAssumption, ProvisioningInvariant, NEW a \in Attempts, Activate(a)
  PROVE  ProvisioningInvariant'
<1>p. attempts[a].step = "activate" /\ UNCHANGED <<claims, allowance, rowLock, answers>>
  BY DEF Activate, At
<1>0. attempts[a].project \in Projects /\ projects[attempts[a].project].signing = 1
  BY <1>p DEF ProvisioningInvariant, AttemptsFit, AttemptFits
<1>1. CASE SetProjectState(attempts[a].project, "active")
  <2>1. /\ ProjectsGrow /\ Counted' = Counted
        /\ projects'[attempts[a].project].state # "provisioning"
    BY <1>0, <1>1, ProjectStateSet DEF ProvisioningInvariant
  <2>2. Provisioned(projects', attempts[a].project) BY <2>1, <1>0 DEF ProjectsGrow, Provisioned
  <2>3. CASE Go(a, "confirm") BY <2>1, <2>2, <2>3, <1>p, WalkOn
  <2>4. CASE Go(a, "fail") BY <2>1, <2>4, <1>p, WalkOn
  <2>5. CASE Go(a, "fail") /\ UNCHANGED projects BY <2>1, <2>5, <1>p, WalkOn
  <2> QED BY <2>3, <2>4, <2>5 DEF Activate
<1>2. CASE Go(a, "fail") /\ UNCHANGED projects
  <2>1. ProjectsGrow /\ Counted' = Counted BY <1>2, ProjectsStay DEF ProvisioningInvariant
  <2> QED BY <2>1, <1>p, <1>2, WalkOn
<1> QED BY <1>1, <1>2 DEF Activate

LEMMA FailKeeps ==
  ASSUME ProvisioningAssumption, ProvisioningInvariant, NEW a \in Attempts, Fail(a)
  PROVE  ProvisioningInvariant'
<1> USE DEF ProvisioningInvariant
<1>p. attempts[a].step = "fail" /\ rowLock' = rowLock /\ UNCHANGED allowance /\ Abandon(a)
  BY DEF Fail, At, Abandon
<1>0. attempts[a].project \in Projects BY <1>p DEF AttemptsFit, AttemptFits
<1>1. ProjectsGrow /\ Counted' = Counted
  <2>1. CASE SetProjectState(attempts[a].project, "failed") BY <2>1, <1>0, ProjectStateSet
  <2>2. CASE UNCHANGED projects BY <2>2, ProjectsStay
  <2> QED BY <2>1, <2>2 DEF Fail
<1>2. ProjectsFit' BY <1>1 DEF ProjectsGrow, ProjectsFit
<1>3. RoomFits' BY <1>1, <1>p, RoomStays
<1>4. AttemptsFit' /\ ClaimsFit' /\ AnswersFit' /\ LockFits' BY <1>p, <1>1, AbandonFits
<1> QED BY <1>2, <1>3, <1>4

LEMMA CompleteKeeps ==
  ASSUME ProvisioningAssumption, ProvisioningInvariant, NEW a \in Attempts, CompleteProject(a)
  PROVE  ProvisioningInvariant'
<1> USE DEF ProvisioningInvariant
<1>p. projects' = projects /\ UNCHANGED allowance /\ rowLock' = rowLock /\ attempts[a].step = "confirm"
  BY DEF CompleteProject, At
<1>g. ProjectsGrow /\ Counted' = Counted BY <1>p, ProjectsStay
<1>f. ProjectsFit' BY <1>p DEF ProjectsFit
<1>r. RoomFits' BY <1>g, <1>p, RoomStays
<1> PICK k : k = attempts[a].key OBVIOUS
<1> PICK p : p = attempts[a].project OBVIOUS
<1>k. k \in Keys /\ p \in Projects /\ Provisioned(projects, p) BY <1>p DEF AttemptsFit, AttemptFits
<1>1. attempts' = [attempts EXCEPT ![a] = NoAttempt] BY DEF CompleteProject, Leave
<1>2. AttemptsFit' BY <1>1, <1>g, NoAttemptShaped, AttemptsGrow DEF NoAttemptFits
<1>3. LockFits'
  <2>1. attempts'[a].step # "insert" BY <1>1 DEF AttemptsFit, NoAttempt
  <2>2. \A x \in Attempts : x # a => attempts'[x] = attempts[x] BY <1>1 DEF AttemptsFit
  <2> QED BY <2>1, <2>2, <1>p DEF LockFits
<1> PICK w : w = claims[k] OBVIOUS
<1>w. w \in KeyRow /\ ClaimFits(projects, w) /\ w.owner = a BY <1>k DEF ClaimsFit, CompleteProject, Owns
<1>4. w.answer = Nothing BY <1>w DEF ClaimFits, ProvisioningAssumption
<1> PICK n : n = [w EXCEPT !.owner = Nothing, !.live = 0, !.answer = p] OBVIOUS
<1>n. n \in KeyRow /\ n.owner = Nothing /\ n.answer = p BY <1>w, <1>k DEF KeyRow
<1>5. claims' = [claims EXCEPT ![k] = n] BY DEF CompleteProject
<1>6. claims'[k] = n /\ \A j \in Keys : j # k => claims'[j] = claims[j] BY <1>5, <1>k DEF ClaimsFit
<1>7. ClaimsFit'
  <2>1. claims' \in [Keys -> KeyRow] BY <1>5, <1>n DEF ClaimsFit
  <2>2. \A j \in Keys : ClaimFits(projects, claims'[j])
    BY <1>6, <1>n, <1>k DEF ClaimFits, ClaimsFit
  <2> QED BY <2>1, <2>2, <1>p DEF ClaimsFit
<1>8. answers' = [answers EXCEPT ![k] = answers[k] \cup {p}] BY DEF CompleteProject, Answer
<1>9. answers[k] = {} BY <1>4, <1>k DEF AnswersFit
<1>10. AnswersFit'
  <2>1. answers' \in [Keys -> SUBSET Projects] BY <1>8, <1>k DEF AnswersFit
  <2>2. p # Nothing BY <1>k DEF ProvisioningAssumption
  <2>3. answers'[k] = {p} /\ \A j \in Keys : j # k => answers'[j] = answers[j]
    BY <1>8, <1>9, <1>k DEF AnswersFit
  <2>4. \A j \in Keys : answers'[j] \subseteq {claims'[j].answer} \ {Nothing}
    BY <2>2, <2>3, <1>6, <1>n DEF AnswersFit
  <2> QED BY <2>1, <2>4 DEF AnswersFit
<1> QED BY <1>2, <1>3, <1>7, <1>10, <1>f, <1>r

LEMMA StopKeeps ==
  ASSUME ProvisioningAssumption, ProvisioningInvariant, NEW a \in Attempts, AttemptStops(a)
  PROVE  ProvisioningInvariant'
<1> USE DEF ProvisioningInvariant
<1>p. projects' = projects /\ UNCHANGED <<billed, freeLimit, places>> /\ claims' = claims /\ answers' = answers
      /\ Release(a) /\ rowLock' = (IF rowLock = a THEN Nothing ELSE rowLock)
  BY DEF AttemptStops, Release
<1>g. ProjectsGrow /\ Counted' = Counted BY <1>p, ProjectsStay
<1>f. ProjectsFit' BY <1>p DEF ProjectsFit
<1>1. attempts' = [attempts EXCEPT ![a] = NoAttempt] BY DEF AttemptStops, Leave
<1>2. AttemptsFit' BY <1>1, <1>g, NoAttemptShaped, AttemptsGrow DEF NoAttemptFits
<1>3. attempts'[a].step # "insert" BY <1>1 DEF AttemptsFit, NoAttempt
<1>4. \A x \in Attempts : x # a => attempts'[x] = attempts[x] BY <1>1 DEF AttemptsFit
<1>5. LockFits' /\ rowLock' \in {rowLock, Nothing} BY <1>3, <1>4, <1>p, Unlocks
<1>6. RoomFits' BY <1>g, <1>p, RoomReleased
<1>7. ClaimsFit' /\ AnswersFit' BY <1>p, <1>g, KeysStay
<1> QED BY <1>2, <1>5, <1>6, <1>7, <1>f

LEMMA EntitlementKeeps ==
  ASSUME ProvisioningInvariant, EntitlementChanges \/ \E n \in 1..FreeLimit : PutFreePlan(n)
  PROVE  ProvisioningInvariant'
<1> USE DEF ProvisioningInvariant, EntitlementChanges, PutFreePlan
<1>1. ProjectsFit' BY DEF ProjectsFit
<1>2. AttemptsFit' BY DEF AttemptsFit
<1>3. ClaimsFit' /\ AnswersFit' BY DEF ClaimsFit, AnswersFit
<1>4. LockFits' BY DEF LockFits
<1>5. RoomFits'
  <2>1. Counted' = Counted BY DEF Counted
  <2>2. AllowanceHolds' BY <2>1 DEF RoomFits, AllowanceHolds
  <2>3. billed' \in {0, 1} /\ freeLimit' \in 1..FreeLimit BY DEF RoomFits
  <2> QED BY <2>1, <2>2, <2>3 DEF RoomFits
<1> QED BY <1>1, <1>2, <1>3, <1>4, <1>5

LEMMA ProvisioningSteps ==
  ASSUME ProvisioningAssumption, ProvisioningInvariant, [ProvisioningNext]_provisioningVars
  PROVE  ProvisioningInvariant'
<1>1. CASE UNCHANGED provisioningVars
  <2> USE <1>1 DEF ProvisioningInvariant, provisioningVars
  <2>1. ProjectsFit' BY DEF ProjectsFit
  <2>2. AttemptsFit' BY DEF AttemptsFit
  <2>3. ClaimsFit' /\ AnswersFit' BY DEF ClaimsFit, AnswersFit
  <2>4. LockFits' BY DEF LockFits
  <2>5. Counted' = Counted /\ rowLock' = rowLock /\ UNCHANGED allowance BY DEF Counted
  <2>6. RoomFits' BY <2>5, RoomStays
  <2> QED BY <2>1, <2>2, <2>3, <2>4, <2>6
<1>2. CASE ProvisioningNext
  BY <1>2, AdmitKeeps, LeaseKeeps, EnforceKeeps, OverKeeps, InsertKeeps, RecoverKeeps, BootstrapKeeps,
     ActivateKeeps, FailKeeps, CompleteKeeps, StopKeeps, EntitlementKeeps
  DEF ProvisioningNext
<1> QED BY <1>1, <1>2

LEMMA ProvisioningStarts ==
  ASSUME ProvisioningAssumption, ProvisioningInit
  PROVE  ProvisioningInvariant
<1> USE DEF ProvisioningInit
<1>1. NoProject \in ProjectRow /\ NoProject.state = "none" BY DEF NoProject, ProjectRow
<1>2. ProjectsFit BY <1>1 DEF ProjectsFit
<1>3. AttemptsFit BY NoAttemptShaped DEF AttemptsFit, NoAttemptFits
<1>4. ClaimsFit BY NoClaimShaped DEF ClaimsFit, ClaimFits
<1>5. AnswersFit BY DEF AnswersFit
<1>6. LockFits BY DEF LockFits, NoAttempt, ProvisioningAssumption
<1>7. Counted = {} BY <1>1 DEF Counted
<1>8. RoomFits BY <1>7, FS_EmptySet DEF RoomFits, AllowanceHolds, ProvisioningAssumption
<1> QED BY <1>2, <1>3, <1>4, <1>5, <1>6, <1>8 DEF ProvisioningInvariant

LEMMA ProvisioningIsSound ==
  ASSUME ProvisioningAssumption, ProvisioningInvariant
  PROVE  ProvisioningSound
<1> USE DEF ProvisioningInvariant
<1>1. ProvisioningTypeOK
  BY DEF ProvisioningTypeOK, ProjectsFit, AttemptsFit, ClaimsFit, AnswersFit, LockFits, RoomFits,
         ProjectRow, KeyRow, AttemptRow
<1>2. AllowanceHolds BY DEF RoomFits
<1>3. AnswersProvisioned
  <2> SUFFICES ASSUME NEW k \in Keys
               PROVE  /\ Cardinality(answers[k]) <= 1
                      /\ \A p \in answers[k] : projects[p].signing = 1 /\ projects[p].state # "provisioning"
    BY DEF AnswersProvisioned
  <2>1. answers[k] \subseteq {claims[k].answer} \ {Nothing} BY DEF AnswersFit
  <2>2. IsFiniteSet({claims[k].answer}) /\ Cardinality({claims[k].answer}) = 1 BY FS_Singleton
  <2>3. Cardinality(answers[k]) <= 1 BY <2>1, <2>2, FS_Subset, FS_CardinalityType
  <2>4. \A p \in answers[k] : p = claims[k].answer /\ p # Nothing BY <2>1
  <2>5. \A p \in answers[k] : Provisioned(projects, p) BY <2>4 DEF ClaimsFit, ClaimFits
  <2> QED BY <2>3, <2>5 DEF Provisioned
<1> QED BY <1>1, <1>2, <1>3 DEF ProvisioningSound

\* Any number of requests create projects, lose their lease, stop and are
\* retried, while plan, exemption and limit change: each project admitted
\* under the free plan is within the limit its transaction read and no two
\* are counted as the same one, and every answer for an idempotency key names the same project, one
\* whose signing key was made and whose database was opened
\* (enforce_project_allowance, create_project, provision).
THEOREM ProvisioningHolds == ProvisioningSpec => []ProvisioningSound
<1>1. ProvisioningInit => ProvisioningInvariant BY ProvisioningStarts, ProvisioningAssumption
<1>2. ProvisioningInvariant /\ [ProvisioningNext]_provisioningVars => ProvisioningInvariant'
  BY ProvisioningSteps, ProvisioningAssumption
<1>3. ProvisioningInvariant => ProvisioningSound BY ProvisioningIsSound, ProvisioningAssumption
<1> QED BY <1>1, <1>2, <1>3, PTL DEF ProvisioningSpec
=============================================================================
