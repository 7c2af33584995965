----------------------------- MODULE MCControl -----------------------------
(* The control plane: organizations, administrators, project provisioning,  *)
(* the instance's settings and what organizations pay. A behaviour picks one *)
(* component and runs it; organizations are run twice, their members         *)
(* changing under each other's requests, and invitations with one guest, and *)
(* so is the creation of projects.                                           *)
EXTENDS Organizations, ProjectProvisioning, PlatformBilling, TLC

VARIABLE lane
controlVars == <<orgVars, staffVars, provisioningVars, instanceVars, billingVars, lane>>

ControlInit ==
  /\ lane \in {"members", "invitations", "staff", "projects", "allowance", "instance", "billing"}
  /\ OrganizationsInit /\ AdministratorsInit /\ ProvisioningInit /\ InstanceInit /\ BillingInit

\* Ids are used in order: they carry no meaning.
InOrder(f, none) == \A i, j \in DOMAIN f : i < j /\ f[j] # none => f[i] # none

MembersLane ==
  /\ lane = "members"
  /\ OrganizationsNext
  /\ invites' = invites
  /\ \A c \in Calls : calls'[c].op # "invite" /\ calls'[c].target \notin Guests

\* Two changes of members meet in the lane of the members.
InvitationsLane ==
  /\ lane = "invitations"
  /\ OrganizationsNext
  /\ org' = "active" /\ InOrder(invites', NoInvite)
  /\ \E c \in Calls : \A d \in Calls : calls'[d].op \in {"add", "change"} => d = c
  /\ \A c \in Calls :
       /\ calls'[c].role # "developer"
       /\ calls'[c].op \in {"add", "change"} =>
            /\ calls'[c].target \notin Guests \cup {calls'[c].actor}
            /\ calls'[c].role \in {"owner", "admin"}

\* Staff are alike: the first owner is not one of the guests, and two of the
\* three policies are enough.
StaffLane ==
  /\ lane = "staff"
  /\ AdministratorsNext
  /\ owner' \notin Guests /\ policy' # "invitation_only"

\* Leases lapse while the plan stays as it is ...
ProjectsLane ==
  /\ lane = "projects"
  /\ ProvisioningNext /\ InOrder(projects', NoProject)
  /\ UNCHANGED <<billed, freeLimit>>

\* ... and the plan changes while leases hold.
AllowanceLane ==
  /\ lane = "allowance"
  /\ ProvisioningNext /\ InOrder(projects', NoProject)
  /\ \A k \in Keys : claims'[k].owner # Nothing => claims'[k].live = 1

ControlNext ==
  /\ \/ /\ MembersLane \/ InvitationsLane
        /\ UNCHANGED <<staffVars, provisioningVars, instanceVars, billingVars>>
     \/ /\ StaffLane
        /\ UNCHANGED <<orgVars, provisioningVars, instanceVars, billingVars>>
     \/ /\ ProjectsLane \/ AllowanceLane
        /\ UNCHANGED <<orgVars, staffVars, instanceVars, billingVars>>
     \/ /\ lane = "instance" /\ InstanceNext
        /\ UNCHANGED <<orgVars, staffVars, provisioningVars, billingVars>>
     \/ /\ lane = "billing" /\ BillingNext
        /\ UNCHANGED <<orgVars, staffVars, provisioningVars, instanceVars>>
  /\ UNCHANGED lane

ControlSpec == ControlInit /\ [][ControlNext]_controlVars

\* Requests are alike, and so are slugs, keys (which stand for the accounts
\* and customers of the other components too).
Symmetric == Permutations(Calls) \cup Permutations(Keys) \cup Permutations(Slugs)
=============================================================================
