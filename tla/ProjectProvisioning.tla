------------------------ MODULE ProjectProvisioning ------------------------
(* Creating a project: an idempotency key is claimed under a lease, the      *)
(* project and its database and route are inserted in one transaction under  *)
(* the organization's lock, and then, outside of it, the signing key is      *)
(* made, the database is opened and the project becomes active. A request    *)
(* can lose its lease, lose the answer of a transaction that committed, or   *)
(* stop anywhere; a retry with the key takes over.                           *)
EXTENDS Naturals, FiniteSets

CONSTANTS Projects,   \* rows of projects
          Slugs,
          Keys,       \* idempotency keys
          Attempts,   \* requests
          FreeLimit,  \* the largest project_limit the free plan is given
          Nothing

ASSUME ProvisioningAssumption ==
  /\ FreeLimit \in Nat \ {0} /\ Nothing \notin Projects \cup Slugs \cup Keys \cup Attempts

VARIABLES
  projects, \* projects with their databases
  claims,   \* rows of idempotency_keys
  attempts, \* running requests
  billed,   \* projects are not counted: a paid plan, an exemption, or no enforcement
  freeLimit,\* project_limit of the free plan now
  room,     \* the limit the transaction that holds the row has read, 0 when it counts nothing
  places,   \* history: how many projects there were with each one, and the limit it was admitted under
  rowLock,  \* the attempt whose transaction holds the organization's row
  answers   \* projects that were answered for a key

allowance == <<billed, freeLimit, room, places>>
provisioningVars == <<projects, claims, attempts, allowance, rowLock, answers>>

NoProject == [slug |-> Nothing, state |-> "none", database |-> "none", signing |-> 0]
NoClaim == [owner |-> Nothing, live |-> 0, slug |-> Nothing, answer |-> Nothing]
NoAttempt == [step |-> "none", key |-> Nothing, slug |-> Nothing, project |-> Nothing]

ProvisioningInit ==
  /\ projects = [p \in Projects |-> NoProject]
  /\ claims = [k \in Keys |-> NoClaim]
  /\ attempts = [a \in Attempts |-> NoAttempt]
  /\ billed = 0 /\ freeLimit = FreeLimit /\ room = 0 /\ rowLock = Nothing
  /\ places = [p \in Projects |-> [place |-> 0, limit |-> 0]]
  /\ answers = [k \in Keys |-> {}]

At(a, step) == attempts[a].step = step
Go(a, step) == attempts' = [attempts EXCEPT ![a].step = step]
Leave(a) == attempts' = [attempts EXCEPT ![a] = NoAttempt]
Owns(a) == claims[attempts[a].key].owner = a
Answer(k, p) == answers' = [answers EXCEPT ![k] = @ \cup {p}]

\* admit: a new key is claimed, a lapsed lease is taken over, a finished
\* request with the same contents is answered from its record.
AdmitProject(a, k, s) ==
  /\ attempts[a] = NoAttempt
  /\ \/ /\ claims[k] = NoClaim \/ (claims[k].slug = s /\ claims[k].live = 0 /\ claims[k].answer = Nothing)
        /\ claims' = [claims EXCEPT ![k] = [owner |-> a, live |-> 1, slug |-> s, answer |-> Nothing]]
        /\ attempts' = [attempts EXCEPT ![a] = [NoAttempt EXCEPT !.step = "create", !.key = k, !.slug = s]]
        /\ UNCHANGED answers
     \/ /\ claims[k].slug = s /\ claims[k].answer # Nothing
        /\ Answer(k, claims[k].answer) /\ UNCHANGED <<claims, attempts>>
  /\ UNCHANGED <<projects, allowance, rowLock>>

\* The lease lapses (its heartbeat failed, or nobody is there to renew it), or
\* the heartbeat of an owner nobody has replaced renews it.
LeaseChanges(k) ==
  /\ claims[k].owner # Nothing
  /\ claims[k].live = 1 \/ attempts[claims[k].owner].key = k
  /\ claims' = [claims EXCEPT ![k].live = 1 - @]
  /\ UNCHANGED <<projects, attempts, allowance, rowLock, answers>>

\* abandon: the claim is removed if it is still the attempt's.
Abandon(a) ==
  /\ claims' = IF Owns(a) THEN [claims EXCEPT ![attempts[a].key] = NoClaim] ELSE claims
  /\ Leave(a) /\ UNCHANGED <<allowance, answers>>

Counted == {p \in Projects : projects[p].state \notin {"none", "deleted"}}

\* Mutant: the organization is read without FOR UPDATE.
AllowanceUnlocked(a) ==
  /\ At(a, "create")
  /\ billed = 1 \/ Cardinality(Counted) < freeLimit
  /\ room' = IF billed = 1 THEN 0 ELSE freeLimit
  /\ rowLock' = a /\ Go(a, "insert")
  /\ UNCHANGED <<projects, claims, billed, freeLimit, places, answers>>

\* enforce_project_allowance, under the organization's lock.
EnforceAllowance(a) ==
  /\ At(a, "create") /\ rowLock = Nothing
  /\ billed = 1 \/ Cardinality(Counted) < freeLimit
  /\ room' = IF billed = 1 THEN 0 ELSE freeLimit
  /\ rowLock' = a /\ Go(a, "insert")
  /\ UNCHANGED <<projects, claims, billed, freeLimit, places, answers>>

\* A request over the allowance is refused.
OverAllowance(a) ==
  /\ At(a, "create") /\ rowLock = Nothing
  /\ billed = 0 /\ Cardinality(Counted) >= freeLimit
  /\ Abandon(a) /\ UNCHANGED <<projects, rowLock>>

\* The transaction ends, and with it what it read.
Release(a) ==
  /\ rowLock' = IF rowLock = a THEN Nothing ELSE rowLock
  /\ room' = IF rowLock = a THEN 0 ELSE room

SlugTaken(s) == \E p \in Projects : projects[p].slug = s

\* create_project_in_transaction: project, database and route together; a
\* taken slug is a conflict.
InsertProject(a, p) ==
  /\ At(a, "insert") /\ Release(a)
  /\ IF SlugTaken(attempts[a].slug)
     THEN Go(a, "recover") /\ UNCHANGED <<projects, places>>
     ELSE /\ projects[p] = NoProject
          /\ projects' = [projects EXCEPT ![p] = [slug |-> attempts[a].slug, state |-> "provisioning",
                            database |-> "provisioning", signing |-> 0]]
          /\ places' = [places EXCEPT ![p] = [place |-> Cardinality(Counted) + 1, limit |-> room]]
          /\ attempts' = [attempts EXCEPT ![a].step = "bootstrap", ![a].project = p]
  /\ UNCHANGED <<claims, billed, freeLimit, answers>>

\* Mutant: the lifecycle is not asked.
AnyState(p) == TRUE

\* recover_completed_project: only an active project answers a retry.
Completed(p) == projects[p].state = "active"

\* A conflict whose project is complete is answered with that project.
Recover(a) ==
  /\ At(a, "recover")
  /\ \E p \in Projects :
       /\ projects[p].slug = attempts[a].slug
       /\ IF Completed(p)
          THEN /\ attempts' = [attempts EXCEPT ![a].step = "confirm", ![a].project = p]
               /\ UNCHANGED <<claims, allowance, answers>>
          ELSE Abandon(a)
  /\ UNCHANGED <<projects, rowLock>>

\* valid_transition.
ValidTransition(from, to) ==
  \/ from = to
  \/ from = "provisioning" /\ to \in {"active", "failed"}
  \/ from = "active" /\ to \in {"suspended", "restoring", "deleting", "failed"}
  \/ from = "suspended" /\ to \in {"active", "deleting"}
  \/ from = "restoring" /\ to \in {"active", "failed"}
  \/ from = "deleting" /\ to \in {"deleted", "failed"}
  \/ from = "failed" /\ to \in {"provisioning", "deleting"}

\* database_state_for_project.
DatabaseState(state, was) ==
  IF state \in {"provisioning", "active", "restoring", "failed"} THEN state ELSE was

\* set_project_state.
SetProjectState(p, state) ==
  projects' = IF ValidTransition(projects[p].state, state)
              THEN [projects EXCEPT ![p].state = state, ![p].database = DatabaseState(state, @)]
              ELSE projects

\* provision, first half: the signing key.
BootstrapSigning(a) ==
  /\ At(a, "bootstrap")
  /\ \/ projects' = [projects EXCEPT ![attempts[a].project].signing = 1] /\ Go(a, "activate")
     \/ Go(a, "fail") /\ UNCHANGED projects
  /\ UNCHANGED <<claims, allowance, rowLock, answers>>

\* provision, second half: the worker opens the database and the project
\* becomes active. The worker or the update can fail, and the answer of an
\* update that took place can be lost.
Activate(a) ==
  /\ At(a, "activate")
  /\ \/ SetProjectState(attempts[a].project, "active") /\ Go(a, "confirm")
     \/ SetProjectState(attempts[a].project, "active") /\ Go(a, "fail")
     \/ Go(a, "fail") /\ UNCHANGED projects
  /\ UNCHANGED <<claims, allowance, rowLock, answers>>

\* The project is marked failed, if that can be written, and the claim is
\* given up.
Fail(a) ==
  /\ At(a, "fail")
  /\ SetProjectState(attempts[a].project, "failed") \/ UNCHANGED projects
  /\ Abandon(a) /\ UNCHANGED rowLock

\* confirm_owner and complete: the answer is recorded by the owner only.
CompleteProject(a) ==
  /\ At(a, "confirm") /\ Owns(a)
  /\ claims' = [claims EXCEPT ![attempts[a].key] = [@ EXCEPT !.owner = Nothing, !.live = 0, !.answer = attempts[a].project]]
  /\ Answer(attempts[a].key, attempts[a].project)
  /\ Leave(a) /\ UNCHANGED <<projects, allowance, rowLock>>

\* The process stops, or an error ends the request without giving up the claim.
AttemptStops(a) ==
  /\ attempts[a] # NoAttempt
  /\ Release(a) /\ Leave(a)
  /\ UNCHANGED <<projects, claims, billed, freeLimit, places, answers>>

\* A subscription becomes active or lapses, an exemption is granted or
\* revoked, or the enforcement of billing is switched on or off: none of them
\* looks at the projects there are.
EntitlementChanges ==
  /\ billed' = 1 - billed
  /\ UNCHANGED <<projects, claims, attempts, freeLimit, room, places, rowLock, answers>>

\* put_plan of the free plan: its limit can be lowered below what there is.
PutFreePlan(n) ==
  /\ freeLimit' = n
  /\ UNCHANGED <<projects, claims, attempts, billed, room, places, rowLock, answers>>

ProvisioningNext ==
  \/ \E a \in Attempts :
       \/ \E k \in Keys, s \in Slugs : AdmitProject(a, k, s)
       \/ EnforceAllowance(a) \/ OverAllowance(a) \/ Recover(a)
       \/ BootstrapSigning(a) \/ Activate(a) \/ Fail(a) \/ CompleteProject(a) \/ AttemptStops(a)
       \/ \E p \in Projects : InsertProject(a, p)
  \/ \E k \in Keys : LeaseChanges(k)
  \/ EntitlementChanges
  \/ \E n \in 1..FreeLimit : PutFreePlan(n)

ProvisioningSpec == ProvisioningInit /\ [][ProvisioningNext]_provisioningVars

ProvisioningTypeOK ==
  /\ projects \in [Projects -> [slug : Slugs \cup {Nothing}, signing : {0, 1},
       state : {"none", "provisioning", "active", "failed"},
       database : {"none", "provisioning", "active", "failed"}]]
  /\ claims \in [Keys -> [owner : Attempts \cup {Nothing}, live : {0, 1}, slug : Slugs \cup {Nothing},
       answer : Projects \cup {Nothing}]]
  /\ attempts \in [Attempts -> [key : Keys \cup {Nothing}, slug : Slugs \cup {Nothing},
       project : Projects \cup {Nothing},
       step : {"none", "create", "insert", "recover", "bootstrap", "activate", "fail", "confirm"}]]
  /\ billed \in {0, 1} /\ freeLimit \in 1..FreeLimit /\ room \in 0..FreeLimit
  /\ places \in [Projects -> [place : Nat, limit : 0..FreeLimit]]
  /\ rowLock \in Attempts \cup {Nothing}
  /\ answers \in [Keys -> SUBSET Projects]

\* However many requests create projects at the same time, and whatever
\* happens to the plan, the exemption and the limit meanwhile, every project
\* is counted once by the creations after it, and one admitted under the free
\* plan is within the limit that its own transaction read. (An organization
\* can have more than its plan allows: entitlements are taken away without a
\* look at the projects.)
AllowanceHolds ==
  /\ \A p \in Counted : places[p].limit > 0 => places[p].place <= places[p].limit
  /\ \A p, q \in Counted : p # q => places[p].place # places[q].place

\* Every answer given for an idempotency key names one project, and that
\* project went through all of its provisioning: it has a signing key and
\* its database was opened. Retries, takeovers and lost answers included.
AnswersProvisioned ==
  \A k \in Keys :
    /\ Cardinality(answers[k]) <= 1
    /\ \A p \in answers[k] : projects[p].signing = 1 /\ projects[p].state # "provisioning"

\* Counterexample property: a project that was answered as created is not
\* marked failed afterwards. A first attempt that lost the answer of its own
\* activation marks the project failed after a retry has answered with it.
AnsweredStaysActive == \A k \in Keys : \A p \in answers[k] : projects[p].state = "active"

\* However creations of projects interleave, fail and are retried, none is
\* admitted beyond the allowance in force, and one that is answered was
\* provisioned (enforce_project_allowance, create_project, provision).
ProvisioningSound == ProvisioningTypeOK /\ AllowanceHolds /\ AnswersProvisioned
=============================================================================
