----------------------- MODULE InstanceAdministration -----------------------
(* The deployment mode of an instance, its Stripe account with credentials   *)
(* and catalog, the plans, and the provider the process keeps in memory.     *)
(* complete_setup works under the lock of the settings row and talks to      *)
(* Stripe while it holds it. refresh_billing_account reads first, talks to   *)
(* Stripe, and writes what it read in a transaction of its own; put_plan     *)
(* checks first and writes later; the memory is rebuilt after the commit.    *)
EXTENDS Naturals

CONSTANTS StripeAccounts,
          Operators,     \* requests of administrators
          MaxPrice,
          NoAccount

ASSUME InstanceAssumption == NoAccount \notin StripeAccounts \cup Operators /\ MaxPrice \in Nat

VARIABLES
  inst,     \* instance_settings: mode and setup_completed_at
  acct,     \* instance_billing_accounts
  secrets,  \* instance_billing_secrets: the account of the keys, by kind
  catalog,  \* instance_billing_catalog: its account and its prices
  plan,     \* a paid row of billing_price_catalog
  provider, \* the active provider in memory
  tenant,   \* the account that bills a tenant, if a tenant is billed
  admins,   \* running requests
  setupLock,\* who holds the settings row
  raced     \* 1 after a step used something that had changed since it was read

instanceVars == <<inst, acct, secrets, catalog, plan, provider, tenant, admins, setupLock, raced>>

Paid == {"byo", "connect"}
NoBinding == [mode |-> "none", id |-> NoAccount, status |-> "none"]
NoSecrets == [byo |-> NoAccount, connect |-> 0]
NoCatalog == [of |-> NoAccount, price |-> 0]
Off == [account |-> NoAccount, catalog |-> NoAccount]
Idle == [op |-> "none", mode |-> "none", id |-> NoAccount, status |-> "none", saw |-> NoAccount, price |-> 0, late |-> 0]

InstanceInit ==
  /\ inst = [mode |-> "unconfigured", complete |-> 0] /\ acct = NoBinding
  /\ secrets = NoSecrets /\ catalog = NoCatalog /\ plan = [price |-> 0, active |-> 1]
  /\ provider = Off /\ tenant = NoAccount
  /\ admins = [s \in Operators |-> Idle] /\ setupLock = NoAccount /\ raced = 0

Doing(s, op) == admins[s].op = op
Race(s, stale) == raced' = IF stale \/ admins[s].late = 1 THEN 1 ELSE raced

\* A commit overtakes the other requests.
Overtake(s, next) ==
  admins' = [x \in Operators |-> IF x = s THEN next
                              ELSE IF admins[x] = Idle THEN Idle ELSE [admins[x] EXCEPT !.late = 1]]

\* Mutant: tenants are not looked at.
ReconfigurationUnchecked(mode) == TRUE

\* ensure_billing_reconfiguration_safe: while a tenant is billed the mode and
\* the account stay.
ReconfigurationSafe(mode) ==
  tenant # NoAccount => inst.mode = mode /\ acct.mode = mode /\ acct.id # NoAccount

\* complete_setup: the settings row is locked and the checks are made.
BeginSetup(s, mode) ==
  /\ admins[s] = Idle /\ setupLock = NoAccount
  /\ ReconfigurationSafe(mode)
  /\ setupLock' = s
  /\ admins' = [admins EXCEPT ![s] = [Idle EXCEPT !.op = "setup", !.mode = mode, !.saw = tenant]]
  /\ UNCHANGED <<inst, acct, secrets, catalog, plan, provider, tenant, raced>>

\* Private and team: clear_instance_billing.
SetupPrivate(s) ==
  /\ Doing(s, "setup") /\ admins[s].mode = "private"
  /\ inst' = [mode |-> "private", complete |-> 1]
  /\ acct' = NoBinding /\ secrets' = NoSecrets /\ catalog' = NoCatalog
  /\ setupLock' = NoAccount /\ Overtake(s, Idle)
  /\ provider' = Off /\ Race(s, tenant \notin {NoAccount, admins[s].saw})
  /\ UNCHANGED <<plan, tenant>>

\* A catalog of the account is recovered or made from the plan.
CatalogFor(a) == IF catalog.of = a THEN catalog ELSE [of |-> a, price |-> plan.price]

\* configure_byo: the key tells the account, and the catalog's prices must be
\* the plan's.
ConfigureByo(s, a, status) ==
  /\ Doing(s, "setup") /\ admins[s].mode = "byo"
  /\ admins[s].saw # NoAccount => a = acct.id
  /\ plan.active = 1 => CatalogFor(a).price = plan.price
  /\ inst' = [mode |-> "byo", complete |-> IF status = "enabled" THEN 1 ELSE 0]
  /\ secrets' = [byo |-> a, connect |-> 0]
  /\ acct' = [mode |-> "byo", id |-> a, status |-> status]
  /\ catalog' = CatalogFor(a)
  /\ setupLock' = NoAccount /\ Overtake(s, [Idle EXCEPT !.op = "reload"])
  /\ Race(s, tenant \notin {NoAccount, a, admins[s].saw})
  /\ UNCHANGED <<plan, provider, tenant>>

\* Mutant: the account's own status makes the setup complete.
ConnectReady(status) == IF status = "enabled" THEN 1 ELSE 0

\* A connected account is never ready before its catalog is provisioned.
ConnectComplete(status) == 0

\* configure_connect: the bound account again, or a new one. The catalog goes.
ConfigureConnect(s, a, status) ==
  /\ Doing(s, "setup") /\ admins[s].mode = "connect"
  /\ IF inst.mode = "connect" /\ acct.mode = "connect" /\ acct.id # NoAccount
     THEN a = acct.id ELSE a # acct.id
  /\ inst' = [mode |-> "connect", complete |-> ConnectComplete(status)]
  /\ secrets' = [byo |-> NoAccount, connect |-> 1]
  /\ acct' = [mode |-> "connect", id |-> a, status |-> status]
  /\ catalog' = NoCatalog
  /\ setupLock' = NoAccount /\ Overtake(s, [Idle EXCEPT !.op = "reload"])
  /\ Race(s, tenant \notin {NoAccount, a, admins[s].saw})
  /\ UNCHANGED <<plan, provider, tenant>>

\* refresh_billing_account: the mode and the account are read.
BeginRefresh(s) ==
  /\ admins[s] = Idle /\ inst.mode \in Paid /\ acct.id # NoAccount
  /\ admins' = [admins EXCEPT ![s] = [Idle EXCEPT !.op = "refresh", !.mode = inst.mode, !.id = acct.id]]
  /\ UNCHANGED <<inst, acct, secrets, catalog, plan, provider, tenant, setupLock, raced>>

\* The stored key of the mode is loaded and Stripe is asked.
AskStripe(s, status) ==
  /\ Doing(s, "refresh")
  /\ IF admins[s].mode = "byo" THEN secrets.byo # NoAccount ELSE secrets.connect = 1
  /\ admins' = [admins EXCEPT ![s] = [admins[s] EXCEPT !.op = "refreshed", !.status = status,
                  !.id = IF admins[s].mode = "byo" THEN secrets.byo ELSE admins[s].id]]
  /\ UNCHANGED <<inst, acct, secrets, catalog, plan, provider, tenant, setupLock, raced>>

\* The account, a connected account's catalog and the readiness are written.
CommitRefresh(s) ==
  /\ Doing(s, "refreshed") /\ setupLock = NoAccount
  /\ acct' = [mode |-> admins[s].mode, id |-> admins[s].id, status |-> admins[s].status]
  /\ catalog' = IF admins[s].mode = "connect" /\ admins[s].status = "enabled"
                THEN CatalogFor(admins[s].id) ELSE catalog
  /\ inst' = [inst EXCEPT !.complete = IF admins[s].status = "enabled" THEN 1 ELSE 0]
  /\ Race(s, FALSE) /\ Overtake(s, [Idle EXCEPT !.op = "reload"])
  /\ UNCHANGED <<secrets, plan, provider, tenant, setupLock>>

\* reload_billing_provider reads the settings and the account...
ReadBinding(s) ==
  /\ Doing(s, "reload")
  /\ \/ /\ inst.mode \notin Paid \/ acct.status # "enabled"
        /\ provider' = Off /\ admins' = [admins EXCEPT ![s] = Idle]
     \/ /\ inst.mode \in Paid /\ acct.status = "enabled"
        /\ admins' = [admins EXCEPT ![s] = [Idle EXCEPT !.op = "activate", !.mode = inst.mode, !.id = acct.id]]
        /\ UNCHANGED provider
  /\ UNCHANGED <<inst, acct, secrets, catalog, plan, tenant, setupLock, raced>>

Activates(mode, id) ==
  /\ catalog.of = id /\ acct.mode = mode
  /\ IF mode = "byo" THEN secrets.byo # NoAccount ELSE secrets.connect = 1

\* ... then the catalog and the credentials. Missing material is an error and
\* leaves the memory as it was.
ActivateProvider(s) ==
  /\ Doing(s, "activate")
  /\ provider' = IF Activates(admins[s].mode, admins[s].id)
                 THEN [account |-> IF admins[s].mode = "byo" THEN secrets.byo ELSE admins[s].id,
                       catalog |-> catalog.of]
                 ELSE provider
  /\ Race(s, FALSE)
  /\ admins' = [admins EXCEPT ![s] = Idle]
  /\ UNCHANGED <<inst, acct, secrets, catalog, plan, tenant, setupLock>>

\* provider_catalog_bound.
Bound == inst.mode \in Paid /\ acct.status = "enabled" /\ catalog.of = acct.id /\ acct.id # NoAccount

\* put_plan: the price of a bound catalog stays, an active plan has the price
\* Stripe has, and a plan in use is not retired.
PutPlan(s, price, active) ==
  /\ admins[s] = Idle
  /\ Bound => price = plan.price
  /\ active = 1 /\ inst.mode \in Paid => catalog.of = acct.id /\ price = catalog.price
  /\ active = 0 => tenant = NoAccount
  /\ admins' = [admins EXCEPT ![s] = [Idle EXCEPT !.op = "plan", !.price = price,
                  !.status = IF active = 1 THEN "active" ELSE "retired"]]
  /\ UNCHANGED <<inst, acct, secrets, catalog, plan, provider, tenant, setupLock, raced>>

\* ... and the row is written.
WritePlan(s) ==
  /\ Doing(s, "plan")
  /\ plan' = [price |-> admins[s].price, active |-> IF admins[s].status = "active" THEN 1 ELSE 0]
  /\ Race(s, admins[s].status = "retired" /\ tenant # NoAccount) /\ Overtake(s, Idle)
  /\ UNCHANGED <<inst, acct, secrets, catalog, provider, tenant, setupLock>>

\* retire_plan.
RetirePlan(s) == PutPlan(s, plan.price, 0)

\* A tenant subscribes through the provider in memory, and cancels.
Subscribe ==
  /\ tenant = NoAccount /\ provider # Off
  /\ tenant' = provider.account
  /\ raced' = IF provider.account # acct.id THEN 1 ELSE raced
  /\ UNCHANGED <<inst, acct, secrets, catalog, plan, provider, admins, setupLock>>

Unsubscribe ==
  /\ tenant # NoAccount /\ tenant' = NoAccount
  /\ UNCHANGED <<inst, acct, secrets, catalog, plan, provider, admins, setupLock, raced>>

\* An error ends a request; a transaction it had open is rolled back.
RequestFails(s) ==
  /\ admins[s] # Idle
  /\ admins' = [admins EXCEPT ![s] = Idle]
  /\ setupLock' = IF setupLock = s THEN NoAccount ELSE setupLock
  /\ UNCHANGED <<inst, acct, secrets, catalog, plan, provider, tenant, raced>>

\* The process restarts: its requests are gone and the provider is rebuilt.
Restart(s) ==
  /\ admins' = [x \in Operators |-> IF x = s THEN [Idle EXCEPT !.op = "reload"] ELSE Idle]
  /\ setupLock' = NoAccount /\ provider' = Off
  /\ UNCHANGED <<inst, acct, secrets, catalog, plan, tenant, raced>>

InstanceNext ==
  \/ \E s \in Operators :
       \/ \E mode \in {"private", "byo", "connect"} : BeginSetup(s, mode)
       \/ SetupPrivate(s) \/ BeginRefresh(s) \/ CommitRefresh(s) \/ ReadBinding(s) \/ ActivateProvider(s)
       \/ \E a \in StripeAccounts, status \in {"pending", "enabled"} :
            ConfigureByo(s, a, status) \/ ConfigureConnect(s, a, status)
       \/ \E status \in {"pending", "enabled"} : AskStripe(s, status)
       \/ \E price \in 0..MaxPrice, active \in {0, 1} : PutPlan(s, price, active)
       \/ WritePlan(s) \/ RetirePlan(s) \/ RequestFails(s) \/ Restart(s)
  \/ Subscribe \/ Unsubscribe

InstanceSpec == InstanceInit /\ [][InstanceNext]_instanceVars

InstanceTypeOK ==
  /\ inst \in [mode : {"unconfigured", "private"} \cup Paid, complete : {0, 1}]
  /\ acct \in [mode : {"none"} \cup Paid, id : StripeAccounts \cup {NoAccount}, status : {"none", "pending", "enabled"}]
  /\ secrets \in [byo : StripeAccounts \cup {NoAccount}, connect : {0, 1}]
  /\ catalog \in [of : StripeAccounts \cup {NoAccount}, price : 0..MaxPrice]
  /\ plan \in [price : 0..MaxPrice, active : {0, 1}]
  /\ provider \in [account : StripeAccounts \cup {NoAccount}, catalog : StripeAccounts \cup {NoAccount}]
  /\ tenant \in StripeAccounts \cup {NoAccount} /\ setupLock \in Operators \cup {NoAccount}
  /\ raced \in {0, 1}

\* Credentials of one kind only, the kind of the deployment mode, whatever
\* requests overlap.
SecretsFit ==
  /\ inst.mode # "byo" => secrets.byo = NoAccount
  /\ inst.mode # "connect" => secrets.connect = 0
  /\ inst.mode = "byo" => secrets.byo # NoAccount
  /\ inst.mode = "connect" => secrets.connect = 1

\* A completed setup can bill: its account is enabled and has a catalog, and
\* an active plan costs what the catalog says. A refresh, a plan or a provider
\* that was overtaken by a setup is excepted (raced).
SetupSound ==
  /\ SecretsFit
  /\ raced = 0 /\ inst.complete = 1 /\ inst.mode \in Paid =>
       acct.status = "enabled" /\ acct.mode = inst.mode /\ catalog.of = acct.id
  /\ raced = 0 /\ plan.active = 1 /\ catalog.of # NoAccount => plan.price = catalog.price

\* While a tenant is billed, the instance stays on the account that bills it,
\* through every setup, refresh, failure and restart that was not overtaken.
TenantsKeepAccount == raced = 0 /\ tenant # NoAccount => acct.id = tenant

\* Counterexample property: a process that restarts can activate what is
\* stored. Setting up an enabled connected account again drops its catalog.
StartsAgain == inst.mode \in Paid /\ acct.status = "enabled" => Activates(inst.mode, acct.id)
=============================================================================
