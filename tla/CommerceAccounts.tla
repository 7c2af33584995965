-------------------------- MODULE CommerceAccounts --------------------------
(* The Stripe account a project sells through, and its catalog. The account  *)
(* is the merchant's own (secret keys kept encrypted) or one connected to    *)
(* the platform; products and prices are created in it first and then        *)
(* recorded, so a row is only good with the account it was made in.          *)
(*                                                                           *)
(* A request reads the account, calls Stripe, and writes in a transaction    *)
(* of its own: other requests run in between.                                *)
EXTENDS Naturals, FiniteSets

CONSTANTS
  Merchants,  \* Stripe accounts whose owner has secret keys
  Connected,  \* Stripe accounts the platform creates
  Products,   \* idempotency keys of create_product, also product ids
  Prices,     \* idempotency keys of create_price, also price ids
  AccountRequests,  \* requests in flight at a time
  NoAccount

ASSUME AccountsAssumption == NoAccount \notin Merchants \cup Connected

VARIABLES
  account,   \* project_commerce_accounts
  secrets,   \* project_commerce_secrets: the account the keys belong to
  products,  \* commerce_products
  prices,    \* commerce_prices
  requests,  \* what a request has read and is about to do
  standing   \* Stripe's accounts: enabled or restricted

accountVars == <<account, secrets, products, prices, requests, standing>>

Unbound == [id |-> NoAccount, mode |-> "none", status |-> "none"]
Idle == [op |-> "idle", id |-> NoAccount, target |-> NoAccount, found |-> FALSE]
NoProduct == [status |-> "none", id |-> NoAccount]
Bound == account # Unbound

AccountsInit ==
  /\ account = Unbound
  /\ secrets = NoAccount
  /\ products = [p \in Products |-> NoProduct]
  /\ prices = [p \in Prices |-> [status |-> "none", product |-> NoAccount]]
  /\ requests = [q \in AccountRequests |-> Idle]
  /\ standing \in [Merchants \cup Connected -> {"enabled"}]

\* Any product, customer, order or subscription; products stand for all.
HasProviderState == \E p \in Products : products[p].status # "none"

\* A transaction that wrote or locked the account's row holds it until it
\* commits. What it wrote is not seen before, and nothing keeps a product from
\* being recorded meanwhile: its insert does not touch the row.
Holding == {"configuring", "onboarding", "deleting"}
Locked == \E q \in AccountRequests : requests[q].op \in Holding

Begin(q, op, id, target) ==
  /\ requests[q] = Idle
  /\ requests' = [requests EXCEPT ![q] = [op |-> op, id |-> id, target |-> target, found |-> FALSE]]

End(q) == requests' = [requests EXCEPT ![q] = Idle]

-----------------------------------------------------------------------------
(* Binding an account.                                                       *)

\* ensure_account_rebinding_safe: the same account, or nothing made in another.
RebindingSafe(id) == account.id = id \/ ~HasProviderState

\* Mutant: the check before the call to Stripe is the only one.
RebindUnguarded(id) == TRUE

\* guard_project_commerce_account_rebind: the trigger that repeats the check
\* when an existing row is updated.
RebindTrigger(id) == Bound /\ account.id # id => ~HasProviderState

\* configure_byo until the account of the key is known and checked.
ConfigureByo(q, id) ==
  /\ RebindingSafe(id)
  /\ Begin(q, "configure", id, standing[id])
  /\ UNCHANGED <<account, secrets, products, prices, standing>>

\* The first statement of the transaction of either binding: under the lock of
\* the row the trigger lets the account be replaced, or the request fails.
\* `found` is history: the provider state there was at this moment.
WriteAccount(q) ==
  LET r == requests[q]
  IN /\ r.op \in {"configure", "onboard"} /\ ~Locked
     /\ IF RebindTrigger(r.id)
        THEN requests' = [requests EXCEPT ![q] =
               [r EXCEPT !.op = IF r.op = "configure" THEN "configuring" ELSE "onboarding",
                         !.found = HasProviderState]]
        ELSE End(q)
     /\ UNCHANGED <<account, secrets, products, prices, standing>>

\* The keys, and the commit: the account row and its keys together.
CommitByo(q) ==
  LET id == requests[q].id
  IN /\ requests[q].op = "configuring"
     /\ account' = [id |-> id, mode |-> "byo_keys", status |-> requests[q].target]
     /\ secrets' = id
     /\ End(q)
     /\ UNCHANGED <<products, prices, standing>>

\* connect_onboarding until the account exists at Stripe and was checked: the
\* one already connected, or a new one when nothing is bound to another.
ConnectOnboarding(q, id) ==
  /\ id \in Connected
  /\ IF account.mode = "stripe_connect" THEN id = account.id ELSE RebindingSafe(NoAccount)
  /\ RebindingSafe(id)
  /\ Begin(q, "onboard", id, standing[id])
  /\ UNCHANGED <<account, secrets, products, prices, standing>>

\* Mutant: the merchant's keys stay behind when the project moves to Connect.
CommitConnectKeepsKeys(q) ==
  /\ requests[q].op = "onboarding"
  /\ account' = [id |-> requests[q].id, mode |-> "stripe_connect", status |-> "onboarding"]
  /\ End(q)
  /\ UNCHANGED <<secrets, products, prices, standing>>

\* Its commit: the account row is replaced and kept keys are deleted.
CommitConnect(q) ==
  /\ requests[q].op = "onboarding"
  /\ account' = [id |-> requests[q].id, mode |-> "stripe_connect",
                 status |-> IF requests[q].target = "enabled" THEN "enabled" ELSE "onboarding"]
  /\ secrets' = NoAccount
  /\ End(q)
  /\ UNCHANGED <<products, prices, standing>>

\* refresh_account until Stripe answered about the account that was read.
RefreshAccount(q) ==
  /\ Bound
  /\ Begin(q, "refresh", account.id, standing[account.id])
  /\ UNCHANGED <<account, secrets, products, prices, standing>>

\* Its update goes to the row the project has by then.
CommitRefresh(q) ==
  /\ requests[q].op = "refresh" /\ ~Locked
  /\ account' = IF Bound THEN [account EXCEPT !.status = requests[q].target] ELSE account
  /\ End(q)
  /\ UNCHANGED <<secrets, products, prices, standing>>

\* disconnect_account: the row is locked and the project is found unused.
DisconnectAccount(q) ==
  /\ Bound /\ ~Locked
  /\ ~HasProviderState
  /\ Begin(q, "deleting", account.id, NoAccount)
  /\ UNCHANGED <<account, secrets, products, prices, standing>>

\* The deletions of the same transaction.
CommitDisconnect(q) ==
  /\ requests[q].op = "deleting"
  /\ account' = Unbound /\ secrets' = NoAccount
  /\ End(q)
  /\ UNCHANGED <<products, prices, standing>>

-----------------------------------------------------------------------------
(* The catalog.                                                              *)

\* provider_context with require_enabled: the account and, for the merchant's
\* own, its keys.
Context(id) ==
  /\ account.id = id /\ account.status = "enabled"
  /\ account.mode = "byo_keys" => secrets # NoAccount

\* create_product until Stripe has made the product in the account.
CreateProduct(q, p) ==
  /\ Bound /\ Context(account.id)
  /\ Begin(q, "product", account.id, p)
  /\ UNCHANGED <<account, secrets, products, prices, standing>>

\* Its insert; the row of the same key is left as it is.
RecordProduct(q) ==
  LET p == requests[q].target
  IN /\ requests[q].op = "product"
     /\ products' = [products EXCEPT ![p] =
          IF @.status = "none" THEN [status |-> "active", id |-> requests[q].id] ELSE @]
     /\ End(q)
     /\ UNCHANGED <<account, secrets, prices, standing>>

\* archive_product: Stripe only knows the product in the account it was made in.
ArchiveProduct(q, p) ==
  /\ Bound /\ Context(account.id)
  /\ products[p].status = "active" /\ products[p].id = account.id
  /\ Begin(q, "archive", account.id, p)
  /\ UNCHANGED <<account, secrets, products, prices, standing>>

\* Its update; an archived row is a conflict and stays.
RecordArchive(q) ==
  /\ requests[q].op = "archive"
  /\ products' = [products EXCEPT ![requests[q].target].status = "archived"]
  /\ End(q)
  /\ UNCHANGED <<account, secrets, prices, standing>>

\* create_price: the product must be active, and known to Stripe's account.
CreatePrice(q, p, product) ==
  /\ Bound /\ Context(account.id)
  /\ products[product].status = "active" /\ products[product].id = account.id
  /\ Begin(q, "price", product, p)
  /\ UNCHANGED <<account, secrets, products, prices, standing>>

\* Its insert fails on a key that is used.
RecordPrice(q) ==
  LET p == requests[q].target
  IN /\ requests[q].op = "price"
     /\ prices' = [prices EXCEPT ![p] =
          IF @.status = "none" THEN [status |-> "active", product |-> requests[q].id] ELSE @]
     /\ End(q)
     /\ UNCHANGED <<account, secrets, products, standing>>

\* retire_price.
RetirePrice(p) ==
  /\ Bound /\ Context(account.id)
  /\ prices[p].status = "active"
  /\ products[prices[p].product].id = account.id
  /\ prices' = [prices EXCEPT ![p].status = "retired"]
  /\ UNCHANGED <<account, secrets, products, requests, standing>>

\* Stripe changes its mind about an account.
StandingChanges(id) ==
  /\ standing' = [standing EXCEPT ![id] = IF @ = "enabled" THEN "restricted" ELSE "enabled"]
  /\ UNCHANGED <<account, secrets, products, prices, requests>>

\* Stripe refuses, an outage, or the process stops: nothing is written.
RequestEnds(q) ==
  /\ requests[q] # Idle
  /\ End(q)
  /\ UNCHANGED <<account, secrets, products, prices, standing>>

AccountsNext ==
  \/ \E q \in AccountRequests :
       \/ \E id \in Merchants : ConfigureByo(q, id)
       \/ \E id \in Connected : ConnectOnboarding(q, id)
       \/ WriteAccount(q) \/ CommitByo(q) \/ CommitConnect(q)
       \/ RefreshAccount(q) \/ CommitRefresh(q)
       \/ DisconnectAccount(q) \/ CommitDisconnect(q)
       \/ \E p \in Products : CreateProduct(q, p) \/ ArchiveProduct(q, p)
       \/ \E p \in Prices, product \in Products : CreatePrice(q, p, product)
       \/ RecordProduct(q) \/ RecordArchive(q) \/ RecordPrice(q)
       \/ RequestEnds(q)
  \/ \E p \in Prices : RetirePrice(p)
  \/ \E id \in Merchants \cup Connected : StandingChanges(id)

AccountsSpec == AccountsInit /\ [][AccountsNext]_accountVars

-----------------------------------------------------------------------------
(* Properties.                                                               *)

\* The rows have the shapes the tables allow.
AccountsTypeOK ==
  /\ account.mode \in {"none", "byo_keys", "stripe_connect"}
  /\ account.id \in Merchants \cup Connected \cup {NoAccount}
  /\ \A p \in Products : products[p].status \in {"none", "active", "archived"}
  /\ \A p \in Prices : prices[p].status \in {"none", "active", "retired"}

\* Keys and mode: whatever reconfigurations, onboardings and disconnects overlap,
\* keys are kept exactly for a project in the merchant's own mode, and they are
\* those of the bound account.
SecretsFollowMode ==
  secrets = IF account.mode = "byo_keys" THEN account.id ELSE NoAccount

\* No rebinding under state that was there: a bound project only goes to another
\* account by a transaction that, with the lock of the row in hand, found nothing
\* made in the old one; the check before the call to Stripe is not enough. What
\* is recorded between that check and the commit is not seen by it and stays
\* behind with the old account (CatalogBound).
Exchanged == Bound /\ account' # Unbound /\ account'.id # account.id
NoRebinding ==
  [][Exchanged => \E q \in AccountRequests :
       requests[q].op \in Holding /\ requests[q].id = account'.id /\ ~requests[q].found]_accountVars

\* The secrets of a project's payment account belong to its mode, and the account
\* is only exchanged for another if the trigger found nothing made in it, however
\* long before that the project was checked (connect_onboarding, disconnect_account,
\* guard_project_commerce_account_rebind).
PaymentAccountsSound == [](AccountsTypeOK /\ SecretsFollowMode) /\ NoRebinding

\* The statement of the documentation: state made in one Stripe account is never
\* left with another. It does not hold: a product whose insert comes after the
\* check of a disconnect or of a rebinding belongs to the old account.
CatalogBound ==
  \A p \in Products : products[p].status # "none" /\ Bound => products[p].id = account.id
=============================================================================
