--------------------------- MODULE PlatformBilling ---------------------------
(* The plan an organization pays for. Stripe's events arrive late, twice, in *)
(* any order and at the same time; the row of the organization keeps the     *)
(* newest. The first event finds no row to lock, so two transactions can     *)
(* both believe to be first.                                                 *)
EXTENDS StripeEvents, InstanceAdministration, FiniteSets

CONSTANTS Contracts,  \* Stripe subscriptions of the organization
          Payers,     \* Stripe customers
          Hooks,      \* webhook transactions
          MaxBillingEvents,
          NoContract

ASSUME PlatformBillingAssumption == NoContract \notin Contracts \cup Payers \cup Hooks

VARIABLES
  contracts,  \* Stripe: customer and status of a subscription
  outbound,   \* Stripe: events created so far
  stripeTime,
  hooks,      \* running webhook transactions
  received,   \* events in billing_webhook_events
  row,        \* organization_billing_accounts
  invoice     \* a row of organization_billing_invoices

billingVars == <<contracts, outbound, stripeTime, hooks, received, row, invoice>>

NoHook == [step |-> "none", event |-> NoStamp]
NoAccountRow == [payer |-> NoContract, contract |-> NoContract, status |-> "none", stamp |-> NoStamp]
NoBill == [status |-> "none", stamp |-> NoStamp]

BillingInit ==
  /\ contracts = [s \in Contracts |-> [payer |-> NoContract, status |-> "none"]]
  /\ outbound = {} /\ stripeTime = 0 /\ hooks = [h \in Hooks |-> NoHook]
  /\ received = {} /\ row = NoAccountRow /\ invoice = NoBill

Emit(kind, s, payer, status) ==
  /\ Cardinality(outbound) < MaxBillingEvents
  /\ \E stamp \in FreshStamps(stripeTime, outbound) :
       outbound' = outbound \cup {[kind |-> kind, contract |-> s, payer |-> payer, status |-> status, stamp |-> stamp]}

\* create_checkout: a known customer is passed on, otherwise Stripe makes one.
\* Completing it starts the subscription; the events of the two are created in
\* no particular order.
CheckoutCompleted(s, payer) ==
  /\ contracts[s].status = "none"
  /\ payer = row.payer \/ \A other \in Contracts : contracts[other].payer # payer
  /\ contracts' = [contracts EXCEPT ![s] = [payer |-> payer, status |-> "incomplete"]]
  /\ Emit("checkout", s, payer, "checkout_pending")
  /\ UNCHANGED <<stripeTime, hooks, received, row, invoice>>

\* customer.subscription.*: the status Stripe has.
ContractChanges(s, status) ==
  /\ contracts[s].status \notin {"none", "canceled", status}
  /\ contracts' = [contracts EXCEPT ![s].status = status]
  /\ Emit("contract", s, contracts[s].payer, status)
  /\ UNCHANGED <<stripeTime, hooks, received, row, invoice>>

\* invoice.*.
InvoiceChanges(s, status) ==
  /\ contracts[s].status # "none"
  /\ Emit("invoice", s, contracts[s].payer, status)
  /\ UNCHANGED <<contracts, stripeTime, hooks, received, row, invoice>>

StripeSecond ==
  /\ stripeTime < MaxClock /\ stripeTime' = stripeTime + 1
  /\ UNCHANGED <<contracts, outbound, hooks, received, row, invoice>>

Locked == \E h \in Hooks : hooks[h].step = "locked"

\* persist_event: the event is inserted first; a second delivery of it waits
\* for the first and is then a duplicate.
Deliver(h, e) ==
  /\ hooks[h] = NoHook /\ e \notin received
  /\ \A other \in Hooks : hooks[other].event # e.stamp
  /\ hooks' = [hooks EXCEPT ![h] = [step |-> "inserted", event |-> e.stamp]]
  /\ UNCHANGED <<contracts, outbound, stripeTime, received, row, invoice>>

EventOf(h) == CHOOSE e \in outbound : e.stamp = hooks[h].event

\* apply_update's test of the row it locked: the same customer and the same
\* subscription, unless that one was canceled.
Fits(e) ==
  /\ row.payer = e.payer
  /\ row.contract = e.contract \/ row.status = "canceled"

\* apply_update: the row is locked and looked at, if there is one.
ReadRow(h) ==
  /\ hooks[h].step = "inserted" /\ EventOf(h).kind # "invoice" /\ ~Locked
  /\ \/ /\ row = NoAccountRow
        /\ hooks' = [hooks EXCEPT ![h].step = "first"] /\ UNCHANGED received
     \/ /\ row # NoAccountRow /\ Fits(EventOf(h)) /\ IsNewer(EventOf(h).stamp, row.stamp)
        /\ hooks' = [hooks EXCEPT ![h].step = "locked"] /\ UNCHANGED received
     \/ /\ row # NoAccountRow /\ Fits(EventOf(h)) /\ ~IsNewer(EventOf(h).stamp, row.stamp)
        /\ hooks' = [hooks EXCEPT ![h] = NoHook] /\ received' = received \cup {EventOf(h)}
  /\ UNCHANGED <<contracts, outbound, stripeTime, row, invoice>>

\* Mutant: the upsert has no WHERE.
AlwaysTaken(stamp, last) == TRUE

\* The WHERE of the upsert.
UpsertTakes(stamp, last) == IsNewer(stamp, last)

\* The row is inserted, or updated if it is older; the event is kept.
WriteRow(h) ==
  /\ hooks[h].step \in {"first", "locked"} /\ (hooks[h].step = "first" => ~Locked)
  /\ row' = IF UpsertTakes(EventOf(h).stamp, row.stamp)
            THEN [payer |-> EventOf(h).payer, contract |-> EventOf(h).contract,
                  status |-> EventOf(h).status, stamp |-> EventOf(h).stamp]
            ELSE row
  /\ received' = received \cup {EventOf(h)}
  /\ hooks' = [hooks EXCEPT ![h] = NoHook]
  /\ UNCHANGED <<contracts, outbound, stripeTime, invoice>>

\* apply_invoice_update: under the lock of the row.
ApplyInvoice(h) ==
  /\ hooks[h].step = "inserted" /\ EventOf(h).kind = "invoice" /\ ~Locked
  /\ row.payer = EventOf(h).payer /\ row.contract = EventOf(h).contract
  /\ invoice' = IF IsNewer(EventOf(h).stamp, invoice.stamp)
                THEN [status |-> EventOf(h).status, stamp |-> EventOf(h).stamp] ELSE invoice
  /\ received' = received \cup {EventOf(h)}
  /\ hooks' = [hooks EXCEPT ![h] = NoHook]
  /\ UNCHANGED <<contracts, outbound, stripeTime, row>>

\* An event that does not fit, an error or a crash: everything is rolled back
\* and Stripe delivers again.
HookFails(h) ==
  /\ hooks[h] # NoHook /\ hooks' = [hooks EXCEPT ![h] = NoHook]
  /\ UNCHANGED <<contracts, outbound, stripeTime, received, row, invoice>>

BillingNext ==
  \/ \E s \in Contracts :
       \/ \E p \in Payers : CheckoutCompleted(s, p)
       \/ \E status \in {"active", "past_due", "canceled"} : ContractChanges(s, status)
       \/ \E status \in {"open", "paid"} : InvoiceChanges(s, status)
  \/ StripeSecond
  \/ \E h \in Hooks :
       \/ \E e \in outbound : Deliver(h, e)
       \/ ReadRow(h) \/ WriteRow(h) \/ ApplyInvoice(h) \/ HookFails(h)

BillingSpec == BillingInit /\ [][BillingNext]_billingVars

Statuses == {"none", "checkout_pending", "incomplete", "active", "past_due", "canceled"}
BillingTypeOK ==
  /\ contracts \in [Contracts -> [payer : Payers \cup {NoContract}, status : Statuses]]
  /\ outbound \subseteq [kind : {"checkout", "contract", "invoice"}, contract : Contracts, payer : Payers,
                         status : Statuses \cup {"open", "paid"}, stamp : Stamps]
  /\ stripeTime \in 0..MaxClock /\ received \subseteq outbound
  /\ hooks \in [Hooks -> [step : {"none", "inserted", "first", "locked"}, event : Stamps]]
  /\ row \in [payer : Payers \cup {NoContract}, contract : Contracts \cup {NoContract}, status : Statuses, stamp : Stamps]
  /\ invoice \in [status : {"none", "open", "paid"}, stamp : Stamps]

Shows(r, events) == \/ r.stamp = NoStamp /\ events = {}
                    \/ \E e \in Newest(events) : e.stamp = r.stamp /\ e.status = r.status

\* The row and the invoice show the newest event that was received for them,
\* in whatever order, how often and how concurrently the events came.
RowFollowsNewest ==
  /\ Shows(row, {e \in received : e.kind # "invoice"})
  /\ Shows(invoice, {e \in received : e.kind = "invoice"})

\* Counterexample property: once every event is received, a subscription
\* Stripe calls active pays for the plan. The checkout's event of the same
\* second can be the newest, and a second customer's events are refused.
PaidIsEntitled ==
  \A s \in Contracts : contracts[s].status = "active" /\ received = outbound => row.status = "active"

\* The instance's billing is set up in one piece, no tenant that pays loses
\* the account it pays into, and an organization's subscription is that of
\* the newest event (complete_setup,
\* ensure_billing_reconfiguration_safe, apply_update).
BillingFollows ==
  InstanceTypeOK /\ BillingTypeOK /\ SetupSound /\ TenantsKeepAccount /\ RowFollowsNewest
=============================================================================
