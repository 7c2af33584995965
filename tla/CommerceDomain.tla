--------------------------- MODULE CommerceDomain ---------------------------
(* The provider-neutral aggregates of the commerce crate: an order, its      *)
(* payments with their refunds, a subscription, and the ledger through which *)
(* a payment or a subscription takes provider events. They are plain values  *)
(* with guarded methods; a method that fails leaves its aggregate as it was. *)
EXTENDS Naturals, Sequences, FiniteSets, Functions

CONSTANTS
  Payments,   \* ids of payments of the order
  RefundIds,  \* ids of refunds
  OrderTotal, \* the total of the order
  EventKeys,  \* idempotency keys of provider events
  MaxSeq,     \* bound on the sequence numbers of events
  MaxPeriod   \* bound on the ends of billing periods

ASSUME DomainAssumption ==
  OrderTotal \in Nat \ {0} /\ MaxSeq \in Nat /\ MaxPeriod \in Nat

VARIABLES order, payment, membership
domainVars == <<order, payment, membership>>

NoRefunds == [r \in RefundIds |-> [status |-> "none", amount |-> 0]]
Fresh(requested) == [status |-> "pending", requested |-> requested, captured |-> 0,
                     refunds |-> NoRefunds, ledger |-> <<>>]
NoPeriod == [start |-> 0, end |-> 0]
PeriodsOf == {p \in [start : 0..MaxPeriod, end : 1..MaxPeriod] : p.start < p.end}

DomainInit ==
  /\ order = "awaiting_payment"
  /\ payment \in [Payments -> {Fresh(n) : n \in 1..OrderTotal}]
  /\ membership = [status |-> "incomplete", period |-> NoPeriod, ledger |-> <<>>]

-----------------------------------------------------------------------------
(* EventLedger: what was accepted, in order.                                 *)

\* classify: a known key with the same metadata is a duplicate, with other
\* metadata an error; a new key must come after the last of its stream.
Classify(ledger, e) ==
  IF \E i \in DOMAIN ledger : ledger[i].key = e.key
  THEN IF \E i \in DOMAIN ledger : ledger[i] = e THEN "duplicate" ELSE "error"
  ELSE IF ledger # <<>> /\ e.seq <= ledger[Len(ledger)].seq THEN "error" ELSE "new"

Envelopes == [key : EventKeys, seq : 1..MaxSeq]

-----------------------------------------------------------------------------
(* Payment.                                                                  *)

Sum(p, statuses) ==
  FoldFunctionOnSet(+, 0, [r \in RefundIds |-> payment[p].refunds[r].amount],
                    {r \in RefundIds : payment[p].refunds[r].status \in statuses})

\* Mutant: a refund that was asked for reserves nothing.
RefundableBeforeSettling(p) == payment[p].captured - Sum(p, {"succeeded"})

\* refundable_amount: captured less what is refunded or asked for.
Refundable(p) == payment[p].captured - Sum(p, {"requested", "succeeded"})

\* mark_authorized, mark_failed and cancel.
SettlePayment(p, status) ==
  /\ payment[p].status \in IF status = "authorized" THEN {"pending"}
                           ELSE {"pending", "authorized"}
  /\ payment' = [payment EXCEPT ![p].status = status]
  /\ UNCHANGED <<order, membership>>

\* Mutant: every capture event adds to what was captured.
RecordCaptureAgain(p, e, amount) ==
  /\ Classify(payment[p].ledger, e) = "new"
  /\ payment' = [payment EXCEPT ![p] =
       [@ EXCEPT !.captured = @ + amount, !.ledger = Append(@, e)]]
  /\ UNCHANGED <<order, membership>>

\* record_capture: one new event, while open, of at most what was asked for.
RecordCapture(p, e, amount) ==
  /\ Classify(payment[p].ledger, e) = "new"
  /\ payment[p].status \in {"pending", "authorized"}
  /\ amount \in 1..payment[p].requested
  /\ payment' = [payment EXCEPT ![p] =
       [@ EXCEPT !.status = "captured", !.captured = amount, !.ledger = Append(@, e)]]
  /\ UNCHANGED <<order, membership>>

\* request_refund: reserves the amount at once.
RequestRefund(p, r, amount) ==
  /\ payment[p].captured > 0
  /\ payment[p].refunds[r].status = "none"
  /\ amount \in 1..Refundable(p)
  /\ payment' = [payment EXCEPT ![p].refunds[r] = [status |-> "requested", amount |-> amount]]
  /\ UNCHANGED <<order, membership>>

\* recompute_refund_status.
RefundedStatus(refunds, captured) ==
  LET back == FoldFunctionOnSet(+, 0, [r \in RefundIds |-> refunds[r].amount],
                                {r \in RefundIds : refunds[r].status = "succeeded"})
  IN IF back = 0 THEN "captured" ELSE IF back = captured THEN "refunded"
     ELSE "partially_refunded"

\* settle_refund: one new event ends a requested refund.
SettleRefund(p, r, e, outcome) ==
  LET refunds == [payment[p].refunds EXCEPT ![r].status = outcome]
  IN /\ Classify(payment[p].ledger, e) = "new"
     /\ payment[p].refunds[r].status = "requested"
     /\ payment' = [payment EXCEPT ![p] =
          [@ EXCEPT !.refunds = refunds, !.ledger = Append(@, e),
                    !.status = RefundedStatus(refunds, payment[p].captured)]]
     /\ UNCHANGED <<order, membership>>

-----------------------------------------------------------------------------
(* Order.                                                                    *)

\* ensure_order_paid: every payment given must be verified, and together they
\* must cover the order.
EnsureOrderPaid(ps) ==
  /\ \A p \in ps : payment[p].status \in {"captured", "partially_refunded", "refunded"}
  /\ FoldFunctionOnSet(+, 0, [p \in Payments |-> Refundable(p)], ps) >= OrderTotal

\* verify_paid and begin_fulfillment.
AdvanceOrder(ps) ==
  /\ order \in {"awaiting_payment", "paid"}
  /\ EnsureOrderPaid(ps)
  /\ order' = IF order = "paid" THEN "in_progress" ELSE "paid"
  /\ UNCHANGED <<payment, membership>>

\* mark_fulfilled and cancel.
EndOrder ==
  /\ \/ order = "in_progress" /\ order' = "fulfilled"
     \/ order = "awaiting_payment" /\ order' = "canceled"
  /\ UNCHANGED <<payment, membership>>

-----------------------------------------------------------------------------
(* Subscription.                                                             *)

Open == {"incomplete", "trialing", "active", "past_due", "paused"}

\* preview_transition: the states after `change`, none when it is not allowed.
PreviewTransition(m, change, period) ==
  CASE change = "start_trial" /\ m.status = "incomplete" ->
         {[status |-> "trialing", period |-> period]}
    [] change = "activate" /\ m.status \in Open \ {"active"} ->
         {[status |-> "active", period |-> period]}
    [] change = "renew" /\ m.status \in {"active", "trialing"} /\ period.start >= m.period.end ->
         {[status |-> "active", period |-> period]}
    [] change = "past_due" /\ m.status \in {"active", "trialing"} ->
         {[status |-> "past_due", period |-> m.period]}
    [] change = "pause" /\ m.status \in {"active", "trialing", "past_due"} ->
         {[status |-> "paused", period |-> m.period]}
    [] change \in {"canceled", "expired"} /\ m.status \in Open ->
         {[status |-> change, period |-> m.period]}
    [] OTHER -> {}

\* apply_event: the ledger and the state change together or not at all.
ApplyEvent(e, change, period) ==
  /\ Classify(membership.ledger, e) = "new"
  /\ \E next \in PreviewTransition(membership, change, period) :
       membership' = [status |-> next.status, period |-> next.period,
                      ledger |-> Append(membership.ledger, e)]
  /\ UNCHANGED <<order, payment>>

SalesNext ==
  \/ \E p \in Payments :
       \/ \E status \in {"authorized", "failed", "canceled"} : SettlePayment(p, status)
       \/ \E e \in Envelopes, n \in 1..OrderTotal : RecordCapture(p, e, n)
       \/ \E r \in RefundIds, n \in 1..OrderTotal : RequestRefund(p, r, n)
       \/ \E r \in RefundIds, e \in Envelopes, outcome \in {"succeeded", "failed"} :
            SettleRefund(p, r, e, outcome)
  \/ \E ps \in SUBSET Payments : AdvanceOrder(ps)
  \/ EndOrder

SubscriptionNext ==
  \E e \in Envelopes, period \in PeriodsOf,
     change \in {"start_trial", "activate", "renew", "past_due", "pause", "canceled",
                 "expired"} : ApplyEvent(e, change, period)

DomainNext == SalesNext \/ SubscriptionNext

DomainSpec == DomainInit /\ [][DomainNext]_domainVars

-----------------------------------------------------------------------------
(* Properties.                                                               *)

\* The aggregates have the shapes of their types.
DomainTypeOK ==
  /\ order \in {"awaiting_payment", "paid", "in_progress", "fulfilled", "canceled"}
  /\ \A p \in Payments : payment[p].captured \in 0..OrderTotal
  /\ membership.status \in Open \cup {"canceled", "expired"}

\* Refunds of one payment, asked for, failed and settled in any order, never
\* claim more than was captured, and the status says how much came back.
RefundsReserved ==
  \A p \in Payments :
    /\ Sum(p, {"requested", "succeeded"}) <= payment[p].captured
    /\ payment[p].captured > 0 =>
         payment[p].status = RefundedStatus(payment[p].refunds, payment[p].captured)
=============================================================================
