--------------------------- MODULE CommerceOrders ---------------------------
(* One-time sales of a project: checkout, payment, refund and fulfilment.    *)
(* The API keeps orders, payments and refunds in PostgreSQL and learns what  *)
(* happened at Stripe from webhook events, which arrive late, twice, out of  *)
(* order or not at all. An order and a refund are named by the idempotency   *)
(* key of the request that creates them (stable_entity_uuid), so a retried   *)
(* request meets the row of its first attempt.                               *)
(*                                                                           *)
(* A handler is split where it awaits Stripe. A PostgreSQL transaction is    *)
(* one step, but for the two that decide on a sum of refunds read before     *)
(* they write: the webhook of a refund and a fulfilment. PostgreSQL runs     *)
(* them as READ COMMITTED: the sum counts what was committed when it was     *)
(* read, and what holds others back is row locks. A CHECK of the schema that *)
(* fails rolls the transaction back; an error the code returns itself does   *)
(* not.                                                                      *)
EXTENDS StripeEvents, FiniteSets, FiniteSetsExt, Functions

CONSTANTS
  Orders,       \* idempotency keys of checkout requests, also order ids
  Refunds,      \* idempotency keys of refund requests, also refund ids
  RefundOrder,  \* [Refunds -> Orders], the order whose payment is refunded
  RefundAsk,    \* [Refunds -> Nat], the amount asked for, 0 for all that is left
  Total,        \* the total of every order in minor units
  Faults        \* subset of {"crash", "lost"}

ASSUME OrdersAssumption ==
  /\ Total \in Nat \ {0}
  /\ RefundOrder \in [Refunds -> Orders]
  /\ RefundAsk \in [Refunds -> 0..Total]
  /\ Faults \subseteq {"crash", "lost"}

VARIABLES
  orders,     \* commerce_orders
  payments,   \* commerce_payments, the one payment intent of each order
  refunds,    \* commerce_refunds
  calls,      \* where the request with this key is
  sessions,   \* Stripe's checkout sessions
  charged,    \* what Stripe captured for the order
  givenBack,  \* Stripe's refunds
  events,     \* events Stripe created
  processed,  \* commerce_webhook_events with processed_at set
  summing,    \* the open transaction of a refund event, by the refund row it locks
  shipping,   \* the open fulfilment transaction, by the order row it locks
  unsettled,  \* history: orders whose last refund event wrote a sum that was overtaken
  clock       \* Stripe's clock

orderVars == <<orders, payments, refunds, calls, sessions, charged, givenBack,
               events, processed, summing, shipping, unsettled, clock>>
openVars == <<summing, shipping, unsettled>>
stripeVars == <<sessions, charged, givenBack, events, clock>>

OrderStatus == {"none", "pending", "checkout_created", "processing", "paid",
                "payment_failed", "canceled", "partially_refunded", "refunded"}
PaymentStatus == {"none", "processing", "captured", "partially_refunded", "refunded",
                  "failed", "canceled"}
RefundStatus == {"none", "pending", "succeeded", "failed", "canceled"}

NewOrder == [status |-> "pending", fulfillment |-> "unfulfilled", session |-> FALSE,
             refunded |-> 0]
NoOrder == [NewOrder EXCEPT !.status = "none"]
NoPayment == [status |-> "none", captured |-> 0, refunded |-> 0, last |-> NoStamp]
NoRefund == [status |-> "none", amount |-> 0, last |-> NoStamp]
NotOpen == [open |-> FALSE]

RefundsIn(rows, o, statuses) == {r \in Refunds : RefundOrder[r] = o /\ rows[r].status \in statuses}
SumOf(rows, o, statuses) ==
  FoldFunctionOnSet(+, 0, [r \in Refunds |-> rows[r].amount], RefundsIn(rows, o, statuses))

\* The CHECK constraints of the tables the webhooks write to.
RowsAllowed(o, order, payment) ==
  /\ order.refunded <= Total
  /\ order.fulfillment = "fulfilled" => order.status \in {"paid", "partially_refunded"}
  /\ payment.refunded <= payment.captured

OrdersInit ==
  /\ orders = [o \in Orders |-> NoOrder]
  /\ payments = [o \in Orders |-> NoPayment]
  /\ refunds = [r \in Refunds |-> NoRefund]
  /\ calls = [k \in Orders \cup Refunds |-> "idle"]
  /\ sessions = [o \in Orders |-> "none"]
  /\ charged = [o \in Orders |-> 0]
  /\ givenBack = [r \in Refunds |-> [status |-> "none", amount |-> 0]]
  /\ events = {} /\ processed = {} /\ clock = 1
  /\ summing = [r \in Refunds |-> NotOpen]
  /\ shipping = [o \in Orders |-> NotOpen]
  /\ unsettled = {}

\* The rows nobody else has locked.
OrderFree(o) == shipping[o] = NotOpen
RefundFree(r) == summing[r] = NotOpen

-----------------------------------------------------------------------------
(* Requests.                                                                 *)

\* one_time_checkout until the order is reserved: a new row, or the row of an
\* attempt that failed; any other row is a conflict and changes nothing.
ReserveOrder(o) ==
  /\ orders[o].status \in {"none", "payment_failed"} /\ OrderFree(o)
  /\ orders' = [orders EXCEPT ![o] = IF @.status = "none" THEN NewOrder
                                     ELSE [@ EXCEPT !.status = "pending"]]

\* The checkout handler: admit the idempotency key, reserve, then call Stripe.
OneTimeCheckout(o) ==
  /\ calls[o] = "idle"
  /\ ReserveOrder(o)
  /\ calls' = [calls EXCEPT ![o] = "calling"]
  /\ UNCHANGED <<payments, refunds, stripeVars, processed, openVars>>

\* one_time_checkout after Stripe answered: the session is recorded while the
\* order is still waiting for it.
RecordSession(o) ==
  orders' = [orders EXCEPT ![o] =
    IF @.status \in {"pending", "payment_failed"}
    THEN [@ EXCEPT !.status = "checkout_created", !.session = TRUE] ELSE @]

\* Stripe creates the session, or finds the one of the same key, and the answer
\* arrives.
CheckoutAnswered(o) ==
  /\ calls[o] = "calling" /\ OrderFree(o)
  /\ sessions' = [sessions EXCEPT ![o] = IF @ = "none" THEN "open" ELSE @]
  /\ RecordSession(o)
  /\ calls' = [calls EXCEPT ![o] = "done"]
  /\ UNCHANGED <<payments, refunds, charged, givenBack, events, clock, processed, openVars>>

\* The call fails, at Stripe or on the way back: the order is marked, the key
\* is abandoned and the request may be made again.
CheckoutFailed(o) ==
  /\ calls[o] = "calling" /\ OrderFree(o)
  /\ \/ UNCHANGED sessions
     \/ /\ "lost" \in Faults
        /\ sessions' = [sessions EXCEPT ![o] = IF @ = "none" THEN "open" ELSE @]
  /\ orders' = [orders EXCEPT ![o].status = IF @ = "pending" THEN "payment_failed" ELSE @]
  /\ calls' = [calls EXCEPT ![o] = "idle"]
  /\ UNCHANGED <<payments, refunds, charged, givenBack, events, clock, processed, openVars>>

\* create_refund until the reservation is committed: under the lock of the
\* payment, what is refunded or about to be is taken off what was captured. A new
\* row refers to the order and waits for who has locked that; the row of a call
\* that failed is only set back to pending and waits for nobody but its own lock.
ReserveRefund(r) ==
  LET o == RefundOrder[r]
      available == payments[o].captured - SumOf(refunds, o, {"pending", "succeeded"})
      amount == IF RefundAsk[r] = 0 THEN available ELSE RefundAsk[r]
  IN /\ payments[o].status \in {"captured", "partially_refunded"}
     /\ payments[o].captured >= SumOf(refunds, o, {"pending", "succeeded"})
     /\ amount \in 1..available
     /\ \/ refunds[r].status = "none" /\ OrderFree(o)
        \/ refunds[r].status = "failed" /\ refunds[r].amount = amount /\ RefundFree(r)
     /\ refunds' = [refunds EXCEPT ![r] = [@ EXCEPT !.status = "pending", !.amount = amount]]

\* The refund handler: admit the key, reserve, then call Stripe.
CreateRefund(r) ==
  /\ calls[r] = "idle"
  /\ ReserveRefund(r)
  /\ calls' = [calls EXCEPT ![r] = "calling"]
  /\ UNCHANGED <<orders, payments, stripeVars, processed, openVars>>

\* create_refund after the call: success records Stripe's id only; an error
\* marks the reservation failed if it is still pending.
RefundAnswered(r) ==
  /\ calls[r] = "called"
  /\ calls' = [calls EXCEPT ![r] = "done"]
  /\ UNCHANGED <<orders, payments, refunds, stripeVars, processed, openVars>>

\* The call was refused, or its answer was lost.
RefundFailed(r) ==
  /\ \/ calls[r] = "refused"
     \/ calls[r] = "called" /\ "lost" \in Faults
     \/ calls[r] = "calling"
  /\ RefundFree(r)
  /\ refunds' = [refunds EXCEPT ![r].status = IF @ = "pending" THEN "failed" ELSE @]
  /\ calls' = [calls EXCEPT ![r] = "idle"]
  /\ UNCHANGED <<orders, payments, stripeVars, processed, openVars>>

\* The API process stops inside a request; the key's lease runs out and the
\* request may be made again. No row is repaired.
Crash(k) ==
  /\ "crash" \in Faults
  /\ calls[k] \in {"calling", "called", "refused"}
  /\ calls' = [calls EXCEPT ![k] = "idle"]
  /\ UNCHANGED <<orders, payments, refunds, stripeVars, processed, openVars>>

\* Mutant: fulfilment looks at the refunds that succeeded only.
FulfillableIgnoringPending(o, next) ==
  /\ orders[o].status # "none"
  /\ <<orders[o].fulfillment, next>> \in
       {<<"unfulfilled", "processing">>, <<"processing", "fulfilled">>}
  /\ orders[o].status \in {"paid", "partially_refunded"}
  /\ payments[o].captured >= Total + SumOf(refunds, o, {"succeeded"})

\* The conditions of update_fulfillment: goods move only while the captured money
\* that no refund claims covers the order.
Fulfillable(o, next) ==
  /\ orders[o].status # "none"
  /\ <<orders[o].fulfillment, next>> \in
       {<<"unfulfilled", "processing">>, <<"processing", "fulfilled">>,
        <<"unfulfilled", "canceled">>, <<"processing", "canceled">>}
  /\ next \in {"processing", "fulfilled"} =>
       /\ orders[o].status \in {"paid", "partially_refunded"}
       /\ payments[o].status \in {"captured", "partially_refunded"}
       /\ payments[o].captured >= Total + SumOf(refunds, o, {"pending", "succeeded"})

\* update_fulfillment until the sum is read: the order is locked, the refunds are
\* not. `failed` is history: the refunds whose call was then reported failed.
UpdateFulfillment(o, next) ==
  /\ OrderFree(o)
  /\ Fulfillable(o, next)
  /\ shipping' = [shipping EXCEPT ![o] =
       [open |-> TRUE, next |-> next, failed |-> RefundsIn(refunds, o, {"failed"})]]
  /\ UNCHANGED <<orders, payments, refunds, calls, stripeVars, processed, summing, unsettled>>

\* Its writes and the commit.
CommitFulfillment(o) ==
  /\ shipping[o].open
  /\ orders' = [orders EXCEPT ![o].fulfillment = shipping[o].next]
  /\ shipping' = [shipping EXCEPT ![o] = NotOpen]
  /\ UNCHANGED <<payments, refunds, calls, stripeVars, processed, summing, unsettled>>

\* The process stops inside a transaction: it is rolled back.
RollBack(k) ==
  /\ "crash" \in Faults
  /\ \/ /\ k \in Refunds /\ summing[k].open
        /\ summing' = [summing EXCEPT ![k] = NotOpen] /\ UNCHANGED shipping
     \/ /\ k \in Orders /\ shipping[k].open
        /\ shipping' = [shipping EXCEPT ![k] = NotOpen] /\ UNCHANGED summing
  /\ UNCHANGED <<orders, payments, refunds, calls, stripeVars, processed, unsettled>>

-----------------------------------------------------------------------------
(* Stripe. It runs a request with a known idempotency key once, never gives  *)
(* back more than it captured, and tells what it did by events.              *)

\* An event about order or refund `key`; `captured` is what the payment intent
\* then holds.
Event(stamp, kind, key, status, captured) ==
  [stamp |-> stamp, kind |-> kind, key |-> key, status |-> status, captured |-> captured]

\* Time passes at Stripe.
Tick ==
  /\ clock < MaxClock
  /\ clock' = clock + 1
  /\ UNCHANGED <<orders, payments, refunds, calls, sessions, charged, givenBack,
                 events, processed, openVars>>

\* The customer pays: the session completes and the intent succeeds.
CustomerPays(o) ==
  /\ sessions[o] = "open"
  /\ \E s1, s2 \in FreshStamps(clock, events) :
       /\ s1 # s2
       /\ events' = events \cup {Event(s1, "intent", o, "captured", Total),
                                 Event(s2, "completed", o, "captured", Total)}
  /\ sessions' = [sessions EXCEPT ![o] = "complete"]
  /\ charged' = [charged EXCEPT ![o] = Total]
  /\ UNCHANGED <<orders, payments, refunds, calls, givenBack, processed, openVars, clock>>

\* The customer uses a method that settles later: the session completes unpaid.
CustomerPaysLater(o) ==
  /\ sessions[o] = "open"
  /\ \E s1, s2 \in FreshStamps(clock, events) :
       /\ s1 # s2
       /\ events' = events \cup {Event(s1, "intent", o, "processing", 0),
                                 Event(s2, "completed", o, "processing", 0)}
  /\ sessions' = [sessions EXCEPT ![o] = "settling"]
  /\ UNCHANGED <<orders, payments, refunds, calls, charged, givenBack, processed, openVars, clock>>

\* A settling payment ends, an attempt in an open session is declined, or the
\* intent is canceled.
IntentChanges(o, outcome) ==
  /\ \/ sessions[o] = "settling"
     \/ sessions[o] = "open" /\ outcome \in {"failed", "canceled"}
  /\ \E s \in FreshStamps(clock, events) :
       events' = events \cup
         {Event(s, "intent", o, outcome, IF outcome = "captured" THEN Total ELSE 0)}
  /\ sessions' = [sessions EXCEPT ![o] = IF @ = "open" /\ outcome = "failed" THEN @
                                         ELSE "complete"]
  /\ charged' = [charged EXCEPT ![o] = IF outcome = "captured" THEN Total ELSE @]
  /\ UNCHANGED <<orders, payments, refunds, calls, givenBack, processed, openVars, clock>>

\* Nobody paid in time.
SessionExpires(o) ==
  /\ sessions[o] = "open"
  /\ \E s \in FreshStamps(clock, events) : events' = events \cup {Event(s, "expired", o, "expired", 0)}
  /\ sessions' = [sessions EXCEPT ![o] = "expired"]
  /\ UNCHANGED <<orders, payments, refunds, calls, charged, givenBack, processed, openVars, clock>>

GivenBack(o) ==
  FoldFunctionOnSet(+, 0, [r \in Refunds |-> givenBack[r].amount],
                    {r \in Refunds : /\ RefundOrder[r] = o
                                     /\ givenBack[r].status \in {"pending", "succeeded"}})

\* Stripe takes the refund request: a known key gets its old answer, a new one a
\* refund that is pending or done, and more than is left is refused.
StripeRefunds(r) ==
  LET o == RefundOrder[r]
      fits == GivenBack(o) + refunds[r].amount <= charged[o]
  IN /\ calls[r] = "calling"
     /\ IF givenBack[r].status # "none" \/ ~fits
        THEN UNCHANGED <<givenBack, events>>
        ELSE \E s \in FreshStamps(clock, events), status \in {"pending", "succeeded"} :
               /\ givenBack' = [givenBack EXCEPT
                    ![r] = [status |-> status, amount |-> refunds[r].amount]]
               /\ events' = events \cup {Event(s, "refund", r, status, 0)}
     /\ calls' = [calls EXCEPT ![r] =
                    IF givenBack[r].status # "none" \/ fits THEN "called" ELSE "refused"]
     /\ UNCHANGED <<orders, payments, refunds, sessions, charged, processed, openVars, clock>>

\* A pending refund ends.
RefundSettles(r, outcome) ==
  /\ givenBack[r].status = "pending"
  /\ givenBack' = [givenBack EXCEPT ![r].status = outcome]
  /\ \E s \in FreshStamps(clock, events) : events' = events \cup {Event(s, "refund", r, outcome, 0)}
  /\ UNCHANGED <<orders, payments, refunds, calls, sessions, charged, processed, openVars, clock>>

-----------------------------------------------------------------------------
(* Webhooks. An operator gives the rows after the event and whether it was   *)
(* processed; a row set the schema refuses leaves everything as it was.      *)

\* upsert_payment: the row follows the newest event; refunded_minor is kept.
UpsertPayment(payment, e) ==
  [payment EXCEPT !.status = e.status, !.captured = e.captured, !.last = e.stamp]

\* apply_checkout_completed: the session must be the one recorded; a paid one
\* makes the order paid when the payment row moved, an unpaid one only moves
\* an order that waits for it.
ApplyCheckoutCompleted(e, order, payment) ==
  IF ~order.session THEN [ok |-> FALSE, order |-> order, payment |-> payment]
  ELSE IF e.status = "captured" THEN
    IF IsNewer(e.stamp, payment.last)
    THEN [ok |-> TRUE, order |-> [order EXCEPT !.status = "paid"],
          payment |-> UpsertPayment(payment, e)]
    ELSE [ok |-> TRUE, order |-> order, payment |-> payment]
  ELSE [ok |-> TRUE, payment |-> payment,
        order |-> [order EXCEPT !.status = IF @ = "checkout_created" THEN "processing" ELSE @]]

\* apply_checkout_expired: an order that was not paid is canceled.
ApplyCheckoutExpired(e, order, payment) ==
  [ok |-> TRUE, payment |-> payment,
   order |-> [order EXCEPT !.status =
     IF order.session /\ @ \in {"pending", "checkout_created", "processing", "payment_failed"}
     THEN "canceled" ELSE @]]

\* Mutant: an intent event is applied whenever it arrives.
ApplyPaymentIntentAnyOrder(e, order, payment) ==
  [ok |-> TRUE, order |-> order, payment |-> UpsertPayment(payment, e)]

\* apply_payment_intent: a newer event sets the payment, and the order unless
\* money was already given back.
ApplyPaymentIntent(e, order, payment) ==
  IF ~IsNewer(e.stamp, payment.last)
  THEN [ok |-> TRUE, order |-> order, payment |-> payment]
  ELSE [ok |-> TRUE, payment |-> UpsertPayment(payment, e),
        order |-> [order EXCEPT !.status =
          IF @ \in {"refunded", "partially_refunded"} THEN @
          ELSE CASE e.status = "captured" -> "paid"
                 [] e.status = "failed" -> "payment_failed"
                 [] e.status = "canceled" -> "canceled"
                 [] OTHER -> "processing"]]

\* apply_payment_intent and its siblings in process_webhook_event: what an event
\* that is not about a refund makes of the rows.
Applied(e, order, payment) ==
  CASE e.kind = "completed" -> ApplyCheckoutCompleted(e, order, payment)
    [] e.kind = "expired" -> ApplyCheckoutExpired(e, order, payment)
    [] OTHER -> ApplyPaymentIntent(e, order, payment)

\* apply_verified_webhook: an event processed before is a duplicate and changes
\* nothing; one that failed is processed again when Stripe repeats it. The rows
\* are locked by the statements that change them.
StripeWebhook(e) ==
  LET res == Applied(e, orders[e.key], payments[e.key])
  IN /\ e \notin processed /\ e.kind # "refund" /\ OrderFree(e.key)
     /\ RowsAllowed(e.key, res.order, res.payment)
     /\ orders' = [orders EXCEPT ![e.key] = res.order]
     /\ payments' = [payments EXCEPT ![e.key] = res.payment]
     /\ processed' = IF res.ok THEN processed \cup {e} ELSE processed
     /\ UNCHANGED <<refunds, calls, stripeVars, openVars>>

\* Mutant: refunds that are only under way count as given back.
SucceededOrPending(rows, o) == SumOf(rows, o, {"pending", "succeeded"})

\* The sum apply_refund reads.
Succeeded(rows, o) == SumOf(rows, o, {"succeeded"})

\* apply_refund until the sum is read: the row of the refund is locked and follows
\* the event if that is newer; the sum is of this row and of what others have
\* committed. `overtaken` is history: another refund event of the payment was
\* committed since.
RefundWebhook(e) ==
  LET r == e.key
      rows == [refunds EXCEPT ![r] = [@ EXCEPT !.status = e.status, !.last = e.stamp]]
  IN /\ e \notin processed /\ e.kind = "refund" /\ RefundFree(r)
     /\ IF IsNewer(e.stamp, refunds[r].last)
        THEN /\ summing' = [summing EXCEPT ![r] =
                  [open |-> TRUE, event |-> e, back |-> Succeeded(rows, RefundOrder[r]),
                   overtaken |-> FALSE]]
             /\ UNCHANGED processed
        ELSE processed' = processed \cup {e} /\ UNCHANGED summing
     /\ UNCHANGED <<orders, payments, refunds, calls, stripeVars, shipping, unsettled>>

\* apply_refund after the sum: the payment and the order take it.
ApplyRefund(back, order, payment) ==
  [payment |-> [payment EXCEPT !.refunded = back,
     !.status = IF back = 0 THEN "captured"
                ELSE IF back = payment.captured THEN "refunded" ELSE "partially_refunded"],
   order |-> [order EXCEPT !.refunded = back,
     !.status = IF back = 0 THEN "paid"
                ELSE IF back >= Total THEN "refunded" ELSE "partially_refunded"]]

\* The rest of the transaction: it commits, or the schema refuses the rows.
CommitRefundEvent(r) ==
  LET o == RefundOrder[r]
      t == summing[r]
      res == ApplyRefund(t.back, orders[o], payments[o])
  IN /\ t.open /\ OrderFree(o)
     /\ IF RowsAllowed(o, res.order, res.payment)
        THEN /\ orders' = [orders EXCEPT ![o] = res.order]
             /\ payments' = [payments EXCEPT ![o] = res.payment]
             /\ refunds' = [refunds EXCEPT ![r] = [@ EXCEPT !.status = t.event.status,
                                                            !.last = t.event.stamp]]
             /\ processed' = processed \cup {t.event}
             /\ summing' = [q \in Refunds |->
                  IF q = r THEN NotOpen
                  ELSE IF summing[q].open /\ RefundOrder[q] = o
                  THEN [summing[q] EXCEPT !.overtaken = TRUE] ELSE summing[q]]
             /\ unsettled' = IF t.overtaken THEN unsettled \cup {o} ELSE unsettled \ {o}
        ELSE /\ summing' = [summing EXCEPT ![r] = NotOpen]
             /\ UNCHANGED <<orders, payments, refunds, processed, unsettled>>
     /\ UNCHANGED <<calls, stripeVars, shipping>>

OrdersNext ==
  \/ \E o \in Orders :
       \/ OneTimeCheckout(o) \/ CheckoutAnswered(o) \/ CheckoutFailed(o)
       \/ \E next \in {"processing", "fulfilled", "canceled"} : UpdateFulfillment(o, next)
       \/ CommitFulfillment(o)
       \/ CustomerPays(o) \/ CustomerPaysLater(o) \/ SessionExpires(o)
       \/ \E outcome \in {"captured", "failed", "canceled"} : IntentChanges(o, outcome)
  \/ \E r \in Refunds :
       \/ CreateRefund(r) \/ RefundAnswered(r) \/ RefundFailed(r) \/ StripeRefunds(r)
       \/ \E outcome \in {"succeeded", "failed", "canceled"} : RefundSettles(r, outcome)
       \/ CommitRefundEvent(r)
  \/ \E k \in Orders \cup Refunds : Crash(k) \/ RollBack(k)
  \/ \E e \in events : StripeWebhook(e) \/ RefundWebhook(e)
  \/ Tick

OrdersSpec == OrdersInit /\ [][OrdersNext]_orderVars
-----------------------------------------------------------------------------
(* Properties.                                                               *)

\* The rows and Stripe's objects have the shapes the tables allow.
OrdersTypeOK ==
  /\ orders \in [Orders -> [status : OrderStatus,
                            fulfillment : {"unfulfilled", "processing", "fulfilled", "canceled"},
                            session : BOOLEAN, refunded : 0..Total]]
  /\ payments \in [Orders -> [status : PaymentStatus, captured : 0..Total,
                              refunded : 0..Total, last : Stamps]]
  /\ refunds \in [Refunds -> [status : RefundStatus, amount : 0..Total, last : Stamps]]
  /\ calls \in [Orders \cup Refunds -> {"idle", "calling", "called", "refused", "done"}]
  /\ processed \subseteq events

\* Webhooks in any order: whatever order, repetition or delay the events of an
\* intent arrive in, the payment row holds the amount of the newest one that was
\* processed, so an old event that arrives late never takes captured money away.
PaymentFollowsNewest ==
  \A o \in Orders :
    LET seen == {e \in processed : /\ e.key = o
                                   /\ \/ e.kind = "intent"
                                      \/ e.kind = "completed" /\ e.status = "captured"}
    IN \A e \in Newest(seen) : /\ payments[o].last = e.stamp
                               /\ payments[o].captured = e.captured

\* The money given back: the refunded amount on the payment and on the order is
\* the sum of the refunds that Stripe reported as succeeded, through failures,
\* retries and repeated events, unless the last refund event was overtaken by
\* another of the same payment between its sum and its commit. Then an amount is
\* missing until the next refund event of the payment. More than was given back,
\* or captured, is never written.
RefundLedger ==
  \A o \in Orders :
    /\ payments[o].refunded <= SumOf(refunds, o, {"succeeded"})
    /\ o \notin unsettled => payments[o].refunded = SumOf(refunds, o, {"succeeded"})
    /\ orders[o].refunded = payments[o].refunded
    /\ SumOf(refunds, o, {"succeeded"}) <= charged[o]
    /\ \A r \in RefundsIn(refunds, o, {"succeeded"}) :
         givenBack[r] = [status |-> "succeeded", amount |-> refunds[r].amount]

\* Goods and money: an order goes to processing or is fulfilled only when Stripe
\* holds its full price, less at most the refunds whose call had been reported
\* failed to this service when the fulfilment read its sum. A refund that was
\* under way then keeps the goods back; one that failed and is asked for again
\* before the commit does not.
ShipsPaid ==
  [][\A o \in Orders :
       (/\ orders'[o].fulfillment \in {"processing", "fulfilled"}
        /\ orders'[o].fulfillment # orders[o].fulfillment) =>
       /\ charged[o] = Total
       /\ \A r \in Refunds : RefundOrder[r] = o /\ givenBack[r].status \in {"pending", "succeeded"}
             => r \in shipping[o].failed]_orderVars

=============================================================================
