------------------------ MODULE CommerceMemberships -------------------------
(* Recurring sales of a project: a subscription is bought by a checkout, its *)
(* state follows Stripe's webhook events, and while it is active its subject *)
(* holds the entitlements of its price. A subject holds one row for each     *)
(* entitlement key, whichever subscription granted it last.                  *)
EXTENDS StripeEvents, FiniteSets

CONSTANTS
  Subs,            \* idempotency keys of recurring checkouts, also subscription ids
  Entitles,        \* [Subs -> set of <<subject, key>> its price gives]
  MembershipFaults \* subset of {"crash", "lost", "period"}

ASSUME MembershipsAssumption == MembershipFaults \subseteq {"crash", "lost", "period"}

VARIABLES
  subs,         \* commerce_subscriptions
  ents,         \* commerce_entitlements
  bills,        \* commerce_payments of subscriptions, one intent each
  buying,       \* where the checkout request of the subscription is
  canceling,    \* where its cancel request is
  atStripe,     \* Stripe's subscription and checkout session
  news,         \* events Stripe created
  newsDone,     \* events with processed_at set
  newsClock     \* Stripe's clock

memberVars == <<subs, ents, bills, buying, canceling, atStripe, news, newsDone, newsClock>>
stripeSide == <<atStripe, news, newsClock>>

Slots == UNION {Entitles[s] : s \in Subs}
Granting == {"active", "trialing"}

NoSub == [status |-> "none", session |-> FALSE, bound |-> FALSE, atEnd |-> FALSE,
          last |-> NoStamp]

MembershipsInit ==
  /\ subs = [s \in Subs |-> NoSub]
  /\ ents = [x \in Slots |-> [status |-> "none", sub |-> "none"]]
  /\ bills = [s \in Subs |-> [status |-> "none", last |-> NoStamp]]
  /\ buying = [s \in Subs |-> "idle"]
  /\ canceling = [s \in Subs |-> "idle"]
  /\ atStripe = [s \in Subs |-> [session |-> "none", status |-> "none", atEnd |-> FALSE]]
  /\ news = {} /\ newsDone = {} /\ newsClock = 1

-----------------------------------------------------------------------------
(* Requests.                                                                 *)

\* recurring_checkout until the row is reserved: a new one, or the one of an
\* earlier attempt that nothing has happened to.
ReserveSubscription(s) ==
  /\ subs[s].status \in {"none", "checkout_pending"}
  /\ subs' = [subs EXCEPT ![s].status = "checkout_pending"]

\* The handler of a recurring checkout.
RecurringCheckout(s) ==
  /\ buying[s] = "idle"
  /\ ReserveSubscription(s)
  /\ buying' = [buying EXCEPT ![s] = "calling"]
  /\ UNCHANGED <<ents, bills, canceling, stripeSide, newsDone>>

\* Stripe opens the session, or finds the one of the same key, and the rest of
\* recurring_checkout records it while the row still waits.
RecurringAnswered(s) ==
  /\ buying[s] = "calling"
  /\ atStripe' = [atStripe EXCEPT ![s].session = IF @ = "none" THEN "open" ELSE @]
  /\ subs' = [subs EXCEPT ![s].session = @ \/ subs[s].status = "checkout_pending"]
  /\ buying' = [buying EXCEPT ![s] = "done"]
  /\ UNCHANGED <<ents, bills, canceling, news, newsClock, newsDone>>

\* The call fails or its answer is lost: no row is changed, the key is free.
RecurringFailed(s) ==
  /\ buying[s] = "calling"
  /\ \/ UNCHANGED atStripe
     \/ /\ "lost" \in MembershipFaults
        /\ atStripe' = [atStripe EXCEPT ![s].session = IF @ = "none" THEN "open" ELSE @]
  /\ buying' = [buying EXCEPT ![s] = "idle"]
  /\ UNCHANGED <<subs, ents, bills, canceling, news, newsClock, newsDone>>

\* What an event says of subscription `s`: its status, whether it names a
\* billing period, and whether the subscription ends with it.
News(stamp, kind, s, status, period, atEnd) ==
  [stamp |-> stamp, kind |-> kind, sub |-> s, status |-> status, period |-> period,
   atEnd |-> atEnd]

Periods == IF "period" \in MembershipFaults THEN BOOLEAN ELSE {TRUE}

\* Stripe's subscription changes and tells so.
Report(s, status, atEnd) ==
  \E st \in FreshStamps(newsClock, news), p \in Periods :
    news' = news \cup {News(st, "subscription", s, status, p, atEnd)}

\* cancel_subscription until Stripe confirmed: the row must be bound and open.
CancelSubscription(s, now) ==
  /\ canceling[s] = "idle"
  /\ subs[s].bound
  /\ subs[s].status \notin {"canceled", "expired"}
  /\ atStripe[s].status \notin {"none", "canceled"}
  /\ Report(s, IF now THEN "canceled" ELSE atStripe[s].status, ~now)
  /\ atStripe' = [atStripe EXCEPT ![s] = IF now THEN [@ EXCEPT !.status = "canceled"]
                                         ELSE [@ EXCEPT !.atEnd = TRUE]]
  /\ canceling' = [canceling EXCEPT ![s] = IF now THEN "ended" ELSE "ending"]
  /\ UNCHANGED <<subs, ents, bills, buying, newsClock, newsDone>>

\* The statement on the subscription row that follows Stripe's answer.
RecordCancel(s) ==
  /\ canceling[s] \in {"ended", "ending"}
  /\ subs' = [subs EXCEPT ![s] =
       IF canceling[s] = "ended" THEN [@ EXCEPT !.status = "canceled", !.atEnd = FALSE]
       ELSE IF @.status \in {"canceled", "expired"} THEN @ ELSE [@ EXCEPT !.atEnd = TRUE]]
  /\ canceling' = [canceling EXCEPT ![s] = IF @ = "ended" THEN "revoking" ELSE "idle"]
  /\ UNCHANGED <<ents, bills, buying, stripeSide, newsDone>>

\* The statement that takes the entitlements back.
RevokeCanceled(s) ==
  /\ canceling[s] = "revoking"
  /\ ents' = [x \in Slots |-> IF ents[x].sub = s /\ ents[x].status = "active"
                              THEN [ents[x] EXCEPT !.status = "revoked"] ELSE ents[x]]
  /\ canceling' = [canceling EXCEPT ![s] = "idle"]
  /\ UNCHANGED <<subs, bills, buying, stripeSide, newsDone>>

\* The API process stops inside a request.
StopRequest(s) ==
  /\ "crash" \in MembershipFaults
  /\ \/ /\ buying[s] = "calling"
        /\ buying' = [buying EXCEPT ![s] = "idle"] /\ UNCHANGED canceling
     \/ /\ canceling[s] # "idle"
        /\ canceling' = [canceling EXCEPT ![s] = "idle"] /\ UNCHANGED buying
  /\ UNCHANGED <<subs, ents, bills, stripeSide, newsDone>>

-----------------------------------------------------------------------------
(* Stripe.                                                                   *)

\* Time passes.
NewsTick ==
  /\ newsClock < MaxClock
  /\ newsClock' = newsClock + 1
  /\ UNCHANGED <<subs, ents, bills, buying, canceling, atStripe, news, newsDone>>

\* The customer completes the session: the subscription starts.
MemberJoins(s) ==
  /\ atStripe[s].session = "open"
  /\ \E s1, s2 \in FreshStamps(newsClock, news), p \in Periods :
       /\ s1 # s2
       /\ news' = news \cup {News(s1, "completed", s, "active", TRUE, FALSE),
                             News(s2, "subscription", s, "active", p, FALSE)}
  /\ atStripe' = [atStripe EXCEPT ![s] = [@ EXCEPT !.session = "complete", !.status = "active"]]
  /\ UNCHANGED <<subs, ents, bills, buying, canceling, newsClock, newsDone>>

\* Nobody completed the session in time.
MemberSessionExpires(s) ==
  /\ atStripe[s].session = "open"
  /\ \E st \in FreshStamps(newsClock, news) :
       news' = news \cup {News(st, "expired", s, "expired", TRUE, FALSE)}
  /\ atStripe' = [atStripe EXCEPT ![s].session = "expired"]
  /\ UNCHANGED <<subs, ents, bills, buying, canceling, newsClock, newsDone>>

\* The subscription is renewed, falls behind, recovers, or ends.
SubscriptionChanges(s, status) ==
  /\ atStripe[s].status \notin {"none", "canceled"}
  /\ status # atStripe[s].status
  /\ status = "canceled" => atStripe[s].atEnd
  /\ Report(s, status, atStripe[s].atEnd)
  /\ atStripe' = [atStripe EXCEPT ![s].status = status]
  /\ UNCHANGED <<subs, ents, bills, buying, canceling, newsClock, newsDone>>

\* An invoice of the subscription is paid or fails.
InvoiceSettles(s, status) ==
  /\ atStripe[s].status \notin {"none", "canceled"}
  /\ \E st \in FreshStamps(newsClock, news) :
       news' = news \cup {News(st, "invoice", s, status, TRUE, FALSE)}
  /\ UNCHANGED <<subs, ents, bills, buying, canceling, atStripe, newsClock, newsDone>>

-----------------------------------------------------------------------------
(* Webhooks.                                                                 *)

\* apply_checkout_completed for a subscription: binds Stripe's id to the row
\* that recorded this session; otherwise the event fails and comes again.
BindSubscription(e) ==
  LET s == e.sub
  IN /\ subs' = [subs EXCEPT ![s].bound = @ \/ subs[s].session]
     /\ newsDone' = IF subs[s].session THEN newsDone \cup {e} ELSE newsDone
     /\ UNCHANGED <<ents, bills>>

\* apply_checkout_expired for a subscription.
ExpireSubscription(e) ==
  /\ subs' = [subs EXCEPT ![e.sub].status =
                IF @ = "checkout_pending" /\ subs[e.sub].session THEN "expired" ELSE @]
  /\ newsDone' = newsDone \cup {e}
  /\ UNCHANGED <<ents, bills>>

\* Mutant: only the end of a subscription takes the entitlements back.
RefreshEntitlementsAtEnd(s, status) ==
  [x \in Slots |->
     IF status \in Granting /\ x \in Entitles[s] THEN [status |-> "active", sub |-> s]
     ELSE IF ents[x].sub = s /\ status \in {"canceled", "expired"}
     THEN [ents[x] EXCEPT !.status = "expired"] ELSE ents[x]]

\* refresh_subscription_entitlements: a granting status needs a billing period
\* and takes every row of its keys; any other ends the rows it still holds.
RefreshEntitlements(s, status) ==
  [x \in Slots |->
     IF status \in Granting
     THEN IF x \in Entitles[s] THEN [status |-> "active", sub |-> s] ELSE ents[x]
     ELSE IF ents[x].sub = s /\ ents[x].status = "active"
     THEN [ents[x] EXCEPT !.status = IF status \in {"canceled", "expired"}
                                     THEN "expired" ELSE "revoked"]
     ELSE ents[x]]

\* Mutant: a subscription event is applied whenever it arrives.
ApplySubscriptionAnyOrder(e) ==
  /\ subs' = [subs EXCEPT ![e.sub] = [@ EXCEPT !.status = e.status, !.bound = TRUE]]
  /\ ents' = RefreshEntitlements(e.sub, e.status)
  /\ newsDone' = newsDone \cup {e}
  /\ UNCHANGED bills

\* apply_subscription: a newer event sets the row and then the entitlements. An
\* active one without a period fails after the row was set, and the transaction
\* that holds the failure keeps that row.
ApplySubscription(e) ==
  LET s == e.sub
      fails == e.status \in Granting /\ ~e.period
  IN /\ UNCHANGED bills
     /\ IF ~IsNewer(e.stamp, subs[s].last)
        THEN UNCHANGED <<subs, ents>> /\ newsDone' = newsDone \cup {e}
        ELSE /\ subs' = [subs EXCEPT ![s] =
                  [@ EXCEPT !.status = e.status, !.bound = TRUE, !.last = e.stamp,
                            !.atEnd = e.atEnd]]
             /\ ents' = IF fails THEN ents ELSE RefreshEntitlements(s, e.status)
             /\ newsDone' = IF fails THEN newsDone ELSE newsDone \cup {e}

\* apply_subscription_invoice: recorded only when the row is bound to Stripe's id.
ApplySubscriptionInvoice(e) ==
  LET s == e.sub
  IN /\ bills' = [bills EXCEPT ![s] =
          IF subs[s].bound /\ IsNewer(e.stamp, @.last)
          THEN [status |-> e.status, last |-> e.stamp] ELSE @]
     /\ newsDone' = newsDone \cup {e}
     /\ UNCHANGED <<subs, ents>>

\* process_webhook_event for the events of subscriptions.
MembershipWebhook(e) ==
  /\ e \notin newsDone
  /\ \/ e.kind = "completed" /\ BindSubscription(e)
     \/ e.kind = "expired" /\ ExpireSubscription(e)
     \/ e.kind = "subscription" /\ ApplySubscription(e)
     \/ e.kind = "invoice" /\ ApplySubscriptionInvoice(e)
  /\ UNCHANGED <<buying, canceling, stripeSide>>

MembershipsNext ==
  \/ \E s \in Subs :
       \/ RecurringCheckout(s) \/ RecurringAnswered(s) \/ RecurringFailed(s)
       \/ \E now \in BOOLEAN : CancelSubscription(s, now)
       \/ RecordCancel(s) \/ RevokeCanceled(s) \/ StopRequest(s)
       \/ MemberJoins(s) \/ MemberSessionExpires(s)
       \/ \E status \in {"active", "past_due", "canceled"} : SubscriptionChanges(s, status)
       \/ \E status \in {"captured", "failed"} : InvoiceSettles(s, status)
  \/ \E e \in news : MembershipWebhook(e)
  \/ NewsTick

MembershipsSpec == MembershipsInit /\ [][MembershipsNext]_memberVars

-----------------------------------------------------------------------------
(* Properties.                                                               *)

\* The rows have the shapes the tables allow.
MembershipsTypeOK ==
  /\ subs \in [Subs -> [status : {"none", "checkout_pending", "active", "past_due",
                                  "canceled", "expired"},
                        session : BOOLEAN, bound : BOOLEAN, atEnd : BOOLEAN, last : Stamps]]
  /\ \A x \in Slots : ents[x].status \in {"none", "active", "revoked", "expired"}
  /\ newsDone \subseteq news

Changes(s) == {e \in news : e.sub = s /\ e.kind = "subscription"}

\* Access is backed: an entitlement is active only while the subscription that
\* holds it is, except that a cancellation which stopped between its statements
\* leaves the entitlement until Stripe's own report of the end is processed.
EntitlementsBacked ==
  \A x \in Slots : ents[x].status = "active" =>
    LET s == ents[x].sub
    IN \/ subs[s].status \in Granting
       \/ /\ atStripe[s].status = "canceled"
          /\ \E e \in Changes(s) : /\ e.status = "canceled"
                                   /\ e \notin newsDone \/ e \notin Newest(Changes(s))
       \/ canceling[s] = "revoking"

\* Late and repeated events converge: once the newest report on a subscription
\* is processed and no cancel request is under way, the row has its state, or the
\* end Stripe confirmed to a cancel request, and a subscription that reported no
\* granting state holds no active entitlement.
MembershipConverges ==
  \A s \in Subs : \A e \in Newest(Changes(s)) :
    (e \in newsDone /\ canceling[s] = "idle") =>
      /\ \/ subs[s].status = e.status
         \/ subs[s].status = "canceled" /\ atStripe[s].status = "canceled"
      /\ e.status \notin Granting =>
           \A x \in Slots : ents[x].sub = s => ents[x].status # "active"

\* In whatever order events arrive and requests interleave with them, a
\* membership ends as its newest event says, and an active entitlement is one
\* that the subscription which holds it grants (apply_subscription,
\* refresh_subscription_entitlements).
MembershipsSound == MembershipsTypeOK /\ EntitlementsBacked /\ MembershipConverges
=============================================================================
