----------------------------- MODULE MCCommerce -----------------------------
(* The parts of project commerce side by side. They share no state, so each  *)
(* behaviour runs one of them: `lane` is chosen once and never changes.      *)
EXTENDS CommerceOrders, CommerceMemberships, CommerceAccounts, CommerceDomain, TLC

CONSTANTS o1, r1, r2, s1, s2, m1, m2, c1, p1, x1, q1, q2, d1, b1, b2

MCRefundOrder == (r1 :> o1) @@ (r2 :> o1)
MCRefundAsk == (r1 :> 0) @@ (r2 :> 1)
MCEntitles == (s1 :> {"seat"}) @@ (s2 :> {"seat"})

VARIABLE lane
commerceVars == <<orderVars, memberVars, accountVars, domainVars, lane>>

CommerceInit ==
  /\ OrdersInit /\ MembershipsInit /\ AccountsInit /\ DomainInit
  /\ lane \in {"orders", "memberships", "accounts", "sales", "subscription"}
  /\ lane # "sales" => payment = [p \in Payments |-> Fresh(OrderTotal)]

CommerceNext ==
  /\ UNCHANGED lane
  /\ \/ /\ lane = "orders" /\ OrdersNext
        /\ UNCHANGED <<memberVars, accountVars, domainVars>>
     \/ /\ lane = "memberships" /\ MembershipsNext
        /\ UNCHANGED <<orderVars, accountVars, domainVars>>
     \/ /\ lane = "accounts" /\ AccountsNext
        /\ UNCHANGED <<orderVars, memberVars, domainVars>>
     \/ /\ lane = "sales" /\ SalesNext
        /\ UNCHANGED <<orderVars, memberVars, accountVars>>
     \/ /\ lane = "subscription" /\ SubscriptionNext
        /\ UNCHANGED <<orderVars, memberVars, accountVars>>

CommerceSpec == CommerceInit /\ [][CommerceNext]_commerceVars

\* In whatever order Stripe's events arrive, an order's payment state is that
\* of the newest one, its refunds add up, a refund that may yet happen is
\* never promised twice, and what is shipped was paid (apply_payment_intent,
\* apply_refund, create_refund, update_fulfillment).
OrdersSound ==
  /\ [](OrdersTypeOK /\ DomainTypeOK /\ PaymentFollowsNewest /\ RefundLedger /\ RefundsReserved)
  /\ ShipsPaid
=============================================================================
