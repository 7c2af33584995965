---------------------------- MODULE StripeEvents ----------------------------
(* The order of Stripe's events as the webhook handlers see it. An event has *)
(* the second it was created in and an id; ids compare as strings and those  *)
(* of one second come in no particular order.                                *)
EXTENDS Naturals

CONSTANTS
  MaxClock,     \* bound on Stripe's clock in seconds
  MaxPerSecond  \* bound on the events Stripe creates within one second

ASSUME StripeEventsAssumption == MaxClock \in Nat /\ MaxPerSecond \in Nat

Stamps == [at : 0..MaxClock, id : 0..MaxPerSecond]
NoStamp == [at |-> 0, id |-> 0]

\* provider_event_is_newer: a row without an event takes any; otherwise the
\* second decides and then the id.
IsNewer(stamp, last) ==
  \/ last = NoStamp
  \/ stamp.at > last.at
  \/ stamp.at = last.at /\ stamp.id > last.id

\* Stamps an event created now can have.
FreshStamps(clock, events) ==
  {s \in Stamps : s.at = clock /\ s.id > 0 /\ \A e \in events : e.stamp # s}

\* The events of a set that no other one of the set follows.
Newest(seen) == {e \in seen : \A f \in seen : f = e \/ IsNewer(e.stamp, f.stamp)}
=============================================================================
