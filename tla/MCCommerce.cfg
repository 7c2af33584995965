SPECIFICATION CommerceSpec
CONSTANTS
  o1 = o1
  r1 = r1
  r2 = r2
  s1 = s1
  s2 = s2
  m1 = m1
  m2 = m2
  c1 = c1
  p1 = p1
  x1 = x1
  q1 = q1
  q2 = q2
  d1 = d1
  b1 = b1
  b2 = b2
  NoAccount = NoAccount
  Orders = {o1}
  Refunds = {r1, r2}
  RefundOrder <- MCRefundOrder
  RefundAsk <- MCRefundAsk
  Total = 2
  Faults = {"crash", "lost"}
  Subs = {s1, s2}
  Entitles <- MCEntitles
  MembershipFaults = {"crash", "lost", "period"}
  MaxClock = 2
  MaxPerSecond = 2
  Merchants = {m1, m2}
  Connected = {c1}
  Products = {p1}
  Prices = {x1}
  AccountRequests = {q1, q2}
  Payments = {d1}
  RefundIds = {b1, b2}
  OrderTotal = 2
  EventKeys = {1, 2, 3}
  MaxSeq = 3
  MaxPeriod = 2
INVARIANT
  MembershipsSound
PROPERTIES
  OrdersSound
  PaymentAccountsSound
CHECK_DEADLOCK FALSE
