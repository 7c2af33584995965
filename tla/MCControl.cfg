SPECIFICATION ControlSpec
CONSTANTS
  f = f
  a = a
  g = g
  c1 = c1
  c2 = c2
  x1 = x1
  x2 = x2
  slug1 = slug1
  slug2 = slug2
  s1 = s1
  Nobody = Nobody
  People = {f, a, g}
  Founder = f
  Guests = {g}
  Invites = {1, 2}
  Calls = {c1, c2}
  Staff = {f, a, g}
  Tasks = {c1, c2}
  NoStaff = Nobody
  Projects = {1, 2}
  Slugs = {slug1, slug2}
  Keys = {x1, x2}
  Attempts = {c1, c2}
  FreeLimit = 2
  Nothing = Nobody
  StripeAccounts = {x1, x2}
  Operators = {c1, c2}
  MaxPrice = 1
  NoAccount = Nobody
  Contracts = {s1}
  Payers = {x1, x2}
  Hooks = {c1, c2}
  MaxBillingEvents = 3
  NoContract = Nobody
  MaxClock = 2
  MaxPerSecond = 2
SYMMETRY Symmetric
CHECK_DEADLOCK FALSE
INVARIANTS
  ProvisioningSound
  BillingFollows
PROPERTY
  OwnershipHolds
