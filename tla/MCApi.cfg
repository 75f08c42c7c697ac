SPECIFICATION Spec
CONSTANTS
  g1 = g1 g2 = g2 g3 = g3 c1 = c1 c2 = c2 c3 = c3
  near = near far = far mail1 = mail1 mail2 = mail2 name1 = name1 name2 = name2
  url1 = url1 url2 = url2
  Calls = {g1, g2, g3, c1, c2, c3}
  Addresses = {near, far}
  Address <- MCAddress
  Burst = 2
  MaxLimiters = 2
  MaxTicks = 1
  Signups = {g1, g2, g3}
  Email <- MCEmail
  Username <- MCUsername
  Subscribers = {c1, c2, c3}
  Urls = {url1, url2}
  Url <- MCUrl
  Quota = 1
  Casts <- MCCasts
INVARIANTS RateBound AccountsWhole QuotaKept
PROPERTIES ImplementsBucket ImplementsAtomicSignup
CHECK_DEADLOCK FALSE
