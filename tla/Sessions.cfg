SPECIFICATION FairSpec
CONSTANTS
  b1 = b1
  t1 = t1
  t2 = t2
  c1 = c1
  c2 = c2
  c3 = c3
  s1 = s1
  Browsers = {b1}
  Tabs = {t1, t2}
  Calls = {c1, c2, c3}
  Strays = {s1}
  BrowserOf <- MCBrowserOf
  TabOf <- MCTabOf
  Logins = 1
  Expiries = 1
  Incidents = 2
INVARIANTS
  BurntOnce
  RefusedForCause
PROPERTIES
  CallsSettle
