SPECIFICATION FairSpec
CONSTANTS
  b1 = b1
  b2 = b2
  l1 = l1
  l2 = l2
  Browsers = {b1, b2}
  Logins = {l1, l2}
  Callbacks = {c1, c2}
  Owner <- OneBrowserTwoTabs
  MaxPending = 1
  NoLogin = NoLogin
INVARIANTS OwnBrowserOnly AcceptedOnce RefusedForAReason
PROPERTY SlotFreed
