SPECIFICATION FairSpec
CONSTANTS
  p1 = p1  p2 = p2
  t1 = t1  t2 = t2  t3 = t3
  NoOne = NoOne
  Process = {p1, p2}
  Thread = {t1, t2, t3}
  ProcessOf <- MCProcessOf
  Lossy = {"lock", "unlock"}
  Flaky = TRUE
  Crashes = TRUE
  MaxRetries = 1
  MaxWork = 2
PROPERTIES
  LockReleased
  ExecutorsEnd
