SPECIFICATION Spec
CONSTANTS
  p1 = p1  p2 = p2
  t1 = t1  t2 = t2  t3 = t3
  NoOne = NoOne
  Process = {p1, p2}
  Thread = {t1, t2, t3}
  ProcessOf <- MCProcessOf
  Lossy = {"unlock"}
  Flaky = FALSE
  Crashes = FALSE
  MaxRetries = 1
  MaxWork = 2
INVARIANT
  ValidateSilent
