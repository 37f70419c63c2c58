SPECIFICATION FairSpec
CONSTANTS
  c1 = c1  c2 = c2  t1 = t1  t2 = t2  t3 = t3  m = m
  Client = {c1, c2}
  Thread = {t1, t2, t3}
  ClientOf <- MCClientOf
  Manual = {m}
  Nobody = Nobody
  MaxAge = 2
INVARIANTS
  TypeOK
  SentFresh
PROPERTIES
  FreshTokenKept
  AbortExplained
  LockGivenBack
