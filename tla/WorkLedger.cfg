SPECIFICATION FairSpec
CONSTANTS
  i1 = i1
  i2 = i2
  ka = ka
  kb = kb
  Items = {i1, i2}
  Kinds = {ka, kb}
  KindOf <- MCOneKind
  Requests = {r1}
  MaxAttempts = 3
  BaseDelay = 2
  MaxBackoff = 3
  MaxAge = 2
  MaxInterruptions = 1
INVARIANTS
  TypeOK
  ClaimIsExclusive
  NoLostSignal
  AttemptBudget
PROPERTIES
  NoStarvation
  LifecycleSpec
