SPECIFICATION ServicesSpec
CONSTANTS
  Part = {"chain", "pool", "inbox", "login"}
  Chain = {c1}
  Token = {k1, k2, k3}
  NoToken = NoToken
  Refresh = {f1, f2}
  RefreshTokenTTL = 1
  Account = {1, 2}
  Priority <- ByNumber
  Premium = {2}
  Request = {r1, r2}
  Admin = {x1}
  FailureThreshold = 2
  RecoveryTimeout = 1
  HalfOpenProbeTTL = 1
  MaxAdminCalls = 1
  Event = {1, 2}
  Webhook = {w1}
  Reconciler = w0
  MaxAttempts = 2
  LeaseTTL = 1
  BaseBackoff = 1
  MaxBackoff = 1
  BatchLimit = 1
  MaxLosses = 1
  Caller = {p1, p2}
  TTL = 2
  MaxPasswordFailures = 2
  MaxVersion = 7
INVARIANTS
  OneSuccessor
  OneProbe
  AppliedOnce
  OneCodePerLogin
PROPERTIES
  EndedChainsStay
  LoginsOnlyAdvance
  ProbesResolve
  EventsSettled
CHECK_DEADLOCK FALSE
