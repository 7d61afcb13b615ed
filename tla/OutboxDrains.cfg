SPECIFICATION FairOutboxSpec
CONSTANTS
  t1 = t1
  a1 = a1
  o1 = o1
  e1 = e1
  e2 = e2
  Turn = {t1}
  Attempt = {a1}
  Operation = {o1}
  Effect = {e1, e2}
  NoAttempt = NoAttempt
  NoTurn = NoTurn
  NoOperation = NoOperation
  MaxTurnAttempts = 1
  MaxDurableSequence = 6
  LeaseTTL = 1
  ReservationTTL = 1
  Authority = "provider"
  ReservationAware = FALSE
  d1 = d1
  d2 = d2
  Dispatcher = {d1, d2}
  EffectLeaseTTL = 3
  DeliveryTimeout = 2
  BatchLimit = 1
  MaxDeliveryAttempts = 2
  RetryBackoff = 1
  MaxRetryBackoff = 2
  RetryHint = {0, 2}
  Prompt = TRUE
  MaxDispatchToken = 6
  MaxLosses = 1
CHECK_DEADLOCK FALSE
INVARIANTS
  OneInFlight
  ReviewHoldsEffects
PROPERTIES
  UnknownNotResent
  EffectsSettle
