SPECIFICATION RuntimeSpec
CONSTANTS
  a1 = a1
  a2 = a2
  o1 = o1
  o2 = o2
  Turn = {t1}
  Attempt = {a1, a2}
  Operation = {o1, o2, o3}
  Effect = {}
  NoAttempt = NoAttempt
  NoTurn = NoTurn
  NoOperation = NoOperation
  MaxTurnAttempts = 2
  MaxDurableSequence = 5
  LeaseTTL = 2
  ReservationTTL = 1
  Authority = "review"
  ReservationAware = FALSE
  Worker = {w1, w2}
  TerminalOperation <- EndOf
  MaxCrashes = 1
  Observer = {s1}
  PageLimit = 2
  MaxDetach = 1
INVARIANTS
  QuietCommit
  NothingDropped
PROPERTIES
  SeenInOrder
  WorkedTurnsEnd
  StreamsEnd
CHECK_DEADLOCK FALSE
