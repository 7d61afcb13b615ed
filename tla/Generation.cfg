SPECIFICATION FairGenSpec
CONSTANTS
  Reservation = {t1}
  NoTask = NoTask
  Worker = {w1, w2}
  QueueSize = 1
  Cost <- Costs
  FromProject = {t1}
  RecoverAge = 1
  ExpireAge = 2
  MaxCrashes = 1
  NumPacks = 2
  Grant = 1
  PackLife <- PackLives
  Forever = 9
  Purchased = {2}
  Amount = {}
  ProjectCap = 2
  ReservationTTL = 1
  SweepMargin = 0
  TaskExtension = 1
  MaxRefundFailures = 1
INVARIANTS
  RefundsAreReal
  RunningIsFunded
  OneRunner
  BooksBalance
PROPERTIES
  DecisionsStand
  EndedTasksSettle
