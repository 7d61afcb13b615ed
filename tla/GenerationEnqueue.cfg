SPECIFICATION GenSpec
CONSTANTS
  Reservation = {t1, t2}
  NoTask = NoTask
  Worker = {w1}
  QueueSize = 1
  Cost <- Costs
  FromProject = {}
  RecoverAge = 1
  ExpireAge = 2
  MaxCrashes = 0
  NumPacks = 3
  Grant = 2
  PackLife <- PackLives
  Forever = 9
  Purchased = {}
  Amount = {}
  ProjectCap = 0
  ReservationTTL = 1
  SweepMargin = 0
  TaskExtension = 1
  MaxRefundFailures = 1
INVARIANTS
  SubmissionsHaveRoom
