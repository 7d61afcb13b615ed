SPECIFICATION FairBillingSpec
CONSTANTS
  Reservation = {t1, t2, g}
  Turn = {t1, t2}
  Receipt = {e1, e2}
  ReservedUnits = 2
  MaxFence <- Fences
  Metered = {t2}
  PassLimit = 1
  Broken = {t1}
  NumPacks = 2
  Grant = 3
  PackLife <- PackLives
  Forever = 9
  Purchased = {}
  Amount = {0}
  ProjectCap = 0
  ReservationTTL = 1
  SweepMargin = 0
  TaskExtension = 1
  MaxRefundFailures = 1
INVARIANTS
  OutcomeMirrorsLedger
  ReviewDecides
  UsageCountedOnce
PROPERTIES
  SoonestFirst
  PendingRefundsConverge
