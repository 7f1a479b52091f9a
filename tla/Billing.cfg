\* Two webhook requests at a time, one payment, one invoice that may first
\* fail; two scans of one contract over four days, two calls of which fail.
CONSTANTS
  r1 = r1
  r2 = r2
  s1 = s1
  s2 = s2
  Requests = {r1, r2}
  PaymentIntents = {p1}
  Invoices = {i1}
  MaxRequestFaults = 1
  MaxCatalogSyncs = 1
  Contracts = {k1}
  Scans = {s1, s2}
  FirstEnd = 1
  Period = 2
  Window = 1
  ReminderDays = {1}
  MaxAttempts = 2
  Grace = 1
  MaxDay = 3
  MaxFaults = 2
SPECIFICATION MCSpec
\* Everything has happened and everything is answered.
CHECK_DEADLOCK FALSE
INVARIANTS PaymentsAreApplied RenewalsAreAccounted
PROPERTIES EveryPurchaseIsCredited DueIsSettled
