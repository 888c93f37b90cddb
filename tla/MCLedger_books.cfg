\* Three reservations of two tenants over two months; 127 is the largest int.
\* Days are one instant long, months two.
SPECIFICATION Spec
CONSTANTS
  Tenants = {t1, t2}
  Ids = {r1, r2, r3}
  Nil = Nil
  Quotas <- SmallQuotas
  Amounts = {1, 127}
  TTLs = {1}
  IntWidth = 8
  DayLength = 1
  MonthLength = 2
  MaxTime = 2
SYMMETRY Symmetry
CHECK_DEADLOCK FALSE
INVARIANTS
  TypeOK
  Balanced
  WithinBurst
  WithinPeriods
  RefusalIsJust
