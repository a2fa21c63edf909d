SPECIFICATION Spec
CONSTANTS
  x1 = x1
  x2 = x2
  r1 = r1
  t1 = t1
  Absent = Absent
  Exchanges = {x1, x2}
  RequestIds = {r1}
  TraceIds = {t1}
  Messages <- MCMessages
  MaxOverrun = 1
INVARIANTS InvalidInputClassified
CHECK_DEADLOCK FALSE
