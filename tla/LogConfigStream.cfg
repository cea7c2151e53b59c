\* Two edits of the file: the log options change while a thread logs.
SPECIFICATION LcSpec
CONSTANTS
  s1 = s1
  n1 = n1
  n2 = n2
  t1 = t1
  Schedules = {s1}
  LogNames = {n1, n2}
  MaxEdits = 2
  Loggers = {t1}
CHECK_DEADLOCK FALSE
INVARIANTS
  LineHasStream
