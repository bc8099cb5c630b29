SPECIFICATION Spec
CONSTANTS
  trial = trial
  p1 = p1
  s1 = s1
  s2 = s2
  f1 = f1
  Trial = trial
  Paid = {p1}
  Sessions = {s1, s2}
  Talkative = {s1, s2}
  Endings = {"end"}
  Failures = {}
  Durations = {1}
  Limit = 1
  Grace = 1
  MaxMinutes = 3
  Horizon = 2
CHECK_DEADLOCK FALSE
PROPERTY AdmittedBelowLimit
