CONSTANTS
  Workers = {t1, t2}
  CONNECT_TIMEOUT = 2
  READ_TIMEOUT = 1
  ATTEMPT_DEADLINE = 3
  INITIAL_INTERVAL = 1
  MAX_INTERVAL = 3
  DEADLINE = 9
  RESPONSE_CAP = 3
SPECIFICATION MCSpec
CHECK_DEADLOCK FALSE
INVARIANTS ProbeEndsInTime ReadyMeansServing
