SPECIFICATION FairSpec
CONSTANTS
  m1 = m1 m2 = m2 c1 = c1
  Msgs = {m1, m2}
  Muted = {}
  Calls = {c1}
  MaxConns = 2
  Window = 1
  Burst = 1
  MaxAge = 1
  KeepMarks = 1
  MaxTime = 3
INVARIANT ReportsTrue
INVARIANT RateBound
PROPERTY RecallHeeded
PROPERTY EveryCallSettles
CHECK_DEADLOCK FALSE
