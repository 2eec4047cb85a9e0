CONSTANTS
  Threads = {t1}
  Ctrls = {c1, c2}
  Shared = {s1, s2}
  Weak = {w1}
  Null = Null
SPECIFICATION ArraySpec
INVARIANT NoFault
CHECK_DEADLOCK FALSE
