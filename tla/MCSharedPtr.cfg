CONSTANTS
  Threads = {t1, t2}
  Ctrls = {c1, c2}
  Shared = {s1, s2}
  Weak = {w1, w2}
  Null = Null
SPECIFICATION Spec
INVARIANTS NoFault CountsExact
PROPERTIES NoRevival LockFailsOnlyWhenExpired Released
