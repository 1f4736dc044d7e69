SPECIFICATION Spec
CONSTANTS
  w1 = w1
  w2 = w2
  rm = rm
  push = push
  r1 = r1
  t1 = t1
  t2 = t2
  None = None
  Workers = {w1, w2}
  Calls = {rm, push}
  Local = {rm}
  Requests = {r1}
  Tokens = {t1, t2}
  MaxCrashes = 1
SYMMETRY Perms
CHECK_DEADLOCK FALSE
INVARIANTS ApprovalsCount TokenKept
PROPERTIES RefusedWithoutToken
