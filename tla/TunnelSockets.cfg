CONSTANTS
  IdMod = 6
  Requests = {r1, r2}
  None = None
  MaxConns = 2
  MaxBody = 1
  MaxChunks = 0
SPECIFICATION Spec
SYMMETRY Symmetric
INVARIANTS BodyWhole AnswerGoesHome AnswerComes
CONSTRAINTS Unsettled TwoFirst
CHECK_DEADLOCK FALSE
