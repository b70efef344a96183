CONSTANTS
  Slugs = {"a", "b"}
  ShortSlugs = {"a"}
  LongSlugs = {"b"}
  Lifetimes = {1, 5}
  MaxDate = 4
  MaxTime = 1
  MaxSessions = 2
  Clis = {p, q}
  None = None
SPECIFICATION Spec
INVARIANTS FileIsMine LeftoverOnlyByCrash
PROPERTY OnlineIsReal
CHECK_DEADLOCK FALSE
