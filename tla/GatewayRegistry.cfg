CONSTANTS
  Slugs = {"a", "A"}
  ShortSlugs = {"a"}
  LongSlugs = {"a"}
  Lifetimes = {0}
  MaxDate = 4
  MaxTime = 1
  MaxSessions = 1
  Tunnels = {t1, t2}
  Visitors = {}
  Closers = {c}
  None = None
  extractSlug <- Lower
SPECIFICATION FairSpec
INVARIANT AloneIsReachable
PROPERTIES DeadLeavesRegistry SlugFreed
