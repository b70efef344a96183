CONSTANTS
  Slugs = {"a"}
  ShortSlugs = {"a"}
  LongSlugs = {}
  Lifetimes = {1}
  MaxDate = 4
  MaxTime = 1
  MaxSessions = 1
  Tunnels = {t1, t2}
  Visitors = {}
  Closers = {c}
  None = None
  extractSlug <- Lower
SPECIFICATION Spec
SYMMETRY Symmetric
INVARIANT NewestIsReachable
