CONSTANTS
  Slugs = {"a", "b"}
  ShortSlugs = {"a"}
  LongSlugs = {"b"}
  Lifetimes = {1, 5}
  MaxDate = 4
  MaxTime = 2
  MaxSessions = 3
  Tunnels = {t1}
  Visitors = {v}
  Closers = {}
  None = None
  extractSlug <- Lower
SPECIFICATION Spec
INVARIANT KeptInTime
PROPERTY ForwardedWhileValid
