\* Three keys in a map of the default size, two; two tasks; a clock of half
\* seconds that passes every lifetime.
CONSTANTS
  Key = {k1, k2, k3}
  Data = {"a", "b"}
  Rrset <- TtlRrsets
  TtlCap = 2
  TicksPerSec = 2
  Task = {t1, t2}
  CacheSize = 0
  DefaultSize = 2
  MaxClock = 4
SYMMETRY Symmetric
SPECIFICATION HistorySpec
INVARIANTS TypeOK ServedWithinTtl LruConsistent ReaderExclusive
PROPERTIES ImplementsSoftCache EvictsLeastRecentlyUsed
