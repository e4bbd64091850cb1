SPECIFICATION Spec
CONSTANTS
  MAX_MAPPED_MMIO = 3
  OneMB = 8
  FourGB_min_20MB = 32608
  FourGB = 32768
  Ranges <- ProbeRanges
  s1 = s1
  s2 = s2
  s3 = s3
  m1 = m1
  m2 = m2
  m3 = m3
  u1 = u1
  u2 = u2
  u3 = u3
  SysAddrs = {s1, s2, s3}
  Mdls = {m1, m2, m3}
  UserAddrs = {u1, u2, u3}
  NULL = NULL
SYMMETRY Interchangeable
INVARIANTS
  NoBadRelease
  NothingLeaks
  PointersReachTheirRange
PROPERTIES
  ImplementsLeases
