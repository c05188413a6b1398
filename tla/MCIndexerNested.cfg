SPECIFICATION Spec
CONSTANTS
  r = r
  a = a
  b = b
  c = c
  f = f
  g = g
  h = h
  x = x
  n = n
  l = l
  k = k
  m = m
  t1 = t1
  t2 = t2
  t3 = t3
  None = None
  Threads = {t1, t2, t3}
  Paths = {r, a, b, c, f, g, h, x, n, l, k, m}
  Configs <- NestedConfigs
  Children <- MCChildren
  Dirs = {r, a, b, c, g, h, l, k, m}
  Links = {l, m}
  Inode <- MCInode
  Excluded = {x}
  Hidden = {h}
  NoStat = {n}
  NoOpen = {g, k}
INVARIANT ScannedOnce
