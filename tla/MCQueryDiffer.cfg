SPECIFICATION MCSpec
CONSTANTS
  None = None
  N = 5
  T = 3
  Cap = 2
  Limits = {0, 1, 3}
  Rank <- MCRank
  MaxMatches = 6
  PageLimits = {1, 2, 3}
  PageCap = 5
  Topics = {"rows", "request", "token", "glob", "tree", "list", "string", "escape", "message", "number"}
  Bytes <- MCMoreBytes
  Longest <- MCLongest
  LimitMax = 11
  PathMax = 3
  EncodedMax = 8
  UnderMax = 3
  PageMax = 2
  MaxDepth = 2
\* Each fails, and TLC stops at the first: leave one.
INVARIANT ExactCapIsReported
INVARIANT RowsAreByteExact
INVARIANT AnyOffsetIsUnderstood
INVARIANT StarIsAnyText
INVARIANT SubtreesAgree
INVARIANT RootsCanBeRemoved
