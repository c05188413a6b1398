SPECIFICATION MCSpec
CONSTANTS
  None = None
  N = 6
  T = 3
  Cap = 3
  Limits = {0, 2, 4}
  Rank <- MCRank
  MaxMatches = 6
  PageLimits = {1, 2, 3}
  PageCap = 5
  Topics = {"rows", "request", "token", "glob", "tree", "list", "string", "escape", "message", "number"}
  Bytes <- MCBytes
  Longest <- MCLongest
  LimitMax = 11
  PathMax = 3
  EncodedMax = 8
  UnderMax = 3
  PageMax = 2
  MaxDepth = 2
INVARIANT SlotsExact
INVARIANT AnswersTrue
INVARIANT PagesRight
INVARIANT LinesFaithful
INVARIANT GlobRight
INVARIANT SubtreesAgree
