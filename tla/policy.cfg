\* Half-second ticks, buckets stale after a second.
CONSTANTS
  Caps = {"1.5rps", "2rps", "0rps"}
  Tokens = {"1.5rps", "2rps", "0rps", "unlimited"}
  Rate <- MCRate
  Den = 2
  Second = 2
  staleBucketTTL = 2
  MaxTime = 5
  claims <- MCClaims
  Requests <- MCRequests
  DotDotNames <- MCDotDotNames
  wd <- MCwd
SPECIFICATION PolicySpec
INVARIANTS TypeOK RateBound PathsAsGranted PlainPathsGranted
PROPERTIES ImplementsTokenBucket RefusalsAreFree
