\* Two capabilities, two concurrent calls, restarts of both services.
CONSTANTS
  c1 = c1
  Caps = {c1, c2}
  Revocable = {c1}
  Paths <- TwoPaths
  claims <- MCClaims
  DotDotNames = {".."}
  wd <- MCwd
  Calls = {k1, k2}
  MaxKeys = 2
  MaxHandles = 2
SPECIFICATION Spec
INVARIANTS TypeOK NoAccessAfterRevoke ReadsAsGranted 
PROPERTY HandlesFixed
SYMMETRY CallSymmetry
