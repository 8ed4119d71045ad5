SPECIFICATION Spec
INVARIANT NoStaleHit
CONSTANTS
  MaxClass = 1
  WordMax = 1
  Asids = {1, 2}
  Classes = {1}
  Globals = {FALSE}
  Sets = 2
  Ways = 1
  CountPages = TRUE
