SPECIFICATION Spec
CONSTANTS
  c = c
  d = d
  local = local
  external = external
  Cap <- MCCap
  MaxVersion = 3
  Class <- MCClass
  Permitted <- MCPermitted
  Bodies <- MCBodies
  Packages <- MCPackages
CHECK_DEADLOCK FALSE
INVARIANTS
  ActiveEarnedItHere
PROPERTY FollowsTheTable
