\* Two URSs over four C paths, three file names, one of them not creatable.
CONSTANTS
  u1 = u1
  u2 = u2
  NoUrs = NoUrs
  Urss <- MCUrss
  CPaths <- MCCPaths
  Creatable <- MCCreatable
SPECIFICATION Spec
INVARIANT TypeOK
