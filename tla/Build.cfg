SPECIFICATION BuildSpec
CONSTANTS
  start = start
  main = main
  ld = ld
  ld2 = ld2
  readme = readme
  Sources = {start, main}
  Scripts = {ld, ld2}
  Others = {readme}
  Listings <- MCListings
  Flags = {0, 1}
  Configs = {Debug}
  None = None
  MaxDisturbances = 3
INVARIANTS
  BuildTypeOK
  SourcesCurrent
  IncrementalIsClean
PROPERTIES
  BuildSettles
