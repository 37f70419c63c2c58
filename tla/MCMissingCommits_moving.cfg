SPECIFICATION Spec
CONSTANTS
  Commit = {1, 2, 3, 4, 5, 6, 7}
  Parents <- MCParents
  Date <- MCDate
  IdsOf <- MCIds
  FilesOf <- MCFiles
  SkipPrefixes <- MCSkip
  Since = 2
  Options <- MCOptions
  Tracked = {"previous", "next"}
  InitRefs <- MCInitRefs
  NoRef = noref
  Moves = 3
INVARIANTS
  NothingLost
  MissingAreReal
  ValidatorAgrees
  AcceptedIsCurrent
  FetchedIsCurrent
