SPECIFICATION FairSpec
CONSTANTS
  x = x  y = y  public = public  NoAddress = none  r1 = r1  r2 = r2
  Servers <- MCServers
  LabelOf <- MCLabelOf
  Labels = {"a", "b"}
  PrefixList <- MCPrefixes
  Names <- MCNames
  Ports = {1, 2, 3}
  Addresses = {x, y, public}
  Private = {x, y}
  Selected = {"s1"}
  PageSize = 2
  BatchSize = 2
  Runs = {r1, r2}
  Scheduled = r1
  Edits <- MCEdits
  Options <- MCOptions
  InitServers <- MCInitServers
  InitZones <- MCInitZones
  Changes = 1
PROPERTIES
  OwnRecordsOnly
  LiveKept
  DoneMeansSynced
  NamesDoNotShift
  Converges
