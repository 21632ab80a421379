SPECIFICATION FairSpec
CONSTANTS
  d1 = d1
  d2 = d2
  Devices = {d1, d2}
  SlotCount = 2
  IdCount = 4
  FirstDynamic = 2
  NoDevice = NoDevice
  NoEndpoint = NoEndpoint
  Items = {"Name", "Location"}
  ReportQueue = 1
CHECK_DEADLOCK FALSE
INVARIANTS
  TypeOK
  DynamicIdsApart
  StrayNeedsRefusal
  ChangeIsReported
  StaleReportNeedsRemoval
PROPERTIES
  AddEnds
