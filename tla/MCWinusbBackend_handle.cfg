SPECIFICATION HandleSpec
CONSTANTS
  Devices <- MCDevices
  Transfers = {t1, t2}
  MaxCalls = 4
  MaxReportSize = 5
  Hids <- MCHids
  Asked <- MCAsked
  Reports <- MCReports
SYMMETRY MCSymmetry
INVARIANTS HandleSound InventedRight ReportsRight
PROPERTIES ClaimsRespected
CHECK_DEADLOCK FALSE
