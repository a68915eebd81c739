\* Doc claim: noon only stands in for an unknown time. The column's text has three parts.
CONSTANTS
  Born = {b1}
  Hour = {9}
  Reader = {r1}
  NoData = NoData
SPECIFICATION ChartSpec
INVARIANT
  KnownTimeIsUsed
CHECK_DEADLOCK FALSE
