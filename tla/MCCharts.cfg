\* Sample births and skies; two accounts and two requests where charts are kept.
CONSTANTS
  Born = {x1, x2}
  Hour = {9}
  Reader = {r1, r2}
  NoData = NoData
  Lang = {"en", "tr"}
  Asker = {r1, r2}
  MaxText = 3
  NoText = NoText
  User = {u1, u2}
  Person = {x1, x2}
  Call = {r1, r2}
  Score = {50, 101}
  MaxReports = 2
  BirthDate <- BirthDates
  FullName <- FullNames
  Month = {2, 11}
  Day = {1, 29}
  FirstYear = 2005
  LastYear = 2032
  BirthDay <- BirthDays
  MoonPlace <- MoonPlaces
  FirstCusp <- FirstCusps
  Offset <- HouseOffsets
  Place <- PlanetPlaces
  FirstSky <- VedicSkies
  Longitude <- VedicPlaces
  MaxMoves = 1
  BirthSky <- ChannelSkies
  WheelPlace <- WheelPlaces
  Natal <- NatalPoints
  FirstPlace <- FirstPlaces
  Elongation = {0, 340, 365}
  MoonGain = {21, 30}
  RepeatDays = 6
  MaxStations = 1
  LastDay = 34
  Window <- Windows
  Event <- Events
  Nth = {1, 91, 365, 366}
  MaxEvents = 5
SPECIFICATION Spec
SYMMETRY Symmetric
INVARIANTS
  NumbersHold
  ForecastsHold
  ChartsHold
  TransitsHold
  BodygraphHolds
  KeptIsCurrent
  OneTextOfADate
  ReportsStayWithOwner
PROPERTIES
  TurnsComeInOrder
CHECK_DEADLOCK FALSE
