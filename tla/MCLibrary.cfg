\* Four photos with and without dates and positions, two repairs, then the trips.
SPECIFICATION Spec
CONSTANTS
  Ids = {1, 2, 3, 4}
  noTime = noTime
  noGps = noGps
  noCamera = noCamera
  noName = noName
  NoTime = noTime
  NoGps = noGps
  NoCamera = noCamera
  NoName = noName
  Files <- MCFiles
  Cameras <- MCCameras
  ModifiedTimes = {1, 5}
  RepairRequests <- MCRepairRequests
  DefaultWindow = 1
  AmbiguousGap = 2
  DayLength = 4
  Noon = 2
  MaxShift = 4
  MatchWindow = 0
  Snap = 3
  MinPhotos = 2
  MinHits = 1
  MaxRepairs = 2
  TripRequests <- MCTripRequests
  DefaultTrip <- Usual
  MonthOf <- Month
  CellSize = 1
  HomeCount = 2
  HomeSpan = 2
  Cities <- CityTable
  CountryOf <- Country
INVARIANTS TripsBreakForAReason RepairForgetsRepairs BorrowsFromNearest BorrowersTravelTogether
CHECK_DEADLOCK FALSE
