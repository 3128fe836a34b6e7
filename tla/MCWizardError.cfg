\* An error before the batches, and Go back.
SPECIFICATION Spec
CONSTANTS
  p1 = p1
  p2 = p2
  p3 = p3
  Photos = {p1, p2, p3}
  Dated = {p1, p2}
  Labels = {"", "...", "Home", "Italy", "Rome", "Siena", "Tour", "Trip", "New trip", "rome", "siena", "leg-1", "leg-2", "2024-italy", "2024-home", "2024-tour"}
  Slugged = {"Home", "Italy", "Rome", "Siena", "Tour", "Trip", "New trip", "rome", "siena", "leg-1", "leg-2"}
  Params <- Gaps
  Cluster <- ByGap
  Names = {"Home", "..."}
  Picks = {{p2, p3}}
  Glimpses = {{}, {p2, p3}}
  Default = "short"
  MaxScans = 1
  MaxEvents = 1
  MaxTasks = 3
INVARIANT ConfirmHasPhotos
CHECK_DEADLOCK FALSE
