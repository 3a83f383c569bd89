SPECIFICATION FairSpec
CONSTANTS
  NoDaemon = NoDaemon
  Daemons = {p1, p2}
  Shells = {h1}
  Items = {i1}
  MaxPolls = 1
  MaxServes = 1
  MaxStops = 1
  MaxCrashes = 1
  MaxErrors = 1
  Noise = Noise
INVARIANTS UndisturbedIsFound NothingLostWithoutOverlap
PROPERTIES UndisturbedComesUp CancelledEnds
CHECK_DEADLOCK FALSE
