CONSTANTS
  Tag = {t1, t2}
  Data = {zero, d1}
  ZERO = zero
  NoData = nodata
  LATENCY = 2
SPECIFICATION LiveSpec
INVARIANTS TypeOK QueuesInStep OccupancyBounded
PROPERTIES ImplementsService EveryCommandServed
