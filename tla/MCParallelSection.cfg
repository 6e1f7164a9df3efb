CONSTANTS
  multi = multi
  single = single
  Leader = {multi, single}
  SingleLoop = {single}
  Worker = {w1, w2}
  Slot = {0}
  Scheduled = {w1}
  Dop <- ThreeThenTwo
  TAG_SPACE = 3
  FIRST_TAG = 2
  Nobody = nobody
SPECIFICATION LiveSpec
INVARIANTS SectionOutlivesWorkers LoopOutlivesReaders IndicesDistinct
PROPERTIES RevokesOnlyItsOwn SectionEnds
