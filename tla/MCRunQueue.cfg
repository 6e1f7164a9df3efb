CONSTANTS
  kSize = 4
  Owner = owner
  Others = {t1}
  Watchers = {o1}
  Work = {w1, w2, w3}
  NoWork = nowork
  NoThread = nothread
  MAX_OFFERS = 1
SPECIFICATION Spec
SYMMETRY Symmetry
INVARIANTS EmptyMissesNothing WindowExact
PROPERTIES ImplementsDeque
