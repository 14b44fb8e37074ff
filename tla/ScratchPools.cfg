SPECIFICATION Spec
CONSTANTS
  Pool = {each, whole}
  Whole = {whole}
  Buffer = {a, b}
  Vacant = Vacant
  Retain = 1
  Ceiling = 4
  Capacities = {1, 2}
  Lengths = {1, 2, 3}
  Arenas = {0}
  MaxMeter = 2
  MaxFrames = 3
SYMMETRY Symmetry
INVARIANTS
  TypeOK
  LedgerIsExact
  ParkedWithinPolicy
  MeterShortOnlyByRecycled
