SPECIFICATION Spec
CONSTANTS
  Wireguards = {w1, w2}
  Hook = Hook
SYMMETRY Symmetry
INVARIANTS
  TypeOK
  MarksComplete
  MarksBounded
  MarksExact
