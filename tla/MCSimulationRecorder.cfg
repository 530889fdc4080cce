SPECIFICATION Spec
CONSTANTS
  Calls = {c1, c2, c3}
  MaxBlock = 2
  MaxReplacements = 1
SYMMETRY CallSymmetry
CHECK_DEADLOCK FALSE
INVARIANTS
  TypeOK
  ProvenMeansOneBlock
  HonestRunIsProven
PROPERTIES
  EvidenceIsFinal
