CONSTANTS
  Source = {s1, s2}
  Blob = {b1, b2}
  Pack = {p1, p2, p3}
  Reader = {r1}
  None = None
  MaxFaults = 1
  MaxRemovals = 1
SYMMETRY Symmetry
SPECIFICATION AttachmentsSafety
INVARIANTS Readable NothingLost ReadsFindIt
