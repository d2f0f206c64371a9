CONSTANTS
  Source = {s1}
  Blob = {b1, b2}
  Pack = {p1, p2}
  Reader = {}
  None = None
  MaxFaults = 1
  MaxRemovals = 1
SPECIFICATION AttachmentsSpec
PROPERTIES GarbageGoes
