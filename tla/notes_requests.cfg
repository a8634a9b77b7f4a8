SPECIFICATION Spec
CONSTANTS
  Requests = {r1, r2, r3, r4, r5}
  NoNote = NoNote
  Unset = Unset
  MaxFaults = 1
SYMMETRY Symmetry
CHECK_DEADLOCK FALSE
INVARIANTS
  TypeOK
  UpdatesLostOnlyToRivals
  RevivedOnlyByRivals
