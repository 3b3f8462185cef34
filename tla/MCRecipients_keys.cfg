CONSTANTS
  None = None
  Names = {dev, prod}
  Machines = {m1, m2, m3}
  Keys = {k1, k2, k3, k4}
CHECK_DEADLOCK FALSE
SYMMETRY MCSymmetry
SPECIFICATION Spec
INVARIANTS SyncedMeansSynced LostKeyIsSurvivable
