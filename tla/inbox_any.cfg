SPECIFICATION Spec
CONSTANTS
  p1 = p1
  p2 = p2
  NoMsg = NoMsg
  Msgs <- MCAny
  Foreign <- MCForeign
  Procs <- MCProcs
  MaxResets = 1
  MaxUnacked = 1
SYMMETRY ProcSymmetry
INVARIANTS
  EffectsOnce
  AppliedHasEffect
  
PROPERTIES
  ImplementsContract
