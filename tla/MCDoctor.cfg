SPECIFICATION Spec
CONSTANTS
  Setups <- MCSetups
  Majors = {13, 14, 16, 17, 18, 19}
  MaxEvents = 1
  Doctors = {d1, d2}
SYMMETRY DoctorSymmetry
CHECK_DEADLOCK FALSE
INVARIANTS
  TLSIsHonoured
  RightClient
  
  
  RoutineVerdictIsSafe
  LeftoverIsReported
