SPECIFICATION Spec
CONSTANTS
  c1 = c1  d2 = d2  d3 = d3  c4 = c4  d5 = d5
  k1 = k1  k2 = k2  k3 = k3  k4 = k4
  p1 = p1  p2 = p2  p3 = p3  p4 = p4  p5 = p5
  Procs = {p1, p2}
  Entries = {c1, d2, d3, c4, d5}
  Keyrings = {k1, k2, k3, k4}
  Command <- AddWhileRm
  InitialFile <- MCInitialFile
  NoSecret = NoSecret  OldSecret = OldSecret  NoRef = NoRef  NoProc = NoProc
CHECK_DEADLOCK FALSE
INVARIANTS
  ListedIsUsable
