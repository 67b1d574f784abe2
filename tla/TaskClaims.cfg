\* Two agents, one session, a human action, a frontier and agent deletion.
CONSTANTS
  a1 = a1  a2 = a2  t1 = t1  s1 = s1  s2 = s2  x1 = x1  g1 = g1
  None = None
  Agents = {a1, a2}
  Tasks = {t1}
  Sessions = {s1}
  Actions = {x1}
  Generations = {g1}
  Carriers = {}
  Sidecars = {}
  Removable = {a1, a2}
  Resolutions = {"CANCELLED"}
  Grace = 0
SPECIFICATION Spec
SYMMETRY Symmetry
INVARIANTS RunningHasOwner SnapshotRestores TerminalAgreement
PROPERTIES TerminalStays SelectionsDie
