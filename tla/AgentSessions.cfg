\* Two agents hand sessions over; the maintenance pass runs fairly.
CONSTANTS
  a1 = a1  a2 = a2  t1 = t1  s1 = s1  s2 = s2  x1 = x1  g1 = g1
  None = None
  Agents = {a1, a2}
  Tasks = {t1}
  Sessions = {s1, s2}
  Actions = {}
  Generations = {}
  Carriers = {t1}
  Sidecars = {t1}
  Removable = {}
  Resolutions = {}
  Grace = 0
SPECIFICATION FairSpec
PROPERTIES TakeoverInvited ReclaimSparesLiving SilentClaimFreed 
