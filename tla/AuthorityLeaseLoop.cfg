\* A handler and the lease loop of one node.
CONSTANTS
  n1 = n1  n2 = n2  h1 = h1  h2 = h2  l1 = l1
  Nodes = {n1, n2}
  NoNode = NoNode
  Handlers = {h1}
  Loops = {l1}
  NodeOf <- Placement
  LeaseTTL = 2
  RenewLead = 1
  ExpiryGrace = 1
  MaxTime = 4
  MaxRequests = 0
  MaxBreaks = 1
SPECIFICATION LoopFairSpec
PROPERTIES MaintenanceExpiresDeadLeases LapsedLeaseRetired OrphanAdopted
