\* The row that neither EnsureLocal nor force-break accepts.
CONSTANTS
  n1 = n1  n2 = n2  h1 = h1  h2 = h2  l1 = l1
  Nodes = {n1, n2}
  NoNode = NoNode
  Handlers = {h1}
  Loops = {l1}
  NodeOf <- Placement
  LeaseTTL = 2
  RenewLead = 1
  ExpiryGrace = 1
  MaxTime = 4
  MaxRequests = 1
  MaxBreaks = 2
SPECIFICATION Spec
INVARIANT ForceBreakRecovers
