\* Two nodes contend for the lease, under force-breaks and node deletions.
CONSTANTS
  n1 = n1  n2 = n2  h1 = h1  h2 = h2  l1 = l1
  Nodes = {n1, n2}
  NoNode = NoNode
  Handlers = {h1, h2}
  Loops = {}
  NodeOf <- Placement
  LeaseTTL = 2
  RenewLead = 1
  ExpiryGrace = 1
  MaxTime = 2
  MaxRequests = 2
  MaxBreaks = 1
SPECIFICATION Spec
INVARIANTS OneWriterPerTerm StaleWriterSilenced WatermarksWithinJournal
PROPERTIES ImplementsSingleWriter TermsAdvance LiveLeaseNotStolen TransferCoversJournal
