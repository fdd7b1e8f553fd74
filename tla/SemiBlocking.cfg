\* Three puts race with four gets; a node is allocated again as soon as it is freed.
SPECIFICATION FairSpec
CONSTANTS
  Putters = {p1, p2, p3}
  Getters = {g1, g2}
  PutLimit = 1
  GetLimit = 2
  Node = {n1, n2, n3}
  Null = Null
  Nobody = Nobody
INVARIANTS
  EachNodeOnce
PROPERTIES
  Termination
  ImplementsFifo
