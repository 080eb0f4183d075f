SPECIFICATION ListSpec
CONSTANTS
  ready = ready
  wait = wait
  kill = kill
  p1 = p1
  p2 = p2
  p3 = p3
  p4 = p4
  Heads <- MCHeads
  Items <- MCItems
  NULL = NULL
INVARIANTS
  TailIsLast
PROPERTIES
  IsQueues
