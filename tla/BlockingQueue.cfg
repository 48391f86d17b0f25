SPECIFICATION FairSpec
CONSTANTS
  Producers = {p1, p2, p3}
  Consumers = {c1, c2}
  Items = {x1, x2, x3, x4}
  Capacity = 2
  NoItem = NoItem
INVARIANT QueueInv
PROPERTIES ImplementsExecutor ItemsTaken
