SPECIFICATION Spec
CONSTANTS
  io1 = io1  w1 = w1  w2 = w2
  i1 = i1  i2 = i2  i3 = i3
  Producers <- OneProducer
  Workers <- TwoWorkers
  Stopper = Stopper
  Items <- ThreeItems
  NoItem = NoItem
  Room = 2
INVARIANTS
  NothingLeftBehind
