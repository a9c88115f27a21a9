SPECIFICATION FairSpec
CONSTANTS
  t1 = t1
  t2 = t2
  t3 = t3
  t4 = t4
  Task = {t1, t2, t3, t4}
  QueueMax = 3
  OfferMax = 6
INVARIANTS
  TypeOK
  SingleFlight
  NoStranded
PROPERTIES
  Paced
  ImplementsFifo
