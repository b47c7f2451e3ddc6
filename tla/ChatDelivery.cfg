SPECIFICATION FairSpec
CONSTANTS
  alice = alice
  bob = bob
  carol = carol
  a1 = a1
  b1 = b1
  b2 = b2
  w1 = w1
  w2 = w2
  Users = {alice, bob, carol}
  Workers = {w1, w2}
  Conns = {a1, b1, b2}
  UserOf <- TheUserOf
  WorkerOf <- TheWorkerOf
  RestSlots = {s1}
  MaxChats = 1
  MaxMessages = 2
  Writers = {a1, b1}
  MayFail = TRUE
INVARIANTS
  TypeOK
  OwedIsReceived
  SenderOrder
PROPERTIES
  OwedArrives
  ImplementsBroadcast
CHECK_DEADLOCK FALSE
