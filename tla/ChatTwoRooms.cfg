SPECIFICATION Spec
CONSTANTS
  alice = alice
  bob = bob
  carol = carol
  a1 = a1
  b1 = b1
  b2 = b2
  w1 = w1
  w2 = w2
  Users = {alice, bob}
  Workers = {w1, w2}
  Conns = {a1}
  UserOf <- TheUserOf
  WorkerOf <- TheWorkerOf
  RestSlots = {s1, s2}
  MaxChats = 2
  MaxMessages = 1
  Writers = {a1}
  MayFail = FALSE
INVARIANTS
  OneChatPerPair
CHECK_DEADLOCK FALSE
