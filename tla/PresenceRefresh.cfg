SPECIFICATION Spec
CONSTANTS
  alice = alice
  bob = bob
  a1 = a1
  a2 = a2
  a3 = a3
  b1 = b1
  w1 = w1
  w2 = w2
  Users = {alice}
  Workers = {w1, w2}
  Conns = {a1, a2, a3}
  UserOf <- TheUserOf
  WorkerOf <- TheWorkerOf
  TTL = 2
  MayFail = FALSE
PROPERTIES
  RefreshKeepsOnline
