SPECIFICATION Spec
CONSTANTS
  c1 = c1
  a1 = a1
  k1 = k1
  Backends = {"iocp"}
  Connects = {c1}
  Accepts = {a1}
  Conns = {k1}
  Watchers = {c1, a1, k1}
  Overlappeds <- Ovs
  Fds = {1, 2}
  NoFd = NoFd
  Worker = Worker
  MaxDepth = 2
  MaxOps = 2
  MaxStarts = 2
  MaxRx = 1
  AcceptDepth = 1
  Apart = TRUE
INVARIANTS
  OverlappedsExact
  SocketOwnedOnce
