SPECIFICATION Spec
CONSTANTS
  c1 = c1
  a1 = a1
  k1 = k1
  t1 = t1
  t2 = t2
  Backends = {"epoll", "poll", "kqueue", "macpoll"}
  Connects = {c1}
  Accepts = {a1}
  Conns = {k1}
  Watchers = {a1, c1, k1, t1, t2}
  Fds = {1, 2}
  NoFd = NoFd
  Worker = Worker
  MaxDepth = 2
  MaxStarts = 2
  ReadBudget = 1
  AcceptBudget = 1
  RestartClosed = TRUE
  MaxRx = 1
  Timers = {t1, t2}
  Programs = {{c1, k1}, {t1, t2}, {a1, t1}, {}}
  MaxTicks = 2
  Numbers <- MCNumbers
  Dotted = {"1.2.3.4"}
  Hex = {"fe80::1"}
  Mapped = {"::ffff"}
  None = None
  MaxEdits = 1
  MaxOps = 2
INVARIANTS
  RegistrationExact
  SocketOwnedOnce
  OncePerExpiration
  ReadsWhatIsWritten
PROPERTIES
  NoCallAfterTheLast
