---------------------------- MODULE MCEventLoop ----------------------------
EXTENDS EventLoop

CONSTANTS p1, t1, t2, s1, s2

\* A backend of each kind, with two tasks, a task beside a source, or two sources.
MCBackends == {"MACOS_KQUEUE", "WINDOWS_IOCP", "WINDOWS_WIN32", "MACOS_COCOA"}
Program(b, ts, ss) == [backend |-> b, tasks |-> ts, sources |-> ss]
MCPrograms ==
  UNION {{Program(b, {t1, t2}, {}), Program(b, {t1}, {s1}), Program(b, {}, {s1, s2})} : b \in MCBackends}
=============================================================================
