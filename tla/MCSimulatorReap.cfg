CONSTANTS
  Sessions = {s1, s2}
  Fds = {1, 2}
  HeartbeatTimeout = 2
  Delays = {}
  MaxWritePending = 2
  MaxReadAccum = 1
  Commands = {"set-drop-rate"}
  Faults = {"reset", "epoll_ctl"}
  TickGap = 1
  MaxTime = 4
  MaxPings = 1
SPECIFICATION Spec
SYMMETRY SessionSymmetry
INVARIANTS SilentClientReaped BacklogNoticed
