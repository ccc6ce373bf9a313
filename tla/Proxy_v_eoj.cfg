SPECIFICATION Spec
CONSTANTS
  BUFLEN = 2
  NLINES = 1
  MaxLoad = 10
  Addr = {a1,a2}
  NoAddr = NoAddr
  Names = {n1}
  NoName = NoName
  MaxGet = 0
  MaxCex = 0
  MaxUp = 1
  Arrivals <- Anyone
  Talkers = {}
  Chatters = {}
  Dests = {}
  ServersMayFail = FALSE
  ThreadsMayFail = FALSE
CHECK_DEADLOCK FALSE
INVARIANT EojOnlyWhenAllGone
