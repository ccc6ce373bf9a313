SPECIFICATION FairSpec
CONSTANTS
  BUFLEN = 2
  NLINES = 1
  MaxLoad = 10
  Addr = {a1,a2}
  NoAddr = NoAddr
  Names = {n1}
  NoName = NoName
  MaxGet = 1
  MaxCex = 1
  MaxUp = 1
  Arrivals <- TalkersBefore
  Talkers = {a1}
  Chatters = {a1}
  Dests = {a2}
  ServersMayFail = FALSE
  ThreadsMayFail = TRUE
CHECK_DEADLOCK FALSE
INVARIANTS TypeOK RefinementInv
PROPERTY ShutdownTerminates
