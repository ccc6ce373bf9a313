SPECIFICATION Spec
CONSTANTS
  BUFLEN = 2
  NLINES = 1
  MaxLoad = 10
  Addr = {a1,a2}
  NoAddr = NoAddr
  Names = {n1}
  NoName = NoName
  MaxGet = 0
  MaxCex = 2
  MaxUp = 1
  Arrivals <- TalkersBefore
  Talkers = {a1}
  Chatters = {a1}
  Dests = {a2}
  ServersMayFail = TRUE
  ThreadsMayFail = FALSE
CHECK_DEADLOCK FALSE
PROPERTY ImplementsService
