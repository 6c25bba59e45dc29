\* Two processes, either of which may read() from the card: messages run together
\* in either direction, an answered process asks again, the master goes at any time.
CONSTANTS
  Proc = {sh, d1}
  Child = sh
  MaxIoctl = 2
  ClientReads = TRUE
SPECIFICATION LiveSpec
PROPERTY MasterGoneIsNoticed
PROPERTY MasterEnds
PROPERTY IoctlsAnswered
PROPERTY ChildExitReported
PROPERTY OnExitCalled
CHECK_DEADLOCK FALSE
