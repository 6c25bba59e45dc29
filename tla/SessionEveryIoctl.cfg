\* Two processes are enough for two messages at once.
CONSTANTS
  Proc = {sh, d1}
  Child = sh
  MaxIoctl = 1
  ClientReads = FALSE
SPECIFICATION LiveSpec
PROPERTY EveryIoctlCallsBack
CHECK_DEADLOCK FALSE
