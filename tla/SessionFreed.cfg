\* One outstanding ioctl is enough.
CONSTANTS
  Proc = {sh, d1}
  Child = sh
  MaxIoctl = 1
  ClientReads = FALSE
SPECIFICATION LiveSpec
PROPERTY IoctlsReturn
CHECK_DEADLOCK FALSE
