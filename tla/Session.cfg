\* Two daemons besides the command and two ioctls each: an answered process
\* can have its second ioctl overtake the first of another.  Any of them may
\* end the master with a read().
CONSTANTS
  Proc = {sh, d1, d2}
  Child = sh
  MaxIoctl = 2
  ClientReads = TRUE
SYMMETRY Daemons
SPECIFICATION SafeSpec
INVARIANT MasterOutlivesSession
INVARIANT SigchldMeansOutlived
INVARIANT OnExitMeansOver
INVARIANT SuccessIsServed
INVARIANT ResponsesInOrder
PROPERTY AnswersAreFinal
PROPERTY KeepsContract
CHECK_DEADLOCK FALSE
