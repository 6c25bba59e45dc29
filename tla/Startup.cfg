\* Every step may fail but "fuseReg", which StartupMount is about.
SPECIFICATION Spec
CONSTANT
  MayFail = {"epoll", "socketReg", "sigfd", "sigfdReg", "root", "tmp", "chmod",
             "oldDev", "newDev", "nothing", "devDir", "cardFd",
             "card", "cardCuse", "timerfd", "cardCuseReg", "timerReg", "cardDevice", "tty",
             "ttyCuse", "ttyReg", "ttyDevice", "symlinks", "entries", "umountfs", "fuse", "mount",
             "malloc", "socketpair", "clone", "exec", "register"}
INVARIANTS
  StepsFindWhatTheyNeed
  CleanUpIsWhole
  FailureKeepsNothing
PROPERTIES
  SessionNewReturns
  UnneededMasterEnds
