\* Only the registration of /dev/fuse fails.
SPECIFICATION Spec
CONSTANT
  MayFail = {"fuseReg"}
INVARIANT
  NothingLeft
