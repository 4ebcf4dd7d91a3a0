\* Every combination of options, at either end, over either kind of kernel.
SPECIFICATION Spec
CONSTANTS
  Owners = {"Connection", "Central"}
  Options <- SetOpts
INVARIANT TypeOK
INVARIANT NoDescriptorLeft
INVARIANT LiveAsAsked
INVARIANT SizeIsKnown
CHECK_DEADLOCK FALSE
