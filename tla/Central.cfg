\* A careful program, and the listeners of src/startAdv.js; four listens.
SPECIFICATION Spec
CONSTANTS
  MaxListens = 4
  MaxQueue = 2
  Programs <- BothPrograms
INVARIANT TypeOK
INVARIANT WatchedIsOpen
INVARIANT ReaderIsCurrent
INVARIANT NeverDeaf
INVARIANT DiesOfExceptionsOnly
PROPERTY ServesAgain
PROPERTY ServesOneByOne
CHECK_DEADLOCK FALSE
