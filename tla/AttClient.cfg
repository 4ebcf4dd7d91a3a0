\* Two calls to a device that keeps to the protocol; the link may break.
SPECIFICATION Spec
CONSTANTS
  MaxHandle = 3
  PageMax = 2
  Present <- MCPresent
  CallId = {c1, c2}
  Asks <- MCAsks
  Listener = {}
  NULL = NULL
  PushKinds = {}
  MaxPushes = 0
INVARIANT TypeOK
INVARIANT OneExchangeOnWire
INVARIANT ResultIsComplete
INVARIANT DeathIsExplained
PROPERTY EventuallyAnswered
PROPERTY KeepsPromise
CHECK_DEADLOCK FALSE
