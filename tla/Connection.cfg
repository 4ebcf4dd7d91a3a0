\* Two connections of one Peripheral, two messages, each a command or a request.
SPECIFICATION Spec
CONSTANTS
  Conn = {k1, k2}
  Message = {m1, m2}
  NULL = NULL
INVARIANT TypeOK
INVARIANT NoStaleData
INVARIANT OneWatcher
INVARIANT RequestHasOneSlot
INVARIANT DescriptorsAccountedFor
INVARIANT WriteHasOneQueue
PROPERTY WritesAnswered
PROPERTY RequestsAnswered
PROPERTY ConnectsAnswered
PROPERTY CloseReported
PROPERTY SessionsShareCallbacks
CHECK_DEADLOCK FALSE
