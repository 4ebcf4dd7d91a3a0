\* A program with the listeners of src/startAdv.js has a second client after the first is gone.
SPECIFICATION Spec
CONSTANTS
  MaxListens = 2
  MaxQueue = 1
  Programs <- ExampleOnly
INVARIANT OneListenerAfterReconnect
CHECK_DEADLOCK FALSE
