\* Services are built of characteristics.
SPECIFICATION Spec
CONSTANTS
  Uuids = {"AA00", "AA01"}
  Values = {"falsy", "v0.01", "other"}
  Garbage = {0, 3}
INVARIANT ServicesAreBuilt
CHECK_DEADLOCK FALSE
