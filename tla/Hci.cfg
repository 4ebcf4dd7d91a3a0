\* Three calls, and an adapter that comes and goes.
SPECIFICATION Spec
CONSTANT MaxCalls = 3
INVARIANT TypeOK
INVARIANT OneDescriptor
INVARIANT SilenceIsSuccess
INVARIANT ParametersTaken
