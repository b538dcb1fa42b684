SPECIFICATION Spec
CONSTANT LirFunctions <- AggregateLoops
INVARIANT ParametersTakeArguments
CHECK_DEADLOCK FALSE
