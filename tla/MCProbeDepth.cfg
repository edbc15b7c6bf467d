SPECIFICATION Spec
CONSTANT Positions <- AfterE4
CHECK_DEADLOCK FALSE
PROPERTY ProbeReturns
