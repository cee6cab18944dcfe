SPECIFICATION Spec
INVARIANT AgcUnloadedLast
CHECK_DEADLOCK FALSE
