SPECIFICATION StartSpec
CONSTANT StartMax = 2
INVARIANT StartReportsInit
CHECK_DEADLOCK FALSE
