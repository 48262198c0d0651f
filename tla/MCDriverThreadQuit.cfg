SPECIFICATION DriverFairSpec
PROPERTY QuitCompletes
CHECK_DEADLOCK FALSE
