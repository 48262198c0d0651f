SPECIFICATION DriverFairSpec
INVARIANT OneSignaller
PROPERTY MessagesPerformed
CHECK_DEADLOCK FALSE
