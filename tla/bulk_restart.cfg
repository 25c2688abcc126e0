\* A transfer that is stopped and restarted is not continued: the application
\* finds its closed socket and waits for a connection that never comes.
SPECIFICATION FairSpec
CONSTANTS
  SendSizes = {3}
  BufSize = 5
  Limits = {7}
  MaxTotal = 10
  MaxChanges = 0
PROPERTIES
  RestartContinues
CHECK_DEADLOCK FALSE
