CONSTANTS
  NumClients = 2
  MAX_USER = 4
  RachIds = {0, 1}
  TMR_USER_INACTIVE = 1
  MAC_CTRL_MSG_BUF_SIZE = 1
  MaxSessions = 2
  MaxTries = 1
SPECIFICATION Spec
INVARIANTS
  SharedOnlyByTwins
  OneUserPerAttempt
PROPERTIES
  RemovedIsTold
  StaleNotices
