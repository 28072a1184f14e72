CONSTANTS
  MAX_USER = 16
  NUM_MCS_SCHEMES = 2
  MAX_RESPONSE_TIME = 8
  MAC_CTRL_MSG_BUF_SIZE = 4
  MaxDlGap = 1
  MaxUlGap = 2
  MaxAssociations = 2
SPECIFICATION McsSpec
INVARIANTS
  McsTypeOK
  FollowsClient
  AgreeUnlessLost
PROPERTIES
  ChangeEnds
