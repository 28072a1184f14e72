CONSTANTS
  SLOT_BYTES = 8
  CrcType = 2
  UlMessages <- MCUlMessages
  DlMessages <- MCDlMessages
  BroadcastMessages <- MCBroadcastMessages
  FragmentByte = 224
  RandomBytes <- MCRandomBytes
  MaxCtrl = 4
SPECIFICATION ChannelSpec
INVARIANTS
  ChannelTypeOK
  ParsedIsAdded
PROPERTIES
  NoMessageLost
  ParseEnds
CHECK_DEADLOCK FALSE
