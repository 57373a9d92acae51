SPECIFICATION FairSpec
CONSTANTS
  Versions = {1, 2}
  Firmware <- MCFirmware
  FirmVersion = 1
  GoodResponses <- MCGoodResponses
  BadResponses <- MCBadResponses
  TokenBody <- MCTokenBody
  Schemes = {FALSE, TRUE}
  Links = {"closing", "up"}
  TokenBufLen = 13
  OtaBufLen = 4
  Urls <- MCUrls
  Devices <- MCDevices
  FormLen = 120
  RequestLen = 128
  MaxNumber = 20
  MaxFaults = 2
INVARIANTS
  TypeOK
  
  UndisturbedSucceeds
  UpgradedIsFirmware
  RequestIsRight
  ConnectionsReleased
CHECK_DEADLOCK FALSE
PROPERTIES
  UpgradeEnds
