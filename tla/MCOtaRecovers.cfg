SPECIFICATION FairSpec
CONSTANTS
  Versions = {1, 2}
  Firmware <- MCFirmware
  FirmVersion = 1
  GoodResponses <- MCGoodResponses
  BadResponses <- MCRefused
  TokenBody <- MCTokenBody
  Schemes = {FALSE}
  Links = {"closing"}
  TokenBufLen = 13
  OtaBufLen = 4
  Urls <- MCOneUrl
  Devices <- MCOneDevice
  FormLen = 120
  RequestLen = 128
  MaxNumber = 20
  MaxFaults = 2
CHECK_DEADLOCK FALSE
PROPERTIES
  OtaSucceeds
