CONSTANTS
  KeyMap <- MCKeyMap
  OtherKeys <- MCOtherKeys
  Packets <- MCPackets
  FirstConfigs <- MCFirstConfigs
  KeysAhead = 2
  PacketsAhead = 1
  AnswersAtOnce = TRUE
  QuietStart = TRUE
SPECIFICATION FairSpec
INVARIANTS
  TypeOK
  BothConnected
  PacketsAligned
PROPERTIES
  ReportsWhatWasTyped
  ReportsEveryMotion
  NoByteIsStuck
