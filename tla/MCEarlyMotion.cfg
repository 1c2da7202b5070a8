CONSTANTS
  KeyMap <- MCKeyMap
  OtherKeys <- MCOtherKeys
  Packets <- MCPackets
  FirstConfigs <- MCFirstConfigs
  KeysAhead = 2
  PacketsAhead = 1
  AnswersAtOnce = TRUE
  QuietStart = FALSE
SPECIFICATION Spec
INVARIANT PacketsAligned
