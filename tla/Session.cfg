SPECIFICATION Spec
CONSTANTS
  Numbers <- NumberWords
  Cuts <- WordCuts
  MAX_COMMAND_LEN = 39
  MAX_COMMAND_ARGS = 10
  dimensions <- Screen
  swipe_padding <- Padding
  Numerals <- SomeNumbers
  Second = 10
  Users <- Ids
  Shells = {"/system/bin/sh"}
  Requests <- AllRequests
  SuCalls <- AllSuCalls
  Documents <- AllDocuments
  Soups <- AllSoups
  MaxRequests = 2
  MaxCrashes = 1
  MaxByHand = 1
INVARIANTS
  SessionInv
  AsWritten
  NothingInvented
  PlayedAsAsked
  LeftBehind
PROPERTIES
  Advances
