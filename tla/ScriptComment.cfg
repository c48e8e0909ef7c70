SPECIFICATION Spec
CONSTANTS
  Numbers <- NumberWords
  Cuts <- WordCuts
  MAX_COMMAND_LEN = 39
  MAX_COMMAND_ARGS = 10
  dimensions <- Screen
  swipe_padding <- Padding
  Numerals <- SomeNumbers
  Second = 10
  Users <- Ids
  Shells = {"/system/bin/sh"}
  Requests = {}
  SuCalls = {}
  Documents <- EmptyComments
  Soups = {}
  MaxRequests = 0
  MaxCrashes = 0
  MaxByHand = 1
INVARIANTS
  AsWritten
