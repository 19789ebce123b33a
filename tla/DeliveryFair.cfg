SPECIFICATION FairSpec
CONSTANTS
  Client = {4, 5}
  Chan = {1}
  Kind = {"PRIVMSG", "MSG"}
  Capacity = 1
  InCapacity = 1
  MaxCommands = 2
  MaxTotal = 4
  Readers = {4, 5}
  SendsFirst = {5}
  Leaving = {5}
 
PROPERTIES OnUserReturns DeferredArrives
CHECK_DEADLOCK FALSE
