SPECIFICATION FairSpec
CONSTANTS
  hello = hello
  Meant <- Meanings
  Message <- Samples
  MaxMessages = 2
  MayBreak <- BothEnds
  MaxInt = 2
  BoardSize = 2
  Word = {hello}
INVARIANTS InOrder NothingLost ProxyInv Understood
PROPERTIES ProxyIsChannels CloseIsForwarded ExecuteReturns
CHECK_DEADLOCK FALSE
