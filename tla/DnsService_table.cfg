SPECIFICATION Spec
CONSTANTS
  qq = qq  live = live  gone = gone
  Hosts = {qq, live, gone}
  Addresses <- AddressesOf
  Answers <- AnswersOf
  Reliable = {live}
  Width = 4
  Null = Null
CHECK_DEADLOCK FALSE
INVARIANTS IndexIsSafe
PROPERTIES UpdatesAreWhole StopReturns
