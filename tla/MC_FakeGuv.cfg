SPECIFICATION Spec
CONSTANTS
  Inputs = 2
  Latches = 2
  MaxCount = 1
  Asked <- LogAndInject
INVARIANTS
  TypeOK
  HandedOver
  LogFramed
  LogCountExact
  InputOnce
  InjectOnce
CHECK_DEADLOCK FALSE
