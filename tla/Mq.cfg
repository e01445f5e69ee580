CONSTANTS
  Message = {a, b}
  Junk = Junk
  None = None
  DEFAULT_QUEUE_SIZE = 2
  MQ_OVERLOAD = 1
  MaxCap = 8
SPECIFICATION Spec
PROPERTIES ImplementsFifo ReportsGrow
