\* Every option, three at a time: room for two entries in each list.
CONSTANTS
  MAX_FILTERS_NUM = 2
  TASK_COMM_LEN = 4
  MIB = 8
  LONG_SPAN = 64
  INT_SPAN = 16
  NoDigits = NoDigits
  Numbers = {NoDigits, 3, 9, 40}
  CommLengths = {2, 7}
  Used <- AllOptions
  MaxArgs = 3
  OVERRUN = 1
SPECIFICATION Spec
CHECK_DEADLOCK FALSE
INVARIANT
  ConfigAsAsked
  FiltersAsAsked
  ProgramsAsAsked
