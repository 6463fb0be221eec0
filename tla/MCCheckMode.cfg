CONSTANTS
  Top = 5
  Base = 2
  Half = 1
  Window = 3
  MaxInsns = 2
  LogMax = 4
  readable <- MCReadable
  writable <- MCWritable
  guest <- MCGuest
  Insns <- MCInsns
  Code <- MCCode
SPECIFICATION Spec
INVARIANT UndoExact
INVARIANT AgreeMeansEqual
INVARIANT NoFalseAlarm
PROPERTY Invisible
CHECK_DEADLOCK FALSE
