SPECIFICATION JitSpec
CONSTANTS
  Insns <- MCInsns
  MaxInsns = 3
  ByteBits = 2
  Nibble = 1
  RegBits = 4
  Wide <- MCWide
  Inline <- MCInline
  Before <- MCBefore
  Addrs <- MCAddrs
  Slots <- MCSlots
  slot_of <- MCSlotOf
  Stubs <- MCStubs
  Size = 3
  MaxCount = 3
  MaxWords = 2
INVARIANTS
  ReadersAgree
  ExitAgrees
  NeedExact
  EndKnown
  FlagsRight
  ConditionsOrder
  CarryPassed
  EntriesIntact
  EnteredRight
  ArenaBounded
CHECK_DEADLOCK FALSE
