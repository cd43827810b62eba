CONSTANTS
  Calls <- MCCalls
  Memory <- MCMemory
  MemEnd = 250
  rodata_bpf_start = 40
  BASE = 150
  IntMod = 4096
  BufSize = 6
  Empty = Empty
SPECIFICATION Spec
INVARIANTS
  TypeOK
  PrintsFormat
  StaysInFormat
  RoomInBuffer
PROPERTY
  Ends
