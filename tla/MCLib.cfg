CONSTANTS
  IntBits = 8
  ShortBits = 6
  CharBits = 4
  Character <- MCCharacters
  Calls <- MCCalls
  Memories <- MCMemories
  WordSize = 2
  Chars = {0, 1, 257, 200}
SPECIFICATION LibSpec
INVARIANTS StaysInBuffer FormatterAsC StringsAsC
CHECK_DEADLOCK FALSE
