SPECIFICATION ConsoleSpec
CONSTANTS
  Rows = 3
  Columns = 2
  Chars <- MCChars
  Prompt <- MCPrompt
  BufferSize = 3
  Files <- MCFiles
  BuiltIns <- MCBuiltIns
  Messages <- MCMessages
  Leftovers <- MCLeftovers
  IntModulus = 2
  LongModulus = 20
INVARIANTS
  CommandIsTyped
