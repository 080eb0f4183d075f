------------------------------- MODULE Console -------------------------------
(***************************************************************************)
(* The text screen (WriteVGA and ClrSrc of kernel/printk.c) and the shell  *)
(* that edits its command line on it (main and ReadCmd of usr/shell.c).    *)
(*                                                                         *)
(* A cell of the VGA buffer holds a character or BLANK; colours are left   *)
(* out.  Module Format makes the text that WriteVGA gets; it writes one    *)
(* character per step, and nothing else happens until it is done.          *)
(***************************************************************************)
EXTENDS Format

CONSTANTS
  Rows,         \* ROW_LENGTH, 25 in the code
  Columns,      \* COLUMN_LENGTH, 80 in the code
  Chars,        \* printable characters on the keyboard
  Prompt,       \* "shell# "
  BufferSize,   \* size of the shell's buffer, 80 in the code
  Files,        \* the names open() finds
  BuiltIns,     \* the commands ParseCmd knows, "mem" in the code
  Messages,     \* what programs print
  Leftovers     \* what printk may find where nobody passed an argument

BLANK     == "blank"
NEWLINE   == "newline"
BACKSPACE == "backspace"
Keys      == Chars \cup {NEWLINE, BACKSPACE}
Glyphs    == Chars \cup {digits_map[i] : i \in 1 .. 16} \cup {"x", "-"}

ASSUME ConsoleAssumption ==
  /\ Rows \in Nat \ {0, 1} /\ Columns \in Nat \ {0} /\ BufferSize \in Nat \ {0}
  /\ {BLANK, NEWLINE, BACKSPACE, FAULT} \cap Chars = {}
  /\ Prompt \in Seq(Chars \ {"%"}) /\ Len(Prompt) > 0
  /\ Files \subseteq Seq(Chars) /\ BuiltIns \subseteq Seq(Chars)
  \* a whole command line fits on the screen, as 7 + 80 cells of 2000 do
  /\ Len(Prompt) + BufferSize <= (Rows - 1) * Columns
  /\ \A m \in Messages : WellFormed(m, Keys)
  /\ Leftovers # {}
  /\ Leftovers \subseteq [word : Words, text : Seq(Keys \cup {FAULT})]

VARIABLES
  cell, column, row,     \* screen_buffer
  pc,                    \* where the shell is: "prompt", "edit", "parse", "run",
                         \* or "panic" of the kernel
  text,                  \* what WriteVGA has still to write
  said,                  \* history: the message it belongs to, until the next one
  buffer, buffer_size,   \* the shell's command line
  typed                  \* the line as the user typed and edited it

screenVars == <<cell, column, row>>
lineVars   == <<buffer, buffer_size, typed>>
textVars   == <<text, said>>
consoleVars == <<screenVars, pc, textVars, lineVars>>

Cells == 0 .. Rows * Columns - 1

\* The byte after the buffer is the stack's: anything.
ConsoleInit ==
  /\ cell = [i \in Cells |-> BLANK] /\ column = 0 /\ row = 0
  /\ pc = "prompt" /\ text = <<>> /\ said = <<>>
  /\ \E c \in Chars \cup {BLANK} :
       buffer = [i \in 0 .. BufferSize |-> IF i = BufferSize THEN c ELSE BLANK]
  /\ buffer_size = 0 /\ typed = <<>>

-----------------------------------------------------------------------------
(* WriteVGA, one character.                                                *)

MutScrollKeepsLastLine(f) ==
  [i \in Cells |-> IF i + Columns \in Cells THEN f[i + Columns] ELSE f[i]]

ScrollUp(f) ==
  [i \in Cells |-> IF i + Columns \in Cells THEN f[i + Columns] ELSE BLANK]

\* The cells and the row after the scrolling that precedes every character.
Scrolled    == IF row >= Rows THEN ScrollUp(cell) ELSE cell
MutScrolledRow == row
ScrolledRow == IF row >= Rows THEN row - 1 ELSE row

WriteNewline == /\ cell' = Scrolled /\ row' = ScrolledRow + 1 /\ column' = 0

\* Back over the start of a line to the end of the one above.
MutEraseStaysInRow ==
  LET c == IF column = 0 THEN Columns - 1 ELSE column - 1
  IN  IF column = 0 /\ ScrolledRow = 0
      THEN cell' = Scrolled /\ row' = ScrolledRow /\ column' = column
      ELSE /\ row' = ScrolledRow /\ column' = c
           /\ cell' = [Scrolled EXCEPT ![c + ScrolledRow * Columns] = BLANK]

WriteBackspace ==
  LET r == IF column = 0 THEN ScrolledRow - 1 ELSE ScrolledRow
      c == IF column = 0 THEN Columns - 1 ELSE column - 1
  IN  IF column = 0 /\ ScrolledRow = 0
      THEN cell' = Scrolled /\ row' = ScrolledRow /\ column' = column
      ELSE /\ row' = r /\ column' = c
           /\ cell' = [Scrolled EXCEPT ![c + r * Columns] = BLANK]

WritePrintable(c) ==
  /\ cell' = [Scrolled EXCEPT ![column + ScrolledRow * Columns] = c]
  /\ column' = IF column + 1 >= Columns THEN 0 ELSE column + 1
  /\ row' = IF column + 1 >= Columns THEN ScrolledRow + 1 ELSE ScrolledRow

WriteCharacter(c) == \/ c = NEWLINE /\ WriteNewline
                     \/ c = BACKSPACE /\ WriteBackspace
                     \/ c \in Glyphs /\ WritePrintable(c)

WriteVGA ==
  /\ text # <<>>
  /\ WriteCharacter(Head(text))
  /\ text' = Tail(text)
  /\ UNCHANGED <<pc, said, lineVars>>

ClrSrc == /\ cell' = [i \in Cells |-> BLANK] /\ column' = 0 /\ row' = 0

-----------------------------------------------------------------------------
(* The shell, when the kernel has written its last message.                *)

Shell(at) == pc = at /\ text = <<>>

Faults(shown) == \E i \in 1 .. Len(shown) : shown[i] = FAULT

\* A call of printf, after which the shell is at next.  printf writes its text with
\* write(), and printk may find in it something to ask for: then it prints what is
\* left in the registers or, if that is taken for the address of a string, the
\* kernel may end in an exception, with nothing shown.
PrintMessage(message, next) ==
  LET written == printf(FormatOf(message), ArgsOf(message))
  IN  /\ \E registers \in [1 .. Len(written) \div 2 -> Leftovers] :
           LET shown == SysWrite(written, registers)
           IN  \/ Faults(shown) /\ text' = <<>> /\ pc' = "panic"
               \/ ~ Faults(shown) /\ text' = shown /\ pc' = next
      /\ said' = message
      /\ UNCHANGED screenVars

PrintKey(k, next) == PrintMessage(<<String(<<k>>)>>, next)

\* main: the prompt, then ReadCmd starts with an empty line.
PrintPrompt ==
  /\ Shell("prompt")
  /\ PrintMessage(<<Literal(Prompt)>>, "edit")
  /\ buffer_size' = 0 /\ typed' = <<>>
  /\ UNCHANGED buffer

\* ReadCmd: the end of the line, or a key more than the buffer holds; the key
\* is shown, not stored.
EndOfLine(k) ==
  /\ Shell("edit")
  /\ k = NEWLINE \/ buffer_size >= BufferSize
  /\ PrintKey(k, "parse")
  /\ UNCHANGED lineVars

\* ReadCmd: the prompt cannot be erased.
EraseKey ==
  /\ Shell("edit") /\ buffer_size \in 1 .. BufferSize - 1
  /\ PrintKey(BACKSPACE, "edit")
  /\ buffer_size' = buffer_size - 1
  /\ typed' = SubSeq(typed, 1, Len(typed) - 1)
  /\ UNCHANGED buffer

StoreKey(k) ==
  /\ Shell("edit") /\ buffer_size < BufferSize /\ k \in Chars
  /\ PrintKey(k, "edit")
  /\ buffer' = [buffer EXCEPT ![buffer_size] = k]
  /\ buffer_size' = buffer_size + 1
  /\ typed' = Append(typed, k)

\* The C string that starts at b: up to the first zero byte.
CString(b) ==
  LET zeros == {i \in 0 .. BufferSize : b[i] = BLANK}
      n     == IF zeros = {} THEN BufferSize + 1
               ELSE CHOOSE i \in zeros : \A j \in zeros : i <= j
  IN  [i \in 1 .. n |-> b[i - 1]]

\* ParseCmd compares as many characters as were typed.
IsBuiltIn == [i \in 1 .. buffer_size |-> buffer[i - 1]] \in BuiltIns

\* main: nothing typed; a command of its own; a file that open() finds, to cat
\* or to run; or "not found", which ends the string for the message.
EmptyLine ==
  /\ Shell("parse") /\ buffer_size = 0
  /\ pc' = "prompt" /\ UNCHANGED <<screenVars, textVars, lineVars>>

ExecuteCmd ==
  /\ Shell("parse") /\ IsBuiltIn
  /\ pc' = "run" /\ UNCHANGED <<screenVars, textVars, lineVars>>

OpenFound ==
  /\ Shell("parse") /\ buffer_size > 0 /\ ~ IsBuiltIn /\ CString(buffer) \in Files
  /\ pc' = "run" /\ UNCHANGED <<screenVars, textVars, lineVars>>

OpenNotFound ==
  /\ Shell("parse") /\ buffer_size > 0 /\ ~ IsBuiltIn /\ CString(buffer) \notin Files
  /\ buffer' = [buffer EXCEPT ![buffer_size] = BLANK]
  /\ PrintMessage(<<String(CString(buffer')), Literal(<<NEWLINE>>)>>, "prompt")
  /\ UNCHANGED <<buffer_size, typed>>

\* A program, with whatever it prints.
Output(message) == Shell("run") /\ PrintMessage(message, "run") /\ UNCHANGED lineVars

ClearScreen == Shell("run") /\ ClrSrc /\ said' = <<>> /\ UNCHANGED <<pc, text, lineVars>>

CommandDone == /\ Shell("run") /\ pc' = "prompt"
               /\ UNCHANGED <<screenVars, textVars, lineVars>>

\* panic(); its own message is left out.
Halted == pc = "panic" /\ UNCHANGED consoleVars

ConsoleNext ==
  \/ WriteVGA
  \/ PrintPrompt
  \/ EraseKey \/ \E k \in Keys : EndOfLine(k) \/ StoreKey(k)
  \/ EmptyLine \/ ExecuteCmd \/ OpenFound \/ OpenNotFound
  \/ ClearScreen \/ CommandDone
  \/ \E m \in Messages : Output(m)
  \/ Halted

ConsoleSpec == ConsoleInit /\ [][ConsoleNext]_consoleVars

-----------------------------------------------------------------------------
(* Properties.                                                             *)

\* The cursor is a cell of the screen, or the start of the row below it that
\* the next character scrolls into view; WriteVGA never writes outside the VGA
\* buffer.
ConsoleTypeOK ==
  /\ cell \in [Cells -> Glyphs \cup {BLANK}]
  /\ column \in 0 .. Columns - 1 /\ row \in 0 .. Rows
  /\ row = Rows => column = 0
  /\ pc \in {"prompt", "edit", "parse", "run", "panic"}
  /\ text \in Seq(Glyphs \cup Keys)
  /\ buffer \in [0 .. BufferSize -> Chars \cup {BLANK}]
  /\ buffer_size \in 0 .. BufferSize
  /\ typed \in Seq(Chars)

Cursor == column + row * Columns

\* There is nothing on the screen at or after the cursor: scrolling brings in
\* an empty line and a backspace leaves nothing behind, so that text is never
\* printed over older text.
NothingAfterCursor == \A i \in Cells : i >= Cursor => cell[i] = BLANK

\* What the user sees is what the shell has: the prompt is on the screen, and
\* after it, up to the cursor, the line in the shell's buffer, over line breaks,
\* scrolling and every sequence of erased keys.
EchoMatchesBuffer ==
  Shell("edit") =>
    /\ \A i \in 0 .. buffer_size - 1 : cell[Cursor - buffer_size + i] = buffer[i]
    /\ \A i \in 1 .. Len(Prompt) :
         cell[Cursor - buffer_size - Len(Prompt) + i - 1] = Prompt[i]

\* What has been written of a message is in the cells before the cursor, and the
\* rest is still to come.
ShownAsMeant ==
  LET meant   == Meant(said)
      written == Len(meant) - Len(text)
  IN  /\ pc # "panic"
      /\ written >= 0 /\ text = SubSeq(meant, written + 1, Len(meant))
      /\ (\A i \in 1 .. Len(meant) : meant[i] \in Glyphs) =>
           \A i \in 1 .. written :
             Cursor >= i => cell[Cursor - i] = meant[written + 1 - i]

\* A call of printf shows what its arguments say, over line breaks and scrolling:
\* numbers as their numerals without leading zeros, down to the smallest, and
\* strings as they are, also with a % in them, although the text is a format for
\* printk once more (printk.c:129: "we copy the character `%` to the buffer").  It
\* holds for messages whose text has no % with a specifier behind it (TextIsNoFormat
\* is about those) and no negative int; negative numbers are passed as 64 bits.
ShowsWhatIsMeant ==
  AsksForNothing(Meant(said)) /\ NoNegativeInt(said) => ShownAsMeant

\* Whatever is typed or printed is shown, never taken for a format: the shell gives
\* the name it did not find, cat the contents of a file, to "%s" of printf, of which
\* stdio.c:17 says "This helper function copy `str` string to the `buffer`".
TextIsNoFormat == NoNegativeInt(said) => ShownAsMeant

\* The command that open() and exec() get is the line the user typed (shell.c:53
\* asks them to "Check file is exist"), on lines that do not fill the buffer.
CommandIsTyped ==
  pc = "parse" /\ buffer_size \in 1 .. BufferSize - 1 /\ ~ IsBuiltIn
    => CString(buffer) = typed

=============================================================================
