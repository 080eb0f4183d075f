---------------------------- MODULE ShellProofs -----------------------------
(***************************************************************************)
(* Theorems about the two models of the shell: Console, for any size of    *)
(* the screen and of the command line, any prompt, any well-formed message *)
(* and any width of words, and UserPrograms, for any number of processes.  *)
(***************************************************************************)
EXTENDS Console, UserPrograms, SchedulerProofs, SequenceTheorems

\* The screen: what WriteVGA relies on.
ScreenOK ==
  /\ DOMAIN cell = Cells /\ cell = [i \in Cells |-> cell[i]]
  /\ column \in 0 .. Columns - 1 /\ row \in 0 .. Rows
  /\ row = Rows => column = 0

\* Where the next character goes, after the scrolling that precedes it.
Place == column + ScrolledRow * Columns

-----------------------------------------------------------------------------
(* Cells and rows.                                                         *)

\* Rows follow one another, and a row of the screen is within it.
LEMMA RowStart ==
  ASSUME NEW r \in 0 .. Rows
  PROVE  /\ r * Columns \in Nat /\ Rows * Columns \in Nat
         /\ (r + 1) * Columns = r * Columns + Columns
         /\ (r - 1) * Columns = r * Columns - Columns
         /\ r < Rows => r * Columns + Columns <= Rows * Columns
         /\ r > 0 => r * Columns >= Columns
<1>1. Rows \in Nat /\ Columns \in Nat /\ Columns > 0 /\ Rows > 1 /\ r \in Nat
  BY ConsoleAssumption
<1>2. \A m, n \in Nat : /\ m * n \in Nat /\ (m + 1) * n = m * n + n
                        /\ (m - 1) * n = m * n - n
  OBVIOUS
<1>3. \A m, n, c \in Nat : m <= n => m * c <= n * c
  OBVIOUS
<1>4. r < Rows => (r + 1) * Columns <= Rows * Columns
  BY <1>1, <1>3
<1>5. r > 0 => 1 * Columns <= r * Columns
  BY <1>1, <1>3
<1> QED
  BY <1>1, <1>2, <1>4, <1>5

\* What the scrolling leaves: a screen with room for a character, the same text
\* before it and nothing after it.
LEMMA ScrollMakesRoom ==
  ASSUME ScreenOK, NothingAfterCursor
  PROVE  /\ ScrolledRow \in 0 .. Rows - 1
         /\ DOMAIN Scrolled = Cells /\ Scrolled = [i \in Cells |-> Scrolled[i]]
         /\ Place \in Cells /\ Cursor \in Nat
         /\ \A i \in Cells : i >= Place => Scrolled[i] = BLANK
         /\ Place = IF row = Rows THEN Cursor - Columns ELSE Cursor
         /\ \A i \in 1 .. Place : Scrolled[Place - i] = cell[Cursor - i]
<1>1. /\ Rows \in Nat /\ Columns \in Nat /\ Columns > 0 /\ Rows > 1
      /\ column \in 0 .. Columns - 1 /\ row \in 0 .. Rows
  BY ConsoleAssumption DEF ScreenOK
<1>2. /\ row * Columns \in Nat /\ Rows * Columns \in Nat
      /\ (row - 1) * Columns = row * Columns - Columns
      /\ row < Rows => row * Columns + Columns <= Rows * Columns
      /\ Rows * Columns >= Columns
  BY <1>1, RowStart
<1>3. CASE row = Rows
  <2>1. ScrolledRow = Rows - 1 /\ Scrolled = ScrollUp(cell) /\ column = 0
    BY <1>1, <1>3 DEF ScrolledRow, Scrolled, ScreenOK
  <2>2. Cursor = Rows * Columns /\ Place = Rows * Columns - Columns
    BY <1>1, <1>2, <1>3, <2>1 DEF Cursor, Place
  <2>3. DOMAIN Scrolled = Cells /\ Scrolled = [i \in Cells |-> Scrolled[i]]
    BY <2>1 DEF ScrollUp
  <2>4. \A i \in Cells : Scrolled[i] =
          IF i + Columns \in Cells THEN cell[i + Columns] ELSE BLANK
    BY <2>1 DEF ScrollUp
  <2>5. Place \in Cells
    BY <1>1, <1>2, <2>2 DEF Cells
  <2>6. \A i \in Cells : i >= Place => i + Columns \notin Cells
    BY <1>1, <1>2, <2>2 DEF Cells
  <2>7. ASSUME NEW i \in 1 .. Place PROVE Scrolled[Place - i] = cell[Cursor - i]
    <3>1. /\ Place - i \in Cells /\ Place - i + Columns \in Cells
          /\ Place - i + Columns = Cursor - i
      BY <1>1, <1>2, <2>2, <2>7 DEF Cells
    <3> QED
      BY <2>4, <3>1
  <2> QED
    BY <1>1, <1>2, <1>3, <2>1, <2>2, <2>3, <2>4, <2>5, <2>6, <2>7
<1>4. CASE row < Rows
  <2>1. ScrolledRow = row /\ Scrolled = cell
    BY <1>1, <1>4 DEF ScrolledRow, Scrolled
  <2>2. Place = Cursor /\ Cursor \in Cells /\ Cursor \in Nat
    BY <1>1, <1>2, <1>4, <2>1 DEF Cursor, Place, Cells
  <2> QED
    BY <1>1, <1>4, <2>1, <2>2 DEF ScreenOK, NothingAfterCursor
<1> QED
  BY <1>1, <1>3, <1>4

\* A printable character takes the place, and the cursor is behind it.
LEMMA PrintableShown ==
  ASSUME ScreenOK, NothingAfterCursor, NEW c, WritePrintable(c)
  PROVE  /\ ScreenOK' /\ NothingAfterCursor'
         /\ Cursor' = Place + 1
         /\ cell'[Place] = c
         /\ \A i \in 1 .. Place : cell'[Place - i] = cell[Cursor - i]
<1>1. /\ ScrolledRow \in 0 .. Rows - 1
      /\ DOMAIN Scrolled = Cells /\ Scrolled = [i \in Cells |-> Scrolled[i]]
      /\ Place \in Cells
      /\ \A i \in Cells : i >= Place => Scrolled[i] = BLANK
      /\ \A i \in 1 .. Place : Scrolled[Place - i] = cell[Cursor - i]
  BY ScrollMakesRoom
<1>2. /\ Rows \in Nat /\ Columns \in Nat /\ Columns > 0 /\ Rows > 1
      /\ column \in 0 .. Columns - 1
  BY ConsoleAssumption DEF ScreenOK
<1>3. /\ ScrolledRow * Columns \in Nat /\ Rows * Columns \in Nat
      /\ (ScrolledRow + 1) * Columns = ScrolledRow * Columns + Columns
  BY <1>1, <1>2, RowStart
<1>4. /\ cell' = [Scrolled EXCEPT ![Place] = c]
      /\ column' = IF column + 1 >= Columns THEN 0 ELSE column + 1
      /\ row' = IF column + 1 >= Columns THEN ScrolledRow + 1 ELSE ScrolledRow
  BY DEF WritePrintable, Place
<1>5. /\ DOMAIN cell' = Cells /\ cell' = [i \in Cells |-> cell'[i]]
      /\ \A i \in Cells : cell'[i] = IF i = Place THEN c ELSE Scrolled[i]
  BY <1>1, <1>4
<1>6. ScreenOK'
  BY <1>1, <1>2, <1>4, <1>5 DEF ScreenOK
<1>7. Cursor' = Place + 1
  <2>1. CASE column + 1 >= Columns
    BY <1>1, <1>2, <1>3, <1>4, <2>1 DEF Cursor, Place
  <2>2. CASE ~ (column + 1 >= Columns)
    BY <1>1, <1>2, <1>3, <1>4, <2>2 DEF Cursor, Place
  <2> QED
    BY <2>1, <2>2
<1>8. NothingAfterCursor'
  BY <1>1, <1>3, <1>5, <1>7 DEF NothingAfterCursor, Cells
<1>9. ASSUME NEW i \in 1 .. Place PROVE cell'[Place - i] = cell[Cursor - i]
  <2>1. Place - i \in Cells /\ Place - i # Place
    BY <1>1, <1>3, <1>9 DEF Cells
  <2> QED
    BY <1>1, <1>5, <2>1
<1> QED
  BY <1>1, <1>5, <1>6, <1>7, <1>8, <1>9

\* A newline goes to the next row.
LEMMA NewlineShown ==
  ASSUME ScreenOK, NothingAfterCursor, WriteNewline
  PROVE  ScreenOK' /\ NothingAfterCursor'
<1>1. /\ ScrolledRow \in 0 .. Rows - 1
      /\ DOMAIN Scrolled = Cells /\ Scrolled = [i \in Cells |-> Scrolled[i]]
      /\ \A i \in Cells : i >= Place => Scrolled[i] = BLANK
  BY ScrollMakesRoom
<1>2. /\ Rows \in Nat /\ Columns \in Nat /\ Columns > 0 /\ Rows > 1
      /\ column \in 0 .. Columns - 1
  BY ConsoleAssumption DEF ScreenOK
<1>3. /\ ScrolledRow * Columns \in Nat /\ Rows * Columns \in Nat
      /\ (ScrolledRow + 1) * Columns = ScrolledRow * Columns + Columns
  BY <1>1, <1>2, RowStart
<1>4. cell' = Scrolled /\ row' = ScrolledRow + 1 /\ column' = 0
  BY DEF WriteNewline
<1>5. ScreenOK'
  BY <1>1, <1>2, <1>4 DEF ScreenOK
<1>6. Cursor' >= Place
  BY <1>1, <1>2, <1>3, <1>4 DEF Cursor, Place
<1>7. Place \in Nat /\ Cursor' \in Nat
  BY <1>1, <1>2, <1>3, <1>4 DEF Cursor, Place
<1>8. NothingAfterCursor'
  BY <1>1, <1>3, <1>4, <1>6, <1>7 DEF NothingAfterCursor, Cells
<1> QED
  BY <1>5, <1>8

\* A backspace takes the character before the place away, if there is one.
LEMMA BackspaceShown ==
  ASSUME ScreenOK, NothingAfterCursor, WriteBackspace
  PROVE  /\ ScreenOK' /\ NothingAfterCursor'
         /\ Place > 0 => /\ Cursor' = Place - 1
                         /\ \A i \in 2 .. Place : cell'[Place - i] = cell[Cursor - i]
<1> DEFINE r == IF column = 0 THEN ScrolledRow - 1 ELSE ScrolledRow
           c == IF column = 0 THEN Columns - 1 ELSE column - 1
<1>1. /\ ScrolledRow \in 0 .. Rows - 1
      /\ DOMAIN Scrolled = Cells /\ Scrolled = [i \in Cells |-> Scrolled[i]]
      /\ Place \in Cells
      /\ \A i \in Cells : i >= Place => Scrolled[i] = BLANK
      /\ \A i \in 1 .. Place : Scrolled[Place - i] = cell[Cursor - i]
  BY ScrollMakesRoom
<1>2. /\ Rows \in Nat /\ Columns \in Nat /\ Columns > 0 /\ Rows > 1
      /\ column \in 0 .. Columns - 1
  BY ConsoleAssumption DEF ScreenOK
<1>3. /\ ScrolledRow * Columns \in Nat /\ Rows * Columns \in Nat
      /\ (ScrolledRow - 1) * Columns = ScrolledRow * Columns - Columns
      /\ ScrolledRow > 0 => ScrolledRow * Columns >= Columns
  BY <1>1, <1>2, RowStart
<1>4. CASE column = 0 /\ ScrolledRow = 0
  <2>1. cell' = Scrolled /\ row' = ScrolledRow /\ column' = column
    BY <1>4 DEF WriteBackspace
  <2>2. Place = 0 /\ Cursor' = 0
    BY <1>2, <1>4, <2>1 DEF Place, Cursor
  <2> QED
    BY <1>1, <1>2, <1>4, <2>1, <2>2 DEF ScreenOK, NothingAfterCursor
<1>5. CASE ~ (column = 0 /\ ScrolledRow = 0)
  <2>1. /\ row' = r /\ column' = c
        /\ cell' = [Scrolled EXCEPT ![c + r * Columns] = BLANK]
    BY <1>5 DEF WriteBackspace
  <2>2. c + r * Columns = Place - 1 /\ Place > 0
    BY <1>1, <1>2, <1>3, <1>5 DEF Place
  <2>3. r \in 0 .. Rows - 1 /\ c \in 0 .. Columns - 1
    BY <1>1, <1>2, <1>5
  <2>4. Place - 1 \in Cells
    BY <1>1, <1>3, <2>2 DEF Cells
  <2> HIDE DEF r, c
  <2>5. /\ DOMAIN cell' = Cells /\ cell' = [i \in Cells |-> cell'[i]]
        /\ \A i \in Cells : cell'[i] = IF i = Place - 1 THEN BLANK ELSE Scrolled[i]
    BY <1>1, <2>1, <2>2, <2>4
  <2>6. ScreenOK'
    BY <1>2, <2>1, <2>3, <2>5 DEF ScreenOK
  <2>7. Cursor' = Place - 1
    BY <2>1, <2>2 DEF Cursor
  <2>8. NothingAfterCursor'
    BY <1>1, <1>3, <2>5, <2>7 DEF NothingAfterCursor, Cells
  <2>9. ASSUME NEW i \in 2 .. Place PROVE cell'[Place - i] = cell[Cursor - i]
    <3>1. Place - i \in Cells /\ Place - i # Place - 1 /\ i \in 1 .. Place
      BY <1>1, <1>3, <2>9 DEF Cells
    <3> QED
      BY <1>1, <2>5, <3>1
  <2> QED
    BY <2>6, <2>7, <2>8, <2>9
<1> QED
  BY <1>4, <1>5

-----------------------------------------------------------------------------
(* The screen.                                                             *)

\* One character leaves the screen in order, whichever it is.
LEMMA CharacterShown ==
  ASSUME ScreenOK, NothingAfterCursor, NEW c, WriteCharacter(c)
  PROVE  ScreenOK' /\ NothingAfterCursor'
<1>1. CASE WriteNewline
  BY <1>1, NewlineShown
<1>2. CASE WriteBackspace
  BY <1>2, BackspaceShown
<1>3. CASE WritePrintable(c)
  BY <1>3, PrintableShown
<1> QED
  BY <1>1, <1>2, <1>3 DEF WriteCharacter

\* A step writes one character, clears the screen or leaves it alone.
LEMMA ScreenSteps ==
  ASSUME [ConsoleNext]_consoleVars
  PROVE  \/ text # <<>> /\ WriteCharacter(Head(text))
         \/ ClrSrc
         \/ UNCHANGED screenVars
<1>1. CASE WriteVGA
  BY <1>1 DEF WriteVGA
<1>2. CASE ClearScreen
  BY <1>2 DEF ClearScreen
<1>3. CASE \/ PrintPrompt \/ EraseKey \/ OpenNotFound
           \/ \E k \in Keys : EndOfLine(k) \/ StoreKey(k)
  BY <1>3 DEF PrintPrompt, EraseKey, OpenNotFound, EndOfLine, StoreKey, PrintKey,
              PrintMessage
<1>4. CASE \E m \in Messages : Output(m)
  BY <1>4 DEF Output, PrintMessage
<1>5. CASE EmptyLine \/ ExecuteCmd \/ OpenFound \/ CommandDone
  BY <1>5 DEF EmptyLine, ExecuteCmd, OpenFound, CommandDone
<1>6. CASE Halted \/ UNCHANGED consoleVars
  BY <1>6 DEF Halted, consoleVars
<1> QED
  BY <1>1, <1>2, <1>3, <1>4, <1>5, <1>6 DEF ConsoleNext

\* The screen in order is an invariant of every step.
LEMMA ScreenStep ==
  ASSUME ScreenOK, NothingAfterCursor, [ConsoleNext]_consoleVars
  PROVE  ScreenOK' /\ NothingAfterCursor'
<1>1. CASE WriteCharacter(Head(text))
  BY <1>1, CharacterShown
<1>2. CASE ClrSrc
  <2>1. /\ cell' = [i \in Cells |-> BLANK] /\ column' = 0 /\ row' = 0
        /\ Rows \in Nat \ {0, 1} /\ Columns \in Nat \ {0}
    BY <1>2, ConsoleAssumption DEF ClrSrc
  <2> QED
    BY <2>1 DEF ScreenOK, NothingAfterCursor
<1>3. CASE UNCHANGED screenVars
  <2>1. cell' = cell /\ column' = column /\ row' = row
    BY <1>3 DEF screenVars
  <2> QED
    BY <2>1 DEF ScreenOK, NothingAfterCursor, Cursor
<1> QED
  BY <1>1, <1>2, <1>3, ScreenSteps

\* The screen of the boot is in order.
LEMMA ScreenAtBoot ==
  ASSUME ConsoleInit
  PROVE  ScreenOK /\ NothingAfterCursor
<1>1. /\ cell = [i \in Cells |-> BLANK] /\ column = 0 /\ row = 0
      /\ Rows \in Nat \ {0, 1} /\ Columns \in Nat \ {0}
  BY ConsoleAssumption DEF ConsoleInit
<1> QED
  BY <1>1 DEF ScreenOK, NothingAfterCursor

\* Whatever is printed, typed or erased, there is never anything at or behind
\* the cursor: WriteVGA never prints over older text, and never outside the VGA
\* buffer.
THEOREM ScreenBlankAfterCursor == ConsoleSpec => [](ScreenOK /\ NothingAfterCursor)
<1>1. ConsoleInit => ScreenOK /\ NothingAfterCursor
  BY ScreenAtBoot
<1>2. ScreenOK /\ NothingAfterCursor /\ [ConsoleNext]_consoleVars
        => ScreenOK' /\ NothingAfterCursor'
  BY ScreenStep
<1> QED
  BY <1>1, <1>2, PTL DEF ConsoleSpec

-----------------------------------------------------------------------------
(* Numbers.                                                                *)

\* Multiples of m.
LEMMA Multiples ==
  ASSUME NEW m \in Nat, NEW a \in Nat, NEW b \in Nat
  PROVE  /\ a * m \in Nat /\ m * a = a * m
         /\ (a + 1) * m = a * m + m
         /\ a <= b => a * m <= b * m
         /\ a < b => a * m + m <= b * m
<1>1. a * m \in Nat /\ b * m \in Nat /\ m * a = a * m /\ (a + 1) * m = a * m + m
  OBVIOUS
<1>2. ASSUME NEW c \in Nat, NEW d \in Nat, d = a + c PROVE a * m <= d * m
  BY <1>2
<1>3. ASSUME NEW c \in Nat, NEW d \in Nat, d = (a + 1) + c PROVE a * m + m <= d * m
  <2>1. d * m = (a + 1) * m + c * m /\ c * m \in Nat
    BY <1>3
  <2> QED
    BY <1>1, <2>1
<1>4. /\ a <= b => b - a \in Nat /\ b = a + (b - a)
      /\ a < b => b - (a + 1) \in Nat /\ b = (a + 1) + (b - (a + 1))
  OBVIOUS
<1> QED
  BY <1>1, <1>2, <1>3, <1>4

\* Quotient and remainder, and that there is one such pair.
LEMMA Division ==
  ASSUME NEW m \in Nat \ {0}, NEW a \in Nat
  PROVE  /\ a \div m \in Nat /\ a % m \in 0 .. m - 1 /\ a = (a \div m) * m + (a % m)
         /\ \A q \in Nat, r \in 0 .. m - 1 : a = q * m + r => a \div m = q /\ a % m = r
<1>1. PICK d \in Nat, e \in 0 .. m - 1 : d = a \div m /\ e = a % m /\ a = d * m + e
  OBVIOUS
<1>2. ASSUME NEW q \in Nat, NEW r \in 0 .. m - 1, a = q * m + r PROVE d = q /\ e = r
  <2>1. d * m \in Nat /\ q * m \in Nat
    BY Multiples
  <2>2. /\ d < q => d * m + m <= q * m
        /\ q < d => q * m + m <= d * m
    BY Multiples
  <2>3. d = q
    BY <1>1, <1>2, <2>1, <2>2
  <2> QED
    BY <1>1, <1>2, <2>1, <2>3
<1> QED
  BY <1>1, <1>2

\* Dividing twice is dividing by the product.
LEMMA DivideTwice ==
  ASSUME NEW n \in Nat, NEW b \in Nat \ {0}, NEW Q \in Nat \ {0}
  PROVE  n \div (b * Q) = (n \div b) \div Q /\ b * Q \in Nat \ {0}
<1>1. PICK d \in Nat, e \in 0 .. b - 1 : d = n \div b /\ e = n % b /\ n = d * b + e
  BY Division
<1>2. PICK x \in Nat, y \in 0 .. Q - 1 : x = d \div Q /\ y = d % Q /\ d = x * Q + y
  <2>1. d \div Q \in Nat /\ d % Q \in 0 .. Q - 1 /\ d = (d \div Q) * Q + (d % Q)
    BY Division
  <2> QED
    BY <2>1
<1>3. PICK P \in Nat \ {0} : P = b * Q
  <2>1. b * Q \in Nat \ {0}
    OBVIOUS
  <2> QED
    BY <2>1
<1>4. PICK z \in Nat : z = y * b + e
  BY Multiples
<1>5. n = x * P + z
  <2>1. (x * Q + y) * b = x * (b * Q) + y * b
    OBVIOUS
  <2>2. d * b = x * P + y * b
    BY <1>2, <1>3, <2>1
  <2>3. x * P \in Nat /\ y * b \in Nat /\ d * b \in Nat
    BY Multiples
  <2> QED
    BY <1>1, <1>4, <2>2, <2>3
<1>6. z \in 0 .. P - 1
  <2>1. y * b + b <= Q * b /\ Q * b = b * Q /\ y * b \in Nat /\ Q * b \in Nat
    BY Multiples
  <2> QED
    BY <1>1, <1>3, <1>4, <2>1
<1>7. n \div P = x
  BY <1>5, <1>6, Division
<1> QED
  BY <1>1, <1>2, <1>3, <1>7

\* A number below the modulus is its own remainder, and a negative one wraps.
LEMMA Wraps ==
  ASSUME NEW m \in Nat \ {0}, NEW v \in Int
  PROVE  /\ v \in 0 .. m - 1 => v % m = v
         /\ v \in - m .. -1 => v % m = v + m
<1>1. PICK d \in Int, e \in 0 .. m - 1 : e = v % m /\ v = d * m + e
  OBVIOUS
<1>2. ASSUME v \in 0 .. m - 1 PROVE v % m = v
  <2>1. v = 0 * m + v
    OBVIOUS
  <2> QED
    BY <1>2, <2>1, Division
<1>3. ASSUME v \in - m .. -1 PROVE v % m = v + m
  <2>1. d >= 0 => d * m >= 0
    OBVIOUS
  <2>2. d < -1 => d * m <= - m - m
    <3>1. ASSUME d < -1 PROVE d * m <= -m - m
      <4>1. PICK c \in Nat : c = -2 - d
        <5>1. -2 - d \in Nat
          BY <3>1
        <5> QED
          BY <5>1
      <4>2. d = - (c + 2) /\ d * m = - ((c + 2) * m)
        BY <4>1
      <4>3. (c + 2) * m = c * m + m + m /\ c * m \in Nat
        OBVIOUS
      <4> QED
        BY <4>2, <4>3
    <3> QED
      BY <3>1
  <2>3. d * m \in Int
    OBVIOUS
  <2>4. d = -1
    BY <1>1, <1>3, <2>1, <2>2, <2>3
  <2>5. d * m = - m
    BY <2>4
  <2> QED
    BY <1>1, <2>5
<1> QED
  BY <1>2, <1>3

\* p is the recursive function in Power.
IsPower(b, n, p) == p = [k \in 0 .. n |-> IF k = 0 THEN 1 ELSE b * p[k - 1]]

\* There is such a function.
LEMMA PowerDefined ==
  ASSUME NEW b, NEW n \in Nat
  PROVE  \E p : IsPower(b, n, p)
<1> DEFINE T == {x \in Nat : ~ \E p : IsPower(b, x, p)}
<1>1. SUFFICES ASSUME T # {} PROVE FALSE
  OBVIOUS
<1>2. T \subseteq Nat
  OBVIOUS
<1> HIDE DEF T
<1>3. PICK x \in T : \A y \in T : x <= y
  BY <1>1, <1>2, LeastNatural
<1>4. x \in Nat /\ ~ \E p : IsPower(b, x, p)
  BY <1>3 DEF T
<1>5. CASE x = 0
  <2> DEFINE q == [k \in 0 .. x |-> 1]
  <2>1. IsPower(b, x, q)
    BY <1>5 DEF IsPower
  <2> QED
    BY <1>4, <2>1
<1>6. CASE x # 0
  <2>1. x - 1 \in Nat /\ ~ (x <= x - 1)
    BY <1>4, <1>6
  <2>2. x - 1 \notin T
    BY <1>3, <2>1
  <2>3. PICK p : IsPower(b, x - 1, p)
    BY <2>1, <2>2 DEF T
  <2> DEFINE q == [k \in 0 .. x |-> IF k = x THEN b * p[x - 1] ELSE p[k]]
  <2>4. \A k \in 0 .. x - 1 : p[k] = IF k = 0 THEN 1 ELSE b * p[k - 1]
    BY <2>3 DEF IsPower
  <2>5. ASSUME NEW k \in 0 .. x PROVE q[k] = IF k = 0 THEN 1 ELSE b * q[k - 1]
    <3>1. CASE k = x
      <4>1. x - 1 \in 0 .. x /\ x - 1 # x /\ x \in 0 .. x
        BY <1>4, <1>6
      <4> QED
        BY <1>6, <3>1, <4>1
    <3>2. CASE k # x /\ k # 0
      <4>1. k \in 0 .. x - 1 /\ k - 1 \in 0 .. x /\ k - 1 # x
        BY <1>4, <2>5, <3>2
      <4> QED
        BY <2>4, <3>2, <4>1
    <3>3. CASE k = 0
      <4>1. k \in 0 .. x - 1 /\ k # x
        BY <1>4, <1>6, <3>3
      <4> QED
        BY <2>4, <3>3, <4>1
    <3> QED
      BY <3>1, <3>2, <3>3
  <2>6. q = [k \in 0 .. x |-> q[k]]
    OBVIOUS
  <2> HIDE DEF q
  <2>7. IsPower(b, x, q)
    BY <2>5, <2>6 DEF IsPower
  <2> QED
    BY <1>4, <2>7
<1> QED
  BY <1>5, <1>6

\* All such functions agree.
LEMMA PowersAgree ==
  ASSUME NEW b, NEW m \in Nat, NEW n \in Nat, NEW p, NEW q,
         IsPower(b, m, p), IsPower(b, n, q), NEW k \in Nat, k <= m, k <= n
  PROVE  p[k] = q[k]
<1> DEFINE T == {x \in Nat : x <= m /\ x <= n /\ p[x] # q[x]}
<1>1. SUFFICES ASSUME T # {} PROVE FALSE
  OBVIOUS
<1>2. T \subseteq Nat
  OBVIOUS
<1> HIDE DEF T
<1>3. PICK x \in T : \A y \in T : x <= y
  BY <1>1, <1>2, LeastNatural
<1>4. x \in Nat /\ x <= m /\ x <= n /\ p[x] # q[x] /\ x \in 0 .. m /\ x \in 0 .. n
  BY <1>3 DEF T
<1>5. /\ p[x] = IF x = 0 THEN 1 ELSE b * p[x - 1]
      /\ q[x] = IF x = 0 THEN 1 ELSE b * q[x - 1]
  BY <1>4 DEF IsPower
<1>6. CASE x # 0
  <2>1. x - 1 \in Nat /\ x - 1 <= m /\ x - 1 <= n /\ ~ (x <= x - 1)
    BY <1>4, <1>6
  <2>2. p[x - 1] = q[x - 1]
    BY <1>3, <2>1 DEF T
  <2> QED
    BY <1>4, <1>5, <2>2
<1> QED
  BY <1>4, <1>5, <1>6

\* Power multiplies.
LEMMA PowerMultiplies ==
  ASSUME NEW b
  PROVE  Power(b, 0) = 1 /\ \A n \in Nat : Power(b, n + 1) = b * Power(b, n)
<1>1. ASSUME NEW n \in Nat PROVE \E p : IsPower(b, n, p) /\ Power(b, n) = p[n]
  <2> DEFINE p == CHOOSE p : IsPower(b, n, p)
  <2>1. IsPower(b, n, p)
    BY PowerDefined, Zenon
  <2>2. Power(b, n) = p[n]
    BY DEF Power, IsPower
  <2> QED
    BY <2>1, <2>2
<1>2. Power(b, 0) = 1
  <2>1. PICK p : IsPower(b, 0, p) /\ Power(b, 0) = p[0]
    BY <1>1
  <2> QED
    BY <2>1 DEF IsPower
<1>3. ASSUME NEW n \in Nat PROVE Power(b, n + 1) = b * Power(b, n)
  <2>1. n + 1 \in Nat /\ n <= n + 1 /\ n <= n /\ n + 1 \in 0 .. n + 1 /\ n + 1 # 0
        /\ n + 1 - 1 = n
    OBVIOUS
  <2>2. PICK p : IsPower(b, n, p) /\ Power(b, n) = p[n]
    BY <1>1
  <2>3. PICK q : IsPower(b, n + 1, q) /\ Power(b, n + 1) = q[n + 1]
    BY <1>1, <2>1
  <2>4. p[n] = q[n]
    BY <2>1, <2>2, <2>3, PowersAgree
  <2>5. q[n + 1] = b * q[n]
    BY <2>1, <2>3 DEF IsPower
  <2> QED
    BY <2>2, <2>3, <2>4, <2>5
<1> QED
  BY <1>2, <1>3

\* Powers grow.
LEMMA PowersGrow ==
  ASSUME NEW b \in Nat, b >= 2
  PROVE  /\ \A n \in Nat : Power(b, n) \in Nat /\ Power(b, n) > n
         /\ \A m, n \in Nat : m <= n => Power(b, m) <= Power(b, n)
<1>1. Power(b, 0) = 1 /\ \A n \in Nat : Power(b, n + 1) = b * Power(b, n)
  BY PowerMultiplies
<1>2. ASSUME NEW n \in Nat PROVE Power(b, n) \in Nat /\ Power(b, n) > n
  <2> DEFINE T == {x \in Nat : ~ (Power(b, x) \in Nat /\ Power(b, x) > x)}
  <2>1. SUFFICES ASSUME T # {} PROVE FALSE
    OBVIOUS
  <2>2. T \subseteq Nat
    OBVIOUS
  <2> HIDE DEF T
  <2>3. PICK x \in T : \A y \in T : x <= y
    BY <2>1, <2>2, LeastNatural
  <2>4. x \in Nat /\ ~ (Power(b, x) \in Nat /\ Power(b, x) > x)
    BY <2>3 DEF T
  <2>5. x # 0
    BY <1>1, <2>4
  <2>6. PICK y \in Nat : x = y + 1 /\ y \notin T
    <3>1. x - 1 \in Nat /\ x = x - 1 + 1 /\ ~ (x <= x - 1)
      BY <2>4, <2>5
    <3> QED
      BY <2>3, <3>1
  <2>7. Power(b, y) \in Nat /\ Power(b, y) > y
    BY <2>6 DEF T
  <2>8. \A P \in Nat : P > y => b * P \in Nat /\ b * P > y + 1
    <3>1. \A P \in Nat : b * P = P + (b - 1) * P
      OBVIOUS
    <3>2. \A P \in Nat : P > 0 => (b - 1) * P >= 1 /\ (b - 1) * P \in Nat
      OBVIOUS
    <3> QED
      BY <3>1, <3>2
  <2> QED
    BY <1>1, <2>4, <2>6, <2>7, <2>8
<1>3. ASSUME NEW m \in Nat, NEW n \in Nat, m <= n PROVE Power(b, m) <= Power(b, n)
  <2> DEFINE T == {x \in Nat : ~ (Power(b, m) <= Power(b, m + x))}
  <2>1. n - m \in Nat /\ m + (n - m) = n
    BY <1>3
  <2>2. SUFFICES ASSUME T # {} PROVE FALSE
    BY <2>1
  <2>3. T \subseteq Nat
    OBVIOUS
  <2> HIDE DEF T
  <2>4. PICK x \in T : \A y \in T : x <= y
    BY <2>2, <2>3, LeastNatural
  <2>5. x \in Nat /\ ~ (Power(b, m) <= Power(b, m + x))
    BY <2>4 DEF T
  <2>6. x # 0
    BY <1>2, <2>5
  <2>7. PICK y \in Nat : x = y + 1 /\ y \notin T
    <3>1. x - 1 \in Nat /\ x = x - 1 + 1 /\ ~ (x <= x - 1)
      BY <2>5, <2>6
    <3> QED
      BY <2>4, <3>1
  <2>8. Power(b, m) <= Power(b, m + y) /\ m + y \in Nat
    BY <2>7 DEF T
  <2>9. Power(b, m + x) = b * Power(b, m + y)
    <3>1. m + x = (m + y) + 1
      BY <2>7
    <3> QED
      BY <1>1, <2>8, <3>1
  <2>10. \A P \in Nat : b * P \in Nat /\ b * P >= P
    <3>1. \A P \in Nat : b * P = P + (b - 1) * P /\ (b - 1) * P \in Nat
      OBVIOUS
    <3> QED
      BY <3>1
  <2> QED
    BY <1>2, <2>5, <2>8, <2>9, <2>10
<1> QED
  BY <1>2, <1>3

\* k places are the right number for n.
Fit(n, b, k) == n < Power(b, k) /\ (k > 1 => Power(b, k - 1) <= n)

\* There is one such number, which Places finds.
LEMMA PlacesFit ==
  ASSUME NEW b \in Nat, b >= 2, NEW n \in Nat
  PROVE  /\ Places(n, b) \in Nat \ {0} /\ Fit(n, b, Places(n, b))
         /\ \A k \in Nat \ {0} : Fit(n, b, k) => k = Places(n, b)
<1>1. /\ \A k \in Nat : Power(b, k) \in Nat /\ Power(b, k) > k
      /\ \A j, k \in Nat : j <= k => Power(b, j) <= Power(b, k)
  BY PowersGrow
<1> DEFINE T == {k \in Nat : k > 0 /\ n < Power(b, k)}
<1>2. n + 1 \in T
  BY <1>1
<1>3. T \subseteq Nat
  OBVIOUS
<1>4. T # {}
  BY <1>2
<1>5. PICK k \in T : \A y \in T : k <= y
  BY <1>3, <1>4, LeastNatural
<1>6. k \in 1 .. n + 1 /\ n < Power(b, k)
  BY <1>2, <1>5
<1>7. k > 1 => Power(b, k - 1) <= n
  <2> SUFFICES ASSUME k > 1 PROVE Power(b, k - 1) <= n
    OBVIOUS
  <2>1. k - 1 \in Nat /\ k - 1 > 0 /\ ~ (k <= k - 1)
    BY <1>6
  <2>2. ~ (n < Power(b, k - 1))
    BY <1>5, <2>1
  <2> QED
    BY <1>1, <2>1, <2>2
<1>8. Places(n, b) \in 1 .. n + 1 /\ Fit(n, b, Places(n, b))
  <2>1. \E j \in 1 .. n + 1 : n < Power(b, j) /\ (j > 1 => Power(b, j - 1) <= n)
    BY <1>6, <1>7
  <2> QED
    BY <2>1 DEF Places, Fit
<1> HIDE DEF T
<1>9. ASSUME NEW j \in Nat \ {0}, NEW i \in Nat \ {0}, Fit(n, b, j), Fit(n, b, i), i < j
      PROVE  FALSE
  <2>1. j > 1 /\ j - 1 \in Nat /\ i <= j - 1
    BY <1>9
  <2>2. Power(b, i) <= Power(b, j - 1)
    BY <1>1, <2>1
  <2> QED
    BY <1>1, <1>9, <2>1, <2>2 DEF Fit
<1> QED
  BY <1>8, <1>9

\* One digit, or one more than the quotient has.
LEMMA PlacesUnfold ==
  ASSUME NEW b \in Nat, b >= 2, NEW n \in Nat
  PROVE  /\ n \div b = 0 => Places(n, b) = 1
         /\ n \div b # 0 => Places(n, b) = Places(n \div b, b) + 1
<1>1. Power(b, 0) = 1 /\ \A k \in Nat : Power(b, k + 1) = b * Power(b, k)
  BY PowerMultiplies
<1>2. PICK q \in Nat, r \in 0 .. b - 1 : q = n \div b /\ n = q * b + r
  <2>1. b \in Nat \ {0}
    OBVIOUS
  <2>2. n \div b \in Nat /\ n % b \in 0 .. b - 1 /\ n = (n \div b) * b + (n % b)
    BY <2>1, Division
  <2> QED
    BY <2>2
<1>3. ASSUME q = 0 PROVE Places(n, b) = 1
  <2>1. Power(b, 0 + 1) = b * 1
    BY <1>1
  <2>2. Power(b, 1) = b
    BY <2>1
  <2>3. Fit(n, b, 1)
    BY <1>2, <1>3, <2>2 DEF Fit
  <2> QED
    BY <2>3, PlacesFit
<1>4. ASSUME q # 0 PROVE Places(n, b) = Places(q, b) + 1
  <2>1. PICK k \in Nat \ {0} : k = Places(q, b) /\ Fit(q, b, k)
    BY PlacesFit
  <2>2. \A j \in Nat : Power(b, j) \in Nat
    BY PowersGrow
  <2>3. PICK P \in Nat : P = Power(b, k)
    BY <2>1, <2>2
  <2>4. n < b * P
    <3>1. q < P
      BY <2>1, <2>3 DEF Fit
    <3>2. q * b + b <= P * b /\ P * b = b * P /\ P * b \in Nat /\ q * b \in Nat
      BY <3>1, Multiples
    <3> QED
      BY <1>2, <3>2
  <2>5. Power(b, k) <= n
    <3>1. PICK j \in Nat : k = j + 1
      <4>1. k - 1 \in Nat /\ k = k - 1 + 1
        OBVIOUS
      <4> QED
        BY <4>1
    <3>2. PICK Q \in Nat : Q = Power(b, j)
      BY <2>2
    <3>3. Q <= q
      <4>1. CASE j = 0
        BY <1>1, <1>4, <3>2, <4>1
      <4>2. CASE j # 0
        <5>1. k > 1 /\ k - 1 = j
          BY <3>1, <4>2
        <5> QED
          BY <2>1, <3>2, <5>1 DEF Fit
      <4> QED
        BY <4>1, <4>2
    <3>4. Q * b <= q * b /\ Q * b = b * Q /\ Q * b \in Nat /\ q * b \in Nat
      BY <3>3, Multiples
    <3>5. Power(b, k) = b * Q
      BY <1>1, <3>1, <3>2
    <3> QED
      BY <1>2, <3>4, <3>5
  <2>6. Power(b, k + 1) = b * P /\ k + 1 \in Nat \ {0} /\ k + 1 - 1 = k
    BY <1>1, <2>3
  <2>7. Fit(n, b, k + 1)
    BY <2>4, <2>5, <2>6 DEF Fit
  <2> QED
    BY <2>1, <2>6, <2>7, PlacesFit
<1> QED
  BY <1>2, <1>3, <1>4

\* The digits from the last one on, by their places.
Digit(n, b, i) == digits_map[((n \div Power(b, i - 1)) % b) + 1]
DigitsByPlace(n, b) == [i \in 1 .. Places(n, b) |-> Digit(n, b, i)]

\* The last digit is the remainder, the others are those of the quotient.
LEMMA DigitUnfold ==
  ASSUME NEW b \in Nat, b >= 2, NEW n \in Nat
  PROVE  /\ Digit(n, b, 1) = digits_map[(n % b) + 1]
         /\ \A i \in Nat \ {0} : Digit(n, b, i + 1) = Digit(n \div b, b, i)
<1>1. Power(b, 0) = 1 /\ \A k \in Nat : Power(b, k + 1) = b * Power(b, k)
  BY PowerMultiplies
<1>2. Digit(n, b, 1) = digits_map[(n % b) + 1]
  <2>1. Power(b, 1 - 1) = 1 /\ n \div 1 = n
    BY <1>1
  <2> QED
    BY <2>1 DEF Digit
<1>3. ASSUME NEW i \in Nat \ {0} PROVE Digit(n, b, i + 1) = Digit(n \div b, b, i)
  <2>1. i - 1 \in Nat /\ i + 1 - 1 = (i - 1) + 1
    OBVIOUS
  <2>2. PICK Q \in Nat \ {0} : Q = Power(b, i - 1)
    <3>1. Power(b, i - 1) \in Nat /\ Power(b, i - 1) > i - 1
      BY <2>1, PowersGrow
    <3>2. Power(b, i - 1) \in Nat \ {0}
      BY <2>1, <3>1
    <3> QED
      BY <3>2
  <2>3. Power(b, i + 1 - 1) = b * Q
    BY <1>1, <2>1, <2>2
  <2>4. n \div (b * Q) = (n \div b) \div Q
    BY DivideTwice
  <2> QED
    BY <2>2, <2>3, <2>4 DEF Digit
<1> QED
  BY <1>2, <1>3

\* The characters of numerals.
Figures == {digits_map[i] : i \in 1 .. 16}

\* What the loop finds by dividing again and again.
LEMMA DigitsDivide ==
  ASSUME NEW b \in 2 .. 16, NEW n \in Nat
  PROVE  /\ DigitsByPlace(n, b) \in Seq(Figures)
         /\ Len(DigitsByPlace(n, b)) = Places(n, b)
         /\ DigitsByPlace(n, b) =
              IF n \div b = 0 THEN <<digits_map[(n % b) + 1]>>
              ELSE <<digits_map[(n % b) + 1]>> \o DigitsByPlace(n \div b, b)
<1>1. b \in Nat /\ b >= 2 /\ b \in Nat \ {0} /\ b <= 16
  OBVIOUS
<1>2. ASSUME NEW k \in Nat
      PROVE  /\ DigitsByPlace(k, b) \in Seq(Figures)
             /\ Len(DigitsByPlace(k, b)) = Places(k, b)
             /\ Places(k, b) \in Nat \ {0}
             /\ \A i \in 1 .. Places(k, b) : DigitsByPlace(k, b)[i] = Digit(k, b, i)
  <2>1. PICK l \in Nat \ {0} : l = Places(k, b)
    BY <1>1, PlacesFit
  <2>2. ASSUME NEW i \in 1 .. l PROVE Digit(k, b, i) \in Figures
    <3>1. PICK P \in Nat \ {0} : P = Power(b, i - 1)
      <4>1. i - 1 \in Nat /\ Power(b, i - 1) \in Nat /\ Power(b, i - 1) > i - 1
        BY <1>1, PowersGrow
      <4>2. Power(b, i - 1) \in Nat \ {0}
        BY <4>1
      <4> QED
        BY <4>2
    <3>2. k \div P \in Nat
      BY Division
    <3>3. (k \div P) % b \in 0 .. b - 1
      BY <1>1, <3>2, Division
    <3>4. ((k \div P) % b) + 1 \in 1 .. 16
      BY <1>1, <3>3
    <3> QED
      BY <3>1, <3>4 DEF Digit, Figures
  <2>3. DigitsByPlace(k, b) = [i \in 1 .. l |-> Digit(k, b, i)]
    BY <2>1 DEF DigitsByPlace
  <2>4. DigitsByPlace(k, b) \in [1 .. l -> Figures]
    BY <2>2, <2>3
  <2>5. DigitsByPlace(k, b) \in Seq(Figures) /\ Len(DigitsByPlace(k, b)) = l
    BY <2>4
  <2> QED
    BY <2>1, <2>3, <2>5
<1>3. PICK q \in Nat : q = n \div b
  BY <1>1, Division
<1>4. PICK l \in Nat \ {0}, D \in Seq(Figures) :
        /\ l = Places(n, b) /\ D = DigitsByPlace(n, b) /\ Len(D) = l
        /\ \A i \in 1 .. l : D[i] = Digit(n, b, i)
  BY <1>2
<1>5. PICK h \in Nat \ {0}, E \in Seq(Figures) :
        /\ h = Places(q, b) /\ E = DigitsByPlace(q, b) /\ Len(E) = h
        /\ \A i \in 1 .. h : E[i] = Digit(q, b, i)
  BY <1>2
<1>6. PICK c : c = digits_map[(n % b) + 1]
  OBVIOUS
<1>7. /\ D[1] = c
      /\ \A i \in Nat \ {0} : Digit(n, b, i + 1) = Digit(q, b, i)
  <2>1. /\ Digit(n, b, 1) = digits_map[(n % b) + 1]
        /\ \A i \in Nat \ {0} : Digit(n, b, i + 1) = Digit(n \div b, b, i)
    BY <1>1, DigitUnfold
  <2>2. 1 \in 1 .. l
    OBVIOUS
  <2>3. D[1] = c
    BY <1>4, <1>6, <2>1, <2>2
  <2> QED
    BY <1>3, <2>1, <2>3
<1>8. c \in Figures
  BY <1>4, <1>7
<1>9. CASE q = 0
  <2>1. l = 1
    BY <1>1, <1>3, <1>4, <1>9, PlacesUnfold
  <2>2. <<c>> \in Seq(Figures) /\ Len(<<c>>) = 1 /\ <<c>>[1] = c
    BY <1>8
  <2>3. D = <<c>>
    BY <1>4, <1>7, <2>1, <2>2, SeqEqual
  <2> QED
    BY <1>3, <1>4, <1>6, <1>9, <2>3
<1>10. CASE q # 0
  <2>1. l = h + 1
    BY <1>1, <1>3, <1>4, <1>5, <1>10, PlacesUnfold
  <2>2. PICK F \in Seq(Figures) :
          /\ F = <<c>> \o E /\ Len(F) = h + 1 /\ F[1] = c
          /\ \A i \in 1 .. h : F[i + 1] = E[i]
    <3>1. <<c>> \in Seq(Figures) /\ Len(<<c>>) = 1 /\ <<c>>[1] = c
      BY <1>8
    <3>2. <<c>> \o E \in Seq(Figures)
      BY <3>1, ConcatProperties
    <3>3. Len(<<c>> \o E) = h + 1 /\ (<<c>> \o E)[1] = c
      BY <1>5, <3>1
    <3>4. \A i \in 1 .. h : (<<c>> \o E)[i + 1] = E[i]
      BY <1>5, <3>1
    <3> QED
      BY <3>2, <3>3, <3>4
  <2>3. ASSUME NEW i \in 1 .. l PROVE D[i] = F[i]
    <3>1. CASE i = 1
      BY <1>7, <2>2, <3>1
    <3>2. CASE i # 1
      <4>1. PICK j \in 1 .. h : i = j + 1 /\ j \in Nat \ {0}
        <5>1. i - 1 \in 1 .. h /\ i = (i - 1) + 1 /\ i - 1 \in Nat \ {0}
          BY <2>1, <2>3, <3>2
        <5> QED
          BY <5>1
      <4>2. D[i] = Digit(q, b, j)
        BY <1>4, <1>7, <2>3, <4>1
      <4> QED
        BY <1>5, <2>2, <4>1, <4>2
    <3> QED
      BY <3>1, <3>2
  <2>4. D = F
    BY <1>4, <2>1, <2>2, <2>3, SeqEqual
  <2> QED
    BY <1>3, <1>4, <1>5, <1>6, <1>10, <2>2, <2>4
<1> QED
  BY <1>9, <1>10

\* d is the recursive function in DigitsBuffer.
IsDigits(b, d) ==
  d = [k \in Nat |-> IF k \div b = 0 THEN <<digits_map[(k % b) + 1]>>
                     ELSE <<digits_map[(k % b) + 1]>> \o d[k \div b]]

\* The loop finds the digits by their places.
LEMMA BufferIsDigits ==
  ASSUME NEW b \in 2 .. 16, NEW n \in Nat
  PROVE  DigitsBuffer(n, b) = DigitsByPlace(n, b)
<1>1. ASSUME NEW k \in Nat PROVE k \div b \in Nat /\ (k \div b # 0 => k \div b < k)
  <2>1. PICK q \in Nat, r \in 0 .. b - 1 : q = k \div b /\ k = q * b + r
    <3>0. b \in Nat \ {0}
      OBVIOUS
    <3>1. k \div b \in Nat /\ k % b \in 0 .. b - 1 /\ k = (k \div b) * b + (k % b)
      BY <3>0, Division
    <3> QED
      BY <3>1
  <2>2. q * b = q + (b - 1) * q /\ (b - 1) * q \in Nat /\ (q # 0 => (b - 1) * q > 0)
    OBVIOUS
  <2> QED
    BY <2>1, <2>2
<1> DEFINE u == [k \in Nat |-> DigitsByPlace(k, b)]
<1>2. IsDigits(b, u)
  <2>1. ASSUME NEW k \in Nat
        PROVE  DigitsByPlace(k, b) = IF k \div b = 0 THEN <<digits_map[(k % b) + 1]>>
                                     ELSE <<digits_map[(k % b) + 1]>> \o u[k \div b]
    <3>1. u[k \div b] = DigitsByPlace(k \div b, b)
      BY <1>1
    <3> HIDE DEF u
    <3> QED
      BY <3>1, DigitsDivide
  <2> QED
    BY <2>1 DEF IsDigits
<1> DEFINE d == CHOOSE d : IsDigits(b, d)
<1> HIDE DEF u
<1>3. IsDigits(b, d)
  BY <1>2, Zenon
<1>4. DigitsBuffer(n, b) = d[n]
  BY DEF DigitsBuffer, IsDigits
<1> HIDE DEF d
<1>5. \A k \in Nat : d[k] = IF k \div b = 0 THEN <<digits_map[(k % b) + 1]>>
                            ELSE <<digits_map[(k % b) + 1]>> \o d[k \div b]
  BY <1>3 DEF IsDigits
<1> DEFINE T == {k \in Nat : d[k] # DigitsByPlace(k, b)}
<1>6. SUFFICES ASSUME T # {} PROVE FALSE
  BY <1>4
<1>7. T \subseteq Nat
  OBVIOUS
<1> HIDE DEF T
<1>8. PICK k \in T : \A y \in T : k <= y
  BY <1>6, <1>7, LeastNatural
<1>9. k \in Nat /\ d[k] # DigitsByPlace(k, b)
  BY <1>8 DEF T
<1>10. k \div b # 0 => d[k \div b] = DigitsByPlace(k \div b, b)
  <2> SUFFICES ASSUME k \div b # 0 PROVE k \div b \notin T
    BY <1>1, <1>9 DEF T
  <2>1. k \div b \in Nat /\ ~ (k <= k \div b)
    BY <1>1, <1>9
  <2> QED
    BY <1>8, <2>1
<1>11. DigitsByPlace(k, b) = IF k \div b = 0 THEN <<digits_map[(k % b) + 1]>>
                             ELSE <<digits_map[(k % b) + 1]>> \o DigitsByPlace(k \div b, b)
  BY <1>9, DigitsDivide
<1>12. d[k] = IF k \div b = 0 THEN <<digits_map[(k % b) + 1]>>
              ELSE <<digits_map[(k % b) + 1]>> \o d[k \div b]
  BY <1>5, <1>9
<1> QED
  BY <1>9, <1>10, <1>11, <1>12

\* Written backwards, the digits are the numeral.
LEMMA NumeralWritten ==
  ASSUME NEW b \in 2 .. 16, NEW n \in Nat
  PROVE  /\ Backwards(DigitsBuffer(n, b)) = Numeral(n, b)
         /\ Numeral(n, b) \in Seq(Figures) /\ Len(Numeral(n, b)) > 0
<1>1. PICK l \in Nat \ {0}, D \in Seq(Figures) :
        /\ l = Places(n, b) /\ D = DigitsBuffer(n, b) /\ D = DigitsByPlace(n, b)
        /\ Len(D) = l
  <2>1. Places(n, b) \in Nat \ {0}
    BY PlacesFit
  <2>2. /\ DigitsByPlace(n, b) \in Seq(Figures)
        /\ Len(DigitsByPlace(n, b)) = Places(n, b)
        /\ DigitsBuffer(n, b) = DigitsByPlace(n, b)
    BY BufferIsDigits, DigitsDivide
  <2> QED
    BY <2>1, <2>2
<1>2. ASSUME NEW i \in 1 .. l
      PROVE  /\ l + 1 - i \in 1 .. l
             /\ D[l + 1 - i] = digits_map[((n \div Power(b, l - i)) % b) + 1]
  <2>1. l + 1 - i \in 1 .. l /\ l + 1 - i - 1 = l - i
    OBVIOUS
  <2>2. D[l + 1 - i] = Digit(n, b, l + 1 - i)
    BY <1>1, <2>1 DEF DigitsByPlace
  <2> QED
    BY <2>1, <2>2 DEF Digit
<1>3. Backwards(D) = [i \in 1 .. l |-> D[l + 1 - i]]
  BY <1>1 DEF Backwards
<1>4. Numeral(n, b) = [i \in 1 .. l |-> digits_map[((n \div Power(b, l - i)) % b) + 1]]
  BY <1>1 DEF Numeral
<1>5. Backwards(D) = Numeral(n, b)
  BY <1>2, <1>3, <1>4
<1>6. Backwards(D) \in [1 .. l -> Figures]
  BY SMTT(60), <1>1, <1>2, <1>3
<1>7. Backwards(D) \in Seq(Figures) /\ Len(Backwards(D)) = l
  BY <1>6
<1> QED
  BY <1>1, <1>5, <1>7

\* What a piece of a message is in the format, among the arguments, in the text that
\* is printed, and in the one that should be.
InFormat(p) == IF p.kind = "text" THEN p.text ELSE <<"%", p.kind>>
InArgs(p)   == CASE p.kind = "text" -> <<>>
                 [] p.kind = "s"    -> <<[word |-> 0, text |-> p.text]>>
                 [] OTHER           -> <<[word |-> Passed(p.type, p.value),
                                          text |-> <<FAULT>>]>>
InPrinted(p) == IF p.kind = "text" THEN p.text ELSE Convert(p.kind, InArgs(p)[1])
InMeant(p)  == CASE p.kind \in {"text", "s"} -> p.text
                 [] p.kind = "x" -> <<"0", "x">> \o Numeral(p.value, 16)
                 [] p.kind = "u" -> Numeral(p.value, 10)
                 [] p.kind = "d" -> IF p.value < 0 THEN <<"-">> \o Numeral(- p.value, 10)
                                    ELSE Numeral(p.value, 10)

\* The characters of a number, with sign and prefix.
NumberGlyphs == Figures \cup {"x", "-"}

\* Zero is a figure, and no number has a % in it.
LEMMA FiguresArePlain ==
  "%" \notin NumberGlyphs /\ "0" \in Figures
<1>1. \A i \in 1 .. 16 : digits_map[i] # "%"
  BY DEF digits_map
<1>2. digits_map[1] = "0" /\ 1 \in 1 .. 16
  BY DEF digits_map
<1> QED
  BY <1>1, <1>2 DEF Figures, NumberGlyphs

\* The word in which a number is passed, but for a negative int, is the number or, for a
\* negative one, what the machine's negation turns into its absolute value.
LEMMA WordPassed ==
  ASSUME NEW chars, NEW p \in Pieces(chars), Fits(p), p.kind \in {"x", "u", "d"},
         p.type = "int" => p.value >= 0
  PROVE  /\ p.value \in Int
         /\ p.value >= 0 => Passed(p.type, p.value) = p.value
         /\ p.value < 0 => /\ p.kind = "d"
                           /\ Passed(p.type, p.value) = p.value + LongModulus
                           /\ (- (p.value + LongModulus)) % LongModulus = - p.value
                           /\ p.value + LongModulus >= LongModulus \div 2
         /\ p.kind = "d" /\ p.value >= 0 => ~ (p.value >= LongModulus \div 2)
<1>1. PICK v \in Int : v = p.value
  BY DEF Pieces
<1>2. PICK M \in Nat \ {0} : M = LongModulus
  BY WordAssumption
<1>3. PICK N \in Nat \ {0} : N = IntModulus
  BY WordAssumption
<1>4. PICK H \in Nat : H = M \div 2 /\ M = H + H
  <2>1. M % 2 = 0
    BY <1>2, WordAssumption
  <2>2. M \div 2 \in Nat /\ M = M \div 2 + M \div 2
    BY <2>1
  <2> QED
    BY <2>2
<1>5. /\ p.kind \in {"x", "u"} => v \in 0 .. M - 1
      /\ p.kind = "d" => v \in - H .. H - 1
      /\ p.type = "int" => v \in 0 .. N - 1
  <2>1. N \div 2 \in Nat
    BY <1>3
  <2> QED
    BY <1>1, <1>2, <1>3, <1>4, <2>1 DEF Fits, Words
<1>6. v >= 0 => Passed(p.type, v) = v
  <2> SUFFICES ASSUME v >= 0 PROVE Passed(p.type, v) = v
    OBVIOUS
  <2>1. v \in 0 .. M - 1
    BY <1>4, <1>5
  <2>2. v % M = v
    BY <2>1, Wraps
  <2>3. p.type = "int" => v % N = v
    BY <1>5, Wraps
  <2> QED
    BY <1>2, <1>3, <2>2, <2>3 DEF Passed
<1>7. ASSUME v < 0
      PROVE  p.kind = "d" /\ Passed(p.type, v) = v + M /\ (- (v + M)) % M = - v /\ v + M >= H
  <2>1. p.kind = "d" /\ v \in - H .. H - 1 /\ p.type # "int"
    BY <1>5, <1>7
  <2>2. v \in - M .. -1
    BY <1>4, <1>7, <2>1
  <2>3. v % M = v + M
    BY <2>2, Wraps
  <2>4. - (v + M) \in Int /\ - (v + M) \in - M .. -1 /\ - (v + M) + M = - v
    BY <1>4, <1>7, <2>1
  <2>5. (- (v + M)) % M = - v
    BY <2>4, Wraps
  <2>6. v + M >= H
    BY <1>4, <2>1
  <2> QED
    BY <1>2, <2>1, <2>3, <2>5, <2>6 DEF Passed
<1>8. p.kind = "d" /\ v >= 0 => ~ (v >= H)
  BY <1>5
<1> QED
  BY <1>1, <1>2, <1>4, <1>6, <1>7, <1>8

\* A sequence with another in front of it.
LEMMA JoinTwo ==
  ASSUME NEW S, NEW s \in Seq(S), NEW t \in Seq(S)
  PROVE  /\ s \o t \in Seq(S) /\ Len(s \o t) = Len(s) + Len(t)
         /\ Len(s) \in Nat /\ Len(t) \in Nat
         /\ \A i \in 1 .. Len(s) : (s \o t)[i] = s[i]
         /\ \A i \in 1 .. Len(t) : (s \o t)[Len(s) + i] = t[i]
OBVIOUS

\* Words: what a number is passed in, and what the machine's negation gives.
LEMMA WordsHold ==
  /\ \A n \in Int : \A type : Passed(type, n) \in Words
  /\ Words \subseteq Nat /\ \A w \in Words : (- w) % LongModulus \in Nat
<1>1. PICK M \in Nat \ {0}, N \in Nat \ {0} : M = LongModulus /\ N = IntModulus /\ N <= M
  <2>1. PICK M \in Nat \ {0}, N \in Nat \ {0} : M = LongModulus /\ N = IntModulus
    BY WordAssumption
  <2>2. N <= M \div 2 /\ M \div 2 <= M
    BY <2>1, WordAssumption
  <2> QED
    BY <2>1, <2>2
<1>2. ASSUME NEW n \in Int PROVE n % M \in 0 .. M - 1 /\ n % N \in 0 .. M - 1
  <2>1. n % M \in 0 .. M - 1 /\ n % N \in 0 .. N - 1
    OBVIOUS
  <2>2. \A x \in 0 .. N - 1 : x \in 0 .. M - 1
    BY <1>1
  <2> QED
    BY <2>1, <2>2
<1>3. ASSUME NEW n \in Int, NEW type PROVE Passed(type, n) \in Words
  <2>1. Passed(type, n) = n % N \/ Passed(type, n) = n % M
    BY <1>1 DEF Passed
  <2> QED
    BY <1>1, <1>2, <2>1 DEF Words
<1>4. Words \subseteq Nat
  BY <1>1 DEF Words
<1>5. ASSUME NEW w \in Words PROVE (- w) % LongModulus \in Nat
  <2>1. PICK n \in Int : n = - w
    BY <1>4
  <2>2. n % M \in Nat
    BY <1>2
  <2> QED
    BY <1>1, <2>1, <2>2
<1> QED
  BY <1>3, <1>4, <1>5

\* Every conversion of a word prints a number.
LEMMA WordPrinted ==
  ASSUME NEW kind \in {"x", "u", "d"}, NEW given, given.word \in Words
  PROVE  Convert(kind, given) \in Seq(NumberGlyphs)
<1>1. ASSUME NEW n \in Nat, NEW b \in {10, 16}
      PROVE  Backwards(DigitsBuffer(n, b)) \in Seq(NumberGlyphs)
  <2>1. b \in 2 .. 16
    BY <1>1
  <2>2. Backwards(DigitsBuffer(n, b)) \in Seq(Figures)
    BY <2>1, NumeralWritten
  <2> QED
    BY <2>2 DEF NumberGlyphs
<1>2. given.word \in Nat /\ (- given.word) % LongModulus \in Nat
  BY WordsHold
<1>3. CASE kind = "x"
  <2>1. <<"0", "x">> \in Seq(NumberGlyphs)
    BY FiguresArePlain DEF NumberGlyphs
  <2>2. PICK s \in Seq(NumberGlyphs) : s = Backwards(DigitsBuffer(given.word, 16))
    BY <1>1, <1>2
  <2>3. <<"0", "x">> \o s \in Seq(NumberGlyphs)
    BY <2>1, JoinTwo
  <2> QED
    BY <1>3, <2>2, <2>3 DEF Convert, WriteHexToBuffer
<1>4. CASE kind = "u"
  BY <1>1, <1>2, <1>4 DEF Convert, WriteUDecimalToBuffer
<1>5. CASE kind = "d"
  <2>1. <<"-">> \in Seq(NumberGlyphs)
    BY DEF NumberGlyphs
  <2>2. PICK s \in Seq(NumberGlyphs) :
          s = Backwards(DigitsBuffer((- given.word) % LongModulus, 10))
    BY <1>1, <1>2
  <2>3. <<"-">> \o s \in Seq(NumberGlyphs)
    BY <2>1, JoinTwo
  <2>4. Backwards(DigitsBuffer(given.word, 10)) \in Seq(NumberGlyphs)
    BY <1>1, <1>2
  <2> QED
    BY <1>5, <2>2, <2>3, <2>4 DEF Convert, WriteDecimalToBuffer, WriteUDecimalToBuffer
<1> QED
  BY <1>3, <1>4, <1>5

\* Every conversion of a number but a negative int prints its numeral.
LEMMA NumberConverted ==
  ASSUME NEW chars, NEW p \in Pieces(chars), Fits(p), p.kind \in {"x", "u", "d"},
         p.type = "int" => p.value >= 0, NEW given, given.word = Passed(p.type, p.value)
  PROVE  Convert(p.kind, given) = InMeant(p)
<1>1. /\ p.value \in Int
      /\ p.value >= 0 => given.word = p.value
      /\ p.value < 0 => /\ p.kind = "d"
                        /\ given.word = p.value + LongModulus
                        /\ (- (p.value + LongModulus)) % LongModulus = - p.value
                        /\ p.value + LongModulus >= LongModulus \div 2
      /\ p.kind = "d" /\ p.value >= 0 => ~ (p.value >= LongModulus \div 2)
  BY WordPassed
<1>2. ASSUME NEW n \in Nat, NEW b \in {10, 16}
      PROVE  Backwards(DigitsBuffer(n, b)) = Numeral(n, b)
  <2>1. b \in 2 .. 16
    BY <1>2
  <2> QED
    BY <2>1, NumeralWritten
<1>3. CASE p.value >= 0
  <2>1. p.value \in Nat /\ ~ (p.value < 0) /\ given.word = p.value
    BY <1>1, <1>3
  <2>2. CASE p.kind = "x"
    BY <1>2, <2>1, <2>2 DEF Convert, WriteHexToBuffer, InMeant
  <2>3. CASE p.kind = "u"
    BY <1>2, <2>1, <2>3 DEF Convert, WriteUDecimalToBuffer, InMeant
  <2>4. CASE p.kind = "d"
    <3>1. Convert(p.kind, given) = Backwards(DigitsBuffer(p.value, 10))
      BY <1>1, <1>3, <2>1, <2>4 DEF Convert, WriteDecimalToBuffer, WriteUDecimalToBuffer
    <3> QED
      BY <1>2, <2>1, <2>4, <3>1 DEF InMeant
  <2> QED
    BY <2>2, <2>3, <2>4
<1>4. CASE p.value < 0
  <2>1. - p.value \in Nat /\ p.kind = "d"
    BY <1>1, <1>4
  <2>2. PICK w : w = p.value + LongModulus
    OBVIOUS
  <2>3. /\ given.word = w /\ (- w) % LongModulus = - p.value
        /\ w >= LongModulus \div 2
    BY <1>1, <1>4, <2>2
  <2>4. Convert(p.kind, given) = <<"-">> \o Backwards(DigitsBuffer(- p.value, 10))
    BY <2>1, <2>3 DEF Convert, WriteDecimalToBuffer, WriteUDecimalToBuffer
  <2> QED
    BY <1>2, <1>4, <2>1, <2>4 DEF InMeant
<1> QED
  BY <1>1, <1>3, <1>4

-----------------------------------------------------------------------------
(* Formats.                                                                *)

\* What is left of a text.
Rest(f, i) == [j \in 1 .. Len(f) + 1 - i |-> f[j + i - 1]]

\* One turn of the loop over the format, when t is the text from any place on.
Turn(f, args, t, i, a) ==
  IF i > Len(f) THEN <<>>
  ELSE IF f[i] # "%" THEN <<f[i]>> \o t[<<i + 1, a>>]
  ELSE IF Asks(f, i)
       THEN Convert(f[i + 1], args[a]) \o t[<<i + 2, a + 1>>]
  ELSE <<"%">> \o t[<<i + 1, a>>]

\* t is what the loop computes.
Solves(f, args, t) ==
  t = [at \in (1 .. Len(f) + 1) \X Nat |-> Turn(f, args, t, at[1], at[2])]

\* One turn of the loop looks ahead only.
LEMMA TurnLooksAhead ==
  ASSUME NEW f, Len(f) \in Nat, NEW args, NEW t, NEW u, NEW i \in 1 .. Len(f) + 1, NEW a \in Nat,
         i <= Len(f) => t[<<i + 1, a>>] = u[<<i + 1, a>>],
         i < Len(f) => t[<<i + 2, a + 1>>] = u[<<i + 2, a + 1>>]
  PROVE  Turn(f, args, t, i, a) = Turn(f, args, u, i, a)
<1>1. CASE i > Len(f)
  BY <1>1 DEF Turn
<1>2. CASE i <= Len(f) /\ f[i] # "%"
  BY <1>2 DEF Turn
<1>3. CASE i <= Len(f) /\ f[i] = "%" /\ Asks(f, i)
  <2>1. i < Len(f)
    BY <1>3 DEF Asks
  <2> QED
    BY <1>3, <2>1 DEF Turn
<1>4. CASE i <= Len(f) /\ f[i] = "%" /\ ~ Asks(f, i)
  BY <1>4 DEF Turn
<1> QED
  BY <1>1, <1>2, <1>3, <1>4

\* The loop is well defined: it computes something for every format.
LEMMA LoopDefined ==
  ASSUME NEW f, Len(f) \in Nat, NEW args
  PROVE  \E t : Solves(f, args, t)
<1> DEFINE From(s, t) == t = [at \in (s .. Len(f) + 1) \X Nat |-> Turn(f, args, t, at[1], at[2])]
           T == {k \in Nat : k <= Len(f) /\ ~ \E t : From(Len(f) + 1 - k, t)}
<1>1. SUFFICES ASSUME T # {} PROVE FALSE
  <2>1. Len(f) \notin T
    BY <1>1
  <2>2. Len(f) + 1 - Len(f) = 1 /\ Len(f) <= Len(f)
    OBVIOUS
  <2>3. \E t : From(1, t)
    BY <2>1, <2>2
  <2> QED
    BY <2>3 DEF Solves
<1>2. T \subseteq Nat
  OBVIOUS
<1> HIDE DEF T
<1>3. PICK k \in T : \A y \in T : k <= y
  BY <1>1, <1>2, LeastNatural
<1>4. PICK s \in Nat : s = Len(f) + 1 - k /\ s \in 1 .. Len(f) + 1
  <2>1. k \in Nat /\ k <= Len(f)
    BY <1>3 DEF T
  <2>2. Len(f) + 1 - k \in Nat /\ Len(f) + 1 - k \in 1 .. Len(f) + 1
    BY <2>1
  <2> QED
    BY <2>2
<1>5. k \in Nat /\ k <= Len(f) /\ ~ \E t : From(s, t)
  BY <1>3, <1>4 DEF T
<1>6. CASE k = 0
  <2> DEFINE t == [at \in (s .. Len(f) + 1) \X Nat |-> <<>>]
  <2>1. ASSUME NEW at \in (s .. Len(f) + 1) \X Nat
        PROVE  Turn(f, args, t, at[1], at[2]) = <<>>
    <3>1. at[1] > Len(f)
      BY <1>4, <1>6, <2>1
    <3> QED
      BY <3>1 DEF Turn
  <2>2. From(s, t)
    BY <2>1
  <2> QED
    BY <1>5, <2>2
<1>7. CASE k # 0
  <2>1. k - 1 \in Nat /\ k - 1 <= Len(f) /\ ~ (k <= k - 1) /\ Len(f) + 1 - (k - 1) = s + 1
        /\ s <= Len(f)
    BY <1>4, <1>5, <1>7
  <2>2. PICK t : From(s + 1, t)
    <3>1. k - 1 \notin T
      BY <1>3, <2>1
    <3> QED
      BY <2>1, <3>1 DEF T
  <2> DEFINE u == [at \in (s .. Len(f) + 1) \X Nat |->
                     IF at[1] = s THEN Turn(f, args, t, at[1], at[2]) ELSE t[at]]
  <2>3. ASSUME NEW i \in s + 1 .. Len(f) + 1, NEW a \in Nat
        PROVE  u[<<i, a>>] = t[<<i, a>>] /\ t[<<i, a>>] = Turn(f, args, t, i, a)
    <3>1. i \in s .. Len(f) + 1 /\ i # s
      BY <1>4, <2>3
    <3>2. u[<<i, a>>] = t[<<i, a>>]
      BY <3>1
    <3>3. t[<<i, a>>] = Turn(f, args, t, i, a)
      BY <2>2
    <3> QED
      BY <3>2, <3>3
  <2>4. ASSUME NEW i \in s .. Len(f) + 1, NEW a \in Nat
        PROVE  Turn(f, args, u, i, a) = Turn(f, args, t, i, a)
    <3> HIDE DEF u
    <3>1. i \in 1 .. Len(f) + 1
      BY <1>4, <2>4
    <3>2. i <= Len(f) => u[<<i + 1, a>>] = t[<<i + 1, a>>]
      <4>1. i <= Len(f) => i + 1 \in s + 1 .. Len(f) + 1
        BY <1>4, <2>4
      <4> QED
        BY <2>3, <4>1
    <3>3. i < Len(f) => u[<<i + 2, a + 1>>] = t[<<i + 2, a + 1>>]
      <4>1. i < Len(f) => i + 2 \in s + 1 .. Len(f) + 1 /\ a + 1 \in Nat
        BY <1>4, <2>4
      <4> QED
        BY <2>3, <4>1
    <3> QED
      BY ZenonT(60), <2>4, <3>1, <3>2, <3>3, TurnLooksAhead
  <2>5. ASSUME NEW at \in (s .. Len(f) + 1) \X Nat
        PROVE  u[at] = Turn(f, args, u, at[1], at[2])
    <3>1. PICK i \in s .. Len(f) + 1, a \in Nat : at = <<i, a>>
      BY <2>5
    <3>2. Turn(f, args, u, i, a) = Turn(f, args, t, i, a)
      BY <2>4
    <3>3. CASE i = s
      <4>1. u[at] = Turn(f, args, t, i, a)
        BY <3>1, <3>3
      <4> HIDE DEF u
      <4> QED
        BY <3>1, <3>2, <4>1
    <3>4. CASE i # s
      <4>1. i \in s + 1 .. Len(f) + 1
        BY <1>4, <3>4
      <4> HIDE DEF u
      <4>2. u[<<i, a>>] = t[<<i, a>>] /\ t[<<i, a>>] = Turn(f, args, t, i, a)
        BY <2>3, <4>1
      <4> QED
        BY <3>1, <3>2, <4>2
    <3> QED
      BY <3>3, <3>4
  <2>6. u = [at \in (s .. Len(f) + 1) \X Nat |-> u[at]]
    OBVIOUS
  <2> HIDE DEF u
  <2>7. From(s, u)
    BY <2>5, <2>6
  <2> QED
    BY <1>5, <2>7
<1> QED
  BY <1>6, <1>7

\* t is a run of the loop over format f.
Runs(f, args, t) == \A i \in 1 .. Len(f) + 1, a \in Nat : t[<<i, a>>] = Turn(f, args, t, i, a)

\* The loop computes what its recursion says.
LEMMA LoopComputes ==
  ASSUME NEW f, Len(f) \in Nat, NEW args
  PROVE  \E t : Formatted(f, args) = t[<<1, 1>>] /\ Runs(f, args, t)
<1> DEFINE t == CHOOSE t : Solves(f, args, t)
<1>1. Formatted(f, args) = t[<<1, 1>>]
  BY DEF Formatted, Solves, Turn
<1>2. Solves(f, args, t)
  BY LoopDefined, Zenon
<1> HIDE DEF t
<1>3. t = [at \in (1 .. Len(f) + 1) \X Nat |-> Turn(f, args, t, at[1], at[2])]
  BY <1>2 DEF Solves
<1>4. Runs(f, args, t)
  BY <1>3 DEF Runs
<1> QED
  BY <1>1, <1>4

\* What is left of a text is its first character and what is left then.
LEMMA RestUnfolds ==
  ASSUME NEW S, NEW f \in Seq(S)
  PROVE  /\ Rest(f, Len(f) + 1) = <<>>
         /\ Rest(f, 1) = f
         /\ \A i \in 1 .. Len(f) : <<f[i]>> \o Rest(f, i + 1) = Rest(f, i)
<1>1. Len(f) \in Nat /\ f = [j \in 1 .. Len(f) |-> f[j]]
  OBVIOUS
<1>2. Rest(f, Len(f) + 1) = <<>> /\ Rest(f, 1) = f
  BY <1>1 DEF Rest
<1>3. ASSUME NEW i \in 1 .. Len(f)
      PROVE  <<f[i]>> \o Rest(f, i + 1) = Rest(f, i)
  <2>1. f[i] \in S /\ \A j \in 1 .. Len(f) : f[j] \in S
    BY <1>3
  <2>2. /\ Rest(f, i) \in Seq(S) /\ Len(Rest(f, i)) = Len(f) + 1 - i
        /\ Rest(f, i + 1) \in Seq(S) /\ Len(Rest(f, i + 1)) = Len(f) - i
    <3>1. ASSUME NEW k \in 1 .. Len(f) + 1
          PROVE  Rest(f, k) \in Seq(S) /\ Len(Rest(f, k)) = Len(f) + 1 - k
      <4>1. PICK n \in Nat : n = Len(f) + 1 - k
        BY <1>1, <3>1
      <4>2. \A j \in 1 .. n : f[j + k - 1] \in S
        BY <1>1, <2>1, <3>1, <4>1
      <4>3. Rest(f, k) = [j \in 1 .. n |-> f[j + k - 1]]
        BY <4>1 DEF Rest
      <4>4. Rest(f, k) \in [1 .. n -> S]
        BY <4>2, <4>3
      <4>5. Rest(f, k) \in Seq(S) /\ Len(Rest(f, k)) = n
        BY <4>4
      <4> QED
        BY <4>1, <4>5
    <3>2. i \in 1 .. Len(f) + 1 /\ i + 1 \in 1 .. Len(f) + 1
      BY <1>1, <1>3
    <3>3. Len(f) + 1 - (i + 1) = Len(f) - i
      BY <1>1, <1>3
    <3> QED
      BY <3>1, <3>2, <3>3
  <2>3. <<f[i]>> \in Seq(S) /\ Len(<<f[i]>>) = 1
    BY <2>1
  <2> DEFINE g == <<f[i]>> \o Rest(f, i + 1)
  <2>4. g \in Seq(S) /\ Len(g) = Len(f) + 1 - i
    BY <1>1, <1>3, <2>2, <2>3
  <2>5. ASSUME NEW j \in 1 .. Len(f) + 1 - i PROVE g[j] = Rest(f, i)[j]
    <3>1. Rest(f, i)[j] = f[j + i - 1]
      BY <2>5 DEF Rest
    <3>2. CASE j = 1
      BY <1>1, <1>3, <2>2, <2>3, <3>1, <3>2
    <3>3. CASE j # 1
      <4>1. j - 1 \in 1 .. Len(f) + 1 - (i + 1)
        BY <1>1, <1>3, <2>5, <3>3
      <4>2. Rest(f, i + 1)[j - 1] = f[(j - 1) + (i + 1) - 1]
        BY <4>1 DEF Rest
      <4>3. g[j] = Rest(f, i + 1)[j - 1]
        BY <1>1, <1>3, <2>2, <2>3, <2>5, <3>3
      <4>4. (j - 1) + (i + 1) - 1 = j + i - 1
        BY <1>1, <1>3, <2>5
      <4> QED
        BY <3>1, <4>2, <4>3, <4>4
    <3> QED
      BY <3>2, <3>3
  <2> HIDE DEF g
  <2>6. g = Rest(f, i)
    BY <2>2, <2>4, <2>5, SeqEqual
  <2> QED
    BY <2>6 DEF g
<1> QED
  BY <1>2, <1>3

\* A text without conversions is printed as it is when it passes printk a second
\* time, on its way through write().
LEMMA PlainIsCopied ==
  ASSUME NEW S, NEW f \in Seq(S), NEW args, AsksForNothing(f)
  PROVE  Formatted(f, args) = f
<1>1. Len(f) \in Nat
  OBVIOUS
<1>2. /\ Rest(f, Len(f) + 1) = <<>> /\ Rest(f, 1) = f
      /\ \A i \in 1 .. Len(f) : <<f[i]>> \o Rest(f, i + 1) = Rest(f, i)
  BY RestUnfolds
<1>3. ASSUME NEW i \in 1 .. Len(f) + 1, NEW a \in Nat, NEW t,
             i <= Len(f) => t[<<i + 1, a>>] = Rest(f, i + 1)
      PROVE  Turn(f, args, t, i, a) = Rest(f, i)
  <2>1. CASE i = Len(f) + 1
    BY <1>1, <1>2, <2>1 DEF Turn
  <2>2. CASE i <= Len(f)
    <3>1. i \in 1 .. Len(f) /\ t[<<i + 1, a>>] = Rest(f, i + 1)
      BY <1>1, <1>3, <2>2
    <3>2. ~ Asks(f, i)
      BY <3>1 DEF AsksForNothing
    <3>3. ~ (i > Len(f))
      BY <1>1, <3>1
    <3>4. Turn(f, args, t, i, a) = <<f[i]>> \o t[<<i + 1, a>>]
      <4>1. CASE f[i] = "%"
        BY <3>2, <3>3, <4>1 DEF Turn
      <4>2. CASE f[i] # "%"
        BY <3>3, <4>2 DEF Turn
      <4> QED
        BY <4>1, <4>2
    <3> QED
      BY <1>2, <3>1, <3>4
  <2> QED
    BY <1>1, <2>1, <2>2
<1>4. PICK t : Formatted(f, args) = t[<<1, 1>>] /\ Runs(f, args, t)
  BY <1>1, LoopComputes
<1> DEFINE T == {n \in Nat : /\ n <= Len(f)
                             /\ \E a \in Nat : t[<<Len(f) + 1 - n, a>>]
                                                 # Rest(f, Len(f) + 1 - n)}
<1>5. T = {}
  <2>1. SUFFICES ASSUME T # {} PROVE FALSE
    OBVIOUS
  <2>2. T \subseteq Nat
    OBVIOUS
  <2> HIDE DEF T
  <2>3. PICK m \in T : \A k \in T : m <= k
    BY <2>1, <2>2, LeastNatural
  <2>4. PICK a \in Nat : t[<<Len(f) + 1 - m, a>>] # Rest(f, Len(f) + 1 - m)
    BY <2>3 DEF T
  <2> DEFINE i == Len(f) + 1 - m
  <2>5. m \in Nat /\ m <= Len(f) /\ i \in 1 .. Len(f) + 1
    BY <1>1, <2>3 DEF T
  <2>6. i <= Len(f) => t[<<i + 1, a>>] = Rest(f, i + 1)
    <3>1. CASE m = 0
      BY <1>1, <3>1
    <3>2. CASE m # 0
      <4>1. m - 1 \in Nat /\ m - 1 <= Len(f) /\ ~ (m <= m - 1)
        BY <1>1, <2>5, <3>2
      <4>2. m - 1 \notin T
        BY <2>3, <4>1
      <4>3. Len(f) + 1 - (m - 1) = i + 1
        BY <1>1, <2>5
      <4> QED
        BY <2>4, <4>1, <4>2, <4>3 DEF T
    <3> QED
      BY <3>1, <3>2
  <2>7. t[<<i, a>>] = Rest(f, i)
    <3>1. t[<<i, a>>] = Turn(f, args, t, i, a)
      BY <1>4, <2>5 DEF Runs
    <3> QED
      BY <1>3, <2>5, <2>6, <3>1
  <2> QED
    BY <2>4, <2>7
<1>6. \A n \in Nat : n <= n /\ n + 1 - n = 1
  OBVIOUS
<1>7. t[<<1, 1>>] = Rest(f, 1)
  <2>1. Len(f) \notin T
    BY <1>5
  <2>2. ~ \E a \in Nat : t[<<Len(f) + 1 - Len(f), a>>] # Rest(f, Len(f) + 1 - Len(f))
    BY <1>1, <1>6, <2>1
  <2>3. Len(f) + 1 - Len(f) = 1 /\ 1 \in Nat
    BY <1>1, <1>6
  <2> QED
    BY <2>2, <2>3
<1> QED
  BY <1>2, <1>4, <1>7

-----------------------------------------------------------------------------
(* Messages.                                                               *)

\* x is s with r behind it.
Follows(x, s, r) == x = s \o r

\* j joins one sequence after the other, as in Joined.
IsJoin(seqs, n, j) == j = [i \in 0 .. n |-> IF i = 0 THEN <<>> ELSE j[i - 1] \o seqs[i]]

\* There is such a function.
LEMMA JoinDefined ==
  ASSUME NEW seqs, NEW n \in Nat
  PROVE  \E j : IsJoin(seqs, n, j)
<1> DEFINE T == {x \in Nat : ~ \E j : IsJoin(seqs, x, j)}
<1>1. SUFFICES ASSUME T # {} PROVE FALSE
  OBVIOUS
<1>2. T \subseteq Nat
  OBVIOUS
<1> HIDE DEF T
<1>3. PICK x \in T : \A y \in T : x <= y
  BY <1>1, <1>2, LeastNatural
<1>4. x \in Nat /\ ~ \E j : IsJoin(seqs, x, j)
  BY <1>3 DEF T
<1>5. CASE x = 0
  <2> DEFINE q == [i \in 0 .. x |-> <<>>]
  <2>1. IsJoin(seqs, x, q)
    BY <1>5 DEF IsJoin
  <2> QED
    BY <1>4, <2>1
<1>6. CASE x # 0
  <2>1. x - 1 \in Nat /\ ~ (x <= x - 1)
    BY <1>4, <1>6
  <2>2. x - 1 \notin T
    BY <1>3, <2>1
  <2>3. PICK j : IsJoin(seqs, x - 1, j)
    BY <2>1, <2>2 DEF T
  <2> DEFINE q == [i \in 0 .. x |-> IF i = x THEN j[x - 1] \o seqs[x] ELSE j[i]]
  <2>4. \A i \in 0 .. x - 1 : j[i] = IF i = 0 THEN <<>> ELSE j[i - 1] \o seqs[i]
    BY <2>3 DEF IsJoin
  <2>5. ASSUME NEW i \in 0 .. x PROVE q[i] = IF i = 0 THEN <<>> ELSE q[i - 1] \o seqs[i]
    <3>1. CASE i = x
      <4>1. x - 1 \in 0 .. x /\ x - 1 # x /\ x \in 0 .. x
        BY <1>4, <1>6
      <4> QED
        BY <1>6, <3>1, <4>1
    <3>2. CASE i # x /\ i # 0
      <4>1. i \in 0 .. x - 1 /\ i - 1 \in 0 .. x /\ i - 1 # x
        BY <1>4, <2>5, <3>2
      <4> QED
        BY <2>4, <3>2, <4>1
    <3>3. CASE i = 0
      <4>1. i \in 0 .. x - 1 /\ i # x
        BY <1>4, <1>6, <3>3
      <4> QED
        BY <2>4, <3>3, <4>1
    <3> QED
      BY <3>1, <3>2, <3>3
  <2>6. q = [i \in 0 .. x |-> q[i]]
    OBVIOUS
  <2> HIDE DEF q
  <2>7. IsJoin(seqs, x, q)
    BY <2>5, <2>6 DEF IsJoin
  <2> QED
    BY <1>4, <2>7
<1> QED
  BY <1>5, <1>6

\* The sequences that are joined so far are the beginning of the whole.
Begins(s, whole) == /\ Len(s) <= Len(whole)
                    /\ \A k \in 1 .. Len(s) : whole[k] = s[k]

\* j holds what is put together after every sequence.
Assembled(j, seqs, n, S) ==
  /\ j[0] = <<>>
  /\ \A i \in 0 .. n : j[i] \in Seq(S) /\ Begins(j[i], j[n])
  /\ \A i \in 1 .. n : Follows(j[i], j[i - 1], seqs[i])

\* Joined puts sequence after sequence, and what is put together stays.
LEMMA JoinedStepwise ==
  ASSUME NEW S, NEW seqs, NEW n \in Nat, Len(seqs) = n, \A i \in 1 .. n : seqs[i] \in Seq(S)
  PROVE  \E j : Joined(seqs) = j[n] /\ Assembled(j, seqs, n, S)
<1> DEFINE j == CHOOSE j : IsJoin(seqs, n, j)
<1>1. IsJoin(seqs, n, j)
  BY JoinDefined, Zenon
<1>2. Joined(seqs) = j[n]
  BY DEF Joined, IsJoin
<1> HIDE DEF j
<1>3. j[0] = <<>> /\ \A i \in 1 .. n : j[i] = j[i - 1] \o seqs[i]
  <2>1. \A i \in 0 .. n : j[i] = IF i = 0 THEN <<>> ELSE j[i - 1] \o seqs[i]
    BY <1>1, Zenon DEF IsJoin
  <2>2. 0 \in 0 .. n /\ \A i \in 1 .. n : i \in 0 .. n /\ i # 0
    OBVIOUS
  <2> QED
    BY <2>1, <2>2
<1>4. ASSUME NEW k \in 0 .. n PROVE j[k] \in Seq(S)
  <2> DEFINE T == {x \in Nat : x <= n /\ j[x] \notin Seq(S)}
  <2>1. SUFFICES ASSUME T # {} PROVE FALSE
    OBVIOUS
  <2>2. T \subseteq Nat
    OBVIOUS
  <2> HIDE DEF T
  <2>3. PICK x \in T : \A y \in T : x <= y
    BY <2>1, <2>2, LeastNatural
  <2>4. x \in Nat /\ x <= n /\ j[x] \notin Seq(S)
    BY <2>3 DEF T
  <2>5. x # 0
    <3>1. <<>> \in Seq(S)
      OBVIOUS
    <3> QED
      BY <1>3, <2>4, <3>1
  <2>6. x - 1 \in Nat /\ x - 1 <= n /\ ~ (x <= x - 1) /\ x \in 1 .. n
    BY <2>4, <2>5
  <2>7. j[x - 1] \in Seq(S)
    BY <2>3, <2>6 DEF T
  <2>8. j[x - 1] \o seqs[x] \in Seq(S)
    BY <2>6, <2>7, JoinTwo
  <2> QED
    BY <1>3, <2>4, <2>6, <2>8
<1>5. ASSUME NEW k \in 0 .. n PROVE Begins(j[k], j[n])
  <2> DEFINE T == {x \in Nat : x <= n /\ ~ Begins(j[n - x], j[n])}
  <2>1. n - k \in Nat /\ n - k <= n /\ n - (n - k) = k
    BY <1>5
  <2>2. SUFFICES ASSUME T # {} PROVE FALSE
    BY <2>1
  <2>3. T \subseteq Nat
    OBVIOUS
  <2> HIDE DEF T
  <2>4. PICK x \in T : \A y \in T : x <= y
    BY <2>2, <2>3, LeastNatural
  <2>5. x \in Nat /\ x <= n /\ ~ Begins(j[n - x], j[n])
    BY <2>4 DEF T
  <2>6. CASE x = 0
    <3>1. j[n] \in Seq(S) /\ n - x = n
      BY <1>4, <2>6
    <3> QED
      BY <2>5, <3>1 DEF Begins
  <2>7. CASE x # 0
    <3>1. PICK i \in 1 .. n : i = n - (x - 1) /\ i - 1 = n - x /\ i - 1 \in 0 .. n /\ i \in 0 .. n
      <4>1. n - (x - 1) \in 1 .. n /\ n - (x - 1) - 1 = n - x
        BY <2>5, <2>7
      <4> QED
        BY <4>1
    <3>2. x - 1 \in Nat /\ x - 1 <= n /\ ~ (x <= x - 1)
      BY <2>5, <2>7
    <3>3. Begins(j[i], j[n])
      BY <2>4, <3>1, <3>2 DEF T
    <3>4. PICK s \in Seq(S), t \in Seq(S) : s = j[i - 1] /\ t = seqs[i] /\ j[i] = s \o t
      BY <1>3, <1>4, <3>1
    <3>5. /\ Len(s \o t) = Len(s) + Len(t) /\ Len(s) \in Nat /\ Len(t) \in Nat
          /\ \A y \in 1 .. Len(s) : (s \o t)[y] = s[y]
      BY JoinTwo
    <3>6. PICK w \in Seq(S) : w = j[n]
      BY <1>4
    <3>7. Begins(s, w)
      <4>1. Len(s \o t) <= Len(w) /\ \A z \in 1 .. Len(s \o t) : w[z] = (s \o t)[z]
        BY <3>3, <3>4, <3>6 DEF Begins
      <4>2. Len(w) \in Nat /\ \A z \in 1 .. Len(s) : z \in 1 .. Len(s \o t)
        BY <3>5
      <4>3. Len(s) <= Len(w)
        BY <3>5, <4>1, <4>2
      <4> QED
        BY <3>5, <4>1, <4>2, <4>3 DEF Begins
    <3> QED
      BY <2>5, <3>1, <3>4, <3>6, <3>7
  <2> QED
    BY <2>6, <2>7
<1>6. Assembled(j, seqs, n, S)
  BY <1>3, <1>4, <1>5 DEF Assembled, Follows
<1> QED
  BY <1>2, <1>6

\* Joining is associative.
LEMMA JoinAssociates ==
  ASSUME NEW S, NEW s \in Seq(S), NEW t \in Seq(S), NEW u \in Seq(S)
  PROVE  s \o (t \o u) = (s \o t) \o u
<1>1. (s \o t) \o u = s \o (t \o u)
  BY ConcatAssociative
<1> QED
  BY <1>1

\* What is left of a text, with more behind it.
LEMMA RestJoins ==
  ASSUME NEW S, NEW s \in Seq(S), NEW y \in 1 .. Len(s), NEW r \in Seq(S)
  PROVE  Follows(Rest(s, y) \o r, <<s[y]>>, Rest(s, y + 1) \o r)
<1>1. PICK l \in Nat : l = Len(s)
  OBVIOUS
<1>2. \A i \in 1 .. l : <<s[i]>> \o Rest(s, i + 1) = Rest(s, i)
  BY <1>1, RestUnfolds
<1>3. ASSUME NEW z \in 1 .. l + 1 PROVE Rest(s, z) \in Seq(S)
  <2>1. PICK h \in Nat : h = l + 1 - z
    <3>1. l + 1 - z \in Nat
      BY <1>3
    <3> QED
      BY <3>1
  <2>2. \A i \in 1 .. h : s[i + z - 1] \in S
    <3> SUFFICES ASSUME NEW i \in 1 .. h PROVE s[i + z - 1] \in S
      OBVIOUS
    <3>1. i + z - 1 \in 1 .. Len(s)
      BY <1>1, <1>3, <2>1
    <3> QED
      BY <3>1
  <2>3. Rest(s, z) = [i \in 1 .. h |-> s[i + z - 1]]
    BY <1>1, <2>1 DEF Rest
  <2>4. Rest(s, z) \in [1 .. h -> S]
    BY <2>2, <2>3
  <2>5. Rest(s, z) \in Seq(S) /\ Len(Rest(s, z)) = h
    BY <2>4
  <2> QED
    BY <2>5
<1>4. PICK e \in Seq(S) : e = <<s[y]>>
  <2>1. s[y] \in S
    OBVIOUS
  <2>2. <<s[y]>> \in Seq(S)
    BY <2>1
  <2> QED
    BY <2>2
<1>5. PICK g \in Seq(S) : g = Rest(s, y + 1)
  BY <1>1, <1>3
<1>6. e \o (g \o r) = (e \o g) \o r
  BY SMTT(60), JoinAssociates
<1>7. e \o g = Rest(s, y)
  BY <1>1, <1>2, <1>4, <1>5
<1> QED
  BY <1>4, <1>5, <1>6, <1>7 DEF Follows

\* s stands in f behind the first b characters.
Contains(f, b, s) == b + Len(s) <= Len(f) /\ \A k \in 1 .. Len(s) : f[b + k] = s[k]

\* At character b + 1 and argument a, the loop comes to the text s.
AtText(f, args, t, S, s, b, a) ==
  /\ Len(f) \in Nat /\ Runs(f, args, t)
  /\ s \in Seq(S) /\ b \in Nat /\ a \in Nat /\ Contains(f, b, s)
  /\ \A k \in 1 .. Len(s) : s[k] # "%"
  /\ t[<<b + Len(s) + 1, a>>] \in Seq(S)

\* A piece of text in a format is copied, if there is no % in it.
LEMMA TextCopied ==
  ASSUME NEW f, NEW args, NEW t, NEW S, NEW s, NEW b, NEW a,
         AtText(f, args, t, S, s, b, a)
  PROVE  Follows(t[<<b + 1, a>>], s, t[<<b + Len(s) + 1, a>>])
<1> SUFFICES ASSUME Len(f) \in Nat, Runs(f, args, t), s \in Seq(S), b \in Nat, a \in Nat,
                    Contains(f, b, s), \A k \in 1 .. Len(s) : s[k] # "%",
                    t[<<b + Len(s) + 1, a>>] \in Seq(S)
             PROVE  t[<<b + 1, a>>] = s \o t[<<b + Len(s) + 1, a>>]
  BY DEF AtText, Follows
<1>1. PICK l \in Nat : l = Len(s)
  OBVIOUS
<1>0. PICK r \in Seq(S) : r = t[<<b + l + 1, a>>]
  BY <1>1
<1>2. s \in Seq(S)
  OBVIOUS
<1>3. /\ Rest(s, l + 1) = <<>> /\ Rest(s, 1) = s
      /\ \A i \in 1 .. l : <<s[i]>> \o Rest(s, i + 1) = Rest(s, i)
  BY <1>1, <1>2, RestUnfolds
<1> DEFINE T == {x \in Nat : x <= l /\ t[<<b + (l - x) + 1, a>>] # Rest(s, (l - x) + 1) \o r}
<1>4. SUFFICES ASSUME T # {} PROVE FALSE
  <2>1. l \notin T
    BY <1>4
  <2>2. b + (l - l) + 1 = b + 1 /\ (l - l) + 1 = 1 /\ l <= l
    OBVIOUS
  <2>3. t[<<b + 1, a>>] = s \o r
    BY <1>3, <2>1, <2>2
  <2> QED
    BY <1>0, <1>1, <2>3
<1>5. T \subseteq Nat
  OBVIOUS
<1> HIDE DEF T
<1>6. PICK x \in T : \A z \in T : x <= z
  BY <1>4, <1>5, LeastNatural
<1>7. x \in Nat /\ x <= l /\ t[<<b + (l - x) + 1, a>>] # Rest(s, (l - x) + 1) \o r
  BY <1>6 DEF T
<1>8. CASE x = 0
  <2>1. b + (l - x) + 1 = b + l + 1 /\ (l - x) + 1 = l + 1
    BY <1>7, <1>8
  <2>2. <<>> \o r = r
    OBVIOUS
  <2> QED
    BY <1>0, <1>3, <1>7, <2>1, <2>2
<1>9. CASE x # 0
  <2>1. PICK y \in 1 .. l : y = (l - x) + 1
    <3>1. \A m, n \in Nat : m <= n /\ m # 0 => (n - m) + 1 \in 1 .. n
      OBVIOUS
    <3>2. (l - x) + 1 \in 1 .. l
      BY <1>7, <1>9, <3>1
    <3> QED
      BY <3>2
  <2>2. PICK i \in 1 .. Len(f) : i = b + y
    <3>1. b + y \in 1 .. Len(f)
      BY <1>1, <2>1 DEF Contains
    <3> QED
      BY <3>1
  <2>3. x - 1 \in Nat /\ x - 1 <= l /\ ~ (x <= x - 1) /\ (l - (x - 1)) + 1 = y + 1
        /\ b + (l - (x - 1)) + 1 = i + 1 /\ b + (l - x) + 1 = i /\ (l - x) + 1 = y
    BY <1>7, <1>9, <2>1, <2>2
  <2>4. t[<<i + 1, a>>] = Rest(s, y + 1) \o r
    BY <1>6, <2>3 DEF T
  <2>5. f[i] = s[y] /\ s[y] # "%"
    BY <1>1, <2>1, <2>2 DEF Contains
  <2>8. Turn(f, args, t, i, a) = <<f[i]>> \o t[<<i + 1, a>>]
    <3>1. ~ (i > Len(f))
      BY <2>2
    <3> QED
      BY <2>5, <3>1 DEF Turn
  <2>9. t[<<i, a>>] = <<s[y]>> \o (Rest(s, y + 1) \o r)
    <3>1. i \in 1 .. Len(f) + 1
      BY <2>2
    <3>2. t[<<i, a>>] = Turn(f, args, t, i, a)
      BY <3>1 DEF Runs
    <3> QED
      BY <2>4, <2>5, <2>8, <3>2
  <2>10. Follows(Rest(s, y) \o r, <<s[y]>>, Rest(s, y + 1) \o r)
    <3>1. PICK z \in Seq(S) : z = s
      BY <1>2
    <3>2. y \in 1 .. Len(z)
      BY <1>1, <2>1, <3>1
    <3>3. Follows(Rest(z, y) \o r, <<z[y]>>, Rest(z, y + 1) \o r)
      BY <3>2, RestJoins
    <3> QED
      BY <3>1, <3>3
  <2>11. t[<<i, a>>] = Rest(s, y) \o r
    BY <2>9, <2>10 DEF Follows
  <2> QED
    BY <1>7, <2>3, <2>11
<1> QED
  BY <1>8, <1>9

\* The characters of messages over chars, on the screen.
Written(chars) == chars \cup NumberGlyphs

\* A piece is text, which is copied, or a conversion with its argument.
LEMMA PieceIs ==
  ASSUME NEW chars, NEW p \in Pieces(chars), Fits(p)
  PROVE  /\ InPrinted(p) \in Seq(Written(chars))
         /\ InFormat(p) \in Seq(chars \cup Specifiers \cup {"%"})
         /\ p.kind = "text" => /\ InFormat(p) = p.text /\ InPrinted(p) = p.text
                               /\ InArgs(p) = <<>>
                               /\ \A i \in 1 .. Len(p.text) : p.text[i] # "%"
         /\ p.kind # "text" => /\ p.kind \in Specifiers /\ InFormat(p) = <<"%", p.kind>>
                               /\ InArgs(p) = <<InArgs(p)[1]>>
                               /\ Convert(p.kind, InArgs(p)[1]) = InPrinted(p)
         /\ p.text \in Seq(chars)
         /\ (p.type = "int" => p.value >= 0) => InPrinted(p) = InMeant(p)
<1>1. p.kind \in {"text", "s", "x", "u", "d"} /\ p.text \in Seq(chars) /\ p.value \in Int
  BY DEF Pieces, Specifiers
<1>2. CASE p.kind = "text"
  <2>1. /\ InFormat(p) = p.text /\ InMeant(p) = p.text /\ InArgs(p) = <<>>
        /\ InPrinted(p) = p.text
    BY <1>2 DEF InFormat, InMeant, InArgs, InPrinted
  <2>2. p.text \in Seq(Written(chars)) /\ p.text \in Seq(chars \cup Specifiers \cup {"%"})
    BY <1>1 DEF Written
  <2>3. \A i \in 1 .. Len(p.text) : p.text[i] # "%"
    BY <1>2 DEF Fits
  <2> QED
    BY <1>1, <1>2, <2>1, <2>2, <2>3
<1>3. ASSUME p.kind # "text"
      PROVE  /\ p.kind \in Specifiers /\ InFormat(p) = <<"%", p.kind>>
             /\ InFormat(p) \in Seq(chars \cup Specifiers \cup {"%"})
             /\ InPrinted(p) = Convert(p.kind, InArgs(p)[1])
  <2>1. p.kind \in Specifiers /\ InFormat(p) = <<"%", p.kind>>
    BY <1>1, <1>3 DEF Specifiers, InFormat
  <2>2. <<"%", p.kind>> \in Seq(chars \cup Specifiers \cup {"%"})
    BY <2>1
  <2> QED
    BY <1>3, <2>1, <2>2 DEF InPrinted
<1>4. CASE p.kind = "s"
  <2>1. PICK given : given = [word |-> 0, text |-> p.text]
    OBVIOUS
  <2>2. InMeant(p) = p.text /\ InArgs(p) = <<given>> /\ <<given>>[1] = given
    BY <1>4, <2>1 DEF InMeant, InArgs
  <2>3. p.text \in Seq(Written(chars))
    BY <1>1 DEF Written
  <2>4. Convert(p.kind, given) = p.text
    BY <1>4, <2>1 DEF Convert
  <2> QED
    BY <1>1, <1>3, <1>4, <2>2, <2>3, <2>4
<1>5. CASE p.kind \in {"x", "u", "d"}
  <2>1. PICK given : given = [word |-> Passed(p.type, p.value), text |-> <<FAULT>>]
    OBVIOUS
  <2>2. given.word = Passed(p.type, p.value) /\ given.word \in Words
    BY <1>1, <2>1, WordsHold
  <2>3. Convert(p.kind, given) \in Seq(NumberGlyphs)
    BY <1>5, <2>2, WordPrinted
  <2>4. Convert(p.kind, given) \in Seq(Written(chars))
    BY <2>3 DEF Written
  <2>5. (p.type = "int" => p.value >= 0) => Convert(p.kind, given) = InMeant(p)
    BY <1>5, <2>2, NumberConverted
  <2>6. InArgs(p) = <<given>> /\ <<given>>[1] = given
    BY <1>5, <2>1 DEF InArgs
  <2>7. p.kind # "text"
    BY <1>5
  <2> QED
    BY <1>1, <1>3, <2>4, <2>5, <2>6, <2>7
<1> QED
  BY <1>1, <1>2, <1>4, <1>5

\* At character b + 1 and argument a, the loop comes to a conversion.
AtConversion(f, args, t, kind, b, a) ==
  /\ Len(f) \in Nat /\ Runs(f, args, t) /\ kind \in Specifiers /\ b \in Nat /\ a \in Nat
  /\ Contains(f, b, <<"%", kind>>)

\* A conversion prints its argument and goes on behind the specifier.
LEMMA ConversionTaken ==
  ASSUME NEW f, NEW args, NEW t, NEW kind, NEW b, NEW a,
         AtConversion(f, args, t, kind, b, a)
  PROVE  Follows(t[<<b + 1, a>>], Convert(kind, args[a]), t[<<b + 2 + 1, a + 1>>])
<1> SUFFICES ASSUME Len(f) \in Nat, Runs(f, args, t), kind \in Specifiers, b \in Nat, a \in Nat,
                    Contains(f, b, <<"%", kind>>)
             PROVE  t[<<b + 1, a>>] = Convert(kind, args[a]) \o t[<<b + 2 + 1, a + 1>>]
  BY DEF AtConversion, Follows
<1>1. Len(<<"%", kind>>) = 2 /\ <<"%", kind>>[1] = "%" /\ <<"%", kind>>[2] = kind
  OBVIOUS
<1>2. b + 2 <= Len(f) /\ f[b + 1] = "%" /\ f[b + 2] = kind
  BY <1>1 DEF Contains
<1>3. PICK i \in 1 .. Len(f) + 1 : i = b + 1
  <2>1. b + 1 \in 1 .. Len(f) + 1
    BY <1>2
  <2> QED
    BY <2>1
<1>4. i + 1 = b + 2 /\ i + 2 = b + 2 + 1 /\ i < Len(f) /\ ~ (i > Len(f))
  BY <1>2, <1>3
<1>5. t[<<i, a>>] = Turn(f, args, t, i, a)
  BY DEF Runs
<1>6. f[i] = "%" /\ f[i + 1] = kind /\ f[i + 1] \in Specifiers
  BY <1>2, <1>3, <1>4
<1>7. Turn(f, args, t, i, a) = Convert(f[i + 1], args[a]) \o t[<<i + 2, a + 1>>]
  BY <1>4, <1>6 DEF Turn, Asks
<1> QED
  BY <1>2, <1>3, <1>4, <1>5, <1>6, <1>7

\* At character b + 1 and argument a, the loop comes to the piece p of a message,
\* and what follows the piece is printed well.
AtPiece(f, args, t, chars, p, b, a) ==
  /\ Len(f) \in Nat /\ Runs(f, args, t) /\ p \in Pieces(chars) /\ Fits(p)
  /\ b \in Nat /\ a \in Nat /\ Contains(f, b, InFormat(p))
  /\ p.kind # "text" => args[a] = InArgs(p)[1]
  /\ t[<<b + Len(InFormat(p)) + 1, a + Len(InArgs(p))>>] \in Seq(Written(chars))

\* A piece of a message is copied or converted with its argument, and the loop goes
\* on with the next piece and the next argument.
LEMMA PiecePrinted ==
  ASSUME NEW f, NEW args, NEW t, NEW chars, NEW p, NEW b, NEW a,
         AtPiece(f, args, t, chars, p, b, a)
  PROVE  Follows(t[<<b + 1, a>>], InPrinted(p),
                 t[<<b + Len(InFormat(p)) + 1, a + Len(InArgs(p))>>])
<1> SUFFICES
      ASSUME Len(f) \in Nat, Runs(f, args, t), p \in Pieces(chars), Fits(p),
             b \in Nat, a \in Nat, Contains(f, b, InFormat(p)),
             p.kind # "text" => args[a] = InArgs(p)[1],
             t[<<b + Len(InFormat(p)) + 1, a + Len(InArgs(p))>>] \in Seq(Written(chars))
      PROVE  Follows(t[<<b + 1, a>>], InPrinted(p),
                     t[<<b + Len(InFormat(p)) + 1, a + Len(InArgs(p))>>])
  BY DEF AtPiece
<1>1. CASE p.kind = "text"
  <2>1. /\ InFormat(p) = p.text /\ InPrinted(p) = p.text /\ InArgs(p) = <<>>
        /\ p.text \in Seq(Written(chars)) /\ \A i \in 1 .. Len(p.text) : p.text[i] # "%"
    BY <1>1, PieceIs
  <2>2. PICK s \in Seq(Written(chars)) : s = p.text
    BY <2>1
  <2>3. /\ a + Len(InArgs(p)) = a /\ Len(InFormat(p)) = Len(s)
        /\ Contains(f, b, s) /\ Len(s) \in Nat
    BY <2>1, <2>2
  <2>4. t[<<b + Len(s) + 1, a>>] \in Seq(Written(chars))
    BY <2>3
  <2>5. AtText(f, args, t, Written(chars), s, b, a)
    BY <2>1, <2>2, <2>3, <2>4 DEF AtText
  <2>6. Follows(t[<<b + 1, a>>], s, t[<<b + Len(s) + 1, a>>])
    BY <2>5, TextCopied
  <2> QED
    BY <2>1, <2>2, <2>3, <2>6
<1>2. CASE p.kind # "text"
  <2>1. /\ p.kind \in Specifiers /\ InFormat(p) = <<"%", p.kind>>
        /\ InArgs(p) = <<InArgs(p)[1]>> /\ Convert(p.kind, InArgs(p)[1]) = InPrinted(p)
    BY <1>2, PieceIs
  <2>2. Len(InFormat(p)) = 2 /\ Len(InArgs(p)) = 1
    <3>1. Len(InFormat(p)) = 2
      BY <2>1
    <3>2. PICK v : InArgs(p) = <<v>>
      BY <2>1
    <3>3. Len(InArgs(p)) = 1
      BY <3>2
    <3> QED
      BY <3>1, <3>3
  <2>3. Follows(t[<<b + 1, a>>], Convert(p.kind, args[a]), t[<<b + 2 + 1, a + 1>>])
    <3>1. PICK kind \in Specifiers : kind = p.kind
      BY <2>1
    <3>2. Contains(f, b, <<"%", kind>>)
      BY <2>1, <3>1
    <3>3. AtConversion(f, args, t, kind, b, a)
      BY <3>2 DEF AtConversion
    <3>4. Follows(t[<<b + 1, a>>], Convert(kind, args[a]), t[<<b + 2 + 1, a + 1>>])
      BY <3>3, ConversionTaken
    <3> QED
      BY <3>1, <3>4
  <2>4. Convert(p.kind, args[a]) = InPrinted(p)
    BY <1>2, <2>1
  <2> QED
    BY <2>2, <2>3, <2>4
<1> QED
  BY <1>1, <1>2

\* The i-th part stands in the whole behind the parts before it.
Placed(j, seqs, n, i) ==
  /\ Len(j[i - 1]) \in Nat /\ Len(j[i]) = Len(j[i - 1]) + Len(seqs[i])
  /\ Contains(j[n], Len(j[i - 1]), seqs[i])

\* Every part has its place.
LEMMA PartPlaced ==
  ASSUME NEW S, NEW seqs, NEW n \in Nat, NEW j, Assembled(j, seqs, n, S),
         NEW i \in 1 .. n, seqs[i] \in Seq(S)
  PROVE  /\ i - 1 \in 0 .. n /\ i \in 0 .. n
         /\ j[i - 1] \in Seq(S) /\ j[i] \in Seq(S) /\ j[n] \in Seq(S)
         /\ Placed(j, seqs, n, i)
<1>1. i - 1 \in 0 .. n /\ i \in 0 .. n /\ n \in 0 .. n
  OBVIOUS
<1>2. /\ j[i - 1] \in Seq(S) /\ j[i] \in Seq(S) /\ j[n] \in Seq(S)
      /\ Begins(j[i], j[n]) /\ Follows(j[i], j[i - 1], seqs[i])
  BY <1>1 DEF Assembled
<1>3. PICK s \in Seq(S), w \in Seq(S), whole \in Seq(S) :
        s = j[i - 1] /\ w = seqs[i] /\ whole = j[n]
  BY <1>2
<1>4. j[i] = s \o w
  BY <1>2, <1>3 DEF Follows
<1>5. Begins(s \o w, whole)
  BY <1>2, <1>3, <1>4
<1>6. /\ Len(s \o w) = Len(s) + Len(w) /\ Len(s) \in Nat /\ Len(w) \in Nat
      /\ \A k \in 1 .. Len(w) : (s \o w)[Len(s) + k] = w[k]
  BY JoinTwo
<1>7. Contains(whole, Len(s), w)
  <2>1. Len(s) + Len(w) <= Len(whole)
    BY <1>5, <1>6 DEF Begins
  <2>2. ASSUME NEW k \in 1 .. Len(w) PROVE whole[Len(s) + k] = w[k]
    <3>1. Len(s) + k \in 1 .. Len(s \o w)
      BY <1>6
    <3>2. whole[Len(s) + k] = (s \o w)[Len(s) + k]
      BY <1>5, <3>1 DEF Begins
    <3> QED
      BY <1>6, <3>2
  <2> QED
    BY <2>1, <2>2 DEF Contains
<1> QED
  BY <1>1, <1>2, <1>3, <1>4, <1>6, <1>7 DEF Placed

\* What printf writes of a message, as it turns out.
PrintedText(m) == Joined([i \in 1 .. Len(m) |-> InPrinted(m[i])])

\* The three texts of a message, piece by piece: the format, the arguments and
\* what is printed.
FormatAssembled(m, j, F) ==
  /\ FormatOf(m) = j[Len(m)]
  /\ Assembled(j, [i \in 1 .. Len(m) |-> InFormat(m[i])], Len(m), F)
  /\ \A i \in 1 .. Len(m) : InFormat(m[i]) \in Seq(F)
ArgsAssembled(m, j, A) ==
  /\ ArgsOf(m) = j[Len(m)]
  /\ Assembled(j, [i \in 1 .. Len(m) |-> InArgs(m[i])], Len(m), A)
  /\ \A i \in 1 .. Len(m) : InArgs(m[i]) \in Seq(A)
PrintedAssembled(m, j, S) ==
  /\ PrintedText(m) = j[Len(m)]
  /\ Assembled(j, [i \in 1 .. Len(m) |-> InPrinted(m[i])], Len(m), S)
  /\ \A i \in 1 .. Len(m) : InPrinted(m[i]) \in Seq(S)

\* A well-formed message has all three.
LEMMA MessageAssembled ==
  ASSUME NEW chars, NEW m, WellFormed(m, chars)
  PROVE  /\ \E jf, F : FormatAssembled(m, jf, F)
         /\ \E ja, A : ArgsAssembled(m, ja, A)
         /\ \E jm : PrintedAssembled(m, jm, Written(chars))
<1>1. PICK n \in Nat : n = Len(m)
  BY DEF WellFormed
<1> DEFINE sf == [i \in 1 .. n |-> InFormat(m[i])]
           sa == [i \in 1 .. n |-> InArgs(m[i])]
           sm == [i \in 1 .. n |-> InPrinted(m[i])]
           F  == chars \cup Specifiers \cup {"%"}
           A  == {InArgs(m[i])[1] : i \in 1 .. n}
<1>2. Len(sf) = n /\ Len(sa) = n /\ Len(sm) = n
  OBVIOUS
<1>3. FormatOf(m) = Joined(sf) /\ ArgsOf(m) = Joined(sa) /\ PrintedText(m) = Joined(sm)
  BY <1>1 DEF FormatOf, ArgsOf, PrintedText, InFormat, InArgs
<1>4. ASSUME NEW i \in 1 .. n
      PROVE  /\ InFormat(m[i]) \in Seq(F) /\ InArgs(m[i]) \in Seq(A)
             /\ InPrinted(m[i]) \in Seq(Written(chars))
  <2>1. PICK p \in Pieces(chars) : p = m[i] /\ Fits(p)
    BY <1>1 DEF WellFormed
  <2>2. /\ InPrinted(p) \in Seq(Written(chars))
        /\ InFormat(p) \in Seq(chars \cup Specifiers \cup {"%"})
        /\ p.kind = "text" => InArgs(p) = <<>>
        /\ p.kind # "text" => InArgs(p) = <<InArgs(p)[1]>>
    BY <2>1, PieceIs
  <2>3. <<>> \in Seq(A)
    OBVIOUS
  <2>4. InArgs(p)[1] \in A
    BY <2>1
  <2> HIDE DEF A
  <2>5. <<InArgs(p)[1]>> \in Seq(A)
    BY <2>4
  <2>6. InArgs(p) \in Seq(A)
    BY <2>2, <2>3, <2>5
  <2> QED
    BY <2>1, <2>2, <2>6
<1>5. ASSUME NEW i \in 1 .. n
      PROVE  sf[i] = InFormat(m[i]) /\ sa[i] = InArgs(m[i]) /\ sm[i] = InPrinted(m[i])
  OBVIOUS
<1> HIDE DEF sf, sa, sm, F, A
<1>6. PICK jf : Joined(sf) = jf[n] /\ Assembled(jf, sf, n, F)
  BY <1>2, <1>4, <1>5, JoinedStepwise
<1>7. PICK ja : Joined(sa) = ja[n] /\ Assembled(ja, sa, n, A)
  BY <1>2, <1>4, <1>5, JoinedStepwise
<1>8. PICK jm : Joined(sm) = jm[n] /\ Assembled(jm, sm, n, Written(chars))
  BY <1>2, <1>4, <1>5, JoinedStepwise
<1>9. FormatAssembled(m, jf, F)
  BY <1>1, <1>3, <1>4, <1>6 DEF FormatAssembled, sf
<1>10. ArgsAssembled(m, ja, A)
  BY <1>1, <1>3, <1>4, <1>7 DEF ArgsAssembled, sa
<1>11. PrintedAssembled(m, jm, Written(chars))
  BY <1>1, <1>3, <1>4, <1>8 DEF PrintedAssembled, sm
<1> QED
  BY <1>9, <1>10, <1>11

\* Of the message, the pieces behind the first i are printed.
PrintedFrom(f, t, jf, ja, jm, n, chars, i) ==
  /\ t[<<Len(jf[i]) + 1, Len(ja[i]) + 1>>] \in Seq(Written(chars))
  /\ Follows(jm[n], jm[i], t[<<Len(jf[i]) + 1, Len(ja[i]) + 1>>])

\* The loop prints every piece of a message, with the argument that belongs to it.
LEMMA MessageFormatted ==
  ASSUME NEW chars, NEW m, WellFormed(m, chars)
  PROVE  Formatted(FormatOf(m), ArgsOf(m)) = PrintedText(m) /\ PrintedText(m) \in Seq(Written(chars))
<1>1. PICK n \in Nat : n = Len(m)
  BY DEF WellFormed
<1>2. PICK jf, F, ja, A, jm :
        /\ FormatAssembled(m, jf, F) /\ ArgsAssembled(m, ja, A)
        /\ PrintedAssembled(m, jm, Written(chars))
  BY MessageAssembled
<1> DEFINE sf == [i \in 1 .. n |-> InFormat(m[i])]
           sa == [i \in 1 .. n |-> InArgs(m[i])]
           sm == [i \in 1 .. n |-> InPrinted(m[i])]
<1>3. ASSUME NEW i \in 1 .. n
      PROVE  /\ sf[i] = InFormat(m[i]) /\ sa[i] = InArgs(m[i]) /\ sm[i] = InPrinted(m[i])
             /\ sf[i] \in Seq(F) /\ sa[i] \in Seq(A) /\ sm[i] \in Seq(Written(chars))
  BY <1>1, <1>2 DEF FormatAssembled, ArgsAssembled, PrintedAssembled
<1>4. /\ Assembled(jf, sf, n, F) /\ Assembled(ja, sa, n, A)
      /\ Assembled(jm, sm, n, Written(chars))
  BY <1>1, <1>2 DEF FormatAssembled, ArgsAssembled, PrintedAssembled
<1> HIDE DEF sf, sa, sm
<1>5. PICK f, args : f = jf[n] /\ args = ja[n]
  OBVIOUS
<1>6. /\ jf[n] \in Seq(F) /\ ja[n] \in Seq(A) /\ jm[n] \in Seq(Written(chars))
      /\ jf[0] = <<>> /\ ja[0] = <<>> /\ jm[0] = <<>>
  <2>1. n \in 0 .. n
    OBVIOUS
  <2> QED
    BY <1>4, <2>1 DEF Assembled
<1>7. Len(f) \in Nat
  BY <1>5, <1>6
<1>8. PICK t : Formatted(f, args) = t[<<1, 1>>] /\ Runs(f, args, t)
  BY <1>7, LoopComputes
<1> DEFINE Printed(i) == PrintedFrom(f, t, jf, ja, jm, n, chars, i)
<1>9. Printed(n)
  <2>1. PICK l \in Nat, a \in Nat : l = Len(jf[n]) /\ a = Len(ja[n]) + 1
    BY <1>6
  <2>2. t[<<l + 1, a>>] = <<>>
    <3>1. l = Len(f) /\ l + 1 \in 1 .. Len(f) + 1 /\ l + 1 > Len(f)
      BY <1>5, <2>1
    <3>2. t[<<l + 1, a>>] = Turn(f, args, t, l + 1, a)
      BY <1>8, <3>1 DEF Runs
    <3> QED
      BY <3>1, <3>2 DEF Turn
  <2>3. PICK w \in Seq(Written(chars)) : w = jm[n]
    BY <1>6
  <2>4. w = w \o <<>> /\ <<>> \in Seq(Written(chars))
    OBVIOUS
  <2> QED
    BY <2>1, <2>2, <2>3, <2>4 DEF PrintedFrom, Follows
<1>10. ASSUME NEW i \in 1 .. n, Printed(i) PROVE Printed(i - 1)
  <2>1. PICK p \in Pieces(chars) : p = m[i] /\ Fits(p)
    BY <1>1 DEF WellFormed
  <2>2. /\ Len(jf[i - 1]) \in Nat /\ Len(jf[i]) = Len(jf[i - 1]) + Len(InFormat(p))
        /\ Contains(f, Len(jf[i - 1]), InFormat(p)) /\ InFormat(p) \in Seq(F)
    <3>1. sf[i] = InFormat(p) /\ sf[i] \in Seq(F)
      BY <1>3, <2>1
    <3>2. Placed(jf, sf, n, i)
      BY <1>4, <3>1, PartPlaced
    <3> QED
      BY <1>5, <3>1, <3>2 DEF Placed
  <2>3. /\ Len(ja[i - 1]) \in Nat /\ Len(ja[i]) = Len(ja[i - 1]) + Len(InArgs(p))
        /\ Contains(args, Len(ja[i - 1]), InArgs(p)) /\ InArgs(p) \in Seq(A)
    <3>1. sa[i] = InArgs(p) /\ sa[i] \in Seq(A)
      BY <1>3, <2>1
    <3>2. Placed(ja, sa, n, i)
      BY <1>4, <3>1, PartPlaced
    <3> QED
      BY <1>5, <3>1, <3>2 DEF Placed
  <2>4. /\ i - 1 \in 0 .. n /\ i \in 0 .. n
        /\ jm[i - 1] \in Seq(Written(chars)) /\ InPrinted(p) \in Seq(Written(chars))
        /\ Follows(jm[i], jm[i - 1], InPrinted(p))
    BY <1>3, <1>4, <2>1, PartPlaced DEF Assembled
  <2>5. PICK b \in Nat, a \in Nat : b = Len(jf[i - 1]) /\ a = Len(ja[i - 1]) + 1
    BY <2>2, <2>3
  <2>6. Len(jf[i]) + 1 = b + Len(InFormat(p)) + 1 /\ Len(ja[i]) + 1 = a + Len(InArgs(p))
    <3>1. Len(InFormat(p)) \in Nat /\ Len(InArgs(p)) \in Nat
      BY <2>2, <2>3
    <3> QED
      BY <2>2, <2>3, <2>5, <3>1
  <2>7. /\ t[<<b + Len(InFormat(p)) + 1, a + Len(InArgs(p))>>] \in Seq(Written(chars))
        /\ Follows(jm[n], jm[i], t[<<b + Len(InFormat(p)) + 1, a + Len(InArgs(p))>>])
    BY <1>10, <2>6 DEF PrintedFrom
  <2>8. p.kind # "text" => args[a] = InArgs(p)[1]
    <3> SUFFICES ASSUME p.kind # "text" PROVE args[a] = InArgs(p)[1]
      OBVIOUS
    <3>1. InArgs(p) = <<InArgs(p)[1]>>
      BY <2>1, PieceIs
    <3>2. PICK v : InArgs(p) = <<v>>
      BY <3>1
    <3>3. Len(InArgs(p)) = 1
      BY <3>2
    <3>4. 1 \in 1 .. Len(InArgs(p)) /\ Len(ja[i - 1]) + 1 = a
      BY <2>5, <3>3
    <3> QED
      BY <2>3, <3>4 DEF Contains
  <2>9. AtPiece(f, args, t, chars, p, b, a)
    BY <1>7, <1>8, <2>1, <2>2, <2>5, <2>7, <2>8 DEF AtPiece
  <2>10. Follows(t[<<b + 1, a>>], InPrinted(p),
                 t[<<b + Len(InFormat(p)) + 1, a + Len(InArgs(p))>>])
    BY <2>9, PiecePrinted
  <2>11. PICK x \in Seq(Written(chars)), y \in Seq(Written(chars)), z \in Seq(Written(chars)) :
           /\ x = jm[i - 1] /\ y = InPrinted(p)
           /\ z = t[<<b + Len(InFormat(p)) + 1, a + Len(InArgs(p))>>]
    BY <2>4, <2>7
  <2>12. t[<<b + 1, a>>] = y \o z /\ y \o z \in Seq(Written(chars))
    <3>1. y \o z \in Seq(Written(chars))
      BY JoinTwo
    <3>2. t[<<b + 1, a>>] = y \o z
      BY <2>10, <2>11 DEF Follows
    <3> QED
      BY <3>1, <3>2
  <2>13. Follows(jm[n], jm[i - 1], t[<<b + 1, a>>])
    <3>1. jm[i] = x \o y
      BY <2>4, <2>11 DEF Follows
    <3>2. jm[n] = (x \o y) \o z
      BY <2>7, <2>11, <3>1 DEF Follows
    <3>3. x \o (y \o z) = (x \o y) \o z
      BY JoinAssociates
    <3> QED
      BY <2>11, <2>12, <3>2, <3>3 DEF Follows
  <2>14. b + 1 = Len(jf[i - 1]) + 1 /\ a = Len(ja[i - 1]) + 1
    BY <2>5
  <2>15. t[<<b + 1, a>>] \in Seq(Written(chars)) /\ Follows(jm[n], jm[i - 1], t[<<b + 1, a>>])
    BY <2>12, <2>13
  <2> QED
    BY <2>14, <2>15 DEF PrintedFrom
<1> HIDE DEF Printed
<1>11. Printed(0)
  <2> DEFINE T == {x \in Nat : x <= n /\ ~ Printed(n - x)}
  <2>1. SUFFICES ASSUME T # {} PROVE FALSE
    <3>1. n \notin T /\ n - n = 0 /\ n <= n
      BY <2>1
    <3> QED
      BY <3>1
  <2>2. T \subseteq Nat
    OBVIOUS
  <2> HIDE DEF T
  <2>3. PICK x \in T : \A y \in T : x <= y
    BY <2>1, <2>2, LeastNatural
  <2>4. x \in Nat /\ x <= n /\ ~ Printed(n - x)
    BY <2>3 DEF T
  <2>5. x # 0
    <3>1. n - 0 = n
      OBVIOUS
    <3> QED
      BY <1>9, <2>4, <3>1
  <2>6. PICK i \in 1 .. n : i = n - (x - 1)
    <3>1. n - (x - 1) \in 1 .. n
      BY <2>4, <2>5
    <3> QED
      BY <3>1
  <2>7. x - 1 \in Nat /\ x - 1 <= n /\ ~ (x <= x - 1) /\ n - (x - 1) = i /\ n - x = i - 1
    BY <2>4, <2>5, <2>6
  <2>8. Printed(i)
    BY <2>3, <2>7 DEF T
  <2> QED
    BY <1>10, <2>4, <2>7, <2>8
<1>12. t[<<1, 1>>] = jm[n]
  <2>1. Len(jf[0]) + 1 = 1 /\ Len(ja[0]) + 1 = 1
    BY <1>6
  <2>2. PICK r \in Seq(Written(chars)) : r = t[<<1, 1>>]
    BY <1>11, <2>1 DEF Printed, PrintedFrom
  <2>3. Follows(jm[n], <<>>, r)
    BY <1>6, <1>11, <2>1, <2>2 DEF Printed, PrintedFrom
  <2>4. <<>> \o r = r
    OBVIOUS
  <2> QED
    BY <2>2, <2>3, <2>4 DEF Follows
<1>13. FormatOf(m) = f /\ ArgsOf(m) = args /\ PrintedText(m) = jm[n]
  BY <1>1, <1>2, <1>5 DEF FormatAssembled, ArgsAssembled, PrintedAssembled
<1> QED
  BY <1>6, <1>8, <1>12, <1>13

\* What is printed is what is meant, but for negative ints.
LEMMA PrintedIsMeant ==
  ASSUME NEW chars, NEW m, WellFormed(m, chars), NoNegativeInt(m)
  PROVE  PrintedText(m) = Meant(m)
<1>1. ASSUME NEW i \in 1 .. Len(m) PROVE InPrinted(m[i]) = InMeant(m[i])
  <2>1. m[i] \in Pieces(chars) /\ Fits(m[i]) /\ (m[i].type = "int" => m[i].value >= 0)
    BY DEF WellFormed, NoNegativeInt
  <2> QED
    BY <2>1, PieceIs
<1>2. [i \in 1 .. Len(m) |-> InPrinted(m[i])] = [i \in 1 .. Len(m) |-> InMeant(m[i])]
  BY <1>1
<1> QED
  BY <1>2 DEF PrintedText, Meant, InMeant

\* Whatever printk finds where no argument was passed, it prints characters of S if
\* that is what every conversion gives.
LEMMA FormattedHolds ==
  ASSUME NEW S, NEW f \in Seq(S), NEW args,
         \A specifier \in Specifiers : \A a \in 1 .. Len(f) \div 2 :
           Convert(specifier, args[a]) \in Seq(S)
  PROVE  Formatted(f, args) \in Seq(S)
<1>1. PICK l \in Nat : l = Len(f)
  OBVIOUS
<1>2. PICK t : Formatted(f, args) = t[<<1, 1>>] /\ Runs(f, args, t)
  BY <1>1, LoopComputes
\* At most every other character takes an argument.
<1> DEFINE InTime(n, a) == a \in 1 .. l + 1 /\ 2 * (a - 1) <= l - n
           T == {n \in Nat : /\ n <= l
                             /\ \E a \in Nat : InTime(n, a) /\ t[<<l + 1 - n, a>>] \notin Seq(S)}
<1>3. ASSUME NEW i \in 1 .. l + 1, NEW a \in Nat \ {0}, 2 * (a - 1) <= i - 1,
             i <= l => t[<<i + 1, a>>] \in Seq(S),
             i < l => t[<<i + 2, a + 1>>] \in Seq(S)
      PROVE  t[<<i, a>>] \in Seq(S)
  <2>1. t[<<i, a>>] = Turn(f, args, t, i, a)
    BY <1>1, <1>2 DEF Runs
  <2>2. CASE i > l
    <3>1. <<>> \in Seq(S)
      OBVIOUS
    <3> QED
      BY <1>1, <2>1, <2>2, <3>1 DEF Turn
  <2>3. CASE i <= l /\ (f[i] # "%" \/ ~ Asks(f, i))
    <3>1. i \in 1 .. Len(f) /\ ~ (i > Len(f))
      BY <1>1, <2>3
    <3>2. PICK r \in Seq(S) : r = t[<<i + 1, a>>]
      BY <1>3, <2>3
    <3>3. Turn(f, args, t, i, a) = <<f[i]>> \o r
      <4>1. CASE f[i] = "%"
        BY <2>3, <3>1, <3>2, <4>1 DEF Turn
      <4>2. CASE f[i] # "%"
        BY <3>1, <3>2, <4>2 DEF Turn
      <4> QED
        BY <4>1, <4>2
    <3>4. f[i] \in S
      BY <3>1
    <3>5. <<f[i]>> \in Seq(S)
      BY <3>4
    <3>6. <<f[i]>> \o r \in Seq(S)
      BY <3>5, JoinTwo
    <3> QED
      BY <2>1, <3>3, <3>6
  <2>4. CASE i <= l /\ f[i] = "%" /\ Asks(f, i)
    <3>1. i < l /\ f[i + 1] \in Specifiers /\ ~ (i > Len(f))
      BY <1>1, <2>4 DEF Asks
    <3>2. a \in 1 .. Len(f) \div 2
      <4>1. 2 * a <= l
        BY <1>3, <3>1
      <4> QED
        BY <1>1, <1>3, <4>1
    <3>3. PICK r \in Seq(S) : r = t[<<i + 2, a + 1>>]
      BY <1>3, <3>1
    <3>4. PICK w \in Seq(S) : w = Convert(f[i + 1], args[a])
      BY <3>1, <3>2
    <3>5. Turn(f, args, t, i, a) = w \o r
      BY <2>4, <3>1, <3>3, <3>4 DEF Turn
    <3>6. w \o r \in Seq(S)
      BY JoinTwo
    <3> QED
      BY <2>1, <3>5, <3>6
  <2> QED
    BY <2>2, <2>3, <2>4
<1>4. T = {}
  <2>1. SUFFICES ASSUME T # {} PROVE FALSE
    OBVIOUS
  <2>2. T \subseteq Nat
    OBVIOUS
  <2> HIDE DEF T
  <2>3. PICK n \in T : \A y \in T : n <= y
    BY <2>1, <2>2, LeastNatural
  <2>4. PICK a \in Nat : n \in Nat /\ n <= l /\ InTime(n, a) /\ t[<<l + 1 - n, a>>] \notin Seq(S)
    BY <2>3 DEF T
  <2>5. PICK i \in 1 .. l + 1 : i = l + 1 - n
    <3>1. l + 1 - n \in 1 .. l + 1
      BY <2>4
    <3> QED
      BY <3>1
  <2>6. a \in Nat \ {0} /\ 2 * (a - 1) <= i - 1
    BY <2>4, <2>5
  <2>7. i <= l => t[<<i + 1, a>>] \in Seq(S)
    <3> SUFFICES ASSUME i <= l PROVE t[<<i + 1, a>>] \in Seq(S)
      OBVIOUS
    <3>1. /\ n - 1 \in Nat /\ n - 1 <= l /\ ~ (n <= n - 1) /\ l + 1 - (n - 1) = i + 1
          /\ InTime(n - 1, a)
      BY <2>4, <2>5
    <3>2. n - 1 \notin T
      BY <2>3, <3>1
    <3> QED
      BY <3>1, <3>2 DEF T
  <2>8. i < l => t[<<i + 2, a + 1>>] \in Seq(S)
    <3> SUFFICES ASSUME i < l PROVE t[<<i + 2, a + 1>>] \in Seq(S)
      OBVIOUS
    <3>1. /\ n - 2 \in Nat /\ n - 2 <= l /\ ~ (n <= n - 2) /\ l + 1 - (n - 2) = i + 2
          /\ a + 1 \in Nat /\ InTime(n - 2, a + 1)
      BY <2>4, <2>5
    <3>2. n - 2 \notin T
      BY <2>3, <3>1
    <3> QED
      BY <3>1, <3>2 DEF T
  <2> HIDE DEF InTime
  <2>9. t[<<i, a>>] \in Seq(S)
    BY <1>3, <2>6, <2>7, <2>8
  <2> QED
    BY <2>4, <2>5, <2>9
<1>5. l + 1 - l = 1 /\ l <= l /\ InTime(l, 1)
  OBVIOUS
<1>6. t[<<1, 1>>] \in Seq(S)
  <2>1. l \notin T
    BY <1>4
  <2> HIDE DEF InTime
  <2> QED
    BY <1>5, <2>1
<1> QED
  BY <1>2, <1>6

\* A list of one text is joined to that text.
LEMMA JoinedOne ==
  ASSUME NEW S, NEW s \in Seq(S), NEW seqs, Len(seqs) = 1, seqs[1] = s
  PROVE  Joined(seqs) = s
<1> DEFINE F(j) == j = [i \in 0 .. Len(seqs) |->
                          IF i = 0 THEN <<>> ELSE j[i - 1] \o seqs[i]]
           u == [i \in 0 .. 1 |-> IF i = 0 THEN <<>> ELSE s]
<1>1. <<>> \o s = s
  OBVIOUS
<1>2. F(u)
  BY <1>1
<1> HIDE DEF u
<1>3. PICK j : j = CHOOSE v : F(v)
  OBVIOUS
<1>4. F(j)
  BY <1>2, <1>3, Zenon
<1>5. Joined(seqs) = j[1]
  BY <1>3 DEF Joined
<1>6. j[0] = <<>> /\ j[1] = j[0] \o seqs[1]
  BY <1>4
<1> QED
  BY <1>1, <1>5, <1>6

\* A text alone means that text.
LEMMA TextMeans ==
  ASSUME NEW S, NEW s \in Seq(S)
  PROVE  Meant(<<Literal(s)>>) = s /\ Meant(<<String(s)>>) = s
<1>1. ASSUME NEW p, p.kind \in {"text", "s"}, p.text = s PROVE Meant(<<p>>) = s
  <2> DEFINE m == <<p>>
             q == [i \in 1 .. Len(m) |-> InMeant(m[i])]
  <2>1. Len(m) = 1 /\ m[1] = p
    OBVIOUS
  <2> HIDE DEF m
  <2>2. Len(q) = 1 /\ q[1] = s
    BY <1>1, <2>1 DEF InMeant
  <2>3. Meant(m) = Joined(q)
    BY DEF Meant, InMeant
  <2> HIDE DEF q
  <2> QED
    BY <2>2, <2>3, JoinedOne DEF m
<1> QED
  BY <1>1 DEF Literal, String

\* Texts are pieces that fit, as part of a format if there is no % in them.
LEMMA TextsFit ==
  ASSUME NEW chars, NEW s \in Seq(chars)
  PROVE  /\ (\A i \in 1 .. Len(s) : s[i] # "%") =>
              Literal(s) \in Pieces(chars) /\ Fits(Literal(s))
         /\ String(s) \in Pieces(chars) /\ Fits(String(s))
BY DEF Literal, String, Pieces, Fits, Specifiers

\* A message of one or two pieces.
LEMMA Composed ==
  ASSUME NEW chars, NEW p \in Pieces(chars), NEW q \in Pieces(chars), Fits(p), Fits(q)
  PROVE  WellFormed(<<p>>, chars) /\ WellFormed(<<p, q>>, chars)
<1>1. <<p>> \in Seq(Pieces(chars)) /\ <<p, q>> \in Seq(Pieces(chars))
  OBVIOUS
<1>2. Len(<<p>>) = 1 /\ <<p>>[1] = p /\ Len(<<p, q>>) = 2 /\ <<p, q>>[1] = p /\ <<p, q>>[2] = q
  OBVIOUS
<1>3. \A i \in 1 .. 1 : i = 1
  OBVIOUS
<1>4. \A i \in 1 .. 2 : i = 1 \/ i = 2
  OBVIOUS
<1> QED
  BY <1>1, <1>2, <1>3, <1>4 DEF WellFormed

\* The screen has a glyph for what the keys and the numbers print; none of them is
\* a place that cannot be read.
LEMMA KeysWritten ==
  Written(Keys) = Glyphs \cup Keys /\ FAULT \notin Glyphs \cup Keys
<1>1. Written(Keys) = Glyphs \cup Keys
  BY DEF Written, NumberGlyphs, Figures, Glyphs, Keys
<1>2. \A i \in 1 .. 16 : digits_map[i] # "fault"
  BY DEF digits_map
<1>3. FAULT \notin Chars
  BY ConsoleAssumption
<1> QED
  BY <1>1, <1>2, <1>3 DEF Glyphs, Keys, FAULT, NEWLINE, BACKSPACE

\* A message without negative ints means something that the screen can show.
LEMMA MeansSomething ==
  ASSUME NEW m, WellFormed(m, Keys), NoNegativeInt(m)
  PROVE  Meant(m) \in Seq(Glyphs \cup Keys)
<1>1. PrintedText(m) \in Seq(Written(Keys)) /\ PrintedText(m) = Meant(m)
  BY MessageFormatted, PrintedIsMeant
<1> QED
  BY <1>1, KeysWritten

\* The message has a meaning that passes printk a second time unchanged.
Quiet(m) == AsksForNothing(Meant(m)) /\ NoNegativeInt(m)

\* Whatever is left in the registers, printk shows characters or ends in an
\* exception.
LEMMA WriteHolds ==
  ASSUME NEW w \in Seq(Glyphs \cup Keys), NEW registers \in [1 .. Len(w) \div 2 -> Leftovers]
  PROVE  /\ ~ Faults(SysWrite(w, registers)) => SysWrite(w, registers) \in Seq(Glyphs \cup Keys)
         /\ AsksForNothing(w) => SysWrite(w, registers) = w /\ ~ Faults(w)
<1> DEFINE S == Glyphs \cup Keys \cup {FAULT}
<1>1. w \in Seq(S)
  OBVIOUS
<1>2. ASSUME NEW specifier \in Specifiers, NEW a \in 1 .. Len(w) \div 2
      PROVE  Convert(specifier, registers[a]) \in Seq(S)
  <2>1. PICK given \in Leftovers : given = registers[a]
    BY <1>2
  <2>2. given.word \in Words /\ given.text \in Seq(Keys \cup {FAULT})
    BY ConsoleAssumption
  <2>3. CASE specifier = "s"
    <3>1. given.text \in Seq(S)
      BY <2>2
    <3> QED
      BY <2>1, <2>3, <3>1 DEF Convert
  <2>4. CASE specifier \in {"x", "u", "d"}
    <3>1. Convert(specifier, given) \in Seq(NumberGlyphs)
      BY <2>2, <2>4, WordPrinted
    <3>2. NumberGlyphs \subseteq S
      BY KeysWritten DEF Written
    <3> HIDE DEF S
    <3> QED
      BY <2>1, <3>1, <3>2
  <2> QED
    BY <2>3, <2>4 DEF Specifiers
<1>3. PICK s \in Seq(S) : s = SysWrite(w, registers)
  <2> HIDE DEF S
  <2>1. Formatted(w, registers) \in Seq(S)
    BY <1>1, <1>2, FormattedHolds
  <2> QED
    BY <2>1 DEF SysWrite, printk
<1>4. ASSUME ~ Faults(s) PROVE s \in Seq(Glyphs \cup Keys)
  <2>1. \A i \in 1 .. Len(s) : s[i] \in Glyphs \cup Keys
    BY <1>4 DEF Faults
  <2> QED
    BY <2>1
<1>5. ASSUME AsksForNothing(w) PROVE SysWrite(w, registers) = w /\ ~ Faults(w)
  <2>1. Formatted(w, registers) = w
    BY <1>5, PlainIsCopied
  <2>2. \A i \in 1 .. Len(w) : w[i] \in Glyphs \cup Keys
    OBVIOUS
  <2> QED
    BY <2>1, <2>2, KeysWritten DEF SysWrite, printk, Faults
<1> QED
  BY <1>3, <1>4, <1>5

\* printf shows a message as it is meant, over both formats: its own and the one
\* that its text is for the kernel.
LEMMA MessagePrinted ==
  ASSUME NEW m, WellFormed(m, Keys), NEW next, PrintMessage(m, next)
  PROVE  /\ text' \in Seq(Glyphs \cup Keys) /\ said' = m /\ UNCHANGED screenVars
         /\ pc' \in {next, "panic"}
         /\ Quiet(m) => text' = Meant(m) /\ pc' = next
<1>1. PICK w \in Seq(Glyphs \cup Keys) :
        w = printf(FormatOf(m), ArgsOf(m)) /\ w = PrintedText(m)
  <2>1. /\ Formatted(FormatOf(m), ArgsOf(m)) = PrintedText(m)
        /\ PrintedText(m) \in Seq(Written(Keys))
    BY MessageFormatted
  <2> QED
    BY <2>1, KeysWritten DEF printf
<1>2. PICK registers \in [1 .. Len(w) \div 2 -> Leftovers] :
        \/ Faults(SysWrite(w, registers)) /\ text' = <<>> /\ pc' = "panic"
        \/ /\ ~ Faults(SysWrite(w, registers))
           /\ text' = SysWrite(w, registers) /\ pc' = next
  BY <1>1 DEF PrintMessage
<1>3. /\ ~ Faults(SysWrite(w, registers)) => SysWrite(w, registers) \in Seq(Glyphs \cup Keys)
      /\ AsksForNothing(w) => SysWrite(w, registers) = w /\ ~ Faults(w)
  BY WriteHolds
<1>4. text' \in Seq(Glyphs \cup Keys)
  <2>1. <<>> \in Seq(Glyphs \cup Keys)
    OBVIOUS
  <2> QED
    BY <1>2, <1>3, <2>1
<1>5. Quiet(m) => w = Meant(m) /\ AsksForNothing(w)
  BY <1>1, PrintedIsMeant DEF Quiet
<1>6. said' = m /\ UNCHANGED screenVars
  BY DEF PrintMessage
<1> QED
  BY <1>2, <1>3, <1>4, <1>5, <1>6

\* Whatever key is pressed, a % too, the kernel gets that one character to
\* write.
LEMMA KeyPrinted ==
  ASSUME NEW k \in Keys, NEW next, PrintKey(k, next)
  PROVE  text' = <<k>> /\ pc' = next /\ UNCHANGED screenVars
<1>1. <<k>> \in Seq(Keys) /\ Len(<<k>>) = 1
  OBVIOUS
<1>2. WellFormed(<<String(<<k>>)>>, Keys)
  BY <1>1, TextsFit, Composed
<1>3. Meant(<<String(<<k>>)>>) = <<k>>
  BY <1>1, TextMeans
<1>4. NoNegativeInt(<<String(<<k>>)>>)
  BY DEF NoNegativeInt, String
<1>5. Quiet(<<String(<<k>>)>>)
  BY <1>1, <1>3, <1>4 DEF Quiet, AsksForNothing, Asks
<1>6. PrintMessage(<<String(<<k>>)>>, next)
  BY DEF PrintKey
<1> QED
  BY <1>2, <1>3, <1>5, <1>6, MessagePrinted

\* The prompt is text, and well-formed as the format it is.
LEMMA PromptFits ==
  /\ Prompt \in Seq(Chars) /\ Prompt \in Seq(Keys) /\ Len(Prompt) \in Nat
  /\ \A i \in 1 .. Len(Prompt) : Prompt[i] # "%"
  /\ WellFormed(<<Literal(Prompt)>>, Keys)
<1>1. PICK s \in Seq(Chars \ {"%"}) : s = Prompt
  BY ConsoleAssumption
<1>2. s \in Seq(Chars) /\ s \in Seq(Keys) /\ Len(s) \in Nat
  BY DEF Keys
<1>3. \A i \in 1 .. Len(s) : s[i] # "%"
  OBVIOUS
<1>4. WellFormed(<<Literal(s)>>, Keys)
  BY <1>2, <1>3, TextsFit, Composed
<1> QED
  BY <1>1, <1>2, <1>3, <1>4

\* The prompt is printed as it is.
LEMMA PromptPrinted ==
  ASSUME NEW next, PrintMessage(<<Literal(Prompt)>>, next)
  PROVE  text' = Prompt /\ pc' = next /\ UNCHANGED screenVars
<1>1. Meant(<<Literal(Prompt)>>) = Prompt
  BY PromptFits, TextMeans
<1>2. NoNegativeInt(<<Literal(Prompt)>>)
  BY DEF NoNegativeInt, Literal
<1>3. AsksForNothing(Prompt)
  BY PromptFits DEF AsksForNothing, Asks
<1>4. Quiet(<<Literal(Prompt)>>)
  BY <1>1, <1>2, <1>3 DEF Quiet
<1> QED
  BY <1>1, <1>4, PromptFits, MessagePrinted

-----------------------------------------------------------------------------
(* The command line on the screen.                                         *)

\* The command line as it should look: the prompt and what the shell has.
LineLength == Len(Prompt) + buffer_size
LineAt(i)  == IF i <= Len(Prompt) THEN Prompt[i] ELSE buffer[i - Len(Prompt) - 1]

\* The first n of these characters are on the screen, k cells before the cursor.
Shows(n, k) == /\ Cursor >= n + k
               /\ \A i \in 1 .. n : cell[Cursor - k - n + i - 1] = LineAt(i)

\* Still to write is the rest of the line, or a backspace for the last of the
\* characters on the screen, which the shell has already dropped.
Echoing(s) == /\ s \in 0 .. LineLength
              /\ text \in Seq(Chars) /\ Len(text) = LineLength - s
              /\ \A i \in 1 .. Len(text) : text[i] = LineAt(s + i)
              /\ Shows(s, 0)
Erasing    == /\ text = <<BACKSPACE>> /\ buffer_size < BufferSize
              /\ Shows(LineLength, 1)

BufferOK == /\ DOMAIN buffer = 0 .. BufferSize
            /\ buffer = [i \in 0 .. BufferSize |-> buffer[i]]
            /\ buffer_size \in 0 .. BufferSize

EchoInv == /\ ScreenOK /\ NothingAfterCursor
           /\ BufferOK
           /\ pc = "edit" => Erasing \/ \E s \in 0 .. LineLength : Echoing(s)

\* The length of the line, as numbers.
LEMMA LineLengths ==
  ASSUME BufferOK
  PROVE  /\ Len(Prompt) \in Nat /\ LineLength \in Nat
         /\ LineLength <= (Rows - 1) * Columns
         /\ buffer_size < BufferSize => LineLength + 1 <= (Rows - 1) * Columns
         /\ (Rows - 1) * Columns \in Nat
<1>1. Len(Prompt) \in Nat /\ buffer_size \in 0 .. BufferSize /\ BufferSize \in Nat
  BY ConsoleAssumption DEF BufferOK
<1>2. Rows - 1 \in Nat /\ Columns \in Nat
  BY ConsoleAssumption
<1>3. (Rows - 1) * Columns \in Nat
  BY <1>2
<1>4. Len(Prompt) + BufferSize <= (Rows - 1) * Columns
  BY ConsoleAssumption
<1> HIDE DEF LineLength
<1>5. \A a, b, c, d \in Nat : b <= c /\ a + c <= d =>
        a + b \in Nat /\ a + b <= d /\ (b < c => a + b + 1 <= d)
  OBVIOUS
<1> QED
  BY <1>1, <1>3, <1>4, <1>5 DEF LineLength

\* Scrolling keeps a command line on the screen.
LEMMA RoomForLine ==
  ASSUME ScreenOK, NothingAfterCursor, NEW n \in Nat,
         n <= (Rows - 1) * Columns, n <= Cursor
  PROVE  n <= Place /\ Place \in Nat /\ Cursor \in Nat
<1>1. /\ Place = IF row = Rows THEN Cursor - Columns ELSE Cursor
      /\ Cursor \in Nat /\ Place \in Cells
  BY ScrollMakesRoom
<1>2. Rows \in Nat /\ Columns \in Nat /\ row \in 0 .. Rows /\ column \in Nat
  BY ConsoleAssumption DEF ScreenOK
<1>3. (Rows - 1) * Columns = Rows * Columns - Columns /\ Rows * Columns \in Nat
  BY <1>2, RowStart
<1>4. CASE row = Rows
  <2>1. Cursor = Rows * Columns
    BY <1>2, <1>3, <1>4 DEF ScreenOK, Cursor
  <2> QED
    BY <1>1, <1>2, <1>3, <1>4, <2>1 DEF Cells
<1>5. CASE row # Rows
  BY <1>1, <1>3, <1>5 DEF Cells
<1> QED
  BY <1>4, <1>5

\* A character of the line is written: one more is on the screen.
LEMMA EchoWritesOne ==
  ASSUME EchoInv, pc = "edit", WriteVGA, NEW s \in 0 .. LineLength, Echoing(s)
  PROVE  (Echoing(s + 1))' /\ s + 1 \in 0 .. LineLength'
<1>1. /\ ScreenOK /\ NothingAfterCursor /\ BufferOK
      /\ s \in Nat /\ text \in Seq(Chars) /\ text # <<>>
      /\ Len(text) = LineLength - s
      /\ Shows(s, 0)
  BY DEF EchoInv, Echoing, WriteVGA
<1>2. /\ LineLength \in Nat /\ LineLength <= (Rows - 1) * Columns
      /\ (Rows - 1) * Columns \in Nat
  BY <1>1, LineLengths
<1>3. /\ Head(text) \in Chars /\ Head(text) = text[1] /\ Len(text) \in Nat \ {0}
      /\ Tail(text) \in Seq(Chars) /\ Len(Tail(text)) = Len(text) - 1
      /\ \A i \in 1 .. Len(text) - 1 : Tail(text)[i] = text[i + 1]
  BY <1>1
<1>4. WritePrintable(Head(text))
  BY <1>3, ConsoleAssumption DEF WriteVGA, WriteCharacter
<1>5. /\ Cursor' = Place + 1 /\ cell'[Place] = Head(text)
      /\ \A i \in 1 .. Place : cell'[Place - i] = cell[Cursor - i]
  BY <1>1, <1>4, PrintableShown
<1>6. text' = Tail(text) /\ buffer' = buffer /\ buffer_size' = buffer_size
  BY DEF WriteVGA, lineVars
<1>7. LineLength' = LineLength /\ \A i : LineAt(i)' = LineAt(i)
  BY <1>6 DEF LineLength, LineAt
<1>8. s <= Place /\ Place \in Nat /\ Cursor \in Nat
  BY <1>1, <1>2, RoomForLine DEF Shows
<1>9. s + 1 \in 0 .. LineLength /\ s + 1 \in Nat
  BY <1>1, <1>2, <1>3
<1>10. text[1] = LineAt(s + 1)
  BY <1>3 DEF Echoing
<1>11. ASSUME NEW i \in 1 .. s + 1
       PROVE  cell'[Cursor' - 0 - (s + 1) + i - 1] = LineAt(i)
  <2>0. s \in Nat /\ Cursor' = Place + 1 /\ i \in 1 .. s + 1
    BY <1>1, <1>5, <1>11
  <2>1. CASE i = s + 1
    <3>1. Cursor' - 0 - (s + 1) + i - 1 = Place
      BY <1>8, <2>0, <2>1
    <3> QED
      BY <1>3, <1>5, <1>10, <2>1, <3>1
  <2>2. CASE i # s + 1
    <3>1. /\ Cursor' - 0 - (s + 1) + i - 1 = Place - (s + 1 - i)
          /\ s + 1 - i \in 1 .. Place /\ i \in 1 .. s
          /\ Cursor - 0 - s + i - 1 = Cursor - (s + 1 - i)
      BY <1>8, <2>0, <2>2
    <3>2. cell[Cursor - 0 - s + i - 1] = LineAt(i)
      BY <1>1, <3>1 DEF Shows
    <3> QED
      BY <1>5, <3>1, <3>2
  <2> QED
    BY <2>1, <2>2
<1>12. Shows(s + 1, 0)'
  <2>1. Cursor' >= (s + 1) + 0
    BY <1>1, <1>5, <1>8
  <2> QED
    BY <1>7, <1>11, <2>1 DEF Shows
<1>13. Len(text') = LineLength - (s + 1)
  BY <1>1, <1>2, <1>3, <1>6
<1>14. \A i \in 1 .. Len(text') : text'[i] = LineAt(s + 1 + i)
  <2>1. ASSUME NEW i \in 1 .. Len(text) - 1 PROVE Tail(text)[i] = LineAt(s + 1 + i)
    <3>1. i + 1 \in 1 .. Len(text) /\ s + (i + 1) = s + 1 + i
      BY <1>1, <1>3, <2>1
    <3>2. text[i + 1] = LineAt(s + (i + 1))
      BY <3>1 DEF Echoing
    <3> QED
      BY <1>3, <2>1, <3>1, <3>2
  <2> QED
    BY <1>3, <1>6, <2>1
<1> QED
  BY <1>3, <1>6, <1>7, <1>9, <1>12, <1>13, <1>14 DEF Echoing

\* The backspace is written: the screen shows what the shell has.
LEMMA EraseWritesBlank ==
  ASSUME EchoInv, pc = "edit", WriteVGA, Erasing
  PROVE  Echoing(LineLength)'
<1>1. /\ ScreenOK /\ NothingAfterCursor /\ BufferOK
      /\ text = <<BACKSPACE>> /\ buffer_size < BufferSize
      /\ Shows(LineLength, 1)
  BY DEF EchoInv, Erasing
<1>2. /\ LineLength \in Nat /\ LineLength + 1 <= (Rows - 1) * Columns
      /\ (Rows - 1) * Columns \in Nat
  BY <1>1, LineLengths
<1>3. Head(text) = BACKSPACE /\ Tail(text) = <<>> /\ BACKSPACE \notin Glyphs
  <2>1. BACKSPACE \notin Chars
    BY ConsoleAssumption
  <2>2. \A i \in 1 .. 16 : digits_map[i] # BACKSPACE
    BY DEF digits_map, BACKSPACE
  <2> QED
    BY <1>1, <2>1, <2>2 DEF Glyphs, BACKSPACE
<1>4. WriteBackspace
  BY <1>3 DEF WriteVGA, WriteCharacter, NEWLINE, BACKSPACE
<1>5. LineLength + 1 <= Place /\ Place \in Nat /\ Cursor \in Nat
  BY <1>1, <1>2, RoomForLine DEF Shows
<1>6. /\ Cursor' = Place - 1
      /\ \A i \in 2 .. Place : cell'[Place - i] = cell[Cursor - i]
  BY <1>1, <1>2, <1>4, <1>5, BackspaceShown
<1>7. text' = <<>> /\ buffer' = buffer /\ buffer_size' = buffer_size
  BY <1>3 DEF WriteVGA, lineVars
<1>8. LineLength' = LineLength /\ \A i : LineAt(i)' = LineAt(i)
  BY <1>7 DEF LineLength, LineAt
<1>9. ASSUME NEW i \in 1 .. LineLength
      PROVE  cell'[Cursor' - 0 - LineLength + i - 1] = LineAt(i)
  <2>1. /\ Cursor' - 0 - LineLength + i - 1 = Place - (LineLength + 2 - i)
        /\ LineLength + 2 - i \in 2 .. Place
        /\ Cursor - 1 - LineLength + i - 1 = Cursor - (LineLength + 2 - i)
    BY <1>2, <1>5, <1>6, <1>9
  <2>2. cell[Cursor - 1 - LineLength + i - 1] = LineAt(i)
    BY <1>1, <1>9 DEF Shows
  <2> QED
    BY <1>6, <2>1, <2>2
<1>10. Shows(LineLength, 0)'
  <2>1. Cursor' >= LineLength + 0
    BY <1>2, <1>5, <1>6
  <2> QED
    BY <1>8, <1>9, <2>1 DEF Shows
<1>11. LineLength \in 0 .. LineLength /\ LineLength - LineLength = 0
  BY <1>2
<1>12. text' \in Seq(Chars) /\ Len(text') = 0 /\ 1 .. Len(text') = {}
  BY <1>7
<1> QED
  BY <1>8, <1>10, <1>11, <1>12 DEF Echoing

\* The shell has nothing left to write: the line is on the screen.
LEMMA EchoDone ==
  ASSUME EchoInv, Shell("edit")
  PROVE  Shows(LineLength, 0)
<1>1. pc = "edit" /\ text = <<>> /\ BufferOK
  BY DEF Shell, EchoInv
<1>2. PICK s \in 0 .. LineLength : Echoing(s)
  BY <1>1 DEF EchoInv, Erasing
<1>3. LineLength \in Nat /\ Len(text) = 0 /\ Len(text) = LineLength - s
  BY <1>1, <1>2, LineLengths DEF Echoing
<1>4. s = LineLength
  BY <1>2, <1>3
<1> QED
  BY <1>2, <1>4 DEF Echoing

\* A key is stored: it follows the line on the screen.
LEMMA StoreEchoes ==
  ASSUME EchoInv, NEW k \in Keys, StoreKey(k)
  PROVE  BufferOK' /\ \E s \in 0 .. LineLength' : Echoing(s)'
<1>1. Shows(LineLength, 0) /\ BufferOK
  BY EchoDone DEF StoreKey, EchoInv
<1>2. /\ buffer_size < BufferSize /\ k \in Chars /\ text' = <<k>>
      /\ buffer' = [buffer EXCEPT ![buffer_size] = k]
      /\ buffer_size' = buffer_size + 1
      /\ UNCHANGED screenVars
  BY KeyPrinted DEF StoreKey
<1>3. /\ buffer_size \in Nat /\ BufferSize \in Nat /\ Len(Prompt) \in Nat
      /\ buffer_size \in 0 .. BufferSize
      /\ LineLength \in Nat
  BY <1>1, LineLengths, ConsoleAssumption DEF BufferOK
<1>4. BufferOK'
  <2>1. buffer_size + 1 \in 0 .. BufferSize
    BY <1>2, <1>3
  <2>2. DOMAIN buffer' = 0 .. BufferSize /\ buffer' = [i \in 0 .. BufferSize |-> buffer'[i]]
    BY <1>1, <1>2 DEF BufferOK
  <2> QED
    BY <1>2, <2>1, <2>2 DEF BufferOK
<1>5. LineLength' = LineLength + 1
  BY <1>2, <1>3 DEF LineLength
<1>6. ASSUME NEW i \in 1 .. LineLength PROVE LineAt(i)' = LineAt(i)
  <2>1. CASE i <= Len(Prompt)
    BY <2>1 DEF LineAt
  <2>2. CASE ~ (i <= Len(Prompt))
    <3>1. i - Len(Prompt) - 1 \in 0 .. BufferSize /\ i - Len(Prompt) - 1 # buffer_size
      BY <1>2, <1>3, <1>6, <2>2 DEF LineLength
    <3>2. buffer'[i - Len(Prompt) - 1] = buffer[i - Len(Prompt) - 1]
      BY <1>1, <1>2, <3>1 DEF BufferOK
    <3> QED
      BY <2>2, <3>2 DEF LineAt
  <2> QED
    BY <2>1, <2>2
<1>7. PICK s \in Nat : s = LineLength
  BY <1>3
<1>8. LineAt(s + 1)' = k
  <2>1. s + 1 - Len(Prompt) - 1 = buffer_size /\ ~ (s + 1 <= Len(Prompt))
    BY <1>3, <1>7 DEF LineLength
  <2>2. buffer'[buffer_size] = k
    BY <1>1, <1>2, <1>3 DEF BufferOK
  <2> QED
    BY <2>1, <2>2 DEF LineAt
<1>9. cell' = cell /\ Cursor' = Cursor
  BY <1>2 DEF screenVars, Cursor
<1>10. /\ Cursor' >= LineLength + 0
      /\ \A i \in 1 .. LineLength : cell'[Cursor' - 0 - LineLength + i - 1] = LineAt(i)'
  BY <1>1, <1>6, <1>9 DEF Shows
<1>11. Shows(s, 0)'
  BY <1>10, <1>7 DEF Shows
<1>12. text' \in Seq(Chars) /\ Len(text') = 1 /\ text'[1] = k
  BY <1>2
<1>13. s \in 0 .. LineLength' /\ Len(text') = LineLength' - s
  BY <1>5, <1>7, <1>12
<1>14. \A i \in 1 .. Len(text') : text'[i] = LineAt(s + i)'
  BY <1>8, <1>7, <1>12
<1>15. Echoing(s)'
  BY <1>11, <1>12, <1>13, <1>14 DEF Echoing
<1> QED
  BY <1>4, <1>13, <1>15

\* A key is erased: the shell drops it first, the screen follows.
LEMMA EraseEchoes ==
  ASSUME EchoInv, EraseKey
  PROVE  BufferOK' /\ Erasing'
<1>1. Shows(LineLength, 0) /\ BufferOK
  BY EchoDone DEF EraseKey, EchoInv
<1>2. /\ buffer_size \in 1 .. BufferSize - 1 /\ text' = <<BACKSPACE>>
      /\ buffer' = buffer /\ buffer_size' = buffer_size - 1
      /\ UNCHANGED screenVars
  <2>1. BACKSPACE \in Keys /\ PrintKey(BACKSPACE, "edit")
    BY DEF EraseKey, Keys
  <2>2. text' = <<BACKSPACE>> /\ UNCHANGED screenVars
    BY <2>1, KeyPrinted
  <2> QED
    BY <2>2 DEF EraseKey
<1>3. /\ buffer_size \in Nat /\ BufferSize \in Nat /\ Len(Prompt) \in Nat
      /\ LineLength \in Nat
  BY <1>1, <1>2, LineLengths, ConsoleAssumption DEF BufferOK
<1>4. BufferOK' /\ buffer_size' < BufferSize
  BY <1>1, <1>2, <1>3 DEF BufferOK
<1>5. LineLength' = LineLength - 1 /\ LineLength' \in Nat /\ \A i : LineAt(i)' = LineAt(i)
  BY <1>2, <1>3 DEF LineLength, LineAt
<1>6. cell' = cell /\ Cursor' = Cursor /\ Cursor \in Nat
  BY <1>2, ScrollMakesRoom DEF screenVars, Cursor, EchoInv
<1>7. Cursor' >= LineLength' + 1
  BY <1>1, <1>3, <1>5, <1>6 DEF Shows
<1>8. ASSUME NEW i \in 1 .. LineLength'
      PROVE  cell'[Cursor' - 1 - LineLength' + i - 1] = LineAt(i)
  <2>1. /\ i \in 1 .. LineLength
        /\ Cursor' - 1 - LineLength' + i - 1 = Cursor - 0 - LineLength + i - 1
    BY <1>3, <1>5, <1>6, <1>8
  <2> QED
    BY <1>1, <1>6, <2>1 DEF Shows
<1>9. Shows(LineLength, 1)'
  BY <1>5, <1>7, <1>8 DEF Shows
<1> QED
  BY <1>2, <1>4, <1>9 DEF Erasing

\* The prompt is to be written: an empty line.
LEMMA PromptEchoes ==
  ASSUME EchoInv, PrintPrompt
  PROVE  BufferOK' /\ \E s \in 0 .. LineLength' : Echoing(s)'
<1>1. /\ text' = Prompt /\ buffer' = buffer /\ buffer_size' = 0
      /\ UNCHANGED screenVars
  BY PromptPrinted DEF PrintPrompt
<1>2. BufferSize \in Nat /\ Prompt \in Seq(Chars) /\ Len(Prompt) \in Nat
  BY ConsoleAssumption, PromptFits
<1>3. BufferOK'
  BY <1>1, <1>2 DEF EchoInv, BufferOK
<1>4. LineLength' = Len(Prompt)
  BY <1>1, <1>2 DEF LineLength
<1>5. \A i \in 1 .. Len(Prompt) : LineAt(0 + i)' = Prompt[i]
  BY <1>2 DEF LineAt
<1>6. Cursor' \in Nat
  BY <1>1, ScrollMakesRoom DEF EchoInv, screenVars, Cursor
<1>7. Shows(0, 0)'
  BY <1>6 DEF Shows
<1>8. 0 \in 0 .. LineLength' /\ Len(text') = LineLength' - 0
  BY <1>1, <1>2, <1>4
<1>9. Echoing(0)'
  BY <1>1, <1>2, <1>5, <1>7, <1>8 DEF Echoing
<1> QED
  BY <1>3, <1>8, <1>9

\* A step that leaves the line and the screen alone leaves what they show.
LEMMA EchoUndisturbed ==
  ASSUME EchoInv, UNCHANGED <<screenVars, text, buffer, buffer_size>>, pc' = "edit" => pc = "edit"
  PROVE  BufferOK' /\ (pc' = "edit" => Erasing' \/ \E s \in 0 .. LineLength' : Echoing(s)')
<1>1. /\ cell' = cell /\ Cursor' = Cursor /\ text' = text
      /\ buffer' = buffer /\ buffer_size' = buffer_size
  BY DEF screenVars, Cursor
<1>2. LineLength' = LineLength /\ \A i : LineAt(i)' = LineAt(i)
  BY <1>1 DEF LineLength, LineAt
<1>3. BufferOK'
  BY <1>1 DEF EchoInv, BufferOK
<1>4. Erasing => Erasing'
  BY <1>1, <1>2 DEF Erasing, Shows
<1>5. ASSUME NEW s \in 0 .. LineLength, Echoing(s) PROVE Echoing(s)'
  BY <1>1, <1>2, <1>5 DEF Echoing, Shows
<1> QED
  BY <1>2, <1>3, <1>4, <1>5 DEF EchoInv

\* Every step keeps the command line on the screen.
LEMMA EchoStep ==
  ASSUME EchoInv, [ConsoleNext]_consoleVars
  PROVE  EchoInv'
<1> DEFINE Goal == BufferOK' /\ (pc' = "edit" => Erasing' \/ \E s \in 0 .. LineLength' : Echoing(s)')
<1>1. ScreenOK' /\ NothingAfterCursor'
  BY ScreenStep DEF EchoInv
<1> SUFFICES Goal
  BY <1>1 DEF EchoInv
<1>2. CASE WriteVGA
  <2>1. pc' = pc /\ BufferOK'
    BY <1>2 DEF WriteVGA, lineVars, EchoInv, BufferOK
  <2>2. CASE pc = "edit" /\ Erasing
    <3>1. Echoing(LineLength)'
      BY <1>2, <2>2, EraseWritesBlank
    <3>2. LineLength' \in 0 .. LineLength'
      BY <3>1 DEF Echoing
    <3> QED
      BY <2>1, <3>1, <3>2
  <2>3. CASE pc = "edit" /\ ~ Erasing
    <3>1. PICK s \in 0 .. LineLength : Echoing(s)
      BY <2>3 DEF EchoInv
    <3>2. Echoing(s + 1)' /\ s + 1 \in 0 .. LineLength'
      BY <1>2, <2>3, <3>1, EchoWritesOne
    <3> QED
      BY <2>1, <3>2
  <2>4. CASE pc # "edit"
    BY <2>1, <2>4
  <2> QED
    BY <2>2, <2>3, <2>4
<1>3. CASE PrintPrompt
  BY <1>3, PromptEchoes
<1>4. CASE EraseKey
  BY <1>4, EraseEchoes
<1>5. ASSUME NEW k \in Keys, StoreKey(k) PROVE Goal
  BY <1>5, StoreEchoes
<1>6. ASSUME NEW k \in Keys, EndOfLine(k) PROVE Goal
  <2>1. pc' # "edit" /\ UNCHANGED lineVars
    BY <1>6, KeyPrinted DEF EndOfLine
  <2> QED
    BY <2>1 DEF lineVars, EchoInv, BufferOK
<1>7. CASE EmptyLine \/ ExecuteCmd \/ OpenFound \/ CommandDone \/ Halted \/ UNCHANGED consoleVars
  <2>1. /\ UNCHANGED <<screenVars, text, buffer, buffer_size>>
        /\ pc' = "edit" => pc = "edit"
    BY <1>7 DEF EmptyLine, ExecuteCmd, OpenFound, CommandDone, Halted, consoleVars, textVars,
                lineVars
  <2> QED
    BY <2>1, EchoUndisturbed
<1>8. CASE OpenNotFound
  <2>1. /\ pc' # "edit" /\ buffer_size' = buffer_size
        /\ buffer' = [buffer EXCEPT ![buffer_size] = BLANK]
    BY <1>8 DEF OpenNotFound, PrintMessage
  <2> QED
    BY <2>1 DEF EchoInv, BufferOK
<1>9. CASE ClearScreen
  BY <1>9 DEF ClearScreen, Shell, lineVars, EchoInv, BufferOK
<1>10. ASSUME NEW m, Output(m) PROVE Goal
  <2>1. pc' # "edit" /\ UNCHANGED lineVars
    BY <1>10 DEF Output, PrintMessage
  <2> QED
    BY <2>1 DEF lineVars, EchoInv, BufferOK
<1> QED
  BY <1>2, <1>3, <1>4, <1>5, <1>6, <1>7, <1>8, <1>9, <1>10 DEF ConsoleNext

\* The prompt and the line in the shell's buffer are on the screen, up to the
\* cursor, whenever the shell waits for a key: over line breaks, scrolling, any
\* sequence of keys stored and erased, and whatever was printed before.
THEOREM EchoAlwaysMatches == ConsoleSpec => []EchoMatchesBuffer
<1>1. ConsoleInit => EchoInv
  <2> SUFFICES ASSUME ConsoleInit PROVE EchoInv
    OBVIOUS
  <2>1. BufferSize \in Nat
    BY ConsoleAssumption
  <2>2. BufferOK
    BY <2>1 DEF ConsoleInit, BufferOK
  <2> QED
    BY <2>2, ScreenAtBoot DEF ConsoleInit, EchoInv
<1>2. EchoInv /\ [ConsoleNext]_consoleVars => EchoInv'
  BY EchoStep
<1>3. EchoInv => EchoMatchesBuffer
  <2> SUFFICES ASSUME EchoInv, Shell("edit")
               PROVE  /\ \A i \in 0 .. buffer_size - 1 : cell[Cursor - buffer_size + i] = buffer[i]
                      /\ \A i \in 1 .. Len(Prompt) :
                           cell[Cursor - buffer_size - Len(Prompt) + i - 1] = Prompt[i]
    BY DEF EchoMatchesBuffer
  <2>1. Shows(LineLength, 0)
    BY EchoDone
  <2>2. Len(Prompt) \in Nat /\ buffer_size \in Nat /\ Cursor \in Nat
    BY ConsoleAssumption, ScrollMakesRoom DEF EchoInv, BufferOK
  <2>3. ASSUME NEW i \in 1 .. Len(Prompt)
        PROVE  cell[Cursor - buffer_size - Len(Prompt) + i - 1] = Prompt[i]
    <3>1. /\ i \in 1 .. LineLength /\ LineAt(i) = Prompt[i]
          /\ Cursor - 0 - LineLength + i - 1 = Cursor - buffer_size - Len(Prompt) + i - 1
      BY <2>2, <2>3 DEF LineLength, LineAt
    <3> QED
      BY <2>1, <3>1 DEF Shows
  <2>4. ASSUME NEW i \in 0 .. buffer_size - 1
        PROVE  cell[Cursor - buffer_size + i] = buffer[i]
    <3> DEFINE j == Len(Prompt) + i + 1
    <3>1. /\ j \in 1 .. LineLength /\ ~ (j <= Len(Prompt)) /\ j - Len(Prompt) - 1 = i
          /\ Cursor - 0 - LineLength + j - 1 = Cursor - buffer_size + i
      BY <2>2, <2>4 DEF LineLength
    <3>2. LineAt(j) = buffer[i]
      BY <3>1 DEF LineAt
    <3> HIDE DEF j
    <3> QED
      BY <2>1, <3>1, <3>2 DEF Shows
  <2> QED
    BY <2>3, <2>4
<1> QED
  BY <1>1, <1>2, <1>3, PTL DEF ConsoleSpec

-----------------------------------------------------------------------------
(* Messages on the screen.                                                 *)

\* Of the text w, some is on the screen, before the cursor and as far as it was
\* not scrolled off, and the rest is still to be written.
Remains(w) ==
  /\ Len(text) <= Len(w)
  /\ \A i \in 1 .. Len(text) : text[i] = w[Len(w) - Len(text) + i]
  /\ (\A i \in 1 .. Len(w) : w[i] \in Glyphs) =>
       \A i \in 1 .. Len(w) - Len(text) :
         Cursor >= i => cell[Cursor - i] = w[Len(w) - Len(text) + 1 - i]

\* The shell's line.
LineOK == /\ buffer \in [0 .. BufferSize -> Chars \cup {BLANK}]
          /\ buffer_size \in 0 .. BufferSize
          /\ typed \in Seq(Chars) /\ Len(typed) = buffer_size

\* Nothing but glyphs on the screen.
CellsOK == cell \in [Cells -> Glyphs \cup {BLANK}]

MessageInv == /\ ScreenOK /\ NothingAfterCursor /\ CellsOK
              /\ pc \in {"prompt", "edit", "parse", "run", "panic"}
              /\ LineOK
              /\ text \in Seq(Glyphs \cup Keys)
              /\ WellFormed(said, Keys)
              /\ Quiet(said) => pc # "panic" /\ Remains(Meant(said))

\* An empty message means nothing.
LEMMA EmptyMessage ==
  WellFormed(<<>>, Keys) /\ Meant(<<>>) = <<>>
<1>1. <<>> \in Seq(Pieces(Keys)) /\ Len(<<>>) = 0
  OBVIOUS
<1>2. WellFormed(<<>>, Keys)
  BY <1>1 DEF WellFormed
<1>3. PICK jm : PrintedAssembled(<<>>, jm, Written(Keys))
  BY <1>2, MessageAssembled
<1>4. jm[0] = <<>> /\ PrintedText(<<>>) = jm[Len(<<>>)]
  BY <1>3, Zenon DEF PrintedAssembled, Assembled
<1>5. NoNegativeInt(<<>>)
  BY <1>1 DEF NoNegativeInt
<1>6. PrintedText(<<>>) = Meant(<<>>)
  BY <1>2, <1>5, PrintedIsMeant
<1> QED
  BY <1>1, <1>2, <1>4, <1>6

\* A message that is handed to printf is all still to be written.
LEMMA MessageStarts ==
  ASSUME NEW m, WellFormed(m, Keys), Quiet(m), NEW next, PrintMessage(m, next)
  PROVE  pc' = next /\ Remains(Meant(m))'
<1>1. text' = Meant(m) /\ pc' = next
  BY MessagePrinted
<1>2. PICK w \in Seq(Glyphs \cup Keys) : w = Meant(m)
  BY MeansSomething DEF Quiet
<1>3. text' = w
  BY <1>1, <1>2
<1>4. Remains(w)'
  <2>1. PICK l \in Nat : l = Len(w)
    OBVIOUS
  <2>2. Len(text') = l /\ l - l = 0 /\ l <= l
    BY <1>3, <2>1
  <2>3. \A i \in 1 .. l : l - l + i = i
    OBVIOUS
  <2>4. \A i \in 1 .. l - l : FALSE
    OBVIOUS
  <2> QED
    BY <1>3, <2>1, <2>2, <2>3, <2>4 DEF Remains
<1> QED
  BY <1>1, <1>2, <1>4

\* A character that is written is one more of the message on the screen.
LEMMA MessageGoesOn ==
  ASSUME MessageInv, Quiet(said), WriteVGA
  PROVE  Remains(Meant(said))'
<1>1. PICK w \in Seq(Glyphs \cup Keys) : w = Meant(said)
  BY MeansSomething DEF MessageInv, Quiet
<1>2. Meant(said)' = w
  BY <1>1 DEF WriteVGA
<1>3. PICK s \in Seq(Glyphs \cup Keys) : s = text /\ s # <<>>
  BY DEF MessageInv, WriteVGA
<1>4. PICK l \in Nat, k \in Nat \ {0} : l = Len(w) /\ k = Len(s)
  BY <1>3
<1>5. /\ text' = Tail(s) /\ Tail(s) \in Seq(Glyphs \cup Keys) /\ Len(Tail(s)) = k - 1
      /\ Head(s) = s[1] /\ \A i \in 1 .. k - 1 : Tail(s)[i] = s[i + 1]
  BY <1>3, <1>4 DEF WriteVGA
<1>6. Len(text') = k - 1
  BY <1>5
<1>7. /\ k <= l /\ \A i \in 1 .. k : s[i] = w[l - k + i]
      /\ (\A i \in 1 .. l : w[i] \in Glyphs) =>
           \A i \in 1 .. l - k : Cursor >= i => cell[Cursor - i] = w[l - k + 1 - i]
  <2>1. Remains(w)
    BY <1>1 DEF MessageInv
  <2> QED
    BY <1>3, <1>4, <2>1 DEF Remains
<1>8. \A i \in 1 .. k - 1 : text'[i] = w[l - (k - 1) + i]
  <2> SUFFICES ASSUME NEW i \in 1 .. k - 1 PROVE text'[i] = w[l - (k - 1) + i]
    OBVIOUS
  <2>1. i + 1 \in 1 .. k /\ l - k + (i + 1) = l - (k - 1) + i
    BY <1>4
  <2>2. s[i + 1] = w[l - k + (i + 1)]
    BY <1>7, <2>1
  <2>3. text'[i] = s[i + 1]
    BY <1>5
  <2> QED
    BY <2>1, <2>2, <2>3
<1>9. ASSUME \A i \in 1 .. l : w[i] \in Glyphs,
             NEW i \in 1 .. l - (k - 1), Cursor' >= i
      PROVE  cell'[Cursor' - i] = w[l - (k - 1) + 1 - i]
  <2>1. 1 \in 1 .. k /\ l - k + 1 \in 1 .. l
    BY <1>4, <1>7
  <2>2. Head(s) = w[l - k + 1] /\ w[l - k + 1] \in Glyphs
    BY <1>5, <1>7, <1>9, <2>1
  <2>3. PICK c \in Glyphs : c = Head(text) /\ c = w[l - k + 1]
    BY <1>3, <2>2
  <2>4. c # NEWLINE /\ c # BACKSPACE
    <3>1. \A x \in 1 .. 16 : digits_map[x] # "newline" /\ digits_map[x] # "backspace"
      BY DEF digits_map
    <3> QED
      BY <3>1, ConsoleAssumption DEF Glyphs, NEWLINE, BACKSPACE
  <2>5. WritePrintable(c)
    BY <2>3, <2>4 DEF WriteVGA, WriteCharacter
  <2>6. /\ Cursor' = Place + 1 /\ cell'[Place] = c
        /\ \A y \in 1 .. Place : cell'[Place - y] = cell[Cursor - y]
    BY <2>5, PrintableShown DEF MessageInv
  <2>7. Place \in Nat /\ Cursor \in Nat /\ Place <= Cursor
    <3>1. /\ Place \in Cells /\ Cursor \in Nat
          /\ Place = IF row = Rows THEN Cursor - Columns ELSE Cursor
      BY ScrollMakesRoom DEF MessageInv
    <3>2. Columns \in Nat
      BY ConsoleAssumption
    <3>3. Place \in Nat
      BY <3>1 DEF Cells
    <3> QED
      BY <3>1, <3>2, <3>3
  <2>8. CASE i = 1
    <3>1. Cursor' - i = Place /\ l - (k - 1) + 1 - i = l - k + 1
      BY <1>4, <2>6, <2>7, <2>8
    <3> QED
      BY <2>3, <2>6, <3>1
  <2>9. CASE i # 1
    <3>1. PICK y \in Nat : y = i - 1 /\ y \in 1 .. l - k /\ y \in 1 .. Place /\ Cursor >= y
      <4>1. i \in Nat /\ i >= 2 /\ i <= l - k + 1 /\ i <= Place + 1
        BY <1>4, <1>9, <2>6, <2>7, <2>9
      <4> HIDE DEF Cursor, Place
      <4>2. i - 1 \in Nat /\ i - 1 \in 1 .. l - k /\ i - 1 \in 1 .. Place /\ Cursor >= i - 1
        BY <1>4, <2>7, <4>1
      <4> QED
        BY <4>2
    <3>2. Cursor' - i = Place - y /\ l - (k - 1) + 1 - i = l - k + 1 - y
      BY <1>4, <2>6, <2>7, <3>1
    <3>3. cell'[Place - y] = cell[Cursor - y]
      BY <2>6, <3>1
    <3>4. cell[Cursor - y] = w[l - k + 1 - y]
      BY <1>7, <1>9, <3>1
    <3> QED
      BY <3>2, <3>3, <3>4
  <2> QED
    BY <2>8, <2>9
<1>10. Remains(w)'
  <2>1. k - 1 <= l
    BY <1>4, <1>7
  <2> QED
    BY <1>4, <1>6, <1>8, <1>9, <2>1 DEF Remains
<1> QED
  BY <1>2, <1>10

\* Only glyphs are written.
LEMMA GlyphsWritten ==
  ASSUME CellsOK, NEW c, WriteCharacter(c)
  PROVE  CellsOK'
<1>1. Scrolled \in [Cells -> Glyphs \cup {BLANK}]
  <2>1. ScrollUp(cell) \in [Cells -> Glyphs \cup {BLANK}]
    BY DEF ScrollUp, CellsOK
  <2> QED
    BY <2>1 DEF Scrolled, CellsOK
<1>2. CASE WriteNewline
  BY <1>1, <1>2 DEF WriteNewline, CellsOK
<1>3. CASE WriteBackspace
  <2>1. cell' = Scrolled \/ \E x : cell' = [Scrolled EXCEPT ![x] = BLANK]
    BY <1>3 DEF WriteBackspace
  <2> QED
    BY <1>1, <2>1 DEF CellsOK
<1>4. CASE c \in Glyphs /\ WritePrintable(c)
  <2>1. \E x : cell' = [Scrolled EXCEPT ![x] = c]
    BY <1>4 DEF WritePrintable
  <2> QED
    BY <1>1, <1>4, <2>1 DEF CellsOK
<1> QED
  BY <1>2, <1>3, <1>4 DEF WriteCharacter

\* A string that is ended within the buffer is what stands before the end.
LEMMA EndedString ==
  ASSUME NEW b \in [0 .. BufferSize -> Chars \cup {BLANK}], NEW e \in 0 .. BufferSize,
         b[e] = BLANK
  PROVE  CString(b) \in Seq(Chars)
<1>1. BufferSize \in Nat
  BY ConsoleAssumption
<1> DEFINE zeros == {i \in 0 .. BufferSize : b[i] = BLANK}
<1>2. zeros # {} /\ zeros \subseteq Nat
  BY <1>1
<1> DEFINE n == CHOOSE i \in zeros : \A j \in zeros : i <= j
<1>3. CString(b) = [i \in 1 .. n |-> b[i - 1]]
  BY <1>2 DEF CString
<1>4. \E i \in zeros : \A j \in zeros : i <= j
  BY <1>2, LeastNatural
<1>5. n \in zeros /\ \A j \in zeros : n <= j
  BY <1>4, Zenon
<1>6. n \in 0 .. BufferSize
  BY <1>5
<1> HIDE DEF n
<1>7. ASSUME NEW i \in 1 .. n PROVE b[i - 1] \in Chars
  <2>1. i - 1 \in 0 .. BufferSize /\ ~ (n <= i - 1)
    BY <1>1, <1>6, <1>7
  <2>2. b[i - 1] # BLANK
    BY <1>5, <2>1
  <2> QED
    BY <2>1, <2>2
<1>8. [i \in 1 .. n |-> b[i - 1]] \in [1 .. n -> Chars]
  BY <1>7
<1>9. n \in Nat
  BY <1>1, <1>6
<1>10. [i \in 1 .. n |-> b[i - 1]] \in Seq(Chars)
  BY <1>8, <1>9
<1> QED
  BY <1>3, <1>10

\* A call of printf with a well-formed message, whatever the shell does with its
\* line meanwhile.
LEMMA PrintKeepsMessageInv ==
  ASSUME MessageInv, NEW m, WellFormed(m, Keys), LineOK',
         NEW next \in {"prompt", "edit", "parse", "run"}, PrintMessage(m, next)
  PROVE  MessageInv'
<1>1. /\ text' \in Seq(Glyphs \cup Keys) /\ said' = m /\ UNCHANGED <<cell, column, row>>
      /\ pc' \in {"prompt", "edit", "parse", "run", "panic"}
  BY MessagePrinted DEF screenVars
<1>2. (ScreenOK /\ NothingAfterCursor /\ CellsOK)'
  BY <1>1 DEF MessageInv, ScreenOK, NothingAfterCursor, CellsOK, Cursor
<1>3. WellFormed(said, Keys)'
  BY <1>1
<1>4. Quiet(m) => pc' # "panic" /\ Remains(Meant(m))'
  BY MessageStarts
<1>5. (Quiet(said) => pc # "panic" /\ Remains(Meant(said)))'
  BY <1>1, <1>4
<1> QED
  BY <1>1, <1>2, <1>3, <1>5 DEF MessageInv

\* A step that leaves the screen, the text and the line alone.
LEMMA MessageUndisturbed ==
  ASSUME MessageInv, UNCHANGED <<screenVars, textVars, lineVars>>,
         pc' \in {"prompt", "edit", "parse", "run", "panic"}, pc' = "panic" => pc = "panic"
  PROVE  MessageInv'
<1>1. /\ UNCHANGED <<cell, column, row, text, said, buffer, buffer_size, typed>>
  BY DEF screenVars, textVars, lineVars
<1>2. (ScreenOK /\ NothingAfterCursor /\ CellsOK)'
  BY <1>1 DEF MessageInv, ScreenOK, NothingAfterCursor, CellsOK, Cursor
<1>3. LineOK'
  BY <1>1 DEF MessageInv, LineOK
<1>4. PICK m, w : m = said /\ w = Meant(m)
  OBVIOUS
<1>5. said' = m /\ Meant(said)' = w
  BY <1>1, <1>4
<1>6. Quiet(m) => pc' # "panic" /\ Remains(w)'
  BY <1>1, <1>4 DEF MessageInv, Remains, Cursor
<1>7. text' \in Seq(Glyphs \cup Keys) /\ WellFormed(said, Keys)'
  BY <1>1 DEF MessageInv
<1>8. (Quiet(said) => pc # "panic" /\ Remains(Meant(said)))'
  BY <1>4, <1>5, <1>6
<1> QED
  BY <1>2, <1>3, <1>7, <1>8 DEF MessageInv

\* Every step shows what is meant and keeps the types.
LEMMA MessageStep ==
  ASSUME MessageInv, [ConsoleNext]_consoleVars
  PROVE  MessageInv'
<1>1. /\ BufferSize \in Nat \ {0} /\ Prompt \in Seq(Chars)
      /\ \A m \in Messages : WellFormed(m, Keys)
  BY ConsoleAssumption, PromptFits
<1>2. ASSUME NEW k \in Keys PROVE WellFormed(<<String(<<k>>)>>, Keys)
  <2>1. <<k>> \in Seq(Keys)
    OBVIOUS
  <2> QED
    BY <2>1, TextsFit, Composed
<1>3. /\ buffer \in [0 .. BufferSize -> Chars \cup {BLANK}]
      /\ buffer_size \in 0 .. BufferSize
      /\ typed \in Seq(Chars) /\ Len(typed) = buffer_size
      /\ pc \in {"prompt", "edit", "parse", "run", "panic"}
  BY DEF MessageInv, LineOK
<1>4. CASE WriteVGA
  <2>1. text' \in Seq(Glyphs \cup Keys)
    <3>1. PICK s \in Seq(Glyphs \cup Keys) : s = text /\ s # <<>> /\ text' = Tail(s)
      BY <1>4 DEF WriteVGA, MessageInv
    <3>2. Tail(s) \in Seq(Glyphs \cup Keys)
      BY <3>1
    <3> QED
      BY <3>1, <3>2
  <2>2. (ScreenOK /\ NothingAfterCursor /\ CellsOK)'
    <3>1. WriteCharacter(Head(text))
      BY <1>4 DEF WriteVGA
    <3> QED
      BY <3>1, CharacterShown, GlyphsWritten DEF MessageInv
  <2>3. LineOK' /\ pc' = pc /\ WellFormed(said, Keys)'
    BY <1>4 DEF WriteVGA, lineVars, LineOK, MessageInv
  <2>4. (Quiet(said) => pc # "panic" /\ Remains(Meant(said)))'
    <3>1. PICK m : m = said /\ said' = m
      BY <1>4 DEF WriteVGA
    <3>2. Quiet(m) => pc' # "panic" /\ Remains(Meant(m))'
      BY <1>4, <2>3, <3>1, MessageGoesOn DEF MessageInv
    <3> QED
      BY <3>1, <3>2
  <2> QED
    BY <1>3, <2>1, <2>2, <2>3, <2>4 DEF MessageInv
<1>5. CASE PrintPrompt
  <2>1. WellFormed(<<Literal(Prompt)>>, Keys)
    BY PromptFits
  <2>2. LineOK'
    <3>1. buffer' = buffer /\ buffer_size' = 0 /\ typed' = <<>>
      BY <1>5 DEF PrintPrompt
    <3>2. <<>> \in Seq(Chars) /\ Len(<<>>) = 0
      OBVIOUS
    <3> QED
      BY <1>1, <1>3, <3>1, <3>2 DEF LineOK
  <2>3. PrintMessage(<<Literal(Prompt)>>, "edit")
    BY <1>5 DEF PrintPrompt
  <2> QED
    BY <2>1, <2>2, <2>3, PrintKeepsMessageInv
<1>6. ASSUME NEW k \in Keys, EndOfLine(k) PROVE MessageInv'
  <2>1. /\ PrintMessage(<<String(<<k>>)>>, "parse")
        /\ UNCHANGED <<buffer, buffer_size, typed>>
    BY <1>6 DEF EndOfLine, PrintKey, lineVars
  <2>2. LineOK'
    BY <1>3, <2>1 DEF LineOK
  <2> QED
    BY <1>2, <2>1, <2>2, PrintKeepsMessageInv
<1>7. CASE EraseKey
  <2>1. /\ PrintMessage(<<String(<<BACKSPACE>>)>>, "edit") /\ buffer' = buffer
        /\ buffer_size' = buffer_size - 1 /\ buffer_size \in 1 .. BufferSize - 1
        /\ typed' = SubSeq(typed, 1, Len(typed) - 1)
    BY <1>7 DEF EraseKey, PrintKey
  <2>2. PICK s \in Seq(Chars) : s = typed
    BY <1>3
  <2>3. Len(s) \in Nat \ {0} /\ Len(s) = buffer_size
    BY <1>1, <1>3, <2>1, <2>2
  <2>4. SubSeq(s, 1, Len(s) - 1) \in Seq(Chars) /\ Len(SubSeq(s, 1, Len(s) - 1)) = Len(s) - 1
    BY <2>3, SubSeqProperties
  <2>5. LineOK'
    BY <1>1, <1>3, <2>1, <2>2, <2>3, <2>4 DEF LineOK
  <2>6. BACKSPACE \in Keys
    BY DEF Keys
  <2> QED
    BY <1>2, <1>3, <2>1, <2>5, <2>6, PrintKeepsMessageInv
<1>8. ASSUME NEW k \in Keys, StoreKey(k) PROVE MessageInv'
  <2>1. /\ PrintMessage(<<String(<<k>>)>>, "edit") /\ k \in Chars
        /\ buffer' = [buffer EXCEPT ![buffer_size] = k] /\ buffer_size < BufferSize
        /\ buffer_size' = buffer_size + 1 /\ typed' = Append(typed, k)
    BY <1>8 DEF StoreKey, PrintKey
  <2>2. typed' \in Seq(Chars) /\ Len(typed') = buffer_size + 1
    BY <1>3, <2>1
  <2>3. LineOK'
    BY <1>1, <1>3, <2>1, <2>2 DEF LineOK
  <2> QED
    BY <1>2, <1>3, <2>1, <2>3, PrintKeepsMessageInv
<1>9. CASE EmptyLine \/ ExecuteCmd \/ OpenFound \/ CommandDone
  <2>1. /\ UNCHANGED <<screenVars, textVars, lineVars>>
        /\ pc' \in {"prompt", "edit", "parse", "run", "panic"} /\ pc' # "panic"
    BY <1>9 DEF EmptyLine, ExecuteCmd, OpenFound, CommandDone
  <2> QED
    BY <2>1, MessageUndisturbed
<1>10. CASE Halted \/ UNCHANGED consoleVars
  <2>1. UNCHANGED <<screenVars, textVars, lineVars>> /\ pc' = pc
    BY <1>10 DEF Halted, consoleVars
  <2> QED
    BY <1>3, <2>1, MessageUndisturbed
<1>11. CASE OpenNotFound
  <2>1. /\ buffer' = [buffer EXCEPT ![buffer_size] = BLANK]
        /\ PrintMessage(<<String(CString(buffer')), Literal(<<NEWLINE>>)>>, "prompt")
        /\ UNCHANGED <<buffer_size, typed>>
    BY <1>11 DEF OpenNotFound
  <2>2. buffer' \in [0 .. BufferSize -> Chars \cup {BLANK}] /\ buffer'[buffer_size] = BLANK
    BY <1>3, <2>1
  <2>3. PICK s \in Seq(Chars) : s = CString(buffer')
    BY <1>3, <2>2, EndedString
  <2>4. s \in Seq(Keys) /\ <<NEWLINE>> \in Seq(Keys)
    BY DEF Keys
  <2>5. WellFormed(<<String(s), Literal(<<NEWLINE>>)>>, Keys)
    <3>1. /\ String(s) \in Pieces(Keys) /\ Fits(String(s))
          /\ Literal(<<NEWLINE>>) \in Pieces(Keys) /\ Fits(Literal(<<NEWLINE>>))
      <4>1. Len(<<NEWLINE>>) = 1 /\ <<NEWLINE>>[1] # "%"
        BY DEF NEWLINE
      <4>2. \A i \in 1 .. Len(<<NEWLINE>>) : <<NEWLINE>>[i] # "%"
        BY <4>1
      <4> QED
        BY <2>4, <4>2, TextsFit
    <3> QED
      BY <3>1, Composed
  <2>6. LineOK'
    BY <1>3, <2>1, <2>2 DEF LineOK
  <2> QED
    BY <2>1, <2>3, <2>5, <2>6, PrintKeepsMessageInv
<1>12. ASSUME NEW m, WellFormed(m, Keys), Output(m) PROVE MessageInv'
  <2>1. PrintMessage(m, "run") /\ UNCHANGED <<buffer, buffer_size, typed>>
    BY <1>12 DEF Output, lineVars
  <2>2. LineOK'
    BY <1>3, <2>1 DEF LineOK
  <2> QED
    BY <1>3, <1>12, <2>1, <2>2, PrintKeepsMessageInv
<1>13. CASE ClearScreen
  <2>1. /\ ClrSrc /\ said' = <<>> /\ text = <<>> /\ text' = <<>> /\ pc' = pc /\ pc = "run"
        /\ UNCHANGED <<buffer, buffer_size, typed>>
    BY <1>13 DEF ClearScreen, Shell, lineVars
  <2>2. ScreenOK' /\ NothingAfterCursor'
    BY ScreenStep DEF MessageInv
  <2>3. CellsOK'
    BY <2>1 DEF ClrSrc, CellsOK
  <2>4. LineOK'
    BY <1>3, <2>1 DEF LineOK
  <2>5. WellFormed(said, Keys)' /\ Meant(said)' = <<>>
    BY <2>1, EmptyMessage
  <2>6. Remains(<<>>)'
    BY <2>1 DEF Remains
  <2>7. text' \in Seq(Glyphs \cup Keys)
    BY <2>1
  <2> QED
    BY <1>3, <2>1, <2>2, <2>3, <2>4, <2>5, <2>6, <2>7 DEF MessageInv
<1> QED
  BY <1>1, <1>2, <1>4, <1>5, <1>6, <1>7, <1>8, <1>9, <1>10, <1>11, <1>12, <1>13 DEF ConsoleNext

\* At the boot nothing is said.
LEMMA MessageAtBoot ==
  ASSUME ConsoleInit
  PROVE  MessageInv
<1>1. ScreenOK /\ NothingAfterCursor
  BY ScreenAtBoot
<1>2. PICK c \in Chars \cup {BLANK} :
        buffer = [i \in 0 .. BufferSize |-> IF i = BufferSize THEN c ELSE BLANK]
  BY DEF ConsoleInit
<1>3. /\ cell = [i \in Cells |-> BLANK] /\ pc = "prompt" /\ text = <<>> /\ said = <<>>
      /\ buffer_size = 0 /\ typed = <<>> /\ BufferSize \in Nat
  BY ConsoleAssumption DEF ConsoleInit
<1>4. CellsOK
  BY <1>3 DEF CellsOK
<1>5. LineOK
  <2>1. <<>> \in Seq(Chars) /\ Len(<<>>) = 0
    OBVIOUS
  <2> QED
    BY <1>2, <1>3, <2>1 DEF LineOK
<1>6. WellFormed(said, Keys) /\ Meant(said) = <<>>
  BY <1>3, EmptyMessage
<1>7. Remains(<<>>)
  BY <1>3 DEF Remains
<1>8. text \in Seq(Glyphs \cup Keys)
  BY <1>3
<1> QED
  BY <1>1, <1>3, <1>4, <1>5, <1>6, <1>7, <1>8 DEF MessageInv

\* The invariant says it.
LEMMA MessageInvSays ==
  ASSUME MessageInv
  PROVE  ConsoleTypeOK /\ ShowsWhatIsMeant
<1>1. ConsoleTypeOK
  BY DEF MessageInv, LineOK, CellsOK, ScreenOK, ConsoleTypeOK
<1> SUFFICES ASSUME Quiet(said) PROVE ShownAsMeant
  BY <1>1 DEF ShowsWhatIsMeant, Quiet
<1>2. PICK w \in Seq(Glyphs \cup Keys) : w = Meant(said)
  BY MeansSomething DEF MessageInv, Quiet
<1>3. PICK s \in Seq(Glyphs \cup Keys) : s = text
  BY DEF MessageInv
<1>4. PICK l \in Nat, k \in Nat : l = Len(w) /\ k = Len(s)
  OBVIOUS
<1>5. Remains(w) /\ pc # "panic"
  BY <1>2 DEF MessageInv
<1>6. /\ k <= l /\ \A i \in 1 .. k : s[i] = w[l - k + i]
      /\ (\A i \in 1 .. l : w[i] \in Glyphs) =>
           \A i \in 1 .. l - k : Cursor >= i => cell[Cursor - i] = w[l - k + 1 - i]
  BY <1>3, <1>4, <1>5 DEF Remains
<1>7. l - k >= 0 /\ l - k \in Nat
  BY <1>4, <1>6
<1>8. s = SubSeq(w, l - k + 1, l)
  <2>1. SubSeq(w, l - k + 1, l) = [i \in 1 .. k |-> w[l - k + i]]
    <3>1. l - k + 1 \in 1 .. Len(w) + 1 /\ l \in (l - k + 1) - 1 .. Len(w)
      BY <1>4, <1>7
    <3>2. l - (l - k + 1) + 1 = k /\ \A i \in 1 .. k : (l - k + 1) + i - 1 = l - k + i
      BY <1>4
    <3>3. /\ SubSeq(w, l - k + 1, l) \in Seq(Glyphs \cup Keys)
          /\ Len(SubSeq(w, l - k + 1, l)) = k
          /\ \A i \in 1 .. k : SubSeq(w, l - k + 1, l)[i] = w[l - k + i]
      BY <3>1, <3>2, SubSeqProperties
    <3> QED
      BY <3>3
  <2>2. s = [i \in 1 .. k |-> s[i]]
    BY <1>4
  <2> QED
    BY <1>6, <2>1, <2>2
<1> QED
  BY <1>2, <1>3, <1>4, <1>5, <1>6, <1>7, <1>8 DEF ShownAsMeant

\* The screen and the shell's line stay what they are, whatever is typed and
\* printed: the cursor is on the screen or at the start of the row below it,
\* every cell holds a character, and the line fits its buffer.
THEOREM ConsoleTypeCorrect == ConsoleSpec => []ConsoleTypeOK
<1>1. ConsoleInit => MessageInv
  BY MessageAtBoot
<1>2. MessageInv /\ [ConsoleNext]_consoleVars => MessageInv'
  BY MessageStep
<1>3. MessageInv => ConsoleTypeOK
  BY MessageInvSays
<1> QED
  BY <1>1, <1>2, <1>3, PTL DEF ConsoleSpec

\* A call of printf shows what its arguments say, over two formats, line breaks and
\* scrolling, if its text has no % with a specifier behind it and no argument is a
\* negative int: numbers up to the largest and, as 64 bits, down to the smallest as
\* their numerals, strings as they are, also with a % in them.
THEOREM AlwaysShowsWhatIsMeant == ConsoleSpec => []ShowsWhatIsMeant
<1>1. ConsoleInit => MessageInv
  BY MessageAtBoot
<1>2. MessageInv /\ [ConsoleNext]_consoleVars => MessageInv'
  BY MessageStep
<1>3. MessageInv => ShowsWhatIsMeant
  BY MessageInvSays
<1> QED
  BY <1>1, <1>2, <1>3, PTL DEF ConsoleSpec

-----------------------------------------------------------------------------
(* UserPrograms: a process waits for the child that fork gave it.          *)

Steps == {"none", "prompt", "parse", "fork", "wait", "exec", "fork1", "loop", "return"}

ProgramTypeOK == upc \in [Slots -> Steps] /\ var \in [Slots -> Int]

\* A process that waits, in wait() or before it.
WaitsFor(w) == upc[w] = "wait" \/ call[w] = "Wait"

\* No two variables hold the same pid, not even those of dead programs; nobody
\* changes his while he is in wait().
VarsInv ==
  /\ \A w \in Slots : var[w] < s_pid_num
  /\ \A v, w \in Slots : var[v] = var[w] /\ var[v] > 0 => v = w
  /\ \A w \in Slots : call[w] = "Wait" => arg[w] = var[w] /\ upc[w] # "wait"

ChildrenInv ==
  \A w \in Slots : WaitsFor(w) /\ var[w] # - ENOMEM =>
    \E p \in Slots \ {w, IDLE} : pid[p] = var[w] /\ state[p] # "UNUSED"

ProgramInv == SchedulerInv /\ ProgramTypeOK /\ VarsInv /\ ChildrenInv

\* Steps after which the same slots are in use by the same processes.
LEMMA NobodyFreed ==
  ASSUME SchedulerInv,
         \/ (UserMode /\ Exit) \/ Interrupt
         \/ SleepLoopBlocks \/ ReadKeyBlocks \/ WaitSleeps
  PROVE  SameSlotsInUse /\ UNCHANGED <<pid, s_pid_num, call, arg>>
<1> USE DEF SchedulerInv
<1>1. CASE UserMode /\ Exit
  BY <1>1, ExitLists DEF UserMode, Exit, callVars
<1>2. CASE TimerInterrupt
  BY <1>2, TimerLists DEF TimerInterrupt, callVars
<1>3. CASE KeyboardInterrupt
  BY <1>3, WakeupOnlyLists DEF KeyboardInterrupt, callVars
<1>4. CASE SleepLoopBlocks \/ ReadKeyBlocks \/ WaitSleeps
  <2>1. current_proc # IDLE
    BY <1>4, CallerIsUser DEF SleepLoopBlocks, ReadKeyBlocks, WaitSleeps
  <2>2. \E w : Sleep(w) /\ UNCHANGED kill_proc_list
    BY <1>4 DEF SleepLoopBlocks, ReadKeyBlocks, WaitSleeps
  <2> QED
    BY <1>4, <2>1, <2>2, SleepLists
    DEF SleepLoopBlocks, ReadKeyBlocks, WaitSleeps, callVars
<1> QED
  BY <1>1, <1>2, <1>3, <1>4 DEF Interrupt

\* They do not disturb the invariant.
LEMMA FrameInv ==
  ASSUME ProgramInv, SchedulerInv', SameSlotsInUse,
         UNCHANGED <<pid, s_pid_num, call, arg, upc, var>>
  PROVE  ProgramInv'
<1>1. ProgramTypeOK' /\ VarsInv'
  BY DEF ProgramInv, ProgramTypeOK, VarsInv
<1>2. ChildrenInv'
  BY DEF ProgramInv, ChildrenInv, WaitsFor, SameSlotsInUse
<1> QED
  BY <1>1, <1>2 DEF ProgramInv

\* Steps that change the call and the step of the running process only.
LEMMA OwnStepInv ==
  ASSUME ProgramInv, SchedulerInv', NEW step \in Steps,
         UNCHANGED <<procVars, current_proc, s_pid_num, var>>,
         Goto(step),
         \A p \in Slots : p # me => call'[p] = call[p] /\ arg'[p] = arg[p],
         call'[me] = "Wait" => arg'[me] = var[me] /\ step # "wait",
         step = "wait" \/ call'[me] = "Wait" => WaitsFor(me)
  PROVE  ProgramInv'
<1>1. me \in Slots /\ upc \in [Slots -> Steps]
  BY DEF ProgramInv, ProgramTypeOK, SchedulerInv, TypeOK, me
<1>2. upc' \in [Slots -> Steps] /\ upc'[me] = step
      /\ \A p \in Slots : p # me => upc'[p] = upc[p]
  BY <1>1 DEF Goto
<1>3. ProgramTypeOK' /\ VarsInv'
  BY <1>1, <1>2 DEF ProgramInv, ProgramTypeOK, VarsInv
<1>4. \A w \in Slots : WaitsFor(w)' => WaitsFor(w)
  BY <1>1, <1>2 DEF WaitsFor
<1>5. ChildrenInv'
  BY <1>4 DEF ProgramInv, ChildrenInv, procVars
<1> QED
  BY <1>3, <1>5 DEF ProgramInv

\* A fork that gives the process a child with a new pid.
LEMMA ForkSucceedsInv ==
  ASSUME ProgramInv, SchedulerInv', ForkSucceeds,
         upc' = [upc EXCEPT ![me] = "wait", ![FindFreeProcessSlot] = "exec"],
         var' = [var EXCEPT ![me] = s_pid_num, ![FindFreeProcessSlot] = 0]
  PROVE  ProgramInv'
<1>1. PICK child \in Slots : child = FindFreeProcessSlot /\ state[child] = "UNUSED"
  BY FreeSlotFound DEF ForkSucceeds, FreeSlots
<1>2. /\ me \in Slots /\ me # IDLE /\ call[me] = "none" /\ state[me] = "RUNNING"
      /\ child # me /\ child # IDLE /\ call[child] = "none"
  BY <1>1, CurrentRuns DEF me, ForkSucceeds, UserMode, ProgramInv, SchedulerInv,
       CallsMatchStates, ListsMatchStates
<1>3. /\ s_pid_num \in Nat /\ s_pid_num' = s_pid_num + 1 /\ UNCHANGED <<call, arg>>
      /\ pid' = [pid EXCEPT ![child] = s_pid_num]
      /\ state' = [state EXCEPT ![child] = "READY"]
  BY <1>1 DEF ForkSucceeds, CreateNewProcess, callVars, ProgramInv, SchedulerInv, TypeOK
<1>4. /\ upc \in [Slots -> Steps] /\ var \in [Slots -> Int]
      /\ pid \in [Slots -> Nat] /\ state \in [Slots -> ProcessState]
  BY DEF ProgramInv, ProgramTypeOK, SchedulerInv, TypeOK
<1>5. /\ upc' \in [Slots -> Steps] /\ var' \in [Slots -> Int]
      /\ upc'[me] = "wait" /\ var'[me] = s_pid_num
      /\ upc'[child] = "exec" /\ var'[child] = 0
      /\ \A p \in Slots \ {me, child} : upc'[p] = upc[p] /\ var'[p] = var[p]
  BY <1>1, <1>2, <1>3, <1>4 DEF Steps
<1>6. VarsInv'
  <2>1. \A w \in Slots : var[w] < s_pid_num
    BY DEF ProgramInv, VarsInv
  <2>2. \A w \in Slots : var'[w] < s_pid_num'
    BY <1>3, <1>4, <1>5, <2>1
  <2>3. ASSUME NEW v \in Slots, NEW w \in Slots, var'[v] = var'[w], var'[v] > 0
        PROVE  v = w
    <3>1. v # child /\ w # child
      BY <1>5, <2>3
    <3>2. v = me \/ var'[v] < s_pid_num
      BY <1>5, <2>1, <3>1
    <3>3. w = me \/ var'[w] < s_pid_num
      BY <1>5, <2>1, <3>1
    <3>4. CASE v # me /\ w # me
      BY <1>5, <2>3, <3>1, <3>4 DEF ProgramInv, VarsInv
    <3> QED
      BY <1>3, <1>5, <2>3, <3>2, <3>3, <3>4
  <2>4. \A w \in Slots : call'[w] = "Wait" => arg'[w] = var'[w] /\ upc'[w] # "wait"
    BY <1>2, <1>3, <1>5 DEF ProgramInv, VarsInv
  <2> QED
    BY <2>2, <2>3, <2>4 DEF VarsInv
<1>7. ChildrenInv'
  <2> SUFFICES ASSUME NEW w \in Slots, WaitsFor(w)', var'[w] # - ENOMEM
               PROVE  \E p \in Slots \ {w, IDLE} : pid'[p] = var'[w] /\ state'[p] # "UNUSED"
    BY DEF ChildrenInv
  <2>1. CASE w = me
    <3>1. pid'[child] = s_pid_num /\ state'[child] = "READY"
      BY <1>3, <1>4
    <3> QED
      BY <1>1, <1>2, <1>5, <2>1, <3>1
  <2>2. CASE w # me
    <3>1. w # child /\ WaitsFor(w) /\ var'[w] = var[w]
      BY <1>2, <1>3, <1>5, <2>2 DEF WaitsFor
    <3>2. PICK p \in Slots \ {w, IDLE} : pid[p] = var[w] /\ state[p] # "UNUSED"
      BY <3>1 DEF ProgramInv, ChildrenInv
    <3>3. pid'[p] = pid[p] /\ state'[p] = state[p]
      BY <1>1, <1>3, <1>4, <3>2
    <3> QED
      BY <3>1, <3>2, <3>3
  <2> QED
    BY <2>1, <2>2
<1> QED
  BY <1>5, <1>6, <1>7 DEF ProgramInv, ProgramTypeOK

\* A fork that failed in one of the three ways.
LEMMA ForkFailsInv ==
  ASSUME ProgramInv, SchedulerInv',
         ForkFailsEarly \/ ForkFailsInSetupKVM \/ ForkFailsInCopyUVM,
         Goto("wait"), var' = [var EXCEPT ![me] = - ENOMEM]
  PROVE  ProgramInv'
<1>1. /\ me \in Slots /\ call[me] = "none" /\ s_pid_num \in Nat
      /\ upc \in [Slots -> Steps] /\ var \in [Slots -> Int]
      /\ pid \in [Slots -> Nat] /\ state \in [Slots -> ProcessState]
  BY DEF me, ForkFailsEarly, ForkFailsInSetupKVM, ForkFailsInCopyUVM, UserMode, ProgramInv,
         ProgramTypeOK, SchedulerInv, TypeOK
<1>2. /\ s_pid_num' \in Nat /\ s_pid_num' >= s_pid_num /\ UNCHANGED <<call, arg>>
      /\ \A p \in Slots : state[p] # "UNUSED" => pid'[p] = pid[p] /\ state'[p] # "UNUSED"
  <2>1. CASE ForkFailsEarly
    BY <1>1, <2>1 DEF ForkFailsEarly, vars, procVars, callVars
  <2>2. CASE ForkFailsInSetupKVM
    BY <1>1, <2>2 DEF ForkFailsInSetupKVM, procVars, callVars
  <2>3. CASE ForkFailsInCopyUVM
    <3>1. PICK child \in Slots : child = FindFreeProcessSlot /\ state[child] = "UNUSED"
      BY <2>3, FreeSlotFound DEF ForkFailsInCopyUVM, FreeSlots
    <3>2. /\ pid' = [pid EXCEPT ![child] = s_pid_num] /\ s_pid_num' = s_pid_num + 1
          /\ state' = [state EXCEPT ![child] = "INITIALIZED"]
          /\ UNCHANGED <<call, arg>>
      BY <2>3, <3>1 DEF ForkFailsInCopyUVM, CreateNewProcess, callVars
    <3> QED
      BY <1>1, <3>1, <3>2
  <2> QED
    BY <2>1, <2>2, <2>3
<1>3. /\ upc' \in [Slots -> Steps] /\ var' \in [Slots -> Int]
      /\ upc'[me] = "wait" /\ var'[me] = -12
      /\ \A p \in Slots \ {me} : upc'[p] = upc[p] /\ var'[p] = var[p]
  BY <1>1 DEF Goto, Steps, ENOMEM
<1>4. VarsInv'
  <2>1. \A w \in Slots : var'[w] < s_pid_num'
    BY <1>1, <1>2, <1>3 DEF ProgramInv, VarsInv
  <2>2. \A v, w \in Slots : var'[v] = var'[w] /\ var'[v] > 0 => v = w
    BY <1>3 DEF ProgramInv, VarsInv
  <2>3. \A w \in Slots : call'[w] = "Wait" => arg'[w] = var'[w] /\ upc'[w] # "wait"
    BY <1>1, <1>2, <1>3 DEF ProgramInv, VarsInv
  <2> QED
    BY <2>1, <2>2, <2>3 DEF VarsInv
<1>5. ChildrenInv'
  <2> SUFFICES ASSUME NEW w \in Slots, WaitsFor(w)', var'[w] # - ENOMEM
               PROVE  \E p \in Slots \ {w, IDLE} : pid'[p] = var'[w] /\ state'[p] # "UNUSED"
    BY DEF ChildrenInv
  <2>1. w # me
    BY <1>3 DEF ENOMEM
  <2>2. WaitsFor(w) /\ var'[w] = var[w]
    BY <1>2, <1>3, <2>1 DEF WaitsFor
  <2>3. PICK p \in Slots \ {w, IDLE} : pid[p] = var[w] /\ state[p] # "UNUSED"
    BY <2>2 DEF ProgramInv, ChildrenInv
  <2> QED
    BY <1>2, <2>2, <2>3
<1> QED
  BY <1>3, <1>4, <1>5 DEF ProgramInv, ProgramTypeOK

\* Wait() cleans up the child of the process that waits, and nobody else's.
LEMMA ReapsOwnChild ==
  ASSUME ProgramInv, SchedulerInv', WaitReaps, UNCHANGED <<upc, var>>
  PROVE  ProgramInv'
<1>1. PICK d \in Slots :
        /\ state[d] = "KILLED" /\ d # current_proc /\ d # IDLE
        /\ pid[d] = arg[current_proc]
        /\ state' = [state EXCEPT ![d] = "UNUSED"] /\ pid' = [pid EXCEPT ![d] = 0]
  BY ReapedProcess DEF ProgramInv, SchedulerInv
<1>2. /\ me \in Slots /\ call \in [Slots -> {"none", "SysSleep", "Wait", "ReadKeyBuffer"}]
      /\ arg \in [Slots -> Int] /\ pid \in [Slots -> Nat]
      /\ state \in [Slots -> ProcessState] /\ var \in [Slots -> Int]
  BY DEF me, ProgramInv, ProgramTypeOK, SchedulerInv, TypeOK
<1>3. /\ call[me] = "Wait" /\ s_pid_num' = s_pid_num
      /\ call' = [call EXCEPT ![me] = "none"] /\ arg' = [arg EXCEPT ![me] = 0]
  BY Zenon DEF me, WaitReaps, Return
<1>4. /\ call'[me] = "none" /\ upc[me] # "wait" /\ var[me] = pid[d]
      /\ \A p \in Slots : p # me => call'[p] = call[p] /\ arg'[p] = arg[p]
  BY <1>1, <1>2, <1>3 DEF me, ProgramInv, VarsInv
<1>5. VarsInv'
  BY <1>3, <1>4 DEF ProgramInv, VarsInv
<1>6. ChildrenInv'
  <2> SUFFICES ASSUME NEW w \in Slots, WaitsFor(w)', var[w] # - ENOMEM
               PROVE  \E p \in Slots \ {w, IDLE} : pid'[p] = var[w] /\ state'[p] # "UNUSED"
    BY DEF ChildrenInv
  <2>1. w # me /\ WaitsFor(w)
    BY <1>4 DEF WaitsFor
  <2>2. PICK p \in Slots \ {w, IDLE} : pid[p] = var[w] /\ state[p] # "UNUSED"
    BY <2>1 DEF ProgramInv, ChildrenInv
  <2>3. var[w] > 0
    BY <2>2 DEF ProgramInv, SchedulerInv, PidsDistinct
  <2>4. p # d
    BY <1>2, <1>4, <2>1, <2>2, <2>3 DEF ProgramInv, VarsInv
  <2>5. pid'[p] = pid[p] /\ state'[p] = state[p]
    BY <1>1, <1>2, <2>4
  <2> QED
    BY <2>2, <2>5
<1> QED
  BY <1>5, <1>6 DEF ProgramInv, ProgramTypeOK

\* A call that comes back or begins leaves the calls of the others alone.
LEMMA OwnCall ==
  ASSUME SchedulerInv, Return \/ \E loop, a : Enter(loop, a)
  PROVE  \A p \in Slots : p # me => call'[p] = call[p] /\ arg'[p] = arg[p]
BY DEF SchedulerInv, TypeOK, Return, Enter, me

\* The steps of the kernel and of the programs are steps of Scheduler, with the
\* variable's value as the argument of wait().
LEMMA ProgramSchedulerInv ==
  ASSUME ProgramInv, [UserNext]_allVars
  PROVE  SchedulerInv'
<1>0. SchedulerInv
  BY DEF ProgramInv
<1>1. CASE ProgramWaits
  <2>1. me \in Slots /\ var[me] \in Int
    BY DEF me, ProgramInv, ProgramTypeOK, SchedulerInv, TypeOK
  <2>2. TypeOK'
    BY <1>0, <1>1, <2>1, TickAssumption
    DEF ProgramWaits, SysWait, Enter, SchedulerInv, TypeOK, procVars, listVars
  <2> QED
    BY <1>0, <1>1, <2>2, EnterInv DEF ProgramWaits, SysWait
<1>2. CASE ~ ProgramWaits
  <2>1. [Next]_vars
    BY <1>2, Zenon DEF UserNext, allVars, ProgramStep, ProgramFaults, ShellReadsCmd,
      ShellParsesCmd, ShellForks, Process1Forks, ForkAndWait, ChildExecs, Process3Loops,
      ProgramExits, At, Next, UserStep, UserException, SysExit, SysFork
  <2> QED
    BY <1>0, <2>1, InvStep
<1> QED
  BY <1>1, <1>2

\* Every step keeps the invariant.
LEMMA ProgramInvStep == ProgramInv /\ [UserNext]_allVars => ProgramInv'
<1> SUFFICES ASSUME ProgramInv, [UserNext]_allVars PROVE ProgramInv'
  OBVIOUS
<1>0. SchedulerInv /\ SchedulerInv' /\ me \in Slots
  BY ProgramSchedulerInv DEF ProgramInv, SchedulerInv, TypeOK, me
<1>1. CASE UNCHANGED userVars /\ ((UserMode /\ Exit) \/ Interrupt \/ SleepLoopBlocks
                                    \/ ReadKeyBlocks \/ WaitSleeps)
  BY <1>0, <1>1, NobodyFreed, FrameInv DEF userVars
<1>2. CASE UNCHANGED <<vars, var>> /\ \E step \in Steps \ {"wait"} : Goto(step)
  <2>1. PICK step \in Steps \ {"wait"} : Goto(step)
    BY <1>2
  <2>2. /\ UNCHANGED <<procVars, current_proc, s_pid_num, call, arg, var>>
        /\ call'[me] = "Wait" => arg'[me] = var[me] /\ WaitsFor(me)
    BY <1>0, <1>2 DEF vars, callVars, ProgramInv, VarsInv, WaitsFor
  <2> QED
    BY <1>0, <2>1, <2>2, OwnStepInv
<1>3. CASE ShellReadsCmd
  <2>1. /\ UNCHANGED <<procVars, current_proc, s_pid_num, var>> /\ Goto("parse")
        /\ Enter("ReadKeyBuffer", 0)
    BY <1>3 DEF ShellReadsCmd, SysReadKey, Enter
  <2>2. call'[me] = "ReadKeyBuffer"
    BY <1>0, <2>1 DEF Enter, me, SchedulerInv, TypeOK
  <2> QED
    BY <1>0, <2>1, <2>2, OwnCall, OwnStepInv DEF Steps
<1>4. CASE ProgramWaits
  <2>1. /\ UNCHANGED <<procVars, current_proc, s_pid_num, var>> /\ upc[me] = "wait"
        /\ Enter("Wait", var[me])
        /\ \E step \in {"prompt", "return"} : Goto(step)
    BY <1>4 DEF ProgramWaits, SysWait, Enter, At
  <2>2. call'[me] = "Wait" /\ arg'[me] = var[me]
    BY <1>0, <2>1 DEF Enter, me, SchedulerInv, TypeOK
  <2> QED
    BY <1>0, <2>1, <2>2, OwnCall, OwnStepInv DEF Steps, WaitsFor
<1>5. CASE \E c : ForkAndWait(c)
  BY <1>0, <1>5, ForkSucceedsInv, ForkFailsInv DEF ForkAndWait
<1>6. CASE WaitReaps /\ UNCHANGED userVars
  BY <1>0, <1>6, ReapsOwnChild DEF userVars
<1>7. CASE (SleepLoopReturns \/ ReadKeyReturns) /\ UNCHANGED userVars
  <2>1. /\ UNCHANGED <<procVars, current_proc, s_pid_num, upc, var>> /\ Return
        /\ call[me] \in {"SysSleep", "ReadKeyBuffer"}
    BY <1>7 DEF SleepLoopReturns, ReadKeyReturns, userVars, me
  <2>2. call'[me] = "none" /\ upc \in [Slots -> Steps]
    BY <1>0, <2>1 DEF Return, me, SchedulerInv, TypeOK, ProgramInv, ProgramTypeOK
  <2>3. upc[me] \in Steps /\ Goto(upc[me])
    BY <1>0, <2>1, <2>2 DEF Goto
  <2> QED
    BY <1>0, <2>1, <2>2, <2>3, OwnCall, OwnStepInv DEF WaitsFor
<1>8. CASE UNCHANGED <<vars, upc, var>>
  <2>1. SameSlotsInUse /\ UNCHANGED <<pid, s_pid_num, call, arg>>
    BY <1>8 DEF vars, procVars, callVars, SameSlotsInUse
  <2> QED
    BY <1>0, <1>8, <2>1, FrameInv
<1>9. CASE ShellParsesCmd
  <2>1. \E step \in {"fork", "prompt"} : Goto(step)
    BY <1>9 DEF ShellParsesCmd
  <2> QED
    BY <1>2, <1>9, <2>1 DEF ShellParsesCmd, Steps
<1>10. CASE ChildExecs
  <2>1. CASE UserMode /\ Exit /\ UNCHANGED userVars
    BY <1>1, <2>1
  <2>2. CASE UNCHANGED <<vars, var>> /\ \E step \in {"fork1", "loop", "return"} : Goto(step)
    BY <1>2, <2>2 DEF Steps
  <2> QED
    BY <1>10, <2>1, <2>2 DEF ChildExecs, At
<1>11. CASE ProgramExits \/ ProgramFaults
  BY <1>1, <1>11 DEF ProgramExits, ProgramFaults, At, SysExit
<1>12. CASE WaitSpins /\ UNCHANGED userVars
  BY <1>8, <1>12 DEF WaitSpins, userVars
<1>13. CASE Process3Loops \/ UNCHANGED allVars
  BY <1>8, <1>13 DEF Process3Loops, allVars, userVars
<1> QED
  BY <1>1, <1>3, <1>4, <1>5, <1>6, <1>7, <1>9, <1>10, <1>11, <1>12, <1>13
  DEF UserNext, KernelLoop, ProgramStep, ShellForks, Process1Forks

\* It holds when the shell starts.
LEMMA ProgramInvInit == UserInit => ProgramInv
<1> SUFFICES ASSUME UserInit PROVE ProgramInv
  OBVIOUS
<1>1. SchedulerInv /\ s_pid_num = 2 /\ call = [p \in Slots |-> "none"]
  BY InvInit DEF UserInit, Init, InitShellProcess
<1>2. ProgramTypeOK /\ VarsInv
  BY <1>1 DEF UserInit, ProgramTypeOK, VarsInv, Steps
<1>3. ChildrenInv
  BY <1>1 DEF UserInit, ChildrenInv, WaitsFor
<1> QED
  BY <1>1, <1>2, <1>3 DEF ProgramInv

\* A process in Wait() waits for a child that still has its slot, whatever the
\* programs do: nobody else's Wait() takes it away, because fork() gives every
\* parent another pid.
THEOREM WaitedChildAlwaysExists == UserSpec => []WaitedChildExists
<1>1. ProgramInv => WaitedChildExists
  BY DEF ProgramInv, VarsInv, ChildrenInv, WaitsFor, WaitedChildExists
<1> QED
  BY <1>1, ProgramInvInit, ProgramInvStep, PTL DEF UserSpec

-----------------------------------------------------------------------------
(* UserPrograms: the prompt comes back when the command is cleaned up.     *)

\* While programs are as the shell expects, there is at most one besides it, the
\* one it waits for.
ShellInv ==
  /\ state[SHELL] # "UNUSED" /\ upc[SHELL] \in {"prompt", "parse", "fork", "wait"}
  /\ \A p \in Slots \ {IDLE, SHELL} : state[p] # "UNUSED" =>
       /\ upc[p] \in {"exec", "return"} /\ call[p] = "none"
       /\ WaitsFor(SHELL) /\ pid[p] = var[SHELL]

\* Whoever runs user code or is in a call is the shell or its child.
LEMMA ShellOrChild ==
  ASSUME ProgramInv, ShellInv, UserMode \/ call[me] # "none"
  PROVE  /\ me \in Slots /\ me # IDLE /\ SHELL \in Slots /\ SHELL # IDLE
         /\ me # SHELL => upc[me] \in {"exec", "return"} /\ call[me] = "none"
<1>1. me \in Slots /\ state[me] = "RUNNING"
  BY CurrentRuns DEF ProgramInv, SchedulerInv, me
<1>2. me # IDLE
  BY CallerIsUser DEF UserMode, ProgramInv, me
<1> QED
  BY <1>1, <1>2, IdleSlot DEF ShellInv

\* Steps that keep the slots in use and the steps of the programs.
LEMMA ShellFrame ==
  ASSUME ShellInv, SameSlotsInUse, UNCHANGED <<pid, call, upc, var>>
  PROVE  ShellInv'
BY IdleSlot DEF ShellInv, WaitsFor, SameSlotsInUse

\* Steps of the running process that change its call or its step only.
LEMMA ShellOwnStep ==
  ASSUME ProgramInv, ShellInv, UNCHANGED <<state, pid, var>>,
         NEW step, Goto(step), UserMode \/ call[me] # "none",
         \A p \in Slots : p # me => call'[p] = call[p],
         me = SHELL => /\ step \in {"prompt", "parse", "fork", "wait"}
                       /\ WaitsFor(SHELL) => step = "wait" \/ call'[SHELL] = "Wait",
         me # SHELL => step \in {"exec", "return"} /\ call'[me] = "none"
  PROVE  ShellInv'
<1>1. me \in Slots /\ SHELL \in Slots /\ upc \in [Slots -> Steps]
  BY ShellOrChild DEF ProgramInv, ProgramTypeOK
<1>2. upc'[me] = step /\ \A p \in Slots : p # me => upc'[p] = upc[p]
  BY <1>1 DEF Goto
<1>3. WaitsFor(SHELL) => WaitsFor(SHELL)'
  BY <1>1, <1>2 DEF WaitsFor
<1> QED
  BY <1>1, <1>2, <1>3 DEF ShellInv

\* Every step, as long as no program forks or loops and memory suffices.
LEMMA ShellInvStep ==
  ASSUME ProgramInv, ShellInv, Benign, Benign', [UserNext]_allVars
  PROVE  ShellInv'
<1>0. SchedulerInv /\ SHELL \in Slots /\ me \in Slots
  BY IdleSlot DEF ProgramInv, SchedulerInv, TypeOK, me
<1>1. CASE UNCHANGED userVars /\ ((UserMode /\ Exit) \/ Interrupt \/ SleepLoopBlocks
                                    \/ ReadKeyBlocks \/ WaitSleeps)
  BY <1>0, <1>1, NobodyFreed, ShellFrame DEF userVars
<1>2. CASE UNCHANGED <<vars, upc, var>>
  <2>1. SameSlotsInUse /\ UNCHANGED <<pid, call>>
    BY <1>2 DEF vars, procVars, callVars, SameSlotsInUse
  <2> QED
    BY <1>2, <2>1, ShellFrame
<1>3. CASE ShellReadsCmd
  <2>1. /\ UNCHANGED <<state, pid, var>> /\ Goto("parse") /\ UserMode
        /\ Enter("ReadKeyBuffer", 0) /\ upc[me] = "prompt"
    BY <1>3 DEF ShellReadsCmd, SysReadKey, Enter, procVars, At
  <2>2. me = SHELL /\ ~ WaitsFor(SHELL)
    BY <2>1, ShellOrChild DEF UserMode, WaitsFor, me
  <2> QED
    BY <1>0, <2>1, <2>2, OwnCall, ShellOwnStep
<1>4. CASE ShellParsesCmd
  <2>1. /\ UNCHANGED <<state, pid, call, var>> /\ UserMode /\ upc[me] = "parse"
        /\ \E step \in {"fork", "prompt"} : Goto(step)
    BY <1>4 DEF ShellParsesCmd, vars, procVars, callVars, At
  <2>2. me = SHELL /\ ~ WaitsFor(SHELL)
    BY <2>1, ShellOrChild DEF UserMode, WaitsFor, me
  <2> QED
    BY <2>1, <2>2, ShellOwnStep
<1>5. CASE ProgramWaits
  <2>1. /\ UNCHANGED <<state, pid, var>> /\ UserMode /\ upc[me] = "wait"
        /\ Enter("Wait", var[me]) /\ Goto(IF me = SHELL THEN "prompt" ELSE "return")
    BY <1>5 DEF ProgramWaits, SysWait, Enter, At, procVars
  <2>2. me = SHELL
    BY <2>1, ShellOrChild DEF UserMode
  <2>3. call'[SHELL] = "Wait"
    BY <1>0, <2>1, <2>2 DEF Enter, me, SchedulerInv, TypeOK
  <2> QED
    BY <1>0, <2>1, <2>2, <2>3, OwnCall, ShellOwnStep
<1>6. CASE (SleepLoopReturns \/ ReadKeyReturns) /\ UNCHANGED userVars
  <2>1. /\ UNCHANGED <<state, pid, upc, var>> /\ Return
        /\ call[me] \in {"SysSleep", "ReadKeyBuffer"}
    BY <1>6 DEF SleepLoopReturns, ReadKeyReturns, userVars, me, procVars
  <2>2. Goto(upc[me])
    BY <1>0, <2>1 DEF Goto, ProgramInv, ProgramTypeOK
  <2>3. me = SHELL /\ (WaitsFor(SHELL) => upc[SHELL] = "wait")
    BY <2>1, ShellOrChild DEF WaitsFor
  <2> QED
    BY <1>0, <2>1, <2>2, <2>3, OwnCall, ShellOwnStep DEF ShellInv
<1>7. CASE ChildExecs
  <2>1. CASE UserMode /\ Exit /\ UNCHANGED userVars
    BY <1>1, <2>1
  <2>2. CASE At("exec") /\ Goto("return") /\ UNCHANGED <<vars, var>>
    <3>1. UserMode /\ upc[me] = "exec" /\ UNCHANGED <<state, pid, call, var>>
      BY <2>2 DEF At, vars, procVars, callVars
    <3>2. me # SHELL /\ call[me] = "none"
      BY <3>1 DEF ShellInv, UserMode, me
    <3> QED
      BY <2>2, <3>1, <3>2, ShellOwnStep
  <2>3. cmd[me] \notin {"process1", "process3"}
    BY <1>0 DEF Benign
  <2> QED
    BY <1>7, <2>1, <2>2, <2>3 DEF ChildExecs, At
<1>8. CASE \E c : (At("fork") \/ At("fork1")) /\ ForkAndWait(c)
  <2>1. UserMode /\ upc[me] \in {"fork", "fork1"}
    BY <1>8 DEF At
  <2>2. me = SHELL /\ ~ WaitsFor(SHELL)
    BY <2>1, ShellOrChild DEF UserMode, WaitsFor, me
  <2>3. var'[me] # - ENOMEM
    BY <1>0 DEF Benign
  <2>4. /\ ForkSucceeds
        /\ upc' = [upc EXCEPT ![me] = "wait", ![FindFreeProcessSlot] = "exec"]
        /\ var' = [var EXCEPT ![me] = s_pid_num, ![FindFreeProcessSlot] = 0]
    BY <1>0, <1>8, <2>3 DEF ForkAndWait, ProgramInv, ProgramTypeOK
  <2>5. PICK child \in Slots : child = FindFreeProcessSlot /\ state[child] = "UNUSED"
    BY <2>4, FreeSlotFound DEF ForkSucceeds, FreeSlots
  <2>6. /\ pid' = [pid EXCEPT ![child] = s_pid_num] /\ call' = call
        /\ state' = [state EXCEPT ![child] = "READY"]
        /\ pid \in [Slots -> Nat] /\ state \in [Slots -> ProcessState]
        /\ upc \in [Slots -> Steps] /\ var \in [Slots -> Int]
    BY <2>4, <2>5 DEF ForkSucceeds, CreateNewProcess, callVars, ProgramInv, ProgramTypeOK,
         SchedulerInv, TypeOK
  <2>7. child # SHELL /\ call[child] = "none"
    BY <1>0, <2>5 DEF ShellInv, SchedulerInv, CallsMatchStates
  <2>8. /\ upc'[SHELL] = "wait" /\ var'[SHELL] = s_pid_num /\ upc'[child] = "exec"
        /\ pid'[child] = s_pid_num /\ state'[SHELL] # "UNUSED"
    BY <1>0, <2>2, <2>4, <2>5, <2>6, <2>7 DEF ShellInv
  <2>9. \A p \in Slots \ {IDLE, SHELL} : p # child => state'[p] = "UNUSED"
    BY <2>2, <2>6 DEF ShellInv
  <2> QED
    BY <2>6, <2>7, <2>8, <2>9 DEF ShellInv, WaitsFor
<1>9. CASE WaitReaps /\ UNCHANGED userVars
  <2>1. PICK d \in Slots :
          /\ state[d] = "KILLED" /\ d # current_proc /\ d # IDLE
          /\ state' = [state EXCEPT ![d] = "UNUSED"]
    BY <1>0, <1>9, ReapedProcess DEF SchedulerInv
  <2>2. call[me] = "Wait" /\ state \in [Slots -> ProcessState]
    BY <1>0, <1>9, Zenon DEF me, WaitReaps, SchedulerInv, TypeOK
  <2>3. me = SHELL
    BY <2>2, ShellOrChild
  <2>4. ASSUME NEW p \in Slots \ {IDLE, SHELL} PROVE state'[p] = "UNUSED"
    <3>1. CASE p # d
      <4>1. state[p] = "UNUSED"
        <5>1. pid[d] = var[SHELL] /\ (state[p] # "UNUSED" => pid[p] = var[SHELL])
          BY <2>1, <2>3, <2>4 DEF ShellInv, me
        <5> QED
          BY <1>0, <2>1, <2>4, <3>1, <5>1 DEF SchedulerInv, PidsDistinct
      <4> QED
        BY <2>1, <2>2, <4>1
    <3>2. CASE p = d
      BY <2>1, <2>2, <3>2
    <3> QED
      BY <3>1, <3>2
  <2>5. state'[SHELL] # "UNUSED" /\ upc' = upc
    BY <1>0, <1>9, <2>1, <2>2, <2>3 DEF ShellInv, userVars, me
  <2> QED
    BY <2>4, <2>5 DEF ShellInv
<1>10. CASE ProgramExits \/ ProgramFaults
  BY <1>1, <1>10 DEF ProgramExits, ProgramFaults, At, SysExit
<1>11. CASE WaitSpins /\ UNCHANGED userVars
  BY <1>2, <1>11 DEF WaitSpins, userVars
<1>12. CASE Process3Loops \/ UNCHANGED allVars
  BY <1>2, <1>12 DEF Process3Loops, allVars, userVars
<1> QED
  BY <1>1, <1>3, <1>4, <1>5, <1>6, <1>7, <1>8, <1>9, <1>10, <1>11, <1>12
  DEF UserNext, KernelLoop, ProgramStep, ShellForks, Process1Forks

\* As long as commands return and memory suffices, the prompt is back only when
\* the slots of the last command are free.
THEOREM PromptAlwaysClean == UserSpec => PromptIsClean
<1>1. UserInit => ShellInv
  BY IdleSlot DEF UserInit, Init, ShellInv
<1>2. ProgramInv /\ ShellInv /\ Benign /\ Benign' /\ [UserNext]_allVars => ShellInv'
  BY ShellInvStep
<1>3. ShellInv => (upc[SHELL] = "prompt" /\ call[SHELL] = "none" =>
                     \A p \in Slots \ {IDLE, SHELL} : state[p] = "UNUSED")
  BY DEF ShellInv, WaitsFor
<1> QED
  BY <1>1, <1>2, <1>3, ProgramInvInit, ProgramInvStep, PTL DEF UserSpec, PromptIsClean

=============================================================================
