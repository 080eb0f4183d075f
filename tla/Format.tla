------------------------------- MODULE Format -------------------------------
(***************************************************************************)
(* printk of kernel/printk.c, printf of usr/runtime/stdio.c, which is the  *)
(* same code, and the way from one to the other: printf writes its text    *)
(* with write(), and SysWrite gives it to printk as a format.              *)
(*                                                                         *)
(* Characters are strings of length 1, text and formats are sequences of   *)
(* them, without the zero byte at the end.  An argument is a 64-bit word   *)
(* and, as it may be taken for an address, the string that is there; FAULT *)
(* is in it for a place that cannot be read.                               *)
(***************************************************************************)
EXTENDS Integers, Sequences

CONSTANTS
  IntModulus,       \* 2^32
  LongModulus       \* 2^64

ASSUME WordAssumption ==
  /\ {IntModulus, LongModulus} \subseteq Nat \ {0}
  /\ IntModulus <= LongModulus \div 2 /\ LongModulus % 2 = 0

digits_map == <<"0", "1", "2", "3", "4", "5", "6", "7", "8", "9",
                "A", "B", "C", "D", "E", "F">>
Specifiers == {"x", "u", "d", "s"}

-----------------------------------------------------------------------------
(* Numbers.                                                                *)

\* The do loop: the digits from the last one on.
MutNoDigitForZero(n, base) ==
  LET digits_buffer[k \in Nat] ==
        IF k = 0 THEN <<>>
        ELSE <<digits_map[(k % base) + 1]>> \o digits_buffer[k \div base]
  IN  digits_buffer[n]

DigitsBuffer(n, base) ==
  LET digits_buffer[k \in Nat] ==
        IF k \div base = 0 THEN <<digits_map[(k % base) + 1]>>
        ELSE <<digits_map[(k % base) + 1]>> \o digits_buffer[k \div base]
  IN  digits_buffer[n]

Backwards(s) == [i \in 1 .. Len(s) |-> s[Len(s) + 1 - i]]

WriteHexToBuffer(w)      == <<"0", "x">> \o Backwards(DigitsBuffer(w, 16))
WriteUDecimalToBuffer(w) == Backwards(DigitsBuffer(w, 10))

\* The word as a signed number; the negation is that of the machine.
WriteDecimalToBuffer(w) ==
  IF w >= LongModulus \div 2
  THEN <<"-">> \o WriteUDecimalToBuffer((-w) % LongModulus)
  ELSE WriteUDecimalToBuffer(w)

-----------------------------------------------------------------------------
(* Formats.                                                                *)

Words == 0 .. LongModulus - 1
FAULT == "fault"

Convert(specifier, a) == CASE specifier = "x" -> WriteHexToBuffer(a.word)
                           [] specifier = "u" -> WriteUDecimalToBuffer(a.word)
                           [] specifier = "d" -> WriteDecimalToBuffer(a.word)
                           [] specifier = "s" -> a.text

\* printk takes an argument at character i of the format.
Asks(format, i) == /\ i < Len(format)
                   /\ format[i] = "%" /\ format[i + 1] \in Specifiers
AsksForNothing(format) == \A i \in 1 .. Len(format) : ~ Asks(format, i)

\* The loop over the format, from character i and argument a on.  A % that no
\* specifier follows is copied.
Formatted(format, args) ==
  LET text[at \in (1 .. Len(format) + 1) \X Nat] ==
        LET i == at[1]
            a == at[2]
        IN  IF i > Len(format) THEN <<>>
            ELSE IF format[i] # "%" THEN <<format[i]>> \o text[<<i + 1, a>>]
            ELSE IF Asks(format, i)
                 THEN Convert(format[i + 1], args[a]) \o text[<<i + 2, a + 1>>]
            ELSE <<"%">> \o text[<<i + 1, a>>]
  IN  text[<<1, 1>>]

\* What WriteVGA gets.  SysWrite passes no arguments: where its text asks for
\* some, printk takes what the registers and the stack have in their place.
printk(format, args)        == Formatted(format, args)
SysWrite(buffer, registers) == printk(buffer, registers)

\* The code of printf is that of printk, with write() in place of WriteVGA.
printf(format, args)        == Formatted(format, args)

\* The word that a C argument is passed in: an int fills the lower half.
Passed(type, n) == IF type = "int" THEN n % IntModulus ELSE n % LongModulus

-----------------------------------------------------------------------------
(* What a call should print.  A message is a sequence of pieces: text that *)
(* is part of the format, or a specifier with its argument.                *)

Literal(text)          == [kind |-> "text", type |-> "none", text |-> text, value |-> 0]
String(text)           == [kind |-> "s", type |-> "none", text |-> text, value |-> 0]
Number(kind, type, n)  == [kind |-> kind, type |-> type, text |-> <<>>, value |-> n]

Joined(seqs) ==
  LET joined[i \in 0 .. Len(seqs)] == IF i = 0 THEN <<>> ELSE joined[i - 1] \o seqs[i]
  IN  joined[Len(seqs)]

FormatOf(m) == Joined([i \in 1 .. Len(m) |-> IF m[i].kind = "text" THEN m[i].text
                                             ELSE <<"%", m[i].kind>>])
ArgsOf(m)   == Joined([i \in 1 .. Len(m) |->
                 CASE m[i].kind = "text" -> <<>>
                   [] m[i].kind = "s"    -> <<[word |-> 0, text |-> m[i].text]>>
                   [] OTHER              -> <<[word |-> Passed(m[i].type, m[i].value),
                                               text |-> <<FAULT>>]>>])

\* base to the n-th, and how many places a number has without leading zeros.
Power(base, n) ==
  LET power[k \in 0 .. n] == IF k = 0 THEN 1 ELSE base * power[k - 1]
  IN  power[n]
Places(n, base) == CHOOSE k \in 1 .. n + 1 : /\ n < Power(base, k)
                                             /\ k > 1 => Power(base, k - 1) <= n

\* The numeral, place by place.
Numeral(n, base) ==
  [i \in 1 .. Places(n, base) |->
     digits_map[((n \div Power(base, Places(n, base) - i)) % base) + 1]]

Meant(m) == Joined([i \in 1 .. Len(m) |->
              CASE m[i].kind \in {"text", "s"} -> m[i].text
                [] m[i].kind = "x" -> <<"0", "x">> \o Numeral(m[i].value, 16)
                [] m[i].kind = "u" -> Numeral(m[i].value, 10)
                [] m[i].kind = "d" -> IF m[i].value < 0
                                      THEN <<"-">> \o Numeral(- m[i].value, 10)
                                      ELSE Numeral(m[i].value, 10)])

\* Messages of the programs: any strings over chars, formats without a % of their
\* own, and numbers of the type they are passed in.
Pieces(chars) == [kind : Specifiers \cup {"text"}, type : {"none", "int", "long"},
                  text : Seq(chars), value : Int]
Fits(p) ==
  /\ p.kind = "text" => \A i \in 1 .. Len(p.text) : p.text[i] # "%"
  /\ p.kind \in {"x", "u"} => p.value \in Words
  /\ p.kind = "d" => p.value \in - (LongModulus \div 2) .. (LongModulus \div 2) - 1
  /\ p.type = "int" => p.value \in - (IntModulus \div 2) .. IntModulus - 1
WellFormed(m, chars) == m \in Seq(Pieces(chars)) /\ \A i \in 1 .. Len(m) : Fits(m[i])

\* A negative int leaves the upper half of its word clear.
NoNegativeInt(m) == \A i \in 1 .. Len(m) : m[i].type = "int" => m[i].value >= 0

=============================================================================
