------------------------------ MODULE ScanCode -------------------------------
(***************************************************************************)
(* From keys to characters: ReadCharacter of kernel/keyboard.c, which gets *)
(* one byte of scan code set 1 per interrupt, and the keyboard that sends  *)
(* them.  What it returns goes to the buffer of module Keyboard.           *)
(*                                                                         *)
(* The keyboard sends the code of a key when it goes down and while it is  *)
(* held, and the code + 128 when it goes up; extended keys send 224 before *)
(* either.  The driver ignores extended keys.                              *)
(***************************************************************************)
EXTENDS Integers, Sequences

CONSTANTS
  PlainKeys,       \* codes of the keys of the main block
  ExtendedKeys,    \* codes of the keys that are sent with a prefix
  WireSize,        \* bytes the keyboard holds until they are read
  LockIsShift      \* whether the user takes caps lock for a shift that stays

E0       == 224            \* 0xE0
BREAK    == 128            \* 0x80
SHIFTS   == {42, 54}       \* 0x2A, 0x36: s_shift_code
CAPS     == 58             \* 0x3A: s_lock_code
NOCHAR   == "none"         \* 0, no character

\* A letter, a digit and the space bar stand for their like in the two maps.
s_key_map       == [k \in 0 .. BREAK - 1 |->
  CASE k = 30 -> "a" [] k = 2 -> "1" [] k = 57 -> " " [] OTHER -> NOCHAR]
s_shift_key_map == [k \in 0 .. BREAK - 1 |->
  CASE k = 30 -> "A" [] k = 2 -> "!" [] k = 57 -> " " [] OTHER -> NOCHAR]

ASSUME ScanAssumption ==
  /\ PlainKeys \subseteq 0 .. 95 /\ ExtendedKeys \subseteq 0 .. 95
  /\ WireSize \in Nat \ {0, 1} /\ LockIsShift \in BOOLEAN

Keys     == (PlainKeys \X {FALSE}) \cup (ExtendedKeys \X {TRUE})

VARIABLES
  held,       \* the keys that are down
  locked,     \* the state of the lock, as the user sees it
  wire,       \* bytes sent and not yet read
  pending,    \* the characters they stand for
  s_flag,     \* the driver's flags that are set
  last        \* the last character the driver returned, and the one meant

scanVars == <<held, locked, wire, pending, s_flag, last>>

ScanInit ==
  /\ held = {} /\ locked = FALSE /\ wire = <<>> /\ pending = <<>>
  /\ s_flag = {} /\ last = [got |-> NOCHAR, meant |-> NOCHAR]

-----------------------------------------------------------------------------
(* The keyboard and its user.                                              *)

\* What a key means to the user.  There are two readings of caps lock: that of PC
\* keyboards, where it is for letters only and takes shift back, and that of the
\* comment on s_shift_key_map ("used when we hold shift key or caps lock key and
\* press other keys"), where it is a shift for every key.
Letters == {30}
Meaning(k, shift, lock) ==
  LET upper == CASE LockIsShift                     -> shift \/ lock
                 [] ~ LockIsShift /\ k \in Letters  -> shift # lock
                 [] OTHER                           -> shift
  IN  IF upper THEN s_shift_key_map[k] ELSE s_key_map[k]

ShiftHeld == \E k \in SHIFTS : <<k, FALSE>> \in held

Sends(key, code) == IF key[2] THEN <<E0, code>> ELSE <<code>>

\* A key goes down, or repeats while it is down.
KeyDown(key) ==
  LET char == IF key[2] THEN NOCHAR ELSE Meaning(key[1], ShiftHeld, locked)
  IN  /\ Len(wire) + 2 <= WireSize
      /\ held' = held \cup {key}
      /\ wire' = wire \o Sends(key, key[1])
      /\ locked' = IF key = <<CAPS, FALSE>> THEN ~ locked ELSE locked
      /\ pending' = IF char = NOCHAR THEN pending ELSE Append(pending, char)
      /\ UNCHANGED <<s_flag, last>>

KeyUp(key) ==
  /\ key \in held /\ Len(wire) + 2 <= WireSize
  /\ held' = held \ {key}
  /\ wire' = wire \o Sends(key, key[1] + BREAK)
  /\ UNCHANGED <<locked, pending, s_flag, last>>

-----------------------------------------------------------------------------
(* ReadCharacter: the next byte.                                           *)

Read(flag, char) ==
  /\ wire' = Tail(wire)
  /\ s_flag' = flag
  /\ IF char = NOCHAR THEN UNCHANGED <<pending, last>>
     ELSE /\ last' = [got |-> char,
                      meant |-> IF pending = <<>> THEN NOCHAR ELSE Head(pending)]
          /\ pending' = IF pending = <<>> THEN pending ELSE Tail(pending)
  /\ UNCHANGED <<held, locked>>

ReadPrefix ==
  /\ wire # <<>> /\ Head(wire) = E0
  /\ Read(s_flag \cup {"E0_SIGN"}, NOCHAR)

MutSkipKeepsPrefix ==
  /\ wire # <<>> /\ Head(wire) # E0 /\ "E0_SIGN" \in s_flag
  /\ Read(s_flag, NOCHAR)

SkipExtended ==
  /\ wire # <<>> /\ Head(wire) # E0 /\ "E0_SIGN" \in s_flag
  /\ Read(s_flag \ {"E0_SIGN"}, NOCHAR)

ReadBreak ==
  /\ wire # <<>> /\ Head(wire) \in BREAK .. 255 \ {E0}
  /\ "E0_SIGN" \notin s_flag
  /\ Read(IF Head(wire) - BREAK \in SHIFTS THEN s_flag \ {"SHIFT"} ELSE s_flag,
          NOCHAR)

\* The flags after a make code: shift is set, the lock toggles.
MakeFlags(code) ==
  LET shifted == IF code \in SHIFTS THEN s_flag \cup {"SHIFT"} ELSE s_flag
  IN  IF code # CAPS THEN shifted
      ELSE IF "CAPS_LOCK" \in shifted THEN shifted \ {"CAPS_LOCK"}
      ELSE shifted \cup {"CAPS_LOCK"}

\* With the lock on, letters change their case.
SwapCase(c) == CASE c = "a" -> "A" [] c = "A" -> "a" [] OTHER -> c

MakeChar(flag, code) ==
  LET c == IF "SHIFT" \in flag THEN s_shift_key_map[code] ELSE s_key_map[code]
  IN  IF "CAPS_LOCK" \in flag THEN SwapCase(c) ELSE c

ReadMake ==
  /\ wire # <<>> /\ Head(wire) < BREAK /\ "E0_SIGN" \notin s_flag
  /\ LET flag == MakeFlags(Head(wire))
     IN  Read(flag, MakeChar(flag, Head(wire)))

ReadCharacter == ReadPrefix \/ SkipExtended \/ ReadBreak \/ ReadMake

ScanNext == \/ \E key \in Keys : KeyDown(key) \/ KeyUp(key)
            \/ ReadCharacter

ScanSpec == ScanInit /\ [][ScanNext]_scanVars

-----------------------------------------------------------------------------
(* Properties.                                                             *)

\* The driver returns the characters the user typed, in order, none left out
\* and none made up by the bytes of extended keys; shift and lock count as they
\* were when the key went down, however late the driver reads it (keyboard.c:
\* "The shift map is used when we hold shift key or caps lock key and press
\* other keys").  Of the lock this is true as PC keyboards have it (LockIsShift
\* is FALSE), not as the comment does, and of shift if only one of the two shift
\* keys is used: see ScanCodeCapsLock.cfg and ScanCodeTwoShifts.cfg.
CharactersAsTyped ==
  /\ last.got = last.meant
  /\ wire = <<>> => pending = <<>>

=============================================================================
