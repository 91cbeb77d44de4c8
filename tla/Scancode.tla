------------------------------ MODULE Scancode ------------------------------
(***************************************************************************)
(* The front half of keyboard_callback (drivers/keyboard.c): scan codes    *)
(* become characters under the modifier flags.  Module Keyboard takes the  *)
(* characters from there.  The keys of the model stand for their classes:  *)
(* both shift keys, control, alternate, caps lock, a letter, a digit, and  *)
(* a key behind the tables.  A key sends its code when it is pressed (and  *)
(* again while it is the last one pressed and held) and 128 more when it   *)
(* is released.                                                            *)
(***************************************************************************)
EXTENDS Interrupts

CONSTANTS
  Keys,        \* the scan codes of the keys
  MaxDown      \* keys held at a time

Shifts    == {42, 54}      \* left, right
Ctrl      == 29
Alt       == 56
CapsLock  == 58
InTables  == {2, 30, 88}   \* `1', `a' and F12
Release   == 128

ASSUME ScancodeAssumption ==
  /\ Keys \subseteq Shifts \cup {Ctrl, Alt, CapsLock} \cup InTables
  /\ Bytes = Keys \cup {k + Release : k \in Keys}

\* sc_ascii and sc_ascii_shift at these keys; 63 is `?'.
sc_ascii == [k \in InTables |-> CASE k = 2 -> 49 [] k = 30 -> 97 [] k = 88 -> 63]
sc_ascii_shift == [k \in InTables |-> CASE k = 2 -> 33 [] k = 30 -> 65 [] k = 88 -> 63]
SC_LIMIT == 89
NoChar == 63

VARIABLES
  shift_pressed, ctrl_pressed, alt_pressed, caps_lock,
  char,        \* what the line editor was given for the last byte read
  down,        \* the keys held
  latest,      \* the last key pressed, while it is held
  capsOn,      \* history: presses of caps lock, modulo 2
  meant,       \* history: the character the last byte stands for
  ambiguous    \* history: both shift keys were held, and one still is

flags == <<shift_pressed, ctrl_pressed, alt_pressed, caps_lock>>
hands == <<down, latest, capsOn, meant, ambiguous>>
allVars == <<vars, flags, char, hands>>

-----------------------------------------------------------------------------
lower == 97 .. 122
upper == 65 .. 90

\* Mutant of scancode_to_ascii: the case is changed without a look at the range.
CapsShiftsAll(scancode, shift, caps) ==
  LET c == IF shift THEN sc_ascii_shift[scancode] ELSE sc_ascii[scancode]
  IN IF scancode >= SC_LIMIT THEN NoChar ELSE IF caps /\ ~shift THEN c - 32 ELSE c

scancode_to_ascii(scancode, shift, caps) ==
  LET c == IF shift THEN sc_ascii_shift[scancode] ELSE sc_ascii[scancode]
      other == IF c \in lower /\ ~shift THEN c - 32
               ELSE IF c \in upper /\ shift THEN c + 32 ELSE c
  IN IF scancode >= SC_LIMIT THEN NoChar ELSE IF caps THEN other ELSE c

\* Mutant of keyboard_callback: caps lock toggles on release, too.
TogglesTwice(byte) ==
  LET scancode == byte % Release
      pressed  == byte < Release
  IN /\ shift_pressed' = IF scancode \in Shifts THEN pressed ELSE shift_pressed
     /\ caps_lock' = (IF scancode = CapsLock THEN ~caps_lock ELSE caps_lock)
     /\ char' = IF scancode \in Shifts \cup {Ctrl, Alt, CapsLock} \/ ~pressed THEN NoChar
                ELSE scancode_to_ascii(scancode, shift_pressed, caps_lock)
     /\ UNCHANGED <<ctrl_pressed, alt_pressed>>

keyboard_callback(byte) ==
  LET scancode == byte % Release
      pressed  == byte < Release
      toggles  == scancode = CapsLock /\ pressed
  IN /\ shift_pressed' = IF scancode \in Shifts THEN pressed ELSE shift_pressed
     /\ ctrl_pressed' = IF scancode = Ctrl THEN pressed ELSE ctrl_pressed
     /\ alt_pressed' = IF scancode = Alt THEN pressed ELSE alt_pressed
     /\ caps_lock' = IF toggles THEN ~caps_lock ELSE caps_lock
     /\ char' = IF scancode \in Shifts \cup {Ctrl, Alt} \/ toggles \/ ~pressed THEN NoChar
                ELSE scancode_to_ascii(scancode, shift_pressed, caps_lock)

-----------------------------------------------------------------------------
(* The user's hands.                                                       *)

\* The symbol above a digit needs a shift key, a capital a shift key or caps
\* lock, but not both; other keys stand for no character.
Meaning(k) ==
  LET shifted == down \cap Shifts # {}
  IN CASE k = 2 -> IF shifted THEN 33 ELSE 49
       [] k = 30 -> IF shifted # capsOn THEN 65 ELSE 97
       [] OTHER -> NoChar

Press(k) ==
  /\ k \notin down /\ Cardinality(down) < MaxDown
  /\ KeyArrives(k)
  /\ down' = down \cup {k} /\ latest' = k
  /\ capsOn' = IF k = CapsLock THEN ~capsOn ELSE capsOn
  /\ meant' = Meaning(k)
  /\ ambiguous' = (ambiguous \/ Shifts \subseteq down')

LetGo(k) ==
  /\ k \in down
  /\ KeyArrives(k + Release)
  /\ down' = down \ {k} /\ latest' = IF latest = k THEN None ELSE latest
  /\ meant' = NoChar
  /\ ambiguous' = (ambiguous /\ Shifts \cap down' # {})
  /\ UNCHANGED capsOn

\* Caps lock is not held long enough to repeat.
Repeat ==
  /\ latest \notin {None, CapsLock}
  /\ KeyArrives(latest)
  /\ meant' = Meaning(latest)
  /\ UNCHANGED <<down, latest, capsOn, ambiguous>>

UsesKeyboard == (\E k \in Keys : Press(k) \/ LetGo(k)) \/ Repeat

\* No key is touched before isr_install has set up the controllers.
KeysInit ==
  /\ Init
  /\ shift_pressed = FALSE /\ ctrl_pressed = FALSE /\ alt_pressed = FALSE /\ caps_lock = FALSE
  /\ char = NoChar /\ meant = NoChar
  /\ down = {} /\ latest = None /\ capsOn = FALSE /\ ambiguous = FALSE

KeysNext ==
  \/ UsesKeyboard /\ mode # "isr_install" /\ UNCHANGED <<flags, char>>
  \/ ReadsPort /\ CallHandler /\ keyboard_callback(port) /\ UNCHANGED hands
  \/ ~ReadsPort /\ (BootStep \/ InterruptStep \/ ProgramStep \/ Tick \/ DiskDone)
     /\ UNCHANGED <<flags, char, hands>>

KeysSpec == KeysInit /\ [][KeysNext]_allVars /\ Fairness

-----------------------------------------------------------------------------
ScancodeTypeOK ==
  /\ InterruptsTypeOK
  /\ {shift_pressed, ctrl_pressed, alt_pressed, caps_lock, capsOn, ambiguous} \subseteq BOOLEAN
  /\ {char, meant} \subseteq {33, 49, 65, 97, NoChar}
  /\ down \subseteq Keys /\ latest \in down \cup {None}

\* When a byte has been read the line editor was given the character the keys
\* stood for when it was sent, in any order of pressing, repeating and letting
\* go; but where both shift keys were held, not until both are up again.
CharsAsMeant == port = None /\ ~ambiguous => char = meant
=============================================================================
