--------------------------- MODULE ScancodeProofs ---------------------------
(***************************************************************************)
(* What the keyboard's interrupt handler keeps true, for every set of the  *)
(* modelled keys and every number of keys held at a time.                  *)
(*                                                                         *)
(* The invariant has two halves.  One is about the controllers: a service  *)
(* is open between the gate and the acknowledgement only, and a byte waits *)
(* at the port exactly while its request is latched or its handler runs.   *)
(* The other relates the driver's flags to the user's hands, which are one *)
(* byte ahead of the driver while a byte waits: it speaks of the flags     *)
(* that the handler will have set when it has read that byte.              *)
(***************************************************************************)
EXTENDS Scancode, TLAPS

-----------------------------------------------------------------------------
(* The controllers and the port.                                           *)

\* The in-service bits that the delivery of a line sets.
Services(l) == {Input(l)} \cup (IF l = 14 THEN {14} ELSE {})

InServiceOf ==
  /\ stage = "none" <=> handling = None
  /\ inService = IF stage = "acknowledge" THEN Services(handling) ELSE {}

\* The handlers are registered before the first interrupt is taken.
Registered ==
  /\ Booting => ~IF_flag /\ stage = "none"
  /\ mode \in {"isr_install", "init_timer", "init_keyboard"} \/ 1 \in handlers

KeyInHandler == handling = 1 /\ stage \in {"acknowledge", "call"}

\* A byte at the port and the keyboard's request or handler come together.
Waiting ==
  /\ port # None <=> 1 \in requested \/ KeyInHandler
  /\ KeyInHandler => 1 \notin requested
  /\ mode = "isr_install" => port = None

BusInv == InterruptsTypeOK /\ InServiceOf /\ Registered /\ Waiting

-----------------------------------------------------------------------------
(* The flags once the byte at the port has been read.                      *)

ShiftAfter == IF port # None /\ port % Release \in Shifts THEN port < Release
              ELSE shift_pressed

CapsAfter == IF port # None /\ port = CapsLock THEN ~caps_lock ELSE caps_lock

CharAfter ==
  IF port = None THEN char
  ELSE IF port % Release \in Shifts \cup {Ctrl, Alt, CapsLock} \/ port >= Release
       THEN NoChar
       ELSE scancode_to_ascii(port, shift_pressed, caps_lock)

HandsInv ==
  /\ ScancodeTypeOK
  /\ Shifts \subseteq down => ambiguous
  /\ ambiguous => down \cap Shifts # {}
  /\ ~ambiguous => (ShiftAfter <=> down \cap Shifts # {})
  /\ CapsAfter = capsOn
  /\ ~ambiguous => CharAfter = meant

IInv == BusInv /\ HandsInv

-----------------------------------------------------------------------------
(* Facts about the controllers.                                            *)

\* The end-of-interrupt command ends the only service of a controller.
LEMMA EOISingle == ASSUME NEW s \in Int PROVE EOI({s}) = {s}
  <1>1. Min({s}) = s
    BY DEF Min
  <1> QED
    BY <1>1 DEF EOI

\* irq_handler's commands close exactly the services its line opened.
LEMMA ClosesServices ==
  ASSUME InServiceOf, handling \in Lines, stage = "acknowledge"
  PROVE  Acknowledged(handling) = {}
  <1>1. CASE handling \in {0, 1}
    <2>1. inService = {handling}
      BY <1>1 DEF InServiceOf, Services, Input
    <2>2. Second = {} /\ First = {handling}
      BY <1>1, <2>1 DEF Second, First
    <2> QED
      BY <1>1, <2>1, <2>2, EOISingle DEF Acknowledged
  <1>2. CASE handling = 14
    <2>1. inService = {2, 14}
      BY <1>2 DEF InServiceOf, Services, Input
    <2>2. Second = {14} /\ First = {2}
      BY <2>1 DEF Second, First
    <2> QED
      BY <1>2, <2>1, <2>2, EOISingle DEF Acknowledged
  <1>3. CASE handling = 15
    <2>1. inService = {2}
      BY <1>3 DEF InServiceOf, Services, Input
    <2>2. Second = {} /\ First = {2}
      BY <2>1 DEF Second, First
    <2> QED
      BY <1>3, <2>1, <2>2, EOISingle DEF Acknowledged, EOI
  <1> QED
    BY <1>1, <1>2, <1>3 DEF Lines

\* A set of requests has a most urgent one.
LEMMA MostUrgent ==
  ASSUME NEW D \in SUBSET Lines, D # {}
  PROVE  \E m \in D : \A o \in D : Input(m) < Input(o) \/ (Input(m) = Input(o) /\ m <= o)
  <1>1. CASE 0 \in D
    BY <1>1 DEF Lines, Input
  <1>2. CASE 0 \notin D /\ 1 \in D
    BY <1>2 DEF Lines, Input
  <1>3. CASE 0 \notin D /\ 1 \notin D /\ 14 \in D
    BY <1>3 DEF Lines, Input
  <1>4. CASE D = {15}
    BY <1>4 DEF Lines, Input
  <1> QED
    BY <1>1, <1>2, <1>3, <1>4 DEF Lines

\* The processor is given a line that was requested.
LEMMA DeliversRequested ==
  ASSUME InterruptsTypeOK, Deliver
  PROVE  /\ handling' \in requested /\ handling' \in Lines
         /\ requested' = requested \ {handling'}
         /\ inService' = inService \cup Services(handling')
  <1> DEFINE Urgent(m) ==
        \A o \in Deliverable : Input(m) < Input(o) \/ (Input(m) = Input(o) /\ m <= o)
  <1>1. Deliverable \in SUBSET Lines /\ Deliverable # {} /\ Deliverable \subseteq requested
    BY DEF Deliver, Due, Deliverable, InterruptsTypeOK
  <1>2. \E m \in Deliverable : Urgent(m)
    BY <1>1, MostUrgent
  <1>3. (CHOOSE m \in Deliverable : Urgent(m)) \in Deliverable
    BY <1>2
  <1>4. handling' = CHOOSE m \in Deliverable : Urgent(m)
    BY DEF Deliver
  <1>5. /\ requested' = requested \ {handling'}
        /\ inService' = inService \cup Services(handling')
    BY DEF Deliver, Services
  <1> QED
    BY <1>1, <1>3, <1>4, <1>5

-----------------------------------------------------------------------------
(* What each step does to the controllers and the port.                    *)

\* The invariant holds when isr_install is about to program the controllers.
LEMMA BusInit == Init => BusInv
  BY InterruptsAssumption
  DEF Init, BusInv, InterruptsTypeOK, InServiceOf, Registered, Waiting, KeyInHandler,
      Booting, Lines

\* The boot sequence: the flag is clear until both handlers are registered.
LEMMA BusBoot == BusInv /\ BootStep => BusInv'
  <1> SUFFICES ASSUME BusInv, BootStep PROVE BusInv'
    OBVIOUS
  <1> USE InterruptsAssumption DEF BusInv
  <1>1. CASE isr_install
    BY <1>1
    DEF isr_install, InterruptsTypeOK, InServiceOf, Registered, Waiting, KeyInHandler, Booting
  <1>2. CASE init_timer
    BY <1>2
    DEF init_timer, InterruptsTypeOK, InServiceOf, Registered, Waiting, KeyInHandler, Booting,
        bus, controllers, service
  <1>3. CASE init_keyboard
    BY <1>3
    DEF init_keyboard, InterruptsTypeOK, InServiceOf, Registered, Waiting, KeyInHandler,
        Booting, bus, controllers, service
  <1>4. CASE Sti
    BY <1>4
    DEF Sti, InterruptsTypeOK, InServiceOf, Registered, Waiting, KeyInHandler, Booting,
        bus, controllers, service
  <1> QED
    BY <1>1, <1>2, <1>3, <1>4 DEF BootStep

\* The devices raise their lines; the keyboard waits for an empty port.
LEMMA BusDevices ==
  ASSUME BusInv, Tick \/ DiskDone \/ \E b \in Bytes : mode # "isr_install" /\ KeyArrives(b)
  PROVE  BusInv'
  <1> USE InterruptsAssumption DEF BusInv
  <1>1. CASE Tick
    <2>1. rested' \in BOOLEAN
      BY <1>1, Zenon DEF Tick
    <2>2. /\ requested' = requested \cup {0}
          /\ UNCHANGED <<inService, port, disk, handlers, IF_flag, mode, handling, stage>>
      BY <1>1 DEF Tick
    <2> QED
      BY <2>1, <2>2
      DEF InterruptsTypeOK, InServiceOf, Registered, Waiting, KeyInHandler, Booting, Lines
  <1>2. CASE DiskDone
    BY <1>2
    DEF DiskDone, InterruptsTypeOK, InServiceOf, Registered, Waiting, KeyInHandler, Booting,
        Lines, service
  <1>3. CASE \E b \in Bytes : mode # "isr_install" /\ KeyArrives(b)
    BY <1>3
    DEF KeyArrives, InterruptsTypeOK, InServiceOf, Registered, Waiting, KeyInHandler, Booting,
        Lines, service
  <1> QED
    BY <1>1, <1>2, <1>3

\* An interrupt, from the gate to its iret.
LEMMA BusInterrupt == BusInv /\ InterruptStep => BusInv'
  <1> SUFFICES ASSUME BusInv, InterruptStep PROVE BusInv'
    OBVIOUS
  <1> USE InterruptsAssumption DEF BusInv
  <1>1. CASE Deliver
    <2>1. /\ handling' \in requested /\ handling' \in Lines
          /\ requested' = requested \ {handling'}
          /\ inService' = inService \cup Services(handling')
      BY <1>1, DeliversRequested
    <2>2. /\ handling = None /\ stage = "none" /\ inService = {}
          /\ IF_flag /\ ~Booting /\ None \notin Lines
      BY <1>1 DEF Deliver, InProgram, InServiceOf, Registered, Due
    <2>3. stage' = "acknowledge" /\ IF_flag' = FALSE
          /\ UNCHANGED <<port, disk, handlers, mode, rested>>
      BY <1>1 DEF Deliver
    <2>4. Services(handling') \subseteq {0, 1, 2, 14}
      BY <2>1 DEF Services, Input, Lines
    <2>5. InterruptsTypeOK'
      BY <2>1, <2>2, <2>3, <2>4 DEF InterruptsTypeOK, Booting
    <2>6. InServiceOf'
      BY <2>1, <2>2, <2>3 DEF InServiceOf, Services
    <2>7. Registered'
      BY <2>2, <2>3 DEF Registered, Booting
    <2>8. Waiting'
      BY <2>1, <2>2, <2>3 DEF Waiting, KeyInHandler
    <2> QED
      BY <2>5, <2>6, <2>7, <2>8
  <1>2. CASE Acknowledge
    <2>1. handling \in Lines
      BY <1>2 DEF Acknowledge, InServiceOf, InterruptsTypeOK
    <2>2. inService' = {}
      BY <1>2, <2>1, ClosesServices DEF Acknowledge
    <2> QED
      BY <1>2, <2>1, <2>2
      DEF Acknowledge, InterruptsTypeOK, InServiceOf, Registered, Waiting, KeyInHandler, Booting
  <1>3. CASE CallHandler
    <2>1. 1 \in handlers
      BY <1>3 DEF CallHandler, Registered, Booting
    <2> QED
      BY <1>3, <2>1
      DEF CallHandler, ReadsPort, InterruptsTypeOK, InServiceOf, Registered, Waiting,
          KeyInHandler, Booting, controllers
  <1>4. CASE Iret
    BY <1>4
    DEF Iret, InterruptsTypeOK, InServiceOf, Registered, Waiting, KeyInHandler, Booting,
        bus, controllers
  <1> QED
    BY <1>1, <1>2, <1>3, <1>4 DEF InterruptStep

\* The program between two interrupts.
LEMMA BusProgram == BusInv /\ ProgramStep => BusInv'
  <1> SUFFICES ASSUME BusInv, ProgramStep PROVE BusInv'
    OBVIOUS
  <1> USE InterruptsAssumption
      DEF BusInv, InterruptsTypeOK, InServiceOf, Registered, Waiting, KeyInHandler, Booting,
          bus, controllers, service
  <1>1. CASE Syscall
    BY <1>1 DEF Syscall
  <1>2. CASE Return
    BY <1>2 DEF Return
  <1>3. CASE Halt
    BY <1>3 DEF Halt
  <1>4. CASE DiskCommand
    BY <1>4 DEF DiskCommand
  <1>5. CASE PollStatus
    <2>1. PICK left \in {{}, {14}, {15}} :
            requested' = requested \/ requested' = (requested \ {14}) \cup left
      BY <1>5 DEF PollStatus
    <2>2. left \subseteq Lines /\ 1 \notin left
      BY <2>1 DEF Lines
    <2>3. requested' \subseteq Lines /\ (1 \in requested' <=> 1 \in requested)
      BY <2>1, <2>2
    <2> QED
      BY <1>5, <2>3 DEF PollStatus
  <1> QED
    BY <1>1, <1>2, <1>3, <1>4, <1>5 DEF ProgramStep

-----------------------------------------------------------------------------
(* Scan codes.                                                             *)

\* A byte tells its key and whether it was pressed.
LEMMA Codes ==
  ASSUME NEW k \in Keys
  PROVE  /\ k \in Bytes /\ k + Release \in Bytes
         /\ k \in 0 .. 127 /\ k % Release = k
         /\ (k + Release) % Release = k /\ k + Release >= Release
  <1>1. k \in 0 .. 127
    BY ScancodeAssumption DEF ScancodeAssumption, Shifts, Ctrl, Alt, CapsLock, InTables
  <1>2. k \in Bytes /\ k + Release \in Bytes
    BY ScancodeAssumption DEF ScancodeAssumption
  <1> QED
    BY <1>1, <1>2 DEF Release

\* scancode_to_ascii: shift and caps lock each change the case of the letter,
\* and shift alone the digit.
LEMMA Translates ==
  ASSUME NEW k \in InTables, NEW shift \in BOOLEAN, NEW caps \in BOOLEAN
  PROVE  scancode_to_ascii(k, shift, caps)
           = CASE k = 2 -> IF shift THEN 33 ELSE 49
               [] k = 30 -> IF shift # caps THEN 65 ELSE 97
               [] OTHER -> NoChar
  <1>1. /\ sc_ascii[2] = 49 /\ sc_ascii[30] = 97 /\ sc_ascii[88] = 63
        /\ sc_ascii_shift[2] = 33 /\ sc_ascii_shift[30] = 65 /\ sc_ascii_shift[88] = 63
    BY DEF sc_ascii, sc_ascii_shift, InTables
  <1> QED
    BY <1>1 DEF scancode_to_ascii, lower, upper, SC_LIMIT, NoChar, InTables

\* Whatever byte was read, the line editor gets a character or none.
LEMMA CharsTyped ==
  ASSUME NEW byte \in Bytes, shift_pressed \in BOOLEAN, caps_lock \in BOOLEAN,
         byte % Release \notin Shifts \cup {Ctrl, Alt, CapsLock}, byte < Release
  PROVE  scancode_to_ascii(byte, shift_pressed, caps_lock) \in {33, 49, 65, 97, NoChar}
  <1>1. PICK k \in Keys : byte = k \/ byte = k + Release
    BY ScancodeAssumption DEF ScancodeAssumption
  <1>2. byte = k /\ byte % Release = k
    BY <1>1, Codes DEF Release
  <1>3. k \in InTables
    BY <1>2, ScancodeAssumption DEF ScancodeAssumption
  <1> QED
    BY <1>2, <1>3, Translates

-----------------------------------------------------------------------------
(* The hands and the driver.                                               *)

\* What the invariant says while no byte waits, and what it must say again
\* when one has come.
LEMMA InStep ==
  ASSUME IInv, port = None
  PROVE  /\ ~ambiguous => (shift_pressed <=> down \cap Shifts # {})
         /\ caps_lock = capsOn
  BY DEF IInv, HandsInv, ShiftAfter, CapsAfter

\* Steps that leave the port, the driver's flags and the hands alone.
LEMMA HandsApart ==
  ASSUME IInv, InterruptsTypeOK', UNCHANGED <<port, flags, char, hands>>
  PROVE  HandsInv'
  BY DEF IInv, HandsInv, ScancodeTypeOK, ShiftAfter, CapsAfter, CharAfter, flags, hands

\* Meaning is what scancode_to_ascii will make of the key, as long as the flags
\* are those the user's hands call for.
LEMMA MeaningIsChar ==
  ASSUME NEW k \in Keys, NEW shift \in BOOLEAN, NEW caps \in BOOLEAN,
         shift <=> down \cap Shifts # {}, caps = capsOn
  PROVE  Meaning(k) = IF k \in Shifts \cup {Ctrl, Alt, CapsLock} THEN NoChar
                      ELSE scancode_to_ascii(k, shift, caps)
  <1>1. CASE k \in Shifts \cup {Ctrl, Alt, CapsLock}
    BY <1>1 DEF Meaning, Shifts, Ctrl, Alt, CapsLock
  <1>2. CASE k \notin Shifts \cup {Ctrl, Alt, CapsLock}
    <2>1. k \in InTables
      BY <1>2, ScancodeAssumption DEF ScancodeAssumption
    <2>2. scancode_to_ascii(k, shift, caps)
            = CASE k = 2 -> IF shift THEN 33 ELSE 49
                [] k = 30 -> IF shift # caps THEN 65 ELSE 97
                [] OTHER -> NoChar
      BY <2>1, Translates
    <2> QED
      BY <1>2, <2>2 DEF Meaning
  <1> QED
    BY <1>1, <1>2

\* A key that is pressed, or repeats.
LEMMA PressedAhead ==
  ASSUME IInv, NEW k \in Keys, port = None, port' = k, InterruptsTypeOK',
         UNCHANGED <<flags, char>>, meant' = Meaning(k),
         down' = down \cup {k}, latest' = k,
         capsOn' = IF k = CapsLock THEN ~capsOn ELSE capsOn,
         ambiguous' = (ambiguous \/ Shifts \subseteq down')
  PROVE  HandsInv'
  <1>1. ScancodeTypeOK /\ {shift_pressed, caps_lock, capsOn, ambiguous} \subseteq BOOLEAN
    BY DEF IInv, HandsInv, ScancodeTypeOK
  <1>2. k \in Bytes /\ k # None /\ k % Release = k /\ k < Release /\ ~(k >= Release)
    BY Codes, InterruptsAssumption DEF Release
  <1>3. capsOn' \in BOOLEAN /\ ambiguous' \in BOOLEAN
    BY <1>1, Zenon
  <1>4. Meaning(k) \in {33, 49, 65, 97, NoChar}
    BY DEF Meaning
  <1>5. ScancodeTypeOK'
    BY <1>1, <1>3, <1>4 DEF ScancodeTypeOK, flags
  <1>6. Shifts \subseteq down' => ambiguous'
    OBVIOUS
  <1>7. ambiguous' => down' \cap Shifts # {}
    BY DEF IInv, HandsInv, Shifts
  <1>8. ~ambiguous' => (ShiftAfter' <=> down' \cap Shifts # {})
    BY <1>2, InStep DEF ShiftAfter, flags
  <1>9. CapsAfter' = capsOn'
    BY <1>2, InStep DEF CapsAfter, flags
  <1>10. ASSUME ~ambiguous' PROVE CharAfter' = meant'
    <2>1. CharAfter' = IF k \in Shifts \cup {Ctrl, Alt, CapsLock} THEN NoChar
                       ELSE scancode_to_ascii(k, shift_pressed, caps_lock)
      BY <1>2 DEF CharAfter, flags
    <2>2. (shift_pressed <=> down \cap Shifts # {}) /\ caps_lock = capsOn
      BY <1>10, InStep
    <2> QED
      BY <1>1, <2>1, <2>2, MeaningIsChar
  <1> QED
    BY <1>5, <1>6, <1>7, <1>8, <1>9, <1>10 DEF HandsInv

\* A key that is let go.
LEMMA ReleasedAhead ==
  ASSUME IInv, NEW k \in Keys, k \in down, port = None, port' = k + Release,
         InterruptsTypeOK', UNCHANGED <<flags, char, capsOn>>, meant' = NoChar,
         down' = down \ {k}, latest' = IF latest = k THEN None ELSE latest,
         ambiguous' = (ambiguous /\ Shifts \cap down' # {})
  PROVE  HandsInv'
  <1>1. ScancodeTypeOK /\ {shift_pressed, caps_lock, capsOn, ambiguous} \subseteq BOOLEAN
    BY DEF IInv, HandsInv, ScancodeTypeOK
  <1>2. /\ k + Release # None /\ (k + Release) % Release = k
        /\ k + Release >= Release /\ ~(k + Release < Release)
        /\ k + Release # CapsLock
    BY Codes, InterruptsAssumption DEF Release, CapsLock
  <1>3. ambiguous' \in BOOLEAN
    BY <1>1, Zenon
  <1>4. latest' \in down' \cup {None}
    BY <1>1 DEF ScancodeTypeOK
  <1>5. ScancodeTypeOK'
    BY <1>1, <1>3, <1>4 DEF ScancodeTypeOK, flags
  <1>6. Shifts \subseteq down' => ambiguous'
    BY DEF IInv, HandsInv, Shifts
  <1>7. ambiguous' => down' \cap Shifts # {}
    OBVIOUS
  <1>8. ASSUME ~ambiguous' PROVE ShiftAfter' <=> down' \cap Shifts # {}
    <2>1. CASE k \in Shifts
      <3>1. ~ShiftAfter'
        BY <1>2, <2>1 DEF ShiftAfter
      <3>2. ~ambiguous => ~(Shifts \subseteq down)
        BY DEF IInv, HandsInv
      <3>3. CASE ambiguous
        <4>1. Shifts \cap down' = {}
          BY <1>8, <3>3
        <4> QED
          BY <3>1, <4>1
      <3>4. CASE ~ambiguous
        <4>1. 42 \notin down \/ 54 \notin down
          BY <3>2, <3>4 DEF Shifts
        <4>2. down' \cap Shifts = {}
          BY <2>1, <4>1 DEF Shifts
        <4> QED
          BY <3>1, <4>2
      <3> QED
        BY <3>3, <3>4
    <2>2. CASE k \notin Shifts
      <3>1. ShiftAfter' = shift_pressed /\ down' \cap Shifts = down \cap Shifts
        BY <1>2, <2>2 DEF ShiftAfter, flags
      <3>2. ~ambiguous
        BY <1>8, <3>1 DEF IInv, HandsInv
      <3> QED
        BY <3>1, <3>2, InStep
    <2> QED
      BY <2>1, <2>2
  <1>9. CapsAfter' = capsOn'
    BY <1>2, InStep DEF CapsAfter, flags
  <1>10. CharAfter' = meant'
    BY <1>2 DEF CharAfter
  <1> QED
    BY <1>5, <1>6, <1>7, <1>8, <1>9, <1>10 DEF HandsInv

\* The handler: what was said of the flags to come now holds of the flags.
LEMMA CallbackCatchesUp ==
  ASSUME IInv, port \in Bytes, port' = None, InterruptsTypeOK',
         keyboard_callback(port), UNCHANGED hands
  PROVE  HandsInv'
  <1>1. /\ ScancodeTypeOK
        /\ {shift_pressed, ctrl_pressed, alt_pressed, caps_lock} \subseteq BOOLEAN
    BY DEF IInv, HandsInv, ScancodeTypeOK
  <1>2. PICK k \in Keys : port = k \/ port = k + Release
    BY ScancodeAssumption DEF ScancodeAssumption
  <1>3. port # None /\ port \in Int /\ port % Release = k
        /\ (port < Release <=> port = k) /\ (port >= Release <=> port # k)
        /\ (port = CapsLock <=> k = CapsLock /\ port < Release)
    BY <1>2, Codes, InterruptsAssumption DEF Release, CapsLock
  <1>4. shift_pressed' = ShiftAfter /\ caps_lock' = CapsAfter
    <2>1. shift_pressed' = IF k \in Shifts THEN port < Release ELSE shift_pressed
      BY <1>3 DEF keyboard_callback
    <2>2. caps_lock' = IF k = CapsLock /\ port < Release THEN ~caps_lock ELSE caps_lock
      BY <1>3 DEF keyboard_callback
    <2> QED
      BY <1>3, <2>1, <2>2 DEF ShiftAfter, CapsAfter
  <1>5. char' = CharAfter
    BY <1>3 DEF keyboard_callback, CharAfter
  <1>6. {shift_pressed', ctrl_pressed', alt_pressed', caps_lock'} \subseteq BOOLEAN
    <2>1. (port < Release) \in BOOLEAN /\ (~caps_lock) \in BOOLEAN
      OBVIOUS
    <2> QED
      BY <1>1, <2>1, Zenon DEF keyboard_callback
  <1>7. char' \in {33, 49, 65, 97, NoChar}
    BY <1>1, <1>2, <1>3, <1>5, CharsTyped DEF CharAfter
  <1>8. ScancodeTypeOK'
    BY <1>1, <1>6, <1>7 DEF ScancodeTypeOK, hands
  <1>9. ShiftAfter' = shift_pressed' /\ CapsAfter' = caps_lock' /\ CharAfter' = char'
    BY DEF ShiftAfter, CapsAfter, CharAfter
  <1> QED
    BY <1>4, <1>5, <1>8, <1>9 DEF IInv, HandsInv, hands

-----------------------------------------------------------------------------
(* The invariant, and what follows from it.                                *)

\* Before the first key: no flag set, no key held.
LEMMA InitInv == KeysInit => IInv
  <1> SUFFICES ASSUME KeysInit PROVE IInv
    OBVIOUS
  <1>1. BusInv
    BY BusInit DEF KeysInit
  <1>2. {shift_pressed, ctrl_pressed, alt_pressed, caps_lock, capsOn, ambiguous} \subseteq BOOLEAN
    BY Zenon DEF KeysInit
  <1>3. port = None
    BY DEF KeysInit, Init
  <1> QED
    BY <1>1, <1>2, <1>3
    DEF KeysInit, IInv, BusInv, HandsInv, ScancodeTypeOK, ShiftAfter, CapsAfter, CharAfter, Shifts

\* Every step of the hands, the devices, the processor and the program keeps it.
LEMMA NextInv == IInv /\ [KeysNext]_allVars => IInv'
  <1> SUFFICES ASSUME IInv, [KeysNext]_allVars PROVE IInv'
    OBVIOUS
  <1>1. BusInv /\ ScancodeTypeOK /\ InterruptsTypeOK
    BY DEF IInv, BusInv, HandsInv
  <1>2. CASE UsesKeyboard /\ mode # "isr_install" /\ UNCHANGED <<flags, char>>
    <2>1. PICK k \in Keys : Press(k) \/ LetGo(k) \/ (Repeat /\ latest = k)
      BY <1>1, <1>2 DEF UsesKeyboard, Repeat, ScancodeTypeOK
    <2>2. \E b \in Bytes : mode # "isr_install" /\ KeyArrives(b)
      BY <1>2, <2>1, Codes DEF Press, LetGo, Repeat
    <2>3. BusInv' /\ InterruptsTypeOK'
      BY <1>1, <2>2, BusDevices DEF BusInv
    <2>4. CASE Press(k)
      BY <1>2, <2>3, <2>4, PressedAhead DEF Press, KeyArrives, IInv
    <2>5. CASE LetGo(k)
      BY <1>2, <2>3, <2>5, ReleasedAhead DEF LetGo, KeyArrives, IInv
    <2>6. CASE Repeat /\ latest = k
      <3>1. k \in down /\ k # CapsLock
        BY <1>1, <2>6, InterruptsAssumption, Codes DEF Repeat, ScancodeTypeOK
      <3>2. down' = down \cup {k} /\ latest' = k /\ capsOn' = capsOn
        BY <2>6, <3>1 DEF Repeat
      <3>3. ambiguous = (ambiguous \/ Shifts \subseteq down)
        <4>1. (Shifts \subseteq down => ambiguous) /\ ambiguous \in BOOLEAN
          BY <1>1 DEF IInv, HandsInv, ScancodeTypeOK
        <4> QED
          BY <4>1, Zenon
      <3>4. ambiguous' = (ambiguous \/ Shifts \subseteq down')
        BY <2>6, <3>3 DEF Repeat
      <3> QED
        BY <1>2, <2>3, <2>6, <3>1, <3>2, <3>4, PressedAhead DEF Repeat, KeyArrives, IInv
    <2> QED
      BY <2>1, <2>4, <2>5, <2>6
  <1>3. CASE ReadsPort /\ CallHandler /\ keyboard_callback(port) /\ UNCHANGED hands
    <2>1. BusInv' /\ InterruptsTypeOK'
      BY <1>1, <1>3, BusInterrupt DEF InterruptStep, BusInv
    <2>2. port \in Bytes
      BY <1>1, <1>3 DEF BusInv, Waiting, KeyInHandler, ReadsPort, InterruptsTypeOK
    <2> QED
      BY <1>3, <2>1, <2>2, CallbackCatchesUp DEF CallHandler, IInv
  <1>4. CASE /\ ~ReadsPort
             /\ BootStep \/ InterruptStep \/ ProgramStep \/ Tick \/ DiskDone
             /\ UNCHANGED <<flags, char, hands>>
    <2>1. BusInv' /\ InterruptsTypeOK'
      BY <1>1, <1>4, BusBoot, BusInterrupt, BusProgram, BusDevices DEF BusInv
    <2>2. port' = port
      BY <1>4
      DEF BootStep, isr_install, init_timer, init_keyboard, Sti,
          InterruptStep, Deliver, Acknowledge, CallHandler, Iret,
          ProgramStep, Syscall, Return, Halt, DiskCommand, PollStatus,
          Tick, DiskDone, bus, controllers
    <2> QED
      BY <1>4, <2>1, <2>2, HandsApart DEF IInv
  <1>5. CASE UNCHANGED allVars
    BY <1>1, <1>5, HandsApart
    DEF allVars, vars, bus, controllers, service, IInv, BusInv, InterruptsTypeOK, InServiceOf,
        Registered, Waiting, KeyInHandler, Booting
  <1> QED
    BY <1>2, <1>3, <1>4, <1>5 DEF KeysNext

\* The controllers, the port and the driver's flags stay in their domains, and
\* the line editor is given nothing but characters of the tables
\* (keyboard_callback, scancode_to_ascii).
THEOREM ScancodeTypesHold == KeysSpec => []ScancodeTypeOK
  <1>1. IInv => ScancodeTypeOK
    BY DEF IInv, HandsInv
  <1> QED
    BY InitInv, NextInv, <1>1, PTL DEF KeysSpec

\* irq_handler acknowledges at both controllers exactly what its line opened:
\* no handler runs, and the program never goes on, with a service left open.
THEOREM ServicesAreClosed == KeysSpec => []NothingInService
  <1>1. IInv => NothingInService
    BY DEF IInv, BusInv, InServiceOf, NothingInService
  <1> QED
    BY InitInv, NextInv, <1>1, PTL DEF KeysSpec

\* keyboard_callback turns every byte it has read into the character its key
\* stood for when it was sent, in whatever order keys are pressed, repeat and
\* are let go, with an interrupt between any two instructions.
THEOREM CharsComeAsMeant == KeysSpec => []CharsAsMeant
  <1>1. IInv => CharsAsMeant
    BY DEF IInv, HandsInv, CharsAsMeant, CharAfter
  <1> QED
    BY InitInv, NextInv, <1>1, PTL DEF KeysSpec

\* The safety half of KeysArrive: no byte is stranded at the port.  While one
\* waits its request is latched or the handler that reads it has been entered.
THEOREM NoByteIsStranded ==
  KeysSpec => [](port # None => 1 \in requested
                                \/ (handling = 1 /\ stage \in {"acknowledge", "call"}))
  <1>1. IInv => (port # None => 1 \in requested
                                \/ (handling = 1 /\ stage \in {"acknowledge", "call"}))
    BY DEF IInv, BusInv, Waiting, KeyInHandler
  <1> QED
    BY InitInv, NextInv, <1>1, PTL DEF KeysSpec
=============================================================================
