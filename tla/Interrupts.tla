----------------------------- MODULE Interrupts -----------------------------
(***************************************************************************)
(* Hardware interrupts: cpu/isr.c programs the two interrupt controllers,  *)
(* kernel.c registers the handlers and then sets the interrupt flag, and   *)
(* irq_handler acknowledges and dispatches what the controllers deliver.   *)
(*                                                                         *)
(* Lines are numbered as the controllers' inputs: 0 the timer, 1 the       *)
(* keyboard, 14 the disk, 15 what the second controller answers when the   *)
(* request it was asked about is gone.  The second controller hangs on     *)
(* input 2 of the first.  A request is latched when a line rises; the      *)
(* keyboard's rises with each byte at port 0x60, the disk's when a command *)
(* is done and falls when the driver, which polls, reads the status.       *)
(*                                                                         *)
(* The program is main, then the user program with its system calls.       *)
(***************************************************************************)
EXTENDS Integers, FiniteSetsExt

CONSTANTS
  Bytes,      \* what the keyboard sends
  None

Lines == {0, 1, 14, 15}

ASSUME InterruptsAssumption == None \notin Bytes \cup Lines

VARIABLES
  requested,      \* lines whose request the controllers have latched
  inService,      \* their in-service bits, 2 for the second controller
  port,           \* the byte waiting at port 0x60
  disk,           \* the disk's command: none, busy, done (its line is raised)
  handlers,       \* interrupt_handlers: the lines with a handler
  IF_flag,        \* the processor's interrupt flag
  mode,           \* what the program is doing
  handling,       \* the line whose handler runs
  stage,          \* how far the handler is
  rested          \* the timer may tick: see Tick

controllers == <<requested, inService>>
bus     == <<controllers, port, disk>>
service == <<handling, stage, rested>>
vars    == <<bus, handlers, IF_flag, mode, service>>

-----------------------------------------------------------------------------
Booting == mode \in {"isr_install", "init_timer", "init_keyboard", "sti"}

\* The processor is at the program's next instruction.
InProgram == handling = None

Init ==
  /\ requested = {} /\ inService = {}
  /\ port = None /\ disk = "none" /\ handlers = {}
  /\ IF_flag = FALSE                          \* since switch_to_pm
  /\ mode = "isr_install"
  /\ handling = None /\ stage = "none" /\ rested = TRUE

\* The first command word to a controller drops the requests it has latched.
isr_install ==
  /\ mode = "isr_install" /\ mode' = "init_timer"
  /\ requested' = {} /\ inService' = {} /\ rested' = TRUE
  /\ UNCHANGED <<port, disk, handlers, IF_flag, handling, stage>>

init_timer ==
  /\ mode = "init_timer" /\ mode' = "init_keyboard"
  /\ handlers' = handlers \cup {0}
  /\ UNCHANGED <<bus, IF_flag, service>>

\* Mutant of init_keyboard: the interrupt flag is set first.
EnablesFirst ==
  /\ mode = "init_keyboard" /\ InProgram
  /\ IF IF_flag THEN mode' = "sti" /\ handlers' = handlers \cup {1} /\ UNCHANGED IF_flag
                ELSE IF_flag' = TRUE /\ UNCHANGED <<mode, handlers>>
  /\ UNCHANGED <<bus, service>>

init_keyboard ==
  /\ mode = "init_keyboard" /\ mode' = "sti"
  /\ handlers' = handlers \cup {1}
  /\ UNCHANGED <<bus, IF_flag, service>>

Sti ==
  /\ mode = "sti" /\ mode' = "running" /\ InProgram
  /\ IF_flag' = TRUE
  /\ UNCHANGED <<bus, handlers, service>>

BootStep == isr_install \/ init_timer \/ init_keyboard \/ Sti

-----------------------------------------------------------------------------
(* Devices.                                                                *)

\* The timer's period, 20 ms, is longer than the handlers of all requests that
\* wait at once: it ticks again when the program has been back in between.
Tick ==
  /\ rested /\ rested' = FALSE
  /\ requested' = requested \cup {0}
  /\ UNCHANGED <<inService, port, disk, handlers, IF_flag, mode, handling, stage>>

\* A byte pressed before isr_install raises the line, but its request is lost.
KeyArrives(b) ==
  /\ port = None /\ port' = b
  /\ requested' = requested \cup {1}
  /\ UNCHANGED <<inService, disk, handlers, IF_flag, mode, service>>

DiskDone ==
  /\ disk = "busy" /\ disk' = "done"
  /\ requested' = requested \cup {14}
  /\ UNCHANGED <<inService, port, handlers, IF_flag, mode, service>>

-----------------------------------------------------------------------------
(* The processor takes the most urgent request no service in progress      *)
(* holds back, before the program's next instruction.                      *)

Input(l) == IF l >= 8 THEN 2 ELSE l

Deliverable ==
  {l \in requested : \A s \in inService : IF s >= 8 THEN l < s ELSE Input(l) < s}

Due == IF_flag /\ Deliverable # {}

\* The gate clears the flag.
Deliver ==
  /\ Due /\ InProgram
  /\ LET l == CHOOSE m \in Deliverable :
                \A o \in Deliverable : Input(m) < Input(o) \/ (Input(m) = Input(o) /\ m <= o)
     IN /\ handling' = l
        /\ requested' = requested \ {l}
        /\ inService' = inService \cup {Input(l)} \cup (IF l = 14 THEN {14} ELSE {})
  /\ IF_flag' = FALSE /\ stage' = "acknowledge"
  /\ UNCHANGED <<port, disk, handlers, mode, rested>>

\* An end-of-interrupt ends the most urgent service of its controller.
EOI(services) == IF services = {} THEN {} ELSE {Min(services)}

Second == {s \in inService : s >= 8}
First  == inService \ Second

\* Mutant of Acknowledged: the second controller gets no command.
AcknowledgedFirst(l) == inService \ EOI(First)

\* irq_handler: both controllers for vectors from 40, else the first.
Acknowledged(l) == inService \ (EOI(First) \cup (IF l >= 8 THEN EOI(Second) ELSE {}))

Acknowledge ==
  /\ stage = "acknowledge" /\ stage' = "call"
  /\ inService' = Acknowledged(handling)
  /\ UNCHANGED <<requested, port, disk, handlers, IF_flag, mode, handling, rested>>

\* The keyboard's handler reads the port, the timer's counts; nobody
\* registered one for the disk.
ReadsPort == stage = "call" /\ handling = 1 /\ 1 \in handlers

CallHandler ==
  /\ stage = "call" /\ stage' = "iret"
  /\ port' = IF ReadsPort THEN None ELSE port
  /\ UNCHANGED <<controllers, disk, handlers, IF_flag, mode, handling, rested>>

\* iret restores the flag, which was set; behind the hlt the program goes on.
Iret ==
  /\ stage = "iret" /\ stage' = "none"
  /\ handling' = None /\ IF_flag' = TRUE
  /\ mode' = IF mode = "halted" THEN "syscall" ELSE mode
  /\ rested' = (rested \/ requested = {})
  /\ UNCHANGED <<bus, handlers>>

InterruptStep == Deliver \/ Acknowledge \/ CallHandler \/ Iret

-----------------------------------------------------------------------------
(* The program: nothing is due when it executes an instruction.            *)

Runs == InProgram /\ ~Due

\* The gate of INT 0x80 clears the flag.
Syscall ==
  /\ Runs /\ mode = "running" /\ mode' = "syscall"
  /\ IF_flag' = FALSE
  /\ UNCHANGED <<bus, handlers, service>>

Return ==
  /\ Runs /\ mode = "syscall" /\ mode' = "running"
  /\ IF_flag' = TRUE
  /\ UNCHANGED <<bus, handlers, service>>

\* keyboard_read's sti and hlt: nothing is taken between the two.
Halt ==
  /\ Runs /\ mode = "syscall" /\ mode' = "halted"
  /\ IF_flag' = TRUE
  /\ UNCHANGED <<bus, handlers, service>>

\* fat12_init does so with interrupts enabled, system calls without.
DiskCommand ==
  /\ Runs /\ mode \in {"running", "syscall"}
  /\ disk = "none" /\ disk' = "busy"
  /\ UNCHANGED <<controllers, port, handlers, IF_flag, mode, service>>

\* Polling reads the status, and the line falls.  A request that was not taken
\* yet is withdrawn, stays latched, or is answered as 15.
PollStatus ==
  /\ Runs /\ mode \in {"running", "syscall"}
  /\ disk = "done" /\ disk' = "none"
  /\ IF 14 \in requested
     THEN \E left \in {{}, {14}, {15}} : requested' = (requested \ {14}) \cup left
     ELSE UNCHANGED requested
  /\ UNCHANGED <<inService, port, handlers, IF_flag, mode, service>>

ProgramStep == Syscall \/ Return \/ Halt \/ DiskCommand \/ PollStatus

\* The processor executes; a system call that uses the disk or waits for a
\* line goes on to its end or to its hlt.
Fairness ==
  /\ WF_vars(BootStep) /\ WF_vars(InterruptStep)
  /\ WF_vars(Return \/ Halt)

-----------------------------------------------------------------------------
InterruptsTypeOK ==
  /\ requested \subseteq Lines /\ inService \subseteq {0, 1, 2, 14}
  /\ port \in Bytes \cup {None} /\ disk \in {"none", "busy", "done"}
  /\ handlers \subseteq {0, 1} /\ IF_flag \in BOOLEAN
  /\ Booting \/ mode \in {"running", "syscall", "halted"}
  /\ handling \in Lines \cup {None}
  /\ stage \in {"none", "acknowledge", "call", "iret"}
  /\ rested \in BOOLEAN

\* irq_handler leaves no service open, on either controller and also for an
\* answer 15 that stands for no service: what it leaves open holds back every
\* less urgent line from then on.
NothingInService == stage \in {"none", "call", "iret"} => inService = {}

\* Once isr_install is done every keyboard request leads to the byte being read,
\* whatever the timer and the disk request meanwhile: a byte that stays at the
\* port raises no further request, and the keyboard would be dead.
KeysArrive == (mode # "isr_install" /\ 1 \in requested) ~> port = None
=============================================================================
