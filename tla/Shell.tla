------------------------------- MODULE Shell -------------------------------
(***************************************************************************)
(* The shell (user/shell.c, user/userlib.c), the system calls it makes and *)
(* the commands the kernel executes for it (cpu/syscall.c), on top of the  *)
(* file system of Fat12 and a keyboard that keeps LineQueue's promise:     *)
(* fewer than BufferSize bytes wait to be read.                            *)
(*                                                                         *)
(* One cell of a buffer holds a word, a space, a newline or a terminator.  *)
(* Buffers keep what was in them: the line of a short command is followed  *)
(* by the rest of a longer one, cut between two cells.  Where the size of  *)
(* an array decides the bytes of its cells are counted.  A copy loop that  *)
(* leaves its array ends the model (lost): what happens then is undefined. *)
(***************************************************************************)
EXTENDS Fat12, FiniteSetsExt

CONSTANTS
  Lines,          \* what users type: sequences of words and spaces
  Kind,           \* word -> "create", "cat", "exit" or "other", as memcmp finds it
  SP, NL, NUL,
  Empty,          \* the empty name
  BufferSize,     \* of the keyboard's ring
  LineCells,      \* of line in shell_main
  Bytes,          \* word -> its length
  NameBytes,      \* 12, of name in cmd_create_file and cmd_cat
  Fresh,          \* what line may hold on a new stack
  BuffSize        \* 256, the bytes of a command's buffer, in units of Sizes

Word  == DOMAIN Kind
Cells == Word \cup {SP, NL, NUL}

\* A line is what comes between newlines; every word can be a file's name.
ASSUME ShellAssumption ==
  /\ Kind \in [Word -> {"create", "cat", "exit", "other"}]
  /\ Bytes \in [Word -> Nat \ {0}] /\ NameBytes \in Nat \ {0}
  /\ {SP, NL, NUL} \cap Word = {} /\ SP \notin {NL, NUL} /\ NL # NUL
  /\ Word \cup {Empty} \subseteq Names
  /\ Lines \subseteq Seq(Word \cup {SP})
  /\ Fresh \subseteq [1 .. LineCells -> Cells]
  /\ BufferSize \in Nat \ {0} /\ LineCells \in Nat /\ LineCells >= BufferSize
  /\ BuffSize \in Sizes /\ BuffSize <= SectorUnits

VARIABLES
  sh,             \* where the shell, or the command it waits for, is
  line, len,      \* shell_main's buffer, what read returned
  stream,         \* bytes of complete lines in the keyboard's ring
  arg,            \* the command in progress: its kind, name and text
  shown,          \* what cmd_cat prints
  told,           \* "No File Found" was printed
  typed,          \* history: lines entered, the one being executed first
  expected        \* history: 8.3 name -> what a command wrote to it last

fsvars    == <<disk, volatile, twice, synced>>
session   == <<line, len, stream, typed>>
command   == <<arg, shown, told>>
shellvars == <<fsvars, sh, session, command, expected>>

NoArg == [cmd |-> "none"]

Booted(fresh) ==
  /\ sh' = "prompt" /\ line' = fresh /\ len' = 0 /\ stream' = <<>> /\ typed' = <<>>
  /\ arg' = NoArg /\ shown' = <<>> /\ told' = FALSE

ShellInit ==
  /\ Init
  /\ sh = "prompt" /\ line \in Fresh /\ len = 0 /\ stream = <<>> /\ typed = <<>>
  /\ arg = NoArg /\ shown = <<>> /\ told = FALSE
  /\ expected = [d \in {} |-> NoName]

-----------------------------------------------------------------------------
(* The shell.                                                              *)

\* Where a system call leads; sys_exit halts, with interrupts disabled.  The
\* calls that print lead back to their caller.
syscall_dispatcher ==
  [SYS_EXIT |-> "halted", SYS_READ |-> "read", SYS_EXEC_CMD |-> "exec"]

\* A line is entered while interrupts are enabled: not during a command.
Enter(l) ==
  /\ sh \in {"prompt", "read"}
  /\ Len(stream) + Len(l) + 1 < BufferSize
  /\ stream' = stream \o l \o <<NL>>
  /\ typed' = Append(typed, l)
  /\ UNCHANGED <<fsvars, sh, line, len, command, expected>>

Prompt ==
  /\ sh = "prompt" /\ sh' = syscall_dispatcher.SYS_READ
  /\ UNCHANGED <<fsvars, session, command, expected>>

\* Up to a newline, at most count bytes.
Taken(count) == Min({count} \cup {j \in DOMAIN stream : stream[j] = NL})

\* Mutant of Read: the buffer is taken for half as large.
ReadsShort ==
  /\ sh = "read" /\ NL \in Range(stream)
  /\ sh' = "parse"
  /\ LET n == Taken(LineCells \div 2)
     IN /\ len' = n
        /\ line' = [j \in DOMAIN line |-> IF j <= n THEN stream[j] ELSE line[j]]
        /\ stream' = SubSeq(stream, n + 1, Len(stream))
  /\ UNCHANGED <<fsvars, typed, command, expected>>

\* read(0, line, sizeof(line) - 1) and keyboard_read behind it.
Read ==
  /\ sh = "read" /\ NL \in Range(stream)
  /\ sh' = "parse"
  /\ LET n == Taken(LineCells - 1)
     IN /\ len' = n
        /\ line' = [j \in DOMAIN line |-> IF j <= n THEN stream[j] ELSE line[j]]
        /\ stream' = SubSeq(stream, n + 1, Len(stream))
  /\ UNCHANGED <<fsvars, typed, command, expected>>

\* strcmp_user(p, "exit") == 0: no space behind the word either.
IsExit(buf, p) == Kind[buf[p]] = "exit" /\ buf[p + 1] = NUL

FirstWord(buf) == Min({j \in DOMAIN buf : buf[j] # SP})

\* The newline gives way to a terminator; blank lines are skipped.
Parse ==
  /\ sh = "parse"
  /\ LET last == [line EXCEPT ![len + 1] = NUL]
         buf  == IF last[len] = NL THEN [last EXCEPT ![len] = NUL] ELSE last
         p    == FirstWord(buf)
     IN /\ line' = buf
        /\ IF buf[p] = NUL
           THEN sh' = "prompt" /\ typed' = Tail(typed)
           ELSE /\ sh' = IF IsExit(buf, p) THEN syscall_dispatcher.SYS_EXIT
                         ELSE syscall_dispatcher.SYS_EXEC_CMD
                /\ UNCHANGED typed
  /\ UNCHANGED <<fsvars, len, stream, command, expected>>

-----------------------------------------------------------------------------
(* The commands.                                                           *)

\* The comparisons of process_cmd: each with as many bytes as the name has.
Command == Kind[line[FirstWord(line)]]

\* Where process_cmd leaves its pointer: behind the spaces after the word.
Arguments == Min({j \in DOMAIN line : j > FirstWord(line) /\ line[j] # SP})

\* The spaces that can end the name, the terminators that can end the text.
NameEnds  == {j \in DOMAIN line : j >= Arguments /\ line[j] = SP}
TextEnds  == {j \in DOMAIN line : j > Min(NameEnds) /\ line[j] = NUL}
Name      == IF line[Arguments] \in {SP, NUL} THEN Empty ELSE line[Arguments]
Text      == SubSeq(line, Min(NameEnds) + 1, Min(TextEnds) - 1)

Width(cell)   == IF cell \in Word THEN Bytes[cell] ELSE 1
Between(i, j) == MapThenSumSet(LAMBDA k : Width(line[k]), i .. j - 1)

\* The loop comes to a space, and what it copied leaves name a terminator.
NameFits == NameEnds # {} /\ Between(Arguments, Min(NameEnds)) < NameBytes

\* process_cmd with the copy loops of cmd_create_file.
ExecCreate ==
  /\ sh = "exec" /\ Command = "create"
  /\ IF NameFits /\ TextEnds # {}
     THEN /\ sh' = "create"
          /\ arg' = [cmd |-> "create", name |-> Name, text |-> Text]
     ELSE sh' = "lost" /\ UNCHANGED arg
  /\ UNCHANGED <<fsvars, session, shown, told, expected>>

\* process_cmd with the copy loop of cmd_cat.
ExecCat ==
  /\ sh = "exec" /\ Command = "cat"
  /\ IF NameFits
     THEN sh' = "open" /\ arg' = [cmd |-> "cat", name |-> Name]
     ELSE sh' = "lost" /\ UNCHANGED arg
  /\ UNCHANGED <<fsvars, session, shown, told, expected>>

\* help, clear, echo, ls and words that are no command print something.
ExecOther ==
  /\ sh = "exec" /\ Command \in {"other", "exit"}
  /\ sh' = "done"
  /\ UNCHANGED <<fsvars, session, command, expected>>

\* Mutant of Create: the command gives up when the file is there.
StopsAtExisting ==
  /\ sh = "create"
  /\ \/ CreateExisting(arg.name) /\ sh' = "done"
     \/ CreateNew(arg.name, BuffSize) /\ sh' = IF pc' = "idle" THEN "open" ELSE "creating"
     \/ (SlotsOf(Dos[arg.name]) = {} \/ pages = 0) /\ FreeSlot = {} /\ sh' = "open" /\ UNCHANGED fsvars
  /\ UNCHANGED <<session, command, expected>>

\* fat12_create(name, 256), whose result is ignored: the file exists, or is
\* new, or has no place in the directory.
Create ==
  /\ sh = "create"
  /\ \/ CreateExisting(arg.name) /\ sh' = "open"
     \/ CreateNew(arg.name, BuffSize) /\ sh' = IF pc' = "idle" THEN "open" ELSE "creating"
     \/ (SlotsOf(Dos[arg.name]) = {} \/ pages = 0) /\ FreeSlot = {} /\ sh' = "open" /\ UNCHANGED fsvars
  /\ UNCHANGED <<session, command, expected>>

\* Mutant of Creating: the command goes on after the first sector write.
CreatesInBackground ==
  /\ sh = "creating"
  /\ (SyncFat1 \/ SyncFat2 \/ WriteEntry)
  /\ sh' = "open"
  /\ UNCHANGED <<session, command, expected>>

\* The sector writes of fat12_create.
Creating ==
  /\ sh = "creating"
  /\ (SyncFat1 \/ SyncFat2 \/ WriteEntry)
  /\ sh' = IF pc' = "idle" THEN "open" ELSE "creating"
  /\ UNCHANGED <<session, command, expected>>

\* Mutant of Open: the handle of an earlier command is used again.
OpensOnce ==
  /\ sh = "open" /\ sh' = "transfer"
  /\ IF file = NoFile THEN fat12_open(arg.name) ELSE UNCHANGED fsvars
  /\ UNCHANGED <<session, command, expected>>

Open ==
  /\ sh = "open" /\ sh' = "transfer"
  /\ fat12_open(arg.name)
  /\ UNCHANGED <<session, command, expected>>

\* fat12_write and fat12_read: without a file the first prints an error, the
\* second returns nothing.
NoFileFound ==
  /\ sh = "transfer" /\ file = NoFile
  /\ told' = (arg.cmd = "create")
  /\ sh' = "done"
  /\ UNCHANGED <<fsvars, session, arg, shown, expected>>

Transfer ==
  /\ sh = "transfer" /\ sh' = "loop"
  /\ IF arg.cmd = "create" THEN fat12_write(arg.text, BuffSize) ELSE fat12_read(BuffSize)
  /\ UNCHANGED <<session, command, expected>>

\* The loops of fat12_write and fat12_read.
Loop ==
  /\ sh = "loop"
  /\ \/ /\ WriteCluster
        /\ expected' = [d \in DOMAIN expected \cup {op.dos} |->
                          IF d = op.dos THEN <<arg.text, 1>> ELSE expected[d]]
        /\ UNCHANGED <<sh, shown>>
     \/ ReadCluster /\ UNCHANGED <<sh, shown, expected>>
     \/ EndLoop /\ sh' = "done" /\ shown' = got /\ UNCHANGED expected
  /\ UNCHANGED <<session, arg, told>>

\* The system call returns to the shell.
Done ==
  /\ sh = "done" /\ sh' = "prompt"
  /\ typed' = Tail(typed)
  /\ arg' = NoArg /\ shown' = <<>> /\ told' = FALSE
  /\ UNCHANGED <<fsvars, line, len, stream, expected>>

\* Power fails and the machine boots into a new shell.
Reboot ==
  /\ sh # "lost"
  /\ Restart
  /\ \E fresh \in Fresh : Booted(fresh)
  /\ UNCHANGED expected

ShellNext ==
  \/ \E l \in Lines : Enter(l)
  \/ Prompt \/ Read \/ Parse \/ ExecCreate \/ ExecCat \/ ExecOther
  \/ Create \/ Creating \/ Open \/ NoFileFound \/ Transfer \/ Loop \/ Done
  \/ Reboot

ShellSpec == ShellInit /\ [][ShellNext]_shellvars

-----------------------------------------------------------------------------
\* The buffers keep their sizes, the shell's word of where it is agrees with
\* the file system's, and a command in progress was typed by someone.
ShellTypeOK ==
  /\ DOMAIN line = 1 .. LineCells /\ len \in 0 .. LineCells - 1
  /\ Len(stream) < BufferSize
  /\ sh \in {"parse", "exec", "create", "creating", "open", "transfer", "loop", "done"} => typed # <<>>
  /\ pc # "idle" => sh \in {"creating", "loop", "lost"}
  /\ DOMAIN expected \subseteq DosNames

\* The place of the next word of l behind position i, if there is one.
WordAfter(l, i) == {k \in i + 1 .. Len(l) : l[k] # SP /\ \A m \in i + 1 .. k - 1 : l[m] = SP}
NamePlace(l)    == UNION {WordAfter(l, i) : i \in WordAfter(l, 0)}

\* l is no create, or one with a name and a space behind it: without, the copy
\* loops go on in what an earlier line left in the buffer, and with them the
\* text (README.md:108 offers create with both only).
Complete(l) ==
  \A i \in WordAfter(l, 0) :
    Kind[l[i]] = "create" => \E k \in WordAfter(l, i) : k < Len(l) /\ l[k + 1] = SP

\* The command in progress is the one line l gives: its first word, its second
\* as the name, and all that follows the space behind that as the text.
Says(l) ==
  LET TextIs(text) == arg.cmd = "create" => arg.text = text
  IN /\ \E i \in WordAfter(l, 0) : arg.cmd = Kind[l[i]]
     /\ \/ NamePlace(l) = {} /\ arg.name = Empty /\ TextIs(<<>>)
        \/ \E k \in NamePlace(l) : arg.name = l[k] /\ TextIs(SubSeq(l, k + 2, Len(l)))

\* Each line is handed over once, in the order of typing, and if it is complete
\* executed as the words it is made of: nothing of an earlier, longer line that
\* is still in the buffer becomes part of it (shell.c:22-32, the loops of
\* syscall.c).
RunsWhatWasTyped ==
  /\ sh = "exec" =>
       SubSeq(line, 1, Min({j \in DOMAIN line : line[j] = NUL}) - 1) = Head(typed)
  /\ arg # NoArg /\ Complete(Head(typed)) => Says(Head(typed))

\* When cat could open its file it shows what the last create of that name
\* wrote, whatever commands and power failures came between.
CatShowsLastCreate ==
  sh = "done" /\ arg.cmd = "cat" /\ file # NoFile /\ Dos[arg.name] \in DOMAIN expected =>
    shown = <<expected[Dos[arg.name]]>>

\* When create comes to its end the file is on the disk with the text, or the
\* user was told that there is no such file: although fat12_create's result is
\* ignored, no failure of it goes unnoticed.
CreateStoresOrTells ==
  sh = "done" /\ arg.cmd = "create" =>
    \/ told
    \/ \E s \in SlotsOf(Dos[arg.name]) : data[root[s].first] = <<arg.text, 1>>

\* README.md:109 gives `cat test.txt` as the way to show a file: the command
\* finds the end of its name before it leaves line or name.
CommandsStayInTheirArrays == sh # "lost"
=============================================================================
