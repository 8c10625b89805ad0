------------------------------ MODULE Session ------------------------------
(***************************************************************************)
(* A gputool session: main runs the one command of its arguments, or run() *)
(* prompts for commands until exit.  A command is parsed into a UserInput  *)
(* and dispatched to the device.                                           *)
(*                                                                         *)
(* A line is the sequence of its tokens, split at each blank.  A token has *)
(* what stands before its first dot, what stands after it, and the number  *)
(* it is read as; it is empty between two blanks and past the end of the   *)
(* line.                                                                   *)
(***************************************************************************)
EXTENDS Naturals, SequencesExt

CONSTANTS
  Lines,      (* what may be typed on a line                               *)
  Modulus,    (* 2^32: mRegValue and the selectors are uint32_t            *)
  MaxLines    (* bound: lines on stdin                                     *)

VARIABLES
  argv,       (* the arguments, each a sequence of tokens; <<>>: prompt    *)
  typed,      (* history: the line of argv, or all lines of stdin          *)
  stdin,      (* those not read yet                                        *)
  pc,         (* start, prompt, dispatch, exited or terminated             *)
  input,      (* the UserInput                                             *)
  executed    (* history: UserInputs that reached the device               *)

vars == <<argv, typed, stdin, pc, input, executed>>

Name(text, field) == [text |-> text, field |-> field, num |-> 0]
Word(text)        == Name(text, "")
Num(n)            == [text |-> ToString(n), field |-> "", num |-> n]
Empty             == Word("")
Token             == [text : STRING, field : STRING, num : Nat]

(* Any lines, with the arguments of a command complete or not.             *)
ASSUME SessionAssumption ==
  /\ Modulus \in Nat \ {0}
  /\ MaxLines \in Nat
  /\ Lines \subseteq Seq(Token) \ {<<>>}

----------------------------------------------------------------------------
(***************************************************************************)
(* The parser.                                                             *)
(***************************************************************************)
DeviceCommands == {"read", "write", "srbm_read", "srbm_write",
                   "gca_info", "wave_priority", "wave_info", "hqd_info"}

TokenAt(line, i) == IF i <= Len(line) THEN line[i] ELSE Empty

(* The command is a word as it is, without a dot. *)
Verb(line) == IF TokenAt(line, 1).field = "" THEN TokenAt(line, 1).text ELSE ""

(* getInt: strtoul or atoi, cut to a uint32_t; what is no number is 0.     *)
Int32(token) == token.num % Modulus

Input(command, name, val, sel) ==
  [command |-> command, reg |-> name.text, field |-> name.field, val |-> val,
   sel |-> sel]

(* mMe, mPipe, mQueue and mVmid; other commands do not set or read them.   *)
NoSel == <<0, 0, 0, 0>>
Sel(line) == [i \in 1 .. 4 |-> Int32(TokenAt(line, i + 1))]

UserInput(line) ==
  LET first == Verb(line) IN
  CASE first = "read"       -> Input("read", TokenAt(line, 2), 0, NoSel)
    [] first = "write"      -> Input("write", TokenAt(line, 2), Int32(TokenAt(line, 3)), NoSel)
    [] first = "srbm_read"  -> Input("srbm_read", TokenAt(line, 6), 0, Sel(line))
    [] first = "srbm_write" -> Input("srbm_write", TokenAt(line, 6), Int32(TokenAt(line, 7)), Sel(line))
    [] first \in DeviceCommands \ {"read", "write", "srbm_read", "srbm_write"}
                            -> Input(first, Empty, 0, NoSel)
    [] first \in {"exit", "quit"} -> Input("exit", Empty, 0, NoSel)
    [] OTHER                -> Input("bad", Empty, 0, NoSel)

(* main joins its arguments with blanks, and UserInput adds one more: the  *)
(* last two tokens are empty.                                              *)
Joined(args) == FlattenSeq(args) \o <<Empty, Empty>>

----------------------------------------------------------------------------
RunSingle ==
  /\ pc = "start" /\ argv # <<>>
  /\ input' = UserInput(Joined(argv))
  /\ pc' = "dispatch"
  /\ UNCHANGED <<argv, typed, stdin, executed>>

Run ==
  /\ pc = "start" /\ argv = <<>>
  /\ pc' = "prompt"
  /\ UNCHANGED <<argv, typed, stdin, input, executed>>

GetNextInputKeeps ==        \* mutant: the string outlives the call
  /\ pc = "prompt"
  /\ input' = IF stdin = <<>> THEN input ELSE UserInput(Head(stdin))
  /\ stdin' = IF stdin = <<>> THEN <<>> ELSE Tail(stdin)
  /\ pc' = "dispatch"
  /\ UNCHANGED <<argv, typed, executed>>

(* getNextInput: at the end of stdin, getline leaves the new string empty. *)
GetNextInput ==
  /\ pc = "prompt"
  /\ input' = UserInput(IF stdin = <<>> THEN <<Empty>> ELSE Head(stdin))
  /\ stdin' = IF stdin = <<>> THEN <<>> ELSE Tail(stdin)
  /\ pc' = "dispatch"
  /\ UNCHANGED <<argv, typed, executed>>

DispatchLoops ==            \* mutant: only the word exit ends the loop
  /\ pc = "dispatch"
  /\ executed' = IF input.command \in DeviceCommands THEN Append(executed, input)
                 ELSE executed
  /\ pc' = IF input.command = "exit" THEN "exited" ELSE "prompt"
  /\ UNCHANGED <<argv, typed, stdin, input>>

Dispatch ==
  /\ pc = "dispatch"
  /\ executed' = IF input.command \in DeviceCommands THEN Append(executed, input)
                 ELSE executed
  /\ pc' = IF argv # <<>> \/ input.command = "exit" THEN "exited" ELSE "prompt"
  /\ UNCHANGED <<argv, typed, stdin, input>>

(* The device fails in a command; main catches the exception. *)
DispatchThrows ==
  /\ pc = "dispatch" /\ input.command \in DeviceCommands
  /\ executed' = Append(executed, input)
  /\ pc' = "terminated"
  /\ UNCHANGED <<argv, typed, stdin, input>>

----------------------------------------------------------------------------
(* A line as arguments: a word each, or quoted. *)
Args(line) == {[i \in DOMAIN line |-> <<line[i]>>], <<line>>}

Init ==
  /\ \/ /\ typed \in [{1} -> Lines]
        /\ argv \in Args(typed[1])
        /\ stdin = <<>>
     \/ /\ typed \in UNION {[1 .. n -> Lines] : n \in 0 .. MaxLines}
        /\ argv = <<>>
        /\ stdin = typed
  /\ pc = "start"
  /\ input = Input("bad", Empty, 0, NoSel)
  /\ executed = <<>>

Step == RunSingle \/ Run \/ GetNextInput \/ Dispatch
Next == Step \/ DispatchThrows

Spec     == Init /\ [][Next]_vars
FairSpec == Spec /\ WF_vars(Step)

----------------------------------------------------------------------------
(* The type of every variable. *)
TypeOK ==
  /\ pc \in {"start", "prompt", "dispatch", "exited", "terminated"}
  /\ argv # <<>> => pc # "prompt"
  /\ \E n \in 0 .. Len(typed) : stdin = SubSeq(typed, n + 1, Len(typed))
  /\ \A r \in {input} \cup {executed[i] : i \in DOMAIN executed} :
       /\ r.command \in DeviceCommands \cup {"exit", "bad"}
       /\ r.val \in 0 .. Modulus - 1
       /\ r.sel \in [1 .. 4 -> 0 .. Modulus - 1]

(* Where the README puts the name of the register and the value.  The      *)
(* selectors of an srbm command are its first four arguments.              *)
NameAt  == [read |-> 2, write |-> 2, srbm_read |-> 6, srbm_write |-> 6]
ValueAt == [write |-> 3, srbm_write |-> 7]

(* The line asks for r: the same command and, in their places, the same    *)
(* name and numbers, of which the lowest 32 bits count.                    *)
Asks(line, r) ==
  /\ r.command = Verb(line)
  /\ r.command \in DOMAIN NameAt =>
       LET name == TokenAt(line, NameAt[r.command]) IN
       r.reg = name.text /\ r.field = name.field
  /\ r.command \in DOMAIN ValueAt =>
       r.val = TokenAt(line, ValueAt[r.command]).num % Modulus
  /\ r.command \in {"srbm_read", "srbm_write"} =>
       \A i \in 1 .. 4 : r.sel[i] = TokenAt(line, i + 1).num % Modulus

(***************************************************************************)
(* The device is asked for exactly what the user typed: each line that is  *)
(* read is executed once, in order, with its arguments in their places     *)
(* (nothing and zero for those that are missing), and the end of stdin     *)
(* repeats none.  After k lines, line is the place in typed of every       *)
(* command that was executed.                                              *)
(***************************************************************************)
DeviceLines(k) == {n \in 1 .. k : Verb(typed[n]) \in DeviceCommands}

Executed(k) ==
  \E line \in [DOMAIN executed -> DeviceLines(k)] :
    /\ \A i, j \in DOMAIN executed : i < j => line[i] < line[j]
    /\ \A n \in DeviceLines(k) : \E i \in DOMAIN executed : line[i] = n
    /\ \A i \in DOMAIN executed : Asks(typed[line[i]], executed[i])

LinesRead == Len(typed) - Len(stdin)

AsTyped == pc \in {"prompt", "exited", "terminated"} => Executed(LinesRead)

(* A session given as arguments, or in which the user types exit, ends. *)
SessionEnds ==
  argv # <<>> \/ (\E i \in DOMAIN typed : Verb(typed[i]) \in {"exit", "quit"})
    ~> pc \in {"exited", "terminated"}
=============================================================================
