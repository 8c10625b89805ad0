--------------------------- MODULE SessionProofs ---------------------------
(***************************************************************************)
(* Theorems about Session, for any lines, number width and number of       *)
(* lines.                                                                  *)
(***************************************************************************)
EXTENDS Session, SequenceTheorems, WellFoundedInduction, TLAPS

----------------------------------------------------------------------------
(***************************************************************************)
(* Lines.                                                                  *)
(***************************************************************************)

(* The two empty tokens main adds are those the parser finds anyway.       *)
LEMMA PaddingUnseen ==
  ASSUME NEW S, NEW line \in Seq(S), NEW i \in Nat \ {0}
  PROVE  TokenAt(line \o <<Empty, Empty>>, i) = TokenAt(line, i)
<1> DEFINE padded == line \o <<Empty, Empty>>
<1>1. line \in Seq(S \cup {Empty})
  OBVIOUS
<1>2. /\ Len(line) \in Nat
      /\ Len(padded) = Len(line) + 2
      /\ \A j \in 1 .. Len(padded) :
           padded[j] = IF j <= Len(line) THEN line[j] ELSE <<Empty, Empty>>[j - Len(line)]
  <2>1. <<Empty, Empty>> \in Seq(S \cup {Empty}) /\ Len(<<Empty, Empty>>) = 2
    OBVIOUS
  <2>2. QED
    BY <1>1, <2>1, ConcatProperties
<1> HIDE DEF padded
<1>3. CASE i <= Len(line)
  BY <1>2, <1>3 DEF TokenAt
<1>4. CASE i = Len(line) + 1
  BY <1>2, <1>4 DEF TokenAt
<1>5. CASE i = Len(line) + 2
  BY <1>2, <1>5 DEF TokenAt
<1>6. CASE i > Len(line) + 2
  BY <1>2, <1>6 DEF TokenAt
<1>7. QED
  BY <1>2, <1>3, <1>4, <1>5, <1>6 DEF padded

(* So they do not change how a line is read.                               *)
LEMMA PaddingParsed ==
  ASSUME NEW S, NEW line \in Seq(S)
  PROVE  /\ Verb(line \o <<Empty, Empty>>) = Verb(line)
         /\ UserInput(line \o <<Empty, Empty>>) = UserInput(line)
<1> DEFINE padded == line \o <<Empty, Empty>>
<1>1. \A i \in Nat \ {0} : TokenAt(padded, i) = TokenAt(line, i)
  BY PaddingUnseen
<1> HIDE DEF padded
<1>2. Verb(padded) = Verb(line)
  <2>1. TokenAt(padded, 1) = TokenAt(line, 1)
    BY <1>1
  <2>2. QED
    BY <2>1 DEF Verb
<1>3. Sel(padded) = Sel(line)
  <2>1. \A i \in 1 .. 4 : Int32(TokenAt(padded, i + 1)) = Int32(TokenAt(line, i + 1))
    BY <1>1
  <2>2. QED
    BY <2>1 DEF Sel
<1>4. UserInput(padded) = UserInput(line)
  <2>1. /\ TokenAt(padded, 2) = TokenAt(line, 2) /\ TokenAt(padded, 3) = TokenAt(line, 3)
        /\ TokenAt(padded, 6) = TokenAt(line, 6) /\ TokenAt(padded, 7) = TokenAt(line, 7)
    BY <1>1
  <2>2. QED
    BY <1>2, <1>3, <2>1 DEF UserInput
<1>5. QED
  BY <1>2, <1>4 DEF padded

----------------------------------------------------------------------------
(***************************************************************************)
(* main's loop over its arguments.                                         *)
(***************************************************************************)

(* Every set of natural numbers that is not empty has a least element.     *)
LEMMA LeastNat ==
  ASSUME NEW T, T \subseteq Nat, T # {}
  PROVE  \E n \in T : \A m \in T : n <= m
<1> DEFINE R == OpToRel(<, Nat)
<1>1. IsWellFoundedOn(R, Nat)
  BY NatLessThanWellFounded
<1>2. PICK n \in T : \A m \in T : <<m, n>> \notin R
  <2> HIDE DEF R
  <2>1. QED
    BY <1>1, WFMin
<1>3. \A m \in T : ~(m < n)
  BY <1>2 DEF OpToRel
<1>4. QED
  BY <1>3

(* What the loop has joined after each of its pieces.                      *)
Joins(seqs, f) ==
  f = [i \in 1 .. Len(seqs) |-> IF i = 1 THEN seqs[i] ELSE f[i - 1] \o seqs[i]]

(* The recursion has one solution.                                         *)
LEMMA JoinsOnce ==
  ASSUME NEW seqs, NEW n \in Nat \ {0}, Len(seqs) = n,
         NEW f, Joins(seqs, f), NEW g, Joins(seqs, g)
  PROVE  f[n] = g[n]
<1> DEFINE T == {i \in 1 .. n : f[i] # g[i]}
<1>1. \A i \in 1 .. n : f[i] = IF i = 1 THEN seqs[i] ELSE f[i - 1] \o seqs[i]
  BY DEF Joins
<1>2. \A i \in 1 .. n : g[i] = IF i = 1 THEN seqs[i] ELSE g[i - 1] \o seqs[i]
  BY DEF Joins
<1>3. SUFFICES ASSUME f[n] # g[n] PROVE FALSE
  OBVIOUS
<1>4. PICK i \in T : \A j \in T : i <= j
  <2>1. T \subseteq Nat /\ n \in T
    BY <1>3
  <2> HIDE DEF T
  <2>2. QED
    BY <2>1, LeastNat
<1>5. i \in 1 .. n /\ f[i] # g[i]
  BY <1>4
<1>6. CASE i = 1
  BY <1>1, <1>2, <1>5, <1>6
<1>7. CASE i # 1
  <2>1. i - 1 \in 1 .. n /\ i - 1 \notin T
    BY <1>4, <1>5, <1>7
  <2>2. f[i - 1] = g[i - 1]
    BY <2>1
  <2>3. f[i] = f[i - 1] \o seqs[i]
    BY <1>1, <1>5, <1>7
  <2>4. g[i] = g[i - 1] \o seqs[i]
    BY <1>2, <1>5, <1>7
  <2>5. QED
    BY <1>5, <2>2, <2>3, <2>4
<1>8. QED
  BY <1>6, <1>7

LEMMA Flattened ==
  ASSUME NEW seqs, NEW n \in Nat \ {0}, Len(seqs) = n, NEW prefix, Joins(seqs, prefix)
  PROVE  FlattenSeq(seqs) = prefix[n]
<1>1. PICK f : Joins(seqs, f) /\ FlattenSeq(seqs) = f[n]
  <2> DEFINE f == CHOOSE g : Joins(seqs, g)
  <2>1. FlattenSeq(seqs) = f[n]
    BY DEF FlattenSeq, Joins
  <2>2. Joins(seqs, f)
    OBVIOUS
  <2> HIDE DEF f
  <2>3. QED
    BY <2>1, <2>2
<1>2. QED
  BY <1>1, JoinsOnce

(* The words of a line, each an argument, are joined to that line.         *)
LEMMA WordsJoined ==
  ASSUME NEW S, NEW line \in Seq(S), line # <<>>
  PROVE  FlattenSeq([i \in DOMAIN line |-> <<line[i]>>]) = line
<1> DEFINE n == Len(line)
           words == [i \in DOMAIN line |-> <<line[i]>>]
           prefix == [i \in 1 .. n |-> SubSeq(line, 1, i)]
<1>1. n \in Nat \ {0} /\ DOMAIN line = 1 .. n
  BY LenProperties, EmptySeq
<1>2. Len(words) = n
  BY <1>1
<1>3. \A i \in 1 .. n : words[i] = <<line[i]>> /\ prefix[i] = SubSeq(line, 1, i)
  BY <1>1
<1> HIDE DEF words
<1>4. \A i \in 1 .. n :
        SubSeq(line, 1, i) = IF i = 1 THEN words[i] ELSE SubSeq(line, 1, i - 1) \o words[i]
  <2>1. SUFFICES ASSUME NEW i \in 1 .. n
                 PROVE  SubSeq(line, 1, i) =
                          IF i = 1 THEN words[i] ELSE SubSeq(line, 1, i - 1) \o words[i]
    OBVIOUS
  <2>2. SubSeq(line, 1, i) = SubSeq(line, 1, i - 1) \o <<line[i]>>
    <3>1. 1 \in 1 .. Len(line) /\ i \in 1 .. Len(line)
      BY <1>1
    <3>2. QED
      BY <3>1, SubSeqRecursiveSecond
  <2>3. CASE i = 1
    <3>1. SubSeq(line, 1, 0) = <<>>
      BY SubSeqEmpty
    <3>2. \A e : <<>> \o <<e>> = <<e>>
      OBVIOUS
    <3>3. QED
      BY <1>3, <2>2, <2>3, <3>1, <3>2
  <2>4. QED
    BY <1>3, <2>2, <2>3
<1>5. Joins(words, prefix)
  <2>1. \A i \in 1 .. n :
          prefix[i] = IF i = 1 THEN words[i] ELSE prefix[i - 1] \o words[i]
    <3>1. SUFFICES ASSUME NEW i \in 1 .. n
                   PROVE  prefix[i] = IF i = 1 THEN words[i] ELSE prefix[i - 1] \o words[i]
      OBVIOUS
    <3>2. CASE i = 1
      BY <1>1, <1>3, <1>4, <3>2
    <3>3. CASE i # 1
      <4>1. i - 1 \in 1 .. n
        BY <1>1, <3>3
      <4>2. prefix[i - 1] = SubSeq(line, 1, i - 1) /\ prefix[i] = SubSeq(line, 1, i)
        BY <1>3, <4>1
      <4>3. QED
        BY <1>4, <3>3, <4>2
    <3>4. QED
      BY <3>2, <3>3
  <2>2. QED
    BY <1>2, <2>1 DEF Joins
<1>6. prefix[n] = line
  BY <1>1, <1>3, SubSeqFull
<1> HIDE DEF prefix, n
<1>7. FlattenSeq(words) = prefix[n]
  BY <1>1, <1>2, <1>5, Flattened
<1>8. QED
  BY <1>6, <1>7 DEF words

(* Arguments that are the words of a line, or all of it in quotes, are     *)
(* joined to that line.                                                    *)
LEMMA ArgsJoined ==
  ASSUME NEW S, NEW line \in Seq(S), line # <<>>, NEW args \in Args(line)
  PROVE  FlattenSeq(args) = line
<1>1. CASE args = <<line>>
  <2> DEFINE prefix == [i \in 1 .. 1 |-> line]
  <2>1. Len(<<line>>) = 1 /\ prefix[1] = line /\ 1 \in Nat \ {0}
    OBVIOUS
  <2>2. Joins(<<line>>, prefix)
    BY DEF Joins
  <2> HIDE DEF prefix
  <2>3. FlattenSeq(<<line>>) = prefix[1]
    BY <2>1, <2>2, Flattened
  <2>4. QED
    BY <1>1, <2>1, <2>3
<1>2. CASE args = [i \in DOMAIN line |-> <<line[i]>>]
  BY <1>2, WordsJoined
<1>3. QED
  BY <1>1, <1>2 DEF Args

----------------------------------------------------------------------------
(***************************************************************************)
(* The parser.                                                             *)
(***************************************************************************)

(* What Input makes of its arguments.                                      *)
LEMMA InputParts ==
  ASSUME NEW command, NEW name, NEW val, NEW sel
  PROVE  /\ Input(command, name, val, sel).command = command
         /\ Input(command, name, val, sel).reg = name.text
         /\ Input(command, name, val, sel).field = name.field
         /\ Input(command, name, val, sel).val = val
         /\ Input(command, name, val, sel).sel = sel
BY DEF Input

(* A line that begins with a command of the device is read as that command *)
(* with the arguments in their places, however many there are.             *)
LEMMA CommandParsed ==
  ASSUME NEW line, Verb(line) \in DeviceCommands
  PROVE  Asks(line, UserInput(line))
<1> DEFINE u == UserInput(line)
<1>1. \A i \in 1 .. 4 : Sel(line)[i] = TokenAt(line, i + 1).num % Modulus
  BY DEF Sel, Int32
<1>2. /\ DOMAIN NameAt = {"read", "write", "srbm_read", "srbm_write"}
      /\ DOMAIN ValueAt = {"write", "srbm_write"}
      /\ NameAt["read"] = 2 /\ NameAt["write"] = 2
      /\ NameAt["srbm_read"] = 6 /\ NameAt["srbm_write"] = 6
      /\ ValueAt["write"] = 3 /\ ValueAt["srbm_write"] = 7
  BY DEF NameAt, ValueAt
<1>3. CASE Verb(line) = "read"
  <2>1. u = Input("read", TokenAt(line, 2), 0, NoSel)
    BY <1>3 DEF UserInput
  <2>2. u.command = "read" /\ u.reg = TokenAt(line, 2).text /\ u.field = TokenAt(line, 2).field
    BY <2>1, InputParts
  <2> HIDE DEF u
  <2>3. QED
    BY <1>2, <1>3, <2>2 DEF Asks, u
<1>4. CASE Verb(line) = "write"
  <2>1. u = Input("write", TokenAt(line, 2), Int32(TokenAt(line, 3)), NoSel)
    BY <1>4 DEF UserInput
  <2>2. /\ u.command = "write" /\ u.reg = TokenAt(line, 2).text
        /\ u.field = TokenAt(line, 2).field /\ u.val = TokenAt(line, 3).num % Modulus
    BY <2>1, InputParts DEF Int32
  <2> HIDE DEF u
  <2>3. QED
    BY <1>2, <1>4, <2>2 DEF Asks, u
<1>5. CASE Verb(line) = "srbm_read"
  <2>1. u = Input("srbm_read", TokenAt(line, 6), 0, Sel(line))
    BY <1>5 DEF UserInput
  <2>2. /\ u.command = "srbm_read" /\ u.reg = TokenAt(line, 6).text
        /\ u.field = TokenAt(line, 6).field /\ u.sel = Sel(line)
    BY <2>1, InputParts
  <2> HIDE DEF u
  <2>3. QED
    BY <1>1, <1>2, <1>5, <2>2 DEF Asks, u
<1>6. CASE Verb(line) = "srbm_write"
  <2>1. u = Input("srbm_write", TokenAt(line, 6), Int32(TokenAt(line, 7)), Sel(line))
    BY <1>6 DEF UserInput
  <2>2. /\ u.command = "srbm_write" /\ u.reg = TokenAt(line, 6).text
        /\ u.field = TokenAt(line, 6).field /\ u.val = TokenAt(line, 7).num % Modulus
        /\ u.sel = Sel(line)
    BY <2>1, InputParts DEF Int32
  <2> HIDE DEF u
  <2>3. QED
    BY <1>1, <1>2, <1>6, <2>2 DEF Asks, u
<1>7. CASE Verb(line) \notin {"read", "write", "srbm_read", "srbm_write"}
  <2>1. u = Input(Verb(line), Empty, 0, NoSel)
    BY <1>7 DEF UserInput, DeviceCommands
  <2>2. u.command = Verb(line)
    BY <2>1, InputParts
  <2> HIDE DEF u
  <2>3. QED
    BY <1>2, <1>7, <2>2 DEF Asks, u
<1>8. QED
  BY <1>3, <1>4, <1>5, <1>6, <1>7

(* What begins with no command of the device is read as none.              *)
LEMMA OtherParsed ==
  ASSUME NEW line, Verb(line) \notin DeviceCommands
  PROVE  UserInput(line).command \in {"exit", "bad"}
BY DEF UserInput, Input, DeviceCommands

----------------------------------------------------------------------------
(***************************************************************************)
(* What is typed and what is read from it.                                 *)
(***************************************************************************)

(* The tokens of a line have numbers that can be cut to a uint32_t.        *)
LEMMA LineTokens ==
  ASSUME NEW line \in Lines
  PROVE  /\ line # <<>> /\ line \in Seq(Token)
         /\ \A token \in Token : token.num \in Nat
BY SessionAssumption DEF Token

(* All the parser can return.                                              *)
Inputs == {UserInput(line) : line \in Lines \cup {<<Empty>>}}

(* The first input, and the one at the end of stdin.                       *)
LEMMA EmptyLine ==
  /\ UserInput(<<Empty>>) = Input("bad", Empty, 0, NoSel)
  /\ UserInput(<<Empty>>).command \notin DeviceCommands
<1>1. Verb(<<Empty>>) = ""
  BY DEF Verb, TokenAt, Empty, Word, Name
<1>2. UserInput(<<Empty>>) = Input("bad", Empty, 0, NoSel)
  BY <1>1 DEF UserInput, DeviceCommands
<1>3. Input("bad", Empty, 0, NoSel).command = "bad"
  BY DEF Input
<1>4. QED
  BY <1>2, <1>3 DEF DeviceCommands

InputOK(r) ==
  /\ r.command \in DeviceCommands \cup {"exit", "bad"}
  /\ r.val \in 0 .. Modulus - 1
  /\ r.sel \in [1 .. 4 -> 0 .. Modulus - 1]

LEMMA InputsTyped ==
  ASSUME NEW r \in Inputs
  PROVE  InputOK(r)
<1>1. NoSel \in [1 .. 4 -> 0 .. Modulus - 1] /\ 0 \in 0 .. Modulus - 1
  <2>1. 0 \in 0 .. Modulus - 1
    BY SessionAssumption
  <2>2. NoSel = [i \in 1 .. 4 |-> 0]
    BY DEF NoSel
  <2>3. QED
    BY <2>1, <2>2
<1>2. \A command, name, val, sel :
        /\ Input(command, name, val, sel).command = command
        /\ Input(command, name, val, sel).val = val
        /\ Input(command, name, val, sel).sel = sel
  BY DEF Input
<1>3. CASE r = UserInput(<<Empty>>)
  BY <1>1, <1>2, <1>3, EmptyLine DEF InputOK
<1>4. ASSUME NEW line \in Lines, r = UserInput(line) PROVE InputOK(r)
  <2>1. \A i \in Nat \ {0} : Int32(TokenAt(line, i)) \in 0 .. Modulus - 1
    <3>1. line \in Seq(Token) /\ \A token \in Token : token.num \in Nat
      BY LineTokens
    <3>2. SUFFICES ASSUME NEW i \in Nat \ {0} PROVE TokenAt(line, i).num \in Nat
      BY SessionAssumption DEF Int32
    <3>3. CASE i <= Len(line)
      <4>1. line[i] \in Token
        BY <3>1, <3>3, ElementOfSeq, LenProperties
      <4>2. QED
        BY <3>1, <3>3, <4>1 DEF TokenAt
    <3>4. CASE ~(i <= Len(line))
      BY <3>4 DEF TokenAt, Empty, Word, Name
    <3>5. QED
      BY <3>3, <3>4
  <2>2. Sel(line) \in [1 .. 4 -> 0 .. Modulus - 1]
    BY <2>1 DEF Sel
  <2>3. Int32(TokenAt(line, 3)) \in 0 .. Modulus - 1 /\ Int32(TokenAt(line, 7)) \in 0 .. Modulus - 1
    BY <2>1
  <2>4. /\ r.command \in DeviceCommands \cup {"exit", "bad"}
        /\ r.val \in {0, Int32(TokenAt(line, 3)), Int32(TokenAt(line, 7))}
        /\ r.sel \in {NoSel, Sel(line)}
    BY <1>2, <1>4 DEF UserInput, DeviceCommands
  <2>5. QED
    BY <1>1, <2>2, <2>3, <2>4 DEF InputOK
<1>5. QED
  BY <1>3, <1>4 DEF Inputs

(* A line of a device command is read as that command with its arguments,  *)
(* and any other line as no command of the device.                         *)
Reads(u, line) ==
  IF Verb(line) \in DeviceCommands THEN u.command \in DeviceCommands /\ Asks(line, u)
  ELSE u.command \notin DeviceCommands

LEMMA LineRead ==
  ASSUME NEW line \in Lines
  PROVE  Reads(UserInput(line), line)
<1>1. CASE Verb(line) \in DeviceCommands
  BY <1>1, CommandParsed DEF Reads, Asks
<1>2. CASE Verb(line) \notin DeviceCommands
  BY <1>2, OtherParsed DEF Reads, DeviceCommands
<1>3. QED
  BY <1>1, <1>2

(* As the arguments of main, it is read as on stdin.                       *)
LEMMA ArgsRead ==
  ASSUME NEW line \in Lines, NEW args \in Args(line)
  PROVE  UserInput(Joined(args)) = UserInput(line)
<1>1. line \in Seq(Token)
  BY LineTokens
<1>2. FlattenSeq(args) = line
  BY <1>1, LineTokens, ArgsJoined
<1>3. Joined(args) = line \o <<Empty, Empty>>
  BY <1>2 DEF Joined
<1>4. QED
  BY <1>1, <1>3, PaddingParsed

----------------------------------------------------------------------------
(***************************************************************************)
(* The inductive invariant.  n lines have been read.  In a dispatch, the   *)
(* last of them is in input and not yet executed; or input is the empty    *)
(* line that the end of stdin gives.                                       *)
(***************************************************************************)
Types ==
  /\ pc \in {"start", "prompt", "dispatch", "exited", "terminated"}
  /\ typed \in Seq(Lines)
  /\ input \in Inputs
  /\ executed \in Seq(Inputs)

Single ==
  argv # <<>> => /\ pc # "prompt"
                 /\ Len(typed) = 1 /\ stdin = <<>>
                 /\ argv \in Args(typed[1])

Reading(n) ==
  /\ stdin = SubSeq(typed, n + 1, Len(typed))
  /\ pc = "start" => executed = <<>> /\ (argv = <<>> => n = 0)
  /\ pc \in {"prompt", "exited", "terminated"} => Executed(n)
  /\ pc = "dispatch" =>
       \/ n >= 1 /\ Executed(n - 1) /\ Reads(input, typed[n])
       \/ Executed(n) /\ input.command \notin DeviceCommands

Inv == Types /\ Single /\ \E n \in 0 .. Len(typed) : Reading(n)

LEMMA ExecutedKept ==
  ASSUME NEW n, Executed(n), UNCHANGED <<typed, executed>>
  PROVE  Executed(n)'
BY DEF Executed, DeviceLines

(* Nothing is executed before the first line.                              *)
LEMMA NoneExecuted ==
  ASSUME executed = <<>>
  PROVE  Executed(0)
<1>1. DOMAIN executed = {}
  OBVIOUS
<1>2. DeviceLines(0) = {}
  BY DEF DeviceLines
<1> DEFINE line == [i \in {} |-> 0]
<1>3. line \in [DOMAIN executed -> DeviceLines(0)]
  BY <1>1
<1> HIDE DEF line
<1>4. QED
  BY <1>1, <1>2, <1>3 DEF Executed

(* A command appended for the line that was read is in its place.          *)
LEMMA ExecutedMore ==
  ASSUME NEW n \in Nat \ {0}, executed \in Seq(Inputs), input \in Inputs,
         Executed(n - 1), Reads(input, typed[n]),
         input.command \in DeviceCommands,
         executed' = Append(executed, input), UNCHANGED typed
  PROVE  Executed(n)'
<1> DEFINE L == Len(executed)
<1>1. PICK line \in [DOMAIN executed -> DeviceLines(n - 1)] :
        /\ \A i, j \in DOMAIN executed : i < j => line[i] < line[j]
        /\ \A m \in DeviceLines(n - 1) : \E i \in DOMAIN executed : line[i] = m
        /\ \A i \in DOMAIN executed : Asks(typed[line[i]], executed[i])
  BY DEF Executed
<1>2. /\ L \in Nat /\ DOMAIN executed = 1 .. L /\ DOMAIN executed' = 1 .. L + 1
      /\ executed'[L + 1] = input
      /\ \A i \in 1 .. L : executed'[i] = executed[i]
  BY AppendProperties, LenProperties
<1>3. Verb(typed[n]) \in DeviceCommands /\ Asks(typed[n], input)
  BY DEF Reads
<1>4. DeviceLines(n)' = DeviceLines(n - 1) \cup {n} /\ \A m \in DeviceLines(n - 1) : m < n
  BY <1>3 DEF DeviceLines
<1> HIDE DEF L
<1> DEFINE more == [i \in 1 .. L + 1 |-> IF i = L + 1 THEN n ELSE line[i]]
<1>5. more \in [1 .. L + 1 -> DeviceLines(n)']
  BY <1>1, <1>2, <1>4
<1>6. /\ more[L + 1] = n
      /\ \A i \in 1 .. L : more[i] = line[i] /\ line[i] \in DeviceLines(n - 1)
  BY <1>1, <1>2
<1> HIDE DEF more
<1>7. \A i, j \in 1 .. L + 1 : i < j => more[i] < more[j]
  <2>1. SUFFICES ASSUME NEW i \in 1 .. L + 1, NEW j \in 1 .. L + 1, i < j
                 PROVE  more[i] < more[j]
    OBVIOUS
  <2>2. i \in 1 .. L
    BY <1>2, <2>1
  <2>3. CASE j = L + 1
    BY <1>4, <1>6, <2>2, <2>3
  <2>4. CASE j # L + 1
    <3>1. j \in 1 .. L
      BY <1>2, <2>4
    <3>2. QED
      BY <1>1, <1>2, <1>6, <2>1, <2>2, <3>1
  <2>5. QED
    BY <2>3, <2>4
<1>8. \A m \in DeviceLines(n)' : \E i \in 1 .. L + 1 : more[i] = m
  <2>1. SUFFICES ASSUME NEW m \in DeviceLines(n)' PROVE \E i \in 1 .. L + 1 : more[i] = m
    OBVIOUS
  <2>2. CASE m = n
    BY <1>2, <1>6, <2>2
  <2>3. CASE m \in DeviceLines(n - 1)
    <3>1. PICK i \in 1 .. L : line[i] = m
      BY <1>1, <1>2, <2>3
    <3>2. i \in 1 .. L + 1
      BY <1>2
    <3>3. QED
      BY <1>6, <3>1, <3>2
  <2>4. QED
    BY <1>4, <2>2, <2>3
<1>9. \A i \in 1 .. L + 1 : Asks(typed[more[i]], executed'[i])
  <2>1. SUFFICES ASSUME NEW i \in 1 .. L + 1 PROVE Asks(typed[more[i]], executed'[i])
    OBVIOUS
  <2>2. CASE i = L + 1
    BY <1>2, <1>3, <1>6, <2>2
  <2>3. CASE i # L + 1
    <3>1. i \in 1 .. L
      BY <1>2, <2>3
    <3>2. QED
      BY <1>1, <1>2, <1>6, <3>1
  <2>4. QED
    BY <2>2, <2>3
<1>10. \E places \in [DOMAIN executed' -> DeviceLines(n)'] :
         /\ \A i, j \in DOMAIN executed' : i < j => places[i] < places[j]
         /\ \A m \in DeviceLines(n)' : \E i \in DOMAIN executed' : places[i] = m
         /\ \A i \in DOMAIN executed' : Asks(typed'[places[i]], executed'[i])
  <2>1. \A i \in DOMAIN executed' : Asks(typed'[more[i]], executed'[i])
    BY <1>2, <1>9
  <2>2. /\ more \in [DOMAIN executed' -> DeviceLines(n)']
        /\ \A i, j \in DOMAIN executed' : i < j => more[i] < more[j]
        /\ \A m \in DeviceLines(n)' : \E i \in DOMAIN executed' : more[i] = m
    BY <1>2, <1>5, <1>7, <1>8
  <2>3. QED
    BY <2>1, <2>2
<1>11. QED
  BY <1>10 DEF Executed

(* A line that is no command of the device leaves what is executed.        *)
LEMMA ExecutedNoMore ==
  ASSUME NEW n \in Nat \ {0}, Executed(n - 1), Reads(input, typed[n]),
         input.command \notin DeviceCommands, UNCHANGED <<typed, executed>>
  PROVE  Executed(n)'
<1>1. Verb(typed[n]) \notin DeviceCommands
  BY DEF Reads
<1>2. DeviceLines(n) = DeviceLines(n - 1)
  BY <1>1 DEF DeviceLines
<1>3. Executed(n)
  BY <1>2 DEF Executed
<1>4. QED
  BY <1>3, ExecutedKept

(* How many lines are read.                                                *)
LEMMA ReadSoFar ==
  ASSUME typed \in Seq(Lines), NEW n \in 0 .. Len(typed),
         stdin = SubSeq(typed, n + 1, Len(typed))
  PROVE  Len(stdin) = Len(typed) - n /\ LinesRead = n
<1>1. Len(typed) \in Nat /\ \A i \in 1 .. Len(typed) : typed[i] \in Lines
  BY LenProperties, ElementOfSeq
<1>2. \A i \in n + 1 .. Len(typed) : typed[i] \in Lines
  BY <1>1
<1>3. Len(stdin) = IF n + 1 <= Len(typed) THEN Len(typed) - (n + 1) + 1 ELSE 0
  BY <1>1, <1>2, SubSeqProperties
<1>4. QED
  BY <1>1, <1>3 DEF LinesRead

LEMMA FunctionIsSeq ==
  ASSUME NEW S, NEW n \in Nat, NEW f \in [1 .. n -> S]
  PROVE  f \in Seq(S) /\ Len(f) = n
OBVIOUS

LEMMA InitInv == Init => Inv
<1>1. SUFFICES ASSUME Init PROVE Inv
  OBVIOUS
<1>2. /\ executed = <<>> /\ executed \in Seq(Inputs)
      /\ input \in Inputs /\ pc = "start"
  <2>1. UserInput(<<Empty>>) \in Inputs
    BY DEF Inputs
  <2>2. executed = <<>> /\ pc = "start" /\ input = Input("bad", Empty, 0, NoSel)
    BY <1>1 DEF Init
  <2>3. QED
    BY <2>1, <2>2, EmptyLine
<1>3. CASE typed \in [{1} -> Lines] /\ argv \in Args(typed[1]) /\ stdin = <<>>
  <2>1. {1} = 1 .. 1
    OBVIOUS
  <2>2. typed \in Seq(Lines) /\ Len(typed) = 1
    <3>1. typed \in [1 .. 1 -> Lines]
      BY <1>3, <2>1
    <3>2. 1 \in Nat
      OBVIOUS
    <3>3. QED
      BY <3>1, <3>2, FunctionIsSeq
  <2>3. SubSeq(typed, 2, 1) = <<>>
    BY SubSeqEmpty
  <2>4. argv # <<>>
    <3>1. typed[1] \in Lines
      BY <1>3
    <3>2. typed[1] \in Seq(Token) /\ typed[1] # <<>>
      BY <3>1, LineTokens
    <3>3. DOMAIN typed[1] # {}
      <4>1. Len(typed[1]) \in Nat \ {0} /\ DOMAIN typed[1] = 1 .. Len(typed[1])
        BY <3>2, EmptySeq, LenProperties
      <4>2. 1 \in 1 .. Len(typed[1])
        BY <4>1
      <4>3. QED
        BY <4>1, <4>2
    <3>4. QED
      BY <1>3, <3>3 DEF Args
  <2>5. Reading(1)
    BY <1>2, <1>3, <2>2, <2>3, <2>4 DEF Reading
  <2>6. QED
    BY <1>2, <1>3, <2>2, <2>5 DEF Inv, Types, Single
<1>4. CASE typed \in UNION {[1 .. n -> Lines] : n \in 0 .. MaxLines} /\ argv = <<>> /\ stdin = typed
  <2>1. PICK n \in 0 .. MaxLines : typed \in [1 .. n -> Lines]
    BY <1>4
  <2>2. typed \in Seq(Lines) /\ Len(typed) \in Nat
    BY <2>1, SessionAssumption
  <2>3. SubSeq(typed, 0 + 1, Len(typed)) = typed
    BY <2>2, SubSeqFull
  <2>4. Reading(0)
    BY <1>2, <1>4, <2>3 DEF Reading
  <2>5. QED
    BY <1>2, <1>4, <2>2, <2>4 DEF Inv, Types, Single
<1>5. QED
  BY <1>1, <1>3, <1>4 DEF Init

LEMMA RunSingleInv == Inv /\ RunSingle => Inv'
<1>1. SUFFICES ASSUME Inv, RunSingle PROVE Inv'
  OBVIOUS
<1>2. PICK n \in 0 .. Len(typed) : Reading(n)
  BY <1>1 DEF Inv
<1>3. /\ typed \in Seq(Lines) /\ Len(typed) = 1 /\ stdin = <<>> /\ argv \in Args(typed[1])
      /\ executed = <<>>
  BY <1>1, <1>2 DEF Inv, Types, Single, Reading, RunSingle
<1>4. n = 1
  <2>1. Len(stdin) = Len(typed) - n
    BY <1>2, <1>3, ReadSoFar DEF Reading
  <2>2. QED
    BY <1>3, <2>1
<1>5. typed[1] \in Lines
  BY <1>3, ElementOfSeq
<1>6. input' = UserInput(typed[1])
  BY <1>1, <1>3, <1>5, ArgsRead DEF RunSingle
<1>7. Reads(input, typed[1])'
  <2>1. Reads(UserInput(typed[1]), typed[1])
    BY <1>5, LineRead
  <2>2. typed' = typed
    BY <1>1 DEF RunSingle
  <2>3. QED
    BY <1>6, <2>1, <2>2 DEF Reads
<1>8. Executed(0)'
  BY <1>1, <1>3, NoneExecuted, ExecutedKept DEF RunSingle
<1>9. Reading(1)'
  BY <1>1, <1>2, <1>4, <1>7, <1>8 DEF Reading, RunSingle
<1>10. Types'
  BY <1>1, <1>5, <1>6 DEF Inv, Types, RunSingle, Inputs
<1>11. Single'
  BY <1>1 DEF Inv, Single, RunSingle
<1>12. 1 \in 0 .. Len(typed)'
  BY <1>1, <1>3 DEF RunSingle
<1>13. QED
  BY <1>9, <1>10, <1>11, <1>12 DEF Inv

LEMMA RunInv == Inv /\ Run => Inv'
<1>1. SUFFICES ASSUME Inv, Run PROVE Inv'
  OBVIOUS
<1>2. PICK n \in 0 .. Len(typed) : Reading(n)
  BY <1>1 DEF Inv
<1>3. n = 0 /\ executed = <<>>
  BY <1>1, <1>2 DEF Reading, Run
<1>4. Executed(0)'
  BY <1>1, <1>3, NoneExecuted, ExecutedKept DEF Run
<1>5. Reading(0)'
  BY <1>1, <1>2, <1>3, <1>4 DEF Reading, Run
<1>6. Types' /\ Single'
  BY <1>1 DEF Inv, Types, Single, Run
<1>7. 0 \in 0 .. Len(typed)'
  BY <1>1, <1>2 DEF Run
<1>8. QED
  BY <1>5, <1>6, <1>7 DEF Inv

LEMMA GetNextInputInv == Inv /\ GetNextInput => Inv'
<1>1. SUFFICES ASSUME Inv, GetNextInput PROVE Inv'
  OBVIOUS
<1>2. PICK n \in 0 .. Len(typed) : Reading(n)
  BY <1>1 DEF Inv
<1>3. /\ typed \in Seq(Lines) /\ Len(typed) \in Nat
      /\ Executed(n) /\ argv = <<>> /\ stdin = SubSeq(typed, n + 1, Len(typed))
  BY <1>1, <1>2, LenProperties DEF Inv, Types, Single, Reading, GetNextInput
<1>4. Executed(n)'
  BY <1>1, <1>3, ExecutedKept DEF GetNextInput
<1>5. Single'
  BY <1>1, <1>3 DEF Single, GetNextInput
<1>6. Len(stdin) = Len(typed) - n
  BY <1>3, ReadSoFar
<1>7. CASE stdin = <<>>
  <2>1. input' = UserInput(<<Empty>>) /\ stdin' = stdin
    BY <1>1, <1>7 DEF GetNextInput
  <2>2. Types'
    BY <1>1, <2>1 DEF Inv, Types, GetNextInput, Inputs
  <2>3. Reading(n)'
    BY <1>1, <1>3, <1>4, <2>1, EmptyLine DEF Reading, GetNextInput
  <2>4. n \in 0 .. Len(typed)'
    BY <1>1 DEF GetNextInput
  <2>5. QED
    BY <1>5, <2>2, <2>3, <2>4 DEF Inv
<1>8. CASE stdin # <<>>
  <2>1. n + 1 \in 1 .. Len(typed)
    <3>1. n # Len(typed)
      BY <1>3, <1>8, SubSeqEmpty
    <3>2. QED
      BY <1>3, <3>1
  <2>2. Head(stdin) = typed[n + 1] /\ Tail(stdin) = SubSeq(typed, (n + 1) + 1, Len(typed))
    <3>1. Len(typed) \in n + 1 .. Len(typed)
      BY <1>3, <2>1
    <3>2. QED
      BY <1>3, <2>1, <3>1, HeadTailOfSubSeq
  <2>3. typed[n + 1] \in Lines
    BY <1>3, <2>1, ElementOfSeq
  <2>4. input' = UserInput(typed[n + 1]) /\ stdin' = SubSeq(typed, (n + 1) + 1, Len(typed))
    BY <1>1, <1>8, <2>2 DEF GetNextInput
  <2>5. Types'
    BY <1>1, <2>3, <2>4 DEF Inv, Types, GetNextInput, Inputs
  <2>6. Reads(input, typed[n + 1])'
    <3>1. Reads(UserInput(typed[n + 1]), typed[n + 1])
      BY <2>3, LineRead
    <3>2. typed' = typed
      BY <1>1 DEF GetNextInput
    <3>3. QED
      BY <2>4, <3>1, <3>2 DEF Reads
  <2>7. Reading(n + 1)'
    <3>1. (n + 1) - 1 = n /\ n + 1 >= 1
      OBVIOUS
    <3>2. pc' = "dispatch" /\ typed' = typed
      BY <1>1 DEF GetNextInput
    <3>3. QED
      BY <1>4, <2>4, <2>6, <3>1, <3>2 DEF Reading
  <2>8. n + 1 \in 0 .. Len(typed)'
    BY <1>1, <2>1 DEF GetNextInput
  <2>9. QED
    BY <1>5, <2>5, <2>7, <2>8 DEF Inv
<1>9. QED
  BY <1>7, <1>8

LEMMA DispatchInv == Inv /\ (Dispatch \/ DispatchThrows) => Inv'
<1>1. SUFFICES ASSUME Inv, Dispatch \/ DispatchThrows PROVE Inv'
  OBVIOUS
<1>2. /\ pc = "dispatch"
      /\ executed' = IF input.command \in DeviceCommands THEN Append(executed, input)
                     ELSE executed
      /\ pc' \in {"prompt", "exited", "terminated"} /\ (argv # <<>> => pc' # "prompt")
      /\ UNCHANGED <<argv, typed, stdin, input>>
  BY <1>1 DEF Dispatch, DispatchThrows
<1>3. typed \in Seq(Lines) /\ Len(typed) \in Nat /\ executed \in Seq(Inputs) /\ input \in Inputs
  BY <1>1, LenProperties DEF Inv, Types
<1>4. PICK n \in 0 .. Len(typed) : Reading(n)
  BY <1>1 DEF Inv
<1>5. Executed(n)'
  <2>1. CASE n >= 1 /\ Executed(n - 1) /\ Reads(input, typed[n])
    <3>1. n \in Nat \ {0}
      BY <1>3, <2>1
    <3>2. QED
      BY <1>2, <1>3, <2>1, <3>1, ExecutedMore, ExecutedNoMore
  <2>2. CASE Executed(n) /\ input.command \notin DeviceCommands
    BY <1>2, <2>2, ExecutedKept
  <2>3. QED
    BY <1>2, <1>4, <2>1, <2>2 DEF Reading
<1>6. Reading(n)'
  BY <1>2, <1>4, <1>5 DEF Reading
<1>7. Types'
  <2>1. executed' \in Seq(Inputs)
    BY <1>2, <1>3, AppendProperties
  <2>2. QED
    BY <1>1, <1>2, <2>1 DEF Inv, Types
<1>8. Single'
  BY <1>1, <1>2 DEF Inv, Single
<1>9. n \in 0 .. Len(typed)'
  BY <1>2
<1>10. QED
  BY <1>6, <1>7, <1>8, <1>9 DEF Inv

LEMMA NextInv == Inv /\ [Next]_vars => Inv'
<1>1. CASE UNCHANGED vars
  <2>1. SUFFICES ASSUME Inv PROVE Inv'
    BY <1>1
  <2>2. PICK n \in 0 .. Len(typed) : Reading(n)
    BY <2>1 DEF Inv
  <2>3. (Executed(n) => Executed(n)') /\ (Executed(n - 1) => Executed(n - 1)')
    BY <1>1, ExecutedKept DEF vars
  <2>4. Reading(n)'
    BY <1>1, <2>2, <2>3 DEF Reading, Reads, vars
  <2>5. Types' /\ Single' /\ n \in 0 .. Len(typed)'
    BY <1>1, <2>1 DEF Inv, Types, Single, vars
  <2>6. QED
    BY <2>4, <2>5 DEF Inv
<1>2. QED
  BY <1>1, RunSingleInv, RunInv, GetNextInputInv, DispatchInv DEF Next, Step

THEOREM Invariant == Spec => []Inv
<1>1. QED
  BY InitInv, NextInv, PTL DEF Spec

----------------------------------------------------------------------------
(* The type of every variable: whatever is typed, the command is known to  *)
(* the dispatcher, and its value and its selectors fit a uint32_t.         *)
THEOREM SessionTypes == Spec => []TypeOK
<1>1. Inv => TypeOK
  <2>1. SUFFICES ASSUME Inv PROVE TypeOK
    OBVIOUS
  <2>2. \E n \in 0 .. Len(typed) : stdin = SubSeq(typed, n + 1, Len(typed))
    BY <2>1 DEF Inv, Reading
  <2>3. \A r \in {input} \cup {executed[i] : i \in DOMAIN executed} : r \in Inputs
    <3>1. \A i \in DOMAIN executed : executed[i] \in Inputs
      BY <2>1, LenProperties, ElementOfSeq DEF Inv, Types
    <3>2. QED
      BY <2>1, <3>1 DEF Inv, Types
  <2>4. \A r \in {input} \cup {executed[i] : i \in DOMAIN executed} : InputOK(r)
    BY <2>3, InputsTyped
  <2>5. QED
    BY <2>1, <2>2, <2>4 DEF TypeOK, InputOK, Inv, Types, Single
<1>2. QED
  BY <1>1, Invariant, PTL

(* Each line that is read is executed once, in the order in which it was   *)
(* typed, with its arguments in their places and nothing or zero for those *)
(* that are missing, and no other is: whether the lines come from stdin or *)
(* one comes as main's arguments, and whatever the command of the device   *)
(* did.  Any line may be typed.                                            *)
THEOREM LinesExecuted == Spec => []AsTyped
<1>1. Inv => AsTyped
  <2>1. SUFFICES ASSUME Inv, pc \in {"prompt", "exited", "terminated"}
                 PROVE  Executed(LinesRead)
    BY DEF AsTyped
  <2>2. PICK n \in 0 .. Len(typed) : Reading(n)
    BY <2>1 DEF Inv
  <2>3. LinesRead = n
    BY <2>1, <2>2, ReadSoFar DEF Inv, Types, Reading
  <2>4. Executed(n)
    BY <2>1, <2>2 DEF Reading
  <2>5. QED
    BY <2>3, <2>4
<1>2. QED
  BY <1>1, Invariant, PTL
=============================================================================
