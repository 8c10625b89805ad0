----------------------------- MODULE BankedRegs -----------------------------
(***************************************************************************)
(* What the register commands promise a user who is alone on the GPU.      *)
(*                                                                         *)
(* There is no selector: a banked register exists once per selection of a  *)
(* me, pipe, queue and vmid, and a command works on the registers of its   *)
(* own selection, of which only so much counts as four fields can hold.    *)
(* For every register with the name it was given, in the order of the      *)
(* database, a write replaces the register or one field of it in one step, *)
(* and in a second step the register is shown; with a selection that is    *)
(* the first register of the name every time.  A command may end early,    *)
(* with everything it has done in place.                                   *)
(***************************************************************************)
EXTENDS RegWord

CONSTANTS
  Regs,        (* sequence of registers: name, offset and fields           *)
  Plain,       (* offsets of the registers that exist once                 *)
  Banked,      (* offsets of those that exist once per selection           *)
  Kept,        (* the fields that hold a selection: name -> field          *)
  Selections,  (* the selections, functions from field names to words      *)
  NoSelection, (* the one that commands without a selection use            *)
  PowerOn,     (* the word every register starts with                      *)
  Commands

VARIABLES
  plain,       (* offset -> word                                           *)
  bank,        (* selection -> offset -> word                              *)
  mode,        (* idle, write, show: what comes next; or ended             *)
  cmd,         (* the command at work, and what is left of it              *)
  todo,
  reg,
  out          (* the register and word last shown                         *)

vars == <<plain, bank, mode, cmd, todo, reg, out>>

Named(name) == {i \in DOMAIN Regs : Regs[i].name = name}

Selects(c) == c.op \in {"srbm_read", "srbm_write"}

Selection(c) ==
  IF Selects(c) THEN [k \in DOMAIN Kept |-> Held(c.sel[k], Kept[k])] ELSE NoSelection

(* The register worked on when the command is at register i. *)
Worked(c, i) ==
  IF Selects(c)
  THEN CHOOSE j \in Named(c.reg) : \A l \in Named(c.reg) : j <= l
  ELSE i

Contents(c, i) ==
  LET off == Regs[i].offset IN
  IF off \in Banked THEN bank[Selection(c)][off] ELSE plain[off]

(* word is old with the command's value in it: the whole word, or a field. *)
(* The bits beyond the field that the value does not have are the old ones.*)
Merged(c, i, old, word) ==
  \/ /\ c.field = ""
     /\ word = c.val
  \/ /\ c.field \in DOMAIN Regs[i].fields
     /\ LET f == Regs[i].fields[c.field]
            elsewhere == Not(Or(f.mask, Shl(c.val, f.shift))) IN
        /\ ExtractField(word, f) = Held(c.val, f)
        /\ And(word, elsewhere) = And(old, elsewhere)

(* On to the first register that is left. *)
Advance(c, left) ==
  \/ /\ left = {}
     /\ mode' = "idle" /\ todo' = {} /\ reg' = reg
  \/ \E i \in left :
     /\ \A j \in left : i <= j
     /\ mode' = IF c.op \in {"write", "srbm_write"} THEN "write" ELSE "show"
     /\ todo' = left \ {i}
     /\ reg'  = i

Begin ==
  /\ mode = "idle"
  /\ \E c \in Commands : cmd' = c /\ Advance(c, Named(c.reg))
  /\ UNCHANGED <<plain, bank, out>>

WriteReg ==
  /\ mode = "write"
  /\ mode' = "show"
  /\ LET i   == Worked(cmd, reg)
         off == Regs[i].offset IN
     \E word \in Word :
       /\ Merged(cmd, i, Contents(cmd, i), word)
       /\ IF off \in Banked
          THEN /\ bank' = [bank EXCEPT ![Selection(cmd)][off] = word]
               /\ UNCHANGED plain
          ELSE /\ plain' = [plain EXCEPT ![off] = word]
               /\ UNCHANGED bank
  /\ UNCHANGED <<cmd, todo, reg, out>>

ShowReg ==
  /\ mode = "show"
  /\ out' = [reg |-> reg, val |-> Contents(cmd, Worked(cmd, reg))]
  /\ Advance(cmd, todo)
  /\ UNCHANGED <<plain, bank, cmd>>

End ==
  /\ mode # "ended"
  /\ mode' = "ended"
  /\ UNCHANGED <<plain, bank, cmd, todo, reg, out>>

Init ==
  /\ plain = [off \in Plain |-> PowerOn]
  /\ bank  = [s \in Selections |-> [off \in Banked |-> PowerOn]]
  /\ mode  = "idle"
  /\ cmd   \in Commands
  /\ todo  = {}
  /\ reg   = 0
  /\ out   = [reg |-> 0, val |-> Zero]

Next == Begin \/ WriteReg \/ ShowReg \/ End

Spec == Init /\ [][Next]_vars
=============================================================================
