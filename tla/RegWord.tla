------------------------------ MODULE RegWord ------------------------------
(***************************************************************************)
(* The uint32_t arithmetic gputool does on register values.  A word is the *)
(* set of the positions of its one bits, so & | ~ are \cap, \cup and       *)
(* complement, and a shift moves positions and drops the ones that leave   *)
(* the word, as it does on an unsigned type.                               *)
(***************************************************************************)
EXTENDS Integers

CONSTANT Width    (* bits in a register: 32 in the code *)

ASSUME WidthAssumption == Width \in Nat \ {0}

Bits == 0 .. Width - 1
Word == SUBSET Bits
Zero == {}

And(a, b) == a \cap b
Or(a, b)  == a \cup b
Not(a)    == Bits \ a
Shl(a, s) == {b \in Bits : b - s \in a}
Shr(a, s) == {b \in Bits : b + s \in a}

(***************************************************************************)
(* A RegField.  Every shift of the register database is below 32, the      *)
(* range in which the C shifts are defined.                                *)
(***************************************************************************)
Field == [mask : Word, shift : Bits]

(* readField, getFieldAs and the loop of printFormattedReg. *)
ExtractField(val, f) == Shr(And(val, f.mask), f.shift)

InsertFieldUnmasked(old, f, val) == Or(old, Shl(val, f.shift)) \* mutant: old field kept

(* writeField: the old field is masked out, the new value is shifted in    *)
(* and is not masked.                                                      *)
InsertField(old, f, val) == Or(And(old, Not(f.mask)), Shl(val, f.shift))

SelectWordMaskFirst(fields, sel) ==               \* mutant: mask, then shift
  UNION {Shl(And(sel[k], fields[k].mask), fields[k].shift) : k \in DOMAIN sel}

SelectWordUnmasked(fields, sel) ==                \* mutant: the mask is forgotten
  UNION {Shl(sel[k], fields[k].shift) : k \in DOMAIN sel}

(***************************************************************************)
(* srbmSelect: every argument is shifted to its field and cut to its mask. *)
(* sel and fields are functions on the names of the four fields.           *)
(***************************************************************************)
SelectWord(fields, sel) ==
  UNION {And(Shl(sel[k], fields[k].shift), fields[k].mask) : k \in DOMAIN sel}

----------------------------------------------------------------------------
(***************************************************************************)
(* Reference notions the properties are stated with.                       *)
(***************************************************************************)

(* What is left of a value in field f: bits beyond its mask are lost. *)
Held(val, f) == ExtractField(Shl(val, f.shift), f)

(* The value has no bit beyond the mask. *)
Inside(val, f) == Shl(val, f.shift) \subseteq f.mask

(* The values field f can hold. *)
Fits(val, f) == Inside(val, f) /\ Held(val, f) = val
=============================================================================
