------------------------------ MODULE Xorshift ------------------------------
(***************************************************************************)
(* simplerand of AOS1 (open_read_perf.c, comp.c): four longs, shifted and  *)
(* xored.  A word is the set of its bits that are 1, bit Width - 1 being   *)
(* the sign; a long has Width = 64.                                        *)
(***************************************************************************)
EXTENDS Integers, Sequences

CONSTANT Width

ASSUME WidthAssumption == Width \in Nat /\ Width >= 20

Bit  == 0 .. Width - 1
Word == SUBSET Bit
Sign == Width - 1

Xor(u, v) == (u \ v) \cup (v \ u)

ShiftLeft(u, k) == {i + k : i \in u} \cap Bit

(* Slip: the shift of an unsigned long. *)
ShiftRightLogical(u, k) == {i - k : i \in u} \cap Bit

(* >> of a negative long brings in ones. *)
ShiftRight(u, k) ==
    ({i - k : i \in u} \cap Bit) \cup (IF Sign \in u THEN Width - k .. Sign ELSE {})

Generator == [x : Word, y : Word, z : Word, w : Word]

(* long x = 1, y = 4, z = 7, w = 13 *)
Seed == [x |-> {0}, y |-> {2}, z |-> {0, 1, 2}, w |-> {0, 2, 3}]

(* The generator after a call; the call returns the new w. *)
simplerand(g) ==
    LET s == Xor(g.x, ShiftLeft(g.x, 11))
        t == Xor(s, ShiftRight(s, 8))
        v == Xor(g.w, ShiftRight(g.w, 19))
    IN  [x |-> g.y, y |-> g.z, z |-> g.w, w |-> Xor(v, t)]

(* The bits from i up, read as an unsigned number, modulo m: Horner's rule *)
ModFrom(u, m) ==
    LET horner[i \in 0 .. Width] ==
            IF i = Width THEN 0
            ELSE (2 * horner[i + 1] + (IF i \in u THEN 1 ELSE 0)) % m
    IN  horner[0]

(* C's u % m: the remainder has the sign of u (-u = ~u + 1). *)
Remainder(u, m) ==
    IF Sign \in u THEN -((ModFrom(Bit \ u, m) + 1) % m) ELSE ModFrom(u, m)
=============================================================================
