----------------------------------- MODULE Crc -----------------------------------
(***************************************************************************)
(* libs/utils/crc: a table of remainders, and a message divided a byte at  *)
(* a time with it, against the division bit by bit.                        *)
(***************************************************************************)
EXTENDS Naturals, Sequences, Bitwise

LOCAL INSTANCE SequencesExt

CONSTANTS
  Variants,  \* [bits, poly, init, rin, rout, xorOut]: the template arguments
  Messages

VARIABLES
  variant, message,
  crc,  \* what calc() has computed
  taken    \* of so many bytes

crcVars == <<variant, message, crc, taken>>

Bits == variant.bits
Word(n) == n % 2^Bits

Bit(n, i) == (n \div 2^i) % 2

BitReverse(n, bits) ==
  FoldLeft(LAMBDA r, i : 2 * r + Bit(n, i), 0, [j \in 1 .. bits |-> j - 1])

Reflected(yes, n, bits) == IF yes THEN BitReverse(n, bits) ELSE n

(* One bit of the division: the polynomial is taken away if it goes in.    *)
Divided(c) == IF Bit(c, Bits - 1) = 1 THEN Word(2 * c) ^^ variant.poly ELSE Word(2 * c)

(* The fault NotReflected: the byte goes in as it comes.                   *)
NotReflected(index) ==
  Reflected(variant.rout,
            FoldLeft(LAMBDA c, i : Divided(c), Word(index * 2^(Bits - 8)), [i \in 1 .. 8 |-> i]), Bits)

TableEntry(index) ==
  Reflected(variant.rout,
            FoldLeft(LAMBDA c, i : Divided(c),
                     Word(Reflected(variant.rin, index, 8) * 2^(Bits - 8)),
                     [i \in 1 .. 8 |-> i]),
            Bits)

CrcInit ==
  /\ variant \in Variants /\ message \in Messages
  /\ crc = variant.init /\ taken = 0

(* One turn of calc()'s loop. *)
TakeByte ==
  /\ taken < Len(message) /\ taken' = taken + 1
  /\ LET b == message[taken + 1]
     IN  crc' = IF Bits <= 8 THEN TableEntry((crc ^^ b) % 256)
                ELSE TableEntry(((crc \div 2^(Bits - 8)) ^^ b) % 256) ^^ Word(crc * 256)
  /\ UNCHANGED <<variant, message>>

CrcNext == TakeByte

CrcSpec == CrcInit /\ [][CrcNext]_crcVars

Result == crc ^^ variant.xorOut

-----------------------------------------------------------------------------
(* The message's bits in the order of the wire. *)
BitsOf(b) == [i \in 1 .. 8 |-> IF variant.rin THEN Bit(b, i - 1) ELSE Bit(b, 8 - i)]

NextBit(r, b) == Word(2 * r) ^^ (IF Bit(r, Bits - 1) = b THEN 0 ELSE variant.poly)

(* Init is the register's as calc() keeps it, so a variant that reflects   *)
(* begins the division with Init reflected.                                *)
InitialRemainder == Reflected(variant.rin, variant.init, Bits)

Remainder ==
  Reflected(variant.rout,
            FoldLeft(NextBit, InitialRemainder,
                     FlattenSeq([i \in 1 .. taken |-> BitsOf(message[i])])),
            Bits)
    ^^ variant.xorOut

(* The table gives the remainder of the division, of every beginning of a  *)
(* message and of none: for the variants that reflect nothing, and for     *)
(* those of eight bits that reflect both what comes in and what goes out.  *)
(* A published CRC of the latter kind is the code's only if its Init reads *)
(* the same reflected, or is handed over reflected; the README of the      *)
(* library promises neither it nor the wider ones.                         *)
CrcRight == Result = Remainder
=============================================================================
