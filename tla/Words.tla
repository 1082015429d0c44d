------------------------------- MODULE Words --------------------------------
(***************************************************************************)
(* Rows as the code has them: words of WORD bits (64 in the code), changed *)
(* by shifts and masks (first_zeros_aligned, row_toggle and init_field),   *)
(* and the power-of-two arithmetic of src/utils.h.  Lower and Upper use    *)
(* what these operators promise: sets of frames, the lowest free block,    *)
(* division and remainder.                                                 *)
(***************************************************************************)
EXTENDS Integers, FiniteSetsExt
LOCAL INSTANCE Bitwise

CONSTANT WORD

ASSUME WordAssumption == \E k \in 3 .. WORD : WORD = 2^k

Words == 0 .. 2^WORD - 1
Bits  == 0 .. WORD - 1

IsSet(v, b) == (v \div 2^b) % 2 = 1

ShiftLeft(v, n)  == (v * 2^n) % 2^WORD
ShiftRight(v, n) == v \div 2^n
Complement(v)    == 2^WORD - 1 - v
Minus(v, w)      == (v - w) % 2^WORD

\* The highest bit that is set, and the number of clear bits below the lowest one.
Log2(v) == Max({b \in 0 .. 30 : 2^b <= v})

TrailingZeros(v) == IF v = 0 THEN WORD ELSE Min({b \in Bits : IsSet(v, b)})

\* 0x1111, 0x0101, ...: the lowest bit of each block of n bits.
LowBits(n) == SumSet({2^b : b \in {c \in Bits : c % n = 0}})

-----------------------------------------------------------------------------
(* first_zeros_aligned: where the lowest aligned block of n clear bits begins, *)
(* or WORD if there is none.                                                   *)

\* 0xaaaa: a pair may only begin at an even bit.
OddBits == ShiftLeft(LowBits(2), 1)

FirstPair(v) == TrailingZeros(Complement((v | ShiftRight(v, 1)) | OddBits))

\* Mutant: the classic test for a zero byte without its second half.
FirstZeroBlockRough(v, n) ==
    TrailingZeros(ShiftRight(Minus(v, LowBits(n)), n - 1) & LowBits(n))

\* The test for a zero byte: subtracting 1 from a block borrows into its highest
\* bit.  The borrow may reach blocks above a clear one, never the lowest.
FirstZeroBlock(v, n) ==
    TrailingZeros(ShiftRight(Minus(v, LowBits(n)) & Complement(v), n - 1) & LowBits(n))

FirstHalf(v) ==
    IF v % 2^(WORD \div 2) = 0 THEN 0
    ELSE IF ShiftRight(v, WORD \div 2) = 0 THEN WORD \div 2 ELSE WORD

FirstZeros(v, n) ==
    CASE n = 1           -> TrailingZeros(Complement(v))
      [] n = 2           -> FirstPair(v)
      [] n = WORD \div 2 -> FirstHalf(v)
      [] n = WORD        -> IF v = 0 THEN 0 ELSE WORD
      [] OTHER           -> FirstZeroBlock(v, n)

\* The mask of a block of n bits from bit p, as field_toggle computes it.
Mask(n, p) == ShiftLeft(ShiftRight(2^WORD - 1, WORD - n), p)

\* row_toggle: the word that is written, or the same word if it is refused.
RowToggle(v, mask, expected) ==
    IF expected THEN IF v & mask = mask THEN v & Complement(mask) ELSE v
    ELSE IF v & mask = 0 THEN v | mask ELSE v

\* Mutant: the row that the end of memory falls into counts as full.
InitRowFull(free) == IF free >= WORD THEN 0 ELSE 2^WORD - 1

\* init_field: a row of which only the first frames are managed.
InitRow(free) ==
    IF free >= WORD THEN 0
    ELSE IF free > 0 THEN ShiftLeft(2^WORD - 1, free) ELSE 2^WORD - 1

AlignDown(v, align) == v & Complement(align - 1)

NextPow2(v) == IF v <= 1 THEN 1 ELSE 2^(Log2(v - 1) + 1)

-----------------------------------------------------------------------------
(* Properties. *)

BlockSizes == {2^k : k \in 0 .. Log2(WORD)}

Blocks(n) == {p \in Bits : p % n = 0}

SetBits(v) == {b \in Bits : IsSet(v, b)}

\* For every word and size, the bit tricks find the block that FreeInRow defines:
\* the lowest aligned one without a set bit, and none if there is none.
LowestBlockFound ==
    \A v \in Words, n \in BlockSizes :
        LET free == {p \in Blocks(n) : ShiftRight(v, p) % 2^n = 0}
        IN  FirstZeros(v, n) = IF free = {} THEN WORD ELSE Min(free)

\* Words in which all bits of mask agree, or all but one of them.
Near(mask) ==
    {0, mask, 2^WORD - 1, Complement(mask)}
    \cup {mask - 2^b : b \in SetBits(mask)} \cup {2^b : b \in SetBits(mask)}

\* Masks, toggles and the power-of-two arithmetic are what Lower and Upper make of
\* them: a block is flipped if and only if all of its bits are as expected and no
\* other bit is touched, a partial row ends at the last managed frame, alignment
\* is division, and the search nearby starts at a power of two that is enough.
MasksAgree ==
    /\ \A n \in BlockSizes : \A p \in Blocks(n), expected \in BOOLEAN :
          LET B == p .. p + n - 1 IN
          \A v \in Near(Mask(n, p)) :
              SetBits(RowToggle(v, Mask(n, p), expected)) =
                  CASE expected /\ B \subseteq SetBits(v)   -> SetBits(v) \ B
                    [] ~expected /\ B \cap SetBits(v) = {} -> SetBits(v) \cup B
                    [] OTHER -> SetBits(v)
    /\ \A free \in 0 .. 2 * WORD : SetBits(InitRow(free)) = {b \in Bits : b >= free}
    /\ \A v \in 0 .. 8 * WORD :
          /\ \A align \in BlockSizes : AlignDown(v, align) = align * (v \div align)
          /\ NextPow2(v) >= v /\ (v > 1 => NextPow2(v) < 2 * v)
=============================================================================
