------------------------------ MODULE Channels ------------------------------
(****************************************************************************)
(* What the programs that read a sensor compute from sysfs and from the      *)
(* bytes of a scan (sensors/libs/iio_utils.h, sensors.h, print_utils.h): the *)
(* lookup of a channel's type, scale and offset, the order and the layout of *)
(* the channels, and the decoding of a stored value.  Pure operators.        *)
(*                                                                           *)
(* Data are sequences of bytes, least significant first.  A byte has         *)
(* ByteBits bits, 8 on the machine and fewer in the runs; an int has four    *)
(* bytes.  A file's name is the sequence of its parts between underscores.   *)
(****************************************************************************)
EXTENDS Integers, Sequences, FiniteSets, SequencesExt

CONSTANT ByteBits   \* bits in a byte

ASSUME ByteBitsAssumption == ByteBits \in Nat /\ ByteBits > 1

\* 1 << n.
Pow2[n \in Nat] == IF n = 0 THEN 1 ELSE 2 * Pow2[n - 1]

Byte     == Pow2[ByteBits]
WordBits == 4 * ByteBits      \* bits in an int

-----------------------------------------------------------------------------
\* The machine's integers.

Unsigned(v, bits) == v % Pow2[bits]

Signed(v, bits) ==
    LET u == Unsigned(v, bits)
    IN  IF u < Pow2[bits - 1] THEN u ELSE u - Pow2[bits]

\* The compiled shifts take their count modulo the width of an int; C leaves
\* larger and negative counts undefined.
Count(n)         == n % WordBits
ShiftLeft(v, n)  == Signed(v * Pow2[Count(n)], WordBits)
ShiftRight(v, n) == v \div Pow2[Count(n)]

AbsInt(v) == Signed(IF v < 0 THEN -v ELSE v, WordBits)
Times(k, v) == Signed(k * v, WordBits)

\* The n bytes of v, and the number in n bytes of data from the offset at on.
ToBytes(v, n) ==
    [i \in 1..n |-> (Unsigned(v, n * ByteBits) \div Pow2[(i - 1) * ByteBits]) % Byte]

Number(data, at, n) ==
    LET low[k \in 0..n] ==
            IF k = 0 THEN 0 ELSE low[k - 1] + data[at + k] * Pow2[(k - 1) * ByteBits]
    IN  low[n]

-----------------------------------------------------------------------------
\* Looking a channel's attributes up.

\* strtok at the first underscore, without its digits: of a channel's name only
\* "in" (or "out") is left.
GenericName(name) == <<Head(name)>>

HasAttribute(file, name, param) ==
    file \in {Append(name, param), Append(GenericName(name), param)}

\* The first file in the directory that fits gives the value.
ParamFloat(dir, name, param, default) ==
    LET fits == {i \in DOMAIN dir : HasAttribute(dir[i].file, name, param)}
    IN  IF fits = {} THEN default
        ELSE dir[CHOOSE i \in fits : \A j \in fits : i <= j].value

\* The text of a type file, be:s12/16>>4, gives these parts.
TypeRecord(be, signed, bits, storage, shift) ==
    [be |-> be, signed |-> signed, bits |-> bits,
     bytes |-> storage \div ByteBits, shift |-> shift]

\* The last type file that fits is the one that counts.
TypeOf(dir, name) ==
    LET fits == {i \in DOMAIN dir : HasAttribute(dir[i].file, name, "type")}
    IN  dir[CHOOSE i \in fits : \A j \in fits : j <= i].value

\* What current points to in the array when a channel has been read.
ChannelInfo(name, index, scale, offset, type) ==
    [name |-> name, index |-> index, scale |-> scale, offset |-> offset,
     be |-> type.be, signed |-> type.signed, bits |-> type.bits,
     bytes |-> type.bytes, shift |-> type.shift]

-----------------------------------------------------------------------------
\* Order and layout of the channels.

\* Mutant of SortedByIndex: the order of the directory is kept.
UnsortedByIndex(channels) == channels

\* A bubble sort; the indices are distinct.
SortedByIndex(channels) ==
    [i \in DOMAIN channels |->
        CHOOSE c \in {channels[j] : j \in DOMAIN channels} :
            Cardinality({j \in DOMAIN channels :
                            channels[j].index < c.index}) = i - 1]

\* Where a value of size bytes goes after the first bytes of a scan.
Location(bytes, size) ==
    IF bytes % size = 0 THEN bytes ELSE bytes - (bytes % size) + size

\* The end of each channel's value in a scan, and of none.
Ends(channels) ==
    LET end[i \in 0..Len(channels)] ==
            IF i = 0 THEN 0
            ELSE Location(end[i - 1], channels[i].bytes) + channels[i].bytes
    IN  end

ScanSize(channels) == Ends(channels)[Len(channels)]

LocationOf(channels, i) == Ends(channels)[i] - channels[i].bytes

\* The division in the layout of a channel whose size was read as zero.
LayoutDivides(channels) == \A i \in DOMAIN channels : channels[i].bytes > 0

-----------------------------------------------------------------------------
\* Decoding.

\* Shift, mask to the bits used, and move the sign bit up and down again.
DecodeSigned(word, info) ==
    LET shifted == ShiftRight(Signed(word, WordBits), info.shift)
        masked  == IF info.bits < WordBits
                   THEN Unsigned(shifted, info.bits) ELSE shifted
        spare   == WordBits - info.bits
    IN  ShiftRight(ShiftLeft(masked, spare), spare)

DecodeUnsigned(word, info) ==
    LET shifted == ShiftRight(word, info.shift)
    IN  Signed(IF info.bits < WordBits
               THEN Unsigned(shifted, info.bits) ELSE shifted, WordBits)

\* print2byte: the two bytes in the device's order, then as above in 16 bits.
SwapBytes(half) == (half % Byte) * Byte + half \div Byte

Print2Byte(half, info) ==
    LET ordered == IF info.be THEN SwapBytes(half) ELSE half
        value   == Unsigned(ShiftRight(ordered, info.shift), info.bits)
    IN  IF info.signed THEN Signed(value, info.bits) ELSE value

LimitInterval(low, high, v) ==
    IF v < low THEN low ELSE IF v > high THEN high ELSE v
=============================================================================
