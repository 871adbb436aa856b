----------------------------- MODULE HalfFloat -----------------------------
(***************************************************************************)
(* The 16-bit quantisation of vectors                                      *)
(* (src/src/ai/data/vectorized_data_handler.cpp).  A number is its three   *)
(* fields; the shifts and masks of the code pick them apart and put them   *)
(* together.  Exponents are the biased ones of the formats.                *)
(*                                                                         *)
(* An operator whose name ends in Faulty is the definition after it with a *)
(* bug; it is used only to show that a property notices.                   *)
(***************************************************************************)
EXTENDS Integers, Sequences

Signs == {0, 1}
Dropped == 8192   \* 2^13: thirteen bits of the mantissa have no place in a half
Rebias == 112     \* between the biases of the two exponents

Floats == [sign : Signs, exponent : 0 .. 255, mantissa : 0 .. 1024 * Dropped - 1]
Halves == [sign : Signs, exponent : 0 .. 31, mantissa : 0 .. 1023]

(* The exponents that fit in five bits take their place; the mask lets     *)
(* every other one through modulo 32, zero and infinity included.          *)
FloatToHalf(f) ==
    [sign |-> f.sign,
     exponent |-> (f.exponent - Rebias) % 32,
     mantissa |-> f.mantissa \div Dropped]

(* The sign left where the half has it.                                    *)
HalfToFloatFaulty(h) ==
    [sign |-> 0,
     exponent |-> h.exponent + Rebias,
     mantissa |-> h.mantissa * Dropped]

HalfToFloat(h) ==
    [sign |-> h.sign,
     exponent |-> h.exponent + Rebias,
     mantissa |-> h.mantissa * Dropped]

Quantize16Bit(data) == [i \in DOMAIN data |-> FloatToHalf(data[i])]

Dequantize16Bit(data) == [i \in DOMAIN data |-> HalfToFloat(data[i])]

-----------------------------------------------------------------------------
(* A half as two bytes, the least significant first, as on the hosts the   *)
(* library is built for.                                                   *)
ByteSize == 256

BytesOf(h) ==
    <<h.mantissa % ByteSize,
      h.sign * 128 + h.exponent * 4 + h.mantissa \div ByteSize>>

HalfOf(low, high) ==
    [sign |-> high \div 128, exponent |-> (high % 128) \div 4,
     mantissa |-> (high % 4) * ByteSize + low]

-----------------------------------------------------------------------------
(* What a half can say of a float: its magnitudes are from 2^-15 to below  *)
(* 2^17, and of the mantissa it keeps ten bits.                            *)
Fits(f) == f.exponent \in Rebias .. Rebias + 31

Rounded(f) == [f EXCEPT !.mantissa = (f.mantissa \div Dropped) * Dropped]

RoundedVector(data) == [i \in DOMAIN data |-> Rounded(data[i])]

(* Below: f is smaller in magnitude than g.                                *)
Below(f, g) ==
    \/ f.exponent < g.exponent
    \/ f.exponent = g.exponent /\ f.mantissa < g.mantissa

(* Less: f is the smaller number, where neither is zero.                   *)
Less(f, g) ==
    \/ f.sign = 1 /\ g.sign = 0
    \/ f.sign = 0 /\ g.sign = 0 /\ Below(f, g)
    \/ f.sign = 1 /\ g.sign = 1 /\ Below(g, f)
=============================================================================
