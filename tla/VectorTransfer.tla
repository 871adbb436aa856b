--------------------------- MODULE VectorTransfer --------------------------
(***************************************************************************)
(* Vectors sent as packages: a vector is quantised, its halves are laid    *)
(* out as bytes, least significant first, and the bytes are sent in chunks *)
(* whose size need not be a multiple of that of a half; the receiver puts  *)
(* the bytes together and dequantises them.  Quantising, sending in chunks *)
(* and putting together is what src/tests/ai/data/vectorized_data_test.cpp *)
(* (lines 121-145 and 187-196) does with a vector.                         *)
(***************************************************************************)
EXTENDS Transfer, HalfFloat

CONSTANT Vectors  \* the vectors sent, one to a package

(* The bytes of a vector, and the vector of the bytes.                     *)
Pack(data) == FlattenSeq([i \in DOMAIN data |-> BytesOf(Quantize16Bit(data)[i])])

Unpack(bytes) ==
    Dequantize16Bit([i \in 1 .. Len(bytes) \div 2 |-> HalfOf(bytes[2 * i - 1], bytes[2 * i])])

ASSUME PackagesAreVectors ==
    /\ DOMAIN Packages = DOMAIN Vectors
    /\ \A k \in DOMAIN Vectors :
           /\ Vectors[k] \in Seq(Floats)
           /\ Packages[k] = Pack(Vectors[k])

-----------------------------------------------------------------------------
(* Although chunks cut halves in two and arrive in any order, each vector  *)
(* that is delivered is the one sent but for the bits that a half has no   *)
(* place for, whatever the signs.  Elements outside the range of a half    *)
(* are not claimed: their exponents alias modulo 32, and 0.0 becomes 2.0.  *)
VectorsArrive ==
    \A k \in DOMAIN delivered :
        (\A i \in DOMAIN Vectors[k] : Fits(Vectors[k][i]))
            => Unpack(delivered[k]) = RoundedVector(Vectors[k])
=============================================================================
