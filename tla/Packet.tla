------------------------------- MODULE Packet -------------------------------
(***************************************************************************)
(* SRPTPacket and its CRC-32C (src/src/core/srpt_packet.cpp,               *)
(* src/src/core/srpt_error_detection.cpp): a packet is built, turned into  *)
(* bytes, perhaps damaged on the way, and read back.                       *)
(*                                                                         *)
(* A number is the set of its bits, so that 64-bit identifiers and the     *)
(* 32-bit checksum keep their width; a byte is a subset of 0 .. 7, and     *)
(* exclusive or is the symmetric difference.                               *)
(*                                                                         *)
(* An operator whose name ends in Faulty is the definition after it with a *)
(* bug; it is used only to show that a property notices.                   *)
(***************************************************************************)
EXTENDS Naturals, Sequences, FiniteSetsExt

CONSTANTS Messages,  \* what the application sends: records as in IsMessage
          SizeBits   \* width of payloadSize, 16 in the code

Byte == SUBSET (0 .. 7)

IsMessage(m) ==
    /\ DOMAIN m = {"type", "packageId", "sequenceNumber", "totalPackets", "payload"}
    /\ m.type \in Byte
    /\ m.packageId \subseteq 0 .. 63
    /\ m.sequenceNumber \subseteq 0 .. 31
    /\ m.totalPackets \subseteq 0 .. 31
    /\ m.payload \in Seq(Byte)

ASSUME MessagesAssumption == \A m \in Messages : IsMessage(m)
ASSUME SizeBitsAssumption == SizeBits \in 8 .. 16

VARIABLES packet,   \* the packet as its sender built it
          wire,     \* its bytes on their way
          damage,   \* what happened to them
          received  \* what fromBytes made of them

vars == <<packet, wire, damage, received>>

Nothing == [none |-> TRUE]
Refused == [refused |-> TRUE]

-----------------------------------------------------------------------------
(* Bits and bytes.                                                         *)

Number(bits) == MapThenSumSet(LAMBDA b : 2^b, bits)

Bits(n) == {b \in 0 .. 15 : (n \div 2^b) % 2 = 1}

ShiftRight(bits, n) == {b - n : b \in {c \in bits : c >= n}}

ShiftLeft(bits, n) == {b + n : b \in bits}

(* Byte i, from the least significant, of a number.                        *)
ByteOfFaulty(bits, i) == bits \cap (8 * i .. 8 * i + 7)

ByteOf(bits, i) == ShiftRight(bits, 8 * i) \cap (0 .. 7)

-----------------------------------------------------------------------------
(* CRC-32C.                                                                *)

CRC32C_POLY == {3, 4, 5, 6, 8, 9, 11, 12, 13, 17, 18, 20, 21, 22, 23, 25, 31}

(* One round of the table's computation, and one byte of the checksum's.   *)
Round(crc) == SymDiff(ShiftRight(crc, 1), IF 0 \in crc THEN CRC32C_POLY ELSE {})

crc32c_table ==
    [byte \in Byte |-> LET crc[j \in 0 .. 8] == IF j = 0 THEN byte ELSE Round(crc[j - 1])
                       IN  crc[8]]

Include(crc, byte) ==
    SymDiff(ShiftRight(crc, 8), crc32c_table[SymDiff(crc \cap (0 .. 7), byte)])

(* The bytes from first to last included, in halves: no deep recursion.    *)
CalculateCRC32C(data) ==
    LET after[p \in (DOMAIN data) \X (DOMAIN data) \X SUBSET (0 .. 31)] ==
            LET first == p[1]
                last  == p[2]
                mid   == (first + last) \div 2
            IN  IF first = last THEN Include(p[3], data[first])
                ELSE after[<<mid + 1, last, after[<<first, mid, p[3]>>]>>]
    IN  (0 .. 31) \ after[<<1, Len(data), 0 .. 31>>]

-----------------------------------------------------------------------------
(* Variable-length numbers: seven bits a byte, bit 7 in all but the last.  *)

EncodeVariableLengthFaulty(value) ==
    LET group[v \in SUBSET (0 .. 63)] ==
            IF v \subseteq 0 .. 7 THEN <<v>>
            ELSE <<(v \cap (0 .. 6)) \cup {7}>> \o group[ShiftRight(v, 7)]
    IN  group[value]

EncodeVariableLength(value) ==
    LET group[v \in SUBSET (0 .. 63)] ==
            IF v \subseteq 0 .. 6 THEN <<v>>
            ELSE <<(v \cap (0 .. 6)) \cup {7}>> \o group[ShiftRight(v, 7)]
    IN  group[value]

(* Groups beyond the 64 bits, which only damage can produce, are shifted   *)
(* by 64 or more, which is undefined: dropped, or shifted modulo 64.       *)
DecodeVariableLength(bytes, wraps) ==
    LET shift(i) == IF wraps THEN (7 * (i - 1)) % 64 ELSE 7 * (i - 1)
    IN  (UNION {ShiftLeft(bytes[i] \ {7}, shift(i)) : i \in DOMAIN bytes}) \cap (0 .. 63)

-----------------------------------------------------------------------------
(* The constructor and toBytes.                                            *)

Version == {4}

(* The package's id left out of what the checksum covers.                  *)
CheckedDataFaulty(p) ==
    <<p.flags>> \o p.sequenceNumber \o p.totalPackets
        \o <<ByteOf(p.payloadSize, 0), ByteOf(p.payloadSize, 1)>> \o p.payload

CheckedData(p) ==
    <<p.flags>> \o p.packageId \o p.sequenceNumber \o p.totalPackets
        \o <<ByteOf(p.payloadSize, 0), ByteOf(p.payloadSize, 1)>> \o p.payload

(* payloadSize keeps the low bits of the size, whatever the size is.       *)
NewPacket(m) ==
    [flags          |-> Version \cup (m.type \cap (0 .. 3)),
     packageId      |-> EncodeVariableLength(m.packageId),
     sequenceNumber |-> EncodeVariableLength(m.sequenceNumber),
     totalPackets   |-> EncodeVariableLength(m.totalPackets),
     payloadSize    |-> Bits(Len(m.payload)) \cap (0 .. SizeBits - 1),
     payload        |-> m.payload]

ToBytes(p) ==
    LET crc == CalculateCRC32C(CheckedData(p))
    IN  <<p.flags>> \o p.packageId \o p.sequenceNumber \o p.totalPackets
            \o <<ByteOf(p.payloadSize, 0), ByteOf(p.payloadSize, 1)>>
            \o [i \in 1 .. 4 |-> ByteOf(crc, i - 1)] \o p.payload

-----------------------------------------------------------------------------
(* fromBytes.                                                              *)

(* Where the variable-length number that begins at offset ends: at the     *)
(* first byte without bit 7, or with the bytes.                            *)
EndOfNumber(bytes, offset) ==
    LET last == {i \in offset .. Len(bytes) : 7 \notin bytes[i]}
    IN  IF last = {} THEN Len(bytes) ELSE Min(last)

(* The packet is built anew from what was read and its checksum compared   *)
(* with the one received: what does not survive the rebuilding, the        *)
(* version among it, is not checked.                                       *)
FromBytes(bytes, wraps) ==
    LET idEnd    == EndOfNumber(bytes, 2)
        seqEnd   == EndOfNumber(bytes, idEnd + 1)
        totalEnd == EndOfNumber(bytes, seqEnd + 1)
        value(first, last) == DecodeVariableLength(SubSeq(bytes, first, last), wraps)
        size     == Number(bytes[totalEnd + 1]) + 256 * Number(bytes[totalEnd + 2])
        crc      == SubSeq(bytes, totalEnd + 3, totalEnd + 6)
        message  == [type           |-> bytes[1] \cap (0 .. 3),
                     packageId      |-> value(2, idEnd),
                     sequenceNumber |-> value(idEnd + 1, seqEnd) \cap (0 .. 31),
                     totalPackets   |-> value(seqEnd + 1, totalEnd) \cap (0 .. 31),
                     payload        |-> SubSeq(bytes, totalEnd + 7, Len(bytes))]
        rebuilt  == NewPacket(message)
        own      == CalculateCRC32C(CheckedData(rebuilt))
    IN  IF \/ Len(bytes) < 8
           \/ Len(bytes) - totalEnd < 6
           \/ Len(bytes) # totalEnd + 6 + size
           \/ crc # [i \in 1 .. 4 |-> ByteOf(own, i - 1)]
        THEN Refused
        ELSE rebuilt

-----------------------------------------------------------------------------
Init ==
    /\ packet = Nothing /\ wire = <<>>
    /\ damage = "none" /\ received = Nothing

Send(m) ==
    /\ packet = Nothing
    /\ packet' = NewPacket(m)
    /\ wire' = ToBytes(packet')
    /\ UNCHANGED <<damage, received>>

InTransit == packet # Nothing /\ damage = "none" /\ received = Nothing

(* The last byte of each of the three numbers.                             *)
IdEnd == 1 + Len(packet.packageId)
SeqEnd == IdEnd + Len(packet.sequenceNumber)
TotalEnd == SeqEnd + Len(packet.totalPackets)

(* Bits that fromBytes reads and drops: the version, and what the last     *)
(* group of a number of full length holds beyond the number's width.       *)
Spare(i, b) ==
    \/ i = 1 /\ b \in 4 .. 7
    \/ i = 11 /\ i = IdEnd /\ b \in 1 .. 6
    \/ i = IdEnd + 5 /\ i = SeqEnd /\ b \in 4 .. 6
    \/ i = SeqEnd + 5 /\ i = TotalEnd /\ b \in 4 .. 6

(* Bits without which a number has another length: those that say whether  *)
(* another group follows, and the only bit in the last of several groups,  *)
(* because the rebuilt packet does not have that group.                    *)
Border(i, b) ==
    i \in 2 .. TotalEnd /\ (b = 7 \/ (7 \in wire[i - 1] /\ wire[i] = {b}))

(* One bit turned over.  A size narrower than 16 bits has no bits above    *)
(* SizeBits to turn over.                                                  *)
FlipBit(i, b) ==
    /\ InTransit
    /\ i = TotalEnd + 2 => b < SizeBits - 8
    /\ wire' = [wire EXCEPT ![i] = SymDiff(@, {b})]
    /\ damage' = IF Spare(i, b) THEN "spare" ELSE IF Border(i, b) THEN "border" ELSE "bit"
    /\ UNCHANGED <<packet, received>>

(* The last bytes lost.                                                    *)
Truncate(n) ==
    /\ InTransit
    /\ wire' = SubSeq(wire, 1, n)
    /\ damage' = "cut"
    /\ UNCHANGED <<packet, received>>

Read ==
    /\ packet # Nothing /\ received = Nothing
    /\ \E wraps \in BOOLEAN : received' = FromBytes(wire, wraps)
    /\ UNCHANGED <<packet, wire, damage>>

Next ==
    \/ \E m \in Messages : Send(m)
    \/ \E i \in DOMAIN wire, b \in 0 .. 7 : FlipBit(i, b)
    \/ \E n \in 0 .. Len(wire) - 1 : Truncate(n)
    \/ Read

Spec == Init /\ [][Next]_vars

-----------------------------------------------------------------------------
IsPacket(p) ==
    /\ p.flags \in Byte /\ p.payload \in Seq(Byte)
    /\ \A f \in {p.packageId, p.sequenceNumber, p.totalPackets} : f \in Seq(Byte)
    /\ p.payloadSize \subseteq 0 .. SizeBits - 1

(* Every variable has its type: what is on the wire is bytes.              *)
TypeOK ==
    /\ packet = Nothing \/ IsPacket(packet)
    /\ wire \in Seq(Byte)
    /\ damage \in {"none", "spare", "border", "bit", "cut"}
    /\ received \in {Nothing, Refused} \/ IsPacket(received)

Fits == Len(packet.payload) < 2^SizeBits

(* A packet that arrives as it was sent is read back as it was built,      *)
(* whatever the lengths of its numbers; one whose payload does not fit the *)
(* 16 bits of its size is refused, never read back short.                  *)
ReadBack ==
    damage = "none" /\ received # Nothing =>
        received = IF Fits THEN packet ELSE Refused

(* One bit turned over anywhere but in a border between fields, or any     *)
(* number of bytes cut off, and the packet is refused or read back         *)
(* unchanged; and it is read back only when the bit is one that fromBytes  *)
(* drops.                                                                  *)
DamageIsNoticed ==
    damage \in {"spare", "bit"} \/ (damage = "cut" /\ Fits) =>
        received \in {Nothing, IF damage = "spare" /\ Fits THEN packet ELSE Refused}

(* Damage that moves the borders between the fields, or a cut in a payload *)
(* whose size was never right, is refused too.  The checksum is then       *)
(* compared with that of bytes of another number, so this is a claim about *)
(* the messages given and not about every message.                         *)
BordersAreNoticed ==
    damage = "border" \/ (damage = "cut" /\ ~Fits) => received \in {Nothing, Refused}
=============================================================================
