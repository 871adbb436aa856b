----------------------------- MODULE Transfer ------------------------------
(***************************************************************************)
(* The transfer of packages: SRPTChunking cuts a package into numbered     *)
(* chunks (src/src/core/srpt_chunking.cpp), RetransmissionManager tells    *)
(* which of the packets that carry them to send again                      *)
(* (src/src/core/srpt_retransmission.cpp), SRPTReassembly puts the chunks  *)
(* together (src/src/core/srpt_reassembly.cpp).                            *)
(*                                                                         *)
(* The three classes hold no socket and do not call each other.  How they  *)
(* are used together is taken from the header of SRPTPacket (package id,   *)
(* number within the package, total) and from                              *)
(* src/tests/core/test_srpt_retransmission.cpp, lines 31-44: a packet      *)
(* that needsRetransmission is sent again.  An acknowledgement carries the *)
(* package id and the number; the receiver keeps one chunk of a number.    *)
(*                                                                         *)
(* An operator whose name ends in Faulty is the definition after it with a *)
(* bug; it is used only to show that a property notices.                   *)
(***************************************************************************)
EXTENDS Naturals, SequencesExt

CONSTANTS Packages,      \* the data of each package, in the order sent
          ChunkSize      \* chunkSize of SRPTChunking

Byte == 0 .. 255

ASSUME PackagesAssumption ==
    /\ Packages \in Seq(Seq(Byte)) /\ Packages # <<>>
    /\ \A k \in DOMAIN Packages : Packages[k] # <<>>
ASSUME ChunkSizeAssumption == ChunkSize \in Nat \ {0}

VARIABLES sentPackets, receivedPackets,  \* the RetransmissionManager's sets
          sending,    \* package being sent, Len(Packages) + 1 after the last
          next,       \* number of its next chunk to send for the first time
          net,        \* packets on their way: package and chunk
          acks,       \* acknowledgements on their way: package and number
          got,        \* chunks received of the package being received
          delivered,  \* packages reassembled, in order
          shared      \* one RetransmissionManager for all packages, or a new
                      \* one for each, chosen once

manager == <<sentPackets, receivedPackets>>
transfer == <<manager, sending, next, net, acks, got, delivered>>
vars == <<transfer, shared>>

-----------------------------------------------------------------------------
(* createChunks: full chunks, then one for the bytes that remain.          *)

Chunk(i, bytes) == [sequenceNumber |-> i, data |-> bytes]

FullChunks(data) ==
    [i \in 1 .. Len(data) \div ChunkSize |->
        Chunk(i - 1, SubSeq(data, (i - 1) * ChunkSize + 1, i * ChunkSize))]

Remainder(data) ==
    LET size == Len(data) % ChunkSize IN
    IF size = 0 THEN <<>>
    ELSE <<Chunk(Len(data) \div ChunkSize, SubSeq(data, Len(data) - size + 1, Len(data)))>>

CreateChunks(data) == FullChunks(data) \o Remainder(data)

(* The chunks put together as they came.                                   *)
ReassembleChunksFaulty(chunks) ==
    FlattenSeq([i \in DOMAIN chunks |-> chunks[i].data])

(* std::sort: every chunk gets a place of its own, in the order of the     *)
(* numbers.                                                                *)
Sorted(chunks) ==
    LET places == DOMAIN chunks
        order == CHOOSE p \in [places -> places] :
                     \A i, j \in places : i < j =>
                         /\ p[i] # p[j]
                         /\ chunks[p[i]].sequenceNumber <= chunks[p[j]].sequenceNumber
    IN  [i \in places |-> chunks[order[i]]]

(* reassembleChunks: whatever it is given, in the order of the numbers.    *)
ReassembleChunks(chunks) ==
    LET sorted == Sorted(chunks)
    IN  FlattenSeq([i \in DOMAIN sorted |-> sorted[i].data])

-----------------------------------------------------------------------------
(* RetransmissionManager.  (Its retransmissionCount is only ever written.) *)

(* Numbers counted from one here, from zero elsewhere.                     *)
PacketSentFaulty(i) ==
    /\ sentPackets' = sentPackets \cup {i + 1}
    /\ UNCHANGED receivedPackets

PacketSent(i) ==
    /\ sentPackets' = sentPackets \cup {i}
    /\ UNCHANGED receivedPackets

(* An acknowledgement taken for all the packets before it as well.         *)
PacketReceivedFaulty(i) ==
    /\ sentPackets' = {j \in sentPackets : j > i}
    /\ receivedPackets' = receivedPackets \cup {i}

PacketReceived(i) ==
    /\ receivedPackets' = receivedPackets \cup {i}
    /\ sentPackets' = sentPackets \ {i}

(* A packet received taken for one that is not.                            *)
NeedsRetransmissionFaulty(i) == i \in sentPackets \/ i \in receivedPackets

NeedsRetransmission(i) == i \in sentPackets /\ i \notin receivedPackets

-----------------------------------------------------------------------------
Init ==
    /\ sentPackets = {} /\ receivedPackets = {}
    /\ sending = 1 /\ next = 0
    /\ net = {} /\ acks = {}
    /\ got = <<>> /\ delivered = <<>>
    /\ shared \in BOOLEAN

Chunks(k) == CreateChunks(Packages[k])

Sending == sending <= Len(Packages)

Transmit(i) ==
    /\ PacketSent(i)
    /\ net' = net \cup {[package |-> sending, chunk |-> Chunks(sending)[i + 1]]}
    /\ UNCHANGED <<sending, acks, got, delivered>>

SendNext ==
    /\ Sending /\ next < Len(Chunks(sending))
    /\ next' = next + 1
    /\ Transmit(next)

Resend(i) ==
    /\ Sending /\ i < next
    /\ NeedsRetransmission(i)
    /\ Transmit(i)
    /\ UNCHANGED next

(* Once no packet needs it any more the sender turns to the next package.  *)
NextPackage ==
    /\ Sending /\ next = Len(Chunks(sending))
    /\ \A i \in 0 .. next - 1 : ~NeedsRetransmission(i)
    /\ sending' = sending + 1 /\ next' = 0
    /\ IF shared THEN UNCHANGED manager
                 ELSE sentPackets' = {} /\ receivedPackets' = {}
    /\ UNCHANGED <<net, acks, got, delivered>>

(* Each acknowledgement or packet is taken, or stays to come once more.    *)
ReceiveAck(a) ==
    /\ a \in acks
    /\ acks' \in {acks, acks \ {a}}
    /\ IF a.package = sending THEN PacketReceived(a.sequenceNumber) ELSE UNCHANGED manager
    /\ UNCHANGED <<sending, next, net, got, delivered>>

Receiving == Len(delivered) + 1

Holds(i) == \E j \in DOMAIN got : got[j].sequenceNumber = i

AckOf(p) == [package |-> p.package, sequenceNumber |-> p.chunk.sequenceNumber]

(* A packet of the next package waits until this one is put together.      *)
ReceivePacket(p) ==
    /\ p \in net
    /\ net' \in {net, net \ {p}}
    /\ p.package <= Receiving
    /\ acks' = acks \cup {AckOf(p)}
    /\ got' = IF p.package = Receiving /\ ~Holds(p.chunk.sequenceNumber)
                THEN Append(got, p.chunk) ELSE got
    /\ UNCHANGED <<manager, sending, next, delivered>>

(* All of the total are there.                                             *)
Reassemble ==
    /\ Receiving <= Len(Packages) /\ Len(got) = Len(Chunks(Receiving))
    /\ delivered' = Append(delivered, ReassembleChunks(got))
    /\ got' = <<>>
    /\ UNCHANGED <<manager, sending, next, net, acks>>

Lose ==
    /\ \/ \E p \in net : net' = net \ {p} /\ UNCHANGED acks
       \/ \E a \in acks : acks' = acks \ {a} /\ UNCHANGED net
    /\ UNCHANGED <<manager, sending, next, got, delivered>>

-----------------------------------------------------------------------------
Numbers == UNION {0 .. Len(Chunks(k)) - 1 : k \in DOMAIN Packages}

Packets ==
    UNION {{[package |-> k, chunk |-> Chunks(k)[i]] : i \in DOMAIN Chunks(k)} :
               k \in DOMAIN Packages}

Acks == {AckOf(p) : p \in Packets}

Next ==
    /\ \/ SendNext \/ NextPackage \/ Reassemble \/ Lose
       \/ \E i \in Numbers : Resend(i)
       \/ \E p \in net : ReceivePacket(p)
       \/ \E a \in acks : ReceiveAck(a)
    /\ UNCHANGED shared

Spec == Init /\ [][Next]_vars

(* Both ends go on with their work, and a packet or acknowledgement sent   *)
(* again and again is received some time, and then leaves the network.     *)
Fairness ==
    /\ WF_transfer(SendNext) /\ WF_transfer(NextPackage) /\ WF_transfer(Reassemble)
    /\ \A i \in Numbers : WF_transfer(Resend(i))
    /\ \A p \in Packets : SF_transfer(ReceivePacket(p) /\ p \notin net')
    /\ \A a \in Acks : SF_transfer(ReceiveAck(a) /\ a \notin acks')

FairSpec == Spec /\ Fairness

-----------------------------------------------------------------------------
(* Every variable has its type, and no chunk is held twice.                *)
TypeOK ==
    /\ sentPackets \subseteq Numbers /\ receivedPackets \subseteq Numbers
    /\ sending \in 1 .. Len(Packages) + 1
    /\ next \in Numbers \cup {Len(Chunks(k)) : k \in DOMAIN Packages}
    /\ net \subseteq Packets /\ acks \subseteq Acks
    /\ \A i, j \in DOMAIN got : i # j => got[i].sequenceNumber # got[j].sequenceNumber
    /\ Len(delivered) <= Len(Packages)
    /\ shared \in BOOLEAN

(* However the chunks were cut, and in whatever order, how often and       *)
(* interleaved with which others they arrived, what is put together is     *)
(* what was sent.                                                          *)
DeliveredIntact ==
    \A k \in DOMAIN delivered : delivered[k] = Packages[k]

(* A packet is forgotten only when its chunk has arrived: of a chunk that  *)
(* was sent and is not there, needsRetransmission is true.  A manager used *)
(* for a second package forgets, and is not claimed to.                    *)
NothingForgotten ==
    ~shared => \A i \in 0 .. next - 1 :
        NeedsRetransmission(i) \/ Receiving > sending \/ (Receiving = sending /\ Holds(i))

(* Under loss, duplication and reordering every package arrives.           *)
TransferCompletes == ~shared => <>(delivered = Packages)
=============================================================================
