------------------------------ MODULE MCPacket ------------------------------
(* Instances of Packet for TLC.                                            *)
EXTENDS Packet

Message(t, id, s, n, payload) ==
    [type |-> t, packageId |-> id, sequenceNumber |-> s, totalPackets |-> n,
     payload |-> payload]

(* Numbers of one and two groups, and the longest; a type of more than     *)
(* four bits.                                                              *)
ShortMessages ==
    {Message(t, id, s, n, payload) :
        t \in {{0}, {0, 5}},
        id \in {{}, 0 .. 6, {7}, 0 .. 63},
        s \in {{0}, {3, 8}, 0 .. 31},
        n \in {{1}, 0 .. 31},
        payload \in {<<>>, <<{7}, {}>>}}

(* A size of two bytes, and one too large for its field.                   *)
LongMessages ==
    {Message({0}, {0}, {1}, {2}, [i \in 1 .. size |-> {i % 8}]) : size \in {257, 512}}

AllMessages == ShortMessages \cup LongMessages
=============================================================================
