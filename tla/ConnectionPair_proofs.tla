------------------------ MODULE ConnectionPair_proofs ------------------------
(***************************************************************************)
(* Proofs about ConnectionPair, for any two endpoints, any set of regimes  *)
(* and a network of any capacity of at least two.                          *)
(***************************************************************************)
EXTENDS ConnectionPair, TLAPS

(* Other swaps the two endpoints.                                          *)
LEMMA OtherSwaps ==
    ASSUME NEW p \in Peers
    PROVE  /\ Other(p) \in Peers /\ Other(p) # p /\ Other(Other(p)) = p
           /\ \A x \in Peers : x = p \/ x = Other(p)
BY EndpointsDiffer DEF Peers, Other

(* The handlers stay within the ten states.                                *)
LEMMA HandlersTyped ==
    ASSUME NEW s \in States
    PROVE  /\ Initiate(s) \in States /\ InitiateClose(s) \in States
           /\ CloseCall(s) \in States /\ HandleIncomingSYN(s) \in States
           /\ HandleIncomingSYNACK(s) \in States /\ HandleIncomingACK(s) \in States
           /\ HandleIncomingFIN(s) \in States /\ HandleReset(s) \in States
           /\ SimulateTimeWaitTimeout(s) \in States /\ SimulateTimeout(s) \in States
BY DEF States, Initiate, InitiateClose, CloseCall, HandleIncomingSYN,
       HandleIncomingSYNACK, HandleIncomingACK, HandleIncomingFIN, HandleReset,
       SimulateTimeWaitTimeout, SimulateTimeout

(* Putting a packet in the network, and taking one out, keeps its type.    *)
LEMMA NetworkTyped ==
    ASSUME NEW n \in [Peers -> [Kinds -> 0 .. MaxCopies]],
           NEW p \in Peers, NEW m \in Kinds
    PROVE  /\ Put(n, p, m) \in [Peers -> [Kinds -> 0 .. MaxCopies]]
           /\ n[p][m] > 0 => Take(n, p, m) \in [Peers -> [Kinds -> 0 .. MaxCopies]]
BY NetworkHoldsTwo DEF Put, Take

LEMMA TypeInit == Init => TypeOK
BY NetworkHoldsTwo, RegimesAreKnown DEF Init, TypeOK, States

LEMMA TypeStep == TypeOK /\ [Next]_vars => TypeOK'
<1> SUFFICES ASSUME TypeOK, Next PROVE TypeOK'
    BY DEF TypeOK, vars
<1> USE DEF TypeOK
<1>1. PICK p \in Peers : \/ Application(p) \/ Arrival(p) \/ TimeWaitExpires(p)
                         \/ Timeout(p) \/ Network(p)
    BY DEF Next
<1>2. faults' \in SUBSET FaultKinds
    BY DEF Next
<1>3. Other(p) \in Peers /\ Other(p) # p
    BY OtherSwaps
<1>4. \A m \in Kinds : Put(net, Other(p), m) \in [Peers -> [Kinds -> 0 .. MaxCopies]]
    BY <1>3, NetworkTyped
<1>5. CASE Application(p)
    BY <1>2, <1>4, <1>5, HandlersTyped
    DEF Application, AppInitiate, AppInitiateClose, AppClose, Move, Kinds
<1>6. CASE Arrival(p)
    <2>1. ASSUME NEW m \in Kinds, NEW s \in States, NEW a \in Kinds, Receive(p, m, s, a)
          PROVE  TypeOK'
        <3>1. net[p][m] > 0 /\ state' = [state EXCEPT ![p] = s]
            BY <2>1 DEF Receive, Arrives
        <3>2. Take(net, p, m) \in [Peers -> [Kinds -> 0 .. MaxCopies]]
            BY <3>1, NetworkTyped
        <3>3. Put(Take(net, p, m), Other(p), a) \in [Peers -> [Kinds -> 0 .. MaxCopies]]
            BY <1>3, <3>2, NetworkTyped
        <3> QED BY <1>2, <2>1, <3>1, <3>2, <3>3 DEF Receive
    <2>2. CASE ReceiveACK(p)
        <3>1. Take(net, p, "ACK") \in [Peers -> [Kinds -> 0 .. MaxCopies]]
            BY <2>2, NetworkTyped DEF ReceiveACK, Arrives, Kinds
        <3> QED BY <1>2, <2>2, <3>1, HandlersTyped DEF ReceiveACK
    <2> QED BY <1>6, <2>1, <2>2, HandlersTyped
            DEF Arrival, ReceiveSYN, ReceiveSYNACK, ReceiveFIN, Kinds
<1>7. CASE TimeWaitExpires(p) \/ Timeout(p)
    BY <1>2, <1>7, HandlersTyped DEF TimeWaitExpires, Timeout, Move
<1>8. CASE Network(p)
    <2>1. PICK m \in Kinds : Lose(p, m)
        BY <1>8 DEF Network
    <2> QED BY <1>2, <2>1, NetworkTyped DEF Lose
<1> QED BY <1>1, <1>5, <1>6, <1>7, <1>8

(* Every reachable state is well typed: no packet count leaves its range   *)
(* and no handler leaves the state machine.                                *)
THEOREM TypeCorrect == Spec => []TypeOK
BY TypeInit, TypeStep, PTL DEF Spec

-----------------------------------------------------------------------------
(* With at most one packet of a kind in flight, the network is a set.      *)
LEMMA OneInFlight ==
    ASSUME NEW n \in [Peers -> [Kinds -> 0 .. MaxCopies]],
           NEW p \in Peers, NEW m \in Kinds
    PROVE  /\ n[p][m] = 0 => Put(n, p, m) = [n EXCEPT ![p][m] = 1]
           /\ n[p][m] = 1 => Take(n, p, m) = [n EXCEPT ![p][m] = 0]
<1>1. ASSUME n[p][m] = 0 PROVE Put(n, p, m) = [n EXCEPT ![p][m] = 1]
    <2>1. n[p][m] + 1 = 1 /\ n[p][m] < MaxCopies
        BY <1>1, NetworkHoldsTwo
    <2>2. Put(n, p, m) = [n EXCEPT ![p][m] = n[p][m] + 1]
        BY <2>1 DEF Put
    <2> QED BY <2>1, <2>2
<1>2. ASSUME n[p][m] = 1 PROVE Take(n, p, m) = [n EXCEPT ![p][m] = 0]
    <2>1. n[p][m] - 1 = 0
        BY <1>2
    <2>2. Take(n, p, m) = [n EXCEPT ![p][m] = n[p][m] - 1]
        BY DEF Take
    <2> QED BY <2>1, <2>2
<1> QED BY <1>1, <1>2

(* Taking a packet and answering it touches the two counts concerned.      *)
LEMMA Exchange ==
    ASSUME NEW n \in [Peers -> [Kinds -> 0 .. MaxCopies]],
           NEW p \in Peers, NEW m \in Kinds, NEW a \in Kinds,
           n[p][m] = 1, n[Other(p)][a] = 0
    PROVE  Put(Take(n, p, m), Other(p), a) = [n EXCEPT ![p][m] = 0, ![Other(p)][a] = 1]
<1>1. Other(p) \in Peers /\ Other(p) # p
    BY OtherSwaps
<1>2. Take(n, p, m) = [n EXCEPT ![p][m] = 0]
    BY OneInFlight
<1>3. Take(n, p, m) \in [Peers -> [Kinds -> 0 .. MaxCopies]]
    BY NetworkTyped
<1>4. Take(n, p, m)[Other(p)][a] = 0
    BY <1>1, <1>2
<1>5. Put(Take(n, p, m), Other(p), a) = [Take(n, p, m) EXCEPT ![Other(p)][a] = 1]
    BY <1>1, <1>3, <1>4, OneInFlight
<1> QED BY <1>2, <1>5

LEMMA SafetyInit == Init => IInv
BY TypeInit
DEF Init, IInv, OnePacketOfAKind, AckIsOwed, SidesAgree, SynIsCurrent, FinIsCurrent,
    InFlight, HoldsConnection, Kinds

(* Every step keeps the invariant.  In every case p    *)
(* is the endpoint that moves and q its peer.                              *)
LEMMA SafetyStep == IInv /\ [Next]_vars => IInv'
<1> SUFFICES ASSUME IInv, Next PROVE IInv'
    BY DEF IInv, TypeOK, OnePacketOfAKind, AckIsOwed, SidesAgree, SynIsCurrent,
           FinIsCurrent, InFlight, HoldsConnection, vars
<1>1. TypeOK /\ TypeOK'
    BY TypeStep DEF IInv
<1> SUFFICES (OnePacketOfAKind /\ AckIsOwed /\ SidesAgree /\ SynIsCurrent /\ FinIsCurrent)'
    BY <1>1 DEF IInv
<1>2. PICK p \in Peers : \/ Application(p) \/ Arrival(p) \/ TimeWaitExpires(p)
                         \/ Timeout(p) \/ Network(p)
    BY DEF Next
<1> DEFINE q == Other(p)
<1>3. /\ q \in Peers /\ q # p /\ Other(q) = p
      /\ \A x \in Peers : x = p \/ x = q
    BY OtherSwaps
<1>n. /\ net \in [Peers -> [Kinds -> 0 .. MaxCopies]]
      /\ {"SYN", "SYNACK", "ACK", "FIN"} \subseteq Kinds
    BY <1>1 DEF TypeOK, Kinds
<1> USE DEF InFlight, HoldsConnection
(* A packet that is lost, or consumed without effect.                      *)
<1>d. ASSUME NEW m \in Kinds, net[p][m] > 0, state' = state, net' = Take(net, p, m)
      PROVE  (OnePacketOfAKind /\ AckIsOwed /\ SidesAgree /\ SynIsCurrent /\ FinIsCurrent)'
    <2>1. net' = [net EXCEPT ![p][m] = 0]
        BY <1>d, <1>n, OneInFlight DEF IInv, OnePacketOfAKind
    <2> QED BY <1>1, <1>3, <1>d, <2>1
        DEF IInv, TypeOK, OnePacketOfAKind, AckIsOwed, SidesAgree, SynIsCurrent, FinIsCurrent,
            Partners, States, Kinds
<1>4. CASE AppInitiate(p)
    <2>1. /\ state[p] = "CLOSED" /\ state'[p] = "SYN_SENT" /\ state'[q] = state[q]
        BY <1>1, <1>3, <1>4 DEF AppInitiate, Move, Initiate, TypeOK
    <2>2. net' = Put(net, q, "SYN") /\ net[q]["SYN"] = 0
        BY <1>1, <1>3, <1>4, <2>1 DEF AppInitiate, IInv, SynIsCurrent, TypeOK, Kinds
    <2>3. net' = [net EXCEPT ![q]["SYN"] = 1]
        BY <1>1, <1>3, <2>2, OneInFlight DEF TypeOK, Kinds
    <2> QED BY <1>1, <1>3, <2>1, <2>3
        DEF IInv, TypeOK, OnePacketOfAKind, AckIsOwed, SidesAgree, SynIsCurrent, FinIsCurrent,
            Partners, States, Kinds
<1>5. CASE AppInitiateClose(p)
    <2>1. /\ state[p] = "ESTABLISHED" /\ state'[p] = "FIN_WAIT_1" /\ state'[q] = state[q]
        BY <1>1, <1>3, <1>5 DEF AppInitiateClose, Move, InitiateClose, TypeOK
    <2>2. net' = Put(net, q, "FIN") /\ net[q]["FIN"] = 0
        BY <1>1, <1>3, <1>5, <2>1 DEF AppInitiateClose, IInv, FinIsCurrent, TypeOK, Kinds
    <2>3. net' = [net EXCEPT ![q]["FIN"] = 1]
        BY <1>1, <1>3, <2>2, OneInFlight DEF TypeOK, Kinds
    <2> QED BY <1>1, <1>3, <2>1, <2>3
        DEF IInv, TypeOK, OnePacketOfAKind, AckIsOwed, SidesAgree, SynIsCurrent, FinIsCurrent,
            Partners, States, Kinds
<1>6. CASE AppClose(p)
    <2>1. /\ state[p] = "CLOSE_WAIT" /\ state'[p] = "LAST_ACK" /\ state'[q] = state[q]
        BY <1>1, <1>3, <1>6 DEF AppClose, Move, CloseCall, TypeOK
    <2>2. net' = Put(net, q, "FIN") /\ net[q]["FIN"] = 0
        BY <1>1, <1>3, <1>6, <2>1 DEF AppClose, IInv, FinIsCurrent, TypeOK, Kinds
    <2>3. net' = [net EXCEPT ![q]["FIN"] = 1]
        BY <1>1, <1>3, <2>2, OneInFlight DEF TypeOK, Kinds
    <2> QED BY <1>1, <1>3, <2>1, <2>3
        DEF IInv, TypeOK, OnePacketOfAKind, AckIsOwed, SidesAgree, SynIsCurrent, FinIsCurrent,
            Partners, States, Kinds
<1>7. CASE ReceiveSYN(p)
    <2>1. net[p]["SYN"] = 1 /\ net[q]["SYNACK"] = 0 /\ state[q] = "SYN_SENT"
        BY <1>1, <1>3, <1>7
        DEF ReceiveSYN, Receive, Arrives, IInv, OnePacketOfAKind, AckIsOwed, SidesAgree, SynIsCurrent, FinIsCurrent, Partners, TypeOK, Kinds
    <2>2. CASE state[p] = "CLOSED"
        <3>1. /\ state'[p] = "SYN_RECEIVED" /\ state'[q] = state[q]
              /\ net' = Put(Take(net, p, "SYN"), q, "SYNACK") /\ net[q]["SYNACK"] = 0
            BY <1>1, <1>3, <1>7, <2>1, <2>2
            DEF ReceiveSYN, Receive, HandleIncomingSYN, IInv, OnePacketOfAKind, AckIsOwed, SidesAgree, SynIsCurrent, FinIsCurrent, Partners, TypeOK, Kinds
        <3>2. net' = [net EXCEPT ![p]["SYN"] = 0, ![q]["SYNACK"] = 1]
            BY <1>n, <2>1, <3>1, Exchange
        <3>3. /\ net'[p]["SYN"] = 0 /\ net'[q]["SYNACK"] = 1
              /\ \A m \in Kinds \ {"SYN"} : net'[p][m] = net[p][m]
              /\ \A m \in Kinds \ {"SYNACK"} : net'[q][m] = net[q][m]
            BY <1>n, <1>3, <3>2
        <3>4. OnePacketOfAKind'
            BY <1>1, <1>3, <3>3
            DEF IInv, TypeOK, OnePacketOfAKind, Kinds
        <3>5. AckIsOwed'
            BY <1>1, <1>3, <2>1, <2>2, <3>1, <3>3
            DEF IInv, TypeOK, AckIsOwed, SidesAgree, SynIsCurrent, FinIsCurrent, Partners, States, Kinds
        <3>6. SidesAgree'
            BY <1>1, <1>3, <2>1, <2>2, <3>1, <3>3
            DEF IInv, TypeOK, AckIsOwed, SidesAgree, SynIsCurrent, FinIsCurrent, Partners, States, Kinds
        <3>7. SynIsCurrent'
            BY <1>1, <1>3, <2>1, <2>2, <3>1, <3>3
            DEF IInv, TypeOK, OnePacketOfAKind, AckIsOwed, SynIsCurrent, Kinds
        <3>8. FinIsCurrent'
            BY <1>1, <1>3, <2>1, <2>2, <3>1, <3>3
            DEF IInv, TypeOK, OnePacketOfAKind, AckIsOwed, SidesAgree, SynIsCurrent, FinIsCurrent, Partners, States, Kinds
        <3> QED BY <3>4, <3>5, <3>6, <3>7, <3>8
    <2>3. CASE state[p] \notin {"CLOSED"}
        BY <1>1, <1>d, <1>n, <1>7, <2>3 DEF ReceiveSYN, Receive, Arrives, HandleIncomingSYN, TypeOK
    <2> QED BY <2>2, <2>3
<1>8. CASE ReceiveSYNACK(p)
    <2>1. net[p]["SYNACK"] = 1 /\ state[p] = "SYN_SENT" /\ state[q] = "SYN_RECEIVED"
        BY <1>1, <1>3, <1>8
        DEF ReceiveSYNACK, Receive, Arrives, IInv, OnePacketOfAKind, AckIsOwed, SidesAgree, SynIsCurrent, FinIsCurrent, Partners, TypeOK, Kinds
    <2>2. CASE state[p] = "SYN_SENT"
        <3>1. /\ state'[p] = "ESTABLISHED" /\ state'[q] = state[q]
              /\ net' = Put(Take(net, p, "SYNACK"), q, "ACK") /\ net[q]["ACK"] = 0
            BY <1>1, <1>3, <1>8, <2>1, <2>2
            DEF ReceiveSYNACK, Receive, HandleIncomingSYNACK, IInv, OnePacketOfAKind, AckIsOwed, SidesAgree, SynIsCurrent, FinIsCurrent, Partners, TypeOK, Kinds
        <3>2. net' = [net EXCEPT ![p]["SYNACK"] = 0, ![q]["ACK"] = 1]
            BY <1>n, <2>1, <3>1, Exchange
        <3>3. /\ net'[p]["SYNACK"] = 0 /\ net'[q]["ACK"] = 1
              /\ \A m \in Kinds \ {"SYNACK"} : net'[p][m] = net[p][m]
              /\ \A m \in Kinds \ {"ACK"} : net'[q][m] = net[q][m]
            BY <1>n, <1>3, <3>2
        <3>4. OnePacketOfAKind'
            BY <1>1, <1>3, <3>3
            DEF IInv, TypeOK, OnePacketOfAKind, Kinds
        <3>5. AckIsOwed'
            BY <1>1, <1>3, <2>1, <2>2, <3>1, <3>3
            DEF IInv, TypeOK, AckIsOwed, SidesAgree, SynIsCurrent, FinIsCurrent, Partners, States, Kinds
        <3>6. SidesAgree'
            BY <1>1, <1>3, <2>1, <2>2, <3>1, <3>3
            DEF IInv, TypeOK, AckIsOwed, SidesAgree, SynIsCurrent, FinIsCurrent, Partners, States, Kinds
        <3>7. SynIsCurrent'
            BY <1>1, <1>3, <2>1, <2>2, <3>1, <3>3
            DEF IInv, TypeOK, OnePacketOfAKind, AckIsOwed, SynIsCurrent, Kinds
        <3>8. FinIsCurrent'
            BY <1>1, <1>3, <2>1, <2>2, <3>1, <3>3
            DEF IInv, TypeOK, OnePacketOfAKind, AckIsOwed, SidesAgree, SynIsCurrent, FinIsCurrent, Partners, States, Kinds
        <3> QED BY <3>4, <3>5, <3>6, <3>7, <3>8
    <2>3. CASE state[p] \notin {"SYN_SENT"}
        BY <1>1, <1>d, <1>n, <1>8, <2>3 DEF ReceiveSYNACK, Receive, Arrives, HandleIncomingSYNACK, TypeOK
    <2> QED BY <2>2, <2>3
<1>9. CASE ReceiveFIN(p)
    <2>1. net[p]["FIN"] = 1 /\ net[q]["ACK"] = 0 /\ state[q] \in {"FIN_WAIT_1", "CLOSING", "LAST_ACK"}
        BY <1>1, <1>3, <1>9
        DEF ReceiveFIN, Receive, Arrives, IInv, OnePacketOfAKind, AckIsOwed, SidesAgree, SynIsCurrent, FinIsCurrent, Partners, TypeOK, Kinds
    <2>2. CASE state[p] = "ESTABLISHED"
        <3>0. state[q] = "FIN_WAIT_1" /\ net[p]["ACK"] = 0
            BY <1>1, <1>3, <2>1, <2>2
            DEF IInv, AckIsOwed, SidesAgree, FinIsCurrent, Partners, TypeOK, Kinds
        <3>1. /\ state'[p] = "CLOSE_WAIT" /\ state'[q] = state[q]
              /\ net' = Put(Take(net, p, "FIN"), q, "ACK") /\ net[q]["ACK"] = 0
            BY <1>1, <1>3, <1>9, <2>1, <2>2
            DEF ReceiveFIN, Receive, HandleIncomingFIN, IInv, OnePacketOfAKind, AckIsOwed, SidesAgree, SynIsCurrent, FinIsCurrent, Partners, TypeOK, Kinds
        <3>2. net' = [net EXCEPT ![p]["FIN"] = 0, ![q]["ACK"] = 1]
            <4>1. net[p]["FIN"] = 1 /\ net[q]["ACK"] = 0
                BY <2>1
            <4>2. net' = Put(Take(net, p, "FIN"), q, "ACK")
                BY <3>1
            <4> QED BY <1>n, <4>1, <4>2, Exchange
        <3>3. /\ net'[p]["FIN"] = 0 /\ net'[q]["ACK"] = 1
              /\ \A m \in Kinds \ {"FIN"} : net'[p][m] = net[p][m]
              /\ \A m \in Kinds \ {"ACK"} : net'[q][m] = net[q][m]
            BY <1>n, <1>3, <3>2
        <3>4. OnePacketOfAKind'
            BY <1>1, <1>3, <3>3
            DEF IInv, TypeOK, OnePacketOfAKind, Kinds
        <3>5. AckIsOwed'
            BY <1>1, <1>3, <2>2, <3>0, <3>1, <3>3
            DEF IInv, TypeOK, AckIsOwed, Kinds
        <3>6. SidesAgree'
            BY <1>1, <1>3, <2>1, <2>2, <3>1, <3>3
            DEF IInv, TypeOK, AckIsOwed, SidesAgree, SynIsCurrent, FinIsCurrent, Partners, States, Kinds
        <3>7. SynIsCurrent'
            BY <1>1, <1>3, <2>1, <2>2, <3>1, <3>3
            DEF IInv, TypeOK, OnePacketOfAKind, AckIsOwed, SynIsCurrent, Kinds
        <3>8. FinIsCurrent'
            BY <1>1, <1>3, <2>1, <2>2, <3>1, <3>3
            DEF IInv, TypeOK, OnePacketOfAKind, AckIsOwed, SidesAgree, SynIsCurrent, FinIsCurrent, Partners, States, Kinds
        <3> QED BY <3>4, <3>5, <3>6, <3>7, <3>8
    <2>3. CASE state[p] = "FIN_WAIT_1"
        <3>1. /\ state'[p] = "CLOSING" /\ state'[q] = state[q]
              /\ net' = Put(Take(net, p, "FIN"), q, "ACK") /\ net[q]["ACK"] = 0
            BY <1>1, <1>3, <1>9, <2>1, <2>3
            DEF ReceiveFIN, Receive, HandleIncomingFIN, IInv, OnePacketOfAKind, AckIsOwed, SidesAgree, SynIsCurrent, FinIsCurrent, Partners, TypeOK, Kinds
        <3>2. net' = [net EXCEPT ![p]["FIN"] = 0, ![q]["ACK"] = 1]
            <4>1. net[p]["FIN"] = 1 /\ net[q]["ACK"] = 0
                BY <2>1
            <4>2. net' = Put(Take(net, p, "FIN"), q, "ACK")
                BY <3>1
            <4> QED BY <1>n, <4>1, <4>2, Exchange
        <3>3. /\ net'[p]["FIN"] = 0 /\ net'[q]["ACK"] = 1
              /\ \A m \in Kinds \ {"FIN"} : net'[p][m] = net[p][m]
              /\ \A m \in Kinds \ {"ACK"} : net'[q][m] = net[q][m]
            BY <1>n, <1>3, <3>2
        <3>4. OnePacketOfAKind'
            BY <1>1, <1>3, <3>3
            DEF IInv, TypeOK, OnePacketOfAKind, Kinds
        <3>5. AckIsOwed'
            BY <1>1, <1>3, <2>1, <2>3, <3>1, <3>3
            DEF IInv, TypeOK, AckIsOwed, SidesAgree, Partners, Kinds
        <3>6. SidesAgree'
            BY <1>1, <1>3, <2>1, <2>3, <3>1, <3>3
            DEF IInv, TypeOK, AckIsOwed, SidesAgree, SynIsCurrent, FinIsCurrent, Partners, States, Kinds
        <3>7. SynIsCurrent'
            BY <1>1, <1>3, <2>1, <2>3, <3>1, <3>3
            DEF IInv, TypeOK, OnePacketOfAKind, AckIsOwed, SynIsCurrent, Kinds
        <3>8. FinIsCurrent'
            BY <1>1, <1>3, <2>1, <2>3, <3>1, <3>3
            DEF IInv, TypeOK, OnePacketOfAKind, AckIsOwed, SidesAgree, SynIsCurrent, FinIsCurrent, Partners, States, Kinds
        <3> QED BY <3>4, <3>5, <3>6, <3>7, <3>8
    <2>4. CASE state[p] = "FIN_WAIT_2"
        <3>0. state[q] \in {"CLOSING", "LAST_ACK"} /\ net[p]["ACK"] = 0
            BY <1>1, <1>3, <2>1, <2>4
            DEF IInv, AckIsOwed, SidesAgree, FinIsCurrent, Partners, TypeOK, Kinds
        <3>1. /\ state'[p] = "TIME_WAIT" /\ state'[q] = state[q]
              /\ net' = Put(Take(net, p, "FIN"), q, "ACK") /\ net[q]["ACK"] = 0
            BY <1>1, <1>3, <1>9, <2>1, <2>4
            DEF ReceiveFIN, Receive, HandleIncomingFIN, IInv, OnePacketOfAKind, AckIsOwed, SidesAgree, SynIsCurrent, FinIsCurrent, Partners, TypeOK, Kinds
        <3>2. net' = [net EXCEPT ![p]["FIN"] = 0, ![q]["ACK"] = 1]
            <4>1. net[p]["FIN"] = 1 /\ net[q]["ACK"] = 0
                BY <2>1
            <4>2. net' = Put(Take(net, p, "FIN"), q, "ACK")
                BY <3>1
            <4> QED BY <1>n, <4>1, <4>2, Exchange
        <3>3. /\ net'[p]["FIN"] = 0 /\ net'[q]["ACK"] = 1
              /\ \A m \in Kinds \ {"FIN"} : net'[p][m] = net[p][m]
              /\ \A m \in Kinds \ {"ACK"} : net'[q][m] = net[q][m]
            BY <1>n, <1>3, <3>2
        <3>4. OnePacketOfAKind'
            BY <1>1, <1>3, <3>3
            DEF IInv, TypeOK, OnePacketOfAKind, Kinds
        <3>5. AckIsOwed'
            BY <1>1, <1>3, <2>4, <3>0, <3>1, <3>3
            DEF IInv, TypeOK, AckIsOwed, Kinds
        <3>6. SidesAgree'
            BY <1>1, <1>3, <2>1, <2>4, <3>1, <3>3
            DEF IInv, TypeOK, AckIsOwed, SidesAgree, SynIsCurrent, FinIsCurrent, Partners, States, Kinds
        <3>7. SynIsCurrent'
            BY <1>1, <1>3, <2>1, <2>4, <3>1, <3>3
            DEF IInv, TypeOK, OnePacketOfAKind, AckIsOwed, SynIsCurrent, Kinds
        <3>8. FinIsCurrent'
            BY <1>1, <1>3, <2>1, <2>4, <3>1, <3>3
            DEF IInv, TypeOK, OnePacketOfAKind, AckIsOwed, SidesAgree, SynIsCurrent, FinIsCurrent, Partners, States, Kinds
        <3> QED BY <3>4, <3>5, <3>6, <3>7, <3>8
    <2>5. CASE state[p] \notin {"ESTABLISHED", "FIN_WAIT_1", "FIN_WAIT_2"}
        BY <1>1, <1>d, <1>n, <1>9, <2>5 DEF ReceiveFIN, Receive, Arrives, HandleIncomingFIN, TypeOK
    <2> QED BY <2>2, <2>3, <2>4, <2>5
<1>10. CASE ReceiveACK(p)
    <2>1. /\ net[p]["ACK"] = 1 /\ net[q]["FIN"] = 0
          /\ state[p] \in {"SYN_RECEIVED", "FIN_WAIT_1", "CLOSING", "LAST_ACK"}
        BY <1>1, <1>3, <1>10
        DEF ReceiveACK, Arrives, IInv, OnePacketOfAKind, AckIsOwed, SidesAgree, SynIsCurrent, FinIsCurrent, Partners, TypeOK, Kinds
    <2>2. /\ state'[p] = HandleIncomingACK(state[p]) /\ state'[q] = state[q]
        BY <1>1, <1>3, <1>10 DEF ReceiveACK, TypeOK
    <2>3. net' = [net EXCEPT ![p]["ACK"] = 0]
        BY <1>n, <1>10, <2>1, OneInFlight DEF ReceiveACK
    <2>4. /\ net'[p]["ACK"] = 0 /\ net'[q] = net[q]
          /\ \A m \in Kinds \ {"ACK"} : net'[p][m] = net[p][m]
        BY <1>n, <1>3, <2>3
    <2>5. CASE state[p] = "SYN_RECEIVED"
        <3>1. /\ state'[p] = "ESTABLISHED"
              /\ state[q] \in {"ESTABLISHED", "FIN_WAIT_1"}
            BY <1>1, <1>3, <2>1, <2>2, <2>5
            DEF HandleIncomingACK, IInv, AckIsOwed, SidesAgree, Partners, TypeOK, States, Kinds
        <3>2. OnePacketOfAKind'
            BY <1>1, <1>3, <2>1, <2>2, <2>4, <2>5, <3>1
            DEF IInv, TypeOK, OnePacketOfAKind, Kinds
        <3>3. AckIsOwed'
            BY <1>1, <1>3, <2>1, <2>2, <2>4, <2>5, <3>1
            DEF IInv, TypeOK, AckIsOwed, Kinds
        <3>4. SidesAgree'
            BY <1>1, <1>3, <2>1, <2>2, <2>4, <2>5, <3>1
            DEF IInv, TypeOK, SidesAgree, Partners, States, Kinds
        <3>5. SynIsCurrent'
            BY <1>1, <1>3, <2>1, <2>2, <2>4, <2>5, <3>1
            DEF IInv, TypeOK, SynIsCurrent, Kinds
        <3>6. FinIsCurrent'
            BY <1>1, <1>3, <2>1, <2>2, <2>4, <2>5, <3>1
            DEF IInv, TypeOK, FinIsCurrent, Kinds
        <3> QED BY <3>2, <3>3, <3>4, <3>5, <3>6
    <2>6. CASE state[p] = "FIN_WAIT_1"
        <3>1. /\ state'[p] = "FIN_WAIT_2"
              /\ state[q] \in {"CLOSE_WAIT", "LAST_ACK", "CLOSING"}
            BY <1>1, <1>3, <2>1, <2>2, <2>6
            DEF HandleIncomingACK, IInv, AckIsOwed, SidesAgree, Partners, TypeOK, States, Kinds
        <3>2. OnePacketOfAKind'
            BY <1>1, <1>3, <2>1, <2>2, <2>4, <2>6, <3>1
            DEF IInv, TypeOK, OnePacketOfAKind, Kinds
        <3>3. AckIsOwed'
            BY <1>1, <1>3, <2>1, <2>2, <2>4, <2>6, <3>1
            DEF IInv, TypeOK, AckIsOwed, Kinds
        <3>4. SidesAgree'
            BY <1>1, <1>3, <2>1, <2>2, <2>4, <2>6, <3>1
            DEF IInv, TypeOK, SidesAgree, Partners, States, Kinds
        <3>5. SynIsCurrent'
            BY <1>1, <1>3, <2>1, <2>2, <2>4, <2>6, <3>1
            DEF IInv, TypeOK, SynIsCurrent, Kinds
        <3>6. FinIsCurrent'
            BY <1>1, <1>3, <2>1, <2>2, <2>4, <2>6, <3>1
            DEF IInv, TypeOK, FinIsCurrent, Kinds
        <3> QED BY <3>2, <3>3, <3>4, <3>5, <3>6
    <2>7. CASE state[p] = "CLOSING"
        <3>1. /\ state'[p] = "TIME_WAIT"
              /\ state[q] \in {"CLOSING", "LAST_ACK", "TIME_WAIT", "CLOSED", "SYN_SENT"}
            BY <1>1, <1>3, <2>1, <2>2, <2>7
            DEF HandleIncomingACK, IInv, AckIsOwed, SidesAgree, Partners, TypeOK, States, Kinds
        <3>2. OnePacketOfAKind'
            BY <1>1, <1>3, <2>1, <2>2, <2>4, <2>7, <3>1
            DEF IInv, TypeOK, OnePacketOfAKind, Kinds
        <3>3. AckIsOwed'
            BY <1>1, <1>3, <2>1, <2>2, <2>4, <2>7, <3>1
            DEF IInv, TypeOK, AckIsOwed, Kinds
        <3>4. SidesAgree'
            BY <1>1, <1>3, <2>1, <2>2, <2>4, <2>7, <3>1
            DEF IInv, TypeOK, SidesAgree, Partners, States, Kinds
        <3>5. SynIsCurrent'
            BY <1>1, <1>3, <2>1, <2>2, <2>4, <2>7, <3>1
            DEF IInv, TypeOK, SynIsCurrent, Kinds
        <3>6. FinIsCurrent'
            BY <1>1, <1>3, <2>1, <2>2, <2>4, <2>7, <3>1
            DEF IInv, TypeOK, FinIsCurrent, Kinds
        <3> QED BY <3>2, <3>3, <3>4, <3>5, <3>6
    <2>8. CASE state[p] = "LAST_ACK"
        <3>1. /\ state'[p] = "CLOSED"
              /\ state[q] \in {"CLOSING", "TIME_WAIT", "CLOSED", "SYN_SENT"}
            BY <1>1, <1>3, <2>1, <2>2, <2>8
            DEF HandleIncomingACK, IInv, AckIsOwed, SidesAgree, Partners, TypeOK, States, Kinds
        <3>2. OnePacketOfAKind'
            BY <1>1, <1>3, <2>1, <2>2, <2>4, <2>8, <3>1
            DEF IInv, TypeOK, OnePacketOfAKind, Kinds
        <3>3. AckIsOwed'
            BY <1>1, <1>3, <2>1, <2>2, <2>4, <2>8, <3>1
            DEF IInv, TypeOK, AckIsOwed, Kinds
        <3>4. SidesAgree'
            BY <1>1, <1>3, <2>1, <2>2, <2>4, <2>8, <3>1
            DEF IInv, TypeOK, SidesAgree, Partners, States, Kinds
        <3>5. SynIsCurrent'
            BY <1>1, <1>3, <2>1, <2>2, <2>4, <2>8, <3>1
            DEF IInv, TypeOK, SynIsCurrent, Kinds
        <3>6. FinIsCurrent'
            BY <1>1, <1>3, <2>1, <2>2, <2>4, <2>8, <3>1
            DEF IInv, TypeOK, FinIsCurrent, Kinds
        <3> QED BY <3>2, <3>3, <3>4, <3>5, <3>6
    <2> QED BY <2>1, <2>5, <2>6, <2>7, <2>8
<1>11. CASE TimeWaitExpires(p)
    <2>1. /\ state[p] = "TIME_WAIT" /\ state'[p] = "CLOSED" /\ state'[q] = state[q]
          /\ net' = net
        BY <1>1, <1>3, <1>11 DEF TimeWaitExpires, Move, SimulateTimeWaitTimeout, TypeOK
    <2> QED BY <1>1, <1>3, <2>1
        DEF States, IInv, OnePacketOfAKind, AckIsOwed, SidesAgree, SynIsCurrent, FinIsCurrent, Partners, TypeOK, Kinds
<1>12. CASE Timeout(p)
    <2>1. /\ state'[p] = "CLOSED" /\ state'[q] = state[q] /\ net' = net
          /\ \A x \in Peers, m \in Kinds : net[x][m] = 0
        BY <1>1, <1>3, <1>12 DEF Timeout, Quiet, Move, SimulateTimeout, TypeOK
    <2> QED BY <1>1, <1>3, <2>1
        DEF States, IInv, OnePacketOfAKind, AckIsOwed, SidesAgree, SynIsCurrent, FinIsCurrent, Partners, TypeOK, Kinds
<1>13. CASE Network(p)
    <2>1. PICK m \in Kinds : Lose(p, m)
        BY <1>13 DEF Network
    <2> QED BY <1>d, <2>1 DEF Lose
<1> QED
    BY <1>2, <1>4, <1>5, <1>6, <1>7, <1>8, <1>9, <1>10, <1>11, <1>12, <1>13
    DEF Application, Arrival

(* Under every regime the safety invariants hold in every reachable        *)
(* state, however often the endpoints connect and close.                   *)
THEOREM PairIsSafe ==
    Spec => [](OnePacketOfAKind /\ AckIsOwed /\ SidesAgree)
<1>1. Init => IInv
    BY SafetyInit
<1>2. IInv /\ [Next]_vars => IInv'
    BY SafetyStep
<1>3. IInv => OnePacketOfAKind /\ AckIsOwed /\ SidesAgree
    BY DEF IInv
<1> QED BY <1>1, <1>2, <1>3, PTL DEF Spec

-----------------------------------------------------------------------------
(* A step that moves one endpoint moves one phase.                         *)
LEMMA PhaseStep ==
    ASSUME TypeOK, NEW p \in Peers, NEW s \in States, state' = [state EXCEPT ![p] = s]
    PROVE  /\ phases' = [phases EXCEPT ![p] = PhaseOf(s)]
           /\ \A x \in Peers : phases[x] = PhaseOf(state[x])
BY DEF TypeOK, phases

LEMMA SessionStart == Init => S!SessionInit
BY EndpointsDiffer DEF Init, S!SessionInit, S!Sides, Peers, phases, PhaseOf

(* A step of the pair is a step of the session, or leaves it alone.        *)
LEMMA SessionStep == IInv /\ [Next]_vars => [S!SessionNext]_phases
<1> SUFFICES ASSUME IInv, Next PROVE S!SessionNext \/ phases' = phases
    BY DEF vars, phases
<1>1. TypeOK
    BY DEF IInv
<1>2. PICK p \in Peers : \/ Application(p) \/ Arrival(p) \/ TimeWaitExpires(p)
                         \/ Timeout(p) \/ Network(p)
    BY DEF Next
<1> DEFINE q == Other(p)
<1>3. p \in S!Sides /\ S!Across(p) = q /\ q \in Peers /\ q # p /\ Other(q) = p
    BY OtherSwaps DEF S!Sides, S!Across, Peers, Other
<1>4. state[p] \in States /\ state[q] \in States /\ phases[p] = PhaseOf(state[p])
      /\ phases[q] = PhaseOf(state[q])
    BY <1>1, <1>3 DEF TypeOK, phases
(* It is enough to look at the phase of the endpoint that moves.           *)
<1>5. ASSUME NEW s \in States, state' = [state EXCEPT ![p] = s]
      PROVE  phases' = [phases EXCEPT ![p] = PhaseOf(s)]
    BY <1>1, <1>5, PhaseStep
<1>6. state' = state => phases' = phases
    BY DEF phases
<1>7. CASE Application(p)
    <2>1. CASE AppInitiate(p)
        <3>1. state[p] = "CLOSED" /\ phases' = [phases EXCEPT ![p] = "asking"]
            BY <1>5, <2>1 DEF AppInitiate, Move, Initiate, PhaseOf, States
        <3>2. S!Ask(p)
            BY <1>4, <3>1 DEF S!Ask, S!Become, PhaseOf
        <3> QED BY <1>3, <3>2 DEF S!SessionNext
    <2>2. CASE AppInitiateClose(p)
        <3>1. state[p] = "ESTABLISHED" /\ phases' = [phases EXCEPT ![p] = "closing"]
            BY <1>5, <2>2 DEF AppInitiateClose, Move, InitiateClose, PhaseOf, States
        <3>2. S!Finish(p)
            BY <1>4, <3>1 DEF S!Finish, S!Become, PhaseOf
        <3> QED BY <1>3, <3>2 DEF S!SessionNext
    <2>3. CASE AppClose(p)
        <3>1. state[p] = "CLOSE_WAIT" /\ phases' = [phases EXCEPT ![p] = "closing"]
            BY <1>5, <2>3 DEF AppClose, Move, CloseCall, PhaseOf, States
        <3>2. S!Finish(p)
            BY <1>4, <3>1 DEF S!Finish, S!Become, PhaseOf
        <3> QED BY <1>3, <3>2 DEF S!SessionNext
    <2> QED BY <1>7, <2>1, <2>2, <2>3 DEF Application
<1>8. CASE ReceiveSYN(p)
    <2>1. state[q] = "SYN_SENT"
        BY <1>3, <1>8 DEF ReceiveSYN, Receive, Arrives, IInv, SynIsCurrent, InFlight
    <2>2. CASE state[p] = "CLOSED"
        <3>1. phases' = [phases EXCEPT ![p] = "answering"]
            BY <1>5, <1>8, <2>2 DEF ReceiveSYN, Receive, HandleIncomingSYN, PhaseOf, States
        <3>2. S!Answer(p)
            BY <1>3, <1>4, <2>1, <2>2, <3>1 DEF S!Answer, S!Become, PhaseOf
        <3> QED BY <1>3, <3>2 DEF S!SessionNext
    <2>3. CASE state[p] # "CLOSED"
        BY <1>1, <1>6, <1>8, <2>3 DEF ReceiveSYN, Receive, HandleIncomingSYN, TypeOK
    <2> QED BY <2>2, <2>3
<1>9. CASE ReceiveSYNACK(p)
    <2>1. state[p] = "SYN_SENT" /\ state[q] = "SYN_RECEIVED"
        BY <1>3, <1>9 DEF ReceiveSYNACK, Receive, Arrives, IInv, SynIsCurrent, InFlight
    <2>2. phases' = [phases EXCEPT ![p] = "open"]
        BY <1>5, <1>9, <2>1 DEF ReceiveSYNACK, Receive, HandleIncomingSYNACK, PhaseOf, States
    <2>3. S!Open(p)
        BY <1>3, <1>4, <2>1, <2>2 DEF S!Open, S!Become, PhaseOf
    <2> QED BY <1>3, <2>3 DEF S!SessionNext
<1>10. CASE ReceiveACK(p)
    <2>1. state' = [state EXCEPT ![p] = HandleIncomingACK(state[p])]
        BY <1>10 DEF ReceiveACK
    <2>2. \/ state[p] = "SYN_RECEIVED" /\ state[q] \in {"ESTABLISHED", "FIN_WAIT_1"}
          \/ /\ state[p] \in {"FIN_WAIT_1", "CLOSING"}
             /\ state[q] \notin {"SYN_RECEIVED", "ESTABLISHED"}
          \/ state[p] = "LAST_ACK"
        BY <1>3, <1>10 DEF ReceiveACK, Arrives, IInv, AckIsOwed, InFlight
    <2>3. CASE state[p] = "SYN_RECEIVED"
        <3>1. phases' = [phases EXCEPT ![p] = "open"]
            BY <1>5, <2>1, <2>3 DEF HandleIncomingACK, PhaseOf, States
        <3>2. S!Open(p)
            BY <1>3, <1>4, <2>2, <2>3, <3>1 DEF S!Open, S!Become, PhaseOf
        <3> QED BY <1>3, <3>2 DEF S!SessionNext
    <2>4. CASE state[p] \in {"FIN_WAIT_1", "CLOSING"}
        <3>1. phases' = [phases EXCEPT ![p] = "released"]
            BY <1>5, <2>1, <2>4 DEF HandleIncomingACK, PhaseOf, States
        <3>2. phases[q] \notin {"answering", "open"}
            BY <1>4, <2>2, <2>4 DEF PhaseOf, States
        <3>3. S!Release(p)
            BY <1>3, <1>4, <2>4, <3>1, <3>2 DEF S!Release, S!Become, PhaseOf
        <3> QED BY <1>3, <3>3 DEF S!SessionNext
    <2>5. CASE state[p] = "LAST_ACK"
        <3>1. phases' = [phases EXCEPT ![p] = "idle"]
            BY <1>5, <2>1, <2>5 DEF HandleIncomingACK, PhaseOf, States
        <3>2. S!Forget(p)
            BY <1>4, <2>5, <3>1 DEF S!Forget, S!Become, PhaseOf
        <3> QED BY <1>3, <3>2 DEF S!SessionNext
    <2> QED BY <2>2, <2>3, <2>4, <2>5
<1>11. CASE ReceiveFIN(p)
    <2>1. state' = [state EXCEPT ![p] = HandleIncomingFIN(state[p])]
        BY <1>11 DEF ReceiveFIN, Receive
    <2>2. state[q] \in {"FIN_WAIT_1", "CLOSING", "LAST_ACK"}
        BY <1>3, <1>11 DEF ReceiveFIN, Receive, Arrives, IInv, FinIsCurrent, InFlight
    <2>3. CASE state[p] = "ESTABLISHED"
        <3>1. phases' = [phases EXCEPT ![p] = "half_closed"]
            BY <1>5, <2>1, <2>3 DEF HandleIncomingFIN, PhaseOf, States
        <3>2. S!LearnFinish(p)
            BY <1>3, <1>4, <2>2, <2>3, <3>1 DEF S!LearnFinish, S!Become, PhaseOf
        <3> QED BY <1>3, <3>2 DEF S!SessionNext
    <2>4. CASE state[p] # "ESTABLISHED"
        <3>1. HandleIncomingFIN(state[p]) \in States
              /\ PhaseOf(HandleIncomingFIN(state[p])) = PhaseOf(state[p])
            BY <1>4, <2>4 DEF HandleIncomingFIN, PhaseOf, States
        <3>2. phases' = [phases EXCEPT ![p] = phases[p]]
            BY <1>4, <1>5, <2>1, <3>1
        <3> QED BY <3>2 DEF phases
    <2> QED BY <2>3, <2>4
<1>12. CASE TimeWaitExpires(p) \/ Timeout(p)
    <2>1. /\ state[p] \notin {"CLOSED", "ESTABLISHED"}
          /\ state' = [state EXCEPT ![p] = "CLOSED"]
        BY <1>12 DEF TimeWaitExpires, Timeout, Move, SimulateTimeWaitTimeout, SimulateTimeout
    <2>2. phases' = [phases EXCEPT ![p] = "idle"]
        BY <1>5, <2>1 DEF PhaseOf, States
    <2>3. phases[p] \notin {"idle", "open"}
        BY <1>4, <2>1 DEF PhaseOf, States
    <2>4. S!Forget(p)
        BY <2>2, <2>3 DEF S!Forget, S!Become
    <2> QED BY <1>3, <2>4 DEF S!SessionNext
<1>13. CASE Network(p)
    BY <1>6, <1>13 DEF Network, Lose
<1> QED BY <1>2, <1>7, <1>8, <1>9, <1>10, <1>11, <1>12, <1>13 DEF Arrival

(* The pair implements a session: each step that depends on the other      *)
(* endpoint finds it where the packet says.                                *)
THEOREM PairImplementsSession == Spec => ImplementsSession
<1>1. Init => IInv
    BY SafetyInit
<1>2. IInv /\ [Next]_vars => IInv'
    BY SafetyStep
<1>3. Init => S!SessionInit
    BY SessionStart
<1>4. IInv /\ [Next]_vars => [S!SessionNext]_phases
    BY SessionStep
<1> QED BY <1>1, <1>2, <1>3, <1>4, PTL DEF Spec, ImplementsSession, S!SessionSpec
=============================================================================
