-------------------------- MODULE ConnectionPair --------------------------
(***************************************************************************)
(* Two SRPTConnection endpoints and the packets between them.  The class   *)
(* keeps no socket: its callers send the packets.  Which packet goes with  *)
(* which call is the convention of src/tests/core/test_srpt_connection.cpp *)
(* (a successful initiate sends a SYN, a SYN accepted is answered by a     *)
(* SYNACK, a SYNACK or a FIN accepted by an ACK, initiateClose and close   *)
(* send a FIN).  Packets carry neither a connection nor what they answer:  *)
(* handleIncomingACK takes no argument, so any ACK is every ACK.           *)
(*                                                                         *)
(* A network that repeats packets, a timer shorter than the life of a      *)
(* packet and a reset make an old packet as good as a new one, and the     *)
(* ends may then disagree.  What an endpoint does when any packet may come *)
(* at any time is ConnectionEndpoint.                                      *)
(***************************************************************************)
EXTENDS Naturals, Connection

CONSTANTS Client, Server,  \* the two endpoints
          Regimes,         \* the sets of faults the environment may live under
          MaxCopies        \* copies of one kind of packet the network can hold

FaultKinds == {"loss", "reorder", "timeout"}

ASSUME EndpointsDiffer == Client # Server
ASSUME RegimesAreKnown == Regimes \subseteq SUBSET FaultKinds
ASSUME NetworkHoldsTwo == MaxCopies \in Nat /\ MaxCopies >= 2

Peers == {Client, Server}
Other(p) == IF p = Client THEN Server ELSE Client

Kinds == {"SYN", "SYNACK", "ACK", "FIN"}

VARIABLES state,  \* state[p]: state_ of endpoint p
          net,    \* net[p][m]: packets of kind m on their way to p
          faults  \* what may go wrong in this behaviour, chosen once

vars == <<state, net, faults>>

Init ==
    /\ state = [p \in Peers |-> "CLOSED"]
    /\ net = [p \in Peers |-> [m \in Kinds |-> 0]]
    /\ faults \in Regimes

-----------------------------------------------------------------------------
(* The network.                                                            *)

(* Adding a packet to what is in flight; a full network drops it.          *)
Put(n, p, m) == IF n[p][m] < MaxCopies THEN [n EXCEPT ![p][m] = @ + 1] ELSE n

Take(n, p, m) == [n EXCEPT ![p][m] = @ - 1]

Quiet == \A p \in Peers, m \in Kinds : net[p][m] = 0

(* Without "reorder" a packet never overtakes an ACK sent before it: the   *)
(* ACK that completes the handshake precedes the FIN that follows it, and  *)
(* the ACK that ends a connection precedes the SYN of the next one.        *)
Overtakes(p, m) ==
    /\ net[p]["ACK"] > 0
    /\ m = "SYN" \/ (m = "FIN" /\ state[p] = "SYN_RECEIVED")

Arrives(p, m) ==
    /\ net[p][m] > 0
    /\ "reorder" \in faults \/ ~Overtakes(p, m)

Lose(p, m) ==
    /\ "loss" \in faults
    /\ net[p][m] > 0
    /\ net' = Take(net, p, m)
    /\ UNCHANGED state

-----------------------------------------------------------------------------
(* The application's calls; one that returns false changes nothing and     *)
(* sends nothing, so only the successful ones are steps.                   *)

Move(p, s) == s # state[p] /\ state' = [state EXCEPT ![p] = s]

AppInitiate(p) ==
    /\ Move(p, Initiate(state[p]))
    /\ net' = Put(net, Other(p), "SYN")

AppInitiateClose(p) ==
    /\ Move(p, InitiateClose(state[p]))
    /\ net' = Put(net, Other(p), "FIN")

AppClose(p) ==
    /\ Move(p, CloseCall(state[p]))
    /\ net' = Put(net, Other(p), "FIN")

(* Arrivals.  The packet is consumed; only a handler that returned true is *)
(* answered.                                                               *)

(* An answer to a packet the handler refused, as TCP would repeat one.     *)
ReceiveFaulty(p, m, s, answer) ==
    /\ Arrives(p, m)
    /\ state' = [state EXCEPT ![p] = s]
    /\ net' = Put(Take(net, p, m), Other(p), answer)

Receive(p, m, s, answer) ==
    /\ Arrives(p, m)
    /\ state' = [state EXCEPT ![p] = s]
    /\ net' = IF s # state[p] THEN Put(Take(net, p, m), Other(p), answer)
                              ELSE Take(net, p, m)

ReceiveSYN(p) == Receive(p, "SYN", HandleIncomingSYN(state[p]), "SYNACK")

ReceiveSYNACK(p) == Receive(p, "SYNACK", HandleIncomingSYNACK(state[p]), "ACK")

ReceiveFIN(p) == Receive(p, "FIN", HandleIncomingFIN(state[p]), "ACK")

ReceiveACK(p) ==
    /\ Arrives(p, "ACK")
    /\ state' = [state EXCEPT ![p] = HandleIncomingACK(@)]
    /\ net' = Take(net, p, "ACK")

(* Timers.  TIME_WAIT expires on its own; the timer that gives a           *)
(* connection up outlasts every packet in flight.                          *)

TimeWaitExpires(p) ==
    /\ Move(p, SimulateTimeWaitTimeout(state[p]))
    /\ UNCHANGED net

Timeout(p) ==
    /\ "timeout" \in faults
    /\ Quiet
    /\ Move(p, SimulateTimeout(state[p]))
    /\ UNCHANGED net

-----------------------------------------------------------------------------
Application(p) == AppInitiate(p) \/ AppInitiateClose(p) \/ AppClose(p)

Arrival(p) == ReceiveSYN(p) \/ ReceiveSYNACK(p) \/ ReceiveACK(p) \/ ReceiveFIN(p)

Network(p) == \E m \in Kinds : Lose(p, m)

Next ==
    /\ \E p \in Peers :
           \/ Application(p) \/ Arrival(p)
           \/ TimeWaitExpires(p) \/ Timeout(p) \/ Network(p)
    /\ UNCHANGED faults

Spec == Init /\ [][Next]_vars

(* Packets that are not lost arrive, TIME_WAIT expires, and an application *)
(* told that its peer is done closes its own end.                          *)
Fairness ==
    \A p \in Peers :
        /\ WF_vars(ReceiveSYN(p) /\ UNCHANGED faults)
        /\ WF_vars(ReceiveSYNACK(p) /\ UNCHANGED faults)
        /\ WF_vars(ReceiveACK(p) /\ UNCHANGED faults)
        /\ WF_vars(ReceiveFIN(p) /\ UNCHANGED faults)
        /\ WF_vars(TimeWaitExpires(p) /\ UNCHANGED faults)
        /\ WF_vars(AppClose(p) /\ UNCHANGED faults)

(* A running timer fires: strong, because another packet in flight only    *)
(* postpones one that outlasts the packets.                                *)
TimerFairness == \A p \in Peers : SF_vars(Timeout(p) /\ UNCHANGED faults)

FairSpec == Spec /\ Fairness /\ TimerFairness

-----------------------------------------------------------------------------
InFlight(p, m) == net[p][m] > 0

(* Every variable has its type; the network holds at most MaxCopies of a   *)
(* kind towards each side.                                                 *)
TypeOK ==
    /\ state \in [Peers -> States]
    /\ net \in [Peers -> [Kinds -> 0 .. MaxCopies]]
    /\ faults \in SUBSET FaultKinds

(* No call of the handlers puts a second packet of a kind in flight while  *)
(* the first may still be acted on: without it, an endpoint that cannot    *)
(* tell packets apart could take an old one for the new one.               *)
OnePacketOfAKind == \A p \in Peers, m \in Kinds : net[p][m] <= 1

(* An ACK names nothing, yet handleIncomingACK moves four states.  Every   *)
(* ACK in flight answers what its receiver waits for: the SYNACK of a      *)
(* receiver in SYN_RECEIVED, the FIN of one in FIN_WAIT_1, CLOSING or      *)
(* LAST_ACK, which the sender of the ACK has taken.                        *)
AckIsOwed ==
    \A p \in Peers : InFlight(p, "ACK") =>
        \/ /\ state[p] = "SYN_RECEIVED"
           /\ state[Other(p)] \in {"ESTABLISHED", "FIN_WAIT_1"}
        \/ /\ state[p] = "FIN_WAIT_1"
           /\ state[Other(p)] \in {"CLOSE_WAIT", "LAST_ACK", "CLOSING"}
        \/ /\ state[p] \in {"CLOSING", "LAST_ACK"}
           /\ state[Other(p)] \in {"CLOSING", "LAST_ACK", "TIME_WAIT",
                                   "CLOSED", "SYN_SENT"}

(* Two endpoints that both hold a connection hold the same one: whatever   *)
(* was lost, neither is, say, still open when the other has finished.      *)
(* Partners(s) are the states in which one connection may have the peer of *)
(* an endpoint in state s.                                                 *)
HoldsConnection(p) == state[p] \notin {"CLOSED", "SYN_SENT"}

Partners(s) ==
    CASE s = "SYN_RECEIVED" -> {"ESTABLISHED", "FIN_WAIT_1"}
      [] s = "ESTABLISHED"  -> {"SYN_RECEIVED", "ESTABLISHED", "FIN_WAIT_1"}
      [] s = "FIN_WAIT_1"   -> {"SYN_RECEIVED", "ESTABLISHED", "FIN_WAIT_1",
                                "CLOSE_WAIT", "CLOSING", "LAST_ACK"}
      [] s = "FIN_WAIT_2"   -> {"CLOSE_WAIT", "CLOSING", "LAST_ACK"}
      [] s = "CLOSE_WAIT"   -> {"FIN_WAIT_1", "FIN_WAIT_2"}
      [] s = "CLOSING"      -> {"FIN_WAIT_1", "FIN_WAIT_2", "CLOSING", "LAST_ACK",
                                "TIME_WAIT"}
      [] s = "LAST_ACK"     -> {"FIN_WAIT_1", "FIN_WAIT_2", "CLOSING", "TIME_WAIT"}
      [] s = "TIME_WAIT"    -> {"CLOSING", "LAST_ACK", "TIME_WAIT"}

SidesAgree ==
    \A p \in Peers :
        HoldsConnection(p) /\ HoldsConnection(Other(p))
            => state[Other(p)] \in Partners(state[p])

(* A SYN in flight is one its sender still waits on, and a SYNACK answers  *)
(* an endpoint that still asks: neither can open a connection of its own.  *)
SynIsCurrent ==
    \A p \in Peers :
        /\ InFlight(p, "SYN") => /\ state[Other(p)] = "SYN_SENT"
                                 /\ ~InFlight(Other(p), "SYNACK")
        /\ InFlight(p, "SYNACK") => /\ state[p] = "SYN_SENT"
                                    /\ state[Other(p)] = "SYN_RECEIVED"

(* A FIN in flight has not been taken: its sender waits for the ACK, and   *)
(* its receiver is in none of the states a FIN leads to.                   *)
FinIsCurrent ==
    \A p \in Peers : InFlight(p, "FIN") =>
        /\ state[Other(p)] \in {"FIN_WAIT_1", "CLOSING", "LAST_ACK"}
        /\ state[p] \notin {"CLOSE_WAIT", "CLOSING", "LAST_ACK", "TIME_WAIT"}
        /\ ~InFlight(Other(p), "ACK")

(* The inductive invariant: the safety invariants and what the packets in  *)
(* flight say of the states at both ends.                                  *)
IInv ==
    TypeOK /\ OnePacketOfAKind /\ AckIsOwed /\ SidesAgree /\ SynIsCurrent /\ FinIsCurrent

(* With a network that loses and reorders nothing, a close that was begun  *)
(* ends in CLOSED on the endpoint that began it, without any timer but     *)
(* TIME_WAIT's, even when both sides begin one at once.                    *)
CloseCompletes ==
    \A p \in Peers :
        (faults = {} /\ state[p] = "FIN_WAIT_1") ~> (state[p] = "CLOSED")

(* With timers running, no endpoint lingers half way: it ends up CLOSED or *)
(* ESTABLISHED whatever was lost.                                          *)
NothingLingers ==
    \A p \in Peers :
        "timeout" \in faults ~> state[p] \in {"CLOSED", "ESTABLISHED"}

-----------------------------------------------------------------------------
(* The pair implements a session.                                          *)
PhaseOf(s) ==
    CASE s = "CLOSED" -> "idle"
      [] s = "SYN_SENT" -> "asking"
      [] s = "SYN_RECEIVED" -> "answering"
      [] s = "ESTABLISHED" -> "open"
      [] s \in {"FIN_WAIT_1", "CLOSING", "LAST_ACK"} -> "closing"
      [] s = "CLOSE_WAIT" -> "half_closed"
      [] s \in {"FIN_WAIT_2", "TIME_WAIT"} -> "released"

phases == [p \in Peers |-> PhaseOf(state[p])]

S == INSTANCE Session WITH phase <- phases

(* Messages are as good as looking at the other side: every step of an     *)
(* endpoint that depends on its peer happens only when the peer really is  *)
(* where the packet says.                                                  *)
ImplementsSession == S!SessionSpec
=============================================================================
