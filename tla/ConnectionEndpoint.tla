------------------------- MODULE ConnectionEndpoint -------------------------
(***************************************************************************)
(* The data side of one SRPTConnection (src/src/core/srpt_connection.cpp): *)
(* the packets kept until acknowledged, the window that limits sending and *)
(* the keep-alive clock, used by an application that may make any call in  *)
(* any state, as the class allows.                                         *)
(***************************************************************************)
EXTENDS Integers, Connection

CONSTANTS Seqs,       \* sequence numbers passed to sendPacket
          Modulus,    \* window sizes count modulo this, 2^32 in the code
          Windows,    \* window sizes passed to the setters
          Buffers,    \* sizes of the buffers sent and received
          Intervals,  \* keep-alive intervals, in ticks
          Slack,      \* the 100 ms that isConnectionAlive adds, in ticks
          MaxTicks,   \* clocks stop counting here
          MaxSpent    \* bytes a behaviour sends between two grants

ASSUME WindowAssumption ==
    Modulus \in Nat \ {0} /\ Windows \subseteq 0 .. Modulus - 1 /\ Windows # {}
ASSUME BufferAssumption == Buffers \subseteq Nat /\ MaxSpent \in Nat
ASSUME ClockAssumption ==
    /\ Intervals \subseteq Nat /\ Slack \in Nat /\ MaxTicks \in Nat
    /\ \A i \in Intervals : i + Slack < MaxTicks

VARIABLES state,      \* state_
          unacked,    \* numbers of the unacknowledgedPackets_
          receiveWindow, available,  \* receive_window_size_, available_window_size_
          idle,       \* ticks since lastActivityTime_
          interval,   \* keepAliveInterval_
          credit,     \* history: the window as last granted
          spent       \* history: bytes accepted for sending since then

window == <<receiveWindow, available, credit, spent>>
clock == <<idle, interval>>
vars == <<state, unacked, window, clock>>

(* The constructor leaves both window sizes uninitialised.                 *)
Init ==
    /\ state = "CLOSED"
    /\ unacked = {}
    /\ receiveWindow \in Windows /\ available \in Windows
    /\ credit = available /\ spent = 0
    /\ idle = 0 /\ interval \in Intervals

-----------------------------------------------------------------------------
(* Setting lastActivityTime_.                                              *)
Active == idle' = 0 /\ UNCHANGED interval

EnterState(s) ==
    /\ s # state /\ state' = s
    /\ UNCHANGED <<unacked, window, clock>>

(* The calls of Connection that move state_ and nothing else.              *)
Control ==
    \/ EnterState(Initiate(state))
    \/ EnterState(InitiateClose(state))
    \/ EnterState(CloseCall(state))
    \/ EnterState(HandleIncomingSYN(state))
    \/ EnterState(HandleIncomingSYNACK(state))
    \/ EnterState(HandleIncomingACK(state))
    \/ EnterState(HandleIncomingFIN(state))
    \/ EnterState(SimulateTimeWaitTimeout(state))

(* resetConnection, from a reset or from a timer: it clears state_ only.   *)
ResetConnection ==
    \/ EnterState(HandleReset(state))
    \/ EnterState(SimulateTimeout(state))

-----------------------------------------------------------------------------
SendPacket(q) ==
    /\ unacked' = unacked \cup {q}
    /\ Active
    /\ UNCHANGED <<state, window>>

(* Of a number that is not held it returns false and does nothing.         *)
AcknowledgePacket(q) ==
    /\ q \in unacked
    /\ unacked' = unacked \ {q}
    /\ Active
    /\ UNCHANGED <<state, window>>

(* retransmitUnacknowledgedPackets and sendKeepAlive.                      *)
Retransmit == Active /\ UNCHANGED <<state, unacked, window>>

SendKeepAlive == Active /\ UNCHANGED <<state, unacked, window>>

(* lastActivityTime_ left as it is.                                        *)
HandleKeepAliveFaulty == UNCHANGED vars

HandleKeepAlive == Active /\ UNCHANGED <<state, unacked, window>>

SetKeepAliveInterval(i) ==
    /\ interval' = i /\ idle' = 0
    /\ UNCHANGED <<state, unacked, window>>

IsConnectionAlive == idle <= interval + Slack

(* A tick without a call.                                                  *)
Later(t) == IF t < MaxTicks THEN t + 1 ELSE t

Tick ==
    /\ idle' = Later(idle)
    /\ UNCHANGED <<state, unacked, window, interval>>

-----------------------------------------------------------------------------
Least(a, b) == IF a <= b THEN a ELSE b

Grant(w) == available' = w /\ credit' = w /\ spent' = 0

SetReceiveWindowSize(w) ==
    /\ receiveWindow' = w
    /\ Grant(w)
    /\ UNCHANGED <<state, unacked, clock>>

UpdateAvailableWindowSize(w) ==
    /\ Grant(Least(w, receiveWindow))
    /\ UNCHANGED <<state, unacked, clock, receiveWindow>>

SendWindowUpdate(w) ==
    /\ Grant(w)
    /\ Active
    /\ UNCHANGED <<state, unacked, receiveWindow>>

CanSendData(n) == n <= available

(* The size of the buffer is a size_t; canSendData takes a uint32_t.       *)
SendData(n) ==
    /\ CanSendData(n % Modulus)
    /\ spent + n <= MaxSpent
    /\ available' = (available - n) % Modulus
    /\ spent' = spent + n
    /\ Active
    /\ UNCHANGED <<state, unacked, receiveWindow, credit>>

(* The buffer is not given back.                                           *)
WindowAfterReceiveFaulty(n) == (available - n) % Modulus

(* The subtraction not counted modulo 2^32.                                *)
WindowAfterReceiveNegativeFaulty(n) == available - n

(* The window after receiveData took the buffer out and put it back.       *)
WindowAfterReceive(n) == (((available - n) % Modulus) + (n % Modulus)) % Modulus

ReceiveData(n) ==
    /\ state = "ESTABLISHED"
    /\ available' = WindowAfterReceive(n)
    /\ Active
    /\ UNCHANGED <<state, unacked, receiveWindow, credit, spent>>

-----------------------------------------------------------------------------
Call ==
    \/ Control \/ ResetConnection
    \/ \E q \in Seqs : SendPacket(q) \/ AcknowledgePacket(q)
    \/ Retransmit \/ SendKeepAlive \/ HandleKeepAlive
    \/ \E i \in Intervals : SetKeepAliveInterval(i)
    \/ \E w \in Windows : \/ SetReceiveWindowSize(w) \/ UpdateAvailableWindowSize(w)
                          \/ SendWindowUpdate(w)
    \/ \E n \in Buffers : SendData(n) \/ ReceiveData(n)

Next == Call \/ Tick

Spec == Init /\ [][Next]_vars

-----------------------------------------------------------------------------
(* Every variable has its type; window sizes stay below 2^32 through every  *)
(* subtraction.                                                            *)
TypeOK ==
    /\ state \in States
    /\ unacked \subseteq Seqs
    /\ receiveWindow \in 0 .. Modulus - 1 /\ available \in 0 .. Modulus - 1
    /\ credit \in 0 .. Modulus - 1 /\ spent \in 0 .. MaxSpent
    /\ idle \in 0 .. MaxTicks /\ interval \in Intervals

(* Whatever is received in between, and through the wrap-around of         *)
(* receiveData, the bytes accepted for sending and the window that is left *)
(* add up to the window granted: no more is sent than was granted.         *)
WithinCredit == spent + available = credit

(* Whatever packet arrives in whatever state, however late or often, with  *)
(* timers and resets at any moment, an endpoint only moves forward through *)
(* its life or back to CLOSED: nothing reopens a connection that closes.   *)
Stage(s) ==
    CASE s = "CLOSED" -> 0
      [] s \in {"SYN_SENT", "SYN_RECEIVED"} -> 1
      [] s = "ESTABLISHED" -> 2
      [] s \in {"FIN_WAIT_1", "CLOSE_WAIT"} -> 3
      [] s \in {"FIN_WAIT_2", "CLOSING", "LAST_ACK"} -> 4
      [] s = "TIME_WAIT" -> 5

OnlyForward ==
    [][state' = state \/ state' = "CLOSED" \/ Stage(state') > Stage(state)]_vars
=============================================================================
