------------------------------- MODULE Cubic -------------------------------
(***************************************************************************)
(* Cubic congestion control (src/src/congestion_control/cubic.cpp) under   *)
(* its caller.  How far a window grows and how long a pacing interval is   *)
(* are floating-point functions of the clock: any growth of at least one   *)
(* and any interval stand for them, and k_ and last_congestion_, which     *)
(* only they read, are left out.                                           *)
(*                                                                         *)
(* ICongestionControl has no canSendPacket, so a caller that knows the     *)
(* interface only sends and then calls onPacketSent ("notify"); one that   *)
(* knows Cubic asks first, sends and then calls onPacketSent, as the test  *)
(* PacketPacing does ("ask").  Time may pass between the two calls; within *)
(* one call the clock is read as if once.  A packet to be sent again is    *)
(* asked for like any other.                                               *)
(*                                                                         *)
(* An operator whose name ends in Faulty is the definition after it with a *)
(* bug; it is used only to show that a property notices.                   *)
(***************************************************************************)
EXTENDS Naturals

CONSTANTS InitialWindow,  \* INITIAL_WINDOW, 10 in the code
          IdlePeriod,     \* one second, in ticks
          Sizes,          \* of packets
          MaxWindow,      \* bound: no window grows beyond it
          MaxOutstanding  \* bound on the bytes sent and not acknowledged

Conventions == {"notify", "ask"}

ASSUME WindowsAssumption ==
    /\ InitialWindow \in Nat \ {0}
    /\ MaxWindow \in Nat /\ MaxWindow > 2 * InitialWindow
ASSUME PacketsAssumption == Sizes \subseteq Nat \ {0} /\ MaxOutstanding \in Nat
ASSUME ClockAssumption == IdlePeriod \in Nat \ {0}

VARIABLES cubic,        \* the fields of the object
          pending,      \* size of the packet admitted and not yet announced
          outstanding,  \* bytes sent that are to be acknowledged
          leaked,       \* history: bytes counted that nobody will acknowledge,
                        \* for a caller that asks
          quiet,        \* history: the time since the caller sent a packet
          convention    \* how the caller uses it, chosen once

vars == <<cubic, pending, outstanding, leaked, quiet, convention>>

NoThreshold == MaxWindow + 1  \* UINT32_MAX

Smaller(a, b) == IF a < b THEN a ELSE b
Larger(a, b) == IF a < b THEN b ELSE a

(* age is the time since last_sent_, wait the time until next_send_time_.  *)
Init ==
    /\ cubic = [cwnd |-> InitialWindow, ssthresh |-> NoThreshold,
                wMax |-> InitialWindow, lastMaxCwnd |-> 0, slowStart |-> TRUE,
                bytesInFlight |-> 0, interval |-> IdlePeriod, age |-> 0, wait |-> 0]
    /\ pending = 0 /\ outstanding = 0 /\ leaked = 0 /\ quiet = 0
    /\ convention \in Conventions

-----------------------------------------------------------------------------
(* Sending.                                                                *)

Admits(c, size) ==
    /\ c.wait = 0
    /\ c.bytesInFlight + size <= c.cwnd \/ c.bytesInFlight = 0

(* Only onPacketSent counts the packet.                                    *)
CanSendPacketFaulty(c, size) ==
    IF Admits(c, size) THEN [c EXCEPT !.wait = c.interval] ELSE c

CanSendPacket(c, size) ==
    IF Admits(c, size)
    THEN [c EXCEPT !.wait = c.interval, !.bytesInFlight = @ + size]
    ELSE c

HandleIdlePeriod(c) ==
    IF c.age > IdlePeriod
    THEN [c EXCEPT !.cwnd = InitialWindow, !.ssthresh = NoThreshold,
                   !.wMax = 0, !.slowStart = TRUE]
    ELSE c

(* canSendPacket has counted the packet when onPacketSent counts it.       *)
OnPacketSent(c, size) ==
    LET d == HandleIdlePeriod(c)
    IN  IF Admits(d, size)
        THEN [CanSendPacket(d, size) EXCEPT !.age = 0, !.bytesInFlight = @ + size]
        ELSE d

-----------------------------------------------------------------------------
(* Acknowledgements and losses.                                            *)

UpdateCubic(c, window) ==
    [c EXCEPT !.cwnd = window,
              !.wMax = Smaller(Larger(c.wMax, window), c.lastMaxCwnd)]

SlowStart(c, acked) ==
    LET window == Smaller(c.cwnd + Smaller(acked, InitialWindow), MaxWindow)
    IN  [c EXCEPT !.cwnd = window, !.slowStart = window < c.ssthresh]

(* The bytes given back only in slow start.                                *)
OnAckReceivedFaulty(c, acked, window, interval) ==
    LET d == [c EXCEPT !.interval = interval]
    IN  IF d.slowStart
        THEN SlowStart([d EXCEPT !.bytesInFlight = IF @ > acked THEN @ - acked ELSE 0], acked)
        ELSE UpdateCubic(d, window)

OnAckReceived(c, acked, window, interval) ==
    LET d == [c EXCEPT !.bytesInFlight = IF @ > acked THEN @ - acked ELSE 0,
                       !.interval = interval]
    IN  IF d.slowStart THEN SlowStart(d, acked) ELSE UpdateCubic(d, window)

FastConvergence(c) ==
    [c EXCEPT !.lastMaxCwnd = c.wMax,
              !.wMax = IF c.wMax < c.lastMaxCwnd THEN (c.wMax * 17) \div 20
                                                 ELSE (c.wMax * 13) \div 20]

(* The window cut without a floor.                                         *)
OnPacketLossFaulty(c) ==
    LET window == (c.cwnd * 7) \div 10
    IN  [FastConvergence(c) EXCEPT !.ssthresh = window, !.cwnd = window,
                                   !.slowStart = FALSE]

OnPacketLoss(c) ==
    LET window == Larger((c.cwnd * 7) \div 10, 2 * InitialWindow)
    IN  [FastConvergence(c) EXCEPT !.ssthresh = window, !.cwnd = window,
                                   !.slowStart = FALSE]

-----------------------------------------------------------------------------
(* The caller and the clock.                                               *)

Notify(size) ==
    /\ convention = "notify" /\ outstanding + size <= MaxOutstanding
    /\ cubic' = OnPacketSent(cubic, size)
    /\ outstanding' = outstanding + size /\ quiet' = 0
    /\ UNCHANGED <<pending, leaked>>

(* canSendPacket.                                                          *)
Ask(size) ==
    /\ convention = "ask" /\ pending = 0 /\ outstanding + size <= MaxOutstanding
    /\ Admits(cubic, size)
    /\ cubic' = CanSendPacket(cubic, size) /\ pending' = size
    /\ UNCHANGED <<outstanding, leaked, quiet>>

(* The packet admitted is sent and onPacketSent called.                    *)
Announce ==
    /\ pending > 0 /\ pending' = 0
    /\ cubic' = OnPacketSent(cubic, pending)
    /\ outstanding' = outstanding + pending /\ quiet' = 0
    /\ leaked' = leaked + (cubic'.bytesInFlight - cubic.bytesInFlight)

Intervals == 0 .. IdlePeriod

Growths == Smaller(cubic.cwnd + 1, MaxWindow) .. MaxWindow

Ack(acked) ==
    /\ acked <= outstanding /\ outstanding' = outstanding - acked
    /\ \E window \in Growths, interval \in Intervals :
           cubic' = OnAckReceived(cubic, acked, window, interval)
    /\ UNCHANGED <<pending, leaked, quiet>>

(* A packet is reported lost, and it is, or it is acknowledged after all.  *)
Loss(size) ==
    /\ size <= outstanding
    /\ cubic' = OnPacketLoss(cubic)
    /\ \/ /\ outstanding' = outstanding - size
          /\ leaked' = IF convention = "ask" THEN leaked + size ELSE leaked
       \/ UNCHANGED <<outstanding, leaked>>
    /\ UNCHANGED <<pending, quiet>>

(* Beyond the idle period the time since the last packet is all the same.  *)
Later(t) == Smaller(t + 1, IdlePeriod + 1)

Tick ==
    /\ cubic' = [cubic EXCEPT !.age = Later(@), !.wait = IF @ > 0 THEN @ - 1 ELSE 0]
    /\ quiet' = Later(quiet)
    /\ UNCHANGED <<pending, outstanding, leaked>>

Next ==
    /\ \/ \E size \in Sizes : Notify(size) \/ Ask(size) \/ Ack(size) \/ Loss(size)
       \/ Announce
       \/ Tick
    /\ UNCHANGED convention

Spec == Init /\ [][Next]_vars

(* The clock goes on, a caller that asked goes on to send, and what is to  *)
(* be acknowledged is, some time.                                          *)
Fairness ==
    /\ WF_vars(Tick /\ UNCHANGED convention)
    /\ WF_vars(Announce /\ UNCHANGED convention)
    /\ WF_vars((\E size \in Sizes : Ack(size)) /\ UNCHANGED convention)

FairSpec == Spec /\ Fairness

-----------------------------------------------------------------------------
Objects ==
    [cwnd : InitialWindow .. MaxWindow, ssthresh : 0 .. NoThreshold,
     wMax : Nat, lastMaxCwnd : Nat, slowStart : BOOLEAN, bytesInFlight : Nat,
     interval : 0 .. IdlePeriod, age : 0 .. IdlePeriod + 1, wait : 0 .. IdlePeriod]

(* Every field has its type.  The window never falls below the initial     *)
(* one, so a sender always has the room for a packet that it began with.   *)
TypeOK ==
    /\ cubic \in Objects
    /\ pending \in Sizes \cup {0} /\ outstanding \in 0 .. MaxOutstanding
    /\ leaked \in Nat /\ quiet \in 0 .. IdlePeriod + 1
    /\ convention \in Conventions

(* A caller that asks has no more bytes on the way than the window admits  *)
(* when it sends, or one packet alone: whatever time passes between its    *)
(* calls, whichever reports of losses are false, and although packets are  *)
(* counted up to three times, the class never counts too few.              *)
SentWithinWindow ==
    [][\A size \in Sizes :
           Ask(size) => outstanding + size <= cubic.cwnd \/ outstanding = 0]_vars

(* Bytes leak from the window in two ways: a packet lost for good is never *)
(* given back, and onPacketSent counts a packet again when the pacing      *)
(* interval is over by then.  As long as what leaked leaves room for a     *)
(* packet, a caller that asks is not refused for ever, whatever losses and *)
(* pauses do to the window; beyond that it may be.                         *)
HasRoom ==
    convention = "ask" /\ \E size \in Sizes : leaked = 0 \/ leaked + size <= cubic.cwnd

SendingResumes == HasRoom ~> (~HasRoom \/ \E size \in Sizes : Admits(cubic, size))

(* wMax and lastMaxCwnd never exceed the initial window, however large the *)
(* window was: updateCubic keeps wMax below lastMaxCwnd, which only        *)
(* fastConvergence sets, to wMax.                                          *)
MemoryIsSmall == cubic.wMax <= InitialWindow /\ cubic.lastMaxCwnd <= InitialWindow

-----------------------------------------------------------------------------
(* cubic.h:46 says of last_sent_ "Time of last packet sent": a sender that *)
(* asks loses its window to a loss or to a pause longer than the idle      *)
(* period, and not while it is sending.                                    *)
BusyKeepsWindow ==
    [][convention = "ask" /\ cubic'.cwnd < cubic.cwnd
           => (\E size \in Sizes : Loss(size)) \/ quiet > IdlePeriod]_vars
=============================================================================
