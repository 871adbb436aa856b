---------------------------- MODULE Cubic_proofs ----------------------------
(***************************************************************************)
(* Proofs about Cubic, for every initial window, idle period, set of       *)
(* packet sizes and bound.                                                 *)
(***************************************************************************)
EXTENDS Cubic, TLAPS

(* What every method keeps of the object: its type and the size of the two *)
(* maxima.                                                                 *)
Sound(c) ==
    /\ c \in Objects
    /\ c.wMax <= InitialWindow /\ c.lastMaxCwnd <= InitialWindow

(* Whatever a caller that asks has sent, or may send, is counted.          *)
Counted ==
    /\ pending \in Sizes \cup {0} /\ outstanding \in Nat
    /\ outstanding + pending <= MaxOutstanding
    /\ leaked \in Nat
    /\ pending > 0 => convention = "ask"
    /\ convention = "ask" => outstanding + pending <= cubic.bytesInFlight

IInv ==
    /\ Sound(cubic)
    /\ Counted
    /\ quiet \in 0 .. IdlePeriod + 1
    /\ convention \in Conventions

-----------------------------------------------------------------------------
(* The methods, one lemma each.  Each changes the object field by field.   *)

LEMMA FieldTypes ==
    ASSUME NEW c \in Objects
    PROVE  /\ c.cwnd \in InitialWindow .. MaxWindow /\ c.ssthresh \in 0 .. NoThreshold
           /\ c.wMax \in Nat /\ c.lastMaxCwnd \in Nat
           /\ c.slowStart \in BOOLEAN /\ c.bytesInFlight \in Nat
           /\ c.interval \in 0 .. IdlePeriod
           /\ c.age \in 0 .. IdlePeriod + 1 /\ c.wait \in 0 .. IdlePeriod
BY DEF Objects

(* An object is sound whatever becomes of its counts and clocks.           *)
LEMMA CountsAndClocks ==
    ASSUME NEW c, Sound(c)
    PROVE  /\ \A wait \in 0 .. IdlePeriod, bytes \in Nat :
                  Sound([c EXCEPT !.wait = wait, !.bytesInFlight = bytes])
           /\ \A age \in 0 .. IdlePeriod + 1, bytes \in Nat :
                  Sound([c EXCEPT !.age = age, !.bytesInFlight = bytes])
           /\ \A bytes \in Nat, interval \in 0 .. IdlePeriod :
                  Sound([c EXCEPT !.bytesInFlight = bytes, !.interval = interval])
           /\ \A age \in 0 .. IdlePeriod + 1, wait \in 0 .. IdlePeriod :
                  Sound([c EXCEPT !.age = age, !.wait = wait])
<1>0. c \in Objects
    BY DEF Sound
<1>1. ASSUME NEW wait \in 0 .. IdlePeriod, NEW bytes \in Nat
      PROVE  Sound([c EXCEPT !.wait = wait, !.bytesInFlight = bytes])
    <2>1. [c EXCEPT !.wait = wait] \in Objects
        BY <1>0 DEF Objects
    <2>2. [c EXCEPT !.wait = wait, !.bytesInFlight = bytes] \in Objects
        BY <2>1 DEF Objects
    <2> QED
        BY <1>0, <2>2 DEF Sound, Objects
<1>2. ASSUME NEW age \in 0 .. IdlePeriod + 1, NEW bytes \in Nat
      PROVE  Sound([c EXCEPT !.age = age, !.bytesInFlight = bytes])
    <2>1. [c EXCEPT !.age = age] \in Objects
        BY <1>0 DEF Objects
    <2>2. [c EXCEPT !.age = age, !.bytesInFlight = bytes] \in Objects
        BY <2>1 DEF Objects
    <2> QED
        BY <1>0, <2>2 DEF Sound, Objects
<1>3. ASSUME NEW bytes \in Nat, NEW interval \in 0 .. IdlePeriod
      PROVE  Sound([c EXCEPT !.bytesInFlight = bytes, !.interval = interval])
    <2>1. [c EXCEPT !.bytesInFlight = bytes] \in Objects
        BY <1>0 DEF Objects
    <2>2. [c EXCEPT !.bytesInFlight = bytes, !.interval = interval] \in Objects
        BY <2>1 DEF Objects
    <2> QED
        BY <1>0, <2>2 DEF Sound, Objects
<1>4. ASSUME NEW age \in 0 .. IdlePeriod + 1, NEW wait \in 0 .. IdlePeriod
      PROVE  Sound([c EXCEPT !.age = age, !.wait = wait])
    <2>1. [c EXCEPT !.age = age] \in Objects
        BY <1>0 DEF Objects
    <2>2. [c EXCEPT !.age = age, !.wait = wait] \in Objects
        BY <2>1 DEF Objects
    <2> QED
        BY <1>0, <2>2 DEF Sound, Objects
<1> QED
    BY <1>1, <1>2, <1>3, <1>4

LEMMA CanSendPacketSound ==
    ASSUME NEW c, Sound(c), NEW size \in Nat
    PROVE  Sound(CanSendPacket(c, size))
<1>1. c.interval \in 0 .. IdlePeriod /\ c.bytesInFlight + size \in Nat
    BY FieldTypes DEF Sound
<1>2. Sound([c EXCEPT !.wait = c.interval, !.bytesInFlight = c.bytesInFlight + size])
    BY <1>1, CountsAndClocks, ClockAssumption
<1> QED
    BY <1>2 DEF CanSendPacket

LEMMA HandleIdlePeriodSound ==
    ASSUME NEW c, Sound(c)
    PROVE  /\ Sound(HandleIdlePeriod(c))
           /\ HandleIdlePeriod(c).interval = c.interval
           /\ HandleIdlePeriod(c).wait = c.wait
           /\ HandleIdlePeriod(c).bytesInFlight = c.bytesInFlight
<1>0. c \in Objects
    BY DEF Sound
<1> DEFINE d == [c EXCEPT !.cwnd = InitialWindow, !.ssthresh = NoThreshold,
                          !.wMax = 0, !.slowStart = TRUE]
<1>1. [c EXCEPT !.cwnd = InitialWindow] \in Objects
    BY <1>0, WindowsAssumption DEF Objects
<1>2. NoThreshold \in 0 .. NoThreshold
    BY WindowsAssumption DEF NoThreshold
<1>3. [c EXCEPT !.cwnd = InitialWindow, !.ssthresh = NoThreshold] \in Objects
    BY <1>1, <1>2 DEF Objects
<1>4. [c EXCEPT !.cwnd = InitialWindow, !.ssthresh = NoThreshold, !.wMax = 0] \in Objects
    BY <1>3 DEF Objects
<1>5. d \in Objects
    BY <1>4 DEF Objects
<1>6. /\ d.ssthresh = NoThreshold /\ d.wMax = 0 /\ d.lastMaxCwnd = c.lastMaxCwnd
      /\ d.interval = c.interval /\ d.wait = c.wait /\ d.bytesInFlight = c.bytesInFlight
    BY <1>0 DEF Objects
<1> HIDE DEF d
<1>7. Sound(d)
    BY <1>5, <1>6, WindowsAssumption DEF Sound
<1>8. HandleIdlePeriod(c) = IF c.age > IdlePeriod THEN d ELSE c
    BY DEF HandleIdlePeriod, d
<1> QED
    BY <1>6, <1>7, <1>8

LEMMA OnPacketSentSound ==
    ASSUME NEW c, Sound(c), NEW size \in Nat
    PROVE  Sound(OnPacketSent(c, size))
<1> DEFINE d == HandleIdlePeriod(c)
           e == CanSendPacket(d, size)
<1>1. Sound(d) /\ Sound(e)
    BY HandleIdlePeriodSound, CanSendPacketSound
<1> HIDE DEF d, e
<1>2. e.bytesInFlight + size \in Nat
    BY <1>1, FieldTypes DEF Sound
<1>3. 0 \in 0 .. IdlePeriod + 1
    BY ClockAssumption
<1>4. Sound([e EXCEPT !.age = 0, !.bytesInFlight = e.bytesInFlight + size])
    BY <1>1, <1>2, <1>3, CountsAndClocks
<1>5. OnPacketSent(c, size) =
          IF Admits(d, size)
          THEN [e EXCEPT !.age = 0, !.bytesInFlight = e.bytesInFlight + size] ELSE d
    BY DEF OnPacketSent, d, e
<1> QED
    BY <1>1, <1>4, <1>5

LEMMA SlowStartSound ==
    ASSUME NEW c, Sound(c), NEW acked \in Nat
    PROVE  Sound(SlowStart(c, acked))
<1>0. c \in Objects
    BY DEF Sound
<1> DEFINE window == Smaller(c.cwnd + Smaller(acked, InitialWindow), MaxWindow)
           d == [c EXCEPT !.cwnd = window, !.slowStart = window < c.ssthresh]
<1>1. window \in InitialWindow .. MaxWindow
    BY <1>0, FieldTypes, WindowsAssumption DEF Smaller
<1>2. (window < c.ssthresh) \in BOOLEAN
    OBVIOUS
<1> HIDE DEF window
<1>3. [c EXCEPT !.cwnd = window] \in Objects
    BY <1>0, <1>1 DEF Objects
<1>4. d \in Objects
    BY <1>2, <1>3 DEF Objects
<1>5. d.ssthresh = c.ssthresh /\ d.wMax = c.wMax /\ d.lastMaxCwnd = c.lastMaxCwnd
    BY <1>0 DEF Objects
<1>6. SlowStart(c, acked) = d
    BY DEF SlowStart, window
<1> HIDE DEF d
<1> QED
    BY <1>4, <1>5, <1>6 DEF Sound

LEMMA UpdateCubicSound ==
    ASSUME NEW c, Sound(c), NEW window \in InitialWindow .. MaxWindow
    PROVE  Sound(UpdateCubic(c, window))
<1>0. c \in Objects
    BY DEF Sound
<1> DEFINE w == Smaller(Larger(c.wMax, window), c.lastMaxCwnd)
           d == [c EXCEPT !.cwnd = window, !.wMax = w]
<1>1. w \in Nat /\ w <= InitialWindow
    BY <1>0, FieldTypes, WindowsAssumption DEF Sound, Smaller, Larger
<1>2. [c EXCEPT !.cwnd = window] \in Objects
    BY <1>0 DEF Objects
<1> HIDE DEF w
<1>3. d \in Objects
    BY <1>1, <1>2 DEF Objects
<1>4. /\ d.ssthresh = c.ssthresh /\ d.slowStart = c.slowStart
      /\ d.wMax = w /\ d.lastMaxCwnd = c.lastMaxCwnd
    BY <1>0 DEF Objects
<1>5. UpdateCubic(c, window) = d
    BY DEF UpdateCubic, w
<1> HIDE DEF d
<1> QED
    BY <1>1, <1>3, <1>4, <1>5 DEF Sound

LEMMA OnAckReceivedSound ==
    ASSUME NEW c, Sound(c), NEW acked \in Nat,
           NEW window \in InitialWindow .. MaxWindow, NEW interval \in 0 .. IdlePeriod
    PROVE  Sound(OnAckReceived(c, acked, window, interval))
<1> DEFINE bytes == IF c.bytesInFlight > acked THEN c.bytesInFlight - acked ELSE 0
           d == [c EXCEPT !.bytesInFlight = bytes, !.interval = interval]
<1>1. bytes \in Nat
    BY FieldTypes DEF Sound
<1> HIDE DEF bytes
<1>2. Sound(d)
    BY <1>1, CountsAndClocks, ClockAssumption
<1>3. OnAckReceived(c, acked, window, interval) =
          IF d.slowStart THEN SlowStart(d, acked) ELSE UpdateCubic(d, window)
    BY DEF OnAckReceived, bytes
<1> HIDE DEF d
<1> QED
    BY <1>2, <1>3, SlowStartSound, UpdateCubicSound

LEMMA FastConvergenceSound ==
    ASSUME NEW c, Sound(c)
    PROVE  Sound(FastConvergence(c)) /\ FastConvergence(c).cwnd = c.cwnd
<1>0. c \in Objects
    BY DEF Sound
<1> DEFINE w == IF c.wMax < c.lastMaxCwnd THEN (c.wMax * 17) \div 20
                                          ELSE (c.wMax * 13) \div 20
           d == [c EXCEPT !.lastMaxCwnd = c.wMax, !.wMax = w]
<1>1. c.wMax \in 0 .. InitialWindow
    BY <1>0, FieldTypes, WindowsAssumption DEF Sound
<1>2. w \in Nat /\ w <= InitialWindow
    BY <1>1, WindowsAssumption
<1> HIDE DEF w
<1>3. [c EXCEPT !.lastMaxCwnd = c.wMax] \in Objects
    BY <1>0, <1>1 DEF Objects
<1>4. d \in Objects
    BY <1>2, <1>3 DEF Objects
<1>5. /\ d.ssthresh = c.ssthresh /\ d.slowStart = c.slowStart /\ d.cwnd = c.cwnd
      /\ d.wMax = w /\ d.lastMaxCwnd = c.wMax
    BY <1>0 DEF Objects
<1>6. FastConvergence(c) = d
    BY DEF FastConvergence, w
<1> HIDE DEF d
<1> QED
    BY <1>1, <1>2, <1>4, <1>5, <1>6 DEF Sound

LEMMA OnPacketLossSound ==
    ASSUME NEW c, Sound(c)
    PROVE  Sound(OnPacketLoss(c))
<1> DEFINE window == Larger((c.cwnd * 7) \div 10, 2 * InitialWindow)
           f == FastConvergence(c)
           d == [f EXCEPT !.ssthresh = window, !.cwnd = window, !.slowStart = FALSE]
<1>1. c.cwnd \in InitialWindow .. MaxWindow
    BY FieldTypes DEF Sound
<1>2. window \in InitialWindow .. MaxWindow
    BY <1>1, WindowsAssumption DEF Larger
<1>3. Sound(f) /\ f \in Objects
    BY FastConvergenceSound DEF Sound
<1> HIDE DEF window, f
<1>4. [f EXCEPT !.ssthresh = window] \in Objects
    BY <1>2, <1>3, WindowsAssumption DEF Objects, NoThreshold
<1>5. [f EXCEPT !.ssthresh = window, !.cwnd = window] \in Objects
    BY <1>2, <1>4 DEF Objects
<1>6. d \in Objects
    BY <1>5 DEF Objects
<1>7. ~d.slowStart /\ d.wMax = f.wMax /\ d.lastMaxCwnd = f.lastMaxCwnd
    BY <1>3 DEF Objects
<1>8. OnPacketLoss(c) = d
    BY DEF OnPacketLoss, window, f
<1> HIDE DEF d
<1> QED
    BY <1>3, <1>6, <1>7, <1>8 DEF Sound

-----------------------------------------------------------------------------
(* The bytes counted.                                                      *)

(* What canSendPacket admits, it counts.                                   *)
LEMMA AdmittedIsCounted ==
    ASSUME NEW c, Sound(c), NEW size \in Nat
    PROVE  /\ Admits(c, size) =>
                  CanSendPacket(c, size).bytesInFlight = c.bytesInFlight + size
           /\ CanSendPacket(c, size).bytesInFlight >= c.bytesInFlight
<1>1. c \in Objects /\ c.bytesInFlight \in Nat
    BY FieldTypes DEF Sound
<1>2. CASE Admits(c, size)
    <2>1. CanSendPacket(c, size).bytesInFlight = c.bytesInFlight + size
        BY <1>1, <1>2 DEF CanSendPacket, Objects
    <2> QED
        BY <1>1, <2>1
<1>3. CASE ~Admits(c, size)
    BY <1>1, <1>3 DEF CanSendPacket
<1> QED
    BY <1>2, <1>3

(* onPacketSent may count a packet again and never forgets one.            *)
LEMMA SendingForgetsNothing ==
    ASSUME NEW c, Sound(c), NEW size \in Nat
    PROVE  OnPacketSent(c, size).bytesInFlight >= c.bytesInFlight
<1> DEFINE d == HandleIdlePeriod(c)
           e == CanSendPacket(d, size)
           bytes == e.bytesInFlight + size
<1>1. Sound(d) /\ Sound(e) /\ d.bytesInFlight = c.bytesInFlight
    BY HandleIdlePeriodSound, CanSendPacketSound
<1>2. e.bytesInFlight >= d.bytesInFlight
    BY <1>1, AdmittedIsCounted
<1>3. e \in Objects /\ e.bytesInFlight \in Nat /\ c.bytesInFlight \in Nat
    BY <1>1, FieldTypes DEF Sound
<1>4. OnPacketSent(c, size) =
          IF Admits(d, size) THEN [e EXCEPT !.age = 0, !.bytesInFlight = bytes] ELSE d
    BY DEF OnPacketSent
<1> HIDE DEF d, e
<1>5. [e EXCEPT !.age = 0, !.bytesInFlight = bytes].bytesInFlight = bytes
    BY <1>3 DEF Objects
<1>6. bytes >= c.bytesInFlight
    BY <1>1, <1>2, <1>3
<1> QED
    BY <1>1, <1>3, <1>4, <1>5, <1>6

(* onAckReceived gives back what was acknowledged.                         *)
LEMMA AckIsGivenBack ==
    ASSUME NEW c, Sound(c), NEW acked \in Nat, NEW window, NEW interval
    PROVE  /\ OnAckReceived(c, acked, window, interval).bytesInFlight =
                  IF c.bytesInFlight > acked THEN c.bytesInFlight - acked ELSE 0
           /\ OnAckReceived(c, acked, window, interval).interval = interval
<1>0. c \in Objects
    BY DEF Sound
<1> DEFINE bytes == IF c.bytesInFlight > acked THEN c.bytesInFlight - acked ELSE 0
           d == [c EXCEPT !.bytesInFlight = bytes, !.interval = interval]
<1>1. OnAckReceived(c, acked, window, interval) =
          IF d.slowStart THEN SlowStart(d, acked) ELSE UpdateCubic(d, window)
    BY DEF OnAckReceived
<1> HIDE DEF bytes
<1>2. /\ SlowStart(d, acked).bytesInFlight = bytes
      /\ SlowStart(d, acked).interval = interval
    BY <1>0 DEF SlowStart, Objects
<1>3. /\ UpdateCubic(d, window).bytesInFlight = bytes
      /\ UpdateCubic(d, window).interval = interval
    BY <1>0 DEF UpdateCubic, Objects
<1> HIDE DEF d
<1> QED
    BY <1>1, <1>2, <1>3 DEF bytes

LEMMA LossKeepsCounts ==
    ASSUME NEW c \in Objects
    PROVE  /\ OnPacketLoss(c).bytesInFlight = c.bytesInFlight
           /\ OnPacketLoss(c).interval = c.interval
BY DEF OnPacketLoss, FastConvergence, Objects

-----------------------------------------------------------------------------
LEMMA InductiveInit == Init => IInv
<1> SUFFICES ASSUME Init PROVE IInv
    OBVIOUS
<1>1. cubic \in Objects
    BY WindowsAssumption, ClockAssumption DEF Init, Objects, NoThreshold
<1>2. /\ cubic.ssthresh = NoThreshold /\ cubic.wMax = InitialWindow
      /\ cubic.lastMaxCwnd = 0 /\ cubic.bytesInFlight = 0
    BY DEF Init
<1>3. Sound(cubic)
    BY <1>1, <1>2, WindowsAssumption DEF Sound
<1>4. Counted
    BY <1>2, PacketsAssumption DEF Init, Counted
<1> QED
    BY <1>3, <1>4, ClockAssumption DEF Init, IInv

LEMMA InductiveStep == IInv /\ [Next]_vars => IInv'
<1> SUFFICES ASSUME IInv, [Next]_vars PROVE IInv'
    OBVIOUS
<1>1. /\ Sound(cubic) /\ cubic \in Objects /\ cubic.bytesInFlight \in Nat
      /\ Counted /\ pending \in Nat /\ outstanding \in Nat /\ leaked \in Nat
      /\ quiet \in 0 .. IdlePeriod + 1 /\ convention \in Conventions
    BY FieldTypes, PacketsAssumption DEF IInv, Sound, Counted
<1>2. /\ Sizes \subseteq Nat \ {0} /\ MaxOutstanding \in Nat
      /\ 0 \in 0 .. IdlePeriod + 1
    BY PacketsAssumption, ClockAssumption
<1>3. ASSUME NEW size \in Sizes, Notify(size), convention' = convention
      PROVE  IInv'
    <2>1. Sound(cubic')
        BY <1>1, <1>2, <1>3, OnPacketSentSound DEF Notify
    <2>2. /\ pending' = pending /\ leaked' = leaked /\ convention # "ask"
          /\ outstanding' = outstanding + size
          /\ outstanding + size <= MaxOutstanding
        BY <1>3 DEF Notify
    <2>3. pending = 0
        BY <1>1, <2>2 DEF Counted
    <2>4. Counted'
        BY <1>1, <1>2, <1>3, <2>2, <2>3 DEF Counted
    <2> QED
        BY <1>1, <1>2, <1>3, <2>1, <2>4 DEF IInv, Notify, Sound
<1>4. ASSUME NEW size \in Sizes, Ask(size), convention' = convention
      PROVE  IInv'
    <2>1. Sound(cubic')
        BY <1>1, <1>2, <1>4, CanSendPacketSound DEF Ask
    <2>2. cubic'.bytesInFlight = cubic.bytesInFlight + size
        BY <1>1, <1>2, <1>4, AdmittedIsCounted DEF Ask
    <2>3. /\ pending = 0 /\ pending' = size /\ convention = "ask"
          /\ outstanding' = outstanding /\ leaked' = leaked
          /\ outstanding + size <= MaxOutstanding
        BY <1>4 DEF Ask
    <2>4. outstanding <= cubic.bytesInFlight
        BY <1>1, <2>3 DEF Counted
    <2>5. Counted'
        BY <1>1, <1>2, <1>4, <2>2, <2>3, <2>4 DEF Counted
    <2> QED
        BY <1>1, <1>4, <2>1, <2>5 DEF IInv, Ask, Sound
<1>5. ASSUME Announce, convention' = convention
      PROVE  IInv'
    <2>1. Sound(cubic') /\ cubic'.bytesInFlight >= cubic.bytesInFlight
        BY <1>1, <1>5, OnPacketSentSound, SendingForgetsNothing DEF Announce
    <2>2. cubic'.bytesInFlight \in Nat
        BY <2>1, FieldTypes DEF Sound
    <2>3. /\ pending' = 0 /\ outstanding' = outstanding + pending
          /\ leaked' = leaked + (cubic'.bytesInFlight - cubic.bytesInFlight)
        BY <1>5 DEF Announce
    <2>4. leaked' \in Nat
        BY <1>1, <2>1, <2>2, <2>3
    <2>5. Counted'
        BY <1>1, <1>5, <2>1, <2>2, <2>3, <2>4 DEF Counted
    <2> QED
        BY <1>1, <1>2, <1>5, <2>1, <2>5 DEF IInv, Announce, Sound
<1>6. ASSUME NEW acked \in Sizes, Ack(acked), convention' = convention
      PROVE  IInv'
    <2>1. PICK window \in Growths, interval \in Intervals :
              cubic' = OnAckReceived(cubic, acked, window, interval)
        BY <1>6 DEF Ack
    <2>2. /\ acked \in Nat /\ acked <= outstanding /\ outstanding' = outstanding - acked
          /\ pending' = pending /\ leaked' = leaked /\ quiet' = quiet
        BY <1>2, <1>6 DEF Ack
    <2>3. window \in InitialWindow .. MaxWindow
        BY <1>1, FieldTypes, WindowsAssumption DEF Growths, Smaller
    <2>4. interval \in 0 .. IdlePeriod
        BY DEF Intervals
    <2>5. Sound(cubic')
        BY <1>1, <2>1, <2>2, <2>3, <2>4, OnAckReceivedSound
    <2>6. cubic'.bytesInFlight =
              IF cubic.bytesInFlight > acked THEN cubic.bytesInFlight - acked ELSE 0
        BY <1>1, <2>1, <2>2, AckIsGivenBack
    <2>7. Counted'
        BY <1>1, <1>2, <1>6, <2>2, <2>6 DEF Counted
    <2> QED
        BY <1>1, <1>6, <2>2, <2>5, <2>7 DEF IInv, Sound
<1>7. ASSUME NEW size \in Sizes, Loss(size), convention' = convention
      PROVE  IInv'
    <2>1. Sound(cubic') /\ cubic'.bytesInFlight = cubic.bytesInFlight
        BY <1>1, <1>7, OnPacketLossSound, LossKeepsCounts DEF Loss
    <2>2. /\ outstanding' = outstanding \/ outstanding' = outstanding - size
          /\ leaked' = leaked \/ leaked' = leaked + size
          /\ size \in Nat /\ size <= outstanding /\ pending' = pending /\ quiet' = quiet
        BY <1>2, <1>7 DEF Loss
    <2>3. Counted'
        BY <1>1, <1>2, <1>7, <2>1, <2>2 DEF Counted
    <2> QED
        BY <1>1, <1>7, <2>1, <2>2, <2>3 DEF IInv, Sound
<1>8. ASSUME Tick, convention' = convention
      PROVE  IInv'
    <2> DEFINE wait == IF cubic.wait > 0 THEN cubic.wait - 1 ELSE 0
    <2>1. \A t \in 0 .. IdlePeriod + 1 : Later(t) \in 0 .. IdlePeriod + 1
        BY ClockAssumption DEF Later, Smaller
    <2>2. Later(cubic.age) \in 0 .. IdlePeriod + 1 /\ Later(quiet) \in 0 .. IdlePeriod + 1
        BY <1>1, <2>1, FieldTypes
    <2>3. wait \in 0 .. IdlePeriod
        BY <1>1, FieldTypes, ClockAssumption
    <2> HIDE DEF wait
    <2>4. cubic' = [cubic EXCEPT !.age = Later(cubic.age), !.wait = wait]
        BY <1>8 DEF Tick, wait
    <2>5. Sound(cubic')
        BY <1>1, <2>2, <2>3, <2>4, CountsAndClocks
    <2>6. cubic'.bytesInFlight = cubic.bytesInFlight
        BY <1>1, <2>4 DEF Objects
    <2>7. Counted'
        BY <1>1, <1>8, <2>6 DEF Tick, Counted
    <2> QED
        BY <1>1, <1>8, <2>2, <2>5, <2>7 DEF IInv, Tick, Sound
<1>9. CASE UNCHANGED vars
    BY <1>9 DEF IInv, Sound, Counted, vars
<1> QED
    BY <1>3, <1>4, <1>5, <1>6, <1>7, <1>8, <1>9 DEF Next

-----------------------------------------------------------------------------
(* Every field of the object keeps its type, and no loss, idle period or   *)
(* growth takes the window below the initial one.                          *)
THEOREM TypeCorrect == Spec => []TypeOK
<1>1. ASSUME IInv PROVE TypeOK
    <2>1. outstanding \in 0 .. MaxOutstanding
        BY <1>1, PacketsAssumption DEF IInv, Counted
    <2> QED
        BY <1>1, <2>1 DEF IInv, Sound, Counted, TypeOK
<1> QED
    BY <1>1, InductiveInit, InductiveStep, PTL DEF Spec

(* A caller that asks never has more on the way than the window admits     *)
(* when it sends, or one packet alone, for any sizes, intervals, pauses    *)
(* and reports of losses: what it has sent is always counted.              *)
THEOREM SenderKeepsToWindow == Spec => SentWithinWindow
<1> DEFINE Within ==
        \A size \in Sizes : Ask(size) => outstanding + size <= cubic.cwnd \/ outstanding = 0
<1>1. ASSUME IInv PROVE Within
    <2> SUFFICES ASSUME NEW size \in Sizes, Ask(size)
                 PROVE  outstanding + size <= cubic.cwnd \/ outstanding = 0
        OBVIOUS
    <2>1. /\ outstanding \in Nat /\ cubic.bytesInFlight \in Nat /\ cubic.cwnd \in Nat
          /\ size \in Nat
        BY <1>1, FieldTypes, WindowsAssumption, PacketsAssumption
           DEF IInv, Sound, Counted
    <2>2. outstanding <= cubic.bytesInFlight
        BY <1>1, <2>1 DEF IInv, Counted, Ask
    <2>3. cubic.bytesInFlight + size <= cubic.cwnd \/ cubic.bytesInFlight = 0
        BY DEF Ask, Admits
    <2> QED
        BY <2>1, <2>2, <2>3
<1>2. IInv => [Within]_vars
    BY <1>1
<1> HIDE DEF Within
<1>3. Spec => [][Within]_vars
    BY <1>2, InductiveInit, InductiveStep, PTL DEF Spec
<1> QED
    BY <1>3 DEF Within, SentWithinWindow

(* wMax and lastMaxCwnd never exceed the initial window: cubic growth aims *)
(* back at the first window for ever.                                      *)
THEOREM WindowMemory == Spec => []MemoryIsSmall
<1>1. IInv => MemoryIsSmall
    BY DEF IInv, Sound, MemoryIsSmall
<1> QED
    BY <1>1, InductiveInit, InductiveStep, PTL DEF Spec
=============================================================================
