---------------------- MODULE ConnectionEndpoint_proofs ----------------------
(***************************************************************************)
(* Proofs about ConnectionEndpoint, for any modulus, windows, buffers,     *)
(* intervals and bounds, and about KeepAlive, for any period and delay.    *)
(***************************************************************************)
EXTENDS KeepAlive, TLAPS

-----------------------------------------------------------------------------
(* Arithmetic of unsigned integers that wrap around.                       *)

LEMMA WrapInRange ==
    ASSUME NEW M \in Nat \ {0}, NEW x \in Int
    PROVE  x % M \in 0 .. M - 1
BY Z3

LEMMA WrapOfSmall ==
    ASSUME NEW M \in Nat \ {0}, NEW x \in 0 .. M - 1
    PROVE  x % M = x
BY Z3

LEMMA WrapSplits ==
    ASSUME NEW M \in Nat \ {0}, NEW x \in Int
    PROVE  x = (x \div M) * M + (x % M) /\ x \div M \in Int
BY Z3

LEMMA WrapIsUnique ==
    ASSUME NEW M \in Nat \ {0}, NEW q \in Int, NEW r \in 0 .. M - 1
    PROVE  (q * M + r) % M = r
BY Z3

LEMMA WrapsAdd ==
    ASSUME NEW M \in Nat, NEW i \in Int, NEW j \in Int, NEW w \in Int, NEW n \in Int,
           NEW a \in Int, NEW b \in Int, w - n = i * M + a, n = j * M + b
    PROVE  a + b = (0 - i - j) * M + w
<1>1. i * M \in Int /\ j * M \in Int
    BY Z3
<1>2. (0 - i - j) * M = 0 - (i * M) - (j * M)
    BY Z3
<1> QED BY <1>1, <1>2, Z3

(* Taking a size out and putting it back gives the window that was there,  *)
(* even when the subtraction wraps around.                                 *)
LEMMA WrapAndBack ==
    ASSUME NEW M \in Nat \ {0}, NEW n \in Nat, NEW w \in 0 .. M - 1
    PROVE  (((w - n) % M) + (n % M)) % M = w
<1> DEFINE a == (w - n) % M
           b == n % M
           i == (w - n) \div M
           j == n \div M
<1>1. w - n \in Int /\ n \in Int
    OBVIOUS
<1>2. w - n = i * M + a /\ n = j * M + b /\ i \in Int /\ j \in Int
    BY <1>1, WrapSplits
<1>3. a \in Int /\ b \in Int
    BY <1>1, WrapInRange
<1> HIDE DEF a, b, i, j
<1>4. 0 - i - j \in Int /\ a + b = (0 - i - j) * M + w
    BY <1>2, <1>3, WrapsAdd
<1>5. (a + b) % M = w
    BY <1>4, WrapIsUnique
<1> QED BY <1>5 DEF a, b

LEMMA WindowAfterReceiveIsWindow ==
    ASSUME TypeOK, NEW n \in Buffers
    PROVE  WindowAfterReceive(n) = available
BY WrapAndBack, WindowAssumption, BufferAssumption DEF TypeOK, WindowAfterReceive

-----------------------------------------------------------------------------
(* What the calls that move state_ do to it.                               *)
Forward(s, t) == t \in States /\ (t = s \/ t = "CLOSED" \/ Stage(t) > Stage(s))

(* The moves of the handlers that do not end in CLOSED.                    *)
Moves ==
    {<<"CLOSED", "SYN_SENT">>, <<"CLOSED", "SYN_RECEIVED">>,
     <<"SYN_SENT", "ESTABLISHED">>, <<"SYN_RECEIVED", "ESTABLISHED">>,
     <<"ESTABLISHED", "FIN_WAIT_1">>, <<"ESTABLISHED", "CLOSE_WAIT">>,
     <<"FIN_WAIT_1", "FIN_WAIT_2">>, <<"FIN_WAIT_1", "CLOSING">>,
     <<"CLOSE_WAIT", "LAST_ACK">>,
     <<"FIN_WAIT_2", "TIME_WAIT">>, <<"CLOSING", "TIME_WAIT">>}

May(s, t) == t = s \/ t = "CLOSED" \/ <<s, t>> \in Moves

LEMMA HandlersMove ==
    ASSUME NEW s \in States
    PROVE  /\ May(s, Initiate(s)) /\ May(s, InitiateClose(s)) /\ May(s, CloseCall(s))
           /\ May(s, HandleIncomingSYN(s)) /\ May(s, HandleIncomingSYNACK(s))
           /\ May(s, HandleIncomingACK(s)) /\ May(s, HandleIncomingFIN(s))
           /\ May(s, SimulateTimeWaitTimeout(s))
           /\ May(s, HandleReset(s)) /\ May(s, SimulateTimeout(s))
BY DEF May, Moves, States, Initiate, InitiateClose, CloseCall, HandleIncomingSYN,
       HandleIncomingSYNACK, HandleIncomingACK, HandleIncomingFIN,
       SimulateTimeWaitTimeout, HandleReset, SimulateTimeout

LEMMA MovesGoForward ==
    ASSUME NEW s \in States, NEW t, May(s, t)
    PROVE  Forward(s, t)
<1>1. CASE t = s \/ t = "CLOSED"
    BY <1>1 DEF Forward, States
<1>2. CASE <<s, t>> \in Moves
    BY <1>2 DEF Forward, Moves, Stage, States
<1> QED BY <1>1, <1>2 DEF May

(* A step moves state_ forward and touches nothing else, or leaves it.     *)
LEMMA StateStep ==
    ASSUME TypeOK, Next
    PROVE  /\ Forward(state, state')
           /\ state' = state \/ UNCHANGED <<unacked, window, clock>>
<1>1. state \in States
    BY DEF TypeOK
<1>2. Forward(state, state)
    BY <1>1 DEF Forward
<1>3. CASE Control
    BY <1>1, <1>3, HandlersMove, MovesGoForward DEF Control, EnterState
<1>4. CASE ResetConnection
    BY <1>1, <1>4, HandlersMove, MovesGoForward DEF ResetConnection, EnterState
<1>5. CASE ~(Control \/ ResetConnection)
    BY <1>2, <1>5
    DEF Next, Call, SendPacket, AcknowledgePacket, Retransmit, SendKeepAlive, HandleKeepAlive,
        SetKeepAliveInterval, Tick, SetReceiveWindowSize, UpdateAvailableWindowSize,
        SendWindowUpdate, SendData, ReceiveData
<1> QED BY <1>3, <1>4, <1>5

-----------------------------------------------------------------------------
LEMMA TypeInit == Init => TypeOK
BY WindowAssumption, BufferAssumption, ClockAssumption DEF Init, TypeOK, States

(* What a step may do to the clock.                                        *)
ClockMoves ==
    \/ UNCHANGED clock
    \/ idle' = 0 /\ interval' \in Intervals
    \/ idle' = Later(idle) /\ UNCHANGED interval

LEMMA ClockStep ==
    ASSUME TypeOK, ClockMoves
    PROVE  idle' \in 0 .. MaxTicks /\ interval' \in Intervals
BY ClockAssumption DEF TypeOK, ClockMoves, Later, clock

(* What a step may do to the window: nothing, a grant, or an accepted send. *)
WindowMoves ==
    \/ UNCHANGED window
    \/ \E w \in 0 .. Modulus - 1 : Grant(w) /\ receiveWindow' \in 0 .. Modulus - 1
    \/ \E n \in Buffers :
           /\ CanSendData(n % Modulus) /\ spent + n <= MaxSpent
           /\ available' = (available - n) % Modulus /\ spent' = spent + n
           /\ UNCHANGED <<receiveWindow, credit>>

LEMMA WindowStep ==
    ASSUME TypeOK, WindowMoves
    PROVE  /\ receiveWindow' \in 0 .. Modulus - 1 /\ available' \in 0 .. Modulus - 1
           /\ credit' \in 0 .. Modulus - 1 /\ spent' \in 0 .. MaxSpent
<1>1. CASE UNCHANGED window
    BY <1>1 DEF window, TypeOK
<1>2. CASE \E w \in 0 .. Modulus - 1 : Grant(w) /\ receiveWindow' \in 0 .. Modulus - 1
    BY <1>2, BufferAssumption DEF Grant
<1>3. ASSUME NEW n \in Buffers, spent + n <= MaxSpent, spent' = spent + n,
             available' = (available - n) % Modulus, UNCHANGED <<receiveWindow, credit>>
      PROVE  /\ receiveWindow' \in 0 .. Modulus - 1 /\ available' \in 0 .. Modulus - 1
             /\ credit' \in 0 .. Modulus - 1 /\ spent' \in 0 .. MaxSpent
    <2>1. available - n \in Int /\ spent + n \in 0 .. MaxSpent
        BY <1>3, BufferAssumption DEF TypeOK
    <2> QED BY <1>3, <2>1, WrapInRange, WindowAssumption DEF TypeOK
<1> QED BY <1>1, <1>2, <1>3 DEF WindowMoves

(* Every step is one of these moves of the clock and of the window.        *)
LEMMA StepMoves ==
    ASSUME TypeOK, Next
    PROVE  ClockMoves /\ WindowMoves /\ unacked' \subseteq Seqs
<1>1. CASE Control \/ ResetConnection
    BY <1>1 DEF Control, ResetConnection, EnterState, ClockMoves, WindowMoves, TypeOK
<1>2. ASSUME NEW q \in Seqs, SendPacket(q) \/ AcknowledgePacket(q)
      PROVE  ClockMoves /\ WindowMoves /\ unacked' \subseteq Seqs
    BY <1>2 DEF SendPacket, AcknowledgePacket, Active, ClockMoves, WindowMoves, TypeOK
<1>3. CASE Retransmit \/ SendKeepAlive \/ HandleKeepAlive
    BY <1>3 DEF Retransmit, SendKeepAlive, HandleKeepAlive, Active, ClockMoves, WindowMoves,
                TypeOK
<1>4. ASSUME NEW i \in Intervals, SetKeepAliveInterval(i)
      PROVE  ClockMoves /\ WindowMoves /\ unacked' \subseteq Seqs
    BY <1>4 DEF SetKeepAliveInterval, ClockMoves, WindowMoves, TypeOK
<1>5. CASE Tick
    BY <1>5 DEF Tick, ClockMoves, WindowMoves, TypeOK
<1>6. ASSUME NEW w \in Windows,
             SetReceiveWindowSize(w) \/ UpdateAvailableWindowSize(w) \/ SendWindowUpdate(w)
      PROVE  ClockMoves /\ WindowMoves /\ unacked' \subseteq Seqs
    <2>1. w \in 0 .. Modulus - 1 /\ Least(w, receiveWindow) \in 0 .. Modulus - 1
        BY WindowAssumption DEF TypeOK, Least
    <2>2. ClockMoves /\ unacked' \subseteq Seqs
        BY <1>6 DEF SetReceiveWindowSize, UpdateAvailableWindowSize, SendWindowUpdate,
                    Active, ClockMoves, TypeOK
    <2>3. WindowMoves
        BY <1>6, <2>1 DEF SetReceiveWindowSize, UpdateAvailableWindowSize,
                          SendWindowUpdate, WindowMoves, TypeOK
    <2> QED BY <2>2, <2>3
<1>7. ASSUME NEW n \in Buffers, SendData(n) \/ ReceiveData(n)
      PROVE  ClockMoves /\ WindowMoves /\ unacked' \subseteq Seqs
    <2>1. WindowAfterReceive(n) = available
        BY WindowAfterReceiveIsWindow
    <2> QED BY <1>7, <2>1 DEF SendData, ReceiveData, Active, ClockMoves, WindowMoves,
                                window, TypeOK
<1> QED BY <1>1, <1>2, <1>3, <1>4, <1>5, <1>6, <1>7 DEF Next, Call

LEMMA TypeStep == TypeOK /\ [Next]_vars => TypeOK'
<1>1. ASSUME TypeOK, Next PROVE TypeOK'
    <2>1. state' \in States
        BY <1>1, StateStep DEF Forward
    <2> QED BY <1>1, <2>1, StepMoves, ClockStep, WindowStep DEF TypeOK
<1>2. ASSUME TypeOK, UNCHANGED vars PROVE TypeOK'
    BY <1>2 DEF vars, window, clock, TypeOK
<1> QED BY <1>1, <1>2

(* Every reachable state is well typed: no window leaves the range of its  *)
(* integer through any subtraction.                                        *)
THEOREM TypeCorrect == Spec => []TypeOK
BY TypeInit, TypeStep, PTL DEF Spec

(* Whatever is called in whatever order, state_ goes forward or to CLOSED. *)
THEOREM NeverBackward == Spec => OnlyForward
<1>1. TypeOK /\ [Next]_vars =>
          [state' = state \/ state' = "CLOSED" \/ Stage(state') > Stage(state)]_vars
    BY StateStep DEF Forward
<1> QED BY <1>1, TypeInit, TypeStep, PTL DEF Spec, OnlyForward

-----------------------------------------------------------------------------
(* Credit is kept when no buffer reaches 2^32 bytes.                       *)
LEMMA CreditStep ==
    ASSUME Buffers \subseteq 0 .. Modulus - 1
    PROVE  TypeOK /\ WithinCredit /\ [Next]_vars => WithinCredit'
<1>1. ASSUME TypeOK, WithinCredit, WindowMoves PROVE WithinCredit'
    <2>1. CASE UNCHANGED window
        BY <1>1, <2>1 DEF window, WithinCredit
    <2>2. CASE \E w \in 0 .. Modulus - 1 : Grant(w)
        BY <2>2 DEF Grant, WithinCredit
    <2>3. ASSUME NEW n \in Buffers, CanSendData(n % Modulus), spent' = spent + n,
                 available' = (available - n) % Modulus, UNCHANGED credit
          PROVE  WithinCredit'
        <3>1. n % Modulus = n /\ n \in 0 .. Modulus - 1
            BY WrapOfSmall, WindowAssumption
        <3>2. available - n \in 0 .. Modulus - 1
            BY <1>1, <2>3, <3>1, WindowAssumption DEF CanSendData, TypeOK
        <3>3. available' = available - n
            BY <2>3, <3>2, WrapOfSmall, WindowAssumption
        <3> QED BY <1>1, <2>3, <3>1, <3>3, WindowAssumption, BufferAssumption
                DEF WithinCredit, TypeOK
    <2> QED BY <1>1, <2>1, <2>2, <2>3 DEF WindowMoves
<1>2. ASSUME WithinCredit, UNCHANGED vars PROVE WithinCredit'
    BY <1>2 DEF vars, window, WithinCredit
<1> QED BY <1>1, <1>2, StepMoves

(* When buffers are smaller than 2^32 bytes, what was sent since a grant   *)
(* and what is left add up to the grant, for windows and buffers of any    *)
(* size: the bytes sent never exceed it.                                   *)
THEOREM CreditIsKept ==
    ASSUME Buffers \subseteq 0 .. Modulus - 1
    PROVE  Spec => []WithinCredit
<1>1. Init => WithinCredit
    BY WindowAssumption DEF Init, WithinCredit
<1>2. TypeOK /\ WithinCredit /\ [Next]_vars => WithinCredit'
    BY CreditStep
<1> QED BY <1>1, <1>2, TypeInit, TypeStep, PTL DEF Spec

-----------------------------------------------------------------------------
(* KeepAlive.  While no keep-alive is on its way the last one has arrived, *)
(* so the clock is no older than it; otherwise one on its way was sent     *)
(* within a period of the last time the clock was set.                     *)
ClockFollowsPeer ==
    IF flight = {} THEN idle <= gap ELSE \E age \in flight : idle <= age + Period

OnSchedule ==
    /\ TypeOK
    /\ gap \in 0 .. Period /\ flight \subseteq 0 .. Delay
    /\ ClockFollowsPeer

LEMMA ScheduleInit == KeepAliveInit => OnSchedule
BY TypeInit, ScheduleAssumption DEF KeepAliveInit, Init, OnSchedule, ClockFollowsPeer

(* A call sets the clock or leaves it.                                     *)
LEMMA CallStep ==
    ASSUME TypeOK, Call
    PROVE  TypeOK' /\ (idle' = 0 \/ idle' = idle)
<1>1. TypeOK'
    BY TypeStep DEF Next
<1>2. idle' = 0 \/ idle' = idle
    BY DEF Call, Control, ResetConnection, EnterState, SendPacket, AcknowledgePacket, Retransmit,
           SendKeepAlive, HandleKeepAlive, SetKeepAliveInterval, SetReceiveWindowSize,
           UpdateAvailableWindowSize, SendWindowUpdate, SendData, ReceiveData, Active, clock
<1> QED BY <1>1, <1>2

(* A clock that is set follows the peer.                                   *)
LEMMA FreshClock ==
    ASSUME gap' \in 0 .. Period, flight' \subseteq 0 .. Delay, idle' = 0
    PROVE  ClockFollowsPeer'
<1>1. CASE flight' = {}
    BY <1>1, ScheduleAssumption DEF ClockFollowsPeer
<1>2. CASE flight' # {}
  <2>1. PICK age \in flight' : TRUE
      BY <1>2
  <2>2. age \in Nat /\ 0 <= age + Period
      BY <2>1, ScheduleAssumption
  <2> QED BY <1>2, <2>1, <2>2 DEF ClockFollowsPeer
<1> QED BY <1>1, <1>2

LEMMA ScheduleStep ==
    OnSchedule /\ [KeepAliveNext]_<<vars, schedule>> => OnSchedule'
<1> SUFFICES ASSUME OnSchedule, [KeepAliveNext]_<<vars, schedule>> PROVE OnSchedule'
    OBVIOUS
<1>1. CASE Call /\ UNCHANGED schedule
  <2>1. TypeOK' /\ (idle' = 0 \/ idle' = idle)
      BY <1>1, CallStep DEF OnSchedule
  <2>2. ClockFollowsPeer'
      BY <1>1, <2>1, FreshClock DEF OnSchedule, ClockFollowsPeer, schedule
  <2> QED BY <1>1, <2>1, <2>2 DEF OnSchedule, schedule
<1>2. CASE PeerSends
  <2>1. TypeOK' /\ UNCHANGED idle
      BY <1>2, TypeStep DEF PeerSends, OnSchedule, vars, clock
  <2>2. idle <= 0 + Period \/ \E age \in flight : idle <= age + Period
      BY ScheduleAssumption DEF OnSchedule, ClockFollowsPeer, TypeOK
  <2>3. ClockFollowsPeer'
      BY <1>2, <2>1, <2>2 DEF PeerSends, ClockFollowsPeer
  <2> QED BY <1>2, <2>1, <2>3, ScheduleAssumption DEF PeerSends, OnSchedule
<1>3. ASSUME NEW age \in 0 .. Delay, KeepAliveArrives(age) PROVE OnSchedule'
  <2>1. TypeOK'
      BY <1>3, TypeStep DEF KeepAliveArrives, OnSchedule, Next, Call
  <2>2. gap' \in 0 .. Period /\ flight' \subseteq 0 .. Delay /\ idle' = 0
      BY <1>3 DEF KeepAliveArrives, HandleKeepAlive, Active, OnSchedule
  <2> QED BY <2>1, <2>2, FreshClock DEF OnSchedule
<1>4. CASE TimePasses
  <2>1. TypeOK'
      BY <1>4, TypeStep DEF TimePasses, OnSchedule, Next
  <2>2. gap' \in 0 .. Period /\ gap' = gap + 1
      BY <1>4, ScheduleAssumption DEF TimePasses, OnSchedule
  <2>3. flight' \subseteq 0 .. Delay
    <3>1. \A age \in flight : age + 1 \in 0 .. Delay
        BY <1>4, ScheduleAssumption DEF TimePasses, OnSchedule
    <3> QED BY <1>4, <3>1 DEF TimePasses
  <2>4. idle \in Nat /\ idle' \in Nat /\ idle' <= idle + 1
      BY <1>4, ClockAssumption DEF TimePasses, Tick, Later, OnSchedule, TypeOK
  <2>5. ClockFollowsPeer'
    <3>1. CASE flight = {}
        BY <1>4, <2>2, <2>4, <3>1, ScheduleAssumption
           DEF TimePasses, OnSchedule, ClockFollowsPeer
    <3>2. CASE flight # {}
      <4>1. PICK age \in flight : idle <= age + Period
          BY <3>2 DEF OnSchedule, ClockFollowsPeer
      <4>2. age \in Nat /\ idle' <= (age + 1) + Period
          BY <2>4, <4>1, ScheduleAssumption DEF OnSchedule
      <4>3. age + 1 \in flight'
          BY <1>4, <4>1 DEF TimePasses
      <4> QED BY <4>2, <4>3 DEF ClockFollowsPeer
    <3> QED BY <3>1, <3>2
  <2> QED BY <2>1, <2>2, <2>3, <2>5 DEF OnSchedule
<1>5. CASE UNCHANGED <<vars, schedule>>
  <2>1. TypeOK'
      BY <1>5, TypeStep DEF OnSchedule
  <2> QED BY <1>5, <2>1 DEF OnSchedule, ClockFollowsPeer, vars, clock, schedule
<1> QED BY <1>1, <1>2, <1>3, <1>4, <1>5 DEF KeepAliveNext

(* For any period, delay, intervals and slack, and whatever is called, a   *)
(* peer whose keep-alives come often enough is never taken for dead.       *)
THEOREM PeerIsNotTakenForDead == KeepAliveSpec => []KeepAlivesSuffice
<1>1. ASSUME OnSchedule, Period + Delay <= interval + Slack
      PROVE  IsConnectionAlive
  <2>1. idle \in Nat /\ interval \in Nat /\ gap \in 0 .. Period /\ flight \subseteq 0 .. Delay
      BY <1>1, ClockAssumption DEF OnSchedule, TypeOK
  <2>2. idle <= Period + Delay
      BY <1>1, <2>1, ScheduleAssumption DEF OnSchedule, ClockFollowsPeer
  <2> QED BY <1>1, <2>1, <2>2, ScheduleAssumption, ClockAssumption DEF IsConnectionAlive
<1>2. OnSchedule => KeepAlivesSuffice
    BY <1>1 DEF KeepAlivesSuffice
<1> QED BY <1>2, ScheduleInit, ScheduleStep, PTL DEF KeepAliveSpec
=============================================================================
