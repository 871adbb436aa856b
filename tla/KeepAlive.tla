------------------------------ MODULE KeepAlive ------------------------------
(***************************************************************************)
(* The keep-alive clock of an endpoint (isConnectionAlive in               *)
(* src/src/core/srpt_connection.cpp) against a peer that sends keep-alives *)
(* and a network that delays and reorders them.  Neither is in the code,   *)
(* which has the calls and leaves the schedule to the application: this    *)
(* says what schedule is enough, whatever else the application calls.      *)
(*                                                                         *)
(* Other packets of the peer are no substitute.  SYN, SYN-ACK, ACK and FIN *)
(* move state_ and leave lastActivityTime_ alone, as do data outside       *)
(* ESTABLISHED and acknowledgements of numbers that are not held: a peer   *)
(* that shows itself by these alone is taken for dead.                     *)
(***************************************************************************)
EXTENDS ConnectionEndpoint

CONSTANTS Period,  \* the peer sends a keep-alive at least this often, in ticks
          Delay    \* and it arrives within this time

ASSUME ScheduleAssumption == Period \in Nat \ {0} /\ Delay \in Nat

VARIABLES gap,    \* ticks since the peer sent its last keep-alive
          flight  \* ages of the keep-alives on their way

schedule == <<gap, flight>>

KeepAliveInit == Init /\ gap = 0 /\ flight = {}

(* Two keep-alives sent in one tick count as one.                          *)
PeerSends ==
    /\ gap' = 0 /\ flight' = flight \cup {0}
    /\ UNCHANGED vars

KeepAliveArrives(age) ==
    /\ age \in flight /\ flight' = flight \ {age}
    /\ HandleKeepAlive
    /\ UNCHANGED gap

(* No time passes for a peer that must send, or a keep-alive that must     *)
(* arrive.                                                                 *)
TimePasses ==
    /\ gap < Period /\ gap' = gap + 1
    /\ \A age \in flight : age < Delay
    /\ flight' = {age + 1 : age \in flight}
    /\ Tick

KeepAliveNext ==
    \/ Call /\ UNCHANGED schedule
    \/ PeerSends
    \/ \E age \in 0 .. Delay : KeepAliveArrives(age)
    \/ TimePasses

KeepAliveSpec == KeepAliveInit /\ [][KeepAliveNext]_<<vars, schedule>>

-----------------------------------------------------------------------------
(* A peer whose keep-alives come often enough is never taken for dead: the *)
(* longest time between two of them and the longest delay of one together  *)
(* may take the interval and the slack up, to the last tick, in whatever   *)
(* order they arrive, whatever is called in between, in any state, and     *)
(* whatever the interval is changed to, as long as that holds of it.       *)
KeepAlivesSuffice == Period + Delay <= interval + Slack => IsConnectionAlive
=============================================================================
