----------------------------- MODULE Satellite -----------------------------
(***************************************************************************)
(* Satellite sessions and their streams (src/src/satellite/                *)
(* srpt_satellite.cpp, iridium_provider.cpp, starlink_provider.cpp).       *)
(*                                                                         *)
(* Either provider is a queue that sending appends to and receiving takes  *)
(* from; a stream is a reference to the provider of its session.  Connect, *)
(* Disconnect and Close change nothing, and nothing asks whether they were *)
(* called.  A call that throws or returns false is no step.  The program   *)
(* keeps a session as long as its streams, as the tests do: nothing in the *)
(* code sees to it.                                                        *)
(***************************************************************************)
EXTENDS Naturals, Sequences

CONSTANTS Sessions,  \* sessions a program creates at most
          Streams,   \* streams it creates at most
          MaxWrites  \* messages written to a session at most

Providers == {"STARLINK", "IRIDIUM"}

Unset == "unset"  \* a provider_ that was never set: uninitialised
NoSession == "no session"

ASSUME SessionsAssumption == NoSession \notin Sessions
ASSUME MaxWritesAssumption == MaxWrites \in Nat

VARIABLES config,     \* config[s]: provider_ of the SatelliteConfig for s
          created,    \* the sessions created
          stream,     \* stream[t]: the session t writes to and reads from
          queue,      \* m_dataQueue of the provider of s
          written,    \* history: what was written to s, in order
          received    \* history: what was read from s, in order

setup == <<config, created, stream>>
data == <<queue, written, received>>

SatelliteInit ==
    /\ config = [s \in Sessions |-> Unset]
    /\ created = {}
    /\ stream = [t \in Streams |-> NoSession]
    /\ queue = [s \in Sessions |-> <<>>]
    /\ written = queue /\ received = queue

(* A session keeps a copy of its configuration: only calls before it is    *)
(* created matter.                                                         *)
SetProvider(s, p) ==
    /\ s \notin created
    /\ config' = [config EXCEPT ![s] = p]
    /\ UNCHANGED <<created, stream, data>>

(* An uninitialised provider_ may be either of the two by chance; one that *)
(* is neither is refused with an exception.  The configuration is not      *)
(* looked at again, so the model forgets it.                               *)
CreateSatelliteSession(s) ==
    /\ s \notin created
    /\ created' = created \cup {s}
    /\ config' = [config EXCEPT ![s] = Unset]
    /\ UNCHANGED <<stream, data>>

Connect(s) == s \in created /\ UNCHANGED <<setup, data>>

(* What still waits is dropped.                                            *)
DisconnectFaulty(s) ==
    /\ s \in created
    /\ queue' = [queue EXCEPT ![s] = <<>>]
    /\ UNCHANGED <<setup, written, received>>

Disconnect(s) == s \in created /\ UNCHANGED <<setup, data>>

CreateSatelliteStream(t, s) ==
    /\ s \in created /\ stream[t] = NoSession
    /\ stream' = [stream EXCEPT ![t] = s]
    /\ UNCHANGED <<config, created, data>>

Close(t) == stream[t] # NoSession /\ UNCHANGED <<setup, data>>

-----------------------------------------------------------------------------
SendData(s, d) ==
    /\ queue' = [queue EXCEPT ![s] = Append(@, d)]
    /\ written' = [written EXCEPT ![s] = Append(@, d)]
    /\ UNCHANGED <<setup, received>>

(* The newest is taken, as from the other end of the deque.                *)
ReceiveDataFaulty(s) ==
    /\ queue[s] # <<>>
    /\ queue' = [queue EXCEPT ![s] = SubSeq(@, 1, Len(@) - 1)]
    /\ received' = [received EXCEPT ![s] = Append(@, queue[s][Len(queue[s])])]
    /\ UNCHANGED <<setup, written>>

(* Of an empty queue it returns false.                                     *)
ReceiveData(s) ==
    /\ queue[s] # <<>>
    /\ queue' = [queue EXCEPT ![s] = Tail(@)]
    /\ received' = [received EXCEPT ![s] = Append(@, Head(queue[s]))]
    /\ UNCHANGED <<setup, written>>

Write(t, d) ==
    /\ stream[t] # NoSession
    /\ Len(written[stream[t]]) < MaxWrites
    /\ SendData(stream[t], d)

Read(t) == stream[t] # NoSession /\ ReceiveData(stream[t])

SetupStep ==
    \/ \E s \in Sessions :
           \/ \E p \in Providers : SetProvider(s, p)
           \/ CreateSatelliteSession(s) \/ Connect(s) \/ Disconnect(s)
           \/ \E t \in Streams : CreateSatelliteStream(t, s)
    \/ \E t \in Streams : Close(t)

-----------------------------------------------------------------------------
(* Whichever streams write and read, whatever is closed, disconnected or   *)
(* connected again in between, what was read and what still waits in the   *)
(* provider's queue are together what was written, in that order: nothing  *)
(* is lost, repeated, overtaken or carried to another session.             *)
InOrder == \A s \in Sessions : written[s] = received[s] \o queue[s]
=============================================================================
