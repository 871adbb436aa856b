---------------------------- MODULE Connection ----------------------------
(***************************************************************************)
(* One SRPTConnection endpoint (src/src/core/srpt_connection.cpp) as pure  *)
(* state transformers.  Every handler but handleReset either moves state_  *)
(* and returns true, or leaves it alone and returns false, and none moves  *)
(* a state to itself: such a handler returned true exactly when the        *)
(* transformer changes its argument.                                       *)
(*                                                                         *)
(* An operator whose name ends in Faulty is a handler with a bug that no   *)
(* definition uses: put in the place of the handler, it shows that a       *)
(* property notices.                                                       *)
(***************************************************************************)

States == {"CLOSED", "SYN_SENT", "SYN_RECEIVED", "ESTABLISHED", "FIN_WAIT_1",
           "FIN_WAIT_2", "CLOSE_WAIT", "CLOSING", "LAST_ACK", "TIME_WAIT"}

-----------------------------------------------------------------------------
(* Calls the application makes.                                            *)

Initiate(s) == IF s = "CLOSED" THEN "SYN_SENT" ELSE s

InitiateClose(s) == IF s = "ESTABLISHED" THEN "FIN_WAIT_1" ELSE s

CloseCall(s) == IF s = "CLOSE_WAIT" THEN "LAST_ACK" ELSE s

-----------------------------------------------------------------------------
(* Calls made when a packet of the given kind arrives.                     *)

(* A simultaneous open, accepted.                                          *)
HandleIncomingSYNFaulty(s) == IF s \in {"CLOSED", "SYN_SENT"} THEN "SYN_RECEIVED" ELSE s

HandleIncomingSYN(s) == IF s = "CLOSED" THEN "SYN_RECEIVED" ELSE s

HandleIncomingSYNACK(s) == IF s = "SYN_SENT" THEN "ESTABLISHED" ELSE s

(* CLOSING left out.                                                       *)
HandleIncomingACKNoClosingFaulty(s) ==
    CASE s = "SYN_RECEIVED" -> "ESTABLISHED"
      [] s = "FIN_WAIT_1"   -> "FIN_WAIT_2"
      [] s = "LAST_ACK"     -> "CLOSED"
      [] OTHER              -> s

HandleIncomingACK(s) ==
    CASE s = "SYN_RECEIVED" -> "ESTABLISHED"
      [] s = "FIN_WAIT_1"   -> "FIN_WAIT_2"
      [] s = "CLOSING"      -> "TIME_WAIT"
      [] s = "LAST_ACK"     -> "CLOSED"
      [] OTHER              -> s

(* A FIN taken before the handshake is done.                               *)
HandleIncomingFINEarlyFaulty(s) ==
    CASE s \in {"SYN_RECEIVED", "ESTABLISHED"} -> "CLOSE_WAIT"
      [] s = "FIN_WAIT_1"  -> "CLOSING"
      [] s = "FIN_WAIT_2"  -> "TIME_WAIT"
      [] OTHER             -> s

(* A repeated FIN taken again.                                             *)
HandleIncomingFINAgainFaulty(s) ==
    CASE s \in {"ESTABLISHED", "LAST_ACK"} -> "CLOSE_WAIT"
      [] s = "FIN_WAIT_1"  -> "CLOSING"
      [] s = "FIN_WAIT_2"  -> "TIME_WAIT"
      [] OTHER             -> s

HandleIncomingFIN(s) ==
    CASE s = "ESTABLISHED" -> "CLOSE_WAIT"
      [] s = "FIN_WAIT_1"  -> "CLOSING"
      [] s = "FIN_WAIT_2"  -> "TIME_WAIT"
      [] OTHER             -> s

(* handleReset runs resetConnection in every state.                        *)
HandleReset(s) == "CLOSED"

-----------------------------------------------------------------------------
(* Calls made when a timer expires.                                        *)

SimulateTimeWaitTimeout(s) == IF s = "TIME_WAIT" THEN "CLOSED" ELSE s

(* FIN_WAIT_2 left out.                                                    *)
SimulateTimeoutLingersFaulty(s) == IF s \in {"ESTABLISHED", "FIN_WAIT_2"} THEN s ELSE "CLOSED"

(* A passive opener sent back to a state the class does not have.          *)
SimulateTimeoutListenFaulty(s) ==
    CASE s = "ESTABLISHED"  -> s
      [] s = "SYN_RECEIVED" -> "LISTEN"
      [] OTHER              -> "CLOSED"

(* A timer that runs out gives the connection up in every state but        *)
(* ESTABLISHED (and CLOSED, which has nothing to give up).                 *)
SimulateTimeout(s) == IF s = "ESTABLISHED" THEN s ELSE "CLOSED"
=============================================================================
