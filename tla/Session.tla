------------------------------ MODULE Session ------------------------------
(***************************************************************************)
(* What two SRPTConnection endpoints promise each other, with no network   *)
(* in between: a side takes each step that needs the other side only when  *)
(* the other side really is where the step takes it to be.                 *)
(***************************************************************************)
CONSTANTS Client, Server

VARIABLE phase  \* phase[p]: how far p is in opening or closing a session

Sides == {Client, Server}
Across(p) == IF p = Client THEN Server ELSE Client

Phases == {"idle", "asking", "answering", "open", "closing", "half_closed", "released"}

SessionInit == phase = [p \in Sides |-> "idle"]

Become(p, ph) == phase' = [phase EXCEPT ![p] = ph]

Ask(p) == phase[p] = "idle" /\ Become(p, "asking")

(* Only a side that is asking is answered.                                 *)
Answer(p) ==
    /\ phase[p] = "idle" /\ phase[Across(p)] = "asking"
    /\ Become(p, "answering")

(* The asker opens once it is answered, the answerer once the asker did.   *)
Open(p) ==
    /\ \/ phase[p] = "asking" /\ phase[Across(p)] = "answering"
       \/ phase[p] = "answering" /\ phase[Across(p)] \in {"open", "closing"}
    /\ Become(p, "open")

Finish(p) == phase[p] \in {"open", "half_closed"} /\ Become(p, "closing")

(* A side learns that the other is done only from one that is.             *)
LearnFinish(p) ==
    /\ phase[p] = "open" /\ phase[Across(p)] = "closing"
    /\ Become(p, "half_closed")

(* A side is released only when the other took its end of the session:     *)
(* the other is no longer answering or open.                               *)
Release(p) ==
    /\ phase[p] = "closing" /\ phase[Across(p)] \notin {"answering", "open"}
    /\ Become(p, "released")

(* A side that is done, or that waited too long, forgets the session; an   *)
(* open one never does so on its own.                                      *)
Forget(p) == phase[p] \notin {"idle", "open"} /\ Become(p, "idle")

SessionNext ==
    \E p \in Sides :
        \/ Ask(p) \/ Answer(p) \/ Open(p) \/ Finish(p)
        \/ LearnFinish(p) \/ Release(p) \/ Forget(p)

SessionSpec == SessionInit /\ [][SessionNext]_phase
=============================================================================
