----------------------------- MODULE MCMission -----------------------------
(* Instances of Mission for TLC.  Keys are three bytes; the first bytes    *)
(* take the values of the identifiers, "E" and "G", and another.           *)
EXTENDS Mission

(* Two for each party: enough for one restart.                             *)
AnyDroneKeys == {<<"E", "x", "d">>, <<"G", "E", "d">>}
AnyGroundKeys == {<<"x", "x", "g">>, <<"G", "E", "g">>}

(* Begun by the drone, with data to follow; begun by the drone on the      *)
(* worst network; or everything at once.                                   *)
AnyRegimes ==
    {{"drone_first", "mission"} \cup r : r \in {{}, {"duplicate"}, {"retry"}, {"loss"}}}
        \cup {{"drone_first", "retry", "loss", "duplicate"}, Conditions \ {"mission"}}

(* Shorter than the tag and as long.                                       *)
AnyPlaintexts == {<<"s">>, <<"s", "t">>}

QuietMission == {{"drone_first", "mission"}}

GroundRegimes == {{"ground_first"}}
=============================================================================
