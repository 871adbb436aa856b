---------------------------- MODULE MCDiscovery ----------------------------
(* Instances of Discovery for TLC.                                         *)
EXTENDS Discovery

AllRules == CallerRules \cup {"threads_start"}

(* Callers that keep to all rules, to those that guard the thread, or to  *)
(* none, on systems that always have a thread to give and others.          *)
SomeDisciplines ==
    {AllRules, CallerRules, AllRules \ {"stop_to_restart"}, {"threads_start"}, {}}

(* One caller that does not stop a discovery that timed out.               *)
NoStopToRestart == {AllRules \ {"stop_to_restart"}}
=============================================================================
