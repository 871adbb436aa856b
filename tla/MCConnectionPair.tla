------------------------- MODULE MCConnectionPair -------------------------
(* Instances of ConnectionPair for TLC.                                    *)
EXTENDS ConnectionPair, TLC

(* Every combination of faults.                                            *)
AnyRegimes == SUBSET FaultKinds
=============================================================================
