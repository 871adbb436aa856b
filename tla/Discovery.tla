----------------------------- MODULE Discovery -----------------------------
(***************************************************************************)
(* One Discovery object (src/src/network/local/discovery.cpp), the threads *)
(* that call it and the threads it runs.  A step is one access to what the *)
(* threads share: the atomic flag, the list of nodes, and discoveryThread, *)
(* a plain std::thread, which start assigns and stop joins without a lock: *)
(* the assignment tests it, reads it and writes it, and join reads it and  *)
(* writes it, as libstdc++ does (libc++ tests and writes).                 *)
(*                                                                         *)
(* The class states no rules.  The callers, and the system that gives them *)
(* threads, keep to some of these in a behaviour, chosen once:             *)
(*   "stop_alone"         stopDiscovery runs while no other call does      *)
(*   "stop_to_restart"    a discovery that timed out is stopped before     *)
(*                        startDiscovery is called again                   *)
(*   "timeout_is_long"    no discovery times out during a call             *)
(*   "threads_start"      the constructor of std::thread does not throw    *)
(*                                                                         *)
(* An operator whose name ends in Faulty is the definition after it with a *)
(* bug; it is used only to show that a property notices.                   *)
(***************************************************************************)
EXTENDS Naturals

CONSTANTS Callers,   \* threads that call startDiscovery and stopDiscovery
          Workers,   \* threads that run simulateDiscovery
          NoWorker,  \* a std::thread that is not joinable
          Disciplines  \* the sets of rules that behaviours may keep to

CallerRules == {"stop_alone", "stop_to_restart", "timeout_is_long"}

ASSUME NoWorkerAssumption == NoWorker \notin Workers
ASSUME RulesAreKnown == Disciplines \subseteq SUBSET (CallerRules \cup {"threads_start"})

VARIABLES active,    \* m_isDiscoveryActive
          handle,    \* the worker discoveryThread stands for
          found,     \* discoveredNodes has been filled
          caller,    \* caller[c]: how far c is in the call it makes
          temporary, \* temporary[c]: the thread c created and has not assigned
          seen,      \* seen[c]: what c read in discoveryThread to assign or join
          worker,    \* worker[w]: how far w is in simulateDiscovery
          fate,      \* whether the process still runs
          rules      \* the rules kept to

thread == <<handle, temporary, seen>>
vars == <<active, thread, found, caller, worker, fate, rules>>

Init ==
    /\ active = FALSE /\ handle = NoWorker /\ found = FALSE
    /\ caller = [c \in Callers |-> "idle"]
    /\ temporary = [c \in Callers |-> NoWorker]
    /\ seen = [c \in Callers |-> NoWorker]
    /\ worker = [w \in Workers |-> "off"]
    /\ fate = "running"
    /\ rules \in Disciplines

Starting(c) == caller[c] \in {"claimed", "created", "tested", "read"}
Stopping(c) == caller[c] \in {"stopping", "joinable", "joining"}

Live(w) == worker[w] \notin {"off", "done"}

(* A thread that no std::thread stands for any more.                       *)
Abandoned(w) == handle # w /\ \A c \in Callers : temporary[c] # w /\ seen[c] # w

Enter(c, from, to) == caller[c] = from /\ caller' = [caller EXCEPT ![c] = to]

-----------------------------------------------------------------------------
(* startDiscovery.  A call that finds the flag set returns false.          *)

MayStart ==
    /\ "stop_alone" \in rules => \A c \in Callers : ~Stopping(c)
    /\ "stop_to_restart" \in rules => handle = NoWorker

(* The flag set without looking at what it was.                            *)
StartClaimsFaulty(c) ==
    /\ MayStart
    /\ active' = TRUE
    /\ Enter(c, "idle", "claimed")
    /\ UNCHANGED <<thread, found, worker, fate>>

StartClaims(c) ==
    /\ MayStart
    /\ ~active /\ active' = TRUE
    /\ Enter(c, "idle", "claimed")
    /\ UNCHANGED <<thread, found, worker, fate>>

StartCreatesThread(c) ==
    /\ Enter(c, "claimed", "created")
    /\ \E w \in Workers :
           /\ worker[w] = "off" \/ (worker[w] = "done" /\ Abandoned(w))
           /\ worker' = [worker EXCEPT ![w] = "scanning"]
           /\ temporary' = [temporary EXCEPT ![c] = w]
    /\ UNCHANGED <<active, handle, seen, found, fate>>

(* The constructor of std::thread throws and the flag stays set.           *)
StartThrows(c) ==
    /\ "threads_start" \notin rules
    /\ Enter(c, "claimed", "idle")
    /\ UNCHANGED <<active, thread, found, worker, fate>>

(* Assigning over a joinable std::thread is std::terminate.                *)
StartTests(c) ==
    /\ Enter(c, "created", "tested")
    /\ fate' = IF handle = NoWorker THEN fate ELSE "terminated"
    /\ UNCHANGED <<active, thread, found, worker>>

StartReads(c) ==
    /\ Enter(c, "tested", "read")
    /\ seen' = [seen EXCEPT ![c] = handle]
    /\ UNCHANGED <<active, handle, temporary, found, worker, fate>>

(* The temporary gets what was read, and destroying a joinable thread is   *)
(* std::terminate, too.                                                    *)
StartWrites(c) ==
    /\ Enter(c, "read", "idle")
    /\ handle' = temporary[c]
    /\ temporary' = [temporary EXCEPT ![c] = NoWorker]
    /\ seen' = [seen EXCEPT ![c] = NoWorker]
    /\ fate' = IF seen[c] = NoWorker THEN fate ELSE "terminated"
    /\ UNCHANGED <<active, found, worker>>

-----------------------------------------------------------------------------
(* stopDiscovery.                                                          *)

StopClears(c) ==
    /\ "stop_alone" \in rules => \A d \in Callers : caller[d] = "idle"
    /\ active' = FALSE
    /\ Enter(c, "idle", "stopping")
    /\ UNCHANGED <<thread, found, worker, fate>>

StopFindsNoThread(c) ==
    /\ handle = NoWorker
    /\ Enter(c, "stopping", "idle")
    /\ UNCHANGED <<active, thread, found, worker, fate>>

StopFindsThread(c) ==
    /\ handle # NoWorker
    /\ Enter(c, "stopping", "joinable")
    /\ UNCHANGED <<active, thread, found, worker, fate>>

(* Joining no thread throws, and nobody catches it; joining one that       *)
(* another caller joins is undefined.                                      *)
StopJoins(c) ==
    /\ Enter(c, "joinable", "joining")
    /\ seen' = [seen EXCEPT ![c] = handle]
    /\ fate' = CASE handle = NoWorker -> "terminated"
                [] \E d \in Callers : caller[d] = "joining" /\ seen[d] = handle -> "undefined"
                [] OTHER -> fate
    /\ UNCHANGED <<active, handle, temporary, found, worker>>

(* The thread detached, not joined.                                        *)
StopReturnsFaulty(c) ==
    /\ handle' = NoWorker
    /\ seen' = [seen EXCEPT ![c] = NoWorker]
    /\ Enter(c, "joining", "idle")
    /\ UNCHANGED <<active, temporary, found, worker, fate>>

(* The thread joined by its native_handle, discoveryThread left as it was. *)
StopReturnsNativeFaulty(c) ==
    /\ Enter(c, "joining", "idle")
    /\ worker[seen[c]] = "done"
    /\ worker' = [worker EXCEPT ![seen[c]] = "off"]
    /\ seen' = [seen EXCEPT ![c] = NoWorker]
    /\ UNCHANGED <<active, handle, temporary, found, fate>>

(* join waits for the worker, and leaves discoveryThread without a thread  *)
(* whatever it stands for by then.                                         *)
StopReturns(c) ==
    /\ Enter(c, "joining", "idle")
    /\ worker[seen[c]] = "done"
    /\ worker' = [worker EXCEPT ![seen[c]] = "off"]
    /\ handle' = NoWorker
    /\ seen' = [seen EXCEPT ![c] = NoWorker]
    /\ UNCHANGED <<active, temporary, found, fate>>

-----------------------------------------------------------------------------
(* simulateDiscovery.  While it scans it only reads the flag and the clock.*)

WorkerSeesStop(w) ==
    /\ worker[w] = "scanning" /\ ~active
    /\ worker' = [worker EXCEPT ![w] = "publishing"]
    /\ UNCHANGED <<active, thread, found, caller, fate>>

WorkerTimesOut(w) ==
    /\ worker[w] = "scanning"
    /\ "timeout_is_long" \in rules => \A c \in Callers : caller[c] = "idle"
    /\ worker' = [worker EXCEPT ![w] = "publishing"]
    /\ UNCHANGED <<active, thread, found, caller, fate>>

(* stopDiscovery holds the mutex of the list while it joins.               *)
WorkerPublishesFaulty(w) ==
    /\ worker[w] = "publishing" /\ \A c \in Callers : caller[c] # "joining"
    /\ worker' = [worker EXCEPT ![w] = "clearing"]
    /\ found' = TRUE
    /\ UNCHANGED <<active, thread, caller, fate>>

WorkerPublishes(w) ==
    /\ worker[w] = "publishing"
    /\ worker' = [worker EXCEPT ![w] = "clearing"]
    /\ found' = TRUE
    /\ UNCHANGED <<active, thread, caller, fate>>

(* The flag left set at the end.                                           *)
WorkerClearsFaulty(w) ==
    /\ worker[w] = "clearing"
    /\ worker' = [worker EXCEPT ![w] = "done"]
    /\ UNCHANGED <<active, thread, found, caller, fate>>

WorkerClears(w) ==
    /\ worker[w] = "clearing"
    /\ worker' = [worker EXCEPT ![w] = "done"]
    /\ active' = FALSE
    /\ UNCHANGED <<thread, found, caller, fate>>

-----------------------------------------------------------------------------
StartStep(c) ==
    \/ StartClaims(c) \/ StartCreatesThread(c) \/ StartThrows(c)
    \/ StartTests(c) \/ StartReads(c) \/ StartWrites(c)

StopStep(c) ==
    \/ StopClears(c) \/ StopFindsNoThread(c) \/ StopFindsThread(c)
    \/ StopJoins(c) \/ StopReturns(c)

WorkerStep(w) ==
    WorkerSeesStop(w) \/ WorkerTimesOut(w) \/ WorkerPublishes(w) \/ WorkerClears(w)

Next ==
    /\ fate = "running" /\ UNCHANGED rules
    /\ \/ \E c \in Callers : StartStep(c) \/ StopStep(c)
       \/ \E w \in Workers : WorkerStep(w)

Spec == Init /\ [][Next]_vars

(* Every thread runs: a caller goes on with the call it is in, a worker    *)
(* with its loop.  Nobody has to call stopDiscovery.                       *)
Fairness ==
    /\ \A c \in Callers :
           WF_vars(/\ fate = "running" /\ UNCHANGED rules
                   /\ caller[c] # "idle" /\ (StartStep(c) \/ StopStep(c)))
    /\ \A w \in Workers : WF_vars(fate = "running" /\ UNCHANGED rules /\ WorkerStep(w))

FairSpec == Spec /\ Fairness

-----------------------------------------------------------------------------
(* Every variable has its type, and discoveryThread never stands for a     *)
(* thread that was joined, nor a caller's temporary, whoever races whom.   *)
TypeOK ==
    /\ active \in BOOLEAN /\ found \in BOOLEAN
    /\ handle \in Workers \cup {NoWorker}
    /\ caller \in [Callers -> {"idle", "claimed", "created", "tested", "read",
                              "stopping", "joinable", "joining"}]
    /\ temporary \in [Callers -> Workers \cup {NoWorker}]
    /\ seen \in [Callers -> Workers \cup {NoWorker}]
    /\ worker \in [Workers -> {"off", "scanning", "publishing", "clearing", "done"}]
    /\ fate \in {"running", "terminated", "undefined"}
    /\ rules \in Disciplines
    /\ handle # NoWorker => worker[handle] # "off"
    /\ \A c \in Callers : temporary[c] # NoWorker => worker[temporary[c]] # "off"

(* The flag is the only guard of discoveryThread, and one that workers     *)
(* clear too.  It does guard it for callers that stop alone and whose      *)
(* discoveries do not time out during a call: no two calls access it at    *)
(* once, and no thread is lost, created and not joined with no std::thread *)
(* to stand for it.  Breaking the third rule ends in std::terminate, never *)
(* in a lost thread.                                                       *)
Guarded == {"stop_alone", "timeout_is_long"} \subseteq rules

NoRace == \A c, d \in Callers : caller[c] # "idle" /\ caller[d] # "idle" => c = d

NoThreadLost ==
    fate = "running" =>
        \A w \in Workers :
            worker[w] # "off" => handle = w \/ \E c \in Callers : temporary[c] = w

ThreadIsGuarded == Guarded => NoRace /\ NoThreadLost

Disciplined == CallerRules \subseteq rules

(* No thread that was not joined is assigned over, none is joined twice.   *)
NeverBroken == Disciplined => fate = "running"

(* Two workers are never alive at once.                                    *)
OneWorker == Disciplined => \A v, w \in Workers : Live(v) /\ Live(w) => v = w

(* However many callers race to start and to stop, no sequence of calls    *)
(* that keeps to the rules breaks the process or leaves two workers alive. *)
RulesProtect == NeverBroken /\ OneWorker

(* When stopDiscovery returns to callers that keep to the rules, the flag  *)
(* is clear, no worker is alive to change what the caller reads next, and  *)
(* what the worker found is there.                                         *)
StoppedMeansStopped ==
    [][\A c \in Callers : Disciplined /\ Stopping(c) /\ caller'[c] = "idle" =>
           /\ ~active'
           /\ \A w \in Workers : worker'[w] \in {"off", "done"}
           /\ handle # NoWorker => found']_vars

(* Callers with rules or none: if threads start, the flag is not left set  *)
(* with nobody to clear it; a discovery is over some time, though nobody   *)
(* stops it, in a process that still runs.                                 *)
DiscoveryEnds ==
    active /\ "threads_start" \in rules ~> (~active \/ fate # "running")

(* stopDiscovery does not wait for ever, not even for a worker that missed *)
(* the flag because another caller set it again.                           *)
StopDiscoveryReturns == \A c \in Callers : Stopping(c) ~> (~Stopping(c) \/ fate # "running")

-----------------------------------------------------------------------------
(* discovery_test.cpp:14 and :60: startDiscovery returns true on an object *)
(* that is not active, and one whose discovery timed out is not active.    *)
(* Stated for a process that survives the call.                            *)
StartSurvives == fate # "terminated"
=============================================================================
