-------------------------- MODULE Discovery_proofs --------------------------
(***************************************************************************)
(* Proofs about Discovery, for any callers, workers and rules.             *)
(***************************************************************************)
EXTENDS Discovery, TLAPS

(* Which std::thread a caller has while it is in its call.                 *)
Holding ==
    \A c \in Callers :
        /\ caller[c] \in {"created", "tested", "read"} <=> temporary[c] # NoWorker
        /\ seen[c] # NoWorker => caller[c] \in {"read", "joining"}

Joins(c) == caller[c] = "joining"

(* Until the process breaks no thread is in two hands.                     *)
Owned ==
    fate = "running" =>
        \A c, d \in Callers :
            /\ temporary[c] # NoWorker =>
                   /\ temporary[c] # handle
                   /\ temporary[c] = temporary[d] => c = d
            /\ Joins(c) => /\ seen[c] # NoWorker /\ worker[seen[c]] # "off"
                           /\ seen[c] # temporary[d]
                           /\ Joins(d) /\ seen[c] = seen[d] => c = d

(* What the worker found is there before it ends.                          *)
DoneHasFound == \A w \in Workers : worker[w] \in {"clearing", "done"} => found

(* The call of a caller that keeps the thread guarded: the worker of a     *)
(* call to startDiscovery is the only one alive, is scanning and finds the *)
(* flag set; a call to stopDiscovery joins the thread it tested.           *)
StartIsAlone ==
    \A c \in Callers :
        /\ Starting(c) => active /\ \A w \in Workers : Live(w) => temporary[c] = w
        /\ caller[c] \in {"tested", "read"} => handle = NoWorker /\ seen[c] = NoWorker
        /\ temporary[c] # NoWorker => worker[temporary[c]] = "scanning"

StopIsAlone ==
    \A c \in Callers :
        /\ Stopping(c) => ~active
        /\ caller[c] \in {"joinable", "joining"} => handle # NoWorker
        /\ Joins(c) => seen[c] = handle

OneAlive == \A v, w \in Workers : Live(v) /\ Live(w) => v = w

RestIsOver == ~active /\ (\A c \in Callers : ~Stopping(c)) => \A w \in Workers : ~Live(w)

Orderly == NoThreadLost /\ StartIsAlone /\ StopIsAlone /\ OneAlive /\ RestIsOver

(* With the third rule, startDiscovery finds no thread to assign over.     *)
StartsAfresh == \A c \in Callers : Starting(c) => handle = NoWorker

IInv ==
    /\ TypeOK /\ Holding /\ Owned /\ DoneHasFound
    /\ Guarded => NoRace /\ (fate = "running" => Orderly)
    /\ Disciplined => fate = "running" /\ StartsAfresh

LEMMA Begins == Init => IInv
<1> SUFFICES ASSUME Init PROVE IInv
    OBVIOUS
<1>1. TypeOK /\ Holding /\ Owned /\ DoneHasFound
    BY NoWorkerAssumption DEF Init, TypeOK, Holding, Owned, DoneHasFound, Joins
<1>2. NoRace /\ Orderly
    BY DEF Init, Orderly, NoRace, NoThreadLost, StartIsAlone, StopIsAlone, OneAlive, RestIsOver,
           Starting, Stopping, Live, Joins
<1>3. fate = "running" /\ StartsAfresh
    BY DEF Init, StartsAfresh
<1> QED BY <1>1, <1>2, <1>3 DEF IInv

-----------------------------------------------------------------------------
(* Whatever the callers do.                                                *)

Sound == TypeOK /\ Holding /\ Owned

(* A worker that startDiscovery may use is in nobody's hands.              *)
LEMMA NewIsFree ==
    ASSUME Sound, fate = "running", NEW w \in Workers,
           worker[w] = "off" \/ (worker[w] = "done" /\ Abandoned(w))
    PROVE  /\ handle # w
           /\ \A c \in Callers : temporary[c] # w /\ (Joins(c) => seen[c] # w)
BY NoWorkerAssumption DEF Sound, TypeOK, Holding, Owned, Abandoned

LEMMA CreateIsSound ==
    ASSUME Sound, fate = "running", NEW c \in Callers, StartCreatesThread(c), rules' = rules
    PROVE  Sound'
<1>1. PICK w \in Workers : /\ worker[w] = "off" \/ (worker[w] = "done" /\ Abandoned(w))
                           /\ worker' = [worker EXCEPT ![w] = "scanning"]
                           /\ temporary' = [temporary EXCEPT ![c] = w]
    BY DEF StartCreatesThread
<1>2. /\ handle # w
      /\ \A d \in Callers : temporary[d] # w /\ (Joins(d) => seen[d] # w)
    BY <1>1, NewIsFree
<1>3. /\ caller[c] = "claimed" /\ caller' = [caller EXCEPT ![c] = "created"]
      /\ UNCHANGED <<active, handle, seen, found, fate, rules>>
    BY DEF StartCreatesThread, Enter
<1>4. TypeOK'
    BY <1>1, <1>2, <1>3, NoWorkerAssumption DEF Sound, TypeOK
<1>5. Holding'
    BY <1>1, <1>3, NoWorkerAssumption DEF Sound, TypeOK, Holding
<1>6. Owned'
    BY <1>1, <1>2, <1>3, NoWorkerAssumption DEF Sound, TypeOK, Holding, Owned, Joins
<1> QED BY <1>4, <1>5, <1>6 DEF Sound

LEMMA SoundStep ==
    ASSUME Sound, Next
    PROVE  Sound'
<1>1. rules' = rules /\ fate = "running"
    BY DEF Next
<1> USE DEF Enter
<1>2. ASSUME NEW c \in Callers, StartClaims(c) \/ StartThrows(c) \/ StartTests(c)
      PROVE  Sound'
  <2>1. /\ UNCHANGED <<thread, worker, found>> /\ active' \in BOOLEAN
        /\ fate' \in {fate, "terminated"}
      BY <1>2 DEF Sound, TypeOK, StartClaims, StartThrows, StartTests
  <2>2. \E from \in {"idle", "claimed", "created"}, to \in {"idle", "claimed", "tested"} :
            /\ from = "created" <=> to = "tested"
            /\ caller[c] = from /\ caller' = [caller EXCEPT ![c] = to]
      BY <1>2 DEF StartClaims, StartThrows, StartTests
  <2>3. TypeOK'
      BY <1>1, <2>1, <2>2 DEF Sound, TypeOK, thread
  <2>4. Holding'
      BY <2>1, <2>2 DEF Sound, TypeOK, Holding, thread
  <2>5. Owned'
      BY <1>1, <2>1, <2>2 DEF Sound, TypeOK, Owned, Joins, thread
  <2> QED BY <2>3, <2>4, <2>5 DEF Sound
<1>3. ASSUME NEW c \in Callers, StartCreatesThread(c) PROVE Sound'
    BY <1>1, <1>3, CreateIsSound
<1>4. ASSUME NEW c \in Callers, StartReads(c) \/ StartWrites(c) PROVE Sound'
  <2>1. TypeOK'
      BY <1>1, <1>4, NoWorkerAssumption DEF Sound, TypeOK, Holding, StartReads, StartWrites
  <2>2. Holding'
      BY <1>1, <1>4, NoWorkerAssumption DEF Sound, TypeOK, Holding, StartReads, StartWrites
  <2>3. Owned'
      BY <1>1, <1>4, NoWorkerAssumption
         DEF Sound, TypeOK, Holding, Owned, Joins, StartReads, StartWrites
  <2> QED BY <2>1, <2>2, <2>3 DEF Sound
<1>5. ASSUME NEW c \in Callers, StopClears(c) \/ StopFindsNoThread(c) \/ StopFindsThread(c)
      PROVE  Sound'
  <2>1. UNCHANGED <<thread, worker, found, fate>> /\ active' \in BOOLEAN
      BY <1>5 DEF Sound, TypeOK, StopClears, StopFindsNoThread, StopFindsThread
  <2>2. \E from \in {"idle", "stopping"}, to \in {"idle", "stopping", "joinable"} :
            caller[c] = from /\ caller' = [caller EXCEPT ![c] = to]
      BY <1>5 DEF StopClears, StopFindsNoThread, StopFindsThread
  <2>3. TypeOK'
      BY <1>1, <2>1, <2>2 DEF Sound, TypeOK, thread
  <2>4. Holding'
      BY <2>1, <2>2 DEF Sound, TypeOK, Holding, thread
  <2>5. Owned'
      BY <1>1, <2>1, <2>2 DEF Sound, TypeOK, Owned, Joins, thread
  <2> QED BY <2>3, <2>4, <2>5 DEF Sound
<1>6. ASSUME NEW c \in Callers, StopJoins(c) PROVE Sound'
  <2>1. TypeOK' /\ Holding'
      BY <1>1, <1>6, NoWorkerAssumption DEF Sound, TypeOK, Holding, StopJoins
  <2>2. Owned'
      BY <1>1, <1>6, NoWorkerAssumption DEF Sound, TypeOK, Holding, Owned, Joins, StopJoins
  <2> QED BY <2>1, <2>2 DEF Sound
<1>7. ASSUME NEW c \in Callers, StopReturns(c) PROVE Sound'
  <2>1. Joins(c) /\ seen[c] \in Workers /\ \A d \in Callers : temporary[d] # seen[c]
      BY <1>1, <1>7, NoWorkerAssumption DEF Sound, TypeOK, Owned, Joins, StopReturns
  <2>2. TypeOK'
      BY <1>1, <1>7, <2>1, NoWorkerAssumption DEF Sound, TypeOK, StopReturns
  <2>3. Holding'
      BY <1>1, <1>7, NoWorkerAssumption DEF Sound, TypeOK, Holding, StopReturns
  <2>4. Owned'
      BY <1>1, <1>7, <2>1, NoWorkerAssumption
         DEF Sound, TypeOK, Holding, Owned, Joins, StopReturns
  <2> QED BY <2>2, <2>3, <2>4 DEF Sound
<1>8. ASSUME NEW w \in Workers, WorkerStep(w) PROVE Sound'
  <2>1. /\ UNCHANGED <<thread, caller, fate>> /\ worker[w] # "off"
        /\ active' \in BOOLEAN /\ found' \in BOOLEAN
        /\ \E place \in {"publishing", "clearing", "done"} :
               worker' = [worker EXCEPT ![w] = place]
      BY <1>8 DEF WorkerStep, WorkerSeesStop, WorkerTimesOut, WorkerPublishes, WorkerClears,
                  Sound, TypeOK
  <2> QED BY <1>1, <2>1 DEF Sound, TypeOK, Holding, Owned, Joins, thread
<1> QED BY <1>2, <1>3, <1>4, <1>5, <1>6, <1>7, <1>8 DEF Next, StartStep, StopStep

LEMMA FoundStep ==
    ASSUME TypeOK, DoneHasFound, Next
    PROVE  DoneHasFound'
<1> USE DEF TypeOK, DoneHasFound
<1>1. ASSUME NEW c \in Callers, StartStep(c) PROVE DoneHasFound'
    BY <1>1 DEF StartStep, StartClaims, StartCreatesThread, StartThrows, StartTests, StartReads,
                StartWrites
<1>2. ASSUME NEW c \in Callers, StopStep(c) PROVE DoneHasFound'
    BY <1>2 DEF StopStep, StopClears, StopFindsNoThread, StopFindsThread, StopJoins, StopReturns
<1>3. ASSUME NEW w \in Workers, WorkerStep(w) PROVE DoneHasFound'
    BY <1>3 DEF WorkerStep, WorkerSeesStop, WorkerTimesOut, WorkerPublishes, WorkerClears
<1> QED BY <1>1, <1>2, <1>3 DEF Next

-----------------------------------------------------------------------------
(* Callers that keep the thread guarded.                                   *)

Ready == Sound /\ Guarded /\ NoRace /\ fate = "running" /\ Orderly

Kept == NoRace' /\ (fate' = "running" => Orderly')

(* A call that goes on is the only one.                                    *)
LEMMA OthersAreIdle ==
    ASSUME Ready, NEW c \in Callers, caller[c] # "idle"
    PROVE  \A d \in Callers : d # c => caller[d] = "idle" /\ temporary[d] = NoWorker
BY DEF Ready, NoRace, Sound, Holding

(* A new call begins alone.                                                *)
LEMMA BeginsAlone ==
    ASSUME Ready, NEW c \in Callers, StartClaims(c) \/ StopClears(c)
    PROVE  \A d \in Callers : caller[d] = "idle" /\ temporary[d] = NoWorker
<1>1. {"stop_alone", "timeout_is_long"} \subseteq rules
    BY DEF Ready, Guarded
<1>2. \A d \in Callers : caller[d] = "idle"
    BY <1>1 DEF Ready, Sound, TypeOK, Orderly, StartIsAlone, StartClaims, StopClears, MayStart,
                Starting, Stopping
<1> QED BY <1>2 DEF Ready, Sound, Holding

LEMMA StartKeepsOrder ==
    ASSUME Ready, NEW c \in Callers, StartStep(c), rules' = rules
    PROVE  Kept
<1> USE DEF Enter, Kept, Orderly, NoRace, NoThreadLost, StartIsAlone, StopIsAlone, OneAlive,
            RestIsOver, Starting, Stopping, Live, Joins
<1>1. CASE StartClaims(c)
  <2>1. \A d \in Callers : caller[d] = "idle" /\ temporary[d] = NoWorker
      BY <1>1, BeginsAlone
  <2> QED BY <1>1, <2>1 DEF StartClaims, Ready, Sound, TypeOK, thread
<1>2. ASSUME caller[c] # "idle"
      PROVE  \A d \in Callers : d # c => caller[d] = "idle" /\ temporary[d] = NoWorker
    BY <1>2, OthersAreIdle
<1>3. CASE StartCreatesThread(c)
  <2>1. PICK w \in Workers : /\ worker[w] \in {"off", "done"}
                             /\ worker' = [worker EXCEPT ![w] = "scanning"]
                             /\ temporary' = [temporary EXCEPT ![c] = w]
      BY <1>3 DEF StartCreatesThread
  <2>2. caller[c] = "claimed" /\ temporary[c] = NoWorker
      BY <1>3 DEF StartCreatesThread, Ready, Sound, Holding
  <2>3. \A v \in Workers : ~Live(v)
      BY <2>2, NoWorkerAssumption DEF Ready
  <2> QED BY <1>2, <1>3, <2>1, <2>2, <2>3, NoWorkerAssumption
          DEF StartCreatesThread, Ready, Sound, TypeOK
<1>4. CASE StartThrows(c) \/ StartTests(c)
  <2>1. seen[c] = NoWorker
      BY <1>4 DEF StartThrows, StartTests, Ready, Sound, Holding
  <2> QED BY <1>2, <1>4, <2>1 DEF StartThrows, StartTests, Ready, Sound, TypeOK, thread
<1>5. CASE StartReads(c)
    BY <1>2, <1>5 DEF StartReads, Ready, Sound, TypeOK
<1>6. CASE StartWrites(c)
    BY <1>2, <1>6, NoWorkerAssumption DEF StartWrites, Ready, Sound, TypeOK
<1> QED BY <1>1, <1>3, <1>4, <1>5, <1>6 DEF StartStep

LEMMA StopKeepsOrder ==
    ASSUME Ready, NEW c \in Callers, StopStep(c), rules' = rules
    PROVE  Kept
<1> USE DEF Enter, Kept, Orderly, NoRace, NoThreadLost, StartIsAlone, StopIsAlone, OneAlive,
            RestIsOver, Starting, Stopping, Live, Joins
<1>1. CASE StopClears(c)
  <2>1. \A d \in Callers : caller[d] = "idle" /\ temporary[d] = NoWorker
      BY <1>1, BeginsAlone
  <2> QED BY <1>1, <2>1 DEF StopClears, Ready, Sound, TypeOK, thread
<1>2. ASSUME Stopping(c)
      PROVE  /\ \A d \in Callers : d # c => caller[d] = "idle"
             /\ \A d \in Callers : temporary[d] = NoWorker
             /\ \A w \in Workers : worker[w] # "off" => handle = w
  <2>1. \A d \in Callers : d # c => caller[d] = "idle" /\ temporary[d] = NoWorker
      BY <1>2, OthersAreIdle
  <2>2. temporary[c] = NoWorker
      BY <1>2 DEF Ready, Sound, Holding
  <2> QED BY <2>1, <2>2, NoWorkerAssumption DEF Ready
<1>3. CASE StopFindsNoThread(c)
    BY <1>2, <1>3, NoWorkerAssumption DEF StopFindsNoThread, Ready, Sound, TypeOK, thread
<1>4. CASE StopFindsThread(c)
    BY <1>2, <1>4 DEF StopFindsThread, Ready, Sound, TypeOK, thread
<1>5. CASE StopJoins(c)
    BY <1>2, <1>5 DEF StopJoins, Ready, Sound, TypeOK
<1>6. CASE StopReturns(c)
    BY <1>2, <1>6, NoWorkerAssumption DEF StopReturns, Ready, Sound, TypeOK
<1> QED BY <1>1, <1>3, <1>4, <1>5, <1>6 DEF StopStep

(* No worker ends while a call to startDiscovery is under way.             *)
LEMMA WorkersWait ==
    ASSUME Ready, NEW w \in Workers, WorkerStep(w), NEW c \in Callers
    PROVE  ~Starting(c)
<1> SUFFICES ASSUME Starting(c) PROVE FALSE
    OBVIOUS
<1>1. worker[w] \in {"scanning", "publishing", "clearing"}
    BY DEF WorkerStep, WorkerSeesStop, WorkerTimesOut, WorkerPublishes, WorkerClears
<1>2. active /\ temporary[c] = w
    BY <1>1 DEF Ready, Orderly, StartIsAlone, Live
<1>3. worker[w] = "scanning"
    BY <1>2, NoWorkerAssumption DEF Ready, Orderly, StartIsAlone
<1> QED BY <1>2, <1>3 DEF WorkerStep, WorkerSeesStop, WorkerTimesOut, WorkerPublishes,
                          WorkerClears, Ready, Guarded, Starting

LEMMA WorkerKeepsOrder ==
    ASSUME Ready, NEW w \in Workers, WorkerStep(w), rules' = rules
    PROVE  Kept
<1>1. \A c \in Callers : ~Starting(c) /\ temporary[c] = NoWorker
    BY WorkersWait DEF Ready, Sound, Holding, Starting
<1>2. UNCHANGED <<thread, caller, fate>> /\ Live(w)
    BY DEF WorkerStep, WorkerSeesStop, WorkerTimesOut, WorkerPublishes, WorkerClears, Live
<1>3. /\ \A v \in Workers : v # w => worker'[v] = worker[v] /\ ~Live(v)
      /\ worker'[w] # "off" /\ (active' => active)
      /\ ~active' => ~active \/ worker'[w] = "done"
    BY <1>2 DEF WorkerStep, WorkerSeesStop, WorkerTimesOut, WorkerPublishes, WorkerClears,
                Ready, Sound, TypeOK, Orderly, OneAlive
<1>4. handle = w
    BY <1>1, <1>2, NoWorkerAssumption DEF Ready, Orderly, NoThreadLost, Live
<1> QED BY <1>1, <1>2, <1>3, <1>4
        DEF Kept, Ready, Orderly, NoRace, NoThreadLost, StartIsAlone, StopIsAlone, OneAlive,
            RestIsOver, Starting, Stopping, Live, Joins, thread

(* Callers that keep to the third rule, too.                               *)
LEMMA FreshStep ==
    ASSUME Ready, Disciplined, StartsAfresh, Next
    PROVE  fate' = "running" /\ StartsAfresh'
<1>1. "stop_to_restart" \in rules
    BY DEF Disciplined, CallerRules
<1> USE DEF StartsAfresh, Starting, Enter, Ready, Sound, TypeOK, thread
<1>2. ASSUME NEW c \in Callers, StartStep(c) PROVE fate' = "running" /\ StartsAfresh'
  <2>1. StartWrites(c) => \A d \in Callers : d # c => caller[d] = "idle"
      BY OthersAreIdle DEF StartWrites
  <2> QED BY <1>1, <1>2, <2>1
          DEF StartStep, StartClaims, MayStart, StartCreatesThread, StartThrows, StartTests,
              StartReads, StartWrites, Orderly, StartIsAlone
<1>3. ASSUME NEW c \in Callers, StopStep(c) PROVE fate' = "running" /\ StartsAfresh'
  <2>1. StopJoins(c) => handle # NoWorker /\ \A d \in Callers : caller[d] # "joining"
      BY DEF StopJoins, NoRace, Orderly, StopIsAlone
  <2> QED BY <1>3, <2>1
          DEF StopStep, StopClears, StopFindsNoThread, StopFindsThread, StopJoins, StopReturns
<1>4. ASSUME NEW w \in Workers, WorkerStep(w) PROVE fate' = "running" /\ StartsAfresh'
    BY <1>4 DEF WorkerStep, WorkerSeesStop, WorkerTimesOut, WorkerPublishes, WorkerClears
<1> QED BY <1>2, <1>3, <1>4 DEF Next

LEMMA InductiveStep == IInv /\ [Next]_vars => IInv'
<1> SUFFICES ASSUME IInv, [Next]_vars PROVE IInv'
    OBVIOUS
<1>1. CASE Next
  <2>1. rules' = rules /\ fate = "running"
      BY <1>1 DEF Next
  <2>2. Sound' /\ DoneHasFound'
      BY <1>1, SoundStep, FoundStep DEF IInv, Sound
  <2>3. ASSUME Guarded' PROVE Kept
    <3>1. Ready
        BY <2>1, <2>3 DEF Ready, IInv, Sound, Guarded
    <3> QED BY <1>1, <2>1, <3>1, StartKeepsOrder, StopKeepsOrder, WorkerKeepsOrder DEF Next
  <2>4. ASSUME Disciplined' PROVE fate' = "running" /\ StartsAfresh'
    <3>1. Disciplined
        BY <2>1, <2>4 DEF Disciplined
    <3>2. Ready
        BY <2>1, <3>1 DEF Ready, IInv, Sound, Guarded, Disciplined, CallerRules
    <3> QED BY <1>1, <3>1, <3>2, FreshStep DEF IInv
  <2> QED BY <2>2, <2>3, <2>4 DEF IInv, Sound, Kept
<1>2. CASE UNCHANGED vars
  <2>1. (TypeOK /\ Holding /\ Owned /\ DoneHasFound)'
      BY <1>2 DEF vars, thread, IInv, TypeOK, Holding, Owned, DoneHasFound, Joins
  <2>2. Guarded' => NoRace' /\ (fate' = "running" => Orderly')
      BY <1>2 DEF vars, thread, IInv, Guarded, NoRace, Orderly, NoThreadLost, StartIsAlone,
                  StopIsAlone, OneAlive, RestIsOver, Starting, Stopping, Live, Joins
  <2>3. Disciplined' => fate' = "running" /\ StartsAfresh'
      BY <1>2 DEF vars, thread, IInv, Disciplined, StartsAfresh, Starting
  <2> QED BY <2>1, <2>2, <2>3 DEF IInv
<1> QED BY <1>1, <1>2

LEMMA KeepsInvariant == Spec => []IInv
<1> QED BY Begins, InductiveStep, PTL DEF Spec

LEMMA DisciplinedIsGuarded == Disciplined => Guarded
<1> QED BY DEF Disciplined, Guarded, CallerRules

-----------------------------------------------------------------------------
(* However callers race, discoveryThread never stands for a thread that    *)
(* was joined, and every variable keeps its type.                          *)
THEOREM TypeCorrect == Spec => []TypeOK
<1>1. IInv => TypeOK
    BY DEF IInv
<1> QED BY <1>1, KeepsInvariant, PTL

(* Callers that stop alone and whose discoveries do not time out during a  *)
(* call never access discoveryThread two at once and lose no thread.       *)
THEOREM FlagGuardsThread == Spec => []ThreadIsGuarded
<1>1. IInv => ThreadIsGuarded
    BY DEF IInv, Orderly, ThreadIsGuarded, NoThreadLost
<1> QED BY <1>1, KeepsInvariant, PTL

(* Callers that keep to the three rules, however many there are, never     *)
(* break the process and never have two workers alive.                     *)
THEOREM RulesSuffice == Spec => []RulesProtect
<1>1. IInv => RulesProtect
    BY DisciplinedIsGuarded
       DEF IInv, RulesProtect, NeverBroken, OneWorker, Orderly, OneAlive
<1> QED BY <1>1, KeepsInvariant, PTL

(* When stopDiscovery returns to them, the discovery is over and what it   *)
(* found is there.                                                         *)
THEOREM StopMeansStopped == Spec => StoppedMeansStopped
<1> DEFINE Over(c) == /\ ~active'
                      /\ \A w \in Workers : worker'[w] \in {"off", "done"}
                      /\ handle # NoWorker => found'
<1>1. ASSUME IInv, Next, NEW c \in Callers, Disciplined, Stopping(c), caller'[c] = "idle"
      PROVE  Over(c)
  <2>1. TypeOK /\ DoneHasFound /\ Ready
      BY <1>1, DisciplinedIsGuarded DEF IInv, Ready, Sound
  <2>2. StopFindsNoThread(c) \/ StopReturns(c)
      BY <1>1, <2>1
         DEF Next, StartStep, StartClaims, StartCreatesThread, StartThrows, StartTests,
             StartReads, StartWrites, StopStep, StopClears, StopJoins, StopFindsNoThread,
             StopFindsThread, StopReturns, WorkerStep, WorkerSeesStop, WorkerTimesOut,
             WorkerPublishes, WorkerClears, Enter, Stopping, TypeOK
  <2>3. \A d \in Callers : temporary[d] = NoWorker
      BY <1>1, <2>1, OthersAreIdle DEF Stopping, Ready, Sound, Holding
  <2>4. \A w \in Workers : worker[w] # "off" => handle = w
      BY <2>1, <2>3, NoWorkerAssumption DEF Ready, Orderly, NoThreadLost
  <2>5. ~active /\ (StopReturns(c) => seen[c] = handle /\ handle # NoWorker)
      BY <1>1, <2>1 DEF Ready, Orderly, StopIsAlone, StopReturns, Enter, Joins
  <2>6. ~active'
      BY <2>2, <2>5 DEF StopFindsNoThread, StopReturns
  <2>7. \A w \in Workers : worker'[w] \in {"off", "done"}
      BY <2>1, <2>2, <2>4, <2>5, NoWorkerAssumption DEF StopFindsNoThread, StopReturns, TypeOK
  <2>8. handle # NoWorker => found'
      BY <2>1, <2>2, <2>5 DEF StopFindsNoThread, StopReturns, DoneHasFound, TypeOK
  <2> QED BY <2>6, <2>7, <2>8
<1>2. ASSUME UNCHANGED vars, NEW c \in Callers, Stopping(c), caller'[c] = "idle"
      PROVE  FALSE
    BY <1>2 DEF vars, Stopping
<1>3. IInv /\ [Next]_vars =>
          [\A c \in Callers : Disciplined /\ Stopping(c) /\ caller'[c] = "idle" => Over(c)]_vars
    BY <1>1, <1>2
<1> QED BY <1>3, KeepsInvariant, PTL DEF Spec, StoppedMeansStopped
=============================================================================
