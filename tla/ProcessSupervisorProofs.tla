----------------------- MODULE ProcessSupervisorProofs -----------------------
(***************************************************************************)
(* Proofs about ProcessSupervisor, for any number of clients and engines,  *)
(* any set of requests and any number of launches of the manager.          *)
(***************************************************************************)
EXTENDS ProcessSupervisor, TLAPS

-----------------------------------------------------------------------------
(* Type correctness. *)

(* A new manager starts in range, whatever the old one leaves behind. *)
LEMMA RelaunchType ==
    ASSUME TypeOK, Relaunch, lapses' \subseteq {"overlap", "escalation", "crash", "clean"}
    PROVE  TypeOK'
<1>1. boots' \in 0..MaxBoots
      BY MaxBootsAssumption DEF Relaunch, TypeOK
<1>2. /\ pc' \in [Threads -> Phases] /\ op' \in [Threads -> Ops]
      /\ target' \in [Threads -> Engines \cup {NoEngine}]
      /\ \A t \in Threads : target'[t] # NoEngine => pc'[t] \in StopPhases
      BY DEF Relaunch, Phases, Ops
<1>3. /\ engine' \in [Engines -> {"down", "up", "stopping", "killed"}]
      /\ waiter' \in [Engines -> {"none", "wait", "closed"}]
      /\ serverLock' \in Engines \cup {NoEngine}
      BY DEF Relaunch, TypeOK
<1> QED BY <1>1, <1>2, <1>3 DEF Relaunch, TypeOK

(* Every step keeps every variable in its range. *)
LEMMA TypeStep == TypeOK /\ [Next]_vars => TypeOK'
<1> SUFFICES ASSUME TypeOK, [Next]_vars PROVE TypeOK'
    OBVIOUS
<1> USE DEF TypeOK, Threads, Phases, StartPhases, StopPhases, Window, Ops,
            muVars, stateVars, threadVars, Goto, Return
<1>1. ASSUME NEW c \in Clients, NEW o \in Requests \cap Ops, Call(c, o) PROVE TypeOK'
      BY <1>1 DEF Call
<1>2. ASSUME NEW c \in Clients, SetAutoRecovery(c) PROVE TypeOK'
      BY <1>2 DEF SetAutoRecovery
<1>3. ASSUME NEW c \in Clients, CleanLogsAndCache(c) PROVE TypeOK'
      BY <1>3 DEF CleanLogsAndCache
<1>4. ASSUME NEW t \in Threads, StartNode(t) PROVE TypeOK'
  <2>1. CASE StartRefused(t)
        BY <2>1 DEF StartRefused
  <2>2. CASE StartEnter(t)
        BY ZenonT(60), <2>2 DEF StartEnter
  <2>3. CASE StartFail(t)
        BY <2>3 DEF StartFail
  <2>4. CASE StartPreflight(t)
        BY <2>4 DEF StartPreflight, clearLocks
  <2>5. CASE StartRecovered(t)
        BY <2>5 DEF StartRecovered, clearLocks
  <2>6. CASE StartSpawn(t)
        BY <2>6 DEF StartSpawn, recordIntent
  <2> QED BY <1>4, <2>1, <2>2, <2>3, <2>4, <2>5, <2>6 DEF StartNode
<1>5. ASSUME NEW t \in Threads, StopNode(t) PROVE TypeOK'
  <2>1. CASE StopAcquire(t)
        BY <2>1 DEF StopAcquire
  <2>2. CASE StopNothing(t)
        BY <2>2 DEF StopNothing, AfterStop, LeaveStop
  <2>3. CASE StopBegin(t)
        BY <2>3 DEF StopBegin
  <2>4. CASE StopSignal(t)
        BY <2>4 DEF StopSignal
  <2>5. CASE StopSeesExit(t)
        BY <2>5 DEF StopSeesExit
  <2>6. CASE StopEscalate(t)
        BY <2>6 DEF StopEscalate
  <2>7. CASE StopKill(t)
        BY <2>7 DEF StopKill
  <2>8. CASE StopFinish(t)
        BY <2>8 DEF StopFinish
  <2>9. CASE StopClear(t)
        BY <2>9 DEF StopClear, AfterStop, LeaveStop, clearLocks
  <2>10. CASE StopReconciled(t)
        BY <2>10 DEF StopReconciled, AfterStop, LeaveStop, clearLocks
  <2> QED BY <1>5, <2>1, <2>2, <2>3, <2>4, <2>5, <2>6, <2>7, <2>8, <2>9, <2>10
          DEF StopNode
<1>6. ASSUME NEW t \in Threads, ResetChain(t) PROVE TypeOK'
      BY <1>6 DEF ResetChain
<1>7. ASSUME NEW t \in Threads, ShutdownStopsWatchdog(t) PROVE TypeOK'
      BY <1>7 DEF ShutdownStopsWatchdog
<1>8. ASSUME NEW t \in Threads, ShutdownExit(t) PROVE TypeOK'
      BY <1>8, RelaunchType DEF ShutdownExit
<1>9. ASSUME NEW e \in Engines, Waiter(e) PROVE TypeOK'
      BY ZenonT(60), <1>9 DEF Waiter, WaiterClose, WaiterFinish, resetState, clearLocks
<1>10. ASSUME NEW e \in Engines, EngineExit(e) \/ EngineCrash(e) PROVE TypeOK'
  <2>1. CASE EngineExit(e)
        BY <2>1 DEF EngineExit, EngineDown
  <2>2. CASE EngineCrash(e)
        BY <2>2 DEF EngineCrash, EngineDown
  <2> QED BY <1>10, <2>1, <2>2
<1>11. CASE WatchdogTick
      BY <1>11 DEF WatchdogTick
<1>12. CASE WatchdogStatus
      BY <1>12 DEF WatchdogStatus
<1>13. CASE ManagerCrash
      BY <1>13, RelaunchType DEF ManagerCrash
<1>14. CASE UNCHANGED vars
      BY <1>14 DEF vars
<1> QED BY <1>1, <1>2, <1>3, <1>4, <1>5, <1>6, <1>7, <1>8, <1>9, <1>10, <1>11,
           <1>12, <1>13, <1>14 DEF Next, Thread

(* Every reachable state is well typed. *)
THEOREM TypeCorrect == Spec => []TypeOK
<1>1. ASSUME Init PROVE TypeOK
  <2>1. boots \in 0..MaxBoots
        BY <1>1, MaxBootsAssumption DEF Init
  <2>2. /\ pc \in [Threads -> Phases] /\ op \in [Threads -> Ops]
        /\ target \in [Threads -> Engines \cup {NoEngine}]
        /\ \A t \in Threads : target[t] # NoEngine => pc[t] \in StopPhases
        BY <1>1 DEF Init, Phases, Ops
  <2>3. /\ engine \in [Engines -> {"down", "up", "stopping", "killed"}]
        /\ waiter \in [Engines -> {"none", "wait", "closed"}]
        BY <1>1 DEF Init
  <2> QED BY <1>1, <2>1, <2>2, <2>3 DEF Init, TypeOK
<1> QED BY <1>1, TypeStep, PTL DEF Spec

-----------------------------------------------------------------------------
(* The mutexes. *)

(* A thread enters the phases of a mutex when it takes it and leaves them
   when it releases it. *)
LEMMA MutexStep == TypeOK /\ MutexesHeld /\ [Next]_vars => MutexesHeld'
<1> SUFFICES ASSUME TypeOK, MutexesHeld, [Next]_vars PROVE MutexesHeld'
    OBVIOUS
<1> USE ThreadsAssumption
    DEF ThreadsAssumption, TypeOK, MutexesHeld, Threads, StartPhases, StopPhases,
        muVars, stateVars, threadVars, Goto, Return
<1>1. ASSUME NEW c \in Clients, NEW o \in Requests \cap Ops, Call(c, o) PROVE MutexesHeld'
      BY <1>1 DEF Call
<1>2. ASSUME NEW c \in Clients, SetAutoRecovery(c) PROVE MutexesHeld'
      BY <1>2 DEF SetAutoRecovery
<1>3. ASSUME NEW c \in Clients, CleanLogsAndCache(c) PROVE MutexesHeld'
      BY <1>3 DEF CleanLogsAndCache
<1>4. ASSUME NEW t \in Threads, StartNode(t) PROVE MutexesHeld'
  <2>1. CASE StartRefused(t)
        BY <2>1 DEF StartRefused
  <2>2. CASE StartEnter(t)
        BY <2>2 DEF StartEnter, startAdmitted
  <2>3. CASE StartFail(t)
        BY <2>3 DEF StartFail
  <2>4. CASE StartPreflight(t)
        BY <2>4 DEF StartPreflight, clearLocks
  <2>5. CASE StartRecovered(t)
        BY <2>5 DEF StartRecovered, clearLocks
  <2>6. CASE StartSpawn(t)
        BY <2>6 DEF StartSpawn, recordIntent
  <2> QED BY <1>4, <2>1, <2>2, <2>3, <2>4, <2>5, <2>6 DEF StartNode
<1>5. ASSUME NEW t \in Threads, StopNode(t) PROVE MutexesHeld'
  <2>1. CASE StopAcquire(t)
        BY <2>1 DEF StopAcquire, stopMuFree
  <2>2. CASE StopNothing(t)
        BY <2>2 DEF StopNothing, AfterStop, LeaveStop
  <2>3. CASE StopBegin(t)
        BY <2>3 DEF StopBegin
  <2>4. CASE StopSignal(t)
        BY <2>4 DEF StopSignal
  <2>5. CASE StopSeesExit(t)
        BY <2>5 DEF StopSeesExit, exitChanClosed
  <2>6. CASE StopEscalate(t)
        BY <2>6 DEF StopEscalate, exitChanClosed
  <2>7. CASE StopKill(t)
        BY <2>7 DEF StopKill
  <2>8. CASE StopFinish(t)
        BY <2>8 DEF StopFinish
  <2>9. CASE StopClear(t)
        BY <2>9 DEF StopClear, AfterStop, LeaveStop, clearLocks
  <2>10. CASE StopReconciled(t)
        BY <2>10 DEF StopReconciled, AfterStop, LeaveStop, clearLocks
  <2> QED BY <1>5, <2>1, <2>2, <2>3, <2>4, <2>5, <2>6, <2>7, <2>8, <2>9,
             <2>10 DEF StopNode
<1>6. ASSUME NEW t \in Threads, ResetChain(t) PROVE MutexesHeld'
      BY <1>6 DEF ResetChain
<1>7. ASSUME NEW t \in Threads, ShutdownStopsWatchdog(t) PROVE MutexesHeld'
      BY <1>7 DEF ShutdownStopsWatchdog
<1>8. ASSUME NEW t \in Threads, ShutdownExit(t) PROVE MutexesHeld'
      BY <1>8 DEF ShutdownExit, Relaunch
<1>9. ASSUME NEW e \in Engines, WaiterClose(e) PROVE MutexesHeld'
      BY <1>9 DEF WaiterClose
<1>10. ASSUME NEW e \in Engines, WaiterFinish(e) PROVE MutexesHeld'
      BY <1>10 DEF WaiterFinish, resetState, clearLocks
<1>11. ASSUME NEW e \in Engines, EngineExit(e) \/ EngineCrash(e) PROVE MutexesHeld'
      BY <1>11 DEF EngineDown, EngineExit, EngineCrash
<1>12. CASE WatchdogTick
      BY <1>12 DEF WatchdogTick
<1>13. CASE WatchdogStatus
      BY <1>13 DEF WatchdogStatus
<1>14. CASE ManagerCrash
      BY <1>14 DEF ManagerCrash, Relaunch
<1>15. CASE UNCHANGED vars
      BY <1>15 DEF vars
<1> QED BY <1>1, <1>2, <1>3, <1>4, <1>5, <1>6, <1>7, <1>8, <1>9, <1>10, <1>11, <1>12,
           <1>13, <1>14, <1>15 DEF Next, Thread, Waiter

-----------------------------------------------------------------------------
(* The flags. *)

(* The flags agree after every step, lapse or no lapse. *)
LEMMA FlagsStep == TypeOK /\ MutexesHeld /\ FlagsAgree /\ [Next]_vars => FlagsAgree'
<1> SUFFICES ASSUME TypeOK, MutexesHeld, FlagsAgree, [Next]_vars PROVE FlagsAgree'
    OBVIOUS
<1> USE ThreadsAssumption, EnginesAssumption
    DEF ThreadsAssumption, EnginesAssumption, TypeOK, MutexesHeld, FlagsAgree,
        BelievedRunningIsWatched, StopIsExclusive, UnwantedIsStopping,
        ErrorOnlyWhenStopped, Threads, StartPhases, StopPhases, Window, Live,
        muVars, stateVars, threadVars, Goto, Return
<1>1. ASSUME NEW c \in Clients, NEW o \in Requests \cap Ops, Call(c, o) PROVE FlagsAgree'
      BY <1>1 DEF Call
<1>2. ASSUME NEW c \in Clients, SetAutoRecovery(c) PROVE FlagsAgree'
      BY <1>2 DEF SetAutoRecovery
<1>3. ASSUME NEW c \in Clients, CleanLogsAndCache(c) PROVE FlagsAgree'
      BY <1>3 DEF CleanLogsAndCache
<1>4. ASSUME NEW t \in Threads, StartNode(t) PROVE FlagsAgree'
  <2>1. CASE StartRefused(t)
        BY <2>1 DEF StartRefused
  <2>2. CASE StartEnter(t)
        BY <2>2 DEF StartEnter, startAdmitted
  <2>3. CASE StartFail(t)
        BY <2>3 DEF StartFail
  <2>4. CASE StartPreflight(t)
        BY <2>4 DEF StartPreflight, clearLocks
  <2>5. CASE StartRecovered(t)
        BY <2>5 DEF StartRecovered, clearLocks
  <2>6. CASE StartSpawn(t)
        BY <2>6 DEF StartSpawn, recordIntent
  <2> QED BY <1>4, <2>1, <2>2, <2>3, <2>4, <2>5, <2>6 DEF StartNode
<1>5. ASSUME NEW t \in Threads, StopNode(t) PROVE FlagsAgree'
  <2>1. CASE StopAcquire(t)
        BY <2>1 DEF StopAcquire, stopMuFree
  <2>2. CASE StopNothing(t)
        BY <2>2 DEF StopNothing, AfterStop, LeaveStop
  <2>3. CASE StopBegin(t)
        BY <2>3 DEF StopBegin
  <2>4. CASE StopSignal(t)
        BY <2>4 DEF StopSignal
  <2>5. CASE StopSeesExit(t)
        BY <2>5 DEF StopSeesExit, exitChanClosed
  <2>6. CASE StopEscalate(t)
        BY <2>6 DEF StopEscalate, exitChanClosed
  <2>7. CASE StopKill(t)
        BY <2>7 DEF StopKill
  <2>8. CASE StopFinish(t)
        BY <2>8 DEF StopFinish
  <2>9. CASE StopClear(t)
        BY <2>9 DEF StopClear, AfterStop, LeaveStop, clearLocks
  <2>10. CASE StopReconciled(t)
        BY <2>10 DEF StopReconciled, AfterStop, LeaveStop, clearLocks
  <2> QED BY <1>5, <2>1, <2>2, <2>3, <2>4, <2>5, <2>6, <2>7, <2>8, <2>9,
             <2>10 DEF StopNode
<1>6. ASSUME NEW t \in Threads, ResetChain(t) PROVE FlagsAgree'
      BY <1>6 DEF ResetChain
<1>7. ASSUME NEW t \in Threads, ShutdownStopsWatchdog(t) PROVE FlagsAgree'
      BY <1>7 DEF ShutdownStopsWatchdog
<1>8. ASSUME NEW t \in Threads, ShutdownExit(t) PROVE FlagsAgree'
      BY <1>8 DEF ShutdownExit, Relaunch
<1>9. ASSUME NEW e \in Engines, WaiterClose(e) PROVE FlagsAgree'
      BY <1>9 DEF WaiterClose
<1>10. ASSUME NEW e \in Engines, WaiterFinish(e) PROVE FlagsAgree'
      BY <1>10 DEF WaiterFinish, resetState, clearLocks
<1>11. ASSUME NEW e \in Engines, EngineExit(e) \/ EngineCrash(e) PROVE FlagsAgree'
      BY <1>11 DEF EngineDown, EngineExit, EngineCrash
<1>12. CASE WatchdogTick
      BY <1>12 DEF WatchdogTick
<1>13. CASE WatchdogStatus
      BY <1>13 DEF WatchdogStatus
<1>14. CASE ManagerCrash
      BY <1>14 DEF ManagerCrash, Relaunch
<1>15. CASE UNCHANGED vars
      BY <1>15 DEF vars
<1> QED BY <1>1, <1>2, <1>3, <1>4, <1>5, <1>6, <1>7, <1>8, <1>9, <1>10, <1>11, <1>12,
           <1>13, <1>14, <1>15 DEF Next, Thread, Waiter

-----------------------------------------------------------------------------
(* The engine. *)

(* A lapse is never undone. *)
LEMMA LapsesStay == [Next]_vars /\ NoLapse' => NoLapse
<1> SUFFICES ASSUME [Next]_vars PROVE lapses \subseteq lapses'
    BY DEF NoLapse
<1> QED BY DEF Next, vars, Thread, Waiter, StartNode, StopNode, Call, SetAutoRecovery,
           CleanLogsAndCache, StartRefused, StartEnter, StartFail, StartPreflight,
           StartRecovered, StartSpawn, StopAcquire, StopNothing, StopBegin,
           StopSignal, StopSeesExit, StopEscalate, StopKill, StopFinish, StopClear,
           StopReconciled, ResetChain, WaiterClose, WaiterFinish, EngineExit,
           EngineCrash, EngineDown, WatchdogTick, WatchdogStatus,
           ShutdownStopsWatchdog, ShutdownExit, ManagerCrash

(* Without a lapse every step keeps the engine of dc.cmd the only one. *)
LEMMA EngineStep ==
    TypeOK /\ MutexesHeld /\ FlagsAgree /\ OneEngine /\ NoLapse' /\ [Next]_vars => OneEngine'
<1> SUFFICES ASSUME TypeOK, MutexesHeld, FlagsAgree, OneEngine, NoLapse', [Next]_vars PROVE OneEngine'
    OBVIOUS
<1> USE ThreadsAssumption, EnginesAssumption, NoLapse'
    DEF ThreadsAssumption, EnginesAssumption, TypeOK, MutexesHeld, FlagsAgree, OneEngine, NoLapse, Overlaps,
        Fresh, BelievedRunningIsWatched, StopIsExclusive, Threads, StartPhases,
        StopPhases, Window, Afterwards, Live, muVars, stateVars, threadVars, Goto,
        Return
<1>1. ASSUME NEW c \in Clients, NEW o \in Requests \cap Ops, Call(c, o) PROVE OneEngine'
      BY <1>1 DEF Call
<1>2. ASSUME NEW c \in Clients, SetAutoRecovery(c) PROVE OneEngine'
      BY <1>2 DEF SetAutoRecovery
<1>3. ASSUME NEW c \in Clients, CleanLogsAndCache(c) PROVE OneEngine'
      BY <1>3 DEF CleanLogsAndCache
<1>4. ASSUME NEW t \in Threads, StartNode(t) PROVE OneEngine'
  <2>1. CASE StartRefused(t)
        BY <2>1 DEF StartRefused
  <2>2. CASE StartEnter(t)
        BY <2>2 DEF StartEnter, startAdmitted
  <2>3. CASE StartFail(t)
        BY <2>3 DEF StartFail
  <2>4. CASE StartPreflight(t)
        BY <2>4 DEF StartPreflight, clearLocks
  <2>5. CASE StartRecovered(t)
        BY <2>5 DEF StartRecovered, clearLocks
  <2>6. CASE StartSpawn(t)
        BY <2>6 DEF StartSpawn, recordIntent
  <2> QED BY <1>4, <2>1, <2>2, <2>3, <2>4, <2>5, <2>6 DEF StartNode
<1>5. ASSUME NEW t \in Threads, StopNode(t) PROVE OneEngine'
  <2>1. CASE StopAcquire(t)
        BY <2>1 DEF StopAcquire, stopMuFree
  <2>2. CASE StopNothing(t)
    <3>1. cmd = NoEngine /\ Live = {}
          BY <2>2 DEF StopNothing
    <3>2. UNCHANGED <<mu, cmd, Live, waiter>>
          BY <2>2 DEF StopNothing
    <3>3. PICK next \in {"idle", "start", "mutate", "exit"} :
             pc' = [pc EXCEPT ![t] = next] /\ target' = [target EXCEPT ![t] = NoEngine]
          BY <2>2 DEF StopNothing, AfterStop, LeaveStop
    <3>4. \A u \in Threads : pc[u] \notin StartPhases
          BY <2>2 DEF StopNothing
    <3> QED BY <3>1, <3>2, <3>3, <3>4
  <2>3. CASE StopBegin(t)
        BY <2>3 DEF StopBegin
  <2>4. CASE StopSignal(t)
        BY <2>4 DEF StopSignal
  <2>5. CASE StopSeesExit(t)
        BY <2>5 DEF StopSeesExit, exitChanClosed
  <2>6. CASE StopEscalate(t)
        BY <2>6 DEF StopEscalate, exitChanClosed
  <2>7. CASE StopKill(t)
        BY <2>7 DEF StopKill
  <2>8. CASE StopFinish(t)
        BY <2>8 DEF StopFinish
  <2>9. CASE StopClear(t)
        BY <2>9 DEF StopClear, AfterStop, LeaveStop, clearLocks
  <2>10. CASE StopReconciled(t)
        BY <2>10 DEF StopReconciled, AfterStop, LeaveStop, clearLocks
  <2> QED BY <1>5, <2>1, <2>2, <2>3, <2>4, <2>5, <2>6, <2>7, <2>8, <2>9,
             <2>10 DEF StopNode
<1>6. ASSUME NEW t \in Threads, ResetChain(t) PROVE OneEngine'
      BY <1>6 DEF ResetChain
<1>7. ASSUME NEW t \in Threads, ShutdownStopsWatchdog(t) PROVE OneEngine'
      BY <1>7 DEF ShutdownStopsWatchdog
<1>8. ASSUME NEW t \in Threads, ShutdownExit(t) PROVE OneEngine'
      BY <1>8 DEF ShutdownExit, Relaunch
<1>9. ASSUME NEW e \in Engines, WaiterClose(e) PROVE OneEngine'
      BY <1>9 DEF WaiterClose
<1>10. ASSUME NEW e \in Engines, WaiterFinish(e) PROVE OneEngine'
      BY <1>10 DEF WaiterFinish, resetState, clearLocks
<1>11. ASSUME NEW e \in Engines, EngineExit(e) \/ EngineCrash(e) PROVE OneEngine'
      BY <1>11 DEF EngineDown, EngineExit, EngineCrash
<1>12. CASE WatchdogTick
      BY <1>12 DEF WatchdogTick
<1>13. CASE WatchdogStatus
      BY <1>13 DEF WatchdogStatus
<1>14. CASE ManagerCrash
      BY <1>14 DEF ManagerCrash, Relaunch
<1>15. CASE UNCHANGED vars
      BY <1>15 DEF vars
<1> QED BY <1>1, <1>2, <1>3, <1>4, <1>5, <1>6, <1>7, <1>8, <1>9, <1>10, <1>11, <1>12,
           <1>13, <1>14, <1>15 DEF Next, Thread, Waiter

(* Without a lapse and without CleanLogsAndCache no step takes the lock of a
   live engine. *)
LEMMA LockStep == TypeOK /\ Inv /\ [Next]_vars => LiveEngineKeepsLock'
<1> SUFFICES ASSUME TypeOK, Inv, [Next]_vars PROVE LiveEngineKeepsLock'
    OBVIOUS
<1> USE EnginesAssumption
    DEF EnginesAssumption, TypeOK, Inv, MutexesHeld, FlagsAgree, OneEngine,
        LiveEngineKeepsLock, NoLapse, Fresh, BelievedRunningIsWatched, StopIsExclusive,
        Threads, StartPhases, StopPhases, Window, Afterwards, Live,
        muVars, stateVars, threadVars, Goto, Return
<1>1. ASSUME NEW c \in Clients, NEW o \in Requests \cap Ops, Call(c, o) PROVE LiveEngineKeepsLock'
      BY <1>1 DEF Call
<1>2. ASSUME NEW c \in Clients, SetAutoRecovery(c) PROVE LiveEngineKeepsLock'
      BY <1>2 DEF SetAutoRecovery
<1>3. ASSUME NEW c \in Clients, CleanLogsAndCache(c) PROVE LiveEngineKeepsLock'
      BY <1>3 DEF CleanLogsAndCache
<1>4. ASSUME NEW t \in Threads, StartNode(t) PROVE LiveEngineKeepsLock'
  <2>1. CASE StartRefused(t)
        BY <2>1 DEF StartRefused
  <2>2. CASE StartEnter(t)
        BY <2>2 DEF StartEnter, startAdmitted
  <2>3. CASE StartFail(t)
        BY <2>3 DEF StartFail
  <2>4. CASE StartPreflight(t)
        BY <2>4 DEF StartPreflight, clearLocks
  <2>5. CASE StartRecovered(t)
        BY <2>5 DEF StartRecovered, clearLocks
  <2>6. CASE StartSpawn(t)
        BY <2>6 DEF StartSpawn, recordIntent
  <2> QED BY <1>4, <2>1, <2>2, <2>3, <2>4, <2>5, <2>6 DEF StartNode
<1>5. ASSUME NEW t \in Threads, StopNode(t) PROVE LiveEngineKeepsLock'
  <2>1. CASE StopAcquire(t)
        BY <2>1 DEF StopAcquire, stopMuFree
  <2>2. CASE StopNothing(t)
        BY <2>2 DEF StopNothing, AfterStop, LeaveStop
  <2>3. CASE StopBegin(t)
        BY <2>3 DEF StopBegin
  <2>4. CASE StopSignal(t)
        BY <2>4 DEF StopSignal
  <2>5. CASE StopSeesExit(t)
        BY <2>5 DEF StopSeesExit, exitChanClosed
  <2>6. CASE StopEscalate(t)
        BY <2>6 DEF StopEscalate, exitChanClosed
  <2>7. CASE StopKill(t)
        BY <2>7 DEF StopKill
  <2>8. CASE StopFinish(t)
        BY <2>8 DEF StopFinish
  <2>9. CASE StopClear(t)
        BY <2>9 DEF StopClear, AfterStop, LeaveStop, clearLocks
  <2>10. CASE StopReconciled(t)
        BY <2>10 DEF StopReconciled, AfterStop, LeaveStop, clearLocks
  <2> QED BY <1>5, <2>1, <2>2, <2>3, <2>4, <2>5, <2>6, <2>7, <2>8, <2>9,
             <2>10 DEF StopNode
<1>6. ASSUME NEW t \in Threads, ResetChain(t) PROVE LiveEngineKeepsLock'
      BY <1>6 DEF ResetChain
<1>7. ASSUME NEW t \in Threads, ShutdownStopsWatchdog(t) PROVE LiveEngineKeepsLock'
      BY <1>7 DEF ShutdownStopsWatchdog
<1>8. ASSUME NEW t \in Threads, ShutdownExit(t) PROVE LiveEngineKeepsLock'
      BY <1>8 DEF ShutdownExit, Relaunch
<1>9. ASSUME NEW e \in Engines, WaiterClose(e) PROVE LiveEngineKeepsLock'
      BY <1>9 DEF WaiterClose
<1>10. ASSUME NEW e \in Engines, WaiterFinish(e) PROVE LiveEngineKeepsLock'
      BY <1>10 DEF WaiterFinish, resetState, clearLocks
<1>11. ASSUME NEW e \in Engines, EngineExit(e) \/ EngineCrash(e) PROVE LiveEngineKeepsLock'
      BY <1>11 DEF EngineDown, EngineExit, EngineCrash
<1>12. CASE WatchdogTick
      BY <1>12 DEF WatchdogTick
<1>13. CASE WatchdogStatus
      BY <1>13 DEF WatchdogStatus
<1>14. CASE ManagerCrash
      BY <1>14 DEF ManagerCrash, Relaunch
<1>15. CASE UNCHANGED vars
      BY <1>15 DEF vars
<1> QED BY <1>1, <1>2, <1>3, <1>4, <1>5, <1>6, <1>7, <1>8, <1>9, <1>10, <1>11, <1>12,
           <1>13, <1>14, <1>15 DEF Next, Thread, Waiter

(* The inductive invariant holds in every reachable state. *)
THEOREM Invariance == Spec => []Inv
<1>1. Init => Inv
      BY EnginesAssumption, ThreadsAssumption
      DEF EnginesAssumption, ThreadsAssumption, Init, Inv, MutexesHeld, FlagsAgree, OneEngine,
          BelievedRunningIsWatched, StopIsExclusive, UnwantedIsStopping,
          ErrorOnlyWhenStopped, LiveEngineKeepsLock, Threads, StartPhases, StopPhases,
          Window, Afterwards, Live
<1>2. TypeOK /\ Inv /\ [Next]_vars => Inv'
      BY MutexStep, FlagsStep, LapsesStay, EngineStep, LockStep DEF Inv
<1> QED BY <1>1, <1>2, TypeCorrect, PTL DEF Spec

(* An engine that dc counts as running still has its waiter. *)
THEOREM Watched == Spec => []BelievedRunningIsWatched
<1>1. TypeOK /\ Inv => BelievedRunningIsWatched
      BY DEF Inv, FlagsAgree
<1> QED BY <1>1, TypeCorrect, Invariance, PTL

(* Only the holder of stopMu is ever between the flags it raised and their
   reset: StopNode's branch for somebody else's stop is dead. *)
THEOREM ExclusiveStop == Spec => []StopIsExclusive
<1>1. TypeOK /\ Inv => StopIsExclusive
      BY DEF Inv, FlagsAgree
<1> QED BY <1>1, TypeCorrect, Invariance, PTL

(* No interleaving of starts, stops and waiters leaves an engine running
   that the operator does not want and nobody is stopping. *)
THEOREM NothingLeftUnwanted == Spec => []UnwantedIsStopping
<1>1. TypeOK /\ Inv => UnwantedIsStopping
      BY DEF Inv, FlagsAgree
<1> QED BY <1>1, TypeCorrect, Invariance, PTL

(* An error is reported only of a node that is not running. *)
THEOREM ErrorsOfStoppedNodes == Spec => []ErrorOnlyWhenStopped
<1>1. TypeOK /\ Inv => ErrorOnlyWhenStopped
      BY DEF Inv, FlagsAgree
<1> QED BY <1>1, TypeCorrect, Invariance, PTL

(* Before the first lapse there is one engine process, the one in dc.cmd. *)
THEOREM OneEngineOnly == Spec => []SingleEngine
<1>1. TypeOK /\ Inv => SingleEngine
      BY DEF Inv, SingleEngine, OneEngine
<1> QED BY <1>1, TypeCorrect, Invariance, PTL

(* Before the first lapse neither catapult.recovery nor ResetChain nor the
   exit of the manager meets a live engine. *)
THEOREM ToolsWorkAlone == Spec => []NoToolOnLiveEngine
<1>1. TypeOK /\ Inv => NoToolOnLiveEngine
      BY EnginesAssumption DEF Inv, EnginesAssumption, TypeOK, FlagsAgree, BelievedRunningIsWatched,
          NoToolOnLiveEngine, OneEngine, Tools, StartPhases, Afterwards, Live
<1> QED BY <1>1, TypeCorrect, Invariance, PTL

(* Nor does any clearLocks take the server.lock of a live engine. *)
THEOREM LockStays == Spec => []LiveEngineKeepsLock
<1>1. TypeOK /\ Inv => LiveEngineKeepsLock
      BY DEF Inv, LiveEngineKeepsLock
<1> QED BY <1>1, TypeCorrect, Invariance, PTL

-----------------------------------------------------------------------------
(* Refinement. *)

(* Every step without a lapse is a step of NodeLifecycle or a stutter. *)
LEMMA LifecycleStep ==
    TypeOK /\ Inv /\ [Next]_vars => (NoLapse' => [L!Next]_(L!vars))
<1> SUFFICES ASSUME TypeOK, Inv, [Next]_vars, NoLapse' PROVE [L!Next]_(L!vars)
    OBVIOUS
<1>0. NoLapse
      BY LapsesStay
<1> USE <1>0, EnginesAssumption
    DEF EnginesAssumption, TypeOK, Inv, MutexesHeld, FlagsAgree, OneEngine, NoLapse, Fresh,
        BelievedRunningIsWatched, StopIsExclusive, Threads, StartPhases, StopPhases,
        Window, Afterwards, Live, Tools, muVars, stateVars, threadVars, Goto, Return,
        L!vars, L!Next, L!Launch, L!Die, L!Dismiss, L!Engage, L!Disengage, L!Quit
<1>1. ASSUME NEW c \in Clients, NEW o \in Requests \cap Ops, Call(c, o) PROVE [L!Next]_(L!vars)
      BY <1>1 DEF Call
<1>2. ASSUME NEW c \in Clients, SetAutoRecovery(c) PROVE [L!Next]_(L!vars)
      BY <1>2 DEF SetAutoRecovery
<1>3. ASSUME NEW c \in Clients, CleanLogsAndCache(c) PROVE [L!Next]_(L!vars)
      BY <1>3 DEF CleanLogsAndCache
<1>4. ASSUME NEW t \in Threads, StartNode(t) PROVE [L!Next]_(L!vars)
  <2>1. CASE StartRefused(t)
        BY <2>1 DEF StartRefused
  <2>2. CASE StartEnter(t)
        BY <2>2 DEF StartEnter, startAdmitted
  <2>3. CASE StartFail(t)
        BY <2>3 DEF StartFail
  <2>4. CASE StartPreflight(t)
        BY <2>4 DEF StartPreflight, clearLocks
  <2>5. CASE StartRecovered(t)
        BY <2>5 DEF StartRecovered, clearLocks
  <2>6. CASE StartSpawn(t)
    <3>1. PICK e \in Engines : /\ Fresh(e)
                               /\ engine' = [engine EXCEPT ![e] = "up"]
          BY <2>6 DEF StartSpawn
    <3>2. Live' = Live \cup {e}
          BY <3>1
    <3>3. Live = {} /\ Tools = {} /\ Tools' = {}
          BY <2>6 DEF StartSpawn
    <3>4. userIntendedRunning' = TRUE
          BY <2>6 DEF StartSpawn, recordIntent
    <3>5. L!Launch(e)
          BY <3>2, <3>3, <3>4 DEF L!Launch
    <3> QED BY <3>1, <3>5 DEF L!Next
  <2> QED BY <1>4, <2>1, <2>2, <2>3, <2>4, <2>5, <2>6 DEF StartNode
<1>5. ASSUME NEW t \in Threads, StopNode(t) PROVE [L!Next]_(L!vars)
  <2>1. CASE StopAcquire(t)
        BY <2>1 DEF StopAcquire, stopMuFree
  <2>2. CASE StopNothing(t)
    <3>1. UNCHANGED Live /\ Live = {}
          BY <2>2 DEF StopNothing
    <3>2. userIntendedRunning' \in {userIntendedRunning, FALSE}
          BY <2>2 DEF StopNothing
    <3>3. Tools' = Tools \/ Tools' = Tools \cup {t}
          BY <2>2 DEF StopNothing, AfterStop
    <3> QED BY <3>1, <3>2, <3>3
  <2>3. CASE StopBegin(t)
        BY ZenonT(60), <2>3 DEF StopBegin
  <2>4. CASE StopSignal(t)
        BY <2>4 DEF StopSignal
  <2>5. CASE StopSeesExit(t)
        BY <2>5 DEF StopSeesExit, exitChanClosed
  <2>6. CASE StopEscalate(t)
        BY <2>6 DEF StopEscalate, exitChanClosed
  <2>7. CASE StopKill(t)
        BY <2>7 DEF StopKill
  <2>8. CASE StopFinish(t)
        BY <2>8 DEF StopFinish
  <2>9. CASE StopClear(t)
        BY <2>9 DEF StopClear, AfterStop, LeaveStop, clearLocks
  <2>10. CASE StopReconciled(t)
        BY <2>10 DEF StopReconciled, AfterStop, LeaveStop, clearLocks
  <2> QED BY <1>5, <2>1, <2>2, <2>3, <2>4, <2>5, <2>6, <2>7, <2>8, <2>9,
             <2>10 DEF StopNode
<1>6. ASSUME NEW t \in Threads, ResetChain(t) PROVE [L!Next]_(L!vars)
      BY <1>6 DEF ResetChain
<1>7. ASSUME NEW t \in Threads, ShutdownStopsWatchdog(t) PROVE [L!Next]_(L!vars)
      BY <1>7 DEF ShutdownStopsWatchdog
<1>8. ASSUME NEW t \in Threads, ShutdownExit(t) PROVE [L!Next]_(L!vars)
  <2>1. Live = {}
        BY <1>8 DEF ShutdownExit
  <2>2. UNCHANGED Live
        BY <1>8 DEF ShutdownExit, Relaunch
  <2>3. Tools' = {}
        BY <1>8 DEF ShutdownExit, Relaunch
  <2> QED BY <1>8, <2>1, <2>2, <2>3 DEF ShutdownExit, Relaunch
<1>9. ASSUME NEW e \in Engines, WaiterClose(e) PROVE [L!Next]_(L!vars)
      BY <1>9 DEF WaiterClose
<1>10. ASSUME NEW e \in Engines, WaiterFinish(e) PROVE [L!Next]_(L!vars)
      BY <1>10 DEF WaiterFinish, resetState, clearLocks
<1>11. ASSUME NEW e \in Engines, EngineExit(e) \/ EngineCrash(e) PROVE [L!Next]_(L!vars)
  <2>1. e \in Live /\ Live' = Live \ {e}
        BY <1>11 DEF EngineExit, EngineCrash, EngineDown
  <2>2. Live = {e}
        BY <2>1
  <2>3. UNCHANGED <<Tools, userIntendedRunning>>
        BY <1>11 DEF EngineExit, EngineCrash, EngineDown
  <2> QED BY <2>1, <2>2, <2>3
<1>12. CASE WatchdogTick
      BY <1>12 DEF WatchdogTick
<1>13. CASE WatchdogStatus
      BY <1>13 DEF WatchdogStatus
<1>14. CASE ManagerCrash
      BY ZenonT(60), <1>14 DEF ManagerCrash, Relaunch
<1>15. CASE UNCHANGED vars
      BY <1>15 DEF vars
<1> QED BY <1>1, <1>2, <1>3, <1>4, <1>5, <1>6, <1>7, <1>8, <1>9, <1>10, <1>11, <1>12,
           <1>13, <1>14, <1>15 DEF Next, Thread, Waiter

(* As long as nothing has lapsed, the supervisor implements NodeLifecycle. *)
THEOREM Refinement == Spec => ImplementsLifecycle
<1>1. Init => L!Init
      BY DEF Init, L!Init, Live, Tools
<1>2. TypeOK /\ Inv /\ [Next]_vars => [NoLapse' => [L!Next]_(L!vars)]_vars
      BY LifecycleStep
<1> QED BY <1>1, <1>2, TypeCorrect, Invariance, PTL DEF Spec, ImplementsLifecycle
=============================================================================
