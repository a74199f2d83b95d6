-------------------------- MODULE ProcessSupervisor --------------------------
(***************************************************************************)
(* The lifecycle of the engine process under pkg/supervisor/supervisor.go: *)
(* StartNode, StopNode, RestartNode, ResetChain, CleanLogsAndCache, the    *)
(* waiter goroutine of every started engine, the watchdog goroutine and    *)
(* the shutdown of the manager, on a POSIX host.                           *)
(*                                                                         *)
(* StartNode keeps dc.mu from its first line to its return, so its phases  *)
(* are steps of a thread that holds mu.  StopNode keeps dc.stopMu but only *)
(* takes dc.mu twice, so everything else in it runs beside other threads.  *)
(* One waiter goroutine per engine takes dc.mu once, after it has closed   *)
(* the engine's exitChan.                                                  *)
(***************************************************************************)
EXTENDS Naturals, FiniteSets

CONSTANTS
    Clients,     \* goroutines that serve API requests
    Watchdog,    \* the goroutine of StartWatchdog
    Engines,     \* identities for engine processes
    NoThread, NoEngine,
    Requests,    \* bound: the requests that clients make
    MaxBoots     \* bound: how often the manager may be launched again

Threads == Clients \cup {Watchdog}

ASSUME ThreadsAssumption == /\ Watchdog \notin Clients
                            /\ NoThread \notin Threads
ASSUME EnginesAssumption == NoEngine \notin Engines
ASSUME RequestsAssumption ==
    Requests \subseteq {"start", "stop", "restart", "reset", "shutdown", "terminate",
                        "clean", "toggle"}
ASSUME MaxBootsAssumption == MaxBoots \in Nat

VARIABLES
    mu, stopMu,            \* holder of each mutex
    isRunning, isStopping, userIntendedRunning, autoRecoveryEnabled,
    lastError,             \* TRUE when dc.lastError is not empty
    cmd,                   \* engine of dc.cmd and of dc.exitChan
    cmdCancel,             \* engine that dc.cmdCancel would kill
    pc, op, target,        \* per thread: where it is, for what, StopNode's copy of cmd
    engine,                \* what each engine process is doing
    waiter,                \* the waiter goroutine of each engine
    serverLock,            \* engine whose server.lock is on disk
    boots,                 \* launches of the manager beyond the first
    lapses                 \* history: ways in which exclusivity was given up

muVars     == <<mu, stopMu>>
stateVars  == <<isRunning, isStopping, userIntendedRunning, lastError, cmd>>
threadVars == <<pc, op, target>>
vars == <<muVars, stateVars, autoRecoveryEnabled, cmdCancel, threadVars,
          engine, waiter, serverLock, boots, lapses>>

-----------------------------------------------------------------------------
(* Phases of a thread. *)

StartPhases == {"preflight", "recovery", "spawn"}            \* mu is held
StopPhases  == {"begin", "signal", "poll", "kill", "finish",
                "clear", "reconcile"}                        \* stopMu is held
Window      == {"signal", "poll", "kill", "finish"}          \* isStopping was set
Afterwards  == {"clear", "reconcile", "mutate", "exit"}      \* the engine is believed gone
Phases      == {"idle", "off", "start", "shutdown", "stop", "status", "mutate", "exit"}
                 \cup StartPhases \cup StopPhases
Ops         == {"none", "start", "stop", "restart", "reset", "shutdown", "terminate"}

(* Threads that run catapult.recovery, or rewrite the data directory. *)
Tools == {t \in Threads : pc[t] \in {"recovery", "reconcile", "mutate"}}

(* Processes that exist, whatever dc believes. *)
Live == {e \in Engines : engine[e] \in {"up", "stopping", "killed"}}

(* A process identity that no goroutine refers to. *)
Fresh(e) == /\ e \notin Live
            /\ waiter[e] = "none"
            /\ \A t \in Threads : target[t] # e

NoLapse == lapses \subseteq {"clean"}

-----------------------------------------------------------------------------
Init ==
    /\ mu = NoThread /\ stopMu = NoThread
    /\ isRunning = FALSE /\ isStopping = FALSE
    /\ userIntendedRunning = FALSE /\ autoRecoveryEnabled = TRUE
    /\ lastError = FALSE
    /\ cmd = NoEngine /\ cmdCancel = NoEngine
    /\ pc = [t \in Threads |-> "idle"]
    /\ op = [t \in Threads |-> "none"]
    /\ target = [t \in Threads |-> NoEngine]
    /\ engine = [e \in Engines |-> "down"]
    /\ waiter = [e \in Engines |-> "none"]
    /\ serverLock = NoEngine
    /\ boots = 0
    /\ lapses = {}

Goto(t, phase) == pc' = [pc EXCEPT ![t] = phase]

Return(t) == /\ Goto(t, "idle")
             /\ op' = [op EXCEPT ![t] = "none"]

(* StopNode's deferred Unlock and the end of its local variables.          *)
(* Mutants: the lock is kept; the copy of cmd is kept.                     *)
LeaveStopLocked(t) == /\ UNCHANGED stopMu
                      /\ target' = [target EXCEPT ![t] = NoEngine]
LeaveStopHolding(t) == stopMu' = NoThread /\ UNCHANGED target
LeaveStop(t) == /\ stopMu' = NoThread
                /\ target' = [target EXCEPT ![t] = NoEngine]

(* What a handler does once its call of StopNode has returned. *)
AfterStop(t) ==
    /\ LeaveStop(t)
    /\ \/ op[t] = "stop" /\ Return(t)
       \/ op[t] = "restart" /\ Goto(t, "start") /\ UNCHANGED op
       \/ op[t] = "reset" /\ Goto(t, "mutate") /\ UNCHANGED op
       \/ op[t] \in {"shutdown", "terminate"} /\ Goto(t, "exit") /\ UNCHANGED op

clearLocks == serverLock' = NoEngine

-----------------------------------------------------------------------------
(* Requests. *)

Call(c, o) ==
    /\ pc[c] = "idle"
    /\ o \in {"shutdown", "terminate"} => boots < MaxBoots
    /\ op' = [op EXCEPT ![c] = o]
    /\ Goto(c, CASE o = "start" -> "start"
                 [] o = "shutdown" -> "shutdown"
                 [] OTHER -> "stop")
    /\ UNCHANGED <<muVars, stateVars, autoRecoveryEnabled, cmdCancel, target,
                   engine, waiter, serverLock, boots, lapses>>

SetAutoRecovery(c) ==
    /\ pc[c] = "idle" /\ "toggle" \in Requests
    /\ autoRecoveryEnabled' = ~autoRecoveryEnabled
    /\ UNCHANGED <<muVars, stateVars, cmdCancel, threadVars, engine, waiter,
                   serverLock, boots, lapses>>

CleanLogsAndCache(c) ==
    /\ pc[c] = "idle" /\ "clean" \in Requests
    /\ serverLock # NoEngine
    /\ serverLock' = NoEngine
    /\ lapses' = lapses \cup {"clean"}
    /\ UNCHANGED <<muVars, stateVars, autoRecoveryEnabled, cmdCancel, threadVars,
                   engine, waiter, boots>>

-----------------------------------------------------------------------------
(* StartNode. *)

(* Somebody else still works on an engine that dc no longer counts as      *)
(* running: a StopNode past its last look at exitChan, its caller, or the  *)
(* waiter of that engine.                                                  *)
Overlaps(t) ==
    \/ \E u \in Threads \ {t} : pc[u] \in Window \cup Afterwards
    \/ \E e \in Engines : waiter[e] # "none" /\ e # cmd

(* "node is already running".  Mutant: the check is forgotten. *)
alwaysAdmitted == TRUE
startAdmitted == ~isRunning

StartRefused(t) ==
    /\ pc[t] = "start" /\ mu = NoThread
    /\ ~startAdmitted
    /\ Return(t)
    /\ UNCHANGED <<muVars, stateVars, autoRecoveryEnabled, cmdCancel, target,
                   engine, waiter, serverLock, boots, lapses>>

StartEnter(t) ==
    /\ pc[t] = "start" /\ mu = NoThread
    /\ startAdmitted
    /\ mu' = t
    /\ lastError' = FALSE
    /\ Goto(t, "preflight")
    /\ lapses' = IF Overlaps(t) THEN lapses \cup {"overlap"} ELSE lapses
    /\ UNCHANGED <<stopMu, isRunning, isStopping, userIntendedRunning, cmd,
                   autoRecoveryEnabled, cmdCancel, op, target, engine, waiter,
                   serverLock, boots>>

(* Every early return of StartNode: binaries, harvest key, data directory, *)
(* write test, integrity, pipes, exec.                                     *)
StartFail(t) ==
    /\ pc[t] \in {"preflight", "spawn"}
    /\ mu' = NoThread
    /\ lastError' = TRUE
    /\ Return(t)
    /\ serverLock' \in {serverLock, NoEngine}
    /\ UNCHANGED <<stopMu, isRunning, isStopping, userIntendedRunning, cmd,
                   autoRecoveryEnabled, cmdCancel, target, engine, waiter,
                   boots, lapses>>

(* The preflight clears the locks; catapult.recovery runs when the binary  *)
(* is there.                                                               *)
StartPreflight(t) ==
    /\ pc[t] = "preflight"
    /\ clearLocks
    /\ \/ Goto(t, "recovery")
       \/ Goto(t, "spawn")
    /\ UNCHANGED <<muVars, stateVars, autoRecoveryEnabled, cmdCancel, op, target,
                   engine, waiter, boots, lapses>>

StartRecovered(t) ==
    /\ pc[t] = "recovery"
    /\ clearLocks
    /\ Goto(t, "spawn")
    /\ UNCHANGED <<muVars, stateVars, autoRecoveryEnabled, cmdCancel, op, target,
                   engine, waiter, boots, lapses>>

(* Mutant: a start by the watchdog leaves the intent as it was. *)
recordIntentOfClients(t) ==
    userIntendedRunning' = (t # Watchdog \/ userIntendedRunning)
recordIntent(t) == userIntendedRunning' = TRUE

StartSpawn(t) ==
    /\ pc[t] = "spawn"
    /\ \E e \in Engines :
          /\ Fresh(e)
          /\ engine' = [engine EXCEPT ![e] = "up"]
          /\ waiter' = [waiter EXCEPT ![e] = "wait"]
          /\ serverLock' = e
          /\ cmd' = e
          /\ cmdCancel' = e
    /\ isRunning' = TRUE
    /\ isStopping' = FALSE
    /\ recordIntent(t)
    /\ mu' = NoThread
    /\ Return(t)
    /\ UNCHANGED <<stopMu, lastError, autoRecoveryEnabled, target, boots, lapses>>

StartNode(t) == \/ StartRefused(t)
                \/ StartEnter(t)
                \/ StartFail(t)
                \/ StartPreflight(t)
                \/ StartRecovered(t)
                \/ StartSpawn(t)

-----------------------------------------------------------------------------
(* StopNode. *)

stopMuFree == stopMu = NoThread

StopAcquire(t) ==
    /\ pc[t] = "stop" /\ stopMuFree
    /\ stopMu' = t
    /\ Goto(t, "begin")
    /\ UNCHANGED <<mu, stateVars, autoRecoveryEnabled, cmdCancel, op, target,
                   engine, waiter, serverLock, boots, lapses>>

(* Nothing to stop.  The code also returns, after a wait, when it finds    *)
(* isStopping set; StopIsExclusive below says that it never does.          *)
StopNothing(t) ==
    /\ pc[t] = "begin" /\ mu = NoThread
    /\ ~isRunning \/ isStopping
    /\ userIntendedRunning' = (userIntendedRunning /\ isStopping)
    /\ AfterStop(t)
    /\ UNCHANGED <<mu, isRunning, isStopping, lastError, cmd, autoRecoveryEnabled,
                   cmdCancel, engine, waiter, serverLock, boots, lapses>>

StopBegin(t) ==
    /\ pc[t] = "begin" /\ mu = NoThread
    /\ isRunning /\ ~isStopping
    /\ isStopping' = TRUE
    /\ userIntendedRunning' = FALSE
    /\ lastError' = FALSE
    /\ target' = [target EXCEPT ![t] = cmd]
    /\ Goto(t, "signal")
    /\ UNCHANGED <<muVars, isRunning, cmd, autoRecoveryEnabled, cmdCancel, op,
                   engine, waiter, serverLock, boots, lapses>>

StopSignal(t) ==
    /\ pc[t] = "signal"
    /\ engine' = [e \in Engines |-> IF e = target[t] /\ engine[e] = "up"
                                    THEN "stopping" ELSE engine[e]]
    /\ Goto(t, "poll")
    /\ UNCHANGED <<muVars, stateVars, autoRecoveryEnabled, cmdCancel, op, target,
                   waiter, serverLock, boots, lapses>>

(* Mutant: the signal is taken for the exit. *)
exitTakenForGranted(e) == TRUE
exitChanClosed(e) == waiter[e] # "wait"

StopSeesExit(t) ==
    /\ pc[t] = "poll"
    /\ exitChanClosed(target[t])
    /\ Goto(t, "finish")
    /\ UNCHANGED <<muVars, stateVars, autoRecoveryEnabled, cmdCancel, op, target,
                   engine, waiter, serverLock, boots, lapses>>

(* 60 seconds without progress, which the polling loop decides: here at    *)
(* any moment.                                                             *)
StopEscalate(t) ==
    /\ pc[t] = "poll"
    /\ ~exitChanClosed(target[t])
    /\ Goto(t, "kill")
    /\ UNCHANGED <<muVars, stateVars, autoRecoveryEnabled, cmdCancel, op, target,
                   engine, waiter, serverLock, boots, lapses>>

(* cmd.Process.Kill() and dc.cmdCancel(), the latter read without dc.mu;   *)
(* the loop is left without waiting for the exit.                          *)
StopKill(t) ==
    /\ pc[t] = "kill"
    /\ engine' = [e \in Engines |-> IF e \in {target[t], cmdCancel} /\ e \in Live
                                    THEN "killed" ELSE engine[e]]
    /\ lapses' = lapses \cup {"escalation"}
    /\ Goto(t, "finish")
    /\ UNCHANGED <<muVars, stateVars, autoRecoveryEnabled, cmdCancel, op, target,
                   waiter, serverLock, boots>>

(* After "sync": the state is reset whatever happened in between. *)
StopFinish(t) ==
    /\ pc[t] = "finish" /\ mu = NoThread
    /\ isRunning' = FALSE /\ isStopping' = FALSE /\ cmd' = NoEngine
    /\ lastError' = FALSE
    /\ Goto(t, "clear")
    /\ UNCHANGED <<muVars, userIntendedRunning, autoRecoveryEnabled, cmdCancel,
                   op, target, engine, waiter, serverLock, boots, lapses>>

(* clearLocks, then verifyAndReconcileShutdownIntegrity: the heights on    *)
(* disk agree or not.                                                      *)
StopClear(t) ==
    /\ pc[t] = "clear"
    /\ clearLocks
    /\ \/ AfterStop(t)
       \/ Goto(t, "reconcile") /\ UNCHANGED <<stopMu, op, target>>
    /\ UNCHANGED <<mu, stateVars, autoRecoveryEnabled, cmdCancel, engine, waiter,
                   boots, lapses>>

StopReconciled(t) ==
    /\ pc[t] = "reconcile"
    /\ clearLocks
    /\ AfterStop(t)
    /\ UNCHANGED <<mu, stateVars, autoRecoveryEnabled, cmdCancel, engine, waiter,
                   boots, lapses>>

StopNode(t) == \/ StopAcquire(t)
               \/ StopNothing(t)
               \/ StopBegin(t)
               \/ StopSignal(t)
               \/ StopSeesExit(t)
               \/ StopEscalate(t)
               \/ StopKill(t)
               \/ StopFinish(t)
               \/ StopClear(t)
               \/ StopReconciled(t)

(* ResetChain after its StopNode: purge, nemesis block, index.dat, lock. *)
ResetChain(t) ==
    /\ pc[t] = "mutate"
    /\ serverLock' \in {serverLock, NoEngine}
    /\ Return(t)
    /\ UNCHANGED <<muVars, stateVars, autoRecoveryEnabled, cmdCancel, target,
                   engine, waiter, boots, lapses>>

-----------------------------------------------------------------------------
(* The waiter goroutine, and the process it waits for. *)

WaiterClose(e) ==
    /\ waiter[e] = "wait" /\ e \notin Live
    /\ waiter' = [waiter EXCEPT ![e] = "closed"]
    /\ UNCHANGED <<muVars, stateVars, autoRecoveryEnabled, cmdCancel, threadVars,
                   engine, serverLock, boots, lapses>>

(* Whichever engine dc.cmd is by now.  Mutants: isRunning is forgotten;    *)
(* only an exit that was asked for is recorded.                            *)
resetAllButRunning == isStopping' = FALSE /\ cmd' = NoEngine /\ UNCHANGED isRunning
resetIfStopping == /\ isRunning' = (isRunning /\ ~isStopping)
                   /\ isStopping' = FALSE
                   /\ cmd' = IF isStopping THEN NoEngine ELSE cmd
resetState == isRunning' = FALSE /\ isStopping' = FALSE /\ cmd' = NoEngine

WaiterFinish(e) ==
    /\ waiter[e] = "closed" /\ mu = NoThread
    /\ waiter' = [waiter EXCEPT ![e] = "none"]
    /\ resetState
    /\ clearLocks
    /\ lastError' \in {FALSE, userIntendedRunning}
    /\ UNCHANGED <<muVars, userIntendedRunning, autoRecoveryEnabled, cmdCancel,
                   threadVars, engine, boots, lapses>>

EngineDown(e) ==
    /\ engine' = [engine EXCEPT ![e] = "down"]
    /\ UNCHANGED <<muVars, stateVars, autoRecoveryEnabled, cmdCancel, threadVars,
                   waiter, serverLock, boots, lapses>>

EngineExit(e) == engine[e] \in {"stopping", "killed"} /\ EngineDown(e)
EngineCrash(e) == engine[e] = "up" /\ EngineDown(e)

-----------------------------------------------------------------------------
(* The watchdog goroutine. *)

(* Mutant: a node that reports an error is left alone. *)
recoveryWantedUnlessError == autoRecoveryEnabled /\ userIntendedRunning /\ ~lastError
recoveryWanted == autoRecoveryEnabled /\ userIntendedRunning

(* The intent is read here, and used when StartNode has got dc.mu. *)
WatchdogTick ==
    /\ pc[Watchdog] = "idle"
    /\ recoveryWanted
    /\ Goto(Watchdog, "status")
    /\ UNCHANGED <<muVars, stateVars, autoRecoveryEnabled, cmdCancel, op, target,
                   engine, waiter, serverLock, boots, lapses>>

(* GetStatus() = StatusRunning: signal 0 reaches the process until it has  *)
(* been waited for.                                                        *)
StatusRunning == isRunning /\ ~isStopping /\ waiter[cmd] = "wait"

WatchdogStatus ==
    /\ pc[Watchdog] = "status" /\ mu = NoThread
    /\ \/ Return(Watchdog)          \* healthy, in grace or in cooldown
       \/ /\ ~StatusRunning
          /\ op' = [op EXCEPT ![Watchdog] = "start"]
          /\ Goto(Watchdog, "start")
       \/ /\ StatusRunning          \* a stall, as SyncWatchdog defines it
          /\ op' = [op EXCEPT ![Watchdog] = "restart"]
          /\ Goto(Watchdog, "stop")
    /\ UNCHANGED <<muVars, stateVars, autoRecoveryEnabled, cmdCancel, target,
                   engine, waiter, serverLock, boots, lapses>>

-----------------------------------------------------------------------------
(* The end of the manager.  The engines run in their own process groups    *)
(* and stay; a new manager knows nothing of them.                          *)

(* handleSystemShutdown: StopWatchdog waits for the goroutine.  The        *)
(* handler of SIGTERM in main.go ("terminate") leaves it alone.            *)
ShutdownStopsWatchdog(t) ==
    /\ pc[t] = "shutdown"
    /\ pc[Watchdog] \in {"idle", "off"}
    /\ pc' = [pc EXCEPT ![t] = "stop", ![Watchdog] = "off"]
    /\ UNCHANGED <<muVars, stateVars, autoRecoveryEnabled, cmdCancel, op, target,
                   engine, waiter, serverLock, boots, lapses>>

Relaunch ==
    /\ boots < MaxBoots
    /\ boots' = boots + 1
    /\ mu' = NoThread /\ stopMu' = NoThread
    /\ isRunning' = FALSE /\ isStopping' = FALSE
    /\ userIntendedRunning' = FALSE /\ autoRecoveryEnabled' = TRUE
    /\ lastError' = FALSE
    /\ cmd' = NoEngine /\ cmdCancel' = NoEngine
    /\ pc' = [t \in Threads |-> "idle"]
    /\ op' = [t \in Threads |-> "none"]
    /\ target' = [t \in Threads |-> NoEngine]
    /\ waiter' = [e \in Engines |-> "none"]
    /\ UNCHANGED <<engine, serverLock>>

(* os.Exit(0) at the end of either. *)
ShutdownExit(t) ==
    /\ pc[t] = "exit"
    /\ Relaunch
    /\ UNCHANGED lapses

(* The manager dies by itself. *)
ManagerCrash ==
    /\ Relaunch
    /\ lapses' = IF Live # {} \/ \E t \in Tools : pc[t] # "mutate"
                 THEN lapses \cup {"crash"} ELSE lapses

-----------------------------------------------------------------------------
Thread(t) == \/ StartNode(t)
             \/ StopNode(t)
             \/ ResetChain(t)
             \/ ShutdownStopsWatchdog(t)
             \/ ShutdownExit(t)

Waiter(e) == WaiterClose(e) \/ WaiterFinish(e)

Next ==
    \/ \E c \in Clients, o \in Requests \cap Ops : Call(c, o)
    \/ \E c \in Clients : SetAutoRecovery(c) \/ CleanLogsAndCache(c)
    \/ \E t \in Threads : Thread(t)
    \/ \E e \in Engines : Waiter(e) \/ EngineExit(e) \/ EngineCrash(e)
    \/ WatchdogTick \/ WatchdogStatus
    \/ ManagerCrash

Spec == Init /\ [][Next]_vars

(* A goroutine that can run does, and Go hands a mutex to its waiters in   *)
(* turn, so a thread that waits for one gets it (strong fairness).  An     *)
(* interrupted engine exits, or stops making progress and is escalated.    *)
(* The watchdog ticks, and its 30 second cooldown passes.  Nothing is      *)
(* assumed of requests, of failures to start, of crashes and of exits.     *)
Fairness ==
    /\ \A t \in Threads : SF_vars(Thread(t))
    /\ \A e \in Engines : SF_vars(Waiter(e))
    /\ WF_vars(WatchdogTick)
    /\ SF_vars(WatchdogStatus /\ op'[Watchdog] = "start")

FairSpec == Spec /\ Fairness

-----------------------------------------------------------------------------
(* Every variable stays in its range, and only a StopNode under way holds  *)
(* on to an engine.                                                        *)
TypeOK ==
    /\ mu \in Threads \cup {NoThread} /\ stopMu \in Threads \cup {NoThread}
    /\ isRunning \in BOOLEAN /\ isStopping \in BOOLEAN
    /\ userIntendedRunning \in BOOLEAN /\ autoRecoveryEnabled \in BOOLEAN
    /\ lastError \in BOOLEAN
    /\ cmd \in Engines \cup {NoEngine} /\ cmdCancel \in Engines \cup {NoEngine}
    /\ pc \in [Threads -> Phases]
    /\ op \in [Threads -> Ops]
    /\ target \in [Threads -> Engines \cup {NoEngine}]
    /\ \A t \in Threads : target[t] # NoEngine => pc[t] \in StopPhases
    /\ engine \in [Engines -> {"down", "up", "stopping", "killed"}]
    /\ waiter \in [Engines -> {"none", "wait", "closed"}]
    /\ serverLock \in Engines \cup {NoEngine}
    /\ boots \in 0..MaxBoots
    /\ lapses \subseteq {"overlap", "escalation", "crash", "clean"}

(* While dc.isRunning says there is an engine, dc.cmd names it and its     *)
(* waiter goroutine has not finished: an exit will still be noticed, even  *)
(* when older waiters and other threads reset the same fields.             *)
BelievedRunningIsWatched ==
    /\ isRunning <=> cmd # NoEngine
    /\ isRunning => waiter[cmd] # "none"

(* dc.isStopping is up only while the StopNode that raised it holds stopMu *)
(* and is before its final reset, so no other StopNode ever finds it       *)
(* raised: the branch that waits for somebody else's stop is dead.         *)
StopIsExclusive ==
    /\ isStopping => stopMu # NoThread /\ pc[stopMu] \in Window
    /\ \A t \in Threads : pc[t] = "begin" => ~isStopping

(* An engine that dc believes running but the operator does not want is    *)
(* being stopped: the intent and the flags, written by StartNode, StopNode *)
(* and the waiters, never end up as "running, unwanted, left alone".       *)
UnwantedIsStopping == isRunning /\ ~userIntendedRunning => isStopping

(* GetStatus can report an error only of a node that is not running.       *)
ErrorOnlyWhenStopped == lastError => ~isRunning

(* As long as no StartNode entered before the previous stop and the        *)
(* previous waiter were through, nothing was killed without being waited   *)
(* for and the manager did not die under an engine, the only engine        *)
(* process is the one in dc.cmd.                                           *)
SingleEngine == NoLapse => Live \subseteq {cmd}

(* Under the same condition, catapult.recovery and ResetChain work on a    *)
(* data directory that no engine has open, and the manager exits with no   *)
(* engine left behind.                                                     *)
NoToolOnLiveEngine ==
    NoLapse /\ Live # {} => \A t \in Threads : t \notin Tools /\ pc[t] # "exit"

(* And, unless CleanLogsAndCache was used, none of the many clearLocks     *)
(* takes the server.lock of a live engine away.                            *)
LiveEngineKeepsLock == lapses = {} => \A e \in Live : serverLock = e

(* The inductive invariant.  Each mutex is held by the thread in its       *)
(* phases; what the flags say while one is held; and, before a lapse, who  *)
(* may still refer to which engine.                                        *)
MutexesHeld ==
    \A t \in Threads : /\ mu = t <=> pc[t] \in StartPhases
                       /\ stopMu = t <=> pc[t] \in StopPhases

FlagsAgree ==
    /\ BelievedRunningIsWatched /\ StopIsExclusive
    /\ UnwantedIsStopping /\ ErrorOnlyWhenStopped
    /\ \A t \in Threads : pc[t] \in StartPhases => ~isRunning /\ ~lastError
    /\ \A t \in Threads : pc[t] \in Window => target[t] \in Engines
    /\ \A e \in Engines : waiter[e] = "closed" => e \notin Live

(* At most one engine has a waiter; a StopNode under way is about the      *)
(* engine in dc.cmd, and the one it takes for gone is gone; afterwards     *)
(* there is none; and a StartNode has the place to itself.                 *)
OneEngine ==
    /\ Live \subseteq {cmd}
    /\ \A e, f \in Engines : waiter[e] # "none" /\ waiter[f] # "none" => e = f
    /\ \A t \in Threads :
          /\ pc[t] \in Window => cmd \in {target[t], NoEngine}
          /\ pc[t] = "finish" => target[t] \notin Live
          /\ pc[t] \in Afterwards => cmd = NoEngine
          /\ pc[t] \in StartPhases =>
                /\ \A e \in Engines : waiter[e] = "none"
                /\ \A u \in Threads \ {t} : pc[u] \notin Window \cup Afterwards

Inv == /\ MutexesHeld
       /\ FlagsAgree
       /\ NoLapse => OneEngine
       /\ LiveEngineKeepsLock

(* Until the first lapse, every step is a step of NodeLifecycle or leaves  *)
(* what it talks about alone.                                              *)
L == INSTANCE NodeLifecycle WITH
        Engine <- Engines, Tool <- Threads,
        live <- Live, tools <- Tools, wanted <- userIntendedRunning

ImplementsLifecycle == L!Init /\ [][NoLapse' => [L!Next]_(L!vars)]_vars

(* A call of StopNode returns. *)
StopReturns ==
    \A t \in Threads : pc[t] \in StopPhases \cup {"stop"} ~>
                        pc[t] \notin StopPhases \cup {"stop"}

(* dc does not keep the record of a process that is gone. *)
ExitIsNoticed == \A e \in Engines : cmd = e /\ e \notin Live ~>
                                    cmd # e \/ e \in Live

(* Crash recovery: whenever the operator wants an engine and there is      *)
(* none, the watchdog gets to try a start, again and again until one       *)
(* succeeds, unless auto-recovery is switched off.                         *)
WantedIsRetried ==
    (userIntendedRunning /\ autoRecoveryEnabled /\ ~isRunning)
       ~> (isRunning \/ ~userIntendedRunning \/ ~autoRecoveryEnabled
             \/ pc[Watchdog] \in StartPhases)

(* supervisor.go:1015 and 1024 say that the heights are compared, and      *)
(* catapult.recovery run, "post-shutdown", "after node shutdown": no       *)
(* engine is up, not even one that was never asked to stop.                *)
ReconcileAfterShutdown ==
    (\E t \in Threads : pc[t] = "reconcile") => \A e \in Engines : engine[e] # "up"

(* The "automated recovery restart" of a stalled node (supervisor.go:1253) *)
(* by a "self-healing" watchdog (api/server.go:134) gets the node back,    *)
(* unless a request comes in between.                                      *)
StallRestartComesBack ==
    op[Watchdog] = "restart" ~> (isRunning /\ ~isStopping) \/ \E c \in Clients : pc[c] # "idle"
=============================================================================
