----------------------------- MODULE MCServices -----------------------------
(***************************************************************************)
(* The components of the manager that share no variable, checked in one    *)
(* run: Init picks the service that moves, and the variables of the others *)
(* stay Off.  The configuration updater is extended, so that its           *)
(* assumption is evaluated; the others are instances, those with proofs of *)
(* their own by the module of the proofs.  DataArchives is there twice,    *)
(* for restores and for backups.                                           *)
(***************************************************************************)
EXTENDS ConfigUpdater, FiniteSets, TLC

CONSTANTS
    Requester, Path, DefaultPath, NoPath, Entry, Nobody, MaxFaults, MaxOutside,
    Sender, Label, RemoteKey, NoKey, PageSize, MaxSlots, MaxSaved, MaxSent,
    MaxHeight, Lookback, FirstLook, FarBehind, Chunk, Newest, Signed, KeepBlocks, MaxLag,
    Worker, Datum, Target,
    Window, Distro, Ubuntu, Jammy, Generic, NoDistro, MaxFailures, MaxReboots,
    Caller, Guest, NoGuest, NoCaller, MaxExits,
    Client, Background, Replicator, NoReplicator, MaxLosses,
    TopHeight, Gap, Grace, Patience, Cooldown,
    Off           \* value of a variable that is not used

(* What the proofs assume of the constants.  Bounds and sizes are numbers,  *)
(* the placeholders for "nobody", "none" and "no path" are none of what     *)
(* they stand beside, the distributions the script asks for are Ubuntus,    *)
(* and the watchdog waits longer between two restarts than after a start.   *)
ASSUME ConfigAssumption ==
    /\ DefaultPath \in Path /\ NoPath \notin Path
    /\ Nobody \notin Requester /\ MaxFaults \in Nat /\ MaxOutside \in Nat
ASSUME DelegationAssumption == PageSize \in Nat /\ MaxSent \in Nat
ASSUME LooksAssumption ==
    /\ MaxHeight \in Nat \ {0} /\ MaxLag \in Nat \ {0} /\ Chunk \in Nat \ {0}
    /\ KeepBlocks \in Nat /\ FarBehind \in Nat
    /\ {Lookback, FirstLook, Newest} \subseteq 0..FarBehind
ASSUME NobodyAssumption == Nobody \notin Worker
ASSUME DistroAssumption ==
    /\ Ubuntu \subseteq Distro /\ {Jammy, Generic} \subseteq Ubuntu /\ IsFiniteSet(Ubuntu)
    /\ NoDistro \notin Distro
    /\ MaxFailures \in Nat /\ MaxReboots \in Nat
ASSUME EngineAssumption == NoCaller \notin Caller /\ MaxExits \in Nat
ASSUME ClientAssumption == Background \notin Client /\ MaxLosses \in Nat
ASSUME TimesAssumption ==
    /\ TopHeight \in Nat \ {0} /\ Gap \in Nat /\ Grace \in Nat /\ Patience \in Nat
    /\ Cooldown \in Nat \ {0} /\ Grace <= Cooldown

VARIABLES
    service,      \* the service that moves
    props, stored, rw, request, bundles, faults, outside, torn, respelled, unfilled,
    sent, linked, rich, once, keyFile, processed, savedHashes, listener,
    accepted, overtaken,
    height, cachedHeight, stats, statsFile, scanned, scan, counted,
    datum, online, task, stage, cancelOf, inode, written, claim, disturbed,
    feature, modern, defaultTwo, listing, version, atomic, package, marker,
    believed, window, failures, reboots,
    hostMu, quitMu, flags, call, guest, wrapper, reaper, index, stateDb,
    script, exits, synced, mishaps,
    replicator, paid, token, account, lastScan, fetching, lookup,
    announced, losses,
    localHeight, network, cachedNet, node, observed, age, dog, still,
    pending, setBack

Configs == INSTANCE ConfigManagerProofs WITH Request <- Requester
Delegations == INSTANCE DelegationListenerProofs
Harvests == INSTANCE HarvesterTracker
Restores == INSTANCE DataArchivesProofs WITH Restorer <- Worker, Archiver <- {}
Backups == INSTANCE DataArchivesProofs WITH Restorer <- {}, Archiver <- Worker
Setups == INSTANCE WslSetup
Engines == INSTANCE WslEngine
Onboardings == INSTANCE ReplicatorStorage
Watches == INSTANCE SyncWatchdog WITH height <- localHeight

(* The tracker remembers enough of the blocks the node signs.               *)
ASSUME KeepsAssumption == Harvests!KeepsEnough
-----------------------------------------------------------------------------
Service == {"sync", "config", "delegation", "harvest", "restore", "backup",
            "setup", "engine", "storage", "watchdog"}

configVars == <<props, stored, rw, request, bundles, faults, outside, torn, respelled,
    unfilled>>
delegationVars == <<sent, linked, rich, once, keyFile, processed, savedHashes,
    listener, accepted, overtaken>>
harvestVars == <<height, cachedHeight, stats, statsFile, scanned, scan,
    counted>>
archiveVars == <<datum, online, task, stage, cancelOf, inode, written, claim,
    disturbed>>
setupVars == <<feature, modern, defaultTwo, listing, version, atomic,
    package, marker, believed, window, failures, reboots>>
engineVars == <<hostMu, quitMu, flags, call, guest, wrapper, reaper, index,
    stateDb, script, exits, synced, mishaps>>
storageVars == <<replicator, paid, token, account, lastScan, fetching,
    lookup, announced, losses>>
watchVars == <<localHeight, network, cachedNet, node, observed, age, dog,
    still, pending, setBack>>

ConfigsOff ==
    /\ props = Off /\ stored = Off /\ rw = Off /\ request = Off
    /\ bundles = Off /\ faults = Off /\ outside = Off /\ torn = Off
    /\ respelled = Off /\ unfilled = Off
DelegationsOff ==
    /\ sent = Off /\ linked = Off /\ rich = Off /\ once = Off /\ keyFile = Off
    /\ processed = Off /\ savedHashes = Off /\ listener = Off
    /\ accepted = Off /\ overtaken = Off
HarvestsOff ==
    /\ height = Off /\ cachedHeight = Off /\ stats = Off
    /\ statsFile = Off /\ scanned = Off /\ scan = Off /\ counted = Off
ArchivesOff ==
    /\ datum = Off /\ online = Off /\ task = Off /\ stage = Off
    /\ cancelOf = Off /\ inode = Off /\ written = Off /\ claim = Off
    /\ disturbed = Off
SetupsOff ==
    /\ feature = Off /\ modern = Off /\ defaultTwo = Off /\ listing = Off
    /\ version = Off /\ atomic = Off /\ package = Off /\ marker = Off
    /\ believed = Off /\ window = Off /\ failures = Off /\ reboots = Off
EnginesOff ==
    /\ hostMu = Off /\ quitMu = Off /\ flags = Off /\ call = Off
    /\ guest = Off /\ wrapper = Off /\ reaper = Off /\ index = Off
    /\ stateDb = Off /\ script = Off /\ exits = Off /\ synced = Off
    /\ mishaps = Off
OnboardingsOff ==
    /\ replicator = Off /\ paid = Off /\ token = Off /\ account = Off
    /\ lastScan = Off /\ fetching = Off /\ lookup = Off
    /\ announced = Off /\ losses = Off
WatchesOff ==
    /\ localHeight = Off /\ network = Off /\ cachedNet = Off
    /\ node = Off /\ observed = Off /\ age = Off /\ dog = Off
    /\ still = Off /\ pending = Off /\ setBack = Off

ServicesInit ==
    /\ service \in Service
    /\ Init /\ (service = "sync" \/ conf = NoFiles)
    /\ IF service = "config" THEN Configs!Init ELSE ConfigsOff
    /\ IF service = "delegation" THEN Delegations!Init ELSE DelegationsOff
    /\ IF service = "harvest" THEN Harvests!Init ELSE HarvestsOff
    /\ IF service = "setup" THEN Setups!Init ELSE SetupsOff
    /\ IF service = "engine" THEN Engines!Init ELSE EnginesOff
    /\ IF service = "storage" THEN Onboardings!Init ELSE OnboardingsOff
    /\ IF service = "watchdog" THEN Watches!Init ELSE WatchesOff
    /\ IF service = "restore" THEN Restores!Init
       ELSE IF service = "backup" THEN Backups!Init ELSE ArchivesOff

(* One service moves, the others stay as they are. *)
OthersStay ==
    /\ UNCHANGED service
    /\ IF service = "sync" THEN TRUE ELSE UNCHANGED vars
    /\ IF service = "config" THEN TRUE ELSE UNCHANGED configVars
    /\ IF service = "delegation" THEN TRUE ELSE UNCHANGED delegationVars
    /\ IF service = "harvest" THEN TRUE ELSE UNCHANGED harvestVars
    /\ IF service = "setup" THEN TRUE ELSE UNCHANGED setupVars
    /\ IF service = "engine" THEN TRUE ELSE UNCHANGED engineVars
    /\ IF service = "storage" THEN TRUE ELSE UNCHANGED storageVars
    /\ IF service = "watchdog" THEN TRUE ELSE UNCHANGED watchVars
    /\ IF service \in {"restore", "backup"} THEN TRUE ELSE UNCHANGED archiveVars

Syncs == service = "sync" /\ OthersStay /\ Next
ServesConfigs == service = "config" /\ OthersStay /\ Configs!Next
Delegates == service = "delegation" /\ OthersStay /\ Delegations!Next
Tracks == service = "harvest" /\ OthersStay /\ Harvests!Next
RestoresData == service = "restore" /\ OthersStay /\ Restores!Next
BacksUpData == service = "backup" /\ OthersStay /\ Backups!Next
SetsUp == service = "setup" /\ OthersStay /\ Setups!Next
RunsEngine == service = "engine" /\ OthersStay /\ Engines!Next
Onboards == service = "storage" /\ OthersStay /\ Onboardings!Next
Watchdogs == service = "watchdog" /\ OthersStay /\ Watches!Next

ServicesNext == \/ Syncs \/ ServesConfigs \/ Delegates \/ Tracks \/ RestoresData
                \/ BacksUpData \/ SetsUp \/ RunsEngine \/ Onboards
                \/ Watchdogs

servicesVars == <<service, vars, configVars, delegationVars, harvestVars, archiveVars,
                  setupVars, engineVars, storageVars, watchVars>>
ServicesSpec == ServicesInit /\ [][ServicesNext]_servicesVars
-----------------------------------------------------------------------------
(* Every variable of every service stays in its range. *)
AllTypeOK ==
    /\ TypeOK
    /\ service = "config" => Configs!TypeOK
    /\ service = "delegation" => Delegations!TypeOK
    /\ service = "harvest" => Harvests!TypeOK
    /\ service = "restore" => Restores!TypeOK
    /\ service = "backup" => Backups!TypeOK
    /\ service = "setup" => Setups!TypeOK
    /\ service = "engine" => Engines!TypeOK
    /\ service = "storage" => Onboardings!TypeOK
    /\ service = "watchdog" => Watches!TypeOK

(* RollbackRestoresBackup of ConfigUpdater is checked as it stands; what   *)
(* the other services promise is stated in their modules.                  *)

(* pkg/config: only the read lock that ExportBackup and LoadStorageConfig  *)
(* take twice, with a writer announced in between, blocks for ever.        *)
OnlyNestedReadBlocks == service = "config" => Configs!OnlyNestedReadBlocks

(* pkg/config: a data directory that moves keeps every entry somewhere.    *)
DataNeverLost == service = "config" => Configs!DataNeverLost

(* pkg/config: the files of a backup that only the lock's holders write are *)
(* those of one moment, the others too unless a start of the node or an     *)
(* official update came in between; and its import leaves no placeholder in *)
(* the place of a key, unless an unusual spelling of the key was not        *)
(* recognised or a file without a key has once taken a placeholder.         *)
BackupsAreSound ==
    service = "config" => Configs!ExportIsSnapshot /\ Configs!KeySurvivesImport

(* pkg/chain: the key of a confirmed delegation stays in its file, unless  *)
(* a node that is behind denies it or transactions were answered out of    *)
(* order.                                                                  *)
AcceptedKeyStays == service = "delegation" => Delegations!AcceptedKeyStays

(* pkg/chain: a validated block enters the totals once.                    *)
CountedOnce == service = "harvest" => Harvests!CountedOnce

(* pkg/supervisor: a restore or backup reported complete is whole, if it   *)
(* was alone and passed over nothing.                                      *)
CompleteIsWhole ==
    /\ service = "restore" => Restores!CompleteIsWhole
    /\ service = "backup" => Backups!CompleteIsWhole

(* setup-wsl.ps1: a script that ends well has made the probe answer ready. *)
SetupMakesReady == service = "setup" => Setups!SetupMakesReady

(* executeWSL, stopWSL: one engine, and nothing works on its data, unless  *)
(* pgrep fails, an engine is left behind or killed, or requests overlap.   *)
OneEngineOnData == service = "engine" => Engines!OneEngineOnData

(* executeWSL: no start and no setup takes a synchronised chain away that  *)
(* could be read and whose engine, if it runs, was seen.                   *)
SyncedChainKept == service = "engine" => Engines!SyncedChainKept

(* pkg/storage: an onboarding is paid from an account seen funded, with    *)
(* XPX or with what the code takes for it.                                 *)
OnboardingIsFunded == service = "storage" => Onboardings!OnboardingIsFunded

(* pkg/supervisor: the watchdog restarts a node that is stalled, in time,   *)
(* and no other.                                                            *)
StallsAreRecovered ==
    service = "watchdog" => Watches!RestartMeansStall /\ Watches!StallMeansRestart

(* The goroutines and the interchangeable data of all services.            *)
Symmetry == Permutations(Caller) \cup Permutations(Guest)
=============================================================================
