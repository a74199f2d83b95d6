CONSTANTS
    Syncer = {t1, t2}
    ConfFile = {network, peers}
    Missing = Missing
    Edited = Edited
    Torn = Torn
    MaxRelease = 2
    MaxSyncs = 2
    Requester = {t1, t2}
    Path = {dflt, pathA}
    DefaultPath = dflt
    NoPath = NoPath
    Entry = {e1}
    Nobody = Nobody
    MaxFaults = 1
    MaxOutside = 1
    Sender = {alice}
    Label = label
    RemoteKey = {k1}
    NoKey = NoKey
    PageSize = 2
    MaxSlots = 1
    MaxSaved = 2
    MaxSent = 3
    MaxHeight = 6
    Lookback = 1
    FirstLook = 1
    FarBehind = 1
    Chunk = 1
    Newest = 1
    Signed = {1, 3, 4, 6}
    KeepBlocks = 3
    MaxLag = 1
    Worker = {t1, t2}
    Datum = {o1, o2}
    Target = {p1, p2}
    Window = {t1, t2}
    Distro = {jammy, ubuntu, debian}
    Ubuntu = {jammy, ubuntu}
    Jammy = jammy
    Generic = ubuntu
    NoDistro = NoDistro
    MaxFailures = 1
    MaxReboots = 1
    Caller = {t1, t2}
    Guest = {o1, o2}
    NoGuest = NoGuest
    NoCaller = NoCaller
    MaxExits = 1
    Client = {t1, t2}
    Background = bg
    Replicator = {o1, o2}
    NoReplicator = NoReplicator
    MaxLosses = 1
    TopHeight = 4
    Gap = 1
    Grace = 1
    Patience = 1
    Cooldown = 2
    Off = Off
SPECIFICATION ServicesSpec
INVARIANTS
    AllTypeOK
    RollbackRestoresBackup
    OnlyNestedReadBlocks
    
    
    AcceptedKeyStays
    CountedOnce
    CompleteIsWhole
    SetupMakesReady
    OneEngineOnData
    SyncedChainKept
    OnboardingIsFunded
    StallsAreRecovered
SYMMETRY Symmetry
CHECK_DEADLOCK FALSE
