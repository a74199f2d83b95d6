------------------------------- MODULE WslSetup -------------------------------
(***************************************************************************)
(* Preparing a Windows host (pkg/supervisor/wsl_windows.go): the probe of  *)
(* the Linux subsystem with its five-second cache, the marker that an      *)
(* installation was begun, and the setup script, each run of which is a    *)
(* console window of its own that the manager neither waits for nor        *)
(* counts.  A restart of Windows ends every window and the manager.        *)
(***************************************************************************)
EXTENDS Naturals, Sequences, FiniteSets, SequencesExt

CONSTANTS
    Window,       \* runs of the setup script, each of them once
    Distro,       \* names of Linux distributions
    Ubuntu,       \* those that contain "ubuntu"
    Jammy,        \* "Ubuntu-22.04", which the manager asks for
    Generic,      \* "Ubuntu", which stands in for it
    NoDistro,
    MaxFailures,  \* bound: commands that fail
    MaxReboots    \* bound: restarts of Windows

VARIABLES
    feature,      \* "off", "pending" until Windows restarts, "on"
    modern,       \* wsl.exe is at version 2.3 or later
    defaultTwo,   \* new distributions get WSL version 2
    listing,      \* wsl -l: installed distributions, the default one first
    version,      \* WSL version of each of them
    atomic,       \* those in which libatomic1 is installed
    package,      \* wsl-package-x64.msi in the temporary directory
    marker,       \* wsl_install_initiated of cache.json
    believed,     \* wslCachedStatus says ready and is not five seconds old
    window,       \* each window: where it is and its variables
    failures, reboots

vars == <<feature, modern, defaultTwo, listing, version, atomic, package,
          marker, believed, window, failures, reboots>>
hostVars  == <<feature, modern, defaultTwo, package>>
guestVars == <<listing, version, atomic>>
probeVars == <<marker, believed>>
-----------------------------------------------------------------------------
Action == {"EnableWSL", "Update", "InstallDistro"}

Script == [pc : {"idle", "features", "update", "download", "package", "list",
                 "catalog", "convert", "packages", "done"},
           action : Action \cup {"none"},
           asked : Distro \cup {NoDistro},     \* -Distro
           name : Distro \cup {NoDistro},      \* the distribution it works on
           back : {"list", "done"},            \* where its packages lead to
           clean : BOOLEAN]                    \* no command has failed
Unused == [pc |-> "idle", action |-> "none", asked |-> NoDistro, name |-> NoDistro,
           back |-> "done", clean |-> TRUE]

Installed == ToSet(listing)

(* The distribution that the probe settles on: any name with "ubuntu"      *)
(* replaces the one found before it, any other only fills the first place. *)
(* Mutant: the default one.                                                *)
SelectedFirst == Head(listing)
Selected == LET last == SelectLastInSeq(listing, LAMBDA d : d \in Ubuntu)
            IN  IF last = 0 THEN Head(listing) ELSE listing[last]

Seen == IF feature # "on" THEN "NotInstalled"
        ELSE IF listing = <<>> THEN (IF defaultTwo THEN "NoDistro" ELSE "V1Only")
        ELSE IF version[Selected] = 1 THEN "V1Only" ELSE "Ready"

Init ==
    /\ feature \in {"off", "on"}
    /\ modern \in {TRUE, FALSE} /\ defaultTwo \in BOOLEAN
    /\ listing \in {<<>>} \cup {<<d>> : d \in Distro}
    /\ feature = "off" => listing = <<>>
    /\ version \in {[d \in Distro |-> v] : v \in {1, 2}}
    /\ atomic = {}
    /\ package = "none" /\ marker = FALSE
    /\ believed = FALSE
    /\ window = [w \in Window |-> Unused]
    /\ failures = 0 /\ reboots = 0
-----------------------------------------------------------------------------
(* ProbeWSLStatus: the marker goes once the subsystem is ready, and only   *)
(* that answer is remembered.                                              *)
ProbeWSLStatus ==
    /\ ~believed
    /\ believed' = (Seen = "Ready")
    /\ marker' = (marker /\ Seen # "Ready")
    /\ UNCHANGED <<hostVars, guestVars, window, failures, reboots>>

FiveSecondsPass ==
    /\ believed
    /\ believed' = FALSE
    /\ UNCHANGED <<hostVars, guestVars, marker, window, failures, reboots>>

(* runWSLSetupScript opens a window, unless the user denies permission.    *)
OpenWindow(w, action, asked) ==
    \/ /\ window[w].pc = "idle"
       /\ window' = [window EXCEPT ![w] =
              [Unused EXCEPT !.action = action, !.asked = asked,
                             !.pc = IF action = "EnableWSL" THEN "features"
                                    ELSE IF action = "InstallDistro" /\ modern THEN "list"
                                    ELSE "update"]]
    \/ UNCHANGED window

InitiateWSLInstall(w) ==
    /\ marker' = TRUE /\ believed' = FALSE
    /\ OpenWindow(w, "EnableWSL", NoDistro)
    /\ UNCHANGED <<hostVars, guestVars, failures, reboots>>

UpdateWSL(w) ==
    /\ believed' = FALSE
    /\ OpenWindow(w, "Update", NoDistro)
    /\ UNCHANGED <<hostVars, guestVars, marker, failures, reboots>>

(* Probes, and is refused while a restart is needed, as far as the answer  *)
(* knows.                                                                  *)
SetupWSLDistro(w, d) ==
    /\ feature # "pending" \/ believed
    /\ marker' = (marker /\ (believed \/ Seen # "Ready"))
    /\ believed' = FALSE
    /\ OpenWindow(w, "InstallDistro", d)
    /\ UNCHANGED <<hostVars, guestVars, failures, reboots>>
-----------------------------------------------------------------------------
(* The setup script. *)

Goto(w, pc) == window' = [window EXCEPT ![w].pc = pc]
At(w, pc) == window[w].pc = pc

(* A command that fails is logged, and the script goes on.                 *)
Fails(w, pc) == /\ failures < MaxFailures
                /\ failures' = failures + 1
                /\ window' = [window EXCEPT ![w].pc = pc, ![w].clean = FALSE]

EnableWSLFeatures(w) ==
    /\ At(w, "features")
    /\ \/ /\ Goto(w, "done")
          /\ feature' \in IF feature = "off" THEN {"pending", "on"} ELSE {feature}
          /\ defaultTwo' = TRUE
          /\ UNCHANGED failures
       \/ Fails(w, "done") /\ UNCHANGED <<feature, defaultTwo>>
    /\ UNCHANGED <<modern, package, guestVars, probeVars, reboots>>

(* Update-WSLSubsystem ends with the packages of the first Ubuntu listed.  *)
AfterUpdate(w) ==
    LET first == SelectInSeq(listing, LAMBDA d : d \in Ubuntu)
        back == IF window[w].action = "InstallDistro" THEN "list" ELSE "done"
    IN  /\ window' = [window EXCEPT ![w].pc = IF first = 0 THEN back ELSE "packages",
                                    ![w].name = IF first = 0 THEN NoDistro ELSE listing[first],
                                    ![w].back = back]
        /\ defaultTwo' = TRUE

StandardUpdate(w) ==
    /\ At(w, "update")
    /\ \/ /\ modern' \in {modern, TRUE}
          /\ IF modern' THEN AfterUpdate(w) ELSE Goto(w, "download") /\ UNCHANGED defaultTwo
          /\ UNCHANGED failures
       \/ /\ Fails(w, "download")
          /\ ~modern
          /\ UNCHANGED <<modern, defaultTwo>>
    /\ UNCHANGED <<feature, package, guestVars, probeVars, reboots>>

(* BITS, then WebClient, then the fallback package: whoever writes the     *)
(* temporary file, it is the same for every window.                        *)
DownloadPackage(w) ==
    /\ At(w, "download")
    /\ \/ /\ package' = "whole"
          /\ Goto(w, "package")
          /\ UNCHANGED <<failures, defaultTwo>>
       \/ /\ package' \in {"none", "part"}
          /\ failures < MaxFailures /\ failures' = failures + 1
          /\ AfterUpdate(w)
    /\ UNCHANGED <<feature, modern, guestVars, probeVars, reboots>>

InstallPackage(w) ==
    /\ At(w, "package")
    /\ modern' = (modern \/ package = "whole")
    /\ package' = "none"
    /\ AfterUpdate(w)
    /\ UNCHANGED <<feature, guestVars, probeVars, failures, reboots>>

(* Install-WSLDistro takes "Ubuntu" for "Ubuntu-22.04".                    *)
SameAs(asked) == {asked} \cup (IF asked = Jammy THEN {Generic} ELSE {})

FindInstalled(w) ==
    /\ At(w, "list")
    /\ LET first == SelectInSeq(listing, LAMBDA d : d \in SameAs(window[w].asked))
       IN  window' = [window EXCEPT ![w].pc = IF first = 0 THEN "catalog" ELSE "convert",
                                    ![w].name = IF first = 0 THEN NoDistro ELSE listing[first]]
    /\ UNCHANGED <<hostVars, guestVars, probeVars, failures, reboots>>

(* wsl --install, of what the online catalogue has.  Another window may    *)
(* have been faster.                                                       *)
InstallFromCatalog(w) ==
    /\ At(w, "catalog")
    /\ \/ \E d \in SameAs(window[w].asked) \ Installed :
             /\ feature = "on"
             /\ listing' = Append(listing, d)
             /\ version' = [version EXCEPT ![d] = IF defaultTwo THEN 2 ELSE 1]
             /\ window' = [window EXCEPT ![w].pc = "convert", ![w].name = d]
             /\ UNCHANGED failures
       \/ Fails(w, "done") /\ UNCHANGED <<listing, version>>
    /\ UNCHANGED <<hostVars, atomic, probeVars, reboots>>

(* wsl --set-version. *)
ConvertDistro(w) ==
    /\ At(w, "convert")
    /\ \/ /\ version' = [version EXCEPT ![window[w].name] = 2]
          /\ window' = [window EXCEPT ![w].pc = "packages", ![w].back = "done"]
          /\ UNCHANGED failures
       \/ /\ version[window[w].name] = 1
          /\ Fails(w, "packages")
          /\ UNCHANGED version
    /\ UNCHANGED <<hostVars, listing, atomic, probeVars, reboots>>

(* Ensure-DistroRuntimePackages: apt-get, twice if need be, and the native *)
(* storage, whose seeding is a matter of WslEngine.                        *)
InstallPackages(w) ==
    /\ At(w, "packages")
    /\ \/ /\ atomic' = atomic \cup {window[w].name}
          /\ Goto(w, window[w].back)
          /\ UNCHANGED failures
       \/ Fails(w, window[w].back) /\ UNCHANGED atomic
    /\ UNCHANGED <<hostVars, listing, version, probeVars, reboots>>
-----------------------------------------------------------------------------
Reboot ==
    /\ reboots < MaxReboots
    /\ reboots' = reboots + 1
    /\ feature' = IF feature = "pending" THEN "on" ELSE feature
    /\ believed' = FALSE
    /\ window' = [w \in Window |-> IF window[w].pc \in {"idle", "done"} THEN window[w]
                                    ELSE [window[w] EXCEPT !.pc = "done", !.clean = FALSE]]
    /\ UNCHANGED <<modern, defaultTwo, package, guestVars, marker, failures>>

RunScript(w) ==
    \/ EnableWSLFeatures(w)
    \/ StandardUpdate(w) \/ DownloadPackage(w) \/ InstallPackage(w)
    \/ FindInstalled(w) \/ InstallFromCatalog(w) \/ ConvertDistro(w)
    \/ InstallPackages(w)

Next ==
    \/ ProbeWSLStatus \/ FiveSecondsPass
    \/ \E w \in Window : InitiateWSLInstall(w) \/ UpdateWSL(w) \/ RunScript(w)
    \/ \E w \in Window, d \in Distro : SetupWSLDistro(w, d)
    \/ Reboot

Spec == Init /\ [][Next]_vars
-----------------------------------------------------------------------------
TypeOK ==
    /\ feature \in {"off", "pending", "on"} /\ modern \in BOOLEAN /\ defaultTwo \in BOOLEAN
    /\ IsInjective(listing) /\ Installed \subseteq Distro
    /\ version \in [Distro -> 1..2] /\ atomic \subseteq Installed
    /\ package \in {"none", "part", "whole"}
    /\ marker \in BOOLEAN /\ believed \in BOOLEAN
    /\ window \in [Window -> Script]
    /\ failures \in 0..MaxFailures /\ reboots \in 0..MaxReboots

(* SetupWSLDistro and ProbeWSLStatus choose a distribution in two ways:    *)
(* the script by the name it was asked for, the probe by its own rule.     *)
(* They agree as long as there is one Ubuntu: when the script has set up   *)
(* "Ubuntu-22.04" and no command failed, the probe finds WSL2 ready,       *)
(* whatever was installed before and whatever else is set up meanwhile.    *)
SetupMakesReady ==
    \A w \in Window :
        /\ At(w, "done") /\ window[w].clean
        /\ window[w].action = "InstallDistro" /\ window[w].asked = Jammy
        /\ Cardinality(Installed \cap Ubuntu) <= 1
        => Seen = "Ready"
=============================================================================
