-------------------------- MODULE ReplicatorStorage --------------------------
(***************************************************************************)
(* The storage replicator (pkg/storage/storage.go): its account on the     *)
(* chain, looked up at most every thirty seconds and remembered in a cache *)
(* of one account, and its onboarding, which pays from that account.  The  *)
(* key of the replicator may be replaced at any time, and a look-up begun  *)
(* for one key may end after the next key was asked for.                   *)
(***************************************************************************)
EXTENDS Naturals, FiniteSets

CONSTANTS
    Client,       \* goroutines that serve /api/storage/status or /onboard
    Background,   \* the goroutine of CheckOnChainAccount
    Replicator,   \* replicator keys
    NoReplicator,
    MaxLosses     \* bound: announcements whose answer is lost

Fetcher == Client \cup {Background}

VARIABLES
    replicator,   \* key of config-storage.properties
    paid,         \* replicators whose account has held one XPX or more
    token,        \* those whose account has held none, and enough of a mosaic that
                  \* the code does not know
    account,      \* cachedAccount: the key, and whether it was found paid
    lastScan,     \* lastAccountScan: "never", "old", "fresh"
    fetching,     \* isFetchingAccount
    lookup,       \* each goroutine: where it is and its local variables
    announced,    \* onboarding transactions that reached the network
    losses

vars == <<replicator, paid, token, account, lastScan, fetching, lookup, announced, losses>>
chainVars == <<paid, token>>
cacheVars == <<account, lastScan>>
-----------------------------------------------------------------------------
Lookup == [pc : {"idle", "check", "fetch", "announce", "poll"},
           why : {"status", "onboard"},
           key : Replicator \cup {NoReplicator}]
Resting == [pc |-> "idle", why |-> "status", key |-> NoReplicator]

Init ==
    /\ replicator = NoReplicator
    /\ paid \in SUBSET Replicator /\ token \in SUBSET Replicator
    /\ account = [key |-> NoReplicator, paid |-> FALSE] /\ lastScan = "never"
    /\ fetching = FALSE
    /\ lookup = [f \in Fetcher |-> Resting]
    /\ announced = {} /\ losses = 0

(* SaveStorageConfig, by the form or with a key just generated. *)
SaveKey(k) ==
    /\ replicator' = k
    /\ UNCHANGED <<chainVars, cacheVars, fetching, lookup, announced, losses>>

(* What has left the account again may still be on it for a node behind.   *)
ChangeFunds(k) ==
    /\ \/ k \notin paid /\ paid' = paid \cup {k} /\ UNCHANGED token
       \/ k \notin token /\ token' = token \cup {k} /\ UNCHANGED paid
    /\ UNCHANGED <<replicator, cacheVars, fetching, lookup, announced, losses>>

ThirtySecondsPass ==
    /\ lastScan = "fresh" /\ lastScan' = "old"
    /\ UNCHANGED <<replicator, chainVars, account, fetching, lookup, announced, losses>>
-----------------------------------------------------------------------------
(* GetStatus and OnboardReplicator read the configuration once. *)
Begin(c, why) ==
    /\ lookup[c].pc = "idle"
    /\ why = "onboard" => replicator # NoReplicator
    /\ lookup' = [lookup EXCEPT ![c] = [pc |-> "check", why |-> why, key |-> replicator]]
    /\ UNCHANGED <<replicator, chainVars, cacheVars, fetching, announced, losses>>

(* "insufficient XPX balance" ends an onboarding, a status only shows it.  *)
Judge(c, found) ==
    [lookup EXCEPT ![c] = IF @.why = "onboard" /\ found THEN [@ EXCEPT !.pc = "announce"]
                          ELSE Resting]

(* Mutant: the cache is taken for whatever key is asked for.               *)
CachedForAny(k) == lastScan # "never"
HasCached(k) == account.key = k /\ lastScan # "never"

(* A fresh account answers, an old one answers and is fetched again beside *)
(* the request, unless that is under way.                                  *)
CheckOnChainAccount(c) ==
    /\ lookup[c].pc = "check"
    /\ LET k == lookup[c].key
           refresh == HasCached(k) /\ lastScan = "old" /\ ~fetching
           judged == IF HasCached(k) THEN Judge(c, account.paid)
                     ELSE [lookup EXCEPT ![c].pc = "fetch"]
       IN  /\ fetching' = (fetching \/ refresh)
           /\ lookup' = IF refresh
                        THEN [judged EXCEPT ![Background] = [Resting EXCEPT !.pc = "fetch", !.key = k]]
                        ELSE judged
    /\ UNCHANGED <<replicator, chainVars, cacheVars, announced, losses>>

(* fetchOnChainAccount: one of the nodes answers within two seconds, or    *)
(* none does and the account is remembered as empty.  A mosaic that is not *)
(* known counts as XPX as long as none was seen.                           *)
FetchOnChainAccount(f) ==
    LET k == lookup[f].key
    IN  /\ lookup[f].pc = "fetch"
        /\ \E found \in BOOLEAN :
              /\ found => k \in paid \cup token
              /\ IF k = NoReplicator THEN UNCHANGED cacheVars
                 ELSE account' = [key |-> k, paid |-> found] /\ lastScan' = "fresh"
              /\ lookup' = IF f = Background THEN [lookup EXCEPT ![f] = Resting]
                           ELSE Judge(f, found)
        /\ fetching' = (fetching /\ f # Background)
        /\ UNCHANGED <<replicator, chainVars, announced, losses>>

(* One API node after the other, each with a transaction of its own: one   *)
(* that fails may have announced it all the same, and may be the last.     *)
Announce(c) ==
    /\ lookup[c].pc = "announce"
    /\ \/ /\ announced' = announced \cup {lookup[c].key}
          /\ lookup' = [lookup EXCEPT ![c].pc = "poll"]
          /\ UNCHANGED losses
       \/ /\ losses < MaxLosses /\ losses' = losses + 1
          /\ announced' \in {announced, announced \cup {lookup[c].key}}
          /\ lookup' \in {lookup, [lookup EXCEPT ![c] = Resting]}
    /\ UNCHANGED <<replicator, chainVars, cacheVars, fetching>>

(* Four looks at the transaction's status, whose outcome changes nothing   *)
(* here.                                                                   *)
PollStatus(c) ==
    /\ lookup[c].pc = "poll"
    /\ lookup' = [lookup EXCEPT ![c] = Resting]
    /\ UNCHANGED <<replicator, chainVars, cacheVars, fetching, announced, losses>>

Next ==
    \/ \E k \in Replicator : SaveKey(k) \/ ChangeFunds(k)
    \/ ThirtySecondsPass
    \/ \E c \in Client :
          \/ \E why \in {"status", "onboard"} : Begin(c, why)
          \/ CheckOnChainAccount(c) \/ Announce(c) \/ PollStatus(c)
    \/ \E f \in Fetcher : FetchOnChainAccount(f)

Spec == Init /\ [][Next]_vars
-----------------------------------------------------------------------------
TypeOK ==
    /\ replicator \in Replicator \cup {NoReplicator}
    /\ paid \subseteq Replicator /\ token \subseteq Replicator
    /\ account \in [key : Replicator \cup {NoReplicator}, paid : BOOLEAN]
    /\ lastScan \in {"never", "old", "fresh"} /\ fetching \in BOOLEAN
    /\ fetching <=> lookup[Background].pc = "fetch"
    /\ lookup \in [Fetcher -> Lookup]
    /\ announced \subseteq Replicator /\ losses \in 0..MaxLosses

(* Whatever look-ups overlap and however the key changes meanwhile, an     *)
(* onboarding is signed for a replicator whose own account had enough on   *)
(* it, never on the strength of the account of another key.  Enough is one *)
(* XPX or more, or, where there was no XPX, as much of any other mosaic    *)
(* (storage.go:400-401), which the network then does not take.             *)
OnboardingIsFunded == announced \subseteq paid \cup token
=============================================================================
