-------------------------- MODULE DelegationListener --------------------------
(***************************************************************************)
(* The delegation listener (pkg/chain/delegation_listener.go) and the      *)
(* handlers that write the same directory of key files.  Every 15 seconds  *)
(* one goroutine asks the API nodes for the newest transactions sent to    *)
(* the node, newest first, and answers each one it does not know: a link   *)
(* that the chain confirms puts the sender's remote key into               *)
(* delegated_keys/, an unlink removes it.  Every 20th time it also removes *)
(* the keys the chain does not confirm any more.  What it takes for the    *)
(* chain is the first API node that answers, which may be behind.          *)
(***************************************************************************)
EXTENDS Integers, Sequences, FiniteSets, SequencesExt

CONSTANTS
    Sender,       \* accounts that delegate
    Label,        \* a file name that is nobody's address
    RemoteKey,    \* remote keys
    NoKey,        \* no file, or no account link
    PageSize,     \* transactions in an answer of an API node (20)
    MaxSlots,     \* maxUnlockedAccounts
    MaxSaved,     \* hashes that are saved (5000)
    MaxSent       \* bound: transactions sent

VARIABLES
    sent,         \* the confirmed transactions, oldest first
    linked,       \* each account's link on the chain
    rich,         \* the accounts that hold 100,000 XPX
    once,         \* the keys the chain has ever confirmed for an account
    keyFile,      \* delegated_keys/: the key in each file
    processed,    \* processedHashes
    savedHashes,  \* delegation_listener_state.json
    listener,     \* the goroutine: where it is and its local variables
    accepted,     \* history: the link a sender's key was placed for, as long as the
                  \* chain confirms it, nobody takes it back and no node denies it
    overtaken     \* history: senders whose transactions were taken out of order

vars == <<sent, linked, rich, once, keyFile, processed, savedHashes, listener,
          accepted, overtaken>>
-----------------------------------------------------------------------------
Name == Sender \cup {Label}
KeyOrNone == RemoteKey \cup {NoKey}
Tx == 1..MaxSent

(* Other transactions, and messages that cannot be decrypted or parsed, are *)
(* "other"; the last two are the transfers the listener acts on.            *)
Transaction == [sender : Sender, action : {"other", "link", "unlink"}, key : RemoteKey]

Listener == [pc : {"sleep", "answer", "place", "sweep"},
             batch : Seq(Tx),          \* itemsToProcess
             changed : BOOLEAN,        \* hasNewChanges
             files : SUBSET Name,      \* files the sweep has not looked at
             stale : SUBSET Name]      \* the one it is about to remove
Sleeping == [pc |-> "sleep", batch |-> <<>>, changed |-> FALSE, files |-> {}, stale |-> {}]

Init ==
    /\ sent = <<>>
    /\ linked = [s \in Sender |-> NoKey] /\ rich = Sender
    /\ once = [s \in Sender |-> {}]
    /\ keyFile = [n \in Name |-> NoKey]
    /\ processed = {} /\ savedHashes = {}
    /\ listener = Sleeping
    /\ accepted = [s \in Sender |-> 0] /\ overtaken = {}

At(pc) == listener.pc = pc
ActiveSlots == {n \in Name : keyFile[n] # NoKey}
-----------------------------------------------------------------------------
(* The chain. *)

Confirmed(s, k) == linked[s] = k /\ s \in rich
NoteConfirmed(s) ==
    once' = [once EXCEPT ![s] = @ \cup {k \in RemoteKey : Confirmed(s, k)'}]

ChangeLink(s, k) ==
    /\ linked[s] # k
    /\ linked' = [linked EXCEPT ![s] = k] /\ UNCHANGED rich
    /\ NoteConfirmed(s)
    /\ accepted' = [accepted EXCEPT ![s] = 0]
    /\ UNCHANGED <<sent, keyFile, processed, savedHashes, listener, overtaken>>

ChangeBalance(s) ==
    /\ rich' = IF s \in rich THEN rich \ {s} ELSE rich \cup {s}
    /\ UNCHANGED linked
    /\ NoteConfirmed(s)
    /\ accepted' = [accepted EXCEPT ![s] = 0]
    /\ UNCHANGED <<sent, keyFile, processed, savedHashes, listener, overtaken>>

Send(t) ==
    /\ Len(sent) < MaxSent
    /\ sent' = Append(sent, t)
    /\ UNCHANGED <<linked, rich, once, keyFile, processed, savedHashes, listener, accepted, overtaken>>
-----------------------------------------------------------------------------
(* One poll. *)

(* The transactions from low to high, the newest first. *)
NewestFirst(low, high) == [i \in 1..(IF low <= high THEN high + 1 - low ELSE 0) |-> high + 1 - i]
Oldest(n) == IF n > PageSize THEN n + 1 - PageSize ELSE 1

(* The newest transactions of a node that has seen the first n of them. *)
Page(n) == NewestFirst(Oldest(n), n)

(* What a node that has seen m of them adds to the page of one that has    *)
(* seen n: newer ones if it is ahead, older ones if it is behind.          *)
More(n, m) ==
    IF m > n THEN NewestFirst(IF Oldest(m) > n THEN Oldest(m) ELSE n + 1, m)
    ELSE NewestFirst(Oldest(m), IF m < Oldest(n) THEN m ELSE Oldest(n) - 1)

(* Two nodes answer, one of them may be behind; what the second one has in  *)
(* addition comes after.                                                    *)
CheckIncomingTransactions ==
    /\ At("sleep")
    /\ \E n, m \in 0..Len(sent) :
         LET batch == Page(n) \o More(n, m)
         IN  /\ batch # <<>>
             /\ listener' = [listener EXCEPT !.pc = "answer", !.changed = FALSE, !.batch = batch]
    /\ UNCHANGED <<sent, linked, rich, once, keyFile, processed, savedHashes, accepted, overtaken>>

Item == Head(listener.batch)
Sent == sent[Item]
Known == Item \in processed

(* The item is done with: marked, or left for the next poll. *)
Done(mark, changed) ==
    /\ processed' = IF mark THEN processed \cup {Item} ELSE processed
    /\ listener' = [listener EXCEPT !.pc = "answer", !.batch = Tail(@),
                                    !.changed = @ \/ changed]

(* A sender's older transaction is answered after a newer one. *)
Overtaking == \/ accepted[Sent.sender] > Item
              \/ \E t \in processed : t > Item /\ sent[t].sender = Sent.sender
NoteOrder == overtaken' = IF Overtaking THEN overtaken \cup {Sent.sender} ELSE overtaken

SkipItem ==
    /\ At("answer") /\ listener.batch # <<>>
    /\ Known \/ Sent.action = "other"
    /\ Done(~Known, FALSE)
    /\ UNCHANGED <<sent, linked, rich, once, keyFile, savedHashes, accepted, overtaken>>

Unlink ==
    /\ At("answer") /\ listener.batch # <<>>
    /\ ~Known /\ Sent.action = "unlink"
    /\ keyFile' = [keyFile EXCEPT ![Sent.sender] = NoKey]
    /\ accepted' = [accepted EXCEPT ![Sent.sender] = IF @ < Item THEN 0 ELSE @]
    /\ NoteOrder
    /\ Done(TRUE, TRUE)
    /\ UNCHANGED <<sent, linked, rich, once, savedHashes>>

(* verifyOnChainAccountLink: the first node that answers may be behind, and *)
(* confirm what was the case once, or deny what is new to it.               *)
ConfirmLink ==
    /\ At("answer") /\ listener.batch # <<>>
    /\ ~Known /\ Sent.action = "link"
    /\ Sent.key \in once[Sent.sender]
    /\ listener' = [listener EXCEPT !.pc = "place"]
    /\ UNCHANGED <<sent, linked, rich, once, keyFile, processed, savedHashes, accepted, overtaken>>

RejectLink ==
    /\ At("answer") /\ listener.batch # <<>>
    /\ ~Known /\ Sent.action = "link"
    /\ Done(TRUE, FALSE)
    /\ UNCHANGED <<sent, linked, rich, once, keyFile, savedHashes, accepted, overtaken>>

(* No node answers, or the file cannot be written: the next poll tries again. *)
RetryLater ==
    /\ listener.batch # <<>>
    /\ \/ At("place")
       \/ At("answer") /\ ~Known /\ Sent.action = "link"
    /\ Done(FALSE, FALSE)
    /\ UNCHANGED <<sent, linked, rich, once, keyFile, savedHashes, accepted, overtaken>>

SlotsFull == Cardinality(ActiveSlots \ {Sent.sender}) >= MaxSlots

PlaceKey ==
    /\ At("place") /\ ~SlotsFull
    /\ keyFile' = [keyFile EXCEPT ![Sent.sender] = Sent.key]
    /\ accepted' = [accepted EXCEPT ![Sent.sender] =
                        IF Confirmed(Sent.sender, Sent.key) THEN Item ELSE 0]
    /\ NoteOrder
    /\ Done(TRUE, TRUE)
    /\ UNCHANGED <<sent, linked, rich, once, savedHashes>>

NoSlot ==
    /\ At("place") /\ SlotsFull
    /\ Done(TRUE, FALSE)
    /\ UNCHANGED <<sent, linked, rich, once, keyFile, savedHashes, accepted, overtaken>>

(* saveState: if there are too many, whichever the map's order leaves. *)
Saved ==
    {S \in SUBSET processed : IF Cardinality(processed) > MaxSaved
                              THEN Cardinality(S) = MaxSaved ELSE S = processed}

EndPoll ==
    /\ At("answer") /\ listener.batch = <<>>
    /\ savedHashes' \in IF listener.changed THEN Saved ELSE {savedHashes}
    /\ listener' = Sleeping
    /\ UNCHANGED <<sent, linked, rich, once, keyFile, processed, accepted, overtaken>>
-----------------------------------------------------------------------------
(* The sweep. *)

SweepStaleDelegatedKeys ==
    /\ At("sleep") /\ ActiveSlots # {}
    /\ listener' = [listener EXCEPT !.pc = "sweep", !.files = ActiveSlots]
    /\ UNCHANGED <<sent, linked, rich, once, keyFile, processed, savedHashes, accepted, overtaken>>

(* Mutant: an account that no node knows of is not linked. *)
SweepUnanswered(n) ==
    /\ At("sweep") /\ listener.stale = {} /\ n \in listener.files
    /\ listener' = [listener EXCEPT !.files = @ \ {n}, !.stale = {n}]
    /\ UNCHANGED <<sent, linked, rich, once, keyFile, processed, savedHashes, accepted, overtaken>>

(* The file's name is the account that is asked for: no node knows a label. *)
(* A node that answers denies the link, because it is no more, or because   *)
(* the node is behind.                                                      *)
SweepStale(n) ==
    /\ At("sweep") /\ listener.stale = {} /\ n \in listener.files \ {Label}
    /\ keyFile[n] # NoKey
    /\ listener' = [listener EXCEPT !.files = @ \ {n}, !.stale = {n}]
    /\ accepted' = [accepted EXCEPT ![n] = 0]
    /\ UNCHANGED <<sent, linked, rich, once, keyFile, processed, savedHashes, overtaken>>

(* The account is confirmed, no node answers, or the file is gone. *)
SweepKeeps(n) ==
    /\ At("sweep") /\ listener.stale = {} /\ n \in listener.files
    /\ listener' = [listener EXCEPT !.files = @ \ {n}]
    /\ UNCHANGED <<sent, linked, rich, once, keyFile, processed, savedHashes, accepted, overtaken>>

Prune(n) ==
    /\ At("sweep") /\ n \in listener.stale
    /\ keyFile' = [keyFile EXCEPT ![n] = NoKey]
    /\ listener' = [listener EXCEPT !.stale = {}]
    /\ UNCHANGED <<sent, linked, rich, once, processed, savedHashes, accepted, overtaken>>

EndSweep ==
    /\ At("sweep") /\ listener.files = {} /\ listener.stale = {}
    /\ listener' = Sleeping
    /\ UNCHANGED <<sent, linked, rich, once, keyFile, processed, savedHashes, accepted, overtaken>>
-----------------------------------------------------------------------------
(* The manager's handlers, and the end of the process. *)

(* A request may force a key; else some account must be linked to it. *)
AddByHand(n, k) ==
    /\ keyFile' = [keyFile EXCEPT ![n] = k]
    /\ accepted' = IF n \in Sender THEN [accepted EXCEPT ![n] = 0] ELSE accepted
    /\ UNCHANGED <<sent, linked, rich, once, processed, savedHashes, listener, overtaken>>

RemoveByHand(n) ==
    /\ keyFile[n] # NoKey
    /\ keyFile' = [keyFile EXCEPT ![n] = NoKey]
    /\ accepted' = IF n \in Sender THEN [accepted EXCEPT ![n] = 0] ELSE accepted
    /\ UNCHANGED <<sent, linked, rich, once, processed, savedHashes, listener, overtaken>>

(* Stop saves what was processed once the loop has ended; a crash loses     *)
(* what was not saved.                                                      *)
StopAndStart ==
    /\ At("sleep")
    /\ savedHashes' \in Saved /\ processed' = savedHashes'
    /\ UNCHANGED <<sent, linked, rich, once, keyFile, listener, accepted, overtaken>>

CrashAndStart ==
    /\ processed' = savedHashes
    /\ listener' = Sleeping
    /\ UNCHANGED <<sent, linked, rich, once, keyFile, savedHashes, accepted, overtaken>>

Next ==
    \/ CheckIncomingTransactions \/ SkipItem \/ Unlink \/ ConfirmLink \/ RejectLink
    \/ RetryLater \/ PlaceKey \/ NoSlot \/ EndPoll
    \/ SweepStaleDelegatedKeys \/ EndSweep \/ StopAndStart \/ CrashAndStart
    \/ \E n \in Name : SweepStale(n) \/ SweepKeeps(n) \/ Prune(n) \/ RemoveByHand(n)
    \/ \E n \in Name, k \in RemoteKey : AddByHand(n, k)
    \/ \E s \in Sender : ChangeBalance(s) \/ \E k \in KeyOrNone : ChangeLink(s, k)
    \/ \E t \in Transaction : Send(t)

Spec == Init /\ [][Next]_vars
-----------------------------------------------------------------------------
TypeOK ==
    /\ Len(sent) <= MaxSent /\ \A i \in DOMAIN sent : sent[i] \in Transaction
    /\ linked \in [Sender -> KeyOrNone] /\ rich \subseteq Sender
    /\ once \in [Sender -> SUBSET RemoteKey]
    /\ keyFile \in [Name -> KeyOrNone]
    /\ processed \subseteq DOMAIN sent /\ savedHashes \subseteq DOMAIN sent
    /\ listener.pc \in {"sleep", "answer", "place", "sweep"}
    /\ Range(listener.batch) \subseteq DOMAIN sent /\ listener.changed \in BOOLEAN
    /\ listener.files \cup listener.stale \subseteq Name
    /\ accepted \in [Sender -> Tx \cup {0}] /\ overtaken \subseteq Sender

KeyInPlace(s) == accepted[s] # 0 => keyFile[s] = sent[accepted[s]].key

(* A key that was placed stays as long as the chain confirms the account,   *)
(* its owner sends no later unlink and nobody removes it by hand: no poll,  *)
(* sweep, restart or crash takes it away, unless the sender's transactions  *)
(* were answered out of order, or the API node that the sweep asked first   *)
(* was behind and denied the link (delegation_listener.go:562-608).         *)
AcceptedKeyStays == \A s \in Sender \ overtaken : KeyInPlace(s)

(* "When external stakers delegate to your node [...], keys are validated,  *)
(* written to delegated_keys/" (addon/DOCS.md:35): a link that was the last *)
(* thing a sender asked for, and that was validated, is in its place.       *)
DelegatedKeyPlaced == \A s \in Sender : KeyInPlace(s)
=============================================================================
