----------------------- MODULE DelegationListenerProofs -----------------------
(***************************************************************************)
(* Proof that the key of a confirmed delegation stays in its file, for any *)
(* number of senders, keys and slots and any page size.  What carries it:  *)
(* the sweep decides on an account before it removes the file, but a key   *)
(* that is placed in between needs the listener, which is busy sweeping.   *)
(***************************************************************************)
EXTENDS DelegationListener, SequenceTheorems, TLAPS

Number == 1..Len(sent)

Typed ==
    /\ sent \in Seq(Transaction)
    /\ linked \in [Sender -> KeyOrNone]
    /\ keyFile \in [Name -> KeyOrNone]
    /\ accepted \in [Sender -> Nat]
    /\ listener \in [pc : {"sleep", "answer", "place", "sweep"}, batch : Seq(Number),
                     changed : BOOLEAN, files : SUBSET Name, stale : SUBSET Name]

(* The listener places the key of a link, and sweeps only while it sweeps. *)
ListenerKnows ==
    /\ At("place") => listener.batch # <<>> /\ Sent.action = "link"
    /\ ~At("sweep") => listener.stale = {}

(* A key that was placed is that of a link, which the chain still confirms; *)
(* the sweep has not decided against it: no node has denied the link.       *)
StillGood(s) ==
    LET t == accepted[s]
    IN  /\ t \in Number /\ sent[t].action = "link"
        /\ keyFile[s] = sent[t].key /\ Confirmed(s, sent[t].key)
        /\ s \notin listener.stale

AcceptedIsGood == \A s \in Sender \ overtaken : accepted[s] # 0 => StillGood(s)

(* The page size is a number. *)
PageIsNumber == PageSize \in Nat

IInv == PageIsNumber /\ Typed /\ ListenerKnows /\ AcceptedIsGood
-----------------------------------------------------------------------------
LEMMA InitIInv == PageIsNumber /\ Init => IInv
<1> SUFFICES ASSUME PageIsNumber, Init PROVE IInv
    OBVIOUS
<1>1. Sleeping \in [pc : {"sleep", "answer", "place", "sweep"}, batch : Seq(Number),
                    changed : BOOLEAN, files : SUBSET Name, stale : SUBSET Name]
    BY DEF Sleeping
<1>2. Typed
    BY <1>1 DEF Init, Typed, KeyOrNone
<1>3. ListenerKnows /\ AcceptedIsGood
    BY DEF Init, Sleeping, ListenerKnows, AcceptedIsGood, At
<1> QED BY <1>2, <1>3 DEF IInv

LEMMA NewestFirstType ==
    ASSUME NEW n \in Nat, NEW low \in Nat \ {0}, NEW high \in 0..n
    PROVE  NewestFirst(low, high) \in Seq(1..n)
<1>1. CASE low <= high
    <2>1. high + 1 - low \in Nat /\ \A i \in 1..(high + 1 - low) : high + 1 - i \in 1..n
        BY <1>1
    <2> QED BY <1>1, <2>1 DEF NewestFirst
<1>2. CASE ~(low <= high)
    BY <1>2 DEF NewestFirst
<1> QED BY <1>1, <1>2

(* What two nodes answer are transactions that were sent. *)
LEMMA AnswerType ==
    ASSUME PageIsNumber, NEW k \in Nat, NEW n \in 0..k, NEW m \in 0..k
    PROVE  Page(n) \o More(n, m) \in Seq(1..k)
<1>1. \A j \in 0..k : Oldest(j) \in Nat \ {0}
    BY DEF Oldest, PageIsNumber
<1>2. Page(n) \in Seq(1..k)
    BY <1>1, NewestFirstType DEF Page
<1>3. More(n, m) \in Seq(1..k)
    <2>1. CASE m > n
        <3>1. (IF Oldest(m) > n THEN Oldest(m) ELSE n + 1) \in Nat \ {0}
            BY <1>1
        <3> QED BY <2>1, <3>1, NewestFirstType DEF More
    <2>2. CASE ~(m > n)
        <3>1. (IF m < Oldest(n) THEN m ELSE Oldest(n) - 1) \in 0..k
            BY <1>1, <2>2
        <3> QED BY <1>1, <2>2, <3>1, NewestFirstType DEF More
    <2> QED BY <2>1, <2>2
<1> QED BY <1>2, <1>3, ConcatProperties

(* The first item of a batch is a transaction that was sent; the others are. *)
LEMMA ItemType ==
    ASSUME Typed, listener.batch # <<>>
    PROVE  /\ Item \in Number /\ Sent \in Transaction /\ Sent.sender \in Sender
           /\ Sent.sender \in Name /\ Sent.key \in KeyOrNone
           /\ Tail(listener.batch) \in Seq(Number)
<1>1. listener.batch \in Seq(Number)
    BY DEF Typed
<1>2. Item \in Number /\ Tail(listener.batch) \in Seq(Number)
    BY <1>1, HeadTailProperties DEF Item
<1>3. Sent \in Transaction
    BY <1>2, ElementOfSeq DEF Sent, Typed, Number
<1> QED BY <1>2, <1>3 DEF Transaction, Name, KeyOrNone

(* The listener turns to the next item. *)
LEMMA DoneEffect ==
    ASSUME IInv, listener.batch # <<>>, NEW mark, NEW changed \in BOOLEAN, Done(mark, changed), sent' = sent,
           At("answer") \/ At("place")
    PROVE  /\ listener' \in [pc : {"sleep", "answer", "place", "sweep"}, batch : Seq(Number),
                             changed : BOOLEAN, files : SUBSET Name, stale : SUBSET Name]
           /\ listener'.pc = "answer" /\ listener'.stale = {} /\ listener.stale = {}
           /\ ListenerKnows' /\ Number' = Number
<1>1. Tail(listener.batch) \in Seq(Number)
    BY ItemType DEF IInv
<1>2. listener.stale = {}
    BY DEF IInv, ListenerKnows, At
<1>3. listener' = [listener EXCEPT !.pc = "answer", !.batch = Tail(listener.batch),
                                   !.changed = listener.changed \/ changed]
    BY DEF Done
<1>4. (listener.changed \/ changed) \in BOOLEAN
    BY DEF IInv, Typed
<1>5. /\ listener' \in [pc : {"sleep", "answer", "place", "sweep"}, batch : Seq(Number),
                        changed : BOOLEAN, files : SUBSET Name, stale : SUBSET Name]
      /\ listener'.pc = "answer" /\ listener'.stale = listener.stale
    BY <1>1, <1>3, <1>4 DEF IInv, Typed
<1> QED BY <1>2, <1>5 DEF ListenerKnows, At, Number
-----------------------------------------------------------------------------
(* The chain. *)

LEMMA ChainStep ==
    ASSUME IInv, NEW s \in Sender, ChangeBalance(s) \/ \E k \in KeyOrNone : ChangeLink(s, k)
    PROVE  IInv'
<1> USE DEF IInv
<1>1. UNCHANGED <<sent, keyFile, processed, savedHashes, listener, overtaken>>
    BY DEF ChangeBalance, ChangeLink
<1>2. accepted' = [accepted EXCEPT ![s] = 0]
    BY DEF ChangeBalance, ChangeLink
<1>3. /\ linked' \in [Sender -> KeyOrNone]
      /\ \A r \in Sender \ {s} : \A k : Confirmed(r, k) => Confirmed(r, k)'
    BY DEF ChangeBalance, ChangeLink, Confirmed, Typed
<1>4. Typed' /\ ListenerKnows'
    BY <1>1, <1>2, <1>3 DEF Typed, ListenerKnows, Number, At, Sent, Item
<1>5. AcceptedIsGood'
    <2> SUFFICES ASSUME NEW r \in Sender \ overtaken, accepted'[r] # 0 PROVE StillGood(r)'
        BY <1>1 DEF AcceptedIsGood
    <2>1. r # s /\ accepted'[r] = accepted[r]
        BY <1>2 DEF Typed
    <2>2. StillGood(r)
        BY <2>1 DEF AcceptedIsGood
    <2> QED BY <1>1, <1>3, <2>1, <2>2 DEF StillGood, Number
<1> QED BY <1>4, <1>5

LEMMA SendStep ==
    ASSUME IInv, NEW t \in Transaction, Send(t) PROVE IInv'
<1> USE DEF IInv
<1>1. sent' = Append(sent, t)
      /\ UNCHANGED <<linked, rich, keyFile, processed, savedHashes, listener, accepted, overtaken>>
    BY DEF Send
<1>2. /\ sent' \in Seq(Transaction) /\ Len(sent') = Len(sent) + 1 /\ Len(sent) \in Nat
      /\ \A i \in Number : sent'[i] = sent[i]
    BY <1>1, AppendProperties, LenProperties DEF Typed, Number
<1>3. Number \subseteq Number'
    BY <1>2 DEF Number
<1>4. Typed'
    <2>1. Seq(Number) \subseteq Seq(Number')
        BY <1>3
    <2> QED BY <1>1, <1>2, <2>1 DEF Typed
<1>5. ListenerKnows'
    <2>1. CASE At("place")
        <3>1. Sent' = Sent
            BY <1>1, <1>2, <2>1, ItemType DEF ListenerKnows, Sent, Item
        <3> QED BY <1>1, <2>1, <3>1 DEF ListenerKnows, At
    <2>2. CASE ~At("place")
        BY <1>1, <2>2 DEF ListenerKnows, At
    <2> QED BY <2>1, <2>2
<1>6. AcceptedIsGood'
    BY <1>1, <1>2, <1>3 DEF AcceptedIsGood, StillGood, Confirmed
<1> QED BY <1>4, <1>5, <1>6
-----------------------------------------------------------------------------
(* The poll. *)

(* A step that changes the listener, or what was processed, and nothing     *)
(* that AcceptedIsGood is about.                                            *)
LEMMA ListenerMoves ==
    ASSUME IInv, UNCHANGED <<sent, linked, rich, keyFile, accepted, overtaken>>,
           listener' \in [pc : {"sleep", "answer", "place", "sweep"}, batch : Seq(Number),
                          changed : BOOLEAN, files : SUBSET Name, stale : SUBSET Name],
           ListenerKnows',
           \A s \in listener'.stale \ listener.stale :
               s \in Sender \ overtaken /\ accepted[s] # 0 => keyFile[s] # sent[accepted[s]].key
    PROVE  IInv'
<1> USE DEF IInv
<1>1. Typed'
    BY DEF Typed, Number
<1>2. AcceptedIsGood'
    <2> SUFFICES ASSUME NEW s \in Sender \ overtaken, accepted[s] # 0 PROVE StillGood(s)'
        BY DEF AcceptedIsGood
    <2>1. StillGood(s)
        BY DEF AcceptedIsGood
    <2>2. s \notin listener'.stale
        BY <2>1 DEF StillGood
    <2> QED BY <2>1, <2>2 DEF StillGood, Number, Confirmed
<1> QED BY <1>1, <1>2

LEMMA PollStep ==
    ASSUME IInv, \/ CheckIncomingTransactions \/ SkipItem \/ ConfirmLink \/ RejectLink
                 \/ RetryLater \/ NoSlot \/ EndPoll
    PROVE  IInv'
<1> USE DEF IInv
<1> DEFINE Rec == [pc : {"sleep", "answer", "place", "sweep"}, batch : Seq(Number),
                   changed : BOOLEAN, files : SUBSET Name, stale : SUBSET Name]
<1>0. UNCHANGED <<sent, linked, rich, keyFile, accepted, overtaken>>
    BY DEF CheckIncomingTransactions, SkipItem, ConfirmLink, RejectLink, RetryLater, NoSlot, EndPoll
<1>1. CASE CheckIncomingTransactions
    <2>1. PICK n \in 0..Len(sent), m \in 0..Len(sent) :
              listener' = [listener EXCEPT !.pc = "answer", !.changed = FALSE, !.batch = Page(n) \o More(n, m)]
        BY <1>1 DEF CheckIncomingTransactions
    <2>2. Page(n) \o More(n, m) \in Seq(Number)
        BY AnswerType, LenProperties DEF Number, Typed
    <2>3. listener' \in Rec /\ listener'.pc = "answer" /\ listener'.stale = listener.stale
        BY <2>1, <2>2 DEF Typed
    <2>4. ListenerKnows'
        BY <1>1, <2>3 DEF CheckIncomingTransactions, ListenerKnows, At
    <2> QED BY <1>0, <2>3, <2>4, ListenerMoves
<1>2. CASE SkipItem \/ RejectLink \/ RetryLater \/ NoSlot
    <2>1. listener.batch # <<>> /\ (At("answer") \/ At("place"))
        BY <1>2 DEF SkipItem, RejectLink, RetryLater, NoSlot, ListenerKnows
    <2>2. \E mark \in {TRUE, FALSE, ~Known} : Done(mark, FALSE)
        BY <1>2 DEF SkipItem, RejectLink, RetryLater, NoSlot
    <2>3. listener' \in Rec /\ listener'.stale = {} /\ ListenerKnows'
        BY <1>0, <2>1, <2>2, DoneEffect
    <2> QED BY <1>0, <2>3, ListenerMoves
<1>3. CASE ConfirmLink
    <2>1. listener' = [listener EXCEPT !.pc = "place"] /\ At("answer")
        BY <1>3 DEF ConfirmLink
    <2>2. listener' \in Rec /\ listener'.pc = "place" /\ listener'.stale = listener.stale
          /\ listener'.batch = listener.batch
        BY <2>1 DEF Typed
    <2>3. ListenerKnows'
        BY <1>0, <1>3, <2>1, <2>2 DEF ConfirmLink, ListenerKnows, At, Sent, Item
    <2> QED BY <1>0, <2>2, <2>3, ListenerMoves
<1>4. CASE EndPoll
    <2>1. listener' = Sleeping
        BY <1>4 DEF EndPoll
    <2>2. listener' \in Rec /\ listener'.stale = {} /\ listener'.pc = "sleep"
        BY <2>1 DEF Sleeping
    <2> QED BY <1>0, <2>2, ListenerMoves DEF ListenerKnows, At
<1> QED BY <1>1, <1>2, <1>3, <1>4

LEMMA UnlinkStep ==
    ASSUME IInv, Unlink PROVE IInv'
<1> USE DEF IInv
<1> DEFINE s == Sent.sender
<1>1. /\ listener.batch # <<>> /\ At("answer") /\ Sent.action = "unlink"
      /\ keyFile' = [keyFile EXCEPT ![s] = NoKey]
      /\ accepted' = [accepted EXCEPT ![s] = IF @ < Item THEN 0 ELSE @]
      /\ NoteOrder /\ Done(TRUE, TRUE)
      /\ UNCHANGED <<sent, linked, rich, savedHashes>>
    BY DEF Unlink
<1>2. s \in Sender /\ s \in Name /\ Item \in Number /\ Item \in Nat
    BY <1>1, ItemType DEF Number
<1>3. /\ listener' \in [pc : {"sleep", "answer", "place", "sweep"}, batch : Seq(Number),
                        changed : BOOLEAN, files : SUBSET Name, stale : SUBSET Name]
      /\ listener'.stale = {} /\ ListenerKnows' /\ Number' = Number
    BY <1>1, DoneEffect
<1>4. \A r \in Sender \ {s} : accepted'[r] = accepted[r] /\ keyFile'[r] = keyFile[r]
    BY <1>1 DEF Typed, Name
<1>5. accepted'[s] \in {0, accepted[s]} /\ (accepted'[s] # 0 => accepted[s] >= Item)
    BY <1>1, <1>2 DEF Typed
<1>6. accepted' \in [Sender -> Nat]
    BY <1>1, <1>2, <1>5 DEF Typed
<1>7. keyFile' \in [Name -> KeyOrNone]
    BY <1>1 DEF Typed, KeyOrNone
<1>8. overtaken \subseteq overtaken' /\ (accepted[s] > Item => s \in overtaken')
    BY <1>1 DEF NoteOrder, Overtaking
<1>9. AcceptedIsGood'
    <2> SUFFICES ASSUME NEW r \in Sender, r \notin overtaken', accepted'[r] # 0 PROVE StillGood(r)'
        BY DEF AcceptedIsGood
    <2>1. r # s
        <3> SUFFICES ASSUME r = s PROVE FALSE
            OBVIOUS
        <3>1. accepted[s] = Item /\ accepted[s] # 0 /\ s \notin overtaken
            BY <1>2, <1>5, <1>8 DEF Typed
        <3>2. sent[accepted[s]].action = "link"
            BY <1>2, <3>1 DEF AcceptedIsGood, StillGood
        <3> QED BY <1>1, <3>1, <3>2 DEF Sent
    <2>2. StillGood(r) /\ accepted'[r] = accepted[r] /\ keyFile'[r] = keyFile[r]
        BY <1>4, <1>8, <2>1 DEF AcceptedIsGood
    <2> QED BY <1>1, <1>3, <2>2 DEF StillGood, Confirmed
<1> QED BY <1>1, <1>3, <1>6, <1>7, <1>9 DEF Typed

LEMMA PlaceKeyStep ==
    ASSUME IInv, PlaceKey PROVE IInv'
<1> USE DEF IInv
<1> DEFINE s == Sent.sender
<1>1. /\ listener.batch # <<>> /\ At("place") /\ Sent.action = "link"
      /\ keyFile' = [keyFile EXCEPT ![s] = Sent.key]
      /\ accepted' = [accepted EXCEPT ![s] = IF Confirmed(s, Sent.key) THEN Item ELSE 0]
      /\ NoteOrder /\ Done(TRUE, TRUE)
      /\ UNCHANGED <<sent, linked, rich, savedHashes>>
    BY DEF PlaceKey, ListenerKnows
<1>2. s \in Sender /\ s \in Name /\ Item \in Number /\ Item \in Nat /\ Sent.key \in KeyOrNone
    BY <1>1, ItemType DEF Number
<1>3. /\ listener' \in [pc : {"sleep", "answer", "place", "sweep"}, batch : Seq(Number),
                        changed : BOOLEAN, files : SUBSET Name, stale : SUBSET Name]
      /\ listener'.stale = {} /\ ListenerKnows' /\ Number' = Number
    BY <1>1, DoneEffect
<1>4. \A r \in Sender \ {s} : accepted'[r] = accepted[r] /\ keyFile'[r] = keyFile[r]
    BY <1>1 DEF Typed, Name
<1>5. /\ accepted'[s] = (IF Confirmed(s, Sent.key) THEN Item ELSE 0)
      /\ keyFile'[s] = Sent.key
    BY <1>1, <1>2 DEF Typed
<1>6. accepted' \in [Sender -> Nat] /\ keyFile' \in [Name -> KeyOrNone]
    BY <1>1, <1>2 DEF Typed
<1>7. overtaken \subseteq overtaken'
    BY <1>1 DEF NoteOrder
<1>8. AcceptedIsGood'
    <2> SUFFICES ASSUME NEW r \in Sender, r \notin overtaken', accepted'[r] # 0 PROVE StillGood(r)'
        BY DEF AcceptedIsGood
    <2>1. CASE r = s
        <3>1. accepted'[s] = Item /\ Confirmed(s, Sent.key)
            BY <1>5, <2>1
        <3> QED BY <1>1, <1>2, <1>3, <1>5, <2>1, <3>1 DEF StillGood, Confirmed, Sent
    <2>2. CASE r # s
        <3>1. StillGood(r) /\ accepted'[r] = accepted[r] /\ keyFile'[r] = keyFile[r]
            BY <1>4, <1>7, <2>2 DEF AcceptedIsGood
        <3> QED BY <1>1, <1>3, <3>1 DEF StillGood, Confirmed
    <2> QED BY <2>1, <2>2
<1> QED BY <1>1, <1>3, <1>6, <1>8 DEF Typed
-----------------------------------------------------------------------------
(* The sweep, the handlers and the end of the process. *)

LEMMA SweepStep ==
    ASSUME IInv, \/ SweepStaleDelegatedKeys \/ EndSweep \/ StopAndStart \/ CrashAndStart
                 \/ \E n \in Name : SweepStale(n) \/ SweepKeeps(n)
    PROVE  IInv'
<1> USE DEF IInv
<1> DEFINE Rec == [pc : {"sleep", "answer", "place", "sweep"}, batch : Seq(Number),
                   changed : BOOLEAN, files : SUBSET Name, stale : SUBSET Name]
<1>0. ASSUME \/ SweepStaleDelegatedKeys \/ EndSweep \/ StopAndStart \/ CrashAndStart
             \/ \E n \in Name : SweepKeeps(n)
      PROVE  UNCHANGED <<sent, linked, rich, keyFile, accepted, overtaken>>
    BY <1>0 DEF SweepStaleDelegatedKeys, EndSweep, StopAndStart, CrashAndStart, SweepKeeps
<1>1. CASE SweepStaleDelegatedKeys
    <2>1. listener' = [listener EXCEPT !.pc = "sweep", !.files = ActiveSlots] /\ ActiveSlots \subseteq Name
        BY <1>1 DEF SweepStaleDelegatedKeys, ActiveSlots
    <2>2. listener' \in Rec /\ listener'.pc = "sweep" /\ listener'.stale = listener.stale
        BY <2>1 DEF Typed
    <2> QED BY <1>0, <1>1, <2>2, ListenerMoves DEF ListenerKnows, At
<1>2. CASE EndSweep \/ CrashAndStart
    <2>1. listener' = Sleeping
        BY <1>2 DEF EndSweep, CrashAndStart
    <2>2. listener' \in Rec /\ listener'.stale = {} /\ listener'.pc = "sleep"
        BY <2>1 DEF Sleeping
    <2> QED BY <1>0, <1>2, <2>2, ListenerMoves DEF ListenerKnows, At
<1>3. CASE StopAndStart
    <2>1. listener' = listener
        BY <1>3 DEF StopAndStart
    <2>2. ListenerKnows'
        BY <1>0, <1>3, <2>1 DEF ListenerKnows, At, Sent, Item
    <2> QED BY <1>0, <1>3, <2>1, <2>2, ListenerMoves DEF Typed
(* A node denies the link: the key of this account may go. *)
<1>4. ASSUME NEW n \in Name, SweepStale(n) PROVE IInv'
    <2>1. /\ At("sweep")
          /\ listener' = [listener EXCEPT !.files = @ \ {n}, !.stale = {n}]
          /\ accepted' = [accepted EXCEPT ![n] = 0]
          /\ UNCHANGED <<sent, linked, rich, keyFile, overtaken>>
        BY <1>4 DEF SweepStale
    <2>2. listener' \in Rec /\ listener'.pc = "sweep" /\ listener'.stale = {n}
        BY <2>1 DEF Typed, At
    <2>3. ListenerKnows'
        BY <2>2 DEF ListenerKnows, At
    <2>4. Typed'
        BY <2>1, <2>2 DEF Typed, Number
    <2>5. AcceptedIsGood'
        <3> SUFFICES ASSUME NEW s \in Sender \ overtaken, accepted'[s] # 0 PROVE StillGood(s)'
            BY <2>1 DEF AcceptedIsGood
        <3>1. s # n /\ accepted'[s] = accepted[s]
            BY <2>1 DEF Typed
        <3>2. StillGood(s)
            BY <3>1 DEF AcceptedIsGood
        <3> QED BY <2>1, <2>2, <3>1, <3>2 DEF StillGood, Number, Confirmed
    <2> QED BY <2>3, <2>4, <2>5
<1>5. ASSUME NEW n \in Name, SweepKeeps(n) PROVE IInv'
    <2>1. At("sweep") /\ listener' = [listener EXCEPT !.files = @ \ {n}]
        BY <1>5 DEF SweepKeeps
    <2>2. listener' \in Rec /\ listener'.pc = "sweep" /\ listener'.stale = listener.stale
        BY <2>1 DEF Typed, At
    <2> QED BY <1>0, <1>5, <2>2, ListenerMoves DEF ListenerKnows, At
<1> QED BY <1>1, <1>2, <1>3, <1>4, <1>5

LEMMA PruneStep ==
    ASSUME IInv, NEW n \in Name, Prune(n) PROVE IInv'
<1> USE DEF IInv
<1>1. /\ At("sweep") /\ n \in listener.stale
      /\ keyFile' = [keyFile EXCEPT ![n] = NoKey]
      /\ listener' = [listener EXCEPT !.stale = {}]
      /\ UNCHANGED <<sent, linked, rich, processed, savedHashes, accepted, overtaken>>
    BY DEF Prune
<1>2. /\ listener' \in [pc : {"sleep", "answer", "place", "sweep"}, batch : Seq(Number),
                        changed : BOOLEAN, files : SUBSET Name, stale : SUBSET Name]
      /\ listener'.pc = "sweep" /\ listener'.stale = {}
    BY <1>1 DEF Typed, At
<1>3. Typed' /\ ListenerKnows'
    BY <1>1, <1>2 DEF Typed, KeyOrNone, Number, ListenerKnows, At
<1>4. AcceptedIsGood'
    <2> SUFFICES ASSUME NEW s \in Sender \ overtaken, accepted[s] # 0 PROVE StillGood(s)'
        BY <1>1 DEF AcceptedIsGood
    <2>1. StillGood(s)
        BY DEF AcceptedIsGood
    <2>2. s # n
        BY <1>1, <2>1 DEF StillGood
    <2>3. keyFile'[s] = keyFile[s]
        BY <1>1, <2>2 DEF Typed, Name
    <2> QED BY <1>1, <1>2, <2>1, <2>3 DEF StillGood, Number, Confirmed
<1> QED BY <1>3, <1>4

LEMMA ByHandStep ==
    ASSUME IInv, NEW n \in Name, RemoveByHand(n) \/ \E k \in RemoteKey : AddByHand(n, k) PROVE IInv'
<1> USE DEF IInv
<1>1. PICK k \in KeyOrNone :
          /\ keyFile' = [keyFile EXCEPT ![n] = k]
          /\ accepted' = IF n \in Sender THEN [accepted EXCEPT ![n] = 0] ELSE accepted
          /\ UNCHANGED <<sent, linked, rich, processed, savedHashes, listener, overtaken>>
    BY DEF RemoveByHand, AddByHand, KeyOrNone
<1>2. Typed' /\ ListenerKnows'
    BY <1>1 DEF Typed, Number, ListenerKnows, At, Sent, Item
<1>3. AcceptedIsGood'
    <2> SUFFICES ASSUME NEW s \in Sender \ overtaken, accepted'[s] # 0 PROVE StillGood(s)'
        BY <1>1 DEF AcceptedIsGood
    <2>1. s # n
        BY <1>1 DEF Typed
    <2>2. accepted'[s] = accepted[s] /\ keyFile'[s] = keyFile[s]
        BY <1>1, <2>1 DEF Typed, Name
    <2>3. StillGood(s)
        BY <2>2 DEF AcceptedIsGood
    <2> QED BY <1>1, <2>2, <2>3 DEF StillGood, Number, Confirmed
<1> QED BY <1>2, <1>3
-----------------------------------------------------------------------------
LEMMA StepIInv == IInv /\ [Next]_vars => IInv'
<1> SUFFICES ASSUME IInv, [Next]_vars PROVE IInv'
    OBVIOUS
<1>1. CASE UNCHANGED vars
    BY <1>1 DEF vars, IInv, Typed, Number, ListenerKnows, At, Sent, Item, AcceptedIsGood, StillGood, Confirmed
<1> QED BY <1>1, ChainStep, SendStep, PollStep, UnlinkStep, PlaceKeyStep, SweepStep, PruneStep, ByHandStep
        DEF Next

(* For any number of senders, keys, slots and saved hashes, and any page    *)
(* size: no poll, sweep, restart or crash takes away the key of a           *)
(* delegation that the chain confirms, unless the sender's transactions     *)
(* were answered out of order or an API node that was behind denied the     *)
(* link (delegation_listener.go, 327-668).                                  *)
THEOREM KeyStays == PageIsNumber /\ Spec => []AcceptedKeyStays
<1>1. IInv => AcceptedKeyStays
    BY DEF IInv, AcceptedIsGood, StillGood, AcceptedKeyStays, KeyInPlace
<1> QED BY <1>1, InitIInv, StepIInv, PTL DEF Spec
-----------------------------------------------------------------------------
(* Typing of the rest.  The bound on the transactions is a number.          *)
SentIsNumber == MaxSent \in Nat

(* Hashes and history are of transactions that were sent. *)
BooksFit ==
    /\ SentIsNumber
    /\ Len(sent) <= MaxSent /\ rich \subseteq Sender /\ overtaken \subseteq Sender
    /\ once \in [Sender -> SUBSET RemoteKey]
    /\ processed \subseteq Number /\ savedHashes \subseteq Number
    /\ \A s \in Sender : accepted[s] \in Number \cup {0}

LEMMA InitBooks == SentIsNumber /\ Init => BooksFit
BY DEF SentIsNumber, Init, BooksFit

LEMMA SavedType == ASSUME NEW S \in Saved PROVE S \subseteq processed
BY DEF Saved

(* No transaction is unsent, and a mark is set for one that was sent. *)
LEMMA DoneBooks ==
    ASSUME IInv, BooksFit, listener.batch # <<>>, NEW mark, NEW changed, Done(mark, changed),
           UNCHANGED <<sent, rich, once, savedHashes>>, overtaken' \subseteq Sender,
           \A s \in Sender : accepted'[s] \in {accepted[s], 0, Item}
    PROVE  BooksFit'
<1>1. Item \in Number
    BY ItemType DEF IInv
<1>2. Number' = Number /\ processed' \subseteq processed \cup {Item}
    BY DEF Number, Done
<1> QED BY <1>1, <1>2 DEF BooksFit

LEMMA NoteOrderType ==
    ASSUME IInv, BooksFit, listener.batch # <<>>, NoteOrder PROVE overtaken' \subseteq Sender
BY ItemType DEF IInv, BooksFit, NoteOrder

LEMMA BooksStep == IInv /\ BooksFit /\ [Next]_vars => BooksFit'
<1> SUFFICES ASSUME IInv, BooksFit, [Next]_vars PROVE BooksFit'
    OBVIOUS
<1>t. linked \in [Sender -> KeyOrNone] /\ accepted \in [Sender -> Nat]
    BY DEF IInv, Typed
(* Where nothing but accepted changes, and that to zero. *)
<1>u. ASSUME UNCHANGED <<sent, processed, savedHashes, overtaken>>, rich' \subseteq Sender,
             once' \in [Sender -> SUBSET RemoteKey],
             \A s \in Sender : accepted'[s] \in {accepted[s], 0}
      PROVE  BooksFit'
    BY <1>u DEF BooksFit, Number
<1>n. ASSUME UNCHANGED <<sent, processed, savedHashes, overtaken, rich, once, accepted>> PROVE BooksFit'
    BY <1>n DEF BooksFit, Number
<1>k. \A s \in Sender : accepted[s] \in {accepted[s], 0, Item}
    OBVIOUS
<1>1. CASE CheckIncomingTransactions
    BY <1>1, <1>n DEF CheckIncomingTransactions
<1>2. CASE SkipItem
    <2>1. PICK mark, changed : Done(mark, changed)
        BY <1>2 DEF SkipItem
    <2> QED BY <1>2, <1>k, <2>1, DoneBooks DEF SkipItem, BooksFit
<1>3. CASE Unlink
    <2>1. PICK mark, changed : Done(mark, changed)
        BY <1>3 DEF Unlink
    <2>2. /\ listener.batch # <<>> /\ NoteOrder /\ UNCHANGED <<sent, rich, once, savedHashes>>
          /\ accepted' = [accepted EXCEPT ![Sent.sender] = IF @ < Item THEN 0 ELSE @]
        BY <1>3 DEF Unlink
    <2>3. \A s \in Sender : accepted'[s] \in {accepted[s], 0, Item}
        BY <1>t, <2>2
    <2> QED BY <2>1, <2>2, <2>3, NoteOrderType, DoneBooks
<1>4. CASE ConfirmLink
    BY <1>4, <1>n DEF ConfirmLink
<1>5. CASE RejectLink
    <2>1. PICK mark, changed : Done(mark, changed)
        BY <1>5 DEF RejectLink
    <2> QED BY <1>5, <1>k, <2>1, DoneBooks DEF RejectLink, BooksFit
<1>6. CASE RetryLater
    <2>1. PICK mark, changed : Done(mark, changed)
        BY <1>6 DEF RetryLater
    <2> QED BY <1>6, <1>k, <2>1, DoneBooks DEF RetryLater, BooksFit
<1>7. CASE PlaceKey
    <2>1. PICK mark, changed : Done(mark, changed)
        BY <1>7 DEF PlaceKey
    <2>2. /\ listener.batch # <<>> /\ NoteOrder /\ UNCHANGED <<sent, rich, once, savedHashes>>
          /\ accepted' = [accepted EXCEPT ![Sent.sender] =
                              IF Confirmed(Sent.sender, Sent.key) THEN Item ELSE 0]
        BY <1>7 DEF PlaceKey, IInv, ListenerKnows
    <2>3. \A s \in Sender : accepted'[s] \in {accepted[s], 0, Item}
        BY <1>t, <2>2
    <2> QED BY <2>1, <2>2, <2>3, NoteOrderType, DoneBooks
<1>8. CASE NoSlot
    <2>1. PICK mark, changed : Done(mark, changed)
        BY <1>8 DEF NoSlot
    <2>2. listener.batch # <<>>
        BY <1>8 DEF NoSlot, IInv, ListenerKnows
    <2> QED BY <1>8, <1>k, <2>1, <2>2, DoneBooks DEF NoSlot, BooksFit
<1>9. CASE EndPoll
    <2>1. savedHashes' \subseteq Number
        BY <1>9, SavedType DEF EndPoll, BooksFit
    <2> QED BY <1>9, <2>1 DEF EndPoll, BooksFit, Number
<1>10. CASE SweepStaleDelegatedKeys \/ EndSweep
    BY <1>10, <1>n DEF SweepStaleDelegatedKeys, EndSweep
<1>11. CASE StopAndStart
    <2>1. savedHashes' \subseteq Number
        BY <1>11, SavedType DEF StopAndStart, BooksFit
    <2> QED BY <1>11, <2>1 DEF StopAndStart, BooksFit, Number
<1>12. CASE CrashAndStart
    BY <1>12 DEF CrashAndStart, BooksFit, Number
<1>13. ASSUME NEW n \in Name, SweepStale(n) \/ SweepKeeps(n) \/ Prune(n) PROVE BooksFit'
    <2>1. CASE SweepStale(n)
        <3>1. /\ UNCHANGED <<sent, rich, once, processed, savedHashes, overtaken>>
              /\ accepted' = [accepted EXCEPT ![n] = 0]
            BY <2>1 DEF SweepStale
        <3>2. \A s \in Sender : accepted'[s] \in {accepted[s], 0}
            BY <1>t, <3>1
        <3>3. rich' \subseteq Sender /\ once' \in [Sender -> SUBSET RemoteKey]
            BY <3>1 DEF BooksFit
        <3> QED BY <1>u, <3>1, <3>2, <3>3
    <2>2. CASE SweepKeeps(n) \/ Prune(n)
        BY <2>2, <1>n DEF SweepKeeps, Prune
    <2> QED BY <1>13, <2>1, <2>2
<1>14. ASSUME NEW n \in Name, RemoveByHand(n) \/ \E k \in RemoteKey : AddByHand(n, k)
       PROVE  BooksFit'
    <2>1. /\ UNCHANGED <<sent, rich, once, processed, savedHashes, overtaken>>
          /\ accepted' = IF n \in Sender THEN [accepted EXCEPT ![n] = 0] ELSE accepted
        BY <1>14 DEF RemoveByHand, AddByHand
    <2>2. \A s \in Sender : accepted'[s] \in {accepted[s], 0}
        BY <1>t, <2>1
    <2>3. rich' \subseteq Sender /\ once' \in [Sender -> SUBSET RemoteKey]
        BY <2>1 DEF BooksFit
    <2> QED BY <1>u, <2>1, <2>2, <2>3
<1>15. ASSUME NEW r \in Sender, ChangeBalance(r) \/ \E k \in KeyOrNone : ChangeLink(r, k)
       PROVE  BooksFit'
    <2>1. /\ UNCHANGED <<sent, processed, savedHashes, overtaken>>
          /\ accepted' = [accepted EXCEPT ![r] = 0]
        BY <1>15 DEF ChangeBalance, ChangeLink
    <2>2. \A s \in Sender : accepted'[s] \in {accepted[s], 0}
        BY <1>t, <2>1
    <2>3. rich' \subseteq Sender
        BY <1>15 DEF ChangeBalance, ChangeLink, BooksFit
    <2>4. once' \in [Sender -> SUBSET RemoteKey]
        BY <1>15 DEF ChangeBalance, ChangeLink, NoteConfirmed, BooksFit
    <2> QED BY <1>u, <2>1, <2>2, <2>3, <2>4
<1>16. ASSUME NEW t \in Transaction, Send(t) PROVE BooksFit'
    <2>1. /\ Len(sent) \in Nat /\ Len(sent) < MaxSent /\ Len(sent') = Len(sent) + 1
          /\ UNCHANGED <<linked, rich, once, keyFile, processed, savedHashes, listener, accepted, overtaken>>
        BY <1>16, AppendProperties, LenProperties DEF Send, IInv, Typed
    <2>2. Number \subseteq Number'
        BY <2>1 DEF Number
    <2>3. Len(sent') <= MaxSent
        <3>1. \A m \in Nat : m < MaxSent => m + 1 <= MaxSent
            BY DEF BooksFit, SentIsNumber
        <3> QED BY <2>1, <3>1
    <2> QED BY <2>1, <2>2, <2>3 DEF BooksFit
<1>17. CASE UNCHANGED vars
    BY <1>17, <1>n DEF vars
<1> QED BY <1>1, <1>2, <1>3, <1>4, <1>5, <1>6, <1>7, <1>8, <1>9, <1>10, <1>11, <1>12, <1>13,
           <1>14, <1>15, <1>16, <1>17 DEF Next

LEMMA TypeFollows == IInv /\ BooksFit => TypeOK
<1> SUFFICES ASSUME IInv, BooksFit PROVE TypeOK
    OBVIOUS
<1>1. sent \in Seq(Transaction) /\ DOMAIN sent = Number
    BY DEF IInv, Typed, Number
<1>2. \A i \in DOMAIN sent : sent[i] \in Transaction
    BY <1>1, ElementOfSeq DEF Number
<1>3. /\ listener.pc \in {"sleep", "answer", "place", "sweep"} /\ listener.changed \in BOOLEAN
      /\ listener.files \cup listener.stale \subseteq Name /\ listener.batch \in Seq(Number)
    BY DEF IInv, Typed
<1>4. Range(listener.batch) \subseteq Number
    BY <1>3, ElementOfSeq DEF Range
<1>5. accepted \in [Sender -> Tx \cup {0}]
    <2>1. Number \subseteq Tx
        BY <1>1, LenProperties DEF BooksFit, SentIsNumber, Number, Tx
    <2> QED BY <2>1 DEF IInv, Typed, BooksFit
<1> QED BY <1>1, <1>2, <1>3, <1>4, <1>5 DEF TypeOK, IInv, Typed, BooksFit
=============================================================================
