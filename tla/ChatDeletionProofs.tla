------------------------- MODULE ChatDeletionProofs -------------------------
(***************************************************************************)
(* However the operations of a chat are cut into batches, the store and    *)
(* the sidebar end where the order of admission puts them.  What is on its *)
(* way is a sequence of operations, and `After` says what it makes of the  *)
(* rows: appending a message adds it, appending a deletion empties it,     *)
(* and a batch taken out of the queue changes nothing.                     *)
(***************************************************************************)
EXTENDS ChatDeletion, TLAPS

After(b, saved) == IF Deletions(b) = {} THEN saved \cup Messages(b) ELSE Survivors(b)

(* The messages behind the last deletion, without naming it. *)
Behind(b) == {k \in 1..Len(b) : b[k].kind = "message" /\ \A j \in Deletions(b) : j < k}

(* There is a last deletion. *)
HasLast(b) ==
    Deletions(b) # {} =>
        LastDeletion(b) \in Deletions(b) /\ \A j \in Deletions(b) : j <= LastDeletion(b)

(* What the store will be when the running batch is written. *)
Expected == IF drain = "writing" THEN After(batch, rows) ELSE rows

StoreInv ==
    /\ HasLast(queue) /\ HasLast(batch)
    /\ survivors \subseteq rows
    /\ ~failed /\ ~ended => since = After(queue, Expected)

(* The messages under way that will be there when everything is written. *)
Coming == IF drain = "writing" THEN After(batch, {}) ELSE survivors
Live == After(queue, Coming)

(* They were all admitted since the last deletion, whatever was lost. *)
LiveInv ==
    /\ drain # "written" => survivors = {}
    /\ Live \subseteq since

(* A deletion is on its way to the sidebar. *)
DeletionComes ==
    \/ Deletions(queue) # {}
    \/ drain = "writing" /\ Deletions(batch) # {}
    \/ drain = "written" /\ Hides

HiddenInv == ~failed /\ tomb # 0 /\ since = {} => ~listed \/ relisted \/ DeletionComes

SavedInv ==
    listed => chatRow \/ dirty \/ relisted \/ (drain = "written" /\ (Hides \/ survivors # {}))

Inv == TypeOK /\ StoreInv /\ LiveInv /\ HiddenInv /\ SavedInv

-----------------------------------------------------------------------------
(* What operations do to the messages that will be left. *)
LEMMA SurvivorsAre ==
    ASSUME NEW b \in Seq(Operation), HasLast(b), Deletions(b) # {}
    PROVE  Survivors(b) = {b[k].ts : k \in Behind(b)}
<1>1. PICK l \in 1..Len(b) : l = LastDeletion(b) /\ l \in Deletions(b) /\ \A j \in Deletions(b) : j <= l
  BY DEF HasLast, Deletions
<1>2. PICK n \in Nat : n = Len(b) /\ b \in [1..n -> Operation]
  BY SMT
<1> DEFINE s == SubSeq(b, l + 1, n)
<1>3. Survivors(b) = Messages(s)
  BY <1>1, <1>2 DEF Survivors
<1>4. Len(s) = n - l /\ \A i \in 1..(n - l) : s[i] = b[l + i]
  BY <1>1, <1>2
<1> HIDE DEF s
<1>5. ASSUME NEW k \in Behind(b)
      PROVE  b[k].ts \in Messages(s)
  <2>1. k \in 1..n /\ b[k].kind = "message" /\ l < k
    BY <1>1, <1>2 DEF Behind
  <2>2. k - l \in 1..(n - l) /\ s[k - l] = b[k]
    BY <1>1, <1>2, <1>4, <2>1
  <2> QED
    BY <1>4, <2>1, <2>2 DEF Messages
<1>6. ASSUME NEW i \in 1..Len(s), s[i].kind = "message"
      PROVE  s[i].ts \in {b[k].ts : k \in Behind(b)}
  <2>1. l + i \in 1..Len(b) /\ s[i] = b[l + i] /\ l < l + i
    BY <1>1, <1>2, <1>4
  <2>2. \A j \in Deletions(b) : j < l + i
    BY <1>1, <1>2, <2>1 DEF Deletions
  <2>3. l + i \in Behind(b)
    BY <1>6, <2>1, <2>2 DEF Behind
  <2> QED
    BY <2>1, <2>3
<1> QED
  BY <1>3, <1>5, <1>6 DEF Messages

LEMMA EmptyQueue ==
    /\ Messages(<<>>) = {} /\ Deletions(<<>>) = {} /\ HasLast(<<>>)
    /\ \A saved : After(<<>>, saved) = saved
  BY DEF Messages, Deletions, HasLast, After

LEMMA AppendMessage ==
    ASSUME NEW b \in Seq(Operation), HasLast(b), NEW t \in Time, NEW saved, NEW new,
           new = Append(b, [kind |-> "message", ts |-> t])
    PROVE  /\ HasLast(new)
           /\ Deletions(new) = Deletions(b)
           /\ After(new, saved) = After(b, saved) \cup {t}
<1>1. PICK n \in Nat : n = Len(b) /\ b \in [1..n -> Operation]
  BY SMT
<1>2. new \in Seq(Operation) /\ Len(new) = n + 1 /\ n + 1 \in Nat
      /\ new[n + 1] = [kind |-> "message", ts |-> t]
      /\ \A k \in 1..n : new[k] = b[k]
  BY <1>1 DEF Operation
<1>3. 1..(n + 1) = 1..n \cup {n + 1} /\ n + 1 \notin 1..n
  BY <1>1
<1>4. Deletions(new) = Deletions(b)
  BY <1>1, <1>2, <1>3 DEF Deletions
<1>5. HasLast(new)
  BY <1>4 DEF HasLast, LastDeletion
<1>6. Messages(new) = Messages(b) \cup {t}
  BY <1>1, <1>2, <1>3 DEF Messages
<1>7. Behind(new) = Behind(b) \cup {n + 1}
  <2>1. \A j \in Deletions(b) : j < n + 1
    BY <1>1 DEF Deletions
  <2> QED
    BY <1>1, <1>2, <1>3, <1>4, <2>1 DEF Behind
<1>8. CASE Deletions(b) = {}
  BY <1>4, <1>5, <1>6, <1>8 DEF After
<1>9. CASE Deletions(b) # {}
  <2>1. \A k \in Behind(b) : k \in 1..n
    BY <1>1 DEF Behind
  <2>2. {new[k].ts : k \in Behind(new)} = {b[k].ts : k \in Behind(b)} \cup {t}
    BY <1>2, <1>7, <2>1
  <2>3. Survivors(new) = Survivors(b) \cup {t}
    BY <1>2, <1>4, <1>5, <1>9, <2>2, SurvivorsAre
  <2> QED
    BY <1>4, <1>5, <1>9, <2>3 DEF After
<1> QED
  BY <1>8, <1>9

LEMMA AppendDeletion ==
    ASSUME NEW b \in Seq(Operation), NEW d \in Operation, d.kind # "message",
           NEW saved, NEW new, new = Append(b, d)
    PROVE  /\ HasLast(new) /\ Deletions(new) # {}
           /\ After(new, saved) = {}
<1>1. PICK n \in Nat : n = Len(b) /\ b \in [1..n -> Operation]
  BY SMT
<1>2. new \in Seq(Operation) /\ Len(new) = n + 1 /\ n + 1 \in Nat /\ new[n + 1] = d
  BY <1>1
<1>3. n + 1 \in Deletions(new) /\ \A j \in Deletions(new) : j <= n + 1
  BY <1>2 DEF Deletions
<1>4. LastDeletion(new) = n + 1
  <2>1. \A k \in Deletions(new) : (\A j \in Deletions(new) : j <= k) => k = n + 1
    BY <1>2, <1>3 DEF Deletions
  <2> QED
    BY <1>3, <2>1 DEF LastDeletion
<1>5. HasLast(new)
  BY <1>3, <1>4 DEF HasLast
<1>6. Behind(new) = {}
  BY <1>2, <1>3 DEF Behind
<1>7. Survivors(new) = {}
  BY <1>2, <1>3, <1>5, <1>6, SurvivorsAre
<1> QED
  BY <1>3, <1>5, <1>7 DEF After

(* Rows that are there stay unless a deletion comes. *)
LEMMA AfterKeeps ==
    ASSUME NEW b, NEW saved, Deletions(b) = {}
    PROVE  saved \subseteq After(b, saved)
  BY DEF After

LEMMA AfterGrows ==
    ASSUME NEW b, NEW saved, NEW more, saved \subseteq more
    PROVE  After(b, saved) \subseteq After(b, more)
  BY DEF After

(* What a batch leaves of an empty store. *)
LEMMA AfterNothing ==
    ASSUME NEW b
    PROVE  After(b, {}) = Survivors(b)
  BY DEF After, Survivors

LEMMA SurvivorTimes ==
    ASSUME NEW b \in Seq(Operation), HasLast(b)
    PROVE  Survivors(b) \subseteq Time
<1>1. \A k \in 1..Len(b) : b[k].kind = "message" => b[k].ts \in Time
  <2>1. \A k \in 1..Len(b) : b[k] \in Operation
    OBVIOUS
  <2> QED
    BY <2>1 DEF Operation
<1>2. CASE Deletions(b) = {}
  BY <1>1, <1>2 DEF Survivors, Messages
<1>3. CASE Deletions(b) # {}
  BY <1>1, <1>3, SurvivorsAre DEF Behind
<1> QED
  BY <1>2, <1>3

-----------------------------------------------------------------------------
LEMMA Times ==
    /\ \A t \in Time : t \in Nat /\ t \in 0..MaxTime /\ t # 0 /\ (t < MaxTime => t + 1 \in Time)
    /\ 0 \in 0..MaxTime /\ 1 \in Time /\ <<>> \in Seq(Operation)
  BY DeletionAssumption DEF Time

LEMMA InitInv == Init => Inv
<1> SUFFICES ASSUME Init PROVE Inv
  OBVIOUS
<1>1. TypeOK
  BY Times, Zenon DEF Init, TypeOK
<1>2. StoreInv /\ LiveInv
  BY EmptyQueue DEF Init, StoreInv, Expected, LiveInv, Live, Coming
<1> QED
  BY <1>1, <1>2 DEF Init, Inv, HiddenInv, SavedInv

(* What is enqueued: a message is added to what is expected, a deletion    *)
(* empties it.                                                             *)
LEMMA EnqueueMessageInv ==
    ASSUME Inv, NEW t \in Time, ReceiveMessage(t)
    PROVE  Inv'
<1>1. UNCHANGED <<now, boot, listed, dirty, chatRow, rows, commit, rebuild, relisted, faults>>
  BY DEF ReceiveMessage
<1>2. CASE Suppressed(t)
  BY <1>1, <1>2 DEF ReceiveMessage, Inv, TypeOK, StoreInv, Expected, LiveInv, Live, Coming,
     HiddenInv, DeletionComes, SavedInv, Hides, commit, boot, faults
<1>3. CASE ~Suppressed(t)
  <2>1. tomb' = 0 /\ queue' = Append(queue, [kind |-> "message", ts |-> t])
        /\ since' = since \cup {t}
    BY <1>3 DEF ReceiveMessage
  <2>2. [kind |-> "message", ts |-> t] \in Operation
    BY DEF Operation
  <2>3. TypeOK'
    BY <1>1, <2>1, <2>2, DeletionAssumption DEF Inv, TypeOK, commit, boot, faults
  <2>4. Expected' = Expected /\ Coming' = Coming
    BY <1>1 DEF Expected, Coming, commit
  <2>5. queue \in Seq(Operation) /\ HasLast(queue)
    BY DEF Inv, TypeOK, StoreInv
  <2>6. HasLast(queue') /\ After(queue', Expected) = After(queue, Expected) \cup {t}
    BY <2>1, <2>5, AppendMessage
  <2>7. StoreInv'
    BY <1>1, <2>1, <2>4, <2>6 DEF Inv, StoreInv, commit, faults
  <2>8. After(queue', Coming) = After(queue, Coming) \cup {t}
    BY <2>1, <2>5, AppendMessage
  <2>9. LiveInv'
    BY <1>1, <2>1, <2>4, <2>8 DEF Inv, LiveInv, Live, commit
  <2> QED
    BY <1>1, <2>1, <2>3, <2>7, <2>9 DEF Inv, HiddenInv, SavedInv, Hides, commit
<1> QED
  BY <1>2, <1>3

LEMMA EnqueueDeletionInv ==
    ASSUME Inv, ReceiveDeletion \/ DeleteLocally
    PROVE  Inv'
<1>1. UNCHANGED <<now, boot, chatRow, rows, commit, rebuild, faults>> /\ Hide /\ since' = {}
  BY DEF ReceiveDeletion, DeleteLocally
<1>2. PICK d \in Operation : d.kind # "message" /\ queue' = Append(queue, d)
  BY DEF ReceiveDeletion, DeleteLocally, Operation
<1>3. HasLast(queue') /\ After(queue', Expected) = {} /\ After(queue', Coming) = {}
  BY <1>2, AppendDeletion DEF Inv, TypeOK
<1>4. Expected' = Expected /\ Coming' = Coming
  BY <1>1 DEF Expected, Coming, commit
<1>5. TypeOK'
  <2>1. now \in 0..MaxTime /\ queue' \in Seq(Operation)
    BY <1>2, Times DEF Inv, TypeOK
  <2> QED
    BY <1>1, <2>1, Zenon DEF Inv, TypeOK, Hide, commit, boot, faults
<1>6. StoreInv' /\ LiveInv'
  BY <1>1, <1>3, <1>4 DEF Inv, StoreInv, LiveInv, Live, commit
<1> QED
  BY <1>1, <1>5, <1>6 DEF Inv, HiddenInv, SavedInv, Hide

-----------------------------------------------------------------------------
LEMMA TakeBatchInv ==
    ASSUME Inv, TakeBatch
    PROVE  Inv'
<1>1. /\ drain = "none" /\ batch' = queue /\ queue' = <<>> /\ drain' = "writing"
      /\ UNCHANGED <<now, boot, sidebar, chatRow, rows, survivors, purged, rebuild, since,
                     relisted, faults>>
  BY DEF TakeBatch
<1>2. TypeOK'
  BY <1>1 DEF Inv, TypeOK, sidebar, boot, faults
<1>3. After(queue', Expected') = After(queue, Expected) /\ Live' = Live
  BY <1>1, EmptyQueue DEF Expected, Live, Coming, Inv, LiveInv
<1>4. StoreInv' /\ LiveInv'
  BY <1>1, <1>3, EmptyQueue DEF Inv, StoreInv, LiveInv, faults
<1>5. HiddenInv'
  BY <1>1 DEF Inv, HiddenInv, DeletionComes, sidebar, faults
<1> QED
  BY <1>1, <1>2, <1>4, <1>5 DEF Inv, SavedInv, sidebar

(* The write of a batch. *)
LEMMA WriteInv ==
    ASSUME Inv, Write
    PROVE  Inv'
<1>1. /\ drain = "writing" /\ drain' = "written"
      /\ survivors' = Survivors(batch)
      /\ purged' = (Deletions(batch) # {} /\ Survivors(batch) = {})
      /\ chatRow' = (chatRow /\ Deletions(batch) = {})
      /\ UNCHANGED <<now, boot, sidebar, queue, batch, rebuild, since, relisted, faults>>
  BY DEF Write
<1>2. rows' = After(batch, rows)
  BY DEF Write, After, Survivors
<1>3. survivors' \subseteq rows'
  BY <1>1, <1>2 DEF After, Survivors
<1>4. Survivors(batch) \subseteq Time
  BY SurvivorTimes DEF Inv, TypeOK, StoreInv
<1>5. rows' \subseteq Time
  BY <1>2, <1>4 DEF Inv, TypeOK, After, Survivors
<1>6. TypeOK'
  <2>1. purged' \in BOOLEAN /\ chatRow' \in BOOLEAN
    BY <1>1, Zenon
  <2> QED
    BY <1>1, <1>4, <1>5, <2>1 DEF Inv, TypeOK, sidebar, boot, faults
<1>7. Expected' = Expected /\ Coming' = Coming
  BY <1>1, <1>2, AfterNothing DEF Expected, Coming
<1>8. StoreInv' /\ LiveInv'
  BY <1>1, <1>3, <1>7 DEF Inv, StoreInv, LiveInv, Live, faults
<1>9. Deletions(batch) # {} => purged' \/ survivors' # {}
  BY <1>1
<1>10. HiddenInv'
  <2> SUFFICES ASSUME ~failed, tomb # 0, since = {}, listed, ~relisted
               PROVE  DeletionComes'
    BY <1>1 DEF HiddenInv, sidebar, faults
  <2>1. CASE Deletions(queue) # {}
    BY <1>1, <2>1 DEF DeletionComes
  <2>2. CASE Deletions(queue) = {}
    <3>1. Deletions(batch) # {}
      BY <1>1, <2>2 DEF Inv, HiddenInv, DeletionComes
    <3>2. survivors' = {}
      <4>1. Coming' \subseteq Live'
        BY <1>1, <2>2, AfterKeeps DEF Live
      <4> QED
        BY <1>1, <1>8, <4>1 DEF LiveInv, Coming
    <3>3. purged'
      BY <1>9, <3>1, <3>2
    <3> QED
      BY <1>1, <3>3 DEF DeletionComes, Hides
  <2> QED
    BY <2>1, <2>2
<1>11. SavedInv'
  BY <1>1, <1>9 DEF Inv, SavedInv, Hides, sidebar
<1> QED
  BY <1>6, <1>8, <1>10, <1>11 DEF Inv

LEMMA WriteFailsInv ==
    ASSUME Inv, WriteFails
    PROVE  Inv'
<1>1. /\ drain = "writing" /\ drain' = "none" /\ batch' = <<>> /\ failed' = TRUE
      /\ UNCHANGED <<now, boot, sidebar, chatRow, rows, queue, survivors, purged, rebuild, since,
                     relisted, ended>>
  BY DEF WriteFails
<1>2. TypeOK'
  BY <1>1, Times DEF Inv, TypeOK, sidebar, boot
<1>3. StoreInv'
  BY <1>1, EmptyQueue DEF Inv, StoreInv
<1>4. LiveInv'
  <2>1. survivors = {} /\ Coming' = {} /\ Live \subseteq since
    BY <1>1 DEF Inv, LiveInv, Coming
  <2>2. Live' \subseteq Live
    BY <1>1, <2>1, AfterGrows DEF Live
  <2> QED
    BY <1>1, <2>1, <2>2 DEF LiveInv
<1> QED
  BY <1>1, <1>2, <1>3, <1>4 DEF Inv, HiddenInv, SavedInv, sidebar

(* The publication of a commit. *)
LEMMA PublishInv ==
    ASSUME Inv, Publish
    PROVE  Inv'
<1>1. /\ drain = "written" /\ drain' = "none" /\ batch' = <<>> /\ survivors' = {}
      /\ purged' = FALSE
      /\ UNCHANGED <<now, boot, chatRow, rows, queue, rebuild, since, faults>>
  BY DEF Publish
<1>2. \/ Hides /\ Hide
      \/ ~Hides /\ survivors # {} /\ listed' = TRUE /\ dirty' = TRUE /\ UNCHANGED <<tomb, relisted>>
      \/ ~Hides /\ survivors = {} /\ UNCHANGED <<sidebar, relisted>>
  BY DEF Publish, ShownDirty
<1>3. TypeOK'
  <2>1. now \in 0..MaxTime
    BY Times DEF Inv, TypeOK
  <2> QED
    BY <1>1, <1>2, <2>1, Times, Zenon DEF Inv, TypeOK, Hide, sidebar, boot, faults
<1>4. Expected' = Expected
  BY <1>1 DEF Expected
<1>5. StoreInv'
  BY <1>1, <1>4, EmptyQueue DEF Inv, StoreInv, faults
<1>6. LiveInv'
  <2>1. Coming = survivors /\ Coming' = {} /\ Live \subseteq since
    BY <1>1 DEF Inv, LiveInv, Coming
  <2>2. Live' \subseteq Live
    BY <1>1, <2>1, AfterGrows DEF Live
  <2> QED
    BY <1>1, <2>1, <2>2 DEF LiveInv
<1>7. HiddenInv'
  <2>1. CASE Hides /\ Hide
    BY <2>1 DEF HiddenInv, Hide
  <2>2. CASE ~Hides /\ survivors # {} /\ UNCHANGED tomb
    <3>1. since = {} => Deletions(queue) # {}
      <4>1. Live \subseteq since /\ Coming = survivors
        BY <1>1 DEF Inv, LiveInv, Coming
      <4> QED
        BY <2>2, <4>1, AfterKeeps DEF Live
    <3> QED
      BY <1>1, <2>2, <3>1 DEF HiddenInv, DeletionComes
  <2>3. CASE ~Hides /\ UNCHANGED <<sidebar, relisted>>
    BY <1>1, <2>3 DEF Inv, HiddenInv, DeletionComes, sidebar, faults
  <2> QED
    BY <1>2, <2>1, <2>2, <2>3
<1>8. SavedInv'
  BY <1>1, <1>2 DEF Inv, SavedInv, Hide, sidebar
<1> QED
  BY <1>3, <1>5, <1>6, <1>7, <1>8 DEF Inv

-----------------------------------------------------------------------------
(* What leaves the rows, the operations under way and the history alone    *)
(* leaves what is expected of the store alone.                             *)
LEMMA StoreUntouched ==
    ASSUME Inv, UNCHANGED <<rows, queue, commit, since, faults>>
    PROVE  StoreInv' /\ LiveInv'
  BY DEF Inv, StoreInv, Expected, LiveInv, Live, Coming, commit, faults

(* What lists and saves the chat, and what happens to the sidebar alone. *)
Lists == StartChat \/ MergeContacts \/ UpdateListed \/ JoinGroup \/ HistoryConversation

LEMMA SidebarInv ==
    ASSUME Inv, Tick \/ SaveChatRow \/ Lists \/ UNCHANGED vars
    PROVE  Inv'
<1> USE DEF Lists, StartChat, MergeContacts, UpdateListed, JoinGroup, HistoryConversation,
            ListAndSave, Tick, SaveChatRow, vars
<1>1. UNCHANGED <<boot, rows, queue, commit, rebuild, since, faults>>
  OBVIOUS
<1>2. StoreInv' /\ LiveInv'
  BY ONLY Inv, <1>1, StoreUntouched
<1>3. TypeOK'
  <2>1. now' \in Time /\ tomb' \in 0..MaxTime
    BY Times DEF Inv, TypeOK, sidebar
  <2>2. listed' \in BOOLEAN /\ dirty' \in BOOLEAN /\ chatRow' \in BOOLEAN /\ relisted' \in BOOLEAN
    BY Zenon DEF Inv, TypeOK, sidebar
  <2> QED
    BY ONLY Inv, <1>1, <2>1, <2>2 DEF Inv, TypeOK, commit, boot, faults
<1>4. HiddenInv'
  BY <1>1 DEF Inv, HiddenInv, DeletionComes, Hides, commit, sidebar, faults
<1>5. SavedInv'
  BY <1>1 DEF Inv, SavedInv, Hides, commit, sidebar
<1> QED
  BY ONLY <1>2, <1>3, <1>4, <1>5 DEF Inv

(* The steps of a merge and of the rebuild of the list. *)
Rebuilds == Reconcile \/ WriterMerges \/ MergeFails \/ DropMerged \/ OthersMerged
            \/ ReadRows \/ ApplyRebuild

LEMMA RebuildInv ==
    ASSUME Inv, Rebuilds
    PROVE  Inv'
<1> USE DEF Rebuilds, Reconcile, WriterMerges, MergeFails, DropMerged, OthersMerged,
            ReadRows, ApplyRebuild, RebuildBegins
<1>1. UNCHANGED <<now, group, tomb, dirty, rows, queue, commit, since, faults>>
  BY DEF sidebar, boot
<1>2. StoreInv' /\ LiveInv'
  BY ONLY Inv, <1>1, StoreUntouched
<1>3. TypeOK'
  <2>1. listed' \in BOOLEAN /\ chatRow' \in BOOLEAN /\ relisted' \in BOOLEAN
        /\ admitting' \in BOOLEAN
    BY Zenon DEF Inv, TypeOK, sidebar, boot
  <2>2. rebuild' \in {"none", "merging", "merged", "reading", "found", "missing"}
    OBVIOUS
  <2> QED
    BY ONLY Inv, <1>1, <2>1, <2>2 DEF Inv, TypeOK, commit, faults
<1>4. listed' => listed \/ (~listed /\ relisted' = (relisted \/ tomb # 0 \/ ~chatRow) /\ chatRow' = chatRow)
  BY DEF sidebar
<1>5. (relisted => relisted') /\ (chatRow => chatRow')
  BY DEF Inv, TypeOK
<1>6. HiddenInv'
  BY ONLY Inv, <1>1, <1>4, <1>5 DEF Inv, HiddenInv, DeletionComes, Hides, commit, faults
<1>7. SavedInv'
  BY ONLY Inv, <1>1, <1>4, <1>5 DEF Inv, SavedInv, Hides, commit
<1> QED
  BY ONLY <1>2, <1>3, <1>6, <1>7 DEF Inv

LEMMA RelaunchInv ==
    ASSUME Inv, Relaunch
    PROVE  Inv'
<1>1. TypeOK'
  BY Times DEF Relaunch, RebuildBegins, Inv, TypeOK
<1> QED
  BY <1>1, EmptyQueue DEF Relaunch, Inv, StoreInv, LiveInv, Live, Coming, HiddenInv, SavedInv

(* The parts of the invariant hold in every reachable state: what is       *)
(* expected of the store is what was admitted, a shown chat that was       *)
(* deleted has its deletion still on the way or was listed past its        *)
(* tombstone, and a listed chat is saved or about to be.                   *)
THEOREM DeletionInvariant == Spec => []Inv
<1>1. Inv /\ [Next]_vars => Inv'
  BY EnqueueMessageInv, EnqueueDeletionInv, TakeBatchInv, WriteInv, WriteFailsInv, PublishInv,
     SidebarInv, RebuildInv, RelaunchInv DEF Next, Lists, Rebuilds
<1> QED
  BY InitInv, <1>1, PTL DEF Spec

(* The clock, the tombstone, the rows and the operations keep their types. *)
THEOREM DeletionTypes == Spec => []TypeOK
<1>1. Inv => TypeOK
  BY DEF Inv
<1> QED
  BY DeletionInvariant, <1>1, PTL

(* However admitted messages and deletions are cut into batches by         *)
(* startPendingWrites, MessageWriter.write leaves exactly the messages     *)
(* admitted since the last deletion.                                       *)
THEOREM StoreFollows == Spec => []StoreFollowsAdmission
<1>1. Inv => StoreFollowsAdmission
  BY EmptyQueue DEF Inv, StoreInv, Expected, StoreFollowsAdmission, Settled
<1> QED
  BY DeletionInvariant, <1>1, PTL

(* publish and applyPresentation hide a deleted chat again once its        *)
(* deletion is written, over failed merges, relaunches and rebuilds of the *)
(* list: only applyHistoryConversation, and a runBootstrap whose tombstones *)
(* or rows are older than the deletion, bring it back without a message.   *)
THEOREM DeletedStaysHidden == Spec => []DeletedChatStaysHidden
<1>1. Inv => DeletedChatStaysHidden
  BY EmptyQueue DEF Inv, HiddenInv, DeletionComes, DeletedChatStaysHidden, Settled
<1> QED
  BY DeletionInvariant, <1>1, PTL

(* The writer deletes chat rows that the sidebar still lists; publish then *)
(* hides the chat or marks it for flushDirtyChats.                         *)
THEOREM ListedIsSaved == Spec => []ListedChatIsSaved
<1>1. Inv => ListedChatIsSaved
  BY DEF Inv, SavedInv, ListedChatIsSaved, Settled
<1> QED
  BY DeletionInvariant, <1>1, PTL
=============================================================================
