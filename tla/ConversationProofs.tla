------------------------- MODULE ConversationProofs -------------------------
(***************************************************************************)
(* That the timeline is up to date and complete at rest, that a sent       *)
(* message stays shown and no reaction is lost, for any number of          *)
(* messages, senders, versions and commits and any sizes of the windows.   *)
(*                                                                         *)
(* The argument: a row that is stale or absent has a commit in the queue.  *)
(* Of the commits of a row only the last carries the stored version, so    *)
(* publishing one that does not leaves another.  Of the reactions of a     *)
(* sender to a row, in the queue or kept for the load, the last decides.   *)
(***************************************************************************)
EXTENDS Conversation, FiniteSetTheorems, TLAPS

Replay == INSTANCE FoldFacts WITH Op <- React

(* The queue holds a commit of this row, or the commit of a new message.   *)
Pending(q, m) == \E k \in 1..Len(q) : q[k] \in Commit /\ q[k].row = m
Arriving(q, m) ==
    \E k \in 1..Len(q) : q[k] \in Commit /\ q[k].row = m /\ q[k].incoming

(* No commit is empty, and the last one of a row carries what is stored.   *)
NoneEmpty(q) == \A k \in 1..Len(q) : q[k] \in Commit => q[k].version # 0
LastIsStored(q, f) ==
    \A k \in 1..Len(q) :
        \/ q[k] \notin Commit
        \/ \E j \in 1..Len(q) : j > k /\ q[j] \in Commit /\ q[j].row = q[k].row
        \/ q[k].version = f[q[k].row]

-----------------------------------------------------------------------------
LEMMA ReactionIsNoCommit ==
    ASSUME NEW r \in Reaction
    PROVE  r \notin Commit
<1>1. "sender" \in DOMAIN r
  BY DEF Reaction
<1>2. \A c \in Commit : "sender" \notin DOMAIN c
  BY DEF Commit
<1> QED
  BY <1>1, <1>2

LEMMA AppendedQueue ==
    ASSUME NEW E, NEW q \in Seq(E), NEW x \in E
    PROVE  /\ Append(q, x) \in Seq(E)
           /\ \A m : Pending(q, m) => Pending(Append(q, x), m)
           /\ \A m : Arriving(q, m) => Arriving(Append(q, x), m)
           /\ x \in Commit => Pending(Append(q, x), x.row)
           /\ x \in Commit /\ x.incoming => Arriving(Append(q, x), x.row)
<1>1. /\ Append(q, x) \in Seq(E) /\ Len(Append(q, x)) = Len(q) + 1 /\ Len(q) \in Nat
      /\ \A k \in 1..Len(q) : Append(q, x)[k] = q[k]
      /\ Append(q, x)[Len(q) + 1] = x
  OBVIOUS
<1>2. 1..Len(q) \subseteq 1..(Len(q) + 1) /\ Len(q) + 1 \in 1..(Len(q) + 1)
  BY <1>1
<1> QED
  BY <1>1, <1>2, Zenon DEF Pending, Arriving

LEMMA AppendedCommit ==
    ASSUME NEW E, NEW q \in Seq(E), NEW f \in Content, NEW g \in Content,
           NEW x \in E, x \in Commit, g[x.row] = x.version, x.version # 0,
           \A m \in Message : m # x.row => g[m] = f[m],
           \A k \in 1..Len(q) : q[k] \in Commit => q[k].row \in Message,
           NoneEmpty(q), LastIsStored(q, f)
    PROVE  NoneEmpty(Append(q, x)) /\ LastIsStored(Append(q, x), g)
<1> DEFINE p == Append(q, x)
           n == Len(q)
<1>1. /\ Len(p) = n + 1 /\ n \in Nat
      /\ \A k \in 1..n : p[k] = q[k]
      /\ p[n + 1] = x
  OBVIOUS
<1> HIDE DEF p
<1>2. NoneEmpty(p)
  <2>1. ASSUME NEW k \in 1..Len(p), p[k] \in Commit
        PROVE  p[k].version # 0
    <3>1. k \in 1..n \/ k = n + 1
      BY <1>1
    <3> QED
      BY <1>1, <2>1, <3>1 DEF NoneEmpty
  <2> QED
    BY <2>1 DEF NoneEmpty
<1>3. ASSUME NEW k \in 1..Len(p), p[k] \in Commit
      PROVE  \/ \E j \in 1..Len(p) : j > k /\ p[j] \in Commit /\ p[j].row = p[k].row
             \/ p[k].version = g[p[k].row]
  <2>1. CASE k = n + 1
    BY <1>1, <2>1
  <2>2. CASE k \in 1..n /\ p[k].row = x.row
    <3>1. n + 1 \in 1..Len(p) /\ n + 1 > k
      BY <1>1, <2>2
    <3> QED
      BY <1>1, <2>2, <3>1
  <2>3. CASE k \in 1..n /\ p[k].row # x.row
    <3>1. p[k] = q[k] /\ q[k] \in Commit /\ q[k].row \in Message
      BY <1>1, <1>3, <2>3
    <3>2. g[q[k].row] = f[q[k].row]
      BY <2>3, <3>1
    <3>3. CASE \E j \in 1..n : j > k /\ q[j] \in Commit /\ q[j].row = q[k].row
      <4>1. PICK j \in 1..n : j > k /\ q[j] \in Commit /\ q[j].row = q[k].row
        BY <3>3
      <4>2. j \in 1..Len(p) /\ p[j] = q[j]
        BY <1>1
      <4> QED
        BY <3>1, <4>1, <4>2
    <3>4. CASE q[k].version = f[q[k].row]
      BY <3>1, <3>2, <3>4
    <3> QED
      BY <2>3, <3>1, <3>3, <3>4 DEF LastIsStored
  <2> QED
    BY <1>1, <2>1, <2>2, <2>3
<1> QED
  BY <1>2, <1>3 DEF LastIsStored, p

LEMMA AppendedReaction ==
    ASSUME NEW E, NEW q \in Seq(E), NEW f, NEW r \in E, r \notin Commit,
           NoneEmpty(q), LastIsStored(q, f)
    PROVE  NoneEmpty(Append(q, r)) /\ LastIsStored(Append(q, r), f)
<1> DEFINE p == Append(q, r)
           n == Len(q)
<1>1. /\ Len(p) = n + 1 /\ n \in Nat
      /\ \A k \in 1..n : p[k] = q[k]
      /\ p[n + 1] = r
  OBVIOUS
<1> HIDE DEF p
<1>2. \A k \in 1..Len(p) : k \in 1..n \/ p[k] \notin Commit
  BY <1>1
<1>3. NoneEmpty(p)
  BY <1>1, <1>2 DEF NoneEmpty
<1>4. ASSUME NEW k \in 1..n, p[k] \in Commit
      PROVE  \/ \E j \in 1..Len(p) : j > k /\ p[j] \in Commit /\ p[j].row = p[k].row
             \/ p[k].version = f[p[k].row]
  <2>1. \A j \in 1..n : j \in 1..Len(p) /\ p[j] = q[j]
    BY <1>1
  <2> QED
    BY <1>4, <2>1, Zenon DEF LastIsStored
<1> QED
  BY <1>2, <1>3, <1>4 DEF LastIsStored, p

(* What leaves the queue when its head is published. *)
LEMMA TailedQueue ==
    ASSUME NEW E, NEW q \in Seq(E), q # <<>>, NEW f, NoneEmpty(q), LastIsStored(q, f)
    PROVE  /\ Head(q) \in E /\ Tail(q) \in Seq(E)
           /\ NoneEmpty(Tail(q)) /\ LastIsStored(Tail(q), f)
           /\ Head(q) \in Commit => Head(q).version # 0
           /\ \A m : Pending(q, m) => \/ Pending(Tail(q), m)
                                      \/ Head(q) \in Commit /\ Head(q).row = m
           /\ \A m : Arriving(q, m) => \/ Arriving(Tail(q), m)
                                       \/ /\ Head(q) \in Commit /\ Head(q).row = m
                                          /\ Head(q).incoming
           /\ Head(q) \in Commit => \/ Head(q).version = f[Head(q).row]
                                    \/ Pending(Tail(q), Head(q).row)
<1> DEFINE t == Tail(q)
           n == Len(q)
<1>1. /\ n \in Nat \ {0} /\ Head(q) = q[1] /\ q[1] \in E /\ t \in Seq(E) /\ Len(t) = n - 1
      /\ \A k \in 1..Len(t) : t[k] = q[k + 1]
  OBVIOUS
<1> HIDE DEF t
<1>2. \A k \in 1..Len(t) : k + 1 \in 1..n
  BY <1>1
<1>3. \A k \in 1..n : k > 1 => k - 1 \in 1..Len(t) /\ t[k - 1] = q[k]
  BY <1>1
<1>4. NoneEmpty(t) /\ (Head(q) \in Commit => Head(q).version # 0)
  BY <1>1, <1>2 DEF NoneEmpty
<1>5. ASSUME NEW k \in 1..n, NEW j \in 1..n, j > k, q[j] \in Commit
      PROVE  /\ j - 1 \in 1..Len(t) /\ t[j - 1] = q[j]
             /\ Pending(t, q[j].row)
  <2>1. j > 1
    BY <1>1, <1>5
  <2> QED
    BY <1>3, <1>5, <2>1 DEF Pending
<1>6. LastIsStored(t, f)
  <2>1. SUFFICES ASSUME NEW k \in 1..Len(t), t[k] \in Commit
                 PROVE  \/ \E j \in 1..Len(t) : j > k /\ t[j] \in Commit /\ t[j].row = t[k].row
                        \/ t[k].version = f[t[k].row]
    BY DEF LastIsStored
  <2>2. k + 1 \in 1..n /\ q[k + 1] = t[k]
    BY <1>1, <1>2
  <2>3. CASE \E j \in 1..n : j > k + 1 /\ q[j] \in Commit /\ q[j].row = q[k + 1].row
    <3>1. PICK j \in 1..n : j > k + 1 /\ q[j] \in Commit /\ q[j].row = q[k + 1].row
      BY <2>3
    <3>2. j - 1 \in 1..Len(t) /\ t[j - 1] = q[j] /\ j - 1 > k
      BY <1>5, <2>2, <3>1
    <3> QED
      BY <2>2, <3>1, <3>2
  <2> QED
    BY <2>1, <2>2, <2>3 DEF LastIsStored
<1>7. ASSUME NEW m, Pending(q, m), ~(Head(q) \in Commit /\ Head(q).row = m)
      PROVE  Pending(t, m)
  <2>1. PICK k \in 1..n : q[k] \in Commit /\ q[k].row = m
    BY <1>7 DEF Pending
  <2>2. k > 1
    BY <1>1, <1>7, <2>1
  <2> QED
    BY <1>3, <2>1, <2>2 DEF Pending
<1>8. ASSUME NEW m, Arriving(q, m),
             ~(Head(q) \in Commit /\ Head(q).row = m /\ Head(q).incoming)
      PROVE  Arriving(t, m)
  <2>1. PICK k \in 1..n : q[k] \in Commit /\ q[k].row = m /\ q[k].incoming
    BY <1>8 DEF Arriving
  <2>2. k > 1
    BY <1>1, <1>8, <2>1
  <2> QED
    BY <1>3, <2>1, <2>2 DEF Arriving
<1>9. ASSUME Head(q) \in Commit
      PROVE  Head(q).version = f[Head(q).row] \/ Pending(t, Head(q).row)
  <2>1. 1 \in 1..n
    BY <1>1
  <2>2. \A j \in 1..n : j > 1 /\ q[j] \in Commit => Pending(t, q[j].row)
    BY <1>5, <2>1
  <2> QED
    BY <1>1, <1>9, <2>1, <2>2 DEF LastIsStored
<1> QED
  BY <1>1, <1>4, <1>6, <1>7, <1>8, <1>9 DEF t
-----------------------------------------------------------------------------
(* Windows of the store. *)
LEMMA MessageNumbers ==
    Count \in Nat /\ \A m \in Message : m \in Nat /\ m > 0 /\ m <= Count
  BY ConversationAssumption DEF ConversationAssumption, Message

LEMMA RowsMin ==
    ASSUME NEW S, S \subseteq Message, S # {}
    PROVE  Min(S) \in S /\ \A m \in S : Min(S) <= m
<1>1. S \subseteq Nat
  BY MessageNumbers
<1> QED
  BY <1>1, Replay!LeastOf DEF Min

LEMMA LargestOf ==
    ASSUME NEW S, S \subseteq Message, S # {}
    PROVE  \E x \in S : \A y \in S : y <= x
<1> DEFINE T == {Count - m : m \in S}
<1>1. T \subseteq Nat /\ T # {}
  <2>1. \A m \in S : Count - m \in Nat
    BY MessageNumbers
  <2> QED
    BY <2>1
<1>2. PICK d \in T : \A e \in T : d <= e
  <2> HIDE DEF T
  <2> QED
    BY <1>1, Replay!LeastOf
<1>3. PICK x \in S : d = Count - x
  BY <1>2
<1>4. ASSUME NEW y \in S
      PROVE  y <= x
  <2>1. Count - y \in T
    OBVIOUS
  <2>2. Count - x <= Count - y
    BY <1>2, <1>3, <2>1
  <2> QED
    BY <2>2, MessageNumbers
<1> QED
  BY <1>4

LEMMA MessagesFinite ==
    ASSUME NEW S, S \subseteq Message
    PROVE  IsFiniteSet(S)
<1>1. IsFiniteSet(Message)
  BY MessageNumbers, FS_Interval DEF Message
<1> QED
  BY <1>1, FS_Subset

(* What is not among the newest rows is older than all of them.            *)
LEMMA NewestRows ==
    ASSUME NEW S, S \subseteq Message, NEW n \in Nat \ {0}
    PROVE  /\ Newest(S, n) \subseteq S
           /\ \A m \in S \ Newest(S, n) :
                 /\ Newest(S, n) # {} /\ Min(Newest(S, n)) \in Newest(S, n)
                 /\ m < Min(Newest(S, n))
<1> DEFINE Above(k) == {j \in S : j > k}
<1>0. \A j \in S : j \in Int
  BY MessageNumbers
<1>1. \A k : Above(k) \subseteq S /\ IsFiniteSet(Above(k)) /\ Cardinality(Above(k)) \in Nat
  BY MessagesFinite, FS_CardinalityType
<1>2. Newest(S, n) \subseteq S
  BY DEF Newest
<1>3. ASSUME NEW m \in S, m \notin Newest(S, n)
      PROVE  /\ Newest(S, n) # {} /\ Min(Newest(S, n)) \in Newest(S, n)
             /\ m < Min(Newest(S, n))
  <2>1. PICK x \in S : \A y \in S : y <= x
    BY LargestOf
  <2>2. Above(x) = {}
    BY <1>0, <2>1
  <2>3. x \in Newest(S, n)
    BY <2>2, FS_EmptySet DEF Newest
  <2> DEFINE k == Min(Newest(S, n))
  <2>4. k \in Newest(S, n) /\ k \in S
    BY <1>2, <2>3, RowsMin
  <2>5. ASSUME k <= m
        PROVE  FALSE
    <3>1. Above(m) \subseteq Above(k)
      BY <1>0, <2>4, <2>5
    <3>2. Cardinality(Above(m)) <= Cardinality(Above(k))
      BY <1>1, <3>1, FS_Subset
    <3>3. Cardinality(Above(k)) < n
      BY <2>4 DEF Newest
    <3>4. Cardinality(Above(m)) < n
      BY <1>1, <3>2, <3>3
    <3> QED
      BY <1>3, <3>4 DEF Newest
  <2>6. m < k
    BY <1>0, <2>4, <2>5
  <2> QED
    BY <2>3, <2>4, <2>6
<1> QED
  BY <1>2, <1>3

(* The rows of a window are the rows it was cut from. *)
LEMMA OnlyRows ==
    ASSUME NEW f \in Content, NEW S, S \subseteq Rows(f)
    PROVE  /\ Only(f, S) \in Content /\ Rows(Only(f, S)) = S
           /\ \A m \in Message : Only(f, S)[m] \in {0, f[m]}
<1>1. 0 \in Version
  BY ConversationAssumption DEF ConversationAssumption, Version
<1> QED
  BY <1>1 DEF Only, Rows, Content
-----------------------------------------------------------------------------
(* The part of the types the argument needs. *)
Load == [stage: {"none", "preparing", "rows", "built", "done", "failed"},
         rows: Content, marks: Marks, more: BOOLEAN]
Tries == Int
Page == [stage: {"none", "phone", "fetch", "read"}, by: {"scroll", "phone"},
         tries: Tries, rows: Content, more: BOOLEAN]
Jump == [stage: {"none", "fetch", "read"}, target: Message \cup {None}, before: Int,
         rows: Content]

StoreTypes ==
    /\ store \in Content /\ marks \in Marks
    /\ commits \in Seq(Commit \cup Reaction)
    /\ sends \in [Sent -> {"idle", "out", "saving", "saved", "unsaved"}]

ViewTypes ==
    /\ messages \in Content /\ changes \in Content
    /\ temps \subseteq Sent /\ mine \subseteq Sent
    /\ load \in Load /\ page \in Page /\ jump \in Jump
    /\ cursor \in Message \cup {None}

(* What was committed during a load is kept only while one is under way.   *)
KeptForLoad == LoadUnderWay \/ changes = NoRows

(* A closed conversation shows nothing and loads nothing. *)
ClosedInv ==
    ~open => /\ messages = NoRows /\ mine = {}
             /\ load.stage = "none" /\ page.stage = "none" /\ jump.stage = "none"

QueueInv == NoneEmpty(commits) /\ LastIsStored(commits, store)

(* A composed message is in the store when it is saved, not before. *)
SentInv == \A m \in Sent : sends[m] # "saved" => store[m] = 0

-----------------------------------------------------------------------------
(* What the writer does, a row or a reaction at a time. *)
Saves(c) ==
    /\ store' = [store EXCEPT ![c.row] = c.version]
    /\ commits' = Append(commits, c)
    /\ c.version # 0 /\ (store[c.row] = 0 => c.incoming)
    /\ UNCHANGED <<marks, open, timeline, loading, paging, jumping>>

SavesReaction(r) ==
    /\ commits' = Append(commits, r)
    /\ marks' \in Marks
    /\ r.on <=> r.sender \in marks'[r.row]
    /\ \A m \in Message : \A s \in Sender :
           m # r.row \/ s # r.sender => (s \in marks'[m] <=> s \in marks[m])
    /\ UNCHANGED <<store, sends, open, timeline, loading, paging, jumping>>

LEMMA Versions == {0, 1} \subseteq Version /\ \A v \in Version : v \in Int
  BY ConversationAssumption DEF ConversationAssumption, Version

LEMMA RowsEmpty == NoRows \in Content /\ NoMarks \in Marks
  BY Versions DEF NoRows, NoMarks, Content, Marks

LEMMA SaveMessageSaves ==
    ASSUME StoreTypes, NEW m \in Message, SaveMessage(m)
    PROVE  /\ sends' = sends
           /\ m \notin Sent
           /\ \E c \in Commit : c.row = m /\ Saves(c)
<1> DEFINE v == IF store[m] = 0 THEN 1 ELSE store[m]
           c == [row |-> m, version |-> v, incoming |-> TRUE]
<1>1. v \in Version /\ v # 0 /\ c \in Commit
  BY Versions DEF StoreTypes, Content, Commit
<1>2. store' = [store EXCEPT ![m] = v] /\ store'[m] = v
  BY DEF SaveMessage, StoreTypes, Content
<1>3. commits' = Append(commits, c)
  BY <1>2 DEF SaveMessage
<1>4. Saves(c)
  BY <1>1, <1>2, <1>3 DEF SaveMessage, Saves
<1> QED
  BY <1>1, <1>4 DEF SaveMessage

LEMMA SaveChangeSaves ==
    ASSUME StoreTypes, NEW m \in Message, SaveChange(m)
    PROVE  /\ sends' = sends
           /\ store[m] # 0
           /\ \E c \in Commit : c.row = m /\ Saves(c)
<1> DEFINE v == store[m] + 1
           c == [row |-> m, version |-> v, incoming |-> FALSE]
<1>1. v \in Version /\ v # 0 /\ c \in Commit /\ store[m] # 0
  BY ConversationAssumption
     DEF SaveChange, Commit, Version, ConversationAssumption
<1>2. store' = [store EXCEPT ![m] = v] /\ store'[m] = v
  BY DEF SaveChange, StoreTypes, Content
<1>3. commits' = Append(commits, c)
  BY <1>2 DEF SaveChange
<1>4. Saves(c)
  BY <1>1, <1>2, <1>3 DEF SaveChange, Saves
<1> QED
  BY <1>1, <1>4 DEF SaveChange

LEMMA SaveSentSaves ==
    ASSUME StoreTypes, NEW m \in Sent, SaveSent(m)
    PROVE  /\ sends[m] = "saving" /\ sends' = [sends EXCEPT ![m] = "saved"]
           /\ \E c \in Commit : c.row = m /\ Saves(c)
<1> DEFINE c == [row |-> m, version |-> 1, incoming |-> TRUE]
<1>1. c \in Commit
  BY Versions, ConversationAssumption DEF Commit, ConversationAssumption
<1>2. Saves(c)
  BY <1>1 DEF SaveSent, Saves
<1> QED
  BY <1>1, <1>2 DEF SaveSent

LEMMA SaveReactionSaves ==
    ASSUME StoreTypes, NEW m \in Reacted, NEW s \in Sender, SaveReaction(m, s)
    PROVE  \E r \in Reaction : SavesReaction(r)
<1> DEFINE r == [row |-> m, sender |-> s, on |-> s \in marks'[m]]
<1>1. m \in Message
  BY ConversationAssumption DEF ConversationAssumption
<1>2. (s \in marks'[m]) \in BOOLEAN
  OBVIOUS
<1>3. r \in Reaction
  BY <1>1, <1>2 DEF Reaction
<1>4. marks \in Marks /\ marks' = [marks EXCEPT ![m] = IF s \in @ THEN @ \ {s} ELSE @ \cup {s}]
  BY DEF SaveReaction, StoreTypes
<1>5. /\ marks' \in Marks
      /\ \A k \in Message : \A t \in Sender :
             k # m \/ t # s => (t \in marks'[k] <=> t \in marks[k])
  BY <1>1, <1>4 DEF Marks
<1>6. SavesReaction(r)
  BY <1>5 DEF SaveReaction, SavesReaction
<1> QED
  BY <1>3, <1>6

(* The steps of the conversation itself. *)
ViewStep ==
    \/ \E m \in Message : InitialScroll(m) \/ JumpToQuoted(m) \/ InjectQuoted(m)
    \/ Open \/ Close
    \/ ReadRows \/ ReadMarks \/ LoadFails \/ ApplyHistorySnapshot
    \/ LoadMoreStoredHistory \/ RequestOlderHistory \/ RequestFails \/ WaitedForPhone
    \/ ReadPage \/ ApplyPage \/ ReadSlice \/ ApplySlice
    \/ \E m \in Sent : SendDraft(m) \/ SendReturns(m) \/ SendFails(m) \/ SaveSentFails(m)

LEMMA Steps ==
    ASSUME StoreTypes, Next
    PROVE  \/ \E c \in Commit : Saves(c)
           \/ \E r \in Reaction : SavesReaction(r)
           \/ PublishRow
           \/ PublishReaction
           \/ ViewStep
<1>1. CASE \E m \in Message : SaveMessage(m)
  BY <1>1, SaveMessageSaves
<1>2. CASE \E m \in Editable : SaveChange(m)
  BY <1>2, SaveChangeSaves, ConversationAssumption DEF ConversationAssumption
<1>3. CASE \E m \in Sent : SaveSent(m)
  BY <1>3, SaveSentSaves
<1>4. CASE \E m \in Reacted, s \in Sender : SaveReaction(m, s)
  BY <1>4, SaveReactionSaves
<1> QED
  BY <1>1, <1>2, <1>3, <1>4 DEF Next, ViewStep

LEMMA ViewKeepsStore ==
    ASSUME ViewStep
    PROVE  store' = store /\ commits' = commits
  BY DEF ViewStep, InitialScroll, JumpToQuoted, InjectQuoted, Open, Close, ReadRows, ReadMarks,
         LoadFails, ApplyHistorySnapshot, LoadMoreStoredHistory, RequestOlderHistory,
         RequestFails, WaitedForPhone, ReadPage, ApplyPage, ReadSlice, ApplySlice, SendDraft,
         SendReturns, SendFails, SaveSentFails, saved

-----------------------------------------------------------------------------
(* What a published row does to the queue and to the view. *)
LEMMA PublishedRow ==
    ASSUME StoreTypes, QueueInv, PublishRow
    PROVE  \E c \in Commit :
             /\ c.version # 0
             /\ NoneEmpty(commits') /\ LastIsStored(commits', store)
             /\ \A m : Pending(commits, m) => Pending(commits', m) \/ c.row = m
             /\ \A m : Arriving(commits, m) => \/ Arriving(commits', m)
                                               \/ c.row = m /\ c.incoming
             /\ c.version = store[c.row] \/ Pending(commits', c.row)
             /\ open => /\ messages' = Shown(c) /\ changes' = Kept(c)
                        /\ missed' = IF Misses(c) THEN missed \cup {c.row}
                                                  ELSE missed \ {c.row}
             /\ ~open => UNCHANGED <<messages, changes, missed>>
<1>1. commits # <<>> /\ commits' = Tail(commits) /\ Head(commits) \in Commit
  BY DEF PublishRow
<1>2. NoneEmpty(commits) /\ LastIsStored(commits, store)
  BY DEF QueueInv
<1>3. commits \in Seq(Commit \cup Reaction)
  BY DEF StoreTypes
<1> DEFINE c == Head(commits)
<1>4. /\ open => /\ messages' = Shown(c) /\ changes' = Kept(c)
                 /\ missed' = IF Misses(c) THEN missed \cup {c.row} ELSE missed \ {c.row}
      /\ ~open => UNCHANGED <<messages, changes, missed>>
  BY DEF PublishRow
<1>5. /\ c.version # 0
      /\ NoneEmpty(commits') /\ LastIsStored(commits', store)
      /\ \A m : Pending(commits, m) => Pending(commits', m) \/ c.row = m
      /\ \A m : Arriving(commits, m) => \/ Arriving(commits', m)
                                        \/ c.row = m /\ c.incoming
      /\ c.version = store[c.row] \/ Pending(commits', c.row)
  <2> HIDE DEF c
  <2>1. c \in Commit /\ c = Head(commits)
    BY <1>1 DEF c
  <2> QED
    BY <1>1, <1>2, <1>3, <2>1, TailedQueue
<1> QED
  BY <1>1, <1>4, <1>5

LEMMA PublishedReaction ==
    ASSUME StoreTypes, QueueInv, PublishReaction
    PROVE  /\ NoneEmpty(commits') /\ LastIsStored(commits', store)
           /\ \A m : Pending(commits, m) => Pending(commits', m)
           /\ \A m : Arriving(commits, m) => Arriving(commits', m)
           /\ UNCHANGED <<store, open, messages, changes, load, cursor, page, jump, jumped,
                          missed>>
<1>1. commits # <<>> /\ commits' = Tail(commits) /\ Head(commits) \in Reaction
  BY DEF PublishReaction
<1>2. Head(commits) \notin Commit
  BY <1>1, ReactionIsNoCommit
<1>3. commits \in Seq(Commit \cup Reaction) /\ NoneEmpty(commits) /\ LastIsStored(commits, store)
  BY DEF StoreTypes, QueueInv
<1>4. UNCHANGED <<store, open, messages, changes, load, cursor, page, jump, jumped, missed>>
  BY DEF PublishReaction, saved, paging, jumping
<1> QED
  BY <1>1, <1>2, <1>3, <1>4, TailedQueue

-----------------------------------------------------------------------------
LEMMA StoreTypesStep ==
    ASSUME StoreTypes, Next
    PROVE  StoreTypes'
<1>1. store' \in Content /\ marks' \in Marks /\ commits' \in Seq(Commit \cup Reaction)
  <2>1. CASE \E c \in Commit : Saves(c)
    <3>1. PICK c \in Commit : Saves(c)
      BY <2>1
    <3>2. c.row \in Message /\ c.version \in Version
      BY DEF Commit
    <3>3. store' \in Content
      BY <3>1, <3>2 DEF Saves, StoreTypes, Content
    <3> QED
      BY <3>1, <3>3 DEF Saves, StoreTypes
  <2>2. CASE \E r \in Reaction : SavesReaction(r)
    BY <2>2 DEF SavesReaction, StoreTypes
  <2>3. CASE PublishRow \/ PublishReaction
    <3>1. /\ commits # <<>> /\ commits' = Tail(commits)
          /\ store' = store /\ marks' = marks
      BY <2>3 DEF PublishRow, PublishReaction, saved
    <3>2. Tail(commits) \in Seq(Commit \cup Reaction)
      BY <3>1 DEF StoreTypes
    <3> QED
      BY <3>1, <3>2 DEF StoreTypes
  <2>4. CASE ViewStep
    <3>1. marks' = marks
      BY <2>4 DEF ViewStep, InitialScroll, JumpToQuoted, InjectQuoted, Open, Close, ReadRows,
         ReadMarks, LoadFails, ApplyHistorySnapshot, LoadMoreStoredHistory,
         RequestOlderHistory, RequestFails, WaitedForPhone, ReadPage, ApplyPage, ReadSlice,
         ApplySlice, SendDraft, SendReturns, SendFails, SaveSentFails, saved
    <3> QED
      BY <2>4, <3>1, ViewKeepsStore DEF StoreTypes
  <2> QED
    BY <2>1, <2>2, <2>3, <2>4, Steps
<1>2. sends' \in [Sent -> {"idle", "out", "saving", "saved", "unsaved"}]
  <2>1. CASE \E m \in Sent : \/ SendDraft(m) \/ SendReturns(m) \/ SendFails(m)
                             \/ SaveSentFails(m) \/ SaveSent(m)
    BY <2>1 DEF SendDraft, SendReturns, SendFails, SaveSentFails, SaveSent, StoreTypes
  <2>2. CASE UNCHANGED sends
    BY <2>2 DEF StoreTypes
  <2>3. \/ UNCHANGED sends
        \/ \E m \in Sent : \/ SendDraft(m) \/ SendReturns(m) \/ SendFails(m)
                           \/ SaveSentFails(m) \/ SaveSent(m)
    BY DEF Next, SaveMessage, SaveChange, SaveReaction, PublishRow, PublishReaction,
         InitialScroll, JumpToQuoted, InjectQuoted, Open, Close, ReadRows,
         ReadMarks, LoadFails, ApplyHistorySnapshot, LoadMoreStoredHistory,
         RequestOlderHistory, RequestFails, WaitedForPhone, ReadPage, ApplyPage, ReadSlice,
         ApplySlice, saved
  <2> QED
    BY <2>1, <2>2, <2>3
<1> QED
  BY <1>1, <1>2 DEF StoreTypes

LEMMA QueueStep ==
    ASSUME StoreTypes, QueueInv, Next
    PROVE  QueueInv'
<1>1. CASE \E c \in Commit : Saves(c)
  <2>1. PICK c \in Commit : Saves(c)
    BY <1>1
  <2>2. store \in Content /\ store' \in Content
    BY StoreTypesStep DEF StoreTypes
  <2>3. c.row \in Message
    BY DEF Commit
  <2>4. store'[c.row] = c.version /\ \A m \in Message : m # c.row => store'[m] = store[m]
    BY <2>1, <2>2, <2>3 DEF Saves, Content
  <2>5. commits' = Append(commits, c) /\ c.version # 0
    BY <2>1 DEF Saves
  <2>6. /\ commits \in Seq(Commit \cup Reaction)
        /\ \A k \in 1..Len(commits) : commits[k] \in Commit => commits[k].row \in Message
    BY DEF StoreTypes, Commit
  <2>7. NoneEmpty(commits) /\ LastIsStored(commits, store)
    BY DEF QueueInv
  <2>8. NoneEmpty(Append(commits, c)) /\ LastIsStored(Append(commits, c), store')
    BY <2>2, <2>4, <2>5, <2>6, <2>7, AppendedCommit
  <2> QED
    BY <2>5, <2>8 DEF QueueInv
<1>2. CASE \E r \in Reaction : SavesReaction(r)
  <2>1. PICK r \in Reaction : SavesReaction(r)
    BY <1>2
  <2>2. /\ r \notin Commit /\ commits \in Seq(Commit \cup Reaction)
        /\ NoneEmpty(commits) /\ LastIsStored(commits, store)
    BY ReactionIsNoCommit DEF StoreTypes, QueueInv
  <2>3. NoneEmpty(Append(commits, r)) /\ LastIsStored(Append(commits, r), store)
    BY <2>2, AppendedReaction
  <2> QED
    BY <2>1, <2>3 DEF SavesReaction, QueueInv
<1>3. CASE PublishRow
  <2>1. store' = store
    BY <1>3 DEF PublishRow, saved
  <2> QED
    BY <1>3, <2>1, PublishedRow DEF QueueInv
<1>4. CASE PublishReaction
  BY <1>4, PublishedReaction DEF QueueInv
<1>5. CASE ViewStep
  BY <1>5, ViewKeepsStore DEF QueueInv
<1> QED
  BY <1>1, <1>2, <1>3, <1>4, <1>5, Steps

LEMMA SentStep ==
    ASSUME StoreTypes, SentInv, Next
    PROVE  SentInv'
<1> SUFFICES ASSUME NEW m \in Sent, sends'[m] # "saved"
             PROVE  store'[m] = 0
  BY DEF SentInv
<1>0. m \in Message /\ (sends[m] # "saved" => store[m] = 0)
  BY ConversationAssumption DEF ConversationAssumption, SentInv
<1>1. ASSUME NEW n \in Message, SaveMessage(n)
      PROVE  store'[m] = 0
  <2>1. sends' = sends /\ n \notin Sent /\ store'[m] = store[m]
    BY <1>0, <1>1 DEF SaveMessage, StoreTypes, Content
  <2> QED
    BY <1>0, <2>1
<1>2. ASSUME NEW n \in Editable, SaveChange(n)
      PROVE  store'[m] = 0
  <2>1. sends' = sends /\ store[n] # 0 /\ n \in Message
    BY <1>2, SaveChangeSaves, ConversationAssumption DEF ConversationAssumption
  <2>2. m # n
    BY <1>0, <2>1
  <2> QED
    BY <1>0, <1>2, <2>1, <2>2 DEF SaveChange, StoreTypes, Content
<1>3. ASSUME NEW n \in Sent, SaveSent(n)
      PROVE  store'[m] = 0
  BY <1>0, <1>3 DEF SaveSent, StoreTypes, Content
<1>4. ASSUME NEW n \in Sent, \/ SendDraft(n) \/ SendReturns(n) \/ SendFails(n)
                             \/ SaveSentFails(n)
      PROVE  store'[m] = 0
  BY <1>0, <1>4 DEF SendDraft, SendReturns, SendFails, SaveSentFails, StoreTypes
<1>5. CASE UNCHANGED <<store, sends>>
  BY <1>0, <1>5
<1>6. \/ UNCHANGED <<store, sends>>
      \/ \E n \in Message : SaveMessage(n)
      \/ \E n \in Editable : SaveChange(n)
      \/ \E n \in Sent : \/ SendDraft(n) \/ SendReturns(n) \/ SendFails(n)
                         \/ SaveSentFails(n) \/ SaveSent(n)
  BY DEF Next, SaveReaction, PublishRow, PublishReaction,
         InitialScroll, JumpToQuoted, InjectQuoted, Open, Close, ReadRows,
         ReadMarks, LoadFails, ApplyHistorySnapshot, LoadMoreStoredHistory,
         RequestOlderHistory, RequestFails, WaitedForPhone, ReadPage, ApplyPage, ReadSlice,
         ApplySlice, saved
<1> QED
  BY <1>1, <1>2, <1>3, <1>4, <1>5, <1>6

-----------------------------------------------------------------------------
LEMMA RowsRead ==
    ASSUME StoreTypes, NEW S, S \subseteq Rows(store), NEW n
    PROVE  /\ Newest(S, n) \subseteq Rows(store) /\ Oldest(S, n) \subseteq Rows(store)
           /\ \A T : T \subseteq Rows(store) => /\ Only(store, T) \in Content
                                                /\ Rows(Only(store, T)) = T
<1>1. store \in Content
  BY DEF StoreTypes
<1>2. Newest(S, n) \subseteq Rows(store) /\ Oldest(S, n) \subseteq Rows(store)
  BY DEF Newest, Oldest
<1> QED
  BY <1>1, <1>2, OnlyRows

LEMMA MessagesStep ==
    ASSUME StoreTypes, QueueInv, ViewTypes, Next
    PROVE  messages' \in Content /\ changes' \in Content
<1> USE DEF ViewTypes
<1>1. CASE PublishRow
  <2>1. PICK c \in Commit : /\ open => messages' = Shown(c) /\ changes' = Kept(c)
                            /\ ~open => UNCHANGED <<messages, changes>>
    BY <1>1, PublishedRow
  <2>2. c.row \in Message /\ c.version \in Version
    BY DEF Commit
  <2> QED
    BY <2>1, <2>2 DEF Shown, Kept, Content
<1>2. CASE Open \/ Close
  BY <1>2, RowsEmpty DEF Open, Close, Fresh
<1>3. CASE ApplyHistorySnapshot
  <2>1. load.rows \in Content
    BY DEF Load
  <2> QED
    BY <1>3, <2>1, RowsEmpty DEF ApplyHistorySnapshot, MergedWithSnapshot, Content
<1>4. CASE ApplyPage
  <2>1. page.rows \in Content
    BY DEF Page
  <2> QED
    BY <1>4, <2>1 DEF ApplyPage, Content, loading
<1>5. CASE ApplySlice
  <2>1. jump.rows \in Content
    BY DEF Jump
  <2> QED
    BY <1>5, <2>1 DEF ApplySlice, loading
<1>6. CASE \E m \in Message : InjectQuoted(m)
  BY <1>6 DEF InjectQuoted, StoreTypes, Content, loading
<1>7. CASE \E m \in Sent : SendReturns(m)
  <2>1. PICK m \in Sent : SendReturns(m)
    BY <1>7
  <2> QED
    BY <2>1, Versions DEF SendReturns, Content, loading
<1>8. CASE UNCHANGED <<messages, changes>>
  BY <1>8
<1>9. \/ UNCHANGED <<messages, changes>>
      \/ PublishRow \/ Open \/ Close \/ ApplyHistorySnapshot \/ ApplyPage \/ ApplySlice
      \/ \E m \in Message : InjectQuoted(m)
      \/ \E m \in Sent : SendReturns(m)
  BY Steps DEF Saves, SavesReaction, PublishReaction, ViewStep,
         InitialScroll, JumpToQuoted, ReadRows, ReadMarks, LoadFails,
         LoadMoreStoredHistory, RequestOlderHistory, RequestFails, WaitedForPhone,
         ReadPage, ReadSlice, SendDraft, SendFails, SaveSentFails, timeline, loading
<1> QED
  BY <1>1, <1>2, <1>3, <1>4, <1>5, <1>6, <1>7, <1>8, <1>9

LEMMA SendsShownStep ==
    ASSUME StoreTypes, ViewTypes, Next
    PROVE  temps' \subseteq Sent /\ mine' \subseteq Sent
<1>1. temps \subseteq Sent /\ mine \subseteq Sent
  BY DEF ViewTypes
<1>2. CASE UNCHANGED <<temps, mine>>
  BY <1>1, <1>2
<1>3. CASE Open \/ Close \/ ApplySlice
  BY <1>1, <1>3 DEF Open, Close, Fresh, ApplySlice
<1>4. CASE \E m \in Sent : SendDraft(m) \/ SendReturns(m) \/ SendFails(m)
  BY <1>1, <1>4 DEF SendDraft, SendReturns, SendFails
<1>5. \/ UNCHANGED <<temps, mine>>
      \/ Open \/ Close \/ ApplySlice
      \/ \E m \in Sent : SendDraft(m) \/ SendReturns(m) \/ SendFails(m)
  BY Steps DEF Saves, SavesReaction, PublishRow, PublishReaction, ViewStep,
         InitialScroll, JumpToQuoted, InjectQuoted, ReadRows, ReadMarks, LoadFails,
         ApplyHistorySnapshot, LoadMoreStoredHistory, RequestOlderHistory, RequestFails,
         WaitedForPhone, ReadPage, ApplyPage, ReadSlice, SaveSentFails, timeline
<1> QED
  BY <1>2, <1>3, <1>4, <1>5

LEMMA LoadStep ==
    ASSUME StoreTypes, ViewTypes, Next
    PROVE  load' \in Load
<1>1. load \in Load /\ store \in Content /\ marks \in Marks
  BY DEF ViewTypes, StoreTypes
<1>2. CASE UNCHANGED load
  BY <1>1, <1>2
<1>3. NoLoad \in Load
  BY RowsEmpty DEF NoLoad, Load
<1>4. CASE Open \/ Close \/ ApplyHistorySnapshot \/ LoadFails
  BY <1>1, <1>3, <1>4 DEF Open, Close, ApplyHistorySnapshot, LoadFails, Load
<1>5. CASE ReadRows
  <2> DEFINE S == Rows(store)
             r == Only(store, Newest(S, LoadLimit))
             b == Cardinality(S) > LoadLimit
  <2>1. r \in Content
    BY RowsRead
  <2>2. b \in BOOLEAN
    OBVIOUS
  <2>3. load' = [load EXCEPT !.stage = "rows", !.rows = r, !.more = b]
    BY <1>5 DEF ReadRows
  <2> HIDE DEF r, b
  <2> QED
    BY <1>1, <2>1, <2>2, <2>3 DEF Load
<1>6. CASE ReadMarks
  <2> DEFINE f == [m \in Message |-> IF load.rows[m] # 0 THEN marks[m] ELSE {}]
  <2>1. f \in Marks
    BY <1>1 DEF Marks
  <2>2. load' = [load EXCEPT !.stage = "built", !.marks = f]
    BY <1>6 DEF ReadMarks
  <2> HIDE DEF f
  <2> QED
    BY <1>1, <2>1, <2>2 DEF Load
<1>7. \/ UNCHANGED load
      \/ Open \/ Close \/ ApplyHistorySnapshot \/ LoadFails \/ ReadRows \/ ReadMarks
  BY Steps DEF Saves, SavesReaction, PublishRow, PublishReaction, ViewStep,
         InitialScroll, JumpToQuoted, InjectQuoted, LoadMoreStoredHistory,
         RequestOlderHistory, RequestFails, WaitedForPhone, ReadPage, ApplyPage, ReadSlice,
         ApplySlice, SendDraft, SendReturns, SendFails, SaveSentFails, loading
<1> QED
  BY <1>2, <1>4, <1>5, <1>6, <1>7

LEMMA PageStep ==
    ASSUME StoreTypes, ViewTypes, Next
    PROVE  page' \in Page
<1>1. page \in Page /\ store \in Content
  BY DEF ViewTypes, StoreTypes
<1>2. CASE UNCHANGED page
  BY <1>1, <1>2
<1>a. 0 \in Tries /\ 1 \in Tries /\ \A n \in Tries : n + 1 \in Tries
  BY DEF Tries
<1>3. NoPage \in Page
  BY <1>a, RowsEmpty DEF NoPage, Page
<1>4. CASE Open \/ Close \/ RequestFails
  BY <1>3, <1>4 DEF Open, Close, Fresh, RequestFails
<1>5. CASE LoadMoreStoredHistory \/ RequestOlderHistory
  <2>1. \/ page' = [NoPage EXCEPT !.stage = "fetch", !.tries = 1]
        \/ page' = [NoPage EXCEPT !.stage = "phone", !.by = "phone"]
    BY <1>5 DEF LoadMoreStoredHistory, RequestOlderHistory
  <2> QED
    BY <1>3, <1>a, <2>1 DEF Page
<1>6. CASE WaitedForPhone
  <2>1. page' = NoPage \/ page' = [page EXCEPT !.stage = "fetch", !.tries = 1]
    BY <1>6 DEF WaitedForPhone
  <2> QED
    BY <1>1, <1>3, <1>a, <2>1 DEF Page
<1>7. CASE ReadPage
  <2> DEFINE r == Only(store, PageRows)
             b == \E m \in Rows(store) : m < cursor /\ m \notin PageRows
  <2>1. r \in Content
    BY RowsRead DEF PageRows
  <2>2. b \in BOOLEAN
    OBVIOUS
  <2>3. page' = [page EXCEPT !.stage = "read", !.rows = r, !.more = b]
    BY <1>7 DEF ReadPage
  <2> HIDE DEF r, b
  <2> QED
    BY <1>1, <2>1, <2>2, <2>3 DEF Page
<1>8. CASE ApplyPage
  <2>1. \/ page' = NoPage
        \/ page' = [NoPage EXCEPT !.stage = "fetch", !.by = page.by, !.tries = page.tries + 1]
    BY <1>8 DEF ApplyPage
  <2>2. page.by \in {"scroll", "phone"} /\ page.tries + 1 \in Tries
    BY <1>1, <1>a DEF Page
  <2> QED
    BY <1>3, <2>1, <2>2 DEF Page
<1>9. \/ UNCHANGED page
      \/ Open \/ Close \/ RequestFails \/ LoadMoreStoredHistory \/ RequestOlderHistory
      \/ WaitedForPhone \/ ReadPage \/ ApplyPage
  BY Steps DEF Saves, SavesReaction, PublishRow, PublishReaction, ViewStep,
         InitialScroll, JumpToQuoted, InjectQuoted, ReadRows, ReadMarks, LoadFails,
         ApplyHistorySnapshot, ReadSlice, ApplySlice, SendDraft, SendReturns, SendFails,
         SaveSentFails, paging
<1> QED
  BY <1>2, <1>4, <1>5, <1>6, <1>7, <1>8, <1>9

LEMMA JumpStep ==
    ASSUME StoreTypes, ViewTypes, Next
    PROVE  jump' \in Jump
<1>1. jump \in Jump /\ store \in Content
  BY DEF ViewTypes, StoreTypes
<1>2. CASE UNCHANGED jump
  BY <1>1, <1>2
<1>3. NoJump \in Jump
  BY RowsEmpty DEF NoJump, Jump
<1>4. CASE Open \/ Close \/ ApplySlice
  BY <1>3, <1>4 DEF Open, Close, Fresh, ApplySlice
<1>5. CASE \E m \in Message : InitialScroll(m)
  <2>1. PICK m \in Message : jump' = NoJump
                             \/ jump' = [NoJump EXCEPT !.stage = "fetch", !.target = m]
    BY <1>5 DEF InitialScroll
  <2> QED
    BY <1>3, <2>1 DEF Jump
<1>6. CASE \E m \in Message : JumpToQuoted(m)
  <2>1. JumpSize \div 2 \in Int
    BY ConversationAssumption DEF ConversationAssumption
  <2>2. PICK m \in Message : jump' = [NoJump EXCEPT !.stage = "fetch", !.target = m,
                                                    !.before = JumpSize \div 2]
    BY <1>6 DEF JumpToQuoted
  <2> QED
    BY <1>3, <2>1, <2>2 DEF Jump
<1>7. CASE ReadSlice
  <2> DEFINE S == Rows(store)
             slice == Newest({m \in S : m < jump.target}, jump.before)
                      \cup Oldest({m \in S : m >= jump.target}, JumpSize - jump.before)
             r == Only(store, slice)
  <2>1. r \in Content
    <3>1. slice \subseteq S
      BY RowsRead
    <3> QED
      BY <3>1, RowsRead
  <2>2. jump' = NoJump \/ jump' = [jump EXCEPT !.stage = "read", !.rows = r]
    BY <1>7 DEF ReadSlice
  <2> HIDE DEF r
  <2> QED
    BY <1>1, <1>3, <2>1, <2>2 DEF Jump
<1>8. \/ UNCHANGED jump
      \/ Open \/ Close \/ ApplySlice \/ ReadSlice
      \/ \E m \in Message : InitialScroll(m)
      \/ \E m \in Message : JumpToQuoted(m)
  BY Steps DEF Saves, SavesReaction, PublishRow, PublishReaction, ViewStep,
         InjectQuoted, ReadRows, ReadMarks, LoadFails,
         ApplyHistorySnapshot, LoadMoreStoredHistory, RequestOlderHistory, RequestFails,
         WaitedForPhone, ReadPage, ApplyPage, SendDraft, SendReturns, SendFails,
         SaveSentFails, jumping
<1> QED
  BY <1>2, <1>4, <1>5, <1>6, <1>7, <1>8

LEMMA CursorStep ==
    ASSUME StoreTypes, ViewTypes, Next
    PROVE  cursor' \in Message \cup {None}
<1>1. cursor \in Message \cup {None}
  BY DEF ViewTypes
<1>2. \A f : Rows(f) # {} => Min(Rows(f)) \in Message
  BY RowsMin DEF Rows
<1>3. CASE Open \/ Close
  BY <1>3 DEF Open, Close, Fresh
<1>4. CASE ApplyHistorySnapshot \/ ApplyPage
  BY <1>1, <1>2, <1>4 DEF ApplyHistorySnapshot, ApplyPage
<1>5. UNCHANGED cursor \/ Open \/ Close \/ ApplyHistorySnapshot \/ ApplyPage
  BY Steps DEF Saves, SavesReaction, PublishRow, PublishReaction, ViewStep,
         InitialScroll, JumpToQuoted, InjectQuoted, ReadRows, ReadMarks, LoadFails,
         LoadMoreStoredHistory, RequestOlderHistory, RequestFails, WaitedForPhone,
         ReadPage, ReadSlice, ApplySlice, SendDraft, SendReturns, SendFails,
         SaveSentFails, paging
<1> QED
  BY <1>1, <1>3, <1>4, <1>5

LEMMA ViewTypesStep ==
    ASSUME StoreTypes, QueueInv, ViewTypes, Next
    PROVE  ViewTypes'
  BY MessagesStep, SendsShownStep, LoadStep, PageStep, JumpStep, CursorStep DEF ViewTypes

-----------------------------------------------------------------------------
LEMMA KeptStep ==
    ASSUME StoreTypes, QueueInv, ViewTypes, KeptForLoad, Next
    PROVE  KeptForLoad'
<1>1. load \in Load
  BY DEF ViewTypes
<1>2. CASE PublishRow
  <2>1. load' = load
    BY <1>2 DEF PublishRow
  <2>2. changes' = changes \/ \E c \in Commit : changes' = Kept(c)
    BY <1>2, PublishedRow
  <2> QED
    BY <2>1, <2>2 DEF KeptForLoad, LoadUnderWay, Kept
<1>3. CASE Open \/ Close \/ ApplyHistorySnapshot
  BY <1>3 DEF Open, Close, Fresh, ApplyHistorySnapshot, KeptForLoad
<1>4. CASE ReadRows \/ ReadMarks \/ LoadFails
  <2>1. load'.stage \in {"rows", "built", "failed"}
    BY <1>1, <1>4 DEF ReadRows, ReadMarks, LoadFails, Load
  <2> QED
    BY <2>1 DEF KeptForLoad, LoadUnderWay
<1>5. CASE UNCHANGED <<load, changes>>
  BY <1>5 DEF KeptForLoad, LoadUnderWay
<1>6. \/ UNCHANGED <<load, changes>>
      \/ PublishRow \/ Open \/ Close \/ ApplyHistorySnapshot
      \/ ReadRows \/ ReadMarks \/ LoadFails
  BY Steps DEF Saves, SavesReaction, PublishReaction, ViewStep,
         InitialScroll, JumpToQuoted, InjectQuoted, LoadMoreStoredHistory,
         RequestOlderHistory, RequestFails, WaitedForPhone, ReadPage, ApplyPage, ReadSlice,
         ApplySlice, SendDraft, SendReturns, SendFails, SaveSentFails, loading
<1> QED
  BY <1>2, <1>3, <1>4, <1>5, <1>6

LEMMA ClosedStep ==
    ASSUME StoreTypes, QueueInv, ClosedInv, Next
    PROVE  ClosedInv'
<1>1. CASE Open \/ Close
  BY <1>1 DEF Open, Close, Fresh, ClosedInv, NoLoad, NoPage, NoJump
<1>2. CASE open
  <2>1. open' \/ Open \/ Close
    BY <1>2, Steps DEF Saves, SavesReaction, PublishRow, PublishReaction, ViewStep,
         InitialScroll, JumpToQuoted, InjectQuoted, ReadRows, ReadMarks, LoadFails,
         ApplyHistorySnapshot, LoadMoreStoredHistory, RequestOlderHistory, RequestFails,
         WaitedForPhone, ReadPage, ApplyPage, ReadSlice, ApplySlice, SendDraft, SendReturns,
         SendFails, SaveSentFails
  <2> QED
    BY <1>1, <2>1 DEF ClosedInv
<1>3. CASE ~open
  <2>1. /\ messages = NoRows /\ mine = {}
        /\ load.stage = "none" /\ page.stage = "none" /\ jump.stage = "none"
    BY <1>3 DEF ClosedInv
  <2>2. CASE Open
    BY <1>1, <2>2
  <2>3. CASE UNCHANGED <<open, messages, mine, load, page, jump>>
    BY <2>1, <2>3 DEF ClosedInv
  <2>4. CASE \E m \in Sent : SendReturns(m) \/ SendFails(m)
    BY <2>1, <2>4 DEF SendReturns, SendFails, ClosedInv, loading, paging, jumping
  <2>5. PublishRow => UNCHANGED messages
    BY <1>3, PublishedRow
  <2>6. \/ UNCHANGED <<open, messages, mine, load, page, jump>>
        \/ Open
        \/ \E m \in Sent : SendReturns(m) \/ SendFails(m)
    BY <1>3, <2>1, <2>5, Steps
       DEF Saves, SavesReaction, PublishRow, PublishReaction, ViewStep,
         InitialScroll, JumpToQuoted, InjectQuoted, Close, ReadRows, ReadMarks, LoadFails,
         ApplyHistorySnapshot, LoadMoreStoredHistory, RequestOlderHistory, RequestFails,
         WaitedForPhone, ReadPage, ApplyPage, ReadSlice, ApplySlice, SendDraft,
         SaveSentFails, timeline, loading, paging, jumping
  <2> QED
    BY <2>2, <2>3, <2>4, <2>6
<1> QED
  BY <1>2, <1>3

-----------------------------------------------------------------------------
(* A row of f that differs from the stored one. *)
Stale(f, m) == store[m] # 0 /\ f[m] \notin {0, store[m]}

(* A stale row is waited for, wherever it was read or kept; a page or a    *)
(* jump may have missed what came after it had read the row.               *)
RowOk(m) ==
    /\ Stale(messages, m) => Pending(commits, m) \/ m \in missed
    /\ Stale(changes, m) => Pending(commits, m)
    /\ load.stage \in {"rows", "built"} /\ Stale(load.rows, m)
           => Pending(commits, m) \/ changes[m] # 0
    /\ page.stage = "read" /\ Stale(page.rows, m) => Pending(commits, m) \/ m \in missed
    /\ jump.stage = "read" /\ Stale(jump.rows, m) => Pending(commits, m) \/ m \in missed

RowsInv == \A m \in Message : RowOk(m)

Inv ==
    /\ StoreTypes /\ QueueInv /\ SentInv
    /\ ViewTypes /\ KeptForLoad /\ ClosedInv
    /\ RowsInv

LEMMA RowsSaved ==
    ASSUME Inv, NEW m \in Message,
           \/ \E c \in Commit : Saves(c)
           \/ \E r \in Reaction : SavesReaction(r)
    PROVE  RowOk(m)'
<1>1. RowOk(m) /\ commits \in Seq(Commit \cup Reaction) /\ store \in Content
  BY DEF Inv, RowsInv, StoreTypes
<1>2. CASE \E c \in Commit : Saves(c)
  <2>1. PICK c \in Commit : Saves(c)
    BY <1>2
  <2>2. /\ Pending(commits, m) => Pending(commits', m)
        /\ c.row = m => Pending(commits', m)
    BY <1>1, <2>1, AppendedQueue DEF Saves
  <2>3. UNCHANGED <<messages, missed, changes, load, page, jump>>
    BY <2>1 DEF Saves, timeline, loading, paging, jumping
  <2>4. CASE c.row = m
    BY <2>2, <2>4 DEF RowOk
  <2>5. CASE c.row # m
    <3>1. store'[m] = store[m]
      BY <1>1, <2>1, <2>5 DEF Saves, Content
    <3> QED
      BY <1>1, <2>2, <2>3, <3>1 DEF RowOk, Stale
  <2> QED
    BY <2>4, <2>5
<1>3. CASE \E r \in Reaction : SavesReaction(r)
  <2>1. PICK r \in Reaction : SavesReaction(r)
    BY <1>3
  <2>2. Pending(commits, m) => Pending(commits', m)
    BY <1>1, <2>1, AppendedQueue DEF SavesReaction
  <2>3. UNCHANGED <<store, messages, missed, changes, load, page, jump>>
    BY <2>1 DEF SavesReaction, timeline, loading, paging, jumping
  <2> QED
    BY <1>1, <2>2, <2>3 DEF RowOk, Stale
<1> QED
  BY <1>2, <1>3

LEMMA RowsPublished ==
    ASSUME Inv, NEW m \in Message, PublishRow
    PROVE  RowOk(m)'
<1>1. RowOk(m) /\ messages \in Content /\ changes \in Content
  BY DEF Inv, RowsInv, ViewTypes
<1>2. PICK c \in Commit :
        /\ c.version # 0
        /\ \A n : Pending(commits, n) => Pending(commits', n) \/ c.row = n
        /\ c.version = store[c.row] \/ Pending(commits', c.row)
        /\ open => /\ messages' = Shown(c) /\ changes' = Kept(c)
                   /\ missed' = IF Misses(c) THEN missed \cup {c.row} ELSE missed \ {c.row}
        /\ ~open => UNCHANGED <<messages, changes, missed>>
  BY PublishedRow DEF Inv
<1>3. UNCHANGED <<store, load, page, jump>>
  BY DEF PublishRow, saved, paging
<1>4. CASE c.row # m
  <2>1. messages'[m] = messages[m] /\ changes'[m] = changes[m]
    BY <1>1, <1>2, <1>4 DEF Shown, Kept, Content
  <2>2. (m \in missed') <=> (m \in missed)
    BY <1>2, <1>4
  <2> QED
    BY <1>1, <1>2, <1>3, <1>4, <2>1, <2>2 DEF RowOk, Stale
<1>5. CASE c.row = m /\ Pending(commits', m)
  BY <1>5 DEF RowOk
<1>6. CASE c.row = m /\ open /\ c.version = store[m]
  <2>1. messages'[m] \in {0, store[m]}
    BY <1>1, <1>2, <1>6 DEF Shown, Content
  <2>2. LoadUnderWay => changes'[m] = store[m]
    BY <1>1, <1>2, <1>6 DEF Kept, Content
  <2>3. ~LoadUnderWay => changes'[m] = 0
    BY <1>2, <1>6 DEF Kept, Inv, KeptForLoad, NoRows
  <2>4. page.stage = "read" /\ Stale(page.rows, m) => m \in missed'
    BY <1>2, <1>6 DEF Stale, Misses
  <2>5. jump.stage = "read" /\ Stale(jump.rows, m) => m \in missed'
    BY <1>2, <1>6 DEF Stale, Misses
  <2>6. load.stage \in {"rows", "built"} => LoadUnderWay
    BY DEF LoadUnderWay
  <2>7. store[m] # 0
    BY <1>2, <1>6
  <2> QED
    BY <1>3, <2>1, <2>2, <2>3, <2>4, <2>5, <2>6, <2>7 DEF RowOk, Stale
<1>7. CASE ~open
  <2>1. /\ messages = NoRows /\ load.stage = "none" /\ page.stage = "none"
        /\ jump.stage = "none" /\ changes = NoRows
    BY <1>7 DEF Inv, ClosedInv, KeptForLoad, LoadUnderWay
  <2>2. messages'[m] = 0 /\ changes'[m] = 0
    BY <1>2, <1>7, <2>1 DEF NoRows
  <2> QED
    BY <1>3, <2>1, <2>2 DEF RowOk, Stale
<1> QED
  BY <1>2, <1>4, <1>5, <1>6, <1>7

(* The updates of a page or a jump that has not been read. *)
Asked == [NoPage EXCEPT !.stage = "phone", !.by = "phone"]
Fetched(p, n) == [p EXCEPT !.stage = "fetch", !.tries = n]
Refetched(b, n) == [NoPage EXCEPT !.stage = "fetch", !.by = b, !.tries = n]
From(t) == [NoJump EXCEPT !.stage = "fetch", !.target = t]
Around(t, n) == [NoJump EXCEPT !.stage = "fetch", !.target = t, !.before = n]

LEMMA NotRead ==
    /\ NoPage.stage = "none" /\ Asked.stage = "phone"
    /\ \A n : Fetched(NoPage, n).stage = "fetch"
    /\ \A p \in Page : \A n : Fetched(p, n).stage = "fetch"
    /\ \A b, n : Refetched(b, n).stage = "fetch"
    /\ NoJump.stage = "none"
    /\ \A t : From(t).stage = "fetch"
    /\ \A t, n : Around(t, n).stage = "fetch"
  BY DEF NoPage, NoJump, Page, Asked, Fetched, Refetched, From, Around

LEMMA PageUnread ==
    ASSUME page \in Page,
           \/ LoadMoreStoredHistory \/ RequestOlderHistory \/ RequestFails \/ WaitedForPhone
           \/ ApplyPage
    PROVE  page'.stage # "read"
<1>1. \/ page' = NoPage \/ page' = Asked
      \/ page' = Fetched(NoPage, 1) \/ page' = Fetched(page, 1)
      \/ page' = Refetched(page.by, page.tries + 1)
  BY DEF LoadMoreStoredHistory, RequestOlderHistory, RequestFails, WaitedForPhone, ApplyPage,
         Asked, Fetched, Refetched
<1>2. page'.stage \in {"none", "fetch", "phone"}
  BY <1>1, NotRead
<1> QED
  BY <1>2

LEMMA JumpUnread ==
    ASSUME NEW t, InitialScroll(t) \/ JumpToQuoted(t)
    PROVE  jump'.stage # "read"
<1>1. jump' = NoJump \/ jump' = From(t) \/ jump' = Around(t, JumpSize \div 2)
  BY DEF InitialScroll, JumpToQuoted, From, Around
<1>2. jump'.stage \in {"none", "fetch"}
  BY <1>1, NotRead
<1> QED
  BY <1>2

LEMMA RowsSeen ==
    ASSUME Inv, NEW m \in Message, ViewStep
    PROVE  RowOk(m)'
<1>1. /\ RowOk(m)
      /\ messages \in Content /\ changes \in Content /\ store \in Content
      /\ load \in Load /\ page \in Page /\ jump \in Jump
  BY DEF Inv, RowsInv, ViewTypes, StoreTypes
<1>2. store' = store /\ commits' = commits
  BY ViewKeepsStore
<1>3. CASE Open \/ Close
  <2>1. /\ messages'[m] = 0 /\ changes'[m] = 0
        /\ load'.stage \in {"none", "preparing"} /\ page'.stage = "none" /\ jump'.stage = "none"
    BY <1>3 DEF Open, Close, Fresh, NoRows, NoLoad, NoPage, NoJump
  <2> QED
    BY <2>1 DEF RowOk, Stale
<1>4. CASE ReadRows
  <2>1. load'.rows[m] \in {0, store[m]}
    <3>1. Newest(Rows(store), LoadLimit) \subseteq Rows(store)
      BY DEF Newest
    <3>2. Only(store, Newest(Rows(store), LoadLimit))[m] \in {0, store[m]}
      BY <1>1, <3>1, OnlyRows
    <3> QED
      BY <1>1, <1>4, <3>2 DEF ReadRows, Load
  <2>2. UNCHANGED <<messages, changes, page, jump, missed>>
    BY <1>4 DEF ReadRows, timeline, paging, jumping
  <2> QED
    BY <1>1, <1>2, <2>1, <2>2 DEF RowOk, Stale
<1>5. CASE ReadMarks \/ LoadFails
  <2>1. load'.rows = load.rows /\ (load'.stage = "failed" \/ load.stage = "rows")
    BY <1>1, <1>5 DEF ReadMarks, LoadFails, Load
  <2>2. UNCHANGED <<messages, changes, page, jump, missed>>
    BY <1>5 DEF ReadMarks, LoadFails, timeline, paging, jumping
  <2> QED
    BY <1>1, <1>2, <2>1, <2>2 DEF RowOk, Stale
<1>6. CASE ApplyHistorySnapshot
  <2>1. load.stage = "built" /\ messages' = MergedWithSnapshot
        /\ UNCHANGED <<page, jump, missed>>
        /\ changes'[m] = 0 /\ load'.stage = "done"
    BY <1>6 DEF ApplyHistorySnapshot, jumping, NoRows, NoLoad
  <2>2. messages'[m] = IF load.rows[m] = 0 THEN messages[m]
                       ELSE IF changes[m] # 0 THEN changes[m]
                       ELSE IF messages[m] # 0 THEN messages[m]
                       ELSE load.rows[m]
    BY <2>1 DEF MergedWithSnapshot
  <2> QED
    BY <1>1, <1>2, <2>1, <2>2 DEF RowOk, Stale
<1>7. CASE LoadMoreStoredHistory \/ RequestOlderHistory \/ RequestFails \/ WaitedForPhone
  <2>1. page'.stage # "read"
    BY <1>1, <1>7, PageUnread
  <2>2. UNCHANGED <<messages, changes, load, jump, missed>>
    BY <1>7 DEF LoadMoreStoredHistory, RequestOlderHistory, RequestFails,
                WaitedForPhone, timeline, loading, jumping
  <2> QED
    BY <1>1, <1>2, <2>1, <2>2 DEF RowOk, Stale
<1>8. CASE ReadPage
  <2>1. page'.rows[m] \in {0, store[m]}
    <3>1. PageRows \subseteq Rows(store)
      BY DEF PageRows, Newest
    <3>2. Only(store, PageRows)[m] \in {0, store[m]}
      BY <1>1, <3>1, OnlyRows
    <3> QED
      BY <1>1, <1>8, <3>2 DEF ReadPage, Page
  <2>2. UNCHANGED <<messages, changes, load, jump, missed>>
    BY <1>8 DEF ReadPage, timeline, loading, jumping
  <2> QED
    BY <1>1, <1>2, <2>1, <2>2 DEF RowOk, Stale
<1>9. CASE ApplyPage
  <2>1. page.stage = "read" /\ UNCHANGED <<changes, load, jump, missed>>
    BY <1>9 DEF ApplyPage, loading, jumping
  <2>2. messages'[m] \in {messages[m], page.rows[m]}
    BY <1>9 DEF ApplyPage
  <2>3. page'.stage # "read"
    BY <1>1, <1>9, PageUnread
  <2> QED
    BY <1>1, <1>2, <2>1, <2>2, <2>3 DEF RowOk, Stale
<1>10. CASE \E t \in Message : InitialScroll(t) \/ JumpToQuoted(t)
  <2>1. jump'.stage # "read"
    BY <1>10, JumpUnread
  <2>2. UNCHANGED <<messages, changes, load, page, missed>>
    BY <1>10 DEF InitialScroll, JumpToQuoted, timeline, loading, paging
  <2> QED
    BY <1>1, <1>2, <2>1, <2>2 DEF RowOk, Stale
<1>11. CASE \E t \in Message : InjectQuoted(t)
  <2>1. messages'[m] \in {messages[m], store[m]}
    BY <1>1, <1>11 DEF InjectQuoted, Content
  <2>2. UNCHANGED <<changes, load, page, jump, missed>>
    BY <1>11 DEF InjectQuoted, loading, paging, jumping
  <2> QED
    BY <1>1, <1>2, <2>1, <2>2 DEF RowOk, Stale
<1>12. CASE ReadSlice
  <2> DEFINE S == Rows(store)
             slice == Newest({n \in S : n < jump.target}, jump.before)
                      \cup Oldest({n \in S : n >= jump.target}, JumpSize - jump.before)
  <2>1. jump'.stage = "read" => jump'.rows[m] \in {0, store[m]}
    <3>1. slice \subseteq Rows(store)
      BY DEF Newest, Oldest
    <3>2. Only(store, slice)[m] \in {0, store[m]}
      BY <1>1, <3>1, OnlyRows
    <3>3. jump' = NoJump \/ jump' = [jump EXCEPT !.stage = "read", !.rows = Only(store, slice)]
      BY <1>12 DEF ReadSlice
    <3>4. NoJump.stage = "none"
      BY DEF NoJump
    <3>5. [jump EXCEPT !.stage = "read", !.rows = Only(store, slice)].rows = Only(store, slice)
      BY <1>1 DEF Jump
    <3> HIDE DEF slice
    <3> QED
      BY <3>2, <3>3, <3>4, <3>5
  <2>2. UNCHANGED <<messages, changes, load, page, missed>>
    BY <1>12 DEF ReadSlice, timeline, loading, paging
  <2> QED
    BY <1>1, <1>2, <2>1, <2>2 DEF RowOk, Stale
<1>13. CASE ApplySlice
  <2>1. /\ jump.stage = "read" /\ messages' = jump.rows /\ jump'.stage = "none"
        /\ UNCHANGED <<changes, load, page, missed>>
    BY <1>13 DEF ApplySlice, loading, paging, NoJump
  <2> QED
    BY <1>1, <1>2, <2>1 DEF RowOk, Stale
<1>14. CASE \E n \in Sent : SendReturns(n)
  <2>1. PICK n \in Sent : SendReturns(n)
    BY <1>14
  <2>2. store[n] = 0
    BY <2>1 DEF SendReturns, Inv, SentInv
  <2>3. m # n => messages'[m] = messages[m]
    BY <1>1, <2>1 DEF SendReturns, Content
  <2>4. UNCHANGED <<changes, load, page, jump, missed>>
    BY <2>1 DEF SendReturns, loading, paging, jumping
  <2> QED
    BY <1>1, <1>2, <2>2, <2>3, <2>4 DEF RowOk, Stale
<1>15. CASE \E n \in Sent : SendDraft(n) \/ SendFails(n) \/ SaveSentFails(n)
  <2>1. UNCHANGED <<messages, changes, load, page, jump, missed>>
    BY <1>15 DEF SendDraft, SendFails, SaveSentFails, timeline, loading, paging, jumping
  <2> QED
    BY <1>1, <1>2, <2>1 DEF RowOk, Stale
<1> QED
  BY <1>3, <1>4, <1>5, <1>6, <1>7, <1>8, <1>9, <1>10, <1>11, <1>12, <1>13, <1>14, <1>15
     DEF ViewStep

-----------------------------------------------------------------------------
(* Every row of f is newer. *)
Older(f, m) == Rows(f) # {} /\ m < Min(Rows(f))

(* A stored row that is not shown is waited for, or it is among those just *)
(* read, or older than all of them.                                        *)
WindowOk(m) ==
    store[m] # 0 /\ ~jumped /\ messages[m] = 0 /\ ~Arriving(commits, m) =>
        /\ load.stage \in {"rows", "built"} => load.rows[m] # 0 \/ Older(load.rows, m)
        /\ load.stage = "done" => m < cursor
        /\ page.stage = "read" /\ m < cursor => page.rows[m] # 0 \/ Older(page.rows, m)

(* Pages are read after the history is loaded. *)
LoadedFirst == cursor # None \/ page.stage \in {"fetch", "read"} => load.stage = "done"

WindowInv == LoadedFirst /\ \A m \in Message : WindowOk(m)

(* What is older than the newest rows of S, or among them. *)
LEMMA NewestOrOlder ==
    ASSUME StoreTypes, NEW S, S \subseteq Rows(store), NEW n \in Nat \ {0}, NEW m \in S
    PROVE  \/ Only(store, Newest(S, n))[m] # 0
           \/ Older(Only(store, Newest(S, n)), m)
<1> DEFINE T == Newest(S, n)
<1>1. S \subseteq Message /\ m \in Message
  BY DEF Rows
<1>2. T \subseteq Rows(store) /\ Rows(Only(store, T)) = T
  <2>1. T \subseteq S
    BY DEF Newest
  <2> QED
    BY <2>1, RowsRead
<1>3. CASE m \in T
  BY <1>1, <1>2, <1>3 DEF Rows
<1>4. CASE m \notin T
  <2>1. T # {} /\ m < Min(T)
    BY <1>1, <1>4, NewestRows
  <2> HIDE DEF T
  <2>2. Older(Only(store, T), m)
    BY <1>2, <2>1 DEF Older
  <2> QED
    BY <2>2 DEF T
<1> QED
  BY <1>3, <1>4

LEMMA LoadedFirstStep ==
    ASSUME StoreTypes, ViewTypes, LoadedFirst, Next
    PROVE  LoadedFirst'
<1>1. load \in Load /\ page \in Page
  BY DEF ViewTypes
<1>2. CASE Open \/ Close
  BY <1>2 DEF Open, Close, Fresh, NoPage, LoadedFirst
<1>3. CASE ReadRows \/ ReadMarks \/ LoadFails
  <2>1. load.stage # "done" /\ UNCHANGED <<cursor, page>>
    BY <1>3 DEF ReadRows, ReadMarks, LoadFails, paging
  <2> QED
    BY <2>1 DEF LoadedFirst
<1>4. CASE ApplyHistorySnapshot
  <2>1. load'.stage = "done"
    BY <1>4 DEF ApplyHistorySnapshot, NoLoad
  <2> QED
    BY <2>1 DEF LoadedFirst
<1>5. CASE load' = load /\ load.stage = "done"
  BY <1>5 DEF LoadedFirst
<1>6. CASE RequestOlderHistory \/ RequestFails \/ WaitedForPhone
  <2>1. load' = load /\ cursor' = cursor
    BY <1>6 DEF RequestOlderHistory, RequestFails, WaitedForPhone, loading
  <2>2. CASE cursor # None
    BY <2>1, <2>2 DEF LoadedFirst
  <2>3. CASE cursor = None
    <3>1. page' = NoPage \/ page' = Asked
      BY <1>6, <2>3 DEF RequestOlderHistory, RequestFails, WaitedForPhone, Asked
    <3>2. page'.stage \in {"none", "phone"}
      BY <3>1, NotRead
    <3> QED
      BY <2>1, <2>3, <3>2 DEF LoadedFirst
  <2> QED
    BY <2>2, <2>3
<1>7. CASE LoadMoreStoredHistory \/ ReadPage \/ ApplyPage
  <2>1. /\ load' = load
        /\ cursor # None \/ page.stage \in {"fetch", "read"}
    BY <1>7 DEF LoadMoreStoredHistory, ReadPage, ApplyPage, loading
  <2> QED
    BY <1>5, <2>1 DEF LoadedFirst
<1>8. CASE UNCHANGED <<load, cursor, page>>
  BY <1>8 DEF LoadedFirst
<1>9. \/ UNCHANGED <<load, cursor, page>>
      \/ Open \/ Close \/ ReadRows \/ ReadMarks \/ LoadFails \/ ApplyHistorySnapshot
      \/ RequestOlderHistory \/ RequestFails \/ WaitedForPhone
      \/ LoadMoreStoredHistory \/ ReadPage \/ ApplyPage
  BY Steps DEF Saves, SavesReaction, PublishRow, PublishReaction, ViewStep,
         InitialScroll, JumpToQuoted, InjectQuoted, ReadSlice, ApplySlice, SendDraft,
         SendReturns, SendFails, SaveSentFails, loading, paging
<1> QED
  BY <1>2, <1>3, <1>4, <1>6, <1>7, <1>8, <1>9

LEMMA WindowSaved ==
    ASSUME Inv, WindowInv, NEW m \in Message,
           \/ \E c \in Commit : Saves(c)
           \/ \E r \in Reaction : SavesReaction(r)
    PROVE  WindowOk(m)'
<1>1. WindowOk(m) /\ commits \in Seq(Commit \cup Reaction) /\ store \in Content
  BY DEF Inv, WindowInv, StoreTypes
<1>2. CASE \E c \in Commit : Saves(c)
  <2>1. PICK c \in Commit : Saves(c)
    BY <1>2
  <2>2. /\ Arriving(commits, m) => Arriving(commits', m)
        /\ c.row = m /\ c.incoming => Arriving(commits', m)
    BY <1>1, <2>1, AppendedQueue DEF Saves
  <2>3. UNCHANGED <<messages, load, page, cursor, jumped>>
    BY <2>1 DEF Saves, timeline, loading, paging, jumping
  <2>4. CASE c.row = m /\ c.incoming
    BY <2>2, <2>4 DEF WindowOk
  <2>5. CASE ~(c.row = m /\ c.incoming)
    <3>1. store'[m] # 0 => store[m] # 0
      BY <1>1, <2>1, <2>5 DEF Saves, Content
    <3> QED
      BY <1>1, <2>2, <2>3, <3>1 DEF WindowOk
  <2> QED
    BY <2>4, <2>5
<1>3. CASE \E r \in Reaction : SavesReaction(r)
  <2>1. PICK r \in Reaction : SavesReaction(r)
    BY <1>3
  <2>2. Arriving(commits, m) => Arriving(commits', m)
    BY <1>1, <2>1, AppendedQueue DEF SavesReaction
  <2>3. UNCHANGED <<store, messages, load, page, cursor, jumped>>
    BY <2>1 DEF SavesReaction, timeline, loading, paging, jumping
  <2> QED
    BY <1>1, <2>2, <2>3 DEF WindowOk
<1> QED
  BY <1>2, <1>3

LEMMA WindowPublished ==
    ASSUME Inv, WindowInv, NEW m \in Message, PublishRow
    PROVE  WindowOk(m)'
<1>1. WindowOk(m) /\ messages \in Content
  BY DEF Inv, WindowInv, ViewTypes
<1>2. PICK c \in Commit :
        /\ c.version # 0
        /\ \A n : Arriving(commits, n) => Arriving(commits', n) \/ (c.row = n /\ c.incoming)
        /\ open => messages' = Shown(c)
  BY PublishedRow DEF Inv
<1>3. UNCHANGED <<store, load, page, cursor, jumped>>
  BY DEF PublishRow, saved, paging
<1>4. CASE open
  <2>1. messages'[m] = 0 => messages[m] = 0 /\ ~(c.row = m /\ c.incoming)
    BY <1>1, <1>2, <1>4 DEF Shown, Content
  <2> QED
    BY <1>1, <1>2, <1>3, <2>1 DEF WindowOk
<1>5. CASE ~open
  <2>1. load.stage = "none" /\ page.stage = "none"
    BY <1>5 DEF Inv, ClosedInv
  <2> QED
    BY <1>3, <2>1 DEF WindowOk
<1> QED
  BY <1>4, <1>5

LEMMA WindowSeen ==
    ASSUME Inv, WindowInv, NEW m \in Message, ViewStep
    PROVE  WindowOk(m)'
<1>1. /\ WindowOk(m)
      /\ messages \in Content /\ changes \in Content /\ store \in Content
      /\ load \in Load /\ page \in Page /\ jump \in Jump
      /\ m \in Int
  BY MessageNumbers DEF Inv, WindowInv, ViewTypes, StoreTypes
<1>2. store' = store /\ commits' = commits
  BY ViewKeepsStore
<1>3. CASE Open \/ Close
  <2>1. load'.stage \in {"none", "preparing"} /\ page'.stage = "none"
    BY <1>3 DEF Open, Close, Fresh, NoLoad, NoPage
  <2> QED
    BY <2>1 DEF WindowOk
<1>4. CASE ReadRows
  <2> DEFINE r == Only(store, Newest(Rows(store), LoadLimit))
  <2>1. store[m] # 0 => r[m] # 0 \/ Older(r, m)
    <3>1. LoadLimit \in Nat \ {0}
      BY ConversationAssumption DEF ConversationAssumption
    <3>2. store[m] # 0 => m \in Rows(store)
      BY DEF Rows
    <3>3. StoreTypes
      BY DEF Inv
    <3> QED
      BY <3>1, <3>2, <3>3, NewestOrOlder
  <2>2. load'.rows = r /\ load'.stage = "rows"
    BY <1>1, <1>4 DEF ReadRows, Load
  <2>3. page' = page /\ page.stage # "read"
    BY <1>4 DEF ReadRows, paging, WindowInv, LoadedFirst
  <2> HIDE DEF r
  <2> QED
    BY <1>2, <2>1, <2>2, <2>3 DEF WindowOk
<1>5. CASE ReadMarks \/ LoadFails
  <2>1. /\ load'.rows = load.rows
        /\ load'.stage = "failed" \/ (load'.stage = "built" /\ load.stage = "rows")
    BY <1>1, <1>5 DEF ReadMarks, LoadFails, Load
  <2>2. UNCHANGED <<messages, page, cursor, jumped>>
    BY <1>5 DEF ReadMarks, LoadFails, timeline, paging, jumping
  <2> QED
    BY <1>1, <1>2, <2>1, <2>2 DEF WindowOk
<1>6. CASE ApplyHistorySnapshot
  <2>1. /\ load.stage = "built" /\ messages' = MergedWithSnapshot
        /\ UNCHANGED <<page, jumped>>
        /\ load'.stage = "done"
        /\ cursor' = IF Rows(load.rows) = {} THEN None ELSE Min(Rows(load.rows))
    BY <1>6 DEF ApplyHistorySnapshot, jumping, NoLoad
  <2>2. messages'[m] = 0 => messages[m] = 0 /\ load.rows[m] = 0
    BY <2>1 DEF MergedWithSnapshot
  <2>3. Older(load.rows, m) => m < cursor'
    BY <2>1 DEF Older
  <2>4. page.stage # "read"
    BY <2>1 DEF WindowInv, LoadedFirst
  <2> QED
    BY <1>1, <1>2, <2>1, <2>2, <2>3, <2>4 DEF WindowOk
<1>7. CASE LoadMoreStoredHistory \/ RequestOlderHistory \/ RequestFails \/ WaitedForPhone
  <2>1. page'.stage # "read"
    BY <1>1, <1>7, PageUnread
  <2>2. UNCHANGED <<messages, load, cursor, jumped>>
    BY <1>7 DEF LoadMoreStoredHistory, RequestOlderHistory, RequestFails,
                WaitedForPhone, timeline, loading, jumping
  <2> QED
    BY <1>1, <1>2, <2>1, <2>2 DEF WindowOk
<1>8. CASE ReadPage
  <2> DEFINE S == {n \in Rows(store) : n < cursor}
             r == Only(store, Newest(S, PageSize))
  <2>1. store[m] # 0 /\ m < cursor => r[m] # 0 \/ Older(r, m)
    <3>1. PageSize \in Nat \ {0}
      BY ConversationAssumption DEF ConversationAssumption
    <3>2. store[m] # 0 /\ m < cursor => m \in S
      BY DEF Rows
    <3>3. StoreTypes /\ S \subseteq Rows(store)
      BY DEF Inv
    <3> QED
      BY <3>1, <3>2, <3>3, NewestOrOlder
  <2>2. page'.rows = r /\ UNCHANGED <<messages, load, cursor, jumped>>
    BY <1>1, <1>8 DEF ReadPage, PageRows, Page, timeline, loading, jumping
  <2> HIDE DEF r
  <2> QED
    BY <1>1, <1>2, <2>1, <2>2 DEF WindowOk
<1>9. CASE ApplyPage
  <2>1. /\ page.stage = "read" /\ UNCHANGED <<load, jumped>>
        /\ cursor' = IF Rows(page.rows) = {} THEN cursor ELSE Min(Rows(page.rows))
    BY <1>9 DEF ApplyPage, loading, jumping
  <2>2. messages'[m] = 0 => messages[m] = 0 /\ page.rows[m] = 0
    BY <1>9 DEF ApplyPage, Rows
  <2>3. page'.stage # "read"
    BY <1>1, <1>9, PageUnread
  <2>4. load.stage = "done"
    BY <2>1 DEF WindowInv, LoadedFirst
  <2>5. Older(page.rows, m) => m < cursor'
    BY <2>1 DEF Older
  <2> QED
    BY <1>1, <1>2, <2>1, <2>2, <2>3, <2>4, <2>5 DEF WindowOk
<1>10. CASE \E t \in Message : InitialScroll(t) \/ JumpToQuoted(t)
  <2>1. UNCHANGED <<messages, load, page, cursor, jumped>>
    BY <1>10 DEF InitialScroll, JumpToQuoted, timeline, loading, paging
  <2> QED
    BY <1>1, <1>2, <2>1 DEF WindowOk
<1>11. CASE \E t \in Message : InjectQuoted(t)
  <2>1. messages'[m] = 0 => messages[m] = 0
    BY <1>1, <1>11 DEF InjectQuoted, Content
  <2>2. UNCHANGED <<load, page, cursor, jumped>>
    BY <1>11 DEF InjectQuoted, loading, paging, jumping
  <2> QED
    BY <1>1, <1>2, <2>1, <2>2 DEF WindowOk
<1>12. CASE ReadSlice
  <2>1. UNCHANGED <<messages, load, page, cursor, jumped>>
    BY <1>12 DEF ReadSlice, timeline, loading, paging
  <2> QED
    BY <1>1, <1>2, <2>1 DEF WindowOk
<1>13. CASE ApplySlice
  <2>1. jumped'
    BY <1>13 DEF ApplySlice
  <2> QED
    BY <2>1 DEF WindowOk
<1>14. CASE \E n \in Sent : SendReturns(n)
  <2>1. messages'[m] = 0 => messages[m] = 0
    BY <1>1, <1>14 DEF SendReturns, Content
  <2>2. UNCHANGED <<load, page, cursor, jumped>>
    BY <1>14 DEF SendReturns, loading, paging, jumping
  <2> QED
    BY <1>1, <1>2, <2>1, <2>2 DEF WindowOk
<1>15. CASE \E n \in Sent : SendDraft(n) \/ SendFails(n) \/ SaveSentFails(n)
  <2>1. UNCHANGED <<messages, load, page, cursor, jumped>>
    BY <1>15 DEF SendDraft, SendFails, SaveSentFails, timeline, loading, paging, jumping
  <2> QED
    BY <1>1, <1>2, <2>1 DEF WindowOk
<1> QED
  BY <1>3, <1>4, <1>5, <1>6, <1>7, <1>8, <1>9, <1>10, <1>11, <1>12, <1>13, <1>14, <1>15
     DEF ViewStep

-----------------------------------------------------------------------------
LEMMA InvInit == Init => Inv /\ WindowInv
<1> SUFFICES ASSUME Init
             PROVE  Inv /\ WindowInv
  OBVIOUS
<1>1. Sent \subseteq Message
  BY ConversationAssumption DEF ConversationAssumption
<1>2. StoreTypes
  BY Versions DEF Init, StoreTypes, Content
<1>3. commits = <<>> /\ Len(commits) = 0 /\ 1..Len(commits) = {}
  BY DEF Init
<1>4. QueueInv
  BY <1>3 DEF QueueInv, NoneEmpty, LastIsStored
<1>5. SentInv
  BY DEF Init, SentInv
<1>6. NoLoad \in Load
  BY RowsEmpty DEF NoLoad, Load
<1>7. NoPage \in Page
  BY RowsEmpty DEF NoPage, Page, Tries
<1>8. NoJump \in Jump
  BY RowsEmpty DEF NoJump, Jump
<1>9. ViewTypes
  BY <1>6, <1>7, <1>8, RowsEmpty DEF Init, ViewTypes
<1>10. /\ load.stage = "none" /\ page.stage = "none" /\ jump.stage = "none"
       /\ messages = NoRows /\ changes = NoRows /\ mine = {} /\ cursor = None
  BY DEF Init, NoLoad, NoPage, NoJump
<1>11. KeptForLoad /\ ClosedInv
  BY <1>10 DEF KeptForLoad, ClosedInv
<1>12. ASSUME NEW m \in Message
       PROVE  RowOk(m) /\ WindowOk(m)
  <2>1. messages[m] = 0 /\ changes[m] = 0
    BY <1>10 DEF NoRows
  <2> QED
    BY <1>10, <2>1 DEF RowOk, Stale, WindowOk
<1>13. LoadedFirst
  BY <1>10 DEF LoadedFirst
<1> QED
  BY <1>2, <1>4, <1>5, <1>9, <1>11, <1>12, <1>13 DEF Inv, RowsInv, WindowInv

LEMMA InvStep ==
    ASSUME Inv, Next
    PROVE  Inv'
<1>1. StoreTypes /\ QueueInv /\ SentInv /\ ViewTypes /\ KeptForLoad /\ ClosedInv
  BY DEF Inv
<1>2. ASSUME NEW m \in Message
      PROVE  RowOk(m)'
  <2>1. CASE PublishReaction
    <3>1. RowOk(m)
      BY DEF Inv, RowsInv
    <3> QED
      BY <1>1, <2>1, <3>1, PublishedReaction DEF RowOk, Stale
  <2> QED
    BY <1>1, <2>1, Steps, RowsSaved, RowsPublished, RowsSeen
<1>3. RowsInv'
  BY <1>2 DEF RowsInv
<1> QED
  BY <1>1, <1>3, StoreTypesStep, QueueStep, SentStep, ViewTypesStep, KeptStep, ClosedStep
     DEF Inv

LEMMA WindowStep ==
    ASSUME Inv, WindowInv, Next
    PROVE  WindowInv'
<1>1. StoreTypes /\ QueueInv /\ ViewTypes /\ LoadedFirst
  BY DEF Inv, WindowInv
<1>2. ASSUME NEW m \in Message
      PROVE  WindowOk(m)'
  <2>1. CASE PublishReaction
    <3>1. WindowOk(m)
      BY DEF WindowInv
    <3> QED
      BY <1>1, <2>1, <3>1, PublishedReaction DEF WindowOk
  <2> QED
    BY <1>1, <2>1, Steps, WindowSaved, WindowPublished, WindowSeen
<1> QED
  BY <1>1, <1>2, LoadedFirstStep DEF WindowInv

LEMMA Invariance == Spec => [](Inv /\ WindowInv)
<1>1. Init => Inv /\ WindowInv
  BY InvInit
<1>2. Inv /\ WindowInv /\ [Next]_vars => (Inv /\ WindowInv)'
  <2> SUFFICES ASSUME Inv, WindowInv, [Next]_vars
               PROVE  Inv' /\ WindowInv'
    OBVIOUS
  <2>1. CASE Next
    BY <2>1, InvStep, WindowStep
  <2>2. CASE UNCHANGED vars
    <3>1. UNCHANGED <<store, marks, commits, sends, open, messages, temps, mine, load, changes,
                      cursor, page, jump, jumped, missed>>
      BY <2>2 DEF vars, saved, timeline, loading, paging, jumping
    <3>2. Inv'
      BY <3>1 DEF Inv, StoreTypes, QueueInv, SentInv, ViewTypes, KeptForLoad, LoadUnderWay,
                  ClosedInv, RowsInv, RowOk, Stale
    <3>3. WindowInv'
      BY <3>1 DEF WindowInv, LoadedFirst, WindowOk
    <3> QED
      BY <3>2, <3>3
  <2> QED
    BY <2>1, <2>2
<1> QED
  BY <1>1, <1>2, PTL DEF Spec

(* Nothing is waited for when nothing is queued. *)
LEMMA NothingPending ==
    ASSUME commits = <<>>
    PROVE  \A m : ~Pending(commits, m) /\ ~Arriving(commits, m)
<1>1. 1..Len(commits) = {}
  OBVIOUS
<1> QED
  BY <1>1 DEF Pending, Arriving

(* However the history load, pages, jumps and commits interleave, a row    *)
(* shown at rest is the stored one, or a page or a jump missed its change  *)
(* (applyCommitted, applyHistorySnapshot, loadEarlierPage).                *)
THEOREM ShownRowsAreStored == Spec => []ShownUpToDate
<1>1. Inv => ShownUpToDate
  <2> SUFFICES ASSUME Inv, AtRest, NEW m \in (Rows(messages) \cap Rows(store)) \ missed
               PROVE  messages[m] = store[m]
    BY DEF ShownUpToDate
  <2>1. m \in Message /\ messages[m] # 0 /\ store[m] # 0
    BY DEF Rows
  <2>2. ~Pending(commits, m)
    BY NothingPending DEF AtRest
  <2>3. ~Stale(messages, m)
    BY <2>1, <2>2 DEF Inv, RowsInv, RowOk
  <2> QED
    BY <2>1, <2>3 DEF Stale
<1> QED
  BY <1>1, Invariance, PTL

(* The window has no gap: no stored row from the cursor on is missing at   *)
(* rest, whatever arrived while the snapshot or a page was read            *)
(* (buildHistorySnapshot, buildEarlierSnapshot).                           *)
THEOREM WindowHasNoGap == Spec => []WindowComplete
<1>1. Inv /\ WindowInv => WindowComplete
  <2> SUFFICES ASSUME Inv, WindowInv, AtRest, ~jumped,
                      NEW m \in Rows(store), m >= cursor, messages[m] = 0
               PROVE  FALSE
    BY DEF WindowComplete
  <2>1. m \in Message /\ store[m] # 0 /\ m \in Int
    BY MessageNumbers DEF Rows
  <2>2. ~Arriving(commits, m) /\ load.stage = "done"
    BY NothingPending DEF AtRest
  <2>3. m < cursor
    BY <2>1, <2>2 DEF WindowInv, WindowOk
  <2>4. cursor \in Int
    BY MessageNumbers DEF Inv, ViewTypes, None
  <2> QED
    BY <2>1, <2>3, <2>4
<1> QED
  BY <1>1, Invariance, PTL

-----------------------------------------------------------------------------
LEMMA SentShownStep ==
    ASSUME Inv, SentStaysShown, Next
    PROVE  SentStaysShown'
<1> DEFINE Accepted == {"saving", "saved", "unsaved"}
<1> SUFFICES ASSUME NEW m \in mine', sends'[m] \in Accepted, ~jumped'
             PROVE  messages'[m] # 0 /\ m \notin temps'
  BY DEF SentStaysShown
<1>1. /\ messages \in Content
      /\ sends \in [Sent -> {"idle", "out", "saving", "saved", "unsaved"}]
      /\ mine \subseteq Sent /\ Sent \subseteq Message
  BY ConversationAssumption DEF Inv, ViewTypes, StoreTypes, ConversationAssumption
<1>2. m \in mine /\ sends[m] \in Accepted /\ ~jumped => messages[m] # 0 /\ m \notin temps
  BY DEF SentStaysShown
<1>3. CASE Open \/ Close
  BY <1>3 DEF Open, Close, Fresh
<1>4. CASE ApplySlice
  BY <1>4 DEF ApplySlice
<1>5. CASE PublishRow
  <2>1. UNCHANGED <<mine, sends, temps, jumped>>
    BY <1>5 DEF PublishRow, saved
  <2>2. messages[m] # 0 => messages'[m] # 0
    <3>1. PICK c \in Commit : /\ c.version # 0
                              /\ messages' = messages \/ messages' = Shown(c)
      BY <1>5, PublishedRow DEF Inv
    <3> QED
      BY <1>1, <2>1, <3>1 DEF Shown, Content
  <2> QED
    BY <1>2, <2>1, <2>2
<1>6. CASE ApplyHistorySnapshot \/ ApplyPage \/ \E t \in Message : InjectQuoted(t)
  <2>1. UNCHANGED <<mine, sends, temps, jumped>>
    BY <1>6 DEF ApplyHistorySnapshot, ApplyPage, InjectQuoted, saved, jumping
  <2>2. m \in Message
    BY <1>1, <2>1
  <2>3. messages[m] # 0 => messages'[m] # 0
    <3>1. CASE ApplyHistorySnapshot
      BY <2>2, <3>1 DEF ApplyHistorySnapshot, MergedWithSnapshot
    <3>2. CASE ApplyPage
      BY <2>2, <3>2 DEF ApplyPage, Rows
    <3>3. CASE \E t \in Message : InjectQuoted(t)
      BY <1>1, <2>2, <3>3 DEF InjectQuoted, Content
    <3> QED
      BY <1>6, <3>1, <3>2, <3>3
  <2> QED
    BY <1>2, <2>1, <2>3
<1>7. CASE \E n \in Sent : SendDraft(n) \/ SendFails(n)
  <2>1. PICK n \in Sent : SendDraft(n) \/ SendFails(n)
    BY <1>7
  <2>2. UNCHANGED <<messages, jumped>> /\ sends'[n] \in {"idle", "out"}
    BY <1>1, <2>1 DEF SendDraft, SendFails, jumping
  <2>3. m # n
    BY <2>2
  <2>4. m \in mine /\ sends'[m] = sends[m] /\ (m \in temps' => m \in temps)
    BY <1>1, <2>1, <2>3 DEF SendDraft, SendFails
  <2> QED
    BY <1>2, <2>2, <2>4
<1>8. CASE \E n \in Sent : SendReturns(n)
  <2>1. PICK n \in Sent : SendReturns(n)
    BY <1>8
  <2>2. mine' = mine /\ jumped' = jumped /\ temps' = temps \ {n}
    BY <2>1 DEF SendReturns, jumping
  <2>3. CASE m = n
    BY <1>1, <2>1, <2>2, <2>3 DEF SendReturns, Content
  <2>4. CASE m # n
    <3>1. sends'[m] = sends[m] /\ messages'[m] = messages[m]
      BY <1>1, <2>1, <2>2, <2>4 DEF SendReturns, Content
    <3> QED
      BY <1>2, <2>2, <3>1
  <2> QED
    BY <2>3, <2>4
<1>9. CASE \E n \in Sent : SaveSent(n) \/ SaveSentFails(n)
  <2>1. PICK n \in Sent : SaveSent(n) \/ SaveSentFails(n)
    BY <1>9
  <2>2. UNCHANGED <<messages, mine, temps, jumped>> /\ sends[n] = "saving"
    BY <2>1 DEF SaveSent, SaveSentFails, timeline, jumping
  <2>3. m \in mine /\ sends[m] \in Accepted
    <3>1. CASE m = n
      BY <2>2, <3>1
    <3>2. CASE m # n
      BY <1>1, <2>1, <2>2, <3>2 DEF SaveSent, SaveSentFails
    <3> QED
      BY <2>2, <3>1, <3>2
  <2> QED
    BY <1>2, <2>2, <2>3
<1>10. CASE UNCHANGED <<mine, sends, temps, jumped, messages>>
  BY <1>2, <1>10
<1>11. \/ UNCHANGED <<mine, sends, temps, jumped, messages>>
       \/ Open \/ Close \/ ApplySlice \/ PublishRow \/ ApplyHistorySnapshot \/ ApplyPage
       \/ \E t \in Message : InjectQuoted(t)
       \/ \E n \in Sent : SendDraft(n) \/ SendFails(n)
       \/ \E n \in Sent : SendReturns(n)
       \/ \E n \in Sent : SaveSent(n) \/ SaveSentFails(n)
  BY DEF Next, SaveMessage, SaveChange, SaveReaction, PublishReaction,
         InitialScroll, JumpToQuoted, ReadRows, ReadMarks, LoadFails, LoadMoreStoredHistory,
         RequestOlderHistory, RequestFails, WaitedForPhone, ReadPage, ReadSlice,
         saved, timeline, jumping
<1> QED
  BY <1>3, <1>4, <1>5, <1>6, <1>7, <1>8, <1>9, <1>10, <1>11

(* A message the bridge accepted stays in the conversation it was sent     *)
(* from, under its real id alone, saved or not (sendDraft,                 *)
(* persistOutgoing).                                                       *)
THEOREM SentMessagesStay == Spec => []SentStaysShown
<1>1. Init => SentStaysShown
  BY DEF Init, SentStaysShown
<1>2. Inv /\ SentStaysShown /\ [Next]_vars => SentStaysShown'
  <2> SUFFICES ASSUME Inv, SentStaysShown, [Next]_vars
               PROVE  SentStaysShown'
    OBVIOUS
  <2>1. CASE UNCHANGED vars
    BY <2>1 DEF vars, saved, timeline, jumping, SentStaysShown
  <2> QED
    BY <2>1, SentShownStep
<1> QED
  BY <1>1, <1>2, Invariance, PTL DEF Spec

-----------------------------------------------------------------------------
(***************************************************************************)
(* Reactions.  A queue of reactions leaves a sender's reaction to a row as *)
(* the last of them has it, and as it was when none is of them: that is    *)
(* what replaying them over a snapshot computes.                           *)
(***************************************************************************)
Mentions(r, m, s) == r \in Reaction /\ r.row = m /\ r.sender = s

(* None of the first n is of this sender and row; the last that is, is on. *)
QuietTo(q, n, m, s) == \A k \in 1..n : ~Mentions(q[k], m, s)
PutsTo(q, n, m, s) ==
    \E k \in 1..n : /\ Mentions(q[k], m, s) /\ q[k].on
                    /\ \A j \in 1..n : j > k => ~Mentions(q[j], m, s)

Quiet(q, m, s) == QuietTo(q, Len(q), m, s)
Puts(q, m, s) == PutsTo(q, Len(q), m, s)

LEMMA OneMore ==
    ASSUME NEW q, NEW n \in Nat, NEW m, NEW s
    PROVE  /\ Mentions(q[n + 1], m, s) => /\ ~QuietTo(q, n + 1, m, s)
                                          /\ PutsTo(q, n + 1, m, s) <=> q[n + 1].on
           /\ ~Mentions(q[n + 1], m, s) =>
                 /\ QuietTo(q, n + 1, m, s) <=> QuietTo(q, n, m, s)
                 /\ PutsTo(q, n + 1, m, s) <=> PutsTo(q, n, m, s)
<1> DEFINE M(k) == Mentions(q[k], m, s)
           On(k) == q[k].on
<1>1. n + 1 \in 1..(n + 1) /\ \A k \in 1..(n + 1) : k \in 1..n \/ k = n + 1
  OBVIOUS
<1>2. \A k \in 1..n : k \in 1..(n + 1) /\ n + 1 > k /\ k # n + 1 /\ ~(k > n + 1)
  OBVIOUS
<1>3. ~(n + 1 > n + 1)
  OBVIOUS
<1>4. /\ QuietTo(q, n, m, s) <=> \A k \in 1..n : ~M(k)
      /\ QuietTo(q, n + 1, m, s) <=> \A k \in 1..(n + 1) : ~M(k)
      /\ PutsTo(q, n, m, s) <=>
            \E k \in 1..n : M(k) /\ On(k) /\ \A j \in 1..n : j > k => ~M(j)
      /\ PutsTo(q, n + 1, m, s) <=>
            \E k \in 1..(n + 1) : M(k) /\ On(k) /\ \A j \in 1..(n + 1) : j > k => ~M(j)
  BY DEF QuietTo, PutsTo
<1>5. On(n + 1) <=> q[n + 1].on
  OBVIOUS
<1>6. M(n + 1) <=> Mentions(q[n + 1], m, s)
  OBVIOUS
<1> HIDE DEF M, On
<1>7. CASE M(n + 1)
  <2>1. ~QuietTo(q, n + 1, m, s)
    BY <1>1, <1>4, <1>7
  <2>2. \A k \in 1..(n + 1) : (\A j \in 1..(n + 1) : j > k => ~M(j)) => k = n + 1
    BY <1>1, <1>2, <1>7
  <2>3. \A j \in 1..(n + 1) : ~(j > n + 1)
    BY <1>1, <1>2, <1>3
  <2>4. PutsTo(q, n + 1, m, s) <=> On(n + 1)
    BY <1>1, <1>4, <1>7, <2>2, <2>3, Zenon
  <2> QED
    BY <1>5, <1>6, <1>7, <2>1, <2>4
<1>8. CASE ~M(n + 1)
  <2>1. QuietTo(q, n + 1, m, s) <=> QuietTo(q, n, m, s)
    BY <1>1, <1>2, <1>4, <1>8
  <2>2. PutsTo(q, n + 1, m, s) => PutsTo(q, n, m, s)
    BY <1>1, <1>2, <1>4, <1>8
  <2>3. PutsTo(q, n, m, s) => PutsTo(q, n + 1, m, s)
    <3> SUFFICES ASSUME NEW k \in 1..n, M(k), On(k), \A j \in 1..n : j > k => ~M(j)
                 PROVE  PutsTo(q, n + 1, m, s)
      BY <1>4
    <3>1. \A j \in 1..(n + 1) : j > k => ~M(j)
      BY <1>1, <1>8
    <3> QED
      BY <1>2, <1>4, <3>1
  <2> QED
    BY <1>6, <1>8, <2>1, <2>2, <2>3
<1> QED
  BY <1>7, <1>8

LEMMA SameBeginning ==
    ASSUME NEW p, NEW q, NEW n \in Nat, \A k \in 1..n : p[k] = q[k], NEW m, NEW s
    PROVE  (QuietTo(p, n, m, s) <=> QuietTo(q, n, m, s)) /\ (PutsTo(p, n, m, s) <=> PutsTo(q, n, m, s))
  BY Zenon DEF QuietTo, PutsTo

(* The last one put in the queue decides; another changes nothing.         *)
LEMMA ReactionAppended ==
    ASSUME NEW E, NEW q \in Seq(E), NEW x \in E, NEW m, NEW s
    PROVE  /\ Mentions(x, m, s) => /\ ~Quiet(Append(q, x), m, s)
                                   /\ Puts(Append(q, x), m, s) <=> x.on
           /\ ~Mentions(x, m, s) => /\ Quiet(Append(q, x), m, s) <=> Quiet(q, m, s)
                                    /\ Puts(Append(q, x), m, s) <=> Puts(q, m, s)
<1> DEFINE p == Append(q, x)
           n == Len(q)
<1>1. n \in Nat /\ Len(p) = n + 1 /\ (\A k \in 1..n : p[k] = q[k]) /\ p[n + 1] = x
  OBVIOUS
<1> HIDE DEF p, n
<1>2. /\ QuietTo(p, n, m, s) <=> QuietTo(q, n, m, s)
      /\ PutsTo(p, n, m, s) <=> PutsTo(q, n, m, s)
  BY <1>1, SameBeginning
<1>3. /\ Quiet(p, m, s) <=> QuietTo(p, n + 1, m, s)
      /\ Puts(p, m, s) <=> PutsTo(p, n + 1, m, s)
      /\ Quiet(q, m, s) <=> QuietTo(q, n, m, s)
      /\ Puts(q, m, s) <=> PutsTo(q, n, m, s)
  BY <1>1 DEF Quiet, Puts, n
<1>4. /\ Mentions(x, m, s) => ~QuietTo(p, n + 1, m, s) /\ (PutsTo(p, n + 1, m, s) <=> x.on)
      /\ ~Mentions(x, m, s) => /\ QuietTo(p, n + 1, m, s) <=> QuietTo(p, n, m, s)
                               /\ PutsTo(p, n + 1, m, s) <=> PutsTo(p, n, m, s)
  BY <1>1, OneMore
<1> QED
  BY <1>2, <1>3, <1>4 DEF p

(* What leaves the queue mattered only if nothing later is of the same     *)
(* sender and row.                                                         *)
LEMMA ReactionTaken ==
    ASSUME NEW E, NEW q \in Seq(E), q # <<>>, NEW m, NEW s
    PROVE  /\ Mentions(Head(q), m, s) =>
                 /\ ~Quiet(q, m, s)
                 /\ Quiet(Tail(q), m, s) => (Puts(q, m, s) <=> Head(q).on)
           /\ ~Mentions(Head(q), m, s) => (Quiet(Tail(q), m, s) <=> Quiet(q, m, s))
           /\ ~Quiet(Tail(q), m, s) => (Puts(Tail(q), m, s) <=> Puts(q, m, s))
<1> DEFINE t == Tail(q)
           n == Len(t)
           M(k) == Mentions(q[k], m, s)
           On(k) == q[k].on
<1>1. /\ n \in Nat /\ Len(q) = n + 1 /\ Head(q) = q[1]
      /\ \A k \in 1..n : t[k] = q[k + 1]
  OBVIOUS
<1> HIDE DEF t
<1>2. /\ Quiet(q, m, s) <=> \A k \in 1..(n + 1) : ~M(k)
      /\ Quiet(t, m, s) <=> \A k \in 1..n : ~M(k + 1)
      /\ Puts(q, m, s) <=>
            \E k \in 1..(n + 1) : M(k) /\ On(k) /\ \A j \in 1..(n + 1) : j > k => ~M(j)
      /\ Puts(t, m, s) <=>
            \E k \in 1..n : M(k + 1) /\ On(k + 1) /\ \A j \in 1..n : j > k => ~M(j + 1)
  BY <1>1, Zenon DEF Quiet, QuietTo, Puts, PutsTo
<1>3. (On(1) <=> Head(q).on) /\ (M(1) <=> Mentions(Head(q), m, s))
  BY <1>1
<1> HIDE DEF M, On, n
<1>4. 1 \in 1..(n + 1) /\ \A k \in 1..n : k + 1 \in 1..(n + 1) /\ k + 1 > 1
  BY <1>1
<1>5. \A k \in 1..(n + 1) : k = 1 \/ (k - 1 \in 1..n /\ (k - 1) + 1 = k)
  BY <1>1
<1>6. M(1) => ~Quiet(q, m, s)
  BY <1>2, <1>4
<1>7. ~M(1) => (Quiet(t, m, s) <=> Quiet(q, m, s))
  <2>1. Quiet(q, m, s) => Quiet(t, m, s)
    BY <1>2, <1>4
  <2>2. ~M(1) /\ Quiet(t, m, s) => Quiet(q, m, s)
    BY <1>2, <1>5
  <2> QED
    BY <2>1, <2>2
<1>8. ASSUME M(1), Quiet(t, m, s)
      PROVE  Puts(q, m, s) <=> On(1)
  <2>1. \A j \in 1..(n + 1) : j # 1 => ~M(j)
    BY <1>2, <1>5, <1>8
  <2>2. \A j \in 1..(n + 1) : j > 1 => j # 1
    BY <1>1
  <2>3. Puts(q, m, s) => On(1)
    BY <1>2, <2>1, Zenon
  <2>4. On(1) => Puts(q, m, s)
    BY <1>2, <1>4, <1>8, <2>1, <2>2, Zenon
  <2> QED
    BY <2>3, <2>4
<1>9. ASSUME ~Quiet(t, m, s)
      PROVE  Puts(t, m, s) <=> Puts(q, m, s)
  <2>1. PICK i \in 1..n : M(i + 1)
    BY <1>2, <1>9
  <2>2. ASSUME Puts(t, m, s) PROVE Puts(q, m, s)
    <3>1. PICK k \in 1..n : M(k + 1) /\ On(k + 1) /\ \A j \in 1..n : j > k => ~M(j + 1)
      BY <1>2, <2>2
    <3>2. ASSUME NEW j \in 1..(n + 1), j > k + 1 PROVE ~M(j)
      <4>1. j - 1 \in 1..n /\ (j - 1) + 1 = j /\ j - 1 > k
        BY <1>1, <3>2
      <4> QED
        BY <3>1, <4>1
    <3> QED
      BY <1>2, <1>4, <3>1, <3>2
  <2>3. ASSUME Puts(q, m, s) PROVE Puts(t, m, s)
    <3>1. PICK k \in 1..(n + 1) : M(k) /\ On(k) /\ \A j \in 1..(n + 1) : j > k => ~M(j)
      BY <1>2, <2>3
    <3>2. k # 1
      BY <1>4, <2>1, <3>1
    <3>3. k - 1 \in 1..n /\ (k - 1) + 1 = k
      BY <1>5, <3>2
    <3>4. ASSUME NEW j \in 1..n, j > k - 1 PROVE ~M(j + 1)
      <4>1. j + 1 \in 1..(n + 1) /\ j + 1 > k
        BY <1>1, <3>4
      <4> QED
        BY <3>1, <4>1
    <3> QED
      BY <1>2, <3>1, <3>3, <3>4
  <2> QED
    BY <2>2, <2>3
<1> QED
  BY <1>3, <1>6, <1>7, <1>8, <1>9 DEF t

LEMMA QuietWhenEmpty ==
    ASSUME NEW m, NEW s
    PROVE  Quiet(<<>>, m, s)
  BY DEF Quiet, QuietTo

LEMMA ReactedMarks ==
    ASSUME NEW f \in Marks, NEW r \in Reaction
    PROVE  /\ React(f, r) \in Marks
           /\ \A m \in Message : \A s \in Sender :
                 s \in React(f, r)[m] <=> IF Mentions(r, m, s) THEN r.on ELSE s \in f[m]
<1>1. r.row \in Message /\ r.sender \in Sender
  BY DEF Reaction
<1>2. f \in [Message -> SUBSET Sender]
  BY DEF Marks
<1> QED
  BY <1>1, <1>2 DEF React, Marks, Mentions

(* Replaying reactions over marks, as applyHistorySnapshot does. *)
LEMMA ReplayMeaning ==
    ASSUME NEW f \in Marks, NEW q \in Seq(Reaction)
    PROVE  /\ FoldLeft(React, f, q) \in Marks
           /\ \A m \in Message : \A s \in Sender :
                 s \in FoldLeft(React, f, q)[m] <=> \/ Puts(q, m, s)
                                                    \/ Quiet(q, m, s) /\ s \in f[m]
<1>1. FoldLeft(React, f, q) = Replay!Fold(f, q)
  BY DEF Replay!Fold, FoldLeft, Replay!FoldLeft, MapThenFoldSet, Replay!MapThenFoldSet,
         Max, Replay!Max
<1>2. PICK g : Replay!Steps(g, f, q) /\ Replay!Fold(f, q) = g[Len(q)]
  BY Replay!FoldSteps
<1>3. g[0] = f /\ \A i \in 1..Len(q) : g[i] = React(g[i - 1], q[i])
  BY <1>2 DEF Replay!Steps
<1> DEFINE Right(i) == /\ g[i] \in Marks
                       /\ \A m \in Message : \A s \in Sender :
                             s \in g[i][m] <=> \/ PutsTo(q, i, m, s)
                                               \/ QuietTo(q, i, m, s) /\ s \in f[m]
           J == {i \in Nat : Right(i)}
           n == Len(q)
<1>4. 0 \in J
  <2>1. \A m, s : ~PutsTo(q, 0, m, s) /\ QuietTo(q, 0, m, s)
    BY DEF PutsTo, QuietTo
  <2> QED
    BY <1>3, <2>1
<1>5. n \in Nat
  OBVIOUS
<1>6. ASSUME NEW i \in 0..(n - 1), i \in J
      PROVE  i + 1 \in J
  <2>1. i \in Nat /\ i + 1 \in Nat /\ i + 1 \in 1..Len(q) /\ (i + 1) - 1 = i
    BY <1>5
  <2>2. q[i + 1] \in Reaction /\ g[i + 1] = React(g[i], q[i + 1])
    BY <1>3, <2>1
  <2>3. Right(i)
    BY <1>6
  <2>4. g[i + 1] \in Marks
    BY <2>2, <2>3, ReactedMarks
  <2>5. ASSUME NEW m \in Message, NEW s \in Sender
        PROVE  s \in g[i + 1][m] <=> \/ PutsTo(q, i + 1, m, s)
                                     \/ QuietTo(q, i + 1, m, s) /\ s \in f[m]
    <3>1. s \in g[i + 1][m] <=> IF Mentions(q[i + 1], m, s) THEN q[i + 1].on ELSE s \in g[i][m]
      BY <2>2, <2>3, ReactedMarks
    <3>2. s \in g[i][m] <=> PutsTo(q, i, m, s) \/ (QuietTo(q, i, m, s) /\ s \in f[m])
      BY <2>3
    <3>3. /\ Mentions(q[i + 1], m, s) => /\ ~QuietTo(q, i + 1, m, s)
                                         /\ PutsTo(q, i + 1, m, s) <=> q[i + 1].on
          /\ ~Mentions(q[i + 1], m, s) =>
                /\ QuietTo(q, i + 1, m, s) <=> QuietTo(q, i, m, s)
                /\ PutsTo(q, i + 1, m, s) <=> PutsTo(q, i, m, s)
      BY <2>1, OneMore
    <3> QED
      BY <3>1, <3>2, <3>3, Zenon
  <2> QED
    BY <2>1, <2>4, <2>5
<1> HIDE DEF J, n
<1>7. n \in J
  <2>1. \A i \in 0..n : i \in J
    BY <1>4, <1>5, <1>6, Replay!UpTo
  <2> QED
    BY <1>5, <2>1
<1>8. Right(Len(q))
  BY <1>7 DEF J, n
<1> QED
  BY <1>1, <1>2, <1>8 DEF Puts, Quiet

-----------------------------------------------------------------------------
(* The rest of the types. *)
Flags == open \in BOOLEAN /\ hasMore \in BOOLEAN /\ unavailable \in BOOLEAN
         /\ scrolled \in BOOLEAN /\ jumped \in BOOLEAN
SetTypes == temps \subseteq mine /\ missed \subseteq Message /\ hydrated \subseteq Message
Bounds == page.tries \in 0..Attempts /\ jump.before \in 0..JumpSize
ReactionTypes ==
    /\ reactions \in Marks /\ replays \in Seq(Reaction)
    /\ LoadUnderWay \/ replays = <<>>

RestTypes == Flags /\ SetTypes /\ Bounds /\ ReactionTypes

LEMMA FlagsStep ==
    ASSUME StoreTypes, ViewTypes, Flags, Next
    PROVE  Flags'
<1> USE DEF Flags
<1>1. load.more \in BOOLEAN /\ page.more \in BOOLEAN
  BY DEF ViewTypes, Load, Page
<1>2. open' = open \/ open' = TRUE \/ open' = FALSE
  BY Steps DEF Saves, SavesReaction, PublishRow, PublishReaction, ViewStep,
         InitialScroll, JumpToQuoted, InjectQuoted, Open, Close, ReadRows, ReadMarks, LoadFails,
         ApplyHistorySnapshot, LoadMoreStoredHistory, RequestOlderHistory, RequestFails,
         WaitedForPhone, ReadPage, ApplyPage, ReadSlice, ApplySlice, SendDraft, SendReturns,
         SendFails, SaveSentFails
<1>3. hasMore' = hasMore \/ hasMore' = FALSE \/ hasMore' = load.more \/ hasMore' = page.more
  BY Steps DEF Saves, SavesReaction, PublishRow, PublishReaction, ViewStep,
         InitialScroll, JumpToQuoted, InjectQuoted, Open, Close, Fresh, ReadRows, ReadMarks,
         LoadFails, ApplyHistorySnapshot, LoadMoreStoredHistory, RequestOlderHistory,
         RequestFails, WaitedForPhone, ReadPage, ApplyPage, ReadSlice, ApplySlice, SendDraft,
         SendReturns, SendFails, SaveSentFails, paging
<1>4. unavailable' = unavailable \/ unavailable' = TRUE \/ unavailable' = FALSE
  BY Steps DEF Saves, SavesReaction, PublishRow, PublishReaction, ViewStep,
         InitialScroll, JumpToQuoted, InjectQuoted, Open, Close, Fresh, ReadRows, ReadMarks,
         LoadFails, ApplyHistorySnapshot, LoadMoreStoredHistory, RequestOlderHistory,
         RequestFails, WaitedForPhone, ReadPage, ApplyPage, ReadSlice, ApplySlice, SendDraft,
         SendReturns, SendFails, SaveSentFails, paging
<1>5. /\ scrolled' = scrolled \/ scrolled' = TRUE \/ scrolled' = FALSE
      /\ jumped' = jumped \/ jumped' = TRUE \/ jumped' = FALSE
  BY Steps DEF Saves, SavesReaction, PublishRow, PublishReaction, ViewStep,
         InitialScroll, JumpToQuoted, InjectQuoted, Open, Close, Fresh, ReadRows, ReadMarks,
         LoadFails, ApplyHistorySnapshot, LoadMoreStoredHistory, RequestOlderHistory,
         RequestFails, WaitedForPhone, ReadPage, ApplyPage, ReadSlice, ApplySlice, SendDraft,
         SendReturns, SendFails, SaveSentFails, jumping
<1> QED
  BY <1>1, <1>2, <1>3, <1>4, <1>5, Zenon

LEMMA SetTypesStep ==
    ASSUME StoreTypes, QueueInv, ViewTypes, SetTypes, Next
    PROVE  SetTypes'
<1> USE DEF SetTypes
<1>1. temps' \subseteq mine'
  <2>1. CASE UNCHANGED <<temps, mine>> \/ Open \/ Close \/ ApplySlice
    BY <2>1 DEF Open, Close, Fresh, ApplySlice
  <2>2. CASE \E m \in Sent : SendDraft(m) \/ SendReturns(m) \/ SendFails(m)
    BY <2>2 DEF SendDraft, SendReturns, SendFails
  <2>3. \/ UNCHANGED <<temps, mine>> \/ Open \/ Close \/ ApplySlice
        \/ \E m \in Sent : SendDraft(m) \/ SendReturns(m) \/ SendFails(m)
    BY Steps DEF Saves, SavesReaction, PublishRow, PublishReaction, ViewStep,
         InitialScroll, JumpToQuoted, InjectQuoted, ReadRows, ReadMarks, LoadFails,
         ApplyHistorySnapshot, LoadMoreStoredHistory, RequestOlderHistory, RequestFails,
         WaitedForPhone, ReadPage, ApplyPage, ReadSlice, SaveSentFails, timeline
  <2> QED
    BY <2>1, <2>2, <2>3
<1>2. missed' \subseteq Message
  <2>1. CASE PublishRow
    <3>1. PICK c \in Commit : \/ missed' = missed
                              \/ missed' = missed \cup {c.row} \/ missed' = missed \ {c.row}
      BY <2>1, PublishedRow
    <3> QED
      BY <3>1 DEF Commit
  <2>2. PublishRow \/ missed' = missed \/ missed' = {}
    BY Steps DEF Saves, SavesReaction, PublishReaction, ViewStep,
         InitialScroll, JumpToQuoted, InjectQuoted, Open, Close, Fresh, ReadRows, ReadMarks,
         LoadFails, ApplyHistorySnapshot, LoadMoreStoredHistory, RequestOlderHistory,
         RequestFails, WaitedForPhone, ReadPage, ApplyPage, ReadSlice, ApplySlice, SendDraft,
         SendReturns, SendFails, SaveSentFails, jumping
  <2> QED
    BY <2>1, <2>2
<1>3. hydrated' \subseteq Message
  <2>1. hydrated' = hydrated \/ hydrated' = {} \/ hydrated' = Rows(load.rows)
    BY Steps DEF Saves, SavesReaction, PublishRow, PublishReaction, ViewStep,
         InitialScroll, JumpToQuoted, InjectQuoted, Open, Close, Fresh, ReadRows, ReadMarks,
         LoadFails, ApplyHistorySnapshot, LoadMoreStoredHistory, RequestOlderHistory,
         RequestFails, WaitedForPhone, ReadPage, ApplyPage, ReadSlice, ApplySlice, SendDraft,
         SendReturns, SendFails, SaveSentFails, loading
  <2> QED
    BY <2>1 DEF Rows
<1> QED
  BY <1>1, <1>2, <1>3

LEMMA CountersOf ==
    /\ NoPage.tries = 0 /\ Asked.tries = 0
    /\ \A n : Fetched(NoPage, n).tries = n
    /\ \A p \in Page : \A n : Fetched(p, n).tries = n
    /\ \A b, n : Refetched(b, n).tries = n
    /\ NoJump.before = 0
    /\ \A t : From(t).before = 0
    /\ \A t, n : Around(t, n).before = n
  BY DEF NoPage, NoJump, Page, Asked, Fetched, Refetched, From, Around

LEMMA BoundsStep ==
    ASSUME StoreTypes, ViewTypes, Bounds, Next
    PROVE  Bounds'
<1>1. page \in Page /\ jump \in Jump
  BY DEF ViewTypes
<1>2. page'.tries \in 0..Attempts
  <2>1. \/ page' = page \/ page' = NoPage \/ page' = Asked
        \/ page' = Fetched(NoPage, 1) \/ page' = Fetched(page, 1)
        \/ page' = Refetched(page.by, page.tries + 1) /\ page.tries < Attempts
        \/ ReadPage
    BY Steps DEF Saves, SavesReaction, PublishRow, PublishReaction, ViewStep,
         InitialScroll, JumpToQuoted, InjectQuoted, Open, Close, Fresh, ReadRows, ReadMarks,
         LoadFails, ApplyHistorySnapshot, LoadMoreStoredHistory, RequestOlderHistory,
         RequestFails, WaitedForPhone, ApplyPage, ReadSlice, ApplySlice, SendDraft,
         SendReturns, SendFails, SaveSentFails, paging, Asked, Fetched, Refetched
  <2>2. ReadPage => page'.tries = page.tries
    BY <1>1 DEF ReadPage, Page
  <2>3. page.tries \in 0..Attempts
    BY DEF Bounds
  <2>4. /\ 0 \in 0..Attempts /\ 1 \in 0..Attempts
        /\ page.tries < Attempts => page.tries + 1 \in 0..Attempts
    BY <2>3 DEF Attempts
  <2>5. \/ page' = page \/ page'.tries \in {0, 1, page.tries}
        \/ page.tries < Attempts /\ page'.tries = page.tries + 1
    BY <1>1, <2>1, <2>2, CountersOf
  <2> QED
    BY <2>3, <2>4, <2>5
<1>3. jump'.before \in 0..JumpSize
  <2>1. \/ jump' = jump \/ jump' = NoJump \/ \E t : jump' = From(t)
        \/ \E t : jump' = Around(t, JumpSize \div 2)
        \/ jump' # NoJump /\ ReadSlice
    BY Steps DEF Saves, SavesReaction, PublishRow, PublishReaction, ViewStep,
         InitialScroll, JumpToQuoted, InjectQuoted, Open, Close, Fresh, ReadRows, ReadMarks,
         LoadFails, ApplyHistorySnapshot, LoadMoreStoredHistory, RequestOlderHistory,
         RequestFails, WaitedForPhone, ReadPage, ApplyPage, ReadSlice, ApplySlice, SendDraft,
         SendReturns, SendFails, SaveSentFails, jumping, From, Around
  <2>2. ReadSlice => jump' = NoJump \/ jump'.before = jump.before
    BY <1>1 DEF ReadSlice, Jump
  <2>3. 0 \in 0..JumpSize /\ JumpSize \div 2 \in 0..JumpSize
    BY ConversationAssumption DEF ConversationAssumption
  <2>4. jump.before \in 0..JumpSize
    BY DEF Bounds
  <2>5. jump' = jump \/ jump'.before \in {0, JumpSize \div 2, jump.before}
    BY <2>1, <2>2, CountersOf
  <2> QED
    BY <2>3, <2>4, <2>5
<1> QED
  BY <1>2, <1>3 DEF Bounds

LEMMA ReactionTypesStep ==
    ASSUME StoreTypes, ViewTypes, ReactionTypes, Next
    PROVE  ReactionTypes'
<1> USE DEF ReactionTypes
<1>1. load \in Load /\ load.marks \in Marks
  BY DEF ViewTypes, Load
<1>2. CASE PublishReaction
  <2>1. Head(commits) \in Reaction /\ load' = load
    BY <1>2 DEF PublishReaction
  <2>2. /\ reactions' = reactions \/ reactions' = React(reactions, Head(commits))
        /\ \/ replays' = replays
           \/ LoadUnderWay /\ replays' = Append(replays, Head(commits))
    BY <1>2 DEF PublishReaction
  <2>3. reactions' \in Marks
    BY <2>1, <2>2, ReactedMarks
  <2>4. replays' \in Seq(Reaction)
    BY <2>1, <2>2
  <2> QED
    BY <2>1, <2>2, <2>3, <2>4 DEF LoadUnderWay
<1>3. CASE Open \/ Close
  <2>1. reactions' = NoMarks /\ replays' = <<>>
    BY <1>3 DEF Open, Close, Fresh
  <2> QED
    BY <2>1, RowsEmpty
<1>4. CASE ApplyHistorySnapshot
  <2> DEFINE f == [m \in Message |-> IF load.marks[m] # {} THEN load.marks[m] ELSE reactions[m]]
  <2>1. f \in Marks
    BY <1>1 DEF Marks
  <2>2. reactions' = FoldLeft(React, f, replays) /\ replays' = <<>>
    BY <1>4 DEF ApplyHistorySnapshot, ReplayedMarks
  <2> HIDE DEF f
  <2> QED
    BY <2>1, <2>2, ReplayMeaning
<1>5. CASE ReadRows \/ ReadMarks \/ LoadFails
  <2>1. load'.stage \in {"rows", "built", "failed"} /\ UNCHANGED <<reactions, replays>>
    BY <1>1, <1>5 DEF ReadRows, ReadMarks, LoadFails, Load, timeline
  <2> QED
    BY <2>1 DEF LoadUnderWay
<1>6. CASE UNCHANGED <<load, reactions, replays>>
  BY <1>6 DEF LoadUnderWay
<1>7. \/ UNCHANGED <<load, reactions, replays>>
      \/ PublishReaction \/ Open \/ Close \/ ApplyHistorySnapshot
      \/ ReadRows \/ ReadMarks \/ LoadFails
  BY Steps DEF Saves, SavesReaction, PublishRow, ViewStep,
         InitialScroll, JumpToQuoted, InjectQuoted, LoadMoreStoredHistory,
         RequestOlderHistory, RequestFails, WaitedForPhone, ReadPage, ApplyPage, ReadSlice,
         ApplySlice, SendDraft, SendReturns, SendFails, SaveSentFails, timeline, loading
<1> QED
  BY <1>2, <1>3, <1>4, <1>5, <1>6, <1>7

-----------------------------------------------------------------------------
(* Where a mark of a row and a sender is settled, or on its way: the last  *)
(* queued reaction carries what is stored; when none is queued the last    *)
(* one kept for the load does, or what the load has read, or, after it,    *)
(* what is shown.  Until the load is applied only what it keeps is shown.  *)
MarkOk(m, s) ==
    /\ ~Quiet(commits, m, s) => (Puts(commits, m, s) <=> s \in marks[m])
    /\ Quiet(commits, m, s) /\ ~Quiet(replays, m, s)
           => (Puts(replays, m, s) <=> s \in marks[m])
    /\ LoadUnderWay /\ Quiet(replays, m, s) => s \notin reactions[m]
    /\ /\ load.stage = "built" /\ load.rows[m] # 0
          /\ Quiet(commits, m, s) /\ Quiet(replays, m, s)
       => (s \in load.marks[m] <=> s \in marks[m])
    /\ m \in hydrated
           => /\ load.stage = "done"
              /\ Quiet(commits, m, s) => (s \in reactions[m] <=> s \in marks[m])

MarksInv == \A m \in Message : \A s \in Sender : MarkOk(m, s)

LEMMA CommitSpeaksOfNoMark ==
    ASSUME NEW c \in Commit, NEW m, NEW s
    PROVE  ~Mentions(c, m, s)
  BY ReactionIsNoCommit DEF Mentions

LEMMA MarkSaved ==
    ASSUME StoreTypes, NEW m \in Message, NEW s \in Sender, MarkOk(m, s),
           (\E c \in Commit : Saves(c)) \/ (\E r \in Reaction : SavesReaction(r))
    PROVE  MarkOk(m, s)'
<1>1. commits \in Seq(Commit \cup Reaction)
  BY DEF StoreTypes
<1>2. UNCHANGED <<reactions, load, replays, hydrated>>
  BY DEF Saves, SavesReaction, timeline, loading
<1>3. CASE \E c \in Commit : Saves(c)
  <2>1. PICK c \in Commit : Saves(c)
    BY <1>3
  <2>2. commits' = Append(commits, c) /\ marks' = marks
    BY <2>1 DEF Saves
  <2>3. /\ Quiet(commits', m, s) <=> Quiet(commits, m, s)
        /\ Puts(commits', m, s) <=> Puts(commits, m, s)
    BY <1>1, <2>2, CommitSpeaksOfNoMark, ReactionAppended
  <2> QED
    BY <1>2, <2>2, <2>3 DEF MarkOk, LoadUnderWay
<1>4. CASE \E r \in Reaction : SavesReaction(r)
  <2>1. PICK r \in Reaction : SavesReaction(r)
    BY <1>4
  <2>2. /\ commits' = Append(commits, r)
        /\ r.on <=> r.sender \in marks'[r.row]
        /\ m # r.row \/ s # r.sender => (s \in marks'[m] <=> s \in marks[m])
    BY <2>1 DEF SavesReaction
  <2>3. CASE Mentions(r, m, s)
    <3>1. ~Quiet(commits', m, s) /\ (Puts(commits', m, s) <=> r.on)
      BY <1>1, <2>2, <2>3, ReactionAppended
    <3>2. r.on <=> s \in marks'[m]
      BY <2>2, <2>3 DEF Mentions
    <3> QED
      BY <1>2, <3>1, <3>2 DEF MarkOk, LoadUnderWay
  <2>4. CASE ~Mentions(r, m, s)
    <3>1. /\ Quiet(commits', m, s) <=> Quiet(commits, m, s)
          /\ Puts(commits', m, s) <=> Puts(commits, m, s)
      BY <1>1, <2>2, <2>4, ReactionAppended
    <3>2. s \in marks'[m] <=> s \in marks[m]
      BY <2>2, <2>4 DEF Mentions
    <3> QED
      BY <1>2, <3>1, <3>2 DEF MarkOk, LoadUnderWay
  <2> QED
    BY <2>3, <2>4
<1> QED
  BY <1>3, <1>4

LEMMA MarkPublished ==
    ASSUME StoreTypes, ViewTypes, ClosedInv, ReactionTypes,
           NEW m \in Message, NEW s \in Sender, MarkOk(m, s), PublishRow \/ PublishReaction
    PROVE  MarkOk(m, s)'
<1> DEFINE r == Head(commits)
<1>1. /\ commits \in Seq(Commit \cup Reaction) /\ commits # <<>> /\ commits' = Tail(commits)
      /\ UNCHANGED <<marks, load, hydrated>>
  BY DEF StoreTypes, PublishRow, PublishReaction, saved
<1>2. /\ Mentions(r, m, s) =>
             /\ ~Quiet(commits, m, s)
             /\ Quiet(commits', m, s) => (Puts(commits, m, s) <=> r.on)
      /\ ~Mentions(r, m, s) => (Quiet(commits', m, s) <=> Quiet(commits, m, s))
      /\ ~Quiet(commits', m, s) => (Puts(commits', m, s) <=> Puts(commits, m, s))
  BY <1>1, ReactionTaken
<1> HIDE DEF r
<1>3. CASE UNCHANGED <<reactions, replays>> /\ ~Mentions(r, m, s)
  BY <1>1, <1>2, <1>3 DEF MarkOk, LoadUnderWay
<1>4. CASE PublishReaction /\ open
  <2>1. /\ r \in Reaction /\ reactions' = React(reactions, r)
        /\ replays' = IF LoadUnderWay THEN Append(replays, r) ELSE replays
    BY <1>4 DEF PublishReaction, r
  <2>2. s \in reactions'[m] <=> IF Mentions(r, m, s) THEN r.on ELSE s \in reactions[m]
    BY <2>1, ReactedMarks DEF ReactionTypes
  <2>3. /\ LoadUnderWay /\ Mentions(r, m, s) =>
               ~Quiet(replays', m, s) /\ (Puts(replays', m, s) <=> r.on)
        /\ ~Mentions(r, m, s) => /\ Quiet(replays', m, s) <=> Quiet(replays, m, s)
                                 /\ Puts(replays', m, s) <=> Puts(replays, m, s)
    BY <2>1, ReactionAppended DEF ReactionTypes
  <2>4. ~LoadUnderWay => Quiet(replays', m, s)
    BY <2>1, QuietWhenEmpty DEF ReactionTypes
  <2>5. CASE Mentions(r, m, s)
    BY <1>1, <1>2, <2>2, <2>3, <2>4, <2>5 DEF MarkOk, LoadUnderWay
  <2>6. CASE ~Mentions(r, m, s)
    BY <1>1, <1>2, <2>2, <2>3, <2>6 DEF MarkOk, LoadUnderWay
  <2> QED
    BY <2>5, <2>6
<1>5. CASE PublishReaction /\ ~open
  <2>1. UNCHANGED <<reactions, replays>>
    BY <1>5 DEF PublishReaction
  <2>2. load.stage = "none" /\ ~LoadUnderWay
    BY <1>5 DEF ClosedInv, LoadUnderWay
  <2>3. Quiet(replays', m, s)
    BY <2>1, <2>2, QuietWhenEmpty DEF ReactionTypes
  <2> QED
    BY <1>1, <1>2, <2>1, <2>2, <2>3 DEF MarkOk, LoadUnderWay
<1>6. CASE PublishRow
  <2>1. UNCHANGED <<reactions, replays>>
    BY <1>6 DEF PublishRow
  <2>2. ~Mentions(r, m, s)
    BY <1>6, CommitSpeaksOfNoMark DEF PublishRow, r
  <2> QED
    BY <1>3, <2>1, <2>2
<1> QED
  BY <1>4, <1>5, <1>6

LEMMA MarkSeen ==
    ASSUME StoreTypes, ViewTypes, ReactionTypes,
           NEW m \in Message, NEW s \in Sender, MarkOk(m, s), ViewStep
    PROVE  MarkOk(m, s)'
<1>1. /\ commits' = commits /\ load \in Load /\ marks \in Marks /\ reactions \in Marks
      /\ replays \in Seq(Reaction)
  BY ViewKeepsStore DEF StoreTypes, ViewTypes, ReactionTypes
<1>2. marks' = marks
  BY DEF ViewStep, InitialScroll, JumpToQuoted, InjectQuoted, Open, Close, ReadRows,
         ReadMarks, LoadFails, ApplyHistorySnapshot, LoadMoreStoredHistory,
         RequestOlderHistory, RequestFails, WaitedForPhone, ReadPage, ApplyPage, ReadSlice,
         ApplySlice, SendDraft, SendReturns, SendFails, SaveSentFails, saved
<1>3. CASE Open \/ Close
  <2>1. /\ reactions' = NoMarks /\ replays' = <<>> /\ hydrated' = {}
        /\ load'.stage \in {"preparing", "none"}
    BY <1>3 DEF Open, Close, Fresh, NoLoad
  <2>2. Quiet(replays', m, s) /\ s \notin reactions'[m]
    BY <2>1, QuietWhenEmpty DEF NoMarks
  <2> QED
    BY <1>1, <1>2, <2>1, <2>2 DEF MarkOk
<1>4. CASE ReadRows \/ LoadFails
  <2>1. /\ UNCHANGED <<reactions, replays, hydrated>>
        /\ load.stage = "preparing" /\ load'.stage \in {"rows", "failed"}
    BY <1>1, <1>4 DEF ReadRows, LoadFails, Load, timeline
  <2> QED
    BY <1>1, <1>2, <2>1 DEF MarkOk, LoadUnderWay
<1>5. CASE ReadMarks
  <2>1. /\ UNCHANGED <<reactions, replays, hydrated>> /\ load.stage = "rows"
        /\ load'.stage = "built" /\ load'.rows = load.rows
        /\ load'.marks = [k \in Message |-> IF load.rows[k] # 0 THEN marks[k] ELSE {}]
    BY <1>1, <1>5 DEF ReadMarks, Load, timeline
  <2> QED
    BY <1>1, <1>2, <2>1 DEF MarkOk, LoadUnderWay
<1>6. CASE ApplyHistorySnapshot
  <2> DEFINE f == [k \in Message |-> IF load.marks[k] # {} THEN load.marks[k] ELSE reactions[k]]
  <2>1. /\ load.stage = "built" /\ load'.stage = "done"
        /\ reactions' = FoldLeft(React, f, replays) /\ replays' = <<>>
        /\ hydrated' = Rows(load.rows)
    BY <1>6 DEF ApplyHistorySnapshot, ReplayedMarks, NoLoad
  <2>2. f \in Marks /\ (s \in f[m] <=> IF load.marks[m] # {} THEN s \in load.marks[m]
                                                           ELSE s \in reactions[m])
    BY <1>1 DEF Marks, Load
  <2> HIDE DEF f
  <2>3. s \in reactions'[m] <=> Puts(replays, m, s) \/ (Quiet(replays, m, s) /\ s \in f[m])
    BY <1>1, <2>1, <2>2, ReplayMeaning
  <2>4. Quiet(replays, m, s) => ~Puts(replays, m, s)
    BY DEF Quiet, QuietTo, Puts, PutsTo
  <2>5. Quiet(replays, m, s) => s \notin reactions[m]
    BY <2>1 DEF MarkOk, LoadUnderWay
  <2>6. Quiet(replays, m, s) => (s \in f[m] <=> s \in load.marks[m])
    BY <2>2, <2>5
  <2>7. m \in Rows(load.rows) /\ Quiet(commits, m, s) => (s \in reactions'[m] <=> s \in marks[m])
    BY <2>1, <2>3, <2>4, <2>6 DEF MarkOk, Rows
  <2>8. Quiet(replays', m, s)
    BY <2>1, QuietWhenEmpty
  <2> QED
    BY <1>1, <1>2, <2>1, <2>7, <2>8 DEF MarkOk, LoadUnderWay
<1>7. CASE UNCHANGED <<reactions, load, replays, hydrated>>
  BY <1>1, <1>2, <1>7 DEF MarkOk, LoadUnderWay
<1>8. \/ UNCHANGED <<reactions, load, replays, hydrated>>
      \/ Open \/ Close \/ ReadRows \/ LoadFails \/ ReadMarks \/ ApplyHistorySnapshot
  BY DEF ViewStep, InitialScroll, JumpToQuoted, InjectQuoted, LoadMoreStoredHistory,
         RequestOlderHistory, RequestFails, WaitedForPhone, ReadPage, ApplyPage, ReadSlice,
         ApplySlice, SendDraft, SendReturns, SendFails, SaveSentFails, timeline, loading
<1> QED
  BY <1>3, <1>4, <1>5, <1>6, <1>7, <1>8

LEMMA TypesAndMarksInit ==
    ASSUME Init
    PROVE  RestTypes /\ MarksInv
<1>1. Flags /\ SetTypes
  <2>1. /\ open = FALSE /\ hasMore = FALSE /\ unavailable = FALSE /\ scrolled = FALSE
        /\ jumped = FALSE
    BY DEF Init
  <2>2. SetTypes
    BY DEF Init, SetTypes
  <2> QED
    BY <2>1, <2>2, Zenon DEF Flags
<1>2. Bounds
  BY ConversationAssumption DEF Init, Bounds, NoPage, NoJump, Attempts, ConversationAssumption
<1>3. reactions = NoMarks /\ replays = <<>> /\ commits = <<>> /\ hydrated = {}
      /\ load.stage = "none"
  BY DEF Init, NoLoad
<1>4. ReactionTypes
  BY <1>3, RowsEmpty DEF ReactionTypes
<1>5. MarksInv
  BY <1>3, QuietWhenEmpty DEF MarksInv, MarkOk, LoadUnderWay
<1> QED
  BY <1>1, <1>2, <1>4, <1>5 DEF RestTypes

LEMMA TypesAndMarks == Spec => [](RestTypes /\ MarksInv)
<1>1. Init => RestTypes /\ MarksInv
  BY TypesAndMarksInit
<1>2. Inv /\ RestTypes /\ MarksInv /\ [Next]_vars => (RestTypes /\ MarksInv)'
  <2> SUFFICES ASSUME Inv, RestTypes, MarksInv, [Next]_vars
               PROVE  RestTypes' /\ MarksInv'
    OBVIOUS
  <2>1. StoreTypes /\ QueueInv /\ ViewTypes /\ ClosedInv /\ ReactionTypes
    BY DEF Inv, RestTypes
  <2>2. CASE Next
    <3>1. RestTypes'
      BY <2>1, <2>2, FlagsStep, SetTypesStep, BoundsStep, ReactionTypesStep DEF RestTypes
    <3>2. ASSUME NEW m \in Message, NEW s \in Sender
          PROVE  MarkOk(m, s)'
      <4>1. MarkOk(m, s)
        BY DEF MarksInv
      <4> QED
        BY <2>1, <2>2, <4>1, Steps, MarkSaved, MarkPublished, MarkSeen
    <3>3. MarksInv'
      BY <3>2 DEF MarksInv
    <3> QED
      BY <3>1, <3>3
  <2>3. CASE UNCHANGED vars
    <3>1. UNCHANGED <<marks, commits, open, temps, mine, reactions, load, replays, hydrated,
                      hasMore, unavailable, page, scrolled, jump, jumped, missed>>
      BY <2>3 DEF vars, saved, timeline, loading, paging, jumping
    <3>2. RestTypes'
      BY <3>1 DEF RestTypes, Flags, SetTypes, Bounds, ReactionTypes, LoadUnderWay
    <3>3. MarksInv'
      BY <3>1 DEF MarksInv, MarkOk, LoadUnderWay
    <3> QED
      BY <3>2, <3>3
  <2> QED
    BY <2>2, <2>3
<1> QED
  BY <1>1, <1>2, Invariance, PTL DEF Spec

(* Every variable of the timeline keeps its type, the attempts for a page  *)
(* and the rows before a jump stay within their limits, and updates are    *)
(* kept for a load only while one is under way (reactionsDuringHistory,    *)
(* changesDuringHistory).                                                  *)
THEOREM TimelineTypes == Spec => []TypeOK
<1>1. Inv /\ RestTypes => TypeOK
  <2> SUFFICES ASSUME Inv, RestTypes
               PROVE  TypeOK
    OBVIOUS
  <2>1. /\ StoreTypes /\ ViewTypes /\ KeptForLoad
        /\ Flags /\ SetTypes /\ Bounds /\ ReactionTypes
    BY DEF Inv, RestTypes
  <2>2. /\ \A k \in 1..Len(commits) : commits[k] \in Commit \cup Reaction
        /\ \A k \in 1..Len(replays) : replays[k] \in Reaction
    BY <2>1 DEF StoreTypes, ReactionTypes
  <2>3. page \in [stage: {"none", "phone", "fetch", "read"}, by: {"scroll", "phone"},
                  tries: 0..Attempts, rows: Content, more: BOOLEAN]
    <3> DEFINE T == 0..Attempts
    <3>1. page \in Page /\ page.tries \in T
      BY <2>1 DEF ViewTypes, Bounds
    <3> HIDE DEF T
    <3>2. page \in [stage: {"none", "phone", "fetch", "read"}, by: {"scroll", "phone"},
                    tries: T, rows: Content, more: BOOLEAN]
      BY <3>1 DEF Page
    <3> QED
      BY <3>2 DEF T
  <2>4. jump \in [stage: {"none", "fetch", "read"}, target: Message \cup {None},
                  before: 0..JumpSize, rows: Content]
    <3> DEFINE B == 0..JumpSize
               T == Message \cup {None}
    <3>1. jump \in Jump /\ jump.before \in B
      BY <2>1 DEF ViewTypes, Bounds
    <3>2. jump \in [stage: {"none", "fetch", "read"}, target: T, before: B, rows: Content]
      <4> HIDE DEF B
      <4> QED
        BY <3>1 DEF Jump
    <3> QED
      BY <3>2
  <2>5. /\ store \in Content /\ marks \in Marks
        /\ sends \in [Sent -> {"idle", "out", "saving", "saved", "unsaved"}]
        /\ messages \in Content /\ changes \in Content /\ mine \subseteq Sent
        /\ load \in [stage: {"none", "preparing", "rows", "built", "done", "failed"},
                     rows: Content, marks: Marks, more: BOOLEAN]
        /\ cursor \in Message \cup {None}
    BY <2>1 DEF StoreTypes, ViewTypes, Load
  <2>6. LoadUnderWay \/ (changes = NoRows /\ replays = <<>>)
    BY <2>1 DEF KeptForLoad, ReactionTypes
  <2> QED
    BY <2>1, <2>2, <2>3, <2>4, <2>5, <2>6, Zenon DEF TypeOK, Flags, SetTypes, ReactionTypes
<1> QED
  BY <1>1, Invariance, TypesAndMarks, PTL

(* Whatever was published while the snapshot was read, replaying it keeps  *)
(* the reactions of others and brings none back that was taken away        *)
(* (applyHistorySnapshot, applyReaction).                                  *)
THEOREM NoReactionIsLost == Spec => []ReactionsKept
<1>1. Inv /\ RestTypes /\ MarksInv => ReactionsKept
  <2> SUFFICES ASSUME Inv, RestTypes, MarksInv, AtRest, NEW m \in hydrated
               PROVE  reactions[m] = marks[m]
    BY DEF ReactionsKept
  <2>1. /\ m \in Message /\ commits = <<>>
        /\ reactions \in Marks /\ marks \in Marks
    BY DEF RestTypes, SetTypes, ReactionTypes, Inv, StoreTypes, AtRest
  <2>2. reactions[m] \subseteq Sender /\ marks[m] \subseteq Sender
    BY <2>1 DEF Marks
  <2>3. \A s \in Sender : s \in reactions[m] <=> s \in marks[m]
    BY <2>1, QuietWhenEmpty DEF MarksInv, MarkOk
  <2> QED
    BY <2>2, <2>3
<1> QED
  BY <1>1, Invariance, TypesAndMarks, PTL
=============================================================================
