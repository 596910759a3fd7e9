---------------------------- MODULE Conversation ----------------------------
(***************************************************************************)
(* The timeline of the open conversation                                   *)
(* (ViewModels/ConversationViewModel.swift) over the store it shows.       *)
(*                                                                         *)
(* What is shown comes from four places that race each other: the history  *)
(* snapshot built in the background when the chat is opened, older pages,  *)
(* jumps that replace the window, and the commits the session publishes on *)
(* the main actor after the writer saved them.  Each `await` of a task is  *)
(* a point between two actions; a read of the store happens in a task, its *)
(* result is applied on the main actor later.                              *)
(*                                                                         *)
(* A message is its place in the order (timestamp, id), so 1 is the oldest *)
(* the store may ever hold.  The content of a row is a version: 0 for no   *)
(* row, higher for later (MessageWriter never goes back).  The array and   *)
(* its set of ids are one function; sorting it is layout.                  *)
(***************************************************************************)
EXTENDS Integers, SequencesExt

CONSTANTS
    Count,      \* bound of the model: messages that may ever exist
    Editable,   \* bound of the model: messages that may be edited or revoked
    Reacted,    \* bound of the model: messages that may be reacted to
    Sender,     \* senders of reactions
    Sent,       \* messages composed in this conversation
    MaxVersion, \* bound of the model: versions of an editable message
    MaxCommits, \* bound of the model: commits saved and not yet published
    MaxReplays, \* bound of the model: reactions during one load
    LoadLimit,  \* historyLoadLimit: 60
    PageSize,   \* historyPageSize: 200
    JumpSize    \* jumpWindowSize: 2500

Message == 1..Count
Version == 0..MaxVersion
None == 0
Attempts == 4

ASSUME ConversationAssumption ==
    /\ Count \in Nat /\ {MaxVersion, MaxCommits, MaxReplays} \subseteq Nat \ {0}
    /\ Editable \subseteq Message /\ Reacted \subseteq Message /\ Sent \subseteq Message
    /\ {LoadLimit, PageSize, JumpSize} \subseteq Nat \ {0}

Content == [Message -> Version]
Marks == [Message -> SUBSET Sender]
Commit == [row: Message, version: Version, incoming: BOOLEAN]
Reaction == [row: Message, sender: Sender, on: BOOLEAN]

VARIABLES
    store,      \* saved rows
    marks,      \* saved reactions: who reacted to what
    commits,    \* saved, not yet published: commits and reactions, in order
    sends,      \* each composed message: idle, out, saving, saved, unsaved
    open,       \* the conversation is the session's current one
    messages,   \* the rows shown
    temps,      \* optimistic rows shown under a temporary id
    mine,       \* messages composed since the conversation was opened
    reactions,  \* reactionsBySender
    load,       \* the history load: its stage and what it has read
    changes,    \* changesDuringHistory
    replays,    \* reactionsDuringHistory
    cursor,     \* olderHistoryCursor
    hasMore,    \* hasMoreStoredHistory
    unavailable, \* olderUnavailable
    page,       \* the older page under way (loadingOlder): its stage and rows
    scrolled,   \* didInitialScroll
    jump,       \* the rewindow under way
    jumped,     \* history: a jump has replaced the window
    missed,     \* history: rows published after a page or jump had read them
    hydrated    \* history: rows of the history snapshot that was applied

saved == <<store, marks, sends>>
timeline == <<messages, temps, mine, reactions>>
loading == <<load, changes, replays, hydrated>>
paging == <<cursor, hasMore, unavailable, page>>
jumping == <<scrolled, jump, jumped, missed>>
vars == <<saved, commits, open, timeline, loading, paging, jumping>>

NoRows == [m \in Message |-> 0]
NoMarks == [m \in Message |-> {}]
NoLoad == [stage |-> "none", rows |-> NoRows, marks |-> NoMarks, more |-> FALSE]
NoPage == [stage |-> "none", by |-> "scroll", tries |-> 0, rows |-> NoRows, more |-> FALSE]
NoJump == [stage |-> "none", target |-> None, before |-> 0, rows |-> NoRows]

(* historyLoadID is set: a load that failed leaves it so.                  *)
LoadUnderWay == load.stage \in {"preparing", "rows", "built", "failed"}

(* Every variable keeps its type, and updates are kept for a load only     *)
(* while one is under way (changesDuringHistory, reactionsDuringHistory).  *)
TypeOK ==
    /\ LoadUnderWay \/ (changes = NoRows /\ replays = <<>>)
    /\ store \in Content /\ marks \in Marks
    /\ \A k \in 1..Len(commits) : commits[k] \in Commit \cup Reaction
    /\ sends \in [Sent -> {"idle", "out", "saving", "saved", "unsaved"}]
    /\ open \in BOOLEAN
    /\ messages \in Content
    /\ temps \subseteq mine /\ mine \subseteq Sent
    /\ reactions \in Marks
    /\ load \in [stage: {"none", "preparing", "rows", "built", "done", "failed"},
                 rows: Content, marks: Marks, more: BOOLEAN]
    /\ changes \in Content
    /\ \A k \in 1..Len(replays) : replays[k] \in Reaction
    /\ cursor \in Message \cup {None}
    /\ hasMore \in BOOLEAN /\ unavailable \in BOOLEAN
    /\ page \in [stage: {"none", "phone", "fetch", "read"}, by: {"scroll", "phone"},
                 tries: 0..Attempts, rows: Content, more: BOOLEAN]
    /\ scrolled \in BOOLEAN
    /\ jump \in [stage: {"none", "fetch", "read"}, target: Message \cup {None},
                 before: 0..JumpSize, rows: Content]
    /\ jumped \in BOOLEAN
    /\ missed \subseteq Message /\ hydrated \subseteq Message

(* A view model that has just been made. *)
Fresh ==
    /\ messages' = NoRows /\ temps' = {} /\ mine' = {} /\ reactions' = NoMarks
    /\ changes' = NoRows /\ replays' = <<>> /\ hydrated' = {}
    /\ cursor' = None /\ hasMore' = FALSE /\ unavailable' = FALSE /\ page' = NoPage
    /\ scrolled' = FALSE /\ jump' = NoJump /\ jumped' = FALSE /\ missed' = {}

(* Any rows and reactions may be in the store from earlier. *)
Init ==
    /\ store \in [Message -> {0, 1}]
    /\ \A m \in Sent : store[m] = 0
    /\ marks \in {f \in Marks : \A m \in Message \ Reacted : f[m] = {}}
    /\ commits = <<>>
    /\ sends = [m \in Sent |-> "idle"]
    /\ open = FALSE
    /\ messages = NoRows /\ temps = {} /\ mine = {} /\ reactions = NoMarks
    /\ load = NoLoad /\ changes = NoRows /\ replays = <<>> /\ hydrated = {}
    /\ cursor = None /\ hasMore = FALSE /\ unavailable = FALSE /\ page = NoPage
    /\ scrolled = FALSE /\ jump = NoJump /\ jumped = FALSE /\ missed = {}

Rows(f) == {m \in Message : f[m] # 0}
Only(f, S) == [m \in Message |-> IF m \in S THEN f[m] ELSE 0]
Newest(S, n) == {m \in S : Cardinality({k \in S : k > m}) < n}
Oldest(S, n) == {m \in S : Cardinality({k \in S : k < m}) < n}

-----------------------------------------------------------------------------
(* The writer saves: an incoming message, new or replayed ... *)
SaveMessage(m) ==
    /\ Len(commits) < MaxCommits
    /\ m \notin Sent
    /\ store' = [store EXCEPT ![m] = IF @ = 0 THEN 1 ELSE @]
    /\ commits' = Append(commits, [row |-> m, version |-> store'[m], incoming |-> TRUE])
    /\ UNCHANGED <<marks, sends, open, timeline, loading, paging, jumping>>

(* ... an edit, a revocation or another mutation of a stored row ... *)
SaveChange(m) ==
    /\ Len(commits) < MaxCommits
    /\ store[m] \in 1..(MaxVersion - 1)
    /\ store' = [store EXCEPT ![m] = @ + 1]
    /\ commits' = Append(commits, [row |-> m, version |-> store'[m], incoming |-> FALSE])
    /\ UNCHANGED <<marks, sends, open, timeline, loading, paging, jumping>>

(* ... or a reaction, put or taken back. *)
SaveReaction(m, s) ==
    /\ Len(commits) < MaxCommits
    /\ Len(replays) + Len(commits) < MaxReplays
    /\ marks' = [marks EXCEPT ![m] = IF s \in @ THEN @ \ {s} ELSE @ \cup {s}]
    /\ commits' = Append(commits, [row |-> m, sender |-> s, on |-> s \in marks'[m]])
    /\ UNCHANGED <<store, sends, open, timeline, loading, paging, jumping>>

(* applyReaction, for one reaction *)
React(f, r) ==
    [f EXCEPT ![r.row] = IF r.on THEN @ \cup {r.sender} ELSE @ \ {r.sender}]

(* applyCommitted: a row that is shown is replaced, an incoming one added. *)
Shown(c) ==
    IF messages[c.row] # 0 \/ c.incoming
    THEN [messages EXCEPT ![c.row] = c.version] ELSE messages

(* Mutants: nothing is kept for the load, or kept when there is none. *)
KeptNothing(c) == changes
KeptAlways(c) == [changes EXCEPT ![c.row] = c.version]

Kept(c) == IF LoadUnderWay THEN [changes EXCEPT ![c.row] = c.version] ELSE changes

(* A page or a jump has read an earlier version of the row.                *)
Misses(c) ==
    \/ jump.stage = "read" /\ jump.rows[c.row] \notin {0, c.version}
    \/ page.stage = "read" /\ page.rows[c.row] \notin {0, c.version}

(* The session publishes the oldest commit to its current conversation.    *)
PublishRow ==
    LET c == Head(commits)
    IN  /\ commits # <<>> /\ c \in Commit
        /\ commits' = Tail(commits)
        /\ IF open
           THEN /\ messages' = Shown(c)
                /\ changes' = Kept(c)
                /\ missed' = IF Misses(c) THEN missed \cup {c.row} ELSE missed \ {c.row}
           ELSE UNCHANGED <<messages, changes, missed>>
        /\ UNCHANGED <<saved, open, temps, mine, reactions, load, replays, hydrated,
                       paging, scrolled, jump, jumped>>

PublishReaction ==
    LET r == Head(commits)
    IN  /\ commits # <<>> /\ r \in Reaction
        /\ commits' = Tail(commits)
        /\ IF open
           THEN /\ reactions' = React(reactions, r)
                /\ replays' = IF LoadUnderWay THEN Append(replays, r) ELSE replays
           ELSE UNCHANGED <<reactions, replays>>
        /\ UNCHANGED <<saved, open, messages, temps, mine, load, changes, hydrated,
                       paging, jumping>>

-----------------------------------------------------------------------------
(* The view appears: a new view model is registered and loads its history. *)
Open ==
    /\ ~open
    /\ open' = TRUE
    /\ Fresh
    /\ load' = [NoLoad EXCEPT !.stage = "preparing"]
    /\ UNCHANGED <<saved, commits>>

(* It disappears: cancelHistoryLoad, and nobody looks at the rest again.   *)
Close ==
    /\ open
    /\ open' = FALSE
    /\ Fresh
    /\ load' = NoLoad
    /\ UNCHANGED <<saved, commits>>

(* prepareHistory done, buildHistorySnapshot fetches the newest rows ...   *)
ReadRows ==
    /\ load.stage = "preparing"
    /\ LET S == Rows(store)
       IN  load' = [load EXCEPT !.stage = "rows",
                                !.rows = Only(store, Newest(S, LoadLimit)),
                                !.more = Cardinality(S) > LoadLimit]
    /\ UNCHANGED <<saved, commits, open, timeline, changes, replays, hydrated, paging,
                   jumping>>

(* ... then the reactions to them. *)
ReadMarks ==
    /\ load.stage = "rows"
    /\ load' = [load EXCEPT !.stage = "built",
                    !.marks = [m \in Message |-> IF load.rows[m] # 0 THEN marks[m] ELSE {}]]
    /\ UNCHANGED <<saved, commits, open, timeline, changes, replays, hydrated, paging,
                   jumping>>

(* prepareHistory throws: the load identifier stays. *)
LoadFails ==
    /\ load.stage = "preparing"
    /\ load' = [load EXCEPT !.stage = "failed"]
    /\ UNCHANGED <<saved, commits, open, timeline, changes, replays, hydrated, paging,
                   jumping>>

(* Mutant: the snapshot replaces what was shown meanwhile. *)
ReplacedBySnapshot == load.rows

(* Rows committed during the load win over the snapshot, rows it does not  *)
(* have are kept.                                                          *)
MergedWithSnapshot ==
    [m \in Message |->
        IF load.rows[m] = 0 THEN messages[m]
        ELSE IF changes[m] # 0 THEN changes[m]
        ELSE IF messages[m] # 0 THEN messages[m]
        ELSE load.rows[m]]

(* Mutant: a row that was reacted to meanwhile keeps what is shown of it. *)
LiveMarks ==
    [m \in Message |-> IF load.marks[m] # {} /\ ~\E k \in 1..Len(replays) : replays[k].row = m
                       THEN load.marks[m] ELSE reactions[m]]

(* The snapshot's reactions, with those of the meantime applied on top.    *)
ReplayedMarks ==
    FoldLeft(React, [m \in Message |-> IF load.marks[m] # {} THEN load.marks[m]
                                                             ELSE reactions[m]], replays)

ApplyHistorySnapshot ==
    /\ load.stage = "built"
    /\ messages' = MergedWithSnapshot
    /\ reactions' = ReplayedMarks
    /\ cursor' = IF Rows(load.rows) = {} THEN None ELSE Min(Rows(load.rows))
    /\ hasMore' = load.more
    /\ unavailable' = FALSE
    /\ hydrated' = Rows(load.rows)
    /\ load' = [NoLoad EXCEPT !.stage = "done"]
    /\ changes' = NoRows /\ replays' = <<>>
    /\ UNCHANGED <<saved, commits, open, temps, mine, page, jumping>>

-----------------------------------------------------------------------------
(* loadMoreStoredHistory, also what requestOlderHistory does while stored  *)
(* pages are left.                                                         *)
LoadMoreStoredHistory ==
    /\ open
    /\ page.stage = "none" /\ hasMore /\ cursor # None
    /\ page' = [NoPage EXCEPT !.stage = "fetch", !.tries = 1]
    /\ UNCHANGED <<saved, commits, open, timeline, loading, cursor, hasMore, unavailable,
                   jumping>>

(* requestOlderHistory with no stored page left; without a stored row as   *)
(* an anchor it gives up at once.                                          *)
RequestOlderHistory ==
    /\ open
    /\ page.stage = "none" /\ ~hasMore /\ ~unavailable
    /\ Rows(store) # {}
    /\ page' = [NoPage EXCEPT !.stage = "phone", !.by = "phone"]
    /\ UNCHANGED <<saved, commits, open, timeline, loading, cursor, hasMore, unavailable,
                   jumping>>

(* The bridge refused. *)
RequestFails ==
    /\ page.stage = "phone"
    /\ page' = NoPage
    /\ UNCHANGED <<saved, commits, open, timeline, loading, cursor, hasMore, unavailable,
                   jumping>>

(* Five seconds later, whatever has come by then, one page is loaded.      *)
WaitedForPhone ==
    /\ page.stage = "phone"
    /\ IF cursor = None
       THEN page' = NoPage /\ unavailable' = TRUE
       ELSE page' = [page EXCEPT !.stage = "fetch", !.tries = 1] /\ UNCHANGED unavailable
    /\ UNCHANGED <<saved, commits, open, timeline, loading, cursor, hasMore, jumping>>

(* Mutant: the page is fetched in the wrong order. *)
PageOldestFirst == Oldest({m \in Rows(store) : m < cursor}, PageSize)

(* buildEarlierSnapshot *)
PageRows == Newest({m \in Rows(store) : m < cursor}, PageSize)

ReadPage ==
    /\ page.stage = "fetch"
    /\ page' = [page EXCEPT !.stage = "read",
                    !.rows = Only(store, PageRows),
                    !.more = \E m \in Rows(store) : m < cursor /\ m \notin PageRows]
    /\ UNCHANGED <<saved, commits, open, timeline, loading, cursor, hasMore, unavailable,
                   jumping>>

(* loadEarlierPage: rows not yet shown are put in front; a page without    *)
(* any only moves the cursor, and the next is fetched, at most four times. *)
ApplyPage ==
    LET new == Rows(page.rows) \ Rows(messages)
    IN  /\ page.stage = "read"
        /\ cursor' = IF Rows(page.rows) = {} THEN cursor ELSE Min(Rows(page.rows))
        /\ hasMore' = page.more
        /\ messages' = [m \in Message |-> IF m \in new THEN page.rows[m] ELSE messages[m]]
        /\ IF new = {} /\ page.more /\ page.tries < Attempts
           THEN /\ page' = [NoPage EXCEPT !.stage = "fetch", !.by = page.by,
                                          !.tries = page.tries + 1]
                /\ UNCHANGED unavailable
           ELSE /\ page' = NoPage
                /\ unavailable' = IF new # {} THEN FALSE
                                  ELSE IF page.by = "phone" THEN TRUE ELSE unavailable
        /\ UNCHANGED <<saved, commits, open, temps, mine, reactions, loading, jumping>>

-----------------------------------------------------------------------------
(* The first scroll: to the bottom, or to a shown row above it by way of a *)
(* window that begins there.                                               *)
InitialScroll(t) ==
    /\ open /\ ~scrolled /\ jump.stage = "none"
    /\ messages[t] # 0
    /\ scrolled' = TRUE
    /\ jump' = IF t = Max(Rows(messages)) THEN NoJump
               ELSE [NoJump EXCEPT !.stage = "fetch", !.target = t]
    /\ UNCHANGED <<saved, commits, open, timeline, loading, paging, jumped, missed>>

(* jumpToQuoted: with much loaded, a window around the quoted row ...      *)
JumpToQuoted(t) ==
    /\ open /\ jump.stage = "none"
    /\ Cardinality(Rows(messages)) > JumpSize
    /\ jump' = [NoJump EXCEPT !.stage = "fetch", !.target = t, !.before = JumpSize \div 2]
    /\ UNCHANGED <<saved, commits, open, timeline, loading, paging, scrolled, jumped, missed>>

(* ... else the row alone is put among those shown. *)
InjectQuoted(t) ==
    /\ open
    /\ Cardinality(Rows(messages)) <= JumpSize
    /\ messages[t] = 0 /\ store[t] # 0
    /\ messages' = [messages EXCEPT ![t] = store[t]]
    /\ UNCHANGED <<saved, commits, open, temps, mine, reactions, loading, paging, jumping>>

(* rewindowAround: the rows around the target ... *)
ReadSlice ==
    /\ jump.stage = "fetch"
    /\ LET S == Rows(store)
           slice == Newest({m \in S : m < jump.target}, jump.before)
               \cup Oldest({m \in S : m >= jump.target}, JumpSize - jump.before)
       IN  jump' = IF jump.target \in S
                   THEN [jump EXCEPT !.stage = "read", !.rows = Only(store, slice)]
                   ELSE NoJump
    /\ UNCHANGED <<saved, commits, open, timeline, loading, paging, scrolled, jumped, missed>>

(* ... replace everything that is shown. *)
ApplySlice ==
    /\ jump.stage = "read"
    /\ messages' = jump.rows
    /\ temps' = {}
    /\ jump' = NoJump
    /\ jumped' = TRUE
    /\ UNCHANGED <<saved, commits, open, mine, reactions, loading, paging, scrolled, missed>>

-----------------------------------------------------------------------------
(* sendDraft: a temporary row at once ... *)
SendDraft(m) ==
    /\ open
    /\ sends[m] = "idle"
    /\ sends' = [sends EXCEPT ![m] = "out"]
    /\ temps' = temps \cup {m} /\ mine' = mine \cup {m}
    /\ UNCHANGED <<store, marks, commits, open, messages, reactions, loading, paging, jumping>>

(* ... replaced by the real one when the bridge returns, or added if the   *)
(* temporary row is gone; then recordOutgoing saves it.                    *)
SendReturns(m) ==
    /\ sends[m] = "out"
    /\ sends' = [sends EXCEPT ![m] = "saving"]
    /\ temps' = temps \ {m}
    /\ messages' = IF m \in mine THEN [messages EXCEPT ![m] = 1] ELSE messages
    /\ UNCHANGED <<store, marks, commits, open, mine, reactions, loading, paging, jumping>>

SendFails(m) ==
    /\ sends[m] = "out"
    /\ sends' = [sends EXCEPT ![m] = "idle"]
    /\ temps' = temps \ {m} /\ mine' = mine \ {m}
    /\ UNCHANGED <<store, marks, commits, open, messages, reactions, loading, paging, jumping>>

SaveSent(m) ==
    /\ Len(commits) < MaxCommits
    /\ sends[m] = "saving"
    /\ sends' = [sends EXCEPT ![m] = "saved"]
    /\ store' = [store EXCEPT ![m] = 1]
    /\ commits' = Append(commits, [row |-> m, version |-> 1, incoming |-> TRUE])
    /\ UNCHANGED <<marks, open, timeline, loading, paging, jumping>>

(* SentMessageSaveError: it stays shown, and nothing is sent again.        *)
SaveSentFails(m) ==
    /\ sends[m] = "saving"
    /\ sends' = [sends EXCEPT ![m] = "unsaved"]
    /\ UNCHANGED <<store, marks, commits, open, timeline, loading, paging, jumping>>

Next ==
    \/ \E m \in Message : SaveMessage(m) \/ InitialScroll(m) \/ JumpToQuoted(m)
                          \/ InjectQuoted(m)
    \/ \E m \in Editable : SaveChange(m)
    \/ \E m \in Reacted, s \in Sender : SaveReaction(m, s)
    \/ PublishRow \/ PublishReaction
    \/ Open \/ Close
    \/ ReadRows \/ ReadMarks \/ LoadFails \/ ApplyHistorySnapshot
    \/ LoadMoreStoredHistory \/ RequestOlderHistory \/ RequestFails \/ WaitedForPhone
    \/ ReadPage \/ ApplyPage
    \/ ReadSlice \/ ApplySlice
    \/ \E m \in Sent : SendDraft(m) \/ SendReturns(m) \/ SendFails(m) \/ SaveSent(m)
                       \/ SaveSentFails(m)

Spec == Init /\ [][Next]_vars

-----------------------------------------------------------------------------
(* Nothing is under way and everything saved has been published.           *)
AtRest ==
    /\ open /\ load.stage = "done"
    /\ page.stage = "none" /\ jump.stage = "none"
    /\ commits = <<>>

(* History snapshots merge changes committed during their load: at rest a  *)
(* shown row is the stored one, however snapshot, commits and pages        *)
(* interleaved, but for a change published after a page or a jump had read *)
(* the row and before it was applied.                                      *)
ShownUpToDate ==
    AtRest => \A m \in (Rows(messages) \cap Rows(store)) \ missed : messages[m] = store[m]

(* No row from the cursor on is missing: a message that arrives while the  *)
(* snapshot is built, or while a page is fetched, is shown.                *)
WindowComplete ==
    AtRest /\ ~jumped => \A m \in Rows(store) : m >= cursor => messages[m] # 0

(* One new reaction cannot discard those of others from the snapshot, nor  *)
(* the snapshot bring back one that was removed.                           *)
ReactionsKept ==
    AtRest => \A m \in hydrated : reactions[m] = marks[m]

(* A message the bridge accepted stays in the conversation it was sent     *)
(* from, under its real id alone, even if it could not be saved.           *)
SentStaysShown ==
    \A m \in mine :
        sends[m] \in {"saving", "saved", "unsaved"} /\ ~jumped
            => messages[m] # 0 /\ m \notin temps
=============================================================================
