# A TLA+ verification project for yawac

yawac is a native macOS WhatsApp client: SwiftUI on top of a Go bridge (gomobile
around the whatsmeow library). This directory holds TLA+ models of the parts that
keep state and can go wrong in ways a unit test hardly reaches, the TLC
configurations that check them on small instances, and proofs of the results that
matter most for every instance.

## 1. Inventory of the system

| Component | State it keeps | Operations | What is hard | What makes it correct |
|---|---|---|---|---|
| **Message writer** (`Services/MessageWriter.swift`, `Models/PersistedMessage+Merge.swift`) | the SwiftData store, a `ModelContext`, mutations held for unknown messages | `write` (messages, receipts, reactions, votes, mutations, purges), `mergeChats`, `configureIndex`, launch repair | replays, reordering, rollback, crash between save, file deletion and index update | no row goes back; held mutations are neither lost nor doubled; consumed view-once media is gone |
| **Search index** (`Services/MessageIndex.swift`) | one FTS table, `progress` | `apply`, `reconcile`, `reportFailure`, queries | separate connection, may fail after the source was saved | holds exactly the searchable rows, or says it failed |
| **Session** (`ViewModels/SessionViewModel.swift`) | `pendingWrites`, `writeFlushTask`, `writing`, `client`, `messageWriter`, `admittingEvents` | `receive`, `enqueue`, `flushWrites`, `flushPendingWrites`, `commit`, `recordOutgoing`, `logout`, `boot`, `prepare`, history run, gap sweep, watchdogs | every `await` lets everything else run; a session may be replaced while a write is out | each admitted event is written once, in order, in its session; results never cross sessions; shutdown ends |
| **Chat list** (`ViewModels/ChatListViewModel.swift`) | `chats`, `dirtyChatJIDs`, delete tombstones in UserDefaults | `accepts`, `applyCommittedMessages`, `applyChatRowUpdate`, `deleteChat`, `upsertStubChat`, `mergeContacts`, bootstrap, LID reconciliation | a second, debounced owner of `PersistedChat` rows; two ideas of whether a chat exists | sidebar and store end in the same state |
| **Identities** (`Utilities/JIDNormalize.swift`, `bridge/lids.go`) | whatsmeow's LID map | `canonical`, `same`, `allForms` | a mapping is learned at any moment | one conversation per person |
| **Conversation** (`ViewModels/ConversationViewModel.swift`) | timeline, history load id, optimistic sends, downloads, typing | open, paginate, send, edit, react, download, retry media | snapshot loaded while events arrive; downloads that end late | the timeline shows what the store holds |
| **Go bridge** (`bridge/*.go`) | the whatsmeow client, album and media-retry tables, the event sink | events, pairing, sends, history requests, media retry | one goroutine per event, callbacks, timeouts | each request is answered once |
| **Event stream** (`Bridge/WAEventBus.swift`, `Bridge/WAClient.swift`) | an unbounded stream, a JID cache | yield, iterate, bridge calls | order between the Go callbacks and the main actor | first in, first out |
| **Connectivity monitor** (`Services/ConnectivityMonitor.swift`) | debounce task, loop task, `wakeInWindow` | wake, network, active, stop | cancellation during an awaited reconnect | a wake leads to a forced reconnect |
| **Join requests** (`Bridge/JoinRequestStore.swift`) | counts by group | set, decrement, clear, refresh | refresh in flight during live events | counts never negative, never stale for good |
| **Caches** (`AvatarCache`, `ThumbnailCache`, `MediaCache`, `MapSnapshotCache`) | loads in flight, entries | load, evict | same key asked twice, late results | one load for a key, bounded size |
| **Store maintenance** (`SQLiteDedupe`, `SwiftDataMaintenance`, `SwiftDataIndexes`) | the SQLite file before SwiftData opens it | dedupe, indexes | crash halfway | one row for an id |
| **Voice recording** (`Services/VoiceRecorder.swift`, `Packages/COpus/Sources/COpus/libopusenc`, `Services/OggOpusDemuxer.swift`) | recorder state, the encoder's sample buffer and position, the packer's open page | press, tap buffer, release, cancel, cap; write, drain, commit packet, flush page; demux | buffers still on the audio queue at the release; page, buffer and delay limits; a crash halfway | the file holds the whole recording and is read back packet by packet |
| **Translation, playback, notifications, menu bar, navigation, folders, sheets, views** | small or external state | — | little | — |

How they interact: the Go bridge calls the event sink from its goroutines; the
sink yields into the event bus; `SessionViewModel` reads the bus on the main actor.
`receive` asks the chat list whether a message is admissible, turns the event into a
writer operation and queues it. A timer drains the queue into the `MessageWriter`
(a serial actor of its own), which saves the store and feeds the search index; back
on the main actor the commit is published to the chat list, the open conversation and
the notifications. Sends, receipts and other local operations call the bridge first,
then wait for the queue and write on their own. The history run and the gap sweep ask
the phone through the bridge and get their answers as events; the connectivity monitor
cycles the bridge's socket; a recorded note becomes a file and then a send.

## 2. Modules

| Module | Models | Uses |
|---|---|---|
| `MessageRow` | a message row; `merge` and `apply` as pure operators; the order on rows | — |
| `MessageWriter` | the writer, the store, the index, the media files, crashes | `MessageRow` |
| `MessageWriterProofs` | types, the order on rows, consumed rows, held mutations and their limits, purges, files, merges, edits, index, revocations: theorems | `MessageWriter` |
| `FoldFacts` | what a left fold computes, for any operator: lemmas | — |
| `EventLog` | abstract: what the write queue promises, without queue, timers, batches or callers | — |
| `Session` | the write queue, its drains and callers, logout and restart; the mapping to `EventLog` | `EventLog` |
| `SessionProofs` | types, calls and their session, the queue implements the log: theorems | `Session` |
| `HistoryRun` | the history run, its watchdog, the initial backfill and the gap sweep, logout and restart | — |
| `HistoryRunProofs` | types, requests and their session, time-outs: theorems | `HistoryRun` |
| `Connectivity` | signals, the debounce window, reconnect loops and their attempts (its own instance for TLC) | — |
| `OggOpus` | the encoder's buffer, the Ogg packer and the reader, as operators on values | — |
| `VoiceRecorder` | the recorder, the button, the converter and the audio queue | `OggOpus` |
| `VoiceRecorderProofs` | types, notes are whole, pages keep up, room in the buffer: theorems | `VoiceRecorder`, `FoldFacts` |
| `ChatDeletion` | one chat's deletion, from admission to sidebar, and the rebuilds of the list | — |
| `ChatDeletionProofs` | the store follows admission, deleted chats stay hidden, listed ones are saved: theorems | `ChatDeletion` |
| `Conversation` | the timeline of the open conversation over the store | — |
| `ConversationProofs` | types, shown rows are stored, no gap, sent messages stay, no reaction is lost: theorems | `Conversation`, `FoldFacts` |
| `MediaDownload` | the media of one message: downloads, retries, expiry, consumption | — |
| `MediaDownloadProofs` | types, the phone asked once, consumed media hidden, shown files there, no unseen hang: theorems | `MediaDownload` |
| `MCMessageWriter`, `MCSession`, `MCConversation`, `MCMediaDownload`, `MCHistoryRun`, `MCVoiceRecorder` | small instances for TLC | |

### MessageRow and MessageWriter

A row keeps the fields the properties tell apart (edit, revocation and deletion
times, receipt rank, view-once lock, media, location sequence); the others only copy.
`Merge` is `PersistedMessage.merge`, `Apply` is the switch of `MessageWriter.apply`.

A call of `write` is `Begin`, then one action per operation (`PurgeChat`,
`PutMessage`, `Mutate`, `React`, `CastVote`; a receipt is a `delivery` mutation per
message), then `Save`, `DeleteConsumedFiles` and `UpdateIndex`. Nothing else of the
writer runs in between, but the process may end between any two of them, so each is
a step and `Crash` may follow each. `Throw` is the catch block: the context and
what is held go back. Two inner loops are unrolled in the same way: held mutations
being replayed (`Replay`) and rows being purged (`PurgeRow`, `PurgeEnd`). The main
actor's other writers are here where they touch the same data: the sidebar saves chat
rows (`SidebarSavesChat`) and the bridge learns LID mappings (`LearnMapping`).
`Start` is `prepare`: it merges what can be merged and repairs the index.

### Session

Each action is a maximal run of the main actor between two points where it really
waits: the 30 ms timer (`TimerFires`), a task (`Woken`), the writer
(`DrainPublishes`, `CallPublishes`) or the bridge (`CallReturns`). A nested call that
returns without waiting keeps the main actor, so `Free` holds back everything else
until the caller in "flushed" has gone on. Writers are numbered by session. Three
kinds of callers flush the queue: a local operation (`Committer`), a send (`Sender`)
and the history run (`Sampler`, of which only the flushes and the cancellation by a
stop are here; `HistoryRun` has the rest). The first two hold on to two things across
their waits: the client they began with (`source`) and the writer they took before the
flush (`captured`), and it is with the second that they write.

`ImplementsLog` says that this implements `EventLog`: `accepted` is the number of
events admitted, `settled` is that number without what waits in `pendingWrites` and
what is with the writer (`Settled`), and the histories `saved`, `lost` and `shown` are
the log's own. Admitting an event is `Accept`; a batch that is saved is `Keep` of the
oldest unsettled events by one session, one that fails is `Drop`; a local operation is
`KeepLocal`; publishing is `Show` of a stretch of what was kept; everything else, the
whole of timers, waits, logouts and restarts, must stutter. So an event that is lost,
saved twice, overtaken, shown before it is saved, or shown to another session has no
abstract step.

### HistoryRun

The task of `startFullHistorySync` with its loop state (round, chats yet to ask,
anchors before the round, stable rounds) is the record `fullSyncRun`; `pc` says what it
waits for. A watchdog is sleeping, or over and waiting for the main actor, and one that
is replaced in the second state runs later and finds itself cancelled (`StaleTimer`). A
stop waits for the run that was current when its wait began (`awaited`). How old the
oldest row of a chat is, is an input each time anchors are read (rows come and go in
between), as are the number of missing messages a sweep finds and whether a sweep was
made today. `asked` records the last request: with whose client and in whose session.

### Connectivity

One action per turn of the main actor; an attempt is split into the bridge's Disconnect
and Connect, which take whatsmeow's socket lock one after the other, because an attempt
goes on when its loop is cancelled. The system may wake with a half-open socket, the
network may break it, and whatsmeow reconnects by itself unless the app disconnected.

### OggOpus and VoiceRecorder

`OggOpus` is the control of `opusenc.c` and `ogg_packer.c` with sound reduced to
numbers of samples and bytes that know their packet: `WriteFloat` and `Drain` map an
encoder to the next one, `CommitPacket` decides where pages end, `Demux` is the app's
own reader, which knows nothing of packets but lacing values. A page is in `file` when
it is handed to the writer callback; that one puts it into a buffer of stdio
(`opusenc.c:294-299`), which is on the disk for certain only after `fclose`.
`VoiceRecorder` runs it under the two threads that matter: the main actor and the
serial audio queue. The tap counts samples at the hardware's rate and the encoder at
16 kHz; between them `Process` has the converter give any number of samples that its
output buffer holds (`Capacity`) and that is in step with what it was handed but for
what its filter holds back (`Converted`), nothing at all included. `ConversionFails`
drops a buffer, `WriteFails` is an encoder that refuses samples, and `Finalized` hands
the note on also when its drain fails, as the code does.

### ChatDeletion

One chat, of a person or a group, and one clock. The store is the set of timestamps of
saved messages, the sidebar is `listed`, `dirty` and the tombstone. `Write` condenses
what `MessageWriter` does to a batch of messages and deletions of one chat
(`Survivors`). `rebuild` is a run of `runBootstrap`: it takes the tombstones
(`RebuildBegins`), reads the chat rows in the background (`ReadRows`) and puts them into
the list of that moment (`ApplyRebuild`). It runs at launch (`Relaunch`), before events
are admitted, and while events come and go after `reconcileLIDDuplicates` had the writer
merge two names of a person (`Reconcile`, `WriterMerges` or `MergeFails`, `DropMerged`;
`OthersMerged` when this chat is not one of them). A history conversation of a group
lists it at once (`HistoryConversation`). The history variable `relisted` says that the
chat was listed by one of the two ways that do not look at its tombstone as it is.

### Conversation

A message is its place in the timeline's order and a row is a version, since
`ReplaysUndoNothing` says that a stored row never goes back. The writer is `SaveMessage`,
`SaveChange`, `SaveReaction` and `SaveSent`; each leaves a commit that is published
later, first in first out (`PublishRow`, `PublishReaction`). Against it run four tasks
that read the store in the background and apply what they read on the main actor: the
history load (`Open`, `ReadRows`, `ReadMarks`, `ApplyHistorySnapshot`), a page
(`LoadMoreStoredHistory` or `RequestOlderHistory`, `ReadPage`, `ApplyPage`), a jump
(`InitialScroll` or `JumpToQuoted`, `ReadSlice`, `ApplySlice`, `InjectQuoted`) and a send
(`SendDraft`, `SendReturns`, `SendFails`). Three history variables serve the
properties: `jumped`, `missed` and `hydrated`.

### MediaDownload

One view-once message with two references: the one it was sent with and one with the
direct path a retry obtained. A task of `ensureDownloadFromHistory` goes through
`Start`, `Ensure` (the shared download of `MediaCache`), `DownloadEnds`, and then
`CommitPath` and `PublishPath`, or `Report`. Around it are the history load's choice
(`BuildSnapshot`, `ApplySnapshot`), `RetryDownload`, `RefetchExpiredMedia`,
`BatchRefetched`, the phone's answer (`PhoneAnswers`, `PublishAnswer`, `Resume`),
redelivery and `Reveal`. A snapshot's download uses the reference the snapshot read, and
what a closed conversation committed is published to the one opened since (`TaskGone`).
Whether the server has the bytes of a reference is chosen at
the start; every download may also fail for another reason. `Close` drops the view
model: tasks hold it weakly until they are in their commit.

## 3. Runs

| Run | Question | Bounds | Result |
|---|---|---|---|
| `WriterReplay` | do replays, late edits and receipts, failed writes or crashes take a row back, and do the structures of held mutations agree at their limits, and does the oldest give way there? | 2 messages (a text with two edits, a revocation, two receipts; a live location with two positions), 1 target and 2 mutations held, 2 operations in a write | holds |
| `WriterMedia` | view-once, purges, revocations, index; does a merged chat split again? | 2 messages, a LID chat and its phone chat, a reaction, 2 operations, crashes and index failures anywhere | holds |
| `SessionQueue` | does the queue implement the log under every interleaving, is it drained, does a logout end in a session that admits events? | 3 events, a commit or a send, the history run, 2 sessions | holds |
| `SessionShutdown` | does a shutdown drain what was admitted? | 4 events, a commit and a send | violated |
| `DeletionSettles` | do store and sidebar end where admission left them? | 2 ticks, 3 waiting operations, failures, relaunches and merges of names, one rebuild of the list at a time | holds |
| `DeletionLive` | is a chat that is alive again listed? | 3 ticks, no failures, no merges | violated |
| `Timeline` | is what is shown what is stored? | 3 messages (one edited and reacted to, one sent here), 2 senders who react (symmetric), 1 commit not yet published, 2 reactions in a load, windows of 1, 1 and 2 rows | holds |
| `MediaDownload` | is what is shown there, not consumed, asked for once, and does no download hang unseen? | 2 tasks at a time, 1 waiting operation (2 when a task adds its own), failing commits | holds |
| `MediaRetry` | may the phone be asked again after a tap on Retry? | the same | violated |
| `HistoryRun` | do requests stay in their session, does a run time out only after silence, does it end? | 2 chats, 2 ages, 3 rounds, 2 runs, 1 sweep of 1 message, 2 sessions | holds |
| `Connectivity` | does a half-open socket heal? | 4 signals, 2 broken connections | holds |
| `VoiceNote` | is a note whole, do the pages keep up with the sound, does the buffer suffice? | lacing 2, 3 segments of a page, packets of 1 or 2 bytes in a pattern of 3, tap buffers of 3 or 4 samples, 13 samples, rates 3 and 2, 2 samples held by the converter, 2 presses | holds |

Why the bounds are enough: the writer's guards compare two timestamps, two ranks or
two sequence numbers, so two of each give every order; limits of one and two are
reached and exceeded within the two operations of a write and those of the next; a
write with two operations has every pair of operations in every order, and writes
follow each other without bound. Three events give a queue with one event in a drain,
one waiting and one to arrive; two sessions give one replacement. `MaxCalls` bounds
the local operations and sends of one behaviour: with one the liveness check stays
small, and the two calls that the shutdown needs are in its own run. In `ChatDeletion`
a batch of three has a message before, between and after deletions; a second rebuild at
the same time would add the same rows to the list. `DeletionLive` needs neither
failures nor merges. In `Conversation`
three rows give a window, a page above it and a row that arrives or is sent; one
commit at a time suffices for a read that precedes it and one that follows it, and
`MaxReplays` lets a reaction be put and taken back in one load, or two senders react in
it. In `MediaDownload` a
third task would only repeat what two can do: share a download, overtake each other,
and clear each other's registration. In `HistoryRun` three rounds give a chat that is
stable twice, and a second run may begin during the logout of the first one's session.
Four signals give `Connectivity` a window with a wake and another signal and two
loops. `VoiceNote` shrinks every size of the library but keeps their relations
(`OggOpusAssumption`): packets span segments, pages fill and come due, the buffer is
full in the middle of a write, and a frame may lie in the latency of the resampler. Its
rates are 3 to 2, so that a buffer of the tap is no whole number of samples.

### Fairness

`SessionQueue` assumes weak fairness of what the runtime provides: a timer whose
sleep is over fires, a task that may run does, the writer (a local SQLite call)
answers, the history run's cancelled call returns, and so do the steps of a logout.
`LogoutEnds` leads from the stop to a session that admits events, so it needs that the
bridge's logout returns (whether it succeeded or not: the code goes on) and that boot
and `prepare` end: calls of the local store and the bridge. That `boot` may fail to make
a client, and then shows the error and no session, is left out. It does not assume that
another bridge call of a user returns, that a user acts or that events arrive.
`HistoryRun` assumes weak fairness of the run's own steps together (`RunStep`): bridge
calls, flushes and sleeps end, and its task runs again. The watchdog, chunks and
users owe nothing. `Connectivity` assumes that windows close, pauses end and bridge
calls return; not that the network works: `Connect` may always fail.
`SessionShutdown` uses `FifoSpec`, which adds that the main queue runs a woken task
before a timer that had not ended by then; without it the counterexample would be
easier. The other runs check safety and state no fairness.

### What the violated runs show

* `SessionShutdown`: `docs/ARCHITECTURE.md:22` says shutdown "drains admitted writes".
  If a local operation is in its own flush, the timer of a newer event returns at
  `guard !writing` and leaves its finished task in `writeFlushTask`. `stopSessionWork`
  waits for that task, calls `flushWrites`, which returns at the same guard, and goes
  on while events wait or are with the writer.
* `DeletionLive`: a message newer than the deletion lifts the tombstone at admission,
  but if both are in one batch the presentation of the deletion comes last, hides the
  chat and writes a new tombstone; the messages are in the store and the chat is not
  in the list.
* `MediaRetry`: "User-tap retry clears the once-per-session MediaRetry guard so the
  phone can be re-asked". Only the conversation's own set is cleared; the session's,
  which is asked next, is not, and it is filled even when the bridge refused to send
  the first request.

## 4. Proofs

Every invariant and every action property of a passing run is a theorem here.

### The writer

`MessageWriterProofs` proves, for every set of messages, mutations, reactions, votes, chats and
LID mappings and every limit, each property the runs check of the writer. They assume
`NoneAssumption` and `WriterAssumption`: the inputs have their types, the limits are
positive, and nil is no value (among others, no index entry).

First the types and the rows:

* `TypeCorrect`: `Spec => []TypeOK`. A failed write restores what was held when it
  began, so the limits must hold of that copy: `TypeInv` adds `HeldWithinLimits`.
* `ConsumedRowsStayConsumed`: `Spec => []ConsumedStaysConsumed`.
* `ReplaysUndoNothing`: `Spec => ReplayNeverUndoes`. It compares a store with the one
  it replaces; while a write runs they are related by the context, so the invariant
  `RowInv` says that the context is above the store except for rows the write deleted
  (`ContextAboveStore`), that outside a write the two are equal (`Between`), and that
  locked rows have no media (`LocksSound`, without which merging media into a
  consumed row would go down). The lemmas `MergeClimbs` and `ApplyClimbs` are the
  pure core: no merge and no mutation takes a row down. `RowStep` lifts them to
  steps, `BatchStep` to all steps inside a write.

Then what the writer promises:

* `HeldOnlyForUnknown`, through `WaitingInv`: the copies a failed write restores must
  have the property for the store it goes back to.
* `ReportedChatsAreEmpty`: inductive as it stands with the types; only a message puts a
  row into a chat, and that message takes the deletion back.
* `FilesGoAfterTheLock`, through `ConsumedAreLocked`: a consumption is the only
  operation of its write, and what the write has marked for deletion is locked in its
  context.
* `MergedChatsStayMerged`, with the lemma `CanonElsewhere`: a canonical name is never a
  LID whose mapping is known.
* `EditsStand`, through `EditInv`: the edit is looked for among the mutations that may
  be delivered, so everything held or replayed must be one of them (`OnlyDelivered`),
  and the context must have the property as well as the store.
* `HeldStructuresAgree`, through `AgreeInv`: the order holds every target once, and so
  do the copies.
* `OldestGivesWayToNewest`: `Spec => OldestGivesWay`. It is about one step, and needs
  `PendingAgrees` of the state before it: the target that has waited longest is the
  first of the order only if order and lists describe the same targets.
* `IndexFollowsStore`, through `IndexInv`: during a write the index shows the rows the
  write has not touched, and held mutations are applied only to a row it has.

Last, `RevocationsSurvive`: with room for every target (the condition of the property
itself) the limit never throws a target out, a pigeonhole argument on the order
(`RoomForAll`), and what is held for an id for which only revocations come is a
revocation.

### The session

`SessionProofs` proves, for any number of events, callers and sessions, under
`SessionAssumption` (the kinds of callers are disjoint from each other and from the
numbers that name events):

* `SessionTypes`: `Spec => []TypeOK`.
* `CallsStay`: `Spec => []CallsStayInTheirSession`: what a call wrote it wrote with the
  writer of the session it began in. A call writes with the writer it took
  (`captured`), not with the session's, and a send asks only for the client after its
  flush. `CaptureInv`: while events are admitted the writer is the client's, so the one
  that was taken past the guards is that of `source`. `CallInv` says that a result that
  was saved or shown belongs to a caller that has got that far.
* `SessionImplementsLog`: `Spec => ImplementsLog`, the refinement.

`StepKinds` classifies the actions by what they do to the queue, the callers and the
histories (an event is admitted; a process takes the queue, ends its drain or leaves;
the writer answers; a caller goes on), and each part of the invariant `Inv` is carried
through that classification. `DrainInv` says that one process drains at a time; it is
what `guard !writing` is for. `OrderInv` says that the queue, and before it the running
batch, are exactly the last events admitted, so the writer's batch is always the next
stretch to be settled. `KeptInv` finds a saved batch in what was saved, and `ShownInv`
says that nothing of the queue or of the running batch was shown, so its publication is
newer than all before. `StopIdle` follows the one call of `stopSessionWork`. The step of
the refinement (`LogStep`) names the abstract step of each kind.

### The history run

`HistoryRunProofs` proves, for any number of chats, ages, rounds, runs, sweeps and
sessions, under `HistoryAssumption` and `NoneAssumption` (nil is no number, run or
reason):

* `HistoryTypes`: `Spec => []TypeOK`. That a chat is never counted stable more than
  twice is not local: it needs that a chat whose anchors are compared was active
  (`Compares`) and that every chat stable twice is inactive (`Counted`).
* `RequestsKeepTheirSession`, through `RunInv`: a run's client is the current one or
  none, and once the client is gone the run is the one the restart waits for, so none
  is left when the next client is made. A run may begin during a logout, after the stop
  looked for one; the second stop, in `prepare`, is what catches it.
* `TimeoutsAreSilence`: `Spec => TimedOutOnlyIfSilent`, through `TimerInv`: a watchdog
  that is over has heard nothing since, because every chunk replaces it.

### The deletion of a chat

`ChatDeletionProofs` proves, for queues and batches of any length, under
`DeletionAssumption`: `DeletionTypes`, `StoreFollows`, `DeletedStaysHidden` and
`ListedIsSaved`.

`After(b, rows)` is what the operations `b` make of the rows, and two lemmas say how it
grows: a message appended is added (`AppendMessage`), a deletion appended leaves nothing
(`AppendDeletion`). `Survivors` names the last deletion with CHOOSE; `HasLast`, which
every queue has that was built by appending, says it is one, and `SurvivorsAre` states
the survivors without it. Then the invariant is that what was admitted since the last
deletion is `After` the queue of `After` the running batch (`StoreInv`): taking a batch
and writing it do not change that. `LiveInv` is the half of it that survives failed
writes and crashes: what is under way and will be left was admitted since the deletion,
so a chat nobody wrote to since is not shown for it. `HiddenInv` says that a chat that
is shown although it was deleted has its deletion in the queue, in the batch or in the
commit, or was listed past its tombstone. `SavedInv` bridges the moment in which the
writer has deleted the row of a chat that is still listed: then the commit hides the
chat or marks it for saving.

### Media

`MediaDownloadProofs` proves, for any number of tasks and waiting operations, every
invariant its run checks: `DownloadTypes`, `PhoneAskedOnce`, `ConsumedStayHidden`,
`ShownFilesExist` and `NoneHangsUnseen`. It needs no assumption on the constants.

* `ShownFilesExist` joins two facts that are learnt at different times. `FileInv`: who
  holds a path (the view, a load, a task that has the bytes, an operation that says so)
  has a file, or the row is locked; the file goes only in the save that locks.
  `LockInv`: a locked row is shown, kept or in a snapshot as unlocked only until the
  consumption's save is published. `ClosedInv` covers a publication nobody looks at.
* `NoneHangsUnseen` needs that what is shown as consumed is (`SettleInv`), else a
  publication could show the row again after its error was cleared. It proves more than
  the property: the file, the error or the registration is there also while tasks run.

### The timeline

`ConversationProofs` proves every invariant its run checks, for any number of messages,
senders and versions, queues and windows of any size, under `ConversationAssumption`.

* `ShownRowsAreStored`: rows are read at four places and kept at a fifth
  (`changesDuringHistory`), and each may be behind the store. `RowOk`: a stale row, at
  any of them, has a commit in the queue (`Pending`), or, for pages and jumps, was
  `missed`. Publishing a commit takes it from the queue, so `LastIsStored` is needed: of
  the commits of a row all but the last have another behind them, and the last carries
  the stored version. `KeptForLoad` and `ClosedInv` cover commits nobody looks at,
  `SentInv` a real row shown before it is saved.
* `WindowHasNoGap`: `WindowOk` says that a stored row that is not shown is announced by
  an incoming commit, or was among the rows just read, or is older than all of them.
  That what is not among the newest n rows of a set is older than all of these
  (`NewestRows`) rests on the least and the greatest of a set of messages, which the
  well-foundedness of the naturals gives. `LoadedFirst`: the history is loaded before
  pages are, so no page is read against a cursor that is about to move.
* `SentStaysShown` is inductive given that no commit is empty (`NoneEmpty`).

* `NoReactionIsLost`: `Spec => []ReactionsKept`. A queue of reactions leaves a sender's
  reaction to a row as the last of them has it, and as it was when none is of them
  (`ReplayMeaning`: it is what replaying them over a snapshot computes).
  So `MarksInv` speaks of the last: one in the queue of commits carries the stored mark;
  if none is queued, the last one kept for the load does, or what the load has read, or,
  for rows that came with a load that was applied, what is shown.
* `TimelineTypes` adds what is left: the counters of pages and jumps stay in their
  ranges (`Bounds`), and replayed reactions are sets of senders again.

### Folds

`FoldFacts` says what the community modules' `FoldLeft` computes. That operator is a
function on sets of indices that CHOOSE picks by its equation, so first there must be
one: `Solvable` builds it, by induction over the largest index. Induction is over sets
of numbers by their least elements (`LeastOf`), which needs no operator as a parameter;
the operator that is folded is the module's constant `Op`, and each module that needs
the facts instantiates it (`React`, `ReadSegment`, `ReadPage`, `EncodeFrame`, addition).
Two lemmas are what the others use: one names the values a fold goes through, the other
says that whatever goes through such steps ends in the fold.

### Voice notes

`VoiceRecorderProofs` proves every invariant its run checks, for any sizes of frames,
buffers, pages and packets and any length of sound: `RecorderTypes`, `NotesAreWhole`,
`PagesAlwaysKeepUp` and `BufferAlwaysHasRoom`. All come from `InvariantHolds`, the
inductive invariant `EncoderInv` with the counts `Counted` and `Kept`.

* The reader. `ReadPacket`: reading the segments of a packet makes that packet, since
  all its lacing values are full but the last. `Packed`: pages hold whole packets, so
  what the reader makes of the file and of the segments that are open is every packet
  so far, in order. `FlushedPacked` and `CommitPacked` keep that when a page ends
  because it is full, comes due, or is the last.
* The sound. What is encoded and what the buffer holds is what the resampler gave
  (`Rested` before the buffer's frames are coded, `Live` between two calls). The loops
  of the code are folds over frames; `LoopStep` and `LoopDone` say where they end.
* The delay. A page ends at a multiple of a frame no further than the muxing delay
  (`Cadence`), so the pages lack at most that delay and what is still in the buffer
  or on its way: `PagesAlwaysKeepUp`. `FileIsPrefix` says that they are read back as the
  beginning of the recording.
* The end. The padding of the drain is longer than what resampler and codec hold back,
  so the last frame reaches the end of the stream (`Drained`): this is why a note that
  was released is whole. `RoomForDrain` says that the padding finds room in the buffer.
* The tap. `Counted`: what it delivered is what `process` has taken and the buffers that
  wait on the audio queue; `FoldHead` takes the first from the sum, `FoldAppend` adds a
  new last. `Kept`: unless something failed, what was taken was converted but for what
  the converter holds, and the release waits until nothing waits on the queue. So a note
  is all the sound of the tap but for that. `Capacities` bounds what one buffer becomes,
  which is what has to fit into the encoder's buffer.

### Only model-checked

Liveness: `QueueDrains`, `LogoutEnds`, `RunEnds` and `HalfOpenHealed`. The three violated
properties are shown by their counterexamples.

## 5. Not modelled, and assumptions

Views, playback, notifications, the bridge's JSON conversions and SQL queries are pure
I/O or layout. `Packages/COpus` holds a copy of libopus: the codec, the resampler and
the rest of libopusenc (chaining, comments, controls) are third-party signal processing
of which only the part that frames the app's own files is modelled, and they are by far
most of the repository's lines of C. The repair of legacy rows at launch, poll tallies, previews and unread
counts are left out of the modules above. The components of section 1 that have no
module are listed with the reason in `PROJECT.json`.

What the modules take for granted:

* `OggOpusAssumption`: what a shifted buffer keeps and the padding of a drain fit into
  the buffer. In the code the buffer is `MAX_LOOKAHEAD + BUFFER_EXTRA`, 96000 + 24000
  samples (`opusenc.c:49-60`), and what must fit is 480 + 960 + the decision delay, at
  most 96000, and the padding; the code asserts it at `opusenc.c:815`.
* `VoiceRecorderAssumption`: a packet has fewer segments than a page, what a tap buffer
  is converted to fits beside what a shifted buffer keeps, and the converter works in
  whole samples. `Held` bounds what its filter holds back; it is a parameter, because
  the code does not say how much that is. The tap asks for 1024 samples
  (`VoiceRecorder.swift:97`); what a much larger buffer would do, which the loop of
  `ope_encoder_write_float` takes in more rounds, is not modelled: `FillBuffer` takes
  two.
* `Session`: every event stands for one operation. A send (`recordOutgoing`) bypasses the
  queue: it waits for what is queued when it begins and then writes on its own, so it is
  a caller here and no event, and it is not among the operations of `ChatDeletion`.
* `ChatDeletion`: messages sent from here, whose rows `recordOutgoing` saves, are left
  out, and so are system messages, which are stored and published like the others but do
  not list a chat. A merge of names brings no messages into the chat. One rebuild of the
  list is under way at a time.
* `HistoryRun`: the request for one chat's recent history when it is opened, the
  cancellation by a user (no caller) and the texts a run ends with are left out.
* `OggOpus`: one stream, frames of 20 ms, no chaining, no write errors of its own (an
  encoder that refuses samples is `WriteFails` of `VoiceRecorder`), no buffer of stdio
  between the pages and the disk, and packets
  that fit into a page (a packet of libopusenc has at most 31 of its 255 segments), so
  the branch of `oggp_flush_page` that splits a packet over pages is not here.
* `Conversation`: a fetch of the store that fails, and a merge of two names of this
  conversation while it is open, which moves rows from one chat to the other under a
  load or a page, are left out. The rows shown are a set: that one could be there twice
  is not expressed. Commits are published in the order they were saved and one at a time
  (`Session` shows the order); one jump at a time; a load's reactions are at most
  `MaxReplays`.
* `MediaDownload`: a download's errors are of two kinds, those that say that the bytes
  are gone and the others; the three lists of markers in the code differ slightly. One
  manual refetch waits at a time. A tap on Retry acts on what the row holds at that
  moment (the view makes the handler when it draws the row). A new task waits for a free place in `Task`, and
  operations for a place in the queue.

Behaviours the models reach and no run is about:

* The tombstone of a deleted chat has the time at which the deletion is handled, so
  messages sent between a deletion and its late arrival are taken for replays
  (`ReceiveDeletion`), although the comment at `deletedChats` speaks of messages "newer
  than the deletion".
* A history conversation of a group lists and saves its chat and does not ask for the
  tombstone (`ChatListViewModel.swift:636-656`, from `SessionViewModel.swift:1123-1127`),
  although the comment at `deletedChats` (88-93) says that it "resurfaces only when a
  message newer than the deletion arrives" or the user starts the chat again. A rebuild whose tombstones or rows are older than a deletion lists the chat
  as well (`relisted`).
* A merge of two names drops both from the list and reads the saved rows: a chat that was
  still to be saved for the first time is in the list again only when the writer had a
  row of either name (`DropMerged`, `ReadRows`).
* A history run asks for everything, and a first connection for the history of all
  chats, without asking whether they were cancelled before they ran
  (`SessionViewModel.swift:1226` and 1344), although `docs/ARCHITECTURE.md:38` says that
  "cancellation prevents another request from being scheduled"; `RunBegins` and
  `InitialBackfill` do it, with the client of a session that still has one
  (`RequestsStayInSession`).
* A first scroll or a jump drops loaded rows above its target that no page contains, and
  the phone is asked for them, although the comment at `hasMoreStoredHistory` says
  "Stored pages are loaded before the bridge is asked".
* An attempt to reconnect may outlive its loop, and two of them may overlap, although
  `startReconnectLoop` says they "never overlap"; the older one may leave the socket
  down with nobody trying until the next signal.
* `Started` may come after the button was released; nobody holds that recording. A note
  that reaches the cap is ready, but nothing in the app calls `consumeAutoStop`.
* The converter is never asked for the end of the sound, so a note lacks what it held
  (`Held`); a buffer whose conversion fails is dropped and the recording goes on
  (`VoiceRecorder.swift:163-164`, 180); so it does after a failed write (185-190), and a
  note whose drain failed is handed on (225-230).
* A crash during a recording loses, besides what `PagesKeepUp` bounds, what stdio had not
  written, and may leave a page cut in two, on which the app's reader throws `truncated`
  (`OggOpusDemuxer.swift:38`, 43).
* A recording without a sample is drained up to an `end_granule` that was never set.
* The gap sweep is stamped before its wait, so a cancelled one is not repeated that day.
* The file of a view-once message stays if the process ends before it is deleted, if
  its download ends after it was consumed, or if its consumption was held and replayed.
* A change that is published between the read and the application of a page or a jump
  finds no row and is not shown until the chat is opened again (`missed`).
* Reactions of rows that came by a page are not loaded (`hydrated`).
* A history load whose preparation fails leaves `historyLoadID` set and goes on
  collecting changes.
* Two tasks that share a failed download count it as a first and a second failure: the
  media is marked expired while the phone has just been asked.
* A commit that fails, or a message consumed during it, leaves the task's entry in
  `downloadTasks`: `DownloadsSettle` counts it as registered and so does not say that
  such a message can be tried again.

## 6. Plan

1. (done) Writer, queue, deletion, timeline, downloads, history run, connectivity and
   voice notes; the writer's proofs; the queue as an implementation of an abstract log.
2. (done) Proofs for the session: types, calls, and the refinement.
3. (done) Proofs for `ChatDeletion`, `HistoryRun`, `MediaDownload`, `Conversation` and
   `VoiceRecorder`, and the facts on folds that the last two rest on.
4. (left) `MessageLifecycle`: an abstract specification of a message (what a user may see of
   it), implemented by `MessageWriter` under a refinement mapping.
