# persian-markdown, specified

A TLA+ development beside the code of *persian-markdown*, a collaborative Markdown
editor: a Go server keeps shared documents as logs of operations, browser sessions edit
them optimistically and converge by operational transformation (OT), and a tab can also
keep a private document in its own database. The modules here are written from the
source; TLC checks them on small instances. TLAPS proves for every value of the
constants that the engine keeps its laws - transforming, composing, moving carets,
encoding -, that the protocol built on it converges and implements its abstract
specification, and the central invariants of the private document, the registry, the
participants, the seed hand-off and the page.

Run everything from this directory:

    tlc -workers 2 -config MCSteady.cfg MCCollab     # one run
    tlapm CollabProofs.tla                           # one proof module

`Collab` is the core: one room, its connections, its clients. `Registry` is what is
around a room: how it comes to be, is stored, dropped and restored. `Presence` is who is
in a room and who sees whom. `Tab` is one browser tab that goes between its private
document and a room. `Page` is what the user works with: the two editors, the preview.

## 1. The system

| Part | Code | State it keeps | Operations |
|---|---|---|---|
| OT engine | `internal/ot/*.go`, `web/src/ot/*.ts` | none (pure) | build, apply, compose, transform, invert, move a caret; JSON form |
| Byte offsets | `web/src/ot/offsets.ts`, `utf8.ts` | the starts of a text's lines, in UTF-16 units and in bytes | offsets to bytes and back, replace a range |
| Text diffs | `session.ts` `diffText`, `bridge/diff.ts`, `views/source/diff.ts` | none | one replaced span between two texts |
| Room | `internal/room/room.go` | text, log of operations, users, carets, next id, dirty flag | Join, Leave, ApplyEdit, SetCursor, SetInfo, HistorySince, TakeDirty |
| Names | `internal/names/names.go` | none | a name that is not taken |
| Wakeup | `internal/room/broadcast.go` | one channel | wait, publish |
| Connection | `internal/server/conn.go` | how much of the log, which users and carets it has sent; a token bucket | a read loop and a write loop |
| HTTP server | `internal/server/server.go` | connections per address | handleSocket, handleText, static files, shutdown |
| Registry | `internal/room/registry.go` | rooms by id | Get, snapshot, sweep, final flush |
| Store | `internal/store/sqlite.go` | one row per document | Load, Save, Delete, Purge |
| OT client | `web/src/collab/client.ts` | revision, outstanding operation, buffer | applyClient, applyServer, serverAck |
| Session | `web/src/collab/session.ts` | text, mirror of the server's text, caret, peers, baseline flags | applyLocalChange, setCursor, message and status handlers, establishBaseline |
| WebSocket transport | `web/src/collab/transport.ts` | socket, attempt, timer, closed, terminal | connect, reconnect with backoff, send, close |
| Private document | `transport.ts` `LoopbackTransport`, `storage.ts` | text, revision, queue; pending save and its timer | bootstrap, dispatch, debounced save, flush |
| React binding, seeds | `app/useCollabDocument.ts`, `app/useRoomLocation.ts`, `room/seed.ts`, `room/location.ts` | location, current session, stashed seed | choose the transport, hand a private text to a new room, apply a view's change |
| Views and bridge | `views/*`, `bridge/*`, `App.tsx` | editor value, last known markdown, timers, undo history, drawn carets, view mode | local edits out, remote values in, normalisation |
| Rendering | `markdown/pipeline.tsx`, `mermaid.tsx`, `shiki.ts` | libraries that have been loaded, results that have come | highlight or draw a fence |
| Export, themes, i18n, dialogs | `export/*`, `components/*`, `i18n/*` | none that interacts | |

**How they interact.** A browser opens a WebSocket. `handleSocket` takes the room from
the registry and joins it. The connection's write loop first sends `Identity`, then,
each time the room's wakeup channel closes, whatever the client has not been sent:
`History` from its position in the log, users, carets. The read loop applies `Edit`,
`CursorData` and `ClientInfo` to the room under the room's lock, which is where
concurrent edits get their order. In the browser, the transport calls the session with
statuses and messages; the session feeds the OT client, applies what comes back to its
text, and notifies its listeners. React renders the page with the session's text a
little later, and the views reconcile what they show; what the user does in a view is
applied to the session at once. The location in the address bar decides which session
there is: a room's, with a WebSocket transport, or the private one, whose loopback
transport plays the server within the tab.

**What is hard here.** Edits of several users cross on the way and are transformed on
both sides, in opposite order. Messages of one connection keep their order, but a
connection can break with messages in flight both ways, and the two ends notice at
different times, so that the server can go on reading from a connection whose client
has already opened another. A reconnecting session must tell what it has already seen
from what is new, and what was its own from what was not. Positions are bytes, and
characters have one to four of them. Rooms are dropped from memory and restored. The
room's lock is taken for a moment at a time, so that joining, being named, being told of
and leaving interleave with those of everybody else. In the browser nothing runs in
parallel, but everything is late: a text is read while the user may already be typing, a
save waits for its timer, a page shows an older text than the session has, a
highlighter answers when the fence is another one, and the user may have gone to
another document by then.

**What makes it correct**, part by part:

- *Engine*: applying, composing and transforming agree (TP1 and the composition law);
  equal edits encode alike; no accepted operation yields broken UTF-8; carets follow.
- *Offsets and diffs*: the line index agrees with counting from the start of the text,
  whatever was replaced before; a diff takes the one text to the other.
- *Room*: the log describes the text; the size limit holds after rebasing; every caret
  is inside the text; nobody shares a name the room gave.
- *Connection and wakeup*: every operation is sent to every client once and in order; no
  write loop sleeps through a change; everybody ends up seeing who is there.
- *Session*: its mirror is always one of the room's versions and only moves forward;
  the text is the mirror plus what is pending; nothing it sends is refused; no handler
  throws; nothing typed is lost or doubled.
- *All together*: when everything has arrived all texts are equal, and it does arrive.
- *Registry and store*: one room per document; what was edited is eventually stored,
  and never overwritten by something older.
- *Transport*: it always has exactly one way to go on, or a reason to stop.
- *Private document*: what is shown is what gets stored, and is there again after
  leaving; also when typing begins early.
- *Seeds*: a stashed text is used once, by the room it was stashed for, and only there.
- *Views*: an edit lands where it was made; rendering sends nothing back (in the source
  view; the WYSIWYG view does send, section 5); undo takes back nothing of anybody
  else's; nothing is rewritten without the user's consent.
- *Preview*: the result that is shown belongs to the fence that is there.

## 2. The modules

| Module | Models |
|---|---|
| `OT` | the engine: operations, `Apply`, `Compose`, `Transform`, `Invert`, `TransformIndex`, `Encode` |
| `TextDiff` | `diffText` (bytes), `computeTextChange` (UTF-16 units), `computeMinimalReplace` |
| `Offsets` | `OffsetIndex`: `toBytes`, `toUnits`, `replace` |
| `OTLaws`, `MCOTLaws` | two operations chosen step by step, like a caller builds them, and the laws the engine, the diffs and the offsets owe their callers |
| `Session` | the OT client and the session, as functions from a session record to a session record and the messages sent |
| `Collab` | one room, its connections and its clients: the actions of both sides, and the properties |
| `Versions` | the abstract specification: a document has versions, replicas move forward through them |
| `CollabInv` | the inductive invariant |
| `MCCollab` | two clients and their bounds, for TLC |
| `OTProofs` | what the engine's loops do, proved for every document and operation |
| `OTLawsProofs` | the laws of `OTLaws`, proved for any documents, strings and number of builder calls, and the line index for any text |
| `SessionProofs` | what each function of `Session` does to revisions and to texts, and that replicas of one log agree on order |
| `CollabProofs` | the proofs about revisions and types; about texts, convergence, the refinement of `Versions` and the order of characters |
| `Registry` | one document's place in the registry: requests, snapshots, the sweep, the store, shutdown, crashes and restarts |
| `RegistryInv`, `RegistryProofs` | its inductive invariant, and the proofs |
| `MCRegistry` | users and readers and their symmetry, for TLC |
| `Presence`, `MCPresence` | participants, names and carets: the room's two-section Join, the wakeup, the write loops, the sessions' peers, what is drawn |
| `PresenceProofs` | its inductive invariants and the proofs |
| `Private` | the private document: `Session` over the loopback transport, and the store with its debounced save |
| `Tab`, `MCTab` | one tab: `Private` composed with a room's session and transport, the location and the seeds |
| `TabProofs` | the proofs about seeds, the transport, and the private document with its store |
| `Editor` | the source view, the WYSIWYG view and the page that renders one of them |
| `Page`, `MCPage` | `Editor` composed with the preview |
| `PageProofs` | the proofs about the preview, the user's consent, and the source view with its history |

**Texts and characters.** A text is a sequence of *bytes*. A character is a value; in
`OTLaws` and `TextDiff` it has one or two bytes (constants `Lead` and `Cont` tell the
bytes of a long character apart, the way UTF-8's high bits do), so that positions can
fall inside a character. In `Offsets` it is a sequence of UTF-16 units, each one to
three bytes long, surrogate pairs four. In `Collab` and in `Private`
a user types given texts (`Typed`), of one- and two-byte characters, and edits begin and
end between two characters (`Boundaries`). In the instances no two typed characters are
alike: a duplicated or lost one is visible whatever the text. Each further module takes of a text what its questions need: see below.

**Two engines, one module.** `internal/ot` and `web/src/ot` mirror each other (they
share golden vectors), and so does one module for both. `PROJECT.json` maps a function
that only one side uses to that side: `Compose` and `Encode` to TypeScript, the
server's rebasing to Go.

**Seeded faults.** Definitions whose comment begins with "Seeded fault" are no part of
the specification: each is a variant of its neighbour with a plausible slip, and
`PROJECT.json` says which property catches it.

### `Collab` and the code

Connection `<<c, e>>` is the `e`-th that client `c` opens; `up` and `down` are what is in
flight on it. `link` is what the server knows of it.

| Action | Code |
|---|---|
| `Connect` | the transport's `open` event, `handleSocket`'s `Join`, and the `Identity` that starts `writeLoop` |
| `Push` | `writeLoop`: the History part of `pending()` |
| `AcceptEdit`, `RejectEdit`, `ThrottleEdit` | `readLoop`'s `Edit` branch with `Room.ApplyEdit`: accepted, refused, rate-limited |
| `SetCursor` | `readLoop`'s `CursorData` branch |
| `NoticeLoss`, `ServerLoses` | the read or write that fails on the server's side; `Leave` |
| `Lose`, `ReceiveClose` | the transport's `close` event, without and with the server's code |
| `ReceiveIdentity`, `ReceiveHistory` | the session's `handleMessage` |
| `EditLocally`, `MoveCaret` | `applyLocalChange`, `setCursor`, connected or not |

Each handler is one action, because it is one in the code: a browser handler runs to
its end, and the room's methods hold the room's lock. A goroutine can be preempted
between the two; that is an interleaving of actions.

- `Transport.send` drops what is sent while the socket is closed; so does `Send`.
- A `Close` frame queues behind the messages already sent. Code 1008 is final for the
  transport, any other is followed by a reconnect.
- An exception in a message handler is swallowed by `transport.ts:143-148`, with
  whatever the handler had done so far left done. Here the session stops and `failed`
  records it; `NoSessionFails` shows that it never happens.
- `Join` is one action with the opening of the socket. A client cannot tell: it has
  received nothing yet, and what it sends waits in `up`. Its two sections are
  `Presence`'s subject, as are participants and names.
- `SourceView.tsx` sends a caret only when its user moves it, so `MoveCaret` is an
  action of the user's and nothing refreshes a caret otherwise. One caret stands for
  the caret and the ends of the selection; the cap of 64 positions is left out.
- The rate limiter is a refusal that may happen at any edit (`RateLimit`).
- The comment at `session.ts:65-77` about rooms that never send a History describes an
  older server: `conn.go:130-139` always sends one. The model follows the code.

### `Registry` and the code

A request goes through `at`: "new", "loading" and "loaded" (outside the lock), "got",
"joined", "done". The registry's goroutine is `task`.

| Action | Code |
|---|---|
| `Lookup`, `Load`, `Install` | `Registry.Get`: under the lock, reading the store without it, under the lock again |
| `GiveUp` | `Load` fails, or `websocket.Accept` does |
| `Answer`; `Join`, `Edit`, `Leave` | `handleText`; `handleSocket` and the room's methods |
| `Expire` | an empty room passes `Config.Expiry` |
| `TakeSnapshot`, `Save`, `SaveFails` | `snapshotAll`: `TakeDirty`, then `Store.Save` |
| `SweepLook`, `SweepTake`, `SweepSave`, `SweepSaveFails`, `SweepDrop` | `sweep`: the look, `TakeDirty`, `Store.Save`, the check under the lock |
| `Stop`, `FinalFlush`, `Exit` | a signal cancels the context; `Run`'s last `snapshotAll`; `main` returns |
| `Crash`, `Restart` | the process is killed, is started again |

A text is the set of the edits in it: whether an edit is in a text is all that storing,
dropping and restoring can change. An edit is named by its user, who makes one. Rooms
are told apart by the request that made them, so that a room which is dropped while
someone still uses it lives on. Documents share only the registry's lock, so one
stands for all. `Expire` waits until no request is between `Lookup` and `Join`: the
expiry is a day, and a request takes seconds. A joiner can still come between the
sweep's look and its drop. The retention purge at the start of the process is left out.

### `Presence` and the code

A connection is named by the id that `Join` gives its participant.

| Action | Code |
|---|---|
| `Connect`, `Join` | the two sections of `Room.Join`: the id and the names taken; the participant. `Connect` is also the client's `open` event |
| `Leave` | `handleSocket`'s deferred `Leave` |
| `SetInfo`, `SetCursor` | `readLoop`'s `ClientInfo` and `CursorData` branches |
| `Publish` | `broadcast.publish`, which every one of these calls after it has released the lock |
| `TakeChannel` | `writeLoop`: `Changes()`, at first and when the channel is closed |
| `ReadUsers`, `ReadCursors` | the two readings of `pending()`; with the second what it has found is sent |
| `Lose` | the transport's `close` event |

`owed` holds the goroutines that are between their change and `publish`. What is sent is
handled by the client's session in the same step: messages have no answer and keep their
order, and the property about sessions looks at them when all has arrived. Only the
write loops of `Watchers` are followed, for write loops do not change the room. A caret
is the number of the selection it reports. `raced` is a ghost: the pairs of participants
whose Joins overlapped.

### `Private`, `Tab` and the code

| Action | Code |
|---|---|
| `Bootstrap` | `LoopbackTransport.bootstrap` after its read: Identity, History, the queue replayed |
| `Type` | `applyLocalChange`, with `send`, `dispatch` and the nested acknowledgements |
| `SaveTimer`, `WriteDone`, `WriteFails` | `IndexedDBStore`: the debounce, a transaction that commits or aborts |
| `CreateRoom` | `App.tsx` `handleCreateRoom`: mint an id, stash the seed, set the hash |
| `Navigate`, `LocationChange` | the address changes; the event, `useRoomLocation`, and the effect of `useCollabDocument` with its cleanup |
| `Reload` | the page is reloaded, or crashes and is opened again |
| `Connect`, `Opened`, `Dropped`, `Rejected` | `WebSocketTransport`: its timer, and its `open` and `close` events |
| `Accept`, `Learn`, `OthersWrite`, `TypeInRoom` | the room and its session: an edit accepted, a History received, others' and own edits |

- Calls between the session and the loopback nest: an acknowledgement is handled while
  the edit is being sent and may send the next one from within. `Dispatch` follows the
  nesting; `thrown` is an exception that unwinds all of it.
- A read of the database waits for the writes begun before it (both use one object
  store), so `Bootstrap` needs `writes` to be empty. A database that cannot be opened is
  a choice made at each opening (`db`).
- A shared document is a set of pieces: from the seed, from this user, from others. How
  they are ordered is `Collab`'s subject; here it matters whether the document is empty
  and what has reached the room. Each session's listener considers the seed after every
  change, as the code does.
- The text reaches the next session only through `seeds` (sessionStorage) and `stored`
  (IndexedDB). Both survive a reload; a pending save does not.
- `kept` is a ghost: the text the user has last seen and may count on. A failed write, a
  database that is not there or a reload before the save empty it.
- `TypesEarly` lets the user type before the text has been read. The editor is there
  from the start, so the real program allows it; the run `tab` does not, so that it can
  show everything else, and `early_edit` shows what happens otherwise.

### `Editor`, `Page` and the code

| Action | Code |
|---|---|
| `TypeInSource`, `EraseInSource`, `UndoInSource`, `SelectInSource` | CodeMirror transactions and `SourceView`'s update listener |
| `ThrottleTimer` | `emitSelection`'s trailing report |
| `TypeInRich`, `EraseInRich`, `SelectInRich` | Slate's changes and `WysiwygView.handleEditorChange` |
| `FlushLocalEdit` | its debounce timer: serialize, `computeTextChange`, `onChange` |
| `Render` | React renders `App` with the session's text; the effects on `value` and on `remoteCursors` run |
| `SetViewMode`, `ChunkLoaded` | a view is chosen; a lazy view arrives and replaces its fallback |
| `ConfirmNormalization`, `StayInSource` | the two buttons of the normalisation dialog |
| `RemoteEdit`, `SwitchDocument` | the session's text or peers change; the location does |
| `GetMermaid`, `GetHighlighter`, `EnsureLang` | dynamic imports settle, once for the life of the page |
| `JobDone` | the promise of a fence's result settles |

- A text is a sequence of letters, each its own block in the WYSIWYG view. A "rough"
  letter is one that Slate writes differently, which is what the normalisation dialog is
  about. "code" and "diagram" are fences. Offsets count letters; bytes are `Offsets`'s.
- The caret of the WYSIWYG view is the block it is in. The peer's caret is an offset, as
  the session has it; what is drawn is CodeMirror's mapped copy.
- CodeMirror, Slate and React are external and modelled by what the code relies on:
  changes of a transaction are in terms of the document before it; the history maps its
  inverses through changes it is told not to record (below); Slate reports any change that is
  made to it; effects run after a render in which what they depend on has changed.
- CodeMirror keeps, per transaction, what undoes it, in terms of the text after it. A
  change that is not to be recorded is carried down this stack (`AddMapping`): the topmost
  inverse is mapped through the change, and the change through that inverse, which gives
  what it is to the next one below. A change that reaches over the place where an inverse
  puts a letter back becomes two there (`Beyond`). An inverse takes back at most one
  letter, for an edit of this user's types or erases one.
- Views see `value`, what was last rendered; the session's `text` may be ahead. `shown`
  is the session that the view's callbacks are bound to; an `onChange` bound to a
  session that has been closed does nothing.
- `entered` is a ghost: the text that the WYSIWYG view was mounted with, or to which
  the user has agreed.
- One fence is followed, the first of the text: each has its own component and they
  share only the libraries.

## 3. What each run checks

| Run | Instance | Shows |
|---|---|---|
| `engine_laws` | every pair of operations of up to four builder calls each, over four texts of one- and two-byte characters; every replacement in texts of up to three characters of one to four bytes | `TypeOK` (operations under construction stay canonical; computed ones: the next laws), `EqualEffectEqualEncoding`, `TP1`, `ComposeLaw`, `BoundaryChecksSuffice`, `CaretFollowsText`; `DiffsReproduceTarget` of the three diffs; `OffsetsAgree` of the line index |
| `steady` | one client makes three edits and the other one; connections hold | `TypeOK`, `Convergence`, `OrderAgreement` |
| `limits` | a room restored with text and near its limit of three bytes, the rate limiter, a client that edits twice and one that edits once and sets its caret | `DocumentWithinLimit`, `CaretsInRange` |
| `reconnect` | one client connects twice, the other once, one edit each; losses at any moment; fairness | `NoSessionFails`, `EditsInRange`, `NoEditRefused`, `TextIsSyncedPlusPending`, `EventuallyConverged`, `MovesThroughVersions` (`Collab` implements `Versions`) |
| `registry` | three users, a reader; rooms expire, writes fail, a stop, a shutdown that overruns, a crash, a restart | `RestoredWhole`, `StoreGrows` |
| `registry_saved` | three users, a reader; nothing fails, no room expires; fairness | `OneRoom`, `CleanIsStored`, `EditsGetStored` |
| `tab` | one room; two private edits, a write that fails, a connection that is lost or refused, a reload, a navigation, an edit in the room by anyone; fairness | `TabInv` (types, the loopback keeps up with the screen, the transport is never stuck), `SeedConsumedByItsSession`, `TextIsThereAgain`, `EventuallyStored`, `SeedReachesRoom` |
| `presence` | two connections of two clients, one of them followed; one is broken, two names or selections are set; fairness | `TypeOK`, `NamesClashOnlyInARace`, `SleepsOnlyWhenUpToDate`, `EverybodySeesEverybody` |
| `page` | two letters, one of them rough; an edit by the user, one by others, a selection, a change of view and one of document; both libraries and the grammar may fail to load; fairness | `TypeOK`, `EditsLandWhereMade`, `SourceReconcilesSilently`, `UndoSparesOthers`, `NothingBeforeConsent`, `ResultIsCurrent`, `ComesToRest` |
| `lost_ack` | as `reconnect` | the code violates `NoDuplicates` (section 5) |
| `early_edit` | as `tab`, with nothing but typing, which may begin before the text has been read | the code violates `LoopbackKeepsUp` |
| `several_changes` | as `page`, with nothing but one edit, which may make two changes at once | the code violates `EditsLandWhereMade` |

**Bounds.** `MaxEpisodes` (connections per client), `MaxEdits`, `MaxErased` (the bytes an
edit may replace), `MaxMoves` (of the caret), `MaxDoc` (20 where the limit is not what is looked at), and in the pure modules
`MaxCalls`, the documents and what can be inserted. Three edits of one client are
the least that fill the outstanding slot and compose in the buffer; with the other
client's edit between any two of them the three-way transformations all occur. Two
connections are the least that reconnect; an edit in flight on the old one may be read
before, while and after the new one is opened. Two clients are enough for the session's
protocol, in which all others are one stream of remote operations. Four builder calls
give every pair of component kinds, next to each other and overlapping; the documents
have a long character first, last and not at all, so that cuts fall inside one. A limit
of three bytes with two in the room lets each client's edit fit alone and both not fit.
Client 2 types a two-byte character, and an edit may replace two bytes, so that one
character or two are replaced at once.
Texts of up to three characters with newlines among them give lines that a replacement
joins, splits, begins and ends at.

For the registry: two requests race for the first room, and the third meets what they
have left; each user makes one edit, and the order of the edits does not matter to the
store. The second life of the process, after its one crash, starts from any text that
the first can have left. The constants `StoreFails`, `Expires`, `Stops` and `Overruns`
say which hazards an instance has, so that each run can show what holds in spite of
which. Users, and readers, are interchangeable; the runs that check safety use that.

For the tab: two private edits, the first of a two-byte character, are the least of which
one is saved while the other is made; `MaxHops`, `MaxDrops`, `MaxReloads`, `MaxTyped` are one each, and since making a
room changes the location too, the tab can go to the room, back, and be reloaded at any
point of it, with a connection lost meanwhile. A second room would share nothing with
the first but the private document.

For presence: `MaxID` of 2 gives the race of two Joins, a name chosen while the other
is known, a client that is told of one that has left, and a client that comes back under
a new id while its old self is still there. `MaxTouches` of 2 lets a caret or a name
change between two readings and again after them. Three connections exceed what
TLC can check with liveness (more than 1.3 million states); for the two safety properties
section 4 covers any number.

For the page: one edit of each party and one caret, view and document change make every
pair of hazards meet: an edit or a value while a timer runs, while the dialog is
open, after the view or the document has changed. `ChangesAtOnce` is 1, so that
the run shows what holds of single changes; `several_changes` has 2. One edit makes a
history of one entry; deeper ones are what the theorems in section 4 are for. TLC finds
`EditsLandWhereMade` and `UndoSparesOthers` true of two edits of each party, too, with
`MaxLocal` and `MaxRemote` 2 and the other bounds 0 (3.6 million states): the least with an
inverse below another one when somebody else's change arrives, and with a second such
change after the first has been mapped.

`CHECK_DEADLOCK FALSE`: a bounded run stops when its users have done what they may.

**Fairness.** Nothing is ever asked of users, of losses or of the rate limiter.

- `Collab` (`reconnect`): the read loop reads what has arrived, the write loop sends what
  the log has gained, the server notices a lost connection, the client handles what has
  arrived, and a transport that is not stopped reconnects: goroutines are scheduled, TCP
  keeps retrying or breaks, timers fire. The bound on connections leaves the last one
  unbroken, which is the "connections hold" of the property. Fairness of the reads is
  spelled out with their enabling condition, because TLC would otherwise evaluate the
  whole handler to know that it is enabled.
- `Registry` (`registry_saved`): the ticker ticks and a write ends.
- `Tab` (`tab`): the save's timer and the transport's timer fire, a read or write of the
  database ends, the browser delivers the event of a changed address, a socket opens once
  the drops are used up, and the room and the session handle what was sent.
  `SeedReachesRoom` excepts a tab that goes elsewhere, is reloaded, or is rejected by the
  server: the code stops in these cases.
- `Presence` (`presence`): goroutines that can run do, weakly; that a broken connection
  makes its server side leave is strong fairness, for the owner's other changes can put
  it off but not for ever; the client notices that the server has left.
- `Page` (`page`): React renders what is due, timers fire, imports and the promises that
  wait for them settle, one way or the other.

## 4. What is proved

A theorem holds for any clients, documents, bounds and limits that satisfy
the named assumptions; what a theorem needs beyond them is its ASSUME, and explained below.

### The engine (`OTProofs`)

`Does(op, x, y)` says that an operation fits a text x, cuts none of its characters, and
makes y of it. For all
operations, canonical or not, and all texts, of one- and two-byte characters:

- `TransformConverges`: of a, which takes x to y, and b, which takes x to z, `Transform`
  makes two operations that take z and y to one and the same text. It does not fail, and
  leaves no component over. This is TP1.
- `ComposeDoesBoth`: `Compose(a, b)` does at once what a and then b do, and refuses
  nothing.
- `DiffTextDoes`: `diffText(x, y)` takes x to y.
- `CaretStaysInside`: a caret that was inside the text before an operation is inside the
  text after it.

*How.* The engine's loops consume two operations from their heads. The proofs are about
one turn of a loop: `Halfway` (for Transform) and `Chained` (for Compose) relate what the
loop has built, what is left of the two operations, and what is left of the texts; one
lemma per pair of kinds of component shows that a turn keeps the relation and shortens
what is left. The builder's normalisations (merging with the last component, putting an
insertion before a deletion) have a lemma each, that they change nothing in what an
operation does (`DoesRetain`, `DoesDelete`, `DoesInsert`). `BoundedInduction` carries a
set of naturals up to a bound; it is derived from the well-foundedness of finite sets
under strict inclusion, for the library's induction theorems take an operator as a
parameter, which the provers at hand cannot instantiate. The induction of every loop is
its application to the set of lengths for which the claim holds.

### Its laws (`OTLawsProofs`)

`OTProofs` is about single operations on single texts. `OTLawsProofs` proves what `OTLaws`
says of two callers that build operations call by call, for any documents, any strings
and any number of calls:

- `BuilderKeepsCanonicalForm`: `Spec => []TypeOK`. No empty component, no two neighbours
  of one kind, no insert after a delete, whatever the order of the calls.
- `EqualEffectsEncodeAlike`: `Spec => []EqualEffectEqualEncoding`.
- `BothOrdersAreOneOperation`: `Spec => []TP1`: beyond `TransformConverges`, what comes out
  is canonical, the two orders are *the same operation*, and of two inserts at the start
  a's is first.
- `ComposeIsLawful`: `Spec => []ComposeLaw`, inverses included.
- `ChecksOfApplySuffice`: `Spec => []BoundaryChecksSuffice`.
- `CaretsKeepTheirPlace`: `Spec => []CaretFollowsText`.
- `DiffsReproduceTexts`: `Spec => []DiffsReproduceTarget`, of the diff in bytes and of the
  one in UTF-16 units.
- `OffsetsStayExact`: `Spec => []OffsetsAgree`, and `ReplaceKeepsIndex`: `replace` makes of
  a text's index the one that a rebuild of the new text would make, and refuses exactly
  the ranges that cut a surrogate pair.

*How.* The invariant (`BuiltInv`) is that each caller's operation is `Proper`: canonical, and
all it inserts are texts over the bytes of `Strings`. Each turn of Transform and of Compose
makes at most one call of the builder (`BuildsOn`), so what they return is proper too.

The centre is `SameEffectSameOperation`: two proper operations that do the same to one
document *whose bytes can be told apart* are equal. On such a document the result gives
the first component away: it is an insert if the result begins with a byte of no
document, a retain if it begins with the document's first byte, else a delete
(`HeadKind`); and canonical form gives its length away, for the next component cannot be
of the same kind, nor an insert that follows a delete (`AfterInsert`, `AfterRetain`,
`AfterDelete`). So the heads agree, and an induction over the rest follows. With it
the identity of both orders in TP1 needs no look into the loops: both compositions do the
same to marked bytes, so they are the same components. The tie-break does need one: after
two turns a's rebased operation inserts a's text and keeps b's (`TransformLeads`), and no
later call of the builder undoes that (`LeadsKept`).

For carets, `CaretFindsSpot` says where `TransformIndex` ends on marked bytes (`Spot`): no
byte before it was at or after the caret, and the byte there was. The invariant of the
walk (`Walking`) needs canonical form: were an insert to follow a delete that the caret is
inside of, the code would leave the caret in front of it.

The line index is about counting. `Weight` is the number of bytes of a prefix, counted by
the kinds of its units; every recursive scan of the code (`Utf8LengthBetween`, the units of
a byte offset, the starts of the lines) is shown to compute it, by induction over the
prefix. An ascending list of starts is determined by the set of its members, so it is
enough that `replace` has the right starts: those in front of the range stay, the ones of
the new text are scanned from the last of these, and the rest are shifted by the
difference in units and in bytes (`WeighsCat` puts the three together). That the shift is
the same for all of them is the additivity of `Weight` at a seam that cuts no pair.

### The protocol (`SessionProofs`, `CollabProofs`)

First about the control of the protocol, with the engine as a black box:

- `TypeCorrect`: `Spec => []TypeOK`. Beyond types: a session never has more than one
  operation outstanding and one buffered.
- `EditsStayInRange`: `Spec => []EditsInRange`. No edit reaches the room with a revision
  that the room has not, whatever was lost and however often clients reconnected, so
  the read loop never closes a connection with "revision out of range".
- `Invariance`: `Spec => []IInv`, the inductive invariant both follow from.

*Why that invariant.* That an edit's revision is within the log follows from
the session's revision being so; that follows from the Histories the session has read,
which come from the queue; so the invariant has to say that the Histories in each queue
cover the log in order and end within it (`HistoriesInOrder`), and that a session with
a baseline has not read past the start of the next one, while one without has read no
further than the end of any that could give it a baseline (`RevisionsInOrder`). Edits
in flight keep the revision they were made at, and the log only grows (`UpInRange`).

Then about the texts:

- `Converges`: `Spec => []Convergence`. When everything has arrived, every client has the
  server's text and nothing is left unconfirmed, whatever was lost on the way.
- `SessionsNeverFail`: `Spec => []NoSessionFails`. No handler throws.
- `EditsAreReconcilable`: `Spec => []NoEditRefused`. The room refuses no edit but for its
  size.
- `CaretsStayInRange`: `Spec => []CaretsInRange`.
- `DocumentStaysWithinLimit`: `Spec => []DocumentWithinLimit`, if the seed is within it.
- `ScreenIsMirrorPlusPending`: `Spec => []TextIsSyncedPlusPending`.
- `SessionsMoveThroughVersions`: `Spec => MovesThroughVersions`, the refinement: `Collab`
  implements `Versions`. Initial states map to initial states; accepting an edit
  publishes a version; reading a History catches up; every other step is a stutter.
- `Agreement`: `Spec => []CInv`, the inductive invariant they all follow from.

And, where all bytes typed differ and each client connects once:

- `TextsKeepTheirOrder`: `Spec => []OrderAgreement`. No two texts disagree on the order of
  what both show, at any moment: nobody's characters are reordered by what arrives later.
- `TextsRepeatNothing`: `Spec => []NoDuplicates`, which second connections violate
  (finding 1 in section 5), and nothing else does.

*Why that invariant.* `CInv` adds to `IInv`:

- `LogWritten`: each entry of the log takes the text before it to the text after it, and
  the room's text is the last. So "the text at revision r" (`TextOf`) means something.
- `SessionsMirror`: a session's mirror is the text at its revision, and the outstanding
  operation and the buffer take the mirror to what is on the screen.
- `UpLegible`: an edit on its way up fits the text at the revision it names, so that the
  room can rebase it over the rest of the log. This holds of connections the client has
  already left, too: the room may go on reading from them.
- `ClientsInTouch`: for each connected client, what will become of its outstanding
  operation. It is `Lost` with the connection's end (the server does not read any more),
  or it `Travels` up, or it was `Accepted`: it is in the log beyond what the client has
  read. In the last two cases a `Trace` shows that the copy in the log, or the one in the
  queue, is the client's own, rebased over the very entries that the client is going to
  transform its own over; so that when it is acknowledged the two are the same. `Intro`
  and `Covers` say what the queue down brings: an Identity, the first History, then
  Histories that continue where the ones before end.
- `IdsDistinct`, `ConnsFresh`: a client tells its own entries by the id that the room gave
  its connection, so ids must not be used twice, and a connection not yet opened must
  have left no trace.
- `CursorsInside`: carets, in the room and on their way.

A reconnect is where the invariant is most needed: what the session had outstanding
becomes a new operation, computed by `diffText` from the mirror, although its first copy
may be in the log (finding 1 in section 5). The text is then duplicated, yet *all texts
agree*: this is what `Converges` says of it.

*The order of characters.* `OTProofs` says first of operations what they insert
(`Inserted`): that Transform's results insert what the given operations do
(`TransformInserts`), that Compose inserts nothing else (`ComposeBrings`), and that an
operation leaves what it keeps in its order (`DoesThreads`). A text *evolves* from
another (`Evolves`) if it adds only certain bytes and keeps the order of the rest; two
texts that evolve from a common one by different bytes agree (`EvolvesAgree`), so the
matter is to find the common origin. For two texts at different revisions that is not
one of the log's texts: the session that is behind may have an operation in the log
already, which the other one has read. The origin is then what that operation makes of
the *older* text (`Confirming`): what it makes, rebased, of every later text evolves from
there (`TraceEvolves`). A text with such an origin is a `Replica` of the log, and
`ViewsAgree` says that any two replicas agree. It remains that every session's text is
one, which `OInv` makes inductive: each operation pending inserts bytes its client has
typed, that no entry of the log has brought (`Fresh`); what is on the screen evolves from
what the outstanding operation makes of the mirror (`Adrift`); and after the connection
has ended the outstanding operation is in the log once, or never will be (`Over`). TLC
checked `OInv` too, before it was proved. Of the two conditions, the first is what makes
"the same character" mean something; with a second connection the delta is computed
anew by `diffText`, which may type a byte again.

*How.* `SessionProofs` shows what each function of `Session` does: to control state, that
it stays well typed and that the revision advances by at most the number of operations
read; to texts, that the mirror moves along the log and the screen stays the mirror plus
the pending operations. Then there is a lemma per action of `Collab` and, underneath, one
per way in which an outstanding operation's whereabouts change (`OutstandingSend`,
`OutstandingAccepted`, `OutstandingRemote`, `OutstandingOwn`, ...).

*Characters.* Users edit between characters, but operations are transformed, composed and
computed by the byte. `Whole(op, d)`, a part of `Does`, says that every component of op
begins and ends between two characters of d and that what it inserts is a text. Every
law of `OTProofs` carries it over from the given operations to the made ones, and
`DoesApplies` concludes that none of `Apply`'s checks ever fires on one; so nothing in
the protocol is refused or thrown because of a split character.

### The registry and the participants

`RegistryProofs` proves, for any set of requests:

- `NoSecondRoom`: unless rooms expire, `Spec => []OneRoom`.
- `RestoredRoomsAreWhole`: `Spec => []RestoredWhole`, with all hazards switched on.
- `StoreNeverGoesBack`: `Spec => StoreGrows`, likewise.
- `CleanRoomsAreStored`: where no write fails and the process is not told to stop,
  `Spec => []CleanIsStored`.

The conditions are needed (section 5). The invariant says what links the four: what the
goroutine has in hand is the registry's room, and its text lies between what is stored
and what the room has by now (`InHand`); a request that has read the store while there
is no room has read what is stored (`ReadLatest`), because a room that comes and goes in
between would have to expire meanwhile (`NotReading`). It has a lemma per action.

`PresenceProofs` proves, for any clients, names and number of connections:

- `NamesAreUnique`: `Spec => []NamesClashOnlyInARace`. The invariant is that two Joins
  which are looking for a name at once are noted as overlapping (`OverlapIsNoted`), and
  that one which is looking has in hand the name of every participant, but of those it
  overlaps with or who chose their own (`TakenIsKnown`).
- `NoChangeSleptThrough`: `Spec => []SleepsOnlyWhenUpToDate`. The property speaks of a
  loop that waits; the invariant has to speak of one that has read the participants and
  not yet the carets, too: whatever has changed since a loop read it, its channel has
  been closed or some goroutine still owes the publication (`UsersWillWake`,
  `CursorsWillWake`). That the channel is taken before the reading is what makes both
  of them hold.
- `TypeCorrect`: `Spec => []TypeOK`. The participants are the connections that have joined
  and not left, a caret is a participant's, and neither a write loop nor a client knows of
  anybody who was never connected. What a client knows is a fold over the messages that
  have arrived (`PeersFromMessages`), which takes an induction over their number
  (`PeersUnfold`).

### The tab and the page

`TabProofs` proves, for any rooms, texts and bounds:

- `SeedsAreConsumedRightly`: `Spec => SeedConsumedByItsSession`. It rests on one
  decision about a seed (`ConsideredRightly`): one that consumes it has a baseline and
  leaves a document, unless the seed is empty.
- `TransportGoesOn`: `Spec => []TransportNeverStuck`. The invariant adds the shape of the
  socket's record and that a baseline implies a connection; one lemma for a session that
  is made, one for leaving rooms, one for any event of a transport (`RoomKeeps`).
- `TabKeepsUp`: `Spec => []TabInv`: the loopback has acknowledged everything that is on
  the screen, no turn of the two throws, and the state is well formed.
- `TextReturns`: `Spec => TextIsThereAgain`. Who comes back to the private document finds
  it as it was left.

The last two assume that nothing is typed before the text has been read (`~TypesEarly`),
without which they are false (in section 5: finding 2, and the first point on private
documents). Then every edit finds the session with nothing pending: it is acknowledged
and confirmed while it is being sent, and leaves the session and the loopback with one
text and nothing pending (`DispatchConfirms`). The nested sending of a buffer does not
occur, and nothing is proved of it. `PrivateOK` says so of the state between events.
`StoreOK` and `KeptOK` relate the store to the screen: what the user may count on
(`kept`) is the text in the pending save; if there is none, the one in the last write
that has begun; if there is none, what is stored. Writes commit in the order in which
they were begun, so each of these steps keeps it. `TabShape` says of seeds and rooms what
`TabInv` does.

`PageProofs` proves, for any text, any kinds of letters and any bounds:

- `ResultsAreCurrent`: `Spec => []ResultIsCurrent`. The invariant: whoever has not been
  cancelled works for the fence that is there (`JobsAreForFence`).
- `ConsentComesFirst`: `Spec => NothingBeforeConsent`. The invariant: a view mounted with
  a text it would write differently has something pending and no timer
  (`WaitsForUser`), and the dialog offers that text's normal form (`DialogOffersNormal`).
  It needs that normalising twice is normalising once, and that what Slate does to a
  value which comes while the user is asked is nothing.

And, where an edit of the source is one change (`ChangesAtOnce = 1`; for several at once
the second is false, finding 3 in section 5):

- `PageTypeCorrect`: `Spec => []TypeOK`.
- `EditsLand`: `Spec => EditsLandWhereMade`.
- `SourceStaysSilent`: `Spec => SourceReconcilesSilently`.
- `OthersAreSpared`: `Spec => UndoSparesOthers`.

All four come from one invariant, `EditorInv`. Most of it is about what each view holds;
what carries the theorems is `UndoOK`: there is a text for each depth of the history, the
deepest below all of it and the shown one on top, such that each inverse fits its text,
makes the next one below of it, and takes away at most one letter, of this user's. An edit
puts one text more on top (`UndoAppend`), an undo takes one off (`UndoFront`). The hard
step is a change of somebody else's (`UndoMapped`), which replaces all of the texts: that
an inverse and a change which are carried over each other make the same text in both
orders is shown case by case, by where the two lie (`CrossedApart`, `CrossedWithin`); since
one change can become two on its way down, it has then to be shown of an inverse and any
number of changes, by induction (`CrossedAll`), and of the whole stack by another one over
its depth. `SourceStaysSilent` rests on `ReplacementOK`, by `ChangeMakesText`
of `OTProofs`: the one replacement computed from two texts makes the second of the first.

### Assumptions

Assumed are only the constants' assumptions that the modules name: `CollabAssumption`
(types; at least one connection per client; 0 is not a client; the seed and what users
type are whole characters), `OTLawsAssumption` (documents and strings are whole
characters; a byte that begins a long character continues none; the marks that `Effect`
tells bytes apart with are no bytes of a text; the texts with line indices have their
surrogates in pairs), `OffsetsAssumption` (a UTF-16 unit is of one kind),
`RegistryAssumption` (users and readers are different, none is `None`; types),
`PrivateAssumption` (saved and typed texts are whole characters; types), `TabAssumption`
("private" and the empty fragment are no room ids; types), `EditorAssumption` (types; a
letter of the page is one unit, `Lead` and `Cont` being empty) and `PresenceAssumption`
(types). That surrogates come in pairs is what `offsets.ts:110-114` says of editors and
what decoding valid UTF-8 yields; a lone one at either side of a seam would make the byte
counts of the parts differ from that of the whole. A theorem with a further hypothesis has
it in its ASSUME: a seed within the limit, `~TypesEarly`, that rooms do not expire, that
writes do not fail, that an edit of the source is one change, that each byte typed is
different (`TypedApart`) and that a client connects once (`ConnectOnce`; as no connection
is lost in `Collab` that its client could not replace, none is lost then). Each is how some passing run
instantiates the constants. Every inductive invariant was checked with TLC on those runs'
instances before it was proved.

### Only model-checked

- *Liveness*: `EventuallyConverged`, `EverybodySeesEverybody`, `SeedReachesRoom`,
  `EventuallyStored`, `EditsGetStored`, `ComesToRest`. Fairness and ENABLED are out of the
  provers' reach. The theorems cover the safety half: *if* everything has arrived,
  the texts are equal.
- *The order of characters after a reconnect*, where the delta is computed again: the run
  `lost_ack` shows that characters are then duplicated.
- Edits of the source of several changes at once: what of `Page` holds of them besides
  the run `several_changes` is not looked into.

## 5. Where the code disagrees with what it says

1. **A lost acknowledgement duplicates text** (`lost_ack`). The room accepts an edit and
   the connection breaks before the client hears of it. On reconnecting the session
   takes the edit for unconfirmed, sends it again, and reads its first copy in the
   history as somebody else's. `session.ts:302-305` promises that both changes
   "survive, composed into one document".
2. **Typing before the saved text has been read breaks the private document**
   (`early_edit`). The edit is queued and replayed as it is onto the text that was read,
   where its lengths do not fit; it throws out of `bootstrap`, the edit is never
   acknowledged, and nothing typed from then on is saved. `transport.ts:217-221` says
   that this queue "is what keeps a fast keystroke during page load from racing the
   IndexedDB read".
3. **A transaction of several changes lands in the wrong places** (`several_changes`).
   CodeMirror gives all changes in terms of the document before the transaction; the
   session applies each to the text the ones before it have moved. Tab over several
   lines, toggling a comment over them and replacing all matches are such transactions.

### What else the models show

Not every one of these contradicts a comment of the code; none is checked by a run of
its own, and each can be seen with the constants named here or read off the model.

*Server.*

- A joiner's room can be dropped under it: the sweep's second look (`registry.go:183`)
  is for users of the room, and a joiner that `Get` has just given the room is not one
  yet, so that there are two rooms for one document, which `registry.go:105` says never
  happens. To see it set `Expires = TRUE` in `MCRegistrySaved.cfg` and check `OneRoom`.
- A snapshot that a shutdown cancels (`registry.go:156`), or whose write fails, has
  already cleared the flag, so the last flush skips the room although `registry.go:122`
  says it "does not lose the last few seconds of typing". Likewise a flush that fails in
  the sweep is not tried again: the next sweep drops the room. To see it set `Stops` or
  `StoreFails` to TRUE in `MCRegistrySaved.cfg` and check `CleanIsStored`.
- A client that the rate limiter closes does not reconnect, for the transport takes code
  1008 as final (`transport.ts:155`), while `conn.go:66-68` has it that "reconnecting
  resyncs". Set `RateLimit = TRUE` in `MCReconnect.cfg`: `EventuallyConverged` fails.
- A room that is dropped and restored, or a server that restarts, while a client is away
  begins its log anew. The client skips what it takes for known (`session.ts:319`), and
  its edits are out of range until it is reloaded.
- A caret position names no revision and is stored as sent. Edits its sender had not
  seen are never applied to it, and it stays in the wrong place, though inside the text
  (`CaretsInRange`), until its user moves it. Nor does a session transform the others'
  carets: it waits for the server's next.
- Two Joins at once may choose the same name, though `room.go:122` says that it is
  unique: hence the condition of `NamesClashOnlyInARace`.
- A participant whose caret was sent before its name, and who leaves before the name is
  sent, stays among the peers for good, nameless and so invisible: what is sent as gone
  is only who was sent as there. `EverybodySeesEverybody` therefore speaks of what is
  shown, not of `peers`.
- Reading a document through `handleText` makes a room of it, like joining does.

*Private document and rooms.*

- Where nothing is saved yet, one edit made before that has been read does no harm, but
  two do. The first is queued, the second waits in the session's buffer. Acknowledging the
  first releases the second, which is sent and acknowledged at once, from within:
  `session.ts:285` applies it to the confirmed text before the first, its lengths do not
  fit, and the exception unwinds all of it. From then on every acknowledgement throws and
  nothing is saved. The comment above that line calls each entry "confirmed server
  state", which the outer one is not yet when the inner one is handled. To see it set
  `SavedTexts <- MCEmpty` in `MCEarlyEdit.cfg`: `LoopbackKeepsUp` fails.
- `storage.ts:12-14` means `flush()` for `visibilitychange` and `beforeunload`; nothing
  calls it then. What was typed in the last 300 ms before a page closes is lost. A failed
  save is given up, too, and "try again next debounce" needs a further edit.
- A read that fails counts as "no text", and the next save overwrites what is there.
  Two tabs with the private document overwrite each other.
- A seed is dropped when it has been applied, not when the room has it. A reload
  between the two leaves the room empty; the private document still has the text. So
  does typing in the fresh room before its first History has come: the document is not
  empty any more, and the seed is discarded.

*Views.*

- The WYSIWYG view sends what its user did not do. A remote value is reconciled into
  Slate, which reports the change like any other, so that the timer of a local edit is
  set (`WysiwygView.tsx:154-158`, `184`). Its flush compares what Slate has with the value
  and sends the difference: a rough letter of somebody else's written another way, or
  the old text of the caret's block. `types.ts:55-56` has it that a view "must reconcile
  to it WITHOUT emitting onChange", and `PLAN.md:582` "Never emit an op the user did not
  ask for". So `SourceReconcilesSilently` is about the source view, which keeps that
  promise. To see what the other one does check `OnlyEditsAreEmitted` in `MCPage.cfg` in
  place of its properties, with `Given <- MCPlain` and `MaxLocal = 0`.
- A local edit is in terms of the value last rendered, and is clamped to the session's
  text. If others have edited since, it may land elsewhere; where the session's text and
  the rendered one are then the same again, the view is not even corrected.
- The WYSIWYG view keeps the block with the caret when a value comes, but takes the whole
  value for what it has: its next flush takes back what a collaborator wrote in that
  block. What others write during the 150 ms before a flush is overwritten alike, where
  it is in what the flush replaces. Leaving the view drops an edit still waiting.
- Confirming a normalisation replaces as many characters as the text had when the view
  was mounted; others may have changed it since.
- A rough letter that comes from others after mounting is normalised by the next flush
  without asking: the check is made at mounting only, and `NothingBeforeConsent` is about
  the text that was entered with.
- CodeMirror's undo history survives a change of document, and so undoing can bring a
  text into another document. A flush whose timer was set for a session that is gone is
  lost.

*Preview.*

- A library that fails to load fails for the life of the page, for the rejected promise
  is what is kept. `useHighlightedHtml` has no `catch`: its fence stays as if loading, as
  `ComesToRest` has to except.
- Read beside the models: the highlighter is given the alias that was typed and not the
  language it stands for (`shiki.ts:171`), and the languages listed in `detect.ts` are
  unused.

## 6. Not modelled

- *A restart of the server, or an expired room, in `Collab`*: known to fail (section 5).
  A model of it pays once the protocol can tell one log from another.
- *Per-address connection count, static files, `Purge`, flags*: one locked increment and
  its deferred decrement; file and database handling.
- *The hue of a name, the wording of names, translations, themes*: data that no part of
  the program decides upon.
- *Slate's own undo history*: the bridge keeps remote changes out of it (`withoutSaving`,
  `apply-reconciliation.ts:39`), and nothing here checks what undoing in the WYSIWYG view
  then does. `UndoSparesOthers` is about CodeMirror's history.
- *`types.ts`'s validation of foreign JSON*: every message modelled comes from the
  program itself, and the encoding of operations is in `OT`.
- *Turning Markdown into HTML or Slate's blocks and back, mathematics, export, saving
  files*: calls of third-party libraries on one text, without state. What matters of them
  to the editors, that the way there and back may change a text, is in `Editor`.
- *The split view's synchronised scrolling and its splitter, toolbars, elements and
  plugins, menus, the share dialog*: presentation. The dialogs that decide something, the
  normalisation's two buttons and the creation of a room, are actions.
- *A registry without a store* (as in tests), *several documents at once* and *several
  tabs on one private document*.
- *`goToPrivate`, `setName`, `Store.Delete`*: the program does not call them. Nor does it
  call `OffsetIndex.replace`, which `OffsetsAgree` checks all the same; and `SetInfo` is
  what the server does when any client sets its name.

**What could follow.** A `Restart` of the room in `Collab` with an epoch in the Identity,
if the protocol gets one. In the proofs: what remains true of the page when an
edit of the source makes several changes at once, and which characters keep their order
over a reconnect.
