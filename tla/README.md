# pty-claude in TLA+

A verification project for `pty-claude`, a daemon that runs terminal programs
behind pseudo-consoles and shows them to browsers over WebSockets. It holds TLA+
models of the daemon's session handling and of its neighbours, TLC runs on small
instances, and TLAPS proofs that hold for every instance. `PROJECT.json` says
which lines of the source each definition models, which runs there are, which
mutant of the code breaks which property, and which hazards the properties are
for.

Run one model with `tlc -config MCSessionBridge.cfg MCSessionBridge.tla`, one
set of proofs with `tlapm SessionBridgeProofs.tla`.

## 1. The system

Paths are relative to the repository.

| part | state it keeps | operations | what makes it hard |
|---|---|---|---|
| `ConPtyProcess` (`src/session/conpty.rs`) | console, writer, reader channel, child handle, exit code, size | start, write, read, resize, poll_exit, terminate; a reader thread | the end of the output and the exit are seen through two sources (channel, `try_wait`) in any order; `write_all` blocks |
| `RunningSession`, `SessionRegistry` (`src/session/registry.rs`) | exited, exit code, size around a handle; the map of sessions | create, get, remove, and the handle's methods | one `RwLock` per session, taken by pumps and requests alike |
| WebSocket bridge (`src/net/websocket.rs`) | per connection: handler, output pump, input pump | lookup, exited check, poll and send, receive and apply | two tasks per connection, several connections per session, detached tasks after `select!` |
| HTTP handlers (`src/net/routes.rs`) | nothing of their own | create, input, stop, resize | they wait for the same lock; most other routes are stubs |
| browser client (`terminal/terminal.js`) | `S`: session, socket, connected, userDisconnected, reconnect timer | start, stop, connect, disconnect, reconnect, visibilitychange | handlers of old sockets write the same state; answers come late |
| `SessionManager`, `SessionRuntime`, lifecycle (`src/service`, `src/session`) | entries, status, pid, record | create, input, poll, stop, remove, marks | children run on between system calls; not wired into the daemon yet |
| `PosixPtyProcess` (`src/session/posix_pty.rs`) | master fd, pid | start, read, write, poll_exit, terminate, drop | SIGTERM, grace period, SIGKILL and reaping race the child's own exit |
| pairing (`src/auth`) | approved and rejected claims in memory | start, approve, reject, status, authenticate | an approval is several writes of a file; restarts forget the memory |
| file stores (`src/store/file_store.rs`) | `pairings.json`, `sessions.json`, `host_identity.json` | load, upsert, remove | load-edit-save without a lock, failing reads count as empty, a fallback that removes the file |
| `SessionOutputBuffer` (`src/session/output_buffer.rs`) | numbered chunks, their bytes | append, tail, slice | strings are cut and counted in bytes |
| `TerminalMultiplexer` (`src/session/terminal.rs`) | screen, scrollback, cursor, viewports, revision | append, resize, viewport snapshot | columns count characters, lines bytes; resizes move lines but not the cursor |
| `LogBuffer`, evidence, `ObservationStore` (`src/service`) | log lines, events | append, tail, range, search, context | two limits at once; revisions, offsets and positions differ after an eviction |
| environment (`src/session/env*.rs`, `launch.rs`) | entries with their source | resolve in three modes, parse `.env`, launch | each layer is expanded with the ones before; the handles use little of the result |
| `main.rs`, `net/server.rs`, `net/auth.rs`, CLI | none | start-up, unused middleware | I/O |

How they interact: the browser makes a session with `POST /sessions`, which starts
a process and registers it, and connects to `/ws/sessions/{id}`. The bridge looks
the session up and starts two pumps. The output pump takes the session's lock,
calls `read`, and `poll_exit` when the output is closed, releases the lock and sends. The input pump takes
the lock for each frame. HTTP requests take it too. The reader thread feeds the
handle's channel without the lock. The pairing service and the authorizer share
a file store and nothing else. The service layer (`SessionManager` and below) is a
second implementation of sessions that the daemon does not use yet.

### What should hold, part by part

* Handle: an exit is final and has a cause; output is in order; an exit found at
  the end of the pipe loses nothing.
* Bridge: a chunk is read once, goes to its client once and in order; nothing is
  lost without a cause; wrapper and handle agree; a writer that blocks under the lock
  is the only one and its session lives, while handlers that keep a read guard find
  their session exited; pumps end; a stop takes effect. Output is said to be broadcast
  to all clients (it is not, finding 4).
* Browser client: it is never stranded on a session it will not hear of again; it
  reconnects, and learns of an exit it missed; after a stop it keeps no session, no
  socket of its own and no timer, and abandoned sockets mislead it until they close.
* Session service: runtime and handle agree; a session that is over has no
  process; calls return.
* Pairing: tokens have an owner, last, and are unique to a request; a request is
  not both granted and rejected, each with success; an expired request is never
  pending or approved again, an approved one never pending or expired.
* Buffers: what is kept is exactly the most recent part that fits, numbered as it
  came, and the queries agree with each other. No call panics without a cause.
* Multiplexer: scrollback and screen are a window on an endless sheet.
* Environment: the last source in the order of precedence wins, whatever refers to
  what; on POSIX a clean session's process has nothing of the daemon's environment
  but HOME, USER and TMPDIR, by any way. (The Windows handle, the one the daemon
  uses, does not look at the mode: section 5.)

## 2. Modules

```
ConPty ------------ SessionBridge --INSTANCE--> OutputStream   (what the bridge promises)
  |                    |     |
ConPtyProofs           |   SessionBridgeProofs
  |                    |
MCConPty          MCSessionBridge

PosixPty ---------- SessionService --- MCSessionService, SessionServiceProofs
Pairing ----------- MCPairing, PairingProofs
WebTerminal ------- MCWebTerminal, WebTerminalProofs

Text -- OutputBuffer --.
  `---- Terminal -------+-- SessionText --- MCSessionText, SessionTextProofs
        LogBuffer -----'
Environment ------- MCEnvironment, EnvironmentProofs

FoldTheorems <--INSTANCE-- SessionTextProofs, EnvironmentProofs   (facts about folds)
```

**ConPty**: the handle, its reader thread and the child. `pty` is the Rust struct
(`started`, `open`: are pair, writer and receiver there, `exited`, `code`, `size`,
and `taken`: how much output left the channel). A chunk is its position in the
output, so the channel is the interval from `pty.taken + 1` to `chan.sent`. Methods
are operators from handle record to handle record (`AfterRead`, `AfterPollExit`,
`AfterTerminate`, ...), which lets SessionBridge put several into one critical
section. `chan.eof` is the Eof message; `chan.cut` says that a read error, not the
end, caused it. `Start` leaves the cursor report it writes in the child's stdin or
not; a start that fails changes nothing in the handle and is no step.

**SessionBridge**: one session with any number of connections and requests. A
critical section without an await is one step; a step that needs the write lock waits
until it is `Unlocked`. Two places keep the lock for longer. In `write_all` a task owns
`lock` until `WriteReturns` is enabled. And a handler that finds its session exited
sends the `exited` message with its read guard alive (`websocket.rs:138-147`): it is in
state `ended`, one of the `Readers`, from `CheckExited` until `Refuse` has sent. Readers
share the lock with each other, and keep every pump and request waiting. `OutPoll` is the whole
critical section of the output pump (the exited check, then read, then poll_exit if the
output is closed, then the break or the send), `OutSend` the send after it. `InRecv` takes a frame, `InApply` performs it
under the lock. The handler's end after `select!` is no step: it drops two join
handles, which changes nothing (the tasks are detached). The exit notice built
at `websocket.rs:275` has no step either, since its sender has moved into the
output pump: it is never sent.

**OutputStream**: the promise about output, without locks, pumps or frames.
`registry.rs:16` speaks of a broadcast; the code hands each chunk to one
connection only (`AtMostOnce`), and the abstract specification says so. That
the broadcast is not there is finding 4 (`OutputIsBroadcast`).

**WebTerminal**: one page with its sockets. A handler is one step. `sock` holds
every `WebSocket` the page made, also those `S.ws` no longer refers to, because
their handlers still run. The daemon's side is what the page can tell apart: a
session runs, has exited, or is unknown after a restart. The bridge of
SessionBridge tells a client of an exit only when it connects (`DaemonAnswers`), so
`ExitIsLearned` is about a page that was cut off. `OfflineIsClean` says what is left
of a page that went offline, abandoned sockets included: the page may show itself
connected through one (finding 3), but only while that socket has its close
event to come.

**SessionService** over **PosixPty**: the manager serves one call at a time, but a call
is several system calls, and the children write, exit and leave descendants
between any two of them. Calls that only return an error change nothing and are
left out. `TerminateFails` is a refused signal or an interrupted `waitpid`, after
which nothing is marked. `past` records how a session ended, for the properties.

**Pairing**: one service over a file, one call at a time, with each store call split
where it can fail or be killed: load, write, remove-and-rename. `told` records
answers and mishaps, for the properties.

**SessionText** over **OutputBuffer**, **Terminal** and **LogBuffer**: what becomes of the
output. The three modules are operators on records, as the Rust types are structs
with methods; SessionText makes the calls of `SessionRuntime` and its service actions.
`PollRead` is one turn of the loop in `poll_once`: decode, buffer, multiplexer, record,
in this order, and each may panic after the ones before it (`ok`). **Text** has what
the code depends on of Rust's strings: a character is a kind and the number of its
byte, `Width` is its length in UTF-8, and a cut that is not `CutsClean` panics.
`Lossy` decodes the bytes of one read. `past.paper` is the reference for the screen:
an endless sheet under the same cursor. A log line is its length and the patterns in
it. The stores share nothing, so `kind` chooses which of them a behaviour is about.

**Environment**: one resolution and one launch. A layer is an action (`Base`,
`ImportServiceManager`, `LoadEnvFile` per file, `ApplyProvider`, `ApplySession`), `stage` the next
one. A value is a sequence of pieces: text, or the text a variable of the daemon has,
so that a property can tell where a value came from. A line of a file is tokens:
literals, references, quotes, blanks and `#`. `HttpEnvironment` is the way of
`POST /sessions`, which resolves nothing. The reference for a line's value is
`Documented`, a translation of what the parser's head promises, and not the
parser's `UnquoteValue`; the two differ only for a quoted value with a comment after it
(`CommentAfterQuote`), which `LastLayerWins` leaves to finding 5.

## 3. Runs

| run | instance | shows |
|---|---|---|
| `bridge_output` | 2 connections (symmetric), 2 chunks | the race of two output pumps; an Eof comes last; `ImplementsStream` |
| `bridge_commands` | 1 connection, 1 request, 2 sizes, reader may fail, fair | input, stop and resize over both protocols, with a blocked writer and a read guard; an exit has a cause, the end is noticed, pumps end, a stop takes effect |
| `web_terminal` | 2 sessions, 2 sockets alive | page against daemon, network and user; safety and liveness |
| `session_service` | 2 sessions, terminal buffer of 1 chunk | polls, stops and drops against children |
| `pairing` | 2 requests, 2 codes, 2 tokens, times 0 to 2, TTL 1 | approvals, rejections and expiry with failing files and crashes |
| `session_text` | buffer of a few bytes, screens of 0 to 3 rows, 4 reads, 1 resize, 3 texts | buffer, tail, screen and logs are the recent part of what came; panics have causes |
| `environment` | 8 variables, 2 files that refer to each other, 3 modes, 2 handles | the last layer wins, with its documented value; clean mode is closed on POSIX |
| `claim_exit_code` | the handle alone, 3 chunks, 2 inputs fit into stdin, any order of calls | **violated**: the exit code is the child's |
| `claim_all_forwarded` | 1 connection | **violated**: all output is forwarded |
| `claim_broadcast` | 2 connections, 3 chunks | **violated**: every connected client gets all output |
| `claim_stop_stays` | as `web_terminal` | **violated**: a stopped page stays offline |
| `claim_single_quotes` | as `environment` | **violated**: quoted values are what the parser documents |

### Findings

1. `read()` stores exit code 0 when it meets the Eof (`conpty.rs:251`), so that a
   child that failed is reported with 0 unless `poll_exit` saw it first. The bridge reads
   first, and so always reports 0.
2. The output pump breaks on `closed` before it sends what came with it
   (`websocket.rs:170`): the last output of a process can be dropped, while
   `doc/architecture.md:294` says that all bytes are forwarded.
3. `connect()` leaves the socket before it open (`terminal.js:228`). After a stop it
   may open and make the page connected again.
4. Every output pump reads the one handle itself (`websocket.rs:156`), and the broadcast
   channel has no subscriber: two clients each get a part of the output, while
   `registry.rs:4`, `:16` and `:26` speak of output for all connected clients.
5. A quoted value of an `.env` file with a comment after it is not recognised as quoted
   (`env_file_parser.rs:141`): it keeps its quotes, and a single-quoted one is
   expanded, against lines 4 and 5 of the parser's head.

### Bounds, and why they are enough

`MaxChunks` bounds a child's output; two chunks suffice to reorder, skip or repeat
one, and the proofs do not use the bound. `StdinCap` is one input, so that every
second write blocks. `MaxInFlight` bounds frames in flight: a pump handles one at a
time and frames are independent. Two connections are needed for the races in
`bridge_output`, and no property relates three. `bridge_commands` has three tasks that
take the lock (two pumps and a request), under fairness; its safety properties are
proved for any number of connections and requests, and so the instance is
small for the sake of its liveness properties. `claim_broadcast` needs three chunks: one
client gets the first and the third. Two sockets let an
old one and a current one coexist, which is what the client's hazards need;
`MaxPosts` and `MaxStops` (2) let an answer arrive after another click. A terminal
buffer of one chunk still fills, blocks its writer, and refills between reads.
Time 2 with a TTL of 1 is the first expired moment (`requested_at + ttl < now`); two
tokens allow a second approval of one request. Session, pairing and device ids
are random in the code and never made twice in the models.

`session_text` takes limits of 2 to 4 (bytes, lines, entries) in place of thousands,
so that each is met and passed within a few steps, also by a single item. Four
reads, each one of nine, put split characters, tabs, newlines and overwriting on both sides of
the one resize; sizes of one and of no row and column are among the sizes. A second
resize would only follow a shrink, after which the code loses lines by itself.
`OverflowChecks = TRUE` is a debug build, in which `cols - 1` panics; a release build wraps.
In `environment` two files refer to each other, to themselves, and to variables of every other
source; a third file would repeat what the second does.

### Fairness

* Bridge (`ServerFairness`): tokio runs a runnable task again (WF). Its `RwLock` queues
  its waiters, so a step that waits for the lock is strongly fair. A send ends
  because the peer reads or the connection breaks, also the one under a read guard
  (`Refuse`): a client that keeps its connection and never reads would hold up
  the session's pumps and requests, which have nothing but its end left to find. The reader thread is an OS
  thread. The child and the clients owe nothing; `StopTakesEffect` assumes
  explicitly that the child goes on reading (`ChildKeepsReading`), because a writer
  in `write_all` keeps the lock otherwise; `doc/architecture.md:416` calls that
  blocking brief, which is so under this assumption only.
* Client: the browser fires timers and delivers events, fetches are answered or
  fail. `Reconnected` and `ExitIsLearned` assume that network and daemon stop breaking
  at some time (`NetworkStaysUp`). Delays are not timed.
* Service: a call that was made goes on. `PollReturns` assumes that children pause:
  `poll_once` reads for as long as there is output. Nothing is assumed of
  `write()`, and nothing says that anybody polls.
* Pairing: safety only. SessionText and Environment have one actor and no loop.

Deadlock is not checked: a session that ended, a page that is left alone and a
finite supply of ids all stop rightly.

## 4. Proofs

The modules `...Proofs` prove what follows for every value of the constants that the
named assumptions allow. The assumptions say that

* numbers are naturals, the terminal's buffer, stdin's and the output buffer hold at
  least one item (`PtyAssumption`, `BridgeAssumption`, `PosixAssumption`,
  `OutputBufferAssumption`: `session_manager.rs:81` makes buffers of 64 KiB), and a read
  returns at least one byte (`TextAssumption`: `poll_once` stops at an empty one);
* ids are told apart from the words the models use for their absence
  (`PairingAssumption`, `SessionsAssumption`, `PageAssumption`, `BridgeAssumption`);
* sizes, lines and configurations are of their types (`TextAssumption`,
  `TerminalAssumption`, `LogBufferAssumption`, `ConfigsAssumption`).

TLC evaluates each of them in the runs of its module.

**The handle** (`ConPtyProofs`). `PtyInv` strengthens type correctness with the life of
handle and child (a handle that is not started has no child, a child that is dead has an
exit code, and so has a handle that has exited) and with `EofAtEnd` (an Eof without a read
error means that the child is dead and everything was sent). It is inductive, and gives
`ExitHasCause`, `EofComesLast` and `ExitIsFinal`, for any order of calls; the runs check the first
two of them on the calls the bridge makes, which asks `try_wait` only after a read that closed the
output and so never learns anything from it. `ExitIsFinal` and `PtyTypeOK` are only proved.

**The bridge** (`SessionBridgeProofs`). `TypeCorrect` first. `Agreement` (`SessMirrorsPty`,
`LockIsExclusive`, `ChunksInOrder`) is inductive given the types and `RegisteredFirst` (who
has looked the session up found it registered, and only then can it exit): a step that changes
session or handle runs when nobody keeps the lock, so a blocked writer excludes all of them
and every reader, and a reader has seen an exit, which is final. It
gives `MirrorCorrect`, `LockCorrect` and, as an action property, `ExitIsFrozen`.
`AtMostOnce` alone is not inductive: a pump could take a chunk that somebody already has.
`Delivery` adds `ChunksPlaced`: every chunk held or received lies in `1 .. pty.taken`, a
connection holds later chunks than it received, and only a pump that is sending holds any.
A take hands out chunks above `pty.taken`, so it keeps both; `Unconnected` says that a
connection that has not come yet has no socket and no pumps. It gives
`DeliveredAtMostOnce`, `LossIsExplained`, and `DeliveredInOrder`. `BridgeImplementsStream`
maps each step of the bridge to a step or a stutter of `OutputStream`, from these
invariants. `ChunksInOrder`, the handle's half of the order of output, is proved with
them; no run checks it by itself.

**The browser client** (`WebTerminalProofs`). `PageInv` is `TypeOK`, `OfflineIsClean`,
`NeverStranded` and `ConnectedCloses` together. `NeverStranded` rests on `OfflineIsClean`: a timer
that fires and a socket that closes do nothing for a page whose user left, so such a page must
not show a session. `OfflineIsClean` rests on `ConnectedCloses`, which says of every page what it
says of one that is offline: `S.connected` is some socket's doing, and that socket has
yet to close.

**Pairing** (`PairingProofs`). None of the properties is inductive, because the file is
about to become what the store call in progress has in hand (`save.new`), and a call relies
on what it saw or wrote before. `PairingInv` therefore speaks of all records and
requests on disk or on their way there. `CallShape` says what a call knows at each stage;
`TokensOwned` and `TokensValid` who owns a token and that one that was handed out is in the
file, or in what replaces it, unless a misread or failed save wiped it;
`RequestsKnown` and `RequestsSettledOnce` that a request that is granted or denied is neither
stored nor in the hands of a call any more; `ExpiryIsFinal` that no call can approve what a
device was told had expired. It gives `TokenHasOwner`, `GrantedStaysValid`,
`OneTokenPerRequest` and `GrantedOrDenied`, and `StatusSettles` as an action property: for
any clock, under every crash and failing read or write.

**The session service** (`SessionServiceProofs`). The properties are about sessions that no
call works on. `SessionsAgree` adds what they leave out: a handle has both its ends or
none, a handle with a child belongs to a live session, and a session that is over has
neither handle nor process. `CallKnows` says what a call has found at its stage; the end of
the output stays the end, and a drop works on sessions that were removed. They give
`RuntimeMirrorsPty`, `OverMeansReaped`, `EofLosesNothing` and the action property `OverIsFinal`.

**Output, logs and observations** (`SessionTextProofs`). Bytes are summed and characters fed
to the terminal by folds, which SessionText takes from the community modules.
`FoldTheorems` proves from their definitions what a fold does with no, one and one more element,
for any operator; it is instantiated with each operator that is folded. Induction is
done on sets of naturals, by their least element. On it rest:

* `StoresInv` (`LogKept`, `ObservationsKept`): the entries kept are the last of those that came,
  under their own numbers; an eviction returns the smallest suffix cut that fits both
  limits. `OffsetsKept` adds where they start: within the limit, and each where the
  one before it ends as long as none is gone. A search keeps the entries at chosen places
  (`Places`, `Filtered`), and places without a gap are a part of the log. Together they
  give `LogsAreRecent` and `LogQueriesExact`.
* `OutputInv`: `BufferKept` (the chunks are the last of the reads, and the first that is gone would
  not have fit), `RecordKept` (the record is the buffer's tail), `ScreenKept` (the terminal keeps its
  shape through every character and resize), `ViewsKept`, and `AsciiKept`: on ASCII, and under
  sizes with rows and columns, every string stays ASCII and every cut is clean, so nothing
  panics. It gives `TextTypeOK` and `PanicHasCause`.
* `RecentOutput`: `QueriesAre` shows what every tail and slice of such a buffer is. That the
  record is the end of the child's whole output needs `CutsKept` (what was accepted could
  be cut), `LossyConcat` (decoding reads one by one is decoding them together, unless
  one was split inside a character) and that only the first chunk kept may have been cut.
* `PaperInv`: on ASCII, under sizes with rows and columns that never get smaller, the terminal
  `Shows` the paper. Line by line, scrollback and screen equal the paper but for blanks at
  the end (`Shown`), lines are missing only above a full scrollback, nothing was written
  below the screen, and no text is right of it (`Narrow`: a resize cuts lines to the
  width, and so cuts only blanks). Terminal and paper are two machines fed
  the same characters: each character keeps the relation (`FeedShows`), by the cases of line feed,
  return, escape, tab and a printed character; a text keeps it by induction over both folds
  (`TextShows`); a resize that does not shrink keeps it (`ResizedShows`). It gives
  `ScreenIsPaper`, the viewports included. A terminal without rows has no line for
  its cursor, so the property says nothing of one.

**The environment** (`EnvironmentProofs`). `CleanInv` says of a clean resolution in progress that
every value is a sequence of good pieces: text, or the daemon's HOME, USER or TMPDIR.
Layers, files and overrides only put pieces together, whatever refers to what. It needs that
the import of the service manager's environment is no stage of a clean one. It gives
`CleanIsClosed`, for any names, files and number of files, on POSIX.
`ResolvedInv` says that after each layer the entries resolve the assignments of all layers up to
that one: each name is there once, with the source of its last assignment, and with the value this
assignment had when it was expanded with what came before. `UpsertResolves` is one
assignment more; a layer, a file and the import are folds of it. `MeaningIs` shows that the parser
gives a line its documented value unless a comment follows a quote. It gives
`LastLayerWins`, for any layers and references between them.

TLC has checked these invariants on the instances of the runs as well.

Every safety invariant and every action property that a run expects to hold is stated by
one of these theorems. Only model-checked is liveness, which needs fairness and ENABLED:
`ExitStopsOutputPumps`, `EofIsNoticed`, `StopTakesEffect`, `Reconnected`, `ExitIsLearned`,
`StopReturns`, `PollReturns`.

## 5. What is not modelled

* `remove_session` of the registry: nothing calls it. (It would wait for a session's
  lock under the map's write lock.) Routes that return fixed values, such as
  `GET /sessions`, which calls every session running, or `NOT_IMPLEMENTED`; the
  controller and overview sockets, which keep no state.
* `net/auth.rs` (attached to no route), `net/server.rs`, `main.rs`, the CLI, the service
  worker, the older page `web-terminal.html`, `types.rs`, `json.rs`: I/O, declarations or
  duplicates.
* The content of output and input in SessionBridge: what the bridge does with a chunk
  does not depend on it. SessionText is about the content, for the service layer, which has the
  only code that looks at it.
* Escape sequences: `terminal.rs` does not parse them and neither does Terminal.
  `alt_screen` and `horizontal_offset` are never set by anything.
* In the environment: characters outside ASCII in front of a comment, where the parser
  takes the index of a character for a byte offset; the escape of a double quote; the
  directories of PATH, which only decide where the program is looked for.
* The other pump's end, when one pump of a connection ends: `select!` detaches it
  (`websocket.rs:266`), while `doc/architecture.md:139` says that both break. After a
  disconnect an output pump may go on and take output from connected clients, which
  `OutputIsBroadcast` meets. The reader channel has no bound (`conpty.rs:137`): without
  a client the output of a busy child piles up in it.
* What the resolver's comments promise of the process. In shell mode, the default, no
  resolved variable reaches it (`posix_pty.rs:112`), and `ConPtyProcess::start` ignores the mode
  (`conpty.rs:99-111`): overrides, which `env.rs:48` calls the highest precedence, are lost, and a
  clean session on Windows gets all of the daemon's environment, against `env.rs:9`. `Launch`
  models this, and no property denies it; the daemon has no caller of the resolver.
* A start that fails after the child was spawned (`conpty.rs:126`): that child belongs to
  no handle, and nothing the daemon keeps changes.
* Nobody but tests calls the resolver, `LogBuffer`, `ObservationStore` and
  `SessionManager` yet. Their callers in the models are any that keep to the types.
* A second writer on a store file: the daemon makes one service behind one lock. Two
  processes on one directory would lose each other's updates.
* The stored record of a session of the manager after its creation: the code writes it
  once and ignores whether that worked.
* Crashes of the daemon in SessionBridge and SessionService: sessions live in memory
  only and nothing of them is read back; the browser's side of a restart is in
  WebTerminal.
* Hazards of modelled code that no property covers are in `PROJECT.json`, each with
  the reason.

## 6. Plan

Done: all components listed as modelled, and the proofs of section 4.

Left:

1. Liveness at any size. The runs check it on small instances; a proof needs ENABLED of
   the fair actions, which the installed provers do not handle.
2. What `PROJECT.json` notes as left out of components listed as partly modelled: the host
   configuration's and the session store's files, time stamps and metadata of records, routes
   that keep no state. They become worth a model when the daemon uses `SessionManager`.
