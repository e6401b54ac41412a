# Verification of the static site builder and minifier

The program is a Go command with two modes. `builder build` (`internal/builder`)
walks a source tree and writes a minified copy of it with a pool of worker
goroutines. `builder run` (`internal/server`, `internal/watcher`,
`internal/websocket`) serves the tree over HTTP, polls it for changes and pushes
a reload message over WebSockets to the pages it served. `internal/minify` holds
the minifiers for HTML, CSS and JavaScript. This directory models those parts in
TLA+, checks them with TLC on small instances, and proves the main results about
the build, the watcher, the live reload from end to end, the connections, the
files and the minifiers of HTML and CSS with TLAPS for every instance.

## Inventory

**builder** (`builder.go`). State: two `os.Root`s, the task list, an unbuffered
channel `queue`, `firstErr` under `mu`, `Stats` under its own mutex, the output
tree. Operations: `Build` (make and open the roots, walk, run, deferred closes),
`runTasks` (start the workers, dispatch, close, wait), `processMinifiableFile`,
`copyFile`. Goroutines: the caller and `min(GOMAXPROCS, files)` workers. Hard:
a worker that fails leaves the pool while the dispatch loop goes on; who writes
which output; what is returned when one of several steps fails; what may still
run when the roots are closed. Correct means: `nil` only with every file
written, an error only for a failure, one writer per output, exact statistics
(of which the model has the count of processed files), and a return at all.

**watcher** (`watcher.go`). State: `root`, the two snapshots of `Run`, the
one-place channel `events`. Operations: `Run` (snapshot, tick, compare, report
without blocking), `Close`. Hard: a snapshot is not atomic, an event may find the
channel full, and `Close` does not wait for `Run`. Correct means: no difference
between two snapshots is forgotten unreported, a quiet tree ends in a true view
and no events, the channel is closed in the end.

**server, live reload** (`server.go`). State: the map `conns` under `mu`, one
consumer goroutine of the events, one handler per connection. Operations:
`handleWebSocket`, `broadcast`, `Serve` with its deferred shutdown. Hard: the
map is changed while it is ranged over, a write may block with the lock held,
events are coalesced, clients come and go. Correct means: no registered client
misses a reported change, the map is not raced, no connection leaks, everyone
makes progress.

**server, files** (`handleFile`). No state of its own; the tree changes between
`Stat` and the answer, and the handler's idea of an index page has to agree with
`net/http`'s. Correct means: redirects end, the right file is answered, every
HTML page carries the script (of the extension `.html`, all do).

**websocket** (`websocket.go`). `Upgrade` is a sequence of checks, a hijack and a
write, each of which may fail; `Conn` is shared by goroutines that call
`WriteMessage` and `Close` under `Conn.mu`, over a `bufio.Writer` with a sticky
error. Correct means: one answer, no connection left open by a failure, whole
frames never mixed, lengths announced right.

**minify**. Pure functions, which `Bytes` chooses by media type. `CSS` and `HTML`
are one-pass scanners with little state. `JS` makes tokens of a script
(`tokenizeJS`), analyses its scopes and gives local variables short names
(`mangleJS`), and writes the tokens with the spaces and line breaks that are
still needed (`emitJS`). The three share what the analysis records: `emitJS`
takes a brace or parenthesis for the end of an expression if the analysis did,
and everything depends on its guess whether a brace opens a block or an object.
Hard: two passes that have to agree about a language neither parses, and rules
that look one token back. Correct means: the output says what the input says,
statement by statement and binding by binding, and minifying it again changes
nothing (`fuzz_test.go`).

**logger, command line, makefile, action**: no state; not modelled.

The parts meet at four places: the builder calls the minifiers on whole files;
the server consumes the watcher's channel; the server registers and writes to
the connections of `websocket`; and the script the server injects into pages
opens those connections. The hazards of each, by line, are in `PROJECT.json`.

## Modules

| module | models | composed of |
|---|---|---|
| `BuildContract` | what `Build` promises its caller: deliver, fail, return | |
| `Build` | one call of `Build`, main goroutine and workers, step by step | refines `BuildContract` |
| `MCBuild` | sizes for TLC's instances of `Build` | `Build` |
| `BuildProofs` | theorems about `Build` | `Build` |
| `Watcher` | `Run`, its ticker, channel and end, in a tree others change | |
| `WatcherProofs` | theorems about `Watcher` | `Watcher` |
| `ReloadHub` | handlers, map, lock, broadcast, sockets with room for few messages | |
| `ReloadHubProofs` | theorems about `ReloadHub` | `ReloadHub` |
| `LiveReload` | one `Serve` with its watcher, hub, shutdown, and the browsers | refines `Watcher` and `ReloadHub` |
| `LiveReloadProofs` | theorems about live reload as a whole | `LiveReload`, `WatcherProofs`, `ReloadHubProofs` |
| `FrameChannel` | what a connection promises: whole frames, true results | |
| `WebSocketConn` | `WriteMessage`, `Close`, `writeFrame`, buffer, breaking network | refines `FrameChannel` |
| `Handshake` | `Upgrade`, every check and failure | |
| `Connection` | a connection from its request to its end | `Handshake`, `WebSocketConn` |
| `FileHandler` | `handleFile`, `net/http`'s helpers, redirects, changes in between | |
| `Server`, `MCServer` | `Handler`: a request goes to one of the two handlers | `Connection`, `FileHandler` |
| `ServerProofs` | theorems about the connections of `Server` | `Server` |
| `ChannelProofs` | that `WebSocketConn` implements `FrameChannel` | `ServerProofs` |
| `FileProofs` | theorems about the files, and the types of all of `Server` | `ChannelProofs` |
| `CSSMinifier` | `CSS`, over items | |
| `HTMLMinifier` | `HTML`, over items; `JS` and `CSS` are its parameter | |
| `JSScan` | `tokenizeJS` character by character: where literals and comments end | |
| `Minify`, `MCMinify` | `Bytes`: the pass of a media type, of `JS` the scan | `CSSMinifier`, `HTMLMinifier`, `JSScan` |
| `MinifyProofs` | theorems about `Minify` and the passes of HTML and CSS | `Minify` |
| `JSTokens` | the lexemes and tokens of a script, `tokenizeJS` | |
| `NameGen` | `jsNameGen` and `jsNameFor`, as operators | |
| `JSMangle` | `mangleJS`: analysis, choice of names, shortened literals | `JSTokens`, `NameGen` |
| `JSEmit` | `emitJS`, and `JS` as a whole | `JSMangle` |
| `JSReader` | what a script means to JavaScript: the reference | `JSTokens` |
| `JS`, `MCJS` | scripts written lexeme by lexeme, minified twice and read | `JSEmit`, `JSReader` |

How state and actions correspond to the code:

* **Build.** `pc` and `wpc` are program counters, one label per shared access:
  `CheckStop` reads `firstErr` under `mu` and `Send` is the send that follows
  it, so that a failure can come between the two. `Send` and a worker's receive
  are one step, the channel being unbuffered. The statistics' critical section
  is split (`LockStats` loads, `UpdateStats` stores), so that a missing mutex
  would show. `out` is what the destination holds of each file: nothing, a part,
  the whole, or a copy damaged by a failed close. The tree is a sequence of
  entries, with sets for what is a directory, dot-named, minifiable or faulty.
* **Watcher.** One step per listing and per file looked at, writes and removals
  between any two. A file's size and time are one stamp; each write gives a new
  one. `SelectTick` and `SelectDone` are the two arms of the `select`.
* **ReloadHub.** `LockConns`, `PickConn`, the write and `UnlockConns` are the
  steps of `broadcast`. A socket has room for `SockCap` messages: a write blocks
  when it is full and fails once the connection is gone, which its client or the
  network may bring about at any moment (`PeerCloses`, `LinkBreaks`). `owed` is a
  ghost: the connections registered at a report and not served since.
* **LiveReload.** The two share `events`. Files are added, rewritten and removed. A
  page shows the tree as it was when it was loaded. `untold` is a ghost: a change
  was made when the page could not be told (not registered, or no first snapshot
  yet), or a file came and went between two looks of the watcher
  (`CameAndWent`). `Script` is what a browser does by itself; a tick during a
  snapshot is taken after it, where it makes the same difference. A connection
  ends here only with its page: the script never connects again, so that nobody
  can tell a page whose connection broke. `LinkBreaks` is in `ReloadHub` alone. The ghost `owed` of
  `ReloadHub` plays no part here, and `HubKept` leaves it out: the watcher's report
  is `PutEvent`, `Report` without the ghost.
* **WebSocketConn.** A frame is two pieces, header and payload, which the buffer
  holds or spills; a broken write delivers a part. Header bytes are computed, all
  eight of the long form (`BE32`, `BE64`).
* **CSSMinifier, HTMLMinifier.** The pass is a fold of `Step` over items, an item
  being a byte or a group of bytes the code treats alike. A whole string is one
  item of a stylesheet, with its escapes and also where its end is missing; a
  comment without an end drops the rest, which then is a shorter stylesheet. How
  `attrValue` finds a type attribute is one item of a tag. The input grows by one
  item at a time, so each state is one input with its output.
  HTML's look-ahead becomes contents held back; the reference it is compared
  with reads the whole document with look-ahead, as a browser would. `Minify`
  runs either pass on the file of a state, or none, as the media type says.
* **JSScan.** `Lexeme` is one turn of the loop that `tokenizeJS` and
  `scanJSTemplateExpr` both have; `LiteralEnd` and `ExprEnd` are the loops of the
  two scans that call each other, tied together by the recursive function of
  `TemplateEnd`, in which depth 0 is the literal's text. The reference is an automaton with a stack of open
  substitutions, which reads each character once and never looks ahead; the two
  have to give every character the same place: code, comment, or which literal.
  One rule they share: a closing brace, bracket or parenthesis ends an operand,
  also where it ends a block or the head of an `if`, after which a slash would
  begin a regular expression (`if(x)/'/`). The lexical grammar does not say which.
* **JS.** A script is a sequence of pieces, a lexeme of JavaScript with the gap
  before it; `tokenizeJS` makes of them the tokens the code makes, which are not
  the language's (`!=` is two tokens, and divisions after a banner are a regular
  expression up to the next slash of the line). In the scripts no comment, bracket
  or literal follows such a division's slash on its line. The analysis is one record, the fields of
  `jsAnalysis`, folded over the tokens by an operator per handler; `assign`,
  `jsNameFor` and the generator give the names; `emitJS` is a second fold. The
  output is pieces again, so that it can be read and minified once more.
  `JSReader` is written from the language and not from the minifier: a predictive
  grammar with automatic semicolon insertion and the scopes of `var`, functions
  and `catch`. It gives a script's readings: each word, the end of each statement,
  each declaration, and for each use the declaration it finds. `JS` adds
  lexemes as long as the reader accepts the script, so every state is a prefix
  of a valid script, and `Minify` closes what is open.

## Runs

| run | shows | bounds, and why they are enough |
|---|---|---|
| `build` | `nil` means complete, roots stay open, one writer, exact count, contract kept, returns unless all workers failed | 3 workers, 6 entries (a directory, a dot file, 3 minified, 1 copied), 4 of them faulty, every root call may fail: more workers than survive and more files than workers |
| `build_hang` | **violated:** `Termination` | 2 workers, the first two of three files fail |
| `watcher` | nothing is absorbed unreported, a quiet tree means a quiet feed and a true view, the feed closes | 2 files, 2 writes and removals at any point of a snapshot: a snapshot that mixes two moments |
| `reload_hub` | no lost reload, no leak, no race on the map, progress of reloads and registrations | 2 connections, sockets of 2 messages: one broadcast in the channel and one under way |
| `reload_hub_stalled` | **violated:** `ReadingClientIsPaid` | one client reads, one does not; the property speaks of clients that stay connected |
| `live_reload` | a stale page has a message coming or a watcher that is behind, and ends up fresh; both goroutines end after the listener fails; watcher and hub get the surroundings they ask for | 1 file that may be missing, 1 write and any removals, 1 browser that connects twice: a change during each stage of a reload |
| `server` | of a connection: frames unmixed, lengths true, channel kept, handshake whole, one answer, no leak; of a file: the right one, with its script, redirects end, each leaving fewer to come | 5 messages with 0, 125, 126, 65535 and 65536 bytes, one `Close`, a buffer of 1 piece, 3 pieces of response, all 32 sets of conditions; every tree over 7 nodes, every URL, one change at any moment |
| `server_html` | **violated:** `HTMLPagesHaveScript` | as `server` |
| `minify` | by media type: structure or reading kept, idempotent, unknown files untouched; in scripts, each literal and comment ends where JavaScript ends it, an error exactly where one is not closed | every stylesheet of up to 6 of 10 items; documents of 7 beginnings (text after a space, comment, quote after `= `, two of raw elements, script, JSON) or none, and up to 4 of 15 items; a minifier of scripts that drops spaces, adds line breaks, fails, and finds more to do the second time; scripts of 3 beginnings (code, a substitution, one in another) and up to 4 of 14 characters, with 6 endings that close what may be open |
| `js` | statements kept, bindings kept, idempotent | twelve grammars, each the scripts of a hazard: var lists and their ends, shadowing, objects and methods, labels, cases and catch clauses, shortened literals, the top level, operators that run together, blocks, loops, slashes, license banners, divisions after one; 3 to 9 lexemes more than the prefix, enough for three scopes in each other and for every second decision to depend on a first |
| `js_lines` | **violated:** `StatementsKept` | a declaration and up to 4 more lexemes |
| `js_names` | **violated:** `BindingsKept` | a call and a function, and up to 7 more lexemes |

Deadlock is not checked where the system may rightly stop (a server that has
shut down, a call that has returned) or where it does stop, as `Build` can.

**Fairness.** Weak fairness of the goroutines is Go's scheduler, which runs each
runnable goroutine again and again, together with file operations that return.
`SF` of `SelectDone` is `select`'s random choice among ready arms. `SF` of
`Register` is the starvation mode of `sync.Mutex`. The ticker ticks. `PeerResets`
and `Drain` are assumptions on the network and on clients that read; a client
outside `Draining` is not assumed to, and `reload_hub_stalled` shows what then
happens. Browsers follow their script; their users may do as they like.

## What the violated runs show

1. `build_hang`. `runTasks` reads `firstErr`, then sends. Workers that fail leave
   their loop; if the last one fails in between, or all have before a send that
   was already chosen, nobody receives and `Build` never returns the error it
   recorded. `ReturnsWhileOneSurvives` shows that this is the only way to hang.
2. `reload_hub_stalled`. `broadcast` writes without a deadline and with the lock
   held: one client that stops reading stops every reload and registration. In the
   trace the other client reads, keeps its connection and is owed a reload for ever.
3. `server_html`. `old.htm`, which `net/http` sends as HTML, has no reload script,
   because `handleFile` asks for the extension `.html` (`server.go:92`). So it is
   with the listing of a directory without an index page (`server.go:88`), which
   has no file and is not part of the property.
4. `js_lines`. `jsNewlineAction` drops the line break between an expression's end
   and a parenthesis, because the language would read on. After the name of a
   declaration it would not: `var name\n(other)` is two statements and becomes
   `var name(other)`, which is no JavaScript.
5. `js_names`. `jsFuncIsDecl` decides from the token before `function` and does
   not see the line break between: `name()\nfunction other(){}` declares a public
   function, which the analysis takes for a local name and renames to `a`.

Other places where the code does less than its documents say, met while
modelling and not given a run of their own:

* The walk tests each entry's own name and does not skip directories
  (`builder.go:90`): a file below `.git/` is built; README.md:128-129 says it is
  not.
* A failed close of a copy is only logged (`builder.go:248`); `Build` returns nil.
  `Build` models this as the output `"lost"`, which counts as delivered.
* `Serve` closes the watched root under `Run` (`server.go:162-170`): a snapshot
  then sees no files and reports a change nobody made.
* A change broadcast between a page's load and its registration never reaches
  it, and one before the first snapshot reaches nobody: what `untold` excuses.
* When `Hijack` fails, `Upgrade` writes no response, though its comment
  (`websocket.go:41-42`) says it does.
* A comment of a stylesheet becomes a space before a colon (`css.go:69-71`,
  `css.go:47-50`), so that `a/**/:hover` turns into the descendant selector
  `a :hover`, though `css.go:8-9` says that these are never altered. `StructureKept`
  counts a comment as the space the code takes it for.
* `CSS` looks at single bytes around a space, which may be escaped:
  `.c\+ :hover` becomes `.c\+:hover`. Escapes are not among the model's items.
* `HTML` drops the space before a quote in a tag: `<pre ''>` becomes `<pre''>`,
  which the next pass does not take for `pre`. `Idempotent` and `StructureKept`
  of `HTMLMinifier` exclude quotes after whitespace that do not stand behind an
  `=` (`NoStrayQuote`), which no valid document has; `class= 'x'` is included.
* The passing scripts of `js` leave out what the model shows to fail elsewhere:
  - an object after a conditional's colon is taken for a block, so that
    `name=c?1:{k:1}\nname` is joined (`jsmangle.go:288`); objects taken for blocks
    also get their shorthands and accessors renamed, and `true` as a key
    shortened;
  - a line break before `!=` or a template becomes a semicolon
    (`name\n!=name`, `js.go:249`); one after `name.default` becomes a space;
  - `/r/ in name` becomes `/r/in name` and `5 .x` becomes `5.x` (`js.go:318`);
  - `return/*!*/name`: the banner that is kept brings a line break, which ends
    the statement;
  - after `var name\n++name,other` the list is thought to go on, and `other` is
    declared (`jsmangle.go:383`); the `var` in a `catch` block of the top level
    is taken for a local one and renamed;
  - a second pass may shorten further where locals of one letter used up
    generated names (`jsmangle.go:734`), or inside a function like that of
    `js_names`.
* After a banner a slash begins a regular expression even if an operand stands
  before the banner (`js.go:339`, `js.go:143-154`), which `js.go:148-150` says
  cannot happen in valid JavaScript. With a second slash on the line the two and
  what is between them is taken for one: names in it are not renamed with the
  others, a line break after it becomes a semicolon (`name/*!*// name /\nname`),
  and `name/*!*// // \nname`, whose second slash begins a comment, is written with
  its last line inside a comment. `Divisions` of `js` has the shapes that survive,
  at the top level and with each slash next to its operand. `a/*!*//b+'/'` is
  refused as unterminated.
* In `JSScan`'s terms: after the brace that ends a block it does not
  (`js.go:352`); and a slash in a substitution that is no regular expression
  leaves the scan clean, though `js.go:64-65` says that every fallback makes it
  unclean.
* The contents of a script element are written as `JS` returns them, and nothing
  looks for a closing tag that was not there before. `jsNeedsSep` (`js.go:318`)
  keeps no space between `<` and a regular expression, so that
  `<script>x < /script>/.test(y)</script>` loses it, and the element then ends at
  `</script>` (`html.go:160-166`), for a browser as for a second pass. The theorem
  `MinifiedOnce` excepts the documents with such a script; JavaScript in `Minify`
  is a parameter, and no script of `js` has this pair.
* `minify.go:5-6` says that line breaks of JavaScript are preserved; `emitJS`
  drops those it thinks are not needed.

## Proofs

Every theorem holds for all values of the constants. The assumptions on them
(`BuildAssumption`, `WatcherAssumption`, `HubAssumption`, `LiveAssumption`,
`ConnAssumption`, `ConnectionAssumption`) only give their types, keep the special
values apart from the others, and make room for at least one piece, message or
worker. `LengthAssumption` says that a length has at most 63 bits, as Go's `int`
has: a longer message would not fit the eight bytes of a header. In `Minify`,
`CSSAssumption` lists the items of stylesheets, `HTMLAssumption` and `ScanAssumption`
say that documents and scripts begin with items and characters of theirs.

| module | theorem | says |
|---|---|---|
| `BuildProofs` | `Invariance` | `Spec => []IInv` |
| | `TypeCorrect` | type correctness |
| | `Completeness` | `nil` means every selected file was written |
| | `RootsOpen` | no root is closed under a worker |
| | `OneWriter` | each output has one writer |
| | `StatsExact` | `ProcessedFiles` is exact |
| | `Refinement` | `Build` implements `BuildContract` |
| `WatcherProofs` | `ComparisonIsEquality` | `snapshotsEqual` is equality |
| | `TypeCorrect` | type correctness |
| | `ChangesReported` | a difference between snapshots is reported in the step that forgets it |
| `ReloadHubProofs` | `Invariance` | `Spec => []HubInv` |
| | `TypeCorrect` | type correctness |
| | `ReloadsNotLost` | who is owed a reload has one coming |
| | `NoLeaks` | an open connection is registered, or about to be |
| | `NoMapRace` | the map is not changed by others while it is ranged over |
| `ServerProofs` | `ConnectionInvariance` | `ServerSpec => [](CallInv /\ HandInv)` |
| | `FramesStayUnmixed` | frames of concurrent calls never mix |
| | `HandedOutReady` | what `Upgrade` hands out is open, owned and past its response |
| | `AnsweredOnce` | no status on a connection with a piece of the 101 response |
| `ChannelProofs` | `ChannelInvariance` | `ServerSpec => []ChannelInv` |
| | `ConnImplementsChannel` | `Conn` implements `FrameChannel` |
| | `HeadersTellLengths` | each header tells its payload's length, in the shortest form |
| `FileProofs` | `FileInvariance` | `ServerSpec => []FileInv` |
| | `QuietAnswersRight` | in a tree left alone, the answer is what the URL means, and an `.html` page has its script |
| | `AnswersComeNearer` | each redirect leaves fewer redirects to come |
| | `ServerTypeCorrect` | type correctness of connection, handshake and files |
| `MinifyProofs` | `Typed` | type correctness; without scripts, the output is never longer than the input |
| | `MinifiedOnce` | minifying the output of `HTML` or `CSS` again changes nothing, where it changes nothing in the scripts |
| `LiveReloadProofs` | `WatcherIsKept` | `Serve` and the hub are an owner as `Watcher` wants one |
| | `HubIsKept` | watcher and browsers are surroundings as `ReloadHub` wants them |
| | `WatcherSafe`, `HubSafe` | so the theorems about either hold of the whole |
| | `StalePagesTold` | an open page that shows an old tree will be told |

**Build.** The properties are not inductive by themselves. That `nil` means
complete needs to know where each task is: `TaskList` (the list is the selected
entries visited, each once), `Holdings` (who holds what, how far its output is),
`Dispatch` (each task handed out is delivered, held, or given up after a recorded
failure), `Phases` (what each phase of the main goroutine has settled; past the
loop either a failure is recorded or all were handed out) and `Mutex` (who is in
the critical section and what it has loaded). `IInv` is their conjunction with
`TypeOK`. The proof has one lemma per action or family of actions; `Completeness`
and the refinement then follow from the invariant at the step that returns.
`StatsExact` adds that an update moves exactly one file into `Counted`.

**Watcher.** `snapshotsEqual` walks one map only and compares the sizes, which
suffices because a map that contains the other's keys and has as many has no
more. With that lemma the step that replaces `last` by a different snapshot is
the one that has put an event into the channel, or has found one there.

**Live reload.** `NoLostReload` is kept by a broadcast only if its range loop
misses nobody: `Ranging` says that what it has yet to visit is registered and
that nothing is left when it ends, `Locking` that it has the lock throughout, so
that nobody registers unseen. `Registered` ties the map to the handlers, without
which a connection could be registered again after it was closed. `HubInv` is
their conjunction with the two properties and `TypeOK`.

**Connections.** The wire by itself does not tell where frames end: what counts
is the wire followed by the buffer. While nothing has failed that is a stream
(`InFrames`), in which a last header waits for its payload exactly while the
holder of `Conn.mu` is about to write it (`Streaming`, `Calling`). A write of the
buffer moves the boundary within the stream; one that breaks cuts it, perhaps
inside a piece, and `CutIsUnmixed` shows that every such cut is unmixed. After
that `bufErr` keeps the wire as it is, which is why the error has to be sticky.
`HandInv` follows `Upgrade`: whose the connection is at each step, that no status
is set before it returns, and that buffer and wire together are the whole
response when it is flushed.

**The channel.** `KeepsChannel` says what calls return and what the wire then
holds, in terms of whole messages: `WholeMessages` are the messages whose header
and payload are both on the wire, in the order of the headers (`InOrder`, by the
rank of a call's header among those of the others). `FramesUnmixed` does not give
this: that a result of `nil` is true needs to know that nothing of the call is
left in the buffer, and that a failed one has not delivered its frame needs to
know that the failure came before its last piece left. `ChannelInv` says it of
every call: one that has not written yet has no piece on the wire or in the
buffer (`Untouched`), the one at work has its header in one of them before its
payload, and each result agrees with the wire. A write to the network moves a
prefix of the buffer, so it completes messages one after the other, in the order
of their headers, and only the last of them can be the caller's; everything else
is a stutter. `HeadersTellLengths` is about numbers: the bytes of `BE16` and
`BE64`, taken off by division, add up to the length again, and the form chosen is
the shortest that holds it. A length below 126 is never sent in the form of two
bytes because `Header` compares in the same order as a reader tells them apart.

**Files.** That a client gets what its URL means is about several requests: each
redirect must keep the meaning, and what `Stat` saw must be true still when
`net/http` looks again. `FileInv` therefore ties the three together: the URL of
the request means what the first one meant, in the tree as it is if that is
calm (`Means`), what is remembered from `Stat` is that of the file chosen
(`Chosen`), and a status fits them. `NearerAnswer` is the variant behind
`RedirectsEnd`: the rewriting of `/index.html` and the addition or removal of a
final slash can each only be asked for once on the way to an answer, and no
sequence of them undoes another's.

**Live reload from end to end.** `Watcher` and `ReloadHub` were checked and proved with
surroundings that do what they like within the actions given to them.
`WatcherIsKept` and `HubIsKept` show that each other, `Serve` and the browsers are
such surroundings: every step of live reload is one of theirs, or leaves their
variables alone. For the hub that needs two facts about the watcher: a poll that
changes its view has put an event on the channel, which is `ChangesReported` and
makes the step a `Report`; and it writes to the channel only before it closed it
(`ClosedByRun`). The theorems about the parts then hold of the whole; for
`NoLostReload`, which speaks of the ghost, `OwingSpec` adds `owed` as a history
variable.
`StalePageIsTold` is about all of it. `Told` makes it inductive: a page that is
loading or not registered is up to date or excused in each file, so that a stale page that
is not excused is registered and its client's end open, which is why the range
loop will visit it and the write will not fail. `Stamped` says that no snapshot
holds a stamp that a file is given later: without it a write could make a file
equal to what the watcher has already seen, and go unreported. A removal can do
that, of a file that came after the watcher looked: that is `CameAndWent`.

**Minified once.** `Idempotent` speaks of whole files, and its proof of single steps.
`CAgain` says of what `CSS` has written so far that the pass over it, begun anew,
stands where the first pass stands (at the same depth, with nothing pending) and
has written the same. `StepAgain` shows that each item keeps that, also the brace
that takes a semicolon back. `HAgain` says it of `HTML`, where the two passes need
not be in equal states: a space is pending in one and not yet in the other, the
output's leading space is trimmed, and the tag as written lacks spaces that the tag
as read has. `HAgainAt` therefore says for each place what has to agree: in a tag
(`SameTag`) its first item, whether its name ends there, whether it closes itself
and whether its type is a script's; in raw contents that the element is the same and
that what is held back closes nothing yet (`StaysOpen`). `HDone` carries what the
end of the document needs. One lemma per place keeps `HAgain`; `AgainFinish` adds
what `Finish` writes. The same steps give `Typed`, with a weight for what a pass has
written, holds and has pending, and for scripts that each character read is given at
most one place, or is the slash that waits for the next.

The passes are recursive functions of the input, of which the prover knows only that
they are chosen among those with these steps; what they compute has to be proved by induction over the length of the input. The library's induction
theorems take an operator and cannot be used; `Induction` states it for a set of
numbers, and follows from the least element of its complement. `RunExists` and
`RunsAgree` say with it that a function given by its steps exists and is unique.
`IInv` is that each pass stands where it is after the items read so far.

What minifies the contents of an element, `JS` or `CSS`, is the parameter `Minify`. All
that the theorems assume of it is that it returns contents (`IsMinifier`). It may
lengthen them, as `emitJS` does when it gives a banner lines of its own, so the bound
of `Typed` is about documents without scripts. It need not be idempotent, as `JS` is not
on the scripts listed above, and may write a closing tag: `Idempotent` is about the
documents in whose own scripts it does neither (`ScriptsWell`), whatever it does
elsewhere. Nothing less would do, as the pass hands on what it is given. The parameter
that TLC runs with has these faults on scripts of the run. That `CSS` is a
fixed point is the same theorem. A quote right after whitespace in a tag and not behind
an `=`, which the pass joins to what is before, is excluded by `Idempotent` itself.

Only model-checked:

* liveness, which rests on fairness and ENABLED and is outside the prover:
  `ReturnsWhileOneSurvives`, `QuietTreeQuietFeed`, `CatchesUp`, `FeedCloses`,
  `OwedIsPaid`, `UpgradedIsRegistered`, `OpenPageIsFresh`, `GoroutinesEnd`,
  `FailureCloses`, `RedirectsEnd` (of the last the theorem `AnswersComeNearer`
  proves the variant);
* `StructureKept` of HTML and CSS: their references select the items that count from
  the whole input, with `SelectSeq` and with looks ahead, about which the prover's
  library says nothing that could be put together item by item;
* `ScansAgree`: the scan looks ahead and calls itself for templates in substitutions,
  the reference keeps a stack; to prove that they agree is an induction over both at
  once, on functions whose recursive call has an argument that is not always smaller
  by one;
* `StatementsKept`, `BindingsKept` and `Idempotent` of `JS`: its reader is a grammar
  with a RECURSIVE operator, in whose reach the prover has no SMT solver; and without
  the bounds of the grammars all three fail, as said above.

## Not modelled

What the minified code does in `let`, classes and modules of JavaScript, at which
`mangleJS` gives up and the reader has no grammar; percentages and rounding of
the statistics (only logged); the timestamp comment on built pages;
`computeAccept` and `headerContains` (they stand behind the conditions of
`Handshake`); logger, command line, scripts.

## Plan

Done, in order of weight: the build pool, the live-reload path from watcher to
page, the connection and its handler, files, each with its proofs; CSS and HTML,
with the proof that they are idempotent; JavaScript, model-checked. Left:

1. `BuildTree`: the walk over trees instead of a flat sequence, composed with
   `Build`, with the outputs' directories made by several workers at once.
2. Grammars for `js` with `for` heads, `let` and classes in them, to see what the
   mangler's giving up costs `emitJS`.
3. `Rounding`: the percentages of the log at zero and below.
4. `StructureKept` as a theorem, with references that read item by item.
