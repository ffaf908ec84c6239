# TLA+ models of the E2B Go SDK

The SDK (`src/`) is a client of two servers: the E2B API, which creates
sandboxes and builds templates, and `envd`, the daemon inside a sandbox, which
runs commands and serves files. Most of its methods make one request and return
its answer. What can go wrong beyond one request is in the parts that keep a
goroutine, a channel, a pipe, a cursor, a header map or a builder alive between
calls, and in what concurrent and repeated requests do to one sandbox; those are
modelled here. Generated clients (`src/internal/api`, `envdapi`, `volumeapi`,
`*.pb.go`, `*.connect.go`) are not; the two servers are the environment of the
models.

## 1. Inventory

| component | code | state | operations | what is hard |
|---|---|---|---|---|
| command streams | `command_handle.go` | `CommandHandle`: accumulated output, PID, result, error, `done`, three channels of 32 | `startStream` goroutine, `Wait`, readers | channels that drop, closing order, many waiters with contexts |
| command control | `commands_impl.go`, `command_handle.go` | `h.pid`, the pump goroutine | `Start`, `Connect`, `Kill`, `SendStdin`, `pumpStdin` | a PID read without its mutex, input before the Start event, lost answers |
| PTY | `pty_impl.go` | a `CommandHandle` | `Create`, `Connect`, resize, input | `OnData` is fed from a dropping channel |
| watch | `watch_handle.go`, `filesystem_impl.go` | `WatchHandle`: events channel of 32, error, `done` | `consume` goroutine, `Events`, `Err`, `Stop` | a blocking send against cancellation |
| filesystem | `filesystem_impl.go` | none of its own | read, write (multipart pipe for old envd), `WriteFiles` | a producer goroutine per upload, stop at the first failure |
| build: start | `template/build.go`, `buildapi.go`, `tar.go`, `hash.go`, `files.go` | a tar goroutine and a pipe per COPY | `startBuild`, `startBuildV2`, `finishStartBuild` | files that change, a pipe with two ends, errors at every step |
| build: polling | `template/build.go`, `buildapi.go` | log offset, log tail, events channel of 16 | `pollUntilDone`, `Build`, `BuildStream` | offsets, terminal event after the last log, a consumer that leaves |
| template builder | `template/template.go`, `dockerfile_parser.go`, `readycmd.go` | `Builder`: base, instructions, force flag, first error | some forty fluent calls, `serialize`, `ToDockerfile`, the parser | order of calls, errors deferred to the end |
| template administration | `template/tags.go`, `templates.go` | none | single requests | nothing |
| sandbox lifecycle | `sandbox.go`, `client.go` | a handle (ID, tokens); the sandbox is the server's | create, connect, kill, pause, timeout, info, snapshots | lost answers, late requests, repeated kills, sandboxes nobody holds |
| pagination | `list.go`, `snapshots.go` | cursor, `hasNext` | `NextItems`, `ListAll` | failed pages, saved cursors, a list that changes between pages |
| configuration, transport | `config.go`, `internal/transport` | resolved `Config`, header maps, HTTP client | resolve, `Client.Config`, header editors | maps shared by reference, spellings of a header, the request timeout covers streams |
| errors, versions | `error_mapping.go`, `errors.go`, `versions.go` | none | error mapping, version gates | which error a status or a lost connection becomes, versions with missing or bad segments |
| signatures | `signature.go`, `sandbox.go` | none | `GetSignature`, file URLs | the URL and its signature must name the same user |
| volumes | `volume/volume.go` | a `Config`, a token | single requests | which credentials they carry |
| network, git | `network.go`, `git_impl.go` | none | formatting and single requests | nothing between calls |

The components meet in few places. A `Sandbox` holds the clients that
`Commands`, `Pty`, `Files` and `Git` call. `Commands.Start` makes a
`CommandHandle` and its goroutine, and launches the pump on it; `Commands.Run`
is `Start` and `Wait`; `Pty` and `Git` go through the same handle.
`Filesystem.Watch` makes a `WatchHandle` and its goroutine. `Client.Build` runs
`startBuild`, which reads a `Builder`, and then the poll loop, whose channel it
drains itself; `BuildStream` hands that channel to the caller. All streams use
the HTTP client of `config.go`, whose timeout ends them.

What makes each component correct:

- **streams**: output in order; nothing that `Wait` reports lacks output, even
  output the channels dropped; one outcome, settled once, for every caller;
  whoever sees the end of a channel can call `Wait` without blocking; `Wait`
  ends with nobody reading.
- **control**: `Kill` finds the process it was given; input arrives in order
  and without holes, but for chunks whose requests were given up.
- **watch**: no event lost or repeated; the error is there when the channel
  ends; `Stop` ends the goroutine.
- **build start**: an archive is whole and belongs to its hash (one whose last file
  shrank meanwhile leads to no build); a build the server runs finds its files; no
  goroutine is left; the call returns.
- **build polling**: the log entries of the answers once and in order, then one true
  terminal event, then the end of the channel. What a finished build has logged beyond
  its last answer, which may be full, is never sent.
- **builder**: a build holds exactly what was asked for, as far as the scanner has read
  a Dockerfile; the force flag marks one instruction; one base.
- **uploads**: a file that has a `WriteInfo` is whole; nobody waits for ever, and
  the goroutine ends with its request.
- **lifecycle**: what a call answers was true at some time of the call; a removal
  is counted once; a retried kill ends.
- **pagination**: no item twice, none skipped that was there all the time.
- **configuration**: no header map replaces a credential; a returned `Config`
  shares nothing; every gate follows the version, if that is made of numbers; a URL
  verifies.

## 2. Modules

| module | models | extends / composes |
|---|---|---|
| `CommandOutcome` | abstract: one outcome, settled once, answered to all calls | |
| `CommandStream` | `startStream`, `Wait`, the readers | implements `CommandOutcome` |
| `CommandControl` | `Kill`, `SendStdin`, the pump, the process in envd | extends `CommandStream` and composes its steps |
| `BuildEvents` | abstract: log entries in order, one terminal event, end | |
| `BuildPoll` | `pollUntilDone`, `getBuildStatus`, `Build` | implements `BuildEvents` |
| `BuildStart` | `startBuild` to `triggerBuild`, the tar goroutine, the pipe, the storage | |
| `WatchStream` | `consume`, `Stop`, the reader | |
| `TemplateBuilder` | the fluent calls, `serialize`, `ToDockerfile`, the parser | |
| `Uploads` | `Write`, `WriteFiles`, the multipart goroutine, the pipe, envd's file | |
| `Sandboxes` | the calls of `Client` and `Sandbox`, the API server, late requests | |
| `Listing` | both paginators, `ListAll`, a program that saves its cursor | |
| `Clients` | `resolve`, `Client.Config`, header maps and editors, version gates, file URLs | |
| `CommonLemmas` | lemmas on least numbers and induction, on a FIFO channel and its reader | |
| `CommandProofs` | the theorems about `CommandStream` and `CommandControl` | extends `CommandControl`, `CommonLemmas` |
| `FilesystemProofs` | the theorems about `WatchStream` and `Uploads` | extends both, `CommonLemmas` |
| `TemplateProofs` | the theorems about `BuildPoll` and `TemplateBuilder` | extends both, `CommonLemmas` |
| `BuildStartProofs` | the theorems about `BuildStart` | extends `BuildStart`, `CommonLemmas` |
| `SandboxesProofs` | the theorems about `Sandboxes` | extends `Sandboxes` |
| `ListingProofs` | the theorems about `Listing` | extends `Listing` |
| `ClientsProofs` | the theorems about `Clients` | extends `Clients`, `CommonLemmas` |
| `MC...` | the constants of the runs | |

Where one module has the theorems about two, the names that both would have are
prefixed in the second: `CSpec` and `CTypeOK` of `CommandControl`, `USpec` and
`UTypeOK` of `Uploads`, `BSpec` and `BTypeOK` of `TemplateBuilder`.

### How state and actions correspond to the code

**CommandStream.** `pc` is the place of the goroutine in `startStream`:
`receive` is `stream.Receive()`, and the handling of an event is cut into the
steps that others can see in between: `append` (under the mutex), `callback`
(`OnStdout`, `OnStderr`), `send` (the `select` with a `default`), `setResult`,
`setErr`, and the deferred closes `closeDone`, `closePty`, `closeStderr`,
`closeStdout` in the order in which Go runs them. A chunk is its position on its
stream, so the buffers `h.stdout` and `h.stderr`, which only grow at the end, are
the number of chunks in them. `conn` and `phase` are the connection and what envd
has sent. `wait`, `expired` and `answer` are the calls of `Wait`: the two cases
of its `select`, then the read of the outcome under the mutex. A callback
returns; keepalives change nothing.

**CommandControl.** `pid0` is the PID when the handle was made, `pid` the one
written by the goroutine under the mutex. `Kill` and `SendStdin` read `h.pid`
without it. By the Go memory model such a read may return the old value until
something orders the write before it; `aware` is the set of goroutines for which
that has happened (they called `PID()`, or read the new value before).
Everything else may read either. Requests and their effects are separate steps, so
requests and answers can be lost. A request that its caller gave up, at the timeout of
the HTTP client, may stay in `lateKill` or `lateInput` and be carried out at any later
time: `pumpStdin` ignores the error and goes on, so that such a chunk can be overtaken
by the next ones. `givenUp` records the chunks whose calls failed without an answer
(history).

**BuildPoll.** `pc` follows the loop: `check` (the context), `request`, `emit`,
`sleep`, `terminal`, `close`. A log entry is its index, an answer the range from
`offset` on, at most `Batch` entries. `out` is the terminal event about to be
sent. A 200 without a JSON body makes `getBuildStatus` return nil and no error;
the loop then dereferences it and the program stops (`pc = "panicked"`).

**BuildStart.** Three processes share the pipe: `startBuild` (`pc`), the tar
goroutine (`tar`) and the HTTP transport with the storage behind it (`put`,
`uploaded`). The pipe is unbuffered: `offer` is the write that waits in it,
`writeEnd` and `readEnd` are its two ends. A file is looked at (`StatEntry`, where its
size goes into the header) before it is opened and copied (`CopyEntry`): in between it
may go, grow (`io.Copy` fails, `tarErr = "add"`) or shrink, which is no error of the
entry (`short`) but makes the next write of the tar writer fail, or its `Close` if there
is none (`tarErr = "close"`). `finalize` closes the pipe with the error it was called
with, so that the failed `Close` reaches `errc` and not the pipe: `CloseWriter` ends the
pipe cleanly, and the body has a gzip `Footer` in place of the `Trailer`. The content of a file is a version
number; a hash is the COPY it is for and the files and versions it was computed
from. The files are read three times, as in the code: by the hashes sent to the
server (`HashCopy`), by the tar goroutine, and by the hashes of the build request
(`Serialize`). `Edit` and `Delete` come in between. The hash of one COPY is one
step: with the one edit of the run, the mixed readings an edit in the middle of
it can give are those of an edit before or after it, and a file that goes in the
middle is one of the errors the step may return.

**WatchStream.** As `CommandStream`, with a plain send: `Send` has the guard that
the channel has room, and nothing else wakes it.

**TemplateBuilder.** `b` is the `Builder`, one action per call (or family of
calls that only format different command lines). A text is a sequence of words,
so that the split of Dockerfile lines into fields, and of a quoted ENV value that
`parseEnvLine` splits again, are what they are in the code. `ToDockerfile` quotes a
value with `%q` and the parser only trims quotation marks: the constant `Unquoted` says
what is left of a word (in the run, a word with a quotation mark comes back with the
backslash before it). `LongWords` are those that make a line too long for the scanner:
its loop then ends without an error (`Scanned` has the lines before), and `unread`
counts the instructions on the rest. `Words` are those of the caller and the few that
the helpers' command lines stand for.
The loops of `CopyItems` and of `parseDockerfile` are the recursive functions
`Copying` and `Parsing`: what the first `n` items, or lines, make of a builder.
`LineOf` is the line that `ToDockerfile` writes for an instruction. `asked`
and `marks` record what the calls asked for, and where `SkipCache` was called;
they are history, the code does not have them.

**Uploads.** `at` follows `uploadOne` for the entry `Cur`: `next` (choose the
body), `build` (make the request), `do` (the request is on its way), `returned`.
Each multipart entry has a goroutine (`feeder`) and a pipe: `offer` is the write
that waits in it, `writeEnd` how the goroutine closed it, `readEnd` the body that
the transport reads and closes. A body is a sequence of pieces: the head of the
part, the chunks, the closing boundary. envd writes the file as it receives, so
that `file` may hold a part of an entry; it may answer before the body ends, and
refuses a body that breaks. With a later envd the transport reads the caller's
reader itself. A goroutine outlives its call: `FeederStep` and `CloseBody` go on
when the next entry is uploaded.

**Sandboxes.** A call is `sent`, `answered` and `returned`. `Serve` and `Make`
carry a request out, `ReadAnswer` turns the answer into a result with the
operators named after the methods (`PauseResult`, `SandboxKillResult`, ...), which
look at the status in the order the methods do. `LoseAnswer` and `GiveUp` are the
errors of `mapHTTPOrCtx`; a request given up may stay in `late` and be carried
out after any other. `seen` records the states that the sandbox had since the
call began, and `removals` the calls that returned true: history variables, read
by the properties only.

**Listing.** `next` and `hasNext` are the fields of the paginator. The server
orders items by place and cuts pages where it likes; a cursor is a place. The two
`NextItems` differ in their parameters and not in their logic, so that they share
`Ask` and the reading of the answer. `Change` lets an item come or go between any
two steps, `Restart` makes a new paginator from the cursor that `Save` wrote down. A
failed page is an error, or a 200 whose content is not named JSON, with a cursor in the
header or without.

**Clients.** `heap` holds the header maps and a `Config` has their indices, so that
the aliasing of Go's maps is what it is: `resolve` writes into the caller's map,
`newSandbox` shares the client's map when there is nothing to merge, `Client.Config`
clones. A version is a sequence of numbers, `Bad` where a segment is none. `Segment`
reads it as the code does; the properties compare with `Number`, which knows of missing
segments only, and speak of versions made of numbers (`Comparable`). A map is walked in any order (`Orders`), which decides which of two
spellings of one header wins. A request is the record of what it carries, and the
properties look at it in the state after it was made. `SetAll` writes one map over
another and `Set` one entry: they are the `@@` and `:>` of the TLC module, by
definitions of their own so that they can be reasoned about.

## 3. Runs

| run | instance | what it shows |
|---|---|---|
| `command` | a call of `Wait`, stdout with a callback and pty, 2 chunks on each, channels of 1 | output order, no output lost from `Wait`, `Cap` first chunks kept, closing order, `CommandOutcome` implemented; `Wait` returns with nobody reading, a reader that goes on reaches the end |
| `control` | `Kill`, the pump with 3 chunks, late requests | kills with a known PID hit, input is ordered and has no hole but for requests given up, a killed command ends |
| `build` | 5 log entries, buffer, tail and answers of 2 | `BuildEvents` implemented, the terminal event is true, `Build` returns, the channel closes |
| `start` | 2 COPYs that share a file, one forced, one edit | stored archives are whole, or cut short and of a failed start, and belong to their hash, triggered builds find their files, no goroutine is left, the call returns |
| `watch` | 4 events, channel of 2, 2 calls of `Stop`, a reader that may leave | nothing lost, the error is final at the end, nothing comes after `Stop`, `Stop` returns to a program that reads |
| `builder` | every call, 3 in a row, a value with a quotation mark, an overlong word | the force flag, rejected instructions, the Dockerfile round trip |
| `uploads` | 3 entries of 2 chunks, the first and the last for one path | files are as reported, goroutines end, the call returns |
| `sandboxes` | one goroutine that calls anything, one that retries `Kill`, a sandbox, a snapshot, one late request | answers are true, a removal is counted once, a retried `Kill` ends |
| `list` | 4 items, a filter that selects 3, 2 changes, 1 restart | no item twice, none skipped, `ListAll` ends |
| `clients` | 2 clients, 1 sandbox, 1 returned `Config`, 8 versions, maps with both spellings of a header | credentials, signatures and gates; a returned `Config` is detached |
| `lostinput`, `cancel` | as small as the case allows | the findings below |

**Bounds.** Channel capacities are 1 or 2 in place of 32 and 16, with more
messages than fit: full, empty and in between all occur, and the code compares a
capacity with nothing but the length of its channel. The theorems about
`CommandStream` hold for every capacity, number of callers and number of chunks:
that is why the run can do with one call of `Wait` (`HandleKeepsPromise` covers
several, of which one may time out where another answers).
`Batch`, `TailLimit` and `Buffer` are 2 with 5 entries, so an answer can be full,
the tail can drop entries, and the channel can fill in the middle of an answer.
Two calls of `Stop` are needed for one to time out where the other returns. In
`start`, two COPYs with a shared file and a forced one are the least that has an
upload after an upload and a cached hash; one edit suffices for every pair of
readings to differ. In `builder`, three calls have a base or `SkipCache`, a call
that fails, and a call after it. In `uploads`, the third entry overwrites the
first, and two chunks leave a place in the middle of the data. In `sandboxes`, one
sandbox is where calls meet: calls about different sandboxes share no state, in
the SDK or in the model. In `list`, four places make pages with items left out by
the filter, by a change, and by neither. In `clients`, the second client is there
for a `Config` that the first returned. The bounds are constants: `MaxChunks`,
`MaxStdin`, `MaxLogs`, `MaxEvents`, `MaxEdits`, `MaxCalls`, `Chunks`, `MaxLate`,
`MaxId`, `MaxChanges`, `MaxRestarts`, `MaxClients`, `MaxReturned`, `MaxBoxes`.

The type invariant of every module (`TypeOK`, `CTypeOK`, `UTypeOK`, `BTypeOK`) holds
in these instances as well; it is not among the properties of a run, since it says
nothing that the others do not need, and is a theorem.

**Deadlock** is not checked where a system comes to an end and stops; that nobody
waits for ever is what the liveness properties say. `sandboxes` and `clients` never
stop, and are checked for it.

**Fairness.** Weak fairness for the goroutines of the SDK, and for reads and
calls only where a property is about a program that goes on with them
(`ReadersReachTheEnd` takes the reader's fairness as its hypothesis). A connection
is fair to be lost because `config.go` gives the default HTTP client a timeout,
which in Go covers the body of a response: a stream ends after `RequestTimeout`
whether or not the command does. Requests of the poll loop, of a listing and
uploads are answered or fail for the same reason. `BuildReturns` and `StreamEnds`
assume that the server finishes a build; `KilledCommandEnds` that envd ends a
process it signalled and reports it. In `Uploads` the call, the goroutine, the
transport and the closing of a body are fair, and envd answers a body that has
ended; that a context ends is not assumed. In `Sandboxes` the goroutine that retries
`Kill` goes on, and the network is strongly fair to it: of a call made again and
again, one is served and one answer read that is no refusal. Without that no
program could ever know. Nothing else is assumed of the servers.

## 4. Findings

1. `lostinput`: the pump starts before the Start event and sends to PID 0; envd
   finds no such process, the pump ignores the error, and the beginning of
   `RunOptions.Stdin` is lost.
2. `cancel`: `pollUntilDone` sends with a plain channel send. When the consumer
   of `BuildStream` has left, a cancelled context does not end the goroutine.

Seen while modelling, in the models but without a run of their own:

- commands: the receive loop goes on after the End event, and when the stream then
  breaks `Wait` returns that error and drops the exit code it has; `Kill` with PID 0
  before the Start event;
- watch: after `Stop`, a goroutine whose reader has left can wait for room in the
  channel for ever, and `Stop` can only time out;
- commands: `pumpStdin` sends the next chunk whatever became of the last, so that input
  whose request was given up is lost or comes late, without an error;
- builds: the status answer without a body that crashes the poll loop; entries that a
  finished build logged beyond its last answer are not asked for;
- build start: when the last file of an archive shrinks while it is written, `tw.Close`
  fails and the pipe ends without an error all the same (`template/tar.go:31-33`), so
  that the storage keeps an archive without trailer under the hash of the COPY. That
  start fails; a later one finds the hash present, and triggers a build of it. The runs
  begin with a storage in which starts without edits have left their archives;
- Dockerfiles: `parseDockerfile` never looks at `scanner.Err()`
  (`template/dockerfile_parser.go:31`), so that a line of 64 KB or more, and all lines
  after it, are dropped without an error;
- builder: the FROM of a Dockerfile leaves the base template set, so that a build
  request can name two bases; registry credentials stay when the base is changed
  to a template or by a FROM; `ToDockerfile` drops USER, the user of a RUN, the user
  and mode of a COPY and all but one pair of an ENV, and writes with `%q` what the
  parser only trims, so that a value with a quotation mark or a backslash comes back
  changed; `serialize` emits ENTRYPOINT, which the comment at
  `template/template.go:389-391` says it does not (`NothingDropped` counts it, as the
  code does);
- lifecycle: `Sandbox.Pause` returns true together with an error; a lost answer to
  `Create` leaves a sandbox that no handle holds;
- listings: a 200 whose content is not named JSON is an empty page without an error, and
  the last page if no cursor came with it;
- uploads: the multipart goroutine stays for ever when the request cannot be made
  (`filesystem_impl.go:177`), since nobody reads or closes the pipe;
- configuration: `resolve` writes the User-Agent into the caller's `Headers` map, so
  that two `NewClient` with one map at once are a concurrent map write; key and
  bearer token are both sent, though `internal/transport/transport.go:25` says that
  the key wins; the volume package looks at no environment variable, though
  `config.go:35` says that a zero `Config` falls back to them; requests to `/files`
  carry none of the `Config`'s headers;
- credentials: `docs/authentication.md:112-118` says that all traffic to envd has an
  `Authorization: Basic`, for the user "user" by default; to an envd from 0.4.0 on the
  SDK sends none unless a user is asked for, which is what `versions.go:20-23` says and
  `GatesFollowVersion` states. `CredentialsAreTheSDKs` is true of both, and of either
  reading of `transport.go:25`: it forbids credentials that come from a header map;
- versions: a segment that is no number counts as 0, so that `x.9` is after 0.5.7, though
  `versions.go:72-74` says that a non-numeric version sorts before any real one. `x.9`
  is among the versions of `clients`, and `GatesFollowVersion` leaves such versions out.

And outside the models: `RunOptions.User`, `GitOptions.User` and the `FsOptions` of
`Stat`, `List`, `MakeDir`, `Remove` and `Move` are not looked at; `Git.Clone` passes
`RepoPath` both as the target and as `-C`; a `Timeout` below a second is sent as 0.

## 5. Proofs

Every safety property, action property and refinement that a passing run checks is a
theorem, and so is the type invariant of every module that is no abstract one. The
theorems hold for every value of the constants that the named assumption allows.

### Command streams

`CommandProofs` proves, for any sets of callers and streams, any exit
codes, any capacity and any amount of output (assumption: `ConstantsOK`):

- `TypeCorrect`: `TypeOK`.
- `ChannelsCloseAfterDone`, `ExitIsComplete`: `ClosedChannelMeansDone`,
  `ExitCarriesAllOutput`.
- `HandleKeepsPromise`: every behaviour of `CommandStream` is one of
  `CommandOutcome`, with `outcome` the result of `Wait` once `done` is closed.
- `OutputInOrder`, `NoEarlyLoss`, `WaitCoversReaders`:
  `ReadersSeeOutputInOrder`, `FirstChunksKept`, `ReadersNeverAheadOfWait`.

The argument has three layers. `StateInv` is `TypeOK` with what the program
counter says: what event the goroutine holds (`EventInv`), and that the
accumulated output is what was received, less the chunk being appended
(`BufferInv`). Without it `AppendChunk` could not be shown to keep even the type
of `buf`, nor `SendChunk` to send a chunk that exists. `SafeInv` adds that
`done` is closed exactly from `closePty` on (`SettledInv`), and that a call which
left the `select` by `done` has seen it closed (`CallInv`). From these the outcome
cannot change after `done` (`OutcomeStable`), which gives the refinement: the close
of `done` is `Settle`, a return is `Answer` or `GiveUp`, all else stutters.
`OutputInv` relates what a channel holds and its reader has to what the goroutine
has handled: in order, bounded by the chunks handled, and complete for the first
`Cap`. `CommonLemmas` has the facts on sequences that this needs: sending
appends to, and receiving keeps, what was received followed by what is queued.

### Command control

`CommandProofs` goes on, for any PID, any sets of killers and any amount of input
(assumption: `ControlOK`):

- `ControlKeepsStream`: a behaviour of `CommandControl` is one of `CommandStream`, so
  that the theorems above hold when `Kill`, the pump and the process are there.
- `ControlTypeCorrect` (`CTypeOK`), `KillFinds` (`KnownPidKillHits`) and
  `InputInOrder` (`StdinInOrder`).

`ControlInv` is what makes the two properties inductive. `PidInv`: nobody has the
PID before the process runs, and a goroutine for which the write is ordered before
its reads stays so; a stale read of 0 comes only from the others. `KillInv`: a
`Kill` that knew the PID used it, and an answer "not found" to it means that the
process has exited. `StdinInv`: a request that may still come late was given up, and
what it carries has not come; once a chunk has come, or may still come, the pump knows
the PID, and while the process runs every later chunk that the pump is done with has
come or was given up. That is the reason why there is no other hole after the first
chunk that arrives, and why only a beginning can be missing, as in `lostinput`.

### Watch

`FilesystemProofs` proves, for any set of calls of `Stop`, any capacity and any
number of events (assumption: `WatchOK`): `TypeCorrect` (`TypeOK`),
`EventsAreKept` (`NoEventLost`), `ErrIsFinal` (`ErrIsFinalAtEnd`) and
`StoppedWatchIsSilent` (`StopIsFinal`). Its `EndInv` says that `done` and the
close of the channel are what the program counter says, and that no reader and no
`Stop` has seen more of the end than that. `OrderInv` says that what was read and
what is queued are the events `1..received`, less the one the goroutine holds
before its send. `StopIsFinal` follows because a `Stop` that returned nil saw
`done` closed, and from there the goroutine never sends.

### Uploads

`FilesystemProofs` goes on, for any paths (at least one), repeated ones included, and any
number of chunks (assumption: `UploadsOK`): `UploadsTypeCorrect` (`UTypeOK`) and
`UploadsAreAsReported` (`FilesAsReported`). `Holds(p, k)` says what a file is after `k`
entries: absent and written by none of them, or the whole of one of them that no later
one overwrites. `FileInv` says that every file is `Holds(p, results)` at any time, but for
that of the entry on its way once some of its body has arrived: it has what arrived.
`MultipartOK` makes the WriteInfo true: the pieces of a body come in order, `Put`, the
pieces that left the goroutine, is what its place says, so that the boundary, and with it
an "ok" of envd, comes after all chunks; a copy that failed closes the pipe with its
error. `OctetOK` says the same of the body that has no goroutine. The rest of `EntryOK`
keeps entries apart: before its turn nothing of an entry exists, and an
entry that has a WriteInfo has a complete body, which receives nothing more, so that the
goroutine that still closes its pipe touches no file of a later entry.

### Build polling

`TemplateProofs` proves, for any number of entries, any size of answers, buffer and
tail (assumption: `BuildPollOK`): `TypeCorrect` (`TypeOK`), `TrueTerminal`
(`TerminalIsTrue`) and `PollKeepsPromise` (`KeepsPromise`): every behaviour of
`BuildPoll` is one of `BuildEvents`. The invariant is about the sequence of all that
was sent, read or still in the channel: it is the log up to `next - 1` and then, when
the loop is over, at most one terminal event (`SentInv`), which agrees with the
status that the server gave and with the tail of the log (`OutInv`). `EmitInv` is
what it needs of the loop: outside `emit` no entry of an answer is left behind, so
that `offset` and `next` agree, and `tail` is the last entries of the log before
`next`. In the refinement a send is a step of `BuildEvents`, a receive leaves what
was sent alone, and everything else stutters.

### Template builder

`TemplateProofs` goes on, for any words, texts, items, Dockerfiles and number of calls
(assumption: `BuilderOK`, which says of the caller's arguments that they are texts, and
that no word of theirs is empty, and of `Unquoted` that it is a function on words):
`BuilderTypeCorrect` (`BTypeOK`), `NextIsForced`
(`ForcedAreNext`), `AllIsBuilt` (`NothingDropped`) and `ComesBackFromDockerfile`
(`RoundTrip`). The lemmas are about what a call makes of a Builder, whichever: `Good(x, m)`
says that the places `m` are forced and no other, and that the flag is set exactly if the
next place is in `m`, which `ForcedAreNext` alone does not say and needs; `Grows(x, y, n)`
that `y` has `n` instructions more than `x`, or an error. Both are kept by every call,
and by the loops over items and lines, so that `BuilderInv` is them of the Builder and of
what was asked for. The round trip needs `Good` too: an instruction has the arguments of
its type, and no COPY of a rejected path is among them, which the parser would reject
again. `ReadsBack` is the step (the line of an instruction is read as the instruction),
and `ComesBack` takes it through the Dockerfile.

`Copying` and `Parsing` are recursive functions, of which a proof may use the equation
only once there is such a function: `CopyingIs` and `ParsingIs` make it, one item longer
at a time.

### Build: start

`BuildStartProofs` proves, for any COPYs over any files and any number of edits
(assumption: `BuildStartOK`): `TypeCorrect` (`TypeOK`), `WholeArchives`
(`StoredArchivesAreWhole`), `FilesAreThere` (`TriggeredIsStored`), `ErrorsStopBuilds`
(`BrokenNeverBuilt`) and `ProducerDrained` (`NoGoroutineLeft`). `PhaseInv` says that
uploads do not overlap, so that the pipe and the tar goroutine are those of `copy`;
`PipeInv` what the two ends of the pipe are when the goroutine is where it is. The
heart is `PackInv`: as long as adding an entry has not failed, the pipe has carried
one chunk for each file that the goroutine is done with, in the order of its list, and
then the trailer, or the gzip footer alone if the last file was short; with no edit so
far each chunk is the file as it is on the disk. So a transport that sees the end of
the pipe, and not an error, has a whole archive or one that is cut short. Of the latter
`CutInv` says that it is the upload that `startBuild` is at, whose error waits in
`errc`, or of a start that has returned: before the trigger there is none.
`HashInv` and `StoredInv` relate the hashes to the store: every COPY before `copy`
is stored under the hash of the first pass, and without an edit the second pass
computes the same hashes. `FilesOf`, the files of a COPY that there are, counts them
instead of selecting from a sequence by recursion, for the sake of these proofs.

### Sandbox lifecycle

`SandboxesProofs` proves, for any callers, sandboxes and snapshots, any refusals and
any number of late requests (assumption: `SandboxesOK`): `TypeCorrect` (`TypeOK`),
`TrueAnswers` (`AnswersAreTrue`) and `SingleRemoval` (`RemovedOnce`). Neither
property holds step by step of the results alone, since a result is made of an
answer that another step has put on its way. `AnswerInv` therefore speaks of the
answer on its way: what the call would return if it read it now is explained by a
state in `seen`, and `SeenInv` says that `seen` has the present state. `RemovalInv`
says the same for removals: a thing that a call claims, or is about to claim, to have
removed is gone, and there is one such call only. What is gone stays gone, so no
later request, however late, is answered as the first.

### Pagination

`ListingProofs` proves, for any number of items, any filter, and any number of
changes and restarts (assumption: `ListingOK`): `TypeCorrect` (`TypeOK`),
`PagesAreDisjoint` (`ListedOnce`) and `PagesAreComplete` (`NothingSkipped`). Neither
property is inductive: what a page does to the results depends on what the request
and the answer hold. `RequestInv` says that a request on its way has the cursor and
the filter of the paginator, and that a page that is awaited leaves it alone;
`PageInv` that the page in an answer begins behind the cursor and has, up to its
end, every item that was there all the time; `PlaceInv` that the results, and those
written down, are the items up to their cursor. `ServerInv` is what makes a page
complete: an item that is absent when the page is cut is one that was absent.

### Clients and requests

`ClientsProofs` proves, for any header maps, configurations, environments and
versions (assumption: `ClientsOK`) and any number of clients, sandboxes and returned
`Config`s: `TypeCorrect` (`TypeOK`), `ReturnedIsDetached`
(`ReturnedConfigIsDetached`), `CredentialsKept` (`CredentialsAreTheSDKs`),
`SignaturesVerify` (`FileURLsVerify`) and `GatesAreRight` (`GatesFollowVersion`).
`ClientsInv` says that every index of a header map is in the heap, that a sandbox has
the user that `resolveEnvdUser` makes of its version, and (`DetachedInv`) that no map of a returned
`Config` is one that a request of its client, or of a sandbox of that client, reads.
`HeapStep` is the frame of all of them: a step adds maps and writes to one
existing map at most. That one is the caller's own, or one of a returned `Config`, and
neither is live. The three properties of requests follow from `ClientsInv` and the
one step that makes the request: the credentials from the order in which the header
editors write, for any order in which a map is walked, and the gates from
`CompareIsOrder`: of versions made of numbers, the segment by segment comparison of
`compareEnvdVersions` is the lexicographic order padded with zeros.

### Only model-checked

- All liveness: `WaitReturns`, `ReadersReachTheEnd`, `KilledCommandEnds`, `StopReturns`,
  `BuildReturns`, `StreamEnds`, `StartReturns`, `FeedersEnd`, `WriteReturns`,
  `RetriedKillEnds` and `ListAllReturns` need fairness and ENABLED, which are beyond the
  prover.
- The two findings: that a behaviour exists is what TLC shows.

Where a proof needed induction, it is over a set of numbers: one that is not empty has a
least element (`LeastOf` in `CommonLemmas`, from the well-founded order of `Nat`), so that a
set with 0 and every successor has all of them (`UpTo`). The induction theorems of the
library take an operator, which no prover here can instantiate; the sets say the same.

## 6. Plan

Done: every component that the table in section 1 calls hard is modelled, model-checked
and proved about. What could follow:

1. `CommandStream`: callbacks that call back into the handle, and with them the `Wait`
   inside `OnStdout` that never returns.
2. `Sandboxes`: lengths of lifetimes, in seconds and as the `int32` that is sent.
3. The texts of `network.go` and `git_impl.go` as operators on words, in the manner of
   `TemplateBuilder`.

## 7. Not modelled

- Generated code (`internal/api`, `internal/envdapi`, `internal/volumeapi`,
  `*.pb.go`, `*.connect.go`): some 16,600 of the 23,000 lines of the SDK. It encodes
  requests and parses answers; the models have what it parses as data (whether a
  2xx has JSON, which event arrives), and the servers behind it as environment.
- `template/tags.go`, `template/templates.go`, and the operations of
  `volume/volume.go`: independent requests, with no state between them.
- `network.go`, `git_impl.go`, `template/readycmd.go`: strings made of their
  arguments.
- `List`, `Resize` and the other single requests of `Commands` and `Pty`, `Stat`,
  `List`, `MakeDir`, `Remove` and `Move` of `Filesystem`, `GetMetrics` and the MCP
  helpers of `Sandbox`.
- The classes that `mapConnectErr` makes of a stream's error other than `TimeoutError`
  (`error_mapping.go:28-42`): no property tells them apart, and `CommandStream` has one.
- Lengths of lifetimes and timeouts: a lifetime may end at any time. URLs and hosts.
- Ignore patterns, globs and symbolic links in `files.go` and `hash.go`: they are
  inside `FilesOf` and `Hash`, which stand for whatever set of files they select.
- Callbacks that call back into the handle (a `Wait` inside `OnStdout` deadlocks).
- The programs under `examples/`.
