# A verification project for qoder-model-gateway

The gateway is a Go program (package `main` at the repository root) that offers
the Anthropic Messages, OpenAI Chat Completions and OpenAI Responses APIs on a
local port and forwards every inference request to one upstream service. It
signs upstream requests with an account's credentials, which it either owns
(read-write mode: login, refresh, rotation, save) or borrows from an official
CLI (read-only mode). `scripts/qoder-gateway.mjs` starts, stops and configures
it.

## Inventory

| Part | Code | State | Operations | What makes it correct |
|---|---|---|---|---|
| Credential manager | `auth.go`, `main.go` patLogin | userInfo in memory, credential file, dirty flag and retry time, protocol context, closed flag | load, ensureFresh, forceRefresh, PrepareInferRequest, deviceLogin, patLogin, fetchUserInfo, Close | no received rotation is forgotten, a clean flag means "on disk", memory, disk and context belong to one session, nobody signs with a closed context, nothing happens after Close |
| Read-only authentication | `auth.go` load, readExistingAuthFiles, readOnlyAuthTransport | as above, the file belongs to another program | load on every request | never writes, never calls the service, a request is signed with credentials at least as recent as the file it read |
| Protocol context | `native_context.go` | user snapshot, closed flag, RWMutex | New, PrepareInferRequest, Close | Close waits for running calls |
| Upstream call | `proxy.go` callUpstream, doUpstream, queueWait | attempt counter | retry, refresh on 401, back-off, give up | bounded attempts, at most one forced refresh, always an answer |
| Anthropic stream | `proxy.go` readSSE, streamState, streamAnthropic, collectAnthropic | open block, index, tool, finish flag | chunk, error, finish, end of stream | blocks well nested, one message_start and at most one message_stop, indices consecutive |
| OpenAI stream | `openai.go` upstreamChunks, toolIndexer, streamOAI, collectOAI | channel of 16, error channel | produce, consume, cancel | no goroutine left behind, an error is never taken for success |
| Responses stream | `responses.go` respStreamState | open item, sequence numbers, output | chunk, complete, fail | items opened and closed in order, sequence numbers consecutive, output equals what was streamed |
| Conversion | `convert.go`, `openai.go`, `responses.go` | none (pure) | messages, tools, choices, cache markers | the service gets the conversation the client had, results directly behind their calls |
| Model catalogue | `proxy.go` modelResolver, `main.go` loadCatalog, `model_context.go` | catalogue, mapping, preferences, sessions | resolve, list, select context | every advertised id resolves to the model it names, no silent fallback, the window the user chose |
| Process lifecycle | `app.go` run, handlerAdmissionGate | context, wait group, ticker, listener, admission gate | serve, tick, shutdown, clean up | no handler runs on closed authentication, shutdown ends, cleanup order |
| Local guard | `native_local.go` | four slots | admit, release | never more than four, every slot returned |
| Codecs | `native_*_codec.go`, `native_codec_helpers.go`, `native_uuid.go`, `native_runtime_fields.go`, `native_infer.go` | none (pure) | encode, decode | decoding inverts encoding |
| Manager script | `scripts/qoder-gateway.mjs` | control.lock, config.json, status.json, Claude's settings.json, child process | start, serve, stop, status, claude-enable | locked sections exclude each other, a running gateway is known, a stopped one is gone, no edit of the settings is lost |
| Offline tools | `tools/` | none | test oracles, benchmarks | not part of the running program |

How they interact: HTTP handlers (one goroutine per request, behind the
admission gate and the local guard) resolve a model, convert the request, call
the upstream call, which asks the credential manager for a signed request, and
feed the answer through one of the three stream machines. The ticker of `run`
calls `ensureFresh` every 30 minutes. A 401 makes a handler call
`forceRefresh`. `run` closes the manager after handlers and ticker are gone.

In the shipped program `main()` always selects read-only authentication and
lockdown (`main.go:21`): the manager reads the CLI's login and never writes,
and upstream calls go to one host with a timeout of 180 seconds. The read-write
manager is complete library code with its own tests, and is modelled as such.

The behaviours that are hard to test are listed, each at its line and with the
properties that watch over it, under `hazards` in `PROJECT.json`. Most come from
six sources: goroutines that share one credential, steps that may fail half-way
through a commit, processes that stop between two steps, a file another program
writes, a shutdown racing handlers that are still being admitted, and upstream
answers that arrive in pieces of any shape.

## Modules

| Module | Models | Extends / used by |
|---|---|---|
| `AuthManager` | the read-write credential manager | `MCAuthManager`, `AuthManagerProofs` |
| `CredentialStore` | what the manager promises about a credential, without goroutines and locks; no code of its own | refined by `AuthManager` |
| `ReadOnlyAuth` | the read-only manager beside the CLI | `MCReadOnlyAuth`, `ReadOnlyAuthProofs` |
| `Lifecycle` | `run`, ticker, shutdown, admission gate, slots | `MCLifecycle`, `LifecycleProofs` |
| `Upstream` | `callUpstream`, `doUpstream` | `MCUpstream`, `UpstreamProofs` |
| `ChunkPipe` | `upstreamChunks` and the handler that drains it | `MCChunkPipe`, `ChunkPipeProofs` |
| `Delivery` | what `upstreamChunks` promises, without channels; no code of its own | refined by `ChunkPipe` |
| `UpChunk` | the unit upstream streams in, and its documented tool calls | the three stream modules; `MCUpChunk` has the chunks for TLC |
| `AnthropicStream` | `streamAnthropic` beside `collectAnthropic` | `Answers` |
| `OpenAIStream` | `toolIndexer`, `streamOAI` beside `collectOAI` | `Answers` |
| `ResponsesStream` | `streamResponses` beside `collectResponses` | `Answers` |
| `Answers` | the three on the same upstream answer | `MCAnswers`, `AnswersProofs` |
| `ModelCatalog` | `loadCatalog`, context windows, `newModelResolver`, `resolve`, `handleModels` | `Requests` |
| `Convert` | the conversions of the three protocols to the upstream body | `Requests` |
| `Requests` | `run` building the catalogue, the four handlers up to the upstream body, and the clients of the protocols | `MCRequests`, `RequestsProofs` |
| `Manager` | the commands and serve processes of `qoder-gateway.mjs` with their native processes | `MCManager`, `ManagerProofs` |

Each `MC` module only adds what TLC needs (symmetry, small sets of inputs, in `MCAuthManager` which goroutines take part); each
`Proofs` module only adds invariants, lemmas and theorems.

### AuthManager

`mu` is the owner of `a.mu`; every operation runs between taking and releasing
it, split where it calls the network, the disk or `ctxMu`. `ctxMu` is a
reader/writer lock: `using[p]` is the context a reader signs with, and a writer
that waits keeps new readers out, as `sync.RWMutex` does.

| Variable | Code |
|---|---|
| `ui`, `dirty`, `holdoff` | `a.ui`, `credentialDirty`, "`credentialPersistRetryAt` lies ahead" |
| `protoCtx`, `closed`, `open` | `a.protoCtx`, `a.closed`, contexts built and not closed |
| `disk` | the file `saveLocked` and `commitLoginCandidateLocked` publish |
| `valid`, `ver` | refresh tokens the service accepts, last string it issued |
| `cand`, `next`, `old`, `then` | local variables of the goroutine that holds `a.mu` |
| `received`, `lost` | history, read by no action |

`Enter` is an entry point with its attempt to save a dirty credential; `CheckFresh`,
`CheckRefuses`, `SendRefresh` are the branches of `ensureFresh`; `ServiceRefreshes`,
`RefreshRejected`, `ReplyLost` what becomes of the request; `BuildRefreshed`,
`Swap`, `Retire`, `Adopt` the rest of `refreshLocked`, and `BuildFails` with
`KeepRotation` its error path. `StageOk`, `SaveFails`, `PublishOk` are the steps of
`saveLocked`. A login is `Issued`, `BuildLogin`, `StageLogin`, `CommitLogin` or
`RejectLogin`, then the profile. `Load`, `Close`, `Closing`, `CloseContext` belong to
`run`; `Stop` is the end of the process at any moment, by exit or crash, after which
`Load` finds what the disk holds.

Opaque strings are version numbers: the n-th answer that issues something
carries n. An access token identifies the `userInfo` object that carries it, as
the pointer comparison in `fetchUserInfo` needs. Whether a token is about to
expire is a free choice. Refresh tokens may or may not rotate, and each of token
and expiry may be absent.

`CredentialStore` says what this amounts to for whoever uses the manager: a write-back cache of
one record. The mapping (`Store` in `AuthManager`) takes `disk` for what is stored, `ui` for what is
held, and the session of the current context for the one requests are signed for. `Adopt`,
`KeepRotation` and `ApplyProfile` are `Renew`, `PublishOk` is `Save`, `Swap` is `Sign`, `CommitLogin`,
`Load`, `Closing` and `Stop` are the steps of that kind, and all that passes between taking and
releasing locks are stutters.

### ReadOnlyAuth

The same locks. `ensureFresh` and `forceRefresh` are `load`: take `a.mu`, read the
file, assign `a.ui`, rebuild the context. `CliWrites` and `CliBreaks` are the other
program. `since[p]` is history: the newest login that was complete when request
p began.

### Lifecycle

`main` walks through `run`; `Return` is any of its early returns, `Cancel`, `Wait`,
`CloseAuth` and `CloseServices` its deferred function. `ticker` and `shut` are the two
goroutines in its wait group. A request goes from `read` (net/http has it) through the
gate (`Enter`) and the local guard (`TakeSlot`, `Bypass`) to `Finish`. `conns`
are the connections net/http holds: closing one cancels the context of its request.
`Read` is possible after `Shutdown` has returned, because net/http does not count a
connection as active before it has read a request; the gate exists for that case.

### Upstream

One call. `Respond` and `TransportError` are `doUpstream`; the other actions are the
branches of the loop in `callUpstream`; `Wake` and `Interrupted` are `sleepCtx`.
`open` are attempts with an open body. An answer is its status class, the wait its
body asks for and the `Retry-After` header; lockdown replaces the body, keeps the header.

### ChunkPipe

`producer` is the goroutine of `upstreamChunks`, `consumer` the handler of a Chat
Completions or Responses request; `chunks` with `isClosed` and `errc` are the two channels.
`ReadChunk`, `ReadEnd`, `ReadError`, `ReadBreaks` are the ways the callback of `readSSE` or
`readSSE` itself goes on, `Send` and `Abandon` the two cases of the select, `Report` and
`CloseOut` what follows the reading. `Receive`, `RangeEnds`, `Check` are the loop over the
channel and the select with a default behind it; `Return` closes the body and lets
net/http cancel the request. Chunks are numbered; how one is turned into an answer is
the matter of the stream modules, which take the chunks one at a time and end with or
without an error, as `Check` does.

`Delivery` says the same without channels: chunks are produced, delivered in order, and the
answer is concluded once, as upstream's ended. The mapping (`D` in `ChunkPipe`) takes the
numbers up to `n` for what upstream sent; `Receive` is `Deliver`, `Check` is `Conclude`,
`Abandon` is an `End` that is only allowed when nobody wants the answer, and what passes
inside the channels are stutters.

### AnthropicStream

`streamState` is a record, its methods are operators on it, and `out` is the events
written. `acc` is what `collectAnthropic` gathers of the same frames. The n-th frame
delivers the number n as its text, argument fragment, stop reason or usage, so
loss, doubling and reordering are visible and texts are not needed.

### OpenAIStream and ResponsesStream

Built alike: `sent` (or `st.out`) is what the streaming half has written, `acc` what the
collecting half has gathered of the same chunks. `CallAt`, `ClientCalls`, `Parts` of
`OpenAIStream`, and `Streamed`, `Done`, `Follows` of `ResponsesStream`, are a client of the
stream, written independently of the code. The default stop reason `"stop"` is `None`.
The output index of an item stands for its random id, and the place of an event in the
stream for its sequence number.

### Answers

One action per thing that can arrive: `Chunk`, `UpstreamError`, `FinishEvent`, `BodyEnds`. Each
is the joint step of the three modules, two of which learn of an error only at their end, as
`upstreamChunks` tells them, while the Anthropic reader meets it in the body. `calls` and
`regular` are kept once for all three.

### ModelCatalog, Convert, Requests

`config` is the flags and the account's file with its entries, `catalog` the function `run` builds
from it once, in `Start`; `StartFails` is a preference out of range. A model has its key,
display name, tiers and effective window; a name is a base and whether `[1m]` follows.
`Found`, `Names`, `PublicId` are the three maps of `newModelResolver`; `ResolveExact` and
`ResolveMapped` the two ways of `resolve`.

`request` is a conversation: turns with their content, calls and results. `IsConversation` says
what a client can have said: the first turn is the user's, calls are the assistant's, and results
answer calls of the turn before. `AnthropicMessages`,
`ChatMessages` and `RespInput` write it in a protocol, as a client does; `FromMessages`,
`FromChat`, `FromResponses` are the code's conversions, and `RemoteChatAskBody` the body. So
the three are compared with one reference, the conversation itself. A text is a model
value; joining texts is abstracted.

A result is a call with its output, which is a content like any other. The service takes text
only for it: `ToolResultText` is what `convert.go:302-325` leaves of the output of an Anthropic client, the
note "[image omitted]" (`Omitted`) of an image with its data (`Inline`), nothing of one given by URL.
Chat Completions pass an output on as it is. In the Responses API it must be one string: a request with
another (`Readable`) is refused with 400, behind the lookup of the model (`Unreadable`). `ConversationKept`
compares the body with what was said, or, for Anthropic clients, with what was said in words (`Heard`, `InWords`).

### Manager

A command is a record with a `pc` that stands before its next `await`, what it has read
(`live`, `before`) and how it ended (`result`). An instance is one `serve` (`serve[i]`) with the
native process it spawned (`native[i]`), which lives on when its serve is killed. `lock` is
`control.lock`, empty between `OpenLock` and `WriteOwner`; `status` is the instance in `status.json`.
`Run` is `main`; `OpenLock` to `Unlock` are `withLock`, first around `config`, then around the spawn;
`ReadCurrent` to `Await` are `ensureRunning`; `SpawnNative` to `RemoveStatus` are `serve`; `Bind`,
`CloseListener`, `Exit`, `Break` are what the script sees of the gateway; `PostShutdown` and
`AwaitStop` are `stop`; `ReadSettings` to `WriteSettings` are `claudeEnable`. Every timeout is a
choice. `settings` is the user's version with whoever wrote it last, or without a file (`by` is "none"),
which the script reads as `{}` and does not compare (`Unchanged`); the user writes and deletes it in
`UserEdits`. `backups` are the user's versions that were backed up. `raced` and `windowed` are history: they
record the windows named below, `windowed` an edit between comparison and rename, or a deletion after a command has read the file.

## Runs

| Run | Question | Bounds, and why they are enough |
|---|---|---|
| `auth` | Do rotations survive failed builds and saves, lost answers, crashes; is a context in use never closed? Can logins, their profiles and a refresh leave a mixture of sessions? Is each step one of `CredentialStore`, or none? | Any three of two workers and two logins (`team`; the others never begin), three contexts, three answers of the service. Two refreshes can race with each other and with a login, and one of them can follow a failed one; the profile of a login may return before, between or after the steps of another. No operation involves more than two goroutines at its critical points, since `a.mu` serialises the rest. |
| `auth_live` | Is a dirty credential saved, does every request return, does Close end? | One worker, one login, no symmetry. |
| `readonly_auth` | Is a request signed with an outdated or closed login? | Two requests and three logins: one request can read an older login and finish after the other. |
| `lifecycle` | Does anything meet a closed manager, is anything left behind, is a slot or an error lost, does `run` return after a signal? | Three connections on two slots, so that one is refused; every early return and both ways of shutting down. |
| `upstream` | Does the retry loop end in a return, leak a body, wait too long, refresh twice? Does it honour a queue signal without lockdown, and always return under it? | All four attempts; waits below and above the cap, header and queue signal together; `lockdown` is either from the start. |
| `upstream_queue` | Is a queue signal honoured as the comments say? Violated, see below. | As above. |
| `chunk_pipe` | Is a chunk lost, overtaken, or an error taken for the end, for any timing of the two sides? Do both end once the request is cancelled? | A channel of two and five chunks: it fills, drains and fills again, the producer can be blocked on a full channel that nobody drains; every ending at every length. |
| `chunk_pipe_errors` | Whose words is a client given for an error? Violated, see below. | Two chunks. |
| `answers` | Do the events keep to their protocols for any input, do stream and body carry the same in each protocol, and do all clients get the calls upstream made? | Up to four chunks of every kind, and every ending: a block needs one chunk to open, one to be interrupted, one to be resumed, one to finish; two calls with their fragments fit, in one chunk or in several. |
| `requests` | Is a listed model the served one, does anything fall back, which window is asked for, and does the service get the client's conversation? | Two entries of a file with every mixture of equal and different keys, names that are fit, shared, another's key or end in `[1m]`; all kinds of windows with preferences at their limits; conversations of up to five turns with two parallel calls, so that results can come in between; outputs with text around an image, with an inline image, a URL, both, or nothing. |
| `requests_listed` | Is every listed identifier found? Violated, see below. | As above. |
| `manager` | Do locked sections exclude each other, is a gateway known, is a stopped one gone, are edits kept? | Three commands (one holds the lock, one finds it stale, one takes it after it was removed), two instances, a kill and an edit or a deletion at any point, settings that exist at first or do not: one edit is enough for a command to overwrite, and a second command meets the outcome. |

What is claimed of tool calls holds while `regular` does: a history variable that says whether
all chunks so far kept to `UpChunk!Documented`, the form of tool calls the comments on `startBlock`
and `toolIndexer` describe. Everything else holds for any chunks.

Deadlock is checked in the two `auth` runs, whose process restarts. It is not in
the others: a process that has exited, a call that has returned, an
answer that has ended and commands that have all run stop, and an upstream bounded in its logins does too.

`MaxVersion`, `MaxChunks`, `MaxEdits` and `MaxKills` bound counters; `refreshes` counts to two, which is
already a violation. Symmetry permutes goroutines and contexts, commands and instances, and is
left out where liveness is checked.

### What a run has shown against a comment

`upstream_queue` expects a violation. `callUpstream` reads the body of an answer to
learn whether the service has queued the request and how long to wait
(`proxy.go:303`, `proxy.go:364-365`). Under lockdown `doUpstream` has by then
replaced every body but that of a 200 by a fixed text (`proxy.go:448`). The signal
never arrives: a queued request is retried after the default back-off if its
status is retryable, and fails at once otherwise.

### What a run has shown against the documentation

`chunk_pipe_errors` expects a violation. `LOCAL_CHANGES.md:12` says the local endpoint
"sanitizes upstream errors". `writeOAIError` does so under lockdown, for bodies. An
error met while an answer is streamed has no body any more: `streamOAI` (`openai.go:398`)
and `respStreamState.fail` (`responses.go:513`) write `err.Error()`, which is the message of
the service (`openai.go:128`, `openai.go:139`), into the stream.

`requests_listed` expects a violation. `README.md:99` tells users to take a model ID that
`GET /v1/models` returns. Under lockdown the list names a model by its display name
(`proxy.go:937-957`), whether or not that name is one the resolver knows it by: the
resolver leaves out a name two models share or another has as its key (`proxy.go:98-113`).
Both models of one display name are listed under an identifier that gets 404.
`ListedIsServed`, which passes, says what does hold of the list.

### Fairness

- `AuthManager`: the owner of `a.mu` goes on, since its network calls have timeouts of 30
  seconds; whoever waits for `ctxMu` gets it, as `sync.RWMutex` guarantees; the
  ticker calls `ensureFresh` again and again, which needs strong fairness because
  `a.mu` is taken by others in between; and the disk does not fail for ever. A
  client that never comes is allowed.
- `Lifecycle`: `run` and the shutdown goroutine go on. `TickerEnds` is strongly fair:
  `select` picks at random between a tick and `ctx.Done()`, and ticks are thirty
  minutes apart. A handler is only fair to finish when its connection is closed, for
  the server has neither a read nor a write timeout; `run` ends all the same, because the forced
  close cuts the connections.
- `Upstream`: the steps of the loop; the round trip only under lockdown, whose timeout
  ends it. Without lockdown a service that never answers keeps the call, and
  nothing is claimed.
- `ChunkPipe`: the goroutine passes on what it has read, since none of that waits for the
  network; reads and writes are fair only once the request is cancelled, for then every
  read of the body and every write to the client fails or succeeds at once. A service
  that stays silent, or a client that stops reading without going away, is allowed to
  keep both sides waiting until then.

## Theorems

All hold for every value of the constants that meets the named assumptions: any number
of goroutines, connections, contexts, slots, waits, chunks, models. The assumptions keep markers
apart from values, `Slots > 0`, and fix the type of the inputs. Four say more about those:
`BuiltinAssumption`, that the built-in models have keys; `ScenariosAssumption`, that a configuration
is one `run` can be given and a request one a client of the protocols sends (`IsRequest`: turns as
`IsConversation` says, a system prompt of text, a choice only of tools that are offered);
`ImagesAssumption`, that the note for an image is a text; and `ChunksAssumption`, that a chunk without a choice carries no
delta and no stop reason, which are fields of the choice (`convert.go`, `upChunk`).

The models fold over sequences, and the theorems hold for sequences of any length. The
library's induction theorems cannot be used for that, since they take an operator, but a set can be
given to its theorem on well-founded relations: `Least` (a set of naturals that is not empty has a
least element) is applied to the lengths at which a claim fails. On it rest `FoldSteps`, which says
that a fold passes through intermediate values one element at a time, and `Flattened`, that
`FlattenSeq` of one more sequence appends it. What the proofs need of `ToolCalls`, `Remap` or
`CollectTools` then follows from the same claim about one tool call.

| Module | Theorems | Argument |
|---|---|---|
| `AuthManagerProofs` | `TypeCorrect`, `CleanCredentialsAreSaved`, `ReceivedRotationIsKept` | `TypeInv` strengthens the types by control facts: who owns `a.mu` is at a critical point and nobody else is; a goroutine that builds, commits or adopts holds a candidate and a context of matching type. Layers (`Flags`, `Control`, `MuOwner`, `DownIdle`, `Data`, `Locals`, `CandidateHeld`) are preserved separately. The second theorem needs nothing beyond it: whatever changes `ui` sets `dirty` or writes `disk` in the same step. The third adds `RotationInv`: while a refresh installs its context, its candidate holds what was received, and otherwise `ui` does; the error path moves it into `ui` in the step that gives the candidate up. |
| `AuthManagerProofs`, contexts | `RequestsUseOpenContexts`, `ContextsAreNotLeaked`, `CloseIsFinal` | `ContextInv`: a context in use is the current one, the current one is open, one not yet published or already replaced belongs to the goroutine at the point that publishes or closes it, and a closed manager has no owner of `a.mu` and no context. A new context has an identity no open one has, so what is closed is never what is current. |
| `AuthManagerProofs`, sessions | `SessionsDoNotMix`, `ProfilesBelong`, `NewestTokenIsKept`, `FileAdvances` | `SessionInv`: a refresh and the context it builds are of the session in memory, a pending login's of its own; a user with the access token of a login in progress is of that login's session (`Fits`), which is why the pointer comparison of `fetchUserInfo` is enough. `TokenInv`: no pending login has the refresh token the manager may spend (`Apart`), and the newest token, which is the candidate's while a refresh is adopted, is accepted; with `CleanMeansSaved` that carries over to the file when the process stops. `SessionsApart`: file and pending logins are of different sessions; `Ordered`: memory is not behind the file, a refresh not behind memory, so neither a save nor a login turns a session back. |
| `AuthManagerProofs`, refinement | `ImplementsStore` | All of the above, and `SaveInv`: only a credential in memory is dirty and only a dirty one is saved, the flag being set before `saveLocked` begins and cleared by nobody else inside, and whoever waits to install a context has one. Six actions need an argument (`RefreshSucceeds`, `ProfileSucceeds`, `CommitReplaces`, `LoadCompletes`, a save and a swap): what they install is a successor in its session of what was held, in a manager that is not closed. The others change nothing the store can see. |
| `ReadOnlyAuthProofs` | `TypeCorrect`, `RequestsSignFreshLogin`, `RequestsUseOpenContext`, `ContextsAreClosed`, `LoginsAdvance` | Four layers. `Control`: the owner of `a.mu`, and readers exclude a replacement. `Order`: file, `ui`, the context being built and the current one descend in this order, and a request past its load is no newer than the current context; neither freshness nor monotonicity is inductive without it. `Contexts`: each open context is current, being built or being retired. |
| `LifecycleProofs` | `UsersFindManagerOpen`, `RunReleasesEverything`, `SlotsAreReturned`, `ErrorsAreReported` | `Phases`: what exists at each point of `run` and which goroutines can run. `Gate`: once the shutdown goroutine is past `admission.wait`, the gate is closed and nobody is behind it, so nobody can get there again. The slots need a count of the handlers that infer, by cardinality of finite sets. `Collected`: `run` takes the errors only once the shutdown goroutine is done. |
| `UpstreamProofs` | `LoopReturns`, `NoBodyLeaks`, `QueueSignalsWork` | `Points`: a forced refresh is only under way in the first attempt, a sleep in the first three, and the time slept is at most thirty seconds per attempt left behind. `QueueSignalsWork` is about calls without lockdown, for which `upstream_queue` has no counterexample. |
| `ChunkPipeProofs` | `TypeCorrect`, `AnswersAreFaithful`, `ImplementsDelivery` | `Numbering`: received and queued chunks are consecutive and, with at most one in the hands of the goroutine, all of them. `Phases`: the handler is past the loop only when the channel is closed and empty, and a cancelled request has been left or has its answer. `Errors`: an upstream failure is in `errc` before the channel is closed and until the handler takes it. None of the three is inductive without the other two. The refinement shows of each action which step of `Delivery` it is, or that it is none. |
| `ManagerProofs` | `TypeCorrect`, `LockIsExclusive`, `SettingsAreKept`, `StoppedGatewaysAreGone`, `GatewaysAreKnown` | Each property has an invariant of its own over the types. `LockExclusive` is inductive. `Editing`: what is about to be renamed has been backed up and holds the user's last version, unless `windowed`. `Stopping`: native processes only go forward, so the gateway a command has posted to cannot come back. `Announcing`: one process listens, and a serve that removes `status.json` finds its own there, unless `raced`. |
| `RequestsProofs` | `NamedOrRefused`, `WindowIsChosen`, `ListIsHonest` | `Loaded`: once the gateway serves, its catalogue is that of its configuration. `Answered`: the last answer is none, a refusal, the list of that catalogue, or that to a request whose identifier resolves to the model it was served by. `MergedEntry` says what a key of the catalogue stands for (an entry of the file or a built-in model, under lockdown an enabled entry), `ModelFacts` and `WindowOfModel` what window a model has, `Resolved` to which models an identifier can resolve. `ListIsHonest` also needs `KeysDiffer` and `NamedIsFound`: a name that is a model's own is found again, and nothing else is. It does not say that every listed identifier is found, which is false (`requests_listed`): a shared name, or one that is another's key, gives under lockdown no model or that other one, and nothing is said of identifiers in `[1m]` and of mapped ones. |
| `RequestsProofs`, conversations | `ConversationsAreKept`, `ResultsDirectlyFollow` | `Talking`: the last body says what the client of that protocol said (`Says`). Messages and Chat Completions translate turn by turn: each turn becomes a segment (`Shaped`) that begins with the results of its calls and otherwise speaks with its own role, and the concatenation of such segments, joined where roles repeat, is the conversation. The Responses conversion goes through the items one at a time; its invariant (`Tells`) holds what has been said up to an item, the calls collected and not yet flushed included. The cache marker and the system message change nothing that is said. What is said includes the output of each call; that the conversion of an Anthropic result is `InWords` of it, with images noted or left out, is `ToolResultText`'s part of the segment. Thinking and the Responses choice of one function are excepted. |
| `AnswersProofs`, protocols | `EventsKeepProtocol` | `Writing`: the open block or item in the state of a writer is the one the events so far have open, its index the next one (`AReading`, `RReading`), and after the end nothing is open (`AOver`, `ROver`). Every method of `streamState` and `respStreamState` keeps this, calls with any number of fragments by induction over the fold. |
| `AnswersProofs`, contents | `StreamIsBody` | Three invariants, one for each protocol. `AAlike`: gathering the deltas of the events of a kind gives the buffer of `collectAnthropic`. `RAlike`: the items that are done (`RBook`) with the buffer of the one that is open give the buffers of `collectResponses`, and the deltas at each index are the text of its item. `OAlike`: the calls collected are what the fragments make at indices 0, 1 and so on without a gap (`OCalls`), and both halves renumber alike. The first two are not inductive without `Writing`, which knows when a response is over. |
| `AnswersProofs`, calls | `CallsReachClients` | `Keeping`: while the answer is `regular`, each of the three writers has a record of the calls that agrees with `calls` (`Kept`), the last of which is the one that is open if any is. A chunk's fragments are taken in lockstep with `UpChunk`'s client of the documented form, by induction over the fold. |

The types of `AuthManager`, `ReadOnlyAuth`, `ChunkPipe` and `Manager` are proved and not listed in
a run.

Checked by TLC only: the liveness properties, which need fairness and `ENABLED`. Every invariant,
every action property and both refinements of the passing runs are proved.

## What is abstracted

- Time: expiry checks and timeouts are choices; the delay before a failed
  save is retried is a flag; waits of `callUpstream` are numbers.
- A login is a number, an error has no text. Logging and the dump directory are left out.
- The temporary file of a save: nothing reads it, only a crash can leave it behind.
- `SIGKILL`, a crash and an ordinary end are the same action in `AuthManager`; within
  `Lifecycle` the process does not crash.
- A prepared request keeps `ctxMu` while it is signed, which has no I/O.
- A wait so long that its nanoseconds overflow.
- How bytes of the body become frames (`readSSE`), and token arithmetic.
- Schemas of tools, arguments of calls, effort and token limits of a request; unknown kinds of blocks and
  items, `is_error` of a result, images without a source. Contents are well formed, but for outputs in the Responses API.
- `current` of the script, two reads of a file and of `/health`, is one read; temporary files
  have a name of their own for each writer and are left out.
- Each backup of the settings has a directory of its own; the script names it by the millisecond, and two
  commands in one would share it. Of the settings only the user's version is kept: `buildClaudeSettings`
  replaces the routing and some settings that go with it (telemetry, error reports, tool search, windows).
- Two branches are unreachable and have no action: `replaceContext` with `closed` set,
  since its callers hold `a.mu` and only `Close` sets the flag, also under `a.mu`.
  `prepareWithCurrentContext` without a context means the manager was closed.

## Observations

Behaviour met while modelling that no text of the repository contradicts:

- A client that disconnects while its request refreshes the token cancels the refresh;
  if the service has already rotated, the rotation is lost (`lost`, `TokenUsable`).
- A rotated refresh token without an expiry keeps the expiry of its predecessor.
- A streamed answer whose body breaks off ends like a complete one, with stop reason
  `end_turn`; an answer without any content has no `message_start` before its
  `message_delta`, or is an empty stream with status 200.
- Arguments that resume after text open a second tool block with the id of the first
  (`CallsKept` claims calls only while `regular`). Calls without id or name differ between stream and collected body.
- The Responses stream ends with `response.completed` also when the status is
  `incomplete`; without any item its `output` is `null`. Usage that comes beside a delta is
  only in the collected response.
- A call begun with a name alone is a new call in the Responses API, and a fragment of
  the one before in Chat Completions, where only ids count.
- A failed Chat Completions stream ends with `[DONE]` like any other.
- The branch for a writer without `Flush` is unreachable with net/http's own writers; it
  is modelled (`Unsupported`), since it is the one case of a handler that leaves the
  producer behind.
- `collectAnthropic` overlooks a finish event without data and reads to the end.

- Under lockdown a display name that is another model's key is listed for both and gives the
  other; one that ends in `[1m]` is listed and looked up without the ending (`proxy.go:956`).
  `ListedIsServed` excepts these and what `requests_listed` shows.
- An image in a tool result of an Anthropic client reaches the service as "[image omitted]", or not at
  all when it is a URL (`convert.go:317-321`); `ConversationKept` states it. An output that is a list, as the
  Responses API allows, makes its request fail with 400 (`responses.go:42`, `responses.go:109`).
- A Chat Completions system prompt given as a list of parts is dropped (`openai.go:241`), and
  array content of a message gets no cache marker.
- The Responses API's choice of one function is passed on in that API's flat form, beside
  tools in the nested one; text between a call and its output separates the two in the body
  (`ResultsFollowCalls`, `ConversationKept` except these).
- A command that is killed, or whose write fails, between creating `control.lock` and writing its
  owner leaves an empty lock: no later command can tell that it is stale, so none says so
  (`qoder-gateway.mjs:60-67`).
- A serve that ends may remove the `status.json` another serve has just written
  (`qoder-gateway.mjs:123`), and one whose native process has just ended may still
  announce it (`raced`). A gateway that is not in `status.json` is not found by `stop`,
  and keeps the port.
- An edit between the comparison and the rename of `claude-enable` is lost (`windowed`,
  `qoder-gateway.mjs:202-203`); the backup holds what was there before. Settings deleted after the
  command has read them come back.
- `claude-enable` replaces more than `README.md:61` and `docs/claude-code.md:11` call routing: it also turns
  telemetry and tool search off (`qoder-gateway.mjs:178`).
- `stop` posts to whichever gateway listens, which may be another than the one it saw.
- A serve that is killed before it has written `status.json` leaves a native process nobody knows.

## Plan

Done: the managers, the lifecycle, the upstream call, the chunk pipe, the streams and their
composition, the catalogue and the conversions, the manager script, the abstract specifications of
the chunk pipe and of the credential manager, and the proofs of all safety properties. Further work:

1. An abstract request gate that `Lifecycle` implements, and a read-only variant of
   `CredentialStore`, whose file belongs to another program, for `ReadOnlyAuth`.
2. A composition of `Upstream` with `ReadOnlyAuth` for concurrent 401s.

## Not modelled

- The codecs, `native_credential.go`, `native_runtime_fields.go` and `native_uuid.go`: pure byte
  transformations and cryptography, with fixtures and fuzz tests of their own.
- `tools/`: oracles and benchmarks, not part of the running program.
- Flag parsing, the dump directory, `readSSE` byte by byte, and what the table of components in
  `PROJECT.json` names as left out of a part.
