# Verification of the Bidvia agent client

TLA+ models of `@bidvia/client`, the TLC runs that check them on small
instances, and theorems about them checked by TLAPS for every value of the
constants. Source paths are relative to the repository.

## The system

The package is a typed SDK, a CLI (`bidvia`) and a local MCP server. A command
or tool call that executes something remote goes through one *surface run*,
which drives a *task runtime* over a *journal file*, calls the helper through a
*capability orchestrator* and records what happened in the *local
accumulation*. Helpers end in the *request transport* of the client. Beside
them stand the *flows*, chains of governed calls that an embedding program
starts, and the *reproducibility script* of `scripts/`, which verifies a
release and publishes the verdict.

```
 MCP peer --frames--> mcp-server --tools/call--> mcp.ts --.
 shell ---------> cli.ts --+------------------------------+--> runBidviaSurfaceCapability
                           | onboarding state file        |     one run, one track
                           |                              |       | journal file, 4 accumulation files
 program --> flows, universe, coordinator                 |       v
                           |                              |   BidviaTaskRuntime
                           v                              v       |
                    BidviaCapabilityOrchestrator (policy, context, gate, serial lane)
                           v
                    BidviaClient: one method a route --> request transport --> core

 scripts/verify-task10-...: authority --> gate recorder --> producer's evidence --> publication
```

| component | state | operations | what is hard | what makes it correct |
|---|---|---|---|---|
| task runtime (`src/runtime/task-runtime.ts`) | `state`, the journal object, captured results | 13 asynchronous methods, each an await or several | callers interleave at awaits; replies are lost; a save fails; the process ends anywhere and a new object is built from the file | no terminal call without a commit, status never ahead of the core, what is acknowledged is on the disk |
| journal (`task-journal.ts`) | one JSON file | read, write in place | truncation, overlapping writers | what a reload resumes from is true |
| orchestrator (`capability-orchestration.ts`) | identity, tail of a promise chain | `call`, `runSerial` | order and exclusion carried by promises only | serial calls exclude each other in FIFO order, writes are blocked without context |
| catalogue and contract matrix (`capabilities.ts`, `core-payload-contract-matrix.ts`) and the routes of the client (`client.ts`) | constant tables | look-up | three hand-kept tables must agree, over every identity | a call that is admitted has every context key its request writes |
| entry points (`cli.ts`, `mcp.ts`, `discovery-catalog.ts`, `cli-runtime-dispatch.ts`) | none | 120 commands, 101 tools | each checks a part of what the layers below need | refused before the first request or not at all |
| surface runtime (`surface-runtime.ts`) | a run's position, the error it will report | `runBidviaSurfaceCapability` | eight awaited steps, each may fail, two nested failure handlers | what is reported, saved, committed and accumulated agree |
| accumulation (`local-accumulation/store.ts`) | four JSON files | read, write | four writes at once, shared by processes | never claims more than the core has, tells of one run |
| request transport (`client.ts`) | a controller, a timer, a listener per request | `request` | timeout, abort and answer race at every await | the error kind is true, nothing leaves after a cancel, nothing is left behind |
| MCP server (`mcp-server.ts`) | a byte buffer, requests under way | `data` listener, `handleRequest` | chunk boundaries, concurrent requests, junk | each message handled once and answered once |
| onboarding state (`local-onboarding-state.ts`, `cli.ts`) | one JSON file, sessions and claims at the core | sign in, claim, revoke: read, ask, write | lost updates, in-place writes, lost replies | never pairs the session of one account with the agent of another |
| flows (`registration-lifecycle.ts`, `registered-agent-operations.ts`, `connection.ts`, `universe.ts`, `handoffs.ts`, `commercial-action.ts`, `coordinator.ts`, `business-universe/`) | none locally; objects at the core, evidence in memory | chains of governed calls | a failure in the middle, the core choosing other ids than planned, a resumed run | later calls name the object that was made, evidence is of this run |
| reproducibility script (`scripts/verify-task10-client-reproducibility.ts`, `scripts/task10/`) | child processes, logs, staging directory, three final paths | record gates, assess, freeze, discard | timers racing a close, partial promotion, rivals, crashes | a receipt that says passed stands on evidence, a whole receipt on a whole publication |
| plane views, participation shells, reports, contract validators, live probes, type exports | none | pure functions, one-off scripts | little: data | tests read them line by line |

`PROJECT.json` lists every component with its status, and every hazard met
while reading the code with its line.

## Modules

| module | models | notes |
|---|---|---|
| `TaskRuntime` | the runtime object, its methods, its journal file and the core's answers | |
| `ResultLedger` | what the runtime promises the core | abstract specification of `TaskRuntime` |
| `TaskRuntime_proofs` | inductive invariants, for any callers and for one, and refinement, proved | |
| `CapabilityOrchestrator` | policy, context, gate, promise chain | the catalogue is its constant `Registry` |
| `FifoLane` | a queue and one call under way | abstract specification of the lane |
| `CapabilityOrchestrator_proofs` | lane, guard and the refinement of `FifoLane`, proved for any catalogue | |
| `RouteCatalogue` | the capability catalogue, the payload contract matrix, what each client method demands and writes | data |
| `EntryPoints` | CLI commands, MCP tools, SDK helpers: what they check and which calls they make | extends the orchestrator and the catalogue |
| `SurfaceRuntime` | a surface run | extends `TaskRuntime` and uses its actions whole |
| `SurfaceRuntime_proofs` | a run implements the runtime, and goes on; what it reports, tells the core and accumulates, proved | |
| `RequestTransport` | concurrent requests sharing a caller's signal | |
| `RequestTransport_proofs` | safety, and what timers and cancels lead to, proved | |
| `McpServer` | the framing loop and the responses | |
| `McpServer_proofs` | framing and responses, proved for any stream | |
| `LocalFile` | a file that several processes truncate and write | shared by the next two |
| `LocalAccumulation` | the four files of a run under one `Promise.all` | |
| `CliState` | sign-in, claim, revoke and execution commands of several processes over the onboarding file | extends `LocalAccumulation` |
| `CliState_proofs` | file, sessions and memories, proved for any processes | |
| `GovernedChain` | scenarios, coordinator, business universe with resume | |
| `GovernedChain_proofs` | objects and evidence of a chain, proved | |
| `CommandRecorder` | a gate command: child, two pumps, three timers, two logs; the list of gates | |
| `Publication` | assessment, staging, freeze, rollback, discard by several publishers | |
| `AtomicPublication` | what readers of a publication root may see | abstract specification of `Publication` |
| `Task10Evidence` | the producer's artifact graph, scenario rows, evaluation, conclusion | operators |
| `VerifyTask10` | the script: composition of recorder, evidence and publication | instances of the two, one fault budget |
| `VerifyTask10_proofs` | recorder, conclusion, publication root, exit code and progress, proved | |
| `MC*` | instances for TLC | |

### TaskRuntime

A method is cut at its awaits; what lies between two awaits is one action, as
it is on the event loop. `pc[c]` says where caller `c` is suspended:

| `pc` | the caller awaits |
|---|---|
| `idle` | nothing: it is in no method |
| `calling` | `clientPromise` and the core's answer, or the capability |
| `opening` | `mkdir`, and the open of `writeFile` that truncates the file |
| `writing` | the write itself |
| `settling` | the hooks, and the promise it will return |

`Persist` is `persistJournal` up to its first await: recovery is replaced in
the journal object and the text to write is built *then* (`snap`), so a later
change of the object does not reach that write. `commitStagedResult` captures
the journal's own pending object (`held`) and marks it after the await; results
are told apart by `id`, so a restaged result is another object and the journal
sees the mark only while it still refers to the captured one. The terminal
methods capture the clone in `state`.

A journal keeps its last attempt and last progress marker, its at most one
pending result, the marker to resume from and the set of protocol ids: these
are all the code reads back. Timestamps, details, references, participation
shells and hook payloads are dropped. A file is absent, empty (truncated),
garbled (an overlay that does not parse) or a journal; the validators are what
tells these apart. `Restart` reads whatever is there.

The core performs a request (`CorePerforms`) and the reply arrives or is lost
(`CallRejected` with `applied`); a refused request is `CallRejected` without
it. `faults` bounds lost replies, failed saves and crashes together.
`createBidviaTaskRuntime` builds a *new* object when a process starts, so
`Restart` ends every caller.

### CapabilityOrchestrator, RouteCatalogue, EntryPoints

`KindOf` keeps the order of the tests in `inferExecutionKind`, as the order
decides. A capability is the record of what those tests, the context check and
the gate read of it. The lane is the chain of promises itself: numbers stand
for promises in the order they are made, `awaits` and `holds` for the two the
closure of `runSerial` has, `tail` for `this.serialExecution`. A call that
throws before the lane changes no state and is no action. A call without a
helper key (the parameter is optional) goes straight to its function. The
queue of `FifoLane` is the serial callers not yet let in, sorted by the promise
each holds.

`RouteCatalogue` holds the catalogue entry by entry in the order of the source,
stretch by stretch, as functions joined with `@@`; `Client` says for every
method of the client which parts of the context it demands and which it writes
into path and headers. `EntryPoints` gives each command and tool the context it
checks (`requires`), the context its client carries (`carries`), the ids it
checks (`ids`), the helpers it asks the orchestrator for (`via`) and the calls
it makes in order (`calls`), and names for each client method the ids its path
needs. `Reached` cuts the calls at the first one the client refuses. The
identity ranges over every subset of the context keys.

Where an entry makes one of several calls, according to what is missing
(`repairClaimantReadiness`, the selection of an organisation), the calls are
listed in order, as for the properties the set of them matters. Previews and
the platform-managed inspections make no call.

### SurfaceRuntime

The module extends `TaskRuntime` with one caller, `Surface`; each of its steps
is one of the runtime's actions together with the run's own continuation, or
leaves the runtime alone. `phase` is the position in
`runBidviaSurfaceCapability`, `fate` the outcome it will settle with. A later
run of the same logical work has the same fingerprint (`now` and `expiresAt`
are deleted from the input before hashing) and so the same journal: runs are
numbered, and `Attach` loads what the previous one left. `port` is whether the
client of the run has `commitRuntimeResult`, chosen when the run opens; the
shipped client has not. The accumulation is one group of files here, with what
its usage record says and the result it copied; a write that fails half-way is
`torn`. Runs of one track are one after the other.

### RequestTransport

Each request has its own timer, listener and flags, and the caller's signal is
shared, as one `AbortSignal` is when a caller passes it to several requests.
`left` is whether the request went out: `fetch` with an aborted signal rejects
without sending. Statuses of responses are one outcome (`status`); which kind a
status maps to is a table tests cover.

### McpServer

Bytes are the parts of a frame the loop tells apart: the name and number of the
length header, the two halves of the blank line, and body bytes, each tagged
with its frame so that the model can see when the loop takes bytes of two
frames for one body. `Streams` are what a peer may send and `frames` what this
one does. JSON is abstracted to that: a text decodes when it is exactly the
body of one valid frame. A frame without a body is invalid: the empty text is
no JSON (`FramesAssumption`). A frame the server answers without I/O ("local",
"note") settles in a microtask, before the next chunk.

### CliState

A command reads the onboarding file once (`snapshot`), asks the core with the
session of the environment or else of the file, and replaces the file by a
state computed from the reply and the snapshot. The four ids of a claim move
together and are one value, the account that made the claim. `fs.writeFile`
truncates and then writes, so another command may read nothing or, when a
shorter text is written over a longer one, a text that does not parse; both are
read as no state, which is what the loader makes of them. The two onboarding
actions are runs of the surface runtime: one that is refused or whose reply is
lost goes through its failure handler, which writes the four memories as a
success does (`failing`), and only then rejects. The memories of a run carry its
number; `lone` is the run that accumulated last, if no other was at it meanwhile
and nothing cut it short.

### GovernedChain

A chain is the list of calls still to make (`todo`); a step is one awaited call
with the objects it names (`acted`), the one it creates and the one the reply
may name instead (`named`). Core keeps the planned id, chooses another, or says
nothing. Between the scenarios of the coordinator no id is handed on: each runs
on its part of the plan (`coordinator.ts:172`, `:206`). `ids` are the ids the next calls will use, as the code computes them
from plan and reply; `bundle` is the evidence recorded so far, which is lost
when a call throws, as in the code. The universe's snapshots (`read`) decide
which stages are left, and its resume artifact is the state `ResumeUniverse`
starts from. `None` is no id, no object and no mode of a reply
(`NoneAssumption`).

### VerifyTask10 and its parts

`CommandRecorder` follows one gate command at a time: `child` is what the
operating system knows, `pump` where each `pipeline` is, `armed` the timers
that will fire and `fin` the finalizer that `settleOnce` let in. Every event may
still arrive after the settlement, until the loop goes on. `Publication` has one
action for each awaited step of a freeze; the only protection between
publishers of one package name are the exclusive creations at the final paths,
and `promoted` is the list a rollback takes back in reverse. A copy is two steps,
as the `copyFile` of Node creates the file and then fills it: `final` says who
made the file and `filled` whether its content is there. A copy that fails takes
back the file it made; one whose process dies leaves it cut. `Task10Evidence`
keeps the order in which artifacts are validated, as the artifact a producer
run stops at determines groups, facts, affected families and rows.
`VerifyTask10` instantiates recorder and publication with its own variables and
one fault budget, and follows the script through both assessments, the freeze
and the catch; a rival makes the publisher's calls in any order.

## Runs

`CHECK_DEADLOCK` is off where the system may stop: after the last run of a
track, when every request has settled, at the end of the peer's stream or when
the server died, when the script has ended, when the bounded commands and runs
are used up.

| run | configuration | distinct states | what it shows |
|---|---|---|---|
| `runtime` | `MCTaskRuntime.cfg` | 970 370 | all 13 methods in any order by one caller, one fault anywhere |
| `shared` | `MCTaskRuntimeShared.cfg` | 153 681 | two callers interleaving; `ResultLedger` is implemented |
| `writers` | `MCTaskRuntimeWriters.cfg` | violation | `SingleJournalWriter` |
| `orchestrator` | `MCCapabilityOrchestrator.cfg` | 53 496 | three callers over the shipped catalogue and every identity; `FifoLane` is implemented; queued calls run; the context and the checked ids of every command, tool and helper against catalogue and client |
| `surface` | `MCSurfaceRuntime.cfg` | 71 945 | three runs, each with or without a commit, two faults, crashes; runs settle |
| `surface_blocked` | `MCSurfaceRuntimeBlocked.cfg` | violation | `BlockedCallsAreNotResults` |
| `transport` | `MCRequestTransport.cfg` | 11 070 | three requests at once, with a timer, a signal or both; they settle |
| `mcp` | `MCMcpServer.cfg` | 1 151 | a stream of the protocol and one with junk, in every chunking; liveness |
| `verify` | `MCVerifyTask10.cfg` | 446 254 | the script with two gates against a rival publisher, one fault or crash anywhere; `AtomicPublication` is implemented; the script ends |
| `cli` | `MCCliState.cfg` | 836 608 | two processes, three commands, one fault, one session of the environment; failed runs accumulate too |
| `flows` | `MCGovernedChain.cfg` | 156 199 | every scenario, two runs, replies that name other ids, refusals and lost replies, a resumed universe |
| `coordinator` | `MCGovernedChainCarried.cfg` | violation | `ContinuesOnReturnedIds` |

What each property says is the comment above its definition. In short:
`runtime` is about what one caller may rely on (the status agrees with the
core, the resume marker with the journal, an acknowledged save with the disk,
repeated commits with a fault), `shared` about what still holds when two
callers interleave, `surface` about what a whole run reports, `orchestrator`
about order, admission and the agreement of the tables, `transport` about what
ends a request and what it leaves behind, `mcp` about framing, `verify` about
what a verdict stands on and what a whole receipt stands for, `cli` about whose identity the
file holds, `flows` about which objects the calls and the evidence name.

### The bounds, and why they are enough

- `Callers`: one where a property is about a sequential user, two where it is
  about interleaving, three on the lane, so that one waits behind a waiting
  one. An action reads the shared object and its own captured values.
- `MaxStagings`: two in `shared`, so that a result can be replaced while the
  first is being committed or closed; three in `surface`, one for each run; one
  in `runtime`, where the other twelve methods multiply.
- `MaxAttempt` two: one attempt opened by a timeout.
- `MaxFaults`: one in `runtime`, `verify` and `cli`: a fault anywhere and what
  the code does about it; two in `surface`, which lets the save in the commit's
  catch fail after the commit's own save failed; none in `shared`, whose
  property is proved for any number, as are the safety properties of `verify`.
- `MaxTerminals`: above `1 + MaxFaults`, so the guard never hides a repetition
  that `RepetitionNeedsFault` would forbid; two in `shared`.
- `MaxPromises` four: more links than callers, so a caller joins again behind
  others.
- `Helpers`: one of each kind of policy goes through the lane (its proof is for
  any catalogue); the table properties quantify over all 149 client methods,
  147 catalogue entries, 120 commands and 101 tools under all 64 identities.
- `MaxRuns`: three in `surface`, a run after a failure and one after its retry;
  two in `flows`, the second of which may resume the first; one in `coordinator`,
  whose property is about the results of one run.
- `Streams`: four or five frames of at most two body bytes: every frame boundary
  falls in every place of a chunk, and a chunk may hold all of them.
- `Gates` two: the second one runs, or is skipped after an error of the first.
- `MaxCommands` three by two processes: two overlap and one reads what they
  left. `MaxOverrides` one: the environment's session at most once.

`StateMatchesJournal`, `ResumeMarkerIsHonest`, `RepetitionNeedsFault`,
`AcknowledgedIsDurable` and `DropsOnlyClosedResults` are about one caller at a
time, and proved with that hypothesis (`OneCaller`). With two callers the code
lets each of them fail, on the very instance of `shared`, and nothing in the
repository says otherwise: a commit that returns after a restaging marks the
replaced object and puts it back in `state` while the journal keeps the new one;
a terminal call that returns after a restaging drops the new result; two
terminal calls both pass the check before either returns. What holds for any
number of callers is what the core relies on: the ledger is checked for two, and
proved with `CommitBeforeTerminal`, `StatusIsBacked` and `CopiesAreBacked` for
all.

### Where the code and its documents disagree

- **Single writer** (`writers`). Two blocked capability calls awaited together
  both save the journal, outside the lane, with a truncating `writeFile`. The
  trace ends with both callers idle, no fault, and a file that is stale or does
  not parse. The policies name the discipline `single-writer-task-runtime`.
- **Tools that cannot run** (proved: `SyncDownloadsNeverRun`). The two sync
  downloads are offered as execution tools (`discovery-catalog.ts:785-791` and
  `:945-951`; "Executes claimant execution sync download through the shipped SDK
  helper."), and the orchestrator has no execution kind for their families: the
  call throws with every identity.
- **Only executed failures become results** (`surface_blocked`). If the marker
  of a blocked call cannot be saved the I/O error replaces the blocked error
  and the run stages and commits a `fail` result for a call never made.
- **Continuing with the returned ids** (`coordinator`). The coordinator requests
  its connection for the planned match and approves its commercial action under
  the planned approval, whatever the earlier scenarios returned
  (`coordinator.ts:172`, `:206`). The guidance in its own steps says to capture
  the returned match id before continuing (`universe.ts:172`) and to "continue
  downstream with the returned match and approval ids" (`universe.ts:183`,
  `connection.ts:135`; `docs/VALIDATION_LANES.md:63` likewise), and the alignment
  of the two approvals is asserted of the plans only (`coordinator.ts:127`).

### What the properties leave open

- `EveryRequestIsWhole` is about context keys, and about ids where an entry
  checks any. The entries of `Unguarded` (`cli.ts:2091`, `:2098`, `:2105`,
  `:2116` among them) pass ids on unchecked, and an SDK helper's ids are what its
  caller passes: their paths can hold "undefined".
- `RefusedBeforeSending` exempts the universe run, which does stop half way.
- `WritesFailClosed` is about the families the policies guard; writes filed as
  reads escape it (see below).
- `PublicationIsAtomic` is about a receipt that is whole. Readers of the
  directory may find a package without its archive, and after a crash in the
  middle of a copy a cut archive or receipt stays at its final path and blocks
  the next attempt.
- `ExitTellsPublication` lets exit 1 leave a whole publication behind, as the
  code does when the last validation rejects.
- `AccumulationIsOfOneRun` is about a run that accumulates with no other run at
  it. Two that overlap leave a mixture until a third has written, and a reader in
  between is told of both.
- `DeadSessionsStayOut` excludes overlap and faults: that one of two overlapping
  updates of the onboarding file is lost is not forbidden by it.
- `KindIsHonest` takes a header provider to throw errors of its own. One that
  threw a `BidviaClientTransportError` would pass it on as it is
  (`client.ts:3223`), whatever its kind says.
- `StepsFollowTheReply` exempts the objects of `FromThePlan`, which a flow names
  by its plan to the end; `EvidenceIsOfTheRun` looks at each flow by itself.

### Described by the models and left to the maintainers

No document settles these; the models follow the code.

- Runtime: every save truncates the journal before it writes it, so a process
  that ends in between loses even a result kept for a later commit; after a
  timeout any other marker before the next execution hides it from
  `shouldIncrementAttempt`; after a reload a timed-out task reports `idle`; a
  rerun of a track calls the helper again although its result was committed; an
  accumulation that fails after the commit makes the run reject.
- MCP: a header without a length drops whatever else was in the buffer, so what
  is lost depends on the chunks; invalid JSON or a `null` message ends the
  server; a notification is answered with a null id.
- Catalogue: governed writes filed under `principal-governed-read` are
  classified as concurrent reads
  (`docs/CORE_AGENT_CLIENT_PLANE_CONTRACT_GAPS.md:90` calls them fail-closed);
  reads of the tenant family have no execution kind and throw;
  `createProvisionalAgent` runs without a tenant; the dispatch reads are
  catalogued as principal reads while the client sends them with the session;
  task-plane writes need a session the catalogue does not ask for.
- Entry points: the entries in `Unguarded` put ids into a path that came off a
  reply or an input without a check, so the path can hold "undefined"; a
  universe run without the administrator's session sends the claimant's part
  and then throws; the operator's commercial run checks that session but not
  the company it writes for.
- Onboarding: a session named by the environment can claim for another account
  than the file's; integration and decision commands drop the claimed ids; a crash
  between truncation and write empties the file; a
  lost claim reply or a failed write loses them while the core has the claim; a
  command that read the file before a revocation writes the session back.
- Flows: the claimant's handoff, the operator's matching, the commercial
  scenario's approval and the agent and registration of a registration keep the
  planned ids when a reply names others (`FromThePlan`), while connection,
  industry chain and operator continuation follow it;
  evidence of a run that throws is lost, and an accepted invitation cannot be
  replayed; the universe goes on after a snapshot that says `bounded-stop`, and
  its inspection reports any known commercial request as completed.
- Script: a command rejected in its drain can leave kill and settle timers
  armed; a forced exit whose logs cannot be moved leaves temporary files; an
  overflow reported after the close rejects the recording instead of giving
  125; the last validation of a freeze is not awaited inside its `try`, so a
  rejection leaves the whole publication in place and exits with 1; a crash
  leaves a package, or a cut archive or receipt, that blocks the next attempt; a blocked readback's row is
  reported as passed in the facts (its family blocks the conclusion).

## Fairness

- `CapabilityOrchestrator!FairSpec`: weak fairness of `Enter` only. The event
  loop runs a continuation whose promise is resolved. That calls settle is a
  hypothesis of `QueuedCallsRun`, as the transport has no default timeout.
- `SurfaceFairSpec`: weak fairness of the local continuations together (a run
  is sequential, so at most one of them is enabled at a time). Answers of the
  core are a hypothesis of `RunsSettle`, no fairness is assumed of them.
- `RequestTransport!FairSpec`: timers fire; a `fetch` whose controller was
  aborted rejects. Header providers are a hypothesis.
- `McpServer!FairSpec`: bytes the peer sent are read, the loop runs, and
  requests answered without I/O settle. Slow tool calls may take for ever.
- `VerifyTask10!FairSpec`: the script's own continuations, its file operations
  and its timers go on; a pump ends when its source has ended or was destroyed.
  Nothing is assumed of a gate's child, which may never close, nor of rivals:
  `ScriptEnds` holds because the timers end what the child does not.

## What is proved

TLAPS checks these for every value of the constants: every safety invariant,
every action property and every refinement that a passing run checks is stated by a
theorem. The named assumptions are
typing assumptions on the constants (`OperationsAssumption`,
`BoundsAssumption`, `RegistryAssumption`, `PromisesAssumption`,
`RequestsAssumption`, `MaxRunsAssumption`), and five say a little more:
`SurfaceAssumption` (a surface run is the one caller of its runtime),
`FramesAssumption` (a frame without a body is no JSON), `CliAssumption` and
`NoneAssumption` (no account, slot or mode of a reply is the value for "none";
a run writes at least one memory) and `VerifyAssumption` (the script is none of its rivals). TLC evaluates
each of them.

- `TaskRuntime_proofs`: `TypeCorrect`, `CommitFirst`, `StatusNeverAhead`,
  `CopiesBacked`, `RuntimeImplementsLedger`. `CommitBeforeTerminal` is not
  inductive: a terminal call is guarded by a mark in `statePending`, which came
  from a captured object, or from a file, which came from a snapshot. The
  inductive invariant `IInv` is `TypeOK /\ StatusIsBacked /\ CopiesAreBacked`
  with `CommitBeforeTerminal`: every copy of a result, wherever it is, is marked
  committed only when the core has the commit, every marker or attempt that a
  reload turns into `completed` or `failed` is backed by a terminal call, and a
  call under way has captured what it needs. There is one lemma per action over
  shared lemmas about `Persist`, `Leave` and `Advance`.
  With `OneCaller`, that is, with methods called one after the other as the CLI
  and the surface runtime do, five more: `CopiesAgree`, `ResumesHonestly`,
  `RepeatsOnlyAfterFaults`, `ReturnsDurably`, `DropsOnlyClosed`. None
  is inductive as it stands. `SoloInv` adds that a method waiting for the core holds the
  journal's own result (`HeldIsPending`), that a write under way writes the
  journal as it is (`WritesItsJournal`), that without a fault the file is the
  journal between writes (`SavedWithoutFault`), that no copy is of a staging
  still to come (`OnlyStaged`), and the count that carries
  `RepetitionNeedsFault` over a crash: a result that could be closed again
  without another fault, in memory or on the disk, has been closed at most as
  often as there were faults (`RepetitionsPaidFor`).
- `CapabilityOrchestrator_proofs`: `LaneInv` (promises resolve in the order they
  were made, holders hold distinct unresolved ones) implies mutual exclusion
  and FIFO (`OneSerialCall`); `WritesGuarded` by an invariant that a running
  call was admitted with the identity of the orchestrator, which never changes.
  `OrchestratorImplementsLane` is the refinement of `FifoLane`: promises are
  resolved one by one and each that is not has a holder (`PromiseInv`), so the
  promise last served determines who is inside (`ServedInv`) and the sorted
  callers are the holders of the promises after it, without a gap
  (`QueueInv`). `LaneNeverStuck` and `WaitsShrink` are what `QueuedCallsRun`
  rests on and needs no fairness for: while a call waits, one on the lane runs or
  may be let in, and every call that settles there takes itself from what each of
  the others still waits for (`Ahead`), to which nothing is ever added.
  `RefusedBeforeAnyRequest` and `RequestsWhole` are about the shipped tables, with
  the identity and the gates left open (the second needs the orchestrator to ask
  the shipped catalogue, `Registry = Routes`; a registry is otherwise any). An
  entry *fits* when the context it checks and its first call's demands cover the
  demands of its later calls, each call's demands and that context cover what the
  call writes, and the ids it refuses to go without cover the ids of its paths;
  `FitIsEnough` draws both invariants from that. The tables are walked stretch by
  stretch: a `Join...` lemma carries what holds of two stretches to their join, and
  the calls are sorted by what their path names (`AreNamed`) and by what they
  demand (`AreAlike`). The five calls of a registration write a tenant they do not
  demand, and fit only behind the orchestrator, because the catalogue requires it
  of them (`RegistrationSound`, `RegistrationAdmitted`). `SyncDownloadsNeverRun`
  finds two offered tools in the tables whose catalogue entries fit no policy. For these proofs
  `RouteCatalogue` defines `:>` and `@@` itself, as the standard module does; TLC
  evaluates `TablesAreTyped`, which says that the tables name only keys, ids,
  methods and helpers that there are.
- `SurfaceRuntime_proofs`: `SurfaceUsesRuntime` (`SurfaceSpec => Spec`), which
  carries every theorem of the runtime to the surface; `AccumulationNeverPretends`
  from `CopiesAreBacked`; `OneResultStaged` by counting the stagings a run has
  left in each phase. A surface run is one caller, so `SoloInv` holds of it too.
  On top of it `RunInv` says for each phase of a run which method of the runtime
  is under way and where (`BeginInv`, `ExecuteInv`, `RecordInv`, `EndInv`): what
  the disk holds before the helper starts, which outcome a pending result has
  after it returned or failed, and what is durable when the run decides its
  fate. `SuccessIsDurable`, `HelperOnlyIfJournaled` and `CoreIsToldWhatHappened`
  follow from it, whatever the bounds on runs and faults. So does the part of
  `RunsSettle` that needs no fairness: `RunNeverStuck` (an open run has a method
  that may start, a save to go on with or a request under way; the bound on
  stagings must allow one per run, which `StagingsLeft` shows to be enough) and
  `RunsGoOn` (every step of an open run lessens `LeftToDo`, a number of phases and
  awaits, so that a run has at most that many steps).
- `RequestTransport_proofs`: `KindsAreHonest`, `AbortsReachAll`,
  `NothingGoesOut`, `SettledHoldsNothing` from one invariant on flags, timers
  and listeners. On it stand `TimersAlwaysHold` (a timed request under way has its
  timer armed or fired) and `CancelledOnlySettles` (a cancelled request stays so
  and can only settle), which leave to the fairness of `RequestsSettle` only that
  a timer fires and an aborted fetch rejects.
- `McpServer_proofs`: `NeverMisreadsHolds` and `AnswersItsRequestsHolds` for any
  stream, junk included, and `ChunkingIsInvisibleHolds` for any stream of the
  protocol. The loop sees bytes and not frames, so the invariant speaks of the
  stream: the buffer is the stretch between what was taken off and what was
  received (`BufferIsAStretch`), and the frames handled are those taken off
  (`HandledIsTakenOff`). A header is then the first one left in the stretch,
  and its length cuts off exactly a body. In a stream of the protocol nothing is
  dropped and a stretch always begins at a frame (`ProtocolInv`). The lemmas on
  prefixes of the flattened stream are proved by induction over a set of numbers.
- `CliState_proofs`: `IdentityIsOfOneAccountHolds`, `DeadSessionsStayOutHolds`,
  `AccumulationIsOfOneRunHolds`, for any number of processes, commands, accounts
  and faults. A file may be a torn overlay of two states, so `StatesOfOneAccount`
  and `SessionsKnown` are about every state in it, read back or not, and about
  every state a process holds from a read to its write; `NumberedInOrder` makes
  a new session new. `SessionsAlive` says where an undisturbed command is.
  `LoneRun` says of the run kept in `lone` that no other accumulates and that each
  memory is still queued, opened and empty, or its own; as there is at least one
  memory (`CliAssumption`), what a reader is told of is that run.
- `GovernedChain_proofs`: `StepsFollowTheReplyHolds`, `EvidenceIsOfTheRunHolds`,
  in any number of runs, resumed ones included; the first for every object but
  those of `FromThePlan`: by `FlowMakes` the replies of a flow name nothing but
  these and the objects it takes over. `FlowInv` says that a flow that
  has made no call has acted on nothing and that from then on slots acted on,
  named, recorded and to be used next carry one id each (`OneIdEach`); `PlanInv`
  that a review comes after the commercial action it reviews and that a run
  connects once; `ResultsInv` and `ReportInv` keep what finished flows recorded.
  The tables enter through lemmas about each flow and each plan.
- `VerifyTask10_proofs`: `GatesLeaveNothing`, `ZeroIsDrained`,
  `PassedIsVerified`, `ReadersSeeWholePublications` and `ExitCodeIsHonest`.
  `RecorderInv` says for each phase of a command which finalizer has it and
  why (`Finalizing`: a success has a closed child, a settlement by timer a
  killed one, no timer is armed past the drain of a forced exit), what the pumps
  left of the logs (`Promoting`), that nothing is armed between commands
  (`Idle`), and what the recorded rows stand on (`Recorded`). It is kept by one
  lemma for each action of the recorder, and by the rest of the script, which
  does not touch the recorder's variables. `EvidenceInv` says that a candidate
  passes only after all evidence is in and that this evidence stays; with
  `Recorded` and the artifact graph it gives the verdict its meaning.
  `ReadersSeeWholePublications` is the refinement of `AtomicPublication`:
  `PublicationInv` says that a publisher remembers exactly what it owns at the
  final paths, in the order of promotion (`Owned`), how much that is at each
  step (`Reached`) and who a staging directory belongs to (`Staging`). A file at a final path that is not filled belongs to a copy under
  way or to a process that died in one (`Reached`), and an owner fills the receipt
  only over its own package and archive. So a whole receipt is never without
  them, publishing is the filling of the receipt, withdrawing the first step of a
  rollback, and no one takes back what another promoted.
  `ScriptInv` relates the exit code to the call that was last. `NoGateHangs` and
  `ScriptNeverStuck` are the part of `ScriptEnds` that needs no fairness: by
  `Watched` a running command has a timer left that settles it and a finalizer
  that gave up on the output has destroyed it, and by `Answered` a publication
  call settles only with an answer the script has a branch for. `TypeCorrect`
  joins the types of the three parts.

Only model-checked:

- liveness (`QueuedCallsRun`, `RunsSettle`, `RequestsSettle`,
  `SlowCallsBlockNobody`, `EveryFrameIsReached`, `ScriptEnds`), as proofs under
  fairness need `ENABLED`, which is out of reach of the prover. What they rest on
  besides fairness is proved for the lane, the surface, the transport and the
  script, with guards written out as state predicates; that these are the guards
  of the actions, and that a fair step is then taken, is left to TLC.

## Not modelled

Pure functions over constant tables or arguments (plane views, participation
shells, reports, readiness and journey, type exports), the bodies of requests,
argument parsing and printing, the shape of single artifacts, and the scripts
that walk a repository or a live deployment once. Hook events, the audit list
and the session record of a run are not variables: nothing reads them back.
Two runtime objects of one process over one journal file, as two concurrent
MCP calls of one track build them, are not composed; `writers` shows what
their overlapping saves do to the file, and `LocalAccumulation` what two runs do
to the four memories. The clearing of the accumulation has no caller in the
source. Removals inside a rollback are taken to succeed; all publishers share
one package name, the worst case. The core is external and appears as what its
answers do to the client.

## Plan

1. `SharedTrack`: two runtime objects over one journal, in place of the
   two-caller run, whose property is proved; and which of the one-caller
   theorems survive it.
2. The proposal, asset and pricing builders, the participation state of an
   agent, and the readiness the CLI computes from the onboarding file.
3. Proofs: the steps that `EveryFrameIsReached` and `SlowCallsBlockNobody` rest
   on and that need no fairness.
