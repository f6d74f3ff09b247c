# Verification of the Validator Ejector

TLA+ specifications of the Lido Validator Ejector, with TLC instances that
model-check them and TLAPS proofs of their central properties. Paths below are
relative to the repository's source directory `src/`.

## The system

The ejector is a daemon of a node operator. It watches the Lido Exit Bus for
`ValidatorExitRequest` events and answers each request by submitting the
voluntary exit of the validator: a presigned message broadcast to the beacon
nodes (messages mode) or a call of a webhook (webhook mode). One Node.js process
runs one job at a time; everything it knows is in memory.

| Component | State | Operations | Talks to |
|---|---|---|---|
| exit log cache (`services/exit-logs/{service,cache,fetcher}.ts`) | array of events with an `acknowledged` flag, header `endBlock` | `getLogs` | execution API, consensus API, verifier |
| event verifier (`services/exit-logs/verifier.ts`) | two LRU caches | `verifyEvent` | execution API |
| job runner (`lib/job/index.ts`), app (`app/service.ts`) | lock per job name, timer | `once`, `loop`, `run`, `stop` | job processor |
| job processor (`services/job-processor/service.ts`) | the locals of one job | `handleJob` | all of the others |
| message storage, processor, reloader (`services/job-processor/message-storage.ts`, `services/messages-processor`, `services/message-reloader`) | message and last update per validator, invalid files | `loadToMemoryStorage`, `exit` | readers, consensus API |
| fork version resolver | latched Dencun flag | `getForkVersionInfo` | consensus API |
| execution API, consensus API | resolved contract addresses | JSON-RPC and beacon calls | request and fallback library |
| request middlewares, fallback (`lib/request`, `lib/fallback`) | attempt counter, abort timer | retry, abort, fallback, broadcast | the nodes |
| webhook caller | none | `send` | the receiver |
| startup checks (`services/consistency`) | none | `checkChainIds`, `checkSync` | all endpoints |
| configuration (`services/config`), module (`app/module.ts`), jwt | the settings as parsed, the secret | `makeConfig`, `makeLoggerConfig`, `initialize` | environment, files |
| readers (local, S3, GS) | none | `read` | folder, buckets |
| http handler, metrics, logger, scripts | none that the protocol depends on | | |

What is hard here: every `await` of a job is a point where blocks are finalized,
exits are included or reorganized, and nodes fail; the two beacon states a job
compares are read at different moments and used later; endpoints behind one list
of URLs answer from different heights; the cache advances chunk by chunk and
survives a failed scan but not a restart; the timer fires into a running job.
The list of these hazards, each at its line, is in `PROJECT.json`.

What makes each part correct: the cache holds each event once, only what was
verified, and misses none below its header; the verifier accepts nothing that the
operator's allowlists do not vouch for, however its caches were filled, and rejects
nothing that they do without a failure; a configuration that is accepted serves what
is built on it; the runner never runs two handlers of
one name and never loses its lock; the job acknowledges a request only when its
exit cannot be undone, sends an exit only on a request, and keeps sending until
the request is fulfilled.

## Modules

| Module | Models | Relation |
|---|---|---|
| `ExitIntake` | abstract: what the cache promises the job | implemented by `ExitLogs`, used by `Ejector` |
| `ExitLogs` | exit log cache, one action per suspension of `getLogs` | refines `ExitIntake` |
| `JobRunner` | `once`, `loop`, lock map, `run` from its first job, `stop` | refined by `Ejector` |
| `Ejector` | `handleJob` with both chains, pools and the operator | composes `ExitIntake`, refines `JobRunner` |
| `MessageStore` | message storage, `loadToMemoryStorage`, fork resolver, reloader, local reader | detail of `Reload` in `Ejector` |
| `S3Listing` | the listing loop of the S3 reader | detail of `ListFolder` in `MessageStore` |
| `Verifier` | `verifyEvent`: both caches, the search for the consensus report, the checks | detail of `VerifyEvent` in `ExitLogs` |
| `Requests` | one HTTP call: retry, abort and error middlewares under fallback, broadcast, iteration | extended by `Startup` |
| `Config` | which settings are accepted, and what becomes of them | extended by `Startup` |
| `Startup` | `index.ts`: configuration, `run` up to its first job, exit and restart | composes `Requests` and `Config` |
| `MCExitLogs`, `MCVerifier`, `MCJobRunner`, `MCEjector`, `MCMessageStore`, `MCStartup` | TLC instances | |
| `ExitLogs_proofs`, `Verifier_proofs`, `JobRunner_proofs`, `Ejector_proofs`, `MessageStore_proofs`, `Startup_proofs`, `S3Listing_proofs` | theorems | |

**ExitLogs.** `cache` counts the entries of the array per event, `endBlock` is the
header, `block`, `blockTo`, `entry`, `logs` and `verified` are the locals of
`getLogs` and of the fetcher, `pc` the await they are suspended in. `Start` is the
call up to the first request (early return, `blockFrom`), `FetchEntry` one
`eth_getLogs` of the scope loop, `ValidatePublicKeys` the key filter,
`VerifyEvent` one `verifyEvent`, `CommitChunk` the synchronous push and
`setHeader` with the loop condition, `FailScan` a rejected request, `Restart` a
new process. Events are model values; the chain gives each its block when it is
finalized. Verification order within a chunk is left open, which covers the
array's order. The verifier is its verdict: it accepts the `Genuine` events, and
may reject one because a node failed (`VerifyFaults`). `LogsLag` lets the answer
to `eth_getLogs` miss the last blocks, `HeadLag` lets "finalized" go back, and a
consensus endpoint may not know the `LateValidators` yet, whose events
`ValidatePublicKeys` then drops as `validatePublicKeys` does. `missed` is
history that no action reads: the events an endpoint behind the chain left out of an
answer or dropped with their validator, or a node kept from being verified, in a scan
of this process. Keys are
compared per event but the filter keeps whole indices, as in the code. Scope
entries are disjoint (`ScopeAssumption`): the module ids are keys of one JSON
object and operator ids are made unique. (Ids that differ only in form, "1" and
"01", would overlap; the assumption leaves them out, and `ConfigServes` says when it holds.)

**Verifier.** `pc` is the request that `verifyEvent` waits for: the event's
transaction, the consensus lookup, one range of its `eth_getLogs`, the consensus
transaction. A transaction is a model value that stands for its signed content and is
its own hash; what it calls, for which report, through which `execute()` and who
signed it are functions of it. An answer may be any transaction under any hash, so a
node may lie about everything but a content that does not belong to its hash, which
the other transactions stand for. `FetchTransaction` caches an answer under the hash
that the answer names before anything looks at it, as `getTransaction` does;
`CachedTransaction` is the hit. `prepareTransactionData` rebuilds what a hash is made
of; a transaction with an access list, blobs or authorizations is not `Rebuildable`
and fails its integrity check. `LookUpConsensus`, `SearchRange` and `EndSearch` are
`consensusReachedTransactionHash` with the loop of `getLogs`, whose upper end is the
block of the event. Only the public key is looked for in the report's data, as in the
code: neither the index nor the operator of the event is compared. The entry a full
cache gives up and the order of the logs within a range are left open. The run has
events of a signed and an unsigned report, of an allowlisted submission, one that only
claims to be of it, and one whose frame begins before the chain; the
transaction that delivers the signed report cannot be rebuilt, which must not matter. One
request repeats a report in a later block, so that what the cache knows of the report
is true and still not of its frame.

**JobRunner.** `Enter`/`Skip` are the synchronous start of `once`; `FirstOnce` is
the awaited call of `run`, `StartLoop` what follows it, `Tick` a timer callback,
`Settle` the end of a handler with its `finally`. `stop()` is modelled for a
running timer only; called earlier it does nothing.

**Ejector.** `pc` names the await of `handleJob` that is next; every action of the
environment (`MineBlock`, `Include`, `Finalize`, `Reorg`, `PoolLoses`,
`ExitElsewhere`, `AddMessage`, `RemoveMessage`) may happen between any two. `taken` and `frontier`
are the intake; a scan is atomic here and may stop part of the way when the job
fails, which is what `ExitLogs` shows of its chunks. `headRec` and `finRec` are the
two snapshots. `Skip(e)` is an iteration of the loop without an await, `Send(e)` one
that sends, `SendFails(e)` one whose sends all fail. The loop visits the events in any
order. `FailJob` is a rejected call before the loop; a reload that rejects may have
dropped the messages of an older fork. A sent exit enters the pool of the beacon nodes; a webhook receiver is taken
to submit the exit. A message is a member of `stored`; `Reload` keeps or drops the
stored ones together, as a fork does, and `MessageStore` has the files, checksums and
forks behind it: `OneFork` is why all or none are dropped, `ReloadExact` says which
validators have a message after it. A message taken out of the folder is still
sent by a job that has reloaded before; `reloaded` is history that no action reads, the
folder as the job in hand found it, and `SentOnRequest` measures a sent exit by it.
`RequestsFulfilled` has three ways out: a request acknowledged by age, one older than the
preload window, and one whose message was taken away. The metrics at the end of a job change nothing the
job reads and are left out.

**MessageStore.** `stored` joins the two maps of the storage, `lastUpdate` is its
`LAST_UPDATE`, `isDencunActivated` the latch of the resolver, `invalid` the set
`invalidExitMessageFiles`. `BeginReload` is everything up to the reading of the folder
(the latch, the update cycle and the removal of other forks' messages have no await
between them), `ListFolder` and `ReadFile` are the local reader, `LoadNewMessages` the
parse loop with its touches, `LoadThrows` the same loop meeting JSON that is not an
object, `FetchState` the second question for the fork, `VerifyAndStore` what is
synchronous once the validators are known, `FileGone` and `FailReload` the rejections.
`read` and `complete` survive the reload so that the properties can speak of it.
A content is its own checksum; whether it parses, whose it is and which fork it is
signed for are constants. `ClockSteps` lets the wall clock go back between reloads;
without it each cycle is one later than the one before. Exits are read from a head
that is up to date and not reorganized (`Ejector` has reorganizations).

**S3Listing.** A page of keys is its number; `token` is the page the next list command
returns, and `TakePage` does with the flag and the token what the loop does.

**Requests.** `kind` is the call, and the sets `Fallback`, `BodyInOperation`,
`BodyAfterCall`, `ErrorBodyTimed` and `ErrorMessage` say how the application composes
it: which combinator, where the body of a good response is read, whether the abort
timer still runs while an error body is, and which middleware turns it into an error.
Each URL has its own `phase`, `attempt`, `status` and `outcome`; `acted` remembers what
the server did, of which the client may never hear. `Throw` is the `catch` of `retry`,
`NoResponse` a broken connection or the timer, `ErrorBody` one of the middlewares
`notOkError` and `clErrorMessage`, `Body` and `BodyAfter` the reading of a good body inside and after the
fallback; `NextEndpoint`, `EndFallback` and `EndAll` are the combinators. Errors are the
classes that `isNotServerError` and `isFallbackable` tell apart. Logging and metrics
middlewares only observe. An error body that is JSON `null` is a case of its own: the
`HttpException` that `notOkError` makes of it throws a `TypeError`, so such a response is
neither repeated nor passed on to another URL, even with a status that would be.
`FailureIsTotal` speaks of every kind of call: it fails only when it is `Spent` at the URLs
it may still ask. Only consensus calls have an exception, which the formula names: their
body is read after the fallback, so a body that breaks ends the call at that URL (the
finding `requests_body`). An error of the shape checks of a response counts as a body
that is no JSON.

**Config.** Pure operators on an environment, a record of the settings that decide
something: where exits go, the scope and the deprecated settings it replaces, the step,
the secrets that a file may hold. An id is a spelling with a parsed value, so that "1"
and "01" are two keys of one module. `optional()` turns only an absent setting into
`undefined`, so one that is there and does not parse is an error even where a default
exists; the deprecated settings are not read at all beside a scope. The remaining
settings are the flag `rest`.

**Startup.** `stage` is the step of `index.ts` and `run` that is next, `env` the settings
of the process, `reported` what `parseInt` makes of the answer of each URL, a `NaN`
included. `LoadConfig` is `makeAppModule`; a stage passes or fails with its call;
`FailCheck` is the `process.exit(1)` of `index.ts`, `Restart` the supervisor with
settings that may be others. In the stage "running" any call of a job may come, the
exits by the way that the settings name.

## Runs

| Run | Shows | Bounds |
|---|---|---|
| `exit_logs_work` | `NoRequestLost`, `RequestsTaken` with nodes that answer | 3 events in 2 scope entries, one of them forged; 4 blocks, chunks of 2, preload 2, lag 1, 2 faults |
| `exit_logs_hostile` | `NoDuplicates`, `CacheAuthentic`, `LostToNodesOnly`, refinement of `ExitIntake` | 3 events: one good, one with a wrong key for the same index, one of a foreign operator; log answers lag by 1, any validator may be unknown to the endpoint, verifications fail, 2 faults |
| `exit_logs_drop` | finding: a failed verification loses a request | 3 blocks, no other fault |
| `verifier` | `AcceptedIsGenuine`, `RejectedForCause`, `AcceptedInFrame`, `VerificationEnds` | 6 requests, 6 transactions, 3 reports; frame of 2 blocks read in ranges of 2, so the second range is cut; caches of 2 entries, 2 false answers per process, any number of verifications, failures and restarts |
| `job_runner` | mutual exclusion, meaning of the lock, jobs keep running | 3 runners, two of one name |
| `ejector_safety` | `YoungAckIsFinal`, `SentOnRequest`, refinement of `JobRunner` | 2 requests, 2 validators, 2 blocks, ack age 0, preload 1, lag 1, 2 reorganizations, losses or removed messages, 1 failure or crash, 3 deployments; the two validators are symmetric |
| `ejector_live` | `RequestsFulfilled`, `FulfilledIsAcked` | 1 request, 3 blocks, ack age 1, preload 2, lag 1, 2 reorganizations, losses or removed messages, 2 failures or crashes, both sending deployments |
| `ejector_reorg` | finding: acknowledged by age, then reorganized | 2 blocks, ack age 0, 1 reorganization, no fault |
| `message_store` | `DencunOnlyCapella`, `StoredFromFolder`, `NoFileSkipped`, `LostForCause`, `ReloadExact` | 2 files, any content at any time: two messages of one validator with different forks, one of an unknown validator, one that does not parse, one that throws; forks before, at and after Capella, answers one fork behind; 3 cycles, 2 failures or restarts |
| `s3_listing` | finding: a bucket of two pages is listed for ever | 2 pages |
| `requests` | `BackupWhenSpent`, `FailureIsTotal`, `SuccessIsReal`, `RunsOnOneChain`, `ConfigServes`, `OnlyBodiesHang`, `StartDecides` | 19 environments, 3 of them accepted and one of each error; 2 URLs per layer, 2 attempts, 2 webhook attempts, 2 chain ids and `NaN`, any number of calls and restarts |
| `requests_body` | finding: a consensus call does not move on when the body breaks off | as above, 1 webhook attempt |

Why these bounds are enough to be interesting: with chunks of 2 and a preload of 2
on 4 blocks a scan has up to two chunks, the last one cut, may start at the header
or at the window, fails between its chunks, and is repeated after a lagging answer;
two faults allow a failed scan followed by a restart. In `Ejector` an ack age of 0
or 1 with 2 or 3 blocks puts requests on both sides of the age, as 120 blocks do in
the code; one more reorganization than exits lets an exit be lost twice. Liveness
is per request, so one request with deeper faults says more than two with fewer.
In `MessageStore` three cycles are one that stores, one that fails half way or touches,
and one that must clean up after both; two files are enough for two messages of one
validator to replace each other. The property that holds for a message holds for each
validator by itself, so one known validator is enough. In `Requests` two URLs are one
that is left behind and one that is last, and two attempts are one that is retried and
one that is not; the proofs cover longer lists and more attempts.
In `Verifier` two cache entries are fewer than the transactions of two requests, so the
second evicts what the first needs again; two lies are one per request of a
verification, or one that stays in a cache for a later one.
`Mutation` operators next to a definition are plausible slips in that line of code;
each property is known to fail under one of them.

Findings, with the quoted sources, are in `PROJECT.json`:

1. `exit_logs_drop`: any rejection of `verifyEvent`, a node error included, drops
   the event while the header moves on; only a restart within the preload window
   finds it again.
2. `ejector_reorg`: a request older than 120 blocks is acknowledged on an exit
   that is in the head only. The age is the request's, not the exit's, so when the
   exit is reorganized away the ejector no longer looks at the request.
3. `s3_listing`: `isTruncated` is never reset, so the listing of a bucket with more
   than one page repeats its last page without end and the job that waits for it
   holds the lock for good.
4. `requests_body`: `clRequest` leaves the fallback with the headers of the response; a
   connection that breaks in the body fails the call without asking the next endpoint.

## Fairness

`ExitLogs` and `Ejector`: weak fairness of the job's own steps. The timer calls the
job for ever and an awaited request settles: `abort` rejects one that gets no
response in 30 seconds, and retries are bounded. The abort timer is cleared once
the headers are there, so a body that never ends is outside this assumption
(`OnlyBodiesHang` shows that nothing else is). Strong fairness of a call with the
current finalized block: an endpoint that lags does not answer every time. `Verifier`: weak fairness of an answer;
a request that is not answered fails, which ends the verification. `Ejector` also assumes of the beacon
chain that it includes what stays in the pool and finalizes its head. `JobRunner`:
timers fire and handlers settle. Failures, reorganizations, removed messages and restarts are bounded
by counters (`MaxFaults`, `MaxReorgs`), which is what makes progress possible after
the last one. `S3Listing`: a call of the client settles and the loop goes on; the
counterexample is the loop itself and not a run that stops. `MessageStore` states safety
only. `Requests`: a wait that a timer covers settles, a sleep ends, settled promises go
on. Reading a body without a timer is given no fairness at all, so `OnlyBodiesHang` says
that a call which never settles waits for such a body in the end, and `StartDecides` the
same of the start, whose own steps (`LoadConfig` and the checks) are synchronous between two calls.

## Proofs

All theorems hold for arbitrary sets and every value of the numeric constants that
satisfies the named assumptions.

- `TypeCorrect` (of each component): in `ExitLogs` it is inductive on its own, and the
  arithmetic of `blockFrom` and `currentBlockTo` is where it could fail. In `Verifier` it
  needs that a search starts in the frame and moves by one step at a time. `Ejector`,
  `JobRunner`, `MessageStore` and `Startup` take it from their invariants below.
- `NoDuplicatesAlways`, `CacheAuthenticAlways`: neither is inductive. `SafetyInv`
  adds that the scan is ahead of the header and behind the chain (`ScanRange`), that
  the fetcher holds each event of the chunk at most once and only from scope entries
  already queried (`ChunkInv`), and that after the filter a confirmed key of the same
  index exists (`KeyInv`). A pushed event is then in a block above the header, so it
  was not cached before.
- `LostToNodesOnlyAlways`, for every lag and fault: `CompletenessInv` adds that a chunk
  starts right behind the header or at the preload window, and that every valid event of
  the chunk in hand is held by the fetcher as soon as its scope entry is queried, unless it
  is in `missed`.
- `NoRequestLostAlways` (for `VerifyFaults = FALSE`, `LogsLag = 0` and
  `LateValidators = {}`) follows: without
  such nodes `missed` stays empty (`NothingMissed`). The finding `exit_logs_drop` shows
  that the first hypothesis is needed.
- `Implementation`: a committed chunk is an `Advance` of the intake with the events
  that passed; `SafetyInv` supplies the guards.
- `AcceptedIsGenuineAlways`: no assumption on the caches is needed, since both the
  content and the signer are checked against the hash. What has to be carried through
  the awaits is that the report in hand names the validator of the event
  (`GenuineInv`); where the hash in hand comes from does not matter.
- `RejectedForCauseAlways`: `TruthInv` says that without a lie `wanted` and `found` are
  of the chain, `CachesTrue` that every entry of both caches is, across evictions,
  rejected verifications and restarts. The search adds that every log of the frame is
  ahead of `from` until one is found; so a search that ends without a log contradicts
  a confirmed report.
- `AcceptedInFrameAlways`: the same truth of the caches, read for what is accepted. An entry
  of the consensus cache is a log of the frame its key names, and the key has the block
  of the event, so a report that is repeated later is looked for again.
- `ConfigServesAlways`: `EntryPairs` and `ScopeServes` derive the scope's facts from what
  the parsers refuse; the stage after `LoadConfig` keeps them until the next restart.
  Disjointness needs `Canonical`; this is where the `ScopeAssumption` of `ExitLogs` is
  discharged, and the limit of it.
- `MutualExclusionAlways`, `LockIsHeldAlways`: one invariant, each half needs the other.
- `YoungAckIsFinalAlways`: `ReadInv` says that what a job has read is not ahead of
  the chains and that what it saw final stays final; heights only grow, so a request
  acknowledged for its age stays outside the age.
- `SentOnRequestAlways`: only `Send` adds to the pool without the head changing, and
  from its reload on a job stores only messages that it found then (`ReadInv`).
- `RunsAsScheduled`: each job start is a first call or a tick that takes the lock,
  each end a settled handler.
- `DencunOnlyCapellaAlways`: `LatchInv` adds that before the latch closes every stored
  message is tagged with a fork up to Capella, which is why the removal in the very step
  that closes it leaves none behind, and that a running reload agrees with the latch.
- `NoFileSkippedAlways`, `LostForCauseAlways`: `FilesInv` says that from the parse loop on
  each file is invalid, new, or the source of a message that was touched, and that
  messages are filed under their own validator. Of several verified messages one is the
  last (`LastPosition`, from the well-foundedness of the naturals), so the update always
  has a message to store.
- `StoredFromFolderAlways` (for `ClockSteps = FALSE`): `CycleInv` says that after the
  opening of a cycle every message is older than it, and after the touches a message of
  the cycle was read in it.
- `ReloadExactAlways` (for `ClockSteps = FALSE`): the last step of a reload keeps the
  messages of its cycle, which `CycleInv` says were read in it, and adds the verified
  ones; `FilesInv` gives the other direction, that a message whose file was read is touched.
- `OneForkAlways`: between the removal and the end of a reload every message carries the
  fork it works for (`ForkInv`). No run checks it: the instance has one known validator,
  for which it says nothing, and two are beyond the time of a run.
- `NeverReturns`, `ReturnsOnePage` of `S3Listing`: the finding for every number of pages above
  one, and that a bucket of one page is read as a whole. The flag is true as
  soon as the token has moved (`StuckInv`).
- `BackupWhenSpentAlways`, `FailureIsTotalAlways`, `SuccessIsRealAlways`: `EndpointInv`
  says of one URL that an operation which ended before a good response with an error
  that another URL mends has used all its attempts; `OrderInv` that a fallback has such URLs
  before its cursor and untouched ones behind it; `ResultInv` that a settled call is at
  rest. A step of one endpoint disturbs only its own part (`OneStep`). For `FailureIsTotal`,
  an operation that ended with an error is `Spent` (`FailedIsSpent`); the last URL asked is
  the one at the cursor, and `OrderInv` has it that those before it have failed.
- `RunsOnOneChainAlways`: `StageInv` keeps for each stage what the ones behind it have
  established. It rests on `ResultInv`: the check of a list passes only with an answer of
  every URL.

Only model-checked: `VerificationEnds`, `OnlyBodiesHang`, `StartDecides`, `RequestsTaken`, `JobsKeepRunning`, `RequestsFulfilled`,
`FulfilledIsAcked` (liveness under fairness is outside the prover's reach).

## Plan

Done: all modules, each with its proofs. Left:

1. An abstract specification of one call (pending, then succeeded or failed, and what the
   nodes did), implemented by `Requests`, with the refinement proved step by step.
2. The steps of `MessageStore` mapped to `Reload` and `FailJob` of `Ejector`. Until then the
   two are joined by `ReloadExact` and `OneFork`, whose theorems are what the actions say.
3. `ExitLogs` takes its verdict from `Verifier`. Until then the two are joined by
   argument: `AcceptedIsGenuine` is what `Genuine` assumes in `ExitLogs`, and
   `RejectedForCause` what `VerifyFaults` allows.
4. The clock of `MessageStore` as one that may be set back: `ClockSteps` has it, and all
   proofs but `StoredFromFolderAlways` and `ReloadExactAlways` cover it; no run sets it.

## Not modelled

Formatting, logging, metrics, the HTTP handler, the token of a request and the command
line scripts: no decision of the ejector depends on them. `stop()` before the first job
has ended: only `destroy()` calls it, which the program itself never does. Settings
whose parsed value no property speaks of (intervals, ports, batch size). Resolving the
contract addresses is a step that may fail and has no other effect here. DTO checks are stateless; a response that
fails one is a failed call. Cryptography (signatures, keystores, report hashes) is a
verdict. `getHeader().startBlock` is never read.
