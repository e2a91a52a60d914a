# Verification of the Hurricache C++ client

TLA+ models of the client library in `src/`, checked with TLC on small instances
and, for the core components, proved with TLAPS for every value of the constants.
The definitions are translated from the code; `PROJECT.json` maps each of them to
the lines it stands for. Line numbers below are those of this commit.

## The system

The library has two public clients. `FastCacheStandaloneClient` talks to one
cache server over asynchronous gRPC. `FastCacheSmartClient` talks to a sharded
cluster: it learns the topology from coordinators, holds one standalone client
per node, routes every request by the hash of its key, fails over to the backup
node, follows redirects, and splits writes that are larger than one RPC.

    caller ──> smart client ──> routing table ──> standalone client ──> server
                    │  ▲              ▲
      refresh threads  └── readiness  │ update
                    └──> coordinator client ──> coordinator

| Component | State | Operations | What makes it correct |
|---|---|---|---|
| Standalone client: call lifecycle (`standalone_client.cpp`, `utils.hxx`) | `shutdown_`, stub, completion queue and its thread; per call a heap object with a state, a status, an accumulated result and a promise | `SendAsyncRequest`, `SendAsyncStreamRequest`, `Proceed`, `RunCompletionQueue`, `shutdown` | each call object has exactly the one outstanding operation it waits for; every promise is resolved once; a stream result is whole; `shutdown` strands nothing and returns |
| Coordinator client (`coordinator_client.cpp`) | cached channel and stub with the address they are for, completion queue, per fetch an accumulated table | `provideGlobalRoutingInfo`, `ensureStub`, `Proceed`, `shutdown` | a fetch talks to the coordinator it was made for; a reply is the whole table or an error |
| Routing table (`routing_table.cpp`) | `max_shards`, routes by (shard, role), clients by target, under one shared mutex | update from a coordinator, route lookup, lookup or creation by target, shutdown | no client is lost, leaked or left in the table dead; routes point to registered clients |
| Smart client (`smart_client.cpp`) | `is_ready_`, `is_updating_`, `shutdown_`, the last good coordinator, the mode override; `ready_mutex_`/`ready_cv_`; one thread per request | `execute`, `attemptWithGuard`, `waitReady`, `refreshRouting`, `triggerAsyncRefresh`, the periodic refresh, `setMode`, `shutdown` | requests resolve; failover is bounded and repeats nothing that may have been applied, but after UNAVAILABLE; one refresh at a time; no lost wake-up; `shutdown` returns |
| Chunked writes (`smart_client.cpp`) | the calls still to send, the number added, the copies of the arguments | the size estimates and splitters, the nine writes, the seven creates, `runAddPipeline`, `createWithRemainder` | splitting is invisible, a failure leaves no hole, a success is complete; chunks fit an RPC as they are sent; what a request is built from has not been freed |
| Request builders and response readers (`utils.cxx`) | none | build a key, a value, an operand, an ordered value, a container, a ttl; read them back from one or several pieces or messages | what is written is read back, with or without compression; the pairs of a map stay together; the writers of a ttl and its reader agree |

Components that are not modelled, or only in part, are in the last section and in
`PROJECT.json`.

What is hard here: callers, completion-queue threads, the periodic refresh thread,
detached refresh threads, detached request threads and the thread in `shutdown`
interleave freely; the call objects delete themselves; streams end early, by an
error, the deadline or an exception of the user's accumulator; the topology
changes while a request is between two lookups; nodes hang with calls that have no deadline, or answer UNAVAILABLE after
they may have applied a request; chunks fail half way; requests are built, and built
again, on another thread than the caller's, from arguments it may have freed. `hazards` in
`PROJECT.json` lists each of these at its line with the properties that cover it.

## Modules

| Module | Models | State and actions in terms of the code |
|---|---|---|
| `RpcContract` | what a client of asynchronous calls promises: a call that entered is rejected or accepted, an accepted one has one outcome, after `shutdown` was called none that enters is accepted, and after it returned none is pending | abstract specification |
| `StandaloneClient` | one standalone client | `pc[c]` is the caller's place in the two Send functions, `got[c]` the stub it read, `state[c]` the State of the call object; `pending` and `events` are the operations gRPC owes and the completion queue; one action per branch of `Proceed`, one per step of `shutdown` |
| `StandaloneClientProofs` | its theorems | |
| `CoordinatorClient` | the coordinator client | as above; `activeTarget` is the coordinator of the cached stub, `via[f]` the one whose stub fetch `f` started on; an operation completes when `cq_.Next` hands it out |
| `CoordinatorClientProofs` | its theorems | |
| `RoutingTable` | the routing table | `maxShards`, `route`, `byTarget`; a client is a target and a generation (`gen`), `down` the clients that are shut down; one operator per critical section |
| `SmartClient` | the smart client, extends `RoutingTable` | `rpc[h]` is the place of a refresh thread in `refreshRouting`, `pc[r]` that of a request thread in `execute` and `attemptWithGuard`, `shutPc` that of `shutdown`; a step is what runs between two accesses to shared state |
| `SmartClientProofs` | its types, and theorems about the refresh threads and the sleeping requests | |
| `SmartRequestProofs` | theorems about a request: failover, repetition, what it may be sent through | |
| `SmartTableProofs` | theorems about the routing table under all threads | |
| `Selection` | the elements of a sequence that are in a set | an operator, written as a recursive function in place of `SelectSeq`, whose definition the prover cannot expand |
| `ChunkedWrites` | one operation of the smart client on one container | `calls` the calls that have not returned, `attempt` where `attemptWithGuard` is with the first of them, `list` the container on the server, `total` what the future will yield, `callerOwns` whether the caller has freed its arguments |
| `ChunkedWritesProofs` | its theorems | |
| `WireCodec` | builders and readers | a value, operand of an atomic operation, key, ordered value, list, map or ttl goes through its builder, a server that stores it, and its reader; `now` is the clock that client and server share |
| `WireCodecProofs` | its theorems | |
| `SequenceLemmas` | lemmas about recursion over naturals, concatenation, reversal, selection and what is done chunk by chunk, used by the proofs | |
| `MC*` | constants of the runs | |

**Composition.** `SmartClient` composes the routing table with the threads of the
smart client. The standalone and coordinator clients appear in it by their
contract: a call is rejected, or it gets an outcome, and `shutdown` of a client
returns once no call is in flight. `StandaloneClient` and `CoordinatorClient`
are each shown to implement that contract (`ImplementsContract`, an
`INSTANCE RpcContract` with the refinement mapping `phase`, `door`), whatever their
callers do while `shutdown` runs. What the contract does not exclude is that gRPC aborts
the process, or that a call meets a stub that is gone: the variable `crashed` of both modules.
The thread that did this goes no further; what undefined behaviour does to the
others is not modelled.

**What is abstracted.** Payloads, keys and addresses are model values. A request
of the smart client is its key hash (or no hint); the some fifty public
operations that differ only in the request they build are one request. Chunks
of a stream are counted in `StandaloneClient`, and are tables in
`CoordinatorClient`, where what is put together matters. In `WireCodec`
compression prefixes a marker byte; the length that is compared with the
threshold is kept.

## The runs

Runs that pass:

| Run | Instance | What it shows |
|---|---|---|
| `standalone` | a stream of up to two chunks and a unary call, both with a deadline, whose callers synchronise with `shutdown`, and a unary call without a deadline whose caller does not; `shutdown` may come with any of them in flight | the queue holds only live tags; what was handed to gRPC is resolved before the queue's thread ends; no truncated stream is returned; the process ends with nothing but the call that races, overtaken by `shutdown`, or a stream in flight; each call with a deadline resolves, and `shutdown` returns unless the other one hangs; refinement of `RpcContract` |
| `coordinator` | two fetches for two coordinators, one without a deadline, replies of up to two and of one of three kinds of chunks, racing with `shutdown` | each fetch reaches its own coordinator though they share one stub; a value is the whole table, with the first positive shard count; the fetch with a deadline resolves, however both streams end; refinement of `RpcContract` |
| `smart_refresh` | two nodes, two coordinators, two periodic rounds, one detached refresh, one request without a key hint that may be redirected, four topologies (both nodes, one node, a backup only, two masters of one shard), `shutdown` | one update at a time; no client lost or routed to dead; no waiter left asleep; a refresh gives up only after every coordinator |
| `smart_service` | two nodes, one coordinator, one request with a key hint and a deadline, the mode set and cleared at any time, one redirect, three topologies (both nodes, one node, a backup only), a periodic and a detached refresh, `shutdown` | failover is bounded and repeats only after UNAVAILABLE; no null client is called; the request resolves, refreshes end, `shutdown` returns |
| `chunked_writes` | the nine kinds of write and the creates, of up to four distinct elements of sizes 1, 2, 3 and 9 (compressed 1, 1, 1 and 9) with four units to an RPC, on a container of three elements or a new one; next to an element, next to one that is missing, and with a null pivot; streams, takes and an update, of one call; any call may fail or be unavailable with or without effect, one may be carried out twice, another client may add an element, the caller may free its arguments; maps with too few values | chunks are greedy and lose nothing, and fit an RPC as they are sent; undisturbed, splitting is invisible; a failure leaves no hole; a success is complete, and with a missing pivot adds nothing; no request is built from a freed buffer; the future resolves |
| `codec` | byte strings of up to three of two bytes, two numbers, thresholds below, at and above the lengths and a negative one, every cut into pieces; operands of the atomic operations from -7 to 7, as doubles in quarters; maps of up to three entries with keys of none to two bytes, and lists of up to three elements, some null, in any number of messages, their elements empty or of one byte, plain or compressed, with or without their payload; ttls of -1 to 5 ms, of creates and (from 0) of `setTtl`, up to time 9 | every key, value, list and ordered value of bytes is read back; an operand loses at most its fraction; an element that cannot be read leaves a null in its place, and a pair that cannot be read drops only itself; `getTtl` yields what is left of the ttl asked for |

Runs that find a violation, each of one property that a doc, a comment or an
assertion states:

| Run | What the code does |
|---|---|
| `standalone_cut_stream` | `shutdown` shuts the completion queue with a stream in flight. `Proceed` starts the stream's next operation on that queue (`utils.hxx:146`, `:149`, `:159`, `:164`, `:168`); when nothing else is outstanding, gRPC refuses that with an assertion. The comment at `standalone_client.cpp:68` expects the queue to drain and its thread to return. |
| `standalone_throw` | An exception of `chunk_accumulator` sets the status to UNKNOWN (`utils.hxx:158`), and `Finish(&status)` on the next line overwrites it: the call yields a value. |
| `chunked_borrowed` | `removeFromContainer(keys, values)` captures the caller's pointers (`smart_client.cpp:1705`) in the closure that `execute` runs on a detached thread and, for a redirect or the fallback, once more: the caller may have freed them. All other operations copy, as the comment at `smart_client.cpp:14` demands. |
| `smart_no_chunk` | A coordinator stream that ends with OK and no chunk installs `max_shards = 0` and publishes readiness; the next request divides by it (`smart_client.cpp:482`). |
| `smart_reshard` | `max_shards` and the routes are read under separate locks (`smart_client.cpp:479`, `:488`); a topology with another shard count in between sends the request to a node that no topology assigns to its key. |
| `smart_hung` | An update shuts down the clients it retires (`routing_table.cpp:63`) before `refreshRouting` releases `is_updating_`. A node that hangs with a call without a deadline, which is the default, keeps it there: the topology is not refreshed any more, where the sources' `README.md:42` promises it every 30 seconds. |

**Bounds, and why they are enough.** The calls of a standalone client share the
stub, the queue and its thread but not their call objects, so one call of each
kind plus a third, for which nothing is promised but that it leaves the others alone, reaches each interference; the theorems lift it to any number.
Two chunks give a first, a last and a cut in between, and of a reply two that disagree. The two fetches are the
least that can take the cached stub from each other. In the smart client two
nodes are the least with a master, a backup and a redirect elsewhere; topologies
that drop a node, and bring it back, make clients go and return (a second
generation). Two refresh threads are the least that compete for `is_updating_`;
the second periodic round is a refresh that follows an update. `MaxRounds`,
`MaxRedirects`, `AsyncRefreshers`, `MaxChunks`, `MaxForeign` and `MaxRepeats` bound
what is unbounded in the code, each in the guard of one action. Four elements
make up to four chunks, so the first, a middle and the last one differ; size 9
is an element larger than a whole RPC. Of the other three one is above the client's
threshold, one between it and the default one, and one below both, which are the
cases the estimates and the requests can disagree in. Quarters are the least unit that tells
rounding toward zero from rounding down and to the nearest; the clock may have moved before a
ttl is sent (`MaxStart`), and runs past every expiry. In `smart_hung` a topology that
drops the master of the only shard retires the client a request is waiting on. A container of three has a middle to lose, and
four ways to be cut into messages; the theorems need no bound.

**Stopping.** Deadlock is not checked: in each model everything comes to an end (all
calls made, the client shut down), as it does in the program. That nothing ends
too early is what the liveness properties say.

**Fairness.** Weak fairness of each thread, one conjunct per thread: a thread that
can go on does. Of gRPC it is assumed that an operation that can complete does
and that a deadline which was set passes; the server owes nothing. No fairness
is put on callers, on `shutdown` being called, on `setMode`, on the redirects or on the
accumulator throwing. In `ChunkedWrites` the pipeline's thread and that of the call
it waits for are one conjunct (`PipelineStep`): never can both go on. `CallsResolve` and `FetchesResolve` are
claimed for calls with a deadline only, `ShutdownReturns` of the standalone client as long as no call without
one hangs (`NoneHangs`); they end with "or gRPC aborts the process".

In `SmartClient` a call in flight is certain to come back only if its request has a deadline
(`Deadlined`). By default none has: every operation's timeout is 0, then the client's is taken,
which is 0 as well (`smart_client.hxx:35`), and a timeout of 0 sets no deadline
(`utils.hxx:239`-`242`). So `RequestsResolve` is claimed for requests with a deadline, and
`ShutdownReturns` and `RefreshEnds`, which wait for the calls of the clients that are shut
down, under the condition that no request without one hangs (`NoneHangs`); without the condition
`RefreshEnds` is `TopologyKeepsRefreshing`, which `smart_hung` refutes. (The request of
`smart_service` has a deadline, so the condition holds there; one of the two of `smart_hung` has none.) A fetch comes back: the
refresh passes it the client's timeout, or 10 s if there is none (`smart_client.cpp:416`). A sleeping
waiter wakes by its `wait_for` timeout at the latest. `WritesResolve` of `ChunkedWrites` assumes that every
attempt ends, that is, that its call has a deadline or its node answers.

## What is proved

`StandaloneClientProofs`, for any sets of calls, any timeouts and any number of chunks:

| Theorem | Statement | Assumes |
|---|---|---|
| `TypeCorrect` | `Spec => []TypeOK` | |
| `TagsStayLive` | `Spec => []TagsAreLive` | |
| `StreamValuesAreWhole` | `Spec => []StreamValueIsWhole` | |
| `ShutdownStrandsNoCall` | `Spec => []DrainedMeansResolved` | |
| `OnlyRacesEndTheProcess` | `Spec => []OnlyRacesAbort` | |
| `ClientImplementsContract` | `Spec => ImplementsContract` | |

All rest on `CallAssumption`, the types of the constants. Which callers synchronise with
`shutdown` (no call of theirs is between its `isShutdown()` check and its start while `shutdown`
runs) is a constant, `Serialised`, any subset of the calls. The sources' `README.md:852` asks it of
all ("Not thread-safe. Create one instance per thread or use synchronization"); the smart
client, a caller too, does it for none. `OnlyRacesAbort` says what each of them may rely on.

`CoordinatorClientProofs`, for any sets of fetches and coordinators, any timeouts,
any number of chunks and what they hold:

| Theorem | Statement | Assumes |
|---|---|---|
| `TypeCorrect` | `Spec => []TypeOK` | |
| `FetchesReachTheirTargets` | `Spec => []FetchReachesItsTarget` | |
| `RepliesAreWholeTables` | `Spec => []ReplyIsWholeTable` | |
| `ClientImplementsContract` | `Spec => ImplementsContract` | |

`SmartClientProofs`, `SmartRequestProofs` and `SmartTableProofs`, for any requests,
modes, coordinators, topologies, redirects and refresh threads, hence for
every safety invariant of the smart client and of the routing table in it:

| Theorem | Statement | Assumes |
|---|---|---|
| `TypeCorrect` | `Spec => []TypeOK` | |
| `UpdatesAreExclusive` | `Spec => []OneUpdateAtATime` | |
| `EveryCoordinatorIsAsked` | `Spec => GivesUpOnlyAfterAll`, an action property | |
| `WakeupsAreNotLost` | `Spec => []NoLostWakeup` | |
| `FailoverEnds` | `Spec => []FailoverIsBounded` | |
| `RepeatsAreJustified` | `Spec => []RepeatsOnlyAfterUnavailable` | |
| `PositiveShardsAreSafe` | `Spec => []NoUndefinedBehaviour` | `PositiveShards`: every topology has at least one shard |
| `RoutesStayRegistered` | `Spec => []RoutesAreRegistered` | |
| `ClientsAreAccountedFor` | `Spec => []ClientsAccountedFor` | |
| `ReadyMeansLoaded` | `Spec => []ReadyMeansTopology` | `NonEmptyTopologies`: every topology names a node |

`ChunkedWritesProofs`, for any operations, elements, sizes and thresholds:

| Theorem | Statement | Assumes |
|---|---|---|
| `BuffersOutliveCalls` | `Spec => []NoDanglingRead` | `CopiesArguments`: no operation is `removeFromContainer(keys, values)` |
| `PartitionIsGreedy` | what `Partition` makes of any items meets `GreedyChunks` | sizes are natural numbers |
| `EveryWriteIsGreedy` | `Spec => []ChunksAreGreedy` | |
| `SuccessCountsEverything` | `Spec => []SuccessIsComplete` | `WellFormed` writes |
| `ChunksAreInvisible` | `Spec => []ChunkingIsInvisible` | `Placed` writes |
| `ArrivesInOrder` | `Spec => []ArrivedInOrder` | `Fresh` writes |
| `EstimatesHold` | `Spec => []ChunksFitAsSent` | `CompressesLate`, `Estimated` writes |

`WireCodecProofs`, for payloads of any size over any bytes, every cut into pieces,
any thresholds, operands and ttls, and containers of any
elements and any size in any number of messages:

| Theorem | Statement | Assumes |
|---|---|---|
| `ValuesSurvive` | `Spec => []ValueRoundTrip`, of values that are created or updated | |
| `OperandsTruncate` | `Spec => []AtomicOperandAsSent` | |
| `KeysSurvive` | `Spec => []KeyRoundTrip` | |
| `OrderedValuesSurvive` | `Spec => []OrderedNeverGarbled` | |
| `ListsSurvive` | `Spec => []ListRoundTrip` | |
| `PairsSurvive` | `Spec => []PairsStayTogether` | |
| `TtlsAreKept` | `Spec => []ExpiryAsAsked` | |

Beside the assumptions named, each rests on those of its component
(`CallAssumption`, `CoordinatorAssumption`, ...): the types of the
constants, and that `Null`, `NoClient` and the like are none of the values they
stand apart from. Two are more than that. The code checks
neither `PositiveShards` nor `NonEmptyTopologies`: `smart_no_chunk` is a run
without the first, and a topology without nodes is installed and published like
any other. `CopiesArguments` is what `chunked_borrowed` violates.

`WellFormed`, `Placed` and `Fresh` speak of the caller's arguments and the container it writes
to; every write of `chunked_writes` satisfies all three. They ask for a position inside the
list. `Placed` asks that the elements put next to a pivot differ from each other and from
those of the list, without which the statement is false (*Equal elements next to a pivot*,
below). `WellFormed` leaves out `removeFromContainer(keys, values)`, asks that a replacement
has a new value, that whoever takes an element from an end leaves one (carried out
twice on a single element, a take answers 0 the second time), and, of a write next
to a pivot that is missing, that neither the pivot nor its elements are there otherwise. `Fresh` is what it takes to tell whose an
element is: those of the write differ from each other, from those of the list and from
those of other clients, and a replacement has one new value.

`CompressesLate` is a client whose threshold is not below the default one; the threshold is a
parameter of the client's constructor (`smart_client.hxx:36`) and nothing keeps it there. Below,
an element between the two is estimated compressed and sent as it is. `Estimated` leaves out
`removeFromContainer(keys, values)`, which is one call and never cut, a map created with fewer
values than keys and a replacement of several values, neither of which the code can be given.

*The argument for `StandaloneClient`.* None of the properties is inductive: that a call has one
outstanding operation says nothing of whether an event in the queue is the
operation its state waits for, or of what a queued `Finish` will report. The
inductive invariant `IInv` is `TypeOK`, `ClientInv` (the order of the steps of
`shutdown`, and that an exited thread has left nothing in the queue) and, for
each call, `CallInv`: `TagInv` (one due operation, either pending or queued),
`LifeInv` (the call object exists from the check of `isShutdown()` to the
outcome) and `StreamInv` (a delivered chunk is accumulated or in the queue; a
queued `Finish` carries the final status, and after OK all chunks were
delivered). A step of one call leaves the others alone (`OthersUntouched`,
`UntouchedKeeps`), so `OwnStep` has one case per action, for the call that
moves; `ClientStep` covers the threads. `RaceInv` adds
that no call of a synchronised caller is between its check and its start while `shutdown` runs, and that a
null stub pointer was read after the reset. So the step that ends the process is that of another caller's call,
overtaken by `shutdown`, or of a stream of which gRPC has handed over the client's last outstanding operation
(`AbortIsARace`), and `OnlyRacesAbort` stays true afterwards: a drained queue takes nothing more
(`DrainedStays`), an overtaken call is never started (`OvertakenStays`), and the stream waits for a `Proceed` that
cannot be carried out (`CutStays`). For the
refinement `StepSimulates` maps each step: entering, rejecting and accepting a call,
setting a promise, and the first and last step of `shutdown` are steps of
`RpcContract`, the others stutter. That a call is accepted before the client is closed is where the
order of the queue counts: the thread that `shutdown` joins has left a queue with nothing outstanding,
which accepts nothing.

*The argument for `CoordinatorClient`.* The shape is that of the standalone client:
`IInv` is `TypeOK`, `ClientInv` (the order of the steps of `shutdown`, and that the
cached stub, when there is one, leads to `activeTarget`) and, for each fetch, that the stub it took
leads to its own coordinator, and that what it has accumulated is the table of the
chunks delivered so far. The last is an invariant about data: `TableInv` names
positions at which each chunk's peers begin in the accumulated sequence (`IsTableOf`), and a
delivered chunk extends it at the end. For the refinement, no fetch joins a queue that is shut and drained
(`ExitedStaysQuiet`).

*The argument for `SmartClient`.* `TypeInv` adds to `TypeOK` that the reply a thread is
about to install is a topology, and that a client is only created for a target
that a redirect names. With it `OneUpdateAtATime` and
`NoLostWakeup` are inductive, each over all threads at once: who takes
`is_updating_` finds it clear, and who makes a request's condition true is still to notify. A refresh
gives up after as many coordinators as there are, and counting modulo their number from
any of them passes through all (`FullRound`). For a request: how
many clients it has tried is bounded by where it is in `attemptWithGuard` (`FailoverInv`), and
its effects by the UNAVAILABLE answers it got (`RepeatInv`); a step of one request
leaves the others alone. For the table: each client ever created is in exactly one
of three places (`AccountInv`), which needs that the threads' lists hold clients that
exist (`ExistInv`) and are non-empty only between the critical section and the
`shutdown` calls after it (`ListInv`). `LoadedInv` carries that the table is loaded from the critical section over the
publication of `is_ready_`.

*The argument for `ChunkedWrites`.* What a request reads belongs to the operation's closure, or to the
pipeline that waits for the call. `NoDanglingRead` alone says nothing of the
pipeline's end; the invariant `OwnedInv` adds that a call is under way only
while the pipeline runs: it ends after the last call has returned or with the
exception of the one it waits for. That the splitters are greedy is a loop invariant, `LoopInv`: what
is closed and what is open together are the elements taken so far, the open chunk's
size is what was counted, and the closed ones are tight. `PartitionBySteps` first turns the
recursive function of the model into a sequence of states, one per element.

`SuccessIsComplete` is about the end of a pipeline; its invariant `CompleteInv` says what the
total is after `k` of the calls (`Progress`): what these calls carry, or nothing if the pivot is missing.
It needs that every call finds its place, whatever repeats and other
clients have done to the list: the first does by `WellFormed`, and each later one
because the one before has put there what it names (`Follows`). Elements are never taken
away by the operations that add, so a list only grows (`GrowsBy`). A take is limited by how many
elements are due to be taken at most (`Due`): two while a first attempt may be repeated.

`ChunkingIsInvisible` excludes other clients and repeats (`Undisturbed`), and then the
list itself is known: after `k` calls it is `After(w, k)`, the elements of the first `k` chunks as one block,
in the caller's order, at the place where the one call would insert them. The step from `k` to
`k + 1` (`AfterNext`) is that inserting behind a block, or in front of it for the head,
makes one larger block (`InsertTwice`, `Block`): at a position because it was advanced by the elements
before, next to a pivot because the first occurrence of the last element of a chunk
is the block's end (`EndOfBlock`), which is where `Placed` is needed. All chunks together are the data
(`AfterAll`), by `PartitionIsGreedy`.

`ArrivedInOrder` excludes nothing: other clients, repeats and failures are its subject. The list itself
is no longer known, but what of the data is in it is (`Landed`): the elements of the first `m`
calls, and, undisturbed (`Exact`), these as one subsequence in the caller's order. After
`k` calls `m` is `k`, or 0 if a pivot was missing, or `k + 1` when a call was carried
out and not answered (`HaveArrived`). Behind other clients' elements a block is not in one piece any more; that the
next chunk still joins it (`JoinsInOrder`) is because nothing of the data stands behind its
pivot, the last element of the block (`InsertBehindLast`). Only a position is taken from the
start of the list, where others may have added: there the argument is that for
`ChunkingIsInvisible`. The elements of the first calls are an end of the data (`BlockIsEnd`).

`ChunksFitAsSent` compares two sums, the estimate a chunk was cut by and what the call's elements take when
sent. A sum is smaller when it is element by element (`SumMonotone`), and the estimate
of pairs is the sum of the estimates of both halves (`PairSums`); the invariant `FitInv` is that this holds of
every call that is left.

*The argument for `WireCodec`.* The invariant describes the message under way at each
stage in terms of the item that was written: which messages the builders may have made of it
(`Messages`, `KeyMessages`, `OrderedMessages`), and what the server may have cut of them. The work is in the lemmas:
the pieces of any cut are put together to the payload (`AssemblePieces`, from `FlattenOfCut`: the
first `i` pieces are the first `off[i]` bytes), what was compressed is decompressed,
and what is left of a double without its fraction is within one of it, on the side of zero (`Truncates`).

A container comes back in messages that are a cut of its answers, and each message is
read by itself. That this yields what reading all answers at once would is one lemma, `FlattenOfEach`: it
holds of every function on sequences that `Distributes` over concatenation, and reading
element by element does (`MappedDistributes`), also when only some of the results are kept
(`SomeMappedDistributes`). So it is used three times: for lists (`ReadsList`), for
the pairs of a map (`ReadsMap`), and for the answers the property speaks of
(`ValuesOfChunks`). Element by element, an answer reads as what was written or, without a payload, as null
(`ReadsElement`, from the lemma for single values), and a key always reads as itself
(`ReadsElementKey`). The invariants `ListInv` and `MapInv` say that the answers in the messages
are those for the elements that were sent; for a map they recover the pairs from
the two columns of each message (`PiecesOf`).

**Only model-checked.** All liveness (fairness and ENABLED are beyond the prover), and with it
what becomes of a request after its call has returned. Every invariant that a run
checks is proved. The properties of the runs that find a violation are
false, so there is nothing to prove.

## Observations

Behaviours met while modelling that no run is about:

- **Calls racing with `shutdown`.** `SendAsyncRequest` checks `isShutdown()` (`utils.hxx:228`)
  and later dereferences the stub it gets (`:245`), which `shutdown` may have
  reset in between (`standalone_client.cpp:66`, `:69`). Two accesses to
  the `unique_ptr` without a lock are a data race; for a call that is
  not in `Serialised` the model reaches undefined behaviour, and `OnlyRacesAbort` says that it is this call's
  own. The sources' `README.md:852` tells callers to synchronise; the smart client, a caller too, does not.
- **Fetches racing with `shutdown`.** A similar race is in
  `provideGlobalRoutingInfo` (`coordinator_client.cpp:110`-`129` against `:24`): the fetch keeps its stub
  alive, but it may start on a queue that is shut down and drained. The
  smart client can reach it: detached refreshes (`smart_client.cpp:464`) are not joined. The model has
  this step (`StartAborts`).
- **Readiness after `shutdown`.** A detached refresh that is past its check publishes
  `is_ready_` (`smart_client.cpp:451`) after `shutdown` withdrew it (`:731`).
  `ReadyMeansTopology` is claimed until `shutdown` is called.
- **Equal elements next to a pivot.** A chunked insert chains each chunk behind the
  last element of the one before (`smart_client.cpp:1378`; comment at `:1363`). If
  the container holds an equal element earlier, that one is the anchor.
  `ChunkingIsInvisible` and `ArrivedInOrder` are claimed for distinct elements.
- **Mismatched maps.** A chunked map write with fewer values than keys is rejected
  (`standalone_client.cpp:1177`) at the chunk that lacks them
  (`smart_client.cpp:1732`-`1734`, `:243`), after the chunks before it were added.
  Unchunked it is rejected as a whole.
- **Ordered values that hold a number.** `utils.cxx:511`-`527` and
  `standalone_client.cpp:686`-`687` take the value for bytes (`README.md:804` of the
  sources shows ordered values of bytes). `OrderedNeverGarbled` is claimed for these.
- **Ordered values without a type.** `valueRequestToOrderedValue` does not infer a type
  that an answer leaves out (`utils.cxx:235`), as `valueRequestToValue` does
  (`:336`, "Server may omit value_type"), and returns a null pointer.
  `OrderedNeverGarbled` says exactly that.
- **Chunks larger than estimated.** Weighted elements (`standalone_client.cpp:687`), keys of
  maps (`:1167`, `:1197`) and both halves of a new ordered map (`:332`, `:338`) are sent as
  they are, while the estimates compress them above the client's threshold
  (`smart_client.cpp:151`-`167`): chunks of such elements may exceed `maxRpcSize()`.
  `ChunksFitAsSent` is claimed for elements below the threshold where nothing
  is compressed. The threshold itself is not passed on to element writes, which
  compress above the default of `buildValueProtoNoTtl`: with a threshold below the default one
  elements between the two are also sent larger than estimated, and `ChunksFitAsSent` does not
  hold. That compression never makes an
  element larger is an assumption on `Packed`.
- **Doubles of `atomicAdd` and `atomicSub`.** Their overloads for `double`
  (`standalone_client.hxx:323`, `:328`; `smart_client.hxx:299`) send the delta in an integer field with the type INT
  (`standalone_client.cpp:960`-`998`; `smart_client.cpp:1557`-`1579`), which drops its fraction:
  adding 0.5 adds nothing. `AtomicOperandAsSent` says how much is lost. A double beyond
  the range of `int64_t` is not modelled.
- **Ttl of atomic operations.** The atomic operations take a ttl, and the smart client fills in its
  default (`smart_client.cpp:1527`), but no request carries it (`standalone_client.cpp:898`-`1077`); the
  sources' `README.md:450` passes one. `ExpiryAsAsked` is about creates and `setTtl`.
- **Times as durations.** `setTtl` sends the time in ms at which the ttl ends
  (`standalone_client.cpp:100`), and `getTtl` subtracts the clock from what it is answered (`:115`);
  `cache.proto:111` and `:115` describe the fields as "New Time-To-Live in milliseconds" and "Remaining
  Time-To-Live", and `:81` that of a create as "Absolute or relative". A server that followed `:111` and `:115`
  would make `getTtl` answer -1, where the tests expect a positive number after `setTtl`
  (`test_kv_ops.cxx:195`, `test_vector_operations.cxx:657`): `WireCodec` assumes one that answers the time it was sent.
  `lockObject` sends a time in whole seconds (`standalone_client.cpp:871`) in a field that
  `cache.proto:260` describes as "Lock duration in ms". Nothing in `src/` reads it back, so what a lock's
  duration comes to is not known, and locks are not modelled.
- **Where a remainder goes.** The rest of a create is routed by the hint that the server
  answered (`smart_client.cpp:630`), not by the one the create was routed by (`:671`).
- **A failed compression.** `compress()` returns null on failure (`utils.cxx:19`); the
  key and ordered builders do not check it (`:514`), the value builder does.

## Limits

- The smart client is a caller of standalone clients that does not synchronise: an update shuts
  down a client (`routing_table.cpp:63`) that a request thread may have just
  taken from the table, and nothing waits for its streams. `SmartClient` takes such a
  call to be rejected or to finish, which is what the contract promises of every run the process survives. How it may end
  instead is what `standalone_cut_stream` and the first observation show.
- The life of a smart client after its destructor: detached threads hold a
  pointer to it (`smart_client.cpp:464`). Every later step would be undefined
  behaviour.
- The inside of the compression library and the hash functions. Compression is its
  contract, the weak hash a constant.
- What the server does with a chunk is external: a block is inserted, a pivot stands
  for its first occurrence, and nothing is added without one.
- gRPC is external: that it asserts when an operation is started on a queue
  which is shut down and drained is its documented rule, not code in `src/`.
- `ChunkedWrites` has one call under way at a time and takes a redirect as part of an
  attempt; other clients only add elements at the ends. `WireCodec` has one clock: client and
  server clocks that differ shift every ttl by the difference. That the server keeps the end of a ttl as it was
  sent is an assumption on it.
- The default client id, locks and `lock_info`, and the requests that only copy a position or a flag.
- Channel arguments (`channel_config.cpp`), C++ value semantics (`types.cxx`), tests and build files.

## Plan

Done, in this order: `RpcContract`, `StandaloneClient` and its proofs (every
request goes through it); `CoordinatorClient`; `RoutingTable` and `SmartClient`;
`ChunkedWrites` and its first proof; `WireCodec`; the proofs about the coordinator
client, the smart client, the routing table, the chunked writes and the codec.

Next: a composition of `SmartClient` with the detailed client, in place of the
contract, on one node, for the retirement of a client with calls in flight.
