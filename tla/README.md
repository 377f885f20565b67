# FlashMemory: TLA+ specifications and proofs

FlashMemory serves DeepSeek-V4 with the compressed (c4) KV history of every
request kept in host memory. A prefill server P computes a prompt and writes its KV
cache to a decode server D. D keeps a small GPU *reserve* and swaps into it, every 64
decode steps, the pages a retriever selects. The code is a set of additions to SGLang
under `src/sglang/python/sglang/srt/`, and a script that produces the retriever's
training data (`src/data_generation/`).

Paths below are relative to that first directory. `swap_engine_p.py`,
`resident_mask_capturer.py` and `indexer.py` are in `layers/attention/compressed/`.

## The system and its parts

| Part | Code | Modelled by |
|---|---|---|
| Swap engine, page recall | `swap_engine_p.py` | `SwapEngineP` |
| Resident-mask capturer, side-band thread | `resident_mask_capturer.py` | `DecodeServer` |
| Indexer and attention read | `indexer.py`, `deepseek_v4_backend_radix.py`, `compressor.py` | `DecodeServer` (`StoreRow`, `Remap`, `ReadDone`) |
| Decode scheduler as the capturer sees it | `disaggregation/decode.py`, `managers/schedule_batch.py` | `DecodeServer` |
| Decode event loop, queues, token budget, retraction | the same, `managers/scheduler.py`, its output processor | `DecodeQueues` |
| SWA pool and window preallocation | `mem_cache/swa_memory_pool.py`, `mem_cache/common.py` | `DecodeQueues` |
| NIXL transfer, bootstrap, node failure | `disaggregation/nixl/conn.py`, `common/conn.py`, `prefill.py`, `utils.py` | `KVTransfer`, abstractly `KVHandoff` |
| Training-data dump | `src/data_generation/run_dump_training_data.py`, tracker in `models/deepseek_v4.py` | `TrainingDump` |
| Eager retriever hook, kernels, stock SGLang, router, training | the rest | not modelled |

How they interact. A request goes to both servers. D bootstraps a receiver, reserves
pages and a metadata buffer and sends their indices to P; P computes the prompt chunk
by chunk and writes each chunk's KV into D's GPU memory and its c4 part into D's host
mirror, every write followed by a notification (`KVTransfer`). D's loop admits requests
within a token budget and two page pools, batches them, retracts some when memory runs
out, and processes results one iteration late (`DecodeQueues`). In every decode step the
capturer looks whether the batch changed, the forward stores, selects, translates and
reads chunks, and every so often a side-band thread recalls the selected pages from the
mirror into the reserve (`DecodeServer`, on top of `SwapEngineP`). Apart from serving,
a script and a tracker inside the model produce training data together (`TrainingDump`).

The models meet at two places. A transfer is one external step in `DecodeServer` and
`DecodeQueues`; `KVTransfer` shows what that step may be assumed to do (`ImplementsHandoff`)
and that it ends (`EveryRequestConcludes`). `DecodeServer` contains the engine, and
`UsesEngineByContract` is proved.

Definitions commented "Mutant of" are variants of the definition after them with one
plausible mistake. No specification uses them: each one is there to show that a property
notices the mistake.

## The modules

### `SwapEngineP`: the engine in page-recall mode

A chunk loc `page*64 + off` is a pair, a reserve cell a triple that says which region
it is in. The 21 layers share one allocation, so one lut and one reserve stand for
all. KV bytes are `<<writer, chunk>>`: who produced them and for which chunk.

| Definition | Code |
|---|---|
| `RecallMiss`, `AllocMapped`/`Free`/`Next`/`Evict`/`Fail`, `RecallGuard`, `RecallCopy`, `RecallScatter` | `_recall_global_pages`, `_evict_one_page`, `_copy_chunks_all_layers` |
| `ReleaseReqPoolLocs`, `RecordOwnedPages`, `ReleaseOwnedPages` | the functions of those names |
| `DiscardCopiedPages`, `RegisterDecodeReq` | the Path-P hook of `_commit_transfer_to_req` |
| `StoreDecodeToReserve` | `store_decode_to_reserve`, one row of the launch |
| `NixlWrite` | what lands in the buffers of `mirror_buf_info` |

A recall is several steps, because it runs on its own thread and CUDA stream: each
turn of the allocation loop, the guard, the copy and the lut scatter. `EngineNext`
lets transfers, admissions and stores fall between any two of them. Releases need
`rpc = "idle"`: that is the capturer's discipline (it joins the thread first), and
`ServerUsesEngine` proves that `DecodeServer` keeps it.

Data that is abstracted: the order of `todo_pages` (sorted page numbers, which mean
nothing) and the pop order of `_g_free_blocks` (filled in set order) are free choices.
The OrderedDict order is the relation `before`. Page 0 is padding that no request
owns, so the `loc > 0` test of the store is the choice of rows that form a chunk.
`_g_full` is read before anything sets it (`swap_engine_p.py:988`; the only writer,
`reset_recall_state`, runs behind a gate that is off), hence `AllocFail`.

### `DecodeServer`: scheduler, capturer and side-band thread

`DecodeServer` extends the engine and uses its actions directly. `mpc` is where the
scheduler thread is, `tpc` where the side-band thread is; each step of either is an
action. With `Async = FALSE` the side-band runs inside `on_forward_end`.

| Definition | Code |
|---|---|
| `Prealloc`, `Commit`, `Merge`, `ReadyToDecode` | `_pre_alloc`, `_commit_transfer_to_req`, `get_new_prebuilt_batch`, `get_next_disagg_decode_batch_to_run` |
| `PrepareForDecode` | `prepare_for_decode`, in units of chunks |
| `BeginSame`, `BeginChanged`, `ReleaseAtBegin`, `ResetRows` | `on_forward_begin`, `_reset_changed_rows` |
| `StoreRow`, `Remap`, `ReadDone` | the captured forward |
| `EndQuiet`, `EndDue`, `EndInline` | `on_forward_end` |
| `Result` | finished requests and `filter_batch` |
| `Select`, `Recall`, `Publish`, `RebuildMeta`, `SidebandFails` | `_sideband_work` |

What is abstracted:

- A step forms a chunk for any subset of the rows (every fourth token in the code).
- Scores may favour any page, so `Selections` allows every choice that respects the
  forced recency tail and `K = min(KMax, pages)`. `FIRST_KEEP` is 0 as shipped. A
  score that cannot be computed (the row is skipped) is left out.
- The in-graph indexer may pick any of a row's locs: `Remap` takes all of them.
- The row loop of `_sideband_work` is one step (`Select`). Its writes to the row
  buffers are therefore atomic across rows; the recall after it is not.
- The counts are modelled as zero or not zero; `reqStep` modulo the interval.
- The overlap event loop processes the results of a step after launching the next.
  A finished request then takes part in one more step, which is covered because any
  request may finish at any step. GPU work of a step is taken to be complete when the
  next one begins: `on_forward_begin` synchronises (`req_pool_indices.tolist()`).
- Memory pressure, retraction and failed transfers are in `DecodeQueues`, not here.

### `KVTransfer` and `KVHandoff`: from P to D

`KVTransfer` has P's bootstrap and in-flight queues, the messages and writes between the
servers, and D's prealloc and transfer queues. Statuses, messages, writes and memory are
per TP rank; the schedulers of one server run in lock step, so queues are shared.

| Definition | Code |
|---|---|
| `PAdd`, `PPopBootstrapped`, `PInflight` | `PrefillBootstrapQueue.add`, `pop_bootstrapped`, `process_disagg_prefill_inflight_queue` |
| `PRecvInfo` | the bootstrap thread of `NixlKVManager` |
| `PSend`, `PartsOfChunk` | `NixlKVSender.send`, `add_transfer_request` |
| `DAdd` | `CommonKVReceiver.__init__`, with the connection pool |
| `HandshakeFails`, `PopPreallocated` | `_update_handshake_waiters`, `pop_preallocated`, `NixlKVReceiver.init` |
| `IsDone`, `PollTransfer`, `Reduced`, `PopTransferred` | `TransferStatus.is_done`, `poll`, `poll_and_all_reduce`, `pop_transferred` |
| `NodeFailureMarks`, `NodeFailureFails` | `_handle_node_failure`, on the heartbeat thread, in two steps |
| `TimeOut` | the `waiting_timeout` branch of `poll` |

`Land` (a write and its notification), `PCrash` and `PRestart` are external. Memory
holds the last writer of each location, so a write that arrives after its pages were
given to another request shows. Abstracted: a chunk is one page; `freeMeta` is a set
(its order means nothing); the FIFO order of D's queue is in `came`; D's page budget is
just the number of free pages (`DecodeQueues` has the token budget); P takes its
bootstrapped requests in any order, where the code goes by the queue (what is shown holds
for that order too); a prefill chunk that completes no page sends nothing and is not a
chunk here; the heartbeat fails a P that is down, and one that is up but answers its health
requests too late; a receiver's records
are dropped when its request leaves D's queues, since nothing reads them afterwards.
`calm` says that no fault happens in a behaviour, so that one run can state both what
holds with faults and what holds without.

`KVHandoff` is what the protocol promises, with no ranks, messages or faults: pages are
reserved while nobody else has them, parts arrive, a request is delivered only when all
that is required of its history has arrived, or it is given up. `ImplementsHandoff` is the
refinement; the mapping is at the end of `KVTransfer` (`Stage`, `Held`, `Arrived`).
`Required` is what `is_done` makes sure of; for a chunked history that does not include
the mirror, which is the finding of `MirrorLate`.

### `DecodeQueues`: who gets memory

One iteration of `event_loop_overlap_disagg_decode` is the stages `Resume`, `Prealloc`,
`Transferred` (`process_decode_queue`), `Prebuild`/`Decode`/`NoDecode`
(`get_next_disagg_decode_batch_to_run`, with retraction) and `Result` (of the batch of the
*previous* iteration). Requests arrive and transfers end at any time in between.
Pages are counted, not named. `windowed` chooses between the DeepSeek-V4 pool with
`SGLANG_PD_SWA_WINDOW_PREALLOC=1`, as `launch_decode.sh` ships it, and a stock SWA pool,
which differs in the budget, the tail and in being able to copy KV to the CPU. An assertion
or exception that ends the scheduler is `Die`.

`QuickFinish` says whether the first output token, which P computes, may already end a
request. It may in the code. The run has it `FALSE` because with `TRUE` `PoolsAccounted` is
violated (see the counterexamples); the property is then about all other paths, and the
release of the prebuilt result (`PrebuiltResult`) is not taken in the run.

Abstracted: token values; whether a decode step produces a stop token is free; the
metadata buffers and the handshake (in `KVTransfer`); `SGLANG_OPT_SWA_EVICT_DROP_PAGE_MARGIN`
is off, as shipped. A client abort of a queued or transferring request does nothing with
NIXL, hence no action.

### `TrainingDump`: two processes and a file between them

The client (`run_dump_training_data.py`) and the tracker (`_maybe_init` and the hook of
`_make_score_hook` in `models/deepseek_v4.py`) share only the command file, the output
files and HTTP answers. Every CSA layer of every forward pass is a step (`Layer`), because
the command file is read anew in each; the server's overlapped loop (`LaunchPrefill`,
`LaunchDecode`, `Settle`), with retraction and chunked prefill, decides which requests each
pass contains. The client's steps are `BeginBatch` ... `Merge`, `Finish`, in the order of
`main`. A request, a short one included, may be lost before it arrives, given up while it
goes on running, or sent a second time by the HTTP client, which retries by default.

The two files are shared without a lock, and the model has what follows from it. A command
is written in two steps (`StartRound1` or `StartRound2`, then `WriteCmd`): in between the
file is empty and reads as "none", and if both fall into one tick of the file system's clock
a layer that looked in between never reads the command. Metadata is read, merged or sorted
and written back (`ReadMetadata`, `Merge`; `ReadFinal`, `Finish`): a line that the server
appends in between is lost. If the second round has metadata and the first has none, the
script dies on the missing file.

Assumed: answers of the first round have at least two tokens and documents more than two
blocks (shorter ones are not recorded); the output directory is empty at the start; one line
of metadata is appended, and one file written back, in one step. Contents of
hidden states, labels and compressed K are identified with the request they come from.

### Proof and MC modules

The theorems are in `SwapEnginePProofs`; `DecodeServerProofs` (engine contract, types, slots
and the condition lemmas), `DecodeServerRows` (rows, pages and lengths), `DecodeServerBytes`
(what a forward reads) and `DecodeServerRoom` (what follows from sizes, by counting), each
extending the one before, and `DecodeServerFill` (what a cycle publishes), which extends
`DecodeServerRows`; `KVTransferProofs`; and `DecodeQueuesProofs`. The `MC` modules supply
constants and symmetry (pages and requests; pool indices are not symmetric because the free
list orders them).

## The gates of the decode server

The code has environment gates for the fixes of its concurrency bugs. They are
constants here. As shipped by `launch_decode.sh`: `Async = TRUE`, `OwnerRelease`,
`LutTruth`, `LocalFix`, `SafeRelease`, `NoRowRelease` all `FALSE`. `ServerShipped`
uses those. The other passing runs switch the fixes on, because the strong properties
need them. Changing the constants of `ServerSync` shows which:

- `OwnerRelease = FALSE` violates `LiveRequestsKeepTheirLut`: the rows' pages are released
  on compaction although a live request moved (the code says so itself,
  `swap_engine_p.py:294`). With `SafeRelease = TRUE` in addition it is still violated.
- `OwnerRelease = FALSE` and `NoRowRelease = TRUE` leave blocks mapped to pages whose lut an
  admission has cleared. With `LutTruth = TRUE` the recall fills them again and
  `PublishedChunksAreResident` holds; with `LutTruth = FALSE` it skips them and it fails.
  With `OwnerRelease = TRUE` and enough blocks `LutTruth` makes no difference.
- One block and the thread (`ServerLive`, `MaxBlocks = 1`) violate `NoPhantomRow`: a staged
  count outlives its failed cycle.
- More pool indices than `MaxConc` (`ServerSync`, `MaxConc = 1`) violate `ReadsOwnKV`: two
  requests share a decode slot.

## The runs

Passing:

| Run | Instance | Properties |
|---|---|---|
| `Engine` | 3 pages of 1 chunk, 1 block, 1 request, any caller | `EngineTypeOK`, `BlockAccounting`, `ResidentInOwnBlock`, `ResidentBytesAreItsOwn`, `SelectionKeepsItsBlocks` |
| `ServerSync` | 3 requests, 2 rows, 3 pages of 2 chunks, 3 blocks, inline side-band | `ReadsOwnKV`, `MetaMatchesCount`, `DecodedChunksStayInDecodeRegion`, `LiveRequestsKeepTheirLut`, `PublishedChunksAreResident` |
| `ServerShipped` | shipped gates, side-band thread, 2 requests, 1 block | `TypeOK`, `PublishedRowIsOccupants`, `UsesEngineByContract` |
| `ServerLive` | 2 requests, 2 blocks, side-band thread, fair | `NoPhantomRow`, `PublishedChunksAreResident`, `RunningRequestsGetPublished` |
| `Transfer` | 2 requests of 2 and 1 chunks, 1 rank, 3 pages, 2 metadata buffers on D, 1 restart of P | `TransferTypeOK`, `DeliveredHistoryIsOwn`, `MetadataAccounted`, `CommitReadsOwnMetadata`, `ImplementsHandoff` |
| `TransferLive` | 2 requests of 1 chunk, 1 rank, 1 page, 1 metadata buffer, 1 restart of P, fair | `EveryRequestConcludes`, `CalmRequestsAreDelivered` |
| `Queues` | 3 requests, pages of 2 tokens, window 2, 8 full and 6 SWA pages, 2 running, both pools, fair | `QueuesTypeOK`, `PoolsAccounted`, `RunningWithinLimit`, `WindowHasSwaSlots`, `QueuesDisjoint`, `NewRequestsFit`, `EveryRequestEnds` |
| `Dump` | 3 documents in 2 batches, 2 workers, 3 layers, 1 preemption, 1 fault | `DumpTypeOK`, `DocumentsAreWrittenOnce`, `MergedIsOwnWhenServed`, `AnsweredAreComplete`, `LayersAligned` |

What they say. With the fixes on, the side-band inline and enough blocks, what attention
reads is the reading request's own KV, all prefill chunks of a published row are resident,
and churn never takes residency from a request that stays. What of this survives evictions
is proved (`PublishedRowsAreResident`, `ForwardsReadTheirOwn`). With the thread and enough
blocks what is published is still resident and no row past the batch is published, but
what a forward reads may be another's (below). With the shipped gates and one block the
recall raises half-way and the thread dies; the engine's invariants survive that, and a
published row still describes its occupant.

A delivered history is the request's own in every order of messages and notifications,
with P crashing between any two steps; the one thing that can overwrite it is a write P
still had in flight for a request D gave up, because `pop_transferred` returns the pages
without telling P, or a late mirror write. No request is polled for ever, and without
faults every request is delivered.

Slots and pages of both pools are accounted for through windowed tails, eviction,
retraction with results outstanding and failed transfers; a new request never hits the
allocation assertion. A running request can still run out of memory while all others are
in transfer, which the budget of `decode.py:581` sets out to prevent (`BudgetOom`).

In the training data no document is overwritten, whichever single request fails, and every
answered request ends up with its own complete compressed K, provided the server got a short
request of each round and no other was left running or lost in the second round. If one of
those is lost, the merge,
which goes by position ("Round 2 是串行的，compk_meta_lines[i] 对应 compk_order[i]",
`run_dump_training_data.py:307`), gives every later document of the batch the K of another.

Violations, each a disagreement between the code and one of its own comments (the
quotations are in `PROJECT.json`, "findings"):

| Run | Property violated | What happens |
|---|---|---|
| `TailPageEvicted` | `DecodedChunksStayInDecodeRegion` | a recall for another request evicts the recency page; its decoded chunks are recalled as zeros |
| `MirrorLate` | `MirrorLandsBeforeDecode` | one mirror notification of a chunked history is enough to start decoding; a later mirror write is still in flight |
| `RetractCrash` | `RetractionKeepsServerAlive` | a retracted request of the windowed pool is resumed, there is nothing to load, the scheduler dies |
| `BudgetOom` | `BudgetPreventsOutOfMemory` | the budget counts full-pool tokens, the SWA guard only the new request's tail; preallocation takes the SWA page that the only running request needs, the others are in transfer, `retract_decode` raises |

### Counterexamples outside the runs

Each of these follows from changing a run's configuration as said.

| Property | Change | What happens |
|---|---|---|
| `DecodedChunksStayInDecodeRegion` | `ServerLive` with this invariant | with the thread, a decode store between the guard and the lut scatter is overwritten |
| `MetaMatchesCount` | `ServerLive` with this invariant | a forward runs between the counts and the schedule built from them |
| `ReadsOwnKV` | `ServerLive`, `MaxBlocks = 1`, this invariant | a block is refilled between a forward's translation and its read |
| `RunningRequestsGetPublished` | `ServerLive`, `MaxBlocks = 1` | exhaustion raises instead of masking; a request is never published |
| `PublishedRowIsOccupants` | `ServerSync`, `PoolIdx = {i1, i2}`, `FirstSlots <- MCSlots2`, this invariant | a new request with the old one's index and row inherits its published locs |
| `PoolsAccounted` | `Queues`, `QuickFinish = TRUE` | a request that ends with its first token is retracted in the next iteration and then released again by the prebuilt result, which does not look at `is_retracted` |
| `EveryRequestEnds` | `Queues`, `Reserved = 4`, inputs 13, 5, 3 and `MaxNew` 1 | an input that passes `add` but can never pass the budget heads the queue for ever |
| `MergedIsOwn` | `Dump` with this invariant | one rejected second-round request shifts the merge |
| `CountersAligned` | `Dump` with this invariant | a request left running sees the command switch in the middle of its pass; its layers are off by the part it missed |
| `NumbersAreUsedOnce` | `Dump`, `NItems = 2`, `BatchSize = 1`, `MaxFaults = 2`, this invariant | a request is left running and the short request is lost: the server reads "none" after the next batch has taken its first number, and two requests get it |

### Bounds

In the decode server `MaxChunks` bounds a request's length and is the only bound on
behaviour: batch, pool and block sizes are parameters of the program. The sizes are the
smallest at which the cases meet: two requests in the batch and a third to reuse what the
first leaves (compaction, reuse of rows and pages; pool indices are not reused in the runs,
which is the matter of the theorems about `SpareSlots`), a page that holds both prefill and
decoded chunks (2 chunks, prefill 1), fewer blocks than pages (eviction), fewer blocks
than one selection (exhaustion), interval 2 (a step with and a step without a cycle).
In `ServerShipped` the pages have numbers, because the legacy local index reads them:
the first page's decoded chunks find a cell and the second page's go to the sink.

`Transfer`: `MaxGen` bounds the restarts of P; both requests can hold pages and buffers at
once, so that one poll commits one and aborts the other, and a request that comes later may
take pages to which writes for a request given up are in flight. `TransferLive` has one page
and one buffer, so that the second request has to wait for the first. TLC explores one rank; the theorems hold for any number of ranks, pages and buffers. `Queues`: lengths and pools are chosen so that retraction, resumption,
eviction of SWA pages and running out of memory all happen. `Dump`: two batches (numbers
and directories are reused), two concurrent requests, 3 layers, the least at which an absent
request can be flushed within one pass (21 in the code); one short request (5 in the code),
so that losing all of them is one fault. It also passes with two faults in two batches of
one document (`NItems = 2`, `BatchSize = 1`, `MaxPreempts = 0`, `MaxFaults = 2`), and with
`MaxPreempts = 2` as it is (50 million states).

Runs end when every request is done, or the scheduler has died; that state stutters
(`Idle`, `Dead`, `Done`), so deadlock is checked everywhere.

### Fairness

`ServerLive`: weak fairness of the scheduler's event loop (`while True`) and of the
side-band thread (a started Python thread is scheduled), nothing of transfers, nothing of
individual actions. `TransferLive`: the system does not rest while a scheduler, a bootstrap
thread, a posted write of a live P, the end of a running request, the heartbeat thread's
second step or an expired timeout can act; nothing makes P crash, come back or be noticed.
`Queues`: the loop goes on, and every transfer ends, which `TransferLive` checks.
`Dump` has no liveness property: the client's waits are bounded by retry counts.

## The proofs

| Module | Theorem | Statement |
|---|---|---|
| `SwapEnginePProofs` | `EngineTypeCorrect` | `EngineSpec => []EngineTypeOK` |
| | `BlocksAccounted` | `EngineSpec => []BlockAccounting` |
| | `ResidentsAreAligned` | `EngineSpec => []ResidentInOwnBlock` |
| | `ResidentBytesCorrect` | `EngineSpec => []ResidentBytesAreItsOwn` |
| | `SelectionIsProtected` | `EngineSpec => SelectionKeepsItsBlocks` |
| | `LruOrderIsTotal` | `EngineSpec => []LruOrderTotal` |
| `DecodeServerProofs` | `ServerUsesEngine` | `Spec => UsesEngineByContract`: the server implements `EngineSpec` |
| | `ServerResidency` | the engine's block and byte invariants, of the server |
| | `ServerTypeCorrect` | `Spec => []TypeOK` |
| | `ScheduleMatchesCounts` | (1) `Spec => []MetaMatchesCount` |
| | `SlotsInvariant` | (3) live requests have different pool indices, none of them free |
| `DecodeServerRows` | `RowsDescribeOccupants` | (3) `Spec /\ [][FreshIndex]_vars => []PublishedRowIsOccupants` |
| | `PagesInvariant` | live requests hold different pages |
| | `StayingRequestsKeepResidency` | (2, 3) `Spec /\ [][FreshIndex]_vars => LiveRequestsKeepTheirLut` |
| `DecodeServerFill` | `PublishedRowsAreResident` | (1, 3, 7) `Spec => PublishedChunksAreResident` |
| `DecodeServerBytes` | `ForwardsReadTheirOwn` | (1, 2, 3, 4) `Spec`, `FreshIndex`, `KeepsBoundaryPages` and `DecodeSlotsApart` throughout `=> [](ReadsOwnKV /\ DecodedChunksStayInDecodeRegion)` |
| `DecodeServerRoom` | `RecallNeverFails` | (5) no recall runs out of blocks |
| | `NoPhantomRows` | (1 or 5) `Spec => []NoPhantomRow` |
| | `SpareSlotsKeepIndicesFresh` | (3) `Spec /\ []SpareSlots => [][FreshIndex]_vars` |
| | `RowsDescribeOccupantsWithSpareSlots` | (3) `Spec /\ []SpareSlots => []PublishedRowIsOccupants` |
| | `StayingRequestsKeepResidencyWithSpareSlots` | (2, 3) `Spec /\ []SpareSlots => LiveRequestsKeepTheirLut` |
| | `DecodeSlotsStayApart` | (6) `Spec => []DecodeSlotsApart` |
| | `ForwardsReadTheirOwnWithSpareSlots` | (1, 2, 3, 4, 6) `Spec`, `SpareSlots` and `KeepsBoundaryPages` throughout `=> [](ReadsOwnKV /\ DecodedChunksStayInDecodeRegion)` |
| `KVTransferProofs` | `TransferTypeCorrect` | `TransferSpec => []TransferTypeOK` |
| | `DeliveredHistory` | `TransferSpec => []DeliveredHistoryIsOwn` |
| | `MetadataNeverLost` | `TransferSpec => []MetadataAccounted` |
| | `CommitReadsMetadata` | `TransferSpec => CommitReadsOwnMetadata` |
| | `TransferImplementsHandoff` | `TransferSpec => ImplementsHandoff` |
| `DecodeQueuesProofs` | `SwaGuardCoversTail` | the SWA guard covers the tail of every new request |
| | `TailCoversWindow` | the tail contains the window of the first decode step |
| | `EvictionSparesWindow` | eviction does not reach into the window of its step |

They hold for every value of the constants, from the named assumptions of the modules:
`SizesAssumption` and `GatesAssumption` (a page has a chunk, there is a slot, gates are
Boolean) with the server's own assumptions, `KVTransferAssumption` (finite sets, at least
one rank and one chunk), `QueuesAssumption`. Some theorems of the server need more, which is
where the code's correctness depends on how it is configured:

1. `~Async`: the side-band runs inside `on_forward_end`. With the thread the conclusions are
   false (see the counterexamples), except `PublishedChunksAreResident`, which `ServerLive`
   checks there.
2. `OwnerRelease \/ NoRowRelease`: pages are not released by row (see the gates).
3. `IsInjective(FirstSlots)`: `free_slots` starts as a list of different indices, as
   `list(range(...))` is.
4. `LocalFix`, and `DecodeFits`: the decode region of a slot holds all that a request may
   decode.
5. `EnoughBlocks`: blocks for `KMax` pages of every row, or for every page.
6. A decode slot for each pool index (`Cardinality(PoolIdx) <= MaxConc`); with fewer,
   `ReadsOwnKV` is violated.
7. `LutTruth`: the recall reads its misses off the lut (see the gates for what happens
   otherwise).

Others assume something of the behaviour, in the statement itself:

- `FreshIndex`: a new request does not get an index that the capturer still has as a row's
  occupant. The counterexample to `PublishedRowIsOccupants` shows what happens otherwise.
- `SpareSlots`: as many request slots are free as the batch has rows, in every state. It
  implies `FreshIndex` for any number of requests. `DecodeReqToTokenPool` has
  `2 * max_num_reqs` slots more than the batch when `max_num_reqs <= 32`
  (`model_runner_kv_cache_mixin.py:535`), so there it says that at most twice the batch is
  held by requests in transfer or running. For larger batches the code adds none, and
  `FreshIndex` is then not guaranteed by anything.
- `KeepsBoundaryPages`: no eviction takes a page with a request's last prefill chunks and its
  first decoded ones. It fails when blocks are scarce: the violation `TailPageEvicted`.

**Engine.** `EngineInv` adds four facts to the stated ones: `BlocksOnce` (who holds which
block, pointwise), `RecallOwnsItsBlocks` (the blocks a recall in flight plans to fill are
the ones its pages hold), `MirrorOwnBytes` (a mirror row holds bytes of its own chunk) and
`CopiedBeforeScatter` (between copy and scatter the planned cells already hold the right
bytes). They are needed because `ResidentBytesAreItsOwn` is preserved by the scatter only
if the copy came first and nothing has reassigned the block since, which rests on no
release running during a recall and on the eviction never choosing a selected page. The
order theorem (the relation `before` represents the OrderedDict: it is a strict total order
of the mapped pages, so there always is one oldest) is a second induction on top.

**Server: contract.** `ServerInv` says that a request's pages have room for its chunks, that
rows and snapshots refer to admitted requests, and (`OneRecall`) that a recall is in flight
only while the thread is in its recall. The last is the discipline the engine needs: it holds
because `BeginChanged` joins the thread before anything is released. With it every step of
the server is a step of `EngineNext` or leaves the engine alone, so all that is proved of the
engine holds of the server.

**Server: rows.** `SlotsInv` is about pool indices, `PagesInv` about pages: live requests have
different ones. `OccupantsInv` says of every row buffer and every snapshot, also one the
thread still works on, that what it lists are chunks of the live request with the row's index.
It survives churn because `_reset_changed_rows` clears each row whose index changed, which
sees a new request only if its index differs from the row's old one: hence `FreshIndex`.
`OwnedInv` says that a page recorded for an index is of the request with that index or, once
that one has left, of a request whose index the capturer has not seen yet; so a release by
owner does not hit a request that stays. `StagedInv` keeps counts and staged counts within
the last batch; it needs that a cycle on the thread does not raise in between.

**Server: reads.** `ReadsOwnKV` is preserved only along the whole path of a chunk.
`TransferredInv`: from the transfer on the mirror has the request's prefill chunks, from the
commit on the engine has its prefill length and decode slot. `LengthsInv`: a request decodes
only once the capturer has seen it, and what is being formed belongs to the batch. `BytesInv`:
a formed chunk of an admitted request that is resident has its request's bytes, decoded ones
in their place of the decode region and never in the recall region; a decoded chunk beside
prefill chunks is in the decode region, so that the guard of the recall sees it. `RecallInv`:
a recall selects pages with prefill chunks of the batch, copies prefill chunks only, and has
their bytes in place before the scatter. `PlacesInv`: what a forward translated is still what
the lut says when it reads. Stores keep `BytesInv` because decode slots are apart, the recall
because blocks are (`BlocksOnce`) and boundary pages stay.

**Server: publishing.** The recall takes a page for resident when its first chunk is
(`LutTruth`). That is sound because of `WholePages`: of the prefill chunks of a page all are
in the lut or none is, since a scatter writes all of them, a release or an eviction clears
the page, and a decode store touches none of them. `RecallFills` follows the selection
through allocation, copy and scatter: each selected page still waits for a block, has one,
or was resident from the start, and the eviction takes none of them. `ListedFilled` says that
what the rows list is in the selection (`FirstOfPage`: a page with a prefill chunk begins
with one), so at the publication, after the scatter, it is in the lut.

**Server: room.** The conditions on the state are then derived from sizes, by counting: the
selected pages of a batch are fewer than the blocks, so there is a free block or a page to
evict; `_decode_next_slot` does not wrap before every index has a slot. For the pool indices
the argument is the order of `free_slots`: it is taken from the front and freed at the back,
so while it has `MaxRunning` entries besides the one taken, those freed by the last result,
which are at most `MaxRunning` and the only free ones that a row may still name, are not at
the front (`FreedLast`).

**Transfer.** `TransferInv` follows a part of a history through its life: not sent before
its pages are reserved (`Bootstrapped`, `Sending`), then either in flight or landed and
not both (`Writes`), with the writer's bytes in place once landed (`Bytes`), in pages nobody
else holds (`PagesOwned`); receivers conclude with success only what `is_done` accepts
(`Records`). The step from counting to containing (a status with as many chunks as expected
has all of them) is `IsDoneHasAwaited`, by cardinality. Two distinct writes that may still
matter never have the same destination (`WritesApart`). The refinement uses the same
invariant: preallocation is `Reserve`, a landing is `Arrive`, a reduced poll is `Conclude`
because the minimum over the ranks is success only if every rank's is.

**Queues.** The page arithmetic only.

Only model-checked: liveness (`RunningRequestsGetPublished`, `EveryRequestConcludes`,
`CalmRequestsAreDelivered`, `EveryRequestEnds`), which is out of the prover's reach; what
depends on sums, filters and folds over queues (`PoolsAccounted` and the rest of
`DecodeQueues`, `TrainingDump`), which would need induction over data;
and `PublishedChunksAreResident` with the thread (`ServerLive`), since the proof uses that
the snapshot is of the rows as they are.

## Not modelled

- The index-K reserve (Path-I), the chunk-granular and eager allocators, `FUSED_REMAP`,
  `STAGGER_CYCLE`, `reclaim_orphans_global`, the ingest of the non-mirror mode: modes the
  launch scripts leave off, or a second copy of the same recall (Path-I).
- The eager retriever hook: the launch scripts do not start it, its scorer is numerical.
- A resumed request in the swap engine: with this pool resumption ends in the crash of
  `RetractCrash` before it gets there.
- Transfers between servers of different TP or PP sizes, and back ends other than NIXL.
- The other experiment modes of the tracker in `models/deepseek_v4.py`.
- Scores, kernels, byte layouts and CUDA graph capture (numerical or hardware), training
  and evaluation of the retriever (offline, numerical).
- Stock SGLang: the repository contains the whole framework, some half a million lines, of
  which the FlashMemory additions and what they touch are a few thousand. The models cover
  those, so the share of all lines that they map is small and would not mean more if
  unrelated parts of the framework were added.
