# Specifications of the CUDA kernel library

TLA+ modules for this library, in two groups. The first is about orders of events:
blocks of one kernel that talk through global memory, copies that overtake reads,
scratch memory shared by calls, host threads that share a handle or a cache, calls
that fail half way. The second follows one caller through the plans and the
dispatcher, kernel after kernel: which rung serves a call, what it refuses, what
it leaves in memory. TLC checks every module on small instances; TLAPS proves the safety
of the first group for every value of their constants, and what the second says of the choice
of a rung.

In the first group what a kernel computes inside one thread is data. A partial sum is
the interval of tiles or of K it covers, so that a term that is missing, taken twice,
taken out of order or left over from an earlier call is a different value. In the
second group the arithmetic is there but exact: integers and NaN for products, words under
concatenation for scans, residues modulo a prime for transforms. Rounding is in neither.

## The system

All paths are below the repository's root; the library proper is `src/` with the
public headers in `include/ckl`.

| Part | State it keeps | Operations | Talks to |
|---|---|---|---|
| Decoupled look-back scan, `src/scan/scan_lookback.cu` | a status record per tile (flag, aggregate, inclusive prefix), the ticket counter; both live in the plan and outlast a call | two memsets, the kernel: claim a tile, publish an aggregate, look back, publish the prefix, store | `ScanPlan` lends the buffers; blocks talk to each other through the records |
| Reduction ladder r0-r6, `src/scan/reduce_*.cu` | the partials buffer, the ticket counter, the output word | memset or fill, first kernel, combine kernel or last block | `ScanPlan` lends both buffers to all rungs |
| `ScanPlan`, `src/scan/scan_plan.cpp` | the buffers, sized once in the constructor | the choice and the refusal of a rung, the launch | the dispatcher and the C interface |
| Scan rungs with levels s0-s3, `src/scan/scan_levels.cuh` and others | the level buffer | local scans, recursion over block sums, additions | `ScanPlan` |
| Tensor core tile loop, `src/gemm/detail/gemm_tile_mainloop.cuh` | a ring of shared memory buffers, groups of asynchronous copies per warp | prologue, wait, barrier, multiply, refill, drain | the tile family, split-K and stream-K |
| Split-K, `src/gemm/gemm_splitk.cu` | the planes of the call's workspace | slices, fixup, plain grid, allocation | the tile family; a workspace of the caller |
| Stream-K, `src/gemm/gemm_streamk.cu` | a plane and a flag per CTA in the call's workspace | grid plan, memset of the flags, kernel, allocation | as split-K; CTAs hand sums to each other |
| Other GEMM rungs, `src/gemm` | none between launches | a fast path for whole tiles, a fallback or a refusal for the rest | the dispatcher; each other, as fallbacks |
| GEMV, TRSM, `src/gemv`, `src/trsm` | none between launches | one launch each; the blocked solve a launch for each block and each update | the caller |
| Sparse products, `src/sparse` | a plan with converted copies of the matrix; one cached vendor plan | conversions, five kernels, merge path with carries | the dispatcher, cuSPARSE |
| FFT and convolution, `src/fft` | twiddles and scratch in the plan; one bank of taps in constant memory for the module | stages, transposes, bind and rebind of the bank | the dispatcher, cuFFT |
| Dispatcher, `src/api/dispatch.cpp` | none of its own; it lends the workspace of a `Context` | the choice of a rung, the call | every rung |
| `Context` and the default one, `src/api/context.cpp` | vendor handles made on first use, stream, workspace; the capability read once | creation under a mutex, the guard in front of hand written kernels | the free functions |
| C interface, `src/api/c_api.cpp` | four caches of one plan each, a mutex for each, `last_error` per thread | look up, rebuild, run outside the mutex, report | the plans and the dispatcher |
| `DenseSolver`, `src/solver` | handle, stream, workspace, pivots, info word | factor, read the word, solve, read the word | cuSOLVER |
| `NvmlMonitor`, `src/telemetry` | an `Impl` with flag, thread, samples | start, stop, move, assign, destroy; the sampling thread | NVML |
| Fortran bindings, benchmarks, tools, examples, scripts, tests | files | | the interfaces above |

### What is hard here

- Blocks spin on other blocks, and only as many are resident as fit (look-back,
  stream-K). Whether they end depends on which are made resident first.
- A flag must not become visible before the data it advertises, and both survive
  in memory from the previous call on the plan or the workspace.
- Warps run ahead of each other inside a CTA, with one barrier per iteration
  between a copy into a buffer and the reads from it.
- Scratch memory of one plan serves every rung and every call on it.
- The host enqueues and goes on: a plan can be deleted, a bank rebound, a
  workspace freed while the device still works with it.
- Several host threads share the plan caches, the default `Context` and its one
  cuBLAS handle, with its one stream.
- Every CUDA call can fail between two others, and what was taken must be given
  back.
- A rung is reached by several ways (by name, by `kAuto`, as the fallback of another), and
  what one of them checks another may not.
- Sizes rounded up twice: a slice, a share or a grid that is empty, short by one or
  larger than the buffer.

### What makes each part correct

| Part | Correct means | Module |
|---|---|---|
| Look-back scan | each tile is scanned with exactly its ordered prefix, and every call ends on a device that holds fewer blocks than tiles | `LookbackScan` implements `ScanSpec` |
| Reduction ladder | every rung leaves exactly the reduction of its own input, whichever rung ran before, also when there is no input | `ReduceLadder` implements `ReduceSpec` |
| Tile loop | every warp multiplies each part of each K stage once, in a buffer no copy is aimed at | `TilePipeline` |
| Split-K, stream-K | C is written once, with all of K, or the call fails with C as it was, or wholly written when only the free at its end failed; the workspace is given back on every way out; owners do not wait for CTAs that cannot run | `SplitK`, `StreamK` implement `GemmSpec` |
| Plan caches | a call works on a plan of its own key that is alive, in scratch memory no other call is in; a failure is explained to the thread that met it | `PlanCache` |
| Sparse products | y is alpha A x + beta y on every rung, converted copies included, and y is not read when beta is zero | `SpmvPlan` |
| Scans with levels | every position gets its operands once and in order, also in place, and the level buffer holds what the recursion asks for | `ScanLevels` |
| Transforms, convolutions | every rung computes the transform, in the buffer of the caller, from a plan used any number of times | `FftPlan`, `ConvPlan` |
| Dense products and solves | C, y or X is what the call says, between the rows it is what it was | `GemmRungs`, `GemvTrsm` |
| Dispatcher | a named rung runs or the call says why not, `kAuto` is never refused what it chose itself, the workspace it reports is what the call needs | `GemmDispatch` |
| Bank of taps | a plan convolves with its own filter only | `ConstantBank` |
| Dense solver | a call that returned is finished, and what it says of the factorization is of its own | `DenseSolver` |
| Telemetry | a thread never outlives its `Impl`; a closed window stays closed; stop returns | `NvmlMonitor` |
| Free functions | one handle, work on the stream asked for, vendor plans of the key asked for that outlive their work | `DefaultContext` |

## The modules

`ScanSpec`, `ReduceSpec` and `GemmSpec` are abstract: what a caller is promised.
Each detailed module instantiates its own with a mapping of its state, in a
definition `Promise`, and states the refinement as `ImplementsScan`,
`ImplementsReduce` or `ImplementsGemm`. `GemmSpec` is implemented twice; its variable `fragment`
is the cut of C that the shape of the call leads to, one of `Cuts`, and never changes.
The `MC` modules give TLC its constants. The `Proofs` modules hold the theorems.
`NvmlState`, `SolverState` and `FilterSpec` declare what `NvmlMonitor`, `DenseSolver` and `ConstantBank`
are about, constants with their assumptions, variables, types and safety properties, and the modules of those names
have the actions; so one module of proofs, `HostProofs`, can speak of all three beside `SplitK`.

Definitions under a heading "Faults" are variants of the definitions below them
with a plausible bug. Nothing refers to them. Each belongs to one property,
which TLC finds violated when the fault stands in for the original: it shows
that the property would notice.

**LookbackScan.** `phase` is how far the stream is in `scan_lookback_launch`
(memset of the records, memset of the counter, kernel). A block is a `pc`; the
actions are the marks in `lookback_kernel`: `Claim` is the `atomicAdd` on the
ticket, `WriteAggregate` and `PublishAggregate` the payload and the release store
of the flag, `AcquireFlag` and `ReadPayload` one step for each lane of the window,
`CombineWindow` the ballot, the stop lane and `window_reduce`, `WriteInclusive`,
`PublishInclusive` and `Store` the rest. The load and the scans inside a
block are one step: a block is alone with its tile until it publishes. Release and
acquire are as strong as the code makes them (`__threadfence` and volatile
access), hence one shared memory. `Dispatch` makes any queued block resident, in no
order: the ticket is why that is enough.

**ReduceLadder.** A call picks any rung. `stage` is the command the stream is
at: fill of an empty output, memset, first kernel, combine kernel. Each block
has a write buffer (`Drain`), because the single pass rung needs its fence:
`Fence` waits until the block's partials are visible and `DrawTicket` follows it.
The Kahan rung writes two words, the tree rung has a block for every tile.

**TilePipeline.** The three loops that walk K through shared memory, for the warps of one
CTA: `ring` is `tile_accumulate`, tile after tile, with a barrier (`Top`) between tiles as in the
persistent callers, and the loop of `gemm_mma_opt`; `double` is `gemm_cp_async`, two
buffers and a second barrier; `single` is a buffer filled by plain stores between the
two barriers, in the tiled, register, WMMA and mma rungs. A copy lands in any order after
it is issued; `Wait` is `cp.async.wait_group` or `__pipeline_wait_prior`. `Read` loads the parts
of a buffer one by one, so that a copy can be seen overtaking it. The final drain is
part of the model, as it is of the code; no safety property needs it.

**SplitK.** `Extent`, `Used` and the slices are the arithmetic of `slice_extent` and
`slices_used`, then the call: workspace null, too small or large enough; the first
kernel, fragment by fragment and slice by slice; the fixup; free. Every launch and
allocation can fail, and the free too (`Free`), when C is already written.

**StreamK.** The same around `streamk_kernel`: `ShareBegin` cuts the iterations of the
stream-K tiles into shares, a CTA goes through its share tile by tile, as owner (it
reaches the end of the tile) or peer. Warps store, fence, meet, and thread 0 raises
the flag. CTAs become resident in increasing index order, which the code
relies on and says (`gemm_streamk.cu:25`).
`Residency` is apart from `Occ` since the occupancy query and the device may disagree,
under a profiler for one.

**PlanCache.** One of the four caches of `c_api.cpp` with the entry points above it.
`Hit`, `Miss`, `Build`, `Replace` under the mutex; `Query`, `EnqueueClear`,
`EnqueueRun`, `Return` outside it, on a reference. A plan is named by the call that
built it, and has one scratch memory. Deleting a plan waits for the device
(`cudaFree`). Work on a deleted plan makes the output garbage.

**ConstantBank.** `conv_direct.cu` keeps who owns the bank, `fft_plan.cpp` binds and
rebinds, and here several plans share it; what one plan does around it is `ConvPlan`. The record is on the host and the taps are on the device, so there is a
queue between them: commands of one stream in order, of two in any, except where
the default stream orders them.

**DenseSolver.** Both solves as one sequence: grow, factor, read the word, solve, read the
word. The read is a blocking copy on the default stream, so it waits for the queue of
a blocking stream and of no other. It can fail, as can giving the handle its stream, each
allocation and each launch.

**NvmlMonitor.** One client, objects that hold an `Impl` or nothing, and one thread per
`Impl`. `Stop` clears the flag and waits in `joining`; `Check` and `Poll` are the two
halves of the thread's loop. A thread that cannot be created leaves `running` set, as
in the code.

**DefaultContext.** Three kinds of calls: cuBLAS (take the handle, making it if there is
none, then `default_context_mutex`, set the stream, enqueue), a cached vendor plan
(cuSPARSE, cuFFT: under the same mutex look up, build, replace, set the plan's
stream, enqueue), and a hand written kernel behind `require_arch`. Creating the handle,
building a plan, setting a stream, the vendor call and the guard can throw. `Cache` are the functions
that keep a plan, each a static of its own, and `CacheOf` says in which one a key is looked up: a rebuild
destroys the plan of its own function (`Mine`) and leaves the other's.

### The library, kernel by kernel

**StreamCalls** has what the entry points share. `input` is what a plan is built from,
`plan` the plan, `request` the call, `program` the launches the stream has still to execute
and `dev` the buffers, the plan's scratch among them. `Serve` is an entry point that reports
its choice and refuses or enqueues; `Execute` runs one launch; `LaunchFails` ends the call with
what ran before it, `Return` when all ran. The scratch of one call is what the next finds.
A matrix or vector that must not be read is `NaN`, and a NaN that is read is seen in the result.

**SpmvPlan.** The constructor of the plan: the histogram, the SELL-C-sigma copy with its
permutation, the BSR copy with its choice of a block, why either is not built; `query`; `spmv`;
and each kernel. `MergeSplit` is the search on the merge path; `MergeWalk` a thread's walk, which
stores the rows whose end it meets and leaves a carry; `MergeFixupKernel` adds the carries.

**ScanLevels.** `LevelRun` is the recursion of `LevelDriver::run` flattened into its launches,
`ReduceThenScan` the other driver, `LevelsCapacity` the size the plan was given. The three
block scans (Hillis-Steele, Blelloch, warps with shuffles) are their strides between barriers.
The reduction and look-back rungs a plan also serves are one kernel here and whole modules
above.

**FftPlan** and **ConvPlan.** The plans with what they refuse, the ladder of radices and which
buffer each stage lands in, the resident and the four step form with its transposes, real data by
the half length transform, rows and columns of `Fft2dPlan`; padding, product and
extraction of `ConvPlan` and its direct forms. `Stage` is one radix 2, 4 or 8 stage with the code's indices.
A real transform packs its input into the plan's scratch before the rung can refuse
(`PackedReals`, `PackedBins`), and so a refused call leaves the packed data there. `BuildConv` refuses a filter
that is null and ends with the bind of the taps, which can fail; `ConvBindKernel` is its copy.
A float is a residue modulo `Prime` (31 in the run), so that the identities hold exactly: -1
has no root modulo 31, a complex number is a pair, and `Omega` is a root of unity whose
conjugate is its inverse.

**GemmRungs.** For every rung its launcher (when it takes the fast path, to what it falls
back, what it refuses) and its kernel as the part of C it covers, the steps of K it takes without a
guard, and what it stores. A tile called directly refuses where the device does not grant the shared memory
it opts in to (`Prepared`). A kernel whose body is behind `__CUDA_ARCH__ >= 800` does nothing
below. How a block walks K is `TilePipeline`, split-K and stream-K have modules of their own.

**GemmDispatch.** `why_not` and `required_cc` (`Takes`, `RequiredCc`); the committed sweep, row by
row, with the nearest shape by log distance (`SweptRows`, `NearestSwept`); the tile with its wave
quantization and the K splits (`ChooseTile`, `SplitCountFor`); `PickAuto`, `PlanNamed`,
`GemmPlan`; `GemmWorkspaceSize`; `gemm` from `Validate` to `Run`, where `Landing` is the part between them that
reroutes or refuses. Logarithms are a table of scaled integers.

**GemvTrsm.** The free functions of both families, with the lanes of their warps and the
launches of the blocked solve.

**Library** puts the families together; `MCLibrary` has the inputs and the requests.

## The runs

| Run | Instance | States | What it shows |
|---|---|---|---|
| `lookback` | 4 tiles, window 2, 2 resident blocks, 2 calls | 313 817 | flags are not ahead of payloads or left over, published records are final, the scan implements `ScanSpec`, every call ends |
| `reduce_ladder` | 4 tiles, persistent grid 3, 2 deterministic blocks, 3 calls | 19 507 | slots do not collide, every rung implements `ReduceSpec` after any other |
| `streamk` | 1 tile in shares of 2, 1 and 1 iterations, or 7 tiles: 3 data parallel ones beside 4 in shares of 6, 5 and 5; occupancy 3, 2 resident, 2 warps, 2 calls | 14 053 | planes complete before flags, sums contiguous, workspace balanced, implements `GemmSpec` on both shapes; every call ends with one CTA fewer than the grid was cut for |
| `tile_pipeline` | 3 warps; a ring of 3 with tiles of 4, 0 and 2 stages; the other loops with 1 stage and 3 | 168 390 | sums exact, no copy under a read, no warp left at a barrier |
| `splitk` | K = 10 in steps of 2, requests -1, 1, 3, 4, 9, 2 calls | 12 158 | workspace balanced, implements `GemmSpec` |
| `plan_cache` | 1 thread, 1 stream, 2 keys, 3 calls | 3 114 | cache, key and plans agree after any failure; a rebuild never pulls scratch from under a kernel; every failure has its message |
| `plan_cache_two_keys` | 2 threads, 2 streams, 2 keys, 2 calls | violation | a thread works on a plan another has deleted (`PlanOutlivesCall`) |
| `constant_bank` | 2 plans of 1 thread, 1 blocking stream, 4 calls | 2 145 | each plan convolves with its own taps |
| `solver` | 2 streams, 2 sizes, 2 calls | 4 746 | synchronous, truthful, buffers fit |
| `nvml` | 2 monitors, 2 `Impl`s, 2 windows, 1 sample | 4 961 | joined before freed, windows settled, library balanced, stop returns |
| `free_functions` | 2 threads, 2 streams, 2 keys of one vendor cache and 1 of the other, 2 calls | 593 499 | one handle, own stream, plan outlives its work, every call returns |
| `library` | one plan or `Context`, 1 or 2 calls on it; the operands below | 108 982 | each rung's result is the one asked for (`SpmvExact`, `ScanExact`, `FftExact`, `ConvExact`, `GemmExact`, `DenseExact`); `gemm` never replaces a named algorithm (`NeverRerouted`), serves `kAuto` (`AutoServed`), finds its scratch large enough when it is what `gemm_workspace_size` says (`WorkspaceSuffices`), and takes a tile within five percent of the best measurement (`SweepHeeded`) |

`Consistent` (`MonitorConsistent`, `SolverConsistent`), where a run checks it, is the type invariant of the module together with
the invariants of its bookkeeping, which are defined above it by name. `plan_cache_two_keys` checks what a
header says and the code does not keep; the other disagreements are further down, each with the instance that shows it. Deadlock is
checked in every run; where nothing is left to do, an explicit step (`Rest`, `Idle` in
`Library`, `Done` in `TilePipeline`) stands for the idle library.

### Why the bounds are enough to meet the interesting cases

Two calls are the least that leave something behind; three in `reduce_ladder`, so that
a rung which does not use the counter comes between two that do. Four tiles with a
window of two make a walk of more than one window, with a last window that is cut off.
Two resident blocks for four tiles make every spin depend on a block that may not be
there. In `streamk` the one tile has two peers of unequal share; with seven tiles a share
begins in the middle of a tile and ends in the middle of another, and two owners
in a row fill the device if they are dispatched out of order. The tile
with no stage and the one with fewer stages than the ring reach the empty groups. The
requests of `splitk` round to one slice, to fewer than asked, and to all. Two keys
and three calls rebuild a cache and go back. In `free_functions` two keys belong to one function, so that its cache is
rebuilt, and the third to the other, whose plan must survive that. Bounds are constants (`Calls`, `Solves`,
`Windows`, `Samples`, the field `calls` of an input) that only stop new calls from starting;
no state is cut off by a constraint.

`library` shrinks every size of the hardware and of the code (lanes, threads, tiles, the
longest resident transform), so that small operands meet every border:

- *Products with sparse matrices.* Every matrix of up to three rows with rows that are
  empty, short, full, out of order or have duplicates; one row longer than a merge segment,
  so that a row has carries of more than one thread; matrices narrower than a block, without rows,
  without columns, without nonzeros; copies refused for their size. x has a NaN in a
  column of its own for half of the calls.
- *Scans.* Lengths on both sides of one tile, of one level and of two, up to three levels
  (257); in place and not; the operator that keeps the last element, which is associative
  and not commutative, and sums.
- *Transforms.* 2 to 32 points with a resident bound of 8, so that the four step
  form is taken by choice and by need; named factors that fit, do not divide or are too
  large; both parities of the ladder; one batch more than a tiled transpose carries.
- *Convolutions.* Filters longer than the signal, longer than the constant bank, empty; two
  calls on one plan, so that the second meets the first one's scratch.
- *Dense products.* Shapes that are whole tiles of every rung, of some, of none; both layouts,
  transposes, padded rows, batches, an empty K; every rung by name, by `kAuto` and called
  directly; devices below 8.0, without the large shared memory, with no SM count, with occupancies that
  change which tile fills a wave; workspaces absent, too small and large; a sweep with
  foreign, repeated, unreadable and distant rows.
- *Solves and matrix vector products.* Sizes around the vector width, the block and zero.

### Fairness

Only runs with a liveness property use it, and it is weak throughout. The stream
executes what is enqueued; some queued block becomes resident while there is room
(one condition for all blocks: nothing says which); a resident warp or block is
scheduled, which the device guarantees to what is resident and to nothing else; a
copy that was issued lands. In `NvmlMonitor` the sampling thread is scheduled and
`join` returns once the thread has ended; the client is not obliged to anything. In
`DefaultContext` each thread goes on with its call. Weak fairness on a lock would
not give it to a particular thread for ever, but calls are bounded, so the others run out.

## The proofs

The `Proofs` modules prove theorems for every value of the constants that the named assumptions
in the modules allow: sizes are natural numbers, most of them not zero; the length of a reduction
and a tile of the pipeline may be empty; threads, streams, keys, plans and devices are any sets; the dispatcher's
roster of tiles, its table of logarithms, the sweep, the device and the descriptions are any.

| Module | Obligations | Proved |
|---|---|---|
| `LookbackScanProofs` | 1256 | every safety property of the run, and that the scan implements `ScanSpec` |
| `ReduceLadderProofs` | 873 | every safety property, and that each rung implements `ReduceSpec` |
| `StreamKProofs` | 2054 | every safety property, and that stream-K implements `GemmSpec`, on every shape |
| `TilePipelineProofs` | 2280 | both safety properties, for the three loops |
| `PlanCacheProofs` | 856 | `Consistent` and `FailureExplained` for any threads; `OutputExact` and `PlanOutlivesCall` under the conditions below |
| `DefaultContextProofs` | 928 | every safety property for any threads; `NoEmptyKernel` on equal devices |
| `HostProofs` | 1798 | *split-K:* every safety property, and that it implements `GemmSpec`; *telemetry:* `Settled` for any client, `JoinedBeforeFreed` and `MonitorConsistent` for one that assigns to empty monitors only; *constant bank:* `OwnFilter` for one thread on ordered streams; *dense solver:* `SolverConsistent` on any streams, `Synchronous` and `Truthful` on streams that block |
| `DispatchProofs` | 2420 | `NeverRerouted`, `WorkspaceSuffices`, `AutoServed` and `SweepHeeded` of `Library`, on every device and for every sweep and description |

Each has an inductive invariant (`IInv`; in `HostProofs` one for each component, `MonitorInv`, `BankInv`, `BufferInv`
with `AnswerInv`; `DispatchInv`), the conjunction of named parts, shown to hold at first and
to be kept by each action in a lemma of its own; the theorems follow from it. TLC has checked each
of them on instances like those of the runs.

Where a theorem has a hypothesis beyond the assumptions of the module, it is the condition that
a disagreement of the next section violates, so that the theorem says that nothing else is needed:

- `OneThreadKeepsItsPlan`: `Thread = {t}`. With a second thread TLC finds the deletion (1).
- `OneStreamIsExact`: one thread, and its calls on one stream. With a stream each, TLC finds two calls in one scratch memory (2).
- `NoThreadOutlives` and `MonitorConsistentHolds`: `~Reassign` (7). Without it the count of `nvmlInit`
  is still never too low (`NvmlThereHolds`): an `Impl` lost with its thread leaves one call unmatched.
- `GuardIsEnough`: `~Mixed` (8).
- `OwnFilterHolds`: `OneCaller`, all plans belong to one thread, else TLC finds the launch behind another's bind (4);
  and `InOrder`, any two of the streams the plans run on, and the default stream their constructors copy on, are ordered, else
  it finds the constructor's copy under a kernel (5). `InOrder` allows one stream of the caller's that blocks on the default
  stream, or the default stream itself: the copies of plans on two streams are not ordered with each other's kernels.
- `SynchronousHolds` and `TruthfulHolds`: `NonBlocking = {}` (6). The buffers fit without it.

*Look-back.* `IInv` adds to the checked properties: a counter invariant
(the ticket is the number of claimed blocks, and no two have the same tile), a stage
invariant (what flag and payloads of a tile are at each `pc` of its owner), a lane invariant (what a
lane has read is the aggregate or the prefix of the tile it looks at, although the
flag may have moved on since), and an output invariant. None of `WalkIsContiguous`, `PrefixExact`
or `PublishedPayloads` is inductive alone: the walk rests on what lanes read earlier, that
on records being final, that on one owner per tile, that on the ticket. The lemma at the heart is
`WindowResult`: whatever mix of aggregates and prefixes the lanes read, the product from the
nearest prefix is the interval up to the walk's last stop. `PrefixExact` is implied by the refinement
and is not run separately.

*Reduction.* `IInv` has the shape of each stage, the tickets (those who drew are as many as
the counter, and the last one is the combiner), the visibility of partials of this call to
whoever comes after a fence, the combiner's sum and the output. The first lemmas bound the
grids and slots of all rungs by the one buffer the plan allocates: `TypeCorrect` means that no
rung leaves it, `SlotsCorrect` that no two words meet in it.

*Split-K.* `SlicesPartition` is about the arithmetic alone: each k is in exactly one slice in
use, for every length, step and request. With it, `IInv` is a formula for each phase.
`TypeOK` and `SumSoFar` hold by these theorems and are not among the properties of the run.

*Stream-K.* `ShareFacts` and `ShareOf` are the arithmetic: the shares begin at 0, none is empty, they abut and
end with the last iteration, so that every iteration has one CTA; `TileEnds` ties the end of a tile to the
iterations in it. The invariant says where in its share a warp is and what it holds there (`WarpInv`), that from
the barrier behind the fences on the plane of a peer is the last slice of its share and is left alone
(`PlaneInv`), and which tiles of C are written: those that end in a share, up to where its CTA has
come (`OutputInv`). `PublishedPlane` is not inductive without the first, since what is stored was
computed long before the flag, nor `OwnerIsContiguous` without the second. At the end of the kernel every CTA has retired, each tile
ends in some share, and so C is whole: `AllWritten`, which is what the refinement needs.

*Tile pipeline.* Neither property is inductive: both are about all warps, and no warp sees another except at
a barrier. `Sync` counts the barriers each warp has passed in its tile and says that all have passed as many,
in the same tile, at the same place of the ring. `Pipe` is about one warp: of the stages it has issued, the newest
are in its groups in flight, each aimed at the buffer of its stage, and the older ones the ring has room for are in
their buffers; `Ahead` bounds how many may be in flight at each place of the loop, which is what the counts in the
code's waits come to. `Readable` puts them together: whoever reads is as many barriers in as the others, so
their parts have landed, and what they may have in flight is aimed elsewhere in the ring. A warp that has already
left the tile is the reason for `Left`: its last stage stays where slower warps read it until `Top`.

*Plan cache.* The name of a plan is that of the call that builds it, so the heart of `IInv` is that no name is
used twice: plans in the cache or in a caller's hands are of calls that are past their lookup (`NameInv`). With one
thread `KeepsPlan` adds that the plan it works on is alive, and `StreamInv` that only its stream has work, for
plans that are alive, and that each run is queued right behind the clear of its own call.

*Free functions.* `LockInv` says who may be where under `default_context_mutex`, and `SetInv` that between setting the
stream and the vendor call nobody else has moved it; `QueueInv` says of all work
on a stream that its call named this stream, and that its plan is alive and of the call's key; a plan is only
destroyed where the device has come to rest, so nothing queued loses its plan. No two caches keep one plan
(`CachesApart`), so that a rebuild never destroys what the other function will reuse.

*Telemetry.* Ownership: an `Impl` is held by one object at most, and by one that exists (`HoldsInv`); a join, and
the destructor that waits in one, name the `Impl` of that object (`JoinInv`); a thread has its `Impl`
(`ThreadInv`). The count of `nvmlInit` is a cardinality (`CountInv`), so each way an `Impl` comes and goes is a
lemma about finite sets.

*Constant bank.* The record of the owner is on the host, written when a copy is enqueued, and `OwnFilter` is about the
device, which comes to it later. `Recorded` bridges the two: the record is right about whose taps the bank will hold once all that is queued
has run (`Holder`), and each queued kernel stands where the bank will hold its own taps. Enqueueing by the owner keeps it
(`Enqueued`), refused copies leave record and queue alone, and since what is queued is ordered, only the head can
execute. `Guarded` carries the check of the record over to the launch, which takes one thread to be true.

*Dense solver.* `BufferInv` says of each place of the call what the buffers hold by then (`Grown`); what is still queued from
before needs no more than they held then, and they only grow. `AnswerInv` says that the device is at most one
command behind, the one the host waits for (`OneBehind`), and what the info word and X are once it has caught up
(`CaughtUp`): so the word read is that of the step before the read.

*Dispatcher.* A call of `gemm` is decided when it is made, so most of the module is about functions of its description and
of the device. `OutcomeShape` and `LaunchesOf` say what may come of a call, in the order in which `gemm` validates, lands, refuses and
runs; `Unrerouted` that what `why_not` lets through takes no fallback inside the rung: `Takes` is compared with the test of
each launcher, rung by rung; `Sufficient` that the driver of split-K arrives at the slices of the workspace query
(`SlicesAgain`: the count, rounded to whole steps once, is rounded to itself again); `AutoServes` that what `PickAuto`
aims at is taken, or handed to cuBLAS on a device too old for it; `Heeded` that the nearest row of the sweep to a shape it
has is that shape (`NearestSame`) and that the tile is chosen among those within five percent (`BestTile`).
`DispatchInv` is then the call in service: `Serving` says that it is one the caller made, reported as it landed, with launches
of its outcome left, and that the driver's own scratch is of the extent it asked for. A kernel of any of the families executes and leaves that be, and
`FftKept` has the part of `AutoServed` about transforms and convolutions.

What the dispatcher's theorems assume of the constants is what the code gives:

- `RosterAssumption`, `StepsAssumption`: tiles have positive sides, `kMinStepsPerSplit` is 4.
- `LogarithmAssumption`: no two sizes have one logarithm. `nearest_swept` takes the logarithm of the quotient of two sizes as doubles,
  which is zero for equal sizes only as long as a double tells sizes apart (2^53). For sizes outside the domain of the
  table nothing is said, hence `HasLogarithms` in the types of descriptions and rows.
- `FourStepAssumption`: every power of two above the resident bound, up to the longest transform, has a form of the default
  factors: `kMaxLength` is 2^24 and `kSharedResidentMax` 4096 (`fft_plan.cpp:57`), so both factors fit.
- `InputsAssumption`: types of the inputs and of the descriptions. Occupancies are natural numbers (`blocks_per_sm_of` turns an error
  into zero); sizes, the capability and the SM count may be negative or absent, and the sweep may hold anything.

TLC evaluates all of them in the run `library`. A CASE with more than one true guard is an arbitrary choice among its branches,
of which no prover can know the first; the CASEs of `GemmDispatch` have guards that exclude each other, in the order
in which the code tests them.

What stays with TLC:

- The liveness properties (`EveryCallCompletes`, `EveryCallEnds`, `EveryCallReturns`, `StopReturns`), which
  need fairness and ENABLED.
- What the rungs compute: `SpmvExact`, `ScanExact`, `FftExact`, `ConvExact`, `GemmExact`, `DenseExact`. Each compares a result, a sum or a
  composition over recursive functions of the data, with a reference of another recursion; that the two agree for every
  length is an induction over the data, and the induction theorems take an operator as a parameter, which the installed
  provers do not.

## Where the code and its documentation disagree

The first is kept as a run. Of 2 to 8 and of 10, TLC finds a trace as well when
the configuration of the passing run is changed as said there; the passing run holds under the condition that avoids it.

1. *A plan used after it was deleted.* `plan_cache_two_keys`. The cache functions of
   `c_api.cpp` return a reference and release the mutex (`c_api.cpp:306-320`); another thread
   with another key deletes the plan. `ckl.h:299` and `docs/using.md:258-289` ask for no
   more than one handle per thread.
2. *One scratch memory, two streams.* `MCPlanCache` with `Thread = {t1, t2}`, `Stream = {s1, s2}`,
   `StreamsOf <- OwnStream`, `Key = {k1}` and `Calls = 1` violates `OutputExact` (15 states): two threads, each with a handle and a
   stream of its own as the same lines ask, work in the one cached plan at once.
3. *`*chosen` on failure.* `MCPlanCache` with the invariant `ChosenWritten` (2 states). The header says that it is written on success and failure alike
   (`ckl.h:497`); entry points that fail before the plan is asked (`c_api.cpp:736` and its like) leave it as it was.
   `ChosenWritten` is the header's sentence; `FailureExplained` asks for it on success only.
4. *Check, then launch.* `MCConstantBank` with `Thread = {t1, t2}`, `ThreadOf <- OwnThread` and
   `Calls = 2` violates `OwnFilter` (13 states), against `fft.hpp:936`:
   the record is checked under the mutex, the kernel is launched after it is released
   (`conv_direct.cu:160-185`).
5. *A bind on the default stream.* `MCConstantBank` with `Blocking = {}` violates `OwnFilter` (13 states), against the same line: the
   constructor's copy (`fft_plan.cpp:764`) does not wait for a kernel of another plan on a non blocking stream.
6. *The info word on a non blocking stream.* `MCDenseSolver` with `NonBlocking = {s1, s2}` violates `Synchronous`
   (5 states) and `Truthful`: the blocking copy does not wait for such a stream, and a call returns with its
   work queued, against `solver.hpp:82-84` and `docs/using.md:250`.
7. *Assigning over an open window.* `MCNvmlMonitor` with `Reassign = TRUE` violates `JoinedBeforeFreed` (5 states):
   the defaulted move assignment (`nvml_monitor.cpp:110`) destroys an `Impl` with a joinable thread.
8. *Devices that differ.* `MCDefaultContext` with `Device = {d1, d2}`, `Mixed = TRUE` and the invariant
   `NoEmptyKernel` (which no run has, since it holds by itself where devices are equal) is violated (6 states):
   the capability is kept from the first device that asked (`context.cpp:188`), against `context.hpp:180-181`.
9. *Order of destruction.* `Context` destroys cuSOLVER, cuSPARSE and cuBLAS handles in this
   order, whichever came first; `context.hpp:27-28` says newest first. A straight line, not modelled.

The following were met while the second group was written. The models do what the code does;
the properties that would object say so in their comments.

10. *An empty batched product.* `MCLibrary` with the invariant `EmptyScalesAll` is violated: with
    k zero `run_cublas` calls `scale_c` before it looks at the batch (`dispatch.cpp:782`), which scales the first
    matrix and leaves the others, against `dispatch.cpp:755` and `test_gemm_tensor.cpp:716`. `GemmExact` excepts the case.
11. *Padding that is multiplied.* The BSR kernel multiplies the zeros that fill a block with x, so a NaN in
    a column a row does not reference spoils that row; the other rungs do not (`SpmvExact`).
12. *Nothing to multiply.* `spmv` with rows but no columns leaves y as it was, and does not
    scale it by beta; a matrix without nonzeros does.
13. *A factor that is too long.* `four_step_n1` with a factor above the resident bound builds a plan
    without the four step form; above that bound `kAuto` then names the form and is refused
    (`FftAutoServed` excepts it).
14. *Once per process.* `fft_shared_prepare` and the GEMM launchers raise the shared memory limit of a kernel
    once per process (`static`), not once per device, and `grant` of `fft_shared.cu` compares with a value it reads
    without synchronization. There is one device and one caller in `Library`.
15. *Dead branch.* `gemm` has a case for `kAuto` with a batch that did not choose cuBLAS; `pick_auto`
    has chosen it by then.
16. *Extents.* The header of `Fft2dPlan` gives 2^4 as the least extent; the constructor takes 2.
    Real transforms do not check that in and out differ, as `fft` does.
17. *Sixteen bytes.* The register, cp_async and WMMA rungs read vectors without checking the
    alignment that the header asks of the caller; `gemm_mma_opt` checks pairs.

## What is not modelled

- Rounding. Sums and products are exact, and the compensated and deterministic rungs differ
  from the others in order only.
- Inside the tensor core kernels: fragment and lane layouts, the swizzle of shared memory, the indices of
  staging copies and the predicates of partial tiles. `GemmRungs` has what such a kernel covers,
  how many steps it takes and what it stores; `TilePipeline` in which order its buffers are filled
  and read.
- The text of a sweep: `parse_sweep` is given its rows as records, some of them unreadable.
- Overflow of 32 bit indices: sizes are small numbers. `slices_used` (`gemm_splitk.cu:58`) adds in `int`; where that
  wraps it takes the plain grid, which computes the same C.
- Memory that cannot be had while a *deletion* runs, and errors of a kernel that an unrelated later call reports:
  the code treats both as fatal. What a call meets itself, down to the free of its workspace, is modelled.
- Moves of `DenseSolver` and of plans, after which the old one only throws; C handles, `ckl_malloc`
  and copies: thin wrappers.
- Two streams or threads on one plan or `Context` in `Library`: the headers exclude it. What happens
  where the library itself shares one is `PlanCache`, `ConstantBank` and `DefaultContext`. So a `Context` that is moved to another
  stream while a split-K or stream-K call is in its workspace (`dispatch.cpp:885`) is not seen.
- CUB, cuBLAS, cuSPARSE, cuFFT, cuSOLVER and CUTLASS are what their documentation says, one kernel each.
- Fortran, benchmarks, tools, examples, scripts.

## The plan

The order in which this was built, and what follows. The first five are done.

1. `LookbackScan` under `ScanSpec`, `ReduceLadder` under `ReduceSpec`, `SplitK` and `StreamK` under
   `GemmSpec`, `TilePipeline`; proofs of the first, second and third. `PlanCache`,
   `ConstantBank`, `DenseSolver`, `NvmlMonitor`, `DefaultContext`.
2. The loops of two buffers and of one in `TilePipeline`; both shapes of `StreamK` in one run.
3. `StreamCalls`, `SpmvPlan`, `ScanLevels`, `FftPlan`, `ConvPlan`, `GemmRungs`, `GemmDispatch`,
   `GemvTrsm`, `Library`.
4. Proofs of `StreamK`, `TilePipeline`, `PlanCache`, `DefaultContext` and `NvmlMonitor`.
5. Proofs of `OwnFilter` of `ConstantBank`, of `DenseSolver`, and of the four properties of the dispatcher in `Library`.
6. The handles and memory functions of the C interface, and the Fortran layer above them.
