# Verification of tuiskollm

TLA+ modules, TLC runs and TLAPS proofs about the concurrent and stateful core
of `tuiskollm`: the HTTP serving worker with its model lifecycle, the
lanes that carry replies to clients, the scheduler that shares one GPU among
chats, parking and resuming its device state, the owner of the paged KV cache,
the speculative generator of the Flash Next target, the pool that streams weights
to the device, and the downloads that provide a model's snapshot.
Paths are relative to the repository (`src/` in `PROJECT.json`).

## 1. Inventory of the system

A process holds one model on one GPU. Axum handlers (tokio tasks) decode
requests, put jobs into a bounded channel, and stream replies. One engine thread
owns the generator, takes jobs from the channel, admits chats into at most
`MAX_BATCH` scheduler slots, and runs rounds: one call of `step` per round.
Everything below the worker is called by that one thread.

```
 handlers --(mutex: state, deadline; bounded channel)--> engine thread
    ^                                                      |  admit/step/cancel
    |  reply lane (32 events) + disconnected flag          v
    +---------------------------------------------  compact scheduler
                                                           | reserve/truncate/...
                                                           v
                                                   paged KV inventory, device state
```

| part | state it keeps | operations | hard behaviours | what makes it correct |
|---|---|---|---|---|
| serving worker, `tuisko-serve/src/server.rs` | lifecycle state, minimum-park deadline, job channel, held lifecycle job, waiting and active chats | chat, score, load, unload, park, resume handlers; the loop of `serve_reloadable` | handlers race with the worker and each other; rollback of a reservation; failed restore with chats queued; worker death; shutdown | nothing lands behind a reserved unload or park; published state is the truth; every job is answered or dropped; a minimum park is kept |
| reply lanes, `response.rs` | 32-event channel and a `disconnected` flag per chat | send, pump to the HTTP body, drop | slow and vanishing clients, last event on a full lane | no gap in the text, no false verdict; a client never waits for nothing, the engine never for a client |
| compact scheduler, `tuisko-engine/src/qwen38/resident_mtp_batch_generation.rs` | sessions, admission order, retained prefixes in LRU order, boundary snapshots, the KV pool, device state | `admit_with_progress`, `step`, `cancel`, `score_*`, `park`, `resume` | reuse of state left by other chats; speculative rounds that reject rows; page pressure; failures between steps of an admission | device state of a slot is that of the tokens it is used for; books and pool agree; writes stay reserved; refusals are honest |
| paged KV inventory, `tuisko-engine/src/paged_kv_slots.rs` | page tables, owner tags, row states, counts, search hint | `activate`, `retain`, `reserve_tokens`, `truncate_tokens`, `recycle` | long call sequences; stale hint; page boundaries | one owner per page; cached positions never move or collide; a refusal leaves everything alone |
| speculative decision, `common/mtp.rs` | none | accept, correct, bonus | numeric law, order of random draws | the committed tokens follow the target model |
| generation session, sampling, `generation.rs`, `sampling.rs` | generated tokens, penalties, constraint automaton | `push`, sample | completion at budget and stop | completes once, never past the budget |
| park and resume, `qwen38/resident_mtp_batch_generation.rs`, `qwen38/resident_mtp.rs`, `tuisko-gpu/src/arena.rs` | four device arenas, weights, block tables, a host mirror with its checksums | capture, release, remap, reload, restore, verify, rollback | partial failure over several arenas; failed rollbacks; a mirror that changes in host memory | what is loaded again is what never parked would be; a parked generator can always be resumed |
| other schedulers, `qwen35/`, `qwen36/`, `qwen38/batch_generation.rs` | as above, without boundary snapshots | as above | as above | as above |
| Flash Next generator, `qwen38_flash_next/mtp_*.rs`, `slot_lifecycle.rs`, `resident_model.rs` | one request with its queue of outputs; slot pool; K/V rows, recurrent state, draft mirror, index keys, restore point | `admit`, `step`, `cancel`; draft, verify, restore, replay, realign | rejected drafts at every offset from page and block boundaries; pages given back and taken again in a round; failed admissions | target and draft mirror are those of the committed tokens after every round; no page lost |
| weight streaming, `common/streaming.rs`, `tuisko-gpu/src/streaming.rs` | slot cache with recency and reader generations, item-to-slot table, publication and reclaim fences, bounce and staging rings, poison flag | `prefetch`, `require`, `fence_replay`, `record_replay_release`, `reset` | a host thread and two device streams; slot, ring and staging reuse; failure in the middle of a round | a replay reads the bytes of its own items; host bytes stay until they are copied; the cache claims nothing the device lacks |
| frontend, `tuisko-frontend` | tokenizer, prompt-prefix cache | render, tokenize, parse tool calls | cache of rendered prefixes | equal to rendering from nothing |
| provisioning, `tuisko-provision` | blobs, partial downloads, blob locks, links of a snapshot | inspect, lock, resume, verify, sync, publish, link | several processes; interruption, death, power loss, corrupt or oversized bodies | nothing incomplete or wrong is published, good bytes are kept, a caller that keeps trying is served |
| remote gates, `tuisko-remote` | leases, run journals | lease, run, collect, release | lost connections | at most one run owns a host |
| kernels, layouts, CLI, Python bindings, qualification tools | none or offline | | | not a matter for a state-machine model |

`PROJECT.json` lists the same parts under `components`, with what is and is not
modelled of each, and under `hazards` the places where each can go wrong, each
with the properties that would show it.

## 2. Modules

| module | models | kind |
|---|---|---|
| `PagedKvSlots` | `PagedKvSlotPool`: every call, its refusals and its two internal errors | detailed specification |
| `PagedKvPages` | who owns how many pages of what: the contract of the pool without tables, tags or hint | abstract specification |
| `PagedKvSlots_proofs` | invariants of `PagedKvSlots`, and that it implements `PagedKvPages`, for every pool size | proofs |
| `ReplyLane_proofs` | safety of `ReplyLane` for every channel size and token budget | proofs |
| `ParkResume_proofs` | safety of `ParkResume` for any slots, pages, requests and faults | proofs |
| `Provision_proofs` | safety of `Provision` for any processes, files and faults | proofs |
| `ServeWorker_proofs` | safety of `ServeWorker` for any clients and channel size, and that its steps are those of `ModelLifecycle` | proofs |
| `MtpScheduler_proofs` | safety of `MtpScheduler` for any slots, pages, window and conversations | proofs |
| `WeightStream_proofs` | safety of `WeightStream` for any items, slots, rings and requests, and any interleaving of the host and the streams | proofs |
| `FlashMtp_proofs` | safety of `FlashMtp` for any prompts, budgets, pages, window and tile, and any tokens generated or drafted | proofs |
| `ServeWorker` | `serve_reloadable`, the handlers and the shutdown | detailed specification |
| `ModelLifecycle` | the lifecycle a client sees (`docs/PLAN-offload-gpu-and-kv.md` 2.2) | abstract specification |
| `ReplyLane` | one chat's reply lane, its reader, the body and the client | detailed specification |
| `MtpScheduler` | `ResidentMtpBatchGenerator`: admission, reuse, reclaiming, rounds, cancellation, scoring's slot | detailed specification |
| `WeightStream` | `StreamingWeightPool`: cache, fences, rings and the two streams | detailed specification |
| `ParkResume` | `ResidentMtpBatchGenerator::park`, `ParkedQwen38Generator::resume` and the arenas below | detailed specification |
| `Provision` | `resolve_snapshot_with_progress` of several processes over one cache | detailed specification |
| `FlashMtp` | `Qwen38FlashNextMtpResidentGenerator` with its slot pool and device rows | detailed specification |
| `MCPagedKvSlots`, `MCServeWorker`, `MCReplyLane`, `MCMtpScheduler`, `MCWeightStream`, `MCParkResume`, `MCProvision`, `MCFlashMtp` | instances for TLC | model checking |

Names of variables and operators are those of the code where TLA+ allows it.
`Bug...` operators stand next to the definition each of them is a wrong version
of; they are used by no specification and serve to show that a property notices
the mistake (`mutants` in `PROJECT.json`).

### PagedKvSlots

A sequential object: one action per call with everything the call does. The
state is the code's, field by field; `answer` is the `Result` of the last call.
The upward scan for free pages is given by its result (`FirstFit`: the lowest
reachable unowned pages, in order) and its failure (`ReleasePartialPages`). The
release loop of `truncate_tokens` is given by the entries it releases before it
ends or meets an entry it does not accept (`Released`, `Inconsistent`). The
internal errors are exits of the actions that lead to states the invariants
exclude: `NoInternalError` is a property, not an assumption.

### ServeWorker

Handlers are one action each, because all a handler does to shared state happens
while it holds the lifecycle mutex. The engine thread is split at every access
to shared state: it executes a lifecycle job, then publishes, then replies, and
a failed restore replies before or after it withdraws the published state
according to the job. `pc` names the points in between. What the engine answers
is left open: an admission fails, completes at once or runs for some rounds; a
round may complete, lose a reply lane, or fail altogether; a park or a restore
may fail. `outcome` is what a client has been told; `"dropped"` is a reply
channel closed without an answer.

### ReplyLane

What `ServeWorker` leaves open about a reply: one chat, from `hold_job` to the last
byte. Three parties. The engine thread sends with `try_send` only; between two
deltas of one event it can be overtaken, and the first delta that does not fit
costs the request its sender (`SendDelta`). The reader is the pump task of a
stream or the handler of a blocking answer; what it still has to write for the
reply in its hands is `todo`, so that it can be stopped before every event. The
client reads (`Poll`), comes to the end, or hangs up, and a hang-up is two steps
because the channel is dropped before the guard that publishes it. Whether the
parser turns a delta into an event, and whether the calls it finds are accepted, is
left open (`Script`); a delta is its number, which is enough to see a gap. `late`
is the only variable the program does not have. The worker's exit and its other
requests are `ServeWorker`'s; here they appear as `FailAll` and `FailQueued`.

### MtpScheduler

One action per call of the scheduler. A piece of device state (KV rows, GDN
state, boundary hidden row, MTP rows) is represented by the tokens that produced
it, so that reusing state of other tokens is visible as a difference of
sequences; `Garbage` is state that no token sequence describes. Which tokens the
model generates and which drafts it accepts is left open (`Outputs`). The KV
pool is represented by the state and reserved positions of each row, and its use of
pages by the page-table entries those positions need (`Entries`); that
positions map to pages as they should is what `PagedKvSlots` is about.
Rows of rejected drafts lie behind the committed position and are overwritten by
the next round; they are not represented, and `WritesReserved` is about where
they are written. A device failure during a round ends the worker (`StepFails`
of `ServeWorker`) and is not an action here. Two ways an admission can fail are
distinguished because the code treats them differently: `abort_admission` makes
the slot vacant, any other device error returns as it is and leaves the row
active (`AdmitFails`).

### WeightStream

Three parties: the host thread, which plans, enqueues and commits; the transfer
stream; the consumer stream. A stream is a queue of what was enqueued on it, run
in order by an action of its own. A fence is the number of operations its stream
still has to run before it: recording an event stores the length of the queue, a
wait captures that number as an operation of the waiting stream, and a step of a
stream lowers the fences recorded on it. That is what CUDA events promise, and
the only part modelled from outside the repository. A host wait
(`synchronize`) is the guard of the action after it.

A call is one action when it reaches no upload, and otherwise one per upload, one
for the publication and one for the stall, because the streams run meanwhile and
because a failure between them decides whether the pool is poisoned (`CallFails`).
A plan is the sequence of the steps of `plan_round`; `ItemSlots` and `Readers` give
what replaying it leads to; `uploads` are the positions of the plan whose copies are still to be enqueued, in order. The doubly linked recency list is a sequence. Item and
slot contents are item names, so wrong bytes are a wrong name.

The consumer keeps the order `record_replay_release` asks of it: no round between a
replay and its release. It may replay a round several times, not at all, or fail
before the release (`ForwardFails`). The order matters: of two releases of one
round, `wait_reclaim` picks the older, and a replay between them would be
unprotected; the only caller, `forward` of the Flash Next target, replays once.

### ParkResume

A park copies every retained row and page to the host with checksums, then
releases the backing of four arenas, one action each; a resume maps them, reloads
the weights, rebuilds the block tables, restores rows and pages, and compares
checksums twice, one action each. `pc` and `next` say where a park or resume is.
Contents are stamps: a request writes the number of its admission into the row and
the pages it fills, `truth` is what a generator that never parks would hold, and
memory mapped anew is `Garbage` until something writes it. A fault is a driver call
that fails (`ReleaseFails`, `ResumeFails`, wherever the step stands) or a mirrored value that
changes in host memory (`Alter`). What `MtpScheduler` says about slots and
prefixes is taken from there in the coarsest form: `Admit`, `Retain` and `Evict`
with any pages.

### Provision

One action per step of a call that other processes can observe: inspecting one
file, taking a blob's lock, opening and hashing the partial file, appending a chunk,
the end of a body, the sync, the check of length and digest, the rename, the link, the
confirmation. A file is a sequence of chunks; a chunk of the right contents is its
number and any other is 0, so a digest is the sequence of chunks fed to it.
`Stop` ends a call at any step, as an error, a cancelling callback or the death of its process do,
and frees its lock with its descriptor. `PowerLoss` stops every process: contents that
were not synced are lost or garbage of some length, renames and links may be undone, since
the code syncs no directory.

### FlashMtp

The steps of one speculative round are actions of their own (`Draft`, `Verify`,
`Decide`, `Restore`, `Verify` again as the replay, `Realign`), because they hand
device state to each other; one thread runs them, so nothing comes between. A round's
last action hands out its first output in the same call, `TakeQueued` the others.
The row of a position holds the sequence of tokens up to it, and the recurrent state
the tokens it went through, so that a state that was not restored, a row
on the wrong page or a mirror row paired with the wrong stream row shows as a
difference of sequences. `Cell` resolves a position through the block table as the device
last saw it, never through the pool. `TargetSpan` puts all raw index keys of a span into the
ring before it pools the block that closes, in the order of the two launches.
A check of the engine that fails is an exit to `"failed"` (the worker ends on an error of a
step), which `TargetIsExact` excludes. Left out: the owner, generation and
overflow checks of a restore point, of which a round has one; the frozen selection
that the draft shares with the target, and with it the draft's own index keys; the four
native tile sizes, of which the model has one; a request with no budget, which is answered
before it reaches the device.

## 3. Runs

Every run but `serve`, `provision`, `park_resume`, `reply_lane` and those that look for a violation is
over the plain specification, without fairness.

| run | instance | shows |
|---|---|---|
| `paged_kv` | 3 rows, 3 pages of 2 positions, context 5 | types; tables, tags, counts and hint describe one partition (`OwnershipInv`); two cached positions never share a place (`RouteInjective`); internal errors unreachable; a kept page never moves (`PrefixStable`); implements `PagedKvPages` |
| `serve` | 2 chats, 1 scoring and 2 lifecycle requests, 2 slots, 2 rounds | the fence (`FenceIsLast`), the truth of the published state, an idle batch and an empty queue included (`SettledIsTrue`), the minimum park (`NoAdmissionDuringHold`); every accepted request is answered or dropped (`EveryJobSettles`); implements `ModelLifecycle` with its promise that every transition settles |
| `serve_hold` | 1 chat, 1 scoring and 2 lifecycle requests | finding 1 |
| `reply_lane` | channels of 2, 3 rounds of up to 2 deltas, stream and blocking | the text has no gap (`NoGap`); a verdict is true and final (`VerdictIsTrue`); at most one round for a client that is gone, none without a lane (`LeavesPromptly`); a stalled client holds nobody (`RequestLeaves`); a reading client comes to an end (`ReaderSeesEnd`) |
| `reply_done` | one round, one delta | finding 3 |
| `mtp` | 3 slots, 5 pages of 2, window 2, five chats that open, go on, differ in size, among them one with no budget and one too long | the state of a slot is that of its tokens, running (`SessionIsExact`, with the snapshot a cancellation keeps) or retained (`RetainedIsExact`); rows of a round stay reserved (`WritesReserved`); scheduler and pool agree (`BooksAgree`); a refusal for pages is final (`RefusalIsHonest`) |
| `mtp_resent` | one chat, sent again as it was | finding 2 |
| `weight_stream` | 3 items, 2 slots, 2 reclaim fences, 2 staging copies, bounce ring of 2, 4 rounds of up to 3 requests | a replay reads its own items (`ReplayReadsItsItems`); sources stay until copied (`SourcesStable`); the cache claims only what the device holds, unless poisoned (`ResidencyIsReal`); the two directions, the recency list and the readers agree (`CacheAgrees`); a round holds all it asked for (`RoundIsResident`) |
| `park_resume` | 2 slots, 3 pages, 3 admissions, 2 faults | what is loaded with all its memory is exact (`LoadedIsExact`); a parked generator is loaded again once faults end, unless its mirror was altered (`ParkedComesBack`) |
| `provision` | 2 downloading callers and an offline one, 2 files of 2 chunks, leftovers of earlier calls, 2 faults | no wrong blob and no incomplete answer (`SnapshotIsExact`); good bytes are kept (`KeepsGoodBytes`); a caller that keeps trying is served (`SnapshotIsProvided`) |
| `flash_mtp` | 4 pages of 4 positions, blocks of 4, window 3, three requests in a row of three kinds | the target (`TargetIsExact`) and the draft mirror (`DraftIsAligned`) are those of the committed tokens after every round; every page is free or mapped once (`TypeOK`) |
| `flash_keys` | the same | finding 4 |

**Bounds.** `PagedKvSlots` has no counter to bound: the pool is finite. Three
pages let one row own everything, two rows exhaust the pool, and the third find
it empty; a context of 5 in pages of 2 has a half-used last page, and each
truncation hits a boundary, one past it and zero. In `ServeWorker` each client
sends one request; two lifecycle requests are enough for one to meet the
transition of the other in every state, two chats and a scoring request exceed
the channel and the slots at once, and two rounds let a request outlive an
intake. `MaxRounds` is the only bound that is not the code's. In `MtpScheduler`
contexts of at most 7 positions and budgets of at most 4 leave room for several
rounds of a window of 2 with every length of acceptance; the chats of
`Conversations` make each case of the slot selection happen: a complete prefix, a
fallback to the boundary, two candidates, a fresh slot, an evicted one. In
`WeightStream` there are more items than slots, so every round past the second can
evict, and a request of three is more than the pool holds; four rounds overwrite the two reclaim fences, and wrap both rings, while
the consumer is still busy with the first round. `MaxRounds` plays `u64::MAX`: the
refusal at the last generation is part of the runs. `MaxReplays` bounds what the
consumer has queued; a replay more needs only the same fences again.

In `ReplyLane` six deltas overrun a lane of two and a body of two while the reader
holds one more; one round can overrun the lane by itself, and the last round can
fill it exactly, so that only the final answer is lost.

In `ParkResume` three admissions give a slot a second request, with part of its
prefix, while the other is retained; two faults let a step fail and its rollback fail
too, or a mirror change under a failed resume. In `Provision` two faults let a power
loss follow an interrupted download, and the third process sees a cache it may not
fill. In `FlashMtp` a page holds one block, so that every offset of a span from a block boundary is
one from a page boundary too; the prompts end one before, at and two past a
boundary, one longer request takes every page and the others leave some free, and the
epoch bound allows three requests, so that a page is seen again by a request of another kind. One
text token and the stop token give every pattern of acceptance: a draft can be
the stop token and be rejected.

**Fairness.** `serve` assumes `WF_vars(Worker)`. The engine
thread is a thread that the operating system runs; it waits for nothing but
the channel. Clients owe nothing, and shutdown need not happen. A device call
that never returns is outside the model. `reply_lane` assumes that the engine
thread, the runtime's tasks and the drop of an abandoned response go on. It asks
nothing of the client: `RequestLeaves` holds for one that never reads, and
`ReaderSeesEnd` carries the fairness of `Poll` as its hypothesis. `provision` assumes
that a call that runs goes on, the network included, and that a caller whose
call failed tries again, which is what the error messages ask for; nothing
is assumed of faults, which are finitely many. `park_resume` assumes that the
engine thread takes a park or a resume to its end and that a parked generator is
asked to resume, by a chat or by a client.

**Deadlock.** It is checked in every run but three. `ServeWorker` may stop only when the
worker has exited and the HTTP side is gone (`Stopped`), so `serve` also
says that shutdown cannot wait for a worker that waits for shutdown. In `park_resume` a
loaded generator that lost an arena to a failed park serves nothing more, and in
`flash_mtp` and `flash_keys` the last request the epoch bound allows is followed by nothing: both may stop.

## 4. Proofs

`PagedKvSlots_proofs` proves, for every value of the constants that satisfies
`PoolAssumption`:

| theorem | says |
|---|---|
| `TypeCorrect` | `Spec => []TypeOK` |
| `OwnershipHolds` | `Spec => []OwnershipInv` |
| `InternalErrorsUnreachable` | `Spec => []NoInternalError` |
| `RoutesAreInjective` | `Spec => []RouteInjective` |
| `PrefixNeverMoves` | `Spec => PrefixStable` |
| `PoolImplementsPages` | `Spec => ImplementsPages` |

`PoolAssumption` is what `PagedKvSlotPool::new_with_limits` refuses to go
without, and that the two sentinels lie outside the values they are stored
beside. The argument: `OwnershipInv` together with the types is inductive. It
says that the used entries of a row name distinct pages tagged with that row, that
the others are blank, that a row uses exactly the entries its positions need, that
every tagged page is named by its owner, that `free_pages` is the number of untagged pages, and that
none of them lies below the search hint. From the last two, a reservation that
passes the count finds its pages, so the internal error of `reserve_tokens` is
unreachable; from the first, a release never meets a foreign or repeated page, so
that of `truncate_tokens` is too. `RouteInjective` follows in each state from the
distinctness of pages and their tags, and `PrefixStable` from what each action
leaves alone.

Lemmas state what the helpers do: bounds and monotonicity of `DivCeil`, what
`FirstFit` assigns, what a release frees, and how the cardinality of the unowned
pages changes.

`ReplyLane_proofs` proves, for every value of the constants that satisfies
`LaneAssumption` (channels hold at least one entry, a request has a budget of at
least one round):

| theorem | says |
|---|---|
| `TypeCorrect` | `Spec => []TypeOK` |
| `TextHasNoGap` | `Spec => []NoGap` |
| `VerdictsAreTrue` | `Spec => []VerdictIsTrue` |
| `RequestsLeavePromptly` | `Spec => []LeavesPromptly` |
| `StreamsStayInOrder` | `Spec => []StreamInOrder`: role, text, calls, one verdict, usage, end mark, in this order |

None of the three properties is inductive. `NoGap` says nothing of the delta about to
be sent, so `Consecutive` adds that while the sender is held the reader, the lane and
the rest of the event account for every delta made, that only the last entry of the lane is a
verdict, that the sender is then gone, and that a `Done` in it closes a completed
request. `VerdictIsTrue` needs that, and `Final`: once a verdict is
written nothing more is read from the lane, so what was heard no longer changes.
`LeavesPromptly` needs `Scheduled`: a round is only ever begun after a scan (or the
admission) found the sender held and no disconnection, and disconnection, once published, is not
withdrawn. The proof checks each of the fifteen actions against the five conjuncts.

`StreamInOrder` is stated in this module only and is no property of a run; TLC found no violation of it on the instance of
`MCReplyLane`. It rests on the invariant `Stream`: as long as the reader reads on, what it wrote and has still to write is
the role and text, which any event but the role may follow (`Before`), and the events of each reply are in order themselves
(`ScriptInOrder`). A break at the first event the client no longer takes leaves a prefix (`WrittenInOrder`).

`ParkResume_proofs` proves, for every value of the constants that satisfies
`ParkAssumption` (memory without backing holds none of the values that are written):

| theorem | says |
|---|---|
| `TypeCorrect` | `Spec => []TypeOK` |
| `LoadedStaysExact` | `Spec => []LoadedIsExact` |

`LoadedIsExact` speaks of loaded generators only. The invariant adds what holds on the
way back: the checksums are those of the true contents of the mirrored rows and
pages (`SumsAreTrue`), and each step of a resume leaves the parts restored so far exact
while the mirror is intact (`Restored`: weights, then tables, then rows, then pages). An altered mirror no longer has its
checksums, so `Verify` cannot end in `"loaded"` with it. A generator that a failed park returns has lost
an arena, and the property claims nothing of it.

`Provision_proofs` proves, for every value of the constants that satisfies the assumption of `Provision`:

| theorem | says |
|---|---|
| `TypeCorrect` | `Spec => []TypeOK` |
| `SnapshotsAreExact` | `Spec => []SnapshotIsExact` |
| `ResumableIsKept` | `Spec => KeepsGoodBytes` |
| `InstalledIsKept` | `Spec => InstalledStays`: an installed file is never overwritten, shortened or deleted |

The invariant says that a process between taking and giving up a lock is the one that holds it, so
that nobody else changes the partial file; that the digest of a process that receives is that of the file it
appends to; and that a blob of the right length is exact and durable, so that a power loss cannot spoil it.
`InstalledStays` (this module only; TLC found no violation on the instance of `MCProvision`) needs the same facts: the process that
renames has held the lock since it saw no blob, so it overwrites none, and a loss of power can undo the rename of a
durable file, in which case all of its bytes are in the partial file again.

`ServeWorker_proofs` proves, for any clients, a channel and a batch of any size, and any bound on rounds:

| theorem | says |
|---|---|
| `TypeCorrect` | `Spec => []TypeOK` |
| `FenceHolds` | `Spec => []FenceIsLast` |
| `SettledHolds` | `Spec => []SettledIsTrue` |
| `HoldRefuses` | `Spec => NoAdmissionDuringHold` |
| `NobodyIsForgotten` | an accepted request without an answer is in the channel, waiting, in the batch, held or in hand |
| `LifecycleSteps` | `Spec => Abstract!Init /\ [][Abstract!Next]_lifecycle` |
| `JobsAreSole` | `Spec => []Sole`: what is queued, waiting, held or in hand is unanswered, and nothing queued is also in the worker's books |
| `NobodyIsAnsweredTwice` | `Spec => AnsweredOnce`: what a client has been told stays |

`NoJobAssumption` (the absence of a job is no job) is the only assumption beside the types of the
constants. The invariant follows the worker through its loop. `Control` says, for each `pc`, what is in its
hands and what it owns: at `"publish"` the job of the transition that was just executed, at
`"restore"` the chat that woke the model up, and so on. `Phases` says, for each published state, what may be
queued and held: nothing when parked or unloaded; while a park or an unload is reserved, inference
jobs and then the one lifecycle job, or that job already held or in hand; and `HoldIsParked` that a
minimum park that still runs is one of a model whose state was parked.
`FenceIsLast` and `SettledIsTrue` are what is left of `Phases` when one forgets `pc`. They are stated without
exception for a worker that unwinds: its first step publishes `Dead`. `Accounted` is what
`NobodyIsForgotten` states; it is the safety part of `EveryJobSettles`.
`NobodyIsForgotten` says that no job is lost, `JobsAreSole` and `NobodyIsAnsweredTwice` that none is done twice; the last two
are stated in this module only, and TLC found no violation of them on the instance of `MCServeWorker`. The second is not evident: an admission answers all who wait
without looking at what they were told before (`Admit`), so it rests on `Sole`, which says that nobody who was answered waits. `Sole` in
turn needs that a job is in the channel once and in no other place, or the answer to one copy would close the other.
Every action of the worker is an instance of one lemma (`SoleMoves`): jobs leave the channel, move within the books, and those answered leave them.

`LifecycleSteps` is the safety part of the refinement `ImplementsLifecycle`; the other part is its fairness.

`MtpScheduler_proofs` proves, for every value of the constants that satisfies
`SchedulerAssumption` and `ClosedAnswers`:

| theorem | says |
|---|---|
| `TypeCorrect` | `Spec => []TypeOK` |
| `SessionsAreExact` | `Spec => []SessionIsExact` |
| `PrefixesAreExact` | `Spec => []RetainedIsExact` |
| `WritesStayReserved` | `Spec => []WritesReserved` |
| `BooksAlwaysAgree` | `Spec => []BooksAgree` |
| `RefusalsAreHonest` | `Spec => []RefusalIsHonest` |
| `ChecksNeverFire` | `Spec => [](answer.kind # "internal")` |

The invariant has one conjunct per kind of slot. `RunsExactly` says of a running chat that its
device state is that of its prompt and output up to its position, that its snapshot is that
of its message boundary, that its row reserves the prompt and the whole budget, and that its answer is open:
it holds no stop token. `KeptExactly` says of a retained prefix that it can be resumed at its end and, by its
snapshot, at its boundary. It also ends at that boundary or is a prompt with an open
answer (`OpenOrCut`). `Books` says that the lists of active slots and of the order of use name each running and each
kept slot once, that the retained rows of the pool are those of the kept slots, and that pages in use never exceed the pool. Without `RunsExactly` a chat would not leave behind what
`KeptExactly` says, and without `KeptExactly` an admission that reuses would not establish
`RunsExactly`: none of the four properties is inductive alone. Page counts are
cardinalities of sets of table entries, so that what an eviction frees is the difference of two sets.

`ClosedAnswers` is the one assumption on inputs: in a prompt, every message before the boundary is
closed by a stop token, as the chat template does. The proof needs it in one
place. After an admission that reuses a prefix, the code checks that the slot has a boundary snapshot
(`resident_mtp_batch_generation.rs:1032`), not that it is one of this prompt's boundary. If the retained prefix
ended exactly at the new prompt's boundary without being one, the old snapshot would stay. By `OpenOrCut` a retained prefix that does not end at its own boundary ends in an
open answer, because the stop token that ends an answer is never processed; a prompt that goes on from it has that token before
its boundary, so it does not happen. TLC finds the stale snapshot when a prompt that breaks the assumption
is added to `Conversations`.

`ChecksNeverFire` covers the consistency checks of the selection, the
reservation, the end of a round and the cancellation. The check of a reused prefix against the boundary
answers `"boundary"` and is finding 2.

`WeightStream_proofs` proves, for every value of the constants that satisfies
`PoolAssumption` (finitely many items, at least one slot and no more slots than items,
requests that are sequences of items):

| theorem | says |
|---|---|
| `TypeCorrect` | `Spec => []TypeOK` |
| `ReplaysReadTheirItems` | `Spec => []ReplayReadsItsItems` |
| `SourcesStayStable` | `Spec => []SourcesStable` |
| `ResidencyHolds` | `Spec => []ResidencyIsReal` |
| `CacheAlwaysAgrees` | `Spec => []CacheAgrees` |
| `RoundsAreResident` | `Spec => RoundIsResident` |

`ReplayReadsItsItems` speaks of the replay at the head of the consumer stream, but it is decided when the
replay is enqueued and again when a later round overwrites slots, with both streams anywhere. The
invariant therefore speaks of what is queued. `Holds(s, i, q)` and `Leads(i, s, q)` say what a slot will hold and where
the table will lead once `q` more operations of the transfer stream have run.

- `ReplaysSafe`: a queued replay reads its items at every number `q` of transfer operations that may have run by
  then. The publication it waits for bounds `q` from below (`Reached`); the first transfer operation that waits for
  its release bounds `q` from above (`WaitsFor`).
- `ReplaysHeld`: a replay for which nothing queued waits reads slots that are still the cache's, and each release fence
  that covers the readers of those slots lies behind it. The next round that overwrites one of them thus waits for a release
  behind the replay: this is what keeps `ReplaysSafe` when copies are appended.
- `CurrentHeld`: the round that can still be replayed is resident, and no release recorded so far covers it. It gives
  `ReplaysHeld` for a new replay.
- `ClaimsHold`: what the cache claims is what the device will hold when the transfer stream has run dry, except in slots that
  the current plan overwrites; `ResidencyIsReal` is the case of a stream that is dry.
- `SourcesHeld`: the bounce slot or staging table that a queued copy reads has that copy's contents and a fence behind it.
- `CacheSound` and `CallSound`: the cache as `CacheAgrees` has it, and a plan that names each slot and item once, whose
  hits are resident and whose admissions are of absent items or of items it evicts itself.

`RoundIsResident` rests on the loop of `plan_round`: planning one more item keeps a plan sound (`PlannedIsSound`), so
the whole plan is (`PlanRoundIsSound`). The same is done for the recency list that a commit reorders (`Without`). The
library's induction theorem takes an operator as its parameter and cannot be used; both arguments take the least position at which the claim fails
instead (`Least`), and the existence of the function that a recursive definition names is proved in the same way
(`PlanIsDefined`).

`FlashMtp_proofs` proves, for every value of the constants that satisfies `FlashAssumption`
(positive sizes, prompts that are nonempty finite sequences, positive budgets):

| theorem | says |
|---|---|
| `TypeCorrect` | `Spec => []TypeOK` |
| `TargetStaysExact` | `Spec => []TargetIsExact` |
| `DraftStaysAligned` | `Spec => []DraftIsAligned` |
| `OutputsEnd` | `Spec => []OutputEnds`: nothing is generated behind the stop token or over the budget |
| `OutputsStand` | `Spec => OutputStands`: no committed token is taken back or replaced |

`TargetIsExact` and `DraftIsAligned` speak of the states between two rounds; the invariant says what holds at each step within one.

- `SlotSound`: the request has the pages of its whole reservation, and the block table is the pool's mapping. From
  `Partition` (as many places as funded pages, and each page at one) no page is mapped twice (`MappedOnce`), so a
  write reaches the cells of its positions and no others (`CellFacts`, `WriteFacts`).
- `RoundSound`: the round's position is that of its anchor, its inputs fit the request's positions, its restore point
  has the tokens before it, and the mirror is aligned through the anchor's row. That row is written by `Draft`
  and never again, so nothing up to `Realign` may touch it.
- `DecisionSound`: before the decision nothing of the round is committed; after it, the first `accepted + 1`
  inputs are the committed tokens from the round's position on.
- `TargetSound`: the target is behind the committed tokens before the round, behind all of the round's inputs
  (`Verified`) or, replayed, behind those accepted. A text that agrees with
  another as far as the device has come can take its place (`SameText`); this carries the rows of the accepted prefix from the
  verified text to the committed one.

A restore gives the pages behind its position back and reserves them again. It keeps the rows
before and the drafted anchor only because the same pages come back in the same order: pages are pushed
last one first and popped from the end (`RestoreKeepsMapping`). No exit to `"failed"` can be taken, because
a round never reaches beyond the `Required` positions and those are mapped.
A prompt is primed by a recursive function over its chunks (`PrimeIsDefined`, `PrimeFacts`, both by the least position
at which the claim fails); `ChunkFacts` says that the chunks follow each other and fill the prompt.

`OutputEnds` and `OutputStands` are stated in this module only; TLC found no violation of them on the instance of `MCFlashMtp`.
A round commits several tokens at once. The proof combines what `Decide` accepts (no stop token but as the last, `DecisionEnds`) with
`DecisionSound` (the text before did not end) and the bound on the inputs of a round.

Model-checked only are liveness (`EveryJobSettles`, the fairness of `ImplementsLifecycle`, `RequestLeaves`,
`ReaderSeesEnd`, `SnapshotIsProvided`, `ParkedComesBack`), which is outside what TLAPS can prove, and the four findings, which are violations.

## 5. Findings

1. **A second park ends a minimum park** (`serve_hold`). `publish_parked` replaces
   the deadline by that of the last park, and a park without `seconds` has none.
   `README.md` promises a minimum of N seconds that a resume overrides, and the
   plan calls parking a parked model idempotent.
2. **A chat that ends with its first token cannot be sent again** (`mtp_resent`).
   It is retained with its whole prompt, which the same prompt matches
   completely; the check that a reused prefix lies within the message boundary
   then refuses the request with an internal error until the prefix is
   evicted.
3. **A stream without `[DONE]`** (`reply_done`). When the generated tool calls
   breach the request's constraint, the pump writes an error event and returns; every
   other end of a stream is followed by `[DONE]`, as the documentation of
   `streaming_response` says and the server qualification demands. The constrained
   decoder can produce such a text: after a complete call it admits part of another
   opening tag and then a stop token, which the parser refuses.
4. **Block keys pooled from the wrong rows** (`flash_keys`). The Flash Next target
   ranks far context by one index key per block of four positions, pooled from four
   raw keys. Single rows keep the raw keys of the open block in a ring of
   four. A verification span of up to four rows uses the same ring and writes
   all its rows before it pools, so a span that begins inside a block and ends in the next one overwrites members
   of the block it closes. The shortest behaviour has no rejected
   draft: a prompt of 3, one round of 4 rows at position 3. A rejected row of the
   next block does the same damage before a restore, which does not rewind the ring. The comments of
   `qsa_indexer.rs` require the four raw keys of a block to be there; the qualification of a
   causal span (`qual/src/qwen38_flash_next_resident_model.rs`) begins at position 0, where block and span
   coincide. Keys are read only by selection, beyond 2,051 visible positions.

Two more divergences were met and have no run of their own. A park that fails after its first
release returns a generator as loaded that has lost an arena (`ReleaseFails` of `ParkResume`; `LoadedIsExact` has to except it),
while `docs/PLAN-offload-gpu-and-kv.md:295` says that "park failure leaves the original loaded generator usable".
And a scoring request that the intake loop meets behind another job is refused as busy also when the scheduler is
idle, while `docs/evaluation.md` names active generation as the cause.

## 6. Not modelled

- Floating-point programs, kernels, layouts, tables: no finite-state content. Of the
  kernels, only the addressing of the index-key ring is in a model.
- Decoding of requests, the chat template, the tokenizer, logging, metrics.
- `serve_requests`, the loop for targets without a lifecycle, and the warm start.
- Authorization.
- The eight-slot Flash Next batch generator, which no server path starts, the
  schedulers of the other targets, and the engram stager.
- Qualification and developer tools (`xtask`, `qual`, `tuisko-remote`), which are most
  of the repository's lines: measurement programs and remote runs around the system, not part of it.

## 7. Plan

Done: `PagedKvSlots` with its contract and proofs; `ServeWorker` with
`ModelLifecycle`, `ReplyLane`, `ParkResume`, `Provision`, `MtpScheduler`, `WeightStream` and `FlashMtp` with their proofs.

Next, in this order:

1. The composition of `ParkResume` with `MtpScheduler`, whose retained prefixes must
   survive with their token lists.
2. `RemoteLease`, and the frontend's prompt-prefix cache.
