# A TLA+ model of DOLDA

DOLDA is a Rust library: an append-only store of framed records, a partitioned
persistent queue, an actor-like mailbox system on top of the queue, and the
beginnings of a distributed layer (Raft node, TCP transport).  This directory
holds TLA+ modules for its stateful core, TLC configurations that check them on
small instances, and TLAPS proofs of the results that matter most for every
instance.  Paths below are relative to `src/src/`; `examples/` is `src/examples/`.

## 1. Inventory

| Part | State | Operations | Talks to | What is hard | Correct when |
|---|---|---|---|---|---|
| `record.rs` | none | `serialize`, `deserialize`, checksum | segment | truncated and overwritten frames | a frame decodes only when whole |
| `storage.rs` `RecordSegment` | `write_pos`, `record_count`, `mmap`, `index` | `append_record`, `read_record`, `read_record_by_num`, `iter_records`, `has_space` | manager, compaction | lock-free reservation with rollback; reads during it | reservations disjoint, acknowledged records readable, atomic log |
| `storage.rs` `SegmentManager` | segments, current segment, creation lock | `append_record`, `create_new_segment` | segment | double-checked creation on stale `has_space` | no wasted segment, every call returns |
| `persistq.rs` | per partition segments and locks; `global_offset`, `offset_map` | `append`, `read`, rollover, start | mailbox | store/number/map in three steps; rollover; restart | offsets dense, records intact and readable |
| `mailbox.rs` | mailboxes by address; a read offset per handle | `create_mailbox`, `get_mailbox`, `send_to`, `send_with_subject`, `reply`, `receive`, `peek` | persistq | sends concurrent with polling; errors that consume | own messages, once, in order, none lost |
| `raft.rs` | term, vote, role, leader, votes; command channel; two timers | `start_election`, `handle_vote_request`, `handle_heartbeat`, `send_heartbeats` | (no transport yet) | decisions that wait in the channel; restart | one vote per term, terms monotone, step-down |
| `compaction.rs` | `in_progress`, statistics | `compact_segment`, worker, `merge_segments` | segment | error paths keep the flag; appends during the copy | compaction ends and loses nothing |
| `resilience.rs` | breaker state and counters | `can_proceed`, `record_success`, `record_failure`, retry | callers | check-then-act by several callers | an open breaker admits nobody before its timeout |
| `mailbox_processor.rs` | processors by address | register, poll, unregister, `shutdown_all` | mailbox | consume before process; shutdown while processing | each message processed or reported |
| `mailbox_network.rs` | handle cache of the server | request handlers, client | mailbox | cache races, lost datagrams | a client is answered, no second handle |
| `network.rs` | connection pool, request ids | `send_request`, `get_connection`, serve | (raft, later) | abandoned requests, pool races | a response belongs to its request |
| `health.rs`, `observability.rs` | check results, counters | register, report | all | little | reports follow the checks |
| `datafusion_layer.rs` | none of its own | table scan (placeholder) | external engine | – | – |
| `demo.rs`, `main.rs` | none | demonstrations | all | – | – |
| `examples/two_traders_competition.rs` | order book, cash and positions, price history | quotes, orders, `match_order`, bookkeeping | mailboxes (logging) | quotes and orders in one book; a trader that meets itself | price-time priority, holdings conserved |
| `examples/hft_trading_server.rs` | books by price level, market prices, counters | `match_order` for six order types, reports | processors, mailboxes | walking order of the levels; FOK; reports that fail | fills balance, status agrees with executions |
| other examples | none | sequential demonstrations | all | – | – |
| `node.rs`, `cluster.rs`, `partition.rs`, `filesystem.rs`, `types.rs`, `utils.rs` | – | – | – | not declared in `lib.rs` or `main.rs`, hence not built | – |

`PROJECT.json` lists the hazards at their lines, with the properties aimed at
each.

## 2. Modules and how they correspond to the code

| Module | Models | Notes |
|---|---|---|
| `AppendLog` | – | abstract specification: an atomic, bounded, append-only log |
| `RecordSegment` | `storage.rs` 48–198, `record.rs` frame | one action per atomic instruction or critical section of `append_record` and `read_record` |
| `UniformSegment` | the same, records of one size | inductive invariant, refinement mapping to `AppendLog` |
| `SegmentManager` | `storage.rs` 285–427 | rotation over the fetch_add/fetch_sub of its segments |
| `UniformManager` | the same, records of one size | inductive invariant of rotation |
| `PersistQ` | `persistq.rs` 72–592 | queue, segment manager and segment; `Restart` is `PersistQ::new` on an existing directory |
| `Mailbox` | `mailbox.rs` | composes the append protocol of `PersistQ` (stored, numbered, mapped) with handles |
| `RaftNode` | `raft.rs` | command loop, timers, handlers; RPCs from an arbitrary environment |
| `MailboxServer` | `mailbox_network.rs` | EXTENDS `Mailbox`: the server's handles are handles of the mailbox system, which the host goes on using |
| `Processor` | `mailbox_processor.rs` | EXTENDS `Mailbox`: tasks poll handles and forward with sends |
| `Compaction` | `compaction.rs`, `RecordIterator` of `storage.rs` | jobs that iterate a segment while records are appended to it |
| `CircuitBreaker` | `resilience.rs` | breaker, retry loop and timeout, shared by several callers |
| `Transport` | `network.rs` | connection pool, request and response over one stream, server task |
| `Trading` | – | the two sides of a book, shared by the next two |
| `Market` | `examples/two_traders_competition.rs` | the loop of `main` as a sequence of steps over one book |
| `MatchingEngine` | `examples/hft_trading_server.rs` | `MatchingEngine` and `OrderProcessor` |
| `MC*` | – | constant values for TLC |
| `SegmentProofs`, `ManagerProofs`, `QueueProofs`, `RaftProofs`, `CompactionProofs` | – | theorems and proofs, one module per component |
| `TransportProofs` | – | theorems and proofs of `Transport` and `CircuitBreaker`, what stands between a caller and a peer |
| `MailboxProofs` | – | theorems and proofs of `Mailbox`, `MailboxServer` and `Processor`, which share its lemmas |
| `TradingProofs` | – | theorems and proofs of `MatchingEngine` and `Market`, which share the induction over the rounds of a match |

Definitions named `...Forgotten`, `...Skipped` and the like, introduced by a
comment "Mutant:", are not used by any specification.  Each is the altered form
of one definition and shows that a property does notice that mistake
(`PROJECT.json`, "mutants").

**RecordSegment.**  An append call is identified with its record, so `pc[r]`
says where `append_record` is: `Reserve` is the `fetch_add` with the comparison
that follows (it reads locals only), `Rollback` the `fetch_sub` and the
`SegmentFull` value or, when the offset was past `max_size` already, the panic that
computing this value may end in, `WriteFrame` the copy under the map's lock, `CountRecord`
and `InsertIndex` the last two steps.  `ReadLoad` loads `write_pos`; `ReadSlice`
takes the slice and decodes it.  A byte of the map holds the record whose frame
was written there; a frame decodes when all its bytes are its own, which takes
CRC32 to be perfect.

**SegmentManager.**  Only `write_pos` of each segment is kept.  The current
segment is the last of the sequence, because `create_new_segment` pushes and
replaces under the creation lock; the two assignments are one step, since every
reader of `segments` alone is a reader of statistics.  A failed `fetch_add` leaves the
call "overshot" instead of "rollback" when it returned more than `segment_size`: only
then can `Rollback` panic.  Sizes are arbitrary; `RecordsFit` names the case in which
every record fits into an empty segment.

**PersistQ.**  Appends to a segment happen under that segment's mutex together
with the second `has_space`, hence one step (`TryAppend`).  Numbering and
mapping are separate steps.  `read` is a function of the state: it looks up an
immutable mapping and then holds the segment's mutex, so it takes effect at that
moment.  After `Restart` calls of the previous process are "old" (acknowledged),
"lost" (under way) or have not begun.

**Mailbox.**  A message takes one slot of its queue's file.  `MailboxSystem::new`
gives queues one partition and 64 MB segments, so the first segment does not fill
in the model.  `ReadNext` is `PersistQ::read` followed by `Message::from_bytes`:
the data runs to the end of the file, and JSON text followed by more JSON text
does not parse.  `create_mailbox` needs the write lock whose read lock every send
holds until it returns.  Directories are a function of the address, injective or
not.

**RaftNode.**  `TimerCheck` reads the state after the sleep, `TimerSend` queues
the command; the elapsed time that the code compares is left to chance.
`granted` is a history variable.

**MailboxServer.**  A request is named by the client call behind it.
`get_or_create_mailbox` is three steps: `Lookup` under the read lock of the cache,
`Fetch` (or `FetchFails`) from the mailbox system, `Cache` under the write lock, which
replaces whatever is there.  Over UDP the server awaits each request before it takes the
next (`Turn`); over TCP every connection is a task.  `ServeSend` is `Mailbox::Route` on
the cached handle, so the message is stored, numbered and mapped in steps that other
requests interleave with.  `Lose` is a datagram that never arrives or a connection that
breaks: over TCP the client's call returns an error, over UDP it waits, since the client
has no timeout.  `got` and `lost` count what became of the messages in answers;
`PassedBy` are the handles whose offset has passed a message, parsed or not.

**Processor.**  A registration is the call that makes it: `OpenMailbox`, `Spawn` (after
`init`), `Insert` under the write lock of `processors`.  The spawned task is `Poll`
followed by what `process` comes to: forward (echo, filter, transform), nothing (a filter
that does not match), an error (aggregation and Parquet export, because `datafusion` is
always `None`), a panic.  `tokio::select!` looks at the shutdown channel between two
ticks only, hence `TaskEnds` in "polling".  `Acquire`, `RemoveEntry`, `CleanUp` and
`Release` are `unregister_processor` and, over every entry, `shutdown_all`; both hold the
write lock while they await the task.

**CircuitBreaker.**  Each method reads the state, releases the lock and acts on what it
read; every lock section is a step.  `retry_with_backoff` takes a synchronous closure,
which cannot await `with_circuit_breaker`; a caller's closure makes the same calls of the
breaker, and `with_circuit_breaker` itself is the case without retries.  `stale` is a history variable: the callers that read
the state before the last opening.  Time is the age of the last transition up to
`Timeout`.

**Compaction.**  Slots instead of bytes.  `Open` is `iter_records`: it takes `write_pos`
as the end once.  `Copy` is one turn of the loop; a frame that does not parse is skipped
by the loop, but the iterator does not advance.  `Panic` is a slice that ends past the
map, in a build that unwinds; with the release profile (`panic = "abort"`,
`Cargo.toml:55`) the program is gone instead.  `Claim`/`Finish` set and clear `in_progress`; `wedged` is a history variable that
says that some compaction ended without clearing it.  `merge_segments` does not use
the flag.

**Transport.**  One address.  Requests and responses are two sequences per connection.
`NextId` and `Write` are `send_request` up to the end of `write_all`.  `Cancel`,
`CancelMidWrite` and `CancelMidRead` are the caller dropping the future of `send_request`
at an await, between two messages or inside one.  A half-read response leaves bytes that
do not decode (`garbled`).  A half-written request is `cut`: `read_from` goes on waiting
for the rest of it, and what is written next (`Swallow`) completes it, with bytes to spare
that are no header (`broken`) or without, or is not enough, or makes a header of it that
does not decode; `Misread` is the server closing a broken stream.  `torn` are the
connections on which this ever happened.  `Get`/`Connect` may race:
the later `insert` displaces the earlier connection, which lives as long as a client
holds it (`Dropped`).

**Market.**  Ticks and lots.  What the traders compute from the price history is free
within their parameters; the risk checks, the sizes they allow, the book, and the order in
which `main` calls them are the code's.  Entries carry an arrival number, which the
code's vector positions stand for.  `match_order` is a loop over the other side of the
book: `Meet` is its body for one entry, `Matched` the recursive function that runs it over
all of them.  `Settle` books one trade and `Settled` all of a match.  `own` is a history
variable: what traders bought from themselves.

**MatchingEngine.**  A book is the sequence in which the code walks its `BTreeMap`:
ascending price on both sides.  `levels` are the keys, which stay in the map when their
orders are gone and stop the walk of a sell.  A match is one step, because one processor
task owns the engine; the reports that follow are steps that may fail.  `wasted` is a
history variable: what killed FOK orders took.  `FillOne` is the body of the loop over the
resting orders, and `Fills` the result of the last round.

## 3. Runs

All twelve hold.

| Run | Question |
|---|---|
| `UniformSegment` | lock-free appends of one size with a reader: disjoint, intact, readable, numbered, and an implementation of `AppendLog` |
| `SegmentManager` | several sizes, all of which fit a segment: rotation leaves no empty segment and every call ends, also when creation fails |
| `UniformManager` | one size: a segment is given up only when full |
| `PersistQ` | rollover, failures and a restart anywhere: stored records intact, offsets dense, first-segment records readable, no empty segment, every append returns |
| `RaftNode` | one vote per term, terms and votes stick, a candidate that loses term or vote is a candidate no more |
| `MailboxServer` | own messages, once, FIFO for sends that do not overlap; every message that a handle passed was given, is under way, was lost with its answer or dropped unparsed in favour of a later one; one handle per address over UDP (over TCP two are possible); TCP calls return and pollers get the message stored last |
| `Processor` | every running task is within the manager's reach, a processor is quiet once it is shut down, forwards keep their order; manager calls return, stopped tasks end, the last message is processed |
| `CircuitBreaker` | no opening or closing is lost between counter and transition; an open breaker holds until its timeout, but for calls that read it before; the breaker follows the operation |
| `Compaction` | one compaction at a time, and `in_progress` set exactly while it runs or for ever after a failure; complete copies; jobs end unless their iterator is stuck |
| `Transport` | a response belongs to the call that gets it; an abandoned request spoils its connection for good; streams are accounted for while requests are written whole; calls return unless a call before them was dropped half way, and the server's tasks end |
| `Market` | fills by price and arrival; holdings conserved but for trades of a trader with itself; the book crossed by quotes only, and small |
| `MatchingEngine` | fills balance but for what killed FOK orders took; only sells rest across the book; arrival and, for buyers, price priority; statuses agree with executions |

**Bounds.**  Segments: two records fit, four compete, so two rollbacks can be
outstanding at once and a reader meets them.
Rotation: four or five calls over segments of one or two records give two
rollovers and calls that still hold a segment that is no longer current.
Queue: four appends to two partitions, segments of one large or two small records,
one restart; with these sizes `MaxSegs` never stops a segment from being created.
Raft: RPC terms up to 2, two timeouts, two commands in
the channel: a command can wait behind one other, and the node's own terms and those
of the RPCs overtake each other.  Cluster sizes 0 (the node wins alone) and 2 (it
stays a candidate) are two initial states of one run.
Mailbox server: a sender, a poller and a peeking client whose requests can all miss the
cache at once, a local sender, one fault, both protocols.  Processors: two registrations
of one address, an unregister and a shutdown, two messages and their two echoes: a
displaced task, a task in the middle of a send and a registration under way can all meet
a stop call.  Breaker: two callers, thresholds of 2, one retry: a caller can sit between
any two lock sections while the other opens and closes the breaker; the counters are
bounded by the thresholds and the callers.  Compaction: three appends to a segment of
two slots, so that one overfills it, a second segment, the worker and one direct call, one
fault.  Transport: two clients with two calls and one, three connections, which is one
for each call: a call can be dropped inside its request or its response while another
waits for the connection, and a third one follows.  Market: four iterations, orders in two of them, one move of the price.
Matching engine: four orders of thirteen kinds at three prices, one failed send.

**Deadlock** is checked in the storage, queue, Raft and breaker models.  The manager and
queue models have an explicit `AllReturned` step, so a call that hangs is a deadlock
there.  The other six cfgs say CHECK_DEADLOCK FALSE, because the system may stop: a UDP
client waits for ever for a lost answer, compaction stops once it is wedged and nothing
is appended, and in the others the bounded input (calls, messages, iterations, orders) is
used up.  Their liveness properties say what must have happened by then.

**Symmetry** is used in `UniformManager` only, which has no temporal property and
whose records are interchangeable.

**Fairness.**  Weak fairness of every call's steps: a call is a thread or a
task of a multi-threaded runtime that is never abandoned, and the creation lock
(`tokio::sync::Mutex`) queues its waiters.  Polling clients, the ticks of processors and
the callers of the breaker loop for ever, so their next step is fair too; the compaction
worker finishes the scan it has begun, but its ticks are under no fairness.  `Transport` assumes strong fairness of `Lock`, since the mutex of a
connection is taken and given back by others meanwhile; tokio's mutex is a fair queue.
A handler returns in the end, with an answer or an error.  `Write` is fair except on a
connection on which a call was dropped after it had written a byte: there the server may
be blocked writing a large answer that nobody reads, so that a large request behind it
is never taken.
Faults, cancellations, creation of mailboxes, stop calls, market prices and restarts are
under no fairness.  In `CircuitBreaker` the clock ticks on.  No liveness is claimed for
Raft: the code sends no vote requests, so a larger cluster never elects.

## 4. Proofs

All are checked for arbitrary constants that satisfy the named assumptions: any number of
calls, clients, records or messages, any sizes and thresholds.  Each theorem rests on an
inductive invariant, whose parts are named in the proof module; the parts were checked
with TLC before they were proved.

* **SegmentProofs** (from `SegmentAssumption`, `UniformAssumption`).
  `ReservationsDisjoint` is not inductive: a failed reservation moves `write_pos`
  and moves it back later.  `FrontierInv` speaks of `Frontier`, which is
  `write_pos` less the bytes of outstanding rollbacks: all placed records lie
  below it, and if any rollback is outstanding nothing fits above it.  With one
  size a `fetch_add` then either finds no rollback outstanding and starts at the
  frontier, or fails too.  From it follow `SegmentNoOverlap`, `SegmentIntact`
  (frames keep their bytes), `SegmentReadAfterAck` and `SegmentImplementsLog`,
  the refinement with `Frontier` as the extent of the log.  With several sizes
  the second conjunct fails (section 5).  `SegmentNumbersAndIndex` adds that the numbers
  given are those below `record_count` (`NumbersDense`) and that the index holds offsets
  of records whose append reached it (`IndexOfAcked`); disjoint offsets make the entry of
  a record its only one.
* **ManagerProofs**.  `ManagerInv` (from `ManagerAssumption`, `UniformAssumption`)
  relates each `write_pos` to the records placed and the rollbacks outstanding
  there, says that an outstanding rollback implies a full segment, and that the
  holder of the creation lock who is about to create saw a full one.
  `ManagerRollover` follows.  `ManagerNoWaste` needs no uniform size but the hypothesis
  `RecordsFit`, without which it is false (section 5): a segment whose
  `write_pos` is positive has a record in it, because a lone `fetch_add` on an empty
  segment succeeds (`UsedSegments`), so whoever creates saw a used one (`CallsInOrder`).
* **QueueProofs** (from `QueueAssumption`, any sizes).  `QueueInv` adds to the
  types and `StoredIntact` where calls may point.  `QueueOffsetsDense` is
  inductive with it; `QueueReadsBack` combines both.  `QueueSegmentsUsed` has the
  hypothesis `RecordsFit`, every record fits into a segment, without which the property is
  false (section 5); it rests on who holds the creation lock and what that call saw
  (`LockHeld`, `CreateWhenUsed`).
* **RaftProofs** (from `RaftAssumption`).  `VotesTracked`: a vote given belongs to
  an earlier term or is the current `voted_for`; a heartbeat that clears
  `voted_for` also moves the term.  `RaftOneVote`, `RaftMonotone` and
  `RaftCandidate` follow.
* **CompactionProofs** (from `CompactionAssumption`: the candidates of the manager name
  every segment once, and a segment in which a record was stored before has room for it).
  `CompactionInvariant`: `OneClaim` follows every path through `compact_segment`, the
  failing ones too.  `CopiesAreComplete` needs to know why an iterator that runs while
  records are appended misses none: the records known when it was opened and not yet
  copied lie ahead of the cursor (`KnownAhead`), what it copied lies behind
  (`CopiedUpTo`, `InSourceOrder`), and no frame moves.  `OverCounted` says
  that while appends are about to roll back `write_pos` passes the capacity by as many, so
  that a rollback never uncovers a slot in use.
* **TransportProofs** (from `TransportAssumption`).  `StreamInv` relates the length of both
  streams of a connection to the calls under way and the abandoned ones, as long as no
  request on it was half written; `InPlace`
  adds that messages with the id of a call under way are that call's own and stand behind
  what every abandoned request left.  `ResponsesAreOwn` and `AbandonedStaysUseless` follow: the
  comparison of ids in `send_request` accepts a response only on a clean connection.
  Of the breaker (from `BreakerAssumption`), `BreakerInvariant` is inductive as it stands.
  `BreakerStaysOpen` needs `OpenGuard`: a caller about to change an open breaker before its
  timeout read the state before it opened, that is, belongs to `stale`.
* **MailboxProofs** (from `MailboxAssumption`, `ServerAssumption`, `ProcessorAssumption`).
  `MailInv` follows a message through the three steps of its append: slots counted,
  offsets unique, the map only of sends that returned, and an earlier send has the smaller
  offset (`BeforeSmaller`).  What lies in the file needs the hypothesis `OwnDirs`, no two
  addresses share a directory; then `InFile` holds, and `InboxOrdered` (what a handle
  received is below its `read_offset`, in the order of the offsets), from which
  `MailboxDelivery` follows, and for the server `ServerFifo`: sends that do not overlap have
  growing offsets, and a handle receives in that order.  Each step of the server and of
  the processors is a step of the mailbox system or leaves it alone
  (`ServerStepsAreMailSteps`, `ProcessorStepsAreMailSteps`), so both inherit these.  `ServerInvariant` needs
  `RequestsInOrder` and, over UDP, `UdpInTurn`: one request at a time in the server, and
  an open handle is in the cache or about to be.  `ServerDelivery` counts: a handle
  receives a message in the step that puts it into an answer (`Balanced`), and a message
  below its `read_offset` that it did not receive had another one stored behind it when
  it was read (`PassedKnown`, which rests on `ReadFinds`: the mapping leads to the
  message's own slot).
  `ProcessorsWithinReach` needs no `OwnDirs`: a task runs only after its registration
  spawned it, and a forward under way belongs to a task that waits for it
  (`TasksInOrder`, `SendsOfTasks`).  `ProcessorInvariant` adds the order of forwards: the
  message in hand is the last of the inbox, and the forward of an earlier one had returned
  when the next began (`ForwardsAfterReceipt`), so it has the smaller offset if both go to
  one mailbox.  The assumption that each forward is a message of its own stands for the
  fresh id that `Message::new` gives it.
* **TradingProofs** (from `EngineAssumption`, `MarketAssumption`: any orders, prices and
  sizes, any number of them).  A match is a loop over a book, so what it computes takes an
  induction over its rounds.  The library's induction theorem cannot be used, since it
  takes a predicate; the module derives one for a set of numbers from the least element of
  the complement (`LeastNumber`, `Induction`), and from it that the recursive functions
  of the models exist and satisfy their equations (`Recursion`).
  *Matching engine.*  `AfterRounds` is what holds after each round: nothing is filled
  outside `Reach`, nothing later before what is earlier, what is left of the book is in
  order, and the executions add up to what the order got and the other side gave
  (`SumsTo`, `VolumeIs` state these sums without the recursion that computes them).
  `EngineIInv` adds to the properties that books are sorted (`BooksInOrder`) and that a
  report under way lacks exactly what was not sent yet (`ReportComplete`).
  `EngineInvariant`, `EngineReports` and the action property `EnginePriority` follow.
  *Trading competition.*  `AfterMeetings`: what is left is part of the side that was
  walked, nothing in it crosses while something is left of the order, and entries before
  one that traded are gone.  `Accounted` follows the holdings through the trades of a
  match.  `MarketIInv` says that the sides are sorted, ids differ, a trader has one entry
  of each kind on a side, crossing pairs end in a quote (`MarketBook`), and that there is
  one resting order at most, of the mean reversion trader, and none between its quote and
  its order (`OneOrder`, which depends on where in the loop `main` is).
  `MarketBookInvariant`, `MarketHoldings` and `MarketPriority` follow.

The types of the modules are proved along with the invariants (`SegmentInvariant`,
`ManagerInvariant`, `QueueTypes`, the lemma `RaftInvariant`, and as the first conjunct of
`ServerInv`, `ProcessorInv`, `BreakerInv`, `CompactionInv`, `StreamInv`, `EngineInv` and
`BookInv`).

Every safety property of a run is thus proved, some under a hypothesis named above
(`OwnDirs`, `RecordsFit`, records of one size).  Only model-checked are the liveness
properties (`AppendsReturn`, `TcpProgress`, `ManagerProgress`, `LastMessageProcessed`,
`FollowsOperation`, `JobsEndUnlessStuck`, `CallsAndTasksEnd`): liveness under fairness and
ENABLED are outside this prover.

## 5. What is left out

Timestamps, formats, metrics, logging and statistics.  Flushing: a memory map
is taken to survive the process (not the machine).  Appends to a queue that are cancelled
in the middle: the steps of an append between its only `.await` (the creation lock) and
its return cannot be cancelled.  Zero-sized records are outside `QueueAssumption`.
A processor that calls its own manager from `process`; no built-in one does.
In `Transport`, payloads that contain the bytes of a message header, and the id that a
request cut inside its header could get from the bytes of the next one if it matched a
call under way.
`with_fallback`, which keeps no state.

**Not modelled.**  `health.rs` and `observability.rs` keep registries and counters that
nothing else reads.  `datafusion_layer.rs` hands queries to an external engine.
`demo.rs`, `main.rs` and the remaining examples are sequential demonstrations of parts
that are modelled.  `node.rs`, `cluster.rs`, `partition.rs`, `filesystem.rs`, `types.rs`
and `utils.rs` are not part of any crate target.  Of the trading server the
market data and strategy processors are left out: the engine does not read their state.

**Where the code deviates from what the repository says of it.**  The models have these
behaviours, and the properties are stated so as to allow for them and no more:

* Records of several sizes: a rollback (`storage.rs:122`) can free bytes above which a
  smaller record sits, and a later reservation overlaps it; `GITHUB_READY.md:57` speaks of
  lock-free appends.  The properties are checked and proved for one size.
* A read during a failed append slices past the map and panics (`storage.rs:173`);
  `ReadAfterAck` allows it, and in `Compaction` it wedges the manager.
* Records in later segments do not read back from their global offset (`persistq.rs:477`),
  hence `FirstSegmentReadsBack`; appends after a restart overwrite what was acknowledged
  (`persistq.rs:536`), hence `StoredIntact` for the running process.
* A record larger than a segment: nothing refuses it, and both `PersistQ::append`
  (`persistq.rs:468`) and `SegmentManager::append_record` (`storage.rs:370`) create empty
  segments without end.  `NoSegmentWasted`, `SegmentsAreUsed` and `AppendsReturn` are
  checked, and the first two proved, for records that fit (`RecordsFit`).
* `max_size - offset` in the error of a failed append (`storage.rs:125`) underflows when
  another rollback is outstanding: a panic in debug and test builds, a meaningless number
  in the error of a release build.  The panic ends the call after its `fetch_sub`, so that
  no other call notices.
* Messages before the last are consumed unparsed (`mailbox.rs:237`), so that only the last
  is certain to reach a poller (`TcpProgress`, `LastMessageProcessed`);
  `ConsumptionsAccounted` counts them as dropped.
* `Mailbox` with two addresses of one `Dir`: one mailbox overwrites the messages of the
  other (`mailbox.rs:360`).
* `ReadNext` is "not_found" for a handle that has read everything, so `receive` and `peek`
  return an error where the guide and the tests expect `None` (`mailbox.rs:233`).
* A Raft leader that gets a heartbeat of a newer term takes the term and stays leader
  (`raft.rs:516`, against the comment at `raft.rs:451`).
* A second handle, of a TCP request that missed the cache together with another or of a
  processor registered anew, reads its mailbox from offset 0 again.
* A UDP client whose datagram or answer is lost waits for ever, and over TCP `send` takes
  an error of the server for success (`mailbox_network.rs:504`).
* `shutdown_all` does not see a registration whose task runs and whose entry is not
  inserted yet (`mailbox_processor.rs:247`).
* An abandoned request makes every later request on its connection fail until
  `remove_connection` is called, which nothing in the repository does.
* A request dropped inside `write_all` (`network.rs:207`): the server takes the bytes of
  the next request for the rest of it and hands the handler a payload made of both; the
  next call gets an error or waits for ever, because its own request was swallowed.  Hence
  `StreamAccounted` and the second part of `CallsReturn` leave such connections out.
* In `Market` a trader that meets its own order books the purchase only
  (`examples/two_traders_competition.rs:406`).
* In `MatchingEngine` a killed FOK order has already taken its fills from the book
  (`examples/hft_trading_server.rs:386`), and sells walk the bids from the lowest price
  (`:494`).  An untriggered stop order is kept nowhere (`:352`).  `EngineAssumption` leaves
  out orders of a priced type without a price: `match_limit_order` (`:474`) falls through,
  and they come back new or cancelled without a match.

## 6. Plan

1. Restart of a Raft node (its "persistent" state is in memory only, `raft.rs:136`) and
   of the mailbox system.
2. `OwnMessagesOnce` for addresses that share a directory: which part of it is left, and a
   proof of that part.
