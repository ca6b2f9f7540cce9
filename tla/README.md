# HyperDPI in TLA+

A model of HyperDPI, a DPDK packet gateway that reassembles the first bytes of
HTTP and TLS flows, extracts the host name and drops the flows a Hyperscan rule
matches. Paths below are relative to the repository root (`src/parser.c`,
`include/stats.h`, ...).

## 1. The system

| Component | State it keeps | Operations | Who touches it |
|---|---|---|---|
| RX thread (`main.c`) | a burst, `dest[][]` | poll, steer, enqueue or drop | RX lcore |
| Bucket table (`parser.c`) | `bucket_worker[]`, `bucket_last_seen_tsc[]` | select, rebalance | RX and Stats lcores, no lock |
| Worker thread (`main.c`) | a burst, `fwd[]` | dequeue, filter, decide, enqueue or drop | one lcore each |
| L2-L4 parser (`parser.c`) | none | `extract_headers()` | RX (hash), workers |
| Flow table (`parser.c`) | `rte_hash`, `states[]`, `call_count` | update, sweep, cache verdict | its worker only |
| Reassembly (`struct flow_state`) | `buf`, `filled`, `contig_len`, `hwm`, `first_seq` | place a segment | its worker only |
| L7 extraction (`parser.c`) | `scan_buf` | HTTP Host + URL, TLS SNI | its worker only |
| DPI engine (`dpi_engine.c`) | two databases with their rules, read-only after start; a scratch per worker | load, compile, scan, free | main, then workers |
| TX thread (`main.c`) | a burst | dequeue, send or free | TX lcore |
| Statistics (`stats.c`, `stats.h`) | one counter block per lcore | count, snapshot, decide to rebalance | every lcore writes its own, Stats reads all |
| main() (`main.c`) | options, lcores, port, rings, rules | set up or exit, launch, wait, release | main lcore |

Components interact through the worker rings (RX to workers), the one TX ring
(all workers to TX), the bucket table (Stats to RX and back), the counters, and
the flag `force_quit`, which a signal sets and every loop polls.

What is hard about it:

- **Order of segments.** The placement code must give the same buffer for every
  arrival order, with overlaps, duplicates, shifts to the right when an earlier
  segment arrives, and wrapping sequence numbers; the extractors run on every
  intermediate prefix, and their answer is cached for the life of the flow.
- **Reuse.** Slots of expired flows are handed out again; expiry is lazy.
- **Lock-free sharing.** RX and Stats read and write the bucket table with
  plain loads and stores, time stamps are snapshots that age, and the pause
  after which a bucket may move is shorter than the life of a flow's state.
- **Counters read while they are written.** A snapshot of the Stats thread is
  dozens of loads, a worker's load is three, and the lcores count in between.
- **State split by a move.** Each worker has its own flow table; a bucket that
  moves leaves its flows' state behind.
- **Bounded queues.** Every ring and the port can refuse part of a burst.
- **Shutdown and partial start-up.** A signal can arrive between two launches;
  a worker can fail to start while RX keeps feeding its ring; loading the rules
  can fail at any allocation, with one of two rule sets already compiled.

What makes each part correct: the buffer holds exactly the bytes of its own
flow at their places and the gap-free prefix is exact (reassembly); a verdict is
the verdict of the flow's own stream, in whatever order it came (flow table,
extraction); a bucket moves only when idle, and a flow changes worker only then
(steering); no packet is charged twice to a worker's load or lost from it, and
the decision to rebalance is right for the loads read (statistics); a scan says
DROP exactly when a DROP line matches, and loading is all or nothing (DPI
engine); threads start only on a complete program (main); every mbuf has one
owner, every packet RX or a worker lets go is counted, nothing is freed in use, and the program ends
when told to (pipeline).

## 2. Modules

| Module | Models |
|---|---|
| `FlowState` | `struct flow_state` and the placement block of `parser_flow_update()`, as pure operators |
| `L7Extract` | `try_extract_http()`, `try_extract_tls_sni()`, as pure operators |
| `FlowTable` | one worker's flow table: `parser_flow_update()`, the switch of `worker_thread_main()`, `parser_flow_cache_verdict()`, `flow_table_expire()` |
| `L7Stream` | one in-order stream, cell by cell, through an extractor |
| `Steering` | the bucket table between RX and Stats |
| `Pipeline` | RX, workers, TX, Stats and `main()` from launch to end, with their rings |
| `FlowSpec` | what a worker promises a flow, without buffers, slots or parsing |
| `FlowRefinement` | the mapping under which `FlowTable` implements `FlowSpec` |
| `Gateway` | one flow through bucket table, rings and the flow tables of all workers |
| `Stats` | the counters and the Stats thread, load by load |
| `DpiEngine` | `dpi_engine.c`: loading, compiling, scratch, scanning, freeing |
| `Startup` | `main()` before the launch and after the join, around `DpiEngine` |
| `L2L4` | `extract_headers()` as operators |
| `MCFlow`, `MCL7`, `MCSteering`, `MCPipeline`, `MCGateway`, `MCStats`, `MCStartup` | the packets, alphabets, flows and settings of the TLC runs |
| `Sums` | the sum of an array of counters, as the loops of `stats.c` add it up |
| `FlowTableProofs` | theorems about `FlowState`, `FlowTable` and `FlowRefinement` |
| `ParserProofs` | theorems about `L2L4`, `L7Extract` and `L7Stream` |
| `StartupProofs` | theorems about `DpiEngine` and `Startup` |
| `SteeringProofs`, `PipelineProofs`, `GatewayProofs`, `StatsProofs` | theorems about the module of that name |
| `SumProofs` | lemmas about sums of arrays |

`FlowTable` extends `FlowState` and `L7Extract`, `Startup` extends `DpiEngine`,
`Pipeline` and `Stats` extend `Sums`. `FlowTableProofs` extends `ParserProofs`:
that the order of arrival does not matter rests on what the extractors do.
`Gateway` composes `Steering`, `Pipeline` and `FlowTable` at a coarser grain: it
keeps of each what one flow can tell. Definitions whose comment says
"Deviation" are wrong variants of the definition they precede; nothing uses
them, they exist so that one can substitute them and see a property fail.

### FlowState and FlowTable

A state is the record of the C struct without `type` (a function of the key) and
`scan_buf` (only passes the string to the scan of the same call). `BufCap` stands
for `FLOW_BUF_CAP`; as in the code, its last cell is for the NUL, so `Window =
BufCap - 1` offsets can be written. Sequence numbers are numbers modulo
`2*HalfSpace`; `SeqDiff` is the cast to `int32_t`. `Place` is the whole block
under `if (payload_len > 0)`: `Anchor`, then a shift (`ShiftFits`, `ShiftRight`)
or none, then `WriteSegment`.

`HandlePacket` is one iteration of the worker's loop after the L2-L4 filter. It
advances `call_count` (modulo the interval, all the code looks at), sweeps when
it is due, and then is one of `KnownFlow`, `NewFlow` (any free slot, zeroed) or
`TableFull`; `Results` is the rest of the call and the worker's switch:
`CACHED`, `READY` with a scan and `CacheVerdict`, `NO_SNI`, `GIVE_UP`,
`PENDING`. Three things are external: `rte_hash` (a map from keys to slots; a
sweep that deletes while iterating may miss entries, but picks up what the sweep
before it has missed, as the comment on `flow_table_expire()` says), the
cycle counter (`Tick`), and Hyperscan (`ScanResults`: DROP when a cell of the
string is in `DropText`, and with `ScanMayFail` also the fail-open FORWARD). A
packet carries `data` and `pad`: `Payload` is what `extract_headers()` makes of
a frame, padding included.

`seen` is a history variable: the packets handled since the flow's entry was
made and before it had a verdict. `Message` is the set of requests and
ClientHellos that `OrderIndependent` speaks of, each with its flow and the sequence
number of its first byte; no action looks at it. `idle_calls` counts, for each
flow, the calls in a row that left its entry idle; from it follows which entries
a sweep has missed (`Missed`).

### FlowSpec and FlowRefinement

`FlowSpec` knows, for each flow, a set of pairs (stream position, byte), a
verdict, and the time of the last packet. A packet may add some of its bytes
where there were none; a verdict is given at most once, on a packet that brought
a byte, is the answer to every later packet, and carries the no-SNI mark to all of
them; a flow becomes `Blank` only if its pause exceeds the timeout; other flows
are not touched. The mapping takes the bytes from `buf`, `filled` and
`first_seq`, the verdict from `verdict_cached`, `no_sni_cached` and
`cached_action`; a key without a slot is `Blank`. A right shift maps to a
step that adds bytes (`buf` moves, positions do not), slot numbers disappear, and
the fields the code leaves stale after a verdict may not show.

### L7Extract and L7Stream

A prefix is a sequence of cells. For HTTP a cell is a token (method keyword,
space, `"\r\nHost:"`, `"\r\n"`, a NUL byte, other text); for TLS a cell is a
field: record header, handshake header with version and random, and each length
or type is one cell, a field of length *n* is *n* cells. So "not arrived yet"
can fall between any two fields and inside every variable-length one; a cut
inside a fixed-size field behaves like the cut before it, because `TLS_NEED`
asks for the whole field. Truncation by `snprintf()` is `ScanBuf`.

### Steering

One action per load or store that the other thread can see: RX stamps a bucket
(`RxStamp`) and reads its worker (`RxLoad`), in either order, because on x86 a
store may wait in the store buffer while a later load of another word executes;
Stats passes a bucket over (`ScanSkip`), finds it idle (`ScanLoad`) and moves it
(`ScanStore`). `rx.tsc` and `st.tsc` are the snapshots `now_tsc` of the two
threads; all packets of a burst carry the stamp taken when it began
(`main.c:73`), and time may pass within a burst. `BurstTime` is how long RX takes
over a burst when nothing holds it up; no action looks at it. A tick may rebalance
between any two workers: the counters behind that choice are in `Stats`. History:
`rx.began` and `sent` (of the last packet of each bucket: where it went, when, and
when its burst began) and `raced` (that packet was steered while Stats was between
the bucket's idle check and its move, or its stamp was not stored yet when Stats
checked).

`HandoverExplained` measures the pause from the moment the last packet was
steered (`sent.at`), not from its stamp. It has three cases, and TLC finds a
counterexample to the property without any one of them: the bucket really had a
pause, of the threshold less the age a stamp may have; the last packet raced with
the move; or RX was held up within the burst of the last packet, which was then
sent with a stamp too old to protect its bucket.

### Pipeline

One action per ring or port operation, per packet of a burst and per loop test of
`force_quit`: RX polls (`RxPoll`), puts the packets one by one into the shares
`dest[][]` and counts the burst (`RxSpread`), and offers each share to its ring
(`RxEnqueue`). Local arrays hold what is still to be done; `nb_rx` and `sent` are
the local variables of that name while they are not yet in a counter. A
worker's packet is dropped or forwarded as the environment likes: which of the
two is the business of `FlowTable`. Bursts on the rings are atomic, which is
what `rte_ring` promises; the port takes any part of a burst. `Release` frees
port, rings and rules in the order of `main()`. Counters are split by the lcore
that writes them (`rx_dropped` is RX's part of `dropped_packets`).

### Gateway

The flow's request is a set of `Part`s; the table of each worker remembers which
it has got and decides DROP when it has all (that the order does not matter is
shown by `flow`). `Receive` stamps the bucket with the time of the packet's burst,
up to `BurstTime` ago (`Stamp`), and enqueues to the ring of its worker or loses
the packet; `Handle` is a worker's handling with the table entry,
which may be swept in the same call; `CheckIdle` and `Move` are the two halves of
a rebalance pass; `ReceiveOther` is traffic of other flows in the bucket, which
keeps it from being idle. Ages replace the clock, so that the liveness property
is about runs without end. Assumed: RX is not held up within a burst for longer
than `BurstTime` (`Steering` shows what happens if it is), no time passes while a packet waits in a
ring (microseconds against 200 ms), tables have room, scans do not fail; the
last three are covered by `Pipeline` and `FlowTable`.

### Stats

Every load of a counter is an action; RX and the workers count in between.
`Aggregate` is a load of `aggregate()`, `LoadWorker` one of the three of
`worker_processed()`, `Sample` the rest of that loop's iteration, `Decide` the
end of the tick. The local variables are in four records: `th` (where the thread
is, what it decided), `agg` (`cur` and `prev` of `aggregate()`), `proc` (the
half-read load and `worker_prev[]`), `bal` (the loads of this tick with their sum,
maximum and minimum). The first pass fills `prev` and `worker_prev[]` and decides
nothing. Rates are compared without division: both sides are multiplied by
the elapsed time and the number of workers. Of the counters that only enter the
sums, `rx` and `no_sni` stand for all.

### DpiEngine and Startup

`heap` is the set of what is allocated, by owner and name. Loading is one action
per call that can fail: `Open`, `ReadLine` (which grows `lines[]` before it knows
whether the line is a rule), `CompileAlloc` (any subset of the four arrays),
`HsCompile`, then the clean-up code `CompileFree`, `Undo` and `Out` as written.
A scan is a sequence of callbacks `OnMatch` in any order and any number. A line
is a comment or a record of its fields, any of which may be missing or unknown; a
pattern is the set of texts it matches.
`AllocScratch` is two steps, a call of `hs_alloc_scratch()` for each database there
is, and each may fail on its own. Hyperscan is external; of `hs_alloc_scratch()` it
is assumed that it frees the scratch it was given when it fails: the worker does
not free it.

`Startup` is `main()` step by step with each `rte_exit()`; `Setting` holds the
command line, the enabled lcores and the number of ports. `Assign` is an
iteration of the loop over the lcores, and -1 stands for what an entry of
`lcores[]` holds that was never assigned. Rings are known by name. Between launch and join there is one worker that scans: the
threads are in `Pipeline`.

### L2L4

A frame is a record of its length and of what its bytes say at the place of each
header field. `Accepted` is the chain of tests in the order of the code,
arithmetic at the widths of the variables (`uint8_t`, `uint16_t`). There is
nothing for TLC to explore here: the module is for the theorems of `ParserProofs`.

## 3. Runs

All bounds are constants of the cfg files. Deadlock is checked everywhere but in
`l7`, whose streams end at `MaxLen`.

| Run | Result | States | What it shows |
|---|---|---|---|
| `flow` | pass | 12 k | four flows competing for one slot, with segments that overlap, precede, repeat and miss the window, across the wrap of the sequence numbers, in every order: `ContigExact`, `OnlyOwnBytes`, `NothingLost`, `FirstWins`. Pieces of one request or ClientHello leave the verdict of the whole, in every order of every cut, and leave one once they cover it (`OrderIndependent`); pieces of overlapping ClientHellos never leave another verdict than that of the buffer (`VerdictMatchesStream`); `FlowSpec` is implemented |
| `flow_table` | pass | 17 k | three flows, two slots, expiry, reuse, full table, failing scans: no bytes or verdicts cross flows; `FlowSpec` is implemented with time; an entry that is idle is gone before two sweep intervals of packets have passed (`IdleGoneSoon`) |
| `flow_padded` | **violation** | | a padded pure ACK disturbs the reassembly |
| `l7` | pass | 3.4 M | over all streams up to 8 tokens, or 12 fields: a decision never changes when more arrives; "no server name" is said exactly of complete, consistent ClientHellos without one (`NotPresentExact`) |
| `steering` | pass | 3.0 M | all interleavings of RX and Stats, with time passing anywhere: `HandoverExplained` |
| `steering_active` | **violation** | | a bucket in use is moved (check, then store) |
| `steering_affinity` | **violation** | | a flow that pauses loses its worker without a race |
| `pipeline` | pass | 1.1 M | ownership, accounting, order, release |
| `pipeline_live` | pass | 0.1 M | shutdown and delivery |
| `gateway` | pass | 73 k | what the moves do to a flow: `DropSticks` says when a drop may be forgotten, `SteadyFlowCaught` that a flow which stays active is dropped for good in the end |
| `stats` | pass | 0.4 M | snapshots against counting: `SnapshotFresh`, `LoadAttributed`, `DecisionExact` |
| `startup` | pass | 46 k | all rule files of up to three lines, a failure at any call, command lines and lcore sets at their limits: `AllOrNothing`, `ScanExact`, `LaunchSound`, `NothingLeft` |

Why the bounds suffice. The placement code has three regions (before, inside and
beyond the window) and two edges; windows of 7 to 15 cells with segments of 1 to
9 cells that start before, at and behind each other reach all of them, and the
sequence space (32) is at least twice the window, as 2^32 is of 4096. The proofs
below lift the core of this to every size. Two slots and three flows are the
smallest table that is full, evicts and reuses. In `steering` two buckets suffice
for a pass that reaches its cap before the end, and a clock that
starts three ticks after zero and runs for three more, with a threshold of two and
a burst time of one, for stamps older than, equal to and newer than a snapshot, on
both sides of the threshold, and for bursts that end in time and that do not. In `pipeline` rings of two and bursts of two and three packets give
full, partly full and empty rings with packets of two flows in every place;
`pipeline_live` uses rings of one and two packets. In `gateway` a request of two
parts on two workers is the least that a move can split, and a timeout of three
against a threshold of two and a burst time of one separates "may look idle", "may
be moved" and "is forgotten". In
`stats` two workers and three packets give every order of loads and counts,
ties, a move and no move; `worker_prev[]` lets ticks follow one another without
bound. In `startup`, `lines[]` starts with one entry, so that three lines grow it
twice, and three lines hold rules of both types and actions around a line
that is skipped; `-w` is taken at -1, 0, 1, the limits and beyond, with lcore
sets one too small, just enough and too many, and a main lcore that is not the
first.

Fairness. Expiry is driven by traffic and by nothing else, so `IdleGoneSoon` counts
packets and needs neither fairness nor a clock. `pipeline_live` assumes weak fairness of each thread: each has an lcore of its own and every loop
polls without blocking. No fairness is assumed of the signal or of arrivals, and
the port may refuse packets for ever. `gateway` assumes that workers poll their
rings and that a rebalance pass which has begun goes on; that all parts of the
request keep arriving (retransmission, or a replayed capture), and that the flow
does not pause for longer than the threshold less `BurstTime`, are the hypotheses of
`SteadyFlowCaught` itself.

### Where code and text disagree

- `README.md:156`: "A bucket a live flow is actively using is never moved".
  `parser_bucket_rebalance()` reads the stamp and stores the new worker in two
  steps; RX can use the bucket in between (`steering_active`). A second way to the
  same end is a burst that RX is held up in: its packets are stamped with the time
  the burst was taken, so the bucket of a packet sent this very moment may look idle
  (the third case of `HandoverExplained`). There is no other.
- `include/parser.h:12`: packets of one flow "always land on the worker that owns
  that flow's reassembly state". Buckets may move after 200 ms, state lives 1.5 s
  (`steering_affinity`). `src/stats.c:19` notes the difference as a trade-off.
- `src/parser.c:550-552`: packets without payload "must neither anchor first_seq
  nor perturb reassembly state". `extract_headers()` takes the padding of a short
  frame for payload (`flow_padded`).

Smaller ones, for which there is no run:

- `src/parser.c:329-331`: NOT_PRESENT means "every ext_len consumed exactly up to
  ext_end". The loop stops with up to three bytes left, too few for an
  extension; `NotPresentExact` states what holds.
- `include/stats.h:25` and the printed text call `tls_ech_or_no_sni_packets` a
  subset of `https_packets`. `aggregate()` reads the second before the first, so
  one snapshot may show more of the first.
- `include/parser.h:99-101` and `include/stats.h:27` count traffic on port 443 that
  is no ClientHello among the packets without SNI. The extractor answers PENDING for it.
- A blank line of the rule file is reported as malformed: `trim()` leaves the
  newline of a line that has nothing else. It is skipped all the same.

## 4. Proofs

All theorems hold for every value of the constants that satisfies the named
assumptions of the modules. These are types and what the code fixes:
`SizeAssumption` (at least two cells, a window no larger than half the sequence
space), `ByteAssumption` (a byte is a number, NUL is a byte),
`TableAssumption`, `MessageAssumption`, `SteeringAssumption`
and `GatewayAssumption` (at least one slot, bucket, worker and part; a clock that
does not wrap; a threshold below the timeout and no shorter than the time of a burst), `PipelineAssumption` (at least one
worker, rings and bursts of at least one packet, a steering function),
`StatsAssumption` (no more packets than a 64-bit counter counts),
`StreamAssumption` and `ScanCapAssumption` (types), and those of `DpiEngine` and
`Startup` (settings with finitely many lcores of which the main one is one). TLC evaluates
each of them in the runs. Every inductive invariant below was also checked by TLC
on the bounds of the component's run before it was proved.

**Placement** (`FlowTableProofs`): `PlaceExact`, `PlaceLearns`, `PlaceComplete`.
For any well-formed state and any segment, `Place` leaves `contig_len` exact and
keeps every byte at its sequence number; it adds bytes of the segment only, each
at its own sequence number, and re-anchors the flow only at the segment's start;
and a segment that fits the window, with what a shift has to move, is placed
whole. The lemmas follow the code: `FillCells` keeps what is filled,
`ShiftRight` keeps bytes because shifting by *d* and lowering `first_seq` by *d*
cancel modulo the sequence space (`SeqSubShift`), `AdvanceContig` stops at the
first gap (`GapFromStops`).

**Flow table** (`FlowTableProofs`): `TypeOK`, `ContigExact`, `OnlyOwnBytes`,
`NothingLost`, `VerdictMatchesStream`, `OrderIndependent`, `IdleGoneSoon`, the action property
`FirstWins`, and `FlowImplements`: the table implements `FlowSpec`; all of them for
any set of packets and any table size. The first invariant is
`TableInv`: types, injectivity of the hash, and that every slot, live or not, is
well formed (`SlotOK`: filled only below `hwm`, `contig_len` exact while there is
no verdict). The NUL of `try_extract_http()` is harmless just because
`contig_len` is exact. What ties an entry to its history is `HistInv`: for the
packets `seen` since the entry was made, `Placed` says that the anchor is the
start of one of them, that every byte is one they carried, and that none is
missing if they fit one window; `VerdictOK` says that an undecided flow is one
whose prefix the extractor cannot decide yet, without which the verdict given by
a later packet could not be known to be that of the whole prefix. For the
refinement each of `KnownFlow`, `NewFlow`, `TableFull` and `Tick` is mapped:
other flows are unaffected or forgotten after their timeout (`Unaffected`), and
the packet's own flow takes the step of `FlowSpec` that its result stands for.
`IdleGoneSoon` is not inductive; `IdleInv` is: an entry has been idle for at most
`call_count` calls since the last sweep and one interval before it, for what was
idle at a sweep is deleted, or is missed for the first time.

`OrderIndependent` follows from `HistInv` and from what is proved of the extractors.
Let a flow have brought only pieces of one message. By `Own` and `Anchored` its
gap-free prefix is a part of the message that begins where `first_seq` is
(`PrefixOfMessage`; the offsets add up without wrapping because two windows fit the
sequence space). If the flow has a verdict, the extractor decided that part; had it
begun inside of the message, a tail of the message would be decided too
(`ExtractionFinal`), so it is a beginning of the message, and its answer is that of
the whole. If the pieces cover the message, then by `Complete` nothing is missing,
the prefix is the whole message, and by `VerdictOK` the flow cannot be undecided. The
two hypotheses in `Telling` are needed: a message longer than the window is never
whole in the buffer, and one that has a tail which reads like a message of its
own (a request that quotes another in its body) gets the verdict of the tail if the
tail comes first.

**Extraction** (`ParserProofs`): `ExtractionFinal`, `DecisionFinal` and
`NotPresentExact`, for every stream, alphabet and capacity of `scan_buf`. For HTTP
each search finds the same position in the longer stream once it has found one
(`FirstInSame`, `SkipSpacesSame`, `CStringExtends`: the C string grows with the
stream until its NUL has come). For TLS the offsets of the extensions do not depend
on what follows (`ExtsIs`), and the loop over the extensions is a recursive
function on offsets: `WalkIs` unfolds it by one extension, `WalkSame` compares two
streams and `WalkNameless` finds the cut into extensions that "not present" stands
for, both from the last offset downwards (`Downwards`).

**Steering** (`SteeringProofs`): `TypeOK` and `HandoverExplained`, for any times,
burst time included. `HandoverExplained` speaks of two packets of a bucket and of
whatever Stats did between them, so it is not inductive. The invariant `IInv`
adds: a burst's stamp is the time it began, and no snapshot is in the future
(`Clocks`); a bucket about to be stored belongs to the overloaded worker, and its
last packet's burst began longer ago than the threshold or the packet raced
(`StoreReady`); the stamp of the last packet is in the array unless RX still owes it
(`StampStored`, `StampBeforeLoad`); and of a bucket whose worker differs from the
one its last packet went to, that packet's burst began longer ago than the
threshold or the packet raced (`MovedAfterPause`). The property then splits the
time since the burst began into the part before the packet was sent and the part
after. One lemma per action.

**Pipeline** (`PipelineProofs`): `TypeOK`, `OneOwner`, `Accounting`, `FlowOrder`
and `NoUseAfterFree`, for any number of workers, ring and burst sizes, set of
flows and stable steering. The invariant `PipelineInv` has four parts besides
`TypeOK` and `Accounting`. `Phases` says which threads `main()` has launched and
that it releases only after all have returned. `Locals` says which local array
may hold packets at which point of a loop; without it a poll or a dequeue could
overwrite packets in the array. `Ways` orders the places of an mbuf from RX to
the port (`rank`), says which flows come by a place (`site`: only those of its
worker) and that of two packets of one flow the one further on its way came
first (`InOrder`), which gives `FlowOrder`; and that what arrived is exactly what
is held or freed, nothing in both (`Apart`, `Exactly`), which gives `OneOwner`.
All moves of packets are instances of five lemmas (`WaysArrive`, `WaysNext`,
`WaysTake`, `WaysSplit`, `WaysFreeOne`): arrival, one packet to the next place, a
burst to the next place, a part of a burst with the rest freed, one packet freed.
The freed sets are finite, so that they can be counted for `Accounting`.

**Gateway** (`GatewayProofs`): `TypeOK` and the action property `DropSticks`. The
invariant `GatewayInv` says where the state of a flow is: as long as the flow is
not excused by a pause or the race, all its packets and its entry are with the
worker of its bucket, the entry is younger than the threshold and has the verdict
(`Home`); `Fresh`, `Idleness` and `Paused` tie the three ages together (a bucket
found idle means a flow that has been quiet for as long, less the time of a burst).

**Statistics** (`StatsProofs`): `SnapshotFresh`, `LoadAttributed` and
`DecisionExact`, for any number of workers and any counting between two loads.
None is inductive: each speaks of the end of a loop. `StatsInv` states what is
known in the middle. `Snap`: a half-finished sum is no more than the part read is
now, and with the part still to be read no less than the whole was at the start.
`Charge`: the same for the three loads of a worker's counters. `Balance`: sum,
maximum and minimum of the workers seen so far (`Ranked`). `Cells`: only its own
lcore writes a counter, and none wraps.

**Rules, start and end** (`StartupProofs`): `AllOrNothing`, `ScanExact`, `LaunchSound`
and `NothingLeft`, for any rule file, text, command line and set of lcores, with a
failure of any call. The invariant `Inv` says what the heap holds at each point:
`LoadInv` follows the loader (`lines[]` holds exactly the rules among the lines read;
a type not compiled yet owns nothing, a compiled one a database and an array made
of just its rules in the file, `DbExact`; of the arrays of the type in hand those
that were got), `HeapInv` says that file and `lines[]` are given back when
the load is over and at which point between the two calls of `hs_alloc_scratch()`
the worker has a scratch. `ScanInv` says that a scan still running has
reported no DROP rule, without which a scan that ends could not be known to have
answered for all. `MainInv` and `PlacesInv` follow `main()`: the number of workers is
in range from the options on, `lcores[]` holds different enabled lcores and is full
when the loop ends because enough were counted before, and the rings made so far are
the first ones in the order of the loop. That `compile_db()` picks the lines of a type
(`Rules`, a recursive function) is unfolded by `PickedExists` and its companions.

**Headers** (`ParserProofs`): `AcceptedExact` reduces the chain of tests to one condition on
the frame, `PayloadInside` says that payload offset and length stay inside of it.
Both rest on `Offsets`: none of the 8- and 16-bit variables wraps.

Induction over data is done by hand, for the sums over workers in `Accounting` and
`Stats`, the walk over the extensions and the rules of a type: `SumProofs` derives
from the well-foundedness of the naturals that every set of numbers has a least
element (`LeastNat`), from it that a set with 0 and all successors up to *n* has them
all (`UpTo`), and the proofs apply that to the set of indices for which a fact holds.

Every invariant, action property and refinement that a passing run checks is proved.
Only model-checked: the liveness properties `ShutdownCompletes`,
`EveryPacketResolved` and `SteadyFlowCaught`, because the prover handles neither
fairness nor ENABLED. The three violations are counterexamples TLC finds.

## 5. Not modelled

The EAL's own initialisation and the size of the mbuf pool; how a rule line is
split at its commas and how long it may be; the printed statistics and
`parser_bucket_get_distribution()`, which only prints;
`parser_flow_classify_fallback()`, a stub that nothing calls; the Python
generators and benchmark scripts; fragmented IP and ClientHellos in several TLS
records, which the code excludes too. Loads and stores of one counter or bucket
are atomic, as on x86-64; that the compiler reloads `force_quit` in each loop
follows from `volatile`.

## 6. Order of work, and what is left

The modules were written from the inside out: reassembly and flow table, extraction,
steering, pipeline, then the composition `Gateway`, statistics, rules and start-up;
the proofs followed in the same order. What is left is liveness, which stays with TLC,
and two things a next version could add: ClientHellos that span TLS records, should the
code come to handle them, and a step-by-step refinement of `Gateway` by `Steering`
and `FlowTable` in place of the composition by hand.
