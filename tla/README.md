# TLA+ models of jmsadair/raft

This directory holds TLA+ models of the Raft library in `src/`, the TLC
configurations that model-check them, and TLAPS proofs about them.
`PROJECT.json` lists the components, runs, mutants, findings, hazards and
theorems. Its `map` names, for every definition that models code, the source
lines it translates.

## The system

`src/` holds several revisions of one Raft library. These are the parts, and
how they interact:

- **The Raft node**, `src/unnamed/part_003`, lines 1-1444 (the first revision
  of `raft.go`). One mutex guards the node. Its activity comes from:
  - the RPC handlers `RequestVote`, `AppendEntries` and `InstallSnapshot`;
  - the worker loops `electionLoop`, `heartbeatLoop`, `commitLoop`,
    `applyLoop` and `readOnlyLoop`;
  - one goroutine per outgoing RPC (`sendRequestVote`, `sendAppendEntries`).

  Every handler, and every loop iteration, runs with the mutex held.
  An outgoing RPC takes the mutex to build the request, releases it around the
  network call, and takes it again to handle the answer.
- **The log store**, `src/unnamed/part_001`. It is a file of entries with an
  in-memory copy, and a first sentinel entry that records the snapshot
  boundary. The node calls `GetEntry`, `AppendEntries`, `Truncate`, `Compact`,
  `LastIndex` and `LastTerm`.
- **The state store**, `src/unnamed/part_000` and `src/state_storage.go`.
  It persists the term and the vote.
- **The snapshot store**, in two files. The node builds its store with
  part_002's `NewSnapshotStorage` (part_003 line 1683). `src/pkg/snapshot_storage.go`
  is a later library version of the same store; nothing under `src/` calls it.
- **The second revision of the node**, `part_003` lines 1445-2982. It adds a
  transport, peer addresses and chunked snapshots, and keeps the same election
  and replication handlers.
- **An older prototype**, `part_004`, with one loop per role.

## Modules

| module | models |
|---|---|
| `GoRaft.tla` | A cluster of first-revision nodes, with a transport that may lose or reorder any message |
| `MCGoRaft.tla` | The TLC instance: model-value servers, one client value, symmetry |
| `GoRaftProofs.tla` | TLAPS proofs about `GoRaft` |
| `VoteLedger.tla` | The abstract promise of each node's persistent term and vote: terms only grow, a vote once cast stays for the term, one node at a time |
| `GoRaftVoteProofs.tla` | TLAPS proofs about the votes of `GoRaft`, and of its refinement of `VoteLedger` |
| `Framing.tla` | `src/pkg/encoding.go`: the length-prefixed protobuf records and what the decoders return on short or torn input |
| `MCFraming.tla` | A stream of log entries encoded and decoded back |
| `SnapshotStore.tla` | `src/pkg/snapshot_storage.go` on a disk that may crash |
| `MCSnapshotStore.tla` | Two snapshots, one with data |
| `StateStore.tla` | `src/state_storage.go`: `SetState` cut at every system call, with a crash or an I/O error between any two |
| `MCStateStore.tla` | Two terms and two votes, with Framing's codec |
| `StateFile.tla` | The abstract promise of `state.bin`: a log of whole versions, each rename publishing the pair written last, a crash keeping exactly one, Replay recovering the newest |
| `StateStoreProofs.tla` | TLAPS proofs about `StateStore`, and of its refinement of `StateFile` |
| `RaftTiming.tla` | `src/options.go` as `NewRaft` applies it, and the heartbeat and election loops it configures |
| `MCRaftTiming.tla` | Option values below, inside and above every bound |
| `RaftTimingProofs.tla` | TLAPS proof of the timing property for every accepted configuration |

### How GoRaft corresponds to the code

**State.** The variables are the node's fields:
- `state`, `currentTerm`, `votedFor`;
- `commitIndex`, `lastApplied`;
- `nextIndex` and `matchIndex` (per peer);
- `lastIncludedIndex` and `lastIncludedTerm`.

The log is `logBase`, the sentinel entry with its index and term, followed
by `log`, the entries after the sentinel. `LastIndex`, `LastTerm`, `EntryAt`
and `TermAt` are the log-store calls the node makes. A candidate is a
follower, as in the code (`becomeCandidate` only bumps the term and votes).

Four variables have no field of their own in the code:
- `votes[i][t]` is the counter that the vote goroutines of i's election at
  term t share (the `votes` pointer in `sendRequestVote`).
- `voteTasks` are the vote goroutines spawned but not yet run.
- `msgs` are the requests and responses the transport holds.
- `applied` is a history variable: what each state machine was handed.

**Actions.** Each handler, and each loop iteration, is one action:

| action | code |
|---|---|
| `Election` | `election` with `becomeCandidate` |
| `SelfVote` | the self branch of `sendRequestVote` |
| `SendRequestVote` | the request half of the peer branch of `sendRequestVote` |
| `HandleRequestVote` | `RequestVote` |
| `HandleRequestVoteResponse` | the answer half of the peer branch of `sendRequestVote` |
| `SendAppendEntries` | `sendAppendEntries` up to the call |
| `HandleAppendEntries` | `AppendEntries`, with `RejectsPrev`, `ConflictIndex` and `MergedLog` |
| `HandleAppendEntriesResponse` | `sendAppendEntries` after the call |
| `AdvanceCommitIndex` | one iteration of `commitLoop` |
| `ApplyEntry` | one step of `applyLoop`'s inner loop |
| `SubmitOperation` | `submitReplicatedOperation` |
| `DropMessage` | a failed transport call |

`becomeLeader` and `becomeFollower` are the helpers `BecomeLeader` and
`StepDown`, used inside these actions.

A goroutine of `sendAppendEntries` reads everything it uses when it runs.
So a goroutine spawned earlier by `becomeLeader` or `heartbeatLoop` behaves
like a fresh send, and `SendAppendEntries` is enabled whenever the node leads.

A vote goroutine is different. It is bound to its election's counter when it
is spawned, but it reads `currentTerm` only when it runs. That is why the
vote goroutines are state of their own.

**Data abstraction.**
- An entry is reduced to its term, its type (NoOp or operation) and a value
  from the small set `Values`.
- Leader ids, addresses, logging, response futures and the encodings are left
  out.


### Framing: `encoding.go`

Bytes are naturals below 256, and a file is a sequence of them. Every record
is written as `Int32BE(len)` followed by its protobuf encoding.

- The protobuf wire format is the real one:
  - varint and length-delimited fields;
  - zero values omitted;
  - unknown fields skipped;
  - the last occurrence of a field wins.
- The message definitions live in `internal/protobuf`, which is not under
  `src/`. Their fields are numbered in the order `encoding.go` fills them.
- `ReadFrame` and `Decoded` are one `Decode` call. Their outcomes are
  those of the Go library:
  - no byte: `io.EOF`;
  - one to three bytes: `ErrUnexpectedEOF` from `binary.Read`;
  - a negative size: the panic of `make`;
  - a header with nothing after it: `io.EOF` from `io.ReadFull`;
  - a short body: `ErrUnexpectedEOF`;
  - otherwise the result of `proto.Unmarshal`.

`Framing` declares `RECURSIVE` operators, so only TLC uses it.

### SnapshotStore: `snapshot_storage.go`

**State.**
- `file` is the snapshot file as the process sees it, and its first
  `durable` bytes are on disk.
- `isOpen` is `p.file != nil`, and `snapshots` is `p.snapshots`.
- `attempts` is a history variable: every `SaveSnapshot` call, and whether
  it returned nil.

**Actions.**

| action | code |
|---|---|
| `Open` | `Open`: `ReadAll` is its decode loop; `p.file` is set before the loop, so a failed loop leaves the store open |
| `Close` | `Close` |
| `SaveSnapshotWrite` | `SaveSnapshot` through `writer.Flush()` |
| `SaveSnapshotSync` | `p.file.Sync()`, with its error dropped, then the append and the nil return |
| `Crash` | the process or the machine dies: the durable bytes survive, with any prefix of the rest |

`LastSnapshot` and `ListSnapshots` read `p.snapshots`. The node holds its
mutex across `SaveSnapshot`, so only a crash can come between its two steps.
Store errors are fatal to the node (`Fatalf` at part_003 lines 752 and 1053),
and `NewRaft` aborts when `Open` fails. So after a failed `Open` the model
makes no further calls until a crash.

### StateStore: `state_storage.go`

**State.**
- The disk holds each file as its bytes plus the number of them that are
  synced.
- `dirLog` lists the files that `state.bin` has named since the file system
  last committed its metadata. Nothing fsyncs the directory, so a crash may
  undo any suffix of those renames. `DirCommit` is the kernel's own commit.
- `handle` is `p.file`: nil, open, or closed (`Close` closes the file but
  does not nil it).
- `state` is `p.state`.
- `pc` is how far a `SetState` call has got.

**Actions.** `SetState` becomes `SetStateWrite` (create the temp file,
assign `p.state`, write), `SetStateSync`, `SetStateClose` (both files),
`SetStateRename` and `SetStateReopen` (open and seek). `SetStateFails` is an
I/O error at whichever step is next. `Open`, `Close`, `Replay` and
`StateResult` (`State()`) are the other methods. `Crash` keeps one file of
`dirLog`, with its synced bytes and any prefix of the rest.

**The codec.** `StateStore` does not extend `Framing`. It takes
`EncodeState(_)` and `DecodeState(_)` (`encodePersistentState` and one
`decodePersistentState` call) as constant operators. `CodecAssumption`
states what the store relies on: the empty file decodes as io.EOF, and the
frame of every pair is a string of bytes that decodes to that pair.
`MCStateStore` supplies Framing's definitions. Every StateStore run
therefore evaluates `CodecAssumption` over the pairs of its instance, so the
assumption is checked against the model of `encoding.go`, not taken on
trust. `MCStateStore` also keeps a table of the decodings of every prefix of
every frame. TLC evaluates the recursive decoder from scratch under a prime,
which made the refinement run slow, and the table changes no value.

**Refinement.** `StateStore` defines the instance `File` of `StateFile`:
- `versions <- Versions`: the files of `dirLog`, each read as `Replay`
  would decode it (`FileState`);
- `history <- Written`: the pairs of the `SetState` calls;
- `recovered <- Recovered`: the pair of the last successful `Replay`, while
  it stands.

Each rename is a `Publish` of the last pair written, and `DirCommit` is a
`Commit`. `Crash` is a `Crash` that keeps one version whole. `Replay` is a
`Recover` of the newest version, and `Open` and `Close` are a `Forget`.
The other steps leave the abstract state alone.

### RaftTiming: `options.go` and the loops

**Options.**
- `OptionAccepted` is the check each `With...` option makes.
- `NewRaftOptions` is `NewRaft`'s option loop (part_003 lines 243-263),
  with its defaults. A check that fails aborts the loop. An accepted option
  sets only its own field, and always to a non-zero value. So the loop is
  the closed form "fail if any option fails, else each field holds the last
  value given for its kind, or its default".
- `maxEntriesPerRPC` gets no default in this revision, and nothing reads
  it.

**Loops.**
- `Heartbeat` is one iteration of `heartbeatLoop`. Its AppendEntries
  arrives within `MaxDelay`.
- `HandleAppendEntries` sets `lastContact`.
- `ElectionTimeout` is `electionLoop` waking after a random sleep in
  `[T, 2T)` (spec §5) and calling `election()`.
- `AdvanceClock` moves the clock to the next wake-up or arrival.

Sleeps and delays are drawn from a grid of `Tick` ms.

## Runs

| run | cfg | checks | result |
|---|---|---|---|
| core | `MCGoRaft_core.cfg` | `TypeOK`, `VoteCountBounded`, `NextIndexPositive`, `VoteLedgerRefined` | pass: 557,065 distinct states, all twelve actions fire |
| election | `MCGoRaft_election.cfg` | `ElectionSafety` | violation in 11 states |
| divergence | `MCGoRaft_divergence.cfg` | `AppliedAgree` (two payloads) | violation at depth 24, about 480,000 distinct states, 11 s |
| snapshot_core | `MCSnapshotStore_core.cfg` | `TypeOK`, `SavedRecovered` | pass: 5,628 distinct states |
| snapshot_sync | `MCSnapshotStore_sync.cfg` | `SavedRecovered` (Sync may fail) | violation |
| snapshot_torn | `MCSnapshotStore_torn.cfg` | `OpenFailsOnlyOnTornTail` | violation |
| state_core | `MCStateStore_core.cfg` | `AckedIsLive` | pass: 10,791 distinct states |
| state_refine | `MCStateStore_refine.cfg` | `StateFileRefined` | pass: 10,791 distinct states |
| state_rename | `MCStateStore_rename.cfg` | `AckedDurable` | violation |
| codec | `MCFraming.cfg` | `EntriesRoundTrip` | pass: 585 distinct states |
| timing_live | `MCRaftTiming_live.cfg` | `TimelyHeartbeatsPreventElection` | pass: 26,299 distinct states |
| timing_options | `MCRaftTiming_options.cfg` | `NoElectionUnderLiveLeader` | violation |

What each property says:
- `VoteCountBounded`: a vote goroutine counts once, so no counter exceeds the
  cluster size.
- `NextIndexPositive`: a leader never uses a nextIndex of 0. The code's
  `nextIndex - 1` is a uint64 subtraction.
- `VoteLedgerRefined`: GoRaft implements the abstract `VoteLedger`. `GoRaft`
  defines the instance `Ledger` with `term <- currentTerm` and
  `vote <- votedFor`, and the property is `Ledger!Spec`. Every step moves one
  node to a higher term, casts that node's first vote of its term, or leaves
  every term and vote alone. Its mutant `IsOtherTerm` lets a request of a
  lower term reset the node. That lowers a term, which the ledger refuses.
  The ledger also implies that a vote cast in a term never changes in
  that term, so that is not checked separately.
- `AppliedAgree` (state machine safety): no two nodes apply different
  operations at the same index. It is checked only in the divergence run,
  where it fails (see the finding below).

- `SavedRecovered`: once `Open` has returned nil, the store lists every
  snapshot whose save returned nil, in order. Apart from those, it lists only
  snapshots whose save a crash cut short after the frame was written. This
  is what `TestSnapshotStore` asserts across Close and Open, here across
  crashes.
- `AckedIsLive`: an action property. When a `SetState` call returns nil,
  `state.bin` names the file that holds that call's pair. Its mutant lets
  the reopen, and the nil return, come before the rename.
- `StateFileRefined`: `StateStore` implements `StateFile`. Its mutant
  encodes `p.state` before the new pair is assigned to it. Then the rename
  publishes the previous pair, which was written too, so only the
  refinement tells the two apart. The refinement also says that `Replay`
  never meets a torn record and recovers a whole pair some call wrote.
- `EntriesRoundTrip`: decoding the stream gives back exactly the entries
  written. The entries include fields with more than one varint byte, empty
  data and zero fields.
- `TimelyHeartbeatsPreventElection`: when `heartbeatInterval + MaxDelay <
  electionTimeout`, a follower of a live leader never becomes a candidate.

Every property of a passing run has a mutant in `PROJECT.json`. A mutant is a
plausible bug in the mapped code, and TLC finds the property violated under
it. Examples: dropping the removal of a finished vote goroutine, nextIndex
starting at the last index, a NoOp handed to the state machine, and the
reopen of `state.bin` coming before the rename.

### Finding: two leaders in one term

The `election` run shows a code bug. The self branch of `sendRequestVote`
(part_003 line 985) counts into the counter of the election that spawned it.
It calls `becomeLeader` on a quorum without checking that the node is still
in that election's term.

TLC's trace, with two servers:
1. s1 starts term 1. s2 grants, and the grant is counted.
2. s2 starts term 2. s1 steps down to term 2 and votes for s2.
3. s1's late self-vote raises the term-1 counter to a quorum, and s1 becomes
   leader of term 2, a term in which it voted for s2.
4. s2 wins term 2 with s1's vote.

Random simulation with three servers went further. From the same bug, it
reached states that violate:
- log matching between the two leaders;
- leader append-only: a co-leader truncates its own log on the other leader's
  AppendEntries;
- the stability of committed entries.

These three are not runs: the exhaustive three-server space is far beyond
five minutes of TLC. With two servers and two payloads the damage already
shows in what the state machines apply; that is the next finding.

### Finding: the two leaders apply different operations

The `divergence` run checks `AppliedAgree` with `Values = {v1, v2}`. TLC
finds a trace of 24 states in 11 seconds:
1. The election bug above makes s1 and s2 both leaders of term 2.
2. Each appends its NoOp at index 1, and then s1 submits v1 and s2 submits
   v2, both at index 2 with term 2.
3. s1 sends s2 an AppendEntries with its index-2 entry. The follower side
   (part_003 line 673) compares terms only. It finds no conflict at index 2,
   keeps its own v2 entry and answers success.
4. s1 counts s2's match and commits index 2. Its next AppendEntries carries
   leaderCommit 2, and s2 sets its commitIndex to Min(2, lastIndex) = 2
   (line 691), over its own entry.
5. s1 applies v1 at index 2, and s2 applies v2.

So the bug is client-visible: two state machines apply different operations
at index 2. Spec §8's log matching compares terms only, and the two entries
agree in term, so the violation shows up in applied values, not in terms.

### Finding: an acknowledged snapshot is lost when Sync fails

`SaveSnapshot` ignores the error of `p.file.Sync()` (snapshot_storage.go
line 145). With `SyncMayFail`, TLC finds this trace: a save whose sync failed
returns nil, a crash drops the unsynced frame, and `Open` lists nothing.
This breaks spec §7's durability contract. The finding is about the library
file only. The node's own store, part_002, returns the `Sync` error (part_002
line 159), and nothing under `src/` calls `src/pkg`.

### Finding: a torn header makes the snapshot file unreadable for good

1. A save writes its frame, and a crash keeps only the 4-byte size.
2. `Open` reads the size, `io.ReadFull` finds no byte and returns `io.EOF`
   (encoding.go line 71), and the loop treats that as the end of the file
   (snapshot_storage.go line 91). `Open` returns nil.
3. The next save appends after the dangling size, is synced, and returns
   nil.
4. At the next start, the dangling size swallows the new frame. Every `Open`
   from then on fails, and a node built on this store could not start.
   part_002's `Replay` stops on `io.EOF` in the same way (line 104), but its
   decoder is not under `src/`, so this is shown for the library file only.

### Finding: a vote can be lost after SetState returned nil

The rename at state_storage.go line 129 is never followed by an fsync of the
directory. TLC's trace:
1. `SetState(1, v)` completes and returns nil.
2. The machine crashes before the file system commits the rename.
3. `Replay` recovers the zero state.

The node could then vote again in term 1. Spec line 218 requires the vote to
be persisted before it is granted.

### Observation, not a run: State() may report what is not on disk

`p.state` is assigned before the write (line 112). When a later step fails,
`State()` (`StateResult`) returns a pair that `state.bin` does not hold,
whereas spec §4.2 says `state()` returns the last persisted pair. The node
`Fatalf`s on the error, so this matters only with a logger whose `Fatalf`
returns. It follows from one assignment and its order, and it is left as a
code reading rather than a run.

### Spec gap: the heartbeat may be slower than the election timeout

The two bounds are checked independently (options.go lines 80 and 91), and
spec line 250 gives the same ranges. With a heartbeat interval of 300 ms and
an election timeout of 100 ms, TLC finds a follower of a live leader
becoming a candidate.

## Bounds, and why they are enough

The core run uses:
- two servers and one value;
- `MaxTerm = 2`, so an election starts only below term 2;
- `MaxLogLen = 2` entries;
- `MaxInFlight = 2` messages held at once.

Why these bounds are enough:
- Two servers are the smallest cluster in which the vote-counting race
  happens: it needs two elections that overlap and a vote of each.
- Two terms allow a node to step down and then lead once. They do not let a
  node lead twice, so a stale AppendEntries answer from an earlier
  leadership (hazard at part_003 line 930) cannot arrive here.
- Two log entries allow a NoOp and an operation and the commit rule for
  current-term entries. Every entry at these bounds has term 2, so no two
  entries conflict and no log is truncated; conflicts need a third term.
- Two messages in flight allow a stale answer to arrive after a newer request.

Three servers blow the exhaustive state space up past tens of millions of
states. They were explored by simulation, which is how the observations
above were made.

The store and timing runs use these bounds:
- **SnapshotStore:** three saves and three crashes. That is enough for a
  torn frame, a clean save after it, and a restart that reads both. The two
  snapshots differ in every field, and one has data, so a swapped or dropped
  field is visible.
- **StateStore:** two calls and two crashes. That lets a crash at every step
  of the second call hit a file the first call already replaced.
- **Framing:** three entries, with indexes and offsets of one and of two
  varint bytes.
- **Timing:** two options, a 25 ms grid, a delay of up to 25 ms, and
  900 ms of time. That covers several election wake-ups at each accepted
  timeout.

`CHECK_DEADLOCK FALSE` is set in every one of these runs. Each run ends when
its bound on calls, crashes or time is reached.

`CHECK_DEADLOCK FALSE`: the bounds stop elections and submissions, so every
bounded run ends in a state with nothing left to do. The real loops never
stop. Servers are symmetric, because no action names a particular server.

No fairness is assumed yet, and no liveness property is checked. The commit
and apply loops are woken by condition variables that are signalled at
specific places (hazard `liveness` in `PROJECT.json`). A liveness run will
need weak fairness on `AdvanceCommitIndex` and `ApplyEntry`, which those
signals justify.

## What is proved

`GoRaftProofs.tla` proves two theorems with TLAPS, for every finite set of
servers and every bound. They use only the assumptions `ServerAssumption` and
`BoundsAssumption`.

**`TypeCorrect == Spec => []TypeOK`.**
- `TypeOK` alone is not inductive. The apply loop and the sender read
  `log[k - logBase.index]`, and that is an entry only when k lies past the
  log base.
- The inductive invariant is `IInv == TypeOK /\ BaseInv`. `BaseInv` says the
  sentinel's index is `lastIncludedIndex`, and that `lastIncludedIndex` never
  passes `lastApplied`.
- There is one lemma per action, then `NextIInv` and `InitIInv`.
- Lemmas about the operators:
  - `MinNat` and `MaxNat`: least and greatest elements exist, from
    well-foundedness of `<` on Nat.
  - `MaxPair` and `MinPair`.
  - `EntryAtType`, `TermAtType` and `LastType`.
  - `ConflictIndexType`: the walk back over a conflicting term stops inside
    the log, because prevLogIndex is in the set it searches.
  - `MergedLogType`: the truncation point is at most one past the last
    index, by the minimality of the first new entry.

**`NextIndexAlwaysPositive == Spec => []NextIndexPositive`.**
- `NextIndexPositive` is inductive together with `IInv`.
- A node becomes leader only through `becomeLeader`, which sets
  `lastIndex + 1`.
- A rejection hint at or below the snapshot boundary is not stored as
  nextIndex.
- A success moves nextIndex past the match.

`RaftTimingProofs.tla` proves **`TimelyHeartbeatsSafe == Spec =>
[]TimelyHeartbeatsPreventElection`**. It holds for every configuration that
`NewRaft` accepts, every delivery bound and every granularity. It uses only
`TimingAssumption`.
- `ConfigsNat` shows that accepted configurations have numeric timeouts.
  It rests on `GreatestExists`: a bounded non-empty set of naturals has a
  greatest element, so `LastSet` picks an option that was really given.
- The inductive invariant adds two conjuncts:
  - `Order`: no wake-up or arrival lies in the past, and the next heartbeat
    is at most one interval away.
  - `Contact`: some heartbeat, in flight or about to be sent, arrives
    within `H + MaxDelay` of the last contact.
- So when `election()` runs, `now - lastContact <= H + MaxDelay <
  electionTimeout`.

`GoRaftVoteProofs.tla` proves three more theorems about the election, for
every finite cluster. It uses the same assumptions, and `IInv` from
`GoRaftProofs`.

**`VoteCountBoundedThm == Spec => []VoteCountBounded`.**
- The counter alone is not inductive: a counter below the cluster size can
  still grow, by as many votes as are still on their way to it.
- The units of a counter's budget, `VoteItems(i, t)`, are the three places
  such a vote can be:
  - a vote goroutine not yet run;
  - a request in flight;
  - an answer in flight.
- The inductive invariant is `VInv == IInv /\ Finite /\ VoteBudget /\
  FreshCounters`:
  - `VoteBudget`: the counter plus its units never exceeds the cluster size.
  - `FreshCounters`: the counter of a term the node has not reached is 0 and
    has no units. This is why `election()` may start a counter with one
    goroutine per node.
- TLC checked `VInv` on the core configuration (557,065 states) before it
  was proved.
- The argument goes pair by pair (`Moves`, `PairStep`). In every step each
  counter's pair does one of four things:
  - stays as it was;
  - moves one unit along (task to request, request to answer: `CardSwap`);
  - spends one unit into the counter, or drops it (`CardDrop`);
  - is a fresh counter that `election()` starts (`NewTasksCard`).
- `TermsGrow` (no step lowers a term) keeps freshness, and `TaskNotMessage`
  keeps goroutines and messages apart.

**`VoteLedgerRefinement == Spec => VoteLedgerRefined`.**
- The initial state maps to `VoteLedger`'s initial state.
- `OneNode`: every action writes the term and vote of at most the node that
  runs it.
- `LedgerStep`: from `TermsGrow` and `VoteStep`, that node's step is a
  `NewTerm`, a `CastVote` or a stutter of the ledger.

`StateStoreProofs.tla` proves two theorems about the state storage. They
hold for every set of terms and votes, every bound, and every codec that
satisfies `CodecAssumption`. The proofs use `StateStoreAssumption` and
`CodecAssumption`, plus `SubSeqFull` and `ElementOfSeq` from
`SequenceTheorems`.

**The invariant both rest on.** `ReplayedWritten` says `Replay` never meets
a torn record and recovers the zero state or a pair some call wrote. It is
not inductive on its own: it says nothing about the files that a later
`Replay` will read.
- The inductive invariant is `IInv == TypeInv /\ FilesWhole /\ TmpHolds /\
  ReplayedWritten`:
  - `FilesWhole`: every file of `dirLog` is synced in full and holds the
    empty file or the frame of a pair in the history (`WholeIn`).
  - `TmpHolds`: the temporary file of a call in progress holds the frame of
    that call's pair, and is synced in full once `Sync` has returned.
- TLC checked `IInv` on the state_core configuration (10,791 states) before
  it was proved.
- The argument, action by action:
  - the rename adds only a synced temporary file;
  - `DirCommit` keeps the newest file, which is already whole;
  - a crash keeps at least the synced bytes of a file, and every file is
    synced in full, so it keeps that file whole (`SubSeqFull`);
  - `SetStateWrite` only extends the history, so older files still hold a
    pair of it (`HoldsGrow`);
  - `Replay` decodes a whole file, so it gets io.EOF or a pair of the
    history (`ReplayWhole`, from `CodecAssumption`).
- Without the `Sync`, the renamed file is not synced in full, so
  `FilesWhole` fails at the rename and that step of the proof fails.

**`AckedIsLiveThm == Spec => AckedIsLive`.**
- This is an action property. It needs one more conjunct, `RenamedLive`:
  between the rename and the reopen, `state.bin` holds the frame of the
  call's pair. `SInv == IInv /\ RenamedLive` was checked with TLC first.
- `AckStepNext`: only the reopen acknowledges a call. `FileStateFrame`
  reads that call's pair back from the live file.

**`StateFileRefinement == Spec => StateFileRefined`.**
- The initial state maps to `StateFile`'s initial state (`InitFile`).
- `NextFile`: under `IInv`, each action maps to a step of `StateFile` or a
  stutter, with one lemma per kind of step (`ForgetFile`, `ReplayFile`,
  `WriteFile`, `RenameFile`, `ReopenFile`, `DirCommitFile`, `CrashFile`,
  `QuietFile`).
- That a crash keeps a version whole comes from `FilesWhole`, the same fact
  that `IInv` carries.

`Framing`'s round trip (`EntriesRoundTrip`) and the snapshot store stay
model-checked only:
- Their decode loops are `RECURSIVE`, and a module with a theorem cannot
  reach one.
- What a recursive definition computes for every input is induction over
  data, which the installed provers cannot instantiate.
- `SnapshotStore` cannot be given a codec assumption the way `StateStore`
  was. What `Open` lists after a torn header depends on how the decoder
  parses the next frame at the wrong offset, and `SavedRecovered` and even
  `TypeOK` depend on that. No assumption about the codec that is true for
  every byte string would carry the proof.

**Beyond the prover.** Only TLC checks the following:
- the other properties;
- any liveness (TLAPS cannot reason about fairness or `ENABLED`);
- anything that needs induction over data.

`ElectionSafety` and `AppliedAgree` are violated, so they are not theorems.

## Not modelled yet, and the plan

- **Snapshots.** This covers `takeSnapshot`, `InstallSnapshot`,
  `sendInstallSnapshot`, `Compact` and the snapshot store. Today no snapshot
  is taken, so `lastIncludedIndex` stays 0. The plan is a log-store module
  with compaction and the `GetEntry` bound check (part_001 line 176). That
  check compares a position with an absolute index.
- **Crash and restart of the node.** The stores' own crash windows are
  modelled in `SnapshotStore` and `StateStore`. `GoRaft` still treats
  persistence as atomic, and the window between saving a snapshot and
  compacting the log is not modelled.
- **The log store's file.** This is part_001's Replay, with the same
  io.EOF handling as the snapshot store (hazard at part_001:133).
- **The part_000 state store.** It has the same `SetState` steps as
  `src/state_storage.go`, which is the one the node calls (part_003 line
  1676).
- **The part_002 snapshot store, the one the node uses.** It checks the
  `Sync` error, so the `Sync` finding does not apply to it. Its decoder is
  not under `src/`.
- **`util.RandomTimeout`.** It is not under `src/`. `electionLoop`
  multiplies its result by `time.Millisecond` (part_003 line 1139), which is
  right only if it returns a bare count. `RaftTiming` takes the spec's
  `[T, 2T)`.
- **The apply loop's unlocked `fsm.Apply`** (line 1263) racing
  `InstallSnapshot`.
- **Read-only operations and leases.** The operation manager's source is not
  under `src/`.
- **An abstract specification** of a replicated log, with the node shown to
  refine it. The refinement can hold only for a fixed election path, which
  makes it a useful companion to the finding above.
- **The second revision** and the **prototype** in `part_004`.
