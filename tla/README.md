# pgparser: TLA+ models and proofs

pgparser is the SQL front end of CockroachDB cut out as a library: a scanner, a
lexer, a generated LALR parser, the AST with its formatter, and the packages
these pull in. The models here cover the path from bytes to statements and from
names and literals back to text, the memory tricks of the scanner, and the
stateful utility packages: memory accounting, the hybrid logical clock, the
concurrent integer map, the caches, interval trees and range groups, the ring
buffer, singleflight, the timer pool, and the authentication pipe.

`PROJECT.json` has the component list, the source lines behind each definition,
the runs, the mutants, the findings, the hazards and the theorems.

## Inventory

| Component | State | Operations | What must hold |
|---|---|---|---|
| Scanner, `parser/scan.go` | `in`, `pos` | `scan` and the scan functions, `SplitFirstStatement`, `Tokens`, `LastLexicalToken` | the right semicolons separate statements; every scan makes progress; a dollar quote ends at its tag |
| Scanner memory, `parser/scan.go:46-90` | `bytesPrealloc`, the buffer of the literal being read | `init`, `cleanup`, `allocBytes`, `buffer`, `append`, `finishString` | a string in a token never changes |
| Encoders, `lex/encode.go`, `lex/predicates.go` | none | string, bytes, identifier and raw byte encoders and decoders | what is written is read back, next to any text |
| Lexer, `parser/lexer.go` | tokens, `lastPos`, counters, `lastError` | `init`, `Lex`, `NewAnnotation`, `UpdateNumPlaceholders`, errors, help, `cleanup` | nothing leaks between statements; an error points at its token |
| Parser driver, `parser/parse.go` | `stmtBuf`, scanner, lexer | `Parse`, `scanOneStmt`, `parse` | token positions fit the text; returned lists stay intact; a statement's SQL stands on its own |
| Stream, `main.go` | the buffer of a `bufio.Scanner` | `Next`, `splitSQLSemicolon` | the same statements as `Parse`, however the reader cuts the text |
| Ring buffer, `utils/ring` | `buffer`, `head`, `tail`, `nonEmpty` | adds, removes, `Reserve`, `Reset` | it is a deque |
| Singleflight, `utils/syncutil/singleflight` | `m`, the calls | `Do`, `DoChan`, `doCall`, `Forget` | one execution per key; `shared` is exact; everyone returns |
| Memory accounting, `utils/mon` | allocations and budgets of a tree of monitors | `Grow`, `Shrink`, `Resize`, `Clear`, `Start`, `Stop` | bytes add up at every level, also when a grow fails halfway; what a monitor keeps beyond its needs is bounded; a stopped monitor hands out nothing of a pool |
| Hybrid logical clock, `utils/hlc` | timestamp, last physical time, upper bound | `Now`, `Update`, refresh and reset of the bound, jump checks | strictly monotonic; never above the persisted bound; skew is bounded |
| Integer map, `utils/syncutil/int_map.go` | read map, dirty map, entries | `Load`, `Store`, `LoadOrStore`, `Delete`, `Range` | linearizable |
| Caches, `utils/cache` | store and eviction list | add, get, delete, evict, clear | list and store hold the same entries; eviction follows the policy |
| Interval trees, `utils/interval/llrb_based_interval.go` | LLRB tree with extents | insert, delete, queries, each fast or adjusted | balanced; finds exactly what overlaps |
| Range groups, `utils/interval/range_group.go` | buckets of ranges, or a tree of them | `Add`, `Sub`, `Overlaps`, `Encloses` | hold the points added and not subtracted; answers are right |
| Authentication pipe, `pgwire/auth.go` | three channels | both ends of the pipe | no end waits for ever; closing is no answer |
| Timers, `utils/timeutil/timer.go` | `time.Timer`s and their pool | `Reset`, `Stop`, reading the channel | no tick of an earlier timer; `Reset` returns |

The remaining packages (types, evaluation, formatting of whole statements, JSON,
logging, tracing, metrics, security, settings, test utilities) are listed under
"Not modelled" below.

How they interact: `Stream.Next` cuts the text with `SplitFirstStatement` and
hands each piece to `Parse`. `Parse` scans one statement at a time into tokens,
and the lexer feeds them to the grammar. Token strings point into the scanner's
memory and live on in the AST. The formatter writes names and literals with the
encoders, and that text is meant to be parsed again. Range groups keep their
ranges in an interval tree. The other utilities stand by themselves: the packages
that use them share no state through them.

Two things are hard here. In the parser it is text cut at an unlucky place, quotes
inside comments inside quotes, positions relative to one of two texts, memory
shared between tokens, and a Parser used again. In the utilities it is
interleaving: a reading taken before a lock, a pointer into a map that was
replaced, a pool reached with a mutex held, a tick about to be sent.

## Modules

Text to statements and back:

- `SQLChars`: bytes, character classes, UTF-8 and `NormalizeName`. A Go string
  is a sequence of bytes; positions are 0-based as in the source.
- `SQLScan`: each scan function as an operator of the input and a position.
  `Scan(in, p)` is the token a call of `scan` finds, with the position it leaves.
- `SQLScanner`: the loop of `LastLexicalToken` as a state machine over `SQLScan`,
  with a second, independent reader that says which semicolons separate
  statements.
- `SQLLex`: the token ids the grammar sees, with `Lex`'s lookahead.
- `SQLEncode`: the encoders and the raw byte decoders.
- `RoundTrip`: format a value between other text, then scan the result.
- `SQLStatements`: `scanOneStmt` and `Parse` as operators.
- `SQLParser`: a `Parser` step by step over several calls, with `stmtBuf`. The
  generated parser is external: it reads tokens, runs actions, and accepts or
  fails where it likes.
- `SQLStream`: `Stream` over a reader that returns pieces of any size.
- `ScannerArena`: slices over shared arrays; proofs in `BufferProofs`.

Where an operator takes the value of another (`ScanAfter(in, ws)`, `SplitAfter(t, Rest)`)
it is the part of a Go function after the call that gives that value, and a
parameter `Rest` or `Skip` is the remainder of the loop as a function of the position.

Structures that one goroutine uses:

- `Deque`, `RingBuffer`: the abstract deque, and the ring that implements it;
  proofs in `BufferProofs`.
- `EvictionQueue`, `Cache`: the abstract queue with one entry per key, and
  `baseCache` with its circular list and its store, which implements it. The list
  is kept as `next` and `prev` pointers; `order` follows them. Proofs in `CacheProofs`.
- `LLRB`: the tree's functions on nodes, in both build modes (`TD234`, `BU23`).
- `IntervalTree`: a tree under any calls, the fast ones included. `treeStale`
  remembers whether extents are out of date.
- `RangeGroup`: both implementations against the set of points.

State that goroutines share:

- `BytesMonitor`, `BytesMonitorProofs`: accounts, monitors and a root. A call that
  needs the pool takes two steps with its monitor's mutex held, so other
  monitors' calls come between. A monitor starts with a reserve at the pool or with
  a standalone one (`MakeStandaloneBudget`), which the pool does not count.
- `HybridClock`, `HybridClockProofs`: one step per atomic access of
  `lastPhysicalTime` and per section under the mutex. The physical clock may jump
  either way. `log.Fatalf` ends the process.
- `LinearMap`, `IntMap`: an abstract map whose calls take effect at one instant
  each, and `IntMap` with one step per atomic access, which implements it. Each
  pending call carries the values its keys have had since it started. Proofs in
  `IntMapState` (the invariant), `IntMapSteps` and `IntMapProofs` (the theorems).

Goroutines that wait for each other:

- `SingleFlight`: one step per section under the mutex.
- `AuthPipe`: one step per channel operation and per access of the field
  `writerDone`. The connection's loop is not in this repository and is external.
- `TimerPool`: users of `Timer` and the pool. `time.Timer` (with the channel
  semantics Go had before 1.23, which this code is written for) and `sync.Pool` are
  external.
- `WaitingProofs`: proofs about the three.

`MCRoundTrip`, `MCText`, `MCParser`, `MCStructures`, `MCShared` and `MCWaiting` give
the constants their values. All but the first and `MCParser` instantiate several
components that share nothing: one of them is picked in the initial state and the others
stand still, so the run is the union of one exploration per component.

### What the models leave out

- The grammar (`sql.y`, and `sql.go` generated from it): which statements it
  accepts and the AST. A statement stands for its token ids and strings.
  `Accepts` rejects only tokens no rule takes, so the models accept more texts
  than the code does.
- Error wording. Which token an error names and the lines it shows are modelled.
- Keywords other than the 14 the models use, and letters with case outside of
  Latin-1 and the Turkish i's.
- `strconv.UnquoteChar`, `unicode/utf8`, `bufio.Scanner` and Go's `append` are
  external, modelled from how this code uses them. An escape that names a
  surrogate is an error, as in current Go releases; no run uses one.
- In singleflight, `fn` returns. A panic in it would leave its key in the map.
- In `BytesMonitor`, `UnusedBlocks` is at least 1. `COCKROACH_MAX_ALLOCATED_UNUSED_BLOCKS=0`
  turns the margin off and is not modelled.
- In `HybridClock`, one goroutine refreshes the bound and one watches for jumps, as
  the code's callers do. Two that refresh at once could persist the lower bound
  last; the code does not guard against it.
- In `Cache`, clients name entries of the cache only.
- In `IntMap`, loops of load and compare-and-swap are one step, the one that
  succeeds: a failed swap changes nothing.

`main.go:137` passes a `[]byte` to `SplitFirstStatement(sql string)`, which is not
assignable in Go. The model reads it as `string(data)`.

## Runs

State counts are distinct states. Every text up to the bound is an initial state
or an input of a call, so the runs are exhaustive over those texts. All actions
of all modules are taken in the passing runs.

| Run | Bounds | States | Shows |
|---|---|---|---|
| `text` | texts of 5 pieces out of 10, and of 7 out of 3 for dollar quotes; streams of 4 pieces, buffer of 5 bytes; literals of 3 pieces out of 13 in 4 contexts; names of 2 pieces out of 12, and every word of `Lex`'s lookahead, in 10 contexts | 575,516 | the right semicolons separate (`SemicolonsSeparate`), a dollar quote ends at its tag (`DollarQuotesMatch`), every scan gets ahead (`Progress`); a stream returns what `Parse` of the whole text gives (`StreamIsParse`) and its errors have a reason (`ErrorsExplained`); literals and names are read back with the tokens around them untouched (`LiteralRoundTrip`, `NameRoundTrip`), and the one name that changes the token before it is `always` after `generated` (`OnlyAlwaysFuses`) |
| `parser` | one text of 4 pieces out of 8; two texts of 2 pieces out of 3 | 109,854 | `TokensMatchText`, `ErrorPointsAtToken`, `StatementsExact`, `ReturnedIntact` |
| `structures` | ring of 4, arena of 2 arrays, 4 cache entries with 3 keys, 6 intervals, ranges in 0..7 with buckets of 2 | 70,465 | `ImplementsDeque`, `StringsIntact`, `EvictsInOrder`, `Balanced`, `HoldsStored`, `GetIsExact`, `HoldsPoints`, `AnswersRight` |
| `shared` | 2 monitors and 3 accounts; 3 goroutines and 3 calls on a clock; 2 users and 2 keys of a map | 659,796 | `BytesAddUp`, `Covered`, `SlackBounded`, `StoppedHandsOutNoPool`; `TimestampAdvances`, `HighestReadingWins`, `PromisesPersisted`, `SkewBounded`; `PartsAgree`, `Linearizable` |
| `waiting` | 3 callers, 2 keys, 1 `Forget`; 2 messages; 2 users, 3 timers, 4 armings | 130,005 | `SharedExact`, `OneInFlightUntilForget`, `EveryoneReturns`; `AcceptedOnlyWithData`, `ConnectionEnds`; `TicksAreCurrent`, `ResetReturns` |

Why the bounds are enough to be interesting:

- Five pieces nest a comment and close it with a semicolon on either side, and
  join two literals over a newline. Seven pieces hold a dollar quote with a tag
  whose end is first missed. A buffer of five bytes is smaller than many of the
  streamed texts. The names include all nine words that `Lex` looks ahead for, and each
  stands after all four words it does so after.
- Two parses make a returned list old.
- Length 4 makes the ring wrap and double. The arena's bounds are small; its
  theorem has none.
- Two of the four cache entries share a key, so that one replaces the other, and
  two values, one of them expired, make eviction pass or stop at an entry.
- Six intervals give every rotation and colour flip of the tree in both modes, and
  deletions that borrow from either side. Buckets of two slots (8 in the code)
  overflow, split and empty with ranges in 0..7.
- The two monitors have different chunk sizes and limits, and the pool is smaller
  than the limits together: grows fail at the monitor and at the pool. With the sizes
  0, 3 and 5, a budget's buffer outgrows a chunk of the pool while `adjustBudget` has
  nothing to relinquish, and a standalone reserve of 4 is handed out before and after
  `Stop`.
- The clock can jump both ways between 1 and 2, with remote timestamps within and
  beyond the allowed offset, and `MaxLogical` of 1 makes `Logical` reach its
  maximum.
- Two users on two keys of the integer map promote, expunge and unexpunge an entry
  under a reader that still holds the older map.
- Three callers are a leader, its successor after a `Forget`, and one who should have
  joined it. Three timers and two users let a timer return to the pool with a tick
  under way and be taken by the other user.

Deadlock is checked where the models say when a caller is done (`text`, `parser`,
`shared`, `waiting`). It is off for `structures`, where the arena runs out of arrays.

Refinement: `ImplementsDeque`, `EvictsInOrder` and `Linearizable` are the abstract
specifications `Deque`, `EvictionQueue` and `LinearMap` under a mapping. The deque is
the slots from `head` on, the queue is what the `next` pointers lead to, and
the map is the history variable `content`, which changes at the step that makes a
call visible. A call that changes nothing may answer with any value its key has had
since the call began.

## Where the code and its comments disagree

Each of these is a run that TLC must find violated.

- `ring_reserve`: `Reserve` beyond the capacity of a ring that is not full makes up
  elements. The repository's own callers do not do this.
- `roundtrip_prefix`: the names `experimental_ranges` and `testing_ranges` are
  written bare and read back as `ranges`.
- `roundtrip_always`: after `GENERATED` the lexer looks ahead for `ALWAYS`, but `always`
  is missing from the words that are quoted for that reason (`lex/predicates.go:48-57`).
  The name is written bare, and makes `GENERATED_ALWAYS` of the word before it.
  `OnlyAlwaysFuses` in `text` says that no other name does such a thing.
- `stream_nul`: a NUL byte outside of quotes has the token id of the end of the
  input, and what follows it is dropped without an error.
- `singleflight_forget`: a forgotten call deletes its successor's key, and the
  next caller starts a second execution beside it.
- `auth_drained`: `noMorePwdData` sets `writerDone` to nil after closing it, and a
  `GetPwdData` that starts later waits for ever. `ConnectionEnds` in `waiting` covers
  the connection's own goroutine where this does not happen.
- `range_encloses`: a `RangeList` may keep touching ranges apart, and `Encloses` looks at
  one of them only. `AnswersRight` in `structures` covers the answers that hold.

Some comments are looser than the code, and no run is spent on them:

- `doStop` disables the pool "so that further uses outside of monitor control get errors"
  (`bytes_usage.go:405-406`). A monitor that was started with a standalone reserve, as in
  `bytes_usage_test.go:157`, keeps it, because `Clear` returns early for an account without
  a monitor (`bytes_usage.go:498-501`), and goes on to hand it out.
  `StoppedHandsOutNoPool` has this as its one exception.
- `adjustBudget` "ensures that the monitor does not keep many more bytes reserved from the
  pool than it currently has allocated" (`bytes_usage.go:678-679`), but looks only at what the
  budget has in use. The buffer beside it may be as large as that and a chunk of the
  pool more, which is what `SlackBounded` says of it.
- "If p == nil, the entry has been deleted and m.dirty == nil" (`int_map.go:91`): `Delete`
  makes the pointer of an entry of the read-only part nil whether or not there is a dirty
  part. `amended` is "true if the dirty map contains some key not in m" (`int_map.go:80`),
  and stays true when the last such key is deleted. `PartsAgree` states what the paths of the code
  rely on instead: `amended` says that there is a dirty part, and an entry of the
  read-only part is in the dirty part too unless it is expunged.
- A dollar quote's tag is not "some arbitrary string" (`scan.go:896`): a digit in it
  ends the attempt.
- Memory given back by `returnBuffer` is not used by "future allocBytes()" calls
  (`scan.go:76`), because the slice has capacity but no length.
- `dups` and `chans` are written after the WaitGroup is done (`singleflight.go:36-38`),
  by callers that come before the key is deleted; `SharedExact` shows that this does
  no harm.
- `interval.go:186-188` asks for `AdjustRanges` before `Get`, `Do` and `DoMatching` only.
  `Delete` looks at the root's extent first (`llrb_based_interval.go:362`), which a
  fast `Insert` does not widen, so before `AdjustRanges` it may silently delete nothing.
  The model allows `Delete` only after `AdjustRanges` has followed a fast insertion.

## Fairness

Liveness is checked in `waiting`, under weak fairness only.

- `SingleFlight`: each call's `doCall` and each caller that can return. `fn` returns;
  nobody is made to call, or to `Forget`.
- `AuthPipe`: both goroutines. The client is made to do nothing, and a goroutine
  that waits on a channel is not enabled.
- `TimerPool`: a `Reset` that can go on, and the runtime's send of an expired timer.
  No user is made to read or to reset.

Goroutines that can run do run: the Go scheduler is preemptive and `sync.Mutex`
prevents starvation. No strong fairness is assumed.

The scanner, parser and stream are sequential. Termination of the scanner's
loops is the action property `Progress`, a variant that needs no fairness. The
stream is checked for deadlock only, as TLC's evaluation of ENABLED over `Scan`
is too slow for a liveness run; that `Next` returns is not checked. Nor is it
checked that calls of `IntMap` or of the clock return: their loops of compare and
swap are lock-free, not wait-free.

## Proofs

Checked by TLAPS for all values of the constants, under the named assumptions of
the modules. The assumptions are that bounds are naturals, that distinguished
values differ, and those named below.

- `BufferProofs`, scanner memory: `ArenaTypeCorrect`, `ArenaStringsIntact`. `StringsIntact` is not
  inductive: nothing in it says where the next write goes. The invariant `Inv` adds
  `Disjoint` (in an array still written to, strings end where the free slice or
  the buffer begins), `OneOwner` (the free slice and the buffer are never both in
  use), `BufferHolds` (the buffer holds what was appended) and `Placed` (nothing
  but empty slices at index 0 lies in arrays that are not allocated). The main
  lemmas say that a write keeps what lies below it and can be read back.
- `BufferProofs`, ring buffer: `RingTypeOK`, `RingImplementsDeque`, for clients that let
  `Reserve` grow only a full ring, as the repository's do (a `Reserve` within the
  capacity does nothing). `RingInv` adds to `TypeOK` what relates `head`, `tail` and
  `nonEmpty` in an empty ring and in one without slots. Each operation is a lemma
  that it maps to a deque step, over lemmas on modular indices.
- `HybridClockProofs`: `ClockTypeCorrect`, `ClockAdvances`, `ClockReadings`, `ClockSkew`
  and `ClockPromises`, for any number of goroutines, with the assumption that one
  goroutine refreshes the bound and one watches for jumps. `Typed` says in which phase of
  which operation a goroutine can be. Three invariants say what a goroutine between two
  steps knows: `Wins` (its readings are ordered, and at most the physical clock; once
  recorded they are at most `lastPhysicalTime`), `Skew` (a reading it holds is at most the
  highest so far) and `Promises` (a bound about to be persisted or stored is above every
  promise made, and the bound in force is at most the stored one). Without them the
  properties are not inductive, because a reading or a bound is used steps after it was
  taken.
- `BytesMonitorProofs`: `CountersNeverNegative`, `MonitorsCovered`, `BudgetSlack`, `BytesConserved`
  and `StoppedIsFinal`, for finite sets of monitors and accounts, positive chunk sizes
  and limits. None of them is inductive alone. That a release never makes a counter
  negative needs that what the accounts hold adds up to what their monitor counts, at
  both levels. A call in the middle needs that its monitor has not moved since it locked
  it. That the buffer is bounded needs that a call which asks the pool found less in the
  buffer than it needed (`GoodOp`): then the pool's chunk is all that is left over. `Buffered` may
  fail only while a call gives the surplus back. `MonInv` has all of this: `MonTypeOK`,
  `GoodMon`, `GoodOp`, `Buffered`, `OneCall` and `BytesAddUp`. `StoppedIsFinal` follows from
  `GoodMon`: a stopped monitor has no budget, and no reserve unless it is a standalone one.
  A sum over a set is a fold, so the first section proves what is needed of it, by
  induction over the size of the set: a sum of naturals is one (`SumType`), and changing one
  summand changes the sum by as much (`SumUpdate`). `AccountStep` and `MonitorStep` lift that
  to the two levels, and each action is a lemma over them.
- `WaitingProofs`, singleflight: `TypeCorrect`, `SharedIsExact`, `OnlyOneInFlight`, for any keys, any
  finite set of callers and any number of `Forget`s. The first caller returns before later
  ones may have joined, so that what it was told is still exact needs four more facts:
  `MapIsLive` (nobody can join a finished call), `DupsCount` (`dups` counts the callers of a
  call but the first), `ChansWait` (the channels of a call are those of the callers that
  wait for one) and `ToldAboutDups` (a caller that returned was told of the duplicates,
  and either there was one by then or none can come). `InMapUntilForgotten` says the same
  for executions: an unfinished call leaves the map only by `Forget`, which marks the call it
  takes out of the map.
- `WaitingProofs`, pipe: `AuthTypeCorrect`, `AcceptsOnlyWithData`, `NeverClosesTwice`, for any
  number of messages. `OneDecision` says that the decision was made once, and where it is;
  `ClosedOnce` in which states of the two goroutines the channel is closed and the field nil.
- `WaitingProofs`, timers: `TimerTypeCorrect`, `OnlyCurrentTicks`, `ResetNeverStuck`, for any
  number of users, `time.Timer`s and `Reset`s. `OneHolder` (a `time.Timer` has one user or is in
  the pool) makes steps of other users harmless; what is in the pool is `Quiet` (stopped, with an
  empty channel); and `HeldOK` says what the `time.Timer` of a user is like at each point of `Reset`.
  `ResetNotStuck` is the safety half of the liveness property `ResetReturns`: a `Reset` that
  waits for a tick has one, or one that will be sent.
- `IntMapProofs`: `IntMapInvariant`, `PartsAlwaysAgree`, `IsLinearizable`, for any goroutines and
  values and any finite set of keys (`missLocked` compares a count with the number of
  dirty keys, and `newEntry` needs an address that is free). `PartsAgree` is not inductive: a
  goroutine between two atomic accesses holds an entry that may have been expunged, or have
  left the map, since it was found. `IInv` relates three things. The tables (`Table`): there is a
  function `o` from entries to keys such that every entry of either part belongs to its key,
  and the two parts agree, with an exception for the keys `dirtyLocked` has still to copy.
  The goroutines (`UserOK`): one that may write an entry holds that of its key, or an expunged
  one (`Live`), and what an entry to be read points to was under its key at some instant of the
  call, which is in the call's set `seen`. The history: `content` is what the tables say. The
  existence of `o` is part of the invariant `IntMapInv`; no variable records it. `IntMapState` has
  a lemma per change of the tables, and two that say what a step must keep for the others
  (`FreeStep` without the mutex, `LockStep` with it); `IntMapSteps` and `IntMapProofs` have one per
  action, which also says which step of `LinearMap` it is, if any (`Implements`). `StepInv`
  puts them together, and both the invariant and the refinement follow from it.

- `CacheProofs`: `ListAndStoreAgree` and `CacheRefinesQueue`, for any finite set of entries, any keys,
  values and `MaxSize`, and every policy. The invariant `CacheInv` relates the three
  representations of a cache: the pointers lead through `order` and back to the root in both
  directions (`Listed`), and the store has the entries of `order` by their keys (`Stored`). One
  lemma for each function of `entryList` says what it does to the sequence (`Inserting`,
  `Removing`, `Moving`), by following every pointer it writes. `Walk`, `Evictions` and `Accesses`
  are loops, so what they reach is shown by induction over the number of rounds (`WalkIs`,
  `AfterEvictions`, `AfterAccesses`): in particular that `add` evicts the longest suffix all of
  which may go, given the size that is left each time, and that entries used one after
  the other end up in the reverse order at the front. One lemma per operation then says
  which step of `EvictionQueue` it is.

Induction is over numbers only, and by way of sets: a set of naturals that has zero, and with a
number the next one, has them all (`NumbersInduction`, from the library's theorem on minimal
elements). A loop is a recursive function, which TLA+ defines by `CHOOSE`; a lemma shows
that such a function exists (`StepsExist`, `EvictsExist`, `AccessesExist`), and from then on its
equation can be used.

The inductive invariants were model-checked before they were proved, `Inv` of
`SingleFlight` on the 172,693 states of three callers and two `Forget`s, `MonInv` on the 360,883
states of the monitors in `shared`, `IInv`, with the existence of `o`,
on the 128,960 states of two goroutines with two keys and one value, and `CacheInv` on the
41,800 states of the cache in `structures`.

Only model-checked:

- The scanner, encoder, parser, stream, LLRB and range group properties. They are
  about recursive functions over texts and trees, which would need induction over data.
- All liveness properties, which are out of the prover's reach.

## Hazards without a property

- Token positions of texts beyond 2 GB wrap (`scan.go:94`): TLC cannot hold such a text.
- Clients that pass a cache an entry that is no longer in it (`cache.go:286`). The
  code guards against one effect of it, and its comment calls the cause unknown.
- `Delete` before `AdjustRanges`: see the disagreements above.
- `StopWatch` reads and writes its two fields without a lock, and no client in this
  repository shares one.
- The check for forward jumps compares with the last reading, so a process that was
  paused for longer than the limit ends fatally when it resumes; the model has the
  check and its fatal end, and no property says that it should not happen.

## Not modelled

The share of the repository's lines that the map covers is small, and stays small:
of about 150,000 lines, most are generated code (`sql.go`, protocol buffers, keyword
tables), the AST with one `Format` method per node, and pure functions on data types.
None of these has state to check or an interleaving to explore.

- The grammar and its actions: generated, and its correctness is that of the grammar.
- AST and formatting of whole statements: to be read back, they need the grammar.
- Type system, evaluation, JSON, key encodings: pure functions whose interesting
  inputs (64-bit integers, decimals, dates, collations) are beyond enumeration, and
  whose properties for all inputs need induction over data.
- The B-trees: that of `utils/interval`, a second implementation of the tree behind the
  environment variable `COCKROACH_INTERVAL_BTREE`, with copy-on-write clones, and the
  reference-counted one of `utils/interval/generic`, a template for generated code.
- `SessionData`'s sequence state: every method is one section under one mutex.
- Logging, tracing, metrics, certificates, settings, telemetry, test utilities: I/O or
  registries filled at start-up; they do not influence the parser.
- The wrappers `ParseOne`, `ParseExpr`, `ParseType` and `ParseTableName`: they call `Parse`
  on a text around their argument and look at the AST that comes back.
