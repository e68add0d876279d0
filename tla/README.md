# Verification of the distributed advertisement search

TLA+ models of the search service in `src/code/alimama` and of the testbench
in `src/testbench/src` that drives and judges it, checked with TLC, and TLAPS
proofs about every component: each safety invariant that a run checks holds for
every value of the constants.

- [The system](#the-system): the components, their state, their operations, and what makes them correct
- [Modules](#modules): which module models what, and how it corresponds to the code
- [Runs](#runs): what each run checks and shows, with its bounds
- [Fairness](#fairness) and [assumptions](#assumptions)
- [Proofs](#proofs): what holds for every value of the constants, and along which argument
- [Findings](#findings): where the code and what is said of it disagree
- [Not modelled](#not-modelled) and [plan](#plan)

## The system

Three identical servers each keep the advertisements of a third of the
keywords. A balancer forwards a `Search` to one of them. That server sends a
`SearchLocal` with the whole request to all three (itself included), merges the
replies, ranks and bills. The processes find each other through keys of etcd.
The testbench finds the balancer the same way and measures it.

```
 testbench --Search--> balancer --Search--> server k --SearchLocal--> servers 1, 2, 3
                          \________________ etcd _________________/
```

| Component | State | Operations | Hard behaviour |
|---|---|---|---|
| **Thread pool** (`util.h:272-329`) | queue of tasks, `stop`, mutex, condition variable, 64 workers | `enqueue`, worker loop, destructor | `notify_one` outside the mutex, destruction while tasks are queued, spurious wake-ups |
| **Asynchronous server** (`async_server.h`, `server.cc` `doSearch`) | two completion queues, 16 threads on each, `CallSearch`/`CallSearchLocal` objects, the pool, futures on `doSearch`'s stack | match a call, start it, sub-requests, join, finish, delete | a search blocks a thread while its sub-requests need one, possibly of the same server; processes die at any step; each call must leave a new call object behind |
| **Ranking and billing** (`server.cc:166-338`, `util.cc`, `util.h` `TopN`) | heaps of topn + 1 rows per keyword, sorted replies, prices | `doSearchLocal`, `doSearchMerge` | bounded heaps, two removals of duplicates and two sorts must equal one ranking; the last price needs the score of the one after it; ties |
| **Data loading and index** (`util.h:115-267`, `server.cc:86-123`, `util.cc:39-67`) | `datas`, `kw2index`, hours packed in three bytes | read a line, filter, sort, index, scan | a scan that tests no bound; 64 bits narrowed to 16; an unstable sort |
| **Startup and discovery** (`server.cc` `main`, `balancer.cc` `main`, `util.cc:105-128`, `testbench.cc`, `run.sh`) | keys of etcd, addresses each process got | register, wait for three keys, listen, publish, poll | processes start in any order, wait on each other, and may run before etcd does |
| **Load balancer** (`balancer.cc`) | an atomic counter, three stubs | `Search` | `i = (i + 1) % 3` is a load and a store, `stubs[i]` loads again |
| **Queue of the testbench** (`concurent_queue.h`) | bounded queue, mutex, two condition variables, `closed_` | `Push`, `WaitAndPop`, `TryPop`, `Close` | `Close` takes no lock; notifications outside the mutex |
| **Benchmark driver** (`grpc_benchmark.h`, `test_search_service.h` `RunBenchmark`, both clients) | two counters, `enable_`, queues, a worker and a collector per client, one calculator | `Request`, `WaitAll`, `WaitAllUntilTimeout`, `Summary`, destructor | a response is between the counters for a moment; results are written after the count says they are done; waits without a timeout; the mutex a synchronous call holds |
| **Measurements and scoring** (`testbench.cc`, `test_cases.h`, `test_search_service.h` `TestMaxQps`, `search_service_comparator.h`, `config.h`) | the rates tried, the best summary, the scores | read the configuration, four tests, two batches, write the scores | the second batch goes on from the state the first one left; means of nothing; a service that answers differently each time |
| Test-case readers; command-line clients; data generators; scripts and vendored headers | see [Not modelled](#not-modelled) | | |

What makes each correct:

- *Thread pool*: an accepted task is executed exactly once and in order of
  acceptance; no queued task is left behind workers that sleep; the destructor
  returns, and only when nothing accepted is left undone.
- *Server*: every search ends; an answer lacks advertisements only of a server
  that is down; no task of the pool outlives the frame it writes to; a server
  never runs out of call objects; the pool is never the bottleneck; no event of
  a queue reports a failure (which `GPR_ASSERT` claims, and which is false).
- *Ranking*: the answer is the one a single ranking of all rows would give;
  nobody pays more than the bid.
- *Index*: it maps each keyword to its first row, the scan stays in reserved
  memory, and a lookup equals a search of the file.
- *Startup*: whoever serves has the addresses of servers that are ready, and
  everybody comes up. Published data is ready and registrations arrive only
  where etcd was up in time.
- *Balancer*: the counter is in range, and searches that do not overlap take
  turns (those that do need not).
- *Queue and driver*: no lost wake-up, counters that cover all responses, waits
  and joins that end, a summary of everything that was answered.
- *Scoring*: the rate reported as the highest is the highest that passed and
  next to one that failed, whatever the service does; points go only to a
  service that earned them.

The hazards these answer are listed in `PROJECT.json`, each at the line where
it bites and with the properties that would catch it.

## Modules

| Module | Models | Composed with |
|---|---|---|
| `TaskPool` | what a pool promises, without threads | |
| `ThreadPool` | `ThreadPool` of `util.h` | implements `TaskPool` |
| `ThreadPoolProofs` | proofs about it | extends `ThreadPool` |
| `SearchApi` | what a caller of the service is promised | |
| `SearchService` | balancer, servers, queues, call objects, sub-requests, failures | implements `SearchApi` |
| `SearchServiceProofs` | proofs about it | extends `SearchService` |
| `LoadBalancer` | the choice of a stub by concurrent searches | what the call does is in `SearchService` |
| `System` | the start and then the searches of the testbench | composes `Startup` and `LoadBalancer` |
| `AdAuction` | the ranking and the charges, as mathematics | |
| `AdSearch` | `doSearchLocal`, failing sub-requests, `doSearchMerge` | compared with `AdAuction` |
| `AdSearchProofs` | proofs about it | extends `AdSearch` |
| `AdIndex` | reading the file, the index, one lookup | |
| `AdIndexProofs` | proofs about it | extends `AdIndex` |
| `Startup` | the mains of all processes around etcd | |
| `StartupProofs` | proofs about it, the balancer it starts, and the two together | extends `System` |
| `ConcurrentQueue` | `ConcurrentQueue` of the testbench | |
| `ConcurrentQueueProofs` | proofs about it | extends `ConcurrentQueue` |
| `GrpcBenchmark` | one benchmark, from the first request to the destructor | uses what `ConcurrentQueue` shows |
| `GrpcBenchmarkProofs` | proofs about it | extends `GrpcBenchmark` |
| `Testbench` | all tests and the scores, with a benchmark as one step | uses what `GrpcBenchmark` shows |
| `TestbenchProofs` | proofs about it | extends `Testbench` |
| `MC...` | instances of these for TLC | |

`PROJECT.json` maps every definition to its lines. The choices that matter:

**ThreadPool.** What a thread does while it holds `queue_mutex` is one action;
`notify_one` and `notify_all`, called after the mutex is released, are actions
of their own (`NotifyOne`, `NotifyAll`). A worker is `testing` (about to
evaluate the wait's predicate), `waiting`, `running` or `exited`. No call of
`enqueue` starts once the destructor has returned.

**SearchService.** A call is a record of progress, at the server that runs it
(`search`) and for each of its sub-requests (`sub`). `MatchSearch` takes a call
object, `StartSearch` is a thread that takes the event, makes the next call
object and enters `doSearch`, `FinishSearch` joins the futures, merges and
calls `Finish`. A thread of `cq1` is busy while its search is `running`, a thread of the
pool while its sub-request is out, a thread of `cq2` while it is `serving`; guards count
them. The events of `Finish` are in `finish`, with gRPC's verdict on whether
the response could be sent. `Crash` stops a process at any step, `AbortNode`
is `GPR_ASSERT(ok)`. The balancer forwards to *any* server: which one the race
on its counter picks is `LoadBalancer`'s subject. The pool is used through what `ThreadPool`
guarantees: a task starts when a thread is free.

**LoadBalancer.** A search is `Load` (of `i` for `i + 1`), `Store`, `Reload`
(for `stubs[i]`) and `Forward`, the call. `alone` holds the threads that no
other overlapped since their load and `last` is the stub chosen last: history,
which `TurnsWhenAlone` is stated with. The status and the response
of the call are returned whatever they are; how calls fail and what an answer
then lacks is the subject of `SearchService` and `AdSearch`, so nothing is said
here of servers that are down. `NumStubs` is the number of servers, and the
names of the specification begin with `Balancer`, because `System` extends this
one and `Startup`.

**System.** A step of a process that starts (`StartupStep`) or of a search
(`SearchStep`), as `TestAll` makes them: searches come from the testbench once it
found the service. `Settled` is a bound: searches begin when every server and the
balancer listen. In the code they may come earlier and fail then; the choice of a
stub reads nothing that a starting process writes, so no interleaving of threads
in it is lost.

**AdSearch / AdAuction.** `AdAuction` defines the ranking and the charges on
sets, without heaps, sorting passes or merging. `AdSearch` follows the code:
`TopN` keeps any set of the best scores a heap ordered by score alone can
keep, `Sorts` and `Dedup` are the sort and the loop over it, at the servers
(`LocalReplies`) and again in the merge (`MergedReplies`), `Prices` is the
backward pass and `Billed` what is returned. `answered` holds the servers whose
reply has come or failed; the merge waits for all. Scores and rates are
positive integers, a fixed-point scale in units of 0.000001, the least rate
the code uses (`util.cc:29`); `std::round` is exact on them, the rounding of
floats is left out. `Tolerance` is what `floatEqual` takes for no difference.
With it the comparator need not be an order: three scores a small step apart
can outrank each other in a circle. `Sorts` therefore returns any sequence in
which no two neighbours are the wrong way round, which is what the insertion
sort at the end of `std::sort` leaves (it builds them one element at a time,
as sets of sequences by length); for up to 16 elements it is all that
`std::sort` does. Beyond that a comparator that is no strict weak order is
undefined behaviour, and no property says anything about it: the guarantees
that need an order have `Comparable` in front.

**AdIndex.** One line of the file, one row of the index, one row of the scan
per action. The sort leaves any order that is sorted by keyword. Bytes of the
hours and the 16 bits of the price are modelled as they are: `TimingsByte` is
the byte that the line's 24 flags are packed into, `Mask` the bit that
`filterHour` tests. The memory past
the end of `datas`, which the scan reads, is the zeroed memory `reserve` got.
`Line` is what the generator draws: no keyword is 0.

**Startup.** `EtcdGetKVWait` is `GetAddress` (the key is there), waiting (it is
not) or `GetFails` (any other error, which ends the wait with an empty
address, `NoAddress`). `EtcdSetKV` of a server starts a task nobody waits for:
`SetArrives` is a step of its own. A set that comes before etcd is up is lost;
`lost` records whose.

**ConcurrentQueue.** As for the pool, with one difference: `Close` sets
`closed_` without the mutex, so the moment between a wait's test and its block
is visible. A thread in it is `deciding` and is the `holder` of the mutex;
`late` remembers who was there when `closed_` was set.

**GrpcBenchmark.** Driver, workers, collectors and calculator, with each of
the two counters read and written in a step of its own. With `timed` the
driver waits with a timeout and the clients are asynchronous, as in the tests
of speed and stability; without it, as in the first test, it uses `WaitAll`
and synchronous clients, whose worker is `calling` with the mutex of the
client held and hands the answer on through a queue. The destructor closes
client by client (`shut` of them so far). An operation on a queue is a
single step, justified by `ConcurrentQueue`; what `Close` may do to a thread
that is about to block is the choice `late`. `window` records what was outside both
counters when `Summary` found its condition true, `reported` the `interupted`
flag of the copy it returned.

**Testbench.** The state of `main`, `TestAll` and `TestMaxQps` from
`config.json` to the scores. One benchmark is one step with *any* summary
`GrpcBenchmark` can return: any share of answered requests, any of the answers
the comparators distinguish, any latency, interrupted or not. The service may
thus be better at a higher rate than at a lower one. Shares are in thousandths;
a mean of nothing is `NaN`, with which every comparison is false. `passed` and
`failed` remember the rates that were tried. `MaxQpsAssumption` asks that the
first step is no larger than the baseline, as in `config.json`: otherwise the
first step back gives a negative rate, and `RunBenchmark` compares a negative
`int32_t` with a `size_t`.

## Runs

Runs that pass:

| Run | Instance | What it shows |
|---|---|---|
| `thread_pool` | 2 workers, 2 callers, 3 tasks | `ExactlyOnce`, `NoLostWakeup`, `NothingAbandoned`, the liveness of tasks (`AcceptedIsExecuted`) and of the destructor (`DestructorReturns`), and `TaskPool` as implemented (`AbstractSpec`) |
| `search_service` | 2 servers, 2 searches, 1 thread for each queue, a pool of 2, crashes of one server and of the balancer | `RepliesOutlived`, `CallsStayArmed`, `PoolNeverSaturated`; every search ends (`EverySearchEnds`); `SearchApi` is implemented (`ApiSpec`) |
| `ad_search` | all tables of 3 or 4 rows over 7 pairs of keyword and advertisement, offers whose scores tie or whose scores outrank each other in a circle, 2 servers, topn 1 and 2, any sub-requests failing | the distributed answer is the reference one (`AnswerAsSpecified`), also among ties no place is given away (`PlacesOptimal`), nobody is overcharged (`NeverOvercharged`) |
| `ad_index` | all files of up to 4 of 6 lines, all orders the sort may leave, hours 0, 7, 16 and 23, heaps of 1 and 2 | `IndexPointsToFirst`, `ScanStaysClose`, `LookupExact` |
| `system` | 3 servers, the balancer with 2 threads, the testbench, etcd up or late | the addresses that stubs are made of are of servers with their data (`StubsAreReady`); every server and the balancer come to listen, but for those who wait for the very key that was lost (`ComesUp`); the counter of the balancer stays in range (`BalancerTypeOK`), and searches that do not overlap take turns, whatever those before them did (`TurnsWhenAlone`) |
| `concurrent_queue` | 2 producers, 2 consumers, capacity 2, 4 elements, a close at any step | `PopNotLost`, `PushNotLost`; `Close` releases everyone but a thread it catches about to block (`CloseReleases`) |
| `grpc_benchmark` | 2 clients, 2 requests, both kinds of waits and clients, a comparator that may reject | the counter covers responses (`CompareCountCovers`), what a summary may miss (`MissedOnlyBetween`, `VerdictInTime`), and that waits and joins end (`WaitReturns`, `SummaryReturns`, `BenchmarkDestroyed`) |
| `testbench` | rates up to 10 from a baseline of 3 in steps of 3 and 1, answers of five kinds, services that pass or fail each benchmark anew | the search for the highest rate is sharp (`MaxQpsIsSharp`), points need the tests before, and right answers at the highest rate (`LaterScoresNeedEarlier`), those for stability are earned but for one hole (`ServiceScoreEarned`), and it ends (`Finishes`) |

Runs that find a disagreement (see [Findings](#findings)): `search_abort`,
`ad_search_partial`, `grpc_benchmark_all`, `startup_meet`. They use the
instances of the runs that pass, with the property that fails (`startup_meet`:
`Startup` without the searches).

Why the bounds are enough to be of interest:

- *thread_pool*: two workers and two callers are what a lost or stolen wake-up
  needs; with three tasks the queue can hold one while both workers run. The
  proofs cover all sizes.
- *search_service*: with one thread per queue and two servers, two searches can
  occupy all threads of `cq1` while their sub-requests cross, which is the
  situation `async_server.h:32` is about. The pool has exactly the
  size its searches can fill (1 search × 2 sub-requests), with none of the
  slack of the code's numbers (16 × 3 of 64).
- *ad_search*: keywords 1 and 3 belong to one server and 2 to the other, so an
  advertisement can be found twice at one server and once more at the other;
  four rows exceed topn + 1 = 2 and 3; offers tie, and bids of 1, 2 and 3 at the
  least rate are the circle described under [Findings](#findings).
- *ad_index*: keywords 1 and 4 are of the server and 2 is not, so the scan can
  end at the next keyword or at the end of the data; the hours are at the ends
  and around the borders of the bytes.
- *system*: 3 servers, as in the code. etcd comes up before, between or after
  any of their calls, so each answer of each process can be an error and each
  key can be lost. Two threads interleave their loads and stores of the counter in
  every way, again and again; with a third one `LoadBalancer` alone has 3837
  states, and its properties hold as well. The proofs cover any number of servers
  and threads.
- *concurrent_queue*: two threads on each side and a capacity below the number
  of elements let both sides block. The safety part is proved for all sizes.
- *grpc_benchmark*: with two clients, two responses can be at any two places
  of the pipeline. The safety part is proved for all sizes.
- *testbench*: the coarse steps go from 3 to 9 and leave a rest of the range;
  three fine steps lie between two of them, so a rate can fail at the first,
  in the middle and at the last. The service's share is just above or below
  the threshold.

Deadlock is not checked: the programs end (a pool destroyed, a search answered,
the scores written) or stop for good where `ComesUp` says so. A state in which a
thread should still move is caught by the liveness properties.

## Fairness

Fairness says that threads that can run are scheduled. It is never put on
what the environment is free not to do, with one exception: `Startup` assumes
that etcd, which every process needs, comes up some time.

- `ThreadPool`: weak fairness on each worker, on the notification of a caller
  that has enqueued, and on the rest of a destructor that has begun. None on
  enqueueing, on beginning the destructor or on spurious wake-ups.
- `SearchService`: weak fairness on the steps of each search and of each
  sub-request: live processes run, the network delivers between them, and the
  end of a dead process is noticed. None on callers asking, on crashes, or on
  taking `Finish` events.
- `LoadBalancer`, and the searches of `System`: none, only safety is stated.
- `Startup`: etcd comes up, each process goes on, the task that sets a server's
  key is run (whether etcd gets it is open), the testbench polls. None on its
  timeout.
- `ConcurrentQueue`: weak fairness on the steps inside a call and on what
  follows the store of `Close`. None on making calls or closing.
- `GrpcBenchmark`: weak fairness on the driver, on each worker and collector
  and on the calculator. Every call has a deadline (`grpc_benchmark.h:138`), so
  a collector gets each of its calls back.
- `Testbench`: weak fairness of the single thread. That a benchmark returns is
  what `GrpcBenchmark` shows, with the exceptions it names.

`ThreadPool`'s weak fairness is enough although workers compete: an element is
taken by whoever gets the mutex, and the properties are about the task, not
about a worker.

## Assumptions

- A process that fails does not come back. A server that is alive but never
  answers (a hung host) is not modelled: `SearchLocal` has no deadline, and
  such a server would block a search for as long as it stays so.
- Scores are in fixed point: the tolerance of `floatEqual` is modelled, the
  rounding of floats is not.
- (keyword, adgroup_id) is the key of the data, as `gen_data.cc:4` says
  (`KeyAssumption` for files, `TablesAssumption` for the rows of a search);
  keywords are at least 1 (`FilesAssumption`), and the memory `reserve` got past
  the end of `datas` is zero, as fresh pages are. A request is any set of
  keywords, any hour of the day, and a topn of at most 2,147,483,646: topn is a
  `uint64`, and topn + 1 is narrowed to the `int` of `TopN`'s constructor
  (`util.h:79`, `util.cc:53`), so that a greater one would change the size of the
  heap (`QueriesAssumption`, `LookupsAssumption`).
- Bids fit 16 bits. This is no `ASSUME` but a hypothesis, `PricesFit`, of the one
  theorem that needs it, since the generator does draw larger ones (see
  [Findings](#findings)).
- `wait_for` returns the value of its predicate, also after the timeout.
- Condition variables may wake up spuriously; nothing relies on it.
- gRPC reports `ok = false` for a response it could not send; it may or may
  not have noticed yet that a peer died.
- The configuration is sensible (`JsonAssumption`, `MaxQpsAssumption`), above
  all that the first step is no larger than the baseline and that thresholds
  are natural numbers.

## Proofs

For every value of the constants that satisfies the named assumptions
(finite sets of threads, at least one thread of each kind; the modules'
`ASSUME`s):

**ThreadPoolProofs.** `TypeCorrect`, `HandOverCorrect` (`ExactlyOnce`),
`DestructorDrains` (`NothingAbandoned`), `NotifyCorrect` (`NoLostWakeup`) and
`PoolImplementsTaskPool`. The invariants are inductive given the types.
`NoLostWakeup` is an inequality between the length of the queue and the sizes
of two sets of threads; each step moves one thread between those sets, and the
lemmas on adding and removing an element of a finite set do the arithmetic.
For the destructor, workers exit only in front of an empty queue, and no
worker can be waiting after `notify_all` once `stop` is set. The refinement
maps `Enqueue` to `Accept`, `Take` to `Start`, `Execute` to `Finish`, `SetStop`
to `Close`, `JoinAll` to `Join` and everything else to a stutter; it needs
`ExactlyOnce` (a task that is executed is active once) and `NothingAbandoned`
(a join finds nothing left).

**SearchServiceProofs.** `ServiceTypes`, `NeverDisarmed` (`CallsStayArmed`),
`NoDanglingReply` (`RepliesOutlived`), `ServiceImplementsApi` and
`PoolSuffices` (`PoolNeverSaturated`). The invariant
is `TypeOK /\ CallsStayArmed /\ Progress /\ Joining /\ Covered`:

- `CallsStayArmed`, an equation, is inductive as stated. It is also what makes
  the types inductive: the number of armed call objects stays within its bound
  because matched calls make up for the rest.
- `Progress` orders the life of a call; `Joining` says that a sub-request in
  flight belongs to a search still in `doSearch`. It is `RepliesOutlived`
  without its restriction to servers that are up, which a crash would not
  preserve.
- `Covered` carries the refinement: a sub-request fails only when its server is
  down, processes do not come back, so what a search merges covers the servers
  that are up when the answer reaches the caller.

`PoolSuffices` assumes `SearchThreads * Cardinality(Nodes) <= PoolSize` (48 of
64 in the code). `ThreadsHeld` says that a node runs at most as many searches
as `cq1` has threads; `Joining` puts each task of its pool under one of them,
and so (`TasksBounded`) they are at most threads times servers.

**ConcurrentQueueProofs.** `QueueTypes`, `NoPopLost` (`PopNotLost`) and
`NoPushLost` (`PushNotLost`). The strengthening is `SawTruth`: what a thread saw before
it blocks stays true, as it holds the mutex, except for `closed_`. It is what a
blocking thread needs (the queue is empty for a consumer, full for a producer), and
what fails once the queue is closed, which is why both invariants are about
open queues.

**StartupProofs.** `StubsReady` (`StubsAreReady`), for any number of servers and
whenever etcd comes up. `LoadedFirst`: a server registers after it has loaded;
`WaitedForAll`: nobody leaves its wait with fewer answers than servers, and only
the balancer publishes; `KnowsRegistered`: each answer is empty or the address of
the server asked for, which has registered.

The same module has the balancer: `BalancerTypes` (`BalancerTypeOK`) and
`AloneTakesTurns` (`TurnsWhenAlone`), for any number of servers and of threads.
`QuietCounter`: while nobody is choosing, the counter is the stub chosen last,
since a thread stores before it loads and the last access of all is a load.
`AloneCounter`: while one thread is choosing alone, only its own store has moved
the counter. The first makes the second true when such a thread begins.

`SystemKeepsParts` carries these to `System`, bounds or not: each of its steps is a
step of `Startup` and leaves the balancer's threads alone, or the other way round.

**AdSearchProofs.** `SearchAnswers` (`AnswerAsSpecified`), `BestPlaces`
(`PlacesOptimal`), `ChargesBounded` (`NeverOvercharged`), `SearchTypes` (`TypeOK`)
and `BidsBound`, for any number of servers, any finite table, any request, any
tolerance (0 for the last) and any servers failing. The state machine is short, so
is its invariant: `SearchInv` says that each reply is one that `LocalReplies`
allows and the answer one that `MergedReplies` and `Billed` allow. What is left is
about operators:

- `Beaten(e, S, n, R)`: the advertisement of `e` is in `S` with an entry that is as
  good as `e`, or `n` others are. "As good" is any transitive relation `R` that the
  comparator and the heaps respect: `R` holds of two entries whenever the
  comparator lets the first stand before the second (`Fits`).
- `SortsOrdered`: a sort leaves no two neighbours the wrong way round, so, as `R` is
  transitive, no two entries; `DedupBeats` and `HeapBeats`: the entries that a
  removal of duplicates or a heap keeps beat all they drop; `BeatenTrans`: what
  beats an entry beats what that one beats. `LocalBeats` and `MergeBeats` put
  these together: the answer beats every row of a server that answered.
- Three senses of "as good" give the three properties. Any two entries at all
  (`AnyFits`): as many advertisements are returned as there are to return,
  also where the comparator goes round in circles. `WithinTolerance`, a score that is
  at most the tolerance less, gives the rest of `BestPlaces` and, with the
  monotonicity of rounding, `ChargesBounded`. `NotOutranked` gives
  `SearchAnswers`: the entry at place k has exactly k - 1 advertisements ahead of it
  in the reference ranking (`BilledInPlace`). The last two are transitive where
  scores are `Comparable`, which the properties assume, and which is all that
  they assume of the comparator.

`BidsBound` has no run of its own: while scores are compared exactly
(`Tolerance = 0`, where all scores are `Comparable`), a price is never above the bid, since the next score divided
by one's own rate is at most one's bid, before rounding and after.

**AdIndexProofs.** `FirstRows` (`IndexPointsToFirst`), `ScanStops`
(`ScanStaysClose`), `LookupFinds` (`LookupExact`) and `IndexTypes` (`TypeOK`), for
every file, every order the sort may leave and every lookup; the third for files
with `PricesFit`.
`Indexed` is the loop invariant: as the rows are sorted, the keyword indexed
last is the greatest so far, so a keyword that differs from it is a new one and
`kw2index` gets its first row. `Sought`: a scan looks for a keyword that some row
has, hence not for 0, hence it stops at the zeroed row behind the rows if not
before. For a lookup:

- `Loaded`: the lines kept and the rows are one to one, while they are read and,
  since a sort is a permutation, ever after.
- `HourBit`: `filterHour` finds the flag of the hour it is asked for in the byte it
  was packed into, for each of the 24 (`ByteBits` takes the eight bits apart).
- `Scanned`: the heap holds the best of the rows from the first of the keyword to
  the cursor that pass the filter (`PushedBest` for one push), and no row of the
  keyword comes after the one that ends the scan (`RowsOrdered`). `FoundExact`
  carries that over from rows to lines.

**GrpcBenchmarkProofs.** `CountCovers` (`CompareCountCovers`), `NothingElseMissed`
(`MissedOnlyBetween`), `NoVerdictHidden` (`VerdictInTime`) and `BenchmarkTypes`
(`TypeOK`), for any number of clients and requests. The first is inductive
given the shapes of the state. The others need to know where every request is:

- `Apart`: until it is collected a request is at one place, in the queue of its
  client, at its worker or among its calls. That makes `PendingCounts`
  inductive: `pending_num_` is the number of these requests
  (`Outstanding`), as long as the driver may still look at it.
- `Placed`: until `responses_` is closed, a request that was made is
  outstanding, or at a collector, the queue or the calculator, or counted.
- `Verdicts`: a rejection is on record in `interupted`, or still at the
  calculator.
- `Settled`: a wait that ended in time, without an interruption, found nothing
  outstanding, and nothing is added afterwards. With `CompareCountCovers` this
  leaves, when `Summary` finds the other counter at zero, only the `window`;
  `Windowed` carries that to the end of `Summary`.
- The bounds of the counters in `TypeOK` need two more. `TakenDown`: the wait sets
  `pending_num_` to zero, and after it each request that is still collected takes
  it down and leaves `Outstanding` for good. `Tallied`: a request is counted by
  `pending_compare_num_` only once it has left `Outstanding`, which bounds it from
  above; from below it is bounded by `CompareCountCovers` before the close and,
  since a dropped response leaves the counter where it is, by what is at the
  calculator after it.

**TestbenchProofs.** `Types` (`TestbenchTypeOK`, with the rates), `SharpestRate`
(`MaxQpsIsSharp`), `EarnedInOrder` (`LaterScoresNeedEarlier`) and
`StabilityPoints` (`ServiceScoreEarned`), for every configuration within the
assumptions and every service. `CoarseSearch` and `FineSearch` say where a batch stands: the first starts with nothing failed and
goes up from the rate that passed last; the second starts a coarse step below
the one rate that failed, or above the range when none did. `BestIsHighest`
says that the summary that would be returned now is that of the highest rate
that passed; together they give the invariant when the second batch ends.
`ScoredInOrder` says what the scores are before each test. For the points for
stability, `NoShareOfNothing` says that only a benchmark of no request has no
share of answers, and `QuotientZero` that it then had less than one request to make.

Only model-checked: all liveness (`AcceptedIsExecuted`, `DestructorReturns`,
`EverySearchEnds`, `ComesUp`, `CloseReleases`,
`WaitReturns`, `SummaryReturns`, `BenchmarkDestroyed`, `Finishes`), which would need fairness and
`ENABLED`. No safety invariant is left to TLC alone.

What recursive functions compute is proved without an induction rule for
operators: `Least` gives the least element of a set of naturals (from
`WellFoundedInduction`), `Induction` concludes from it that a set with 0 and all
successors is `Nat`, and each induction names its set. The modules that are proved
about declare no `RECURSIVE` operator.

## Findings

| Run | The code | What is said |
|---|---|---|
| `search_abort` | The event of `Finish` has `ok = false` when the caller is dead, and the server that takes it aborts: the crash of the balancer takes healthy servers down | `GPR_ASSERT(ok)`, `async_server.h:152`, `:166` |
| `ad_search_partial` | A `SearchLocal` that fails is printed, its reply left empty, and the answer returned with status OK | `alimama.proto:15`: all advertisements that match are returned when fewer than topn do |
| `grpc_benchmark_all` | A response is taken off one counter before it enters the other; `Summary` can close the queue in between and drop it | `grpc_benchmark.h:290`: waits for all requests |
| `startup_meet` | Any error but a missing key ends `EtcdGetKVWait` (`util.cc:117`) with an empty address, and `EtcdSetKV` drops the task and its error (`util.cc:127`): of processes that call etcd before it is up, some go on without the address they waited for, and others wait for ever for a key that was lost | `README.md:14`: a server that has loaded records its address, each server reads those of the others, and the balancer those of all before it shows its own |

Either call alone violates `AllMeet`: it fails if `GetFails` is left out, it fails
if a set waits for etcd, and it holds with both changes. With an empty address the
balancer can publish a service whose servers are all still loading, although it
waits "until the three servers have prepared their data" (`balancer.cc:89`).

Weaknesses that are part of properties that hold, since no text of the
repository denies them:

- `CloseReleases` and `BenchmarkDestroyed` except the thread a `Close` without
  the mutex misses: it sleeps for ever, and whoever joins it waits for ever.
- `SummaryReturns` excepts a notification lost between `Summary`'s test and its
  block.
- `VerdictInTime` excepts the rejection of a response that was outside both
  counters when `Summary` looked.
- `ServiceScoreEarned` excepts a service that failed at every rate: its highest
  rate counts as passed with a mean of nothing, the load of the stability test
  is then a share of zero, and the means of no requests fail no threshold. It
  gets 100 points for stability.
- `StubsAreReady` says nothing of a stub made of an empty address, and `ComesUp`
  lets those wait for ever who wait for a lost key. `startup_meet` checks what is
  promised without these two exceptions, and shows that the code breaks it.
- `ComesUp` says that servers listen some time, not that they do when the service
  is published: they register before they listen (`server.cc:139-161`). A search
  that comes in between fails or lacks their part (`ad_search_partial`).
- `MaxQpsIsSharp` is about the rates that the code's own test lets pass, and this
  test is not the configured one: `BatchFails` compares the mean score, in points,
  with the threshold of the success share, 0.999 (`test_search_service.h:105`),
  while `config.json:25` has a `sample_score_th` of 80. A rate with wrong answers
  can therefore be the highest, even if a lower one was right.
  `LaterScoresNeedEarlier` shows what it costs: `test_cases.h:71` applies the right
  threshold to the rate that was reported, and such a service gets no points for
  capacity, speed or stability. No property says that the search itself heeds the
  answers; it would be violated (`~WrongAnswers(reported, max_qps_cfg)` is).

Observations that no run checks:

- Searches that overlap need not take turns (`balancer.cc:38` says that they do):
  two threads that load the same counter go to the same server, and one whose
  counter is moved before its second load may pass a server over
  (`balancer.cc:40-43`). `TurnsWhenAlone` without `alone` fails with two threads.
- A bid is narrowed to 16 bits (`util.h:252`, `util.h:37`), while `gen_data.cc:109`
  draws bids up to 100000.
- `floatEqual` is not transitive. Rates are at least 0.000001
  (`util.cc:29`), and advertisements orthogonal to the request have just that:
  with bids of 1, 2 and 3 neighbouring scores count as equal and the outer two
  do not, so each of the three outranks another. The place of the best bid then
  depends on the order in which the rows arrive; without the
  `Comparable` in front, TLC finds `PlacesOptimal` and `NeverOvercharged`
  violated.
- The generators draw an index that may equal the number of keywords
  (`gen_data.cc:20`, `gen_test_case.cc:47`), one past the end.

## Not modelled

- *Vendored headers*: `json.hpp` (24,596 lines) and two copies of `csv.h` (1,199
  lines each) are nine tenths of the lines of the implementation. They
  are libraries, used to read one configuration and a few files; what the
  program gets from them is in `ReadConfig` and `ReadLine`. This is why the
  map covers a small share of all lines although it covers half of the
  program's own, and most of those outside generators and command-line clients.
- *Test-case readers*: `TestCaseReaderPreload` hands out its cases in a circle,
  which no property tells apart; `TestCaseReaderAsync` is constructed nowhere.
- *Pacing and latencies*: the token bucket is "the rate is kept", percentiles
  are any value.
- *Timer, logging, type names, command-line clients, data generators*: input
  and output with no state of interest. What the generators write bounds the
  inputs of the models.
- *Errors of `open`, `fstat`, `mmap` and malformed lines* of the data file.
- *A hung server*, see [assumptions](#assumptions).
- *Containers, build scripts*, except the order in which `run.sh` starts the
  processes.

## Plan

Done, in this order: the thread pool, the search service over it, ranking and
index, startup, the queue and the benchmark driver of the testbench; proofs
for the pool, the service and the queue. Then the balancer's counter, the
tolerance of the comparator, synchronous clients, the tests and their scores;
proofs for balancer, startup, index, benchmark and scoring, and of the pool's size.
Then every safety invariant left: the ranking and its charges (for which the sort
and the removal of duplicates were stated by positions and levels instead of
folds), the exactness of a lookup, the points for stability and the bounds of the
benchmark's counters.

Left:

1. That the rows `AdSearch` starts from are those `AdIndex` keeps, and the summaries
   of `Testbench` those `GrpcBenchmark` can return, as refinements instead of
   comments.
2. A server that hangs, once `SearchLocal` has a deadline that could answer it.
