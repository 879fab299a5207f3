# ShunyaKV in TLA+

ShunyaKV is a shared-nothing, in-memory key-value cache on Seastar. Every CPU
core is a shard with its own reactor thread, its own store and its own pool of
entry objects. Clients speak RESP over pipelined connections; a connection
lives on one shard, and a request for a key of another shard is forwarded.

This directory holds a TLA+ model of the parts where concurrency and
bookkeeping are hard, TLC runs on small instances, and TLAPS proofs for
instances of any size.

## The system

| Part | Source | State | Operations |
|---|---|---|---|
| Store | `src/kv_store.cc` | `_map`, the frames of the SETs in progress | `set`, `set_with_ttl`, `get`, `check_memory_and_evict`, the reaper's callback |
| Entry pool | `src/pool/object_pool.cc`, `include/ttl/entry.hh` | `pool_`, `probation_list_` and hand, `prob_count_`, `sanc_count_`, the entries | `acquire`, `release`, `promote_to_sanctuary`, `remove_from_probation`, `run_sequential_reaper` |
| SIEVE policy | `src/eviction/sieve_policy.cc` | `sieveList_`, `hand_`, `visited` | `on_insert`, `on_erase`, `on_hit`, `evict` |
| Connection | `src/conn/socket_handler.cc` | `_respq`, `_slots`, `_eof`, `_cv` | read loop, write loop, `process` |
| Commands and routing | `src/commands.cc`, `src/cmd_*.cc`, `include/hash.hh`, `src/node_info_helpers.cc` | requests on their way | `handle_request`, the handlers of SET, GET, QUIT, INFO and NODE_INFO, `shard_for`, `compute_hash_ranges`, forwarding with `submit_to` |
| RESP extractor | `src/resp/resp_stream_processor.cc` | the input buffer, `_st`, `_pos`, `_cmd_start`, `_slices` | `try_extract_request`, resynchronisation |
| Socket server | `src/conn/socket_server.cc`, `src/conn/connections.cc` | listener, list of connections, gate | accept loop, `stop` |
| Start-up and shutdown | `src/main.cc`, `src/router.cc`, `src/conn/orchestrator.cc` | started flags, handler, the phase of `init` | the chain of continuations in `init`, signals |
| Configuration and pool sizes | `src/config_loader.cc`, `include/dbconfig.hh`, `src/main.cc`, `include/pool/object_pool.hh` | the global `config`, the sizes of each shard's pool | `load_config_file`, the command line, the pool's `init` |
| Metrics | `include/shard_stats.hh` | counters | read only |

A SET acquires an entry object from the pool (or from the heap when the pool is
empty), which may run the reaper over the probation list; it fills the object
and puts it under its key, or hands the value to the entry already there, which
is promoted to the sanctuary; then it may sweep the sanctuary with SIEVE. A GET
promotes what it finds and removes what has expired.

What makes it hard: everything happens on one thread, but a coroutine may
suspend at every `co_await`. Eviction collects *keys*, suspends, and only then
takes the entries out of the map; meanwhile other requests overwrite, promote,
evict, recycle and re-insert the same objects, which are linked into two
intrusive lists with an iterator ("hand") each. `PROJECT.json` lists these
hazards at the lines where they bite.

## Modules

* `IntrusiveList`: a boost intrusive list as a sequence without repetitions, an
  iterator as the element it points to.
* `SievePolicy`: list, hand and their updates.
* `ObjectPool`: the pool as one record, an operator per member function.
  Objects in the pool have all been reset, so their queue is a set.
* `KvStore`: the shard. `fib` has a frame per SET: the point of the coroutine,
  the object it owns, the victim keys collected so far. `cpu` is the fiber that
  has the thread; it is given up exactly where the code awaits, and loops give
  it up every `YieldEvery` passes as `maybe_yield` does. GET never waits and is
  one step. `set` and `set_with_ttl` differ in the deadline only and are one
  action with `ttl = 0` for the former. `front()` on an empty pool and a
  dereferenced `end()` set `crashed`, and nothing runs afterwards.
* `ShardCache`: what the store promises: a table that may lose a key at any
  time, and SETs that take effect exactly once between call and return. `KvStore`
  refines it: the table is read off the map and the entries, a SET has taken
  effect when its fiber is past `try_emplace`.
* `PipelinedConnection`: both loops of a connection, the client, the network and
  the handlers. Requests are their numbers.
* `Session`: the connection with what its commands do. Every command is about one
  key, a SET makes a new version of it, and a handler reaches the store at some
  point between its start and its answer. `seen` is a history variable: the
  answers a client may have had when it sent a request.
* `ShardRouting`: a request from `handle_request` to its answer. Keys are their
  hashes, and a hash space of `Space` stands for 2^64; the store of a shard is a
  table that may lose keys, as in `ShardCache`. A command is its name and what its
  handler tells apart (`Rejects` has the argument checks). SET and GET run locally
  or are forwarded; INFO asks every shard and adds up what they report at
  different times, of which the model keeps the key count. The history variables
  `latest` and `past` say what each key has been, `kept` and `came` which keys have
  been there all the time and at some time since an INFO came; no action is guarded
  by them.
* `Service`: what clients get from all shards together: one table that may lose
  keys, on which a SET writes and a GET reads at one moment between call and
  return, and which no other command touches. `ShardRouting` refines it: the table
  has each key's value from the shard that owns it, and a command has taken effect
  when its answer is ready.
* `RespStream`: the extractor and the read loop that calls it, byte by byte, an
  action per case of the switch. A client's stream comes with what its pieces say,
  requests or malformed lines, and where they start, so that what the extractor
  makes of it can be compared; chunks are cut anywhere. `Says` is the grammar that
  ties the bytes to what they say, stated without the parser: where a number, an
  argument, a request and a malformed line begin and end.
  Numbers have the width of `int64_t` (`MaxInt`): a signed overflow in
  `parse_int_crlf` leaves any value.
* `SocketServer`: the process from start to exit. `init` is a phase that all
  shards go through before the next one begins; every shard has a server with
  its accept loop and gate; a connection is accepted, processed, and unlinks
  itself. Starting a store, listening and accepting may fail; a signal may come
  at any time.
* `Startup`: `SocketServer` from the launch on. `main` opens the first
  configuration file it finds, reads it line by line, lets the command line
  override the port, and only then runs `init`; a shard whose store starts sizes
  its pool from the configuration and its memory. A line is a key and what each of
  the parsers makes of the value, fractions are whole percents, and a conversion
  from `double` to `size_t` that does not fit gives any size.
* `MCKvStore`, `MCShardRouting`, `MCRespStream`, `MCStartup`: model values,
  symmetry, streams, launches.
* `ObjectPoolProofs`, `KvStoreProofs`, `KvStoreRefinement`, `SessionProofs`
  (session and connection), `ShardRoutingProofs`, `RespStreamProofs`,
  `RespStreamTrack`, `SocketServerProofs` (server and start-up): see "Proofs".

Operators named in a comment as mutants are seeded bugs (a dropped guard, a
missing unlink, a forgotten signal). Each property has one, and TLC finds the
property violated when it stands in for the operator of the code.

## Runs

| Run | Checks | Bounds |
|---|---|---|
| `store_prob` | types, ownership, lists, hands, counters, slots, refinement | 2 SETs at a time, 2 keys, pool of 2 and a heap object, threshold 1, a clock of one tick, TTLs 0 and 1, all `co_await`s and loops yield; one value, since the deadlines tell SETs apart (553,181 states) |
| `store_sieve` | lists, hands, refinement, every SET returns | no probationary pool; 2 SETs at a time, 2 keys, a pool of 2 and a heap object, a sweep budget of 2 with a yield after each victim, no TTLs (50,529 states) |
| `session` | order, slots, wake-ups, flushing, closing; what a command builds on; every request is answered, a hang-up closes | 2 slots, 3 requests of SET, GET and QUIT: the read loop blocks on the semaphore (408,789 states) |
| `routing` | one table over all shards, refinement of `Service`, forwarded reads stay coherent, INFO counts what was there, once, ranges tile the space | 2 requests at a time, 3 shards, 4 hashes: 3 does not divide 4, as it does not divide 2^64; SETs of two keys, GETs of all, every other command, and rejected ones (581,049 states) |
| `resp` | offsets stay sound, streams are understood however they are cut, every result consumes input, the loop gets to the end | 3 well-formed requests (one with an empty argument, one full of markers) behind each other, behind 14 malformed lines, and behind two of those; 3 streams with numbers too wide for `int64_t`; the limits 1024, 64 MiB, 4096 and 2^63 - 1 scaled to 2, 2, 6 and 15 |
| `startup` | nothing served before every shard is up and configured as asked, pool sizes that fit, nothing outlives its server, no connection slips past `stop`, connection count, a signal ends the process if the handlers return | 2 shards, 2 clients; 5 launches: no file, a file with comments, repeated and malformed lines, a file one level up with a port on the command line, a pool larger than the memory, a negative fraction; 20 units of memory, entries of 2 and more, `size_t` up to 60 (67,090 states) |

The bounds are chosen so that the pool runs empty, one SET runs while another is
suspended in the reaper or in the sweep, a sweep goes on after a yield, a victim is
overwritten, promoted and re-inserted between collection and extraction, and objects
are recycled while a list refers to them. `MaxProbCount` bounds `prob_count_`, which
the code lets drift: a fallback entry is counted but not linked, and only linked
entries are counted out. `CountsSound` bounds the counter from below only, so it does
not rule the drift out.

Six runs expect a violation; each states what a document, a comment or a test
says and the code does not do.

| Run | What happens |
|---|---|
| `store_acquire` | `pool_.empty()` is checked before the reaper suspends, `front()` called after it: while one SET is suspended, another one, below the threshold by then, takes the last object |
| `store_reaper` | a reaper with a budget above 1000 keeps its hand across a yield: it takes the last entry, which leaves the hand at `end()`, and while it is suspended another SET links a new one |
| `store_expired` | a plain SET over an expired entry keeps the old deadline: answered OK, gone at the next GET |
| `store_bound` | heap fallbacks are on no eviction list; the map outgrows the pool |
| `connection_drop` | the writer gave up; the reader goes on, uses up the slots and waits forever, so the connection is never closed |
| `routing_ranges` | `docs/commands.md:157` calls the bounds of a range inclusive and `docs/connection_model.md:162` says the shard owns it; with three shards the lower bound of a range belongs to the shard before (`RangesOwned`) |

The last one comes from rounding: `compute_hash_ranges` rounds the lower end of a
range down where `shard_for` needs it rounded up. A client that routes by the ranges
has such a key forwarded, so nothing is lost. `RoutingRangesOwned` proves that the
ranges are exact when the number of data shards divides 2^64, and `RoutingRangesNear`
that the lower bound is otherwise the only hash at the wrong shard.

Two disagreements have no run of their own. `docs/commands.md:99` and the comment at
`cmd_quit.cc:11` have the server close the connection after QUIT; the handler answers
BYE, nobody looks at it, and only a hang-up closes the connection. In the `session` run
QUIT is a command like any other. And the `soft_throttle` key assigns `false` whenever
its value parses (`config_loader.cc:168`, `Setting`), so the throttle cannot be turned
on. No document or test names the key, and nothing but the loader's log reads the
field, so `ServesAsAsked` is about the other fields (`UsedFields`).

In `store_reaper` and `store_acquire` the yield interval of 1000 is scaled down
together with the budget; what counts is which of the two is larger.

### Fairness

`KvStore`: strong fairness of each fiber's step. The reactor's run queue is FIFO, so a
fiber that becomes ready again and again is run; it is not ready while another one has
the thread, hence strong. GETs and new SETs are not fair. `SetCompletes` is checked
where it is least obvious, without a probationary pool: a sweep does not count the
visited entries it skips, and GETs mark entries again while it is suspended. The
reaper's passes are all counted. `PipelinedConnection` and `Session`: weak fairness of
`process` and the two loops; the two-second timer ends a wait for a handler that never
answers, so handlers need no fairness. Fairness of the writer's write and flush means
that the client reads what it is sent, or that its socket breaks: a client that does
neither stops its own connection, and `RequestsAnswered` and `HangupCloses` say
nothing of it. `connection_drop` also assumes that the client hangs up in the end
(`PoliteSpec`), which only makes the violation stronger. `RespStream`: weak fairness
of the whole: the client's stream ends, and the reactor runs the loop. `SocketServer`:
weak fairness of `init`, of each accept loop's own steps and of a connection that
leaves the gate; clients, errors and signals owe nothing. `Startup` adds weak fairness
of loading.

Handlers owe nothing either: `connection_drop` shows a read loop that never returns,
and such a connection holds up `stop` for ever. So `SignalExits` is conditional. If
every handler whose socket has been shut down returns (`HandlersReturn`), a signal
ends the process, whenever it comes.

## Proofs

Every invariant below is proved as a theorem of its own, from one inductive
invariant per component, for every value of the constants that the named
assumptions allow.

**Store** (`KvStoreProofs`): `StoreTypes`, `StoreOneOwner`,
`StoreKeysAgree`, `StoreListsSound`, `StoreHandsSound`, `StoreCountsSound` and
`StoreSlotsConserved`, for every set of keys, values and fibers, every finite set
of entry objects, and every pool size, percentage, threshold, budget and yield
interval (`PoolAssumption`, `StoreAssumption`). The inductive invariant `IInv`
adds

* `PoolOK(pool, Used)`: the pool's bookkeeping relative to the set of objects in
  use, which are the mapped ones and the ones fibers hold. It is what every pool
  operator preserves, so it is proved once per operator in `ObjectPoolProofs`,
  from lemmas about lists;
* `Frames`: what a fiber owns at each point of its coroutine. Without it nothing
  says that a fiber coming back from a sweep holds no object, or that only a
  store with a probationary pool reaches the reaper;
* `SweepHand`: the hand is at `end()` of a non-empty list only during a sweep.

A step changes ownership in one of five ways (nothing, an object acquired,
mapped, returned, or dropped from the map). Each is one lemma, and each action is
shown to be one of them.

**Refinement** (`KvStoreRefinement`): `StoreImplementsCache`, the store is a
`ShardCache`. The mapping needs `HeldFresh` beyond `IInv`: an idle fiber has no
request, and an object that is held and not yet mapped carries no deadline of an
earlier key, so the deadline a new entry gets is the SET's own. Every action of the
store is shown to be one step of the cache: `try_emplace` applies a SET, an
extraction loses a key, everything else but call, return and tick leaves the cache
alone. Sweeps and reapers are in the last group until they extract, however long
they hold their victims' keys.

**Connection and session** (`SessionProofs`): `ConnectionTypes`,
`ConnectionAnswersInOrder`, `ConnectionSlotsBalance`, `ConnectionNoLostWakeup`,
`ConnectionIdleMeansFlushed` and `ConnectionCloseWaits`, for every in-flight limit
and any number of requests. The invariant says that the answers written, the
request the writer holds and the queue are the numbers `1..taken` in a row;
`Settled` says that a written answer's handler is over.
`SessionImplementsConnection` carries all of this over to sessions, and
`SessionAnsweredBeforeSent` follows because versions only grow and a handler that
is over does not reach the store: what was answered when a command was sent has its
version, and the command gets its own later.

**Routing** (`ShardRoutingProofs`): `RoutingTypes`, `RoutingOneTable`,
`RoutingReadsCoherent`, `RoutingInfoCountsOnce`, `RoutingRangesTile`,
`RoutingRangesNear`, `RoutingRangesOwned` and `RoutingImplementsService`, for every
number of shards, every first data shard, every hash space with a hash per shard and
every set of requests (`RoutingAssumption`; `AbsentAssumption` says that `Nil` is no
request). The invariant adds `InFlight`, what is known of a request at each point: the
value its key has now is in `past`, only a SET or GET with a key is forwarded, only
INFO collects. The ranges come from what integer division does (`DivFacts`): a hash
`h` is advertised in range `i` exactly when `Space*i < (h+1)*D <= Space*(i+1)`, which
at most one `i` satisfies, and `shard_for` picks the `j` with `j*Space <= h*D <
(j+1)*Space`, so `i` is `j` or, when `h` is the first hash of the range, `j+1`. The
latter cannot happen when `D` divides `Space` (`Even`).

`InfoCountsOnce` is about a sum taken at as many moments as there are shards: it is at
least the number of keys, of the shards that have reported, that were there all the
time, and at most the number of those that were there at some time. It needs `Enclosed`
beyond `IInv`: what the table has now lies between `kept` and `came`. A shard that
reports adds its keys, which by `OneTable` are hashes of no other shard, so both bounds
grow by their share (`CountCollected`); a key that is stored or lost later moves only
the bound that it should (`CountStored`), and all else leaves the count alone
(`CountUntouched`).

That the shards implement `Service` needs `Waiting` beyond `IInv`: a request that is
not answered has found nothing, and one that was forwarded has passed its checks.
`OneTable` is what makes an eviction a step of the service, since only the owner of
a key can lose it (`LoseStep`). `local_set` and `local_get` on the owner are the
moments where a command takes effect (`ExecuteStep`); forwarding and the rounds of
INFO leave the service alone (`HandlerStep`).

**Extractor** (`RespStreamProofs`, `RespStreamTrack`): `RespTypes`, `RespOffsetsSound` and
`RespResultsConsume`, for every set of streams and every limit
(`RespAssumption`), overflowing numbers included. `IInv` adds that the parser is
at most at the end of the buffer, that a request that has begun has its `*` at
`cmd_start`, that the arguments found so far lie one behind the other between that
and `pos` (`SlicesSound`), and that the results, the bytes that have not arrived
and the bytes from `Base` on (those that no result has used up) are together no
more than what the client sent.

`RespStreamUnderstood` says that the extractor returns what was sent, for every
stream that `Says` describes, every way of cutting it into chunks and every limit
(`StreamAssumption`). The invariant `Tracked` relates the parser to the place in the
stream where it is:

* `Faithful`: the buffer and the bytes to come are parts of the stream, at an offset
  that grows when `compact_if_needed` and resynchronisation drop bytes;
* `Said`: the results so far account for the first `m` pieces, where errors in a row
  count as one, because chunks that cut a malformed line make it two;
* `BetweenPieces` or `InPiece`: in `NeedStar` the parser is at the start of a piece,
  or still inside a malformed one that has had its error; in any other state it is
  in piece `m + 1`, whose `*` is at `cmd_start`, there is a `Layout` of the piece
  whose next argument is the one the parser is in (`InArgument`), and the slices are
  the arguments that were sent (`SlicesTrue`);
* `Idle`: when the loop waits and nothing is to come, the parser is at the end.

The steps rest on two kinds of lemmas. A line and a number that start at a given
offset end at one place only (`LineUnique`, `NumberUnique`), so the parser finds the
lengths that the layout has, and the bytes of an argument, line breaks and markers
included, are never looked at. And `Without`, from which `Good` and `Collapse` are
made, goes along with `Append` and `SubSeq` as one expects: an induction over a
recursive function by its least counterexample (`LeastNat`), since the library's
induction theorems are
out of reach. `Value`, which says what a string of digits is worth, needs none: the
grammar and `parse_int_crlf` apply it to the same digits.

**Server** (`SocketServerProofs`): `ServerTypes`, `ServerReadyFirst`,
`ServerNoneOutlives`, `ServerStopReachesAll` and `ServerCurrentIsLinked`, for every
finite number of shards and clients (`ServerAssumption`).
That nothing refers to a server when it is
destroyed rests on `GateCounts`: the gate's count is the accept loop's share (two
during a round, one between rounds) plus the handlers that run, exactly. So an empty
gate means an ended loop and no handler (`UnusedFacts`), which is what `stop` waits
for. `PhasesOK` says what each phase of `init` finds done on every shard,
`AcceptedOK` that a connection between `accept` and its handler is the one its
shard's loop has got, and `AcceptsReady` that a loop runs only when all services are
up. `BusyStep` and `ConnStep` carry most of the steps: whatever a loop or a
connection does, its server is in use.

**Start-up** (`SocketServerProofs`): `StartupImplementsServer` carries the server's
theorems over. `StartServesAsAsked` and `StartPoolsSound` hold for every set of
launches, every memory and every entry size (`StartupAssumption`). `LoadInv` says that
`config` is what the lines read so far leave (`Left`), and that nothing runs before
loading is over. What a line says (`Says`) is stated from the value that the parser of
the key's type finds, without the loader's assignments (`Setting`); that the two
agree, for the fields in use, is `SaysFacts`. `PoolInv` says that a shard has sized
its pool exactly when its service is up, from the `config` that is in force. That the
sizes fit rests on what rounding down does to a share (`ShareFacts`) and to a quotient
(`QuotientFacts`): `SizesFacts` chains them from the memory to the pool, its
probationary part and the threshold.

Only model-checked: the liveness properties `SetCompletes`, `RequestsAnswered`,
`HangupCloses`, `Drains` and `SignalExits` (fairness is outside what TLAPS does) and
the six violations. Every other property of a run is a theorem.

## Not modelled

* Exceptions from allocation failures inside `acquire` (logged and rethrown). In
  `Startup` a pool that the memory cannot hold makes its shard's start fail.
* `evict_ttl_keys` and the TTL heap have no caller.
* The hard trigger on memory: `check_memory_and_evict` reads the numbers and does
  not use them.
* `KvStore` takes the pool's size as the constant `MaxSize`, and percentages as
  constants; `Startup` computes them. The branch of the pool's `init` for a size
  given by its user is never taken: the store makes a `CacheEntryPool{0}`.
* Fractions of a percent, and the rounding of `double`: `Startup` calculates
  exactly. The sizes of a page and of a key are assumed to be such that an entry's
  size does not wrap around in `size_t`.
* The characters of a configuration line: trimming, `from_chars` and `stod` are
  what each parser makes of a value.
* Malformed lines end with a line break and have no `*` inside, so that what they say
  is defined (`MalformedAt`). `StreamUnderstood` is about streams of those and
  requests only, and not about wide ones; the other properties of the extractor are
  proved for every stream.
* `Session` has one key and one client. Other clients and evictions, which
  `ShardRouting` and `KvStore` have, would only add versions.
* `resp_parser.cc` is not used by the server; `resp_writer.cc` only formats.
* Metrics, the text of answers, FNV-1a: nothing else depends on the first two, and
  any function from keys to hashes would do for the third.
* `server.cc`, `service.cc` and `metrics_logger.cc` are not part of the build.
