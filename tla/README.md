# A TLA+ model of the cht crawler

`cht` is a crawler for the BitTorrent DHT: one process, one UDP socket, one libuv event loop. It
answers what other nodes ask, keeps a table of nodes it heard of, and chases the infohashes that
it is asked about from node to node. This directory holds TLA+ modules translated from `src/cht`,
TLC configurations, and proofs for the TLA+ proof system (TLAPS).

The repository has no tests and no README. Its documentation is its comments, assertions and
trace texts; the findings below quote those. The source at this commit is in the middle of a
change of the type `Nih` (members in some files, methods in others), so the model reads
`nid.checksum` and `nid.checksum()` as the same last four bytes.

## 1. Inventory

| component | state | operations | what makes it correct |
|---|---|---|---|
| spam filter (`spamfilter.cpp`) | three sparse maps key -> tokens | `withdraw`, `replenish` | no key gets more than its bucket and refills; erased = full |
| routing table (`rt.cpp`) | 65536 cells in a shared file mapping | insert, delete, two lookups, load | an id comes with the address it was announced with; a scan finds what is there |
| get_peers manager (`gpmap.cpp`) | 65536 cells, one per token | take, register, extract, clear | a reply is matched to the query it answers |
| next-hop choice (`gpmap.cpp`, `util.cpp`) | none | `dkad`, `find_best_hops` | the nearest plausible nodes, in order |
| buffers (`main.cpp`) | two pools, a map, what libuv holds | `cb_alloc`, `cb_recv_msg`, `send_msg`, `cb_send_msg` | one owner each; no stale fields; no overwrite in flight |
| parser (`krpc.cpp`) | parse state, keys seen, kinds left, fields | `xdecode`, `validate`, `clear` | what is accepted has what its handler reads |
| server (`main.cpp`) | all of the above, counters | `handle_msg`, two timers | budgets, accounts, no contact mixed up |
| writers (`msg.cpp`) | none | six writers | what is written is read as what was meant; a reply finds its query; it fits its buffer |
| UTF-8 check (`util.cpp`) | an index | `is_valid_utf8` | the definition of UTF-8; no read past the datagram; it ends |
| statistics (`stat.cpp`), control (`ctl.cpp`) | counters, two histograms, copies of the counters, two schedules, a window, two files that outlive the process | `st_init`, `st_inc`, `st_set`, `st_click_*`, `st_rollover`, the hook | every count in one period; schedules do not slip; files that can be read by their headers |

Interaction. libuv calls `cb_alloc`, then `cb_recv_msg`; that asks the spam filter, calls the
parser and `handle_msg`, which calls the routing table, the get_peers manager, the spam filter and
`send_msg`; libuv calls `cb_send_msg` later. The statistics timer (1 s) runs `st_rollover`, which
replenishes the spam filter; the bootstrap timer (250 ms) sends a `find_node` to a fixed node.
There is one thread, so a callback is atomic towards other callbacks.

What is hard: datagrams are lost, repeated, late and made up; tokens are reused while older
queries are in flight; buffers are shared with libuv between callbacks; the table outlives the
process and the process may die inside a write; sends fail at once or later; sparse tables stand
for full ones; the parser keeps state from key to key; the CSV files are written by several lives of
the process. `PROJECT.json` lists these as hazards, each
at its line.

## 2. Modules

| module | models | state and actions |
|---|---|---|
| `CTMap` | class `CTMap` | operators on a map: `CanWithdraw`, `Withdrawn`, `Replenished` |
| `SpamFilter` | the three tables and their callers | `SpamCheck`, `SpamRunEpoch`; history of tokens spent |
| `TokenBucket` | abstract: full-size buckets | `Grant`, `Refuse`, `Refill` |
| `RT` | class `RT` | operators on a table: `Inserted`, `Deleted`, `random_valid_node`, `neighbor_contact` |
| `RoutingTable` | the table over time | the operations, `CrashInSetCell`, `Restart` |
| `NextHops` | `dkad`, `find_best_hops` | operators |
| `BestHops` | the loop of `find_best_hops` | one step per node: `Call`, `Scan`, `Return`, `Done` |
| `GPMap` | the cells of `gpmap.cpp` | operators `taken_tok`, `registered`, `lookup_tok`, `clear_tok` |
| `GetPeers` | the Q_GP and R_GP handlers on those cells | `QGp`, `RGpValues`, `RGpNodes`, `AskHop`, `SkipHop`, `BreakHops`, `Tick` |
| `Buffers` | ownership of buffers and requests | one action per callback and outcome |
| `Krpc` | `xdecode` and `validate` | one step per bencoded element |
| `Server` | the whole of `main.cpp` | composes `RT`, `GPMap`, `NextHops`, `CTMap` |
| `Bootstrap` | the way to the first contact | composes `RT`, `CTMap`, and a lossy network |
| `Wire` | the writers of `msg.cpp`, and what the parser meets | extends `Krpc`: `AskPing`, `AskFindNode`, `AskGetPeers` write a query, `Read` hands its elements to the actions of `Krpc` one by one, `HandleQuery` writes the reply, which is read in turn; `AskForeign`, `AskGarbled`, `AskAnything` are other senders |
| `Utf8` | `is_valid_utf8` | one action per branch of the loop |
| `Stat` | `stat.cpp` and the hook of `ctl.cpp` | `StInit`, `StInc`, `StClickDkad`, `StClickGpNHops`, `StRollover`, `Die`, `DieBetweenRows` |
| `SpamFilterProofs`, `RoutingTableProofs`, `GetPeersProofs`, `BuffersProofs`, `WireProofs`, `ServerProofs`, `Utf8Proofs`, `StatProofs` | | theorems and lemmas about the module of that name; `ServerProofs` also about `BestHops` |

The components are written as operators on a value (a map, a table, an array of cells), and the
state machines apply them; `Server` and `Bootstrap` apply the same operators, so a component's
translation exists once. `MC*` modules give the constants of the runs.

Data is abstracted to what the properties tell apart. A node id is its cell (first two bytes), its
checksum (last four, which is all that `==` compares) and the rest. An infohash in `Server` is also
a node id, and its distances and its XOR with an address are given as functions, so that the
components stay independent of the bit arithmetic that `NextHops` models on its own. In `Krpc` a
string is a name and a length, bit sets are sets, and error codes are one status. `Wire` gives that
parser real messages: an id is five parts (the first four bytes and the sixteen after them), each a
set of bits, so that the mask of `write_sid` is what it is, and the sizes are counted in bytes. In
`RoutingTable` the middle of an id and its checksum are strings of bytes, since a death may split them
anywhere. In `Stat` a counter is its place in the enumeration, as in the code; some only grow and some are
set by the spam filter. A header is a sequence of names and a row a sequence of values: nothing but the
position ties the two. The time in a row is the wall clock's and has nothing to do with the steady clock
of the periods.

In `Server` the sum of the drop counters is one counter, and the early returns of `cb_recv_msg`
before the spam filter (an empty read, an error, a short or a clipped datagram) change none of the
modelled state; they are in `Buffers`.

## 3. Runs

Passing runs:

| run | checks |
|---|---|
| `spam` | `TypeOK`; `Budget`: tokens paid never exceed a bucket and its refills; `ImplementsBuckets`: the sparse maps refine `TokenBucket` |
| `routing` | `Origin`: a contact handed out was announced with that id and address together; only from a cell of which a death cut short the last store may come something else, and every byte of that is zero or of a contact announced for that cell; `TornBound`: at most one torn cell per death; `ScanComplete`: a start in 1..RT_SIZE-NCells finds a node iff there is one |
| `hops` | `BestIsSorted`: the loop invariant of the insertion with displacement, against a rank; `FillerIsFirst`: after the plausible nodes only copies of node 0; `NearerByBytes`: more equal leading bytes, nearer |
| `getpeers` | `CellsQueried`: a set cell describes one query that was composed with its token, sent or not, and none registered later; `Attribution`: a reply is pursued only for such a query to its sender; `OverflowIsBusy`: `take_tok` fails only when every token was given out within the timeout; `Chain`: hops form chains |
| `buffers` | `FreshBuffer`: no buffer with fields of an earlier datagram; `OneRecvBuffer`: the pool is one buffer many times, and it is the one in use; `OneOwner`: a request is the pool's or libuv's, or nobody's after an early error, never two of these; `InFlightIntact`: what libuv has is not overwritten |
| `server` | `Accounts`: totals equal sums by kind; `SpamBudgets`: pings, chases and handled datagrams stay within their budgets end to end; `FirstHand`: no hearsay in the table; `HandsOutHeard`: no contact is mixed up |
| `bootstrap` | `Bootstrapped`: a first contact is found; `KeepsPinging`: an empty bucket is never the last word |
| `wire` | `HandlerFields`: an accepted message whose string keys had string values has the fields that its handler dereferences; `MethodAmongKinds`: the two classifications agree; `WhatAborts`: which messages fail the assertion of `validate` or make it read a null token, and that no other does; `Understood`: every query and reply of a crawler is read by another one as the kind that was meant, whatever tok it has, none meets the `assert(0)` of `xdecode`, and an announcement, which is refused, is never taken for something else; `Attributable`: mask of mask is the id that was asked, so `lookup_tok` finds the cell; `RepliesFit`: no reply is too long for the send buffer or too short for `MIN_MSG_LEN` |
| `utf8` | `Correct`: the answer is that of the definition by code points (without U+FFFE and U+FFFF), although the unsigned bounds of short names wrap around; `InBounds`: at most one byte past the name is read; `Ends` |
| `stat` | `PeriodsAddUp`: every count is in the difference between `st_get` and `st_get_old` at one rollover, the periods cover the life (the hook of this commit takes no difference: `ctl.hpp:16` says what it is for); `Schedule`: heartbeats and rows come every X rollovers, whatever files fail to open; `CleanFile`: in a file that `st_init` could create, the value at a position is what was counted of the name that the header has there, there is one header, the rows are of one life and counts never shrink (of times nothing is said: `time(0)` may go back) |

Runs that show a disagreement with a comment or trace of the source:

| run | the source says | the code does |
|---|---|---|
| `getpeers_vacant` | `gpmap.hpp:40` "Reserves a vacant token." | tests the cells from the first, returns a token counted from a random one |
| `getpeers_extract` | `gpmap.hpp:65` "deletes the entry if one is found" | `unset_cell` assigns false only to what is false |

Observations that the models contain but no run states:

- within the first byte that differs `dkad` subtracts the position of the highest set bit, so of two
  ids that share the same leading bytes the farther one gets the smaller number (`util.cpp:87`; the
  comment at line 77 says "Takes the log kademlia distance"; `NearerByBytes` is what is left of the
  order);
- an unknown key of a length that no known key has leaves `current_key` as it was, and its value
  goes to the field of the key before it (`krpc.cpp:218`, where the trace says "ignoring");
- the case of `announce_peer` has no `continue` and fails as an unknown query (`krpc.cpp:391`), and
  `validate` would refuse the token that `r_gp` hands out as well (`krpc.cpp:570` wants a length other than 1);
- the rows of the auxiliary file stop below the last hop that its header names, so lookups that
  found peers there are counted and never written (`stat.cpp:166` against line 66);
- `SID4` is part of a mask, so under `MSG_CLOSE_SID` the fourth byte of the id shown to a node never
  matches the node's own, where `main.cpp:399` says "matching nids to 4 bytes";
- `get_random_valid_node` never scans the cells before `start` and scans nothing for `start = 0`
  (`rt.cpp:167`, hence the bounds of `ScanComplete`);
- a query of hop `GP_MAX_HOPS + 1` is sent before `register_q_gp_ihash` refuses it (hence the type of
  `Query` in `GetPeers`);
- a key whose value is not a string counts as seen while its field stays null (hence `typed` in
  `HandlerFields`);
- a truncated message meets `assert(0)` (`DataEnds`);
- the assertion of `krpc.cpp:554`, that no message is both a query and a reply, fails on a message with `id`
  and `t` and no `a`, `q`, `r` or `y`, which any node can send; and `krpc.cpp:570` reads the first byte of a
  null pointer when an announcement (by `name` or `implied_port`) has an infohash and no token (`WhatAborts`
  names these messages and no others);
- nobody looks at what `send_msg` returns (`main.cpp:258`, `main.cpp:363`): a query that it refused is
  registered all the same, so a made-up reply of a node that was never asked is pursued (hence `sent` in
  `GetPeers`), and the comment "The last peer we contacted" (`gpmap.cpp:22`) holds of a composed query only;
- `insert_contact` counts an address that does not validate and stores it (`rt.cpp:92`), so lookups hand it
  out and `send_msg` refuses it;
- an id whose last four bytes are zero reads as an empty cell, also right after it was stored (`rt.hpp:48`);
- a file that `st_init` could not create keeps the rows of an earlier life, and later rollovers append
  to it (hence `opened` in `CleanFile`);
- the 97th byte of `Q_GP_PROTO` is sent and never read (`q_gp`).

Outside the models:

- `err_rx_exc` has no column (the loops over counters stop at `ST__ST_ENUM_END - 1`);
- `main.cpp:409` prints `STAT_CSV_FN` where the auxiliary statistics go to `STAT_AUX_FN`;
- the R_PG case of `server.hpp` inserts the port in host byte order.

### Bounds

Sizes are small and their relations those of the source. `spam`: buckets of 3, one table whose
request costs a token and one whose request costs the bucket, 4 epochs, so that a counter empties,
refills, is erased and empties again. `routing`: 2 cells of 3 bytes, so that the scan wraps, ids
that compete for a cell, checksums of two bytes, so that a death may leave one that is nobody's, a zero checksum, an
invalid address, 2 deaths, each at any subset of the stored bytes. `hops`: hashes of three
bytes of two bits, replies of up to 4 nodes for 2 places. `getpeers`: 2 tokens, 2 nodes, 2
infohashes, `GP_MAX_HOPS` 1, 4 queries, each sent or not, a timeout of one tick: enough for two queries of one token
in flight, a full table, and a chain past the limit. `buffers`: 4 datagrams, 3 requests, 2 messages.
`server`: 3 contacts (one invalid), 3 datagrams, an epoch, a bootstrap callback and a tick, an empty
and a filled table, a spam key per address, which lets a chain of next hops pass `GP_MAX_HOPS`
within the three datagrams; deadlock is not checked there, because only the bounds stop the
behaviour. `bootstrap` has no bound but its buckets.

`wire`: one bit for each part of an id (all 32 ids), toks of other nodes of 0, 1, 10 and 32 bytes
(none, as short as ours, where the length takes a second digit, the longest), a ping cut after every
element; of anybody's datagrams 5 different known keys, which every kind of message fits into, with
unknown keys and repetitions unbounded. `utf8`: 20 bytes, the ends of all ranges that code or
definition tell apart, in names of up to 4 bytes, which have every branch at every distance from the
end; the loop's decision depends on nothing before `ix`. `stat`: heartbeats every 3 and rows every 2
rollovers, 4 rollovers in each of 2 lives, so that both schedules come round and each is off the
other; every set of files fails at every rollover. There are four counters: the first
and the last are in no row, as in the code, and the last is the one that the spam filter sets; between them one
stays zero and one counts. One distance and three hops are enough for a row to be shifted against its header or to fall short of
it; the wall clock gives one value, since no property compares times. A life is followed up to its last rollover. `utf8` and `stat` do not check deadlock: the
first ends, and the bounds on lives and rollovers end the second.

### Fairness

`Utf8` assumes that the loop, once entered, runs on (weak fairness of its steps): a function call is not
interrupted for good.

In `Bootstrap`, weak fairness of the two timer callbacks: libuv repeats them as long as the loop
runs, and the loop never blocks in a callback. Strong fairness of the two nodes' answers and of the
arrival of their replies is an assumption on the network: not every datagram of a kind that is sent
again and again is lost. Nothing is assumed about the order of the two timers. Without the
replenishment in `st_rollover` both properties fail (they are the mutants).

## 4. Proofs

All proofs are checked by TLAPS with the SMT, Zenon and LS4 backends, for every value of the
constants that satisfies the named assumptions of the modules.

- `SpamFilterProofs`, from `TableAssumption` (the `static_assert`s of `withdraw` and `replenish`):
  `SpamTypeCorrect`, `SpamBudget`, `SpamImplementsBuckets`. The argument goes through the *level* of
  a key, the stored counter or a full bucket. Lemmas say what `Withdrawn` and `Replenished` do to a
  map (`WithdrawnFacts`, `ReplenishedFacts`) and what the two actions do to levels
  (`SpamCheckFacts`, `SpamRunEpochFacts`). `Budget` is inductive together with `TypeOK`: a grant moves
  tokens from level to spent, a refill adds at most `REPLENISH` to a level and `REPLENISH` to the
  bound. The refinement maps a granted check to `Grant`, a refused one to `Refuse`, an epoch to
  `Refill`.
- `GetPeersProofs`, from `GPMapAssumption` and `GetPeersAssumption`: `GetPeersTypeCorrect`,
  `CellsAreQueries`, `RepliesAreAttributed`, `OverflowsAreLoad`, `HopsAreChained`. The inductive invariant is
  `IInv = TypeOK /\ Past /\ CellsQueried /\ Attribution /\ Chain`, where `Past` says that no query is from the
  future, so that the one being registered is the newest. No part is inductive alone: `Attribution` of
  a reply comes from `CellsQueried` of its cell, `Chain` of a next hop from `Attribution` of the reply
  in hand, and both need that `queried` only grows. `TakeTokFacts` (with `MinIsLeast`,
  that a non-empty set of naturals has a least element) says that a token taken is a token; `UnsetIsIdentity` and `ClearIsIdentity` that `unset_cell`
  changes nothing.
- `RoutingTableProofs`, from `RTAssumption` and the assumptions of `RoutingTable`:
  `RoutingTableTypeCorrect`, `LookupsAreHeard`, `OneTornCellPerCrash`, `ScansFind`. `Origin` speaks of
  what a lookup handed out, perhaps many steps ago; the inductive invariant adds the same statement about
  each cell of the table: `CellsHeard`, a cell whose last store completed is empty or holds a contact that was
  announced, and `CellsMade`, every byte of a cell is zero or of a contact announced for it. `CutBound` counts
  the cells whose last store was cut short, among which the torn ones are; `ScanComplete` follows from the types and
  arithmetic: a scan of `RT_SIZE - start` bytes meets every residue of the number of cells.
- `BuffersProofs`, from `BuffersAssumption`: `BuffersTypeCorrect`, `BuffersAreFresh`,
  `RecvBufferUnshared`, `RequestsOwnedOnce`, `InFlightUntouched`. The invariant is
  `RecvInv /\ SendInv`. On the receiving side `LoopState` ties what libuv holds to the phase of the
  event loop: inside a callback it has the buffer on top of the pool, which is why pushing it again
  is harmless. On the sending side `OneOwner` and `InFlightIntact` need each other: that a request is
  in flight once is what the content of its buffer says, and the content is kept because the request
  stands nowhere else.
- `WireProofs`, from `KrpcAssumption` and `WireAssumption`: `ParserTypeCorrect`, `HandlersHaveFields`,
  `VerdictAmongKinds`, `AbortsAreNamed`, `WritersUnderstood`, `RepliesAttributable`, `EveryReplyFits`, all
  under the specification in which other crawlers and anybody else write to the parser. The
  parser's part `KInv` says all along that a key that was seen has its value or that its value comes
  next, and that a kind of reply is only ever ruled out by a key of another one. The conversation's
  part follows a message element by element: after p elements of a query or reply the parser is where
  the writer's first p elements put it, for each kind of message. `Attributable` rests on the mask of
  `write_sid` being its own inverse, `RepliesFit` on the sizes of the elements, which are summed for
  every kind. `WireAssumption` says of other nodes that a tok is at most `MAXLEN_TOK` bytes long and that
  they ask the queries the protocol has; longer toks and other messages are those of `AskAnything`.
- `ServerProofs`, from `ServerAssumption` (contacts and tables are those of the routing table; an `R_GP`
  that `validate` lets through has the tok of a cell; the `static_assert` of `withdraw`):
  `AccountsBalance`, `BudgetsKept`, `TableIsFirstHand`, `ContactsHandedOutWereHeard`, each from
  `ServerInvariant`, the inductive invariant
  `IInv = Types /\ AllHeard /\ Levels /\ Accounts /\ FirstHand /\ HandsOutHeard`. `AllHeard` (every cell
  that is not empty was announced) is what makes `HandsOutHeard` inductive, and `Levels` is `SpamBudgets`
  with what is left in each bucket: what was paid and what is left never exceed the bucket and its
  refills. A callback is a chain of calls on one record; the predicate `Sound` holds of that record
  when the callback starts (`NowSound`) and every call keeps it (`SendSound`, `InsertSound`, `PingSound`,
  `PursueSound`, `NextHopSound`), the two loops by the least iteration that would not (`SweepSound`,
  `HopsSound`), and so every handler (`HandlerSound`). `CommitFacts` turns the record into the next
  state, where the datagrams of the callback are added to the accounts of what was sent.
- `Utf8Proofs`, from `Utf8Assumption`: `ReadsStayInBounds` and `AnswerIsRight`, for names of any
  length. What bounds the reads is that the bytes are looked at in order and the byte after the name, the
  first of an element, is below 0x80, so it ends every sequence that would run over it. The invariant
  `Inv` adds that the byte is never changed and that `ix` is at most the length of the name. For the
  answer, `Right` says that while the loop runs the name is valid exactly when its rest from `ix` on is.
  `WellFormed` is defined by recursion over places; `ValidSolves` shows that this recursion has a
  solution, for any length: a place is good when some set of places has it and every member but the end
  is followed, one encoding later, by another member. From there on only the equation of one place is
  used (`ValidStep`). `EncodesOne` to `EncodesFour` turn the definition by code points (shortest, no
  surrogate, not U+FFFE or U+FFFF, at most U+10FFFF) into conditions on bytes, and `TestsAreRight` says
  that the tests of a branch are those; `Branches` that the wrapped bounds leave no encoding out.
- `StatProofs`, from `StatAssumption`: `StatTypeCorrect`, `HooksSeeEverything`, `SchedulesKeep`,
  `FilesAreClean`. The inductive invariant is `IInv = Types /\ Down /\ PeriodsAddUp /\ Schedule`; `Down`
  says that a process that is not running has nothing, which makes the next `st_init` start from zero, and
  `RowOrMiss` that a rollover adds a row or a miss to each file exactly when one is due. For `CleanFile`
  the invariant `Files` stands on top of it. `CsvColumns` and `AuxColumns` compute the name at each position of
  the headers, `CsvCounted` and `AuxCounted` what is counted of it, so that `CsvRowFits` and `AuxRowFits` are
  about positions only; and the last row of a file of the present life is at most the counters, so the next
  one can only be larger (`CsvGrows`, `AuxKept`).

- The last part of `ServerProofs`, from `HopsAssumption` and `BestHopsAssumption` (targets and nodes are
  hashes), about `BestHops`: `BestHopsAreSorted`, `OnlyFirstFills`, `BytesDecide`. It stands there because
  the handler of a reply is the caller of `find_best_hops`, so the module extends `Server` and `BestHops`;
  the definitions of `BestHops` are named `HopsInit`, `HopsNext` and `HopsSpec` for that.
  The invariant is `HopInv`: types, `Sorted`, and that what was returned was picked after the last node.
  `Sorted` is `BestIsSorted` with the statement that no place is skipped, without which an insertion could
  not be said to go in front of the first farther entry. `RankAdd` says what one more node does to the
  ranks, `WhereWorse` which entries are farther than it, `PlaceAt` what the array is then; `PlaceSorts` and
  `PlaceSkips` put that together for a plausible and an implausible node. `DkadRange` gives every first byte
  of difference a range of distances of its own.

Only model-checked: liveness (`Ends`, `Bootstrapped`, `KeepsPinging`), which is out of the prover's reach.
What `find_best_hops` computes as a fold, in `Server`, is an induction over data and is not proved equal to the
loop of `BestHops`; the two share `Place` and `Pick`.

## 5. Mutants

Each property of a passing run has a mutant: an operator next to the definition it replaces,
marked `Mutation:`, that changes the translation as a plausible bug would, and that TLC refutes.

## 6. Plan

Done: every component that `main.cpp` uses, and a proof of every safety property that a run checks.
What is left is what the provers cannot do, listed at the end of section 4, and the parts of section 7.

## 7. Not modelled

- `server.hpp`: an unfinished rewrite of `main.cpp` for asio. No translation unit includes it, its class
  `KRPCServer` has members without a default constructor and no constructor of its own, and `run()`
  starts neither a receive nor a timer. It has no behaviour to model; its handlers repeat those that
  `Server` models.
- `load_rt` on a file of another size (`rt.cpp:39`): only a change of the file by something else leads
  there, and what the table then holds depends on that.
- the periods of the two timers: the models let their callbacks come in any order. They are exactly
  balanced (4 queries to the bootstrap node and 4 tokens for its answers a second), so lateness comes out
  of the burst of 12.
- `Ticketer` (never used), `check_evict` (never called), `adj_quality` (no effect), `st_add`,
  `st_inc_debug`, `print` (no caller or no effect on the state).
- that the answer of `is_valid_utf8` is the one that the Q_AP handler of `Server` gets: there it is an
  input. An announcement that says `q` = `announce_peer` never passes the parser; one without `q`, with
  `name` or `implied_port` and a token of more than one byte that begins with ours, does.
- `rtdump`, `eyes.py` and the log: offline tools and output.
