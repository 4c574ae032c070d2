# Verification of l4-book

TLA+ specifications of the `l4-book` crate (a limit order book that keeps every
order, its owner and its place in the queue) and of the programs around it, the TLC
models that check them on small instances, and TLAPS proofs.

Each definition is translated from `src/`; `PROJECT.json` (`map`) names the lines
it stands for. Line numbers in comments refer to `src/src/book.rs` unless said
otherwise.

## 1. The system

| part | code | state | operations |
|---|---|---|---|
| order book | `src/book.rs`, `src/level.rs` | slab of nodes, free list, id index, bid and ask levels, wallet index | `add`, `remove`, `update_size`, `amend_size`, `amend_size_with_policy`, `clear` |
| operations and replay policies | `book.rs:210-314`, `types.rs:69-86, 275-353` | none of its own | `apply_op`, `apply_op_with_policy` |
| snapshots | `book.rs:154-199, 983-1026` | none of its own | `apply_snapshot`, `apply_snapshot_with_policy` |
| local simulator | `book.rs:683-864` | none of its own | `match_taker_order`, `apply_taker_order`, `submit_limit_order` |
| queries | `book.rs:478-681, 866-906, 947-974` | none | `queue_position`, `queue_position_for_new_order`, `depth`, `top_n_levels`, `estimate_slippage`, iterators |
| Dwellir decoder | `src/dwellir.rs:170-514` | per message: statuses, removed ids, counters | `decode_line`, `decode_line_with_meta` |
| capture loader | `dwellir.rs:517-603` | snapshot, updates, statistics of a file | `load_capture`, `load_capture_with_meta` |
| capture script | `scripts/capture_l4.py` | a file, a deadline | one receive loop |
| live example | `examples/dwellir_live_sp500.rs` | a book, snapshot time, next report, deadline | one receive loop |
| debug logger | `examples/dwellir_debug_log_sp500.rs` | a book, a log, an error count | one receive loop |
| replay example, benchmark | `examples/replay_capture.rs`, `benches/replay.rs` | a book, outcome counters | a pass over a loaded capture |

The venue sends each subscriber a snapshot and then blocks of diffs. The live
example and the debug logger decode each message and apply it to a book; the capture
script writes messages to a file, which the loader, the replay example and the
benchmark read later.

The book is a single-threaded value with `&mut self` operations; nothing in the
crate shares it, blocks or awaits. What makes the system hard is elsewhere:

* **representation**: five containers describe the same orders. Slots are reused,
  nodes are relinked in place, levels and wallet sets appear and disappear. A
  mistake shows only after a long sequence of legal calls.
* **delivery**: the book follows a remote one from operations that can be lost,
  repeated or late, until a snapshot. Two policies decide what an unexpected
  operation does.
* **partial failure**: compound calls (`apply_snapshot_with_policy`,
  `apply_taker_order`, GTC submission) make several changes with `?` between them.
* **encoding**: the feed sends a complete fill as two diffs, new orders without a
  side, and sizes that may be finer than the book's unit.
* **order of a file**: the loader separates snapshots from updates, and so forgets
  which came first.
* **two views of one quantity**: estimates and queue positions read cached totals,
  matching reads the orders.
* **numeric edges**: level totals are `u64` sums that wrap in release builds; one
  tick decides whether an order crosses.
* **time**: deadlines are looked at only when something arrives, timeouts race
  messages, silence lasts for several reports.
* **interruption**: a program dies between a change and the record of it.

What makes each part correct: the indexes describe the slab exactly and every
level is one chain in time priority (book); nobody is overtaken (queues); repeated
and late operations harm only their own orders (replay); a refused snapshot
changes nothing and local orders keep their order (snapshots); price-time
priority, no order resting across the book, nothing lost or invented, refusals
without effect (simulator); what is foretold is what the match does (queries); the
replica is the venue's book in the book's units, and causes tell fills from
cancellations (decoder); a replay ends where following the feed live ends (loader);
programs end when they say, make every report, stop at their error limit and log
what they did. `PROJECT.json` lists the hazards at their lines with the properties
that cover each.

## 2. The modules

```
BookTypes -- BookQueues -+- PriorityBook <.. implemented by .. OrderBook
                         |  (PriorityBookProofs)               (OrderBookProofs)
                         +- BookFeeds -+- BookQueuesProofs
                         |             +- Replay -- ReplayProofs
                         |             +- LossyFeed -- LossyFeedProofs
                         |             +- BookMatching -- BookQueries -- Simulator -- SimulatorProofs
                         |             +- DebugLogger -- DwellirProofs
                         |             +- DwellirDecode -+- DwellirFeed -- DwellirProofs  (with DwellirVenue)
                         |                               +- Captures -- CaptureFile -- DwellirProofs  (with DwellirVenue)
                         +- DwellirVenue

LiveLoop, CaptureScript == instantiated by ==> Receivers -- ReceiversProofs
```

**BookTypes** has the constants (`OrderId`, `WalletId`, `Price`, `QtyLimit`, the
number of values of a `Qty`, 2^64 in the code) and the types. `Order::ts` is left
out: no operation of the book reads it.

**OrderBook** is the struct field by field, one action per public mutator:

| module | code |
|---|---|
| `slab` (its domain: the slots that are `Some`), `slab_len` | `slab: Vec<Option<OrderNode>>` |
| `free_list` | `free_list`, popped and pushed at its end |
| `order_index` | `order_index` |
| `levels`, a function on pairs of side and price | `bids`, `asks` |
| `wallet_index` | `wallet_index` |
| `result` | the `Result` of the last call |

Totals are sums modulo `QtyLimit`, as in a release build. A debug build panics
where they would wrap; that panic is not modelled. `order_count` counts live orders
and cannot reach 2^64.

**PriorityBook** is the abstract specification: a queue of orders for every side
and price. Its operators live in **BookQueues** as functions from a book to a book
and an answer, so that handlers that make several calls can compose them.
`OrderBook!ImplementsPriorityBook` is the refinement: the queue of a level is what
`OrdersAtLevel` yields on it. Everything above the book is specified on the queues,
which the refinement justifies.

**BookFeeds** adds `apply_op`, `apply_op_with_policy` and the snapshots.
**Replay** drives a book with any operation under any policy. **LossyFeed** puts a
complete, strict replay beside a tolerant one that loses and repeats operations.

**BookMatching** is the walk of the makers as a recursive function, the application of
its fills and the four submission policies. Rejections of FOK and post-only orders, `Ok` with
a reason in the code, are answers of their own here. **BookQueries** has the
questions that compute something, from level totals that wrap as `OrderBook` shows
them to. **Simulator** interleaves takers and submissions with operations, which may
leave the book crossed since `add` matches nothing, and with snapshots over venue and
local ids under both policies; a synthetic id (high bit set) is a member of the
constant set `SyntheticId`. It states what a call does to the book, what a snapshot
keeps of the local orders, and what the queries foretell about the match. `u128` notionals cannot overflow for the quantities of one
call and are plain numbers; floating-point averages are left out.

**DwellirDecode** is the decoding of a message, diff by diff, with the
cause of every operation. A wire size is a number of the finest decimal the venue
uses, `Grain` of which make a unit of `Qty`: `parse_fixed` is division. A status is
a member of a set of ids: its text is copied and never read.

**DwellirVenue** is the venue, external, modelled from `docs/l4-protocol.md` and the
adapter's tests: an oid is never used twice (`l4-protocol.md:248`), a block of diffs
is one message, a complete fill is an update to zero and a remove in one message, an
amendment keeps its place (what `AmendSize` assumes). **DwellirFeed** puts the
message loop of the live example behind it.

**Captures** has the loader with its statistics, the replay example and the
benchmark's helpers as functions of a file. **CaptureFile** lets a capture grow
behind the venue: the script writes whatever comes, so updates of orders that the
subscriber has never seen may precede the snapshot, and snapshots may repeat. Every
prefix of the file is a state, hence every whole-line file that a capture can leave.

**LiveLoop** and **CaptureScript** are the two clocks, without the book: a message is
a snapshot, a text, or one of the kinds that end or skip an iteration. In `LiveLoop`
instants are kept relative to the last snapshot; a blocking `ws.read()` is an inbox
that must be filled. In `CaptureScript` a receive carries a timer; the event loop is
taken to be prompt (no time passes once a receive is due), while writing may take
any time. A message and a timeout at the same instant may be taken in either order.
**Receivers** composes the two by `INSTANCE` under one tick, on connections of their
own, and instantiates their properties.

**DebugLogger** is the third loop: any messages, its book, its error count, and one
record in hand between a step and `PrettyJsonLog::write`, so that the process can be
interrupted there. The log itself is kept as the knowledge of a `reader` who starts
from the empty book, takes every full book shown and applies every operation logged.
A record of a failed snapshot has no book in it: from there to the next full book
the reader knows that he does not know (`Unknown`). Records that say nothing about
the book are not kept apart. The operations of a message are chosen when they are
applied, which allows every message.

The MC modules add symmetry sets only; they redefine nothing. `MCSimulator` and
`MCSnapshots` are two instances of `Simulator`. `DebugLogger` and `Receivers` have no
use for symmetry and are checked as they are.

## 3. The runs

| run | bounds | shows |
|---|---|---|
| `priority_book` | 3 ids, 2 prices, sizes 1-2 | an id rests once; no call but an amendment upwards costs an order its place |
| `order_book` | 3 ids, 2 wallets, 2 prices, sizes 1-2, `QtyLimit` 3 | slab, free list, links, levels, wallets and indexes agree after every call; `assert_invariants` holds |
| `order_book_refines` | as above, 1 wallet | OrderBook implements PriorityBook, answers included |
| `replay` | 3 ids, 1 price, all 8 policies | a repeated operation is harmless; a tolerant replay errs on empty orders only; policies agree with `apply_op` wherever it succeeds |
| `replay_strict` | 2 ids | **violation**: `STRICT` does not mirror `apply_op` (below) |
| `lossy_feed` | 3 ids, 1 price, up to 2 damaged ids between snapshots | losses and repetitions stay with their orders |
| `snapshots` (of `Simulator`) | 2 venue and 2 local ids, 2 prices, size 1, snapshots of up to 2 orders (`MaxSnapshot`) | `PreserveSynthetic` is atomic; a snapshot refused under `Replace` leaves exactly the orders ahead of its fault; local orders go behind the venue's, in their own order |
| `simulator` | 3 ids, 2 prices, sizes 1-3, `QtyLimit` 4, snapshots of up to 1 order | no resting across the book, no trade-through, exact accounting, refusals without effect; estimates, queue positions and top levels foretell the match |
| `dwellir_feed` | 2 ids, 1 price, 2 sides, wire sizes 1-4 with `Grain` 2, blocks of up to 3 diffs (`MaxDiffs`) | the replica is the venue's book in units but for the orders the feed does not describe; causes tell fills from cancellations |
| `capture_file` | 2 ids, 1 price, 1 side, wire sizes 1, 2 and 4 with `Grain` 2, blocks of up to 2 diffs, files of up to 4 lines (`MaxLines`) and 3 diffs (`MaxFileDiffs`) | a replay stops at once, exactly if an order is in two snapshots or below the unit in one, and otherwise ends where following the feed ends, but for orders that shrank below the unit; the statistics account for every diff |
| `debug_logger` | 2 ids, 1 price, sizes 1-2, `ERROR_LIMIT` 3, 1 logged update, lists of up to 2 (`MaxList`) | the log shows the book wherever the process dies; the error limit is never passed and always obeyed |
| `receivers` | reports every 2 ticks, run of 4, `Horizon` 7; patience 2, duration 3 | reports and captures keep their time; both programs end under the conditions their code leaves them |

Why the bounds suffice. Three orders at one level make a head, a middle and a
tail, so every case of `link_tail`, `unlink` and `move_to_tail` occurs, the removal
of the middle and slot reuse included; two prices make pruning and the order of
levels occur; with `QtyLimit` 3 (4 in the simulator) two orders already wrap a
total. Ids and wallets are compared for equality only, which makes them symmetric;
prices and sizes are not permuted. In the simulator three ids give two makers and an
incoming order, or three makers and a taker, with a partly filled last one. A snapshot
needs two orders, and the book two local ones, before their order can go wrong, and no
sizes: that is the instance `snapshots`, where local orders also trade between two
snapshots. In
`lossy_feed` two of three ids may be damaged on either side of a sound one. In
`dwellir_feed` size 1 is dust, 2 and 3 are one unit, 4 is two, and three diffs are
a new order filled whole in its first message. In `capture_file` size 1 is dust, 2
is one unit and 4 is two; the header, an update before the snapshot, the snapshot
and an update after it, or a second snapshot, are four lines. In `receivers` the horizon is more than a report beyond the
deadline, so a silence over several reports and past the end occurs; duration and
patience are more than one tick and differ. In `debug_logger` three errors can be of
three kinds, or two in one message.

The quantified properties of Replay and Simulator say, in every
reachable book, what every possible call would do; the calls themselves are also
the actions, so the books reached are all those the calls can produce.

Where the queries' properties have a condition on totals (`QtySum(..) < QtyLimit`),
it says that the level has not wrapped. Wrapped levels are reached too: there
`EstimateForetellsTheMatch` says that an estimate never promises more than the book
fills. `ReplayEndsAsLive` has an exception and a premise, both about dust. An order
that shrinks below the unit is taken for filled; a live book finds it again in the
next snapshot if it has grown by then, but a replay, which has every snapshot behind
it when the updates come, does not: such orders (`Shrunk`) are not compared. And a
snapshot that has an order below the unit, or one that an earlier snapshot has, is
refused, and nothing is replayed: `OnlyBadSnapshotsStopTheReplay` says that nothing
else stops a replay.

Three runs allow the system to stop (`CHECK_DEADLOCK FALSE`): `dwellir_feed` (the
loop ends on a refused snapshot, and the venue runs out of ids), `capture_file` (the
file is full) and `debug_logger` (the logger stops or dies). All others check for
deadlock; in `receivers` time goes on after both programs have ended.

**Fairness.** The book and its queries are synchronous calls that return; their
modules assume none. The programs have loops:

* `Receivers`: `WF` of each program's own steps, since nothing blocks a loop but the
  call it waits in; `SF` of the tick, since a flood of messages does not stop time,
  though in the script's model it disables the tick again and again. *Nothing is
  assumed of the feed*, so the liveness properties name what they need:
  `EndsIfTheFeedLetsIt` that texts keep coming and snapshots stop; without the first
  the live program never looks at its deadline, without the second every snapshot
  sets a new one. `CaptureEnds` needs nothing after the first snapshot and silence
  before it, because other messages restart the thirty seconds. What happens outside
  these premises is not covered by a property (`PROJECT.json` lists the hazards with
  none); the promises of the docs that it breaks are listed below.
* `DebugLogger`: `WF` of its work on a message in hand. No message has to come.

### A divergence

`book.rs:222` says "Strict policy mirrors `apply_op`". For an `Add` with quantity
zero and an id that rests, `apply_op` answers `ZeroQty` (`add` tests the quantity
first, line 317) while `apply_op_with_policy(.., STRICT)` answers
`DuplicateOrderId` (its first arm tests the id, line 228). The books agree; only the
error reported differs. `replay_strict` shows it, and `StrictChangesTheSame`
(below) proves that there is nothing more to it.

### What the docs promise beyond the code

Three more sentences say more than the code keeps. No run refutes them; they are
reported here, and the properties are stated with the condition that the sentence
leaves out.

* `dwellir_live_sp500.rs:6-8` (and `src/README.md:200-203`) promises reports every 15 seconds
  for two minutes after the initial snapshot. The code starts the two minutes again
  at *every* snapshot (lines 73-76) and looks at the clock only after a text that
  decodes (lines 61, 97): a connection that is silent, or sends pings only, is never
  reported on and never ended. The promise holds of a feed that sends one snapshot, as
  `docs/l4-protocol.md:227` has it, and keeps sending texts. `ReportsKeepTime` and
  `EndsIfTheFeedLetsIt` therefore count from the last snapshot, and the latter has both
  conditions as premises.
* `capture_l4.py:86`, "Before snapshot arrives, allow up to 30s": the thirty seconds are
  those of one receive. Messages without a snapshot restart them, so the time before
  the snapshot has no limit unless the connection falls silent (`CaptureEnds`).
* `capture_l4.py:8-9`, "the snapshot is always the first non-subscriptionResponse message":
  nothing in the script makes it so; it writes what comes. `capture_file` allows updates
  ahead of the snapshot, and a replay is right about them too (`ReplayEndsAsLive`).

## 4. The proofs

Every theorem holds for any values of the constants that satisfy the assumptions
named beside their declarations, and from these assumptions only.

### OrderBookProofs

For any sets of ids, wallets and prices and any `QtyLimit` (`Price \subseteq Nat`,
`QtyLimit` positive, `NoSlot` not a number): `BookIsConsistent`, `Spec => []Inv`, and
from it `TypeCorrect`, `IndexIsExact`, `ArenaLosesNoSlot`, `ListsAreConsistent`,
`LevelsCountTheirOrders`, `WalletsListTheirOrders`, `ListsAreChains`: the seven
structural invariants that `order_book` checks.

**The inductive invariant.** The parts lean on each other. Removing an order is
sound only if the index names its slot; a fresh slot is vacant only if the free list
is exact; pruning a level when its count reaches zero is right only if the count is
right. And the local condition on links, that `next` and `prev` are inverse and
that only the ends lack a neighbour, is *not* inductive: it admits a ring of
orders beside the real list, which no head reaches. Removing the last order of the
real list would then leave a level with orders and no head. `LevelsAreChains`
excludes it: the orders of a level carry stamps that increase from head to tail
with no order between two neighbours. Stamps exist because an insertion or a move
can take a stamp larger than all the others and a removal keeps the rest. The proof
carries stamps of any size (`ChainsAreStamped`); `ListsAreChains` brings them down to
the bound `slab_len` that lets TLC enumerate them.

**Layout.** First facts about maps, slots and the free list; then one lemma for each
way the representation changes (insert, take out, resize, move to tail) and for
each conjunct it can disturb; then one step per action; the temporal step last.

The second half of the module is about what the walk of a level yields, and has the
two results that say the most about the slab:

* `BookImplementsQueues`, `Spec => ImplementsPriorityBook`: read off by walking the
  levels, the slab is the queues of `PriorityBook`, answers included. One lemma per
  way the representation changes says what the walks are afterwards (one order
  longer, one order shorter, one order resized, one order moved); one step per
  action matches them with `AppendOrder`, `DropOrder`, `Resize` and `MoveToTail`.
* `AssertionsNeverFail`, `Spec => []AssertInvariants`: no assertion of
  `assert_invariants` can fail. The count and the tail come from
  `WalksAreAlwaysComplete`; the total needs an invariant of its own (`TotalsExact`),
  which says that the cached total is the sum of the walk modulo `QtyLimit` and is
  inductive together with `Inv`: the change of one total is the change of one sum.

Both speak of recursive definitions (`SlotsFrom`, the running sum in `TotalQty`).
Induction over *numbers* needs no operator as a parameter: the statement is turned
into the set of numbers for which it holds (`NumbersByInduction`). A recursive function
is dealt with in two steps: some function satisfies the equation (approximated on
longer and longer beginnings), hence the one that is chosen does. `WalkIsComplete`
then says that a walk with enough fuel follows the links from head to tail and meets
every order of the level once: it cannot end early because only the tail lacks a
next, and cannot repeat a slot because the stamps increase.

### BookQueuesProofs and PriorityBookProofs

`BookQueuesProofs` holds the lemmas that the proofs about `PriorityBook`, `Replay`,
`LossyFeed`, `Simulator`, `DwellirFeed` and `CaptureFile` share. On one operation: what it leaves at every place of every queue, that
a sound book (`SoundBook`: each id rests once, in the queue of its order, with a
quantity) stays sound, who is ahead of whom afterwards, when it is refused, and that
it touches the order it names and no other (`OthersStay`). These need no induction: an
operation moves one order, and the other places shift by one at most.

On lists of orders, by induction over numbers:

* `BookIsListed`: `book_order` has every order of a book of finitely many orders
  exactly once, and those of one queue in time priority.
  `AscendingList` sorts the prices, `FlattenJoins` unfolds the concatenation of the
  queues, `ListsTogether` joins two listings of different queues.
* `AllAdded`: a list of orders that are new to the book and to each other is accepted
  whole, each behind those before it; `AddAllRuns` unfolds the recursion.
* `AddsWhole`, `AddingStops`: an empty book takes a list whole exactly if no order of it
  is without a quantity or repeats an id; otherwise the insertion stops at the first
  such order (`FirstFault`) with that order's error, what is ahead of it rests, and
  nothing behind it is looked at.
* `Rebuilt`: the listing of a book, added to an empty one, makes the book again.
* `ThoseAreKept`, `OneOrderOnly`: what a filtered list has, and that two lists without
  repetitions, with the same members in the same order, are one.

`PriorityBookProofs` uses the first kind: `BooksAreSound` is the inductive invariant,
`OneRestingOrder` the property of the run, and `TimePriority` the action property
`NobodyIsOvertaken`, for any ids, prices and sizes.

### ReplayProofs

`OnlyTolerance` and `OnlyEmptyOrders` state `PoliciesOnlyTolerate` and
`OnlyEmptyOrdersStopReplay` for every book, reachable or not: no invariant is needed.
In `BookQueuesProofs`, `AddAnswer`, `RemoveAnswer`, `UpdateAnswer` and `AmendAnswer`
say when each call succeeds and that a refusal leaves the book alone; `PolicyCases`
reduces a policy to the four ways it can take an operation; the theorems follow case
by case. `StrictChangesTheSame` is the true part of the sentence that `replay_strict`
refutes: the same book, and an error exactly where `apply_op` has one.
`RedeliveryChangesNothing` does need the invariant that the book is sound
(`ReplayedBooksAreSound`): a repeated update finds the one order of its id at the size
that the first delivery gave it.

### LossyFeedProofs

`DamageStaysConfined` and `ToleranceIsForTheDamaged` state the two properties of
`lossy_feed` for any ids, prices and sizes and any amount of damage (`MaxDamaged` is
only a bound of the run). The inductive invariant `LossyInv`: both books are
sound, the complete one holds finitely many orders, and the two agree outside the
damaged ids. An operation on a damaged id touches that id only, in either book,
and so does one that is lost or comes again (`AgreeOutside`). For an undamaged id the
two books hold the same order, so that the replica accepts what the complete book
accepts; they then change in the same way, and a new order joins queues that differ
in damaged ids only (`AgreeOnAccepted`). Finiteness is needed for the snapshot alone:
an infinite book has no listing. `SnapshotRepairs`, an action property, says
what a snapshot is for: after it the replica holds the complete book's orders in
the same order, whatever the replica held before.

### SimulatorProofs

The properties of `simulator` and `snapshots`, for any ids (synthetic or not), wallets
and prices, any `QtyLimit` and snapshots of any length. The inductive invariant is
small: the book is sound and holds finitely many orders (`SimulatorSound`). The work
is in what *one call* does to such a book, because calls are loops over lists.

| theorem | property |
|---|---|
| `PreserveAtomic` | `PreserveIsAtomic` |
| `RefusedReplaceIsABeginning` | `RefusedReplaceKeepsTheBeginning` |
| `LocalsGoBehind` | `LocalOrdersGoBehindTheVenue` |
| `RefusalsAreWhole` | `RefusalChangesNothing` |
| `NeverCrosses` | `RestingNeverCrosses` |
| `QuantitiesAddUp` | `SubmissionsAddUp` |
| `NobodyTradedThrough` | `NobodyIsTradedThrough` |
| `NewcomersForetold` | `NewcomersFindWhatWasForetold` |
| `PlacesForetellFills` | `QueuePositionForetellsTheFill` |
| `TopLevelsTraded` | `TopLevelsAreTradedFirst` |
| `EstimateForetold` | `EstimateForetellsTheMatch` |

**The argument.** Each recursion of the model (the filter `Those`, the sum, the walk of
the makers, the application of fills, the cached total) is first unfolded by one step
(`KeptOnAppend`, `SumOnAppend`, `MetOnAppend`, `FilledOnAppend`, `TotalOnAppend`);
from there on `ListsByInduction` turns a statement about lists into one about their
length. Three facts carry the rest:

* A walk is a place in the list (`WalkProgress`): the first `gone` makers are filled
  whole, and part of the next one only when the taker has nothing left; the walk stops
  because the taker is filled, the next maker is beyond the limit, or nobody is left.
* Applying the fills leaves the rest of the list (`TakerEffect`, `TakerServed`): the
  makers that were filled whole are gone, the last one keeps its place with what is
  left of it, and no fill is refused. That the application cannot fail halfway is what
  makes a GTC, which adds its remainder afterwards, all or nothing.
* A listing is determined by who rests, at which price and before whom (`OnePriority`);
  so the listing of the book after a call is known once its orders and their order are,
  without unfolding how `book_order` sorts and flattens.

Snapshots need no walk: `ValidMeans` says that what passes the check of
`PreserveSynthetic` is a list of venue orders with ids of their own, so that `AllAdded`
applies to it and to the local orders after it. Under `Replace` there is no check, and
`AddingStops` says where the insertion ends.

For the queries, `QueuesInTurn` splits a side at every level into what comes before it
and what comes after (`PartedAtPrice`), `TotalIsSum` says that a cached total that has
not wrapped is the sum of the level, and `MatchHitsInTurn` that the maker at a place of the
list is hit exactly if the taker wants more than the sum of those before it.
`PlaceForetells` puts these together, from the side of the resting order.

An estimate walks totals where a match walks orders, so the two walks are followed level by
level. What a taker leaves and pays at one price is said once, in plain numbers (`Meets`),
of an order (`MakerMet`) and of a level's total (`LevelMet`); what is there is met in two
parts as it is met whole (`MetInParts`), so the orders of a level, met one by one, are met
as one order of their sum (`QueueMet`). Where the total is that sum the two takers stay
alike (`StayAlike`); where it has wrapped it is less (`TotalIsAtMost`), and the estimate
stays behind (`StayBehind`): `WalkForeseen` carries both through all levels. The slippage is
counted along the makers (`GapsAddUp`): what was paid is the first maker's price for all of
it, but for the distances of the fills, and no maker is better than the first.

### DwellirProofs

The properties of `dwellir_feed`, of `debug_logger` but the liveness, and of
`capture_file` but `ReplayEndsAsLive`.

**The feed.** The properties of `dwellir_feed`, for any number of ids and prices, blocks of any
length and any `Grain`: `ReplicaFollowsTheVenue`, `NothingSeenIsRefused` and
`CausesAreRight`. The venue is the one of `DwellirVenue`; that it never uses an id twice
is needed, since the decoder drops a second removal of an id in one message.

**The inductive invariant.** `ReplicaIsTheVenue` says nothing while a block is open:
the venue has changed and the book has not. `FeedInv` says what the open block is
worth: decoded with the statuses that have come so far, and applied, it *would* bring
the book to where the venue is (`BlockFollowed`). A step of the venue then lengthens
the block by one diff, or two for a complete fill, and `OneMoreDiff` says that decoding
and applying the longer block is decoding and applying the shorter one and then the
last diff (`DecodedOnAppend`, `ConsumedOnAppend`). The statuses grow as well, but only by the id
of a new order, which no earlier diff of the block has (`OneMoreStatus`).
`BlockApplied` is the message handled, `SnapshotShowsAll` the snapshot.

**One diff.** `Mirrors` relates two books: every order of the venue that is not hidden
rests in the replica with its size in units, nothing else does, and it is behind the
same orders. `Tells` lists what a diff can say of the venue: a new order, its end, the
end said again, a size, nothing understood. Four cases of one diff follow.

* It hides its order (no status, or less than a unit): the order is not in the book
  afterwards, or is refused there, and nobody else is touched (`OthersStay`).
* It is of an order that is hidden already: whatever the book answers, only a hidden
  id is touched or refused.
* It says once more that an order is gone: the decoder drops it, because the block
  has removed the id (`removed` contains every id whose size fell below the unit).
* It is seen: the operation derived from it does to the book what the venue did, in
  units (`NewPasses`, `DropPasses`, `SizePasses`). A fill too slight to be seen is an
  `UpdateSize` that does not shrink, which the book refuses without a change: the one
  refusal of an order that is not hidden, and the reason for `Invisible`.

The causes (`Marked`) are carried along the same induction: the first removal of an id
that the decoder meets is either the diff that emptied the order or, for a cancellation,
the only one of the block.

`WireSizeAssumption` (sizes on the wire are positive and below `QtyLimit`) is used for
the type of the book's orders only: the feed computes with no total.

**The debug logger.** `ErrorsAreLimited` needs one strengthening: a message with
operations left to apply has not used up the errors either (`ErrorsInv`), which is what
the test inside the loop over operations is for. `LogIsUseful` is inductive as it
stands: every step that changes the book leaves a record in hand that tells the reader,
and `Caught`, the reader's knowledge up to that record, stays the book or unknown.
Neither depends on what an operation does.

**Captures.** `StopsAreExplained` and `StatsAccount`, for files of any length, any venue
and any `Grain`. Both are statements about a whole file, proved line by line
(`LoadedLinesOnAppend`, `LoadsGrow`); the inductive invariant `FileInv` only says that
the lines are well formed (`Line`): diffs are of the shapes that the venue sends, which
follows from `BlockFollowed` for some book, and the orders of a snapshot have ids of
their own, because they are the listing of a book (`BookIsListed`).

* What stops a replay: the loader's one list is the snapshots' lists, one behind the
  other. Two lists without a fault make one without a fault exactly if they share no
  id (`TwoLists`), a snapshot's own list has a fault exactly if an order in it is below
  the unit (`SnapshotFaults`), and by `AddsWhole` the book refuses exactly the lists
  with a fault. After that, no operation ends a replay: `Tally` carries its result along.
* What is counted: a diff adds one to one count of its batch, or two for a collapsed
  fill (`DiffTallied`), so each count of a block is a sum over its diffs
  (`BlocksBalance`), each of the file over its blocks (`FilesLoad`); and an operation
  adds one to one outcome (`OneMoreOutcome`).

### ReceiversProofs

`ReportsAreOnTime`, for any report period and deadline: the invariant adds that the
next report is always the one after those made,
`next_report = (reports + 1) * ReportEvery`. `CatchingUp` is the arithmetic of the
`while` loop, `ChecksKeepTime` the end of an iteration. `CapturesLastAsLongAsTheySay`,
for any duration: while anything is left, what is left and what has passed make up
the duration, and a receive waits for all that is left (`ScriptInv`).

### Model-checked only

* Liveness (`TheLimitStopsIt`, `EndsIfTheFeedLetsIt`, `CaptureEnds`) is out of the
  provers' reach.
* `ReplayEndsAsLive`. It compares two orders of the same messages, snapshots and blocks taken apart by the loader and taken in turn
  by the live program; `BlockFollowed` would have to be carried over a whole file with
  updates before its snapshot.
* `StrictMirrorsApplyOp` is false, and stays a run.

## 5. Not modelled

* `Display`, `Debug`, report and record layout, progress lines and timings.
* `WalletId::from_hex`, JSON shapes, missing fields and the overflow checks of
  `parse_fixed`: pure parsing that ends in an error before anything changes. In the
  loops such an error is a message kind of its own (`Error`, garbage).
* Floating-point results (`average_price`, `slippage`, `slippage_pct`); the integers
  they are computed from are modelled.
* Timestamps, reserved capacity, debug-build panics.
* `len`, `level_summary`, `best_bid_ask`, wallet iteration: each returns one field of
  the modelled state.
* The bytes of a capture file: the script flushes every five seconds, and a kill can
  leave a torn last line, for which `decode_line` answers an error that fails the
  whole load. `capture_file` covers files of whole lines.
* `SimulatorCause`, `OperationCause::User` and `Unknown`: only the tests construct them in
  the crate.
* The benchmark's measuring, and its choice of the middle update of a capture
  (which panics on a capture without updates).

## 6. What is left

A lossy connection for `DwellirFeed` (blocks missing between two snapshots), joining it
with `LossyFeed`; and a proof of `ReplayEndsAsLive` on top of `FeedInv`.
