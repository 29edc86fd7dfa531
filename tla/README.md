# flower-exchange in TLA+

A verification development kept beside the flower exchange (`src/`, C++23). The
program reads files of orders, matches them by price and time in one book per
instrument, and writes a file of execution reports for each. The modules here
model its books, its matching engine, its order processor, its object pool, its
three-thread pipeline, its clock, its command loop and the way from the text of
an order file to messages and from messages to the text of reports. TLC checks
them on small instances; TLAPS proves for instances of every size that both books are queues
with the right bests, that the engine keeps price-time priority and reports every lot
once, that each file is matched from an empty market with every message answered in turn,
that the pool neither loses nor doubles an object, that the three threads amount to one
synchronous call, that every timestamp is a real one, and that the calls are those the
input asks for.

Paths below are relative to the repository's `src/`, so `src/matching/...` is
the program's source directory of that name.

## 1. Inventory

### Parts, state and operations

| Part | Source | State | Operations | What makes it correct |
|---|---|---|---|---|
| Command loop | `src/app/application.*`, `src/main.cpp` | the stream, the line last read | `run`: read a line, leave on QUIT, delegate a PROCESS with a path, ignore the rest | the calls are those the input asks for, each once; QUIT ends the program |
| Pipeline | `src/app/file_processing_pipeline.*`, `pipeline_types.h`, `src/common/spsc_utils.h`, `thread_utils.h` | two bounded queues; per call a `PipelineState` of four atomics | `process_file`, `clear_queues` | every call returns; the output is complete; nothing passes from one file to the next |
| CSV order producer | `src/io/csv_order_producer.*` | its position in the file, the next sequence number | `produce`, `publish_end_of_stream` | each order once, in file order, then one end of stream, on every path |
| CSV report writer | `src/io/csv_report_writer.*` | the open file, a 4 MB batch | `prepare`, `drain` | every report pushed is written once, in order |
| CSV reader | `src/io/csv_reader.*` | a stream and the current line | iteration, `readNextRow` | yields each line once, whatever ends it, with the fields it has |
| Order processor | `src/matching/order_processor.*`, `src/common/validator.h`, `runtime_config.h` | `next_oid_`, the books, the pools, the engine | `consume`, `reset` | every message numbered and answered, what reaches the engine is within its limits, files are independent |
| Matching engine | `src/matching/matching_engine.h` | borrowed books and pool; locals of `process_order` | `process_order` | price-time priority, conservation of quantity, no crossed book, pool and books agree |
| Order books | `src/matching/order_book.h`, `bitmask_order_book.*`, `map_order_book.*` | levels, tails and links, mask, cached bests; or a map of queues | add, peek, pop, find first, find last | a FIFO queue per tick, and the true best ticks |
| Memory pool | `src/common/mempool.h` | chunks, free list, indices | `allocate`, `deallocate`, `get`, `getIndex` | no object handed out twice, none lost, index and object determine each other |
| Timestamp cache | `src/common/timestamp_cache.*` | a text under a mutex, a thread, a flag | `start`, `stop`, `snapshot`, the refresher's loop | no torn or empty text, time does not go back; `stop` ends the thread before the cache is gone |
| Conversions | `src/common/types.*` | none | parse and format of integers, prices, ticks, names | a text is read as what it says or refused; what is formatted reads back, to the hundredth |
| Reporter | `src/app/processing_reporter.*` | none | `report` | prints what it is given |

### Interaction

The caller's thread runs `process_file`: it clears the queues, resets the order
processor, opens the output, starts the producer and then the matcher, becomes
the writer itself (`drain`), and joins both threads. The producer pushes orders
and at last an end-of-stream message into the inbound queue; the matcher pops
them, calls the engine synchronously, and the engine's callback pushes each
report into the outbound queue, which the writer pops. A full queue makes the
pusher spin, an empty one the popper. `producer_done` is set by the producer and
read by the matcher, `matcher_done` is set by the matcher and read by the writer.
Only the matcher's thread touches engine, books and order pool. The engine calls
books and pool directly.

The order processor, made with the application, starts the timestamp cache. From
then on a refresher thread writes the time of day into the cache while the matcher
of whatever file is being processed copies it, once for each order, both under a
mutex. After QUIT the destructors stop the cache, which joins the refresher.

### Where it is hard

* **Concurrency.** Three threads, two queues, two flags, and a fourth thread for the
  time that outlives every file: the order in which the writer reads `matcher_done` and the queue, and in which the matcher reads the end
  of the stream and `producer_done`, decides whether the last reports are lost.
* **Bounds.** Each thread can be held up by a full queue in the middle of its
  work, the matcher within one trade.
* **Failure.** Unreadable files, unreadable numbers (an exception ends the
  process), threads that cannot be pinned (`exit` in a thread), an input of
  commands that ends without QUIT.
* **Edges of texts and numbers.** Two kinds of line end, a last line without one,
  numbers too large for their type, in which both parsers and formatters saturate.
* **Long sequences of legal calls.** Books, pool and engine hold redundant
  state (tails, links, cached bests, masks, free list) that each operation must
  keep in step with the rest.
* **Reuse.** Processor, queues and writer survive from file to file.

`PROJECT.json` lists each hazard at the line where it bites, with the properties
that would catch it.

## 2. Modules

| Module | What it is |
|---|---|
| `PriceLevels` | operators: a queue per tick, and its best ticks. The common vocabulary of books and engine |
| `OrderBook` | abstract specification of the `OrderBook` interface |
| `BitmaskOrderBook` | `bitmask_order_book.cpp`; implements `OrderBook` |
| `MapOrderBook` | `map_order_book.cpp`; implements `OrderBook` |
| `BookStrategies` | both strategies side by side, given the same calls |
| `Market` | abstract specification: price-time priority over a *set* of open orders |
| `MatchingEngine` | `process_order` over order pool and books; implements `Market` |
| `Exchange` | abstract specification: a `Market` that opens empty for each file and can refuse orders |
| `OrderProcessor` | `consume` and `reset` around `MatchingEngine` (which it extends); implements `Exchange` |
| `FileProcessor` | abstract specification of `process_file` as a synchronous call |
| `Pipeline` | `process_file` and its three threads; implements `FileProcessor` |
| `Pool` | abstract specification of an object pool |
| `MemPool` | `mempool.h`; implements `Pool` |
| `TimestampCache` | `timestamp_cache.cpp`: refresher, owner and readers around a mutex |
| `Application` | the command loop `Application::run` over the whole of its input |
| `FlowerExchange` | the program from `main` to its end: composes `Application` and `TimestampCache` |
| `CsvReader` | the row iterator of `csv_reader.cpp` over the text of a file |
| `Conversions` | `types.cpp` and the writer's formatters: texts to numbers and back |
| `CsvFiles` | `produce`'s loop over rows and the rows of refused orders: composes `CsvReader` and `Conversions` |
| `PriceLevels_proofs`, `BookStrategies_proofs`, `MatchingEngine_proofs`, `OrderProcessor_proofs`, `MemPool_proofs`, `Pipeline_proofs`, `FlowerExchange_proofs`, `CsvFiles_proofs` | lemmas and theorems |
| `MCMatchingEngine`, `MCOrderProcessor`, `MCPipeline`, `MCFlowerExchange`, `MCCsvFiles` | constants for TLC, and the choice of the least free slot |

How the pieces fit: the two strategies are checked to answer every call as
`OrderBook` does, whose state is a `PriceLevels` value; `MatchingEngine` keeps
its books as `PriceLevels` values and uses no other operator on them, so it does
not matter which strategy is behind. The same holds of the pool: the engine
takes *some* free slot, which is all `Pool` promises. `OrderProcessor` adds what
stands before and around the engine; `Pipeline` takes of the processor only that
an order brings about a number of reports, and of a line of the file only what
becomes of it. What a line says is `CsvFiles`' matter. `FlowerExchange` takes of a
call of `process_file` only that its matcher reads the time for each order, that
the call returns (`Pipeline`'s `ProcessFileReturns`) and that the process may die
in it. `FileProcessor`, `Exchange` and `Market` are the promises at which one level
of the system can be exchanged for the next.

Operators with a suffix (`Crosses_Strict`, `PopHead_StaleLast`) and a comment
beginning with MUTANT are plausible mistakes in the definition that follows
them. Nothing uses them; replacing the definition by one shows which property
notices (`PROJECT.json`, `mutants`).

### Correspondence with the code

**BitmaskOrderBook.** `price_levels_`, `price_level_tails_`, `best_first_`,
`best_last_` are the members of these names; `next` is `Order::next` of every
order; `mask_` maps a word to the set of its one bits, so count-trailing-zeros
is the least element and 63 minus count-leading-zeros the greatest, and the
scans become statements about sets that still work word by word. The word width
is a constant, so that a book of a few ticks has several words and a partly used
last one. One action per method. `reply` is the last call and its value, so that an
answer cannot be taken for that of another method; `levels` is a
history variable holding the abstract book. The only restriction on calls is
the one the engine keeps: an order is not added while it rests.

**MapOrderBook.** `price_levels_` is a function whose domain is the keys of the
`std::map`; a queue is a sequence. `BookStrategies` has both strategies called
with the same arguments, so that they share one history `levels`.

**MatchingEngine.** A slot stands for an `Order*`. `order_pool_` maps a slot to
the object living there, `books[side][instrument]` is the book, `incoming` and
`matched_any` are `process_order`'s argument and local. `Arrive` (with
`ProcessOrder`) is the call; `Match` one iteration of the loop up to and
including the pop and the deallocation; `Rest` the exit with quantity left;
`Finish` the exit with none. The `continue` taken when the best level has no
order changes nothing and appears as the absence of a step, which
`ProcessOrderReturns` would report. `reports` and `accepted` are histories. Prices
are ticks, quantities lots of ten (the validated step). Client ids and
timestamps pass through unread and are left out.

**OrderProcessor.** Extends `MatchingEngine`. `Consume` is one message in the
loop of `consume`: number, validate, then either one Reject or `process_order`.
Quantities are in units and message prices in tenths of a tick, so that
narrowing to 16 bits, bad multiples and prices between ticks are all there.
`reset` is the code's, between two files: books, numbers and engine anew, the
pool as it is.

**Pipeline.** `main`, `producer` and `matcher` are program counters; a step
touches at most one shared object (a queue or an atomic). The two reads of
`drain`'s condition are two steps. Spinning is a step that is not enabled (push)
or changes nothing but the program counter (pop). `file` is a sequence of lines,
and a line a number: how many reports answer the order it carries, or that it is
too short, or unreadable. `write_batch` is flushed when full or at the end.
`PinFails`, an unreadable number, a file that cannot be opened and a directory that
cannot be made are the ways to fail; the last is an answer or an exception that nothing
catches, by what the file system says, so `PrepareFails` may end the process before a
thread is started. The SPSC queues of Boost are a bounded sequence with atomic push, pop and
`empty`; this is the one external definition.

**MemPool.** A node is its chunk and its place in it. `next` and `is_free` are
the members of `Node`; `reply` is the last answer and the node it is about. The
binary search of `resolveIndex` is a recursive function with the loop's two
bounds. `getIndex` is a call of its own: it looks for the chunk that holds the pointer
(`ChunkOf`, `IndexOf`) and refuses one that none does. `deallocate` is modelled with right and wrong arguments: null, foreign,
already free, out of range.

**TimestampCache.** `at` is a program counter for each thread; `mutex_` is the
thread that holds it. A text is the pair of the moments its two halves were made
from: it is written in two steps and copied in two, so without the mutex a reader
would meet `<<2, 1>>`. `refresh_once` is one set of actions, taken by the owner in
`start` and by the worker in its loop. `start` and `stop` exchange the flag and go
on only when they changed it. The worker's sleep is a pause before its next step.

**Application.** `script` is all the input will ever hold: lines, and whether the
last has its newline. `getline` has the three cases of the standard's: a line, the
end of the input, and a stream no longer good, which leaves the string as it is. A
line is its words and whether there is anything else in it, which is what `operator>>`
and the comparison with `"QUIT"` tell apart.

**FlowerExchange.** `phase` is where `main` is between the constructor and the
destructors of the application. The main thread is the owner of the cache; it does not
run on while a call of `start` or `stop` is under way. `Stamp` is the matcher: a
snapshot for an order, then the order's place in the history `stamps`. `Dies` is any
of the ways a process ends within a call.

**CsvReader, Conversions, CsvFiles.** A text is a sequence of characters, because the
properties are about characters: where a line ends, where a field does, which digits
a number has. `Advance` is one `operator++`, end of stream and carriage return
included; `row(k)` the field at the two positions that `CSVRow::readNextRow` records.
`string_view_to_int` and `string_view_to_double` find the parts of a number by
scanning as the code does and give `Throws` where the code throws. A double is an exact
decimal, a sign, digits and a power of ten, or infinite or not a number; that a real
double is rounded to binary is left out. A price between the largest `long long` and the
largest tick is one `llround` promises nothing about, so it may be formatted in any of
the ways that can come out. Powers of ten are worked out up to `MaxShift` places; a
larger one is taken to lead beyond the largest tick, a smaller one to nothing, which is
right as long as 10^`MaxShift` exceeds the largest tick and twice the digits of a text. `double_to_ticks` and the formatter's
saturation have the limits of their integer types as constants. `Refuse` follows the
texts that pass from the input to the output: client id, instrument, side, quantity
(through 16 bits) and price. A field may have a NUL in it: `copy_text` of the producer
copies by length and keeps it, the two copies of the order processor are of C strings
(`copy_c_string`) and end at it.

## 3. Runs

All bounds are constants of the `.cfg` files or named constants of the modules.

| Run | Instance | Shows |
|---|---|---|
| `order_books` | 7 ticks, words of 3 bits, 4 orders, both strategies | `TypeOK`, `ListsWellFormed`, `IndexMatchesLevels`, `MapHoldsOccupiedLevels`, `SameAnswers`, `ImplementsOrderBook` |
| `matching_engine` | 1 instrument, 3 ticks, sizes 1 to 3, 4 orders, fair | `TypeOK`, `NotCrossed`, `PoolMatchesBooks`, `QuantityConserved`, `ReportLifecycle`, `TradesReportedInPairs`, `ImplementsMarket`, `ProcessOrderReturns` |
| `pipeline` | 2 files of up to 4 lines, queues of 2 and 1, batch of 2, fair | `TypeOK`, `OrdersInFlight`, `ReportsInFlight`, `NothingLeftBehind`, `ImplementsFileProcessor`, `ProcessFileReturns` |
| `order_processor` | 2 files of up to 3 messages of 9 kinds, 2 instruments | `AcceptedWithinLimits`, `AnsweredInOrder`, `OnlyOrdersOfThisFile`, `ImplementsExchange` |
| `mem_pool` | chunks of 1, 1, 2 and 3 nodes | `FreeListExact`, `IndicesAgree`, `ImplementsPool` |
| `flower_exchange` | every input of up to 3 lines of 5 kinds, 3 calls, 2 orders stamped, 2 moments, fair | `CallsFollowInput`, `StampsReal`, `NoThreadOutlivesCache`, `QuitEnds`, `TimeMovesOn` |
| `csv_files` | files of a header and 2 lines of 6 kinds with every line end; every text of up to 4 characters as a quantity, of up to 5 as a price | `MessagesAsWritten`, `RowsReadBack`, `RowsRunOut` |
| `order_processor_reset`, `_price`, `_reject` | 2 messages | findings 1 to 3 of section 6 |
| `flower_exchange_input` | one unterminated line | finding 4 of section 6 |
| `csv_files_documented` | the files of `csv_files`, shorter texts | finding 5 of section 6 |

Why the bounds are enough to see the interesting cases:

* Seven ticks in words of three: a first, a middle and a last word, the last with
  one tick of three, so scans start at the first and last bit of a word, cross an
  empty word, and stop at the end. Four orders make levels of up to four, and
  leave three levels occupied while one empties.
* Four orders, three prices and three sizes: an order that sweeps two or three
  levels or two orders of a level, is partly filled and then rests, and is later
  filled by another. Slots are as many as orders, so freed ones are reused.
  Which free slot an order is given makes no difference to any action or property
  (`MatchingEngine` takes any, and the proofs are about any), so the runs take the
  least (`LeastSlotSpec`), which is sound for liveness too, where a symmetry set is not.
* Files of at most three data lines over an inbound queue of two and an outbound
  queue of one, where an order has up to two reports: both queues fill, the
  matcher is stopped between the reports of one order, the batch fills in the
  middle and a remainder is flushed. Two calls show what one leaves to the
  next. The real capacities (and the 4 MB batch) only make the same states rarer.
* The messages are at the edges: the highest price and just above, a price
  between two ticks and below half a tick, a negative one, a size that wraps
  to a valid one in 16 bits. One order of a second instrument is at a price that would
  trade with the first: all that instruments can do is meet when they should not. Six slots are as many as messages of two files,
  because orders left by the first are not returned.
* Three lines of input are a command before, at and after a QUIT; the kinds are a
  PROCESS with a path, with a further word and a blank at its end, without a path, QUIT
  and a QUIT with a blank at its end. Two moments are what a torn text takes, two
  stamps what an order of stamps takes: the clock passes from one moment to the next
  at every point of a write and a copy. `MaxCalls` is no less than the lines, so it
  stops only the loop of finding 4.
* The texts tried as numbers have a digit below, at and above every edge of a small
  int: `IntMax` is 127, so that three digits overflow and a fourth is skipped. A price
  of five characters has room for a sign, a point, digits on both sides and an exponent
  of one or two digits, and reaches both `LongMax` and `TickMax` through the exponent.
  The quantities are read from a table up to `MaxQuantity`, 50 here, as the code's is up
  to 1000, and a text of two digits is beyond it.
* Chunk sizes follow the code's rule from an initial capacity of one, up to the
  first growth that is cut off by the largest chunk size.

Deadlock is checked in every run: where a program is finished a stuttering
action says so (`NoMoreOrders`, `NoMoreMessages`, `Stopped`).

### Fairness

`MatchingEngine!FairSpec`, and `LeastSlotSpec` after it, asks weak fairness of the steps
of `process_order` together, not of arrivals: the code between call and return waits for nothing
inside the engine (the callback's wait for a queue is `Pipeline`'s). Without it
`process_order` might stop halfway, which only an operating system that stops
the thread for ever would do.

`Pipeline!FairSpec` asks weak fairness of each thread's next step: the program
counter of a thread enables one action at a time, so this is "each thread is
scheduled again and again", which the kernel does for three threads spinning on
cores of their own. It is not asked of `StartFile`, `PrepareFails` or
`PinFails`. A thread that waits for room in a queue is enabled when there is room
and stays so, since only it pushes; weak fairness is enough.

`FlowerExchange!FairSpec` asks weak fairness of the main thread, the refresher and the
matcher, each of which has one step at a time, and of nothing else: neither the clock
nor the death of the process. A `std::mutex` is not fair, so a thread might be passed
over each time the mutex is free; weak fairness gives it the mutex only if nobody takes
it again and again. Nobody does: snapshots are as many as orders, and the owner
refreshes once. That a call returns is `ProcessFileReturns`, which `Pipeline` shows.

`RowsRunOut` says of each step what termination needs, that a turn of the loop takes
something from the stream or is the last, and asks for no fairness.

## 4. Proofs

Every safety invariant and every refinement that a run checks is proved; what is left to
TLC is in "Only model-checked" below. The assumptions are those on the constants, each
named in the module that declares them and no stronger than the code: capacities, limits
and numbers of ticks are positive; `NULL` (and `MemPool`'s `Foreign`) is no object;
`ProcessorAssumption` has `MinQuantity >= 1` (`runtime_config.h:10-12`) and `MaxQuantity
< 2^16`, because an accepted size is kept in a `uint16_t` (`types.h:81`); files, scripts
and texts are finite sequences of the right elements; the buffer of a price text has
room for the largest `long long` of hundredths with its sign (21 characters of
`price_text[24]`), an entry of `kQuantityText` for its number, and the program's own
reasons and times have no comma or line feed in them. The bounds that keep TLC's state
spaces finite (`MaxOrders`, `MaxMessages`, `MaxCalls`, `MaxShift`, ...) are arbitrary
numbers in the proofs.

### The books

`BookStrategies_proofs` proves, for any number of ticks, width of a word and set of
orders, that the two strategies keep what they promise and answer alike:

* `BookInvariant`, `BitmaskImplementsOrderBook`: the bitmask book alone
* `BookTypes`, `BookLists`, `BookIndex`, `MapLevels`, `StrategiesInterchangeable`,
  `BooksImplementOrderBook`: both side by side, as the run has them

with `BookInv == TypeOK /\ ListsWellFormed /\ IndexMatchesLevels /\ EachOnce(levels)`.
The lists, the mask and the cached bests need each other: a best level popped empty is
searched for again in the mask, and the list of a level is emptied only when its head's
link is null. `EachOnce` is what a test does not see: `add_order_known_valid` writes the link of the
tail and of the new order without asking whose they are, so an order queued twice would
join two lists.

1. Words and bits: a tick is its word and bit and nothing else is, so the mask is a set
   of ticks cut into words, and setting or clearing one bit changes one tick.
2. The scans: the first word with a bit, then its least bit, is the least occupied tick,
   with the last word partly used and any number of empty words in between; the same
   downwards.
3. One lemma for each method: add, pop and the calls that only answer.
4. `BothInv` adds that the map's keys are the occupied levels; equal answers follow,
   since both are determined by `levels`.

### The matching engine

`MatchingEngine_proofs` proves, from `EngineAssumption` alone (a positive number
of ticks, positive largest quantity, a `NULL` that is no slot) and for arbitrary
sets of slots and instruments:

* `TypeCorrect`: `Spec => []TypeOK`
* `NeverCrossed`: `Spec => []NotCrossed`
* `PoolAndBooksAgree`: `Spec => []PoolMatchesBooks`
* `Invariance`: `Spec => []IInv`, from which the three follow

None of the three is inductive alone. `NotCrossed` after `Rest` needs to know that
the resting order's price is the tick at which it is queued and that the best level
of the other side was read from the right book (`RestingOrdersPlaced`). `TypeOK` after
`Match` needs a resting order with quantity left (the same again). A level is in the
order of age, and `Rest` puts the incoming order at its back, so the incoming order must
be younger than all that rest; that is `IncomingYoungest`, and it needs in turn that no
live order is numbered above the count of accepted ones, so that the next arrival is
younger still.

The invariant is in two parts. `CoreInv` is what a call of `process_order` needs and
keeps: `CoreTypes`, resting slots live and the incoming order not among them,
`RestingOrdersPlaced`, `NotCrossed`, `IncomingYoungest`. `IInv` adds what holds of an
engine that is never reset: no live slot is out of reach of the books (`Unreached = {}`)
and the histories. The order processor empties the books between two files and leaves the
pool alone, so there only `CoreInv` survives, and it is enough for the proofs about
the processor.

The argument:

1. `PriceLevels_proofs` states what adding to and popping from a level does to the
   places of a book, and that `FindFirst` and `FindLast` name an occupied tick and
   the lowest or highest such one, or that there is none.
2. `PlacesAfterAdd` and `PlacesAfterPop` lift this to all books: after an add every
   place is an old one or the new last place (`OnePlaceMore`); after a pop every
   place is an old one, moved up by one in the level popped (`OnePlaceLess`).
3. `PlaceFacts` collects what `CoreInv` says of the slot at a place, and `OnePlace`
   derives that a slot is queued at one place only: its order names the side,
   instrument and tick, and strict age order names the position. Popping the head of
   a level and freeing its slot therefore frees nothing another level still needs.
4. One lemma for each action, with one step for each conjunct. `Match` splits on
   whether the resting order is used up; `Rest` uses `NothingToMatchMeaning`, that
   no order of the other side reaches the incoming price.

### What the engine reports

The same module proves of the reports, for histories of any length,

* `ReportsAddUp`: `Spec => []QuantityConserved`
* `LifeOfAnOrder`: `Spec => []ReportLifecycle`
* `TradesInPairs`: `Spec => []TradesReportedInPairs`

from `HistoryInv`, which adds to `IInv` that no two live orders have the same number
(`OwnNumbers`), that a live order differs from the accepted one in its quantity only
(`OnlyReduced`), that orders and reports are numbered alike (`Numbered`), that what was
told of an order and what is left of it make up its size (`Histories`), the pairs
(`InPairs`), and that only the order at work may still be untold (`AtWork`).

The sum over the reports of an order is told as a running total, which a further report
raises by its quantity or leaves (`IsTotal`, `TotalIs`, `TotalGrows`). A trade is two
reports, and the lemma `TellOneSide` is about one: `Match` is taken in two
halves, with the pool in between in which the incoming order is reduced and the resting
one is not yet. That one lemma then serves taker and maker.

### The engine implements the market

`EngineImplementsMarket`, that is `Spec => ImplementsMarket`: the engine, seen through
the set of orders that rest, does what the abstract market does.

1. The slots that rest are the live ones but the incoming. So what a step does to the
   open orders is read off the pool, and no argument about sequences is needed for it.
2. `DistinctOrders`: no two resting orders are alike, since one level orders them
   strictly by number and an order names its level. Taking one out of the set
   is therefore taking one slot out of the pool.
3. `BestLevelFirst` and `PriorityKept`: the head of the best level is first in line
   among all open orders it could be matched with, by price, then by age. This is where
   the books matter, and where `FindFirstProperties` and `FindLastProperties` enter.
4. One lemma for each action: `ArriveRefines`, `MatchRefines`, `RestRefines`,
   `FinishRefines`.

### The order processor

`OrderProcessor_proofs` proves, for any messages and limits and any number of files,

* `LimitsHold`: `ProcessorSpec => []AcceptedWithinLimits`
* `FilesApart`: `ProcessorSpec => []OnlyOrdersOfThisFile`
* `EveryMessageAnswered`: `ProcessorSpec => []AnsweredInOrder`
* `ProcessorImplementsExchange`: `ProcessorSpec => ImplementsExchange`

from `ProcessorInv`: the engine's `CoreInv`; the histories typed and `next_oid_` one more
than the messages; `AcceptedWithinLimits`; what the books and the engine can reach
is a valid message of this file (`ReachedOfThisFile`), which is where the slots that a
reset leaves behind drop out; the order at work is the last message (`Underway`); the
reports come in turn and a refusal stands alone (`AllInTurn`); every other message has
been answered (`OthersAnswered`). The steps of the engine are taken over from the lemmas
above; what is new is what `consume` does before them and `reset` between two files. For
the refinement a step of `Market` is a step of `Exchange` (`MarketOfExchange`), a refusal
and a reset are steps of its own.

### The memory pool

`MemPool_proofs` proves, for any capacities and any sequence of calls, right or wrong,

* `FreeListCorrect`: `Spec => []FreeListExact`
* `IndicesCorrect`: `Spec => []IndicesAgree`
* `MemPoolImplementsPool`: `Spec => ImplementsPool`

from `PoolInv`: the chunks lie one behind the other (`ChunksInv`), `is_free` is true of
exactly the nodes that are not out, and there *is* a sequence without repetition that
begins at the head, follows `next` to the null link and meets exactly the free nodes
(`FreeListIs`), of as many nodes as the capacity less those that are out. That the walk
of `FreeListExact` finds this sequence, and that the binary search ends at the chunk of an
index, are the two claims about recursive functions here.

### The pipeline

`Pipeline_proofs` proves, from `PipelineAssumption` (files of integers, positive
capacities and batch) and so for files of any length and any number of calls:

* `PipelineTypeCorrect`: `Spec => []TypeOK`
* `NothingIsLeft`: `Spec => []NothingLeftBehind`
* `OrdersKept`: `Spec => []OrdersInFlight`
* `ReportsKept`: `Spec => []ReportsInFlight`
* `PipelineImplementsFileProcessor`: `Spec => ImplementsFileProcessor`

The first two need only how far each thread may trust the others' flags,
`PipelineInv == Types /\ EndIsLast /\ Handshake`:

* `EndIsLast`: the end of the stream is in the inbound queue exactly from when the
  producer puts it there until the matcher takes it, and nothing is behind it. So a
  matcher that has taken it has an empty queue, for good.
* `Handshake`: a matcher that has left its loop has taken the end and the producer has
  returned; `matcher_done` means that the matcher has returned, with nothing pending; the
  writer looks at the queue a last time after it has read the flag, so that what it finds
  empty stays empty.

Read in the other order (`DrainCondition_Swapped`) the last conjuncts fail, and with
them `NothingLeftBehind`.

The others are about the orders and reports themselves, and need
`FlowInv == PipelineInv /\ Reading /\ Queued /\ Tallied /\ Rows`:

* `Reading`: what was pushed are the orders on the lines before the producer's, and it
  has met no unreadable number.
* `Queued`: what was pushed and not consumed waits in the inbound queue, in file order,
  with the end behind it.
* `Tallied`: the counters are what they will be reported as.
* `Rows`: the file, the batch, the outbound queue and what the matcher still has to push
  are together the header and the reports on the orders consumed.

`Rows` regroups when a report is handed on (`HandedOn`, `RowPushed`, `RowAppended`,
`BatchWritten`) and grows when an order is consumed (`RowsAnswered`). For the refinement
`StartFile` is the call, a flush of the batch a write, `JoinMatcher` the return, and a
thread that cannot be pinned or a number that cannot be read the death of the process; at
each of them `FlowInv` says that the rows so far are a beginning of the rows expected, and
at the return that they are all.

### The clock and the program

`FlowerExchange_proofs` proves `CacheInvariance`, of a cache whose owner starts and stops
it as it likes, with any number of readers: only the holder of the mutex is between two
halves; outside of that the text is whole; the owner's refresh and the worker's are never
both under way (`OneWriter`), without which a slow writer could put the time back.

It proves `UsesCache`, that the program uses the cache in this way
(`Spec => CacheSpec`), takes `CacheInvariance` over, and adds where `main` is
(`PhaseInv`), what a call has done (`CallInv`) and what has been stamped (`StampInv`) to
prove

* `StampsAreReal`: `Spec => []StampsReal`
* `NoThreadIsLeft`: `Spec => []NoThreadOutlivesCache`

### The command loop

In the same way `UsesApplication` is `Spec => AppSpec`, and

* `CallsAreTheInputs`: `Spec => []CallsFollowInput`

follows for inputs of any length from `AppInv`. Its `InputInv` says that what is left to
read is the end of the script, and that a stream with something left is good. `LoopInv`
holds of an input with a QUIT or a final newline: between two lines the calls are the
paths of the lines read, none of which ends the loop; with a line at hand they are those
of the lines before it, and the stream is good unless the line is the QUIT. That last
part is where the condition on the input is used: of an input with neither, the last line
would be at hand again with the stream at its end (finding 4).

### The rows of a file

`CsvFiles_proofs` proves, for files of any text and any sizes of the buffers and
integer types that meet the assumptions,

* `IntegersAreRead`, `DecimalsAreRead`: each parser throws exactly on the texts that say
  nothing, and otherwise returns what the text says
* `FieldsOfTheRow`: what `CsvReader` cuts out of a line are its pieces between commas
* `FileIsRead`: `Spec => []MessagesAsWritten`
* `ReportsAreRead`: `Spec => []RowsReadBack`
* `LoopOverRowsEnds`: `Spec => RowsRunOut`

The code scans; the properties say what a text means without scanning: a number is a sign
and digits at *some* places between the first and the last character that is no blank, a
file is cut into lines as a whole. The proofs are that the two agree.

1. *Numbers.* `Skip` stops at the first character of another kind, so the places it finds
   are a way to cut the text (`MantissaScanned`, `ExponentScanned`), and there is no
   other way (`CutsAreScanned`). `Accumulate` stops at the largest `int` and stays
   there, which is what clamping the whole numeral gives.
2. *Texts cut up.* `Places` and `Pieces` go through a text side by side. `CutUp` says how
   they belong together after each character: the pieces are what lies between the
   places.
3. *The file.* `FileInv` names the number `n` of lines taken. What is left of the stream is
   the file behind the `n`-th line feed (`Taken`); the row at hand is line `n`; the producer
   has died only at a record that is malformed (`ProducerAt`); the messages are the
   records among the lines dealt with, one for one (`MessagesOf`). `MessagesAsWritten`
   alone does not know where in the file the reader is. Records of the first lines stay
   what they are when lines are added (`RecordsBegin`), which compares the messages so
   far with the records of the whole file.
4. *Digits.* `DigitsReadBack`: what `to_chars` writes is a numeral of the same value, by
   its last digit and the others. With two digits behind a point it is an amount
   (`AmountWritten`), and the parser reads the hundredths (`AmountReadsBack`). That an
   amount is never replaced by an empty text is `AmountsFit`: a smaller number has no more
   digits than `LongMax`.
5. *The row.* A text without separators is one piece (`NoCut`), and putting a separator and
   such a text behind another text adds one piece (`SplitOneMore`); nine times this, and
   the row is one line of the nine fields (`RowIsCutUp`). That client id and instrument
   have no separator is not checked by the code; it holds because they are pieces of a
   line between commas, cut short by the producer and at a NUL by the C-string copies
   (`CStringCopied`, `ClientsTextCopied`), so this is where `RowsInv == FileInv /\ ReportsBack`
   uses the reader's side.

### Recursive definitions

The library's induction theorems take a predicate as an argument, which the
provers cannot supply. The proofs about what a recursive function computes (the walk of the
free list, the binary search, the orders among the lines of a file, the reports on the
first orders, the paths of a script, the value and the digits of a number, the pieces of
a text) use the well-foundedness of `<` instead: were there
an argument of which the claim is false there would be a least one (`Least`), and the
step before it refutes it. That the function exists at all, so that its defining
equation may be used, is the lemma `Recursion`, shown in the same way. What stays opaque
is a definition that passes an operator on (`SelectSeq`, folds over a `LAMBDA`), so
`OrderLines`, `Delegations`, `Pieces`, `RecordsAmong` and `Numeral` are recursive
functions.

### Only model-checked

TLC has checked each invariant the proofs state on the small instances, `FileInv` among
them, and in addition liveness (`ProcessOrderReturns`, `ProcessFileReturns`, `QuitEnds`,
`TimeMovesOn`), which is out of reach of the proof system as used here. Of a price beyond a
`long long` the properties only say that its text is a field of the row.

## 5. Not modelled

* The rounding of decimal texts to binary doubles and back: a double is an exact
  decimal. So is a mantissa of more than 300 digits, which in a double is infinite, or
  nothing, before the exponent is looked at (`types.cpp:169`, `:212`). What a price outside the limits exactly rounds to is thereby left open; the
  limits themselves and the rounding to ticks are in `OrderProcessor`.
* A wall clock that is set back. The cache copies what the clock says.
* Failing writes: the code ignores the results of `write` and `close`, so there
  is no behaviour to state.
* The name of the output file, which depends on the stem of the input path only.
* The rows of accepted orders: the client id in them comes by the same copies as that of
  a refused order, the instrument is the program's own text, the numbers are in their
  limits, and the row is made by the same `append_csv_row`. Console output, and with it the
  reporter.
* `report_pool_`: each report is allocated, copied out and released within one call of
  the callback.
* Memory ordering below sequential consistency: the atomics of `PipelineState` use
  the default order, and the queues' own synchronisation is the library's.
* Address-space exhaustion (`bad_alloc`).

## 6. Findings

Five of the runs check a statement of the repository's own and find it not to hold of
the code. The second lets a client trade at up to half a tick beyond its limit;
the others do not affect what is matched within a file.

1. `order_processor_reset`: `OrderProcessor::reset` leaves the orders that rest in
   the old books allocated in `order_pool_`; `order_processor.h:22` says it clears
   all per-file order state. The pool grows by what each file leaves resting.
2. `order_processor_price`: prices that are not multiples of 0.01, or below 0.01,
   are accepted and rounded, a price below half a tick to 0.00; `README.md:57` says
   multiples of 0.01 from 0.01.
3. `order_processor_reject`: the report on an order refused for its size gives the
   size modulo 65536; the integration test expects the size itself (for a small one).
4. `flower_exchange_input`: `Application::run` does not look at the result of `getline`
   (`application.cpp:21`). After a last line without a newline it handles that line again
   and again, so that an unterminated PROCESS is processed without end;
   `test_application.cpp:35` expects one call for each such line. An input that ends
   with a newline but without QUIT makes the loop spin. The test's own input ends with
   QUIT, so it does not meet either.
5. `csv_files_documented`: `README.md:59-68` gives a report eight columns, the status
   `Rejected` and as quantity the units executed. Header and rows have nine, the ninth a
   timestamp (`csv_report_writer.cpp:111`); the status is `Reject` (`types.cpp:57`); a
   refused order is reported with the quantity it asked for (`order_processor.cpp:153`),
   as a resting one is under `New`. The tests expect what the code does, and so does
   `RowsReadBack`; it is the document that is behind.

## 7. Plan

Every part of the program with state of its own is modelled, and what a run checks of it
is proved but for liveness. What is left:

1. An implementation of `Stamp` by `OrderProcessor!Consume`, so that the reports of a
   trade are seen to carry one time.
2. The rounding of a decimal text to a binary double, so that `Hundredths` is about the
   double and not about the text, with the overflow of a mantissa by itself.
