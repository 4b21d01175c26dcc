# A verification of libero2

libero2 is a small web firewall for Linux: packets that match a netfilter
`QUEUE` rule are handed to a user-space daemon (libipq), which asks a chain of
loadable modules about each packet and sends the kernel a verdict.  This
directory models that daemon and its data structures in TLA+, checks the models
with TLC and proves the central results with TLAPS.  Line numbers are those of
the repository's files.

## 1. The system

| component | state it keeps | operations | interacts with |
|---|---|---|---|
| **packet filter daemon** `libero.c` | `ReadyQueue`, `ModuleList`, `queueLock`; per thread `ctx`, `status`, `result` | threads `patching` (read, test the backlog, queue or sleep) and `processing` (dequeue, classify, run modules, verdict); `die` | ring buffer, list, kernel through libipq, modules |
| **ring buffer** `lib/gqueue.c` | `buffer`, `front`, `rear`, `currentSize` | init, write, read, top | called by both threads of the daemon under `queueLock` |
| **linked list with a cursor** `lib/glist.c` | nodes, first, last, current, length | init, append, prepend, nth, insert, remove, next, prev, rewind | filled by the loader, walked by `processing` |
| **module loader** `module.c` and the start of `main` | the words of `conf/modules.conf` | read pairs of words, `dlopen`, append; open the handle | list, ring, kernel |
| **list test program** `lib/testcase.c` | a list of its own | append, next | list |
| **example module** `modules/test.c` | - | `module_main`: deny, continue or exit | called by `processing` |
| **packet dumper** `test/ipq.c` | message list, two mutexes, condition variable, signal handlers | read/accept/queue, dump thread, shutdown | kernel, `test/list.h` |
| **passer** `test/test.c` | - | read and accept in a loop | kernel |
| **memory pool** `lib/mempool.c` | buckets, free and used list, counters | init, alloc, free, destroy | static-item list |
| **static-item list** `lib/sf_sdlist.c` | items, head, tail, size, destroy function | insert_next, append, remove_next, remove, delete | memory pool |
| **logging** `lib/logging.c` | `DEBUG_FP`, the stream's buffer, `log.txt` | `dlog` | called by every thread, no lock |
| dump helpers, IP trees, HTTP response, site information | - | output, unused code | - |

`src/libero2/` is an older copy of the same tree; the models follow the current
files.  `linux`, `a.out`, `*.so.1`, `etc/tags` are binaries and indexes.

What is hard about each, and what makes it correct:

* **Daemon.** Two kinds of threads share the ring.  `patching` tests
  `currentSize` without the mutex (line 110) and ignores the result of the
  write (79); `safe_dequeue` returns an uninitialised pointer if the ring is
  empty (83-86); `status` is tested before it is assigned (151); a verdict
  names its packet by a number that the kernel uses again, and a verdict too
  many meets another packet or is answered with a complaint, one more message
  in the same queue.  Correct means: a packet reaches exactly one worker, in
  order; nothing is dropped unless the backlog is full; the verdict is the
  chain's answer about that packet, and the kernel waits for it; what is queued
  gets out.
* **Ring.** It keeps its fill level twice (`front`/`rear` and `currentSize`) and
  never uses one slot.  Correct means: both levels agree and it is a FIFO.
* **List.** Links in both directions, three entry pointers and a count change by
  separate assignments.  Correct means: the links mirror each other and the
  cursor visits every node in order.
* **Dumper.** A signal may leave any step of `main` by `longjmp`, `queue_msg` with
  the mutex held among them, and the dump thread is cancelled in its wait or
  with a copy in its hand.  Correct means: no copy is used or freed twice, copies
  are printed in order, what is queued is printed, the shutdown ends.
* **Pool and static list.** Every bucket is in exactly one of two lists and the
  counters say how many are in each; a payload is destroyed once, with its item.
* **Start.** A ring without memory goes unnoticed, and the words of the file are
  paired across lines.  Correct means: no packet is read before the list holds
  what the file names, in its order.
* **Logging.** `dlog` tests and sets `DEBUG_FP`, prints and flushes without a lock.
  Correct means: the file is opened once, a line is in it when its call
  returns, and the lines tell the order of events.

## 2. The modules

```
 BoundedFifo <== GQueueAPI ---+            CursorList <== GList <--- Startup
 (abstract)      one client   |            (abstract)     heap       loader, main
                           GQueue          ObjectPool <== MemPool
                              |            (abstract)       :
 PacketHandoff <== Libero ----+                           SDList <--- SDListAPI
 (abstract)        threads ---+                           operators   one client
                              |
                           IpQueue         Logging: dlog and the threads that call it
                              |
 DumpOrder     <== Dumper ----+            <==       implements (refinement mapping)
 (abstract)        threads, signals        ---, <--- EXTENDS      :  INSTANCE

 GQueueProofs  <- GQueueAPIProofs, LiberoProofs <- PacketProofs    TLAPS
 LoggingProofs, DumperProofs, StartupProofs, MemPoolProofs         TLAPS
 MCGQueueAPI, MCLibero, MCLibero2, MCGList, MCLogging, MCDumper, MCMemPool   TLC
```

**IpQueue** is the kernel's side of libipq, external code that both programs use:
`inbox`, the messages sent to the socket, `held`, the packets kept until a
verdict, and `packet_id`, the number each got when it was queued.  A member of
`Packets` names one packet on one way through the queue and belongs to the model;
all a verdict carries is the number.  `Ids` are the numbers and `FreeIds` the
kernel's choice among those that no packet it keeps has, so a number is free
again as soon as its packet is released.  `set_verdict(p)` releases what the kernel
finds by the number of `p` (`Found`): `p`, another packet that has the number now,
or nothing, and then the answer is an error message.  After `NF_QUEUE` the packet
is out of the queue too: the kernel sends it through again under a new number,
which is an `Enqueue` like any other.

**GQueue** holds the structure and its C functions as operators: `front_go`,
`rear_go`, `queue_write`, `queue_read`, and `queue_init`, where `malloc` gives
every slot any contents and `memset(buffer, 0, queueSize)` clears only
`queueSize` bytes (`PtrSize` is the size of a pointer).

**GQueueAPI** lets one client call `queue_write`, `queue_read` and `queue_top` in
every order and records what it sees: return code, the pointer it passed, and
the elements whose first word `queue_top` overwrote (lines 61-62 store NULL
*through* the oldest element).  It implements **BoundedFifo** with a capacity of
`QueueSize - 1`.

**Libero** is the daemon.  One variable per shared or local variable of the
code, and `pc[t]` for the place in the thread's loop.

| code | actions |
|---|---|
| `ipq_read` (102), failure (103-106) | `ReadMessage`, `ReadFails` |
| test at 110, then 111-113 | `CheckBacklog`, `PatchingLocks`, `safe_queue`, `PatchingUnlocks` |
| `sleep` branch 115-118 | `Shed`, `Wake` |
| 137-145 | `WorkerLocks`, `safe_dequeue`, `NothingWaits`, `WorkerUnlocks` |
| 149-161 | `DieOnStatus`, `Skip` |
| 184-189 with a short packet | `CrashOnBarePacket` |
| 189-191 | `AcceptNonTcp`, `PassTcp` |
| 253, `glist_next` in 254 | `Rewind`, `LoadCursor`, `TestCursor`, `NextNode`, `StoreCursor`, `CrashInGlistNext` |
| 255-261, `exit` in a module | `CallModule`, `ModuleExits` |
| 290-300 | `Verdict`, `VerdictFails` |
| kernel (external) | `Arrive`, and `set_verdict` inside `AcceptNonTcp` and `Verdict` |

Each access to memory that threads share is a step of its own, except inside
`lock ... unlock`: there one step stands for all assignments of a ring
operation.  That is sound because no thread touches the ring's `buffer`,
`front` or `rear` outside the lock, which `LockHeld` establishes, and because
the one unlocked read, line 110, reads the single word `currentSize`, which
each operation writes once.  The lock steps themselves are separate, so every
interleaving *around* the sections is there.  `ctx` is followed in the worker's
hands: a dequeued `packet_ctx` is private to the worker that has it (no address is
queued twice, and a packet's message is in one place, which `OnePlace` checks), so
its bytes are constant until it is dropped.

`Mentioned` guards the names of packets, not their numbers: a name is taken for a
new packet when no message in the socket, the ring, a thread's hands or `shed` has
it.  A name stands for one packet only for as long as something refers to it; the
numbers are free to go round, and a TCP packet gets the number of one that was not
TCP.  A shed packet, which the kernel keeps without end, keeps its name.

Module replies: `Reply[m]` is the set of numbers module `m` may return.  The
daemon passes the last reply to the kernel as it is, so `SIN_DENY` = 2 acts as
`NF_STOLEN` and `SIN_CONTINUE` = 3 as `NF_QUEUE`.

`Workers` is a set although `main` starts one `processing` thread: the comment at
132-136 and the variables `process1..process3` are about several, and the lock
exists for their sake.  Runs and theorems that rely on a single worker say so.

Two variables are history and change nothing in the daemon: `asked`, the modules asked
about a worker's packet with their replies, and `acceptedEarly`, the numbers under
which line 190 has accepted a packet, for `LostOnlyByReuse`.

**PacketHandoff** is what the queue promises: a message in the producer's hand is
put, or dropped when `Limit` messages wait; the oldest goes to one consumer.

**GList** is `glist.c` on a heap: a node is an address with `next`, `prev`, `data`;
`free` takes the address out of `allocated`, and following a pointer to no
allocated node sets `fault`.  `UsedSpec` has the operations the daemon uses and
the readers; `FullSpec` adds `glist_prepend`, `glist_insert`, `glist_remove` of any
node, `glist_remove_by_num` and `glist_ndup`, which no program of the repository
calls, and the steps that then follow a dangling pointer (`AppendToFreed`,
`ReadFreed`, `WalkFreed`).  `glist_insert` never stores its argument: the new node's
data is whatever the memory held.
**CursorList** is the sequence with a cursor that `Libero` takes the list for.

**Startup** extends `GList` with the start of the daemon: `init` (whose `queue_init`
may find no memory, which nobody tests), `LoadModules`, `insmod`, and the two calls
that open the handle.  `Files` are the contents the file may have, sequences of
words; `fscanf` takes two at a time wherever the lines end, and the first of the
two, the mode, is not looked at.  In the phase `run` the worker walks the list, or
the first message crashes on the missing ring; in the phase `client` a program
like `lib/testcase.c` uses the list alone.

**Logging** is `dlog`, one action per statement, for every thread of the daemon.

| code | actions |
|---|---|
| level and pointer test (logging.c:8) | `TestPointer` |
| `fopen`, may fail | `fopen` |
| `vfprintf`, `fflush` | `vfprintf`, `fflush`, `CrashOnNullStream` |
| the threads between two lines | `ReadMessage`, `ReadFails`, `CheckBacklog`, `PatchingLocks`, `Write`, `WorkerTakes`, `WorkerUnlocks`, `CrashOnBarePacket` |
| `exit` | `Die`, which writes all buffers out |

`DEBUG_FP` is read once for the test and again by each use, so another thread may
change it between.  A stream is the lines in its buffer; every `fopen` makes a new
one.  `After` gives the daemon's calls of `dlog` in the order of libero.c, dump.c
and modules/test.c, with what may follow each; a line is its kind and its
message.  What a message is, and its verdict, are left to `Libero`.  One line is not
the text the source has: at libero.c:116 `stderr` stands where the format belongs,
and `vfprintf` prints the bytes of that structure, read as a format.  The model
takes the call to return and its line to be one like the others.

**Dumper** is the program of `test/ipq.c`: `mpc` and `dpc` are the places of its two
threads, `live` the copies between `malloc` and `free`.

| code | actions |
|---|---|
| `ipq_read` (421), error (446-449), failure (422-426) | `ReadPacket`, `ReadError`, `ReadFails` |
| verdicts at 395 and 444 | `AcceptFirst`, `AcceptAgain` |
| 398-404, `queue_msg` | `Copy`, `NoMemory`, `MainLocks`, `queue_msg`, `MainUnlocks` |
| `deinit_context` | `ResetHandlers`, `Cancel`, `Join`, `Relock`, `Discard`, `Exit` |
| 281-294 | `BeginWait`, `EndWait`, `UnlockWait` |
| `dequeue_msg`, 297-301 | `DumpLocks`, `dequeue_msg`, `DumpUnlocks`, `dump_all`, `Free` |
| cancellation points: 281, 288, 297 and the output | `Die` |
| a signal in `main` between `setjmp` and the reset of the handlers | `sig_handler` |
| a signal before `setjmp`, or taken by the dump thread; after the reset | `SignalAstray`, `SignalKills` |

`sig_handler` takes `main` from any of its steps to `deinit_context`; its locals are
lost, the mutex it may hold stays locked.  A jump to a buffer that is not filled
or belongs to the other thread is undefined: the model stops there
(`"undefined"`).  So may be a jump out of `malloc` or `printf`, with a lock of the C
library taken: that is left out, and `ShutdownEnds` is about the program's own locks.  A cancelled `pthread_cond_timedwait` takes its mutex back before
the thread ends, as POSIX says.  The `RESCHED_THREAD` code is not compiled
(line 43).  Initialisation that fails, or `pthread_create` failing, is left out.
**DumpOrder** is what the list between the threads promises.

**SDList** gives the functions of `sf_sdlist.c` as operators from one contents of the
memory to the next; **MemPool** is `mempool.c` on two such lists.  The `i`-th item,
bucket and object belong together for the life of a pool, so one number stands
for the three.  `free` starts with any value of `Leftover`, because `mempool_init`
never assigns it, and `mempool_destroy` clears it.  **ObjectPool** is a pool that
hands out the longest idle object.

**SDListAPI** is one list with a destroy function in the hands of a client that
inserts, appends, removes and deletes in any order, each payload allocated once.
Items that insert_next leaves without a `prev`, a `tail` that remove_next does not
move, and a loop of `sf_sdlist_delete` that cannot end are states of it.

## 3. What is checked

Passing runs:

| run | instance | properties |
|---|---|---|
| `ring` (MCGQueueAPI) | 4 slots, 3 elements | `RingOK`, `OnlyStoredElements`, `RingIsFifo` |
| `daemon` (MCLibero) | 1 worker, 3 packets (TCP, not TCP, too short), 2 packet ids, 3 slots, backlog 2, 2 modules, fair threads | `TypeOK`, `BacklogBound`, `AskedInOrder`, `CrashOnlyOnBare`, `ImplementsHandoff`, `QueueDrains` |
| `two_workers` (MCLibero2) | 2 symmetric workers, 2 packets (TCP, not TCP), 2 packet ids, 1 module | `LockHeld`, `DequeueDefined`, `OnePlace`, `LostOnlyByReuse`, `ImplementsHandoff` |
| `list` (MCGList) | 4 nodes, 2 modules, positions -1..5, every file of up to 5 words over two modules and a word that is none, or no file | `WellLinked`, `LoadedInOrder`, `ImplementsCursorList` |
| `logging` (MCLogging) | 2 workers, 2 messages, backlog 1, symmetric workers | `OpenedOnce`, `ReturnedIsWritten`, `LogInOrder` |
| `dumper` (MCDumper) | 3 packets, 1 packet id, signals at every step, fair threads | `TypeOK`, `CopiesAccounted`, `PrintsInOrder`, `QueuedGetsPrinted`, `ErrorEndsIt`, `ShutdownEnds` |
| `pool` (MCMemPool) | 4 objects, 4-bit counters, three values in `free` before init | `TypeOK`, `ListsSound`, `ImplementsPool`, `ExcessShrinks` |

* `BacklogBound`: the test at line 110 is stale when `patching` writes, and yet
  safe, because the only other writers of `currentSize` lower it.  So the
  `ERROR_BUFFER_FULL` that `safe_queue` ignores cannot occur.
* `DequeueDefined`: the caller tests `currentSize`, `queue_read` tests `front`
  and `rear`; the uninitialised `node` is never used because they agree.
* `OnePlace`: no packet is in two hands or in a hand and the queue; one the
  kernel keeps is somewhere in the daemon or was shed.  It is about packets, not
  about error messages: the kernel may send two of those about one packet.
  Shedding needs more messages than `two_workers` has: its clause rests on the
  theorem, and `ImplementsHandoff` in `daemon` is checked with it.
* `LostOnlyByReuse`: the kernel lets go of a packet before the daemon's last verdict
  on it, or refuses a verdict on it, only under a number that was accepted at
  line 190 before: the packet's own, or that of an earlier packet whose second
  verdict then came to this one.  The run `result_decides` shows that this happens;
  this property says that nothing else brings it about.
* `AskedInOrder`: the modules are asked from the first on, none is skipped or asked
  twice, the verdict is the last reply, and a chain that ends early ends at a
  module that does not allow the packet.  That it may also go on after a denial is
  a finding (`stops_when_denied`).
* `CrashOnlyOnBare`: with one worker `glist_next` never follows a null pointer,
  although it reads the shared cursor three times; a process that crashes does
  so at line 189, on a packet without data behind its IP header.  (With two
  workers the crash in `glist_next` is reachable, and `two_workers` takes it.)
* `ImplementsHandoff`, `RingIsFifo`, `ImplementsCursorList`, `PrintsInOrder`,
  `ImplementsPool`: refinement of the abstract specifications.  `BoundedFifo` has the
  peek of the code, which writes NULL through the oldest element (gqueue.c:61): the
  repository does not say what `queue_top` is for, and nothing calls it.
* `CopiesAccounted`: whatever `main` is torn out of, no copy is in the list after it
  was freed or in two places; until the shutdown none is lost.  (After a jump out
  of `queue_msg`, and after a cancellation with a copy in hand, one copy leaks.)
* `ErrorEndsIt`: an error message, such as the kernel's answer to a second verdict,
  takes the dumper to its shutdown, whatever waits in the socket before it.
* `ShutdownEnds`: `deinit_context` finishes wherever the dump thread is cancelled,
  except when the signal came while `main` held the mutex: then it waits for a
  lock it holds itself, or joins a thread that waits for it.
* `ListsSound`: the pool's lists share the items out and stay linked both ways.
* `ExcessShrinks`: the counter `free` is wrong by what it held before
  `mempool_init`, less one per refused allocation, and never otherwise.  That
  `mempool_alloc` counts down before it looks for the item (216) is taken as it is.
  A pool in a local variable, as in the test of the file (266), may refuse objects
  it has: with a value near 2^32 on the stack the count wraps around (`AllocFails`).
* `QueueDrains`: a queued message is eventually taken, or the process ends.
* `LoadedInOrder`: once all words are read, and before any packet, the list is what
  the file says; a module that cannot be loaded keeps the daemon from starting.
* `OpenedOnce`: no lock guards the test of `DEBUG_FP`, and none is needed:
  `patching` logs a message before a worker can see it, and the pointer is set
  for good by then.
* `ReturnedIsWritten`, `LogInOrder`: a crash loses no line whose call has returned,
  no line is written twice, and the lines of a message, and the append and
  dequeue lines of all messages, stand in the order of what they report.

Runs that find the code at odds with what it says of itself (each a finding):

| run | statement | what happens |
|---|---|---|
| `result_decides` (MCLibero) | comments at libero.c:264-265, the verdict is the result of the chain and is sent once | a packet that is not TCP is accepted at 190 and gets a second verdict at 291 with the same number; by then a TCP packet has the number and gets it, before the modules have answered about that one |
| `stops_when_denied` (MCLibero) | comment at 257, a packet that is not allowed has to be stopped | only `NF_DROP` (0) ends the loop: after `SIN_DENY` (2) the next module is asked and its reply replaces the denial |
| `die_on_status` | comment at 148, error handling | an uninitialised `status` may end the daemon with no error |
| `list_insert` | comment at lib/glist.c:70, insert pushes the old value back | the new node is never reachable from the first one |
| `sdlist_remove_next` (SDListAPI) | comments at lib/sf_sdlist.h:60 and 45, "remove the item after the item", destroying its payload | the payload of the item that stays is destroyed |

A packet read while 30 messages wait is given up without a verdict (115-118).  That
is no finding: the code says what it does.  `OnePlace` and `ImplementsHandoff` say
that a message is lost there and nowhere else.

### Bounds, and why they are enough

* Ring of 3 slots and backlog 2 instead of 1000 and 30.  The code compares
  positions and counts only; 3 slots reach full, empty and every wrap-around of
  `front` against `rear`.  `Backlog < QueueSize` is the only relation used, and
  the theorems hold for all values of both.
* 3 packets against a backlog of 2, one of each kind: the queue fills up and one more message
  arrives.  A name of a packet is used again once nothing refers to the packet it
  stood for (`Mentioned`), so behaviours are unbounded in length.
* 2 packet ids, of which the kernel takes the lowest free one, so that a number is
  used again at the first occasion; `IdsAssumption` asks only that `FreeIds` chooses
  among unused numbers, and the theorems hold for every such choice.  The run
  `dumper` has a single id: every packet gets the number of the one accepted before,
  so every second verdict meets a newer packet if there is one.  At most one packet
  then waits for a verdict (messages of several, and error messages, can still wait
  in the socket); with two ids the same properties hold too, in a run of five minutes.
* 2 workers meet in every step of the loop; the theorems hold for any number.
* `MaxAsked` (Libero): the history of replies is cut after `Len(ModuleList) + 1`
  entries.  One worker asks at most `Len(ModuleList)` modules per packet, so the
  bound acts only where several workers keep rewinding the shared cursor.
  `Recorded` is the bound of `acceptedEarly`: both ids in `two_workers`, where
  `LostOnlyByReuse` is checked; empty in the runs that do not look at it, which
  halves their states.  The property is about the numbers in `Recorded`, and proved
  for every choice of it.
* 3 packets in the dumper: two copies in the list, or one in each hand and one
  between them.  A name comes back when its copy is freed.
* `NumObjects = 4`: lists with a head, a tail and two items between; the first and
  last item of either list, and an item in the middle, are removed.
  `CountLimit = 16` stands for 2^32: `Leftover` has zero, a count too high, and one
  that wraps around while the pool is filled.
* `Addresses` (GList): four nodes, so a node has a predecessor, a successor and a
  neighbour's neighbour (the theorems hold for any number).  Files of up to five words: none, one or two modules, the
  same one twice, a word left over, a failing module in either place.
* `MaxMessages = 2` (Logging): after the last one `ipq_read` blocks.  Two messages are
  the fewest that two workers can log side by side, and with a backlog of 1 the
  second can find the queue full.  All three
  properties are proved for any number of messages.
* Three items and four payloads (SDListAPI): an item between two others, and an
  item that comes back.
* `inbox` needs no bound of its own: a verdict comes from a worker with a message in
  hand, no packet's message is anywhere twice, and while an error message about a
  packet is under way its name is not taken for another.

### Fairness

`FairSpec` of Libero assumes weak fairness of `patching`'s loop and of each
worker's: the scheduler lets a thread run that can run, and a module that is
called returns or exits.  It does not assume that `ipq_read` fails, that packets
arrive, or that the mutex is handed over fairly: a worker that always finds it
taken may lose every time.  `QueueDrains` holds all the same, since `patching` stops
asking for the mutex at the backlog limit and, in the end, waits in `sleep` or
`ipq_read` without it, and the worker then gets it.  In the model a sleep ends by a
step of its own; with a `sleep` that returns at once and packets that arrive for
ever, the queue at its limit keeps `patching` out of the section, which is all the
argument needs.  Names of packets are finite, but `patching` reaches the backlog (two)
before it runs out of them (three), so the property does not rest on that.

In the dumper, `FairSpec` is weak fairness of either thread and strong fairness of
`MainLocks`: the dump thread leaves the mutex alone for a second in every round of
its loop, so that `main` cannot be kept out for ever.  Without it `ErrorEndsIt` would
fail for a `main` that never gets to read the message.  No signal has to come and
no read has to fail.  The timed wait ends by a step of its own, since nothing
signals the condition.

## 4. What is proved

Every safety property that a passing run checks, and every refinement, is a
theorem: for any number of slots, packets, modules, workers, messages, nodes and
objects, any contents of the configuration file, and any backlog below the ring's
size.

| theorem | module | statement |
|---|---|---|
| `RingOKHolds` | GQueueAPIProofs | `Spec => []RingOK` |
| `OnlyStoredElementsHolds` | GQueueAPIProofs | `Spec => []OnlyStoredElements` |
| `RingImplementsFifo` | GQueueAPIProofs | the ring implements `BoundedFifo` |
| `TypeCorrect` | LiberoProofs | `Spec => []TypeOK` |
| `MutualExclusion` | LiberoProofs | `Spec => []LockHeld` |
| `BacklogHolds` | LiberoProofs | `Spec => []BacklogBound` |
| `DequeueAlwaysDefined` | LiberoProofs | `Spec => []DequeueDefined` |
| `HandoffHolds` | LiberoProofs | the daemon implements `PacketHandoff` |
| `OnePlaceHolds` | PacketProofs | `Spec => []OnePlace` |
| `LostOnlyByReuseHolds` | PacketProofs | `Spec => []LostOnlyByReuse` |
| `ResultDecidesForTcp` | PacketProofs | all packets TCP: `Spec => []ResultDecides` |
| `AskedInOrderHolds` | PacketProofs | one worker: `Spec => []AskedInOrder` |
| `CrashOnlyOnBareHolds` | PacketProofs | one worker: `Spec => []CrashOnlyOnBare` |
| `WellLinkedHolds` | StartupProofs | `Spec => []WellLinked` |
| `LoadedInOrderHolds` | StartupProofs | `Spec => []LoadedInOrder` |
| `CursorListImplemented` | StartupProofs | the list implements `CursorList` |
| `OpenedOnceHolds` | LoggingProofs | `Spec => []OpenedOnce` |
| `ReturnedIsWrittenHolds` | LoggingProofs | `Spec => []ReturnedIsWritten` |
| `LogInOrderHolds` | LoggingProofs | `Spec => []LogInOrder` |
| `TypeCorrect` | DumperProofs | `Spec => []TypeOK` |
| `CopiesAccountedHolds` | DumperProofs | `Spec => []CopiesAccounted` |
| `PrintsInOrderHolds` | DumperProofs | the dumper implements `DumpOrder` |
| `TypeOKHolds` | MemPoolProofs | `Spec => []TypeOK` |
| `ListsSoundHolds` | MemPoolProofs | `Spec => []ListsSound` |
| `PoolImplemented` | MemPoolProofs | the pool implements `ObjectPool` |
| `ExcessShrinksHolds` | MemPoolProofs | `Spec => ExcessShrinks`, an action property |

*Assumptions.* The named ones of the modules: sizes are positive, `NULL` and
`Garbage` are no messages, threads are distinct, `Backlog < QueueSize` (30 and
1000 in the code), there is a packet id and the kernel chooses only unused ones,
`None` is neither a packet nor a thread, the pool has fewer objects than its
counters can count, memory has finitely many addresses.  The theorems about the module chain assume `Workers = {one}`, as `main` starts it: with
two workers both statements are false.

*GQueueProofs* states once what a step of the ring does to the sequence
`Contents`: a write appends (`WriteAppends`), a read takes the head
(`ReadTakesHead`), and `isEmpty`/`isFull` say the same as `currentSize`
(`FillLevelsAgree`).  They rest on two facts of modular arithmetic (`ModWrap`,
`StepWraps`), proved for sums below twice the ring size, which is all that
occurs: this keeps `%` away from the SMT solver's non-linear side.

*The invariant of the daemon* (`IInv` in LiberoProofs) has three parts.
`ControlOK`: where each thread is, and that the lock's holder is the one inside.
`QueueOK`: the ring's shape, that its contents are messages, that a busy
thread's `ctx` is a message, and the backlog.  `LocalsOK`: types of the rest.
None is inductive alone: the backlog needs that between the
test and the write no *other* thread can raise `currentSize`, which is
`LockHeld` plus the fact that only `patching` writes; that a dequeued pointer is
a message needs that the contents are, and that `someWaiting` implies
`~isEmpty`, which needs `RingOK`.  Each part has its own lemma, one step per
action (`ControlStep`, `LocalsStep`, `CtxStep`, `RingStep`, `BacklogStep`...).

*The refinement.* `Loud` names the six actions the hand-over can see; every other
action leaves the abstract variables unchanged (`LoudOrQuiet`), and
`HandoffStep` maps the six one by one: `ReadMessage` to `TakeIn`, `Shed` to
`Drop`, `safe_queue` to `Put`, `safe_dequeue` to `HandOver`, `Skip` and `Verdict`
to `Finish`.  `Shed` is the delicate one: it tests `currentSize` outside the
lock, but a `Drop` is allowed only with a full queue *at that moment*.

*One place for each packet.* `OnePlace` counts the places of a packet's message and
compares with the kernel, and is not inductive.  `PInv` says it without counting: no
packet's message occurs twice in the socket, the ring and the threads' hands
(`Apart`), the packets the kernel keeps are those that are somewhere or were shed
(`Kept`), and no two of them have one number (`Unique`, from `IdsAssumption`).  A verdict
by one packet's number may release another, wherever that is; `Kept` survives because
it speaks of what is held only, and `Unique` makes a verdict on a packet that is still
held release that one.

*Who is hurt by the early accept.* `Excused(early)` says of a set of numbers that a
packet in the daemon which the kernel has let go, and one that an error message is
about, has a number in the set.  `ExcusedStep` shows that a step keeps it if the
set gains the number of every early accept: of the last verdict, because a packet that
is held is found under its own number alone, and for one that is not the number is
in the set already, and with it that of any packet hit in its stead.  With the
history variable for the set (and all numbers beyond its bound) this is
`LostOnlyByReuse`, with the empty set and TCP packets only it is `ResultDecidesForTcp`.  Together they say that line 190 is the one
cause of what the run `result_decides` shows.

*The chain.* `Chain` says of the worker that `asked`, the replies collected so far, are
those of the modules from the first on (`Collected`), and that the cursor and
`glist_next`'s copies of it stand where the replies say (`CursorAt`): at the node after
the last one asked.  With one worker nobody else moves the cursor, so each of the
four steps of `glist_next` keeps that, and a null pointer is followed only if the
cursor test was passed at the end of the list, which it is not.

*The list.* `Spells(s)` says that the heap's nodes are those of the sequence `s`, each
once, with every `next`, `prev`, the three entry pointers and the count as `s` has
them; the invariant is that there is such a sequence and that the cursor is on one
of its nodes.  `AppendStep` shows that an append spells one node more, and the
readers leave `s` alone.  What `Walk`, `ChainLength`, `Items` and `Cursor` see of a spelled
list is shown once (`Viewed`), and the refinement and the loader's invariant speak of
`Items` from then on.  The loader has read an even number `2n` of words, and the list
is the second word of each of the first `n` pairs.

*The pool.* `Chain(m, l, s)` is the same idea for each of the two lists, which thread
through the same items: `Split` says that their sequences share the objects out.
What one call of `sf_sdlist_append` and `sf_sdlist_remove` does to the list it works on
(`ChainAppend`, `ChainRemove`) and that it leaves the other list alone (`BesideAppend`,
`BesideRemove`) are separate lemmas, because the links of both are in the same
arrays: a removed item keeps its old links until it is appended, and an append
writes to the old tail.  `FilledHolds` follows `mempool_init` through all its
appends.  The counters need only the sizes; `ExcessShrinks` rests on `WrapsAround`, counting
up and down on an unsigned counter that wraps.

*Induction.* `Walk`, `Nth` and `Filled` are recursive functions.  The library's induction
theorems take an operator and cannot be used, but a set can stand for the
property: `LeastNumber` (every nonempty set of numbers has a least member, from
`WFMin`) gives `SetInduction`, and a recursive function equals the one written
without recursion wherever that one satisfies the recursion.

*The log.* `OpenedOnce` is not inductive.  Added to it is that while
the pointer is 0 no stream exists, nothing has been queued and every worker waits
for its first message (`Unopened`), and that once it is set exactly one stream
exists and no thread is about to open another (`Opened`).  With one stream, what has been
printed is `Log`, the file followed by the stream's buffer: any thread's `fflush`
leaves it as it is, and only `vfprintf` adds to it.  `LogInOrder` is then shown of `Log`, and
of the file as its beginning.  `Ranked` says that no line of a message in a thread's hands has reached the
rank of the line the thread prints next (`Due`), so that each message's lines come in order; it needs that no
two threads have the same message (`Hands`).  For the order between messages, the
`append` lines of the queued messages, with the one about to enter and the one that has just
left, stand in the order of the queue (`AppendOrder`), and every other message with an
`append` line has its `dequeue` line (`Accounted`).  This is where the code needs the
mutex around both lines: the mutant that ignores it breaks `LogInOrder` in TLC.

*The dumper.* `IInv` of DumperProofs is `TypeOK`, what each thread has in its hands at each
step (`Hands`), that a packet in the socket is there once and has no copy yet
(`Fresh`, which is why a new copy is never one of those in the list), that no copy
is lost before the shutdown (`NoneLost`) and `CopiesAccounted`.  A signal keeps it
because the jump drops `main`'s locals and leaves the list and `live` alone, and from
then on a lost copy is allowed, a shared one is not.  For the refinement, `queue_msg` is `Put`, `dequeue_msg` is `Begin` or a stutter,
`Free` is `End` and `Discard` is `Close`; that nothing is printed after `Close` needs that
the dump thread is dead from `relock` on, which `Hands` says.

*Model-checked only:* liveness (`QueueDrains`, `QueuedGetsPrinted`, `ErrorEndsIt`,
`ShutdownEnds`: fairness and ENABLED are out of the prover's reach), and the five
runs that find a violation.  Of the lists, what is proved is about the operations
the programs use: `FullSpec` of GList and SDListAPI leave the lists damaged, and
`Round` of SDListAPI is a RECURSIVE operator, which the provers do not take.

## 5. What is not modelled, and why

* Packet bytes, the window clamp (273-289), direction flags and dumps: every
  verdict is sent with length 0, so nothing the daemon writes to its copy leaves it.
* Memory is never exhausted in the daemon's threads, and the leak of `ctx`, its
  buffer and `packetInfo` is left out: it needs no interleaving to be seen.
* The text of log lines, and how the lines of one dump mix with another thread's:
  the calls of `dump_ipq` are one line, those of `dump_ip` and `dump` another.
  `THDLOG` is used nowhere.
* A module's regular expression: a module is the set of its possible answers.
* `default` of the message switch: libipq delivers packets and errors only.
* `ipq_read` with timeout 0 blocks; a netlink buffer overrun is a failing read.
* `lib/btree`: does not compile (a macro without a body, misspelt keywords), and its
  use in the daemon is commented out.
* A signal that takes the dumper out of `malloc` or `printf` with a lock of the C
  library taken: whether the shutdown then stops at that lock is the library's.
* What libero.c:116 prints: `stderr` is passed where the format belongs.
* The test program of mempool.c (264-330): one client among those of `MemPool`.
* http, siteinfo, smalloc: nothing the daemon calls.
* The passer `test/test.c`: the example of libipq's manual page, one sequential loop.
* `test/list.h`: third-party; the dumper's list is a sequence.
* `libero2/`: an older copy of the same files.

## 6. Plan

Done: the ring, the daemon, the list and its loader, the dumper, the pool and its
list, logging; every safety property of the passing runs as a theorem.

1. **Window clamp**: the payload of a packet as one of two values, for the comment
   at libero.c:280.
2. **SDListAPI against a sequence**, for the operations that keep the list whole
   (append, remove, insert at either end): `ChainAppend` and `ChainRemove` carry over.
3. **Part of the chain with several workers**: which of the statements about one
   worker survive (a verdict is some module's reply).
