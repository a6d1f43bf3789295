# A TLA+ model of the core of mycode

`mycode` is a C toolkit for network programs: a large library of data
structures, timers, protocols and synchronisation objects (`src/lib/util`,
`src/lib/base`), and products built on it (a virtual network, an SSL VPN, NAT,
a packet watcher, a BPF runtime). The library's parts are small, shared by
every product, used from several threads, and have almost no tests and few
comments. This project models the parts the others depend on, checks safety and
liveness on small instances with TLC, and proves with TLAPS, for every instance,
all the safety properties and refinements the passing runs check.

## 1. Inventory

### The parts that carry the core logic

| Part | Source | State | Operations | Hard because | Right when |
|---|---|---|---|---|---|
| RCU object | `util/rcu/rcu_utl.c` | current phase, a reader counter and a free list per phase, a spin lock | `RCU_Lock`, `RCU_UnLock`, `RCU_Call` | readers overlap; callbacks run after the unlock | nothing is freed under a reader, each node is freed once, and all are freed |
| Delayed RCU and its engine | `h/utl/rcu_delay.h`, `util/rcu/rcu_delay.c`, `base/rcu_engine` | state bit, a counter and a list per state, number of grace periods, a spin lock, the engine's timer | lock, unlock, call, step, wait, sync | readers touch state and counter without a lock and in two accesses; two different locks on one list; waits that count grace periods | as above, and a wait ends |
| Timing wheel | `util/vclock/vclock_utl.c` | tick counter, 6 levels of 64 slots, a timer's slot, trigger tick, period and flags | add, delete, pause, resume, restart, refresh, step | carries between levels, the wrap of the counter, calls made by callbacks in the middle of a step | every timer expires on its tick, once |
| Lock-free ring | `h/utl/ring_utl.h` | head and tail of producers and of consumers, slots | enqueue and dequeue, bulk and burst, single and multi | every load and swap interleaves; indices wrap | a bounded first-in first-out queue; nobody waits forever |
| Bitmap | `util/bitmap` | words of bits, a scan index | set, clear, find free, find free cyclically | words are skipped, the scan has a start bit, prefixes end inside words | a free bit is found when there is one |
| NAT | `util/nat` | private table, public table, port bitmap, per map a TCP status and a timer | packet from inside, packet from outside, timer step, new public address, new time-out | flags in any order and combination, time-outs against packets, an allocation that fails half way | both tables agree, a map ends when the connection does, no map stays for ever, no port is given twice |
| Keep-alive | `util/keepalive/ka_utl.c` | idle time, probe count, a timer | start, stop, reset, trigger, expiry | packets race with probes; it is embedded, and called before it is started | a silent peer is noticed, a live one never given up |
| SES sessions | `util/ses/ses_utl.c` | handshake status, ids and cookies, resend and keep-alive timers | connect, accept, close, packets, timer step | lost and repeated SYN, ACK, RST; callbacks into the user | both sides agree, half-open sessions end |
| TP transport | `util/tp` | per channel a send and receive queue, sequence numbers, resend timer | bind, accept, connect, send, receive, packets | as SES, with windows | bytes in order, once |
| Acknowledged messages | `util/trusty_msg` | outstanding message, sequence number, retries | send, ack, time-out | lost and repeated messages | a message is delivered once |
| NAP and id managers | `util/nap`, `util/id_mgr`, `util/largebitmap` | node pools and identifiers over bitmaps | alloc, free, walk | iteration skips words | no id is given twice, all are visited |
| Events | `util/event`, `util/sem` | event bits, what the reader waits for, a count and tokens | write, read with or without a time limit | the reader gives the mutex up before it sleeps; a wait that runs out races a post | no wake-up is lost |
| Message queue | `util/msgque` | two indices, slots | write, read | no lock, indices wrap | a bounded first-in first-out queue |
| Task workers and master | `util/task_worker` | an event, a queue, a clock, handlers | create, message, user event, set handler, time-out, main loop | senders, timer and creator overtake the loop | what was posted is handled, a worker told to quit ends |

`PROJECT.json` lists these and every other part (containers, protocol formats,
the virtual-network and SSL VPN applications, BPF runtimes, drivers, platform
code, web pages) with its status.

### How they interact

* The timing wheel drives everything that ages or retries. `mtimer` and
  `vtimer` give it a thread; NAT, SES, TP, ARP and the MAC table each own an
  instance and step it from their own timer call under their own mutex.
  Callbacks call back into the wheel.
* NAT owns two instances of one scheme (TCP, UDP), each with a mutex, a wheel
  and a port bitmap. A packet or a timer step is one critical section.
* SES embeds a keep-alive in every session node; keep-alive embeds a wheel
  timer. The handles of both are empty until the session is established.
* A task worker is a thread around an event: its timer, its senders and, when
  creation fails, its creator write event bits; a sender first puts a message
  into the worker's queue. Events share their bits with one counting semaphore,
  which counts below 0 for a waiter. The virtual network's master and workers
  are task workers; `vtimer`, the NAT capture and `pwatcher` have the same loop.
* `wan`, `acl` and the control calls read their tables in sections of the RCU
  engine, which a timer steps every 100 ms; who unlinks a node hands it to the
  engine, or waits for the readers and frees it.
* The virtual-network server looks sessions and addresses up inside RCU
  sections and retires nodes from any thread.
* Bitmaps are the allocators below NAT ports, session ids and domain ids.
  `bitmap1` is the same bitmap with indices that count from 1.

### What is hard

The hazards are listed in `PROJECT.json` at their lines. In short: readers and
writers of RCU overlapping in all orders; the wheel called in the middle of its
own scan, and its carries and wrap; the ring's threads between any two memory
accesses; TCP flags of both sides in every order; a node that two tables and a
timer point at; keep-alive calls before the keep-alive is started; a reader of
the RCU engine that is counted after the state has changed; an event written
between its reader's look and its sleep; counters and indices at their limits.

## 2. Modules

```
RcuProofs      -> Rcu      --implements--> Reclaim
RcuDelayProofs -> RcuDelay --implements--> Reclaim
TaskWorkerProofs -> TaskWorker -> Event
                               -> MsgQue --implements--> Fifo
RingProofs     -> Ring     --implements--> Fifo
TimerProofs    -> Vclock   --implements--> TimerService
               -> Ka (MCKa: its options for the runs)
NatProofs      -> Nat      --instance--> Bitmap
BitmapProofs   -> Bitmap
Wrap                       (arithmetic the proofs share)
```

`->` is EXTENDS. `NatProofs` takes what it needs about port searches from an
instance of `BitmapProofs`. The names of `Event`, `MsgQue` and `Ka` carry a prefix, so
that each can be extended together with another module. `Nat` and `Ka` keep for
each of their timers the ticks it has left: the abstraction `TimerService` states
and `Vclock` is proved to implement.

Operators named after a C function model that function. Definitions marked
*Slip* are the mistakes each property is known to catch (section 5); no
specification uses them.

### Rcu

The state is `RCU_S` (`uiCurrentPhase`, `auiCounter`, `free_list`), what each
thread holds (`phase`, the value `RCU_Lock` returned; `held`, the nodes found
in this section; `todo`, the nodes on the local list `RCU_UnLock` or `RCU_Call`
still has to free) and the life of each node. The part of each call under the
spin lock is one action, each callback after it another (`FreeNode`). `Find`,
`Unlink` and `Relink` are the client, which is outside the object: a reader may
keep a pointer to any linked node, a writer unlinks a node before it retires
it, and freed memory is used again. A thread does not enter a second section
inside one, and does nothing else before it has run its callbacks.

### Reclaim

What both RCU objects promise: a reader finds linked nodes and keeps them until
it leaves; a node is unlinked, perhaps retired, freed when no reader has it, and
linked again. `Rcu` and `RcuDelay` each state `IsReclaim`; for `Rcu` a node is
freed here when it is taken off to be freed.

### RcuDelay

`RCU_DELAY_S` as the engine uses it. Readers take no lock: `RcuDelay_Lock` (load
of the state) and `CountIn` (increment of its counter) are two actions, and so
are `RcuEngine_Call` (load, under the engine's mutex) and `SL_AddHead`. A Step,
by the timer or by a thread that waits, is `Begin`, one `FreeHead` per callback
and `End`, under the spin lock. `RcuDelay_Wait` and `RcuDelay_Sync` are followed
access by access: the two counters read in turn, the sleep, the Step, the
comparison with the count of grace periods. `seen` is the difference between
that count and the one the thread remembers, up to 2; the wrap of the count, a
32-bit `int`, is left out.

A Step may begin at any moment, also while another thread still goes by a state
that an earlier Step replaced: has loaded it and not yet counted itself in, or not
yet added its node. Such a thread is *overtaken*, and the history variable `late`
keeps it until it leaves its section or has added its node. Two things follow, and
the model has both:

* An overtaken reader is counted in the current state and may find a node that is
  then retired to the current list. The Step that frees this list looks at the
  other counter only, so the node is freed under the reader. That is run
  `rcu_delay_late` (18 steps, section 4). `IsReclaim` therefore maps what a reader
  holds to what it holds *unless it is late*: everybody else is safe, at any time
  and whatever late readers do.
* An overtaken writer adds to a list while a Step takes nodes off it, without a
  common lock. This may come out well (`SL_AddHead`) or leave the list leading to
  nodes that were freed (`AddTorn`): from there on, with `torn`, the program is
  undefined and the model stops.

### Event, MsgQue, TaskWorker

`Event` has the fields of the event under its mutex, the semaphore's count and
tokens, and the reader's place in `Event_Read`. A writer that owes a token keeps
the mutex (`holding`) until it has posted it. The reader looks at the bits under
the mutex (`Look`), gives it up, lowers the count (`sem_CPV`), takes a token or
waits, and looks again; a wait with a limit may run out at any moment, also when
a token has come, and takes its decrement back (`Undo`).

`MsgQue` is one action per access to `prod`, `cons` and the slots; it names no
lock because the code has none. `prod++` is a load and a store.

`TaskWorker` composes the two with the threads around a worker: the sender
(`TASK_Worker_MsgInput`, `TASK_Worker_EventInput`), the timer, the creator (which
starts the worker before it knows that creation succeeds) and the loop of
`task_worker_Main`, with the order clock, data, user events, quit. The
handlers may be set and taken away while the worker runs; the user handle that goes
with a handler is data and not in the model (section 7). What handlers and the clock do is
outside; the clock is `Vclock`.

### Vclock and TimerService

`Vclock` keeps the wheel as the code does: the current slot of each level, and
for each timer its slot, its trigger tick, its period and its flags. Each call
is one action (it holds the instance's lock). `VCLOCK_Step` is `Advance` (tick,
carry, cascade), then `Take` and `Return` around each callback, and `Finish`;
calls of callbacks and of other threads come in between. The code cascades level
by level from the top; `Cascade` does it in one go, since a timer that is added
again from one level goes to where its delay puts it, and meeting it there a
second time puts it to the same place.
`Scale`, `Levels` and `TickMod` stand for 64, 6 and 2^32. `VCLOCK_AddTimer` of a
timer that is in the wheel corrupts its list in the code; the model takes it as
the caller's precondition.

`TimerService` is what clients rely on: a number of ticks left for each timer,
counted down by a step, taken in the step it reaches 0. It also says what the
wheel does for a delay of 0: in a step the timer is taken in that step; outside
one it waits for a whole revolution of the lowest level. The refinement mapping
is `Left`, and the property is `OnTime`.

### Ring and Fifo

Every load, compare-and-swap, copied slot and stored tail is an action, and a
thread's locals are its record `loc[t]`. Whether each side is single or multiple
is chosen in `Init`, as it is when the ring is created. A failed swap reloads the head for a
consumer and starts over for a producer, as in the code. `Fifo` is the bounded
queue: an atomic publication of a batch by each producer, an atomic claim by
each consumer, a copy that cannot change under it. The mapping reads the queue
off the slots between `prodTail` and `consHead`.

A compare-and-swap cannot tell an index from the same one 2^32 objects later.
That nobody is held up for so long between the load and the swap is an
assumption, `Fresh`, in the guard of the swaps. To state it, the indices are kept a
second time without the wrap (`ph`, `pt`, `ch`, `ct`, and `from` for `old`): history
that no other guard reads. With a ring of one slot, indices mod 2 and five
objects the assumption matters: with it the properties of the run hold
(314,620 states), without it TLC finds `ClaimsDisjoint` violated.

Memory is sequentially consistent here. The code has barriers and
acquire/release accesses for this; whether they are enough for each processor
is outside the model.

### Bitmap

A bitmap is the set of its set bits, and the searches walk it word by word with
the code's start bit: `ArrayBit_GetFreeFrom` enters every word at the start bit
of the first until it has skipped a full one. `WordBits` stands for 32.

### Nat

One module for `nat_tcp.c` and `nat_udp.c`, which differ in their status
machines: `protocol`, chosen in `Init`, is the instance (`Tcp`). The private table
is `map`; the public table is the set `pubTable` of what it links and `before`, its
order (of two maps with one port the older is found).
A packet is the set of its TCP flags. Each entry point is one action, with the
map's creation, the failure to allocate it, its status step, its timer and its
end. `fins`, the sides that have sent a FIN, is history for a property. The
port is the index of `bitmap1`; `GetPort` and `FreePort` mark it as the code
does, see the findings.

`SetPubIp`, which the `pub-ip` command calls on a NAT that runs, frees the maps,
keeps their ports marked and leaves their nodes linked in the public table. `stale`
is the buckets (`Bucket`, by address and port) where it left some. A packet from
outside that looks into such a bucket, or a new map that is put at its end, uses
a freed node (`FollowStale`): `defined` is then FALSE and the behaviour ends there,
since what follows is undefined. Until then everything goes on: packets, ageing,
and further changes of the address. Address and checksum rewriting, and the second
to sixteenth public address, are left out.

### Ka

One session's keep-alive, with the session status that decides which calls are
made: handshake, established, closed and not yet freed, free. `Dead` is the state
after a call through a `NULL` instance or callback. With `StartsFirst` the session
makes no other keep-alive call before `KA_Start`, which is what the assertion in
every `VCLOCK` call asks for; without it the session is the code's. `SES_SetOpt`
changes the idle time, the interval and the number of probes and resets
keep-alive, in whatever status the session is: on a closed session it starts the
timer again. Probes sent and answers are only their effect on the timer and the
count. The handshake itself is one step, and a session is connected once, as all
callers do. An interval of 0, with which the probes would all be sent in one tick, is not among
the options. `MCKa` has the options of the runs.

## 3. Runs

| Run | Instance | Shows |
|---|---|---|
| `rcu` | 3 threads, 2 nodes; 18,146 states | grace period, one place, no orphans; it implements `Reclaim`; every retired node is freed |
| `rcu_delay` | 2 readers, 1 writer, 2 nodes, timer; 327,374 states | it implements `Reclaim` for all readers no Step has overtaken; retired nodes are freed and waits end although readers overlap for ever |
| `rcu_delay_late` | 1 reader, 1 writer, 1 node, timer | **violated**: a node is freed under a reader that Steps overtook |
| `vclock` | 2 timers, 3 levels of 2 slots, ticks mod 8; 361,360 states | cascades of one and two levels and the wrap are on time, with calls on each timer in the callback of the other; a step ends |
| `ring` | 2 producers, 2 consumers, all four modes, size 2, batches of up to 2, 3 objects, indices mod 8 from 7; 228,174 states | the ring is a queue, full, empty and wrapped; a claim is finished |
| `bitmap` | 8 bits in words of 3; 2,048 states, all contents and scan indices | the searches find what there is |
| `nat` | TCP and UDP, 2 endpoints, 6 ports, all 16 flag sets, time-outs 1 and 3 and addresses that change, 4 buckets; 18,552 states | tables, timers, closing, ageing |
| `nat_ports` | TCP | **violated**: a port in use is not marked |
| `ka` | idle 3, interval 2, 3 probes, or one of three other options; 398 states | never too soon, and never not at all |
| `ka_session` | the same, the session as written | **violated**: keep-alive calls `VCLOCK` before it is started |
| `task_worker` | 1 sender, timer, creator, 2 user events, queue of 2, indices mod 4 from 3, 3 messages; 108,287 states | no lost wake-up; the queue is a queue; messages and user events are handled; a failed worker ends |
| `task_senders` | 2 senders | **violated**: two threads write at once to a queue for one producer |

Why the bounds are enough to mean something:

* RCU has two phases: with three threads there are readers in both while a
  third retires or leaves; the proofs of section 6 remove the bound. The same
  holds of `rcu_delay`, where one thread waits or retires while the timer steps.
* The wheel needs a carry into every level, the top level revolving, the wrap,
  and delays at, just below and just above each power of `Scale`: the delays of 0,
  1, 3, 4 and 5 ticks are all of these on three levels (1, 2 and 4 ticks a slot)
  but the one of 2, and those of 3 and 5 can start late in a slot and have to be put
  back on the same level. It starts over after 8 ticks. More levels repeat the
  same carry; the proof is for any number.
* The ring's argument is about three kinds of thread: the one that copies, the
  one that claimed before it and the one whose value is stale. Two on each side
  and a ring of two slots give all combinations, with a full ring. `IndexMod`
  must be a multiple of the size, as 2^32 is of a power of two. `MaxSent`, the
  objects all producers send together, is 3: the ring fills, and the third waits
  for room. Three objects do not go round an index space of 8, so `Fresh` always
  holds in this run; section 2 has the instance in which it does not.
* Words of 3 bits and 8 bits in all give a partly used last word; all contents
  are reached.
* Endpoints in NAT meet only in the bitmap and in the public table, so two
  suffice; the status machines are finite and explored whole. Of the addresses, no
  address and one are enough: a change frees the maps whatever the new one is. Six
  ports fall into four buckets, so that ports share them.
* The options of keep-alive differ in all three fields, with keep-alive off and
  with no probes at all among them. `SilenceMax`, 11, is above every silence a
  session waits for (at most 10).
* A task worker has one event and one queue; three messages (`MaxSent`) through
  a queue of two fill it and wrap the indices (`IndexMod` 4, start 3). The count
  of the semaphore can grow while the worker is busy and is kept to `MaxTokens`,
  2: above that writers wait for the reader, which only loses behaviours in
  which more stale counts are used up one by one. The proof has no such bound.

Deadlock is checked in every run but the two of `TaskWorker`: a worker whose
creation failed ends, and nothing runs after it.

### Fairness

Safety needs none. For liveness: a thread that is in an RCU section leaves it
and runs its callbacks; the thread in `VCLOCK_Step` goes on and callbacks
return; a thread inside a ring call keeps running (calls themselves are not
fair: nobody has to enqueue); the thread that steps NAT's and SES's clock keeps
stepping. The threads of the RCU engine that are inside a call go on, readers
leave, the timer fires, and whoever waits for the spin lock gets it in the end
(strong fairness: it is held and free again and again). Likewise the worker
and a sender inside a call get the event's mutex. No packet, no call of a user and no reader is assumed to come.
The callback of a cyclic timer whose period was set to 0 moves or stops it: nothing
in `VCLOCK_Step` makes it, it is the client's obligation, which those of NAT and
keep-alive meet (`Return`). `StepEnds` excuses only callers that for ever
put timers with no delay into the slot being scanned: that does keep a step of
the code going.

## 4. Findings

* `nat_ports`: `nat_tcp_GetPort` marks index *i*, which `bitmap1` counts from 1,
  with `BITMAP_SET`, which counts from 0, and `FreePort` clears with
  `BITMAP1_CLR`. After a single SYN the map's own bit is clear. The port is
  given out again when the cyclic search comes round, and the last index marks
  a bit past the end of the bitmap. `nat_udp.c`, `vnets_domain_id.c` and
  `ssltcp_utl.c` share the pattern.
* `rcu_delay_late`: the header of `RCU_DELAY_S` promises deferred freeing.
  `RcuDelay_Lock` loads the state and counts itself in with two accesses, and
  `RcuDelay_Step` does not know of a reader between them. If two Steps (100 ms apart,
  or at the pace of waiting threads) fall there, a node the reader finds later is
  freed under it. One Step does no harm, and every other reader is safe: that is
  what `rcu_delay` checks and `EngineReclaims` proves.
* `ka_session`: `ses_ProtocolPktIn` resets the keep-alive of the session a
  packet finds before the handshake has started it, so `VCLOCK_RestartWithTick`
  gets a `NULL` instance, which its assertion forbids and its lock call
  dereferences. `SES_SetOpt` before `SES_Connect`, an aborted handshake and
  `tp_pkt.c:690` have the same order. So run `ka` is about keep-alive as its
  assertions want it called; no user in the tree calls it only so.
* `task_senders`: `msgque_utl.c` says of itself that it has one producer and one
  consumer, and `TASK_Worker_MsgInput` and `TASK_Master_MsgInput` put no lock
  around it. The virtual-network server calls the latter from the threads that
  receive packets and from its management call. Two senders then fill the same
  slot, or store the same `prod`, and a message is lost with what it owns. So
  run `task_worker` has one sender, as the queue asks.

## 5. Properties and what they catch

Each property of a passing run has a mutant in `PROJECT.json`: a *Slip*
definition put in place of the modelled one, under which TLC must find the
property violated: the reader that is not counted, the list that is not reset,
the level that is not cascaded, the delay put one level too low, the tail
published out of turn, the room counted against claims, the scan index past the
end, the counter of the wrong state tested, the state that is not changed over,
the reader that sleeps without leaving word, the token withheld at 0, the event
written before its message, the node left in the public table, the FIN that ends a connection alone,
the probe count that a packet does not reset.

## 6. Proofs

Every invariant, every action property and every refinement of a passing run is
a theorem, listed in `PROJECT.json`. Each component has an inductive invariant,
one lemma per action that it is kept, and the theorems follow from it. The sizes in
the runs are gone: the theorems hold for all constants that satisfy the named
assumptions of the modules, and TLC evaluates those in the runs.

`RcuProofs` proves, for any finite set of threads and any set of nodes:

* `TypeCorrect`: `Spec => []TypeOK` (with the unsigned counters never below 0);
* `GraceCorrect`: `Spec => []GraceHolds`, no node is freed, or taken off to be
  freed, under a reader that found it;
* `OnePlaceCorrect`: `Spec => []OnePlace`, no node is freed twice or lost;
* `NoOrphansCorrect`: `Spec => []NoOrphans`, nothing waits when nobody is inside;
* `RcuReclaims`: `Spec => IsReclaim`, the refinement of `Reclaim`.

Assumptions: `ThreadsFinite` (the counters count threads) and `OutIsNoPhase`.

The argument. `GraceHolds` is not inductive: that `RCU_UnLock` may take the
other phase's list follows from what is *not* on it. The invariant `IInv` adds

* `CountOK`: each counter is the number of threads whose `phase` it is, so a
  counter of 0 means that nobody is there;
* `HeldInside`: only a thread inside a section holds nodes;
* `OldHolders`: a node on the list of the *other* phase is held only by readers
  of that phase: those of the current phase entered after it was unlinked.

When the other counter is 0 nobody holds what is on its list, which is taken.
The phases swap, and what is on the current list is now on the other phase's:
whoever holds it is inside, and, as the other phase is empty, inside the phase
that has just become the other one, so `OldHolders` holds again. That is
`RCU_UnLock`, the step that needs all three; `GraceHolds`, `OnePlace` and
`NoOrphans` are the remaining conjuncts of `IInv`. Cardinality facts are lemmas
of their own, and the step lemma has one case per action.

`RcuDelayProofs` proves, for any finite set of readers and any set of writers and
nodes, `EngineTypeCorrect`: `Spec => []TypeOK`, and `EngineReclaims`: `Spec =>
IsReclaim`, with nothing assumed of where Steps begin: only readers that a Step
overtook (`late`) count for nothing. Here nobody holds a lock together with the
readers, and `IInv` has to say what each thread's stale state is worth:

* `CountOK` and `HeldInside`, as above, with the state a reader has *loaded*;
* `Roles`: which places a thread can be at; the stepper is the thread in a Step;
* `Owned`, `ListsOK`: an unlinked node has one writer, a listed one is retired;
* `StepQuiet`: during a Step nobody is inside by, or about to use, the other
  state, unless it is late: `Begin` found the counter at 0 and made those late who
  were about to use it, and a thread that loads during the Step loads the
  current state;
* `OldHolders`: a node on the old list is held only by readers of the old state
  and late ones;
* `Waited`: once a waiting writer has seen one grace period end, the readers that
  hold its node go by the old state only, and after the second, or after both
  counters were read as 0, there are none. The first period counted may have
  begun before the node was unlinked, which is why two are needed. A node about
  to be added to a list that is the old one by now has readers of the old state
  only.

`End` changes the states over: what was the current list becomes the old one, and
all who are inside go by what is now the old state, since `StepQuiet` says the
other one is empty.

`TaskWorkerProofs` has the event first. `EventNeverLosesWakeup`: `EventSpec =>
[](EventTypeOK /\ NoLostWakeup)` for any writers and bits, any order of reads for
all or any of some bits, and waits that run out at any moment. The invariant
ties together what the code never looks at together: a reader on its way to the
semaphore has left word for what it wants (`Marked`); if its bits have come before
it lowers the count, the count is above 0 or a token is due (`DecPaid`); and after
that the count is below 0 unless a token is due, so that the next match posts one
(`WaitOwed`). Tokens left over from waits that ran out only wake it too early.
Every step of a task worker's system is a step of its event or leaves it alone
(`WorkerUsesEvent`: `Spec => EventSpec`), so `WorkerIsWoken`: `Spec => []NoLostWakeup`
follows with no bound on senders, messages or tokens.

Then the queue, with the one sender it is made for (`Senders = {s}`; with two it is
not a queue, see the findings): `WorkerTypeCorrect` and `MsgQueIsFifo`. `QInv` says
what the sender and the reader may rely on between their accesses: the slot
being written is outside the waiting ones, the slot being read is the first of
them, and each stores an index that only it moves.

`RingProofs` proves `RingTypeCorrect`, `RingClaimsDisjoint` (no two threads copy to or
from the same slot) and `RingIsFifo`, for any producers and consumers, size, width of
the indices, mode of each side and batches. The argument is in the indices that do
not wrap: `ct <= ch <= pt <= ph <= ct + Size` (`Ordered`); the consumers' claims lie
apart in `[ct, ch)`, the producers' in `[pt, ph)` (`ConsClaims`, `ProdClaims`), and the
queue is what lies between, `[ch, pt)`. All of it is within `Size`, which is less
than `IndexMod`, so equal remainders mean equal indices and different indices mean
different slots. What a thread has counted before its swap still holds if the head
is the one it loaded (`ProdCounted`, `ConsCounted`): the other side only adds to it.
Here `Fresh` is used. A single side needs no swap, because the one thread in a call
has the only claim (`ProdAlone`, `ConsAlone`). `Filled`, `Batches` and `Copied` say which
objects are in which slots, for the refinement.

`BitmapProofs` proves `BitmapTypeCorrect`, `CycleAlwaysFinds` and `FreeAlwaysLowest`,
for every number of bits, word size, contents and scan index.
`ArrayBit_GetFreeFrom` may miss a free bit, as it enters later words at the start bit
too. But it only does so as long as the words before are not full: then the first
word has a free bit below the start, and the second search of
`BITMAP_GetFreeCycle` finds that.

`NatProofs` proves `NatTypeCorrect`, `NatTimersFit`, `NatOnlyForward`, `NatClosedByBoth`
and `NatTablesAgree`, for any endpoints, ports, time-outs, public addresses and
buckets and both protocols, with the address changed at any time. The
status machines are taken flag by flag: whatever flags a segment has, the status
it leads to is `Legal`: not earlier, not on the other side's branch, over only
after a reset or from a `TIME_WAIT` of one side. The invariant is that every map is
sound: its timer fits its status, and so do the FINs that have been seen. `TablesAgree`
is proved together with it: a map is only made in a bucket that links no freed node,
and a change of the address, the one step that adds such buckets, leaves no map.

`TimerProofs` proves `VclockTypeCorrect`, `VclockNoneBehind` (no timer waits in a slot
that has passed) and `VclockOnTime`, the refinement of `TimerService`, for any
timers, scale, number of levels and width of the tick counter with
`Scale ^ Levels >= TickMod`. The tick counter wraps, and a slot is counted in whole
slots from the current one, so it can become current well before its timer is
due. The invariant therefore goes by the number of steps `T`, which does not wrap:
the current slots are the digits of `T` (`Reads`), and a timer on a higher level, due
at step `D`, is in a slot 1 to `Scale - 1` ahead that begins no later than `D`
(`Ahead`). When that slot begins the timer is added again with what is left, never
less than 0; on the lowest level the slot is the delay. `SpanAssumption` states what
`^` is, which the provers do not know; it is true of any numbers, and TLC
evaluates it.

The same module has keep-alive: `KaTypeCorrect` and `KaNotTooSoon` (a peer is only
given up after the idle time and one interval for every probe), for all options
and for sessions with either order of start and first use (`StartsFirst`): after a
call through `NULL` there is nothing left to say. `KaInv` adds to the types that an
established or closed session has an instance in its timer and one in its
handshake has not (`Started`), and the account between silence and timer (`KaDue`):
unless a probe was hurried, ticks passed and ticks left make up the idle time and
one interval per probe.

`Wrap` has the arithmetic: what `%` and `\div` do to sums and differences, for any
modulus. Where an argument would be by induction on a number (the powers of
`Scale`, the levels that carry), the proof takes the least counterexample, which
exists because the naturals are well-founded (`Least`).

The assumptions, all named in the modules that declare the constants:

* `ThreadsFinite`, `OutIsNoPhase`, `RcuDelayAssumption`: counters count finitely many
  threads, and the values that mean none are not phases, states or nodes;
* `RingAssumption`, `MsgQueAssumption`: sizes above 0, and the width of the indices
  a multiple of the number of slots, as the powers of two in the code are;
* `BitmapAssumption`, `NatAssumption`, `KaAssumption`: sizes and time-outs above 0
  and bounded, as unsigned integers are;
* `TaskWorkerAssumption`: who writes the event, and the user's bits below the worker's;
* `WheelAssumption`, `SpanAssumption`, `TicksAssumption`, `NamesAssumption`: the wheel
  is as long as the counter, and delays fit into the counter.

Of the behaviour, the theorems assume what the models do: no index that has come
round in the ring, one sender for a queue, sequentially consistent memory, timers
not added twice. What the RCU engine does after a list was torn, and NAT after a
freed node was used, is undefined and outside of them.

Only model-checked: liveness under fairness (`RetiredIsFreed`, `WaitEnds`,
`StepEnds`, `ClaimFinishes`, `AgesOut`, `GoneIsNoticed`, `MsgHandled`, `EventServed`,
`QuitEnds`), which the prover does not do.

## 7. Not modelled

Protocol formats, parsers, checksums and string handling (pure conversions with
no state); containers (their contracts are used, not checked); mutexes and
threads of the operating systems (external), and semaphores but for the counting
one below events; the BPF runtimes and
generated `*.exp.c` files; drivers, platform code, web pages. Allocation failure
is modelled where the code undoes work (NAT, a worker's creation). The searches
for set bits, and freeing a timer node during its callback, are hazards without
a property.

Met while reading, and left out because no state of a model would say more than
the line does:

* `ring_utl.h:321`: `RING_Count` masks the difference of the tails with the size
  less one, so a full ring counts 0; no caller uses it.
* `vclock_utl.c:242`: `VCLOCK_AddTimer` of a timer in the wheel corrupts its slot.
* `ka_utl.c:57`: `KA_Start` with an idle time of 0 sets no callback; `Ka` has it as
  `Dead`, and no user starts that way.
* `ses_utl.c:1227`: `SES_SetOpt` on a closed session that is not freed yet starts its
  keep-alive: probes are sent, and its user is told `SES_EVENT_PEER_CLOSED` once more.
* `nat_tcp.c:723`: a changed public address leaves freed nodes linked (`SetPubIp`);
  the next packet in their bucket uses them.
* `task_worker.c:273`: a handler and its user handle are stored one after the other
  and without a lock: a worker in between calls the new one with the old handle.
* `rcu_engine.c:23`: the engine ignores a failure of `MTimer_Add`; nothing then
  steps it.
* `sem_utl.c:166`: the mutex kind of semaphore has the race of a time-out with a
  post and may end with two owners; nobody waits for one with a limit.
* `os_sem_linux.c:68`: the nanoseconds of a deadline are not carried into seconds.
* `event_utl.c:90`: a read without `EVENT_FLAG_WAIT` uses an uninitialised wait
  mode; a second reader of one event (line 115) overwrites what the first waits for.
* `task_worker.c:239`: when a later worker cannot be created, the table is freed
  under those that run; `:303`: the range check rejects `TASK_WORKER_ID_AUTO`;
  `:366`: a division by the tick length, which is never set.
* `vnetc_ses.c:168`: a message holds the address of a local of its sender.
* `wan_inloop.c:51`: one message is read per event, though two writes may be one
  event; the worker's loop, which reads until the queue is empty, is right.

The handshakes of `ses` and `tp` stop at their first packet at this commit
(finding `ka_session`), so a model of them would be one of other code until that
is settled.

## 8. Plan

1. Done: `Rcu`, `RcuDelay`, `Event`, `MsgQue`, `TaskWorker`, `Vclock`/`TimerService`,
   `Ring`/`Fifo`, `Bitmap`, `Nat` and `Ka`, with the proofs of all safety properties.
2. Proofs that are left: the condition under which `AllocatedIsSet` would hold, that is,
   the port bitmap with one way of counting; one port for one map from it.
3. `RcuQsbr` against `Reclaim`; `Ses`, two ends of the handshake over a lossy,
   duplicating network, composed with `Ka`; `Tmsg` and the `tp` channel; `IdMgr` on
   `Bitmap` (`ArrayBit_GetBusyFrom`); the MAC table and the address pools.
