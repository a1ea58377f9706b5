# A TLA+ development of esma

esma is a C library that runs programs written as *state machines*: a `.esma`
text declares states and transitions, C functions are the callbacks, and a
single-threaded engine dispatches messages, timers, signals and socket events
to the machines. This directory models the engine, its reactor, its queue, the
path from a `.esma` text to a running machine, the machines' memory and life, and
the echo server shipped with it, down to the bytes of a line. TLC checks small instances; TLAPS proves the results listed below for every
value of the constants.

    tlc -workers 2 -config Engine_quiet.cfg MC_Engine     # one run
    tlapm Engine_proofs.tla                               # one proof module

Paths below are relative to `src/`.

## 1. Inventory

### Parts, their state and their operations

| part | code | state | operations |
|---|---|---|---|
| main loop, dispatcher | `engine/esma_engine.c`, `esma_engine_dispatcher.c` | the queue; `current_state` of each machine | `exec` (drain the queue), `wait`, dispatch of a machine's message, of an expiration, a signal, a socket event; Mealy action; Moore transition = stop channels, leave, enter, start channels |
| machine | `engine/esma_machine.c`, `esma_machine.h` | states, hard channels (timers, signals), one io channel | new, run, restart, del; init/mod/free of the io channel; send_msg |
| timers and signals | `engine/esma_engine_fd.c` | timerfd: armed, expirations to read; signalfd: pending signals | create, arm, disarm, read |
| reactor, poll and epoll | `engine/modules/esma_reactor_*.c` | poll: `pollfd` array, parallel channel array, `ch->index`; epoll: the kernel's table | init, add, del, mod, wait |
| message queue | `engine/modules/esma_msg_queue_ring_buffer.c`, `core/esma_ring_buffer.c` | slots, head, tail, mask, size, capacity | put (may grow), get; with a mutex or cmpxchg in two other variants |
| template parser | `engine/esma_template.c` | automaton state, the statement being read, array of states | one pass over a buffer |
| loader | `engine/esma_load.c`, `utils/load_tool.c` | the machine's arrays of transitions | prepare states, prepare transitions, find callbacks |
| echo server | `programs/esma_echo_server/` | pool of slaves, sockets, io masks | the callbacks of master and slave |
| containers | `core/esma_array.c`, `esma_objpool.c`, `esma_mempool.c`, `esma_dbuf.c` | items, capacities, free lists | push/pop; get/put; grow, shrink |
| the rest of `core/` | sockets, serial port, checksums, time, logging, allocation | none of interest | wrappers and pure functions |

### How they interact

`main()` of every program is

    while (1) { ret = engine->exec(); if (ret) break; engine->wait(); }

*exec* takes messages until the queue is empty; each dispatch calls at most
leave, enter and one action, which put messages at the end of the same queue and
reconfigure the reactor. *wait* blocks in `poll()` or `epoll_wait()` and puts
one message for each ready descriptor; it puts the *channel*, not what can be
read from it: `read()` happens at dispatch. The parser and the loader run
before the loop. The echo server is four callbacks' worth of protocol over
exactly these parts: master and slaves talk through the engine's queue and share
the pool and the listening socket.

### What is hard here

There is one thread, so nothing preempts a callback. What is hard is that state
read by `wait` is used by a *later* dispatch, after other messages have changed
it, while the kernel goes on (timers expire, signals arrive, clients come, send
and leave) between any two steps:

- a timer disarmed between its report and its dispatch: the `read()` blocks the
  only thread under poll, fails under epoll;
- a timer and its client's data in one wait;
- a socket reported, then closed, by two messages of the same batch;
- a callback that fails in the middle of a Moore transition;
- `accept()` one message later than the `poll()` that promised a client;
- growth of the queue and of the reactor's arrays while both are in use;
- values of one statement of a text surviving into the next.

- a line that comes in pieces, in a buffer with a position, a count and a length;
- a machine that could not be made, whose channels and memory stay behind;
- `write()` to a client that does not read, or is gone.

`PROJECT.json` lists these hazards at their lines with the properties that cover
them; those without a property have a note that says why.

### What makes each part correct

- engine: timers run only in their own state; every running timer is polled; an
  event is never stale; the thread never blocks outside `wait`; nothing starves.
- queue: a FIFO, also across growth and index wrap-around.
- reactor: each channel keeps the mask it was last given, whatever is removed.
- machines and their pool: no block is handed out twice or lost; nothing that the
  reactor watches is in memory that has been given back, except what
  `esma_machine_del` leaves there.
- parser and loader: the machine obeys the text, and nothing of one statement
  reaches another.
- echo server: a slave serves one client at a time and always comes back; no
  socket leaks; `accept()` never blocks; a silent client cannot hold a slave; what
  comes back is what was sent; `read()` stays inside the buffer.

## 2. Modules

| module | what it is |
|---|---|
| `Engine` | main loop, dispatcher, reactor as a set, timers, signals, arbitrary callbacks |
| `MC_Engine` | two instances, *Quiet* and *Eager* |
| `Engine_proofs` | theorems about `Engine` |
| `Fifo` | abstract: what a message queue promises |
| `RingBuffer`, `MC_RingBuffer`, `RingBuffer_proofs` | the ring buffer without locks; implements `Fifo` |
| `Reactor` | abstract: what a reactor promises |
| `PollReactor`, `PollReactor_proofs` | the poll reactor's tables; implements `Reactor` |
| `Mempool` | the engine's pool of blocks |
| `Machines`, `MC_Machines`, `Machines_proofs` | composes `PollReactor` and `Mempool`: the life of machines in blocks of the pool, with channels in the reactor; the proofs are about both |
| `Template` | the parser, one step per token |
| `Load`, `MC_Load`, `Load_proofs` | `Template` followed by the loader, one step per transition; theorems about both |
| `Workers` | abstract: what the echo server promises its clients |
| `EchoServer`, `MC_EchoServer` | the echo server on the engine; implements `Workers` |
| `EchoServer_proofs`, `EchoCalm_proofs` | theorems about it: of every run, and of runs without the timeout race |
| `EchoLine`, `MC_EchoLine`, `EchoLine_proofs` | extends `EchoServer` with each slave's `esma_dbuf` and the bytes of the lines |

Operators called `BUG_...` are plausible faults of the definition below them (a
dropped guard, a forgotten mask, a missing reset). They are used by no
specification; replacing the definition by its `BUG_` form must break the
property `PROJECT.json` pairs it with.

### Engine

`pc` is where `main()` is: `"exec"`, `"wait"`, or one of `Halted`: *stopped*
(exec returned non-zero), *hung* (blocked in a `read()`), *crashed* (a NULL or
out-of-bounds dereference). `queue` holds messages; a message of the operating
system carries a channel, one of a machine a destination and a code. `armed`
and `expired` are what a timerfd is, `pending` the signals, `polled` the hard
channels whose mask contains POLLIN, `io` the io channel of each machine, and
`batch` what the wait in progress has reported.

| action | code |
|---|---|
| `Boot` | `esma_machine_run` for each machine, before the loop |
| `Drained`, `ReportHard`, `ReportIo`, `WaitReturns` | the end of exec; `__wait__` of both reactors, one descriptor at a time because timers expire during the scan |
| `ReadFails`, `IoctlFails`, `Crashes` | the early returns of `esma_dispatcher` |
| `MealyStep` | a transition without next state: its action |
| `MooreFails`, `MooreStep` | a transition with next state, up to where it fails, or whole |
| `Expire`, `Raise` | the kernel |

A callback is `Callbacks(m, q)`: it appends up to `MaxSend` messages and leaves
the io channel in any state it could have configured. So what is shown of
`Engine` does not depend on what callbacks do.

`__stop_channels` is modelled as written: its second loop counts the signal
transitions but takes entries of the *timer* array
(`engine/esma_engine_dispatcher.c:134`). Depending on the two counts it disables
a timer of the state (harmless: it has just been disarmed), a zeroed entry of
the array, whose reactor index is 0 (under poll this mutes whatever channel is
entry 0 of the table; under epoll `epoll_ctl` fails and exec stops), or reads
behind the array. `Disabled`, `StopFails` and `StopCrashes` are these cases;
`Slot0` names the channel with index 0.

### RingBuffer

The `u32` indices are integers modulo `Word`; `head` starts at `Word - 1`
as in the code. `Put`, `Get`, `GrowPut` and `ShiftPut` are `_put` with room, `_get`, and
the two branches of growth. `ShiftPut` follows the `memmove` literally: `delta`
counts slots but is used as bytes, the source address is the one from before
`realloc`, and the moved range is not that of the unread messages.
`AlignedSpec` leaves `ShiftPut` out: it is the buffer of a program whose queue
is full only while its contents start at slot 0. It is not what the code promises
in general, which is the subject of run `RingBuffer_shift`.

### PollReactor

`list` and `channels` are the two `esma_array`s, `index` is `ch->index`.
`Add`, `Del`, `Mod` are the operations; `Del` is the swap-removal, with the
clearing `esma_array_pop` and the assignment of the moved channel's index in the
order of the code. `Add` of an empty mask skips `__mod__`
(`engine/modules/esma_reactor_poll.c:61`), so the new entry keeps the mask its
memory holds: that of a deleted channel, or anything after `realloc`. `Reactor`
therefore promises no mask after an add. The engine's own callers always `mod`
before they rely on the mask, except `esma_machine_init_io_channel`, whose
channel may be polled for the previous owner's events until its first mod.
`Engine` lets the mask of an io channel be anything after its init for this reason;
its initial `polled = {}` is that of programs whose timers and signals are
registered within the array's first 32 entries, which `calloc` cleared.

### Mempool and Machines

`Mempool` is `core/esma_mempool.c` as the engine uses it. A block is the number
of its page and its place there; the chain is the rest of the newest page, so
`blocks`, the place of its first block, determines it; `basket` is the list of
blocks put back; `taken` is history, the blocks callers hold. `addr` follows the
array of pages: when a page cannot be had the array is freed but the pointer
stays, and the next call that needs a page gives it to `realloc()`
(`core/esma_mempool.c:60`); `NoBlock` goes from *live* to *freed* and then to
*undefined*, after which the module has no step.

`Machines` names a machine by its block. `life` is what the code can tell of it:
made but never run (`current_state` not set), in a state other than fini, in
fini, or *lost*. `NewMachine` and `FailedMachine` are `esma_machine_new`: on
failure it calls `esma_machine_del`, which refuses a machine that is not in fini
(`engine/esma_machine.c:208`), so the block stays taken and a channel that was
registered before the failure stays in the reactor. That is a leak, and a safe
one: `ChannelsHaveOwners` holds of it because the block is not put back as well.

`DelMachine` looks at the state only, as `esma_machine_del` does: whatever the reactor
watches for the machine stays there, the io channel in a block that is free, the
channels of timers and signals in memory that is freed. `left` is the history of
these channels, and `ChannelsHaveOwners` says that they are the *only* ones
without an owner. No program of the repository deletes a machine that has run, but
nothing in `engine/esma_machine.h:50-55` tells a caller to clear the reactor first,
so the model goes on until such memory is misused. Then `sound` becomes FALSE
(`Breaks`) and nothing follows:

- the next machine in the block makes an io channel (`esma_machine_new` has set its
  type to NONE, so `HasIo` is false) while the old one is still in the reactor: the same
  channel is there twice (`InitIo`);
- a swap-removal writes the index of the last channel, and that channel is one of freed
  memory (`FreeIo`);
- the array of states cannot be had for a reused block, which still looks like its
  last machine, in fini: `esma_machine_del` then frees that machine's arrays a second
  time (`FailedStates`; `engine/esma_load.c:213`, `engine/esma_machine.c:148` and `:208`).

`esma_machine_free_io_channel` goes by the descriptor, which `esma_machine_new` does not
clear, so it may also delete the channel that the block's last machine left; `FreeIo`
has this case. A channel in freed memory is never the same as one made later, wherever
the C library puts that. One channel of a timer or signal per machine is enough for
what can go wrong. `Add`, `Del` and `Mod` of `PollReactor` are used
through these actions only, so that run `Machines` checks the tables in the
order of operations that machines produce.

### Template and Load

`Template` reads any sequence of tokens: from each automaton state the tokens
that state recognises, or `BadToken`, or the end of the text. `eti` is the
record the code fills, `states` the array with its counters. `now` and `said`
are history: what the statements of the text say, against which the result is
compared. What the model keeps of C: intervals are multiplied in a `u32` and may
wrap (`Msec`), so a transition has the interval of its statement modulo the word; codes
are `int`s, which `sscanf("tick_%d:")` reads with their sign and the counters of a state
compare as `u32` (`U32`); the array of states gains uncleared memory when it grows
(`Fresh`, with `Torn` names and `Junk` counters) and may move, after which pointers to
states dangle (`Moved`); the variables of a statement live across iterations of the loop.
The properties exclude by name what the code makes no sense of: `Fits` is a template
whose array has not grown, `Settled` one, of any size, of which no transition dangles,
and `CountersEnd` a text without code -1, which as a `u32` is the largest, so that
the capacity one above it is 0.

Reading the parser this closely shows behaviour worth knowing that no property
forbids: a text may end anywhere and is accepted, its last unfinished statement
lost; the check for an empty section of states is unreachable
(`engine/esma_template.c:415-422`); what stands between a channel's code and the
next colon is ignored; a name declared twice is not noticed (the first wins).

`Load` adds the loader, which runs once the parser has accepted. `stateNo` and
`transNo` are the two loop variables of `_esma_prepare_trans`.

| action | code |
|---|---|
| `PrepareStates` | `_esma_prepare_states`: the states with their empty arrays, sized by the counters |
| `PrepareTrans` | the body of the inner loop: one transition that has a slot (`HasSlot`) finds its target and is put there (`Placed`) |
| `NextState`, `Loaded` | the end of the inner and of the outer loop |
| `CannotLoad` | a missing callback or state, no memory, and no slot where that is reported: a code outside the array of messages, or an array of signals that cannot grow |
| `Crashes` | no slot for a timer, which is written before it is compared with NULL (`engine/esma_load.c:129`), or a dangling target |

The array of messages has `Capacity` slots, and those of timers and signals have room
for `Room` items at first and double when `esma_array_push` finds them `Full`. All three
are one above a `u32` and may wrap to 0, and 0 does not double. Offsets into these
arrays are `u32` too; the module takes them to be smaller than 2^32 bytes.

Code -1 is the case where this matters. The parser accepts `tick_-1: 5s`; the largest
code of the state is 2^32 - 1 then, the capacity of its timers 0, and `esma_array_push`
returns NULL, which the loader writes to (`Crashes`). TLC shows it when `CountersEnd` is
dropped from `AcceptedFits`: one statement is enough. The same code makes a message or a
signal an error that is reported.

`InOrder` says that an array has the statements at some positions of the text, in
their order: there is an increasing function from the array onto the positions. A relative of these arrays, `get_channel(id)` in
`engine/esma_machine.c:363-393`, uses its argument as a position, not as the code the
template gave the channel.

### EchoServer

Each action is one callback of `slave.c` or `master.c`, under the transition of
`slave.esma` or `master.esma` that leads to it. `queue` is the engine's; a
message a machine sends carries, as history, the state its sender was in. `peer`
is what the client did and the slave has not read. `Racing` says whether one
`poll()` may report a slave's timer together with its client; with `FALSE` the
module describes the runs in which that coincidence does not occur. It
restricts only clients, timers and what a wait finds, never the server.

| action | code |
|---|---|
| `Wait` | `__wait__` of the poll reactor: one message per ready descriptor, in the order of the table, which swap-removal can make any; two events of one descriptor make one message (`else if`) |
| `InitToIdle`, `Accept`, `NoAccept`, `ToRecv`, `ToSend`, `ToDone`, `DoneToIdle` | a slave takes a message |
| `Tick`, `Receive`, `NoRoom`, `Error`, `WriteAll`, `WriteSome`, `WriteFails` | a slave takes a report |
| `WriteBlocks`, `Killed` | `write()` on a blocking socket whose client does not read, or is gone (SIGPIPE is neither blocked nor handled) |
| `MasterToWork`, `NewClient`, `TurnAway`, `ListenFails` | the master |
| `Ends` | a dispatch that halts the server: fini, a NULL callback, a NULL owner, a `read()` of a disarmed timer |
| `Arrive`, `PeerActs`, `Expire` | clients and time |

`Halted` is *stopped*, *hung* (in `accept()` or in the `read()` of a timer),
*blocked* (in `write()`), *crashed*. `Expected(m)` says whether the dispatcher
finds a transition, an owner and something to read for message `m`;
`EventsAreHeard` is the claim that for reports of the operating system it always
does. The branches of `Ends` that crash are not taken in the calm run; they are in
`Echo_lines`.

### EchoLine

`EchoLine` adds to each action of `EchoServer` what it does to the slave's
`esma_dbuf`: `pos` (relative to `loc`), `cnt`, `len` and the cells of memory. A
*unit* is any number of bytes that the kernel delivers or takes in one piece. The
units of one turn, from entering recv until send is left, are numbered as they
are read, and 0 stands for whatever else is in memory; so the line comes back
intact exactly if the numbers do. `inq` is what FIONREAD reports, and `turn` is
history: units and pieces read, units sent back. A read ends a line exactly when
its last byte does, which is why `peer`'s *part* and *line* are all the rest of
the server has to know. `Expanded` computes the new length as
`slave_recv_data_0` does, from the space behind `cnt`, and `Filled` writes at
`pos`, also behind `len` if the code should: `ReadsFit` says it never does.

## 3. Runs

| run | asks | bounds, and why they are enough | distinct states |
|---|---|---|---|
| `Engine_quiet` | when events only run actions, is every event fresh, does the thread never block, is every expiration handled, does no message starve? | poll; 2 machines, 1 periodic timer, 1 signal, 1 io channel, 2 messages a dispatch, queue of 3, one entry for each channel a wait can report, so that it can fill up and callbacks still send behind events | 43 081 |
| `Engine_eager` | when events change states, are timers still those of the current state and polled? | epoll; 2 machines, 2 timers (1 periodic), 3 signals placed so that all three cases of `__stop_channels` occur, queue of 5 | 383 095 |
| `Engine_signals` | *violation*: are signals of a left state off? | as quiet, without io | stops at the counterexample |
| `RingBuffer_aligned` | is the buffer a FIFO while growth is aligned? | capacities 2 and 4 growing to 8, index range 16: both indices wrap, growth happens twice | 23 354 |
| `RingBuffer_shift` | *violation*: do unread messages survive wrapped growth? | the same, slots of 2 bytes so that a shift in bytes both tears and moves items | stops |
| `Machines` | do the reactor's tables stay consistent and right, and is nothing watched in memory that was given back, while machines are made, run, restarted, deleted and fail to be made? | 2 pages of 2 blocks, 3 machines at a time, lost ones included (`ThreeMachines`), 1 channel of a timer, capacity 1 to 2: basket, chain, new page, failed page, swap-removal and growth all happen, and so do machines deleted with channels in the reactor and the next machine in their block | 96 973 |
| `Load_text` | is the machine what the text says? | 2 statements, 2 declared names besides the reserved ones, an array of 3 that grows to 4 and may move; codes -1 and 2, which is not the number of a statement; 5 s wraps the word, uncleared counters hold 13. Leaks between statements need two, and no more; the theorems are about any number | 903 342 |
| `Load_reserved` | *violation*: may a text name `init`? | 1 declared name | stops |
| `Echo_calm` | is the pool right, does the server implement `Workers`? | 2 slaves, 2 waiting clients: one can be given away while another is turned away | 92 216 |
| `Echo_lines` | what survives the timeout race; do reads stay in the buffer, are lines kept and sent back; do recv and send end? | 1 slave, `Racing`, a pool bounded at 3 entries because a slave may be entered twice; buffer of 1 unit that grows, lines of up to 3 units in any pieces. One slave suffices: buffers of different slaves share nothing, and the invariants are proved for any number | 189 462 |
| `Echo_timeout` | *violation*: is a self-sent message taken where it was sent? | 2 slaves, racing | stops |
| `Echo_pieces` | *violation*: does the client get its line back? | 1 slave, no race, lines of up to 3 units | stops |

Deadlock is not checked: a halted process has no step, and neither has a
drained queue with nothing ready and no timer armed.

### What the violation runs show

- **Signals stay on** (`Engine_signals`, `engine/esma_engine_dispatcher.c:134`).
  After the machine leaves state A its signal is still polled in B. The message
  the loop logs on failure, "failed to mod sign channel", says what was meant.
- **Growth loses messages** (`RingBuffer_shift`, `core/esma_ring_buffer.c:156`,
  "shift unread messages"). The shift is by bytes, on a possibly freed address,
  and of the wrong range.
- **Reserved names** (`Load_reserved`, `engine/esma_template.c:434-438`). The
  branch for `init` and `fini` does not skip the word, so a text that declares
  them, as `tests/engine/reactor/_rx.esma` does, does not parse.
- **Timeout race** (`Echo_timeout`, `programs/esma_echo_server/slave.c:118`).
  The timer and the line in one wait give the slave two messages of state recv;
  the second is taken in the state the first led to. With `Racing`, TLC also
  finds what follows from it (`NeverCrashes` and `PoolIsFree` fail): code 1
  taken in `done` calls a NULL action; a slave may be in the pool twice, and
  the master's message for its second client, taken in recv or send, hangs up
  on the first.
- **Lines in pieces** (`Echo_pieces`, `programs/esma_echo_server/slave.c:163` and
  `:211`). Every piece of a line but the last moves `pos`, and send writes `cnt`
  bytes from `pos`: the client gets the end of its line and then other memory, which
  `tester.py:55-57` reports as a mismatch. `EchoedIfWhole` shows that this is
  all: a line read in one piece comes back whole and in order, whatever pieces it is
  sent in.

### Fairness

`Engine!FairSpec`: weak fairness of `Boot`, `Drained`, `Dispatch`, `WaitReturns`
and of reporting each hard channel. One thread executes the loop and nothing
else, so a step that stays enabled is taken; and `poll()` returns every ready
descriptor of its snapshot, so a channel that stays ready while the scan lasts
is reported. Nothing is assumed of expirations, signals, clients, nor
that callbacks succeed or send. `ExpirationsAreHandled` has the hypothesis
`[]<>(pc = "wait")`: callbacks that send for ever keep exec from returning, and
then the code does forget timers. `MessagesReachTheHead` needs no such
hypothesis, since the queue is first in first out. The bound `MaxQueue` only
limits how much callbacks send (sending nothing is always possible), so it does not
disable a dispatch.

`EchoLine!LineFairSpec`: the same loop, and armed timers expire (a timerfd does
after ten seconds). Clients are not fair: they may be silent for ever, which is
what `PhasesEnd` is about. It excludes a halted server by name, the one blocked
in `write()` included: no timer ends that. `MaxPool` is a bound of the module that
may stop it; `PhasesEnd` excludes that case by name, too.

## 4. Proofs

Constants are constrained only by the `ASSUME`s of the modules (types of the
template's functions, disjointness of names, a capacity of at least two, ...), which
TLC evaluates in every run.

**Engine_proofs.** `TypeCorrect` is inductive by itself; the queue needs that
`Tail` and concatenation keep `Seq`. `TimersCorrect`: with the type invariant
`TimersOfCurrentState` is inductive, because the only step that changes
`cur[m]` has removed `Stopped(m, s)`, all timers of the old state, first, and the
only step that arms is the same one, for the new state; each failing branch of
the transition is a case of its own. `ExpirationsLeaveTheirState` follows: an
expiration is dispatched only if it can be read, so the timer is in `expired`,
so its machine is where the timer is declared.
`TimersHeard` has the hypothesis `SignsCovered` (no state has a signal at a
position without a timer): otherwise entry 0 of the reactor may be muted, and
it may be a timer. `EventsStayFresh` and `NeverBlocks` have the hypotheses
`EventsAreMealy` and `PrivateSignals`, the rules the echo server's templates
obey. `EventsAreFresh` is not inductive: a wait appends to the queue, so one
needs to know that the queue then holds only what this wait reported
(`BatchIsQueued`), and `NeverHangs` comes with it; their conjunction
`FreshInv` is inductive. Lemma `DispatchPops` reduces all dispatches to "the
oldest message goes, machine messages are appended".

**RingBuffer_proofs.** `SlotsStayInBuffer` covers every history, wrapped growth
included: whatever the shift does to contents, addresses stay inside. `RingTypeCorrect` is about every history, too. `WindowCorrect`, `ReadsWhatWasPut` and
`RingImplementsFifo` are about `AlignedSpec`; the inductive invariant is
`TypeOK /\ WindowOK /\ NothingMadeUp`, where `WindowOK` ties `head` to `tail` and
`size`, and the case `head = Word - 1` is the buffer before its first put.

**PollReactor_proofs.** `TableCorrect`: `TypeOK /\ TableOK` is inductive; the
argument for `Del` splits on whether the deleted entry is the last. `PollIsReactor`:
under `watched <- [c \in used |-> list[index[c]].events]` each operation maps to the
abstract one on the same channel.

**Machines_proofs**, first of the pool by itself. `BlocksInOnePlace`: `PoolTypeOK /\ BlocksOnce` is inductive.
That `BlocksOnce` says where *every* block of the pages is, not only that none is in
two places, is what makes it so: a new page's blocks are none of the old ones.

Then of the machines. `MachinesUseReactor`: each operation on machines is a step of
`PollReactor`, or leaves it alone, so `TableCorrect` and `PollIsReactor` hold of
the reactor in use. `MachinesCorrect` combines the pool's invariant with `Owned`:
apart from what is `left`, a channel of a timer or signal in the reactor is in `hard` of
exactly one machine that has its block, an io channel is that of a live one, and a block
without machine has neither. There is no hypothesis on when a machine is deleted:
`DelMachine` moves to `left` just what it stops owning. `GivenOnce`, a block is not taken
before the pool gives it, is where pool and machines meet. The steps that misuse memory
change `sound` and nothing else, and none follows, so the theorem is about every
behaviour up to there.
`MachineTypeCorrect` comes from the same invariant.

**Load_proofs**, for texts of any length. The parser's part of the invariant,
`ParserInv`, says of the automaton what each of its states has read: between
statements `eti` and `now` are cleared (`Between`); inside one, `eti.src` is the
state `now` names (`Sourced`), nothing behind the source is set before the target
is read (`Aimed`), and from then on `eti` means what `now` says (`Telling`,
`Channels`). That is the isolation of statements; `TemplateIsText` is inductive with
it, since the one step that adds a transition adds the statement that `eti` means
(`NewTransKeeps`), and a later declaration changes no search that found a state
(`FindKept`). `CountersOK` is what the loader relies on while
`Fits`: no pointer dangles, `ntrans` is at most the statements so far, `maxCode` is at least
every code of a message as a `u32`, and no counter is the largest `u32` unless a code is
-1 (`Endless`, `CountersEnd`). The loader's part, `LoadInv`, says what is built of a
state when the transitions before `transNo` are placed (`Built`): each code and
event has the last transition for it, timers and signals have theirs in order.
The next transition has a slot by `CountersOK`, which gives `LoadingCorrect`; and `BuiltObeys` takes `Built` and
`TemplateIsText` together to `MachineCorrect`. Two facts carry the rest: a set of
numbers has a least one, from the library's theorem that `<` on `Nat` is well-founded
(`LeastOf`), so that a search from the front is well-defined; and increasing
enumerations can be continued and composed (`UpOneMore`, `UpTwice`), instead of folds
over sequences.

`TemplateIsText` and `MachineIsText` have the hypothesis `Settled`: no transition
dangles. It holds while the array of states has not moved, that is, of a text with up to
eight declared states (`StateCap` is 10), and of longer ones whose array grew where it was,
or whose transitions stood behind the last declaration. `AcceptedFits` needs `Fits`, since
the counters of a state behind the first ten are uncleared memory (`Fresh`), and `CountersEnd`.
Of the constants the proofs assume what C gives: codes are an `int` where the counters are
`u32`, numbers of intervals a `long`; signals and events are not 0; a text has fewer
statements than a `u32` counts; and the names of the text are not what stray memory may
hold (`Torn`).
`ReservedCanBeNamed` is refuted by `Load_reserved`.

**EchoServer_proofs**, for any number of slaves, timeouts that race data included. The
inductive invariant `IInv` has, beside types:

- `Order`: reports are in front of the machines' messages (`OsFirst`) and each timer's
  is there once (`OneTick`). A *claim* is the report of the listening socket or the
  message that hands the client to a slave: there is at most one, in front of
  all other messages, and nothing has been sent since the wait that made it
  (`OneClaim`, `ClaimFirst`, `FreshClaim`).
- `ReportsHold`: every report still in the queue is `Expected`. This is
  `EventsAreHeard` for the whole queue. It stays true because all reports are
  dispatched before the first message, and only messages change states or free
  channels; the one thing a report changes that another relies on is the timer it
  reads, and a timer is reported once.
- `ClaimsHold`: while a claim is out a client waits, so `accept()` does not block.
- `SlaveShape`: what a slave's state says of its timer, socket and channel;
  `IdleShape`: an idle slave with a socket waits for its own message and nothing
  else, so no second client can be put in its place.

From it follow `ReportsAreHeard`, `ServerNeverHangs`, `SocketsTracked`. TLC has
checked `IInv` as an invariant of two slaves with `Racing` (1 223 890 states).

**EchoCalm_proofs** has the hypothesis `Racing = FALSE`, without which run
`Echo_timeout` and its consequences refute the results. The hypothesis is used at
one place, the wait: then a slave gets one report. The invariant `CInv`, on top of
`IInv`: at most one message for each slave (`OnePer`), which its state awaits
(`Fits`); a slave's place in or out of the pool agrees with its state and its
socket (`Placed`); a slave that is neither resting in the pool nor serving has a
message to take it there (`Underway`); the pool holds nobody twice (`Once`).
From it follow `PoolCorrect`, `SlavesComeBack`, `MessagesFit`,
`ServerNeverCrashes` and the refinement `ServerImplementsWorkers`: taking a slave
off the pool, accepting, failing to accept, turning away and hanging up are the steps
of `Workers`, everything else a stutter. TLC has checked `CInv` on the calm
instance.

**EchoLine_proofs**, again with the race. `LinesUseServer`: a step with bytes is a
step of `EchoServer`. `ReadsStayInBuffer`: the memory is `len` cells, and in recv
`pos <= cnt <= len` (`Fitting`); room is made behind `cnt`, so a read at `pos` has
it. `LineTypeCorrect` comes from the same invariant. `LinesAreKept` needs that a read begins where the last one ended, which is
false after the last piece of a line: `pos` stays. So the invariant `KeptInv`
says that such a slave has the message on the way that takes it out of recv, and
no report of data before it (`Leaves`). It has none because a wait reports each
channel once (`OneIo`) and begins with an empty queue. `WholeLinesEchoed` follows a
turn of at most one piece from recv into send (`WholeInv`, which TLC has checked on
the instance of `Echo_lines`): before send, `pos` is where the line begins and no
data will be read again (`LastPiece`); in send, what was sent back and what is left
of the buffer make up the line (`Rest`), or no write will follow (`Sending`).

Only model-checked: the liveness properties `ExpirationsAreHandled`,
`MessagesReachTheHead` and `PhasesEnd` (outside the prover's reach). Every other property
of a passing run is the statement of a theorem; the properties of the violation runs
are false.

## 5. Not modelled

- ring buffers with a mutex or cmpxchg: no program and no test selects a lock, and
  nothing in the repository starts a second thread. Read on paper, the locked put
  hands out its slot after unlocking (`core/esma_ring_buffer.c:216`).
- `get_block_n`, `put_block_n` and `free` of the memory pool, `shrink` and `is_empty`
  of the object pool: no callers. `get_block_n` scales its addresses twice
  (`core/esma_mempool.c:175`); `is_empty` returns the opposite of what
  its comment says (`core/esma_objpool.h:28-35`).
- `new` and `free` of the containers; a pool made by `esma_mempool_new` has an
  uncleared basket, the engine's is zero.
- start-up failures of the echo server (a slave that cannot be made leaves a NULL in
  the pool, which the master takes for "no slave left"), and an `accept()` whose
  descriptor is lost because FD_CLOEXEC could not be set.
- a `read()` that fails although FIONREAD has promised bytes
  (`programs/esma_echo_server/slave.c:147`, where `n` is unsigned).
- which freed memory the C library gives out again (`engine/esma_machine.c:148`): a channel
  of a machine made later is another channel in `Machines`, wherever it lies.
- the array of states of a template when memory is short: `_new_esma_state_template` writes
  to what `esma_array_push` returns without a look (`engine/esma_template.c:246-247`).
- sockets, serial port: system calls and tables of constants;
- CRC, MD5, murmur: pure functions on bytes, better tested against vectors;
- logging, time, processor, backtrace, allocation: no protocol state.

`engine/esma_machine.h:41-46` documents other results of `esma_machine_new` than
the code returns; nothing here depends on it.

## 6. Plan

Done, in order of importance: `Engine`; `Fifo` and `RingBuffer`; `Reactor` and
`PollReactor`; `Workers` and `EchoServer`; `Template` and `Load`; `Mempool` and
`Machines`; `EchoLine`; proofs of all of them.

What could come next:

1. What still holds of a template some of whose transitions dangle: those to "self" and
   those in states without such transitions.
2. `Fifo` under wrapped growth with the shift that the comment means.
3. The locked ring buffers, once a program uses them.
