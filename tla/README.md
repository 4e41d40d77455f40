# Verification of ExercisesInC

The repository is a collection of small C programs for a course: exercises
(`src/exercises`), some solutions (`src/solutions`) and examples
(`src/examples`). There is no single system. What makes parts of it worth
modelling is that many programs exist to show exactly the behaviours that are
hard to test: threads around a shared queue, counters and a barrier, servers
with processes and threads, an alarm that races a `select`, a hash table that
rehashes itself, and linked structures that free their nodes.

This project models the programs with state and concurrency as state machines,
and the sequential ones as operators on their inputs. It checks both with TLC on
small instances. For the queue, the ex12 programs, the route tracer and the
knock-knock servers it also proves every safety property the runs check, and
that the queue implements its specification, with TLAPS for every value of the
constants.

1. Inventory
2. Modules and how they correspond to the code
3. Runs: what is checked, with which bounds
4. Fairness
5. Proofs
6. What the checks found
7. What is only model-checked, and what is not modelled
8. Plan

## 1. Inventory

### Producer-consumer queue — `src/examples/queue`

`queue.h` has three implementations; the `Makefile` links `main.c` with each.
*State*: the ring `array`, `next_in`, `next_out`, `length`; a mutex and (in
`queue_cond.c`) a condition variable; per thread the loop counter and the item
in hand. *Operations*: `make_queue`, `queue_push`, `queue_pop`, `queue_empty`,
`queue_full`, `queue_incr`; `main` creates the producers and consumers and
joins them in order. *Interaction*: shared memory only; `perror_exit` of any
thread ends the process under the others. *Hard*: the signal is sent after the
unlock, wakeups may be spurious, the full ring must not look like the empty
one, `queue_cond.c` waits where the other builds exit. *Correct means*: a
bounded FIFO queue, no race on a slot or index, no lost wakeup, the process
ends.

### Shared counters — `src/exercises/ex12`

`counter.c`, `barrier.c`, `counter_array.c`, `counter_array_mutex.c`: `main`
allocates a `Shared`, creates children, joins them, prints or checks.
*State*: the counter, the array, a mutex in the last program. *Hard*: `counter++`
is a load and a store; the barrier spins; the loop of
`counter_array_mutex.c` tests the counter before it takes the mutex. *Correct
means*: no increment lost or doubled where the mutex protects it; bounds on
what is lost where none does; the barrier separates part 1 from part 2; the
children stop. `read_write.c` starts
readers and writers that only print: the order of the lines is all there is.

### Hash map — `src/exercises/ex07/hash.c`

*State*: `n` buckets, `size`, the chains. *Operations*: `map_add`,
`map_remove`, `map_lookup`, and `map_resize` inside the first two. *Hard*: a
rehash in the middle of a call; chains with collisions; a load factor tested
before and after the change of `size`; negative hashes; halving to no bucket.
*Correct means*: it is a dictionary. `main` puts ints and strings in one map,
whose keys are compared with the function of the first of the two.

### Route tracer — `src/exercises/ex04/trout`

*State*: ttl, probe, sequence number, the pending alarm, the pipe of the
handler, the socket's buffer, the error pending on the sending socket.
*Operations*: `loop_ttl`, `send_probes`, `send_dgram`, `recv_dgram`,
`process_ip`, `sig_alrm`. *Interaction*: with the network, and with its own
signal handler through a pipe. *Hard*: the alarm can go off anywhere; answers
are lost, late, repeated and reordered. *Correct means*: it never waits for
ever, what it shows as a hop of one ttl is no late answer to a probe of another,
it stops at the host.

### Knock-knock servers — `src/exercises/ex11`

`ikkp-server.c` (iterative), `ikkp_server_fork.c`, `ikkp_server_thread.c`.
*State*: the listening socket, the connections and who holds a descriptor of
each, the place of each conversation. *Operations*: accept, fork or
`make_thread`, `say`, `read_in`, `close`, `handle_shutdown`, `error`. *Hard*:
clients that are silent, run ahead or reset; descriptors inherited by `fork`;
the argument of a thread; processes that end under their clients; children
that are never waited for. *Correct means*: each client has one task, is served
whatever the others do (where a process or thread exists per client), is hung
up on at the end, and nobody waits for a server that has ended.

### Web server — `src/exercises/web_server`, `src/solutions/web_server`

`tcpserv01.c` forks a child for every connection; the child answers lines
(`str_echo08.c`), in the solution one request with one reply. *State*: the
listening socket and who holds it, each connection and who holds it, the bytes
under way in both directions, and in every process the static buffer of
`my_read`, the line `readline` is in and what `writen` has still to write.
*Hard*: reads and writes take any number of bytes; a connection closes only
when parent and child have closed it; clients are killed, `accept` and `fork`
fail. *Correct means*: every client gets the answers to its own lines, in order
and whole, and ends; nothing is left of its connection when it has.

### Advice server and clients — `src/exercises/ex11`

`advice_server.c` sends one message per connection, one connection after the
other; `advice_client.c` and `wiki_client.c` print what they receive until the
end. *Hard*: a client that is gone makes `send` fail, which ends the server with
others in the queue; the result of `accept` is not tested. *Correct means*: a
client that ends well has printed the whole message.

### Linked lists — `ex06`, `ex07/list2.c`, `ex13/list_errors.c`

*State*: nodes on the heap and the pointer to the first. *Operations*: `push`,
`pop`, `remove_by_value`, `insert_by_index`, `reverse`, `free_list`, and what
the `main`s do by hand. *Hard*: nodes unlinked and freed in the middle of a
walk; the empty list, the head and the end as cases of their own. *Correct
means*: no freed node is followed, no node lost, each call does what its comment
says (three do not, see section 6).

### Forking parents — `ex09`; times-table game — `ex10`

`fork.c` makes children and waits for as many; `newshound.c` has them run a
script. *State*: the processes, their copies of the memory and of the output
buffer, the exit codes. *Hard*: a `fork` that fails midway, a child that is
killed, output that was not flushed before the fork. *Correct means*: every
child is waited for and its code reported; whatever fails, the children that
were made have copies of what `main` had and print them once. The game asks questions
until an alarm or an interrupt ends it, which may come at any point. *State*: the
question, the answer buffer, the score, the alarm, the end flag of the solution.
*Correct means*: the score counts the right answers and none that comes too
late; everything ends.

### Sequential programs

| program | what it computes | correct means |
|---|---|---|
| big integers (`ex02.5`, `ex04`) | sums digit by digit | the sum of the numbers |
| `adder.c` (`ex02`), `cards.c` (`ex01`) | a total of the input | the total is the sum |
| `rand.c` (`ex05`) | floats from random bits | evenly spread in [0, 1) |
| `endswith`, `strsplit`, `strfilter` | parts of strings | equal a reference definition; the versions agree |
| `tee.c` (`ex03`), `find_track` (`ex02.5`, `ex05`) | a file and the screen; the tracks that match | nothing typed is lost; the three versions agree |
| word counts (`ex08`, `ex13`) | how often each word occurs, sorted | the counts are the occurrences; each word is printed once, in order |
| `shapes_soln.c`, `lines.c` (`ex05`), `tree.c` (`ex10`) | objects on the heap | nothing used after it was freed; a rotation keeps the order |
| `trout/util.c`, `main.c` | options, addresses, times | as the calls in `trout.c` need them |

## 2. Modules and how they correspond to the code

Conventions. `pc[t]` names what thread `t` does next; a label covers the
statements up to the next access to shared state or the next call that can
block. An action is one such piece, with the guard of the code's condition.
Mutated forms of a definition (`..._Suffix`, introduced by the comment "Mutated
form") stand before it; no specification uses them. They record what change of
the code would break which property.

| module | models |
|---|---|
| `Fifo` | abstract: a bounded FIFO queue between threads, which may end the process on overflow or underflow |
| `QueueRing` | the ring, the threads' loops, `main` — common to the builds |
| `QueueCond` | `queue_cond.c`: mutex, condition variable, signal after unlock, spurious wakeups |
| `QueueMutex` | `queue_mutex.c` |
| `QueueBare` | `queue.c`, no lock |
| `ForkJoin` | the frame of the ex12 programs: create, join, a failing `pthread_create` |
| `CounterArrayMutex` | `counter_array_mutex.c` with `mutex.c` |
| `Counter`, `Barrier`, `CounterArray` | the three programs without a lock; `counter++` and `array[...]++` are a load and a store |
| `ReadWrite` | `read_write.c` |
| `Dictionary` | abstract: a partial function from keys to values |
| `HashMap` | `hash.c`: chains as sequences of nodes per bucket; a call is one action, its resize included |
| `HashMain` | `hash.c`'s hash and equality functions for ints and strings, and the calls of its `main`, on `HashMap` |
| `LinkedList` | the heap of nodes and what the list programs share: walking, making, freeing, beginning and ending a call |
| `ListEx06`, `ListEx13` | `list.c`; `list_errors.c` and its solution, `bad_list.c`, `good_list.c` and `list2.c` |
| `Trout` | `trout.c` with the alarm, the pipe, the sockets and the network |
| `TroutUtil` | `trout/main.c`, `util.c` and the time and printing functions of `trout.c`, as operators |
| `IkkpTalk` | clients, connections, `say`, `read_in` — common to the servers |
| `IkkpServer`, `IkkpServerFork`, `IkkpServerThread` | the three `main`s and what the end of a process takes with it |
| `StreamIO` | `readline.c`, `writen.c`, `error.c` and the wrap files: what the library does to a process |
| `TcpServer` | both servers of `web_server`, their children and clients, on `StreamIO` |
| `AdviceServer` | `advice_server.c`, `advice_client.c`, `wiki_client.c` |
| `ForkWait` | `fork.c` and `newshound.c` |
| `TimesTables` | `signal_example.c` and its solution |
| `BigInt` | `bigint.c` and `bigbadint.c`: the addition they share takes each program's `itoc` as a parameter |
| `SmallPrograms` | `adder.c`, `cards.c`, `tree.c`, `rand.c`, as operators; `shapes_soln.c`, its test and `lines.c`: a heap of objects passed from call to call |
| `TextTools` | `endswith.c`, `strsplit.c`, `strfilter.c`, `tee.c`, the three `find_track` programs and the three word counts, as operators |
| `MC...` | instances for TLC; `MCThreads`, `MCContainers`, `MCIkkp`, `MCWeb` and `MCProcesses` pick one of several programs in the initial state, `MCSequential` one of `MCContainers` or a program without state, whose input then grows |
| `QueueRingProofs` | lemmas about the ring's indices and contents |
| `QueueCondProofs`, `QueueBuildsProofs` | theorems about `QueueCond` and the abstract queue, and about `QueueBare` and `QueueMutex` |
| `TroutProofs` | theorems about `Trout` |
| `ThreadsProofs`, `ContainersProofs`, `IkkpProofs`, `ProcessesProofs` | theorems about the programs of `MCThreads`, `MCContainers`, `MCIkkp`, and of `MCProcesses` and `MCWeb` |

Details that are easy to get wrong:

- *Queue.* `Length` is `make_queue`'s argument; `Slots` are the `Length + 1`
  slots the code indexes, the last of which is not allocated. An item is the
  pair of its producer and its number, so that order and duplication are
  visible; the code pushes the number alone. `PopWait` releases the mutex and
  joins the sleepers in one step, as `pthread_cond_wait` does. `cond_signal`
  wakes any one sleeper. A spurious wakeup may happen at any time.
- *ex12.* `main` runs beside the children: joining is in creation order, and
  `perror_exit` in `make_thread` ends the process with children running. The
  array of `CounterArrayMutex` and `CounterArray` is longer than `End`, because
  the code does write behind the end; `check_array` looks only at the elements
  before it.
- *Hash map.* `BucketOf` is C's remainder: negative for a negative hash.
  Operations whose outcome C leaves undefined end the model (`ended`), with the
  reason.
- *Lists.* A call without a loop is one action; each round of a loop is one, on
  the locals of the function, so that `HeapSafe` looks at the pointers a call
  still follows in the middle of its walk. `before` is the list at the beginning
  of the call, which the programs do not have. A freed node is blank: a program
  that follows one is caught by `HeapSafe`, not by what it would read.
- *Streams.* A process is a record of `StreamIO`; an action is one `read` or
  `write` of any number of bytes, with what `readline` or `writen` does with them
  and where the program goes on when they return. A line is a few characters and
  `MAXLINE` 3, so that lines are cut by the buffer, and a connection holds
  `Window` bytes, so that a writer has to wait for its reader.
- *Forks.* Each process has its copies of the global, the heap and `stdout`'s
  buffer. With a terminal `stdout` is flushed at each line and otherwise at exit,
  as the C library does; both are instances of one run.
- *Game.* `fgets` takes three characters at most: of a line "100" the newline is
  left for the next question, whose answer is then empty, and `atoi` takes it for
  0. The handler of the first program prints the score and exits wherever the
  program was.
- *Sequential programs.* A call that C leaves undefined has a value of its own
  (`Undefined`, "crash", "aborted") or, where memory holds what nobody knows, a
  set of outcomes (`Behind`, `Leftovers`).
- *Trout.* `timer` is the armed alarm, `pipe` the number of bytes the handler
  wrote. The alarm may go off at any label. `wire` is what the network may
  still deliver, `queue` the raw socket's buffer.
- *Servers.* `held[c]` is the set of processes that hold a descriptor of `c`'s
  connection: the client sees it closed only when the set is empty, which is
  why both the parent and the child of the forking server must close theirs.
  `listening` is the same for the listening socket: a client can wait for an
  accept as long as anyone holds it. `read_in` takes every line that waits,
  because each call opens a new stream on the socket. A task that has ended
  keeps its slot, as a zombie or an unjoined thread does. A slot's name is its
  order of creation, except in the iterative server, whose one conversation is
  always in slot 1.

## 3. Runs: what is checked, with which bounds

| run | instance | shows |
|---|---|---|
| `queue_cond` | 2 producers of 2 items, consumers of 1 and 3, 2 slots | type (`TypeOK`), `MutualExclusion`, no lost wakeup (`NoLostWakeup`), delivery (`AllDelivered`), refinement of `Fifo` (`ImplementsFifo`), termination (`Finishes`) |
| `queue_slots` | the same | violation of `StoreInsideArray`: the slot behind the allocation is written |
| `threads` | `queue.c`: 1 producer and 1 consumer of 4 items; `queue_mutex.c`: 2 and 2 of 2 items, 2 slots; `counter.c`, `barrier.c`: 3 children; `counter_array_mutex.c`: 3 children, `End` = 3; `counter_array.c`: 2 children, `End` = 3; `read_write.c`: 2 readers, 2 writers | the slots of the unlocked build are disjoint (`BareSlotsDisjoint`); both builds refine `Fifo` (`BuildsImplementFifo`); what survives without a lock (`CounterBounds`, `ArrayOvershoot`); each element counted once although the test is not under the mutex (`WorkDoneOnce`), and how far the counter passes its end (`MutexOvershoot`); the order of the parts (`PartsInOrder`); every program ends (`ProgramsEnd`) |
| `sequential` | `hash.c`: 4 keys, 2 values, 8 buckets; its `main`; lists of up to 4 nodes with the values -1 and 2, indices -1 to 3; for each program without state every input up to a length of 2 to 6 | well-formed chains and the load bound (`MapWellFormed`), refinement of `Dictionary` (`MapImplementsDictionary`); no pointer to freed memory (`HeapSafe`), no node lost (`NothingLost`), each call as documented (`CallsKeepPromise`); numbers, texts and objects are what the comments promise (`NumbersCorrect`, `TextsCorrect`, `ObjectsCorrect`) |
| `hash_calls` | the map and the lists of `sequential` | violation of `CallsDefined`: a remainder by zero |
| `list_removes` | the same | violation of `RemovedCounted`: two nodes counted, one unlinked |
| `trout` | 2 probes for 2 ttls, the host at 2, 1 duplicate or unrelated message | type (`TypeOK`), no wait without an alarm (`NeverStuck`), bounded stale alarms (`StaleAlarms`), a right route (`RightHop`), stopping rule (`StopsAtHost`), termination (`Finishes`) |
| `trout_report` | the same | violation of `ReportIsRoundTrip`: another ICMP message comes in and is reported |
| `ikkp` | 2 polite clients, 1 rude, 2 tasks; all three servers | one task per client (`OneTaskPerClient`), service (`PoliteServed`), hanging up (`HangsUp`), nobody left waiting (`NoneLeftWaiting`) |
| `web` | 2 clients, reads and writes of 1 to 3 bytes, `MAXLINE` 3, 1 fault (a call that fails or a client that is killed); advice: messages of 3 bytes and of 1, `recv` of 2, 2 faults | right answers (`RightAnswers`), clients end (`ClientsEnd`), connections end (`ConnectionsEnd`) |
| `processes` | 3 children, with and without a terminal, 2 faults (forks that fail, children that are killed); the game with products 0, 5 and 100, 2 or 3 typed answers, 5 or 7 questions | children waited for and reported, memory and buffer copied (`ParentsRight`); a fair score (`GameRight`); everything ends (`ProcessesEnd`) |
| `newshound` | the same | violation of `AbnormalReported`: a killed child is waited for and not reported |

Why the bounds are enough. With two slots and four items the ring of three
fills, empties and wraps in every build. Two producers and two consumers with
unequal loops make a signal meet no sleeper, one, or two, and let the wrong
consumer take an item. Three children are the least with which a stale counter
can be overtaken by two others; `End` = 3 lets each child do one element or one
child do all. Eight buckets let the map grow (never needed with four keys until
it has shrunk), shrink three times to one and then to none; the hashes collide
among four buckets and not among eight, and one is negative, a bucket among two
and none among four or eight. Two probes and two ttls are the least with an
answer to an earlier probe of the same ttl and of another ttl. With three
clients and two tasks the last client meets the limit while a silent or reset
client holds a task. The counters of `Trout` and the servers are bounded by
these constants; no state constraint is used. Four nodes hold a list with a
first, a last, and two equal neighbours between them, and two values make equal
neighbours and the -1 that `pop` also returns for an empty list; the addresses
are interchangeable, so `sequential` uses symmetry on them. In `web` a line of
three characters and a buffer of three make `readline` end by its newline, by a
full buffer and by the end of the stream, and a batch of two lines in one read
leaves the second in the static buffer. Three children and two faults let a fork
fail after some were made, with one of them killed before or after it printed,
or two be killed. In
the game 100 is the product that does not fit the answer buffer, and `MaxRounds`
is more than the typed answers can need (100 counts as two). The inputs of
`sequential` are as long as the program needs to meet its cases: a suffix that
occurs twice, a separator at either end, a carry through all digits, a line that
fills the buffer.

Deadlock is checked in `queue_cond`, `threads`, `sequential` and
`trout`, whose programs end in a state of their own. It is not checked in
`ikkp` and `web`, where a server whose clients have left waits in `accept` for
ever, and in `processes`, where the game may wait for the player and a finished
process takes no step.

## 4. Fairness

Each run that checks liveness uses `FairSpec` (in `web` it is `WebSpec`, in
`processes` `Spec`): weak fairness for every thread or process that can take a
step, which is what the operating system's scheduler gives, and for the
environment only what its definition says.

- `queue_cond`: `main`, each producer, each consumer. No fairness for spurious
  wakeups or for a failing `pthread_create`. A mutex is handed over weakly
  fairly because each thread uses it finitely often. `Finishes` assumes that
  spurious wakeups do not go on for ever.
- `threads`: `main` and each child; failing creation is never
  owed. `barrier.c`'s children spin, which fairness lets end only if no increment
  was lost; `ProgramsEnd` says so in its premise.
- `trout`: the program's own steps, and the alarm, which the system delivers
  when it is armed. The network owes nothing: termination holds if every answer
  is lost.
- `ikkp`: `main`, each task, and the answers of polite clients. Rude clients,
  resets and interrupts are never owed.
- `web`: the parent, each child and each client, also one that only reads; being
  killed and a call that fails are never owed. In particular the advice server's
  failing `accept` is an action of its own (`MainAcceptFails`) and not part of
  `Main`: a server with nobody in its queue waits for ever, and must have closed
  every connection by itself. `ClientsEnd` excepts the client that sends a last
  line without its newline and waits for an answer, while the child waits for the
  rest of the line: no side of it is wrong alone, and no document says which text
  can be sent.
- `processes`: `main`, each child and the alarm that was set. The player types
  when it likes, and never has to; so the solution may wait for an answer after
  its time is up.

## 5. Proofs

The proofs assume only the named assumptions on the constants
(`QueueAssumption`, `ChildrenAssumption`, `FreeAssumption`, `TroutAssumption`,
`ThreadsAssumption`, `TalkAssumption`, `MapAssumption`, `AddressAssumption`,
`ProcessesAssumption`, `WebAssumption`), which TLC evaluates in the runs, and two hypotheses
written in the theorems of `QueueBuildsProofs`: `OnePair` (one producer and one
consumer, as `main.c` has it) for `queue.c`, and that `Free` is no thread for
`queue_mutex.c`; `ThreadsProofs` discharges both for the instances of its run.
All proofs have the same shape: `Init => Inv`, one step per action for `Inv /\
[Next]_vars => Inv'`, and the property from `Inv`. The invariants are long; the
comments at their definitions give each part. What follows is the argument of
each module.

| module | theorems, with the property of a run they state |
|---|---|
| `QueueCondProofs` | `TypeCorrect` (`TypeOK`), `MutexCorrect` (`MutualExclusion`), `WakeupsCorrect` (`NoLostWakeup`), `EveryItemDelivered` (`AllDelivered`), `FifoImplemented` (`ImplementsFifo`), `FifoDelivers`, `DeliveryInherited` |
| `QueueBuildsProofs` | `TypeCorrect`, `NoRaceOnSlots`, `FifoImplemented` for `queue.c`; `MutexTypeCorrect`, `MutexFifoImplemented` for `queue_mutex.c` |
| `ThreadsProofs` | `BareSlotsCorrect` (`BareSlotsDisjoint`), `BuildsCorrect` (`BuildsImplementFifo`), `CountersBounded` (`CounterBounds`), `PartsOrdered` (`PartsInOrder`), `OvershootBounded` (`ArrayOvershoot`), `EveryUnitOnce` (`WorkDoneOnce`), `MutexOvershootBounded` (`MutexOvershoot`) |
| `TroutProofs` | `TypeCorrect` (`TypeOK`), `RaceGone` (`NeverStuck`), `StaleAlarmsBounded` (`StaleAlarms`), `HopsShown` (`RightHop`), `EndsAtHost` (`StopsAtHost`) |
| `IkkpProofs` | `OneTaskCorrect` (`OneTaskPerClient`) |
| `ContainersProofs` | `MapCorrect` (`MapWellFormed`), `DictionaryImplemented` (`MapImplementsDictionary`), `HeapCorrect` (`HeapSafe`), `NodesKept` (`NothingLost`) |
| `ProcessesProofs` | `GameCorrect` (`GameRight`), `ParentsCorrect` (`ParentsRight`), `AnswersCorrect` (`RightAnswers`) |

- `QueueRingProofs` has the arithmetic of the ring: how far one index is before
  the other, that `queue_incr` stays within the slots, and how `Contents`, the
  sequence of items between the indices, changes. A store into the free slot
  leaves it alone, moving `next_in` appends the stored item, moving `next_out`
  takes the first one. The three builds use these lemmas for their refinement.
- `QueueCondProofs`. Mutual exclusion alone is not inductive: nothing in it says
  that the thread inside *owns* the mutex. `LockInv` does: a thread is at
  "check", "access", "incr" or "unlock" exactly when `mutex` names it.
  `FrameInv` says that a thread `main` has not made yet is at "new", so that
  `make_thread` starts no thread that is running. `AccessInv` adds where each
  loop is (`LoopInv`), that what a thread tested is still true when it acts on
  it and that its slot still holds the item it stored or read (`SlotInv`), and
  that joined threads are done (`JoinInv`). `NoLostWakeup` is inductive under
  these: while a consumer sleeps, every item in the queue has a signal to come
  or a consumer awake inside `queue_pop`. A push adds an item and its signal,
  `signal` turns a signal into a woken consumer, and a consumer goes to sleep
  only when it has found the queue empty. For the refinement an item enters the
  abstract queue when `next_in` moves and leaves when `next_out` moves; every
  other step shows nothing. `FifoDelivers` says of the abstract queue that what
  has been received and what is still queued make up what has been sent, in
  order; `DeliveryInherited` is the same of `queue_cond.c` under that mapping,
  and `EveryItemDelivered` counts: when all threads are done, each has been
  through its whole loop.
- `QueueBuildsProofs`. `queue.c` has no lock: the producer relies on the
  consumer only ever making room, the consumer on the producer only ever adding
  items (`ProducerInv`, `ConsumerInv`). Hence the two are never at the same
  slot, and the queue refines `Fifo`. With two producers this fails, which is
  why `OnePair` is there. `queue_mutex.c` holds the mutex from the test to the
  unlock: `HolderInv` (a thread is inside only if the mutex names it) makes the
  same two invariants true for any number of threads.
- `ThreadsProofs`. The run's behaviours pick one program, so each theorem proves
  that program's invariant for the behaviours that picked it. `counter.c`:
  `CounterInv` bounds the counter, and what any child has loaded, by the number
  of children that have stored; a stale value can only lower it. `barrier.c`:
  `BarrierInv` bounds the counter by the number of children past their store, so
  a child that reads `NumChildren` knows that all have stored. `counter_array.c`
  with two children: `OvershootInv` says that when the counter has reached
  `End`, at most one child is still on its way to store. `read_write.c`:
  `SaidInv` counts the lines against the children that are done. The two queue
  builds are instances of `QueueBuildsProofs`; the lemmas in between say that
  the instance of a module inside an instance is the module's own definition.
  `counter_array_mutex.c` is the last section: `WorkInv` ties the array to the
  counter: elements below it are 1, those above 0, and the one at the counter is
  1 exactly while a child has worked on it and not counted. `PassedInv` bounds
  the overshoot: once the counter is at `End`, the counter and the children that
  passed the test before (`Passed`) add up to at most `End + NumChildren - 1`;
  the child that brought the counter to `End` is not among them, hence the 1.
  `DoneInv` says that a child leaves only when the counter has reached `End`, so
  the array that `main` checks is complete.
- `TroutProofs`. `RaceGone` and `StaleAlarmsBounded` rest on `AlarmInv`, which
  bounds the alarms in play at each label and says when there is one.
  `HopsShown` and `EndsAtHost` rest on `AnswerInv` and `CountInv`. A router's
  answer to an earlier probe may be anywhere while a later ttl is tried, so
  `RightHop` is not inductive. `AnswerInv` says of every answer on the wire, in
  the buffer and in `packet` that it is `Genuine`: an "unreachable" comes from a
  ttl that reaches the host, and the ttl never shrinks; an "exceeded" comes from a
  ttl that does not reach it if it carries the number of the probe that is waited
  for, and no answer carries a number not used yet. `process_ip` takes only
  answers with the current number, hence `CountInv`: what is about to be shown is
  of the current ttl, and a counted probe shows that it reaches the host.
  `TypeCorrect` adds the ranges (`RangeInv`).
- `IkkpProofs`. That no client talks with two tasks is not inductive: it says
  nothing of where a task's client comes from. `TalkInv` does: a client waits
  once and is accepted once, and one that is still `New` has heard nothing and
  is no task's. What is left is how each server hands the client over. The
  iterative one has one slot (`SoloInv`). The forking one copies `connect_d`,
  and between `accept` and `fork` its client is nobody's (`CurInv`), after it a
  child's that has not spoken (`StartInv`). The threaded one writes a cell that
  the thread reads later: `HeapInv` says that the cells hold different clients,
  that one nobody has read holds a client that has heard nothing, and that a
  thread which has read its cell holds what is there; `NextInv` that `main` only
  ever writes the cell of a thread it has not made. With one cell for all
  threads the proof of that last step fails, as the mutant of the run does.
- `ContainersProofs`, the hash map. The model's chains are sequences and its
  loops over them recursive functions, so what they compute needs induction. It
  comes from the library's fact that `<` on the naturals is well-founded: a set
  of numbers has a least element (`Least`), hence induction over a set
  (`SetInduction`), hence a function defined by recursion exists and satisfies
  its equations (`RecursionExists`). Under `MapInv` the buckets hold the
  elements of some set `X` of nodes, each in the bucket of its key and no key
  twice (`Chained`), and `size` is the cardinality of `X`. Adding, removing and
  rehashing are then operations on `X`: a rehash moves the nodes of `X` to other
  buckets, whatever the number of buckets and in whatever order it visits them.
  `Mapped`, what the map shows, depends on `X` only (`DictOf`), from which the
  refinement of `Dictionary` follows call by call.
- `ContainersProofs`, the lists. A list that is not finite, or leads to freed
  memory, cannot be told from a state of one node, so the invariant speaks of
  sets: a set of live nodes is `Sound` when the pointers of its members stay in
  it and each leads to a lower rank. A walk that begins in a sound set stays in
  it, and ends within as many steps as there are nodes, because otherwise two of
  its steps would be at one node (a function from more numbers than nodes is not
  injective) whose rank would be lower than itself. `ListInv` says for each
  label of each program which pointers begin in a sound set of live nodes:
  between the calls only the list (`Idle`); in a reversal the two parts, with no
  node in both (`Turned`); in the `remove_by_value` of ex06, which may go on
  from a node that it has unlinked, one sound set for the list and its own two
  pointers (`Unlinking`); in that of `list_errors.c` and in `insert_by_index` a
  node that the list reaches (`Searching`). That unlinking a node loses no other
  rests on its having one predecessor only (`OnePredecessor`). `NodesKept`
  excepts the `remove_by_value` of ex06, as `NothingLost` does: it frees no node
  it unlinks. The theorems are about `MCSpec`. A behaviour of the run's `AnySpec`
  is one of `MCSpec` on the variables of `MCContainers` (with a program without
  state these never change), so the theorems hold of it; that step is not proved,
  because the modules of the programs without state have RECURSIVE operators.
- `ProcessesProofs`. The run has the same module several times, with other
  constants; the invariants are stated of an instance with the constants as
  parameters (`G`, `P`), and each program's instance is one of it. The game:
  `AnswerInv` says that `stdin` holds what was typed and not yet taken, in
  order, so that the `n`th answer read is the `n`th line, as long as no line was
  cut by the buffer; `LateInv` that an alarm is set, or has left its flag,
  whenever an answer is read and checked, from which at most one answer is late.
  The forking parents, with any number of failing forks and killed children:
  `PlaceInv` says which children were made and which were waited for, also when a
  fork has failed; `CopyInv` that `main` changes its memory after the last copy
  was made; `ReportInv` and `LineInv` add up the lines about a child, and the
  child's own, in the output and in the buffers. `CreationInv` is about the
  announcements: without a terminal, one has been printed as often as there are
  processes that had it in their buffer and have ended without being killed
  (`Flushed`), and every other process that has it has it once. When all have
  ended, the children in `Flushed` are those made later and not killed, which
  `CopiedAtFork` counts. That a failed fork leaves children unwaited is what the
  code does and not a fault by any of its comments; `WaitsForAll` says what main
  does when it ends with status 0.
- `ProcessesProofs`, the web servers. What a client has written and its child
  has not yet heard is spread over the child's line and static buffer, the
  connection and what `writen` has left; what the child has answered and the
  client has not printed is spread in the same way. `ToHear`, `Flight`,
  `Pending` and `Printed` join the pieces in order, so that a `read`, a `write`,
  a copy out of the static buffer only moves the cuts between them. `Middle`
  says that, after some number of characters of the client's text, `str_echo`
  has the line that has begun there, the rest is still to hear, and what was
  printed and is pending are the answers up to there (`HeardTo`); `Turns`, that
  `str_cli` and its child take turns, with one line or one answer under way;
  `AtEnd` and `Promise`, what is left when one side has ended. `ControlInv` ties
  the parent, the listening socket and each connection together: a connection is
  lost only after a fault. Two facts carry the induction: `readline` ends a line
  exactly where `Heard` does, wherever the pieces begin (`HeardGoesOn`,
  `HeardEnds`), and joining sequences is associative. The solution's reply and
  the advice server's message are single texts, for which `HttpInv` and
  `AdviceInv` say that what was printed, is under way and is left make up the
  text. `WebAssumption` asks that a line has room for two characters, that 0
  names the parent and no client, that texts are texts, and that the clients of
  the solution's server are its own (`send_get`).

## 6. What the checks found

By a run that shows the violation:

- `make_queue` in `queue_cond.c` allocates `length` slots for a ring of
  `length + 1` (line 31; the comment on line 29 knows about the extra one).
- `map_resize` halves a map of one bucket to none, after which every call takes
  a remainder by zero.
- `trout` prints a round trip for an ICMP message that has nothing to do with it
  (`recv_dgram` returns 0, which `send_probes` does not tell from an answer).
- `remove_by_value` (ex06) counts every node with the value, and leaves every
  second of a run of neighbours in the list.
- `newshound.c` reports nothing of a child that was killed, because
  `WEXITSTATUS` is 0 for it.

By reading the code into a model. No run shows these, and no property demands
that they stay: where the code breaks its comment, the property asks for what the
comment promises and leaves out the inputs concerned, or bounds what is left.

- `counter.c` can print less than the number of children, against the answer
  written down in `counter_array_mutex.c` (`CounterBounds` holds).
- `counter_array_mutex.c` works on elements behind its array; its check cannot
  see it ("Done, no errors!") (`MutexOvershoot` bounds how far).
- `remove_by_value` (ex06) frees none of the nodes it unlinks (`NothingLost`
  excepts it); `insert_by_index` (ex13) takes a negative index for 1, and the loop
  that empties a list stops at a stored -1 (`CallsKeepPromise` says nothing of
  either).
- `add_bigint` stops at a column that adds up to nothing, whatever follows: 10 +
  10 is the empty number (`NumbersCorrect` asks for the sum of all numbers that
  have no digit behind such a column).
- `adder.c` reads behind its full array, and a negative number or one longer than
  an int spoils the sum (`NumbersCorrect` asks for the sum of positive ints,
  fewer than the array holds).
- `endswith` (ex04) compares the first occurrence only, so `endswith("aa", "a")`
  is 0 (`TextsCorrect` never accepts a wrong 1, and asks for the 1 when the suffix
  occurs once).
- `map_remove` reads a freed node; `main` of `hash.c` mixes types that
  `equal_hashable` wants equal (its own keys are told apart all the same).
- `read_in` looks before its buffer at the end of the file; the forking server
  never waits for its children.
- The advice server does not test `accept`; its clients take a name that was not
  found for an address.
- Two remarks in the code are too strict: `rand.c` counts set bits where it says
  it looks for one (the distribution, which is what `FloatsEven` is about, is the
  same), and `ex13/word_count.c` frees all that it says it leaks (freeing is not
  modelled).

## 7. What is only model-checked, and what is not modelled

Only model-checked, on the instances above: what each list call returns and
leaves (`CallsKeepPromise`), `NumbersCorrect`, `TextsCorrect` and
`ObjectsCorrect`, and every liveness property. Liveness under fairness
and ENABLED are out of the prover's reach. Induction over data is hard to reach:
the provers have no induction rule for a formula, only well-foundedness for a
set, which `ContainersProofs` uses for the loops of `hash.c` and for walks
through lists, and `ProcessesProofs` for texts, character by character
(`BoundedInduction`, and `RecursionExists` for the function `Heard` defines by
recursion); what the RECURSIVE operators of `sequential` compute for every
input cannot be stated to them at all. The bound of `counter_array.c` is stated,
and proved, for the program's two children only: with three, a child that passed
the test on a counter thrown back can go further.

Not modelled within the modelled components: the characters of the servers'
lines, the bytes of packets, wording and layout of what is printed, files that
cannot be opened (but for `tee`), memory that `malloc` does not give. A call
that a signal interrupts and that is made again (`my_read`, `writen`) is one
call. Weak memory orders are not modelled: in the unlocked programs loads and
stores are interleaved. Coordinates of shapes are integers, and the float of
`rand.c` is the pair of its exponent and mantissa. GLib's tables and sequences,
`strtok`, `strstr`, `getopt`, the TCP connections and the terminal are external:
modelled from how the code uses them.

Not modelled:

- `ex08/matrix*.c`, `examples/cache`, `modf.c`, `rational.c`, `time_rand.c`,
  `div.c`: floating-point arithmetic and timing of memory accesses.
- `ex02/stack.c`, `mem_errors.c`, `array_test.c`, `hello.c`, `optimize.c`,
  `ex_compile.c`, the `aspace.c` programs: a few lines that show a compiler, a
  memory checker or an address space, most by undefined behaviour on purpose.
- `cards_2.c` (the same program as `cards.c` in one function), `shapes.c` (the
  solution with the functions left to be written), `queue_test.c` and
  `test_util.c` (fixed sequences of calls).

## 8. Plan

Done: all components of section 1; proofs of every safety property and of both
refinements of the runs `queue_cond`, `threads`, `trout`, `ikkp`, `web` and
`processes`, and of those of `sequential` about the map and the lists, but for
`CallsKeepPromise`.

Left: `CallsKeepPromise`, which relates the sequence of the list's values after
a call to the one before it.
