# study-doc: models, checks and proofs

The repository is a set of study notes with small programs beside them: C++ demos
of thread synchronisation and object lifetime (`mutli-thread-study`), and C programs
from UNIX network programming (`unix-network-programming/ourc`, and the signal demos of
`unix-network-programming/linux信号和信号集/linux信号和信号量`). There is no single
application; each program is a component of its own, and what they share is
the wrappers they are written with (`MutexLock`, `Condition`, `common.h`). This project models the
programs whose correctness depends on the order in which threads, signals,
processes or messages meet, checks them with TLC on small instances, and proves the
safety of eight of them with TLAPS for every instance.

Paths below leave out `src/`; `ourc/` is `unix-network-programming/ourc/` and `demoN.c` is a file
of the directory of the signal demos.

## 1. Inventory

### 1.1 Components that are modelled

| component | state | operations | modules |
|---|---|---|---|
| mutex and condition wrappers (the first 120 lines of each thread demo) | owner of the mutex, sleepers of the condition | lock, unLock, wait (release and sleep; take again), notify, notifyAll | `Mutex`, `Monitor` |
| blocking queue, `doc/2/queue.cc` | deque, the mutex, the condition, each thread's place | `enqueue`, `dequeue` | `BlockingQueue`, abstract `FifoQueue` |
| countdown latch, `doc/2/countDownLatch.cc` | `count_`, mutex, condition | `countDOwn`, `wait`, `getCount` | `CountDownLatch`, abstract `Gate` |
| weak-pointer observable, `demoTwo/test_safe_thread.cc` | vector of `weak_ptr`, reference counts | `register_`, `notifyObservers`, ends of the threads | `SafeObservable` |
| raw-pointer observable, `demoOne` | vector of raw pointers, life of each object | `observe`, `~Observer`/`unregister_`, `notifyObservers` | `RawObservable`, used by the threads of `test_thread.cc` in `RawObserverThreads` |
| stock factory, `demoThree`, `demoFour` | map, references to the factory | `get`, `deleteStock` as the deleter of a Stock | `StockFactory` |
| poll echo server, `ourc/server_new.c` | `client[]`, `maxi`, `nready`, `revents`, connections and send buffers of the kernel | poll, accept, read, writen, close | `PollServer` |
| forking echo server, `ourc/server.c` | `clifd`, `errno`, open descriptors, children, SIGCHLD | accept, test, fork, close; the handler; ends of children | `ForkServer` |
| a child's `str_echo`, `ourc/server.c` | `buf` and what earlier reads left in it | read, strlen and write | `EchoSession` |
| echo clients, `ourc/client.c` and `ourc/client2.c` | stdin and its stdio buffer, `rset`, `recvline`, both directions of the connection | select, readline or read, fgets, writen | `EchoSession` |
| ping, `ourc/ping.c` | alarm and SIGALRM, `sendbuf`, `nsent`, receive buffer, clock | readloop, `sig_alrm`, `send_v4`, `proc_v4`, `in_cksum`, `tv_sub` | `Ping` |
| descriptor passing, `ourc/msg_main.c` and `ourc/msg.c` | both ends of the socketpair, the open file and who holds it, exit status | `my_open`, `readfd`, mycat; openfile, `writefd` | `OpenFile` |
| signal demos, `demo0.c`, `demo1.c`, `demo6.c` to `demo13.c` | mask, pending and caught signals, running handlers, `jmp_buf`, `oldmask`, alarm, flag | signal, sigprocmask, select, pause, sleep, sigsuspend, sigwait, (sig)setjmp, alarm; the handlers, (sig)longjmp | `SignalDemos` |

How they interact. The thread demos share memory under a mutex; the observables call
back into objects whose lifetime other threads control; the factory is called back by
the deleters of the objects it handed out. The servers and the client talk over TCP;
the forking server, its children and its signal handler share process state
(`errno`, descriptors, zombies); each signal demo is interrupted by its own handler; ping shares `sockfd`, `errno` and the alarm
between the loop and the handler; mycat and openfile share a socketpair, an exit
status and an open file.

What is hard in them, and what makes them correct:

* **queue** - several sleepers and one `notify` per item, spurious wakeups, another
  consumer that takes the item between the notify and the return of the wait. Correct:
  order, nothing read from an empty deque, no item left with everybody asleep.
* **latch** - one broadcast in the life of the object, a count that goes on below zero.
  Correct: nobody passes early, nobody stays asleep.
* **observables** - objects that die while the list is walked, iterators across `erase`.
  Correct: every live observer updated once, no dead one reached, none leaked.
* **factory** - a deleter that runs the factory's code after the global reference is
  gone. Correct: the factory outlives its last call and no longer.
* **poll server** - one thread for all: a stale `revents`, a wrong `nready` or `maxi`
  makes it read where nothing is to be read, or never read where something is; and a client
  that does not read its echo stops it in `writen`. Correct: the table and the echo are exact,
  and nothing but what was named keeps a client from its echo.
* **fork server** - signals merge, interrupt `accept` and change `errno` between the
  call and its test. Correct: no zombie forgotten, no descriptor leaked, the loop goes on.
* **echo session** - three buffers between two streams (stdio, `recvline`, the socket), a
  select that sees two of them, and a server that echoes `strlen` of a buffer with old bytes
  in it. Correct: order both ways, nothing lost, everything that was sent is printed.
* **signal demos** - a signal between any two calls, nested handlers, a mask that a
  call changes while it waits. Correct: the mask survives all of it, a signal is
  taken or blocked on purpose, nobody waits for what has already happened.
* **ping** - a signal handler that sends between any two steps of the receiver, a network
  that loses, doubles and delays, arithmetic at its limits. Correct: valid
  checksums, true round-trip times, requests that go on.
* **descriptor passing** - every call may fail on either side, and the parent waits for
  the child before it reads. Correct: the right descriptor or none, nothing left
  open, nobody waits for ever.

### 1.2 Not modelled

* `main` of the latch demo: ten joins of one thread, and the end of the latch's life. What
  keeps its threads out of the latch when `main` ends is a sleep of three seconds, and the
  models have no clock; without it, the only statement to check would be that it fails.
* `test.cpp` of demoOne: the operations of `RawObservable` called by one thread in a fixed
  order, which one execution of the program shows as well.
* `readn` of `common.h`, which nobody calls (it assigns `EINTR` to errno and so loops for
  ever at the end of a file).
* `socketpair.c`: two processes write once and read once, and neither can block the
  other. `daemon_init.c`, `mem_study.c`: straight lines of calls whose state is the kernel's.
* `pool.c`, `pthread_server.c`, `udp_server.c`, `web.c` and their headers: fragments that do not
  compile, with functions cut off in the middle.
* The one-call demos (`hostent.c`, `getaddrinfo.c`, `ioctl.c`, `demoFive` and others) print
  what one library call returns; `demo2.c` to `demo5.c` have a handler that prints, a `getpwnam` in
  a handler (what goes wrong there is inside the C library), or set operations.
* The notes, slides and books are prose; where they make a claim about one of these
  programs, a property quotes it.

## 2. Modules and the code

Every operation of the code is an action and every guard one of its tests; where the
code holds no lock, or a signal may come, each step between two shared accesses is an
action of its own. A statement under a mutex that touches several variables is split where the split
is visible to a property (`front()` and `pop_front()`).

* `Mutex`, `Monitor`: what the wrappers rely on. `Sleep` and `Resume` are the two halves
  of `pthread_cond_wait`; `Signal` wakes one sleeper *or more*, as POSIX says, and is lost when there is
  none; `WakeSpuriously` needs no reason.
* `BlockingQueue`: `pc[t]` is the next statement of thread t. `produced` and `taken`
  are histories, and the state of `FifoQueue`. `front()` of an empty deque
  yields `Garbage`.
* `CountDownLatch`: workers call `countDOwn` once, waiters `wait` and then `getCount`.
  `Arrived` and `Through` map it to `Gate`.
* `SafeObservable`: a Foo is named after the thread that made it; `strong` is its
  use count; `obj` the local `shared_ptr` of the loop, whose end may be the end of the Foo.
* `RawObservable`: `cell`/`size` are the vector, `push_back` is a read of the end and
  a store, `life` follows an object through its destructors, addresses are reused. A
  call on a `dying` object is a pure virtual call, on a `free` one a use after free:
  both are recorded in `fault`. The vector's reallocation is left out; it adds faults and
  removes none. `RawObserverThreads` gives each thread the loop body of `test_thread.cc`.
* `StockFactory`: both demos; `shared` chosen in `Init` tells them apart. The map holds only null
  pointers (get() never stores into it), so that it is the set of its keys. In
  demoThree the global goes when no Stock is held, as its `main` is written; in demoFour
  whenever no thread is inside `get`: threads may hold Stocks or be in their deleters.
* `PollServer`: `link[c]` is what the server's TCP knows of a client: open, half closed,
  closed, reset, reset and reported. `revents` starts as garbage, the array being a local
  that is never set to zero. `n` is a `size_t`: after a read error the code takes
  neither of its two branches for errors, and `ReadReset` does the same. `writen` is one
  blocking `write()`, which `Write` carries out chunk by chunk as the connection has room
  (`SendBuf`) and `WriteFails` cuts short when the connection breaks; `HeldUp` is a server that
  waits there for a client which does not read.
* `ForkServer`: `handling` suspends the parent; `systemV`, chosen in `Init`, is the meaning
  of `signal()`: whether an interrupted `accept` is restarted and the handler stays
  installed. `TestErrno` tests `errno == EINTR` first, as lines 31-36 do.
* `EchoSession`: `client`, `server` and `terminal`, chosen in `Init`, tell which of two
  clients talks to which of two servers and whether a read of stdin returns one line or all
  there is. A line is a number and crosses the network in two pieces, so that a read may end in the
  middle of one. `stdio` is the buffer of stdin that `select` does not see. `client2.c`
  names port 3000, where no server of the directory listens, and its own `writen` conflicts
  with the one that `common.h` defines, so that it does not compile as it stands; it is
  modelled with its own `writen`, as if started against one of the servers. `recvline` is
  what earlier lines, or nobody, left in the buffer of `client.c`, with one place more for the zero byte;
  `partial` is what `readline` has written over its beginning. After a reset `readline`
  sets no zero byte, and the client prints what `recvline` holds; `repeated` is the part of that which had been shown.
  Memory that nobody wrote is taken to hold no end of a line; a zero byte in it could only
  shorten what is shown of it. The server's `buf` starts with any garbage; `Old` is a byte of an earlier read that `str_echo` may repeat, the end of a line or not,
  and `Zero` the byte at which its `strlen` stops. `link` is the end of the connection as the
  client meets it: an orderly one, a reset not yet reported, or a broken one, where the
  next write raises SIGPIPE.
* `SignalDemos`: a program is the sequence of its calls, one operator each (`Demo0` ...), and an
  action executes the call at `pc`. Between any two calls a signal may come
  (`Send`), be delivered to a handler (`Handle`, which pushes the mask to restore), or end the
  process. `sigsuspend` changes the mask and sleeps in one action. `flag` remembers the
  statement at which the handler interrupted main, which tells a wakeup that was lost. An
  assignment whose value nobody reads afterwards is left out.
* `Ping`: words of `B` values in place of 2^16 and seconds of `Second` ticks in
  place of 10^6, so that every carry and borrow happens within a few states; the
  constant filling of a message is left out, the checksum being a sum. `handler` suspends the
  loop. `IsValid` is the receiver's test and does not mention `in_cksum`.
* `OpenFile`: `end0`, `end1` and `file` are the sets of holders of three kernel objects;
  a message in flight is a holder of the file. Uninitialised locals (`status` when there is no child,
  `fd` when `readfd` fails) are `Unset`, and every reading of them is a choice. A loop that reads an unset
  `fd` reads whatever descriptor that names, or none: `CopyUnset` and `FinishUnset` may happen and need not.
  (An unset `sockfd` is taken to name no descriptor of the program.)

An operator whose comment starts with `Fault:` is a mutation of the definition that
follows it. No specification uses one: they show that the properties can fail.

## 3. Runs

| run | instance | states | question |
|---|---|---|---|
| `queue` | 2 producers, 3 consumers, 2 items, 4 pushes | 123 051 | is the order kept, are there always enough awake consumers, does the queue implement `FifoQueue` with its liveness? |
| `latch` | 3 workers, 2 waiters, count 2 | 575 | does the latch implement `Gate`, although one worker counts past zero? |
| `safe_observable` | 3 threads | 10 424 | does every pass update what it began with, exactly once, while observers come and die? |
| `raw_observer_threads` | 3 threads, one round each | violation | is it with threads? (finding 1) |
| `factory` | 3 threads, 2 keys, 5 Stocks, both demos | 11 904 | does the factory outlive its calls, and is it reclaimed? |
| `poll` | 3 clients on 2 slots, one of them rude, 4 chunks, send buffers of 1 | 289 716 | are the table and the echo exact, does a read ever wait, is everybody served whom no one holds up? |
| `fork` | 3 clients, both meanings of signal() | 7 457 | are zombies reaped, descriptors closed, does only an aborted connection end the loop? |
| `fork_leak` | the same | violation | is every descriptor closed where `accept` is interrupted? (finding 2) |
| `session` | 3 lines, both clients and servers, terminal and pipe, buffers of 2 and 3 pieces | 433 434 | is the order kept both ways, what may be shown twice, and does every line come back? |
| `signals` | 10 programs, 4 signals, each sent twice | 40 443 | does the mask survive the handlers, is every signal taken, who can miss a wakeup? |
| `ping` | 3 requests, 3 ticks, receive buffer of 1, 3 foreign messages | 502 546 | are the checksums valid, the round trips true, do the requests go on? |
| `openfile` | a file of 2 reads, 2 errno values | 115 | does the descriptor arrive, is nothing left open, do both processes end unless `fork` failed? |

The bounds and why they are enough:

* *queue*: a lost wakeup needs two sleepers and two items, or a third consumer that takes
  the item of one just woken; three consumers, two producers and four items have
  both. Two item values tell any reordering of neighbours; the proof covers the rest.
* *latch*: two of three workers open it, the third counts below zero; two
  waiters tell `notify` from `notifyAll`.
* *observables*: a pass over three entries has a first, a middle and a last one to erase;
  test_safe_thread.cc and test_thread.cc have three threads themselves.
* *factory*: three Stocks at once and two keys give two Stocks of one key and one of another,
  and two more show each thread again after the global is gone.
* *poll*: two slots and three clients fill the table, reuse a slot
  and meet the full table; two chunks of a client let one be read while the
  other arrives, and exceed a send buffer of one, so that a write waits in its middle and may
  break there. Slots beyond `maxi` exist in the first rounds, with any garbage in `revents`.
* *fork*: one child that is handled, one that ends while the handler runs and one whose
  signal merges with it.
* *session*: three lines give one in each buffer; two pieces give a half line. The
  server's buffer holds one line, so that a read takes a part of what has come and leaves old
  bytes behind it; the client's holds one and a half, so that a line with repeated
  bytes overflows `recvline`; a reset may come when `recvline` holds nothing, an earlier line, or a
  piece of a line over an earlier one.
* *signals*: a signal sent twice arrives before and in its own handler and merges with
  itself; four signals nest in every order.
* *ping*: with words of three bits the sum of six words overflows, and adding the carry overflows
  once more, which is what the second fold is for;
  the clock crosses a second twice; three requests and a buffer of one
  give a late reply, a doubled one and one out of order. `MaxSent` stops the
  alarm after three requests, `MaxClock` the clock; nothing else depends on them.
* *openfile*: the program has no loop but the copy of the file; `Size` also bounds what is
  read from a descriptor that is not the file's.

`CHECK_DEADLOCK FALSE` is set for programs that may stop: the latch's threads end, the
servers may exit or have no client left, the client and the signal demos end, ping reaches its
bound, mycat ends. In `queue` and in the observers and the factory deadlock is checked (threads
that are all done stutter explicitly, in `SafeObservable` and `StockFactory`).

### Fairness

* Threads (`queue`, `factory`): weak fairness of each thread. The scheduler runs a
  thread that stays able to run; taking the mutex counts as such a step, and in these programs
  nobody holds it for ever. In `factory` also the end of the program is fair, since
  main returns.
* `latch`: strong fairness of each worker. Waiters that wake spuriously for ever
  free the mutex again and again, so that a worker is not *continuously* able to
  take it. The code relies on the mutex letting it in some day.
  Spurious wakeups are never owed.
* Servers and clients (`poll`, `fork`, `session`): weak fairness of each process and of
  its handler; in `poll` a client that is not rude reads its echo, in `fork` each session
  ends (`str_echo` returns when its client closes). Clients and users owe nothing
  else, so every liveness property is conditional on what they did.
* `signals`: weak fairness of main, of the delivery of what is pending and not blocked, of the
  handlers and of an alarm that is set. Nobody has to send a signal or to connect to the
  socket of demo0.
* `ping`: weak fairness of the loop, the handler and the ringing of an alarm that is set. The
  network owes nothing.
* `openfile`: weak fairness of both processes; nobody has to be killed, and both end
  even if one is. `ReadUnset`, the reading of a descriptor that was never set, is owed
  nothing: the terminal, say, may never have data. Hence the exception of `BothEnd` where `fork` failed.
* The observables have no liveness property, hence no fairness.

### Findings

1. `raw_observer_threads`: `demoOne/readme.md:19` says that with `sum` set to 1 the
   program of three threads exits normally. It may, but need not: one thread's `delete`
   leaves the object in the vector until the base class's destructor unregisters it,
   and another thread's `notifyObservers` can call `update()` on it meanwhile. The run
   shows such an interleaving.
2. `fork_leak`: `server.c:31` tests `errno == EINTR` before it looks at the result of
   `accept`, and a successful accept leaves errno alone. Where `signal()` does not restart
   `accept`, the connections that follow an interrupted accept are accepted and skipped,
   never served, never closed, until a call changes errno; the run stops at the first. Where it is restarted (glibc, BSD), errno never becomes EINTR, and
   `NoLeakWhenRestarted` holds: the `fork` run checks both in one model.

Observed on the way, and part of the models without a run of their own: the poll
server keeps the slot of a connection whose read failed until the next read reports its end
(`n < 0` is false for a `size_t`), and waits in `writen` for as long as a client
does not read (`HeldUp`, the first alternative of `EveryClientIsServed`); the client exits at the end of its input with
echoes on their way, and on a pipe may leave whole lines in the buffer of stdin which
`select` cannot see (so that `EveryLineComesBack` promises sending at a terminal
only); `str_echo` may add bytes of earlier reads, for whose line end `readline` then waits
(`WaitsForNobody`); `client.c` shows an earlier line, or the rest of one, again when the
connection is reset, since `readline` then returns -1, only 0 is tested, and `recvline` is
printed as it stands (`repeated`, the exception of `EchoInOrder`); a SIGTERM before the `select` of demo0 and an alarm before the `pause` of demo9 are
lost as wakeups (`Missed`), the `longjmp` of demo10 leaves SIGTERM blocked, and one that
comes before `setjmp` jumps through an empty `jmp_buf` (`crashed`); in `ForkServer` under System V only the first SIGCHLD is
handled, and in `Ping` the second SIGALRM ends the process; `ping` follows a null pointer
when the host name is unknown (`crashed`); mycat may go on with an unset
descriptor when `fork` fails (`Readings`), read whatever that names and wait for ever, which is why
`DescriptorArrives` speaks of the case in which it succeeded and `BothEnd` excepts the other.

## 4. Proofs

Eight modules prove the safety of eight components for every value of the constants: any
finite sets of threads, clients, keys and items, any table of the poll server, any number of
lines of a session, any size of its buffers, of a send buffer and of a file, and any number of
spurious wakeups, signals and failures.

| component | theorem | statement (after `Safety =>`, in `SafeObservable` after `Spec =>`) |
|---|---|---|
| queue, `BlockingQueueProofs` | `TypeCorrect` | `[]TypeOK` |
| | `MutexIsExclusive` | `[]MutualExclusion` |
| | `OrderIsKept` | `[]FirstInFirstOut` |
| | `WakeupsSuffice` | `[]NoLostWakeup` |
| | `RefinesFifoQueue` | `Abstract!Safety` |
| latch, `CountDownLatchProofs` | `TypeCorrect` | `[]TypeOK` |
| | `NobodyPassesEarly` | `[]OpenMeansCounted` |
| | `NobodySleepsThroughTheOpening` | `[]NobodyLeftAsleep` |
| | `RefinesGate` | `Abstract!Safety` |
| weak observable, `SafeObservableProofs` | `TypeCorrect` | `[]TypeOK` |
| | `CountsExact` | `[]CountsAreExact` |
| | `UpdatesTheLiving` | `update()` runs on a Foo with a positive count |
| | `LiveListed` | `[]LiveObserversAreListed` |
| | `PassExact` | `[]PassIsExact` |
| factory, `StockFactoryProofs` | `TypeCorrect` | `[]TypeOK` |
| | `CallsFindTheFactory` | `[]FactoryOutlivesCalls` |
| | `MapIsEmptyAtTheEnd` | a destroyed factory had an empty map |
| | `DestroyedOnce` | no step touches a destroyed factory (an action property) |
| poll server, `PollServerProofs` | `TypeCorrect` | `[]TypeOK` |
| | `TableExact` | `[]TableIsExact` |
| | `EchoExact` | `[]EchoIsExact` |
| | `ReadNeverBlocks` | `[]NeverBlocksInRead` |
| | `EndsForCause` | `[](~Running => EndedForCause)` |
| forking server, `ForkServerProofs` | `TypeCorrect` | `[]TypeOK` |
| | `ZombiesAreRemembered` | `[]NoZombieForgotten` |
| | `DescriptorsAreClosed` | `[]NoLeakWhenRestarted` |
| | `OnlyAbortsEndIt` | `[](~Running => EndedByAbort)` |
| echo session, `EchoSessionProofs` | `TypeCorrect` | `[]TypeOK` |
| | `InputNeverReordered` | `[]InputInOrder` |
| | `EchoNeverReordered` | `[]EchoInOrder` |
| descriptor passing, `OpenFileProofs` | `TypeCorrect` | `[]TypeOK` |
| | `MessageArrives` | `[]DescriptorArrives` |
| | `NothingIsLeft` | `[]NothingLeftOpen` |

Assumptions. Each module rests on the one named assumption of its component
(`ThreadsAssumption`, `LatchAssumption`, `ObservableAssumption`, `FactoryAssumption`,
`PollAssumption`, `ForkAssumption`, `SessionAssumption`, `OpenFileAssumption`) and on no other. They say that sets of
threads or clients are finite, that the constants standing for nobody, no key or a free slot
are not members of them, that bounds are numbers, that `client[]` has a slot beside the one which
listens, that each buffer of a session holds at least two pieces, and that an exit status for a failure is a positive byte. TLC evaluates each of them
in the run of its component.

Each module proves that its `IInv` holds initially and is kept by every step, from lemmas that show
what one conjunct of `IInv` keeps at each action. Each `IInv` was model-checked on the instance of the
component's run before it was proved; that of the poll server also on three slots.

**The queue.** None of the properties is inductive alone. `FirstInFirstOut` needs that the item
a consumer read with `front()` is still the head when it pops, and that it did not read an empty
deque; that needs `TestHolds` (what a consumer learned under the mutex is
still so), which needs `MutualExclusion`, which needs to know that sleepers are
at the `resume` statement (`SleepersResume`). `NoLostWakeup` counts: the items in
the deque are at most the awake consumers plus the `notify`s still owed. A push adds
an item and an owed notify; a notify wakes at least one sleeper or finds
none, when there is nothing to show; a consumer goes to sleep only on an empty deque
(`TestHolds`). The refinement follows because a push is a
`Put`, a pop under `IInv` a `Get`, and the histories do not change otherwise.

**The latch.** `OpenMeansCounted` (the count is exact) makes a step of `Through` under
`count <= 0` a legal `Pass`; `NobodyLeftAsleep` needs that a waiter about to sleep saw
the latch closed and that nobody decremented in between (`SleepsWhenClosed`, from
exclusion). `GateSteps` states the effect of each step on arrivals and passages once; the
invariant and the refinement both cite it.

**The weak observable.** `CountsAreExact` is inductive with the mutex and with what the iterator of a pass
points at (`IteratorIsValid`); that `update()` finds a living Foo is a corollary of it. The vector
takes more: `EntriesAreDistinct` (a Foo is pushed once), `LiveIsListed`, which only the
step that erases could break, and there the entry is dead, and `PassIsOnTrack`: while a pass runs,
what lies at the iterator and beyond is the end of the vector as the pass found it, shifted by the
entries it erased, and the Foos it updated are the entries before the iterator. `PassExact`
is that statement at the end of the pass. `PassIsExact` compares the vector with
its beginning by positions, with no filtered sequence, so that no induction over sequences is needed.

**The factory.** `RefsAreExact`: the count is the global plus, in demoFour, one per
thread with a Stock. When it reaches zero nobody holds a Stock and, by `GlobalIsNeeded`, nobody is
in `get()`; so nobody is in the factory or will call it (`DestroyedMeansUnused`, from which the other
theorems follow). In demoThree the same holds because its `main` keeps the global longest, which
is a guard of the model taken from that `main`.

**The poll server.** `NeverBlocksInRead` is the hard one: `revents` is garbage for slots that
were never polled and stale for slots that were filled again. `ReadyIsExact` says what
saves the loop: there is a set `ready` of slots from `i` on, of exactly `nready`
members, all readable with `revents` set, and every *other* slot from `i` on that looks ready lies
beyond them all. So the loop meets the members first and `--nready <= 0` ends it before it reaches
another. The newcomer of `accept` (`NewcomerWaits`) is either beyond `maxi`, hence beyond `ready`, or
in a slot that was free when `poll` looked, whose `revents` poll had cleared; `ready` is never empty inside the loop,
which also bounds `i` by `maxi`. What was readable stays so, since only
the server takes data away and a link never comes back to open (`StillToServe`); a served client
leaves the set (`OneServed`). `TableIsExact` needs that no connection waits twice
(`QueueIsDistinct`), that a free slot is the first one (`MinIsFirst`: the `Min` of a nonempty finite set of
integers is its least member, by well-founded induction on its subsets) and that `maxi` is raised to it
(`MaxiIsRaised`). `EchoIsExact` needs that a client without a link sent nothing and that only a rude
one goes away (`LinksAreKnown`).

**The forking server.** `NoZombieForgotten` is inductive with `ResetForGood` (once System V has reset
the handler it never runs again). `NoLeakWhenRestarted` needs `OpenAtStatement`, which holds
as long as errno is not EINTR, and `InterruptedBySystemV`: EINTR comes from System V only.
`FailedByAbort` shows that nothing else makes `accept` fail.

**The echo session.** `InputInOrder` is inductive with the types: a line moves from the head of
one buffer to the end of the next. `EchoInOrder` is not. `Returned` is what was shown, what is in
`recvline` and what comes down, without the old bytes; while the link is up it is followed by
what the server has in hand and by what goes up to it, and all of it is what was sent
(`NothingLost`); after that it stays a prefix of what was sent, since nothing is added to it. The
step that is hard is `Write` of `server.c`, which sends `strlen(buf)` bytes: `BufIsRead` says that
the buffer begins with the `n` pieces that were read and holds only zero and old bytes behind
them, so that no zero byte cuts them short and what is added leaves `Returned` as it would be with
them alone (`ReplyIsBuf`). `WholeLines` adds that `server_new.c` sends no old byte, so that each
line ends where one was sent, `recvline` holds at most the first half of one, and `client.c` shows
whole lines. What is shown after a reset is what lies in `recvline` behind the piece that was
read. `HeldWasShown` says that the text `printf` finds there, from any place on, was shown before
(`Occurs`): a line that is written over the beginning of `recvline` is shown itself and ends with a zero
byte (`FreshOccurs`), and behind it the old text is as it was (`SameText`). `RepeatedLast`
says that after that nothing more is shown. `Fresh` selects the pieces by recursion; that it carries a concatenation to one
(`FreshCat`) is an induction over sequences. The library's induction theorems take an operator as a parameter,
which the provers cannot instantiate; `EveryNat` and `EverySequence` state induction for a *set*
instead, from the library's theorem that `<` is well founded on `Nat`, and are used wherever it is
needed. `Cat` is concatenation with its definition hidden, so that only its laws are used.

**Descriptor passing.** The ends of the socketpair are followed per process (`ClosedByParent`,
`ClosedByChild`) and the file through its three holders (`FileIsKnown`, `MessageIsKept`). A
child that was waited for is gone and its status is what the parent has
(`ChildIsKnown`), so that a status of 0 means that the message is in flight.

**Only model-checked**, and why:

* all liveness (`ImplementsFifoQueue` and `ImplementsGate` beyond their safety,
  `FactoryIsReclaimed`, `EveryClientIsServed`, `EveryChildIsReaped`, `EveryLineComesBack`,
  `EverySignalIsTaken`, `KeepsPinging`, `BothEnd`): fairness is defined with `ENABLED`, which the prover does not
  handle. Of two of them the safety part is proved: `MapIsEmptyAtTheEnd` with `DestroyedOnce` for
  `FactoryIsReclaimed`, `EndsForCause` for the exceptions of `EveryClientIsServed`;
* `SignalDemos`: ten fixed programs and four signals, so that its only parameter is how often a
  signal is sent, of which the second time already meets a pending, a running and a blocked
  first one;
* `Ping`: its arithmetic (the words of the checksum, the microseconds of the clock) is a parameter only
  to make the run small. `RttIsElapsed` would need every message in flight to be described by its
  `IInv`; `ChecksumsAreValid` rests on what a fold of words with its carries yields, which is
  an induction over the words and their division by `B`;
* the two runs that expect a violation refute their property and have nothing to prove.

## 5. Plan

Done: inventory, every component of 1.1 modelled and checked, the proofs of section 4. What is left to
model is under 1.2, with the reason.

Theorems worth proving next:

1. `SignalDemos`: `MaskIsRestored`, by a case per program: the stack of saved masks starts
   with the mask of main.
2. `Ping`: `RttIsElapsed`, and `ChecksumsAreValid` by an induction of the kind of `EverySequence`.

Abstract specifications worth stating: an echo service (what is sent comes back in order, per
connection) that `PollServer` implements, its `EchoIsExact` being the mapping's invariant, and a weak set
of observers that `SafeObservable` implements.
