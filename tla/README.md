# Verification of the stateful parts of ecosSWtools

The repository is the GNU tool chain that was shipped for eCos: about 12,300
files of GCC, binutils, BFD, GDB, the simulators, make, newlib, Tcl/Tk, Expect, DejaGnu
and the usual GNU utilities.  Most of it transforms text and tables sequentially.
State, failure and concurrency meet in a few places, and these are modelled: GDB's
remote debugging (packets over a serial line, memory transfers, the cache on top of
them, sessions with ^C and threads), the event queue that drives the simulators, the
cache of open files under BFD, the linker's symbol resolution, and make's job
control.

## Inventory

| Component | State | Operations | What makes it correct |
|---|---|---|---|
| Remote data cache (`gdb/dcache.c`) | blocks with a line address and a state per byte, valid and free lists, `remote_dcache`, `cache_has_stuff` | peek, poke, fill, evict, write back, flush, direct transfer | reads see the last write; clean bytes equal memory; no block lost or listed twice; success means stored |
| Packet layer (`gdb/remote.c`, `gdbserver/remote-utils.c`) | position in `putpkt`/`getpkt`, retry counters, characters on the line, `readchar`'s static buffer | send, wait for `+`, gobble, read a frame, retry, give up | a reply belongs to its command; a command runs once, and with faults once more for each at most; calls return; both sides resynchronise |
| Memory transfers (`gdb/remote.c`) | position in the transfer, `remote_register_buf_size`, `remote_binary_download`, `remote_binary_length` | `remote_write_bytes`, `remote_read_bytes`, opening a connection | bytes land at their own addresses; returned counts are true; packets fit the stub; transfers return |
| Sessions (`gdb/remote.c`, `gdbserver/server.c`, `low-lynx.c`) | `general_thread`, `cont_thread`, `interrupted_already`; the server's own threads, status and registers | connect, resume, wait, ^C, threads, registers, kill, run, detach | replies stay in step; a resume runs once; ^C reaches the target or the user; the thread GDB believes selected is the server's |
| Simulator events (`sim/common/sim-events.c` and its clients) | queue with relative times, `time_of_event`, `time_from_event`, watch points, held asynchronous events, free list, the stepper | schedule, deschedule, tick, slip, process, signals, step, stop | events fire once, in order, on time, whatever handlers do to the lists; a stop halts |
| BFD file cache (`bfd/cache.c`, `libbfd.c`, `opncls.c`) | ring of open files, `open_files`, `where` and `iostream` of a BFD | open, look up, read, write, seek, close one, reopen | the limit holds; a file that was closed behind its user's back is where it was |
| Linker symbols (`bfd/linker.c`, `ld/ldlang.c`) | hash entry per name, list of undefined symbols with its tail, archive passes | add one symbol, search an archive, search a group | what a name resolves to, reported errors and included members are what the inputs say |
| make's jobs (`make/job.c`, `remake.c`, `commands.c`, `main.c`) | chain of children, waiting jobs, `job_slots_used`, `dead_children`, `good_stdin_used`, command state and status of files | update, start, postpone, reap, die, fatal signal | prerequisites first; limits kept; status right; every child waited for; make ends |
| Target stack (`gdb/target.c`), mmalloc, Tcl's event loop, gas relaxation | see the plan and PROJECT.json | | |
| GCC, Cygwin, the other programs | not modelled: see PROJECT.json | | |

How the modelled components interact: `remote_xfer_memory` calls
`dcache_xfer_memory`, whose callbacks `read_memory` and `write_memory` are
`remote_read_bytes` and `remote_write_bytes`; each of these sends packets with
`putpkt` and reads the reply with `getpkt`.  An `error()` or a quit anywhere below
leaves all of these frames at once.  `remote_resume` flushes the cache,
`remote_open_1` makes a new one.  Sessions use the same packets: a command is a list of
`putpkt` calls, each followed by a `getpkt`, by a wait for the target to stop, or by
nothing; on the other side gdbserver's loop answers, and while the child runs its SIGIO
handler reads the line.  In the simulator the instruction loop ticks the queue, handlers
of events (stepping, watch points, device timers) change it and may leave by `longjmp`,
and signal handlers add to a separate buffer.  The linker reads its objects and archives
through BFDs, hence through the file cache.  make forks children and learns of their
end through SIGCHLD and `wait`.

What is hard: a callback that fails or never returns halfway through a change of
the cache; a timeout that races a late answer; loops that eat characters meant
for other loops; global variables that survive an abandoned operation or a
reconnection; lists that change under the loop that walks them; handles that outlive what
they name; signals between any two steps; inputs in any order.  `PROJECT.json` lists these hazards at their lines.

## Modules

* `TargetMemory` - what GDB expects of memory: a byte read is the byte last
  written, by GDB or by the program while it runs.  Abstract specification of the cache.
* `DCache` - the data cache.  `blk`, `valid`, `free`, `remote_dcache` and
  `cache_has_stuff` are the fields of the code; `op` is the
  `dcache_xfer_memory` call in progress with its loop positions.  One step is
  one byte of the byte loop, one line of the write-back loop or one byte of a direct
  transfer, because the call can fail or be left between any two.  An address is a
  pair (line, offset), which is what `MASK` and `XFORM` compute.  `dcache_alloc` and
  `dcache_write_line` are sets of outcomes, one for each place a write can fail.  A fill raises
  `immediate_quit` before it gives its block the new address (`dcache.c:340-341`), so that a quit leaves the
  block with the old one or the new one (`FillFails`).
* `RemoteCall` - what the rest of GDB expects of the packet layer: a procedure call.
  Abstract specification of the link.
* `RemoteLink` - GDB's `putpkt`, `getpkt` and `read_frame` against gdbserver's
  `putpkt`, `getpkt` and `readchar`, one character at a time.  `h.pc` and `s.pc` say
  in which loop each side is.  Bodies and checksums are single characters that carry
  the number of the command; neither side looks at the number.  gdbserver's `putpkt`
  reads the line itself while `readchar` has a buffer, so `sbuf` and `h2s` are
  separate.
* `RemoteMemory` - `remote_write_bytes` and `remote_read_bytes`: how a transfer is cut
  into packets, in hex or in escaped binary, with the globals that decide the size
  and the length of a packet.  Bytes are named by their place in the caller's
  buffer, so that a byte in the wrong place shows.  The stub is external: it stores
  what the packet says, may refuse `X`, report an error after storing part, or
  answer a read short.
* `RemoteSession` - GDB's commands on whole packets (the line is reliable here) against
  gdbserver.  `g` is GDB with the packets its command has still to send, the threads it
  believes selected and the retry counters; `s` is gdbserver with its own threads, status
  and registers, whether it is in `getpkt`, `mywait` or waiting for a `+`.  `Interrupt` is the
  signal handler of GDB, `SInput` that of gdbserver.  SIGIO comes when input arrives, not because some is
  there, and gdbserver ignores it until `enable_async_io` (`low-lynx.c:131`), which comes after it has sent the `+`
  (`remote-utils.c:373`) and has resumed the child.  Between the two it is "resumed"; `SEnableIO` notes in `missed` how
  much of the line arrived before and will not be heard of.  In a "calm" world a ^C is sent when gdbserver listens for
  it, with nothing else on the line and one at a time, and reaches it before the target stops by itself, and nobody gives
  up an extended session; in a "racing" world none of this is so.
* `Timeline` - what clients expect of the simulator's events: each is due at an absolute time
  and is handled then, unless it is taken back.  Abstract specification of the queue.
* `SimEvents` - `sim-events.c` with the main loop and its clients (`sim-resume.c`,
  `sim-watch.c`, `hw-events.c`, `sim-stop.c`).  `sim_events_process` runs step by step, since a
  handler may schedule, deschedule or leave by `longjmp`, and a signal may come between
  two steps.  Event structures are numbered and recycled through the free list, as pointers are.
* `SteadyFiles` - what users of BFD expect: a file that stays open and keeps its position.
  Abstract specification of the file cache.
* `BfdCache` - `cache.c` with the calls of `libbfd.c` and `opncls.c` that go through it.  Each call
  is one step, because nothing runs in between; where a system call may fail it has one outcome
  for success and others for failure: a file reopened for update may be lost, or emptied by `FOPEN_WUB` (`cache.c:283-284`),
  a lookup may fail after the stream was opened (`cache.c:345`), a failing `fseek`, `fread`, `fwrite` or
  `fflush` may leave the stream at any place, and `bfd_seek` then sets `where` again.  `astray` has the BFDs whose stream
  such a call has left somewhere that `where` does not tell.  An archive element shares its archive's stream.  `since` is a history
  variable: the BFDs that were used since each one was.
* `LinkSymbols` - the `link_action` table (`link_action`, row and entry type to action), one action of
  the model for each action of the table, over a hash table with the list of undefined
  symbols; then `_bfd_generic_link_add_archive_symbols` element by element with its passes,
  `generic_link_check_archive_element`, and the group loop of `open_input_bfds`.  Any list of names may be given with
  `-u`; elements may be of a format that `bfd_check_format` rejects (`Foreign`); `build_constructors` says whether the
  linker makes sets (it does unless `-r` is given without `-Ur`).
* `MakeJobs` - `stack` holds make's C frames (`update_goal_chain`, `update_file_1`, `new_job`,
  `start_waiting_jobs`, `reap_children`, `die`, the signal handler), `m` its variables, `proc` the
  children, which end at any moment and send SIGCHLD.
* `MCDCache`, `MCRemoteLink`, `MCRemoteMemory`, `MCRemoteSession`, `MCSimEvents`, `MCBfdCache`,
  `MCLinkSymbols`, `MCMakeJobs` - the modules the configurations run.
* `DCacheProofs`, `RemoteLinkProofs`, `RemoteMemoryProofs`, `RemoteSessionProofs`,
  `SimEventsProofs`, `BfdCacheProofs`, `LinkSymbolsProofs`, `MakeJobsProofs` - theorems and their proofs.

Definitions that start with a comment "Mutant of X" are variants of X with a
plausible bug; nothing uses them in the specification.  They show that a property
notices the bug: with X replaced by the mutant TLC finds the property violated.

## Runs

Passing runs:

| Run | Checks | Bounds |
|---|---|---|
| dcache_reliable | `TypeOK`, `OkIsMemory`, `StuffIsNoted`, `OkMeansStored`, refinement `ReadsSeeWrites` | 1 block, 2 lines of 2 bytes, 2 values, transfers of 1 or 2 bytes |
| dcache_faults | `ListsDisjoint`, `DirtyIsMarked`, `OnlyQuitsDuplicate`, `OnlyQuitsLose` with read errors, write errors and quits | 2 blocks, 3 lines of 2 bytes, 1 value |
| link_reliable | refinement `ImplementsCalls` with fairness; no deadlock | 3 command numbers, no faults |
| link_faults | `TypeOK`, `RepeatsAccounted`, `ReplyMatches`, `HostReturns`, `Recovers` | 5 numbers, 3 faults, calls that wait forever and calls that do not |
| memory_transfer | `PacketRight` (`TypeOK`, `PacketFits`, `PacketWhole`), `CountsTrue` (`PrefixStored`, `ReadsRight`), `OnlyOwnBytes`, `TransferReturns` | lengths 1, 9, 20; addresses with 1 to 3 digits and one that wraps; stub with and without `X`; three worlds: stub errors, also abandoned transfers, also lost replies |
| session | `InStep` (`TypeOK`, `InSync`, `OwnReplies`, `ContSynced`), `CalmResumedOnce`, `InterruptStops`, `CommandsEnd` | 2 threads, 2 resumptions, both styles, both worlds, 5 user actions in a racing one |
| sim_queue | `QueueSound` (`TypeOK`, `StructsConserved`, `NothingLost`, `ClockFollowsQueue`, `WorkIsFlagged`, `AssertsHold`), `Punctual` (`NothingOverdue`, `OnTime`), `StepsOnce`, `StopHalts`, refinement `KeepsTheAgenda` | 1 watch point, 1 timer, time up to 2, ticks of 1 and 2, 2 signals, buffer of 1, 2 client calls |
| bfd_files | `RingSound` (`TypeOK`, `RingIsRecency`, `WithinLimit`), `WhereRight`, refinement `FilesStaySteady` | 1 written file, 1 descriptor, 1 archive with an element; 1 file open at a time; system calls that succeed, and ones that may fail with at most 2 BFDs and the element at a time |
| make_jobs | `JobsSound` (`TypeOK`, `ChainRight`, `StdinShared`, `SlotLimit`), `MadeRight` (`DepsMadeFirst`, `StatusRight`), `AllReapedKeepGoing`, `Ends`; no deadlock | goals t and c, t depends on a and b, up to 2 command lines, no limit, 1 or 2 slots, with and without `-k`, a load limit and failing forks, 1 fatal signal |
| link_symbols | `ListSound` (`TypeOK`, `UndefsListed`, `ReferencePushed`), `ResolvedRight`, `Reported` (`MultipleReported`, `WarningIssued`), `SearchComplete`, `LinkEnds` | 11 symbols over 2 names with every row of the table, 1 name that may be given with `-u`, 3 objects, 2 searches of 2 archives, 1 element of another format |

An invariant with names in parentheses is their conjunction; PROJECT.json lists a mutant for each
of the parts.

The properties of `memory_transfer` and of the other runs with worlds say in their premises
in which world they are claimed.

Runs that show a disagreement between the code and what its comments or its manual
say; the findings in PROJECT.json quote the lines:

| Run | What happens |
|---|---|
| session_thread | a stop reply names a thread; GDB takes it for the thread selected at the server, and the next `g` returns the registers of another one |
| make_exit | `die` waits for the children, a second one fails, and make exits with a third still running |

Other constants show more of the same kind, which is not kept as runs.

Remote debugging:

* with `ReadErrors` or `Quits` an interrupted line fill leaves a valid block with another line's
  clean bytes (`OkIsMemory` fails; `dcache.c:339` moves the block before it is filled, where the
  comment at `dcache.c:277-280` says that this "prevents errors from creeping in");
* with `WriteErrors` the cache reports a refused write as done (`OkMeansStored` fails;
  `dcache.c:490` ignores what `dcache_writeback` returns);
* with `ReadErrors` a failed transfer leaves a filled cache unmarked (`StuffIsNoted` fails;
  `dcache.c:487` returns before `cache_has_stuff` is set), and switching the cache off and
  on brings old data back;
* a quit between the two lines `dcache.c:340` and `341`, which raise `immediate_quit` and give the block its new address, leaves a
  valid block with the address it had before it was free, perhaps the line of another one (`OneBlockPerLine` fails with
  `Quits`; `OnlyQuitsDuplicate` says that no other step does it).  A fill that fails returns with `immediate_quit` raised (`dcache.c:350`) until GDB reports the
  error (`top.c:484`); what a ^C does to a transfer that begins before that is not modelled;
* a quit while a line is evicted leaves its block on no list (`EvictQuits`,
  `NoBlockLost` fails), and enough of them end in a null pointer (`AllocNull`);
* one lost `+` makes gdbserver carry out a command twice (`ExecutedOnce` fails with one fault:
  packets have no sequence number), and after four faults it carries out a command that GDB has left
  behind (the second part of `RepeatsAccounted` fails without its premise);
* with `Slow = TRUE` an early timeout, without any fault, shifts replies by one command
  (`ReplyMatches` fails; `remote.c:2572` takes any `+` for its own);
* after its last try GDB's `getpkt` sends a `+` for a packet that it never got
  (`GetpktRetry`, `remote.c:2779`);
* `putpkt` has read the `$` of an old packet when it calls `getpkt` to drop it, which then
  skips to the next `$` and drops the `+` of the current command with it
  (`HostAck`, `remote.c:2572`);
* with 28 in `RegSizes` 17 bytes are planned and 15 fit into an `X` packet; the shorter length
  field leaves characters of the longer one in front of the data (`PrefixStored` fails, `remote.c:2194`);
* with "timeouts", without the premises of the properties: a write whose reply never comes counts
  as done (`remote.c:2221` looks only for an `E`), and a lost first `g` reply is recorded as
  a packet size of 7, after which every write loops for ever (`remote.c:1886`);
* with "quits" an abandoned `X` packet leaves its length to the next packet (`remote.c:2210`);
* with two sizes in `RegSizes` a stub gets packets sized for the previous one
  (`PacketFits` fails; `remote_open_1` does not reset `remote_register_buf_size`);
* a transfer that wraps past the last address sends an `M` packet that is one character too long: its size was
  planned with the digits of the last address, `(addr + len) - 1`, which are fewer (25 in `RegSizes`, 9 bytes at address 60 of 64,
  `remote.c:2125`); and with a `remotewritesize` smaller than a header nothing, or less, is left for data
  (`PacketFits` fails for both);
* in a racing world a ^C that arrives after gdbserver's `+` for a resumption and before `enable_async_io`, when SIGIO is
  ignored, is never read, and the program that was to be halted runs on (`TargetWillRespond` fails, which is the comment on
  `remote_stop`, "Target will respond, and send us a packet"; connecting, a continue and one ^C are enough).  Only more input,
  such as the ^C of a user who lets GDB wait on and tries again, makes gdbserver look at the line;
* also there, a ^C that crosses the stop reply is taken for a refusal by gdbserver's `putpkt`,
  which sends the stop reply again; GDB acknowledges it as an answer to its next `c`, which is
  then carried out twice (`ResumedOnce` fails with four user actions); with five, a reply is taken for
  another command's (`OwnReplies` would fail without its premise);
* the selected thread may be gone when gdbserver fetches registers; the `longjmp` in the back end
  skips the reply and GDB waits for ever (`InterruptStops` is about sessions whose threads are
  alive, `Fetchable` and `ThreadsUsable`);
* the help text of `set remotecache` says "By default, this option is on"
  (`dcache.c:550`), while `remote_dcache` starts as 0 (`dcache.c:168`); the protocol description
  in `remote.c` gives `OK` as the reply to `D`, gdbserver sends an empty one.

Simulator:

* with `StaleCalls` an event is made while `engine->stepper` still points to the handled one,
  whose structure it gets; `sim_resume` deschedules it in place of the old step
  (`NothingLost` fails, `sim-resume.c:48-53`);
* with `PeriodicPC` a periodic watch point on the pc is put back and found again in the same
  round, for ever (`WatchedOnce` fails; the comment at `sim-events.c:1033` says "processed only
  once per cycle");
* with a tick larger than `POLL_RATE` the polling event is rescheduled into the past and the
  round never ends; a slip past a due event makes the assertion in `sim_events_deschedule` fail;
  the buffer of held events aborts the simulator when it is full (`aborted`);
* `handle_watchpoint` reads `point->interrupt_nr` after the point was freed; the model takes any
  outcome.

File cache:

* in a failing world an `fclose` that fails for the victim is reported by the call that opened
  another file (`CloseReported` fails), and a `bfd_cache_init` that fails leaves the stream set
  in a BFD that is not in the ring (`CountRight` fails, `cache.c:203-216`).  Under a lookup that stream
  is moreover not at the BFD's place, since `bfd_cache_lookup_worker` returns NULL without the `fseek`; what follows is
  not modelled (`crashed`);
* `bfd_seek` does nothing when `where` is already the place asked for, which its comment calls "sort of an `assert'" that
  `where` is correct.  It is not (`WhereAsserted` fails) after a `fread`, `fwrite` or `fflush` that failed and moved the
  stream, nor when `bfd_stat` goes on with a stream that the failing `fseek` of `cache.c:345` has left at the
  start.  `WhereRight` says that there is no other way, and that the failed `fseek` of `bfd_seek` itself is not one;
* a file that was written and evicted, and that cannot be opened for update, is opened with `FOPEN_WUB`, which empties it
  (`cache.c:283-284`); the bytes that were written are gone and `bfd_close` succeeds (`CloseReported` fails);
* descriptors that their user makes cacheable let more than `BFD_CACHE_MAX_OPEN` files be open, and the excess stays after
  they are closed, since `bfd_cache_init` closes at most one file for each that it opens (limit 1, open two
  descriptors and a file, make the descriptors cacheable, open another file, close the descriptors: two
  are open).  `WithinLimit` therefore allows one file more than there are descriptors;
* with `FdOffsets = {0, 1}` a descriptor that is not at its start gives a wrong `where`
  (`WhereRight` fails, `bfd_fdopenr`).

make:

* with a load limit and `-j N`, `start_waiting_jobs` starts jobs without looking at `job_slots`, and
  since `new_job` waits only while the count equals the limit (`job.c:1102`), the limit is
  passed for good (`SlotLimit` is about runs without a load limit);
* a failed `fork` leaves `good_stdin_used` set, so that no later child gets standard input;
* a fatal signal between `wait` and the removal of a child makes make wait for a child that is
  gone, and it exits with status 2 instead of by the signal.

Linker:

* a weak undefined symbol that becomes common is not put on the list (`CommonsListed` fails;
  `bfdlink.h` says that common symbols are).  A strong reference that follows is not marked then, and once the symbol
  is defined a warning for it is kept instead of issued, which is why `WarningIssued` leaves such symbols out (`Unlisted`); the proof has shown that a common
  definition of another symbol does the same when that one is an indirect symbol for it;
* the comment on the table says that a common symbol and an indirect one of the same name are
  "treated as a multiple definition error", the table has `REFC` and `CIND` there;
* a loop of indirect symbols makes `_bfd_generic_link_add_one_symbol` loop for ever; a common
  symbol found in an archive for a name given by `-u` includes the element without adding its
  symbols.

Why the bounds are enough.  *Cache*: eviction needs more lines than blocks, partial
lines need two bytes, the lists need two blocks to be more than one element long;
its safety properties are also proved for every size.  One value suffices for the
list properties, which do not look at data; `VIEW` leaves the history `io` out of their states, which only the
refinement looks at.  *Link*: a command number may be confused
with another only while packets of that command are still on the line; five numbers
outlast the packets that three faults leave behind.  `ReplyMatches` and the second part of `RepeatsAccounted` are
statements about few faults: with four faults on a fast line, or with none on a slow one,
they no longer hold, since the protocol has no sequence
numbers.  `MaxQueue` only bounds how far GDB may run ahead of a slow server.
*Memory*: 20 bytes make two-digit lengths and several packets in either format; the
stub's size 24 leaves room for 13 characters of data, so that escapes fill a packet
early.
`PBUFSIZ` is 60 instead of 400 and keeps its relation to the size of the
registers.  Numbers are written in base 16 as in the code.  What is read, stored and returned is also
proved for every size.
*Sessions*: two threads are what a mix-up needs; two resumptions and five user actions (of connect,
continue, ^C, answer, thread, registers, kill, run, detach) let an answer of one command
meet the next; retry limits of 1 and 2 run out as the code's 3 does.  *Simulator*: time 2 with ticks of 1 and 2 lets an
event fall inside and at the end of a round and lets the polling event (rate 2) be
rescheduled; a buffer of one and two signals fill it.  `MaxTime` and `MaxCalls` end a run.
*Files*: with one open file allowed every second call evicts, and descriptors, which may not be closed, make the ring
longer than the limit; a failure changes one file and perhaps the one it evicts, hence two at a time in a failing world (the constraint `Explored`); one byte of size has a start, an
end and positions that differ; the element moves the position of its archive.  *make*: the two prerequisites and the
second goal give three children at once, the most that die's loop and the limits need; the invariants are
also proved for all targets and dependencies.  *Linker*: every row of the
table meets every state of a name; a second name is the target of indirections, warnings
and archive members; two searches make a group and a list that is searched again.  Several `-u` names and linkers
without sets are covered by the proofs.

Where a configuration does not check for deadlock: the cache may stop in the crash
of `AllocNull`; in link_faults a lost stop reply leaves GDB in `getpkt(forever)` and
gdbserver in its `putpkt`, each waiting for the other; in session, sim_queue, bfd_files and
link_symbols the user, the clients or the command line have nothing more to say.  make_jobs
checks for deadlock.

## Fairness

`RemoteLink!FairSpec` is weak fairness of GDB's steps (a process that computes or waits
in `readchar` with a timeout) and of gdbserver's; it includes that a child that was
resumed stops some time.  `BusySpec` adds that the user goes on giving commands, which
only `Recovers` needs; that property is about a GDB that is not left waiting for ever for a
stop reply that was lost.  Nothing is assumed of the line, which simply runs out of faults.
With `Slow = FALSE` a timeout fires only when nothing more can come, which is what
`remote_timeout` is chosen for; `Slow = TRUE` drops that.
`RemoteMemory!FairSpec` is weak fairness of the transfer and of the stub's answers.
`RemoteSession!FairSpec` is weak fairness of GDB's steps, of gdbserver's reading, of the step that enables SIGIO, of the signal
handler for input that arrives after that (`SInput` is not enabled for what was missed), and of the wait once the child has
the interrupt; a child that was not interrupted need never stop.  `SimEvents!FairSpec` is weak fairness of the main loop until the simulator
is aborted; nothing is assumed of the user, of devices or of signals.  `MakeJobs!FairSpec` is weak
fairness of make and of the end of each child, which is what make waits for.
`LinkSymbols!FairSpec` is weak fairness of the linker's own steps.

## Proofs

`DCacheProofs` (for every number and size of blocks and lines, every address space and
transfer length):

* `TypeCorrect`, `ListsStayDisjoint` and `DirtyStaysMarked` hold
  whatever fails, and so does `LinesStayUnique` (`OnlyQuitsDuplicate`), which excepts
  the step that leaves a call through a quit (see above) and says nothing while a line has two blocks after one.  Type correctness needs that a direct transfer always has a byte
  left (`TypeInv`).  The three structural invariants are proved together
  (`StructInv`): that a new block does not duplicate a line needs that it was on no
  valid position, which is list disjointness.
* `CacheIsCoherent` (`OkIsMemory`) and `FilledCacheIsNoted` (`StuffIsNoted`) assume
  `~ReadErrors` and `~Quits`; writes may fail.  TLC shows that the
  assumptions are needed (see above).  The inductive invariant `CoherenceInv` adds that
  the cache is empty while a direct transfer runs (`DirectEmpty`), because a direct
  write would otherwise make a clean byte wrong, and that a filled cache is marked or
  a cached transfer is under way (`FilledIsNoted`), from which the first follows.  The
  actions are sorted into steps that keep the cache, flush it, allocate a block or lose
  one, and each kind preserves the invariant.

Also in `DCacheProofs` (for the same sizes):

* `BlocksStayListed` (`OnlyQuitsLose`): reads and writes may fail at any byte, and while all are
  listed, no step but one that leaves a call through a quit takes one off both lists.  Without quits `dcache_alloc` therefore finds one (`AllocNeverNull`).
* `SuccessMeansStored` (`OkMeansStored`) assumes `~WriteErrors` and `~Quits`.  Its invariant
  `StoredInv` adds to the structure that a block with dirty bytes is one that the call in
  progress has still to write back (`DirtyIsPending`); without it a dirty byte from an earlier call
  could not be excluded when a later one returns.
* `CacheIsInvisible` is the refinement of `TargetMemory` (`ReadsSeeWrites`), under `~ReadErrors`,
  `~WriteErrors` and `~Quits`.  The memory that GDB sees is the dirty bytes over the target's; each
  step of the cache reads or writes one byte of it, lets the target run, or leaves it as it is.
  The invariant `TransparentInv` is coherence with `DirtyIsPending`: a flush or a run of the program
  would otherwise change what GDB sees.

`RemoteLinkProofs` (for any number of tries and timeouts):

* `LinkTypeCorrect` (`TypeOK`) holds for any number of faults, on a fast or slow line.
  The inductive invariant adds that gdbserver carries out only bodies, on which the type of the line rests, since replies
  are made from them.
* `LinkImplementsCalls` (the safety part of `ImplementsCalls`), `RepliesMatch` (`ReplyMatches`) and
  `CommandsRunOnce` (`ExecutedOnce`) assume `MaxFaults = 0` and `~Slow`; TLC shows that each of
  the two is needed (see above).  The invariant `Turns` lists what can be on the line together:
  nothing, a command going to gdbserver with its `+` coming back, or a reply coming with its `+`
  going back.  Both sides move only in their turn, and each step of a turn is a step of
  `RemoteCall` or a stutter.

`RemoteMemoryProofs` (for every packet size, address, length and set of escaped bytes):

* `ReadsAreRight` (`ReadsRight`) and `PacketsAreWhole` (`PacketWhole`) have no other premise than the
  ones the properties state.  The invariant `ReadInv` says that the position, the rest and the
  address of a transfer move together modulo the address mask (`Progress`), that the packet under way is the next
  one, that `remote_binary_length` is -1 unless an `X` packet is under way (`LengthReset`) and that the buffer holds
  consecutive bytes (`Reading`).
* `StoredBytesAreOwn` (`OnlyOwnBytes`) and `CountsAreTrue` (`CountsTrue`) are about behaviours in which the
  length field of an `X` packet never loses a digit (`[]LengthKept`).  This premise cannot be
  dropped: when escapes leave fewer bytes than planned and the shorter count has fewer digits,
  the code sends characters of the old field as data (`remote.c:2194`, see above).  It holds in every state of
  memory_transfer, whose packet size does not get there.  `WriteInv` adds what the stub has stored at each point of
  the protocol (`Writing`), including that it has stored nothing while it has not yet refused `X`.
* `PacketsFit` (`PacketRight`, with it the types and `PacketFits`) is about stubs and settings with `SizesSuffice`: one size of
  the stub's registers for all connections, register and write sizes with room for a header, and no transfer past the last address.
  TLC shows that each is needed (see above).  A packet is planned with the digits of the transfer's last address and of
  its whole length and is made with its own, which are not more: `Planned` says so of the plan and `SizeInv` adds it to
  `ReadInv`, with the sizes that the connection has recorded (`Connected`, `Bounded`).  Escapes do not break it, since the loop
  that writes them stops one character before the plan's end.

`RemoteSessionProofs` (for any threads, retry limits and number of resumptions, with no premise but the ones that the
properties state): `SessionsInStep` (`InStep`) and `ResumedAsTold` (`CalmResumedOnce`).  The types hold in every world (`TypeInv`).
For a calm one the invariant `Session` lists the phases that the current packet of GDB can be in, each with all that is on the line in
both directions and where both programs are: none (`AtPrompt`), `OnItsWay` to a gdbserver that reads or that first gets
the `+` for its last reply, `Answered`, `Obeyed` without an answer, `Unanswered` when that was an `H` for a dead thread,
and `Running`, from the `+` for the `c` on: while gdbserver is "resumed" and cannot hear a ^C, too.  What GDB has still to send decides what happens next, so the invariant also says that these packets suit the session
(`Suits`: `c` and `!` come last, what has no answer in a plain session is sent only in an extended one), that GDB has counted the
resumption that is among them (`Counted`), and that both sides have the same `cont_thread` unless an `Hc` is among them
(`ContOK`).  `StatusOK` is needed because gdbserver exits after it has reported that its child has: nothing but the exit may have
been the reply then, or GDB would go on to send to a server that is gone.  Every lemma about an action says from which phase to which it
leads; the retries, the dropping of old packets and the end of the connection are shown not to occur in a calm world (`CalmNever`).
The mix-ups of a racing world are above.

`SimEventsProofs` (for any number of watch points, timers, signals, delays and ticks to an instruction):

* `StructuresKept` (`TypeOK` and `StructsConserved`) holds whatever clients do.  The invariant `ListsInv` has the lists (`Whole`: each
  structure is once in one of them, the queue is in the order of time and `time_of_event` is that of its first
  event), what the owners of events point to (`Owned`) and what is known while a handler runs (`Calling`).
* `QueueStaysSound` (`QueueSound`), `EventsArePunctual` (`Punctual`) and `StepIsOneInstruction` (`StepsOnce`) assume
  `~StaleCalls`; without it they are false (see above).  `QueueInv` adds where a round is when it is left by `longjmp` and
  taken up again (`Rounds`), that the polling event, the events of timers and watch points and the stepper are in
  a list except while their handlers run (`PollKept`, `OwnersKept`, `StepperKept`; the first keeps the queue from being empty, which
  the clock needs), that what is overdue is so because of a slip and will be seen (`InTime`), and what a step has still to do
  (`Counted`).
* `QueueIsAnAgenda` (`KeepsTheAgenda`) is the refinement of `Timeline`.  A tick, a slip and the end of a round advance time, which passes
  no event that is not overdue by a slip; taking the head of the queue fires it; everything else, schedule, deschedule and
  signals included, edits the agenda while time stands still.

`MakeJobsProofs` (for every finite set of targets, all dependencies, options, command lines and orders in which
processes end and signals come): `ChildrenAccounted` (`JobsSound`) and `NothingLeftBehind`
(`AllReapedKeepGoing`).  The invariant `JobsInv` has

* `StackOK`, which calls can be active together: only the innermost one has a child in its hands, `start_waiting_jobs`
  has called nothing but `reap_children`, and files are updated from those that need them down.  The
  depth of a file in the dependencies gives the last: a file whose update is
  in progress is not started a second time by a call above it;
* `ChainOK`, the chain of children against the processes, with the child that `reap_children` has waited
  for and not yet removed as the only exception;
* `ShareOK`, the slots and the one good standard input, whose holder may be that same child;
* `ExitOK`, what is left when make ends.

Also in `MakeJobsProofs`: `MadeInOrder` (`MadeRight`: no command runs before everything its target depends on was
made; make exits with 0 only when everything was made and with 2 only when a command was lost or a signal
came).  `StatusInv` adds to `JobsInv` what each active call knows: `update_file_1` that the dependencies it
has passed are done unless it has noted one that runs or failed, `new_job` that all are, `update_goal_chain` and `die`
that the goals that were dropped are done.  Calls are interrupted by others that change make's data; what they know
stays true because a file that was made is not touched again (`Later`).  That all files were
made when the goals were follows from the least depth at which one was not.

`BfdCacheProofs` (for any finite number of files, any limit, any archives and elements, and whatever the system
refuses):

* `CacheTypeCorrect` (`TypeOK`): the links and the count stay what `cache.c` means them to be, and in a sound world no
  call ends up with a NULL stream.
* `RingIsSound` (`RingSound`: also the order of the ring, and the limit).  `Tidy` says of a ring that `since` puts its BFDs in a total order, in
  which `next` leads from each to the one used before it and from the last to the first (`Ordered`), that files opened by
  name can be closed (`Named`), and that the count is within the limit (`Limited`).  Every function of `cache.c` either keeps it
  or puts one BFD in front; `close_one`, which goes backwards, meets the BFDs from the one used longest ago, so that it misses
  none that can be closed.
* `FilesCounted` (`CountRight`, until a `bfd_cache_init` has failed under a lookup): `open_files` is the number of
  BFDs with a stream.
* `PlacesRight` (`WhereRight`), which `bfd_seek` relies on when it does nothing, and `CacheIsSteady`
  (`FilesStaySteady`), the refinement of `SteadyFiles`.  Both assume that descriptors are given standing at their
  start (`FdOffsets \subseteq {0}`); TLC shows that this is needed (see above).  `PlacesRight` is proved for failing
  worlds with every failure of the model: each one either leaves `where` at the stream's place, sets it there again, or puts the BFD
  into `astray`, which only a successful or failed `fseek` of `bfd_seek`, a `bfd_tell` or the end of the stream takes it out of.

  The functions of `cache.c` are described first, each by what it does to the ring (`Ring`: the BFDs with a stream
  are linked with each other in both directions, `bfd_last_cache` is one of them, `open_files` their number) and to the
  records (`Evicted`: a stream that has gone left its position in `where`, and its output on the disk).
  That `close_one` finds its victim in the ring is an induction on the steps it goes back.  The
  invariant `FilesInv` is about the state between two calls: the ring is whole unless the program has crashed, only
  BFDs that exist have a stream, only those with a stream have output in a buffer, an archive outlives its
  elements, and in a sound world a file that is being written was created (`Once`), since
  opening it again would otherwise empty it.  In the refinement the place of a BFD is its stream's when it has one and `where`
  when it has none, which eviction and reopening do not change.

`LinkSymbolsProofs` (for any finite set of names, any list of them given with `-u`, any symbols in objects and archives, any elements of
other formats, linkers that make sets or do not, and any number of objects and searches): `ListIsSound` (`ListSound`), `ResolvedAsSaid` (`ResolvedRight`), `AllReported` (`Reported`) and
`SearchIsComplete` (`SearchComplete`), with no premise but the ones that the properties state.  The invariant `LinkInv` has

* `StrongTypes`, that links and the pointer of an addition lead to entries and wrappers that exist, and `CurOK`, that the
  symbol being added is the last that was said, or one it leads to;
* `ListOK`, the list: there is one sequence of symbols that the links make from the head to the tail, the search stands
  on it, and a symbol that is marked by its link but not on the list is defined or indirect (`Placed`).  The last is what
  keeps a symbol from being put on the list twice, and why the search may take off what is defined;
* `PushOK`, that there is a set of symbols which has all that strong references were made to, is closed under indirection and
  has nothing unknown or weak in it, up to the one reference on its way.  It replaces an induction on the chain of
  indirect symbols, which may grow at both ends;
* `PlainOK`, that an entry is right for what was said of it up to the symbol that is being added (`Right`, `Clash`);
* `WarnOK`, that a reference to a symbol without a wrapper has left a mark, and that one to a symbol with wrappers has
  issued the warning or is about to;
* `SearchOK`: an element checked in this pass has nothing that is looked for, until an element is included, which begins the
  next pass (`CheckedOK`); what the search has gone past, and what it has looked at for the symbol it is at, is settled
  (`PassedOK`, `AtOK`); so are the earlier archives of a group as long as the tail of the list is the one from the beginning
  of the round, since only a symbol that was unknown or weak joins, at the tail (`GroupOK`).

The list is reasoned about through sequences without repetitions (`Chain`): the links determine the sequence, putting a symbol after its
tail and taking one out that is not the tail change it as expected, and the symbols up to the place of the search stay.

The assumptions on constants are `SizeAssumption`, `ByteAssumption` and `FlagAssumption` of
`DCache`, `LinkAssumption` of `RemoteLink`, `MemoryAssumption` of `RemoteMemory` (the address mask divides the
address space: both are powers of two), `SessionAssumption` of `RemoteSession`, `SimAssumption` of `SimEvents`,
`MakeJobsAssumption` of `MakeJobs` (dependencies have no
cycle, because `update_file_1` drops circular ones with a message, and every file is needed by a goal),
`LinkSymbolsAssumption` of `LinkSymbols` (there are finitely many names, and a pointer that is NULL is none of them) and
`BfdCacheAssumption` of `BfdCache` (there are finitely many BFDs, and archives with elements are read, never written:
`_bfd_new_bfd_contained_in` is called by the code that reads archives); TLC evaluates them in every run.

Only model-checked:

* liveness (`HostReturns`, `Recovers`, `TransferReturns`, `InterruptStops`, `CommandsEnd`, `StopHalts`, `Ends`,
  `LinkEnds` and the fairness of `ImplementsCalls`), which is out of the prover's reach;
* `ReplyMatches` and `RepeatsAccounted` with faults: the one and the second part of the other are true for three faults and
  false for four, so their proofs would have to count them; the first part of `RepeatsAccounted` would need a count
  of the packets that each fault leaves on the line.

## What is abstracted

* Packet bodies and checksums are one character; a checksum tells any two bodies
  apart.  (A real one has 8 bits; damage that keeps the sum is not modelled.)
* A garbled character becomes one that means nothing; it may still read as a hex digit.
* Write errors, the watchdog, run-length encoding and buffer overruns in `read_frame` are left
  out of the link; end of file and ^C are in `RemoteSession`.
* The stub behind `RemoteMemory` answers a request that was cut off without data.
* Reference counts, `info dcache` and debugging output are left out, and so is the time between a fill that failed with
  `immediate_quit` raised and the report of its error.
* `RemoteSession` has no memory or register writes, console output or thread list queries; the
  program is its set of live threads and where it stopped.
* In `SimEvents` a watch point looks at whether its condition holds, not at the value; an instruction
  is a tick.
* A file of `BfdCache` is its length and positions; contents, windows and in-memory BFDs are left out.
  `ftell` does not fail.
* `LinkSymbols` keeps of a symbol its row, name, value and target; sections, alignment,
  constructors, `--wrap` and notices are left out.
* `MakeJobs` starts from files that all need remaking; times, contents and the text of commands are
  left out, and so are remote jobs, `$(shell)`, `-t`, `-q`, `-n`, double-colon rules, intermediate
  files, `also_make` and the remaking of makefiles.

## Not modelled

PROJECT.json gives the reason for each component.  The bulk of the repository is GCC, the
assembler and disassembler tables, the C library and vendored programs: sequential
transformations of unbounded text and tables, in which there is no interleaving to explore and
whose correctness is a statement about data.  Cygwin has real concurrency, but each of its steps is
a Win32 call whose meaning is not in the repository.

## Plan

Done: `DCache` with `TargetMemory`; `RemoteLink` with `RemoteCall`; `RemoteMemory`; `RemoteSession`;
`SimEvents` with `Timeline`; `BfdCache` with `SteadyFiles`; `LinkSymbols`; `MakeJobs`; theorems about
`DCache` (all its safety properties and its refinement), `RemoteLink` (its safety properties, with
and without faults as far as they hold), `RemoteMemory`, `RemoteSession` in calm worlds, `SimEvents`, `BfdCache`, `LinkSymbols` (all their
safety properties and the refinements) and `MakeJobs`.

Next, in this order:

1. `TargetStack` (`gdb/target.c`): push, unpush and pop with strata, and a connection that fails in
   between.
2. `Mmalloc`: blocks and fragments, if it stays small.
