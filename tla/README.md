# RadiumOS: specifications, model checks and proofs

RadiumOS is a 32-bit kernel for one x86 processor, written in C (`src/src/`) and
Rust (`src/rust_lib/src/`, most of it in one file, `lib.rs`). This directory holds
TLA+ modules translated from that source, the TLC configurations that check them
on small instances, and TLAPS proofs of what should hold for every instance.
Paths and line numbers below are those of the repository; `PROJECT.json` maps each
definition to the lines it stands for.

## 1. The system

There is one stack and no preemption between tasks in the usual sense. The PIT
interrupts at 1000 Hz; `handle_interrupt` (`src/src/scheduler/task.c`) counts the tick
and calls `rust_schedule`, which chooses a task and *calls its body as a function*
from inside the interrupt, with interrupts off. The keyboard task runs the shell, so
a command runs inside that interrupt too. Calls are therefore atomic with respect to
each other except where code turns interrupts back on to wait: the network commands
(`fetch`, rChat) and the picture viewer. Those windows are where interleavings happen.

| Component | State it keeps | Operations | What makes it correct |
|---|---|---|---|
| Task bus (`lib.rs` 12300-12420) | `IPC_QUEUE`, tail, count, overflows | post, receive, drain | nothing waiting is lost or overwritten; refused only when full |
| Scheduler and reaper (`lib.rs` 12430-12890, 13687) | `TASKS`, current slot, tick, counters | create, kill, sleep, tick, reap | one running task, the dead stay dead, no starvation, no leaked slot |
| Interrupt nesting (`task.c`, `fetch/command.rs`, `rchat.rs`, `png.rs`) | the stack, the interrupt flag, two busy flags, one `TCP_CONNECTION` | interrupt, return, guards | a connection is not taken by a nested body; guards match frames |
| Kernel heap (`utility.c`) | block list in an 8 MB pool | malloc, free, realloc | blocks tile the pool; allocations are disjoint and none is lost |
| Fetch transport (`fetch/native.rs`) | connection, unacknowledged chunk, pending bytes, deadline | connect, write, poll, read, drop | a reliable byte stream over a lossy network; every fetch ends |
| rChat (`tui.c`, `rchat.rs`) | servers, contacts, histories, cursor, pending acknowledgement, twice (C and Rust) | select, enrol, add, send, poll, acknowledge | acknowledged only when stored, shown once, both sides agree |
| AVFS (`Avfs.c`, `rm.c`, `ls.c`) | entry table, bitmap, data, current directory | create, save, write, append, truncate, remove, mkdir, cd, rm -r | exact bitmap, no orphan, a call changes only the file it names |
| RSH interpreter (`lib.rs` 14426-17420) | variables, function pool, call depth, control flags | assign, define, call, block statements | flags and frames are restored; blocks nest |
| Card driver (`lib.rs` 440-690) | receive ring and position, transmit descriptors, response buffer | init, send, receive | driver and card agree where the next frame is; no frame lost or replaced |
| Legacy network clients (`lib.rs` 700-2000, 3900-4300, 6730-7560, 8890-9260, 20100-20700) | `TCP_CONNECTION`, `RX_RESPONSE_BUFFER`, `HTTP_RECEIVE_BUFFER`, retry and idle counters | get, chat, Discord, download, http, ntfy, DNS, ping | the answer taken is that of the exchange made; a request not limited by the clock ends |
| Browsers (`lib.rs` 2100-3900, 20560-21200) | request and response handles, parsed elements, lines, links, history, scroll | open, back, follow, scroll, http, register | no handle lost; lines, links and scroll are those of the page asked for |
| Package manager, download (`lib.rs` 9200-9260, 21440-21700) | the index buffer, files | upgrade, get, remove, download | the disk follows the answers |
| Discord client (`lib.rs` 6560-8300) | module table, message cache, rate limit, last message seen | configure, run, poll, reply | table and cache intact; a message is answered once |
| Helios compiler and machine (`helios.rs`) | tokens, tree, code, image, stack, frames, heap | compile, run, eval, fmt, strip, bench, test | a program does what its source says, and ends |
| Text editor, line editor (`text.c`, `keyboard.c`) | buffer, cursor, selection, undo, history | keys | cursor in the buffer, undo restores |
| Games, drawing, sound, CPU and PCI probing | screen, devices | | mostly output |
| C network stack (`src/src/network/`) | queues, connections | | not reached: `netstack_init` and `net_queue_add` have no caller |
| C memory managers (`src/src/memory/`) | bitmaps, page tables | | not reached by the kernel |
| Cryptography (`prp/`, `aegis.rs`, rustls) | keys | pure functions | test vectors |

Components interact by direct calls. The shell calls into everything; rChat's window is
C and its network side is Rust, with the profile list held on both sides; `fetch` and
rChat share the one `TCP_CONNECTION` with the older clients; all of them poll the card's driver; the reaper and the stress tasks post to the bus
which one monitor task drains; commands write through AVFS.

What is hard here: the table changes between two ticks (a kill between choice and
switch), counters of 32 bits wrap after 49 days, a command interrupted in its network
wait has other bodies stacked on top of it, segments and answers are lost or repeated,
an operation fails half way (relocation, recursive removal, acknowledgement, switch of
server), static buffers are shared by recursive calls, and the older clients keep one response buffer and one
connection from request to request. `PROJECT.json` lists each of
these hazards at its line.

## 2. The modules

**Mailbox**, **IpcQueue**. `IpcQueue` has the ring as `ipc_post` and `ipc_recv` leave it. A
message is its number; sender, type, payload and tick are abstracted. `BusSpec` is how
the kernel itself uses the bus (everyone posts to pid 0, `ipc_monitor_task` drains
until empty); `ApiSpec` lets any task receive one message at a time, as the handbook
in `watchdog_diagram` offers. `Mailbox` is the promise: a bounded set, refusing only when
full. `IpcQueue` instantiates it with `waiting` mapped to the messages in unconsumed slots.

**Scheduler**, **MCScheduler**. One variable per field of `Task`, as a function of the
slot. A step of `rust_schedule` is one interrupt: wake, age, charge, choose (two passes,
with affinity and without), switch and run the body. The bodies are of four kinds: one that
leaves the table alone, one that sleeps, the reaper between scans and at a scan. `killed`
and `reaped` are history variables. `MaxTicks` and `MaxPid` bound a run; with `MaxTicks =
TICK_MOD` the tick is unbounded and wraps.

**Nesting**. The stack of entered bodies, the interrupt flag, `BUSY`, `NETWORK_BUSY`,
`FETCH_NETWORK_SILENT` and which frame `TCP_CONNECTION` was last set up for. Task choice is
left open (any task but the current one); Scheduler has it in detail.

**Heap**. The block list as a sequence with header addresses, and for every client the
pointer, the size it asked for and how many of its bytes are intact. First fit, the
split rule, both merges, and `realloc` with the word it reads as the old size.

**ByteStream**, **FetchTcp**. `struct Tcp` with its deadline, chunks, four tries, and the
`poll` that accepts, trims or refuses a segment. The peer and the network are external: what
the client sent stays on the wire, to be taken any number of times or never; anything
the server may ever have sent may arrive at any time, resets and a stray SYN-ACK
included. Sequence numbers and ticks wrap at `WORD`. `ByteStream` is what the caller relies on.

**RChat**, **MCRChat**. Both halves of the client: the C state of `tui.c` (`active`,
`known`, `contacts`, `history`, `ack_pending`) and the Rust profile of `rchat.rs` (`r_active`,
`cursor`, `pending`). A request that fails may have been executed by the server or not.
Enrolment and key verification are one step; the encryption is left out, a message that
does not open is `good = FALSE`.

**FileStore**, **Avfs**, **MCAvfs**. The entry table with parents by index, the bitmap,
the bytes; every call with its refusals (a refused call is a stuttering step); path
normalisation with `.` and `..` from the current directory; `rm -r` one directory entry per
step because its listing is one static array shared by the recursion. `FileStore` is a map
from normalised paths to bytes in which a call changes one file.

**Rsh**, **MCRsh**. The script engine with its native call stack made explicit: one frame per
running `exec_file`, `exec_block`, `exec_if`, loop, `exec_switch`, `call_function` and `exec_line`, and
`ret` for the value being returned. Lines are read where they lie, in a line buffer or in
`FUNC_BODY_POOL`, each time one is executed. A line is a record of its keyword and what is
taken from it; conditions, ranges and maps are free choices. The commands that compute into a
variable are all the line `set`; output and unknown commands are `quiet`. `ScriptLines` is every line there
may be, and `ScriptsAssumption` says which fields a line with each keyword has. `MCRsh` holds the scripts.
`defined` and the frame fields `before` and `body` are history.

**Nic**, **Rtl8139**. The driver of `lib.rs` and the card: the ring with headers and alignment, frames that
run on into the spill area, the driver's `current_packet` and the card's own write position, the transmit
descriptors in turn, the response buffer. A frame is its length. The card is external. `Nic` is what
the stack above assumes: two queues.

**LegacyTcp**. The eight kinds of request that poll the card themselves. They share connection set-up and
differ in their receive loops, limits, retries and in what they make of the answer. What a peer has
sent for any connection may arrive late, repeatedly, in any order or never. A frame is what the loops look
at; the bytes received are a sequence of frames, and `line` is what bytes 9 to 11 of `HTTP_RECEIVE_BUFFER` say, which
`chat_request` takes for a status however little it received. The loops' limits may pass at any moment
(`late`, `quiet`). Most are millions of turns (`turn_limit_passes`); those of the handshake and of `tcp_receive_data` are
ticks (`tick_limit_passes`) and need not pass at all. The initial state is that after one page was fetched, with its answer still in
`HTTP_RECEIVE_BUFFER`.

**Html**, **WebClients**. The parser over tokens of a page, the lines and links RBR makes of the elements
and the height of the graphical page; the handle tables and their three users, RBR's history and
scrolling, the graphical browser's navigation. A request has one of the outcomes it can have in
LegacyTcp.

**Packages**. `rpkg -up`, `-get`, `-rem` and `download` against a disk that may be full at any call.

**Discord**. The module table and what running each kind of module does, the auto-reply loop, the
message cache with what `json_array_get` takes for a message (`ArrayElement`). The service is external; others post at any time and a retried post may leave copies.

**MCNet** puts these together. They are layers of one stack, each modelled over the outcomes of the
layer below; `session` says which one a behaviour exercises, so the state space is the sum of
theirs and not the product.

**HeliosSyntax** (lexer, parser, static checks), **HeliosCode** (code generation, image), **HeliosVm** (the
machine, one instruction per step), **HeliosMeaning** (what a program means, read off its tree: the
reference), **HeliosFmt** (the text `helios fmt` prints), **HeliosShell** (the `helios` commands), **MCHelios** (programs and
the repository's own diagnostic suite). Sources are strings because the lexer is part of what is
checked. Nothing in `lib.rs` names the module `helios`: the file is modelled as it stands.

The theorems are in **SchedulerProofs**, **Rtl8139Proofs**, **FetchTcpProofs**, **RChatProofs**, **RshProofs**
and **AvfsProofs**, each on top of the module it is about, **KernelProofs**, on top of IpcQueue, Nesting and Heap, and
**NetProofs**, on top of WebClients, Packages, Discord and LegacyTcp.

## 3. The runs

All bounds are CONSTANTS given in the configuration named.

| Run | Checks | Bounds, and why they are enough |
|---|---|---|
| `ipc_bus` | the window of waiting messages, the refinement to `Mailbox` | 3 slots, 14 posts: the tail wraps four times at every fill level; 2 refusals |
| `sched_safety` | one running task, no revival, exact table (pids and count), full sleeps, the aging bound | 5 slots, 3 tasks at boot and 2 kinds later, 26 ticks: slots are reused after a reap, the table fills, and the low-priority task passes the aging threshold more than once |
| `sched_turns` | every ready task runs, every zombie is reaped | tick modulus 8 with no bound on ticks, so the counter wraps for ever |
| `heap_safety` | `HeapSound`: tiling, merging, disjointness, ownership | a pool of 16 units and 3 clients: up to five blocks, splits with and without a rest, both merges at once, exhaustion, a request larger than the pool |
| `heap_realloc` (violation) | what the client wrote survives `realloc` | |
| `fetch` | what is acknowledged is held, the refinement to `ByteStream`, termination | 3 bytes each way in chunks of 2, 2 tries, a buffer of 2; initial numbers 13 and 14 of 16, so sequence numbers, acknowledgements and ticks all wrap inside the exchange |
| `nesting_guards` | a fetch keeps its connection; guards and the interrupt flag match the frames | depth 3 and 3 tasks: two commands nested under a third body |
| `rchat_client` | acknowledged is stored, the history shows each message once and only what was accepted, both sides agree; mail of a contact is shown in the end | 3 servers for 2 profile places, 1 contact place, 2 messages of one sender, history of 2: every list overflows |
| `avfs_user` | exact bitmap, no orphan, the refinement to `FileStore`, `rm -r` stays inside its target | 3 blocks of 2 bytes, buffers of 1 and 3 bytes: relocation up, down and onto itself, and a full store; 6 entries, a directory in a directory, absolute and relative paths, `cd`. `TreeBesideFile` allows beside a tree, whose files are empty, one empty file in the root with a name that is also in the tree, while the user is in the root: when `rm -r d` meets the subdirectory and its listing is overwritten there is a file outside to go wrong on. Files with bytes are in the root while there is no directory; the two share the table and the bitmap |
| `rsh_engine` | the context matches the interpreter's stack, callers keep their variables, bodies and lines stay whole, leaving a call or loop restores what it saved, every command ends | three commands in a row from sixteen scripts and four prompt lines; every condition, loop count and file error is a free choice. 3 variable slots with indices modulo 2, 2 function places for 3 names, 9 pool lines, 2 nested calls, includes 3 deep over 2 buffers, 2 iterations: every table overflows and every limit is hit |
| `helios_programs` | compiled programs do what `HeliosMeaning` says, jumps and frames are sound, images on disk load as what was compiled, what `fmt` prints of a plain source reads back as the same program, every program ends | 22 programs, one or more per construct, and 10 files, with includes (one of itself) and with what `fmt` has to bracket; 16-bit values so that sums overflow, 24 stack slots, 4 frames and 120 steps so that recursion and endless loops hit the limits |
| `legacy_net` | the driver implements `Nic`; answers belong to their exchange; every request ends unless it comes to wait by the clock; handles, pages, files, modules and replies are in step | a ring of 40 bytes with frames of 5 and 10, so that frames start at every aligned place and cross the end; 2 descriptors; per request 3 frames from the network beside those of a previous exchange, 1 retry, 4 frames in the HTTP buffer; 2 handles, a history of 3, 2 modules and a cache of 2, all of which overflow |

The type invariants (`HeapTypeOK`, `FetchTypeOK`, `NestTypeOK`, `RChatTypeOK`, `RshTypeOK`, `AvfsTypeOK`) hold with the
constants of the modules' runs: name one under INVARIANTS of the run's configuration to see it.
All are proved, as are those of the bus and the scheduler (that of AVFS as long as entry 0 is the root, section 5).
Deadlock is checked except where a bound on ticks, posts or commands stops the model.

**Fairness.** `FairSchedSpec` has weak fairness on `rust_schedule`: the timer is
programmed once and never stopped. `FairFetchSpec` has weak fairness on the
client's own steps and on `Tick`, and none on any frame: a fetch must end even in silence. (While a fetch runs the interrupt only counts, which is why
`Tick` needs no scheduler.) `FairRChatSpec` assumes that the window refreshes (its timer
is polled by the loop of `tui`), that the user leaves an error screen, that a
request returns one way or the other, and, with strong fairness, that the
network does not lose every request for ever. `Rsh!Spec` has weak fairness on the interpreter's
own steps (it runs in the shell's thread and never waits) and none on commands being given.
`ShellSpec` has it on the Helios machine's next instruction and on the end of a command. `LegacyFairness` has weak
fairness on the client's own turn and on the passing of those limits that are counts of turns; none on
the network, and none on the limits in ticks: the tick is counted by the interrupt (`task.c` 127-135) and these commands
run inside it with interrupts off. `RequestsEnd` says that in silence and under any trickle of frames a request ends or comes to
wait by the clock for ever; that the latter happens is `EveryRequestEnds` in section 4. (`sleep_ms` needs no clock: it falls back to counting.)

## 4. Known disagreements

Where the code does not do what a comment, the handbook in `lib.rs` or a usage text says, the
statement is kept as a property with a configuration that shows the counterexample
(`tlc -config <cfg> <module>`). A configuration with several properties stops at the first one
refuted; take that one out to see the next. `PROJECT.json` lists one of them, `heap_realloc`, as a
run; the others are:

| Configuration | Property | What TLC shows |
|---|---|---|
| `IpcQueue_overwrite.cfg` | `DrainOldestFirst` | `ipc_recv` scans from index 0 (12376), so after a wrap a younger message is received first; the header says "Simple fixed-size FIFO of 32 messages." (12311) |
| `IpcQueue_overwrite.cfg` | `PostKeepsWaiting` | with a receiver that does not read, `ipc_post` writes over a waiting slot (12363) and returns true; it says "Returns false if queue is full (overflow recorded)." (12356) |
| `Scheduler_turns.cfg` with `BootTasks <- MCBootLow`, `Killable = {}`, `TICK_MOD = 12`, `MaxTicks = 12` | `ReadyTaskRuns` | the wait is `saturating_sub` (12563): after the tick wraps it is 0 and a low-priority task never ages; "This prevents starvation." (13848) |
| `Scheduler_resonance.cfg` | `AgedTaskRuns` | with top-priority rivals a pinned task can miss its epochs for ever (12592); "will eventually reach priority=255 and preempt any task." (14054) |
| `Scheduler_turns.cfg` with `BootTasks <- MCBootSleep`, `SleepTicks = {3}` and the property | `SleepsFullTime` | a wake tick that wraps is due at once (12552); "Put the current task to sleep for `ticks` ticks." (12528) |
| `Scheduler_turns.cfg` with `Killable = {11, 12}` | `ZombiesReaped` | the reaper can be killed (13692) and nothing reaps after that |
| `Scheduler_known.cfg` | `DeadlineCaught` | the interval counts dispatches of the reaper, not ticks (12868); "The reaper will catch it within 200 ticks." (14028) |
| `Scheduler_known.cfg` | `ReportsNamePid` | the slot is cleared before its pid is read (12880); "payload=pid_reaped" (13913) |
| `Scheduler_known.cfg` | `SliceHonoured` | every tick may switch, whatever is left of the slice (12582); "When it hits 0 the task is preempted on the next tick." (13854) |
| `Nesting_known.cfg` | `WindowOwnsScreen` | rChat's network wait re-enables interrupts under its modal window, and the HUD task draws (`tui.c` 838: "this modal window owns it") |
| `Nesting_known.cfg` | `BodiesNotReentered` | a body that waits with interrupts on is dispatched again on top of itself; "The task runs synchronously until it returns" (13876) |
| `RChat_client.cfg` with `Servers = {s1}`, `CONTACTS_MAX = 2`, `Mail <- BadFirst` | `ContactsAreHeard` | one message that does not open (`rchat.rs` 1277) blocks all later mail; so does one that finds the contact list full (`tui.c` 655), which is why the property speaks of senders in the list |
| `Avfs_known.cfg` | `RootStays` | `rm -r .` in the root removes entry 0; "Do not remove '/' (default)" (`rm.c` 178) |
| `Avfs_known.cfg` | `TreeSound` | a file can be created below a file and outlives it (`Avfs.c` 333) |
| `Avfs_known.cfg` with `AVFS_BLOCK_SIZE = 2`, `Buffers <- ThreeBytes`, `Sizes = {0, 1, 2}` and the property | `GrownRegionIsZero` | growing within the last block is not zero-filled (`Avfs.c` 875, 911) |
| `Avfs_known.cfg` | `LsShowsEveryEntry` | `ls` stops at the first free entry of the table (`ls.c` 222) |
| `Avfs_known.cfg` | `RmRemovesTree` | `rm -r` of a directory with a subdirectory stops half way: the listing is one static array that each level fills again (`rm.c` 9, 125); "Remove directories and their contents recursively" (`rm.c` 175) |
| `Rsh_known.cfg` | `ElseSeparates` | the endif moves the end of the first branch past the else (15753), so an if whose condition holds runs both branches |
| `Rsh_known.cfg` | `EveryCallerKeepsVariables` | slot numbers are saved as `u8` (15493) while there are 322 slots: with more than 256 variables a call restores some into the wrong slots; "Saves only in-use variable slots (by index)" (14705) |
| `Rsh_known.cfg` | `LoopsLeaveNoFlags` | a while or for can leave its own continue, or a break, set for the loop around it: a `repeat` whose one turn ends in continue and a later one in return keeps the continue (16948), and a `default` arm that breaks before an unclosed `case` fails with the break set (15876); the loops clear a flag only on the way out of a body that succeeded (15789) |
| `Rsh_known.cfg` | `EveryFileIntact` | includes may nest 8 deep but depths 3 and up share one buffer (14989), so the including file goes on with the included one's lines; "one set per include depth 0..3" (14971) |
| `Rsh_known.cfg` | `RunningBodyUnchanged` | a function that defines or drops itself changes the lines being executed(15528) |
| `Net_known.cfg` | `ChatIsServed` | `chat_request` reads the status from `HTTP_RECEIVE_BUFFER[9..11]` without asking how much it received (`lib.rs` 7062: "Check Status"): after an earlier `HTTP/1.1 200` a repeated SYN-ACK, padded to 64 bytes, is enough for "Success" (7069) although its peer never served |
| `Net_known.cfg` | `EveryRequestEnds` | the 5000 ms of `tcp_connect` (1910) are ticks, which stand still while the command runs with interrupts off: in silence "SYN-ACK timeout" (1989) is never reached |
| `Net_known.cfg` | `CacheHasMessages` | `json_array_get` takes `children_start + index` (6564), the next value slot and not the next message, so a fetch of several messages caches the newest and entries without an id; "Tip: fetch messages first to grab IDs from the cache." (8831) |
| `Net_known.cfg` | `LinksAreThePages` | the parser's `href_start` is an offset into the page (2661, 2502) and `rbr_build_document` reads it out of `HTML_TEXT_BUFFER` (20941): what is followed is stray text; "Follow link N (0-indexed) from the currently rendered page." (21161) |
| `Net_known.cfg` | `HistoryAtPage` | after one step back RBR's position is one short of the page shown (21024: "rbr_open will push again; keep pos consistent"), so the next step back skips a page |
| `Net_known.cfg` | `PagesComplete` | an element's text length is set by its last run of text (2589): what stood before a line break or inside an unclosed element is not shown |
| `Net_known.cfg` | `SuccessIsSaved`, `UpgradeKeepsFile` | the results of creating and writing the file are ignored (21546, 21685: "Package successfully installed, verified, and saved via AVFS."): on a full disk the command reports success and the old file is gone |
| `Net_known.cfg` | `DownloadIsOwn` | `parse_and_download` does not reset `HTTP_RECEIVE_LEN` (9086) and saves the start of an earlier answer |
| `Net_known.cfg` | `RepliesToOthers` | the auto-reply module takes its own reply for a new message (7911) and, if it contains the trigger, answers it |
| `Helios_known.cfg` | `FmtIsSource` | what `fmt` prints is not always the program: texts are printed as they are after unescaping (4358, 4363, 4482, 4496), a cast without brackets although it binds weakest (4364, 1470), a prefix below an index or a field likewise (4396: `(*p)[0]` as `*p[0]`), a minus before a number, and constants and imports not at all; "pretty-prints AST as re-formatted source" (`helios.rs` 56). The four files of the run show one each; `FormsKeepProgram` is of all others |
| `Helios_known.cfg` | `SuitePasses` | the entry "E005 - unexpected token" (`helios.rs` 4162) expects an error of `if true { }`, which the parser accepts |

## 5. The proofs

All theorems hold for every value of the constants that satisfies the module's
`ASSUME`, hence for the code's 32 messages, 64 tasks and 32-bit ticks. Those with a further hypothesis are `SleepersSleep`, `AnswersStayOwn` and
those of AVFS; each hypothesis is a formula of the module and is discussed below.

* `ApiTypeCorrect`, `ApiCountCovers`: with any receivers, indices and counters stay
  in range and the counter never falls below the number of unconsumed slots. The
  induction is on both at once: consuming a slot lowers both by at most one, and a post
  raises the counter by one and the set by at most one.
* `BusWindow`: as the kernel uses the bus, the unconsumed slots are exactly the `IPC_COUNT`
  slots behind the tail. The window is inductive only with the facts that every message is for
  the bus (so that draining empties the array) and that message numbers in it are distinct and
  below `posts`; `BusInv` has these parts.
* `BusImplementsMailbox`: `BusSpec => MailboxSpec`. From `BusInv`, the number of waiting
  messages is the counter (a bijection from slots to message numbers), so the code's
  test is the mailbox's.
* `SchedTypeCorrect`, `OnlyCurrentRuns`, `DeadStayDead`, `TableStaysExact`: one inductive invariant,
  `SchedInv`, the conjunction of the checked invariants and `PidsBelowNext` (every pid in use or
  killed is below `NEXT_PID`). The last is needed because a new task must get a pid that neither a live
  nor a killed task has; the current slot being occupied is needed because a scan that reclaimed it
  would leave `TASKS[CURRENT_TASK_ID]` cleared; that the idle task has pid 0, which `kill` refuses, keeps
  slot 0.
* `SleepersSleep`: `SleepInv`, that a sleeper's wake tick is its last dispatch plus what it asked for. It has a hypothesis,
  `TicksDoNotWrap` (in the code the first 49 days): section 4 has the run in which the tick wraps under a sleeper.
* `DriverInSync`: for every ring size that is a multiple of four and every set of frame lengths,
  `RtlSpec => []RingInSync`. That the first stored frame lies where the driver looks is not inductive: the
  next frame becomes the first when one is taken. `RingInv` therefore says that the stored frames are a
  chain, each starting where the one before it ends modulo the ring, from the driver's position
  to the card's, and that none is longer than what lies between it and the card's position (`Chain`); without
  the second part a ring filled to the last byte would look empty. The arithmetic modulo the ring is in lemmas
  (`WrapDifference` and those after it).

* `DriverImplementsNic`: `RtlSpec => NicSpec`. What the abstract card's queue of arrived frames holds is the frames of
  `stored`, so `RingInv` gives the receiving half: a frame the driver takes is the oldest one. The sending half needs `TxInv`: the
  card owns exactly the run of descriptors from the one it sends next up to the one the driver fills next, so the driver
  never writes into one that is still owned and frames leave in the order they were given.
* `NestTypeCorrect`, `FetchIsNotCovered`, `GuardsAreExact`: `NestInv`. A fetch is on top of the stack (`FetchOnTop`)
  because no interrupt is dispatched while `BUSY` is up, and a frame below the top is one that may wait with interrupts on (`BelowMayWait`):
  without it a frame uncovered by a return could be one that must have interrupts off. That the flag a
  guard saved can be on only in a frame that has switched the video mode (`SavedFlagIsVga`) is what
  makes restoring it harmless. The counts of `GuardsMatchFrames` follow from `OneRequest`.
* `HeapTypeCorrect`, `HeapStaysSound`: `HeapInv`. The operations are loops over a list, so the lemmas are about lists: splitting block k,
  merging k with k + 1 and flipping a block's flag keep the list laid end to end (`Laid`) and change the set of
  used blocks by exactly the block named. `MergedBut(h, E)` says that free neighbours are merged except at the indices E; a free
  breaks it at most at two places and the two merges repair them. The pool must have room for one header (12 bytes of 8 MB in
  the code): a first request that does not fit leaves one empty block.
* `FetchTypeCorrect`, `AcknowledgedIsHeld`: `ReceiveInv`. There are numbers d and n such that the caller has read the first
  d bytes of the response, the next n wait, and `ack_num` is the server's initial number plus 1 + d + n modulo the
  word. A segment is a stretch of the response at its number; since both streams are shorter than half of the number
  space, comparing numbers in it is comparing offsets (the lemmas on `Plus`), so trimming a segment at `ack_num` appends exactly
  the bytes that are missing, whatever was lost or repeated.
* `ConnectionIsByteStream`: `FetchSpec => ByteStreamSpec`. The receiving half is `ReceiveInv`. The sending half is `SendInv`: every segment ever
  sent is a stretch of the request at its place behind one initial number, the server has a prefix of length r, the client has
  seen k <= r of it acknowledged, and `seq_num` is ahead of what was written by the chunk in flight. `write` returns only
  when the acknowledgement covers the chunk, so what it reports as written the server has.
* `RChatTypeCorrect`, `SidesAlwaysAgree`, `NothingLostByAck`, `HistoryIsHonest`: `RChatInv`. `StoredFirst` orders what each side knows of one server:
  the messages shown are 1 to n without a gap, the cursor and the acknowledgements are within n, and a message shown
  but not yet acknowledged is the pending one. The last part is needed because the answer to an acknowledgement can be
  lost after the server has forgotten the message: the retry must find the same one. `SidesAgree` is part of the induction because a
  refresh acknowledges to the server the Rust side has selected.

* `DiskFollows`: `PkgInv`. The disk half is inductive by itself, since a file is created and written in one handler
  whatever the room; the upgrade's order is not: `PkgJob` says that what has been asked for followed by what is left is the index, which
  needs that nothing was asked for while the index was on its way, and that a command for one name has that name left.
* `NoHandleIsLost`: `WebInv`. That the slot held is the call's own needs the call's address to be a real one in every stage
  (a free slot is told by having none), and `back` takes the address from the history: so the history has no gap below `pos` (`HistoryInv`).
* `RepliesAreSingle`: `ReplyInv`. While nothing is deleted the ids on the channel increase and the newest is the last one posted (`ChannelInv`);
  what was replied to is behind `auto.last`, or is the one whose reply is being sent (`RepliedInv`). The poll looks only at the newest
  message, so one not seen is ahead of all of them. The reply may arrive any number of times in between.
* `TablesStayIntact`: `TablesInv`. What is pushed are the entries `json_array_get` makes of an answer, some without an id. For the module table the property is inductive once types are added (`ListsWhatWasGiven`). For the cache it is not: where
  the head is while the cache fills must be known too, so `HoldsLatest` says that, for the number n of all pushes, the head is n modulo the size and
  the entry pushed as number t lies at t modulo the size as long as fewer than a cache's worth came after it. An answer may hold more entries than
  the cache; the lemmas on remainders (`SameRemainder`, `RemainderOfSum`) say which of them are overwritten.
* `AnswersStayOwn`: `LegacyInv`. A frame is taken for ours by its ports alone, so the property rests on two facts about the whole history
  of exchanges. `FramesOK`: whatever lies in the ring or in either buffer was sent by the peer of the exchange it names, which had accepted if it is a
  SYN-ACK and served if it carries headers; a peer's later steps (`Later`) take neither back. `PortsApart`: no two connections ever made had the same port. The second
  is inductive with `Marked`, that every such port is marked in `PORT_USAGE_TIME`, and under the hypothesis `PortIsFree`, that a connection finds
  an unmarked port among the fifty it tries; the fallback of `get_unique_port` (1881-1890) takes a marked one, and then
  an earlier peer that repeats itself is taken for the new one (TLC finds it at once with two ports, both used). Marks do not expire in the model. Between commands they do in the code, after 3000 ticks, and the
  20000 ports then have to come round before one is taken again. The hypothesis holds in every step of `legacy_net`. The rest (`Claims`) follows a request
  from its SYN to its result: an open connection has its exchange's port, and the buffer of a client that starts from an empty one begins with its own frame.
  The download starts from what an earlier request left, so for it the claim is about the part it appends (`DownloadIsOwn`, section 4, is the rest).
  For the chat and Discord clients the theorem also says that the peer of a request reported as done had served it, except when
  padding is all that was received: then the status is left from an earlier answer, and only `ChatIsServed` in section 4 speaks of it.

* `ContextAlwaysMatchesStack`, `LinesStayIntact`, `RshTypeCorrect`, `LeavingAlwaysRestores`: `RshInv`. The interpreter is a
  set of functions that call each other, so the invariant is about the stack of their frames, and each part is written of any stack, value,
  context, buffers and pool: an action is a few pushes, pops and changes of the top frame, and the lemmas `Push`..., `Pop`..., `Moved` say what
  one of these does to all parts. `Layered` says what a frame may lie on (a loop, an `if` and a `switch` on the block they belong to, a file on the
  scans of the files that include it); hence `include_depth` is the height up to which the stack is files (`Included`). `Called` keeps, for every call
  on the stack and not only the last, its name, what it saved and whether a call was below it: the return of the inner one uncovers them. `Mapped` is the
  same of the with-blocks. `Flags` says where in a loop break and continue may be up: without it a loop could be left with a flag of its body. `PoolOK` adds to `LinesIntact`
  that the slices of two functions are apart, since a redefinition writes into the pool. `FrameOK` says that the lines of a file not yet run are in its buffer,
  which the reading of another file keeps because files on the stack have different depths.
  `LeavingRestores` had been stated without its two exceptions; the induction failed at exactly the two paths that section 4 now lists under
  `LoopsLeaveNoFlags`, and `MCRsh` has a script for each.

* `BitmapStaysExact`, `NamesStayUnique`, `RmOnlyInside`, `AvfsImplementsFileStore`, `AvfsTypeCorrect`. `NamesStayUnique`, the half of `TreeSound` about names, has no
  hypothesis: `NamesInv` says that entries in use differ in parent or name, and a new entry is only made for a path that leads nowhere. The other half,
  that every entry hangs below a directory in use, the code does not keep, and it is left to the run. `BitmapStaysExact` and `AvfsTypeCorrect` need that entry 0 stays
  the root (`RootStays`), `RmOnlyInside` and `AvfsImplementsFileStore` also that nothing is created below a file (`CreatedBelowDirs`). The code keeps neither:
  `rm -r .` in the root removes entry 0 and `avfs_create_file` does not ask what the parent is; both are in section 4. Every state
  of `avfs_user` satisfies both, so these theorems are about the calls that run makes, for any storage, table and buffers.
  `BitmapInv` is the types of table and bitmap, that the frames of `rm` and the current directory name entries, and `Exact`:
  a block is marked just when the run of a file covers it, and runs do not meet. A file that grows gives up its run before it searches for one;
  `NoOverlap` says that first fit then never lands strictly inside the run given up, so the upward copy of the bytes
  onto their new place reads none it has written. `Sound` is the tree: an entry in use other than the root has a directory in
  use as parent, siblings differ in name, and the root has no parent. Each call leaves the table as it is but for the bytes of one
  entry (`Alike`), adds an entry (`Grown`) or takes away one without children (`Shrunk`), and the lemmas say what each of the three does to the tree and to what
  a path finds. `RmInside` says that the path of every frame of `rm -r` is at or below its target. For the refinement, `Only` says that a call changes no
  entry but one, and `Within` and `Apart` that the bytes it writes are in that entry's run, and so in no other file's. `CallsNameKeys`, that the paths
  calls lead to are those of the store, says that
  `FilePaths` holds in absolute form every path its members lead to from a current directory; it does in every state of `avfs_user`.
  `avfs_find_entry` and `normalize_path` are recursive functions over the names of a path: the lemmas use
  one unfolding at a time (`FoundStep`), and where something must hold of every length they argue from the least counterexample (`Least`).

Only model-checked: Helios; the parents of AVFS entries (`TreeSound`); `PagesShown`, whose layout and parser are folds over data;
the aging bound (`AgedTaskRuns`), which counts ticks over a whole run and does not hold for all constants (section 4); what `realloc` keeps (refuted); and every liveness property (`ReadyTaskRuns`,
`ZombiesReaped`, `FetchEnds`, `ContactsAreHeard`, `ScriptEnds`, `ProgramsEnd`, `RequestsEnd`): the prover does not
reason about fairness or ENABLED. What a recursive definition computes for every input is out of its
reach as well: Helios reads nested blocks that way.

## 6. Abstractions and what is left out

* Task bodies other than the reaper and the sleeper only draw or post; they are one body.
* Pids are not modelled as wrapping (2^32 creations).
* AVFS names longer than the limits, and time stamps, are left out.
* Payloads of bus messages, texts, colours, logging are left out.
* In FetchTcp the allocator may refuse at any `poll` that would grow the buffer.
* In RSH the text of a value, the expansion of `$NAME`, the expression evaluator, map entries and
  `active_map`, and `exit_code` (written, never read) are left out. Bodies longer than
  `MAX_FUNC_LINES` cannot occur: a file has at most 1000 lines. The plugin loader has no caller.
* The card accepts no frame outside 64 to 1518 bytes (its receive configuration); the driver's loop
  would stop at one for good (638).
* The legacy receive loops do not look at sequence numbers: that the body they collect has no segment twice is
  not stated, because nothing in the code prevents it. ntfy and ping take any SYN-ACK or echo
  reply; `AnswersAreOwn` is about the clients that compare ports.
* Of the Discord client the guild and channel tables (8218-8290, filled once and printed), `user_info`, the
  network diagnosis and the parsing of rate-limit headers are left out; the rate limit itself is in LegacyTcp.
* JSON, URL, header and chunk parsing are taken for what they yield; so are PNG decoding and AES. Of `json_array_get` the slot it takes is
  modelled: all messages of an answer take `MessageValues` slots, a message's own slot is taken to be readable (it is while the service
  does not put `id` first: an object's first field slot is written over by the object, and those of nested objects interleave). The listings of guilds and channels
  (8238, 8268) use the same function.
* The local port of DNS and ntfy is 50000 + ticks modulo 10000: two queries within one tick, or while the clock stands still, have the
  same one. The model takes the exchanges of two queries to be told apart.
* Heap sizes and AVFS sizes do not wrap: the rounding up of a size within a few bytes of 2^32 (`utility.c` 96, `Avfs.c` 322) is not modelled. The empty
  path and `//` are one case (`Avfs.c` 46-50).
* The lock of the Rust allocator (`heap.rs`) is not modelled.
* In Helios positions and wording of diagnostics, help and the text of a disassembly are left out; `fmt` is compared
  by what its text is read back as. A hexadecimal escape is taken to have its digits, and characters above 126 are one. A program's `input()` waits for the user
  and an `asm` of `hlt` with interrupts off does not return; in the model the step of a device always completes, so `ProgramsEnd` is of
  programs whose devices answer. A variable read before it is written holds what the stack held there; no program compared with `HeliosMeaning` does that.
* Not modelled: `fetch`'s HTTP, TLS and certificate checks, prp, aegis and the other cryptography (byte
  arithmetic, with test vectors of its own), drawing, fonts, the image editor, games, sound, device probing and built-in
  texts (output), the watchdog's screen, the text and line editors and login (planned).
* `src/src/network/` and `src/src/memory/` are compiled and not reached from the kernel.

## 7. Plan

1. Done: the bus, the scheduler, nesting, the heap, the fetch transport, rChat, AVFS, RSH, the card's driver, the
   legacy clients, browsers, packages, Discord and Helios; proofs for the bus, the scheduler, nesting, the heap, the
   fetch transport, rChat, RSH, AVFS, the driver, the handle tables, the package manager's disk, the Discord client's tables and replies and the legacy clients' answers.
2. The editors: `text.c` (lines, cursor, selection, undo) and `keyboard.c` (scancode state, line,
   history), then the commands that save in two steps (`echo >`, the log writer) as a composition
   over Avfs with storage running out between the steps.
3. RSH's maps, expansion and condition evaluator; header, chunk, URL and JSON parsing as operators
   against reference definitions.
4. Watchdog, login, mpop windows, telnet, games with state.
5. Proofs: that a port marked more than 3000 ticks ago is out of use, which would rid `AnswersStayOwn` of its hypothesis when
   connections are not made faster than that.
