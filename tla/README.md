# UROAM: TLA+ specifications, model checking and proofs

UROAM tunes the memory of a Linux machine for AI, gaming and desktop workloads. The
repository holds several programs for the same purpose: two kernel modules in C, a daemon
and a command in Go, a daemon, a command and a library in Rust, another daemon in Python,
a C allocator library, Python integrations for AI frameworks, an architecture layer in C
and an eBPF program with its loader. This directory models the parts that run concurrently, keep state
and can go wrong, checks them with TLC on small instances, and proves what matters most
with TLAPS for every value of the constants.

`PROJECT.json` lists components, runs, hazards, theorems and findings, and names for every
definition the source lines it stands for.

## 1. The system

| Component | State | Operations | Hard behaviour |
|---|---|---|---|
| `kernel/tracking.c` | table of processes with a tree index, running flag, kthread | scan, update, insert, init, exit | two scanners at once, pids reused during a scan, kthread_stop against loop and sleep, and against a thread that was faster |
| `kernel/main.c` | module parameters (0644), proc and sysfs objects, global state | init with goto chain, exit, `uroam_notify_pressure`, `enabled` | failure at any step with threads already running; parameters changed between load and unload |
| `kernel/pressure.c` | PSI group and trigger, monitor kthread | check, callbacks, init, exit | callbacks and monitor publish at once, in any order |
| `kernel/ipc.c` | netlink socket, sequence number | send, receive, query | level and count read while a notification is under way; messages lost |
| `kernel/hooks.c` | ftrace buffer, two kprobes, counters | install, remove, fire | a handler that rewrites its own probe; the counters are fed by nothing |
| `kernel/numa.c` | distance table, figures of the nodes | init, update, exit, choose a node | table allocated from two places; figures written by insmod and the tracking thread at once, without a lock; loop bounds |
| `kmod/uroam_kernel.c` | timer, workqueue, sysctls, `ksm_run` | timer handler, scan work, init, exit | self-arming timer against unload |
| `daemon/main.go` | none but the settings it writes | start, tick, signal | long series of writes, routines that write the same file, kill in the middle |
| `cli/main.go` | none | enable, disable, tune, daemon start and stop | races with the daemon; more than one daemon |
| `src/optimization`, `src/classification`, `src/kernel`, `src/daemon` (Rust) | the engine thread, settings written | pass: classify, choose a profile, write | a failed write ends the thread and with it the daemon; profiles inherit settings |
| `src/ipc` (Rust) | socket, one server thread | accept, read, execute, reply, shutdown; `send_command` | one client at a time without timeouts; partial reads; resets; exit in the middle |
| `src/gaming`, `src/idle`, `src/ramdisk`, `src/compression` (Rust) | saved settings, flags, mounts | apply, restore, cancel, init, cleanup | a saved value overwritten by another apply; partial failure; processes that share directories; not called by the daemon |
| `src/shared/memopt.c` | mappings, pool, statistics under a lock | init, alloc, calloc, realloc, free, pool | steps outside the lock in several threads; `munmap` of one page whatever was mapped; `size_t` arithmetic at the pool's end |
| `integrations/uroam` (Python) | workload and priority, block pool, tracker | contexts, setters, allocate, free, record | contexts inside one another and across threads; check then pop without a lock; one tracker switched by three optimizers |
| `user/uroam_daemon.py` | - | - | none: the constructor fails, see section 6 |
| `aal/aal.c` | one global description of the machine and a flag | init, shutdown, get, byte swap | lazy initialization without a lock; fields computed from fields that are read back |
| `ebpf/` | one loaded object, links, a counter in a kernel map | init, attach, start, stop, shutdown, read, count | calls in any order; links thrown away, so that probes outlive the object |

How they interact:

* The kernel module's subsystems share `uroam_global_state`. Tracking and pressure call
  into netlink; tracking also calls into NUMA; `main.c` brings them up and takes them down.
* The daemons do not talk to the kernel modules. They meet in the kernel's own files:
  `ksm/run`, `swappiness`, `zswap`, transparent huge pages, `oom_score_adj`.
* The Go command writes the same files as the Go daemon, and finds the daemon with `pgrep`.
* The Rust daemon has two threads that share nothing but the process: the end of the engine
  ends `main`, the `Shutdown` command calls `process::exit`.

What makes each part correct:

* tracking: table and tree agree, a pid has one slot and is announced once, nothing runs
  when `uroam_tracking_exit` has returned, a process that can be found is found;
* loading: every failure path and every unload releases what was acquired, once, nothing that
  was not acquired, and after the threads that use it;
* pressure: level and count belong together, and the level settles with the machine's;
* scan module: nothing on a destroyed workqueue, the scan recurs, rmmod returns;
* daemons: once the machine settles, the files hold what its state calls for, whatever was
  written before; a signal or a failure has the effect it should have;
* IPC: the answer is true of the caller's own command, Ok means done (which does not hold:
  section 6), and every client is served;
* libraries: no block loses a page or is handed out twice, figures add up, what was saved is
  put back, what was mounted has somebody who unmounts it;
* architecture layer: what it says of the machine is true, whoever asks first;
* NUMA: the figures of a node add up, and the node chosen has room if a node has (which does not
  hold: section 6);
* eBPF: the statistics count every allocation once, and no object is out of reach.

## 2. The modules

| Module | Models | Rests on |
|---|---|---|
| `Tracking`, `TrackingProofs` | `kernel/tracking.c` | the machine's processes as an environment |
| `ProcessRegistry` | what the tracker promises; `Tracking` implements it | |
| `KernelModule`, `KernelModuleProofs` | `kernel/main.c`: load and unload, with init and exit of `pressure.c`, `ipc.c`, `hooks.c`, `numa.c`, `tracking.c` | the kthread loops in outline |
| `Pressure`, `PressureProofs` | `kernel/pressure.c`, `uroam_notify_pressure`, netlink queries of `ipc.c`, `/proc/uroam/status` | PSI callbacks as an environment |
| `LevelRegister` | what publication promises; `Pressure` implements it | |
| `ScanTimer`, `ScanTimerProofs` | `kmod/uroam_kernel.c` | the kernel's timers and workqueues |
| `MemoptDaemon`, `MCMemoptDaemon` | `daemon/main.go` with `cli/main.go` | processes and memory figures as an environment |
| `UroamEngine`, `MCUroamEngine` | `src/optimization`, `src/classification`, `src/kernel`, `src/daemon` | the machine; which files can be written |
| `SettingSeries` | what a series of writes leaves in a file; for `MemoptDaemon` and `UroamEngine` | |
| `DaemonProofs` | theorems about `MemoptDaemon` and `UroamEngine` | |
| `UroamIpc`, `UroamIpcProofs` | `src/ipc` | Unix stream sockets |
| `Memopt`, `MemoptProofs` | `shared/memopt.c` | `mmap`, `munmap`; callers that keep to the rules of C |
| `PyContexts`, `PyPool`, `PyTracker` | `integrations/uroam/core.py`, `ai_hooks.py` | `malloc`; frameworks that record what they allocate |
| `RustOptimizers`, `RamDisk` | `src/gaming`, `src/idle`; `src/ramdisk` | the kernel's files; `mount`, `umount` |
| `Aal` | `aal/aal.c`: detection, shutdown, the description and its getters | `sysconf`, CPUID and `/proc` as a record of the machine |
| `ByteOrder` | the byte swaps of `aal/aal.c` | |
| `Numa` | `kernel/numa.c`: figures and choice of a node | free memory of the nodes as an environment |
| `EbpfLoader` | `ebpf/ebpf_loader.c`, the counter of `ebpf/uroam.bpf.c` | libbpf; the kernel's page allocator as an environment |
| `Libraries`, `LibraryProofs` | `PyContexts`, `PyPool`, `PyTracker`, `RustOptimizers`, `RamDisk`, `Aal`, `Numa`, `EbpfLoader` side by side; theorems about them and about `ByteOrder` | |
| `MCLibraries` | `Libraries`, one part at a time, as the parts share nothing | |

Definitions that begin a comment with "Defect:" are wrong on purpose. They stand before the
definition they deform, no specification uses them, and putting one in place of its
neighbour makes a property fail: they show that each property can tell the code from a
plausible mistake.

### Tracking

`slots` and `count` are `uroam_global_state.tracked_processes` and `tracked_count`; the
red-black tree is the set of slots linked into it, since only searches by pid depend on it.
A scanner is at `find` (the lookup of the next pid and `get_task_comm`), `update`
(`uroam_tracking_update_process` under the spinlock, one atomic step) or `advance`
(`put_pid`, next pid). Both scanners exist in the code: the kthread starts before insmod
makes its own first scan. Between `find` and `update` the process may exec, exit, or be
replaced under the same pid. `put_pid` comes before `pid->numbers` is read: where the
struct has gone and may have been reused, the next pid is any that follows one in use.
A process update over netlink may be lost (`sent`).
`uroam_tracking_exit` clears the flag and wakes the thread before it calls `kthread_stop`, and
the loop returns on the flag alone, so `KthreadStop` may meet a thread that has already left.
Nobody holds a reference on its task: the call then returns, or touches freed memory and rmmod
does not come back (`phase` is "lost", and no action of the module follows).
The memory figures and the node of an entry are left out: nothing depends on them.

`ProcessRegistry` is the tracker as a client of the module sees it: a register that grows by
one entry at a time, each for a pid it does not know, told to user space at that moment or
never, and kept, but for its name, until the register is closed. `ImplementsRegistry` maps the
slots in use to its entries; scans, threads, tree and machine are gone, so every step of a
scan but a locked update is a stutter.

### KernelModule

A subsystem is the set of kernel objects it holds. `pc` walks through `uroam_init`; any step
may fail and then jumps into the chain of `uroam_exit` at the label the code jumps to. The
four parameters may be written by root at any moment while the module is loaded, as the
code reads them again on the way down. `bad` collects what is released or torn down while not
held. One such thing is `numa_balance_work`: only `uroam_numa_enable_balancer(true)` initializes
it, which nothing calls, and `uroam_numa_exit` cancels it all the same.
Each thread is stopped in three steps: the flag is cleared, `kthread_stop` is called, the thread
has returned. Where it had returned before the call, the way down goes on or ends in "lost", as
in `Tracking`.
`moved` are the kprobes that have fired while the module was enabled: their handler has put
another address into them, by which `unregister_kprobe` does not find them.

### Pressure

A notifier (the monitor thread, or a PSI callback in some context) stores the level, counts,
and sends, holding `uroam_state_lock`. `counted` is the level that belongs to the current
count; a message's count is the count of the state it is built in, so it is not stored. A
pressure query reads the level without the lock; a statistics query and a read of
`/proc/uroam/status` take the lock. The counter wraps at `CountMod`.

`LevelRegister` is a register with one writer at a time. A write begins when the level is
stored and ends when it is counted; notifications, statistics and `/proc` are atomic reads of
the level that belongs to the serial number, and a netlink pressure query is a regular read:
it may return the value of the write it overlaps before that write is complete.

### ScanTimer

`timer` is pending, fired (the handler runs, before `queue_work`), or at `rearm` (before
`mod_timer`). `del_timer_sync` succeeds when no handler runs, so it may be turned away as
often as the handler runs. The work reads each sysctl when the code does.

### MemoptDaemon

A tick reads the machine once and produces a series of writes, which the other daemon, the
command, and the machine may come between. `applyOptimizations` keeps the code's order of
routines and of writes. As no decision reads a file back, an instance may follow any subset
`Knobs` of the files and stay exact: `W`, one write, leaves out those that are not followed. `oom_score_adj` files belong to pids; a write to the
file of a process that has gone fails and is ignored, and one that meets a new process under
the same pid succeeds. `stopDaemon` follows `pgrep`, `Atoi` and `Kill`: only a single line of
output is a number.

### UroamEngine and UroamIpc

The two threads of `uroamd` share no state, so they are two modules; each contains what the
other thread can do to it (`EngineFails`, `ShutdownByIpc`: the process ends). In the engine
settings that are written together are one file, and a file's value names the profile that
wrote it; any set of files may be unwritable. `/proc` is taken to be readable. Ties in
`get_current_workload` may go either way, since a `HashMap` is walked in no order. The daemon
is not restarted: it exits with success and `packaging/systemd/uroam.service` has
`Restart=on-failure`.

In the IPC module a connection holds what has been written and read. The client writes the
command and its newline separately and the server reads once, so a read may catch the command
alone; the drop of the stream then resets the connection, and `read_to_string` fails although
the command was carried out. `ran` is what the handler of a client's command did: carried it
out, failed, or, for `ProfileSet`, `ConfigReload` and `ProfileGet` ("Stub"), nothing at all.
`Status` counts as carried out when it reads the machine's figures; the profile and the workload
in it are constants of the code as well.

### Memopt

A page is `PageSize` units, addresses are pages; the kernel chooses any free range for a
mapping. `thread[t]` holds the block a call makes and the one it takes back, and the step it
is at: counting, copying, uncounting and unmapping are apart, since the lock is held only
for the figures. `memopt_free` unmaps one page. `atReset`, `odd` and `bigFreed` are history:
how many blocks there were when the counters were last cleared, whether a size other than a
page has been counted, whether a bigger block has been freed. A request to a pool may be any `size_t`,
and `used + size` is taken modulo `SizeMod`.

### The libraries

Eight modules whose state nothing else shares. In `PyContexts` every attribute is read and
written by itself, as threads may change between bytecodes; `mixed` remembers that two
threads were in contexts at a time, `touched` that somebody set something inside one. `PyPool`
has a step between test and pop, and between test and append. `PyTracker` has one between
the test of `enabled` and the figures, which are under a lock. `RustOptimizers` follows
swappiness, the one file that is ever put back; a write may always fail, and the one to
`transparent_hugepage/enabled` always does where the file exists, since the kernel takes
neither `[always]` nor `[madvise]`. Reading swappiness may fail too: then nothing is saved, and
the writes go on (`stranded`). In `RamDisk` a manager dies with a mount command on its
way, or is refused by umount; `dropped` counts the flags that are lost over a mounted tmpfs.

In `Aal` every store to `g_aal_info` that another thread can come between is a step, and so
is every place where a field is computed from another: the thread uses what it finds there
or, as the compiler may keep it in a register, what it has stored itself. A field that is stored
beside another, with a value that depends on nothing else, goes with it. The copy that
`aal_get_system_info` returns is made in two parts. `misled` says that a thread's last answer was not what
an undisturbed initialization gives, `overlapped` that a thread has been inside the library
while another was initializing. `Numa` takes an update apart where the second context can
come between: total and free, the read-back, used, the distances; `stage` follows insmod from
`uroam_init` to the end of `uroam_tracking_init`, whose thread runs from the second stage on.
Node ids need not be 0, 1, 2 and so on. The choice of a node is a function of the figures, for
processes on any online node and for one that is gone.
`EbpfLoader` keeps the links in the kernel: `bpf_program__attach` returns them and
`ebpf_attach` throws them away, so they live as long as the process. `misused` is set by an
initialization over a loaded object and by a second attachment.

## 3. The runs

| Run | Question | Bounds and why they are enough |
|---|---|---|
| `tracking` | do two scans, forks, execs, exits and reused pids keep table, tree and messages consistent; does rmmod return; is a reachable process found | 3 pids, 2 slots, 2 process events, 2 names. Three pids overfill two slots and leave room for a gap; two events make an exit and a reuse of the pid |
| `kernel_module` | what is leaked or released twice, on every failure path, with parameters rewritten and probes firing at any time | none: the model is finite |
| `kernel_module_cleanup` | does unloading take everything down | none. Violated |
| `pressure` | do level, count and message belong together; does the level settle | monitor and 2 callback contexts; `CountMod` 2, so that the counter wraps all the time |
| `scan_timer` | is the workqueue safe on every path; does the scan recur; does rmmod return | none |
| `memopt_daemon` | do the files converge | 2 daemons, 2 pids, an inference process and a game, two gauges (idle; pressure), files `ksm_run` and `max_pool_percent`, 2 moves of machine and administrator. Two moves make a process end and its pid be reused, or a kill with a change of the machine |
| `memopt_daemon_gaming` | is KSM off while a game runs | 1 daemon, 2 pids. Violated |
| `memopt_daemon_stop` | is "Daemon stopped" true | 2 daemons. Violated |
| `uroam_engine` | do the settings follow the machine; what does a failed write do | 6 machines that call for every profile, a tie included; every subset of unwritable files; 2 changes of the machine, so that a profile follows two others |
| `uroam_ipc` | are answers true; is everybody served | 2 clients that call again without end |
| `memopt_library` | does every block keep its pages; what is stranded; do figures and pool add up | 2 threads; 4 pages hold two reallocations at once, or a block of two pages and a pool; sizes of one page and of more; counters that wrap at 3; a pool of 3 units, sizes that wrap at 9 and requests of 1, 2 and 8, so that parts fill the pool to its last unit and one request makes the sum wrap |
| `libraries` | does each part account for what it saves, hands out, counts or mounts | contexts: 2 threads, 2 kinds, 2 contexts open at once, inside one another or not, one setting by the user. Pool: 2 threads, 3 blocks, 2 in the list. Tracker: 2 threads, 3 objects under 2 tags, totals up to 5. RAM disks: 2 processes, 2 tmpfs over each other. Optimizers: one setting by the administrator. Architecture: 2 threads; an x86_64 machine with more CPUs than there is room for and an arm64 machine with exactly as many. NUMA: 3 node ids, up to 2 nodes online, so that ids may have a gap; memory that is free or not. Loader: 2 objects, 2 programs, 2 links each, 4 units allocated. The threads are interchangeable (symmetry): no step, property or choice tells one from another |

Deadlock is checked in `pressure`, `uroam_ipc`, `memopt_library` and `libraries`.
The other passing runs switch the check off: a kernel module that is gone, with something left
behind, stays gone, and nothing follows an rmmod that was lost in `kthread_stop`; `MaxMoves` ends what the machine does; a daemon may end for good.

### What the runs show

* `tracking`: `TableConsistent` (slots in use, tree and pids agree), `QuietAfterExit`,
  `ImplementsRegistry` (every behaviour of the tracker is one of `ProcessRegistry`: a pid is
  entered once, announced then or never, and keeps its place, priority and class), and under
  fair scheduling `ReachableTracked` (a process all of whose lower pids stay in use is tracked
  unless the table is full) and `ExitReturns` (rmmod never waits for ever; it ends, well or lost).
* `kernel_module`: what goes wrong is exactly what a few causes explain.
  `LeaksExplained`: an object is left behind only if the parameter guarding its release was
  written meanwhile, or it is the distance table, which tracking allocates with
  `enable_numa_aware` off, or a kprobe that has fired. `DoubleReleaseExplained`: what is torn down
  without being there is the PSI group and trigger, only after the kthread could not be created
  (the error is swallowed) or the parameter was written, or the balancer's work, with
  `enable_numa_aware` on or written. `ThreadsOutlived`: the tracking thread has ended before its
  socket and the distance table go, the monitor before its PSI group; the netlink socket, through
  which the monitor reports (`pressure.c:147`, `main.c:326`), goes under it only when
  `enable_pressure_monitor` was written, which skips its exit. `UnloadEnds`: no `kthread_stop` waits
  for ever.
* `pressure`: `QuiescentConsistent` (with the lock free, level and count are of the same
  notification), `ImplementsRegister` (every behaviour is one of `LevelRegister`; in
  particular the query, which takes no lock, never answers with a level that was neither
  current nor being published while it was under way), and `LevelConverges`: although callbacks know only FULL or NONE and may run late, the level
  settles with the machine's, by the monitor's next check.
* `scan_timer`: `NoUseAfterDestroy`; `NothingLeft` (after a load that failed at any step, or
  an unload, no entry, sysctl table, workqueue, timer or work is left); `ExitEnds`,
  `ScanRecurs`.
* `memopt_daemon`: `KnobsConverge` (KSM and the zswap pool end up as the machine's state calls
  for, with nothing left of idle or gaming periods, kills or commands), `OomScoresConverge`
  (every running process ends with the score of its kind, reused pids included),
  `SignalEnds`. `TicksConverge` says how: the six routines of a tick write over each other,
  and the series they make ends with KSM, the pool and every score as the machine they read
  calls for; each write of the series keeps what is still to come bound, so that between a
  tick's first write and its last only another writer can leave a file otherwise.
* `uroam_engine`: `FollowsMachine` (as `KnobsConverge`, for the Rust daemon, with KSM exempt
  under an AI profile that leaves it alone): a failed write never leaves the daemon alive
  without its engine, it ends the daemon. The comment at `src/daemon/main.rs:74` says of the
  loop that it runs indefinitely; it does while every write succeeds. `PassesConverge`: a pass
  binds the files to one profile the machine called for, and every write that does not end
  the thread keeps them bound.
* `uroam_ipc`: `AnswersTrue` (Error only for what failed, Ok only for what was carried out or for
  one of the three commands whose handlers do nothing, and each answer for the caller's own
  command), `EveryClientServed`: as long as no client that connected stays silent for ever,
  everyone who sent a command returns from the call.
* `memopt_library`: `BlocksMapped` (no free, reallocation or destroyed pool takes a page from
  a block somebody has), `OnlyBigStranded` (what stays mapped with no owner is left of blocks
  of more than a page), `CountsBalance` (the counters differ by the blocks there are, through
  every call and through shutdown over live blocks; `g_pool_used` is exact while every block
  is one page), `PoolDisjoint` (parts of a pool begin inside it; they are disjoint and end inside
  it until a request is granted whose sum wrapped).
* `libraries`: `ContextsRestore` (as long as threads use contexts one after the other, a body
  runs with its own context's settings and the outermost puts back what was there before,
  whatever was set inside), `BlocksOnce` (without a lock a block is still in one place only,
  and the list outgrows its limit by less than there are threads), `TagsCoverCurrent`
  ("current" never exceeds the sum over the tags, and both are exact until a call has found
  the tracker off), `TmpfsOwned` (each mounted tmpfs has a manager that will unmount it, but
  for those dropped by a death or a refusal), `RestoresWhatOthersSet` (what a restore puts
  back was never set by the optimizer itself, unless a process ended without restoring or
  swappiness could not be read when the optimizer wrote),
  `DetectionSettles` (after initializations that did not overlap the description is the
  machine's; after some that did, the SIMD level, the base page size, the memory of node 0,
  the CPU counts and the thread count may be wrong for good, and nothing else; the level is then too low and
  never too high, the CPU count is 1), `SnapshotWhole` (nobody gets a wrong description unless
  calls have overlapped; the first caller of `aal_get_system_info` is as well served as the
  others), `NodeInfoBalances` (used and free memory of a node add up to its total, unless both
  writers last wrote it together), `BestNodeIsLocal` (a process that is gone is given
  node 0, one whose node has room and an id below the number of nodes that node, and every other
  the number of nodes, whatever the comment at `numa.c:137` says; where ids have a gap that number
  may be the id of a node, which no search has chosen), `LoaderSound` (the object in use is
  open and its statistics miss nothing since it was attached, and count nothing twice unless
  it was attached twice; unless misused no object is left behind and monitoring never runs
  without one).

`TypeOK` of `libraries` is the conjunction of the eight parts'; that of `Tracking`, `Pressure`,
`UroamIpc`, `Memopt`, `KernelModule`, `ScanTimer` and `UroamEngine` is in no run: section 4 proves
it.

### Fairness

* `Tracking`: each scanner, the kthread and the insmod or rmmod task are scheduled (weak
  fairness). Nothing is assumed of the administrator or the processes.
* `KernelModule`: insmod, rmmod and kthread steps are scheduled.
* `Pressure`: strong fairness for taking the lock, since the kernel's queued spinlocks are
  first come, first served; weak fairness inside the lock and for the monitor's checks.
* `ScanTimer`: timers expire, handlers and work proceed; `del_timer_sync` keeps retrying and
  is given the moment between two handlers (strong fairness).
* `MemoptDaemon`: ticks come and writes return (weak); Go's `select` chooses at random among
  ready channels, so a pending signal is not passed over for ever (strong).
* `UroamEngine`: both threads are scheduled.
* `UroamIpc`: the server and a client past its first write are scheduled; nothing is
  assumed of a client that has connected and not written, since none of the code makes it write.

## 4. The proofs

Eight modules hold theorems, for every value of the constants that the named assumptions
allow. All invariants that a passing run checks are proved, and all action properties and refinements.

| Theorem | Establishes |
|---|---|
| `TrackingProofs!TableIsConsistent`, `QuietOnceExited`, `RegistryImplemented` | the safety properties of run `tracking`, for any number of pids and slots and any names |
| `TrackingProofs!TypeCorrect`, `ProcessAnnouncedOnce`, `SlotsAreStable` | types, and two consequences in the tracker's own terms: a pid is announced at most once per load (`AnnouncedOnce`), and a slot keeps its pid and priority (`SlotsStable`) |
| `KernelModuleProofs!TypeCorrect`, `LeaksAreExplained`, `DoubleReleasesAreExplained`, `ThreadsDoNotOutlive` | types and the safety properties of run `kernel_module` |
| `PressureProofs!TypeCorrect`, `LevelMatchesCount`, `RegisterImplemented` | types and the safety properties of run `pressure`, for any set of contexts and any counter width |
| `ScanTimerProofs!TypeCorrect`, `QueueOutlivesUse`, `UnloadLeavesNothing` | types and the safety properties of run `scan_timer` |
| `DaemonProofs!TypeCorrect`, `TicksEndRight` | types and the action property of run `memopt_daemon`, for any number of daemons and processes, any figures of the machine and any set of files followed |
| `DaemonProofs!EngineTypeCorrect`, `PassesEndRight` | the same for run `uroam_engine`: any machines, any configuration, any unwritable files |
| `UroamIpcProofs!TypeCorrect`, `AnswersAreTrue` | types and the safety property of run `uroam_ipc`, for any set of clients |
| `MemoptProofs!TypeCorrect`, `BlocksStayMapped`, `OnlyBigBlocksLeak`, `CountersBalance`, `PoolPartsDisjoint` | types and the safety properties of run `memopt_library`, for any threads, sizes, counter width and address space |
| `LibraryProofs!ContextsPutBack`, `BlocksStayOnce`, `TagsCover` | Python: settings, pool and tracker, for any number of threads, contexts, blocks, tags and objects |
| `LibraryProofs!RestoreIsHonest`, `DisksAreOwned` | Rust: the optimizers that are applied and restored in any order, and the RAM disks of any number of processes |
| `LibraryProofs!DetectionEnds`, `AnswersAreWhole` | `aal.c`: what any number of threads that detect any machine together can leave wrong, and what they can be told |
| `LibraryProofs!FiguresBalance`, `BestNodeIsOwn` | `numa.c`, for any set of node ids |
| `LibraryProofs!StatisticsSound` | the eBPF loader, for any objects and programs |
| `LibraryProofs!TypesHold` | types of all eight parts |
| `LibraryProofs!SwapReach`, `SwapTwice` | how far each byte swap of `aal.c` reaches, and that swapping twice changes nothing, for every width, length and buffer |

Assumptions: `TrackingAssumption` (at least one pid and one slot, some name, and names that
differ from the markers of the model), `PressureAssumption` (a counter with at least two
values; contexts other than the monitor), `IpcAssumption` (nobody is not a client),
`MemoptLibAssumption` (the address space and every size fit a `size_t`; a request to a pool may be
any),
`MemoptAssumption` (files that the code knows, figures that are numbers, finitely many pids,
since a tick lists the processes it finds). In `Libraries`: `ContextsAssumption` (the four kinds
of context of the code; settings are a workload and a priority), `PoolAssumption`
(finitely many threads, at least one; a limit of the list), `DiskAssumption` (finitely many
managers), `TrackerAssumption`
(finitely many tags; an object has one of them and a size), `ArchAssumption` (page size,
memory and CPU counts of a machine are numbers), `NumaAssumption` (finitely many node ids, 0
among them), `LoaderAssumption` (the program that counts is one of the object's; bounds are
numbers). Bounds of the models (`MaxMoves`, `MaxOpen`, `MaxLinks` and the like) are arbitrary
numbers in all theorems.

Arguments:

* Tracking. The inductive invariant is `TypeOK`, `ScanInv` (an update under way names a pid
  and a name; insmod scans only in its phase, the kthread only when it is there), `PhaseInv`
  (no thread outside service, no running flag from exit on, an empty table when unloaded), `TableConsistent` and `AnnouncedOnce`. `TableConsistent` is not inductive alone: an
  update must add a pid that exists (`ScanInv`), and `Unload`, which clears the table, must
  meet no scan (`PhaseInv`). `AnnouncedOnce` needs that a pid not linked is not tracked, which
  `TableConsistent` gives. `SlotsStable` follows from one step under the invariant. For the
  refinement, a refresh is a renaming of one entry since `TableConsistent` makes the linked slot
  of a pid unique, and an addition enters an unknown pid since the tree indexes every slot in
  use; unloading may forget what was told because `PhaseInv` has the count at zero by then.
* KernelModule. One part of the invariant for each kind of object: `EntriesInv` (proc, sysfs
  and socket are held exactly between the step that makes them and the one that takes them
  down, wherever the chain of labels is entered), and `PsiInv`, `HooksInv`, `TableInv`, which say
  the same of PSI objects, probes and the distance table as long as nobody has written the
  parameter (`Unwritten`), with the exceptions the code makes: the kthread that could not be
  created, the probe that has moved, the table that tracking allocates. `ThreadInv` (a thread
  told to run is there, and one that is there is told to run or being stopped) and `SocketInv`
  (the monitor has ended before the socket goes, as long as its parameter is unwritten) give
  `ThreadsOutlived`; `DoubleReleaseExplained` needs `PsiInv` at each step that releases.
  `LeaksExplained` is what is left of them at `gone`.
* Pressure. `InsideInv` says that a notifier past the entry holds the lock, that the level is
  the one it publishes, and that past the count `counted` is that level. Mutual exclusion is
  what makes level and count one notification's. For the refinement, `InsideInv` is strong
  enough (the lock is held exactly between entry and send) to have at most one write in
  progress (`WritingIs`), whose level is the one stored; what a query reads is then that one or,
  with the lock free, the published one.
* ScanTimer. `OrderInv` (the timer is armed or its handler runs only before `del_timer_sync` has
  succeeded, work is queued or runs only before the flush), `QueueInv` (the workqueue is there
  from the first step of `uroam_init` to the last of `uroam_exit`) and `HeldInv` (what is registered
  at each step).
* MemoptDaemon. The types need that no write carries the mark of a file that is gone, and that
  a file has that mark exactly when its process is gone (`DaemonsInv`, `FilesInv`, `OthersInv`).
  `TicksConverge` is a calculation with series: a series decides a file, spares it, or neither,
  and of two series one after the other the last that does not spare a file decides. Each
  routine is shown to decide or to spare KSM, the pool and the scores, case by case of what it
  tests; the scores are written in the order of `SetToSeq`, which lists every running process.
  The same lemmas serve the profiles of `UroamEngine`, where a write may fail: then the thread
  has ended, or the write was one whose error is dropped, and to no file with a setting.
* IPC. `ServedOnce` (a client has one place among backlog and server), `OpenInFlight` (the
  connection of whoever is in the backlog or served is open), `AnswerMatches` (the answer the
  server is about to send is the one that matches the client's command and `ran`) and `AnswersTrue`. A reply reaches
  the call it belongs to because a client does not connect again while its last connection is
  still queued or served.
* Memopt. `TypeOK`, `PlaceInv` (a call has the blocks its step needs), `SoleHolder` (no block
  is held by two), `MarkInv` (`used` stays within the pool's size,
  since a request is granted only if the sum, wrapped or not, does; and until one has wrapped, what
  is handed out lies below `used`), and the three properties.
  `BlocksMapped` needs `SoleHolder`, or two threads might unmap the same page, and says
  itself that extents are disjoint, which is why unmapping one page of a block takes nothing
  from another. `PoolDisjoint` needs `MarkInv`. `CountsBalance` is proved modulo `CountMod`: the
  counted blocks are those of callers and those of threads past counting and before
  uncounting; each step adds or removes one block that `SoleHolder` keeps out of everybody
  else's, and moves a counter by one up to a multiple of the width.
* Python. `ContextsInv`: while threads take turns, the settings saved by the outermost context
  are those from before, each context's saved settings are those of the one around it, and what
  is between two stores of a context is the one with one of the two changed. `PoolInv`: list,
  callers and calls under way are apart, the list has no block twice, and list and appending
  threads together stay below the limit plus the threads, which is what a test of the length
  that is stale by then can cost. `TrackerInv`: live objects and those in the hands of calls
  are apart; "current" is at most the sum over the tags, and until a call has been missed
  every tag is the sum of its objects.
* Rust. `OptimizersInv`: before the gaming optimizer writes, something has been saved, or
  `stranded` says that it could not be; until then what is saved was never its own value. `DiskInv`: the mounts over a directory are at most its owners
  and the flags dropped.
* Architecture. `ArchInv`: the description is cleared and being filled, or settled: every wrong
  field is still awaited by a thread that will store it, or one of those that a race may
  spoil (`Derived`). A thread's place has a rank and a field the rank until which it is awaited. Unless
  calls have overlapped, the one inside is alone, and what it has stored is right.
* NUMA. `NumaInv`, `WritersInv`: of a node that was not written together at most one context is
  past its first store, what it has read back is right, and without it the figures add up.
* eBPF. `LoaderInv`: the counter of each object is the allocations since it was attached, once
  for each link; unless misused, what is open is what is in use.

Sums over sets (of sizes, of counted blocks) and finite sets as such need induction, and the
library's induction theorems take an operator, which the provers cannot instantiate. Where a
proof needs it, it is done by hand for the set at hand, over `LeastOf`, `SetInduction` and
`FiniteInduction` in `LibraryProofs`: a least counterexample, or a strict subset of one, is not
one. A sum of sizes is the cardinality of a set of units, of which the library's theorems about
cardinality speak.

Only model-checked: liveness under fairness, which the prover does not handle
(`ReachableTracked`, `ExitReturns`, `UnloadEnds`, `LevelConverges`, `ExitEnds`, `ScanRecurs`,
`KnobsConverge`, `OomScoresConverge`, `SignalEnds`, `FollowsMachine`, `EveryClientServed`), and with
it whatever is about ENABLED. `TicksConverge` and `PassesConverge` are the safety part of
`KnobsConverge`, `OomScoresConverge` and `FollowsMachine`; that ticks and passes come, and that
others' writes stop, is fairness and settling.

## 5. Not modelled, and what the plan has left

Not modelled:

* the Python daemon (it cannot start), configuration, command lines and packaging (parsing,
  printing and copying), `src/compression` (a few writes and a figure that nothing calls);
* `aal.c`: atomics, barriers, prefetch, time stamps, `memcpy` and its kin, which are single
  instructions or calls of libc; the parts of the description that nothing ever fills in;
* `numa.c`: page migration, the balancer's work and the policy setter, which nothing calls,
  and `nr_pages` and `nr_free_pages`, from which nothing is computed;
* `hooks.c`: allocation records, their statistics and the ftrace callbacks, which no event
  reaches;
* `ebpf/`: the events, which go into a perf buffer nobody opens, and the pid filter and
  configuration, which change nothing;
* of modelled files, statistics, message layouts and sequence numbers, memory figures of
  processes, and the calls into AI frameworks.

What is left, in order:

1. An abstract specification of a settings daemon (the files hold what the machine's state
   calls for once both are quiet) that `MemoptDaemon` and `UroamEngine` implement.
2. Policies, NUMA binding and compression of `memopt.c`; `src/compression`.

## 6. Findings

Runs that end in a violation, each quoted in `PROJECT.json`:

* `kernel_module_cleanup`: unloading leaves objects behind, although `main.c` says that it
  cleans up in reverse order: after a parameter was written, with `enable_numa_aware` off, and
  for kprobes that have fired.
* `memopt_daemon_gaming`: with a game and an AI process every tick ends with KSM on, although
  the code says it is disabled during gaming.
* `memopt_daemon_stop`: with two daemons "Daemon stopped" is printed and both go on.

Where the code does not keep what it says, and the runs and theorems state what it does instead:

* `tracking.c:397-403`, `pressure.c:245-251`, "Stop tracking thread", "Stop monitoring thread":
  `kthread_stop` is called for a thread that the cleared flag and the wake-up just before it may
  already have let return, and whose task may be freed: `phase` and `pc` "lost" in `ExitReturns` and
  `UnloadEnds`.
* `ipc/mod.rs:142,154`: "Profile set to ..." and "Config reloaded" are answered by handlers
  (218, 229) that only log: "Stub" in `AnswersTrue`.
* `memopt.c:153`: a request for which `used + size` wraps passes the test and is granted; it ends
  far beyond the pool, and what is handed out later overlaps what was handed out before:
  `SumWrapped` in `PoolDisjoint`.
* `numa.c:103,137`, "Memory availability", "Find node with most free memory": the second loop of
  `uroam_numa_get_best_node` (138) uses `best_node`, its result, as its variable, so a process whose
  node is full is given the number of nodes, whatever other node has room: `BestNodeIsLocal`.
* `numa.c:355`: every unload with `enable_numa_aware` on cancels a work item that nothing has
  initialized: `BalanceWork` in `DoubleReleaseExplained`.
* `pressure.c:147`, `main.c:475`: with `enable_pressure_monitor` cleared after loading the monitor is
  not stopped and goes on sending through a socket that `uroam_netlink_exit` has released:
  `ThreadsOutlived`.
* `gaming/mod.rs:108`: swappiness that cannot be read or parsed is not saved and overwritten all
  the same; the next call saves the optimizer's own value: `stranded` in `RestoresWhatOthersSet`.

Observations made while modelling, which no run is about:

* `tracking.c:259`: an entry keeps the class and priority of the first name of its pid; entries
  are never removed. `ProcessRegistry` states that it is so. `tracking.c:299`: the reference that
  `find_get_pid` takes is put before the pid is read again.
* `memopt.c:98,104`: `memopt_free` unmaps one page, `memopt_realloc` copies one page, whatever the
  sizes; `total_freed` is never updated.
* `numa.c:116`: nothing calls `uroam_numa_get_best_node`, and the reference that `find_get_pid` takes
  is never put. `numa.c:40`: the number of nodes is
  taken for a bound of their ids, so with a gap in the ids the last nodes have no figures.
  `numa.c:61`: every entry of `distance` gets the last column of the node's row. `numa.c:263` does not compile (`MPOL PREFFERRED`), nor
  does `hooks.c` where it assigns `kp_mmap.kp.symbol_name`.
* `gaming/mod.rs:185`: "Restored gaming settings to defaults" is logged when only swappiness has
  been written back; what was saved is kept for ever, so that a restore after a later game
  undoes what the administrator has set since.
* `gaming/mod.rs:126`, `idle/mod.rs:104`: `[always]` and `[madvise]`, in brackets, are how the
  kernel shows the mode and not what it takes; the call ends there, and `is_optimizing`
  stays set, so that the idle optimizer does nothing more until it is cancelled.
* `ramdisk/mod.rs:67`: a directory that exists counts as mounted. After `cleanup`, which leaves
  the directory, `init` mounts nothing; the test `test_ram_disk_manager_creation` depends on
  whether `/tmp/uroam-build` is there.
* `core.py:532`: contexts of two threads that overlap without being inside one another leave
  the settings of the one for good. `core.py:671`: the pool's `allocated` goes negative
  when blocks come back that `malloc` gave out; its `+= 1` is not atomic.
* `ai_hooks.py:105`: disabling one optimizer switches the tracker off for the others;
  `onnx_optimizer.optimize_inference`, which `inference_context` calls, does not exist.
* `uroam_daemon.py:311`: `CacheManager(config)` raises a TypeError, so the daemon never starts.
* `aal.c:230`: the digits of "MemTotal: n kB" are already behind the pointer when the number is
  parsed, so that every node has 0 and node 0 all of the machine's memory; `node_of_cpu` is never
  filled in. `aal.c:56`: the test for CPUID leaf 7 looks at the processor signature instead of
  the highest leaf. `aal.c:507`: `aal_byte_swap128` reads and writes one word beyond a buffer of
  an odd number of words (`SwapReach`).
* `ebpf_loader.c:128`: a failed attachment is hardly noticed, since a pointer is compared with 0,
  and its link is lost; `ebpf_get_stats` never writes `total_free`.
