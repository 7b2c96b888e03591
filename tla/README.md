# TLA+ models of the zCore tutorial kernel objects

This directory holds TLA+ models of the kernel-object layer of the zCore
tutorial (a small Zircon-compatible kernel in Rust), the TLC configurations that
check them on small instances, and proofs, checked by TLAPS, of theorems about
them that hold for every size of the system.

The repository contains one snapshot of the code for each chapter
(`code/ch01-01` ... `code/ch04-03`). The models are of the last one,
`src/code/ch04-03/`. The `...Chapters` modules carry them back to the snapshots
before it ([how](#the-chapters-modules---the-earlier-snapshots)). Paths below
are relative to ch04-03 where they name no chapter; `zo/` stands for
`zircon-object/src/`, `sy/` for `zircon-syscall/src/`.

Contents: [the system](#the-system) · [hard behaviours](#what-is-hard-about-it) ·
[modules](#modules-and-the-code-they-model) · [runs](#runs-and-what-they-show) ·
[fairness](#fairness) · [what the code does wrong](#where-the-code-falls-short) ·
[proofs](#proofs) · [only checked](#what-is-only-model-checked) ·
[not modelled](#what-is-not-modelled) · [plan](#plan)

## The system

The kernel is a library: objects behind `Arc`, each with one spin lock
(`spin::Mutex`) around its mutable fields; user threads run as async tasks
of an executor with host threads under it. Several kernel threads can therefore
be inside the same object's methods, and what is atomic is a section of one lock.

| Component | State | Operations | What makes it correct |
|---|---|---|---|
| **Job** (`zo/task/job.rs`) | parent, weak children, processes, killed flag, policy | create child, add and remove process, kill, terminate, drop | a kill reaches everything below; a killed job leaves its parent when it is empty and not before |
| **Process** (`zo/task/process.rs`) | job, status and exit code, threads, handle table, policy | create, start, exit, kill, suspend, resume, add and remove thread, handles | the exit code is final; exit reaches every thread; the last thread ends the process |
| **Thread** (`zo/task/thread.rs`, `thread_state.rs`) | state, context, suspend count, waker, killed flag | create, start, kill, suspend, resume, wait for run, end running | the context is with one runner at a time; no wake-up is lost; suspended threads do not run; killed ones die |
| **Thread function** (`zircon-loader/src/lib.rs`) | the async loop of each thread | wait for run, enter user code, handle the trap | as above |
| **Job policy** (`zo/task/job_policy.rs`) | effective and own policies | set basic, merge, inherit | a child never decides otherwise than its parent |
| **Handle table** (`Process`, `zo/object/handle.rs`) | map from values to handles with rights | add, remove, look up with type and right | a handle is in one place; rights are checked |
| **Channel** (`zo/ipc/channel.rs`) | a queue and a weak peer for each end | create, read, checked read, write, drop | messages arrive once, in order; a closed peer is noticed |
| **Channel system calls** (`sy/channel.rs`) | - | create, read, write | handles move with messages or stay; none is in two tables |
| **Debug log** (`zo/debuglog.rs`, `sy/debuglog.rs`) | one global buffer, a position in each reader | create, write, read | each reader gets each record once; no slice out of range |
| **VMAR** (`zo/vm/vmar.rs`) | a tree of regions with children and mappings, one page table | allocate, map, unmap, protect, clear, destroy | siblings are disjoint; the page table agrees with the mappings; a destroyed tree is destroyed completely |
| **VMO** (`zo/vm/vmo/`) | frames, length, cache policy, pins, mapping count, family of weak pointers | make, copy, slice, resize, set policy, map, pin, drop | slices stay inside their frames; shared, mapped or pinned frames keep their policy; the family survives drops |
| **Memory** (`kernel-hal-unix/src/lib.rs`, `zo/vm/vmo/paged.rs`, `slice.rs`) | the queue of free frames, the bytes of frames, the frames of each VMO, the page table | take, zero, copy and give back frames; read, write, zero, resize; map and unmap pages; stores of user code | a frame has one owner; a VMO's bytes change only by what names it; a page shows its VMO's frame |
| Object base (`zo/object/`) | koid counter, names | new id, downcast | ids are unique |
| Resource (`zo/dev/resource.rs`) | immutable | two range checks | - |
| Loader (`zircon-loader/`) | - | loads images, makes the first process | straight-line start-up code |
| HAL (`kernel-hal*/`) | host memory file, host threads | mmap, spawn, pointers to user memory | unsafe, below the models |

How they interact:

* a job holds processes, a process holds threads; children hold strong
  references up, parents hold weak references to child jobs. `Job::kill` calls
  `Process::exit` calls `Thread::kill`; in the other direction the last
  thread's `CurrentThread::drop` calls `Process::remove_thread`, that
  `Process::terminate`, that `Job::remove_process`, and the last process
  `Job::terminate` and the parent's `remove_child`. Some of these calls are made with the
  caller's lock held, some not; this decides every race and deadlock of the tree;
* `Thread::start` spawns the thread function; it awaits `wait_for_run`, whose
  waker `resume` and `kill` call;
* `Process::create` takes the policy of its job;
* a channel system call goes through the handle table of the calling process, takes
  handles out of it and puts them into a message or the other way round; a
  dropped handle may drop a channel end, which drops its messages and their handles;
* a mapping holds its VMO and writes the page table; a slice holds the frames of
  the VMO it was cut from; frames go to and from one global queue (`AVAILABLE_FRAMES`).

No system call for tasks or memory exists in this version: user code reaches
only channels and the debug log (`sy/lib.rs`). The task API is called by the
loader and the tests, and is written to be called from several threads, and the models of jobs, processes, threads,
policies and regions let it. VMOs are used by the single-threaded start-up code
only, and the models of VMOs and of memory make each call one step.

## What is hard about it

`PROJECT.json` lists the hazards at their lines. In short:

* **kill against creation**: what is added to a job or process while it is being
  killed must be refused or killed too (`job.rs:188`, `process.rs:253`);
* **snapshots**: `Job::kill` works on a list that is out of date as soon as the
  lock is dropped (`job.rs:195`);
* **who ends an empty job**: three places test for emptiness, each drops its lock
  before it acts (`job.rs:142`);
* **lock order**: locks are taken upwards when things end and downwards when they
  are killed (`job.rs:180`, `thread.rs:285`); a region tree is locked downwards, and
  its destruction goes up again (`vmar.rs:318`);
* **the context lent to the runner**, the waker and the suspend count
  (`thread.rs:314-316`, `zircon-loader/src/lib.rs:168`);
* **checked and then taken**: two readers of one channel end (`ipc/channel.rs:59`), a
  handle closed between two steps of a write (`sy/channel.rs:97`);
* **one step of several failing**: handles removed one by one (`process.rs:94`)
  and removed before the checks of a write (`sy/channel.rs:85`), a policy list with a
  conflict in the middle (`job.rs:117`), a region tree whose destruction fails
  halfway (`vmar.rs:318`);
* **numbers**: handle values that wrap, log records and read buffers, zero lengths and
  touching ranges of regions, slices of slices, pin counts;
* **used frames**: a frame goes back to the queue with its old bytes and is handed out again to be
  zeroed, copied over or, in `set_len`, neither (`kernel-hal-unix/src/lib.rs:173`); the page table is not told when a VMO loses
  a frame (`paged.rs:99`), nor is the offset of a slice known to it (`slice.rs:58`);
* **liveness**: a killed job must in the end leave the tree, a killed thread that
  sleeps must be woken to die, and a start must not undo a kill (`thread.rs:127`).

## Modules and the code they model

Each operation of the code is one action, or one action per critical
section when it takes several locks in a row. "Keeps" a lock means that the code
calls on while it holds the guard; `lock` in a model records just these.

### TaskTree - the life of jobs, processes and threads

`TaskTree` models `job.rs`, `process.rs` and the life cycle in `thread.rs`. An
*actor* is a kernel caller or the runner of a thread. `pc[a]` is the
section the actor runs next and the object it is on, `victims[a]` is what its nested
`Job::kill` loops have still to kill. A section that calls into another object
while it keeps its own lock ends at the call, and `lock` keeps the holder. Releases are
merged with the step before them. `suspends`, `tstate` and `runner` are the parts
of a thread that matter here; `ThreadRun` has the rest. A runner ends (`LoopEnds`) when its loop sees Dying, and in any
state of the thread when it returns or panics over a trap the loader does not know; `DropThread` is the drop of
its `CurrentThread`, whatever the reason.

| Actions | Code |
|---|---|
| `CreateJob`, `CreateProcess`, `CreateThread` | `Job::create_child`, `Process::create` and `Job::add_process`, `Thread::create` and `Process::add_thread` |
| `StartProcess`, `StartThread`, `ThreadStart` | `Process::start`, `Thread::start` |
| `KillJob`, `JobKill`, `KillLoop` | `Job::kill`: the mark and the snapshot, then the loop |
| `DropJob`, `JobTerminate`, `RemoveChild`, `RemoveProcess` | `Job::drop`, `terminate`, `remove_child`, `remove_process` |
| `ExitProcess`, `ProcExit`, `ProcKilling`, `ProcTerminate` | `Process::exit`, its loop over the threads, `terminate` |
| `SuspendProcess`, `ProcSuspending`, `ResumeProcess`, `ProcResuming` | `Process::suspend` and `resume`, with the process lock kept |
| `KillThread`, `ExitThread`, `RunThread`, `Trap`, `DropThread`, `RemoveThread` | `Thread::kill`, `CurrentThread::exit`, the turns of the runner, `CurrentThread::drop`, `Process::remove_thread` |

`TaskLife` is the abstract life cycle: jobs and processes that are up, where
they hang, and what may end when. `TaskTreeLife` maps `TaskTree` to it.
`MCTaskTree` has the sets of calls the runs allow.

### ThreadRun - one thread and its runner

The state of one thread (`thread.rs`, `thread_state.rs`) with the loop of the thread
function: the context lent out and given back (`context`), the suspend count, the
waker slot, the executor's scheduled flag, and the assertions and unwraps as a
panic. `Restart` says whether `start` may be called on a running thread; the
run here leaves it out, since the code then panics (see below).

### JobPolicy - policies of jobs

`set_policy_basic` in its modes, `merge`, the inheritance at creation, with
process creation split where the code drops the lock. Conditions and actions are
model values. `MCJobPolicy` has the lists that are set.

### ChannelSyscall, Pipe, ChannelPipe - channels, their system calls, handle tables

`ChannelSyscall` is one composed model, since none of the three parts is
interesting alone: the handle tables of processes, both ends of a channel,
and the three system calls section by section with all their early returns. A
message is its length and its handles. `Pipe` is what a channel promises: two
queues, each written at one end and read once and in order at the other, until
an end is closed. `ChannelPipe` maps the first to the second.

### DebugLog - the kernel log

`create`, `write` with the cut to 224 bytes, `read` with its two locks (the
reader's position and the global buffer). Records are lengths; header, padding
and truncation are computed as the code does, since they decide where the next
read begins.

### Vmar - address regions

Regions form a tree; each has child regions and mappings. `unmap`, `clear` and
`destroy` go down the tree with every lock on the way kept: `call[a].frames` is
the stack of `destroy_internal`. `Descend` begins the next child, `Fail` is the
early return on a dead child, `Leave` the end of one level, and `Detach` the last step of
`destroy`, which takes the parent's lock after its own is free. `Forget` is the last drop of a region.
`lost` is history: what a failed call had taken off a list and did not destroy.
A length is a number of pages; allocation anywhere stands for both a chosen
offset and one `find_free_area` finds, since both pass the same test.

### Vmo - memory objects

A `VmObject` has a number, its koid, so that older ones are smaller. What it wraps is
either frames of its own or a slice; `base` is the VMO whose frames these are, `off` the offset of
the slice all the way down. The frames live as long as anybody
shares them, also when their own `VmObject` is gone. Parents and children are the weak
pointers of `VmObjectInner`, with the pruning the code does and no more. `pinned` is the counter, modulo `Word`; `Pin` adds to it and `Unpin` takes from it without
asking, as the code does. `pin` and `miscounted` are history: who pinned what, and the objects whose count is no longer that of their pins, because
a range was unpinned that nobody had pinned as a whole, or the count ran over.

### Memory, MemoryObjects, MemoryView - frames, bytes and the page table

`Memory` models what is behind VMOs: `free` is the queue of `AVAILABLE_FRAMES`, `byte` the file behind
the frames (a frame that is freed keeps its bytes), `frames` those of each paged VMO, `slice` and `size` (the content size) the
rest of a VMO, `mapping` and `table` what user code sees. `BlocksOf` and
`ForEachPage` cut a range of bytes into pages as `BlockIter` and `for_each_page` do; `Store` is user code
writing through the page table. `stray` is history: pages whose frame is not the one they
should show, because a mapping of a slice ignores its offset or because `set_len` took the frame away.

`MemoryObjects` is what a VMO promises its users: bytes of its own, zero when it is new, a copy of the parent's for a child,
shared only with slices and mappings. `wild` are its two exceptions. `MemoryView` maps the first to the
second, the bytes of a VMO being those of its frames in a row.

Memory and `Vmo` divide `VmObject` between them: `Vmo` has the family, cache policies, mapping counts and pins, `Memory` the
frames and bytes. Addresses of mappings are chosen in `Vmar`; `Memory` maps any free pages.

### The Chapters modules - the earlier snapshots

The repository keeps the kernel as it stood at the end of each chapter, and a reader of the tutorial compiles each of them. Seven modules say what
the models are worth there:

| Module | Chapters | What differs from ch04-03 |
|---|---|---|
| `TaskChapters` | 02-02 ... 04-01 | 02-02: threads do not run, `Process::exit` sets the status and no more |
| `ThreadChapters` | 02-03 ... 04-01 | 04-01: the thread function enters user code once, without the test of the state, and panics when it is back |
| `PolicyChapters` | 02-02 ... 04-01 | nothing |
| `ChannelChapters` | 01-02 ... 04-01 | no system calls, no checked read; 01-02 and 01-03: handles get the lowest free value, one at a time |
| `VmarChapters` | 03-04, 04-01 | nothing |
| `VmoChapters` | 03-02 ... 04-01 | 03-02: nothing counts mappings |
| `MemoryChapters` | 03-02 ... 04-01 | 03-02: no page table |

A module names the *parts* of its component (groups of actions, one for a function or a few neighbours), and for each chapter a
definition `<Part>_<chapter>`, a next-state relation and a `Spec_<chapter>`.
**Where the source of a part is, line by line, the text of ch04-03, the chapter's definition is an alias of the part and says
nothing new by itself**; its entry in the map names the chapter's own lines, and the two texts were compared mechanically when the map was made. Most of the mapped lines of earlier chapters are of
this kind: they are covered because the same code is modelled in ch04-03, not because it is modelled a second time.
Where the text differs the definition is written from the chapter's own lines. What ties a chapter to the checked models is a theorem for
each `Spec_<chapter>` (see [proofs](#proofs)): that it equals the specification of ch04-03, or implies it, or keeps its
invariant. A chapter's definition that is changed and no longer agrees with the others shows as a proof that fails.

## Runs and what they show

All runs end with no error but the two named *violation*. "States" are distinct
states.

| Run | Instance | States | Shows |
|---|---|---|---|
| `tree` | 3 jobs, 1 process, 1 thread, 2 callers, kills and exits of jobs and processes, fairness | 732,758 | a kill reaches all processes and jobs below (`KillReachesProcesses`, `KillReachesChildren`), an empty killed job leaves (`EmptyKilledJobLeaves`), a circle of locks needs threads that end on their own (`OnlyOwnEndsBlock`), every step is one of the abstract life cycle (`LifeSpec`), and a killed job leaves the tree unless it holds a thread that no kill can end or such a circle stops the kill (`JobTerminates`) |
| `threads` | 1 job, 1 process, 2 threads, 2 callers, every call | 196,241 | exit codes are final (`ExitIsFinal`), exit reaches every thread (`ExitReachesThreads`), dead threads and exited processes leave (`DeadThreadLeaves`, `EmptyExitedProcessLeaves`), and a circle of locks closes in one place only (`OneDeadlock`): circles do occur in this run |
| `deadlock` (violation) | 1 job, 1 process, 1 thread, 2 callers, the calls of `tree` | - | the lock order of `thread.rs:285` and `process.rs:202`: a thread that ends on its own while its process exits |
| `run_once` | one thread, 3 suspend tokens, fairness | 150 | no lost wake-up, no missing context, killed threads die, resumed ones run |
| `policy_set` | 3 jobs, 1 process, 2 callers | 69,880 | a child's policy contains its parent's, an own policy never overrides an inherited one |
| `policy_race` (violation) | the same, 1 caller | - | a process created from a policy that is being replaced |
| `channel_handles` | 2 processes with a thread each, 4 handles | 783,384 | a handle is never in two places, never vanishes unless an error path drops it, never passes without the transfer right |
| `channel_order` | 2 threads of 1 process, queues of 2, values that wrap | 856,461 | both ends behave as `Pipe` under concurrent reads, writes, closes and sends of an end |
| `debuglog` | 2 threads, 2 readers, 3 records | 37,815 | every reader gets each record once, no slice out of range |
| `vmar` | 3 regions, 2 mappings, 2 callers, 2 pages | 512,032 | siblings apart, page table right, no region lost but by a failed call, no circle of locks |
| `vmo` | 3 VMOs, lengths 0 and 2, 1 mapping, 2 pins, a counter of 5 values, 1 object unpinned wrongly | 878,246 | slices inside their frames, family whole, cache policy stable under sharing, mapping and pinning, and the count of pins that of the pages pinned as long as nobody unpins what is not pinned |
| `memory` | 2 frames of 2 bytes, 2 VMOs of up to 2 pages, 1 mapping, 2 pages | 36,978 | a frame has one owner (`FramesOwnedOnce`), pages show their VMO (`PagesShowTheirVmo`), every VMO behaves as bytes of its own (`ViewSpec`), a child has what its parent had (`ChildIsSnapshot`) |

Bounds and why they are enough:

* *Task tree.* The races are between two actors on one object or on an object and its
  parent. Three jobs give a chain (grandparent, parent, child: two levels of `terminate` going up)
  and a fan; two threads give "the last one out" against "one left";
  two callers plus the runners give every pair of operations. `tree` makes do with one thread, `threads` with one job, because
  neither part's properties mention the other's size.
* `MaxSuspend` bounds the suspend tokens at a time: in `TaskTree` one, which is enough to put a runner to sleep, in `ThreadRun`
  three, so that a resume that takes the last differs from one that does not.
* *Channels.* A write takes up to two handles against a maximum of one for a message, so that too many
  occur; the key space is two values, so that the counter wraps at once and a value
  is used again while an old one is live (in the code after 2^30 handles). Queues of two show order.
* *Debug log.* Lengths 0, 3 and 300 are the empty, the unaligned and the truncated text.
* *Regions.* Two pages are enough for neighbours that touch, for full and partial overlap and for
  nesting; with three regions a destruction can meet a dead grandchild.
* *VMOs.* A VMO, its child and its grandchild are what a drop in the middle needs. Two pages let a slice begin
  behind the start, and let a pin through a slice pass the `>=` of its range test. `MaxCount` bounds the
  mapping count, which never goes down. `MaxMiscounted` bounds the objects that may have a range unpinned which is not pinned: one,
  so that the others must stay right beside it. `Word` stands for the range of a `usize`; two pins of two pages just fit into five values, and a wrong
  unpin wraps below zero. The constraint `FewUses` keeps mappings and pins apart: the code never looks at both but to refuse a new policy on account of either.
* *Memory.* Two frames for two VMOs of up to two pages are few enough that they run out, are refused and come back in another order; both
  VMOs and user code compete for them. Two bytes to a page give writes that end inside a page, at its end and behind it.
  One mapping is enough to show a frame to user code after it has gone to the other VMO.

The chapters have no runs of their own: those that equal ch04-03 have its runs, and of the others the theorems say what holds.

`CHECK_DEADLOCK FALSE` stands in the runs because the systems may stop: everything created has been
killed, every pool is used up, or nobody calls. Who may wait for a lock for ever is said by
invariants instead (`OneDeadlock`, `OnlyOwnEndsBlock`, and `NoDeadlock` of regions).

## Fairness

* `TaskTree`: weak fairness of `Continue(a)` - an actor inside an operation takes its next section.
  All locks are spin locks held for finitely many steps, interrupts are not modelled, and the host
  schedules its threads. Weak fairness is enough since no counterexample needs a lock that is free again and
  again but never taken. Weak fairness of `RunThread(t)` and `DropThread(t)` - the executor polls a task that was woken. Weak
  fairness of `Trap(t)` - user code comes back to the kernel. This last one is an *assumption on the environment*: the
  kernel cannot interrupt user code in this version (no timer), so a thread in an endless loop of its own
  is never killed.
* Of the runs of `TaskTree` only `tree` uses `FairSpec`; its safety properties do not depend on it.
* `ThreadRun`: weak fairness of the runner's steps when it is scheduled, on the same grounds.
* Nothing is assumed of callers: no property needs anybody to call anything.

## Where the code falls short

Two disagreements with what the repository says are shown by a run:

1. **Deadlock of an ending thread and a killed process** (run `deadlock`). `CurrentThread::drop`
   keeps the thread's lock while `Process::remove_thread` waits for the process's lock;
   `Process::exit` keeps the process's lock while `Thread::kill` waits for the thread's. A kill of the
   thread is not even needed: its runner may end in the state Running, by a panic over a trap that the loader does not know
   (`zircon-loader/src/lib.rs:189`) or a return, while its process or job is killed. `task/mod.rs:12-13` promises that a killed task will terminate.
2. **A process with an outdated policy** (run `policy_race`). `Process::create` reads the effective
   policy (`process.rs:64`) before `add_process` takes the job's lock again. A `set_policy_basic` in between finds the
   job empty and succeeds; `job.rs:103-104` promises the new policy to every new child after that.

Others came up while modelling; the models contain the behaviour, but no run is spent on them:

* *A start undoes a kill.* `Thread::start` sets the state to Running whatever it was (`thread.rs:127`), so a thread killed
  before its start, or between the two sections of `Process::start`, runs, and its runner never hears of the kill. `Stranded` in `JobTerminates` names such threads.
* *Suspended, and in a system call.* A suspended thread whose context is back is reported Suspended (`thread.rs:57-71`) and may be read and
  written, while its runner is still handling the system call and will write the result into the same registers;
  `thread.rs:355` calls the state "Stopped due to `zx_task_suspend()`". `ThreadRun` has such states.
* *Unpinned by somebody else.* `unpin` takes pages off one counter without asking whether the range was
  pinned (`paged.rs:207`), so one unpin too many lets the cache policy change under a pin; the comment in
  `set_cache_policy` (`paged.rs:163`) demands "vmo has no pinned pages". `miscounted` names the objects it happens to.
* *A thread in a terminated process.* The last thread's `remove_thread` drops the lock before it terminates the
  process (`process.rs:266`); a thread added and started in the gap lives on in a process that has left its job.
* *Resume fails its assertion.* A thread created while its process is suspended has no token, so
  `Process::resume` (`process.rs:346`) runs into the assertion of `Thread::resume` (`thread.rs:249`).
* *A second start.* `Thread::start` (`thread.rs:120`) accepts a running thread and spawns a second runner; the second
  `wait_for_run` finds no context and panics. `ThreadRun` with `Restart = TRUE` has this.
* *Messages that keep themselves alive.* An end sent into its own queue, or two ends into each other's, are
  never freed. (The test in `sys_channel_write` for a channel sent into itself is redundant: the handle was taken out of the table before the channel is looked up.)
* *Regions lost by a failed call.* When `unmap`, `clear` or `destroy` meets a child that another thread has just destroyed, it
  returns `BAD_STATE` after draining its lists: the remaining children stay mapped but are on no list, and their
  addresses can be given out again. `PageTableOK` is therefore stated for the time before the first such failure.
* *VMOs.* `remove_mapping` is never called, so a VMO that was ever mapped never again accepts a cache policy (`vmo/mod.rs:317`);
  a slice's range test uses `>=` and refuses its last byte (`slice.rs:22`); `commit_pages_with` of a slice ignores its offset
  (`slice.rs:58-63`), so a mapping of a slice shows the first pages of what it was cut from; `set_len` shrinks under
  mappings and pins (`paged.rs:99`), so a page goes on showing a frame that is free and later another VMO's. `Memory` has both:
  `stray` and `wild` name those pages, and `PagesShowTheirVmo` and `ViewSpec` say that the damage is theirs only. Also, `set_cache_policy` of a slice does nothing and reports success.
* *An exited process in ch02-02* never leaves its job, and with it a killed job its parent: `Process::exit` there
  only sets the status. Later chapters have `terminate`.
* *A short read of the log* consumes the whole record (`sy/debuglog.rs:84`), and one with length zero reports that there was none.
* *A weak child upgraded under the job's lock* (`get_child`, `job.rs`): if the temporary `Arc` turns out to be the last, `Job::drop` waits for
  the lock its own caller keeps. The models take the upgrade and its drop for nothing, as only queries do it.

## Proofs

Everything proved holds for *all* sizes of the constants, under the assumptions the modules name (the pools
are disjoint, `None` is in none of them, bounds are natural numbers). In every proof module one definition gathers the
inductive invariant; a lemma for each action shows that it is kept, and the theorems follow by `PTL`.
The steps are cut small enough for the provers' default time limits, with room for a slower machine; the few leaves that need more
(sequences of frames, nested quantifiers over frames of calls) name their backend and a longer limit (`SMTT(30)`, `ZenonT(60)`).

| Module | Theorem | Says |
|---|---|---|
| `TaskTreeProofs` | `TreeCorrect` | `TypeOK` and `TreeOK`, the links of the tree and every actor's work |
|  | `KillReaches` | `KillReachesProcesses` and `KillReachesChildren` |
| | `ExitFinal` | `ExitIsFinal` |
| | `EmptyOnesLeave` | `EmptyKilledJobLeaves` and `EmptyExitedProcessLeaves` |
| | `ThreadsEnd` | `ExitReachesThreads` and `DeadThreadLeaves` |
| | `TreeImplementsLife` | `TaskTree` implements `TaskLife` (`LifeSpec`) |
| | `WaitsForEndsOnly` | `OneDeadlock`, for every call |
| | `OwnEndsBlock` | `OnlyOwnEndsBlock`, if no call kills or suspends single threads (`Quiet`) |
| `ThreadRunProofs` | `RunsSafely` | without a second start: `NoLostWakeup`, `NoPanic`, and no runner of a dead thread (`DeadHasStopped`) |
| | `ContextLentToOne` | `LentToOne`, for any number of starts |
| `JobPolicyProofs` | `PoliciesInherited` | `PolicyInherited` and `OwnDoesNotOverride` |
| `ChannelProofs` | `ImplementsPipe` | `ChannelSyscall` implements `Pipe` |
| | `OnlyTransferable` | `TransferNeedsRight` |
| | `HandlesOnce`, `NothingDropped` | `OnePlace`, `HandlesNotDropped` |
| `DebugLogProofs` | `ReadsStayInside`, `ReadsEachOnce` | `NoSliceOutOfRange`, `EachRecordOnce` |
| `VmarProofs` | `SiblingsApart` | `SiblingsDisjoint`, zero lengths included |
| | `DeadLeave`, `LiveReachable` | `DeadChildLeaves`, `LiveIsReachable` |
| | `RegionsFree`, `TableTrue` | `NoDeadlock`, `PageTableOK` |
| `VmoProofs` | `SlicesInside`, `FamilyWhole` | `SliceInside`, `FamilyOK` |
| | `SharedStaysCached`, `MappedStaysPut` | `CachedWhileShared`, `MappedKeepsPolicy` |
| | `PinsCounted`, `PolicyChangesCareful` | `PinsAccounted`, `PolicyChangesUnused` |
| `MemoryProofs` | `FramesOnce` | `FramesOwnedOnce` |
| | `PagesShow` | `PagesShowTheirVmo` |
| | `PagesOfRange` | what `for_each_page` hands on for any range of bytes |
| | `ChildIsCopy` | `ChildIsSnapshot` |
| | `MemoryImplementsObjects` | `Memory` implements `MemoryObjects` (`ViewSpec`) |

For the earlier chapters, in the same modules:

| Theorems | For | Say |
|---|---|---|
| `TreeOf_<c>`, `RunnerOf_<c>`, `PoliciesOf_<c>`, `RegionsOf_<c>`, `VmosOf_<c>`, `MemoryOf_<c>` | the chapters with the text of ch04-03 | `Spec_<c>` is `Spec`: what is proved or checked of it holds there |
| `VmosOf_03_02`, `MemoryOf_03_02` | ch03-02 | `Spec_03_02` implies `Spec` |
| `TreeOf_02_02` | ch02-02 | `TypeOK` and `TreeOK` hold, though exits do less |
| `RunnerOf_04_01` | ch04-01 | `LentToOne`, and after one start `NoLostWakeup`, `NoPanic`, `DeadHasStopped`, though the thread function is another. (`NoPanic` is about the context being there; the panic the function ends with is its normal end.) |
| `PipesOf_<c>` | ch01-02 ... ch04-01 | `Spec_<c>` implements `Pipe` |

The arguments:

* **Task tree.** `TreeOK` needs the types and the shape of every frame (which label goes with which kind of object). The kill
  theorem adds that a job is marked in the same section that takes the snapshot, and follows a member from the snapshot
  through the batches of `victims` to its `proc.exit` frame. `ExitIsFinal` needs that `Process::terminate` keeps the code of an
  exited process, and that only a process in `Init` starts.
* **Ends of tasks.** Whether an empty job leaves is decided by three tests that drop their lock before they act, so "empty, killed and
  on the list" is not inductive: `EndsInv` says of every actor what it has seen and still owes (`Knows`). Who runs `terminate` knows
  that its object had ended, and what has ended stays so (`Steady`); every step that empties a killed job therefore leaves an actor on its way to take it out. For
  threads, `StartsOnce` adds that a thread has one runner, whose last section takes it off the list.
* **The refinement of `TaskLife`.** With `EndsInv` each section maps to one step or to none: a kill's mark is `DoomJob`, the removal from a list
  `LeaveJob` or `LeaveProc`, most other sections stutter. What the abstract step demands, that nothing is below a job that leaves, is `Knows` of the actor that removes it.
* **Locks of the tree.** `LocksInv` says who keeps which lock. Among jobs a circle would have to go up through parents for ever, and the
  tree is grounded (`Acyclic`): whoever keeps a job's lock keeps its parent's too, or wants it (`Holders`). A process is kept by an actor on its way up or
  by one that walks over the threads (`Walkers`), and a thread's lock is kept only by its own end (`EndsLocked`). So in every
  circle somebody walks and waits for threads that end, and those want the process that the walker keeps: that is `OneDeadlock`, with
  every call allowed, and the run `deadlock` shows that the case is real. `Quiet` leaves out the calls that kill or suspend single threads. A kill then reaches a
  thread only from an exit of its process, which has marked the process before it walks (`Killers`, `KilledThreads`), so no walker has a killed thread before it: those in its way have ended
  on their own, and that is `OnlyOwnEndsBlock`. `tree` is a run of that kind.
* **Thread run.** The invariant relates the place of the runner, the context, the waker and the suspend count: a runner
  that sleeps has left its waker, and whoever may wake it finds it.
* **Policies.** A child's effective policy contains its parent's, and a parent with children cannot be set; a caller between
  two sections carries a policy that was its job's at some time.
* **Channels.** The mapping takes the queues as they are and calls an end closed when its object is dropped. The invariant has the types of
  calls in progress, that what is dropped is in no queue or table, and that a call in its second half still holds the end it looked up. A handle's places
  are counted by `Single`: once in the tables, the calls and the queues, and in one kind of place only. It holds because every section takes handles from one place and
  puts them into another, which must not lose one there: `RoomOK` says that a list on its way fits into a table. `HandlesNotDropped` follows
  action by action from the same invariant.
* **Debug log.** Positions are the sums of the sizes of whole records; the buffer only grows at its end. The arithmetic of
  padding is one lemma about numbers modulo four.
* **Regions.** Siblings stay apart because every insertion tests against all members under the region's lock and lists are otherwise only made
  shorter; the invariant adds that a place is on one list only, and that of its own parent. The two theorems
  about destruction use what each call owes: the children it has taken off a list and not come to.
* **Locks of regions.** A call keeps the locks of a path down the tree (`Chained`) and waits for the region below its end, or, in the last step of `destroy`,
  for a parent while it keeps none. So in a circle every region kept would have one below it that is kept too, and in a forest no set of regions is like that (`Grounded`).
* **The page table.** A mapping's pages lie in those of every region above it, and where the paths of two mappings to the root part, siblings lie apart. "Above" has no recursive
  definition here: the ancestors of a region (`Anc`) are what every set closed under parents has. As soon as a call has failed, the siblings of a lost region may overlap it; so `Nested` and
  `TableOK` are kept only while `lost` is empty, with `Rooted` (every region comes up to the root) kept always.
* **VMOs.** A slice's frames belong to an earlier VMO that is no slice and cannot be resized. For the cache policy the
  list of children of that VMO must show that its frames are shared, although the slice may be a slice of a slice. The
  invariant `PathOK` says that between a slice and the living owner of its frames there are only slices of
  the same frames; the *oldest* of them is then a child of the owner (`SharedHasChild`). The least element comes from
  the well-foundedness of strict inclusion of finite sets. Drops keep `PathOK` since children pass to
  the parent. For pins, an object's count is the number of its pinned pages, a page counted once per pin: the union of the
  pins' pages. A sum over pins would need induction; the cardinality of that union changes by the pages of one pin. An object whose count has gone wrong
  stays in `miscounted` until it is gone, and the theorems on pins speak of the others.
* **Memory.** Frames move between owners, the queue and the VMOs, always as a stretch at the end of one that is appended to another; one
  lemma says that such a move keeps every frame in one place (`OnceByPlace` and those after it). The invariant
  `Types /\ Kept /\ FramesOwnedOnce` adds that a slice lies inside an object that is held and keeps its length, and that who is held by nobody has no frames.
  For the page table, `PageInv` adds that mappings hold their VMOs and lie apart (`Apart`); a page that is not stray then changes only with its own mapping.
* **The bytes of memory.** `BlocksOf` is a function defined by recursion over a range. Its closed form (`BlocksClosed`: the range is cut at the
  multiples of `PageSize`) is proved on the one range a call has, where the smallest counterexample from the end is a contradiction; from it `PagesOfRange`, and with a frame
  being in one place, what a write leaves in every frame (`StoredBytes`). Bytes of a VMO are then told by page and place in the page (`Place`), which is where
  `\div` and `%` end.
* **The refinement of `MemoryObjects`.** Besides the above the invariant has `BytesInv`: bytes are bytes, lengths and content sizes stay in the bounds of the model, and
  a page is only filled by a mapping (`Covered`). A write changes the bytes of the object whose frames it reaches and, as no frame has two owners, of no other
  (`ChangedBytes`). A new VMO or child takes frames nobody has; `set_content_size_and_resize` grows and zeroes in one step of `Resize`. `set_len` makes wild
  just the pages that a mapping fills from behind the new end (`PagesBehind`). A store through a stray page hits one byte of one object, or a free frame and nothing that can be seen.
* **Chapters.** The parts put together are just `Next`, by their definitions; where a chapter differs, its own actions
  are shown to be a case of an action of ch04-03, or to keep the same inductive invariant.

## What is only model-checked

* All liveness (`JobTerminates`, `KilledDies`, `ResumedRuns`): liveness under fairness and `ENABLED` are beyond the prover.
* `NoDeadlock` of the tree is false (run `deadlock`); what remains true, `OneDeadlock` and, without calls on single threads,
  `OnlyOwnEndsBlock`, is proved.
* Nothing else of the properties that passing runs check, and nothing of the type invariants (nor `TreeOK`): each is a conjunct of its module's inductive
  invariant (of `Memory`, the theorem `MemoryTypes`) and so proved. No run spends a property on them.

## What is not modelled

* **Of the earlier chapters**: ch01-01 (one object with an id and a name), the `kernel-hal*` crates except frames and page table,
  the loading of images, and the tests of each chapter.
* **HAL, ELF loading, vDSO**: unsafe code and host calls below the level of objects; spawning a task appears as a part of the
  actions that do it, frames and the page table are in `Memory`.
* **Process `wait_for_end`**, object names, `get_info` calls, koid allocation: no state of their own that others read.
* **Channel `call`** and transaction ids: nothing calls `new_txid` in this version.
* **Resources and dispatch of system calls**: tables and range checks without state.
* **Concurrency of VMO calls**, and with it the hazards of `Drop` (`vmo/mod.rs:362`) and of the length test of `map_ext` (`vmar.rs:188`).
  Physical VMOs, whose frames are not of the queue, are in `Vmo` but not in `Memory`.
* **Panics for want of memory**: `Memory` has frames running out; `create_child` then gives back what it took and fails, which leaves
  everything as it was, so its action is simply not enabled. `new_paged` and `set_len` panic, and the model stops short of that.
  Reads and writes behind the end of a paged VMO panic too. Addresses and sizes do not overflow. In `Vmar` a page always gets its frame.
* **Alignments above a page** in regions: no caller uses one.

## Plan

Done, in this order: task tree and its life cycle; thread runner; policies; channels with handle tables; debug log; regions; VMOs; memory - the order of
how much of the kernel depends on each - and for each of them the safety theorems above; then the earlier chapters.

Left:

1. *More of the system.* VMO operations split at their locks, with drops on two threads; regions composed with memory (the length of a VMO at
   `map_ext`, `set_len` under a mapping chosen by `Vmar`); `Process::wait_for_end` with its futures; the loading of an ELF image.
2. *A fixed variant.* With the thread lock dropped before `remove_thread` the run `deadlock` should pass, and `tree` can then
   allow every call: `OneDeadlock` says that no other circle is left.
