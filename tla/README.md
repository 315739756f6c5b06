# A verification of the deadline-driven scheduler

The program is an earliest-deadline-first scheduler for the Freescale MQX
kernel (K22F board), built from four tasks, a timer callback, and an interrupt
handler in `src/Sources/`. It keeps no run queue of its own: it keeps two lists
of tasks sorted by deadline and re-assigns *kernel priorities* so that the fixed
priority kernel runs the earliest deadline first. Everything interesting happens
between the tasks: requests queued behind each other, two locks taken in
opposite orders, a timer callback that reads what another task may free.

This directory holds a TLA+ model of that system, the TLC runs that check it on
small instances, and TLAPS proofs of its safety for every instance.

## 1. Inventory of the system

| Part | Source | State it keeps | Operations |
|---|---|---|---|
| Deadline-ordered lists | `task_list.c` | `active_tasks`, `overdue_tasks`, mutex `tasks_m` | `add_task`, `delete_task`, `update_priorities` (`get_task` has no caller) |
| Scheduler task | `scheduler_task.c` | list nodes (deadline, timer id), the request being served | `sched_create_task`, `sched_delete_task`, `sched_task_list`, `sched_overdue_task_list`, timer callback `deadline_overdue` |
| Request interface | `dd_scheduler.c` | message pool, one response queue and two message blocks per call | `dd_tcreate`, `dd_delete`, `dd_active_list`, `dd_overdue_list` |
| Generator | `generator_task.c` | release times, a queue of five messages | poll for a press, release due periodic tasks, delay one tick |
| Scheduled tasks | `periodic_task.c`, `os_tasks.c` | - | work, then `dd_delete(self)` |
| Monitor | `monitor_task.c` | a periodic timer, statistics | timer callback `update_monitor`: lock, ask for both lists, print, unlock |
| Button | `Events.c` | - | interrupt handler that sends a message to the generator |
| Boot | `rtos_main_task.c`, `main.c`, generated code | - | creates the timer component, the mutex and the tasks, raises the timer task to priority 1 |
| MQX kernel | `SDK/rtos/mqx` | ready queues, mutexes, message queues, timer queue | used as a library; modelled as far as the order of steps depends on it |

**How they interact.** `dd_` calls send a message to the scheduler's queue and
block for a response. The scheduler (priority 0) serves one request at a time.
`deadline_overdue` and `update_monitor` are not tasks: the kernel's timer task
(priority 1, like the generator) calls them from its loop over expired
entries, holding the timer component's semaphore `TIMER_ENTRIES_LWSEM`.
`_timer_start_oneshot_at_ticks` and `_timer_cancel`, called by the scheduler,
need the same semaphore. All list operations lock `tasks_m`. `printf` blocks
its caller when the serial buffer is full.

**What is hard about it.**
- `delete_task` leaves `tasks_m` locked on two of its three ways out (an early
  return for an empty list; a second `_mutex_lock` where an unlock was meant).
  The code works because a later call locks again as owner (`MQX_EDEADLK`
  passes its assertions) and unlocks.
- `sched_delete_task` holds `tasks_m` while it waits for `TIMER_ENTRIES_LWSEM`;
  a callback holds `TIMER_ENTRIES_LWSEM` while it waits for `tasks_m`.
- `update_monitor` asks the scheduler for lists while it holds both.
- A callback's output lets lower-priority tasks run, one of which may end and
  have the node deleted that the callback was given.
- `deadline_overdue` moves a task between the lists without re-assigning
  priorities; a deadline may pass before its timer has been started.
- Ticks come at any time, also while the timer task is in its loop.
- A task that ends destroys itself, at its own low priority, with a semaphore of
  the kernel held that the scheduler needs.
- Message blocks pass through queues, task descriptors and hands of five kinds of
  owners, one of them an interrupt handler, and one owner is aborted on the way.
- `update_priorities` and the list functions are pointer code that never resets
  a removed node's links.

**What makes each part correct.** The lists: sorted, no task twice or on both.
The scheduler: timers pending exactly for active tasks, no node lost or freed
while linked, no request that ends with `tasks_m` held, every request answered,
priorities in list order, overdue tasks before all others. The callback: the
task is moved only at its deadline, and its node is alive. The monitor: the lists do not change
under its walk. The system: the task that runs has the earliest deadline. The
messages: a caller gets the answer to its own request, once, and no block is
lost, shared or used after it was freed. A task's destruction: it ends, and what
it holds meanwhile blocks nobody for ever.

`PROJECT.json` lists every component with what is left out of it, and the
hazards at their lines with the properties that would catch each.

## 2. Modules

| Module | What it is |
|---|---|
| `TaskList` | `task_list.c` as operators on sequences: where `add_task` inserts, what `delete_task` removes, what `update_priorities` assigns and returns |
| `DDScheduler` | the whole running system: scheduler, callbacks, generator, scheduled tasks, interrupts, and the kernel between them |
| `TaskLifecycle` | the abstract promise: a task is admitted with a deadline, may miss it once the time has come, and completes |
| `Teardown` | the end of a task in the steps the kernel takes for it, with the kernel's two semaphores and `tasks_m` as queues; everything else reduced to what decides who waits for whom |
| `Messages` | a `dd_` call as messages: pools, blocks and their headers, queues, direct hand-over to a sleeping receiver, the clean-up of an aborted caller, the button's interrupt |
| `Calls` | the abstract promise of a `dd_` call: queued, served in order, answered once, to its caller |
| `LinkedList` | `task_list.c` pointer by pointer and iteration by iteration, beside the sequences of `TaskList` it stands for |
| `MCDDScheduler`, `MCTeardown`, `MCMessages`, `MCLinkedList` | instances for TLC |
| `TaskList_proofs` | lemmas on the list operators; order is kept |
| `DDScheduler_proofs` | type correctness |
| `DDSchedulerSafety_proofs` | the inductive invariant, the safety theorems, and that `DDScheduler` implements `TaskLifecycle` |
| `DDSchedulerPriority_proofs` | kernel priorities and deadlines |
| `DDSchedulerTiming_proofs` | wake-ups and deadlocks; what is on time: the earliest deadline, the overdue list, the periods |
| `LinkedList_proofs` | the pointers are the sequences |
| `Messages_proofs` | blocks, headers, queues and pools of a `dd_` call; `Messages` implements `Calls` |
| `Teardown_proofs` | type correctness, and where circular waits can be |

`DDScheduler` is the centre. The other three state machines each open one of its
steps: `LinkedList` the operators `AddTask`, `DeleteTask` and
`UpdatedPriorities` (which is why `DDScheduler` may use sequences), `Messages`
the entries of `msg_q` and the answers, `Teardown` the action `EndTask`. Each
keeps of the rest only what its question needs, so that its instances stay
small enough for TLC.

### How DDScheduler corresponds to the code

A step is what one task does between two points where it can block, or where
another task can be let in. Those points are: a message receive, `tasks_m`,
`TIMER_ENTRIES_LWSEM`, a full serial buffer, a delay. `Runs(t)` is the kernel's
choice: the scheduler if it is ready; else the head of the ready queue of
priority 1 (`ready`, of the timer task `T` and the generator `G`); else a ready
user task of the best priority. Interrupts (`Tick`, `SerialDrained`,
`ButtonPress`) may come between any two steps.

| Code | Actions |
|---|---|
| `sched_create_task` | `CreateFails`, or `CreateWithoutTimer`, or `CreateTask`; `StartTimer`; `AddActive`; `UpdateOverdue`; `UpdateActive` |
| `sched_delete_task` | `ReceiveDelete`; `DeleteActive`; `DeleteOverdue` (if not found); `CancelTimer` (if it has a timer); `UpdateOverdue`; `UpdateActive` |
| `sched_task_list`, `sched_overdue_task_list` | `ServeTaskList` |
| `_mutex_lock` that waits | `SchedulerWaits`, `TimerTaskWaits` |
| `_timer_task` and its callbacks | `FireDeadline`, `MoveOverdue`; `FireMonitor`, `LockMonitor`, `AskOverdue`, `PrintTasks`, `UnlockMonitor`, `RearmMonitor`; `PostEntries`, `WaitForTick` |
| `Generator_task` | `PollPresses`, `ReleaseTask`, `ReleaseDone`, `DelayGenerator` |
| task bodies, task exit | `FinishTask`, `EndTask` |
| `_time_notify_kernel`, `_timer_isr`; serial interrupt; `gpio1_PORTB_IRQHandler` | `Tick`; `SerialDrained`; `ButtonPress` |

`spc`, `tpc` and `gpc` say what each task does next; `client`, `node`, `result`
and `priority` are the local variables of the scheduler's handlers. A task and
its list node share one identity of `Users`: a free identity is heap room for
one more task, its node and its timer's entry. When none is left the creation
fails (`CreateFails`); when one is left, the room may end before the timer's entry,
which `_timer_start_oneshot_at_ticks` allocates before it waits for the timer
component, so that the task exists and is on no list (`CreateWithoutTimer`). Either
way the caller gets NULL and the generator's assertion fails. `halted` records the
assertion that stopped the system.

What the code leaves undefined stays open: `release_times` is read before it is
written, so its first values are any that make a task due at once or up to a
period later; `result` is uninitialised on one path, so it is either value;
which of two tasks of equal priority runs first, and which of two equal entries
of the timer queue fires first, is not fixed.

`_timer_start_oneshot_at_ticks` and `_timer_cancel` need the semaphore only
while the timer task is outside its loop (`wait`, `posted`): `TimerEntriesHeld`.
Messages to the scheduler are a queue of the clients that wait; their contents
are fixed by who sent them (`Messages` has the blocks).

### How Messages corresponds to the code

A step ends where preemption or an interrupt could be noticed: `_msg_alloc`
looks at the pool's `SIZE` (`TestSize`), grows the pool (`GrowPool`) and takes a
block (`TakeMessage`) in three critical sections, so it has three actions, and
`create_scheduler_request`'s test and creation of the pool are two (`Open`,
`CreatePool`). The heap may refuse any growth, and the blocks of a new pool, which then
is no pool and gives its slot back. `Deliver` is `_msgq_send_internal`, with its shortcut: a receiver
that sleeps on the queue gets the block in its task descriptor (`td`) and the
block gets its mark (`TD_PTR`). `Exit` and `Sweep` are `_msg_cleanup` in a dead
task's context, `Reply` is `_msgq_send` followed by `_task_abort`, `ButtonPress` the
interrupt handler. The fields `FREE`, `QUEUED` and `TD_PTR` are those of the
message header, since `_msg_free` and `_msg_cleanup` decide by them. `active`
says which task of priority 1 has the processor: the generator calls with
preemption disabled, tasks of equal priority do not preempt each other, a
scheduled task can be preempted anywhere. What the scheduler does with a request
is left to any result, with a sleep on the way or not; a creation that fails
may leave its task behind (`Work`).

### How LinkedList corresponds to the code

`head`, `next_cell`, `previous_cell`, `task` and `iter` are the pointers of
`task_list.c`; one action is one iteration or one relinking. The auxiliary
variable `list` holds the two lists as sequences and is changed by `TaskList`'s
operators in the step that relinks. `delete_task` leaves the links of the node
it removes as they were, as the code does; `add_task` clears them.

### How Teardown corresponds to the code

| Code | Actions |
|---|---|
| `_task_create`, `_timer_start_oneshot_at_ticks`, `add_task`, `_task_get_id_from_name`, two `update_priorities` | `BeginCreate`, `CreateTask` or `CreateFails`, `StartTimer`, `AddTask`, `FindGenerator`, `UpdateOverdue`, `UpdateActive` |
| `sched_delete_task`, ending in `_task_abort` | `BeginDelete`, `DeleteActive`, `DeleteOverdue`, `CancelTimer`, then as above |
| `_task_destroy_internal` and `_timer_cleanup` | `BeginDestroy`, `BeginCleanup`, `EndCleanup`, `EndDestroy` |
| `_timer_task` with its two rounds of `TIMER_ENTRIES_LWSEM` | `TakeEntries`, `FireDeadline`, `LockLists`, `MoveOverdue`, `FireMonitor`, `Ask`, `PrintTasks`, `UnlockMonitor`, `RearmMonitor`, `SecondQueue`, `WaitForTick` |

A lock is a sequence: its owner, then its waiters. `_lwsem_post` and
`_mutex_unlock` hand it to the first waiter whether or not that task can run
(`Post`). Lists are sets and which deadlines pass at a tick is open. A release that
finds no room, because dying tasks still have theirs, or leaves none for the timer's
entry (`CreateFails`), fails the generator's assertion, which stops everything
(`FailAssertion`).

## 3. What TLC checks

Deadlock checking is off in the runs of `DDScheduler` and `Teardown`: time stops
at `MaxTicks`, a failed assertion halts the program, and three of the runs are
about deadlocks. In `messages` and `lists` it is on.

| Run | Instance | Shows |
|---|---|---|
| `core` | 3 tasks, 1 periodic task, the button, the monitor, blocking output, slow ticks, 5 ticks; 878,124 states | every safety property but those of the next rows, and that `TaskLifecycle` is implemented |
| `edf` | 3 tasks, 2 periodic tasks, the button, slow ticks, 6 ticks; 840,054 states | `EarliestDeadlineRuns` |
| `served` | 2 tasks, 2 periodic tasks, the button, slow ticks, 4 ticks, fairness; 155,468 states | `DeleteServed`, `CreateServed`, `PressesDrained` |
| `on_time` | 2 tasks, 1 periodic task, the monitor, prompt work, 6 ticks, fairness; 2,294 states | `NeverHeldUp`, `EarliestDeadlineRuns` with the monitor at work, `NoMissedDeadlineActive`, `ReleasedInTime`, `MonitorServed`, `CreateServed` |
| `messages` | 1 task created and aborted again and again, the timer task, the generator, presses; 3 request and 4 response blocks, pools of 1 that grow by 1; 218,088 states | the messages implement `Calls`; blocks, headers, queue numbers, sleepers, pools |
| `lists` | 2 lists, 3 nodes, 3 deadlines, lowest priority 3; 3,077,580 states | pointers are sequences, in order, and the loop gives the priorities `TaskList` says |
| `teardown` | 2 tasks, 2 releases a turn, the monitor, blocking output, 4 ticks, fairness; 85,004 states | where circular waits can be, and that nothing else stops a dying task or a request |

The safety properties of `core`:
- `NoOtherAssertFails`: of the assertions in these paths only the generator's
  (no room) and the button handler's (no pool) can fail.
- `LockNotLeaked`: `tasks_m` is not the scheduler's at its next receive and the
  timer task's only inside `update_monitor`.
- `CallbackNodeAlive`: a callback's node has not been freed.
- `TimersMatchLists`, `ListsWellFormed`, `NoNodeLost`: timers, lists and nodes
  agree at every step, not only between requests.
- `PrioritiesFollowList`, `OverdueFirst`: between requests the kernel priorities
  are those the lists ask for, though the callback does not update them.
- `ListsStableForMonitor`: the lists do not change while the monitor walks them.
- `NoLostWakeup`: whoever waits (the generator, the timer task, a task in
  `dd_delete`, the waiters of `tasks_m`) is where the one that will wake it looks.
- `OnlyTwoDeadlocks`: when nothing of priority 1 and above can go on, the tick's
  work is done, or it is the state of `delete_deadlock` or `monitor_deadlock` below.
- `ImplementsLifecycle`: see section 4.

`served` asks besides its two requests that a full queue of presses, into which the
interrupt handler sends in vain, is polled once the generator has been woken
(`PressesDrained`).

`on_time` adds what only holds when each tick's work is done before the next:
`NeverHeldUp` (neither `tasks_m` nor the timer component keeps the scheduler from its
request), `NoMissedDeadlineActive` (no expired task is left on the active list) and
`ReleasedInTime` (no periodic release comes later than the generator's strict test
makes it: one tick after its period).

The properties of `messages`:
- `ImplementsCalls`: requests are served in the order they were sent, each once,
  and a caller gets the answer to its own request and nobody else's.
- `BlocksAccounted`: every block of a pool is free or in exactly one place. It
  needs the whole of `_msg_cleanup`: the answer to a task that deletes itself is
  never read, because its reader is aborted first.
- `HeadersTell`: the three header fields agree with where a block is.
- `AnswerHasRoom`: the queue a request names is its caller's until it is
  answered, so the send nobody tests cannot fail, though numbers are reused.
- `NumbersSuffice`: the search for a queue number fails only if there are fewer
  numbers than clients: none is lost, whoever closes it, the caller or the clean-up
  of the aborted one.
- `SleepersAwaited`: nobody sleeps with a message queued or with nobody to answer.
- `ResponsePoolBounded`: the response pool stops growing; nothing in the code
  limits it.
- `PoolStays`: `scheduler_msg_pool` is never reset to 0 by a second creation,
  because tasks of priority 1 do not preempt each other and no scheduled task
  calls before it was itself created through a call.

The properties of `lists`: `Represents` (no cycle, no shared node, no stale link,
`previous_cell` the inverse of `next_cell`, and `add_task`'s walk stops at
`InsertPosition`), `Sorted`, and `UpdateCorrect` (the loop assigns and returns
what `UpdatedPriorities` and `LastPriority` say).

The properties of `teardown`: `OnlyThroughTimer` (a circular wait always takes both
the scheduler and the timer task), `Destroyed` and `Answered` (unless there is
such a wait, an aborted task is gone in the end and every request is answered, or
the generator found no room and stopped the system).

Five runs show the code contradicting its own comments or assertions:

| Run | What happens |
|---|---|
| `delete_deadlock` | `deadline_overdue`'s output fills the serial buffer; a task ends and its `dd_delete` takes `tasks_m` and waits for the timer component; the callback then waits for `tasks_m` |
| `monitor_deadlock` | a second `dd_tcreate` of the same tick is queued before `update_monitor`'s request; the scheduler waits for the timer component, whose owner waits for the scheduler |
| `delete_reply` | the deletion of an overdue task succeeds and is answered with an error |
| `button_assert` | a press before the first `dd_` request finds no message pool |
| `teardown_deadlock` | a tick hits a task inside its own destruction, `TASK_CREATE_LWSEM` held; the scheduler then waits for that semaphore in `_task_create`, the timer task for the scheduler's answer in `update_monitor`, the dying task for the timer task's `TIMER_ENTRIES_LWSEM` in `_timer_cleanup` (`CreateReturns` leaves out a scheduler that waits for the timer task itself: that is `monitor_deadlock`) |

A sixth disagreement needs no run: `dd_scheduler.h` calls `dd_tcreate`'s deadline
absolute, and the code adds it to the current time (`CreateTask`), as the callers
expect.

`DDScheduler` takes a task's destruction as one step. Its `CreateServed` and
`MonitorServed` in `on_time` therefore hold as long as no task is interrupted in
its destruction, and `teardown_deadlock` is what can happen if one is, with a single
release per turn and without any output that blocks. The safety properties of
`DDScheduler` do not depend on it: a longer destruction only delays steps that
other interleavings delay as well. Only `OnlyTwoDeadlocks` does: the circle of
`teardown_deadlock`, through a dying task, is a third, which `Teardown` has.

Because of the deadlocks the liveness runs are split. `served` has no blocking output and
no monitor (else either deadlock ends it); `on_time` releases a single task per
turn. Each liveness property is checked where it can hold, and refuted where the
code lets it fail. `NoMissedDeadlineActive` needs prompt work: a timer that is
started after its deadline fires only at the next tick. `EarliestDeadlineRuns`
needs output that does not block, since a scheduler that waits behind a printing
callback cannot keep the order; with the monitor it needs prompt work as well.

**Bounds.** Two tasks are enough for one request to overtake another and for a
callback and a deletion to meet; three give a list with a middle, and both lists
non-empty while a third task is created. Two periodic tasks give two requests
in one generator turn. `MaxTicks` of 4 to 6 covers two releases of the shortest
period, a missed deadline, and the deletion of an overdue task. A generator
queue of one already distinguishes full from not full (the code's five differs
only in how often it is reached). The priorities keep the code's order: the generator's
first, the aperiodic task's template right after it, the periodic tasks' template
the lowest. In `core` the lowest is so close that three listed tasks do not fit
above it and `update_priorities` clamps; in `edf` three tasks just fit, since the
property speaks only of tasks whose priorities can differ.
Tasks are interchangeable, so `core`
and `edf` use symmetry, and so do `messages` (blocks of a pool) and `lists`
(nodes); no run with fairness does.

In `messages` three request blocks are one for each of two callers and one for a
press, and since the heap may refuse any growth, exhaustion happens too.
Four response blocks are more than `ResponsePoolBounded` allows, so the bound is
the code's and not the instance's. Three queue numbers for three callers are as few as
`NumbersSuffice` allows and make numbers be reused at once. One scheduled task suffices: it is
created, calls, is aborted and cleaned up while it is created again. In `lists`
three nodes give a head, a middle and a tail, and a node that moves between the
lists; three deadlines give ties and both orders; a lowest priority of 3 makes
`update_priorities` clamp. In `teardown` two tasks are one that dies and one that
is created or dies behind it, and four ticks are enough to interrupt a
destruction, fire the monitor and expire a deadline.

**Fairness** (`FairSpec`). Weak fairness of each task's own steps: the kernel
always runs the task that `Runs` names, so a task that stays the one to run takes
its step. A scheduled task's work is finite. The serial line drains. Ticks come,
up to `MaxTicks`; under prompt work (`SlowTicks = FALSE`) only once everything of
priority 1 and above is done. No button press is promised, and a system halted by
an assertion is excluded by `Stopped`. `Teardown`: the processor does not idle
while a task can run (`Work`; no loop of one task goes on for ever, so this is
also fairness to the others), the serial line drains, ticks come.

Every property of a passing run has a mutant of the code's definitions in
`PROJECT.json` (a lock that excludes nobody, a timer not cancelled, a node not
freed, an insertion without the test for the head, ...) under which TLC finds it
violated.

## 4. What is proved

For every set of tasks, every number of periodic tasks, all periods, deadlines,
priorities, queue sizes and time bounds, and with blocking output, slow ticks and
the monitor in any combination. `LinkedList` and `Teardown`
likewise for any nodes, deadlines, tasks and releases, `Messages` for any tasks, blocks, pool sizes and queue
numbers. The assumptions, checked by
TLC on every instance, are that names differ and numbers are numbers:
`ActorsAssumption`, `NumbersAssumption` (priorities and the lowest priority are
positive), `LinkedListAssumption`, `TeardownAssumption`, `MessagesAssumption` (there
are finitely many scheduled tasks and blocks, and a pool starts with and grows by at
least one).

| Theorem | Module |
|---|---|
| `AddTaskSorted`, `DeleteTaskSorted`: the list operations keep order | `TaskList_proofs` |
| `TypeCorrect` | `DDScheduler_proofs` |
| `AssertionsHold`, `LockReleased`, `CallbackSafe`, `TimersCorrect`, `ListsCorrect`, `NodesCorrect`, `MonitorSeesStableLists` | `DDSchedulerSafety_proofs` |
| `LifecycleImplemented`: `DDScheduler` implements `TaskLifecycle` | `DDSchedulerSafety_proofs` |
| `PrioritiesCorrect`, `OverdueCorrect`: the order of the kernel priorities | `DDSchedulerPriority_proofs` |
| `WakeupsKept`, `DeadlocksKnown`: no wake-up is lost, and where everything can stop | `DDSchedulerTiming_proofs` |
| `SchedulerNeverHeldUp`, `EarliestDeadlineFirst`, `NoDeadlineMissed`, `PeriodsKept`: what is on time, and when | `DDSchedulerTiming_proofs` |
| `PointersRepresentLists`, `ListsSorted`, `LoopUpdatesPriorities`, `TypeCorrect`: the pointer code computes `TaskList` | `LinkedList_proofs` |
| `TypeCorrect`, `HeadersCorrect`, `BlocksAlwaysAccounted`, `AnswersHaveRoom`, `NumbersNeverLost`, `NobodySleepsInVain`, `PoolNeverReset`, `ResponsesBounded`, `CallsImplemented`: every property of `Messages`, and that it implements `Calls` | `Messages_proofs` |
| `CircularOnlyThroughTimer`: where tasks can wait for each other in a circle; `TypeCorrect` | `Teardown_proofs` |

**Types.** `TypeOK` is not inductive. That a request being created has a template
to take its priority from needs to know that the generator waits as long as its
request is queued or served (`GeneratorPlace`); that a handler has a node needs
`Served`; that queues stay queues of distinct tasks needs to know that the timer
task is in one place at a time (`TimerTaskPlace`). `TypeInv` is their
conjunction, and `UserPlace` says that a user task has at most one request.

**Safety.** `SafetyInv` adds `SInv`, the conjunction of
- `LockInv`: who may own or wait for `tasks_m` at which point. The heart is that
  the scheduler waits for it only while the timer task owns it, and the timer
  task only in the deadlock, while the scheduler waits to cancel a timer.
- `UserInv`: a task is on a list from the end of its creation to its deletion;
  a handler's client or node is on, or off, the list its next step assumes.
- `NodeInv`, `ListsWellFormed`, `TimerInv`: nodes, lists and timers, with what is
  in the scheduler's hands at each point of a handler.
- `CallbackInv`: a callback's task is in the active list, its deadline is
  reached, or its deletion is in the deadlock's way.
- `HaltInv`: which assertion has failed, and that the priority passed on is not 0.

A task whose timer could not be had (`CreationFailed`) is the one exception to
`UserInv`: ready, on no list, without a node. It lasts from the answer to the
generator's next step, its assertion (`FailureStays`); the generator is ready, so no
scheduled task runs in between.

The invariant explains why the odd locking is safe: a scheduler that runs finds
the timer task not waiting, so every unlock frees the mutex; a `_timer_cancel`
gets in only while no callback is running, so it never finds its timer gone; and
so the early return that would leave the mutex locked and the node lost is never
taken. The proof has one lemma per action and one step per conjunct it disturbs.
The deadlocks do not contradict it: in them nothing bad happens, nor anything else.

**Refinement.** Seen from the lists, `AddActive` admits the node's task with the
deadline its creation computed, `MoveOverdue` is a miss (its guard, that the
deadline has come, is `CallbackInv`), a successful `delete_task` completes the
task, `Tick` is the clock, and everything else stutters, because only the
deadlines of unlisted tasks change.

**Priorities.** `OrderInv` says what is left of the order of priorities at any point
outside the two calls of `update_priorities`. Along the active list they descend
until the lowest, which removing a task does not change. An overdue task comes
before an active one *unless that one's deadline has come too and the timer
task has yet to run its callback*: that exception is what `MoveOverdue` needs, because
the task it moves keeps its priority, and it ends when the timer task gives up
`TIMER_ENTRIES_LWSEM`, having found nothing expired. `OverdueUpdated` holds between
the two calls. `PrioritiesFollowList` and `OverdueFirst` follow for every instance.

**Wake-ups.** `TypeInv` says that a task that waits is in *at most* one place: the ready
queue, a message queue, the scheduler's hands, the waiters of `tasks_m`. `NoLostWakeup`
is the converse, at least one, and with `SafetyInv` it is inductive: what takes a
task out of one place puts it in the next. For the timer task that includes a post of
`TIMER_ISR_LWSEM` that found it not waiting: `ticked` is consumed before it waits.

**Deadlocks.** `AskInv` adds what can be under way while the timer task, the owner of
`tasks_m`, waits for an answer: nothing but its question and a request of the
generator's, which the scheduler may have taken up as far as its timer. Given both,
`WhenSettled` goes through the reasons for which the scheduler may not be ready, an
empty queue, `tasks_m`, the timer component, and through what the timer task then
waits for. That leaves the end of the tick's work and the two deadlocks.

**On time.** These theorems have hypotheses on the constants, which the runs fulfil. Without
any one of them TLC refutes some of the four properties on the instance of `on_time`: slow
ticks or blocking output `NeverHeldUp` and `NoMissedDeadlineActive`, a second release a turn all
four, a deadline of 0 `NoMissedDeadlineActive`.
- `QuickTimerTask`: output does not block and the monitor has no timer (run `edf`).
  A callback then runs to its end with the scheduler asleep (`CallbacksAtomic`).
- `PromptWork`: a tick comes only when all of priority 1 and above is done, output does
  not block, and, if the monitor has its timer, the generator has one task to release
  a turn (run `on_time`; with two, `monitor_deadlock`). Then the timer task
  enters its loop only after the generator has made this turn's requests and the
  scheduler has served them, because a tick puts the generator in the ready queue
  before it (`TimerTaskNext`, `RequestsMade`); and in its loop it is alone with its own
  questions (`HeldAlone`).
- `DeadlinesAhead`: no deadline is 0 ticks away; a task with one is expired before
  its timer is started, and stays active until the next tick.

In both cases the scheduler is never kept from its request (`SchedulerNeverHeldUp`).
Then, for `EarliestDeadlineFirst`, callbacks move tasks in the order of their
deadlines and no active task is due before an overdue one (`OverdueEarlier`; a
task created later is due no earlier than now). `update_priorities` over the overdue
and then the active list is thus one pass in deadline order
(`PrioritiesByDeadline`), and no user task runs before it is done.
`NoDeadlineMissed` rests on `TimeLeft`: once the timer task has given up
`TIMER_ENTRIES_LWSEM` and is not ready to run again, each active task has time left, since
it found none expired, tasks added since are due later, and the tick at which one
comes due makes it ready. `PeriodsKept` rests on `TurnInTime`: `start_ticks` is the
present tick for the whole of the generator's turn, so a task it has looked at is within its
period, and it has looked at all of them when it delays.

**Pointers.** `IInv` of `LinkedList_proofs` says of each list that its sequence
starts at `head`, that `next_cell` and `previous_cell` lead from one position to
the next and back, that the two share no node, and where in the sequence each
walking pointer is. The last part is what makes it inductive: at `add_task`'s
relinking the walk must be known to stand at `InsertPosition`, and
`update_priorities`' loop to have given every earlier position its priority.

**Messages.** `IInv` of `Messages_proofs` says who has what, by what each task does
next. `HeaderInv`, `OnceQueued` and `NoLeak` tie each block to the one place its header
names, so that `_msg_cleanup` finds the answer of an aborted task and nothing else.
`RequestsInv` pairs requests with callers: every request that waits or is served
names a caller that waits for it and that caller's queue, which is empty; every caller
that waits has one. So there is room for each answer, and the sleepers are awaited.
`OwnerInv` makes queue numbers and callers one to one while they are in use, which
is why a number can be reused at once; and as a client that looks for a number has
none, there is one for it if there are as many as clients (`NumbersUsed`). `PoolInv` is the argument for the unprotected
test of `scheduler_msg_pool`: until there is a pool nobody else has called, because
scheduled tasks exist only through a call and of the two other callers the one
that runs is not preempted. For `Calls` the clients of the requests in order are
its queue, and the answer of a client is wherever its response is: on its queue, in
its descriptor or in its hands; an aborted task's answer is dropped in `Exit` or in
`Sweep`. For the pool's bound, `KindInv` keeps requests and presses out of the response
pool; when no response is free, each belongs to a caller of its own, and the
caller of the next request has none.

**Circular waits.** `IInv` of `Teardown_proofs` says for each task in which of the
three queues it is, by what it does next, and which lock it must own: the
scheduler `tasks_m` while it cancels a timer, the timer task
`TIMER_ENTRIES_LWSEM` in its callbacks, a dying task `TASK_CREATE_LWSEM` in its
clean-up. `MessagesOK`, that a client has at most one request, is needed because a
task that is answered is aborted: a second answer would abort it in its
destruction. From `IInv` a circle without the timer task is impossible because a
dying task waits there only behind one other, which waits for the timer task; one
without the scheduler because the timer task waits either for the scheduler or for
a dying task that waits for the timer task or the scheduler in its turn.

In `Teardown`, types need to know besides that a handler has a task where it uses
one: a node from its creation to the list, a callback's task until it is moved.

**Only model-checked.** All liveness: reasoning about fairness and `ENABLED` is beyond
the proof system. `NoLostWakeup` and `OnlyTwoDeadlocks` are its safety part: whoever
waits will be woken by whoever is named, unless that one is in one of the two deadlocks.

## 5. What is not modelled

- The monitor's statistics and the overhead counters: no decision reads them.
  `monitor_add_overhead_ticks` adds a 64-bit time into 32 bits, which shows only in
  the printed percentages.
- The width of the generator's release times: their strict test and the drift it
  causes are in `DDScheduler`, a wrap takes weeks of uptime.
- A failed `_mem_alloc` of a list node whose task was just created: the code tests
  the pointer and then writes through it all the same. Heap exhaustion is modelled
  for the task, for its timer's entry and for message blocks, and ends in the
  assertions the code has for it.
- The boot sequence: the models start where `main_task` leaves off, with or
  without the monitor's timer (`MonitorTimer`). It runs once, before there is
  anything to interleave with but the idle task; that the timer task's id is
  guessed (`rtos_main_task.c:88`) depends on the number of tasks created before.
- The scheduler's default branch: no caller sends any other request.
- The sticky task error code: the only caller that could read a stale one, the
  generator, does not.
- `get_task`, which has no caller.
- The kernel's allocator: `DDScheduler` and `Messages` leave open when the heap runs
  out, which covers whatever it does short of corrupting itself.
- Semaphore, mutex, message and timer components are modelled as far as the program
  can tell; their paths for other policies (priority inheritance, timeouts,
  remote queues, tasks restarted) are not taken by it.
- The rest of the SDK, drivers, start-up and generated configuration. They are nearly
  all of the repository's lines (device headers, CMSIS, peripheral drivers, the
  kernel's services the program never calls); of `Sources/`, the program itself,
  every function that changes shared state is modelled except those above.

## 6. Plan

Done: `TaskList`, `DDScheduler`, `TaskLifecycle`, `LinkedList`, `Messages`, `Calls`,
`Teardown`, their runs, and the proofs of section 4. What could follow:

1. `DDScheduler` as an implementation of `Calls`: it takes two of the steps of `Calls` in
   one where nothing can come between (`ServeTaskList`, `AskOverdue`), so `Calls` would
   need those as steps of its own, and `Messages` its proof again.
2. `Boot`: the initialisation steps of `main_task` and `Components_Init`, and which
   of the states `DDScheduler` starts from.
3. `Monitor`: the 32-bit overhead counter and the moving averages, against exact
   reference definitions.
