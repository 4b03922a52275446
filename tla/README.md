# A verification project for xK

xK is a small C++20 engine: a task library (`xk-kernel/core`), a window and
Vulkan layer (`xk-kernel/window-engine`) and an application that opens a window
(`xk-app`). This directory holds TLA+ models of it, the TLC configurations that
check them on small instances, and proofs that hold for every instance. Paths
are relative to `src/src/`; `core/` is `xk-kernel/core/`, `vk/` is
`xk-kernel/window-engine/src/xk-graphics-engine/xk-vulkan/`, and `window/` is
`xk-kernel/window-engine/src/window/`.

    tlc -config MCTaskQueue.cfg MCTaskQueue     # one run
    tlapm TaskQueueProofs.tla                   # one module of proofs

`PROJECT.json` maps every definition to the lines it models and lists the runs,
the slips that each property catches, the hazards and the findings.

## 1. Inventory

### TaskQueue (`core/include/async/task-queue.h`, `core/src/async/task-queue.cpp`)

State: a deque of handlers, a closed flag, a mutex, a condition variable.
Operations: `push`, `tryPush`, `pop`, `tryPop`, `close`, each from any thread.
Hard: `pop` sleeps on the condition variable while other threads push, try and
close; notifications are sent after the mutex is released; `tryPush` and
`tryPop` fail on contention. Correct when the operations behave as those of an
atomic first-in first-out queue, no wake-up is lost, and `close` releases every
`pop`.

### TaskScheduler (`core/include/async/task-scheduler.h`, `core/src/async/task-scheduler.cpp`)

State: a queue and a thread for each worker, a counter that spreads the tasks.
Operations: the constructor (starts the workers), `schedule`, `async`, the
workers' `run` loop with task stealing, the destructor (closes the queues and
joins the workers). It calls the queues from all its threads; handlers call it
back. Hard: schedulers, stealing workers and the destructor interleave;
handlers schedule tasks of their own, also during the destructor, onto queues
whose worker may have quit; a thread may fail to start, a handler may throw, the
counter wraps. Correct when every handler is called once, and the destructor
returns, after the last of them.

### SwapChain (`vk/vk_swap_chain.cpp`)

State: the chain, a view, a depth image and a framebuffer for each image; two
semaphores and a fence for each frame in flight; for each image the fence of the
frame that last rendered it. Operations: the constructor's six stages, the
destructor, `acquireNextImage`, `submitCommandBuffers`. It works with the device
and the presentation engine, which run concurrently, through fences and
semaphores. Hard: images come in any order, are more or fewer than the frames,
and are read by the engine while frames are recorded; a submission may fail
between two steps, and a present may be refused or not be queued at all, after
which the frame advances as if it had been; the waits have no timeout; any creation
may fail. Correct when nothing is used for two frames at once, an image is shown
only when it is rendered, the waits end, the choices are among what the driver
offers, and the destructor releases what the constructor made.

### GpuWrapper (`vk/vk_gpu_wrapper.cpp`)

State: instance, debug messenger, surface, the picked device, logical device,
its two queues, command pool. Operations: the stages of `setupForWindow`, the
selection of the device and its queue families, `cleanUp`, and helpers for
memory, buffers, images and single-time commands. Hard: the set-up may stop at
any stage and `cleanUp` must take down what is there; layers and instance
extensions are asked for, checked and used in different functions; the families
are searched three times with different flags; copies share the graphics queue
with frames in flight and wait for all of it. Correct when the first suitable
device is picked in every build, its queues can do what they are for, copies
return, and everything is released, children before parents. Two of these do not
hold (section 6).

### vulkan::Core, Pipeline, Application, main, Window

`main` constructs `application::Core`, which owns the graphics engine
(`vulkan::Core`, with a `GpuWrapper` and a `Pipeline`) and the main window, and
sets the one up for the other. Operations: construction, set-up, destruction;
the window also has `show`, `close`, `resize`, `update` and callbacks. Hard:
exceptions from any stage, and the order in which members are destroyed.

### The rest

The class template `Task` (`core/include/async/task.h`), of which no object can be
made; keyboard codes, the validation callback (logs), names of results and exceptions, the OpenGL stub, logging and casts, build
files, template tests and shaders: see section 7.

## 2. Modules

| Module | What it is |
| --- | --- |
| `TaskQueue` | any number of queues, each call cut at its visible effects |
| `FifoTaskQueue` | abstract: the same operations, each one atomic step |
| `TaskScheduler` | workers, clients, constructor and destructor; EXTENDS `TaskQueue` |
| `TaskPool` | abstract: tasks are called once, the destructor returns last |
| `SwapChain` | the frame loop and the copies, with the device and the presentation engine |
| `SwapChainSetup` | the choices, the constructor's stages and the destructor |
| `DeviceSelection` | pure operators: queue families, suitable devices |
| `Engine` | main to the end of the program; EXTENDS `DeviceSelection` |
| `MC...` | small instances of these for TLC |
| `TaskQueueProofs`, `TaskSchedulerProofs` | types, no lost wake-up, refinement of `FifoTaskQueue` |
| `TaskConservationProofs` | handlers are neither lost nor duplicated; EXTENDS `TaskSchedulerProofs` |
| `TaskPoolProofs` | the destructor, refinement of `TaskPool`; EXTENDS `TaskConservationProofs` |
| `SwapChainProofs`, `SwapChainSetupProofs` | theorems about `SwapChain` and `SwapChainSetup` |
| `EngineProofs` | theorems about `Engine` and `DeviceSelection` |

A definition whose name ends in an underscore is a slip: the definition of that
name, after it, with one plausible mistake that the code does not make. None is
used by a specification; put in the place of the definition that it is named
after, each makes the property that `PROJECT.json` names for it fail.

**TaskQueue.** `op`, `at`, `arg` hold the call of each thread and `pc` where it
is in it: `lock`, `held`, `asleep`, `relock`, `notify`. A step is one visible
effect on shared memory: taking the mutex, a critical section with the release
that ends it, a notification. `Lock`, `TryLockFails`, `Enqueue`, `NotifyOne`,
`SetClosed`, `NotifyAll`, `Dequeue`, `ReturnEmpty` and `Wait` are the parts of
the operations; spurious wake-ups are always possible, spurious failures of
`try_lock` when `SpuriousTryLock` says so. Handlers are values; a `Lock` that
another thread holds blocks the caller's step.

**TaskScheduler.** Adds what each thread executes between queue operations
(`ctl`), its loop variable, and the bookkeeping of tasks. `Scan`, `PopOwn`,
`Run`, `Finish`, `Throw` and `Quit` are `run`; `Schedule`, `TrySubmit`,
`ForcePush` and `Scheduled` are `schedule` and `async`; `Spawn...` the
constructor; `Destroy`, `Close`, `Join` the destructor; `Await` and `Resume` are
`future::get` in a client or a handler. Queue steps are those of `TaskQueue`,
unchanged, so what is proved there carries over (`SchedulerUsesQueues`). What a
handler does is nondeterministic. A handler that throws outside `async`, a thread
that fails to start and an index past the vector set `aborted`, after which
nothing is said.

**SwapChain.** A fence or a semaphore is a Boolean. `Acquire` and `Acquired` are
`acquireNextImage`, the former up to the wait for the frame's fence; of
`submitCommandBuffers`, `Prepare`
waits for the fence of the image's last frame and notes the new one; `Submit` and
`SubmitFails` are the reset and `vkQueueSubmit`; `Present` is the rest, with the
three things that `vkQueuePresentKHR` may do (`QueuePresent`): it queues a present
of the image, or reports that the image was refused (the surface was lost or has
changed) and queues the wait for `renderFinished` alone (`Refuse`), or queues
nothing (`dropped`), so that the image stays acquired and `renderFinished`
unconsumed. The frame advances in all three, and the result goes to the caller.
`BeginCopy`, `SubmitCopy` and `FinishCopy` are `copyBuffer` and
`copyBufferToImage` with the single-time commands they call; they are possible
before a frame and between its two calls. External:
`work` is what was submitted and not executed, `Render`, `Copy` and `Show` execute it in
the order of each queue, and `reading` lists the images the engine reads. The
engine keeps the last image on the screen, and may give an image out before it
has stopped reading it, signalling `imageAvailable` when it has; both are what
Vulkan allows. Images are released in the order of their presents: `Turn(m)` is
the number of releases up to that of the m-th submission, and `ahead` how many
are left before the signal of a frame's `imageAvailable` (`NotDue`: none is to
come). The caller keeps one command buffer for each image.

**SwapChainSetup.** `Constructor` and `Destructor` list the stages in order, `i`
counts the calls within one, and every creation may throw. `live` is a set of
`<<kind, index>>`. `m_windowExtent` is zero, as nothing in the code assigns it.
The sharing mode of the images is left out: `findPhysicalQueueFamilies()` passes
no flags to a function that needs them. `createImageWithInfo` is modelled as its
caller uses it, assigning an image and its memory.

**Engine.** `pc` names the function that runs next and `live` the objects that
exist. `Throw` leaves it open whether the stack is unwound: `main` constructs the
application before its try block, so that the exception is caught nowhere.
`Platforms` is what layers and extensions there are: `CreateVulkanInstance`
creates the instance if it can, and compares its extensions with what the loader
lists after that. `SetupDebugger` and `DestroyDebugUtilsMessenger` need the
debug extension, which only validation builds ask for.
`defaultPipelineConfigInfo` leaves the pipeline's layout null, so that
`CreateGraphicsPipeline` always throws. Vulkan calls on
null parents may crash (`MayCrash`).

## 3. Runs

| Run | Properties | Instance |
| --- | --- | --- |
| `queue` | `QueueTypeOK`, `NoLostWakeup`, `CloseReleasesPoppers`, `PendingPopTakesTask`, `FifoLive` | 1 queue, 3 threads, 2 handlers |
| `scheduler_safety` | `NoTaskLeft`, `AbandonedQueueServed`, `PoolSafe` | 3 workers, 1 client, 2 tasks |
| `scheduler_faults` | `SchedulerTypeOK`, `Conservation` | 2 workers, 1 client, 3 tasks |
| `scheduler_liveness` | `PoolLive` | 2 workers, 1 client, 2 tasks |
| `swapchain` | `TypeOK`, `ResourcesFree`, `CopyDrainsFrames`, `CallsReturn`, `EveryFrameShown` | 3 frames, 3 images, 1 queue |
| `swapchain_queues` | `AcquireSemaphoreFree`, `PresentsRendered`, `NoTearing` | the same, 2 queues |
| `swapchain_setup` | `TypeOK`, `ChoicesSupported`, `AttachmentsExist`, `ImagesOutliveViews`, `BuiltAndReleased` | 316 drivers, 2 frames, up to 4 images |
| `engine_setup` | `TypeOK`, `ChildrenFirst`, `AllReleased`, `FirstSuitablePicked`, `QueuesFound` | 1453 lists of devices |
| `fallback_index`, `nested_wait`, `pool_family`, `window_kept` | one each, violated | section 6 |

`queue`: three threads are enough for a sleeper, one that wakes it and one that
takes its handler or closes the queue in between; a handler is pushed again once
it is out, so that the threads go on for ever and the queues stay finite.
`FifoLive` is refinement: the queue implements `FifoTaskQueue` with its progress.

`scheduler_safety`: three workers, because with two a worker that scans cannot
meet a third thread's lock on the queue where a task was left behind. Tasks
schedule tasks, in and after the life of their worker. `PoolSafe` is refinement
of `TaskPool` without its progress. All three need a `try_lock` that fails only on a held mutex: with spurious failures
(`SpuriousTryLock = TRUE`) the last pass of the last worker may miss a task that
a handler pushed during the destructor, and the task is lost.

`scheduler_faults`: an empty handler, two that throw, one of them in `async`;
threads that fail to start; spurious failures; `ThreadIdLimit = 5` makes the
counter wrap at a value that two queues do not divide. `Conservation` counts the
copies of every handler: there is one, from `schedule` to its return.

`scheduler_liveness`: `PoolLive` is refinement of `TaskPool` with its progress,
for tasks that end and do not wait for one another.

`swapchain`: with two frames, the code's number, the wait for the image's last
frame never decides anything, and dropping it goes unnoticed; with three it does.
All the properties hold with two as well. A failed
submission leaves the frame's fence unsignalled for ever; the next wait for it
is the end of the program, which is why deadlock is not checked, and why the two
liveness properties speak of runs up to it. An image whose present was not queued
stays with the caller, who has forgotten it: `CallsReturn` says that
`acquireNextImage` returns as long as an image is left besides the one on the
screen. `EveryFrameShown` is about the presents that were queued and not refused.
`CopyDrainsFrames`: a copy returns only when no frame is in flight, so that it
may be made between `acquireNextImage` and `submitCommandBuffers`, where the
frame's own fence is signalled. `CallsReturn` says that this wait ends, like the
others: the renders it waits for wait for images that the engine releases
without the caller.

`swapchain_queues`: `createSwapChain` supports two queue families, and then the
presents are executed at their own pace. The properties that depend on the order
of the two queues are checked here; they hold with one queue too, as the theorems
say. `PresentsRendered` is about the pair of a render and its present: the fence of
a frame says nothing of the present that waits for its `renderFinished`, and still
no present is executed before the render of its image, even when that was
submitted while an earlier present of the frame was waiting. The exception is a
frame one of whose presents was not queued: it leaves `renderFinished`
signalled, the next present of the frame takes that signal, and may come
before its render. With one queue their order forbids this (`Ordered`). The two
liveness properties are checked with one queue only: section 6 says why.

`swapchain_setup`: the drivers differ in each offer that the code looks at, and
number of images and number of frames differ, so that a loop with the other
bound shows. The program ends, in `destroyed` or in `failed`; deadlock is not
checked.

`engine_setup`: one device with up to three families out of five kinds (graphics
only, compute and presentation, all, presentation only, none left), and pairs of
devices that differ in what `isGpuGood` looks at. The loop over families keeps
two indices and stops, so that three families show every way it can end.
The 32 platforms differ in what the code asks about layers and instance extensions.
`AllReleased` is about a program whose stack is unwound; GLFW may remain if the
set-up did not get as far as an instance, as it does when the constructor of the
window throws. `QueuesFound` says what the search finds when it is repeated, not
that a queue can draw: `pool_family` shows one that cannot.
The program ends, so deadlock is not checked.

## 4. Fairness

Queue and scheduler: each thread is scheduled (`WF` of its steps), and a thread
that waits for a mutex that is free again and again gets it in the end (`SF` of
`Lock`). The C++ standard promises only the first; mutexes on the platforms that
xK is built for come close enough to the second, and without it no blocking
`push` returns. Handlers end (`Finish` is a step of their worker). Nothing is
assumed of clients: they need not call anything, nor destroy the pool. Swap chain: a
call goes on once it has begun, the device executes the renders and copies that
were submitted, the engine shows images or executes the refused presents, releases
images, and signals `imageAvailable`; nothing makes `vkAcquireNextImageKHR` fail,
which has no timeout. Nothing is assumed of the caller outside its calls: it need not
submit what it acquired, nor draw another frame.

## 5. Proofs

All for every value of the constants that satisfies the assumptions of the
modules. `QueueAssumption`: finitely many threads, and `None` is none of the
values. `SchedulerAssumption`: the queues are the workers' and the threads are
workers, clients and the owner. `SwapChainAssumption`: at least one frame and two
images. `GpuListsAssumption`: the type of the lists.
What a theorem assumes beyond these stands in its statement, and below.

### The queue

* `QueueTypeCorrect`: types with `CallsWellFormed`, which says what a thread in
  each state of a call holds; it is what the other proofs start from.
* `NoWakeupIsLost`: `NoLostWakeup` is the inductive invariant. It counts: while
  somebody sleeps, there are at least as many helpers (pushers yet to notify,
  woken pops, pops that hold the mutex) as handlers in the queue. A push adds one
  of each; a notification turns one helper into another; a pop that takes a
  handler is a helper that leaves with one; one that goes to sleep saw an empty
  queue.
* `QueueIsFifo`: every step maps to a step of `FifoTaskQueue` or a stutter, with
  a call taking effect when it leaves its critical section.

### The scheduler

* `SchedulerTypeCorrect`: types with `ControlWellFormed`, which ties what a
  thread executes to the queue operation it is in.
* `SchedulerUsesQueues`, `SchedulerLosesNoWakeup`: a behaviour of the scheduler
  is one of `TaskQueue`, hence no worker of a pool of any size sleeps through a
  wake-up.
* `HandlersConserved`: `Conservation`, which counts copies, is not inductive: that
  there is one says nothing of where it goes. `ConservationInv` says that a
  handler is in one place of five kinds (a thread submitting it, a queue, the
  hand of a worker, a running worker, done), once, from `schedule` on, and that
  calls agree with places. A step moves one handler from a place to another
  (`MovesTo`) or none; then the counts follow. No hypotheses: empty
  handlers, handlers that throw, failed thread starts, spurious `try_lock`
  failures and a counter that wraps are included.
* `QueuesServed`, `DestructorWaits`: `AbandonedQueueServed` and `NoTaskLeft`, under
  `Assumptions`: `try_lock` fails only on a held mutex, no handler is empty, and the
  sum of two indices of threads fits into a `ThreadId`. The first two are needed:
  with an empty handler, or with spurious failures, TLC finds `NoTaskLeft`
  violated. `ServedInv` starts earlier than the property, when a worker's last
  `pop` has returned false (`Leaving`): that queue is closed, and if it is not
  empty some worker is in a handler or will still look at it (`WillVisit`). The hard
  step is a `tryPop` that fails on the mutex: who holds it is then another worker,
  which looks at the queue itself or is pushing on it from a handler
  (`HolderVisits`). The other parts order the destructor: queues are closed one after the other, and threads joined
  so, when nobody is in `schedule` from outside.
* `SchedulerIsPool`: `PoolSafe`, if besides every thread can be started. A
  handler's place gives its status, the owner's state the phase; `Run` and `Finish`
  map to `Start` and `Finish` of the pool by `ConservationInv`, the end of the
  destructor to its `Return` by `DestructorWaits`.

### The swap chain

* `ResourcesNeverShared`: `ResourcesFree`, from the invariant (`Inv`) that a render
  that is not executed has the unsignalled fence of its frame to itself, and is
  noted in `m_imagesInFlight` for its image until the next frame has waited for it.
* `SwapChainTypes`, `AcquiresWithFreeSemaphore`, `CopiesDrainFrames`: a second layer
  (`FenceInv`). An unsignalled fence is that of a render in the queue or of the one
  to be submitted (`FencesDue`), so that an idle queue means signalled fences;
  when the fence is signalled the render has consumed `imageAvailable`, and no
  signal of it is to come (`SemaphoreFree`).
* `EngineNeverTears`: `NoTearing`, from two more layers. `OrderInv`: a
  render is followed by the present of its image, unless that was refused or is
  not queued (`Skipped`), and what is presented of its image after it is that frame.
  `ImagesPending`: the number of releases that `imageAvailable` of a render waits for
  covers every earlier use of its image; a present counts by how many come
  before it (`Turn`), and each release and each present taken from the queue shifts
  all these numbers by one, which is where the proof counts.
* `RenderedBeforeShown`: `PresentsRendered`, from `OrderInv`: a signal of
  `renderFinished` is consumed by the present that follows it, executed or refused
  (`Consumes`), so that one that is still there when the next render of the frame is
  submitted belongs to an earlier image.

All hold with one queue or two, with failing submissions and with presents that
fail; the last two are, with two queues, about frames none of whose presents was
dropped, as TLC finds them violated otherwise.

### The swap chain's creation

* `SetupTypes`, `ChoicesAreSupported`, `AttachmentsAlwaysExist`, `ViewsAlwaysBacked`,
  `AlwaysBuiltAndReleased`: from one invariant (`SetupInv`), for any number of images
  and frames. It numbers the stages (`At`); of each kind of object, one stage makes and
  one destroys a number, each in a loop over one kind of object or three, so that
  after `j` calls `(j + (l - 1 - p)) \div l` of the `p`-th kind of `l` are done
  (`Progress`). What exists are those made and not destroyed. After a throw what
  is left is part of a chain, and views are backed.

### The engine

* `ChildrenDestroyedFirst`, `EverythingReleased`: from one invariant that says at
  each stage of set-up and of unwinding which objects may still exist, and ties the
  extensions of the instance to the build, as `cleanUp` destroys the messenger by the
  one what `setupDebugger` created by the other.
* `EngineTypes`, `PicksFirstSuitable`, `QueuesAlwaysFound`: from `ChoiceInv`, for
  lists of any length and devices with any number of families. They rest on what
  the two loops find: `FindFacts` says of the pair that `findQueueFamilies` returns
  that each index is that of a family that can do it, and is there if any can;
  `Deciding` that `pickGpu` stops at the first device that throws or is suitable.

### Only model-checked

Every safety invariant, action property and refinement of a passing run is a
theorem. What depends on fairness is not: `FifoLive` and `PoolLive` beyond their
safety, `CloseReleasesPoppers`, `PendingPopTakesTask`, `CallsReturn` and
`EveryFrameShown`. Temporal reasoning about `ENABLED` is beyond the prover. The
library's induction theorems are too, as they take operators; where a proof goes
over the elements of a list (`findQueueFamilies`) or over numbers it uses
a set of numbers instead, and the least of those outside it (`Numbers`, `LeastIs`).
The properties that runs expect to be violated have no theorem.

## 6. Where the code and its words part

* `fallback_index`: when every `tryPush` has failed, `schedule` pushes onto
  `m_taskQueues[threadId]` with the counter itself: past the end of the vector
  from the `m_threadCount`-th call on.
* `nested_wait`: a task schedules another, onto its own worker's queue, and waits
  for it, while the other worker sleeps on its own empty queue: it is not woken
  and never steals, unlike the class comment says.
* `pool_family`: the command pool may belong to another family than the queue to
  which its buffers are submitted. The pool's family has graphics; the queue's need
  not, as any one of graphics, compute and transfer is enough for the search that
  finds it (`vk/vk_gpu_wrapper.cpp:452`), and in the trace it has none. The comment on
  that search speaks of graphics support (`:228`).
* `window_kept`: the window goes, and GLFW with it, before the surface on it.

Seen while modelling, and without a run:

* A build without validation layers never gets a device. `setupDebugger` is called
  in every build (`vk/vk_gpu_wrapper.cpp:41`) and throws unless the instance has the
  debug extension (`:133`), which is asked for only in builds with validation layers
  (`:154-156`). This is a defect and no property states it as a guarantee: the
  application defines such a build (`application/app_core.h:16`),
  `createLogicalDevice` has a branch for it (`:271-274`), both builds are
  instantiated (`:735-736`), and the continuous integration builds, packages and
  publishes it (`.github/workflows/ci.yml:43`, `:160-171`). In the model `SetupDebugger` ends in
  `Throw` whenever `ValidationLayersEnabled` is false.
* `tryPop` returns false on an empty queue that is open
  (`core/src/async/task-queue.cpp:41`), where its comment says only when the mutex is
  taken or the queue is done. `run` does not mind, as it asks the next queue, and
  `FifoTaskQueue` allows it.
* `renderFinished` is reused with its frame, whose fence does not cover the
  present. With one queue and presents that are all queued, no render finds it
  still signalled. With one queue one may after a present that was not queued; with
  two queues one may at any time. A second signal adds nothing to the first in the
  model (Vulkan forbids it), and of the two presents that wait, one waits
  for ever: with two queues TLC finds `EveryFrameShown` and `CallsReturn` violated
  without any failure.
* An image whose present was not queued is never presented nor acquired again; when
  two of three are lost in this way `acquireNextImage` does not return.
* `endSingleTimeCommands` ignores the result of `vkQueueSubmit`.

Seen, and without behaviour to run, as it does not compile once it is used:

* `Task`: the address of a pointer to a function is assigned to `m_invokeHandler`
  (`core/include/async/task.h:174`, and as the default at `:238`); the move of a
  large model constructs it from the pointer to the other model and not from the
  model (`:91`); `function` and `constFunction` of a large model take the address of
  what `get()` returns (`:97`, `:99`); assignment of a callable calls `task(...)`,
  which does not exist (`:194`); `operator()` calls `m_invoke`, which is no member
  (`:223`). The move assignment destroys the callable first, also that of a Task
  assigned to itself (`:183`).
* `SwapChain` is never instantiated (`m_gpuWrapper. m_gpuWrapper()`, the four
  arguments of `createImageWithInfo`); here every defect is in how a thing is named
  or passed, and the models take the evident meaning.
* `MainWindow<..., false>` names `GenericWindow<GraphicsApi, true>` as its base.

## 7. Not modelled

* Window `show`, `close`, `resize`, `update` and callbacks: nothing calls them;
  planned. `application::Core::run` is empty, and `Pipeline`'s code after its
  check of the configuration cannot be reached.
* `createVertexBuffer`: no callers, and it touches nothing but what it returns.
* `Task`: no object of it can be made, for the reasons in section 6, so that it has no
  behaviour; a model would have to put another class in its place. No code uses it.
* The destructor of `SwapChain` while frames are in flight: it waits for nothing,
  and no code creates or destroys a `SwapChain`; what its callers would have to
  ensure first is not written anywhere.
* Keyboard table, results, exceptions, log, casts: no state. The validation
  callback only logs. The OpenGL core is an empty stub. Build files, shaders and
  the template tests hold no logic of the program.

## 8. Plan

Done, in this order: the queue and its abstract specification, its proofs; the
scheduler over it, its abstract specification, its proofs; the frame loop; the
selection of devices and the life of the engine; the swap chain's creation; the
copies beside the frame loop; layers and instance extensions; presents that fail,
and two queues; then the proofs of everything that the passing runs
check without fairness.

Left, models: the operations of `Window` with GLFW's flag and the callbacks, once
something calls them; `Task`, once it compiles; a composition of `SwapChainSetup` and `SwapChain`, that the
constructor establishes the frame loop's `Init`.

Left, proofs: that the composition of `SwapChainSetup` and `SwapChain` starts the
frame loop as it assumes, once it is modelled.
