# A TLA+ model of soto

soto samples a sound card in real time and plots the signal, its spectrum, or
both. Its logic is that of a small real-time system: a pool of periodic threads
under `SCHED_FIFO`, deferred cancellation from another thread, a circular buffer shared under a
mutex, a sound card that overruns, and an exit handler that takes everything down
while the threads still run. Paths are relative to the repository root, with
`src/src/` for the C files and `src/src/headers/` for the headers.

## The system

| component | source | state | operations | what makes it correct |
|---|---|---|---|---|
| time arithmetic | `rtutils.c`, `rtutils.h` | none | `time2ns`, `ns2time`, `time_increment`, `time_cmp`, `time_multiply` | exact sums, valid results, an order |
| real-time thread | `thrd.c` `thread_routine`, `update_statistics`, `startup` | activation times, statistics | init, delayed start, periodic loop, exit | no drift, no early job, statistics that agree |
| thread pool | `thrd.c` | list of threads, status flags, pending errors | `thrd_new`, `thrd_add`, `thrd_start`, `thrd_interr`, `thrd_destroy` | rate-monotonic priorities; join before free, also when the start fails or is cut short |
| generic threads | `genthrd.c` | handle: `active`, `self`, context; per-thread cancel state and cleanup stack | `init_cb`, `thread_cb`, `destroy_cb`, `genth_subscribe`, `genth_sendkill` | a request ends the thread between jobs, its destroy runs once |
| sampling thread | `sampthread.c` | slotted circular buffer, cursor, mutex | periodic job, `sampth_get_samples` | a reader's copy is a consistent window |
| ALSA gateway | `alsagw.c` | ALSA handle | `alsagw_new`, `alsagw_read`, `alsagw_destroy` | recovers from overruns |
| plotting, plotting thread | `plotting.c`, `plotthread.c` | values and lock of every graphic | set, redraw, destroy | used only while it exists; lanes do not overlap |
| signal and spectrum threads | `signal_show.c`, `spectrum_show.c` | private copy of the buffer | periodic job | read samples, fill a plot |
| command line | `options.c` | options | `opts_parse`, getters | refuses what the rest cannot handle |
| main | `main.c` | stack of handles, statistics, resources | set-up, run, `exit_handler` | everything ends, in order; a timed run ends on time |
| logging, constants, build, docs | `logging.h`, `constants.h`, ... | none | | not modelled |

Interactions: `main` subscribes generic threads, which are pool threads whose
callbacks wrap the user's; the sampling thread writes its buffer through
`alsagw_read`; the show threads copy that buffer from their own threads; plotters
and show threads share a plot; `exit_handler` runs in the thread that calls `exit`, which
a signal or a closed window can make any of them, sends
a cancellation request to every handle and joins the pool.

What is hard here: the interleaving of a job with readers and with cancellation,
requests that come before the thread is ready or while it frees itself, an exit that comes before
the threads are marked, active or past their first job, failures
half-way (a read, a recovery, a `pthread_create`), times at the boundary of a
second, numbers that wrap around between the command line and the scheduler, priority
inversion on the mutex of the samples, and the order in which resources go away. `PROJECT.json` lists each such
hazard at its line with the properties that cover it.

## Modules

| module | models | corresponds to |
|---|---|---|
| `RtTime` | the arithmetic on `struct timespec` | one operator per function; `Second` is `SECOND_nS` |
| `PeriodicTask` | one real-time thread against the clock | `pc` is the position in `thread_routine`, the other variables its locals and `thrd->statistics` |
| `ThrdPool` | the pool, called by one thread | `threads` is `pool->threads`; `running` and `errors` are `pool->status`; the `status` of a thread is its `THRD_ALIVE`, `thread` what the thread really does; `call` and `position` say where a call is in its loop |
| `GenThrd` | any set of generic threads | `tpc`, `cancel`, `enabled`, `cleanup` are POSIX state; `active`, `self`, `context` the `struct genth_data`; `faulted` says that `pthread_cancel` was given no identifier |
| `Window` | abstract: what the sampling thread promises | a window that slides one slot per job, atomic snapshots |
| `Sampler` | `sampthread.c` with `alsagw_read` and the readers | one action per lock, copy, read outcome; `pcm` is the ALSA stream |
| `Plotting` | a plot, the plotting thread and the show thread that fills it | `values` and `lock` are those of the graphics; `channel`, `pos`, `turn` the loops of `thread_cb` or `build_spectrum`; `rpc`, `lane`, `point` the position in `plot_redraw` |
| `Options` | `opts_parse`, one option after another | `opts` is the `struct opts`; `given` what has been said so far; conversions keep their width (`UintSize`) |
| `Launch` | an accepted command line put to work, against the clock | extends `Options`; `stage` is the position in `main`; `order` the sorted pool; `phase`, `left`, `due`, `jobs`, `missed` one `thread_routine` each; `Running` is what `SCHED_FIFO` executes |
| `Soto` | the whole program: `main.c` around `GenThrd` | `mpc` is the position in `main` and `exit_handler`, `runner` the thread that `exit_handler` runs in, `held` the mutex it was interrupted with, `unheard` the threads for which `genth_sendkill` returned -1 (history); `G` instantiates `GenThrd` on the same variables |
| `*Proofs` | theorems about the module named | checked by TLAPS |
| `MC*` | instances for TLC | constants in the `.cfg` files |

`Sampler` implements `Window` (`SlidingWindow == Promise!Spec`). `Soto` composes
with `GenThrd` and implements it (`GenericThreads == G!Spec`): what `main`
and `exit_handler` do to the threads stays within what `GenThrd` allows its
client, so that what is proved of generic threads applies to the program.
`PeriodicTask` and `ThrdPool` both build on `RtTime`. `Launch` composes, in coarser steps, what the
other modules have one by one: the options, the order and priorities of `ThrdPool`, the timed loop of
`PeriodicTask` and the mutex of `Sampler`, on a machine with a scheduler; `Soto` keeps the detail of
the cancellation and leaves time out. `Plotting` takes from `Sampler` only what
`SlidingWindow` promises: what one job of a show thread reads is one snapshot, taken at one
instant. It numbers these snapshots and follows them to the screen.

### Choices in the models

- Frames are numbered in capture order, 0 is the silence of `calloc`. That tells
  apart everything that the properties need, and no sample value is modelled.
- A job of the sampling thread holds the mutex from `SampleLock` to
  `SampleUnlock`; every return path of `alsagw_read` is a separate action. The
  refinement takes the step that ends the read as the one that slides the window,
  since nobody can look before the mutex is released.
- `snd_pcm_readi` may deliver any part of a slot, fail, or find the overrun;
  `snd_pcm_wait` may report readiness, time out or report an overrun;
  `snd_pcm_recover` may fail. These and the POSIX primitives are external.
- In `ReaderUnlock` the private copy is forgotten: the next call of
  `sampth_get_samples` writes all of it before anything reads it. Without that the
  state space grows with copies that nothing can observe.
- `Set` merges the lock, the write and the unlock of `plot_graphic_set`: nobody can see a state in
  between. The redraw, which holds the lock much longer, keeps all its steps. `pl_erase_r` shows
  the frame and blanks the canvas, since the window is double buffered.
- The two graphics of the signal plot are created in the arguments of one call, whose order of
  evaluation C does not fix: `Plotting` starts with either.
- Steps of a generic thread that no other thread can observe are merged; in
  particular the cleanup handler is pushed and popped in the step that enables
  and disables cancellation. `active` and `self` are two steps, since a request may come
  between them (`genthrd.c:62`): `pthread_cancel` then gets an identifier that is still zero. That
  is undefined; it faults, or fails and trips the assertion after it, so it is taken
  for the end of the process (`faulted`, and `mpc = "stray"` in `Soto`), not for a request that arrived.
- `ThrdPool` has `pthread_create` and `THRD_ALIVE` in two steps (`thrd.c:189-200`), and the caller may
  turn to `thrd_destroy` from the middle of `thrd_start`, as a signal makes it do.
- `init_cb` never calls the user's init: it looks at `ctx->user`, which
  `genth_subscribe` leaves empty (no client has an init, so nothing depends on it).
- `PeriodicTask` takes period and delay to be valid times. Those of the show
  threads are sums made by `rtutils_time_increment` and could be one that is not
  carried, at one exact buffer length; the consequence is that of `periodic_wait`.
- `Soto`: while `main` sleeps, `exit` may be called in any thread, in main or a thread,
  between any two of its steps and with the mutex that its callback holds, or not. What
  interrupts a thread during the start (before `main` sleeps) is taken in `main`. The handler's
  thread does nothing else afterwards; a thread that needs the mutex it took away waits. A request
  that the thread sends to itself is answered in `exit_handler` if it was interrupted with
  cancellation enabled (`HandlerCancelled`); it does not wait for itself, since `pthread_join` refuses
  that and nobody looks at the result. Nothing makes an exit, on a timeout, a signal or a
  closed window, wait for the threads: it may find them not marked, not active, or before their first
  job, which for a show thread is a whole buffer away. The process ends by completing (`gone`), by
  a second `exit` (`killed`), by using freed memory (`crashed`, which may happen or not), by a request
  without an identifier (`stray`) or by the division in `show_statistics` (`divided`).
  `executed` is forgotten by an exit without success, which drops the statistics unread.
- `Launch`: nothing but a job takes time, in whole ticks; each processor goes to one of the
  highest priorities that can run, and `main` runs when one is left over. The mutex has no
  priority protocol, as in the code. The locks of the graphics are part of the time that drawing takes.
  The sound card may support any of a set of rates and grants one that is nearest.
  A job that ends exactly when the next is due counts as a missed deadline, as the sign of
  `rtutils_time_cmp` has it (`thrd.c:143`). The scale that `sampthread.c:122` passes becomes an `int`,
  possibly negative, and the product an unsigned number of 64 bits (`LongSize`).
- `%u` wraps numbers around; where C leaves an overflow undefined (the sum in `to_priority`) both outcomes
  are possible.
- Nanoseconds are unbounded: 64 bits hold more than 500 years of them.
- The builds modelled are those with assertions and with real-time scheduling
  (no `NDEBUG`, no `--disable-realtime`).

## Runs

Constants are the smallest at which the interesting cases happen.

| run | question | bounds | states |
|---|---|---|---|
| `sampler` | does the buffer behave as a sliding window, recover, and serve its readers? | 2 slots of 2 frames, 5 frames captured, 2 readers | 20320 |
| `sampler_retry` (violation) | does a job that recovered retry? | 2 slots of 1 frame, 1 reader | |
| `periodic` | drift, early jobs, statistics | a second of 3 ns, period 2, delay 2, 14 instants | 11790 |
| `periodic_wait` (violation) | are all times waited for valid? | same | |
| `genthrd` | clean end, complete jobs, termination | one thread that is killed, one that stops by itself | 1940 |
| `pool` | priorities, starts that fail or are cut short, joins | up to 4 threads, 3 periods on both sides of a second, priorities 1 to 4 | 6470 |
| `pool_priority` (violation) | are all priorities accepted? | same | |
| `plotting` | which batches can a line and a frame mix, and is everything displayed? | the signal (either order) and the spectrum display, 4 points, 3 jobs | 147854 |
| `launch` | which command lines work, when the first snapshot is full, bounded priority inversion, does a timed run end? | up to 2 options out of 7 numbers, `unsigned` and `int` of 4 bits, `uint64_t` of 8, 5 priorities, 3 rates, 1 or 2 processors, 40 instants | 103606 |
| `soto` | what is destroyed under a running thread, what is left by an exit that completes, which exits complete | the signal display: sampling, plotter and show threads; exit in any of them, at any moment | 386229 |
| `soto_dealloc` (violation) | are contexts freed in the order of the stack? | same | |
| `soto_early` (violation) | does every exit complete that is not in its own way? | same | |

*Why the bounds are enough.* Two slots have a cursor that wraps, a first copy that
is whole and one that is partial, and slots of two frames allow short reads; five
frames are two complete jobs and part of a third. Two readers contend with the job
and with each other. A second of three nanoseconds with a period of two reaches a
sum below, at and above the carry within three jobs; 14 instants are seven periods,
with jobs that overrun one or more of them. Generic threads do not interact, so two
kinds cover `GenThrd`. Four threads can have equal and different periods and one
more than there are priorities. With four points a line
can change from one batch to the other before, at and after its middle, and three jobs
let two batches pass between the lines of a frame. One display has one thread of each role; a second
adds threads that share nothing with the first but the sampling thread (the run with
both has millions of states and is left out; the theorems cover it). In `launch` an
`unsigned` of four bits has negative, wrapped and nearly full values next to ordinary ones; scale 4
makes a plot that wraps around to nothing, scale 7 one that is smaller than the buffer while the factor
still is an `int`, so that its show thread does come to its first job, and scale -1, taken for 15, makes a
factor that is not. The
periods of the sampling thread (4, 8 or 12 ticks) lie on both sides of that of the plotters (9), and loads on
both sides of what the machine can bear. 40 instants hold three jobs of a show
thread, two with the slowest card, and reach the first job of one whose plot has wrapped around.

*What the preconditions leave out*, each of which happens in the run. The sampling thread misses deadlines
when the load is not `Affordable`. Command lines that are not `Sound` reach the
assertions and the division: a scale of 0 or one that does not fit an `unsigned`; a minimum priority
that is negative or leaves no room for all the threads; a run that is too short for a job of each
thread, which on several processors, where `main` does not wait for the threads, takes the time until
the last of them is due and an interval in which all that arrives is done. `BufferFilled` needs a
processor out of the plotters' reach and a read that fits the period of the sampling thread. Without the
first, for example on one processor, the plotters, which may be more urgent, keep `main` from creating the
sampling thread while the delay of a show thread is already running: its first snapshot has silence in it.

`CHECK_DEADLOCK FALSE` stands in the configurations where the program really stops:
a thread that exits, an aborted program, a pool that is destroyed. In `Soto` the end
of the process is an explicit stuttering step, so every other state must have a
successor.

*What the violations show* is told in `PROJECT.json` under `findings`, with the
line quoted and the line of code that disagrees: the retry that is lost in a fallthrough
(`alsagw.c:159`), the carry missing at exactly one second (`rtutils.c:34`), the
priorities past the highest (`thrd.c:185`), the request that a thread ignores
before it is ready (`genthrd.c:148`), and the contexts freed out of order
(`main.c:125`). Three more disagreements with what the code says of itself have no run of their own; they
show in the preconditions of properties that hold:

- `signal_show.c:89-91` says that the delay of a show thread lets the sampling thread fill a buffer. It
  does only under the precondition of `BufferFilled`.
- `thrd.h:123-124` says that `thrd_destroy` joins all its threads before it frees memory. A thread
  that a signal finds created but not marked yet is freed without (`thrd.c:200`); `JoinedBeforeFreed` and
  `CleanExit` say that it is the only one.
- `genth_sendkill` may cancel a thread that has no identifier yet (`genthrd.c:62`, 144). `KillTerminates` and
  `HeardExitCompletes` are about the other requests.

Besides, a read that fails or falls short advances the cursor too
(`sampthread.c:76`): the window then has old frames in it (`Slid` in `Window`), and `Recovered` says for how
long.

### Fairness

- `Sampler`: weak fairness of the steps of a job or a copy in progress, since no
  thread stops in the middle. Strong fairness of taking the mutex: each
  thread sleeps for most of its period, so the mutex is free again and again and a
  waiting thread gets it. Strong fairness of a *successful* recovery: ALSA does not
  fail for ever. Nothing is assumed of full or short reads.
- `Plotting`: weak fairness of the plotting thread, which is periodic; strong fairness of `Set`,
  since the plotting thread sleeps between two redraws and leaves all locks free: that the show thread gets
  the lock is assumed, not shown. Nothing
  promises a further job of the show thread.
- `Launch`: weak fairness of the next step as a whole: time goes by, and the scheduler gives
  the processors to those who are due. Whether `main` gets one is not assumed: `RunEnds` derives it from
  a load that leaves a processor idle (`Light`), since every thread outranks `main`.
- `GenThrd`, `Soto`: weak fairness of every thread and of `main`: each has its
  turn. Nothing promises that the program is told to end.
- `KillTerminates` leaves out the behaviours in which a request without an identifier ends the process.
- `HeardExitCompletes` is about an exit that is `Unhindered` and `Heard`. Unhindered: an exit that
  runs in a thread with a mutex in hand waits for those who need it (the warning at `main.c:136`), and
  one in a thread that answers its own request is cut short. Heard: every thread has stored its
  identifier before its request is sent, every thread that is marked accepts its request, and a
  successful exit finds statistics of all threads. Its behaviours are those in which `exit` is not called
  once more and no thread crashes on freed memory; it must then reach `gone`, no other end will do.
  `ExitCompletes`, in the run `soto_early`, asks only for some end of every unhindered exit, and is violated.
- `NothingUsedAfterDestroyed`, `CleanExit` and `ShowsToldFirst` assume nothing of the scheduling. They leave out
  the thread that `exit_handler` runs in and the one that was just being created. The context of the sampling
  thread is not among what is kept, since the run `soto_dealloc` shows that it is not; `ShowsToldFirst` says
  what the order of the stack does give.

## Proofs

TLAPS proves, for every value of the constants that satisfies the assumptions:

- **`RtTimeProofs`**: `rtutils_time_increment` adds exactly and is valid
  except when the nanoseconds add up to one second; `rtutils_time_cmp` is an order
  even when its first argument was not carried. Assumption: `Second` is positive.
- **`PeriodicTaskProofs`**: `TypeOK`, `NoDrift`, `NeverEarly`, `StatisticsAgree`.
  Neither of the last two is inductive alone: that the miss count agrees with the
  worst response needs the comparison of `next_act` with the clock to
  mean "the response has reached the period", which needs `Time2ns(next_act) =
  Time2ns(arrival) + PeriodNs` while a job runs (`Releases`), which needs the
  activation that a job starts from to be a *valid* time (it has been waited for)
  so that `TimeIncrementAdds` applies.
- **`GenThrdProofs`**: `CleanEnd` and `JobsComplete` for any set of threads. The
  invariant `Protected` says that cancellation is enabled only before `init_cb` and
  between enable and disable in `thread_cb`, and there the cleanup handler is pushed;
  hence every request that is answered goes through `destroy_cb`. It relies on
  there being no cancellation point before `init_cb` has disabled cancellation
  (`CancellationPoint`), which holds since no user's init is called.
- **`ThrdPoolProofs`**: `RateMonotonic`, `LeastUrgentStarted`,
  `JoinedBeforeFreed`. Invariant: along the list of a running pool priorities go up
  by one and periods do not go up (`Ranked`), what has been started is a prefix
  (`Phases`), and only the last of it may be without its mark (`Unmarked`): whatever part of `thrd_start` a
  signal leaves to `thrd_destroy`, at most that one is freed while it runs. `RateMonotonic` follows for *any* permutation that a sort by `prio_cmp`
  may choose, although `prio_cmp` never says equal.
- **`SamplerProofs`**: `TypeOK`; `NoTornCopy`, which consists of who holds the mutex
  where (`Exclusion`) and what a half-made copy contains (`HalfCopied`), and is
  inductive; from it the refinement `SlidingWindow` (the end of a read slides the
  window, the second copy delivers the snapshot, everything else stutters). Of the abstract window,
  instantiated as in the refinement: a complete job adds a slot to the part that is in
  capture order (`SlideRecovers`), hence `WindowRecovers`; and from both, `Recovered`.

- **`PlottingProofs`**: `TwoBatches` and `FrameInOrder` for plots of any length. Invariant: a
  graphic holds the current batch up to where the show thread is and the one before from there
  on (`Filled`); the graphic being drawn is locked (`Holding`), so the line follows its values
  (`Traced`) and is at most one batch behind what is above (`TracedInOrder`). Besides, about the
  geometry: lanes stay in the window and share at most a border row, for any number of graphics
  and range of values; `build_spectrum` fills every position once, within `ft->out`, if the
  length is even, as `sampth_get_size` is.

- **`SotoProofs`**: `TypeOK`, `NothingUsedAfterDestroyed`, `CleanExit`, `ShowsToldFirst` and the refinement
  `GenericThreads`, for any displays, whatever thread `exit_handler` runs in and whenever `exit` is called,
  with no assumption on the scheduling. Invariant: pool, plots and handles follow `Subscriptions` during the
  setup (`Subscribed`); at most the thread that `thrd_start` is creating is not marked alive (`Marked`), so
  what `thrd_destroy` has passed, but for that one and the thread it runs in, it has waited for
  (`Passed`), and who is still busy finds what it uses (`Equipped`). A handle is popped once and a
  thread only ends on request (`Requested`), so no request goes through a handle that has been
  freed, which is what the refinement needs; the handle of the sampling thread is popped after all the
  others (`Order`). `Protected` of `GenThrd` is part of the invariant and kept by
  the lemmas of `GenThrdProofs`, instantiated.

- **`LaunchProofs`**: `LastMentionCounts` and everything about `Launch` but its liveness, for any
  options, periods, execution times, number of processors and order in which a sort may leave equal
  periods. `LastMentionCounts` needs that a mention carries an argument of its option (`Recorded`);
  the two conversions of `--minprio` change a number by a multiple of the range of `unsigned`
  (`Congruent`). The rest stands on `BasicInv`: `TypeOK`, what is settled at each stage of
  `main` (`Staged`), threads that exist in the order of their ranks (`InOrder`), dates that agree with
  phases (`Timed`), and a mutex that excludes (`Exclusive`). On it there are three arguments about time:
  - `SoundOptionsWork`. The priorities and the plots are arithmetic on what the options say. That
    every thread has done a job when `main` wakes up is scheduling: on one processor `main` runs when
    no thread is due, so each has had its first job. On several it is the demand bound of real-time
    analysis: `Load(end)` is the work that is owed up to a date, on its way or to arrive.
    A step of a thread does not change it (an arrival turns work to come into work
    on its way), a tick while anybody runs takes one off it. `OnTime` says that there is always a date, at
    most the interval ahead, until which the load leaves a tick to spare: it is renewed when all are
    asleep, where `Demand` bounds the load (`DemandBounds`).
  - `BufferFilled`. With a processor out of the plotters' reach `main` creates all the threads at one
    instant and the sampling thread is activated when its delay is over, then period after period
    (`Regular`). Until the first snapshot no show thread holds the mutex, so nothing keeps the
    sampling thread from its processor but plotters, and it is served when it is due (`Prompt`). `Filled`
    follows the date up to which arrivals are served. The delay of the show threads is never shorter than the
    buffer, although the factor may be negative (`Multiplied`): it wraps to a time that is longer.
  - `SamplingMeetsDeadlines`, on one processor. `Ahead(end)` is what may pass before the sampling
    thread is done with its jobs up to a date: its own work, the redraws of the plotters that outrank it or
    the holder of the mutex, and the rest of the copy that holds the mutex. `Response`
    says that there is a date, at the latest the deadline, until which `Ahead` leaves a tick to spare. It
    is renewed when a thread is created, when a show thread takes the mutex, and when time passes while
    nothing that is ahead runs; then all that could be ahead is asleep (`Quiet`), and `Affordable`
    bounds a period of it (`Renews`). It needs that a show thread above
    the holder of the mutex is not at work (`NoOvertaking`), else it would delay the
    sampling thread as well, and `Affordable` does not count that.

`TypeOK` is proved of every module with proofs; it bounds cursors, positions and loops and is
not only a list of types.

`NoTornCopy` and `TypeOK` are invariants of the runs as well; the other strengthenings are stated in
the proof modules, beside the proofs that need them.

Only model-checked: `SamplingMeetsDeadlines` on several processors, where a show thread can go to
work above the holder of the mutex and `NoOvertaking` does not hold, and the liveness properties
(`ReadersServed`, `OverrunRecovered`, `KillTerminates`, `HeardExitCompletes`, `Displayed`, `RunEnds`), since
liveness under fairness is out of the prover's reach.

## Not modelled

- Memory that runs out (every allocation is assumed to succeed).
- A second `thrd_start` of a running pool: no caller makes one, and its own comment
  (`thrd.c:277`) says that it is not supported.
- `exit` in a worker thread before `main` sleeps, and what the C library does when a
  handler interrupts one of its own functions (`exit`, `malloc` and `free` are not safe in a signal
  handler).
- The magnitude of a transform that is not normalised, against the range that `denormalize`
  can convert (`spectrum_show.c:71`): it depends on fftw's arithmetic on reals.
- Builds with `NDEBUG` (no sleep at all, `rtutils.h:81`), without real-time
  scheduling, or where `unsigned long` has 32 bits.
- The statistics that are printed while the threads still update them (`main.c:93`): a data
  race on plain counters that only affects what is printed.
- The internals of ALSA, libplot, fftw3 and libdacav (external, modelled by how the code uses them),
  logging, the build, and the texts of help and errors (the help states defaults and a short option
  that differ from `constants.h` and `optstring`: `options.c:86` against `constants.h:97`, `options.c:92`
  against `options.c:62`).

What could come next: the response time of the sampling thread on several processors; that `Launch`
implements an abstract periodic task like that of `PeriodicTask`; `Soto`
with an exit in a worker thread during the start.
