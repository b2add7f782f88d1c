# Verification of the INAETICS demonstrator

TLA+ models of the demonstrator's own code, checked with TLC on small instances
and proved with TLAPS for all instances where that is possible. Paths below are
relative to `src/`; `celix/` stands for `org.inaetics.demonstrator.celix.implementation`,
`java/` for `org.inaetics.demonstrator.java_impl/src/org/inaetics/demonstrator` and
`web/` for `org.inaetics.demonstrator.java_impl/resources`.

## 1. Inventory

The demonstrator produces samples, queues them, processes them and stores the
results, on a cluster that a coordinator scales. There is a C implementation on
Apache Celix and a Java implementation on OSGi; both publish the same remote
services (`SampleQueue`, `DataStore`, `Producer`, `StatsProvider`,
`CoordinatorService`).

| Component | State | Operations | Interaction | Hard behaviour | What makes it correct |
|---|---|---|---|---|---|
| Celix sample queue `celix/sample_queue` | array list, `currentQueueSize`, `putCnt`/`takeCnt`, `statisticsRunning` | put, putAll, take, takeAll, utilization, create, destroy | called by producer and processor threads and remote endpoints; own statistics thread | one condition variable for two kinds of takers, timed waits, unsynchronised utilization, destroy under waiting threads | bounded FIFO, nothing lost or duplicated, counters agree, wake-ups not lost, calls return |
| Celix producer `celix/producer` | map queue service -> thread data (`running`, `sampleRate`, throughputs) | thread loop, queueServiceAdded/Removed, get/setSampleRate, getValue, stop, destroy | framework callbacks, queue calls, remote getters and setters | join under a writer lock, flags without lock, rate read twice | no use after free, no call after removal, rate respected, removal ends |
| Celix processor `celix/processor` | map queue service -> thread data, list of data stores | thread loop, receiveBursts/Samples, sendResult, callbacks | queue and data store calls | as the producer; ownership of results | every result given to every tracked store once, no call after removal, removal ends |
| Celix data store `celix/data_store` | array list, `currentStoreSize` | store, storeAll, destroy, utilization | called by processors | pointer kept from the caller, full store | bound, counters |
| Celix statistic tracker `celix/statistic_tracker` | map thread -> service, one shared `running` | poller, added/removed callbacks, stop | polls every `StatsProvider` | shared flag set by late starters, join | tracked services are polled, removal ends, no call after removal |
| Java sample queue `java/queue` | `LinkedBlockingQueue` | put, putAll, take, takeMinMax | producers, processors | blocking put, interrupted take | bounded FIFO |
| Java producers, processors `java/producer`, `java/processor` | executors, counters, interval | start, stop, task loop, averaging loop | queue, data store | timeouts racing completion, cancellation, restart | one loop at a time, counts match what was sent |
| Java data store `java/datastore` | concurrent list | store, storeAll, findResultsBetween | processors | check-then-act | bound, results readable |
| Auto scaler `java/coordinator/autoscaler` | schedule, thresholds | checkQueue, scale, updated | stats providers, coordinator | read-modify-write races | stays within limits, reacts to the queue |
| Coordinators `java/coordinator/k8s`, `stub` | replica counts per type | get/setReplicaCount, updated | Kubernetes replication controllers | status lags behind request | counts add up, limits respected |
| Coordinator servlet `java/view` | producers, stats, production rate | doGet, doPost, add/remove | dashboard, producers, coordinator | added producer against rate change | all producers get the last rate |
| Utilization aggregator `java/utilization` | list of providers | getValue | servlet | a provider fails | value within range |
| Dashboard `web/inaetics*.js` | pending request of each part, canvases and their attribute `hasData`, slider, panels | poll, render, post | GETs and POSTs of the coordinator servlet; draws and updates charts | failed, silent and late answers, posts that overtake each other, statistics picked by position, updates of a chart that is being animated | polling goes on, each canvas ends up with the last values of its statistic, controls follow the servlet |
| Chart engine `web/ChartNew.js`, passes | per canvas `firstPass`, id, size, loops; `jsGraphResize`, `jsGraphAnnotate` | draw, updateChart, frames, resize, scroll | called by the pages and by browser events | updates, resizes and frames in any order; ids shared by charts of one millisecond | one loop per drawing, drawings end complete, in the right size, with current data |
| Chart engine `web/ChartNew.js`, drawing | statistics of the data, bounds, scales, positions, annotations | one pass of a chart of each type, mouse events | called by the passes | rounding of scales, gaps in data, two axes, partial animation, angles rewritten by the mouse handler | scale covers the data and is found, neighbours, lines and bars are right, the mouse finds them |
| Cluster info, log sender, page libraries | see `PROJECT.json` | polling, sockets | | I/O | not modelled |

The hazards of each part, with the line where they bite and the properties that
watch them, are listed in `PROJECT.json`.

## 2. Modules

| Module | Models |
|---|---|
| `BoundedFifo` | abstract: what any sample queue promises |
| `CelixSampleQueue` | `arraylist_sample_queue_impl.c` and the stop of its activator; refines `BoundedFifo` |
| `ServiceUser` | abstract: what a component that tracks services promises the framework |
| `CelixProducer` | `producer_impl.c` and its activator; refines `ServiceUser` |
| `StatisticTracker` | `statistic_tracker_impl.c` and its activator; refines `ServiceUser` |
| `CelixProcessor` | `processor_impl.c` and its activator; refines `ServiceUser` twice, for queues and for data stores |
| `ChartEngine` | the passes of `ChartNew.js`: `init_and_start`, `updateChart`, `subUpdateChart`, `animationLoop`, `testRedraw`, `chartJsResize`, `scrollFunction` |
| `Dashboard` | `inaeticsCommon.js`, `inaeticsStats.js`, `inaeticsDashboard.js`; extends `ChartEngine` (composition) |
| `ChartScale` | the arithmetic of `calculateScale` and `calculateOffset`, without state |
| `ChartDrawing` | one pass of a chart: `initPassVariableData_part1` and `part2`, `getValueBounds`, the scale loop, `drawLinesDataset`, `doMouseAction`; extends `ChartScale` |
| `MC...` | the instances for TLC |
| `...Proofs` | the theorems |
| `Positions` | lemmas on natural numbers, recursive functions, ordered lists and arithmetic that the proofs share |

`ServiceUser` is what connects the components. `CelixSampleQueue!DestroyBegin`
waits until the *tracked* clients have left the queue, because
`serviceRegistration_unregister` calls the trackers' removed callbacks before it
returns. That this is enough needs each tracker to keep the promise of
`ServiceUser`: no thread is inside a service after the removed callback has
returned. `CelixProducer`, `CelixProcessor` and `StatisticTracker` are shown to
keep it.

### CelixSampleQueue

Each client is a thread with a program counter; a pass through the mutex that
nobody can observe half-way is one action (`PutStore`, `TakeSample`, ...).
`putAll` and `takeAll` take one action per sample, since the utilization is read
without the mutex and the counters of `takeAll` follow only after its loop.
`pthread_cond_signal` wakes one waiter chosen arbitrarily, a wait may end by
timeout (`rc = "timedout"`) or spuriously, `calloc` and the list may fail.
The printing thread sets, tests and reports in separate actions. `life` follows
`bundleActivator_stop` and `sampleQueue_destroy`; using a NULL list or freed
memory sets `fault` to the thread that does it, after which the process is gone.
`accepted`, `taken` and `reported` are history variables.

`out` is the caller's variable that `put` and `putAll` get a pointer to. They do not
write it on every path: `put` only where it had memory for the copy (line 144), `putAll`
only with the list (line 201). A full queue is a success of `put` that writes nothing; without memory
or without list nothing is written either. What is in the variable before the call
is therefore part of the model (`Before`): 0 for the clients in `Zeroing`, which clear it first as
both sending loops of `producer_impl.c` do (lines 111 and 166), any number that fits for the others.
`PutReportsTruth` says what either kind can rely on.

Two simplifications: `takeAll` fills the buffer its implementation declares (by value),
although `sample_queue.h` declares a pointer to a pointer (a hazard of its own in `PROJECT.json`),
and tells its caller no number; and a client begins a call only
while the service is registered (it may well be inside when it is unregistered).

### CelixProducer

A thread per queue service alternates between bursts and single samples. The
local copy of the rate, the second unsynchronised read of it, the loop tests and
the calls are separate actions; how many samples a call stores and whether the
second is over when it returns is left open. `queueLock` prefers writers: a
waiting callback keeps new readers out. `RemoveBegin` and `RemoveEnd` are the two
sides of `pthread_join`, with the lock held in between. Getters and the setter
visit the thread data one by one. Rates are those the servlet can ask for
(0 to the maximum). A getter's average is kept as a sum and a number.

### StatisticTracker

A poller per service; `PollLookup` and `PollDone` enclose the calls of the
service, made with `statLock` held for reading. The added callback creates the poller and
puts its entry into the map in two steps (`CreatePoller`, `PutEntry`) with the lock held for writing: the
poller may run in between, but cannot look into the map. The removed callback takes the
entry out with the lock and joins without it. `MaxAppear` bounds how often
services appear.

### CelixProcessor

A thread per queue service takes bursts for a second and publishes the number of
samples it received (`BurstsNext`, `TakeAllReturn`, `ProcessSample`, `ProcessEnd`,
`BurstsDone`); what `takeAll` answers and whether the second is over is left
open. The result of a sample is sent by walking over the array list of data
stores with `dataStoreLock` held for reading (`SendLock` to `SendEnd`), one
action on each side of a `store` call, because the call is remote and may last.
Both locks prefer writers. The callbacks of the two trackers run independently;
those of a data store join nobody and rely on `dataStoreLock` alone. `given` is a
history variable: the stores called with the current result. Thread data
are freed when their entry leaves the map (`RemoveEnd`). `processor_receiveSamples` is never
executed, since `SINGLE_SAMPLES_PER_SEC` is 0 in the source. `MaxAppear` bounds
how often data stores appear; queues come and go without bound.

### ChartEngine

A chart is the record of what the engine keeps in a canvas context: `firstPass`
(undefined, 1 to 4 while drawing, 5 at rest, and 0, 6 and 7 on the way), the id,
the size it was drawn in, the animation loops that have a frame to come, and
what its picture shows. Scripts run to completion, so a function that draws is an
operator from one record to the next and an event is one action; `chartJsResize`
takes an action per registered chart. A frame, a repetition and the last frame,
which runs `testRedraw`, are three actions (`NextFrame`, `RepeatFrame`,
`LastFrame`). The width of the shared container stands for the size. The option
`clearRect` is set, `onAnimationComplete` and `multiGraph` are not, as on the pages. The entry for
`dynamicDisplay` is kept with the chart; the code finds it by the id of the canvas, and a canvas has one context.
Two charts created in one millisecond share an id; `CurrentData` is stated for
distinct ids, and `Dashboard` shows what remains true with shared ones.

### Dashboard

One variable `part` chooses the part of a page; parts share only the event loop
and are looked at one by one. `poll` follows a request through timer, sending and
answer; an answer is an error status, `null`, or the statistics in either order,
fewer of them when a provider is silent. `Answer`, `Reported`, `Post`, `Measure` and `Provider` are
what `CoordinatorServlet` does as far as a page can tell; two scalings that read the same
number of replicas lose one, which is one of the ways a post may be lost. A network error ends the polling of
the part ("dead"), since `getJSON` has no `onerror`. A callback that throws (a
missing statistic) still reschedules. Canvases that are removed and created again
are generations of one name. Posts are a set: they arrive in any order or are lost.
The dashboard asks for two statistics and the page stats for all (`Wanted`); an answer
is rendered one statistic after the other, by a recursive function over the answer.

### ChartScale and ChartDrawing

`ChartDrawing` takes the steps of one pass in the order of the code; the two
loops worth interleaving, the scale loop and the frames, have an action per
iteration. The type of a chart decides between `Adapt` and `AdaptHorizontal`,
`Pass1` and `Pass1Round`, `Place` and `PlaceHorizontal`, `drawBars` and
`drawPieSegments`. Mouse events come at any time after the positions are known.

Numbers are exact: values are integers in units of 1/1600, positions along the
bars in tenths of a pixel, across them in a fraction that makes widths whole,
animations advance linearly. The code uses floating point with the tolerance
`zeroValue`; rounding to whole steps, pixels and powers of ten is modelled.
A value on a logarithmic scale is placed at the power of ten below it, and fractional intervals
have a fixed number of decimals (`roundScale`). Labels are texts, and `fullWidthGraph` is off. The
pointer is in the middle of a datum or off the plot. Options that only change
texts or colours are left out; spacings have the values of the default
configuration, and datasets are not longer than the labels. A step of the
scale and a label have at least a pixel, and a logarithmic HorizontalBar has no given scale. Totals of pies divide
the circle. What a page hands over is an assumption on the constant `Charts` (`WellFormed`: data
are numbers or missing, a given scale has steps, an interval is at least a hundredth), which TLC
evaluates for the charts of the run. The loops of the code over datasets, data and segments are
recursive functions (`PassData`, `RowEntries`, `PassPie`, `drawLinesDataset`), so that what they compute can be proved. A curved line (`bezierCurve`) is represented by the points it passes through, and the
heights of bars and the angles of segments in frames before the last are not modelled.

## 3. Runs

| Run | Instance | Shows |
|---|---|---|
| `queue_safety` | 2 clients (one tracked; the other takes bursts of 1..2 and clears its result variable), capacity 2, 3 samples, bursts up to 2 | all safety properties of the queue and the refinement of `BoundedFifo` |
| `queue_wakeup` | 3 interchangeable single takers that clear their variable, capacity 2, 2 samples | `NoLostWakeup` |
| `queue_liveness` | 2 clients that clear their variable, 2 samples, bursts of 1 | `CallsReturn`, `DestroyEnds` |
| `producer_safety` | 2 interchangeable queues, 1 caller, rates 0 and 1, bursts of 1 | memory safety, averages, setter, refinement of `ServiceUser` |
| `producer_liveness` | 1 queue, 2 callers, rates 0 and 1, bursts of 1..2 | `RateRespected`, `TeardownEnds` |
| `producer_actual_rate` | 1 queue, 1 caller | a violation: see section 6 |
| `stat_tracker` | 3 services, 4 appearances | `PolledWhileTracked`, refinement, `TeardownEnds` |
| `processor_safety` | 2 interchangeable queues, 2 interchangeable data stores, 1 caller, rate 1, bursts of 1, 2 appearances of stores | the inductive invariant, `ThroughputInRange`, both refinements of `ServiceUser`, `EveryStoreOnce` |
| `processor_liveness` | 1 queue, 2 data stores, 1 caller, rate 1, bursts of 1..2, 3 appearances of stores | `TeardownEnds`, `ThroughputInRange` |
| `chart_engine` | 2 charts, 3 widths (one too small for a scale), animations of 2 frames forth and back or none, 4 events | `LoopMatchesPass`, `EndsComplete`, `CurrentData`, `ResizeFollowed` |
| `dashboard` | 2 statistics, 2 generations of canvases, 2 versions of the values, 2 acts of user or providers, every part of the pages | `OwnStatistic`, `PollingGoesOn`, `LatestShown`, `ControlsSettle` |
| `chart_drawing` | about 9,100 charts of 7 types, 4 frames, 2 mouse events | `ScaleEnds`, `ScaleCovers`, `NeighboursRight`, `LineFollows`, `BarsApart`, `MouseFinds` |

Why the bounds are enough. Capacity 2 with 3 samples fills the queue, makes a
burst meet the capacity half-way and leaves samples behind; two clients and the
statistics thread contend for the mutex, and three takers are needed for one
to wait while a second is woken and a third arrives. Two queues are needed for an average that
differs from its terms and for a removal that blocks another callback. Bursts
of 2 with rate 1 overshoot: in `producer_liveness` and `processor_liveness`, since two
queues with bursts of 2 exceed what TLC can enumerate in minutes (two queues are needed for the
sum, bursts of 2 for its terms; the theorem has both). Of the two clients of `queue_safety` one clears its
result variable and one does not. Two data stores make a walk over the list that a
removal could shift, and two threads can hold `dataStoreLock` together while a
callback waits for it. Two charts are needed for shared ids and for a resize
that meets one chart at rest and one in the middle of an animation; four events
let a chart be drawn, updated, resized while being drawn and updated again. Two
generations let a canvas be removed and created anew; two versions make a
dropped update visible. The charts of `chart_drawing` are products of small sets,
each aimed at one part: spans of every sign and magnitude with every height and
interval for the scale; all patterns of five data with and without a gap, in
every kind of animation, also with a single datum left to animate, for the lines; one to three datasets of either sign, one
of them possibly a line, in wide and narrow columns, and on a logarithmic scale, for the bars; segments
across the start of the circle, and two mouse events, because the first one
rewrites the angles the second one reads. The theorems of section 5 do not
depend on these bounds.

`IInv` of the queue and of the producer contains `TypeOK`, and `SizeConsistent`,
`UtilizationInRange` and `NoUseAfterFree` follow from it (section 5), so the runs
check `IInv` in their place. `TeardownEnds` is the conjunction of what has to end:
removals of queues and data stores, and the stop of the bundle.

`ScaleCovers` is stated for charts with room for six steps or more. Below that the
code really can lose the top of a scale: nine steps are halved to five (rounded
up) and five to two (`Math.round` of 2.25), and `CapValue` then cuts the greatest
datum off. It is also stated for intervals (`yAxisMinimumInterval`) of 1, 2 or 5 times a
power of ten that `roundScale` keeps, which the proof shows to be needed (section 6);
the charts of the run have intervals of each of these forms. `BarsApart` is stated for columns wide enough for a bar. That bars stay inside their
column is stated for up to eight of them, four if they have the least width (`Fitting`): with one
more the strokes no longer fit into the spacing (section 6). The run has charts on both sides
of each bound (`ManyBars`).

Each property has a faulty variant of a definition, marked "Faulty" in the
modules, that breaks it: these are the bugs the property is there for (a
dropped lock, a missing join, LIFO removal, an unreset counter, ...).

## 4. Fairness

Weak fairness for every thread and callback: a pthread that can run runs, and a
mutex or read-write lock that stays free is obtained. Contention for the queue's
mutex cannot go on for ever in an instance, since samples are finite. Strong
fairness is assumed for two clock events. `Timeout`: the deadline of `take` and
`takeAll` is computed once, before the first wait, so wake-ups do not postpone
it. `TimeUp`: the second of a sending or receiving loop passes however often the
loop comes round. A call of a queue or a data store by the processor is assumed to return.
Nothing is assumed about callers, about services that appear, or (except
while the tracker is being closed) that disappear.

A browser runs due timers, frames and the rest of a handler: weak fairness for
`AnimFrame`, `chartJsResize` and the steps of a request. Strong fairness is assumed
for one event, `LoadOk`: a servlet that answers does not fail every single time,
so an answer that is possible again and again is once a good one. Nothing is
assumed about network errors, the user, providers and the window. In
`ChartDrawing` only the loop of `calculateScale` is fair (`AdaptScale`): it is straight
code.

`CallsReturn`, `DestroyEnds` and `TeardownEnds` name the exceptions the
code really has: a process that has crashed, a statistics thread that starts
after destroy has cleared its flag, and a producer or processor thread that starts
after its removal has cleared `running` (`Stuck`). These properties therefore do not watch the
races between a start and a stop; they are hazards without a property. The statistic tracker has no such
exception because its pollers also look into the map.

## 5. Proofs

All theorems hold for every number of clients, queues and services and all
values of the bounds, under the `ASSUME`s of the modules (finite sets of clients
and queues, a positive capacity, rates up to the maximum, at least one frame of an animation).

* `CelixSampleQueueProofs`. `IInv` adds to the types that a put has a sample, a
  burst starts counting at zero, the mutex belongs to the client inside a burst
  loop and to nobody once the list is gone, and the sizes are in range. Without
  the ownership of the mutex the lag of `currentQueueSize` behind the list could
  not be attributed to one `takeAll`. From it follow `SizeConsistent` and
  `UtilizationInRange`, the refinement of `BoundedFifo`, and, each with its own
  step lemma, `SamplesConserved`, `StatisticsComplete`, `TrackedNeverFault` and
  `NoLostWakeup`. The last one counts alert takers: a store adds a sample and,
  if somebody waits, an alert taker; a take removes one of each; waiting is
  entered only with an empty queue. `PutReportsTruth` needs two more invariants:
  `OfferedOnce` (no sample is offered twice, so a sample found among the accepted
  ones was stored by this very call) and `PutCounts` (a burst has stored only
  samples up to its index, its counter is their number, and the variable of a caller in `Zeroing`
  still holds 0 as long as the call runs).
* `CelixProducerProofs`. `IInv`: the writer of `queueLock` is the removal that joins, and then
  nobody reads; map, thread data and tracker state agree; a call is made only
  below the rate; a lone setter has set what it has visited. Consequences:
  `NoUseAfterFree`, `RateRespected`, `SetReachesAll` and the refinement of `ServiceUser`.
  `AverageInRange` follows from `WrittenInv` (what a thread writes for the callers is
  at most what one thread can reach) and `SumInv` (the sum of a caller is at most that
  times the number of entries its iterator has passed), the second because the
  caller holds `queueLock` and the map does not change under it.
* `StatisticTrackerProofs`. `IInv`: a poller per entry or pending join, readers
  are exactly those who poll and have an entry, the flag stays set until stop.
  Consequences: `PolledWhileTracked` and the refinement of `ServiceUser`.
* `CelixProcessorProofs`. `IInv` has a part per concern: `LockInv` (the writer of
  `queueLock` is the removal that joins), `MapInv` (map, threads and tracker
  agree, iterations stay inside the map), `ListInv` (the list holds each tracked
  store exactly once) and `SendInv` (who walks over the list holds the lock, and
  the stores passed are a prefix of the list). `SendInv` is what makes removal
  during a walk impossible and a finished walk complete. Consequences:
  `EveryStoreOnce` and both refinements of `ServiceUser`. `ThroughputInRange` again
  takes two invariants: `CountInv` (a thread takes a burst only below the samples
  of a second, and does not count a sample of a burst twice) and `SumInv`.
* `ChartEngineProofs`. `EngineIInv`: types with `firstPass` among undefined and 1
  to 5; `at` points into `jsGraphResize` during a resize; each chart has one loop
  exactly while it is drawing, is complete at rest, and with `dynamicDisplay` has
  been seen before it was drawn. The last part is what makes the invariant
  inductive: `updateChart` and `chartJsResize` put a chart into one of the passing
  states 0, 6 and 7 and rely on `subUpdateChart` to leave them at once, which it
  does only for a chart that has been seen. The lemmas follow the functions:
  what `redrawGraph`, `subUpdate`, `testRedraw` and `updateChart` make of a good chart
  is a good chart. Consequences: `LoopMatchesPass` and `EndsComplete`, for every
  number of charts, frames and repetitions. `DataIInv` is the invariant behind
  `CurrentData`: as long as ids are distinct, a chart is as it was created or there is
  one content that its loop, its picture, its entries in `jsGraphResize` and
  `jsGraphAnnotate` and its entry for scrolling agree on (`Carries`). It has to name
  the entry for scrolling, because a chart that was never seen has its data only there.
* `DashboardProofs`. `PageIInv` is `EngineIInv` with the types of the page and two
  parts. `OwnCharts`: what is drawn or being drawn on a canvas is its own statistic,
  and every registered chart has been drawn at the one width there is, so a resize,
  whose data may belong to another chart with the same id, draws nothing.
  `CanvasesSuffice`: a new canvas takes two changes of a provider, so the bound on
  changes also bounds the generations of canvases, and a callback never asks for
  one that does not exist. Consequences: `OwnStatistic`, and the invariants of the
  engine for callbacks that draw several charts (`PageChartsSound`).
* `ChartDrawingProofs`. `ScalesCover`: every scale `calculateScale` settles on covers the
  data of its axis, whatever the data, the options and the height, where `Measured`
  holds: the range is at least a hundredth and within the powers of ten of the model,
  and the chart is less than 34 labels high (`minSteps` at most 16), so that every step the loop
  reaches is a whole number of units. `ScaleCovers` is not inductive: while the loop runs the
  number of steps may lag behind the range. `ScaleIInv` says in which of three ways it
  can still be trusted. `Exact`: the steps fill the range, and the step is even as often as
  it can still be halved. `Doubled`: an exact step was doubled once, half a step was
  rounded up, and six steps at most remain, so it is not doubled again where six fit.
  `Between`: the interval is greater than the first step, which then is no multiple of the
  interval, and the rounding up to a multiple after the loop repairs what was lost. The
  lemmas on trimming (`TrimBottomKeeps`, `TrimTopKeeps`) and on logarithmic scales
  (`LogScaleCovers`) finish the argument.

  `NeighboursAreRight`: for any number of datasets, data and gaps, the neighbours, sums and
  differences of `initPassVariableData_part1` are the right ones, and a pie closes. A loop that
  writes into entries behind it has no simple invariant over the entry it is at, so the whole
  result after j turns is stated outright (`Linked`, `DataUpTo`, `PieUpTo`: the nearest
  datum *so far*, the sums *so far*) and one more turn is shown to make the next of it
  (`DatumPassed`, `SetPassed`, `SegmentPassed`); `SamePositions` then identifies it with the recursive
  function of the model. Sums are compared position by position (`TotalDiffers`). `LinkIInv` says that
  `stat` is this result, with the angles of any set of segments normalised; normalising
  twice is normalising once, and keeps an angle on the circle (`NormalisedIs`).

  `BarsAreApart`: no two bars of a column cover each other, and all that fit stay inside it,
  for any number of datasets and any data. Across the column this is the room that r bars take
  (`Taken`) against what `barWidth` leaves of the column; `RealBars` counts the bars between
  datasets drawn as lines. Along it, the data of one sign sum up away from zero (`BottomGrows`), and
  so do their positions (`HeightGrows`), provided that the scale has a step and its step a size: a
  number of steps rounded to zero would put all bars on one spot. `PlaceIInv` says so for
  every phase of `calculateScale` and for every axis (`Stepping` in the loop, `Rising` after it). Stacked bars therefore need
  `Measured`, as for `ScalesCover`, and a plot higher than its ticks (`availableHeight`); bars side by
  side need neither.

  `PartsAreFound`: the middle of a bar or of a segment belongs to that one alone, and a point is
  found where it is drawn. `MouseFinds` is not inductive: it speaks of the last event of the mouse, and what that
  event finds depends on the list of annotations, the positions and the angles that earlier events
  have rewritten. `FindIInv` says that the list is that of the last frame and that the mouse is at
  one of its entries; with `LinkIInv` (the angles) and `PlaceIInv` (the positions) it is inductive. An annotation
  is one datum's, in the order of the data, so no two are the same datum's (`ListedIs`,
  `ChartAnnotations`). For a pie (`SegmentAlone`), the segments sum up to at most one turn (`OneTurn`), the arc from
  one angle to the next is the same one after `Normalised` has moved its ends (`ArcIs`), and the
  middle of an arc lies in no other (`OtherArc`). For bars (`BarAlone`), two of them are in different
  columns, beside each other, or beyond each other in a stack. A point is found within
  its radius, or along its whole line between the ends of the plot (`PointFound`). The
  theorem holds of every pie, and of other charts under `Findable`: the scales can be laid out (`Graded`:
  `Measured`, and the interval of a second axis does not round to zero), the plot is higher than its ticks, the bars have a
  width and fit (`Fitting`), and points are not detected along their line on a logarithmic scale, where
  a value below the least one is drawn below the plot. TLC checks `MouseFinds` without `Findable` on the
  charts of the run.

  `LinesFollow`: in every frame the line of a dataset is the polyline through its data, up to the front
  of the animation, over a gap only if missing data are extrapolated. `drawLinesDataset` walks
  over the positions with a state of its own (where the pen is, whether a line has begun, how much of the
  next stretch is shown), so the proof says what that state is after each position (`PathAt`): the pen is
  at the last datum (`Here`), at the front (`There`), in a gap that ends the line (`Gap`), or the front has been passed
  and nothing more is drawn (`Gone`); and the segments so far are those between the data behind it (`Drawn`). One turn of
  the loop leads from such a state to the next (`PathGoesOn`, with a lemma per state and kind of position), and
  at the last position `Drawn` is `LineSeen` (`LineDrawn`). It rests on `NeighboursAreRight`, because the pen
  is sent to the neighbours that part 1 has found, and on the positions of `PlaceIInv`. `LineIInv` says that the
  lines on the canvas are those of the last frame. The theorem is stated under `Drawable`: the
  scales can be laid out (`Graded`), the plot is higher than its ticks, there is a label
  (`drawLinesDataset` reads the first entry of a dataset before it asks for the number of them), and the points of two
  labels lie apart, since the path of two data at one spot is not a line. Every chart of the run that
  has lines is such a chart.

Sums and cardinalities are handled one element at a time with the theorems on
finite sets; where an argument runs along a sequence it takes the least position of
a set of naturals, since the library's induction theorems have an operator parameter.

Every invariant and every safety property of a run has a theorem. Only model-checked are the liveness
properties: the prover has no rules for fairness.

## 6. Findings

`producer_getSampleRate` reports the throughput of the last round. A thread whose
rate is set to 0 sends nothing and does not update it, so the producer keeps
reporting its former rate, while the interface promises "the actual sample rate".
The run `producer_actual_rate` shows the behaviour.

Further observations are recorded as hazards, since no document promises
otherwise: a takeAll client can use up the signal that a single taker needed,
two concurrent `setSampleRate` calls can leave the threads with different rates, and a thread
that starts after it was told to stop is joined for ever. `put` on a full
queue answers success without writing `*sampleTaken` (the Java interface `SampleQueue` promises
"false if the max queue size is reached" for its own `put`); a caller that does not clear its
variable counts the sample as stored.

Seen while modelling `ChartNew.js`, and not promised otherwise anywhere: the scale of
a low chart can lose its top (section 3); a line among the bars of a logarithmic `Bar` chart is placed as on
a plain scale, because `Bar` does not pass `logarithmic` on (`LineScale`); with `animationLeftToRight` and
`animationStartWithData` equal to the number of data the last datum appears only in the last frame, because
`animationCorrection` compares with 0 times infinity; `drawLinesDataset` asks for an option
`extrapolateMissing` that does not exist, which other branches make up for;
`roundScale` uses the interval of the first axis for the second one too;
`ctx.reversed` stays set, so data given later by `updateChart` are not reversed;
the scale can lose its top for an interval that is not 1, 2 or 5 times a power of ten
(interval 4, data from 11 to 89.5, at most six steps: the ends are moved to 8 and 92, the
step of 20 is a multiple of 4, and `Math.round` of 4.2 leaves four steps, up to 88), and a
fractional interval of the second axis, with a whole or no interval of the first, can be rounded to a step of
0 by `roundScale`, which makes the number of steps infinite; both were met when the proof of
`ScalesCover` needed the intervals to be excluded;
the bars of more than eight datasets leave their column by construction, since the width of
a bar leaves room for half of `barStrokeWidth` per bar and its position takes all of it (with the
default spacings the last bar ends n - 8 pixels beyond the column), and those of more than four if
they have the least width, which the proof of `BarsAreApart` turned up;
datasets shorter than the labels are reversed before they are filled up and so
move to other labels;
the line of a dataset whose animation has not begun (`animationByDataset`) is drawn up to the last position
that is not animated, also in the middle of a gap that it bridges. Part 1 sets the next datum of a missing one only after a first
defined one, which `NeighboursRight` takes into account.

## 7. Plan

1. Celix queue, producer, statistic tracker and processor (done).
2. Dashboard and chart engine: passes, pages, scales, drawing and mouse (done).
3. Proofs of every safety property of the Celix components, the chart engine and the
   pages, and of the scales, the statistics, the lines, the bars and the mouse of `ChartDrawing` (done,
   section 5).
4. `CelixDataStore`: bound, counters, partial `storeAll`, unsynchronised
   utilization, destroy; ownership of the results that `store` keeps (the processor
   frees a result whose pointer a local store has kept).
5. `JavaPipeline`: `SimpleSampleQueue` against `BoundedFifo`, `IdentityProcessor` (a
   cancelled take returns null and is stored), `InMemoryDataStore` (size checked
   before adding); `JavaWorker`: executors, a task that completes after its timeout,
   an interrupt swallowed by the loop, restart.
6. `Coordinator` (replica split as an operator with its reference definition, the
   Kubernetes status that lags behind the request, the stub) and `AutoScaler`
   (read-modify-write of replica counts against the servlet).
7. `CoordinatorServlet`: a producer added while the rate changes, statistics registry,
   aggregator. Until then `Dashboard` has the part of the servlet that its pages see.

## 8. Not modelled

Cluster queriers, fleet and Docker helpers and the log sender (I/O), configuration
parsing, markup and number formatting. Of `ChartNew.js`: PolarArea and Radar;
`setMeasures` and everything that measures or draws texts, legends, grids, markers
and borders (a chart has the height and width they leave); colours and option
functions; `drawMathDeviation` and explicit `xPos` arrays; saving as an image; the branches for
Internet Explorer. The Java services and the Celix data store are not modelled
yet (section 7).
