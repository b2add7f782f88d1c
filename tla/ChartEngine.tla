----------------------------- MODULE ChartEngine -----------------------------
(***************************************************************************)
(* The life of a responsive chart of ChartNew.js, the chart engine that the *)
(* dashboard drives: drawing, animation frames, updates, window events and *)
(* display on scrolling.                                                    *)
(*                                                                          *)
(* The engine keeps its state in properties of the canvas context (chart)   *)
(* and in two global lists: jsGraphResize, the charts to look at when the   *)
(* window is resized, and jsGraphAnnotate, what the mouse can find in the   *)
(* charts, by chart id. A chart id is the millisecond of creation, so that  *)
(* charts may share one. Scripts run to completion: an event is handled     *)
(* while handler is "idle", and a handler of several steps keeps the others *)
(* out. Frames and timers are the entries of chart[c].loops.                *)
(***************************************************************************)
EXTENDS Integers, Sequences

CONSTANTS
  Name,              \* ids of canvas elements
  Generation,        \* bound: successive canvas elements with the same id
  Content,           \* data of a chart, with the options they are drawn with
  AnnotateDisplay,   \* config.annotateDisplay
  AnimationSteps,    \* config.animationSteps
  Width,             \* widths of the window
  MinWidth,          \* config.responsiveMinWidth
  MaxWidth,          \* config.responsiveMaxWidth
  DrawableWidth,     \* from this width on there is room for the scale
  MaxMs,             \* bound: milliseconds in which charts are created
  MaxEvent           \* bound: how many events of the environment are counted

ASSUME EngineAssumption ==
  /\ AnnotateDisplay \in BOOLEAN
  /\ AnimationSteps \in Nat \ {0} /\ MaxMs \in Nat \ {0} /\ MaxEvent \in Nat
  /\ MinWidth \in Nat /\ MaxWidth \in Nat /\ DrawableWidth \in Nat
  /\ Width \subseteq Nat
  /\ \A k \in Content : /\ k.animation \in BOOLEAN /\ k.animationBackward \in BOOLEAN
                        /\ k.animationCount \in Nat \ {0}

VARIABLES
  chart,             \* what the engine keeps in each canvas context
  jsGraphResize,     \* the charts to redraw on a resize, with data and options
  jsGraphAnnotate,   \* by chart id: whose data the mouse finds, in drawing order
  width,             \* width of the element around the canvases
  dynamicDisplay,    \* the option of that name, the same for all charts
  visible,           \* canvases that are scrolled into view
  handler,           \* the event handler that is running: "idle" or "resize"
  at,                \* the entry of jsGraphResize that chartJsResize is at
  ms,                \* the clock
  events             \* how many events there were

engineVars == <<chart, jsGraphResize, jsGraphAnnotate, width,
                dynamicDisplay, visible, handler, at, ms, events>>

Ctx == Name \X Generation
Owner(c) == c[1]
Data == [for : Name, what : Content]

Undefined == -1
Blank == [for |-> "nothing"]
NoEntry == [done |-> FALSE]

Loop == [data : Data, iter : Int, mult : {-1, 1}, count : Nat]

(* A canvas context that no chart was ever drawn on. *)
FreshChart ==
  [firstPass |-> Undefined, id |-> 0, prevWidth |-> 0, loops |-> <<>>,
   shown |-> Blank, full |-> FALSE, dynamic |-> NoEntry]

EngineInit ==
  /\ chart = [c \in Ctx |-> FreshChart]
  /\ jsGraphResize = <<>>
  /\ jsGraphAnnotate = [i \in 1 .. MaxMs |-> <<>>]
  /\ width \in Width
  /\ dynamicDisplay \in BOOLEAN
  /\ visible = IF dynamicDisplay THEN {} ELSE Ctx
  /\ handler = "idle" /\ at = 0
  /\ ms = 1 /\ events = 0

(* The environment acts: a script, or the user with the window. *)
Event == events < MaxEvent /\ events' = events + 1

--------------------------------------------------------------------------------
(* Sizes. *)

(* The canvas gets the width of its container within the configured bounds. *)
resizeGraph(w) ==
  LET atLeast == IF w < MinWidth THEN MinWidth ELSE w
  IN  IF atLeast > MaxWidth THEN MaxWidth ELSE atLeast

--------------------------------------------------------------------------------
(* Drawing. These operators map the context of a chart to the context that   *)
(* the function leaves behind.                                               *)

(* The loop that animationLoop starts: the first frame is still to come. *)
animationLoop(d) == [data |-> d, iter |-> 0, mult |-> 1, count |-> 1]

(* The chart is measured and cleared; if there is no room for the scale,      *)
(* testRedraw ends the drawing at once.                                      *)
redrawGraph(cv, d) ==
  IF cv.prevWidth >= DrawableWidth
  THEN [cv EXCEPT !.loops = Append(@, animationLoop(d)),
                  !.shown = Blank, !.full = FALSE]
  ELSE [cv EXCEPT !.firstPass = 5, !.shown = Blank, !.full = FALSE]

(* A chart with dynamicDisplay waits until it is scrolled into view. *)
dynamicReady(cv, seen) == dynamicDisplay => (seen \/ cv.dynamic.done)

dynamicFunction(cv, d, seen) ==
  IF ~dynamicDisplay THEN cv
  ELSE IF cv.dynamic = NoEntry
       THEN [cv EXCEPT !.dynamic = [done |-> seen, data |-> d]]
       ELSE [cv EXCEPT !.dynamic.done = @ \/ seen]

(* The states 0 to 7 of ctx.firstPass are those of the comment in the code: a *)
(* chart that is being drawn only notes that the window was resized.         *)
redraws(cv, w) ==
  \/ cv.firstPass \in {Undefined, 0, 5, 7}
  \/ cv.firstPass = 6 /\ resizeGraph(w) # cv.prevWidth

subUpdate(cv, d, w) ==
  IF redraws(cv, w)
  THEN redrawGraph([cv EXCEPT
                      !.firstPass = IF @ \in {6, 7} THEN 3 ELSE 1,
                      !.prevWidth = IF cv.firstPass = 5 THEN @
                                    ELSE resizeGraph(w)], d)
  ELSE [cv EXCEPT !.firstPass = CASE @ \in {1, 2} -> 2
                                  [] @ \in {3, 4} -> 4
                                  [] @ = 6 -> 5]

subUpdateChart(cv, d, w, seen) ==
  IF dynamicReady(cv, seen)
  THEN subUpdate(dynamicFunction(cv, d, seen), d, w)
  ELSE dynamicFunction(cv, d, seen)

(* Faulty: a resize during a redraw without animation is forgotten. *)
testRedrawFirstPass(cv, d, w) ==
  IF cv.firstPass = 2
  THEN subUpdate([cv EXCEPT !.firstPass = 6], d, w)
  ELSE [cv EXCEPT !.firstPass = 5]

(* The end of a drawing: was there a resize in the meantime? *)
testRedraw(cv, d, w) ==
  IF cv.firstPass \in {2, 4}
  THEN subUpdate([cv EXCEPT !.firstPass = 6], d, w)
  ELSE [cv EXCEPT !.firstPass = 5]

(* A redraw empties what the mouse can find under the id of the chart. *)
clearAnnotate(annotate, cv, redrawn) ==
  IF redrawn THEN [annotate EXCEPT ![cv.id] = <<>>] ELSE annotate

--------------------------------------------------------------------------------
(* What a script can do with a chart. A script may draw several charts one   *)
(* after the other: these operators map the state of the engine to the next. *)

Engine == [chart |-> chart, resize |-> jsGraphResize, annotate |-> jsGraphAnnotate]

Becomes(e) ==
  chart' = e.chart /\ jsGraphResize' = e.resize /\ jsGraphAnnotate' = e.annotate

(* The first time a chart is drawn, and init_and_start of the redraw when it  *)
(* is scrolled into view: the chart is registered for events in any case,   *)
(* and drawn if it is to be displayed.                                       *)
init_and_start(e, c, d, seen) ==
  LET cv == dynamicFunction([e.chart[c] EXCEPT !.id = IF @ = 0 THEN ms ELSE @],
                            d, seen)
      registered == [cv EXCEPT !.prevWidth = resizeGraph(width)]
      ready == dynamicReady(e.chart[c], seen)
      drawn == IF ready THEN subUpdate(registered, d, width) ELSE registered
  IN  [chart |-> [e.chart EXCEPT ![c] = drawn],
       resize |-> Append(e.resize, [ctx |-> c, data |-> d]),
       annotate |-> clearAnnotate(e.annotate, cv, ready)]

(* Faulty: a chart that is being drawn is updated too. *)
updateChartBusy(e, c, d, animation, seen) ==
  LET cv == [e.chart[c] EXCEPT !.firstPass = IF animation THEN 0 ELSE 7]
  IN  IF e.chart[c].firstPass = Undefined
      THEN e
      ELSE [e EXCEPT !.chart[c] = subUpdateChart(cv, d, width, seen)]

(* Faulty: the data for a resize stay what they were. *)
updateChartUnregistered(e, c, d, animation, seen) ==
  LET cv == [e.chart[c] EXCEPT !.firstPass = IF animation THEN 0 ELSE 7]
  IN  IF e.chart[c].firstPass # 5
      THEN e
      ELSE [e EXCEPT !.chart[c] = subUpdateChart(cv, d, width, seen),
                     !.annotate = clearAnnotate(@, cv, dynamicReady(cv, seen))]

(* updateChart does nothing unless the chart is displayed and idle. All       *)
(* registered charts with the same id get the new data and options.          *)
updateChart(e, c, d, animation, seen) ==
  LET cv == [e.chart[c] EXCEPT !.firstPass = IF animation THEN 0 ELSE 7]
  IN  IF e.chart[c].firstPass # 5
      THEN e
      ELSE [chart |-> [e.chart EXCEPT ![c] = subUpdateChart(cv, d, width, seen)],
            resize |-> [i \in DOMAIN e.resize |->
                          IF e.chart[e.resize[i].ctx].id = cv.id
                          THEN [e.resize[i] EXCEPT !.data = d]
                          ELSE e.resize[i]],
            annotate |-> clearAnnotate(e.annotate, cv, dynamicReady(cv, seen))]

(* new Chart(ctx).Line(data, options) on a new canvas. *)
Draw(c, d) ==
  /\ handler = "idle" /\ Event
  /\ chart[c].firstPass = Undefined /\ chart[c].dynamic = NoEntry
  /\ Becomes(init_and_start(Engine, c, d, c \in visible))
  /\ UNCHANGED <<width, dynamicDisplay, visible, handler, at, ms>>

Update(c, d, animation) ==
  /\ handler = "idle" /\ Event
  /\ Becomes(updateChart(Engine, c, d, animation, c \in visible))
  /\ UNCHANGED <<width, dynamicDisplay, visible, handler, at, ms>>

--------------------------------------------------------------------------------
(* What the browser does. *)

(* The last frame of a round. *)
AtEnd(cv, lp, iter) ==
  iter = AnimationSteps \/ ~lp.data.what.animation \/ cv.firstPass \in {3, 4}

(* Faulty: the frame of a redraw without animation shows only a part. *)
CompleteBySteps(cv, lp, iter) == iter >= AnimationSteps \/ ~lp.data.what.animation

(* One frame is painted. If it shows all data, the mouse can find them. *)
Complete(cv, lp, iter) ==
  iter >= AnimationSteps \/ ~lp.data.what.animation \/ cv.firstPass \in {3, 4}

animateFrame(cv, lp, iter) ==
  [cv EXCEPT !.shown = lp.data, !.full = Complete(cv, lp, iter)]

annotateFrame(c, lp, iter) ==
  jsGraphAnnotate' =
    IF ~(AnnotateDisplay /\ Complete(chart[c], lp, iter)) THEN jsGraphAnnotate
    ELSE [jsGraphAnnotate EXCEPT
            ![chart[c].id] = Append(@, [ctx |-> c, data |-> lp.data])]

WithLoop(cv, i, lp) == [cv EXCEPT !.loops[i] = lp]
WithoutLoop(cv, i) ==
  [cv EXCEPT !.loops = SubSeq(@, 1, i - 1) \o SubSeq(@, i + 1, Len(@))]

(* The animation goes on, forward or back to the beginning. *)
NextFrame(c, i) ==
  LET lp == chart[c].loops[i]
      iter == lp.iter + lp.mult
      atStart == lp.mult = -1 /\ iter <= 0
      next == [lp EXCEPT !.iter = iter, !.mult = IF atStart THEN 1 ELSE @]
  IN  /\ handler = "idle"
      /\ atStart \/ ~AtEnd(chart[c], lp, iter)
      /\ annotateFrame(c, lp, iter)
      /\ chart' = [chart EXCEPT
                     ![c] = WithLoop(animateFrame(@, lp, iter), i, next)]
      /\ UNCHANGED <<jsGraphResize, width, dynamicDisplay, visible, handler, at,
                     ms, events>>

Repeats(cv, lp) == lp.count < lp.data.what.animationCount /\ cv.firstPass # 2

(* The end of a round, and the animation is repeated after a pause. *)
RepeatFrame(c, i) ==
  LET lp == chart[c].loops[i]
      iter == lp.iter + lp.mult
      back == lp.data.what.animationBackward /\ lp.mult = 1
      next == [lp EXCEPT !.count = @ + 1, !.mult = IF back THEN -1 ELSE 1,
                         !.iter = IF back THEN iter ELSE -1]
  IN  /\ handler = "idle"
      /\ ~(lp.mult = -1 /\ iter <= 0) /\ AtEnd(chart[c], lp, iter)
      /\ Repeats(chart[c], lp)
      /\ annotateFrame(c, lp, iter)
      /\ chart' = [chart EXCEPT
                     ![c] = WithLoop(animateFrame(@, lp, iter), i, next)]
      /\ UNCHANGED <<jsGraphResize, width, dynamicDisplay, visible, handler, at,
                     ms, events>>

(* The last frame. If the window was resized in the meantime, the chart may   *)
(* be drawn again, and what the mouse could find is forgotten again.         *)
LastFrame(c, i) ==
  LET lp == chart[c].loops[i]
      iter == lp.iter + lp.mult
      painted == WithoutLoop(animateFrame(chart[c], lp, iter), i)
      after == testRedraw(painted, lp.data, width)
  IN  /\ handler = "idle"
      /\ ~(lp.mult = -1 /\ iter <= 0) /\ AtEnd(chart[c], lp, iter)
      /\ ~Repeats(chart[c], lp)
      /\ chart' = [chart EXCEPT ![c] = after]
      /\ IF chart[c].firstPass \in {2, 4} /\ resizeGraph(width) # painted.prevWidth
         THEN jsGraphAnnotate' = clearAnnotate(jsGraphAnnotate, painted, TRUE)
         ELSE annotateFrame(c, lp, iter)
      /\ UNCHANGED <<jsGraphResize, width, dynamicDisplay, visible, handler, at,
                     ms, events>>

AnimFrame(c) ==
  \E i \in DOMAIN chart[c].loops :
    NextFrame(c, i) \/ RepeatFrame(c, i) \/ LastFrame(c, i)

(* The window is resized: chartJsResize walks over the registered charts. *)
ResizeWindow(w) ==
  /\ handler = "idle" /\ Event
  /\ w # width /\ width' = w
  /\ IF jsGraphResize = <<>>
     THEN UNCHANGED <<handler, at>>
     ELSE handler' = "resize" /\ at' = 1
  /\ UNCHANGED <<chart, jsGraphResize, jsGraphAnnotate, dynamicDisplay, visible, ms>>

chartJsResize ==
  LET entry == jsGraphResize[at]
      cv == [chart[entry.ctx] EXCEPT !.firstPass = IF @ = 5 THEN 6 ELSE @]
      after == subUpdateChart(cv, entry.data, width,
                              entry.ctx \in visible)
  IN  /\ handler = "resize"
      /\ chart' = [chart EXCEPT ![entry.ctx] = after]
      /\ jsGraphAnnotate' =
           clearAnnotate(jsGraphAnnotate, cv,
                         /\ dynamicReady(cv, entry.ctx \in visible)
                         /\ redraws(cv, width))
      /\ IF at < Len(jsGraphResize)
         THEN at' = at + 1 /\ UNCHANGED handler
         ELSE at' = 0 /\ handler' = "idle"
      /\ UNCHANGED <<jsGraphResize, width, dynamicDisplay, visible, ms, events>>

(* The window is scrolled: a chart that waits to be displayed and comes into  *)
(* view is drawn with the data of its first call.                            *)
scrollFunction(c) ==
  LET entry == chart[c].dynamic
  IN  /\ handler = "idle" /\ Event /\ dynamicDisplay
      /\ visible' = IF c \in visible THEN visible \ {c} ELSE visible \cup {c}
      /\ IF c \notin visible /\ entry # NoEntry /\ ~entry.done
         THEN Becomes(init_and_start(Engine, c, entry.data, TRUE))
         ELSE UNCHANGED <<chart, jsGraphResize, jsGraphAnnotate>>
      /\ UNCHANGED <<width, dynamicDisplay, handler, at, ms>>

Tick ==
  /\ ms < MaxMs /\ ms' = ms + 1
  /\ UNCHANGED <<chart, jsGraphResize, jsGraphAnnotate, width, dynamicDisplay,
                 visible, handler, at, events>>

Browser ==
  \/ \E c \in Ctx : AnimFrame(c)
  \/ \E w \in Width : ResizeWindow(w)
  \/ chartJsResize
  \/ Tick

(* The engine under any script that draws each canvas once and updates it     *)
(* afterwards, as both pages do.                                             *)
EngineNext ==
  \/ Browser
  \/ \E c \in Ctx, k \in Content :
       LET d == [for |-> Owner(c), what |-> k]
       IN  \/ Draw(c, d)
           \/ \E animation \in BOOLEAN : Update(c, d, animation)
  \/ \E c \in Ctx : scrollFunction(c)

EngineSpec == EngineInit /\ [][EngineNext]_engineVars

(* Browsers run due frames and timers, and do not leave a handler halfway. *)
EngineFairness ==
  /\ WF_engineVars(chartJsResize)
  /\ \A c \in Ctx : WF_engineVars(AnimFrame(c))

EngineFairSpec == EngineSpec /\ EngineFairness

--------------------------------------------------------------------------------
(* Properties. *)

Picture == Data \cup {Blank}
Waiting == {NoEntry} \cup [done : BOOLEAN, data : Data]
ChartIn(passes) ==
  [firstPass : passes, id : 0 .. MaxMs, prevWidth : Nat, loops : Seq(Loop),
   shown : Picture, full : BOOLEAN, dynamic : Waiting]
Chart == ChartIn({Undefined} \cup 1 .. 5)

EngineTypeOK ==
  /\ chart \in [Ctx -> Chart]
  /\ jsGraphResize \in Seq([ctx : Ctx, data : Data])
  /\ jsGraphAnnotate \in [1 .. MaxMs -> Seq([ctx : Ctx, data : Data])]
  /\ width \in Width /\ dynamicDisplay \in BOOLEAN /\ visible \subseteq Ctx
  /\ handler \in {"idle", "resize"} /\ at \in Nat
  /\ ms \in 1 .. MaxMs /\ events \in 0 .. MaxEvent

(* At most one animation loop works on a canvas, and firstPass says whether   *)
(* there is one: a chart is never left in a drawing state with no frame to   *)
(* come, in which updateChart would ignore all further data, and is never    *)
(* drawn by two loops at a time.                                             *)
LoopMatchesPass ==
  \A c \in Ctx :
    Len(chart[c].loops) = IF chart[c].firstPass \in 1 .. 4 THEN 1 ELSE 0

(* A chart that is at rest shows all its data, whatever the animation was and *)
(* wherever a resize or an update came in: the last frame is a complete one. *)
EndsComplete ==
  \A c \in Ctx :
    (chart[c].firstPass = 5 /\ chart[c].prevWidth >= DrawableWidth)
      => chart[c].full

Current(c) ==
  IF chart[c].loops # <<>> THEN chart[c].loops[1].data ELSE chart[c].shown

DistinctIds ==
  \A c, e \in Ctx : (chart[c].id = chart[e].id /\ chart[c].id # 0) => c = e

(* As long as no two charts were created in the same millisecond: a chart     *)
(* shows only its own data, the mouse finds only data that are displayed,    *)
(* and a resize would redraw what is displayed now, not older data and not   *)
(* those of another chart.                                                   *)
CurrentData ==
  DistinctIds =>
    \A c \in Ctx : (chart[c].firstPass # Undefined /\ Current(c) # Blank) =>
      /\ Current(c).for = Owner(c)
      /\ \A i \in DOMAIN jsGraphResize :
           jsGraphResize[i].ctx = c => jsGraphResize[i].data = Current(c)
      /\ \A i \in DOMAIN jsGraphAnnotate[chart[c].id] :
           jsGraphAnnotate[chart[c].id][i] = [ctx |-> c, data |-> Current(c)]
      /\ (chart[c].full /\ AnnotateDisplay) => jsGraphAnnotate[chart[c].id] # <<>>

(* A drawing that has begun ends, and the chart then has the size that the    *)
(* window asks for, also if the window was resized while it was being drawn. *)
ResizeFollowed ==
  \A c \in Ctx :
    chart[c].firstPass # Undefined
      ~> chart[c].firstPass = 5 /\ chart[c].prevWidth = resizeGraph(width)

(* The inductive invariant behind LoopMatchesPass and EndsComplete: a chart   *)
(* with dynamicDisplay is only drawn once it was seen, so that no update and *)
(* no resize leaves it in one of the passing states 0, 6 and 7.              *)
GoodChart(cv) ==
  /\ Len(cv.loops) = IF cv.firstPass \in 1 .. 4 THEN 1 ELSE 0
  /\ cv.firstPass = 5 /\ cv.prevWidth >= DrawableWidth => cv.full
  /\ dynamicDisplay /\ cv.firstPass # Undefined => cv.dynamic.done

EngineIInv ==
  /\ EngineTypeOK
  /\ handler = "resize" => at \in DOMAIN jsGraphResize
  /\ \A c \in Ctx : GoodChart(chart[c])

(* The inductive invariant behind CurrentData: a chart is as it was created,  *)
(* or there are data that all parts of the engine agree on for this chart,   *)
(* those that wait for the canvas to be seen included.                       *)
Fresh(c) == chart[c].firstPass = Undefined /\ chart[c].dynamic = NoEntry
Registered(c) == {i \in DOMAIN jsGraphResize : jsGraphResize[i].ctx = c}

Carries(c, d) ==
  /\ d.for = Owner(c) /\ chart[c].id # 0
  /\ \A i \in Registered(c) : jsGraphResize[i].data = d
  /\ \A i \in DOMAIN chart[c].loops : chart[c].loops[i].data = d
  /\ chart[c].shown \in {Blank, d}
  /\ chart[c].firstPass = Undefined =>
       chart[c].dynamic # NoEntry /\ chart[c].dynamic.data = d /\ chart[c].shown = Blank
  /\ chart[c].firstPass # Undefined =>
       /\ \A i \in DOMAIN jsGraphAnnotate[chart[c].id] :
            jsGraphAnnotate[chart[c].id][i] = [ctx |-> c, data |-> d]
       /\ (chart[c].full /\ AnnotateDisplay) => jsGraphAnnotate[chart[c].id] # <<>>

OneContent(c) ==
  \/ Fresh(c) /\ chart[c].shown = Blank /\ Registered(c) = {}
  \/ \E d \in Data : Carries(c, d)

DataIInv == DistinctIds => \A c \in Ctx : OneContent(c)
================================================================================
