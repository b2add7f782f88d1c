-------------------------- MODULE ChartEngineProofs --------------------------
(***************************************************************************)
(* Proofs about ChartEngine, for any number of charts, contents, widths and *)
(* frames: the state of the engine keeps its type, a chart is drawn by one  *)
(* animation loop at most and by one exactly while firstPass says so, a     *)
(* chart at rest shows all its data, and as long as ids are distinct the    *)
(* copies of the data in the engine agree, so that what is shown is current.*)
(***************************************************************************)
EXTENDS ChartEngine, SequenceTheorems, TLAPS

(* A context in the middle of a handler: firstPass may have passing values. *)
Passing == ChartIn({Undefined} \cup 0 .. 7)

LEMMA ChartIsPassing == Chart \subseteq Passing
<1>1. {Undefined} \cup 1 .. 5 \subseteq {Undefined} \cup 0 .. 7
  OBVIOUS
<1>2. QED
  BY <1>1 DEF Chart, Passing, ChartIn

(* Assigning to one field of a context. *)
LEMMA SetPass ==
  ASSUME NEW S, NEW T, NEW cv \in ChartIn(S), NEW x \in T
  PROVE  LET r == [cv EXCEPT !.firstPass = x]
         IN  /\ r \in ChartIn(T) /\ r.firstPass = x
             /\ r.id = cv.id /\ r.prevWidth = cv.prevWidth /\ r.loops = cv.loops
             /\ r.shown = cv.shown /\ r.full = cv.full /\ r.dynamic = cv.dynamic
  BY DEF ChartIn

LEMMA SetId ==
  ASSUME NEW S, NEW cv \in ChartIn(S), NEW x \in 0 .. MaxMs
  PROVE  LET r == [cv EXCEPT !.id = x]
         IN  /\ r \in ChartIn(S) /\ r.id = x
             /\ r.firstPass = cv.firstPass /\ r.prevWidth = cv.prevWidth /\ r.loops = cv.loops
             /\ r.shown = cv.shown /\ r.full = cv.full /\ r.dynamic = cv.dynamic
  BY DEF ChartIn

LEMMA SetWidth ==
  ASSUME NEW S, NEW cv \in ChartIn(S), NEW x \in Nat
  PROVE  LET r == [cv EXCEPT !.prevWidth = x]
         IN  /\ r \in ChartIn(S) /\ r.prevWidth = x
             /\ r.firstPass = cv.firstPass /\ r.id = cv.id /\ r.loops = cv.loops
             /\ r.shown = cv.shown /\ r.full = cv.full /\ r.dynamic = cv.dynamic
  BY DEF ChartIn

LEMMA SetLoops ==
  ASSUME NEW S, NEW cv \in ChartIn(S), NEW x \in Seq(Loop)
  PROVE  LET r == [cv EXCEPT !.loops = x]
         IN  /\ r \in ChartIn(S) /\ r.loops = x
             /\ r.firstPass = cv.firstPass /\ r.id = cv.id /\ r.prevWidth = cv.prevWidth
             /\ r.shown = cv.shown /\ r.full = cv.full /\ r.dynamic = cv.dynamic
  BY DEF ChartIn

LEMMA SetShown ==
  ASSUME NEW S, NEW cv \in ChartIn(S), NEW x \in Picture
  PROVE  LET r == [cv EXCEPT !.shown = x]
         IN  /\ r \in ChartIn(S) /\ r.shown = x
             /\ r.firstPass = cv.firstPass /\ r.id = cv.id /\ r.prevWidth = cv.prevWidth
             /\ r.loops = cv.loops /\ r.full = cv.full /\ r.dynamic = cv.dynamic
  BY DEF ChartIn

LEMMA SetFull ==
  ASSUME NEW S, NEW cv \in ChartIn(S), NEW x \in BOOLEAN
  PROVE  LET r == [cv EXCEPT !.full = x]
         IN  /\ r \in ChartIn(S) /\ r.full = x
             /\ r.firstPass = cv.firstPass /\ r.id = cv.id /\ r.prevWidth = cv.prevWidth
             /\ r.loops = cv.loops /\ r.shown = cv.shown /\ r.dynamic = cv.dynamic
  BY DEF ChartIn

LEMMA SetDynamic ==
  ASSUME NEW S, NEW cv \in ChartIn(S), NEW x \in Waiting
  PROVE  LET r == [cv EXCEPT !.dynamic = x]
         IN  /\ r \in ChartIn(S) /\ r.dynamic = x
             /\ r.firstPass = cv.firstPass /\ r.id = cv.id /\ r.prevWidth = cv.prevWidth
             /\ r.loops = cv.loops /\ r.shown = cv.shown /\ r.full = cv.full
  BY DEF ChartIn

LEMMA SamePass ==
  ASSUME NEW S, NEW T, NEW cv \in ChartIn(S), cv.firstPass \in T PROVE cv \in ChartIn(T)
  BY DEF ChartIn

(* The size is a number, within the bounds or not. *)
LEMMA SizeIsNat == ASSUME NEW w \in Width PROVE resizeGraph(w) \in Nat
  BY EngineAssumption DEF resizeGraph

LEMMA LoopIsNew == ASSUME NEW d \in Data PROVE animationLoop(d) \in Loop
  BY DEF animationLoop, Loop

-----------------------------------------------------------------------------
(* The operators on a context. *)

(* A redraw starts one loop, or ends at once on a chart without room. *)
LEMMA RedrawGraph ==
  ASSUME NEW cv \in Passing, NEW d \in Data, cv.firstPass \in {1, 3}, cv.loops = <<>>
  PROVE  LET r == redrawGraph(cv, d)
         IN  /\ r \in Chart /\ r.firstPass # Undefined
             /\ Len(r.loops) = IF r.firstPass \in 1 .. 4 THEN 1 ELSE 0
             /\ r.firstPass = 5 => ~(r.prevWidth >= DrawableWidth)
             /\ r.dynamic = cv.dynamic
<1> DEFINE S == {Undefined} \cup 1 .. 5
           lp == animationLoop(d)
<1>1. Append(<<>>, lp) \in Seq(Loop) /\ Len(Append(<<>>, lp)) = 1
  BY LoopIsNew
<1>2. Blank \in Picture /\ FALSE \in BOOLEAN /\ 5 \in S /\ 1 \in S /\ 3 \in S
  BY DEF Picture
<1>3. cv \in ChartIn(S)
  <2>1. cv.firstPass \in S
    BY <1>2
  <2>2. QED
    BY <2>1, SamePass DEF Passing
<1> HIDE DEF S, lp
<1>4. CASE cv.prevWidth >= DrawableWidth
  <2> DEFINE x == [cv EXCEPT !.loops = Append(cv.loops, lp)]
             y == [x EXCEPT !.shown = Blank]
             r == [y EXCEPT !.full = FALSE]
  <2>1. redrawGraph(cv, d) = r
    BY <1>4 DEF redrawGraph, lp
  <2>2. x \in ChartIn(S) /\ x.loops = Append(<<>>, lp) /\ x.firstPass = cv.firstPass /\ x.dynamic = cv.dynamic
    <3> DEFINE l == Append(<<>>, lp)
    <3>1. l \in Seq(Loop) /\ x = [cv EXCEPT !.loops = l]
      BY <1>1
    <3> HIDE DEF l, x
    <3>2. x \in ChartIn(S) /\ x.loops = l /\ x.firstPass = cv.firstPass /\ x.dynamic = cv.dynamic
      BY <1>3, <3>1, SetLoops
    <3>3. QED
      BY <3>2 DEF l
  <2> HIDE DEF x
  <2>3. y \in ChartIn(S) /\ y.loops = x.loops /\ y.firstPass = x.firstPass /\ y.dynamic = x.dynamic
    BY <1>2, <2>2, SetShown
  <2> HIDE DEF y
  <2>4. r \in ChartIn(S) /\ r.loops = y.loops /\ r.firstPass = y.firstPass /\ r.dynamic = y.dynamic
    BY <1>2, <2>3, SetFull
  <2> HIDE DEF r
  <2>5. Len(r.loops) = 1 /\ r.firstPass \in {1, 3} /\ r.dynamic = cv.dynamic
    BY <1>1, <2>2, <2>3, <2>4
  <2>6. QED
    BY <2>1, <2>4, <2>5 DEF Undefined, Chart, S
<1>5. CASE ~(cv.prevWidth >= DrawableWidth)
  <2> DEFINE x == [cv EXCEPT !.firstPass = 5]
             y == [x EXCEPT !.shown = Blank]
             r == [y EXCEPT !.full = FALSE]
  <2>1. redrawGraph(cv, d) = r
    BY <1>5 DEF redrawGraph
  <2>2. /\ x \in ChartIn(S) /\ x.firstPass = 5 /\ x.loops = cv.loops
        /\ x.dynamic = cv.dynamic /\ x.prevWidth = cv.prevWidth
    BY <1>2, <1>3, SetPass
  <2> HIDE DEF x
  <2>3. /\ y \in ChartIn(S) /\ y.firstPass = x.firstPass /\ y.loops = x.loops
        /\ y.dynamic = x.dynamic /\ y.prevWidth = x.prevWidth
    BY <1>2, <2>2, SetShown
  <2> HIDE DEF y
  <2>4. /\ r \in ChartIn(S) /\ r.firstPass = y.firstPass /\ r.loops = y.loops
        /\ r.dynamic = y.dynamic /\ r.prevWidth = y.prevWidth
    BY <1>2, <2>3, SetFull
  <2> HIDE DEF r
  <2>5. /\ r.firstPass = 5 /\ Len(r.loops) = 0 /\ r.dynamic = cv.dynamic
        /\ ~(r.prevWidth >= DrawableWidth)
    BY <1>5, <2>2, <2>3, <2>4
  <2>6. QED
    BY <2>1, <2>4, <2>5 DEF Undefined, Chart, S
<1>6. QED
  BY <1>4, <1>5

(* What subUpdate needs of the context it is called with. *)
Ready(cv) ==
  /\ Len(cv.loops) = IF cv.firstPass \in 1 .. 4 THEN 1 ELSE 0
  /\ cv.firstPass = 6 /\ cv.prevWidth >= DrawableWidth => cv.full
  /\ dynamicDisplay => cv.dynamic.done

LEMMA SubUpdate ==
  ASSUME NEW cv \in Passing, NEW d \in Data, NEW w \in Width, Ready(cv)
  PROVE  subUpdate(cv, d, w) \in Chart /\ GoodChart(subUpdate(cv, d, w))
<1>1. CASE redraws(cv, w)
  <2> DEFINE pre == [cv EXCEPT !.firstPass = IF @ \in {6, 7} THEN 3 ELSE 1,
                               !.prevWidth = IF cv.firstPass = 5 THEN @
                                             ELSE resizeGraph(w)]
  <2>1. subUpdate(cv, d, w) = redrawGraph(pre, d)
    BY <1>1 DEF subUpdate
  <2>2. cv.firstPass \notin 1 .. 4
    BY <1>1 DEF redraws, Undefined
  <2>3. cv.loops = <<>>
    BY <2>2, EmptySeq DEF Ready, Passing, ChartIn
  <2>4. pre \in Passing /\ pre.firstPass \in {1, 3} /\ pre.loops = <<>> /\ pre.dynamic = cv.dynamic
    <3> DEFINE fp == IF cv.firstPass \in {6, 7} THEN 3 ELSE 1
               pw == IF cv.firstPass = 5 THEN cv.prevWidth ELSE resizeGraph(w)
               x == [cv EXCEPT !.firstPass = fp]
    <3>1. fp \in {1, 3} /\ fp \in {Undefined} \cup 0 .. 7
      OBVIOUS
    <3>2. pw \in Nat
      BY SizeIsNat DEF Passing, ChartIn
    <3> HIDE DEF fp, pw
    <3>3. x \in Passing /\ x.firstPass = fp /\ x.loops = cv.loops /\ x.dynamic = cv.dynamic
      BY <3>1, SetPass DEF Passing
    <3> HIDE DEF x
    <3>4. pre = [x EXCEPT !.prevWidth = pw]
      BY DEF x, fp, pw
    <3> HIDE DEF pre
    <3>5. QED
      BY <2>3, <3>1, <3>2, <3>3, <3>4, SetWidth DEF Passing
  <2> HIDE DEF pre
  <2> DEFINE r == redrawGraph(pre, d)
  <2>5. /\ r \in Chart
        /\ Len(r.loops) = IF r.firstPass \in 1 .. 4 THEN 1 ELSE 0
        /\ r.firstPass = 5 => ~(r.prevWidth >= DrawableWidth)
        /\ r.dynamic = pre.dynamic
    BY <2>4, RedrawGraph
  <2>6. dynamicDisplay => r.dynamic.done
    BY <2>4, <2>5 DEF Ready
  <2> HIDE DEF r
  <2>7. GoodChart(r)
    BY <2>5, <2>6 DEF GoodChart
  <2>8. QED
    BY <2>1, <2>5, <2>7 DEF r
<1>2. CASE ~redraws(cv, w)
  <2> DEFINE fp == CASE cv.firstPass \in {1, 2} -> 2
                     [] cv.firstPass \in {3, 4} -> 4
                     [] cv.firstPass = 6 -> 5
             r == [cv EXCEPT !.firstPass = fp]
  <2>1. subUpdate(cv, d, w) = r
    BY <1>2 DEF subUpdate
  <2>2. cv.firstPass \in {1, 2, 3, 4, 6}
    BY <1>2 DEF redraws, Undefined, Passing, ChartIn
  <2>3. \/ cv.firstPass \in 1 .. 4 /\ fp \in {2, 4}
        \/ cv.firstPass = 6 /\ fp = 5
    BY <2>2
  <2> HIDE DEF fp
  <2>4. r \in Chart
    BY <2>3 DEF Passing, Chart, ChartIn, Picture
  <2>5. /\ r.firstPass = fp /\ r.loops = cv.loops /\ r.prevWidth = cv.prevWidth
        /\ r.full = cv.full /\ r.dynamic = cv.dynamic
    BY DEF Passing, ChartIn
  <2> HIDE DEF r
  <2>6. GoodChart(r)
    BY <2>3, <2>5 DEF GoodChart, Ready
  <2>7. QED
    BY <2>1, <2>4, <2>6
<1>3. QED
  BY <1>1, <1>2

(* A chart waits as it is, or is noted as seen. *)
LEMMA DynamicFunction ==
  ASSUME NEW cv \in Passing, NEW d \in Data, NEW seen \in BOOLEAN
  PROVE  LET r == dynamicFunction(cv, d, seen)
         IN  /\ r \in Passing
             /\ r.firstPass = cv.firstPass /\ r.loops = cv.loops
             /\ r.prevWidth = cv.prevWidth /\ r.full = cv.full
             /\ dynamicDisplay /\ cv.dynamic.done => r.dynamic.done
             /\ dynamicDisplay /\ dynamicReady(cv, seen) => r.dynamic.done
<1>1. CASE ~dynamicDisplay
  BY <1>1 DEF dynamicFunction
<1>2. CASE dynamicDisplay /\ cv.dynamic = NoEntry
  <2> DEFINE e == [done |-> seen, data |-> d]
             r == [cv EXCEPT !.dynamic = e]
  <2>1. dynamicFunction(cv, d, seen) = r
    BY <1>2 DEF dynamicFunction
  <2>2. e \in [done : BOOLEAN, data : Data] /\ e.done = seen
    OBVIOUS
  <2>3. ~cv.dynamic.done
    BY <1>2 DEF NoEntry
  <2> HIDE DEF e
  <2>4. r \in Passing /\ r.dynamic = e
    <3>1. e \in Waiting
      BY <2>2 DEF Waiting
    <3>2. QED
      BY <3>1, SetDynamic DEF Passing
  <2>5. /\ r.firstPass = cv.firstPass /\ r.loops = cv.loops
        /\ r.prevWidth = cv.prevWidth /\ r.full = cv.full
    BY DEF Passing, ChartIn
  <2> HIDE DEF r
  <2>6. QED
    BY <2>1, <2>2, <2>3, <2>4, <2>5 DEF dynamicReady
<1>3. CASE dynamicDisplay /\ cv.dynamic # NoEntry
  <2> DEFINE e == [cv.dynamic EXCEPT !.done = @ \/ seen]
             r == [cv EXCEPT !.dynamic.done = @ \/ seen]
  <2>1. dynamicFunction(cv, d, seen) = r
    BY <1>3 DEF dynamicFunction
  <2>2. cv.dynamic \in [done : BOOLEAN, data : Data]
    <3>1. cv.dynamic \in Waiting
      BY DEF Passing, ChartIn
    <3>2. QED
      BY <1>3, <3>1 DEF Waiting
  <2>3. e \in [done : BOOLEAN, data : Data] /\ e.done = (cv.dynamic.done \/ seen)
    BY <2>2
  <2>4. r = [cv EXCEPT !.dynamic = e]
    OBVIOUS
  <2> HIDE DEF e
  <2>5. r \in Passing /\ r.dynamic = e
    <3>1. e \in Waiting
      BY <2>3 DEF Waiting
    <3> HIDE DEF r
    <3>2. QED
      BY <2>4, <3>1, SetDynamic DEF Passing
  <2>6. /\ r.firstPass = cv.firstPass /\ r.loops = cv.loops
        /\ r.prevWidth = cv.prevWidth /\ r.full = cv.full
    BY <2>4 DEF Passing, ChartIn
  <2> HIDE DEF r
  <2>7. QED
    BY <2>1, <2>3, <2>5, <2>6 DEF dynamicReady
<1>4. QED
  BY <1>1, <1>2, <1>3

(* An update or a resize of a chart that is drawn, or that waits. *)
LEMMA SubUpdateChart ==
  ASSUME NEW cv \in Passing, NEW d \in Data, NEW w \in Width, NEW seen \in BOOLEAN,
         Len(cv.loops) = IF cv.firstPass \in 1 .. 4 THEN 1 ELSE 0,
         cv.firstPass = 6 /\ cv.prevWidth >= DrawableWidth => cv.full,
         cv.firstPass # Undefined /\ dynamicDisplay => cv.dynamic.done
  PROVE  /\ subUpdateChart(cv, d, w, seen) \in Chart
         /\ GoodChart(subUpdateChart(cv, d, w, seen))
<1> DEFINE x == dynamicFunction(cv, d, seen)
<1>1. /\ x \in Passing
      /\ x.firstPass = cv.firstPass /\ x.loops = cv.loops
      /\ x.prevWidth = cv.prevWidth /\ x.full = cv.full
      /\ dynamicDisplay /\ dynamicReady(cv, seen) => x.dynamic.done
  BY DynamicFunction
<1> HIDE DEF x
<1>2. CASE dynamicReady(cv, seen)
  <2>1. Ready(x)
    BY <1>1, <1>2 DEF Ready
  <2>2. subUpdateChart(cv, d, w, seen) = subUpdate(x, d, w)
    BY <1>2 DEF subUpdateChart, x
  <2>3. QED
    BY <1>1, <2>1, <2>2, SubUpdate
<1>3. CASE ~dynamicReady(cv, seen)
  <2>1. subUpdateChart(cv, d, w, seen) = x
    BY <1>3 DEF subUpdateChart, x
  <2>2. x.firstPass = Undefined
    BY <1>1, <1>3 DEF dynamicReady
  <2>3. x \in Chart
    BY <1>1, <2>2, SamePass DEF Passing, Chart
  <2>4. GoodChart(x)
    BY <1>1, <2>2 DEF GoodChart, Undefined
  <2>5. QED
    BY <2>1, <2>3, <2>4
<1>4. QED
  BY <1>2, <1>3

(* The end of a drawing: the loop is gone, and the last frame was complete. *)
LEMMA TestRedraw ==
  ASSUME NEW cv \in Chart, NEW d \in Data, NEW w \in Width,
         cv.firstPass # Undefined, cv.loops = <<>>, cv.full = TRUE,
         dynamicDisplay => cv.dynamic.done
  PROVE  testRedraw(cv, d, w) \in Chart /\ GoodChart(testRedraw(cv, d, w))
<1>1. CASE cv.firstPass \in {2, 4}
  <2> DEFINE x == [cv EXCEPT !.firstPass = 6]
  <2>1. x \in Passing /\ x.firstPass = 6 /\ x.loops = cv.loops /\ x.full = cv.full /\ x.dynamic = cv.dynamic
    <3> DEFINE S == {Undefined} \cup 1 .. 5
               T == {Undefined} \cup 0 .. 7
    <3>1. cv \in ChartIn(S) /\ Passing = ChartIn(T)
      BY DEF Chart, Passing
    <3>2. 6 \in T
      OBVIOUS
    <3> HIDE DEF S, T
    <3>3. QED
      BY <3>1, <3>2, SetPass
  <2> HIDE DEF x
  <2>2. Ready(x)
    BY <2>1 DEF Ready
  <2>3. testRedraw(cv, d, w) = subUpdate(x, d, w)
    BY <1>1 DEF testRedraw, x
  <2>4. QED
    BY <2>1, <2>2, <2>3, SubUpdate
<1>2. CASE cv.firstPass \notin {2, 4}
  <2> DEFINE x == [cv EXCEPT !.firstPass = 5]
  <2>1. x \in Chart /\ x.firstPass = 5 /\ x.loops = cv.loops /\ x.full = cv.full /\ x.dynamic = cv.dynamic
    <3> DEFINE S == {Undefined} \cup 1 .. 5
    <3>1. 5 \in S
      OBVIOUS
    <3>2. Chart = ChartIn(S)
      BY DEF Chart
    <3> HIDE DEF S
    <3>3. QED
      BY <3>1, <3>2, SetPass
  <2> HIDE DEF x
  <2>2. GoodChart(x)
    BY <2>1 DEF GoodChart
  <2>3. QED
    BY <1>2, <2>1, <2>2 DEF testRedraw, x
<1>3. QED
  BY <1>1, <1>2

-----------------------------------------------------------------------------
(* The parts of the state that a script or an event changes together. *)

(* The charts that are not drawn on stay as they are. *)
LEMMA OneChart ==
  ASSUME EngineIInv, NEW c \in Ctx, NEW x \in Chart, GoodChart(x),
         chart' = [chart EXCEPT ![c] = x], dynamicDisplay' = dynamicDisplay
  PROVE  chart' \in [Ctx -> Chart] /\ \A b \in Ctx : GoodChart(chart[b])'
<1>1. chart \in [Ctx -> Chart]
  BY DEF EngineIInv, EngineTypeOK
<1>2. chart' \in [Ctx -> Chart]
  BY <1>1
<1>3. ASSUME NEW b \in Ctx PROVE GoodChart(chart[b])'
  <2>1. CASE b = c
    <3>1. chart'[b] = x
      BY <1>1, <2>1
    <3>2. QED
      BY <3>1 DEF GoodChart
  <2>2. CASE b # c
    <3>1. chart'[b] = chart[b]
      BY <1>1, <2>2
    <3>2. GoodChart(chart[b])
      BY DEF EngineIInv
    <3>3. QED
      BY <3>1, <3>2 DEF GoodChart
  <2>3. QED
    BY <2>1, <2>2
<1>4. QED
  BY <1>2, <1>3

(* The data kept for the mouse keep their type. *)
Found == Seq([ctx : Ctx, data : Data])

LEMMA ClearAnnotate ==
  ASSUME NEW a \in [1 .. MaxMs -> Found], NEW cv, NEW redrawn
  PROVE  clearAnnotate(a, cv, redrawn) \in [1 .. MaxMs -> Found]
<1>1. <<>> \in Found
  BY EmptySeq DEF Found
<1>2. QED
  BY <1>1 DEF clearAnnotate

(* What the three variables of the engine keep in a step. *)
EngineKept ==
  /\ chart \in [Ctx -> Chart] /\ \A b \in Ctx : GoodChart(chart[b])
  /\ jsGraphResize \in Found /\ jsGraphAnnotate \in [1 .. MaxMs -> Found]

LEMMA KeptIsPart == EngineIInv => EngineKept
  BY DEF EngineIInv, EngineTypeOK, EngineKept, Found

LEMMA InitAndStart ==
  ASSUME EngineIInv, NEW c \in Ctx, NEW d \in Data, NEW seen \in BOOLEAN,
         Becomes(init_and_start(Engine, c, d, seen)), dynamicDisplay' = dynamicDisplay
  PROVE  EngineKept'
<1> DEFINE newId == IF chart[c].id = 0 THEN ms ELSE chart[c].id
           named == [chart[c] EXCEPT !.id = newId]
           cv == dynamicFunction(named, d, seen)
           registered == [cv EXCEPT !.prevWidth = resizeGraph(width)]
           ready == dynamicReady(chart[c], seen)
           drawn == IF ready THEN subUpdate(registered, d, width) ELSE registered
<1>1. /\ chart' = [chart EXCEPT ![c] = drawn]
      /\ jsGraphResize' = Append(jsGraphResize, [ctx |-> c, data |-> d])
      /\ jsGraphAnnotate' = clearAnnotate(jsGraphAnnotate, cv, ready)
  BY DEF Becomes, init_and_start, Engine
<1>2. chart[c] \in Chart /\ GoodChart(chart[c]) /\ width \in Width
  BY DEF EngineIInv, EngineTypeOK
<1>3. newId \in 0 .. MaxMs
  BY <1>2 DEF EngineIInv, EngineTypeOK, Chart, ChartIn
<1>4. /\ named \in Chart /\ named.firstPass = chart[c].firstPass /\ named.loops = chart[c].loops
      /\ named.full = chart[c].full /\ named.dynamic = chart[c].dynamic
  <2> DEFINE S == {Undefined} \cup 1 .. 5
  <2>1. Chart = ChartIn(S)
    BY DEF Chart
  <2> HIDE DEF S, newId
  <2>2. QED
    BY <1>2, <1>3, <2>1, SetId
<1> HIDE DEF newId, named
<1>5. /\ cv \in Passing /\ cv.firstPass = named.firstPass /\ cv.loops = named.loops
      /\ cv.full = named.full
      /\ dynamicDisplay /\ dynamicReady(named, seen) => cv.dynamic.done
  <2>1. named \in Passing
    BY <1>4, ChartIsPassing
  <2>2. QED
    BY <2>1, DynamicFunction
<1> HIDE DEF cv
<1>6. /\ registered \in Passing /\ registered.firstPass = cv.firstPass
      /\ registered.loops = cv.loops /\ registered.dynamic = cv.dynamic
  <2>1. resizeGraph(width) \in Nat
    BY <1>2, SizeIsNat
  <2>2. QED
    BY <1>5, <2>1, SetWidth DEF Passing
<1> HIDE DEF registered
<1>7. registered.firstPass \in {Undefined} \cup 1 .. 5
  BY <1>2, <1>4, <1>5, <1>6 DEF Chart, ChartIn
<1>8. Len(registered.loops) = IF registered.firstPass \in 1 .. 4 THEN 1 ELSE 0
  BY <1>2, <1>4, <1>5, <1>6 DEF GoodChart
<1>9. drawn \in Chart /\ GoodChart(drawn)
  <2>1. CASE ready
    <3>1. dynamicDisplay => registered.dynamic.done
      BY <1>4, <1>5, <1>6, <2>1 DEF dynamicReady
    <3>2. registered.firstPass # 6
      BY <1>7 DEF Undefined
    <3>3. Ready(registered)
      BY <1>8, <3>1, <3>2 DEF Ready
    <3>4. QED
      BY <1>2, <1>6, <2>1, <3>3, SubUpdate
  <2>2. CASE ~ready
    <3>1. registered.firstPass = Undefined
      BY <1>2, <1>4, <1>5, <1>6, <2>2 DEF dynamicReady, GoodChart
    <3>2. registered \in Chart
      BY <1>6, <1>7, SamePass DEF Passing, Chart
    <3>3. GoodChart(registered)
      BY <1>8, <3>1 DEF GoodChart, Undefined
    <3>4. QED
      BY <2>2, <3>2, <3>3
  <2>3. QED
    BY <2>1, <2>2
<1> HIDE DEF drawn, ready
<1>10. chart' \in [Ctx -> Chart] /\ \A b \in Ctx : GoodChart(chart[b])'
  BY <1>1, <1>9, OneChart
<1>11. jsGraphResize' \in Found
  BY <1>1 DEF EngineIInv, EngineTypeOK, Found
<1>12. jsGraphAnnotate' \in [1 .. MaxMs -> Found]
  BY <1>1, KeptIsPart, ClearAnnotate DEF EngineKept
<1>13. QED
  BY <1>10, <1>11, <1>12 DEF EngineKept

LEMMA UpdateChart ==
  ASSUME EngineIInv, NEW c \in Ctx, NEW d \in Data, NEW seen \in BOOLEAN, NEW animation \in BOOLEAN,
         Becomes(updateChart(Engine, c, d, animation, seen)), dynamicDisplay' = dynamicDisplay
  PROVE  EngineKept'
<1>1. CASE chart[c].firstPass # 5
  <2>1. UNCHANGED <<chart, jsGraphResize, jsGraphAnnotate>>
    BY <1>1 DEF Becomes, updateChart, Engine
  <2>2. EngineKept
    BY KeptIsPart
  <2>3. QED
    BY <2>1, <2>2 DEF EngineKept, GoodChart
<1>2. CASE chart[c].firstPass = 5
  <2> DEFINE fp == IF animation THEN 0 ELSE 7
             cv == [chart[c] EXCEPT !.firstPass = fp]
             after == subUpdateChart(cv, d, width, seen)
             same(k) == chart[jsGraphResize[k].ctx].id = cv.id
  <2>1. /\ chart' = [chart EXCEPT ![c] = after]
        /\ jsGraphResize' = [k \in DOMAIN jsGraphResize |->
                               IF same(k) THEN [jsGraphResize[k] EXCEPT !.data = d] ELSE jsGraphResize[k]]
        /\ jsGraphAnnotate' = clearAnnotate(jsGraphAnnotate, cv, dynamicReady(cv, seen))
    BY <1>2 DEF Becomes, updateChart, Engine
  <2>2. chart[c] \in Chart /\ GoodChart(chart[c]) /\ width \in Width
    BY DEF EngineIInv, EngineTypeOK
  <2>3. fp \in {0, 7}
    OBVIOUS
  <2> HIDE DEF fp
  <2>4. cv \in Passing /\ cv.firstPass = fp /\ cv.loops = chart[c].loops /\ cv.dynamic = chart[c].dynamic
    <3> DEFINE S == {Undefined} \cup 1 .. 5
               T == {Undefined} \cup 0 .. 7
    <3>1. chart[c] \in ChartIn(S) /\ Passing = ChartIn(T)
      BY <2>2 DEF Chart, Passing
    <3>2. fp \in T
      BY <2>3
    <3> HIDE DEF S, T
    <3>3. QED
      BY <3>1, <3>2, SetPass
  <2> HIDE DEF cv
  <2>5. Len(cv.loops) = 0 /\ (dynamicDisplay => cv.dynamic.done)
    BY <1>2, <2>2, <2>4 DEF GoodChart, Undefined
  <2>6. after \in Chart /\ GoodChart(after)
    BY <2>2, <2>3, <2>4, <2>5, SubUpdateChart
  <2> HIDE DEF after
  <2>7. chart' \in [Ctx -> Chart] /\ \A b \in Ctx : GoodChart(chart[b])'
    BY <2>1, <2>6, OneChart
  <2>8. jsGraphResize' \in Found
    <3> HIDE DEF same
    <3> DEFINE E == [ctx : Ctx, data : Data]
               n == Len(jsGraphResize)
               e(k) == IF same(k) THEN [jsGraphResize[k] EXCEPT !.data = d] ELSE jsGraphResize[k]
    <3>1. jsGraphResize \in Seq(E)
      BY DEF EngineIInv, EngineTypeOK
    <3>2. \A x \in E : [x EXCEPT !.data = d] \in E
      OBVIOUS
    <3> HIDE DEF E
    <3>3. n \in Nat /\ DOMAIN jsGraphResize = 1 .. n /\ \A k \in 1 .. n : jsGraphResize[k] \in E
      BY <3>1
    <3>4. \A k \in 1 .. n : e(k) \in E
      BY <3>2, <3>3
    <3>5. jsGraphResize' = [k \in 1 .. n |-> e(k)]
      BY <2>1, <3>3
    <3> HIDE DEF E, n, e
    <3>6. jsGraphResize' \in [1 .. n -> E]
      BY <3>4, <3>5
    <3>7. jsGraphResize' \in Seq(E)
      BY <3>3, <3>6, SeqDef
    <3>8. QED
      BY <3>7 DEF Found, E
  <2>9. jsGraphAnnotate' \in [1 .. MaxMs -> Found]
    BY <2>1, KeptIsPart, ClearAnnotate DEF EngineKept
  <2>10. QED
    BY <2>7, <2>8, <2>9 DEF EngineKept
<1>3. QED
  BY <1>1, <1>2

-----------------------------------------------------------------------------
(* Frames. *)

LEMMA AnimateFrame ==
  ASSUME NEW cv \in Chart, NEW lp \in Loop, NEW iter \in Int
  PROVE  LET r == animateFrame(cv, lp, iter)
         IN  /\ r \in Chart /\ r.full = Complete(cv, lp, iter)
             /\ r.firstPass = cv.firstPass /\ r.loops = cv.loops
             /\ r.dynamic = cv.dynamic /\ r.prevWidth = cv.prevWidth
<1> DEFINE S == {Undefined} \cup 1 .. 5
           b == Complete(cv, lp, iter)
           x == [cv EXCEPT !.shown = lp.data]
           r == [x EXCEPT !.full = b]
<1>1. b \in BOOLEAN
  BY DEF Complete
<1>2. lp.data \in Picture
  BY DEF Loop, Picture
<1>3. cv \in ChartIn(S) /\ Chart = ChartIn(S)
  BY DEF Chart
<1>4. animateFrame(cv, lp, iter) = r
  BY DEF animateFrame
<1> HIDE DEF S, b
<1>5. /\ x \in ChartIn(S) /\ x.firstPass = cv.firstPass /\ x.loops = cv.loops
      /\ x.dynamic = cv.dynamic /\ x.prevWidth = cv.prevWidth
  BY <1>2, <1>3, SetShown
<1> HIDE DEF x
<1>6. /\ r \in ChartIn(S) /\ r.firstPass = x.firstPass /\ r.loops = x.loops
      /\ r.dynamic = x.dynamic /\ r.prevWidth = x.prevWidth /\ r.full = b
  BY <1>1, <1>5, SetFull
<1> HIDE DEF r
<1>7. /\ r \in Chart /\ r.firstPass = cv.firstPass /\ r.loops = cv.loops
      /\ r.dynamic = cv.dynamic /\ r.prevWidth = cv.prevWidth
  BY <1>3, <1>5, <1>6
<1>8. QED
  BY <1>4, <1>6, <1>7 DEF b

(* A frame belongs to the only loop of a chart that is being drawn. *)
LEMMA OnlyLoop ==
  ASSUME EngineIInv, NEW c \in Ctx, NEW i \in DOMAIN chart[c].loops
  PROVE  /\ chart[c] \in Chart /\ GoodChart(chart[c]) /\ chart[c].firstPass \in 1 .. 4
         /\ i = 1 /\ Len(chart[c].loops) = 1 /\ chart[c].loops \in Seq(Loop)
         /\ chart[c].loops[i] \in Loop
<1>1. chart[c] \in Chart /\ GoodChart(chart[c])
  BY DEF EngineIInv, EngineTypeOK
<1>2. chart[c].loops \in Seq(Loop)
  BY <1>1 DEF Chart, ChartIn
<1>3. i \in 1 .. Len(chart[c].loops) /\ chart[c].loops[i] \in Loop
  BY <1>2
<1>4. chart[c].firstPass \in 1 .. 4 /\ Len(chart[c].loops) = 1
  BY <1>1, <1>2, <1>3 DEF GoodChart
<1>5. QED
  BY <1>1, <1>2, <1>3, <1>4

LEMMA AnnotateFrame ==
  ASSUME EngineIInv, NEW c \in Ctx, NEW lp \in Loop, NEW iter \in Int, annotateFrame(c, lp, iter)
  PROVE  jsGraphAnnotate' \in [1 .. MaxMs -> Found]
<1> DEFINE e == [ctx |-> c, data |-> lp.data]
           E == [ctx : Ctx, data : Data]
<1>1. e \in E
  BY DEF Loop
<1> HIDE DEF e, E
<1>2. \A s \in Seq(E) : Append(s, e) \in Seq(E)
  BY <1>1
<1>3. \A s \in Found : Append(s, e) \in Found
  BY <1>2 DEF Found, E
<1>4. jsGraphAnnotate \in [1 .. MaxMs -> Found]
  BY KeptIsPart DEF EngineKept
<1>5. \/ jsGraphAnnotate' = jsGraphAnnotate
      \/ jsGraphAnnotate' = [jsGraphAnnotate EXCEPT ![chart[c].id] = Append(@, e)]
  BY DEF annotateFrame, e
<1>6. QED
  BY <1>3, <1>4, <1>5

(* A frame after which the loop goes on, as next. *)
LEMMA FrameGoesOn ==
  ASSUME EngineIInv, NEW c \in Ctx, NEW i \in DOMAIN chart[c].loops, NEW iter \in Int,
         NEW next \in Loop,
         annotateFrame(c, chart[c].loops[i], iter),
         chart' = [chart EXCEPT
                     ![c] = WithLoop(animateFrame(chart[c], chart[c].loops[i], iter), i, next)],
         UNCHANGED <<jsGraphResize, dynamicDisplay>>
  PROVE  EngineKept'
<1> DEFINE lp == chart[c].loops[i]
           x == animateFrame(chart[c], lp, iter)
           r == WithLoop(x, i, next)
           S == {Undefined} \cup 1 .. 5
<1>1. /\ chart[c] \in Chart /\ GoodChart(chart[c]) /\ chart[c].firstPass \in 1 .. 4
      /\ i = 1 /\ Len(chart[c].loops) = 1 /\ chart[c].loops \in Seq(Loop) /\ lp \in Loop
  BY OnlyLoop
<1> HIDE DEF lp
<1>2. /\ x \in Chart /\ x.firstPass = chart[c].firstPass /\ x.loops = chart[c].loops
      /\ x.dynamic = chart[c].dynamic /\ x.prevWidth = chart[c].prevWidth
  BY <1>1, AnimateFrame
<1> HIDE DEF x
<1> DEFINE l == [x.loops EXCEPT ![i] = next]
<1>3. l \in Seq(Loop) /\ Len(l) = 1
  BY <1>1, <1>2
<1>4. r = [x EXCEPT !.loops = l]
  BY DEF WithLoop
<1> HIDE DEF l, r
<1>5. r \in Chart /\ r.loops = l /\ r.firstPass = x.firstPass /\ r.dynamic = x.dynamic
  <2>1. Chart = ChartIn(S)
    BY DEF Chart
  <2> HIDE DEF S
  <2>2. QED
    BY <1>2, <1>3, <1>4, <2>1, SetLoops
<1>6. GoodChart(r)
  <2>1. Len(r.loops) = 1 /\ r.firstPass \in 1 .. 4
    BY <1>1, <1>2, <1>3, <1>5
  <2>2. dynamicDisplay => r.dynamic.done
    BY <1>1, <1>2, <1>5 DEF GoodChart, Undefined
  <2>3. QED
    BY <2>1, <2>2 DEF GoodChart
<1>7. chart' = [chart EXCEPT ![c] = r]
  BY DEF r, x, lp
<1>8. chart' \in [Ctx -> Chart] /\ \A b \in Ctx : GoodChart(chart[b])'
  BY <1>5, <1>6, <1>7, OneChart
<1>9. jsGraphAnnotate' \in [1 .. MaxMs -> Found]
  BY <1>1, AnnotateFrame DEF lp
<1>10. QED
  BY <1>8, <1>9, KeptIsPart DEF EngineKept

LEMMA LoopFields ==
  ASSUME NEW lp \in Loop
  PROVE  /\ \A n \in Int : [lp EXCEPT !.iter = n] \in Loop
         /\ \A m \in {-1, 1} : [lp EXCEPT !.mult = m] \in Loop
         /\ \A k \in Nat : [lp EXCEPT !.count = k] \in Loop
<1> DEFINE M == {-1, 1}
<1>1. Loop = [data : Data, iter : Int, mult : M, count : Nat]
  BY DEF Loop
<1> HIDE DEF M
<1>2. \A n \in Int : [lp EXCEPT !.iter = n] \in Loop
  BY <1>1
<1>3. \A m \in M : [lp EXCEPT !.mult = m] \in Loop
  BY <1>1
<1>4. \A k \in Nat : [lp EXCEPT !.count = k] \in Loop
  BY <1>1
<1>5. QED
  BY <1>2, <1>3, <1>4 DEF M

LEMMA NextFrameStep ==
  ASSUME EngineIInv, NEW c \in Ctx, NEW i \in DOMAIN chart[c].loops, NextFrame(c, i)
  PROVE  EngineKept'
<1> DEFINE lp == chart[c].loops[i]
           iter == lp.iter + lp.mult
           atStart == lp.mult = -1 /\ iter <= 0
           next == [lp EXCEPT !.iter = iter, !.mult = IF atStart THEN 1 ELSE @]
<1>1. lp \in Loop
  BY OnlyLoop
<1>2. iter \in Int
  BY <1>1 DEF Loop
<1>3. next \in Loop
  <2> DEFINE x == [lp EXCEPT !.iter = iter]
             m == IF atStart THEN 1 ELSE lp.mult
  <2>1. m \in {-1, 1}
    BY <1>1 DEF Loop
  <2>2. x \in Loop
    BY <1>1, <1>2, LoopFields
  <2>3. next = [x EXCEPT !.mult = m]
    OBVIOUS
  <2> HIDE DEF x, m, next
  <2>4. QED
    BY <2>1, <2>2, <2>3, LoopFields
<1>4. /\ annotateFrame(c, lp, iter)
      /\ chart' = [chart EXCEPT ![c] = WithLoop(animateFrame(chart[c], lp, iter), i, next)]
      /\ UNCHANGED <<jsGraphResize, dynamicDisplay>>
  BY DEF NextFrame
<1> HIDE DEF iter, next
<1>5. QED
  BY <1>2, <1>3, <1>4, FrameGoesOn

LEMMA RepeatFrameStep ==
  ASSUME EngineIInv, NEW c \in Ctx, NEW i \in DOMAIN chart[c].loops, RepeatFrame(c, i)
  PROVE  EngineKept'
<1> DEFINE lp == chart[c].loops[i]
           iter == lp.iter + lp.mult
           back == lp.data.what.animationBackward /\ lp.mult = 1
           next == [lp EXCEPT !.count = @ + 1, !.mult = IF back THEN -1 ELSE 1,
                              !.iter = IF back THEN iter ELSE -1]
<1>1. lp \in Loop
  BY OnlyLoop
<1>2. iter \in Int
  BY <1>1 DEF Loop
<1>3. next \in Loop
  <2> HIDE DEF back
  <2> DEFINE k == lp.count + 1
             m == IF back THEN -1 ELSE 1
             n == IF back THEN iter ELSE -1
             x == [lp EXCEPT !.count = k]
             y == [x EXCEPT !.mult = m]
  <2>1. k \in Nat /\ m \in {-1, 1} /\ n \in Int
    BY <1>1, <1>2 DEF Loop
  <2>2. next = [y EXCEPT !.iter = n]
    OBVIOUS
  <2> HIDE DEF k, m, n, next
  <2>3. x \in Loop
    BY <1>1, <2>1, LoopFields
  <2> HIDE DEF x
  <2>4. y \in Loop
    BY <2>1, <2>3, LoopFields
  <2> HIDE DEF y
  <2>5. QED
    BY <2>1, <2>2, <2>4, LoopFields
<1>4. /\ annotateFrame(c, lp, iter)
      /\ chart' = [chart EXCEPT ![c] = WithLoop(animateFrame(chart[c], lp, iter), i, next)]
      /\ UNCHANGED <<jsGraphResize, dynamicDisplay>>
  BY DEF RepeatFrame
<1> HIDE DEF iter, next
<1>5. QED
  BY <1>2, <1>3, <1>4, FrameGoesOn

(* The last frame: the loop ends, and the frame was complete. *)
LEMMA LastFrameStep ==
  ASSUME EngineIInv, NEW c \in Ctx, NEW i \in DOMAIN chart[c].loops, LastFrame(c, i)
  PROVE  EngineKept'
<1> DEFINE lp == chart[c].loops[i]
           iter == lp.iter + lp.mult
           x == animateFrame(chart[c], lp, iter)
           l == SubSeq(x.loops, 1, i - 1) \o SubSeq(x.loops, i + 1, Len(x.loops))
           painted == [x EXCEPT !.loops = l]
           after == testRedraw(painted, lp.data, width)
           S == {Undefined} \cup 1 .. 5
<1>1. /\ chart[c] \in Chart /\ GoodChart(chart[c]) /\ chart[c].firstPass \in 1 .. 4
      /\ i = 1 /\ Len(chart[c].loops) = 1 /\ chart[c].loops \in Seq(Loop) /\ lp \in Loop
  BY OnlyLoop
<1>2. iter \in Int /\ lp.data \in Data
  BY <1>1 DEF Loop
<1>3. /\ chart' = [chart EXCEPT ![c] = after]
      /\ \/ jsGraphAnnotate' = clearAnnotate(jsGraphAnnotate, painted, TRUE)
         \/ annotateFrame(c, lp, iter)
      /\ UNCHANGED <<jsGraphResize, dynamicDisplay>>
      /\ AtEnd(chart[c], lp, iter)
  BY DEF LastFrame, WithoutLoop
<1> HIDE DEF lp, iter
<1>4. Complete(chart[c], lp, iter)
  <2>1. iter = AnimationSteps => iter >= AnimationSteps
    BY <1>2
  <2>2. QED
    BY <1>3, <2>1, Zenon DEF AtEnd, Complete
<1>5. /\ x \in Chart /\ x.firstPass = chart[c].firstPass /\ x.loops = chart[c].loops
      /\ x.dynamic = chart[c].dynamic /\ x.full = TRUE
  <2>1. /\ x \in Chart /\ x.firstPass = chart[c].firstPass /\ x.loops = chart[c].loops
        /\ x.dynamic = chart[c].dynamic /\ x.full = Complete(chart[c], lp, iter)
    BY <1>1, <1>2, AnimateFrame
  <2> HIDE DEF x
  <2>2. Complete(chart[c], lp, iter) = TRUE
    BY <1>4, Zenon DEF Complete
  <2>3. QED
    BY <2>1, <2>2
<1> HIDE DEF x
<1>6. l = <<>>
  <2>1. x.loops \in Seq(Loop) /\ Len(x.loops) = 1
    BY <1>1, <1>5
  <2>2. SubSeq(x.loops, 1, 0) = <<>> /\ SubSeq(x.loops, 2, 1) = <<>>
    BY <2>1
  <2>3. QED
    BY <1>1, <2>1, <2>2
<1> HIDE DEF l
<1>7. /\ painted \in Chart /\ painted.firstPass = x.firstPass /\ painted.loops = <<>>
      /\ painted.dynamic = x.dynamic /\ painted.full = x.full
  <2>1. Chart = ChartIn(S) /\ l \in Seq(Loop)
    BY <1>6, EmptySeq DEF Chart
  <2> HIDE DEF S
  <2>2. /\ painted \in Chart /\ painted.firstPass = x.firstPass /\ painted.loops = l
        /\ painted.dynamic = x.dynamic /\ painted.full = x.full
    <3> HIDE DEF Chart
    <3>1. x \in ChartIn(S)
      BY <1>5, <2>1
    <3>2. QED
      BY <2>1, <3>1, SetLoops
  <2>3. QED
    BY <1>6, <2>2
<1> HIDE DEF painted
<1>8. painted.firstPass # Undefined /\ (dynamicDisplay => painted.dynamic.done)
  BY <1>1, <1>5, <1>7 DEF GoodChart, Undefined
<1>9. painted.full = TRUE
  BY <1>5, <1>7
<1>10. width \in Width
  BY DEF EngineIInv, EngineTypeOK
<1>11. after \in Chart /\ GoodChart(after)
  BY <1>2, <1>7, <1>8, <1>9, <1>10, TestRedraw
<1> HIDE DEF after
<1>12. chart' \in [Ctx -> Chart] /\ \A b \in Ctx : GoodChart(chart[b])'
  BY <1>3, <1>11, OneChart
<1>13. jsGraphAnnotate' \in [1 .. MaxMs -> Found]
  <2>1. CASE jsGraphAnnotate' = clearAnnotate(jsGraphAnnotate, painted, TRUE)
    BY <2>1, KeptIsPart, ClearAnnotate DEF EngineKept
  <2>2. CASE annotateFrame(c, lp, iter)
    BY <1>1, <1>2, <2>2, AnnotateFrame
  <2>3. QED
    BY <1>3, <2>1, <2>2
<1>14. QED
  BY <1>3, <1>12, <1>13, KeptIsPart DEF EngineKept

(* The resize handler looks at one registered chart. *)
LEMMA ResizeStep ==
  ASSUME EngineIInv, chartJsResize, at \in DOMAIN jsGraphResize
  PROVE  EngineKept'
<1> DEFINE entry == jsGraphResize[at]
           c == entry.ctx
           fp == IF chart[c].firstPass = 5 THEN 6 ELSE chart[c].firstPass
           cv == [chart[c] EXCEPT !.firstPass = fp]
           seen == c \in visible
           after == subUpdateChart(cv, entry.data, width, seen)
           redrawn == dynamicReady(cv, seen) /\ redraws(cv, width)
<1>1. c \in Ctx /\ entry.data \in Data
  <2> DEFINE E == [ctx : Ctx, data : Data]
  <2>1. jsGraphResize \in Seq(E)
    BY DEF EngineIInv, EngineTypeOK
  <2> HIDE DEF E
  <2>2. entry \in E
    BY <2>1
  <2> HIDE DEF entry
  <2>3. QED
    BY <2>2 DEF E
<1>2. /\ chart' = [chart EXCEPT ![c] = after]
      /\ jsGraphAnnotate' = clearAnnotate(jsGraphAnnotate, cv, redrawn)
      /\ UNCHANGED <<jsGraphResize, dynamicDisplay>>
  BY DEF chartJsResize
<1>3. chart[c] \in Chart /\ GoodChart(chart[c]) /\ width \in Width
  BY <1>1 DEF EngineIInv, EngineTypeOK
<1>4. seen \in BOOLEAN
  OBVIOUS
<1>5. /\ fp \in {Undefined} \cup 0 .. 7
      /\ fp = Undefined => chart[c].firstPass = Undefined
      /\ fp = 6 => chart[c].firstPass = 5
      /\ fp \in 1 .. 4 <=> chart[c].firstPass \in 1 .. 4
  BY <1>3 DEF Chart, ChartIn, Undefined
<1> HIDE DEF entry, fp, seen
<1>6. /\ cv \in Passing /\ cv.firstPass = fp /\ cv.loops = chart[c].loops
      /\ cv.dynamic = chart[c].dynamic /\ cv.prevWidth = chart[c].prevWidth
      /\ cv.full = chart[c].full
  <2> DEFINE S == {Undefined} \cup 1 .. 5
             T == {Undefined} \cup 0 .. 7
  <2>1. chart[c] \in ChartIn(S) /\ Passing = ChartIn(T) /\ fp \in T
    BY <1>3, <1>5 DEF Chart, Passing
  <2> HIDE DEF S, T, c
  <2>2. QED
    BY <2>1, SetPass
<1> HIDE DEF cv, c
<1>7. /\ Len(cv.loops) = IF cv.firstPass \in 1 .. 4 THEN 1 ELSE 0
      /\ cv.firstPass # Undefined /\ dynamicDisplay => cv.dynamic.done
  <2>1. Len(cv.loops) = IF cv.firstPass \in 1 .. 4 THEN 1 ELSE 0
    BY <1>3, <1>5, <1>6 DEF GoodChart
  <2>2. fp # Undefined => chart[c].firstPass # Undefined
    BY DEF fp, Undefined, c
  <2>3. cv.firstPass # Undefined /\ dynamicDisplay => cv.dynamic.done
    BY <1>3, <1>6, <2>2 DEF GoodChart
  <2>4. QED
    BY <2>1, <2>3
<1>8. cv.firstPass = 6 /\ cv.prevWidth >= DrawableWidth => cv.full
  BY <1>3, <1>5, <1>6 DEF GoodChart
<1>9. after \in Chart /\ GoodChart(after)
  BY <1>1, <1>3, <1>4, <1>6, <1>7, <1>8, SubUpdateChart
<1> HIDE DEF after, redrawn
<1>10. chart' \in [Ctx -> Chart] /\ \A b \in Ctx : GoodChart(chart[b])'
  BY <1>1, <1>2, <1>9, OneChart
<1>11. jsGraphAnnotate' \in [1 .. MaxMs -> Found]
  BY <1>2, KeptIsPart, ClearAnnotate DEF EngineKept
<1>12. QED
  BY <1>2, <1>10, <1>11, KeptIsPart DEF EngineKept

-----------------------------------------------------------------------------
(* The invariant. *)

LEMMA EngineStart == EngineInit => EngineIInv
<1> SUFFICES ASSUME EngineInit PROVE EngineIInv
  OBVIOUS
<1>1. FreshChart \in Chart
  <2>1. Blank \in Picture /\ NoEntry \in Waiting /\ 0 \in 0 .. MaxMs
    BY EngineAssumption DEF Picture, Waiting
  <2>2. <<>> \in Seq(Loop)
    BY EmptySeq
  <2>3. QED
    BY <2>1, <2>2 DEF FreshChart, Chart, ChartIn
<1>2. GoodChart(FreshChart)
  BY DEF GoodChart, FreshChart, Undefined
<1>3. chart \in [Ctx -> Chart] /\ \A c \in Ctx : GoodChart(chart[c])
  BY <1>1, <1>2 DEF EngineInit
<1>4. <<>> \in Seq([ctx : Ctx, data : Data])
  BY EmptySeq
<1>5. QED
  BY <1>3, <1>4, EngineAssumption DEF EngineInit, EngineIInv, EngineTypeOK

(* The rest of the state, in a step that is not the resize handler's. *)
Around ==
  /\ width \in Width /\ dynamicDisplay \in BOOLEAN /\ visible \subseteq Ctx
  /\ handler \in {"idle", "resize"} /\ at \in Nat
  /\ handler = "resize" => at \in DOMAIN jsGraphResize
  /\ ms \in 1 .. MaxMs /\ events \in 0 .. MaxEvent

LEMMA InvariantParts == EngineIInv <=> EngineKept /\ Around
  BY DEF EngineIInv, EngineTypeOK, EngineKept, Around, Found

LEMMA InvariantNext == EngineKept' /\ Around' => EngineIInv'
  BY DEF EngineIInv, EngineTypeOK, EngineKept, Around, Found

(* A script or an event handled at once: the handler stays idle. *)
LEMMA IdleAround ==
  ASSUME Around, handler = "idle", UNCHANGED <<dynamicDisplay, handler, at, ms>>,
         width' \in Width, visible' \subseteq Ctx, events' \in 0 .. MaxEvent
  PROVE  Around'
  BY DEF Around

LEMMA EventCounts == ASSUME Around, Event PROVE events' \in 0 .. MaxEvent
  BY EngineAssumption DEF Around, Event

LEMMA DrawStep ==
  ASSUME EngineIInv, NEW c \in Ctx, NEW d \in Data, Draw(c, d)
  PROVE  EngineIInv'
<1>1. EngineKept'
  <2>1. (c \in visible) \in BOOLEAN
    OBVIOUS
  <2>2. Becomes(init_and_start(Engine, c, d, c \in visible)) /\ dynamicDisplay' = dynamicDisplay
    BY DEF Draw
  <2>3. QED
    BY <2>1, <2>2, InitAndStart
<1>2. Around'
  BY InvariantParts, EventCounts, IdleAround DEF Draw, Around
<1>3. QED
  BY <1>1, <1>2, InvariantNext

LEMMA UpdateStep ==
  ASSUME EngineIInv, NEW c \in Ctx, NEW d \in Data, NEW animation \in BOOLEAN,
         Update(c, d, animation)
  PROVE  EngineIInv'
<1>1. EngineKept'
  <2>1. (c \in visible) \in BOOLEAN
    OBVIOUS
  <2>2. /\ Becomes(updateChart(Engine, c, d, animation, c \in visible))
        /\ dynamicDisplay' = dynamicDisplay
    BY DEF Update
  <2>3. QED
    BY <2>1, <2>2, UpdateChart
<1>2. Around'
  BY InvariantParts, EventCounts, IdleAround DEF Update, Around
<1>3. QED
  BY <1>1, <1>2, InvariantNext

LEMMA ScrollStep ==
  ASSUME EngineIInv, NEW c \in Ctx, scrollFunction(c)
  PROVE  EngineIInv'
<1> DEFINE entry == chart[c].dynamic
<1>1. EngineKept'
  <2>1. CASE c \notin visible /\ entry # NoEntry /\ ~entry.done
    <3>1. entry \in Waiting
      BY DEF EngineIInv, EngineTypeOK, Chart, ChartIn
    <3>2. entry.data \in Data
      BY <2>1, <3>1 DEF Waiting
    <3>3. Becomes(init_and_start(Engine, c, entry.data, TRUE)) /\ dynamicDisplay' = dynamicDisplay
      BY <2>1 DEF scrollFunction
    <3>4. TRUE \in BOOLEAN
      OBVIOUS
    <3> HIDE DEF entry
    <3>5. QED
      BY <3>2, <3>3, <3>4, InitAndStart
  <2>2. CASE ~(c \notin visible /\ entry # NoEntry /\ ~entry.done)
    <3>1. UNCHANGED <<chart, jsGraphResize, jsGraphAnnotate, dynamicDisplay>>
      BY <2>2 DEF scrollFunction
    <3>2. QED
      BY <3>1, KeptIsPart DEF EngineKept, GoodChart
  <2>3. QED
    BY <2>1, <2>2
<1>2. Around'
  <2>1. visible' \subseteq Ctx
    BY InvariantParts DEF scrollFunction, Around
  <2>2. /\ handler = "idle" /\ UNCHANGED <<dynamicDisplay, handler, at, ms>> /\ width' \in Width
        /\ Event /\ Around
    BY InvariantParts DEF scrollFunction, Around
  <2>3. QED
    BY <2>1, <2>2, EventCounts, IdleAround
<1>3. QED
  BY <1>1, <1>2, InvariantNext

LEMMA FrameStep ==
  ASSUME EngineIInv, NEW c \in Ctx, AnimFrame(c)
  PROVE  EngineIInv'
<1>1. PICK i \in DOMAIN chart[c].loops : NextFrame(c, i) \/ RepeatFrame(c, i) \/ LastFrame(c, i)
  BY DEF AnimFrame
<1>2. EngineKept'
  BY <1>1, NextFrameStep, RepeatFrameStep, LastFrameStep
<1>3. /\ handler = "idle"
      /\ UNCHANGED <<width, dynamicDisplay, visible, handler, at, ms, events>>
  BY <1>1 DEF NextFrame, RepeatFrame, LastFrame
<1>4. Around'
  BY <1>3, InvariantParts, IdleAround DEF Around
<1>5. QED
  BY <1>2, <1>4, InvariantNext

LEMMA WindowStep ==
  ASSUME EngineIInv, NEW w \in Width, ResizeWindow(w)
  PROVE  EngineIInv'
<1>1. UNCHANGED <<chart, jsGraphResize, jsGraphAnnotate, dynamicDisplay>>
  BY DEF ResizeWindow
<1>2. EngineKept'
  BY <1>1, KeptIsPart DEF EngineKept, GoodChart
<1>3. Around /\ jsGraphResize \in Found
  BY InvariantParts DEF EngineKept
<1>4. Around'
  <2>1. events' \in 0 .. MaxEvent
    BY <1>3, EventCounts DEF ResizeWindow
  <2>2. jsGraphResize # <<>> => 1 \in DOMAIN jsGraphResize
    <3> DEFINE E == [ctx : Ctx, data : Data]
    <3>1. jsGraphResize \in Seq(E)
      BY <1>3 DEF Found
    <3> HIDE DEF E
    <3>2. QED
      BY <3>1
  <2>3. QED
    BY <1>3, <2>1, <2>2 DEF ResizeWindow, Around
<1>5. QED
  BY <1>2, <1>4, InvariantNext

LEMMA HandlerStep == ASSUME EngineIInv, chartJsResize PROVE EngineIInv'
<1>1. Around /\ jsGraphResize \in Found /\ handler = "resize"
  BY InvariantParts DEF EngineKept, chartJsResize
<1>2. at \in DOMAIN jsGraphResize
  BY <1>1 DEF Around
<1>3. EngineKept'
  BY <1>2, ResizeStep
<1>4. Around'
  <2>1. at < Len(jsGraphResize) => at + 1 \in DOMAIN jsGraphResize
    <3> DEFINE E == [ctx : Ctx, data : Data]
    <3>1. jsGraphResize \in Seq(E)
      BY <1>1 DEF Found
    <3> HIDE DEF E
    <3>2. QED
      BY <1>2, <3>1
  <2>2. \/ at < Len(jsGraphResize) /\ at' = at + 1 /\ handler' = handler
        \/ at' = 0 /\ handler' = "idle"
    BY DEF chartJsResize
  <2>3. UNCHANGED <<jsGraphResize, width, dynamicDisplay, visible, ms, events>>
    BY DEF chartJsResize
  <2>4. QED
    BY <1>1, <2>1, <2>2, <2>3 DEF Around
<1>5. QED
  BY <1>3, <1>4, InvariantNext

LEMMA EngineStep == EngineIInv /\ [EngineNext]_engineVars => EngineIInv'
<1> SUFFICES ASSUME EngineIInv, [EngineNext]_engineVars PROVE EngineIInv'
  OBVIOUS
<1>1. ASSUME NEW c \in Ctx, AnimFrame(c) PROVE EngineIInv'
  BY <1>1, FrameStep
<1>2. ASSUME NEW w \in Width, ResizeWindow(w) PROVE EngineIInv'
  BY <1>2, WindowStep
<1>3. CASE chartJsResize
  BY <1>3, HandlerStep
<1>4. CASE Tick
  <2>1. EngineKept' /\ Around'
    <3>1. UNCHANGED <<chart, jsGraphResize, jsGraphAnnotate, dynamicDisplay>>
      BY <1>4 DEF Tick
    <3>2. EngineKept'
      BY <3>1, KeptIsPart DEF EngineKept, GoodChart
    <3>3. Around
      BY InvariantParts
    <3>4. Around'
      BY <1>4, <3>3, EngineAssumption DEF Tick, Around
    <3>5. QED
      BY <3>2, <3>4
  <2>2. QED
    BY <2>1, InvariantNext
<1>5. ASSUME NEW c \in Ctx, NEW k \in Content PROVE [for |-> Owner(c), what |-> k] \in Data
  BY DEF Data, Owner, Ctx
<1>6. ASSUME NEW c \in Ctx, NEW k \in Content, Draw(c, [for |-> Owner(c), what |-> k])
      PROVE  EngineIInv'
  <2> DEFINE d == [for |-> Owner(c), what |-> k]
  <2>1. d \in Data /\ Draw(c, d)
    BY <1>5, <1>6
  <2> HIDE DEF d
  <2>2. QED
    BY <2>1, DrawStep
<1>7. ASSUME NEW c \in Ctx, NEW k \in Content, NEW animation \in BOOLEAN,
             Update(c, [for |-> Owner(c), what |-> k], animation)
      PROVE  EngineIInv'
  <2> DEFINE d == [for |-> Owner(c), what |-> k]
  <2>1. d \in Data /\ Update(c, d, animation)
    BY <1>5, <1>7
  <2> HIDE DEF d
  <2>2. QED
    BY <2>1, UpdateStep
<1>8. ASSUME NEW c \in Ctx, scrollFunction(c) PROVE EngineIInv'
  BY <1>8, ScrollStep
<1>9. CASE UNCHANGED engineVars
  <2>1. EngineKept' /\ Around'
    BY <1>9, InvariantParts DEF engineVars, EngineKept, Around, GoodChart
  <2>2. QED
    BY <2>1, InvariantNext
<1>10. QED
  BY <1>1, <1>2, <1>3, <1>4, <1>6, <1>7, <1>8, <1>9 DEF EngineNext, Browser

(* The invariant of the engine: drawing states and animation loops belong    *)
(* together, and only what was seen is drawn, whichever calls, frames,       *)
(* resizes and scrolls follow each other (ChartNew.js).                      *)
THEOREM EngineInvariant == EngineSpec => []EngineIInv
  BY EngineStart, EngineStep, PTL DEF EngineSpec

(* The state of the engine keeps its type: between two events firstPass is   *)
(* never left at one of its passing values.                                  *)
THEOREM EngineTypeCorrect == EngineSpec => []EngineTypeOK
<1>1. EngineIInv => EngineTypeOK
  BY DEF EngineIInv
<1>2. QED
  BY <1>1, EngineInvariant, PTL

(* At most one animation loop works on a canvas, and exactly one while       *)
(* firstPass says that the chart is being drawn (updateChart, animationLoop).*)
THEOREM OneLoopPerDrawing == EngineSpec => []LoopMatchesPass
<1>1. EngineIInv => LoopMatchesPass
  BY DEF EngineIInv, GoodChart, LoopMatchesPass
<1>2. QED
  BY <1>1, EngineInvariant, PTL

(* A chart at rest shows all its data (animationLoop, testRedraw).           *)
THEOREM ChartsEndComplete == EngineSpec => []EndsComplete
<1>1. EngineIInv => EndsComplete
  BY DEF EngineIInv, GoodChart, EndsComplete
<1>2. QED
  BY <1>1, EngineInvariant, PTL

-----------------------------------------------------------------------------
(* What a chart shows, loads and registers: the data it is drawn with.       *)

LEMMA RedrawData ==
  ASSUME NEW cv \in Passing, NEW d \in Data, cv.loops = <<>>
  PROVE  LET r == redrawGraph(cv, d)
         IN  /\ r.id = cv.id /\ r.shown = Blank /\ r.full = FALSE
             /\ r.dynamic = cv.dynamic
             /\ r.firstPass \in {cv.firstPass, 5}
             /\ \A i \in DOMAIN r.loops : r.loops[i].data = d
<1> DEFINE lp == animationLoop(d)
           l == Append(<<>>, lp)
<1>1. lp.data = d /\ lp \in Loop
  BY LoopIsNew DEF animationLoop
<1> HIDE DEF lp
<1>2. \A i \in DOMAIN l : l[i].data = d
  BY <1>1
<1>3. CASE cv.prevWidth >= DrawableWidth
  <2> DEFINE r == [cv EXCEPT !.loops = l, !.shown = Blank, !.full = FALSE]
  <2>1. redrawGraph(cv, d) = r
    BY <1>3 DEF redrawGraph, lp
  <2> HIDE DEF l
  <2>2. /\ r.id = cv.id /\ r.shown = Blank /\ r.full = FALSE /\ r.loops = l
        /\ r.dynamic = cv.dynamic /\ r.firstPass = cv.firstPass
    BY DEF Passing, ChartIn
  <2> HIDE DEF r
  <2>3. QED
    BY <1>2, <2>1, <2>2
<1>4. CASE ~(cv.prevWidth >= DrawableWidth)
  <2> DEFINE r == [cv EXCEPT !.firstPass = 5, !.shown = Blank, !.full = FALSE]
  <2>1. redrawGraph(cv, d) = r
    BY <1>4 DEF redrawGraph
  <2>2. /\ r.id = cv.id /\ r.shown = Blank /\ r.full = FALSE /\ r.loops = cv.loops
        /\ r.dynamic = cv.dynamic /\ r.firstPass = 5
    BY DEF Passing, ChartIn
  <2> HIDE DEF r
  <2>3. QED
    BY <2>1, <2>2
<1>5. QED
  BY <1>3, <1>4

(* A redraw blanks the chart and loads d; otherwise the picture stays. *)
LEMMA SubUpdateData ==
  ASSUME NEW cv \in Passing, NEW d \in Data, NEW w \in Width,
         Len(cv.loops) = IF cv.firstPass \in 1 .. 4 THEN 1 ELSE 0
  PROVE  LET r == subUpdate(cv, d, w)
         IN  /\ r.id = cv.id /\ r.dynamic = cv.dynamic /\ r.firstPass # Undefined
             /\ redraws(cv, w) =>
                  /\ r.shown = Blank /\ r.full = FALSE
                  /\ \A i \in DOMAIN r.loops : r.loops[i].data = d
             /\ ~redraws(cv, w) =>
                  r.shown = cv.shown /\ r.full = cv.full /\ r.loops = cv.loops
<1>1. CASE redraws(cv, w)
  <2> DEFINE fp == IF cv.firstPass \in {6, 7} THEN 3 ELSE 1
             pw == IF cv.firstPass = 5 THEN cv.prevWidth ELSE resizeGraph(w)
             x == [cv EXCEPT !.firstPass = fp]
             pre == [x EXCEPT !.prevWidth = pw]
  <2>1. subUpdate(cv, d, w) = redrawGraph(pre, d)
    BY <1>1 DEF subUpdate
  <2>2. fp \in {1, 3} /\ fp \in {Undefined} \cup 0 .. 7 /\ pw \in Nat
    BY SizeIsNat DEF Passing, ChartIn
  <2>3. cv.firstPass \notin 1 .. 4
    BY <1>1 DEF redraws, Undefined
  <2>4. cv.loops = <<>>
    BY <2>3, EmptySeq DEF Passing, ChartIn
  <2> HIDE DEF fp, pw
  <2>5. /\ x \in Passing /\ x.firstPass = fp /\ x.loops = cv.loops /\ x.dynamic = cv.dynamic
        /\ x.id = cv.id
    <3> DEFINE T == {Undefined} \cup 0 .. 7
    <3>1. Passing = ChartIn(T) /\ fp \in T
      BY <2>2 DEF Passing
    <3> HIDE DEF T
    <3>2. QED
      BY <3>1, SetPass
  <2> HIDE DEF x
  <2>6. /\ pre \in Passing /\ pre.firstPass = fp /\ pre.loops = cv.loops /\ pre.dynamic = cv.dynamic
        /\ pre.id = cv.id
    BY <2>2, <2>5, SetWidth DEF Passing
  <2> HIDE DEF pre
  <2>7. LET r == redrawGraph(pre, d)
        IN  /\ r.id = pre.id /\ r.shown = Blank /\ r.full = FALSE
            /\ r.dynamic = pre.dynamic /\ r.firstPass \in {pre.firstPass, 5}
            /\ \A i \in DOMAIN r.loops : r.loops[i].data = d
    BY <2>4, <2>6, RedrawData
  <2>8. QED
    BY <1>1, <2>1, <2>2, <2>6, <2>7 DEF Undefined
<1>2. CASE ~redraws(cv, w)
  <2> DEFINE fp == CASE cv.firstPass \in {1, 2} -> 2
                     [] cv.firstPass \in {3, 4} -> 4
                     [] cv.firstPass = 6 -> 5
             r == [cv EXCEPT !.firstPass = fp]
  <2>1. subUpdate(cv, d, w) = r
    BY <1>2 DEF subUpdate
  <2>2. cv.firstPass \in {1, 2, 3, 4, 6}
    BY <1>2 DEF redraws, Undefined, Passing, ChartIn
  <2>3. fp \in {2, 4, 5}
    BY <2>2
  <2> HIDE DEF fp
  <2>4. /\ r.firstPass = fp /\ r.loops = cv.loops /\ r.id = cv.id /\ r.shown = cv.shown
        /\ r.full = cv.full /\ r.dynamic = cv.dynamic
    BY DEF Passing, ChartIn
  <2> HIDE DEF r
  <2>5. QED
    BY <1>2, <2>1, <2>3, <2>4 DEF Undefined
<1>3. QED
  BY <1>1, <1>2

(* A chart that waits keeps the data of its first call. *)
LEMMA DynamicData ==
  ASSUME NEW cv \in Passing, NEW d \in Data, NEW seen \in BOOLEAN
  PROVE  LET r == dynamicFunction(cv, d, seen)
         IN  /\ r \in Passing /\ r.id = cv.id /\ r.shown = cv.shown /\ r.full = cv.full
             /\ r.loops = cv.loops /\ r.firstPass = cv.firstPass
             /\ dynamicDisplay => r.dynamic # NoEntry
             /\ cv.dynamic # NoEntry => r.dynamic # NoEntry /\ r.dynamic.data = cv.dynamic.data
             /\ cv.dynamic = NoEntry /\ dynamicDisplay => r.dynamic.data = d
<1> DEFINE r == dynamicFunction(cv, d, seen)
<1>1. r \in Passing /\ r.loops = cv.loops /\ r.firstPass = cv.firstPass /\ r.full = cv.full
  BY DynamicFunction
<1>2. \A e \in [done : BOOLEAN, data : Data] : e # NoEntry
  <2>1. "data" \notin DOMAIN NoEntry
    BY DEF NoEntry
  <2>2. QED
    BY <2>1
<1>3. CASE ~dynamicDisplay
  <2>1. r = cv
    BY <1>3 DEF dynamicFunction
  <2>2. QED
    BY <1>1, <1>3, <2>1
<1>4. CASE dynamicDisplay /\ cv.dynamic = NoEntry
  <2> DEFINE e == [done |-> seen, data |-> d]
  <2>1. r = [cv EXCEPT !.dynamic = e]
    BY <1>4 DEF dynamicFunction
  <2>2. e \in [done : BOOLEAN, data : Data] /\ e.data = d
    OBVIOUS
  <2> HIDE DEF e, r
  <2>3. r.dynamic = e /\ r.id = cv.id /\ r.shown = cv.shown
    BY <2>1 DEF Passing, ChartIn
  <2>4. QED
    BY <1>1, <1>2, <1>4, <2>2, <2>3 DEF r
<1>5. CASE dynamicDisplay /\ cv.dynamic # NoEntry
  <2> DEFINE e == [cv.dynamic EXCEPT !.done = @ \/ seen]
  <2>1. r = [cv EXCEPT !.dynamic = e]
    BY <1>5 DEF dynamicFunction
  <2>2. cv.dynamic \in [done : BOOLEAN, data : Data]
    <3>1. cv.dynamic \in Waiting
      BY DEF Passing, ChartIn
    <3>2. QED
      BY <1>5, <3>1 DEF Waiting
  <2>3. e \in [done : BOOLEAN, data : Data] /\ e.data = cv.dynamic.data
    BY <2>2
  <2> HIDE DEF e, r
  <2>4. r.dynamic = e /\ r.id = cv.id /\ r.shown = cv.shown
    BY <2>1 DEF Passing, ChartIn
  <2>5. QED
    BY <1>1, <1>2, <1>5, <2>3, <2>4 DEF r
<1>6. QED
  BY <1>3, <1>4, <1>5

-----------------------------------------------------------------------------
(* One chart changes at a time: the others keep their data.                  *)

(* Ids are given once, so that ids that are distinct now always were. *)
LEMMA IdsWereDistinct ==
  ASSUME EngineIInv, NEW c \in Ctx, NEW x, chart' = [chart EXCEPT ![c] = x],
         x.id # 0, chart[c].id \in {0, x.id}, DistinctIds'
  PROVE  DistinctIds
<1>1. chart \in [Ctx -> Chart]
  BY DEF EngineIInv, EngineTypeOK
<1>2. \A a \in Ctx : chart[a].id # 0 => chart'[a].id = chart[a].id
  BY <1>1
<1>3. QED
  BY <1>2 DEF DistinctIds

LEMMA OthersKeepContent ==
  ASSUME EngineIInv, NEW c \in Ctx, NEW x, chart' = [chart EXCEPT ![c] = x],
         x.id # 0, DistinctIds',
         \A i \in DOMAIN jsGraphResize' :
           jsGraphResize'[i].ctx # c => i \in DOMAIN jsGraphResize /\ jsGraphResize'[i] = jsGraphResize[i],
         \A j \in 1 .. MaxMs : j # x.id => jsGraphAnnotate'[j] = jsGraphAnnotate[j],
         NEW b \in Ctx, b # c, OneContent(b)
  PROVE  OneContent(b)'
<1>1. chart \in [Ctx -> Chart] /\ chart[b] \in Chart
  BY DEF EngineIInv, EngineTypeOK
<1>2. chart'[b] = chart[b] /\ chart'[c] = x
  BY <1>1
<1>3. \A i \in Registered(b)' : i \in Registered(b) /\ jsGraphResize'[i] = jsGraphResize[i]
  BY DEF Registered
<1>4. chart[b].id # 0 => jsGraphAnnotate'[chart[b].id] = jsGraphAnnotate[chart[b].id]
  <2>1. chart[b].id \in 0 .. MaxMs
    BY <1>1 DEF Chart, ChartIn
  <2>2. chart[b].id # 0 => chart[b].id # x.id
    BY <1>2 DEF DistinctIds
  <2>3. QED
    BY <2>1, <2>2, EngineAssumption
<1>5. CASE Fresh(b) /\ chart[b].shown = Blank /\ Registered(b) = {}
  <2>1. (Fresh(b) /\ chart[b].shown = Blank /\ Registered(b) = {})'
    BY <1>2, <1>3, <1>5 DEF Fresh
  <2>2. QED
    BY <2>1 DEF OneContent
<1>6. ASSUME NEW d \in Data, Carries(b, d) PROVE Carries(b, d)'
  BY <1>2, <1>3, <1>4, <1>6 DEF Carries, Owner
<1>7. QED
  BY <1>5, <1>6 DEF OneContent

(* A step that changes one chart keeps the invariant if that chart has one   *)
(* content afterwards, provided that ids are distinct.                       *)
LEMMA OneChartData ==
  ASSUME EngineIInv, DataIInv, NEW c \in Ctx, NEW x, chart' = [chart EXCEPT ![c] = x],
         x.id # 0, chart[c].id \in {0, x.id},
         DistinctIds =>
           \A i \in DOMAIN jsGraphResize' :
             jsGraphResize'[i].ctx # c => i \in DOMAIN jsGraphResize /\ jsGraphResize'[i] = jsGraphResize[i],
         \A j \in 1 .. MaxMs : j # x.id => jsGraphAnnotate'[j] = jsGraphAnnotate[j],
         DistinctIds /\ OneContent(c) => OneContent(c)'
  PROVE  DataIInv'
<1> SUFFICES ASSUME DistinctIds', NEW b \in Ctx PROVE OneContent(b)'
  BY DEF DataIInv
<1>1. DistinctIds
  BY IdsWereDistinct
<1>2. OneContent(b) /\ OneContent(c)
  BY <1>1 DEF DataIInv
<1>3. CASE b = c
  BY <1>1, <1>2, <1>3
<1>4. CASE b # c
  BY <1>1, <1>2, <1>4, OthersKeepContent
<1>5. QED
  BY <1>3, <1>4

(* Emptying what the mouse finds in one chart leaves the others' alone. *)
LEMMA ClearOne ==
  ASSUME EngineIInv, NEW cv, NEW redrawn, cv.id \in 1 .. MaxMs,
         jsGraphAnnotate' = clearAnnotate(jsGraphAnnotate, cv, redrawn)
  PROVE  /\ \A j \in 1 .. MaxMs : j # cv.id => jsGraphAnnotate'[j] = jsGraphAnnotate[j]
         /\ redrawn => jsGraphAnnotate'[cv.id] = <<>>
         /\ ~redrawn => jsGraphAnnotate' = jsGraphAnnotate
  BY DEF EngineIInv, EngineTypeOK, clearAnnotate

(* A chart that was redrawn with d and is registered with d. *)
LEMMA RedrawnCarries ==
  ASSUME NEW c \in Ctx, NEW d \in Data, d.for = Owner(c),
         chart'[c].id # 0, chart'[c].firstPass # Undefined,
         chart'[c].shown = Blank, chart'[c].full = FALSE,
         \A i \in DOMAIN chart'[c].loops : chart'[c].loops[i].data = d,
         \A i \in DOMAIN jsGraphResize' : jsGraphResize'[i].ctx = c => jsGraphResize'[i].data = d,
         jsGraphAnnotate'[chart'[c].id] = <<>>
  PROVE  OneContent(c)'
<1>1. DOMAIN jsGraphAnnotate'[chart'[c].id] = {}
  OBVIOUS
<1>2. Carries(c, d)'
  BY <1>1 DEF Carries, Registered, Owner
<1>3. QED
  BY <1>2 DEF OneContent

LEMMA SameData ==
  ASSUME DataIInv, UNCHANGED <<chart, jsGraphResize, jsGraphAnnotate>>
  PROVE  DataIInv'
<1>1. DistinctIds' => DistinctIds
  BY DEF DistinctIds
<1>2. ASSUME NEW c \in Ctx PROVE OneContent(c) <=> OneContent(c)'
  <2>1. \A d \in Data : Carries(c, d) <=> Carries(c, d)'
    BY DEF Carries, Registered, Owner
  <2>2. Fresh(c) <=> Fresh(c)'
    BY DEF Fresh
  <2>3. (chart[c].shown = Blank /\ Registered(c) = {}) <=> (chart[c].shown = Blank /\ Registered(c) = {})'
    BY DEF Registered
  <2>4. QED
    BY <2>1, <2>2, <2>3 DEF OneContent
<1>3. QED
  BY <1>1, <1>2 DEF DataIInv

(* Drawing a chart that is new, or that waited with the same data. *)
LEMMA InitAndStartData ==
  ASSUME EngineIInv, DataIInv, NEW c \in Ctx, NEW d \in Data, NEW seen \in BOOLEAN,
         DistinctIds => d.for = Owner(c), chart[c].firstPass = Undefined,
         chart[c].dynamic = NoEntry \/ chart[c].dynamic.data = d,
         Becomes(init_and_start(Engine, c, d, seen))
  PROVE  DataIInv'
<1> DEFINE newId == IF chart[c].id = 0 THEN ms ELSE chart[c].id
           named == [chart[c] EXCEPT !.id = newId]
           cv == dynamicFunction(named, d, seen)
           registered == [cv EXCEPT !.prevWidth = resizeGraph(width)]
           ready == dynamicReady(chart[c], seen)
           drawn == IF ready THEN subUpdate(registered, d, width) ELSE registered
           entry == [ctx |-> c, data |-> d]
<1>1. /\ chart' = [chart EXCEPT ![c] = drawn]
      /\ jsGraphResize' = Append(jsGraphResize, entry)
      /\ jsGraphAnnotate' = clearAnnotate(jsGraphAnnotate, cv, ready)
  BY DEF Becomes, init_and_start, Engine
<1>2. chart[c] \in Chart /\ GoodChart(chart[c]) /\ width \in Width /\ chart \in [Ctx -> Chart]
  BY DEF EngineIInv, EngineTypeOK
<1>3. newId \in 1 .. MaxMs /\ chart[c].id \in {0, newId}
  BY <1>2 DEF EngineIInv, EngineTypeOK, Chart, ChartIn
<1>4. /\ named \in Chart /\ named.id = newId /\ named.firstPass = Undefined
      /\ named.loops = chart[c].loops /\ named.shown = chart[c].shown
      /\ named.dynamic = chart[c].dynamic
  <2> DEFINE S == {Undefined} \cup 1 .. 5
  <2>1. Chart = ChartIn(S) /\ newId \in 0 .. MaxMs
    BY <1>3 DEF Chart
  <2> HIDE DEF S, newId
  <2>2. QED
    BY <1>2, <2>1, SetId
<1> HIDE DEF newId, named
<1>5. named \in Passing
  BY <1>4, ChartIsPassing
<1>6. /\ cv \in Passing /\ cv.id = newId /\ cv.firstPass = Undefined
      /\ cv.loops = chart[c].loops /\ cv.shown = chart[c].shown
      /\ dynamicDisplay => cv.dynamic # NoEntry /\ cv.dynamic.data = d
  BY <1>4, <1>5, DynamicData
<1> HIDE DEF cv
<1>7. /\ registered \in Passing /\ registered.id = newId /\ registered.firstPass = Undefined
      /\ registered.loops = cv.loops /\ registered.shown = cv.shown
      /\ registered.dynamic = cv.dynamic
  <2>1. resizeGraph(width) \in Nat
    BY <1>2, SizeIsNat
  <2>2. QED
    BY <1>6, <2>1, SetWidth DEF Passing
<1> HIDE DEF registered
<1>8. Len(registered.loops) = IF registered.firstPass \in 1 .. 4 THEN 1 ELSE 0
  <2>1. Len(chart[c].loops) = 0
    BY <1>2 DEF GoodChart, Undefined
  <2>2. QED
    BY <1>6, <1>7, <2>1 DEF Undefined
<1>9. redraws(registered, width)
  BY <1>7 DEF redraws
<1>10. ready => /\ drawn.id = newId /\ drawn.firstPass # Undefined
                /\ drawn.shown = Blank /\ drawn.full = FALSE
                /\ \A i \in DOMAIN drawn.loops : drawn.loops[i].data = d
  BY <1>2, <1>7, <1>8, <1>9, SubUpdateData
<1>11. ~ready => drawn = registered
  OBVIOUS
<1> HIDE DEF drawn
<1>12. drawn.id = newId /\ chart'[c] = drawn
  BY <1>1, <1>2, <1>7, <1>10, <1>11
<1>13. \A i \in DOMAIN jsGraphResize' :
         \/ i \in DOMAIN jsGraphResize /\ jsGraphResize'[i] = jsGraphResize[i]
         \/ jsGraphResize'[i] = entry
  <2> DEFINE E == [ctx : Ctx, data : Data]
  <2>1. jsGraphResize \in Seq(E) /\ entry \in E
    BY DEF EngineIInv, EngineTypeOK
  <2> HIDE DEF E, entry
  <2>2. QED
    BY <1>1, <2>1
<1>14. entry.ctx = c /\ entry.data = d
  OBVIOUS
<1> HIDE DEF entry
<1>15. /\ \A j \in 1 .. MaxMs : j # newId => jsGraphAnnotate'[j] = jsGraphAnnotate[j]
       /\ ready => jsGraphAnnotate'[newId] = <<>>
  BY <1>1, <1>3, <1>6, ClearOne
<1>16. newId # 0
  BY <1>3
<1> HIDE DEF ready
<1>17. ASSUME DistinctIds, OneContent(c) PROVE OneContent(c)'
  <2> d.for = Owner(c)
    BY <1>17
  <2>1. \A i \in DOMAIN jsGraphResize :
          jsGraphResize[i].ctx = c => jsGraphResize[i].data = d
    BY <1>17 DEF OneContent, Carries, Registered
  <2>2. \A i \in DOMAIN jsGraphResize' :
          jsGraphResize'[i].ctx = c => jsGraphResize'[i].data = d
    BY <1>13, <1>14, <2>1
  <2>3. CASE ready
    <3>1. /\ chart'[c].id # 0 /\ chart'[c].firstPass # Undefined
          /\ chart'[c].shown = Blank /\ chart'[c].full = FALSE
          /\ \A i \in DOMAIN chart'[c].loops : chart'[c].loops[i].data = d
          /\ jsGraphAnnotate'[chart'[c].id] = <<>>
      BY <1>10, <1>12, <1>15, <1>16, <2>3
    <3>2. QED
      BY <2>2, <3>1, RedrawnCarries
  <2>4. CASE ~ready
    <3>1. dynamicDisplay
      BY <2>4 DEF ready, dynamicReady
    <3>2. chart[c].shown = Blank /\ chart[c].loops = <<>>
      <4>1. chart[c].shown = Blank
        BY <1>17 DEF OneContent, Carries
      <4>2. chart[c].loops = <<>>
        BY <1>2, EmptySeq DEF GoodChart, Undefined, Chart, ChartIn
      <4>3. QED
        BY <4>1, <4>2
    <3>3. /\ drawn.firstPass = Undefined /\ drawn.shown = Blank /\ drawn.loops = <<>>
          /\ drawn.dynamic # NoEntry /\ drawn.dynamic.data = d
      BY <1>6, <1>7, <1>11, <2>4, <3>1, <3>2
    <3>4. Carries(c, d)'
      BY <1>3, <1>12, <2>2, <3>3 DEF Carries, Registered, Owner
    <3>5. QED
      BY <3>4 DEF OneContent
  <2>5. QED
    BY <2>3, <2>4
<1>18. /\ drawn.id # 0 /\ chart[c].id \in {0, drawn.id}
       /\ \A i \in DOMAIN jsGraphResize' :
            jsGraphResize'[i].ctx # c => i \in DOMAIN jsGraphResize /\ jsGraphResize'[i] = jsGraphResize[i]
       /\ \A j \in 1 .. MaxMs : j # drawn.id => jsGraphAnnotate'[j] = jsGraphAnnotate[j]
  BY <1>3, <1>12, <1>13, <1>14, <1>15, <1>16
<1>19. QED
  BY <1>1, <1>17, <1>18, OneChartData

(* New data for a chart at rest: they replace the old ones everywhere. *)
LEMMA UpdateChartData ==
  ASSUME EngineIInv, DataIInv, NEW c \in Ctx, NEW d \in Data, NEW seen \in BOOLEAN,
         NEW animation \in BOOLEAN, d.for = Owner(c),
         Becomes(updateChart(Engine, c, d, animation, seen))
  PROVE  DataIInv'
<1>1. CASE chart[c].firstPass # 5
  <2>1. UNCHANGED <<chart, jsGraphResize, jsGraphAnnotate>>
    BY <1>1 DEF Becomes, updateChart, Engine
  <2>2. QED
    BY <2>1, SameData
<1>2. CASE chart[c].firstPass = 5
  <2> DEFINE fp == IF animation THEN 0 ELSE 7
             cv == [chart[c] EXCEPT !.firstPass = fp]
             x == dynamicFunction(cv, d, seen)
             ready == dynamicReady(cv, seen)
             after == subUpdateChart(cv, d, width, seen)
             same(k) == chart[jsGraphResize[k].ctx].id = cv.id
  <2>1. /\ chart' = [chart EXCEPT ![c] = after]
        /\ jsGraphResize' = [k \in DOMAIN jsGraphResize |->
                               IF same(k) THEN [jsGraphResize[k] EXCEPT !.data = d] ELSE jsGraphResize[k]]
        /\ jsGraphAnnotate' = clearAnnotate(jsGraphAnnotate, cv, ready)
    BY <1>2 DEF Becomes, updateChart, Engine
  <2>2. chart[c] \in Chart /\ GoodChart(chart[c]) /\ width \in Width /\ chart \in [Ctx -> Chart]
    BY DEF EngineIInv, EngineTypeOK
  <2>3. fp \in {0, 7}
    OBVIOUS
  <2> HIDE DEF fp
  <2>4. /\ cv \in Passing /\ cv.firstPass = fp /\ cv.loops = chart[c].loops
        /\ cv.dynamic = chart[c].dynamic /\ cv.id = chart[c].id
    <3> DEFINE S == {Undefined} \cup 1 .. 5
               T == {Undefined} \cup 0 .. 7
    <3>1. chart[c] \in ChartIn(S) /\ Passing = ChartIn(T)
      BY <2>2 DEF Chart, Passing
    <3>2. fp \in T
      BY <2>3
    <3> HIDE DEF S, T
    <3>3. QED
      BY <3>1, <3>2, SetPass
  <2> HIDE DEF cv
  <2>5. Len(cv.loops) = 0 /\ ready
    BY <1>2, <2>2, <2>4 DEF GoodChart, Undefined, dynamicReady
  <2>6. after = subUpdate(x, d, width)
    BY <2>5 DEF subUpdateChart
  <2>7. x \in Passing /\ x.id = cv.id /\ x.loops = cv.loops /\ x.firstPass = fp
    BY <2>4, DynamicData
  <2> HIDE DEF x, after, ready
  <2>8. redraws(x, width) /\ (Len(x.loops) = IF x.firstPass \in 1 .. 4 THEN 1 ELSE 0)
    BY <2>3, <2>5, <2>7 DEF redraws
  <2>9. /\ after.id = chart[c].id /\ after.firstPass # Undefined
        /\ after.shown = Blank /\ after.full = FALSE
        /\ \A i \in DOMAIN after.loops : after.loops[i].data = d
    <3>1. x \in Passing /\ width \in Width /\ redraws(x, width)
      BY <2>2, <2>7, <2>8
    <3>2. x.id = chart[c].id
      BY <2>4, <2>7
    <3>3. LET r == subUpdate(x, d, width)
          IN  /\ r.id = x.id /\ r.firstPass # Undefined /\ r.shown = Blank /\ r.full = FALSE
              /\ \A i \in DOMAIN r.loops : r.loops[i].data = d
      BY <2>8, <3>1, SubUpdateData
    <3>4. QED
      BY <2>6, <3>2, <3>3
  <2>10. chart'[c] = after
    BY <2>1, <2>2
  <2>11. ASSUME DistinctIds PROVE chart[c].id \in 1 .. MaxMs
    <3>1. OneContent(c)
      BY <2>11 DEF DataIInv
    <3>2. ~Fresh(c)
      BY <1>2 DEF Fresh, Undefined
    <3>3. chart[c].id # 0
      BY <3>1, <3>2 DEF OneContent, Carries
    <3>4. QED
      BY <2>2, <3>3 DEF Chart, ChartIn
  <2>12. \A i \in DOMAIN jsGraphResize' :
           /\ i \in DOMAIN jsGraphResize /\ jsGraphResize[i].ctx \in Ctx
           /\ jsGraphResize'[i].ctx = jsGraphResize[i].ctx
           /\ same(i) => jsGraphResize'[i].data = d
           /\ ~same(i) => jsGraphResize'[i] = jsGraphResize[i]
    <3> HIDE DEF same
    <3> DEFINE E == [ctx : Ctx, data : Data]
    <3>1. jsGraphResize \in Seq(E)
      BY DEF EngineIInv, EngineTypeOK
    <3>2. \A e \in E : LET r == [e EXCEPT !.data = d] IN e.ctx \in Ctx /\ r.ctx = e.ctx /\ r.data = d
      OBVIOUS
    <3> HIDE DEF E
    <3>3. \A i \in DOMAIN jsGraphResize : jsGraphResize[i] \in E
      BY <3>1
    <3>4. QED
      BY <2>1, <3>2, <3>3
  <2>13. ASSUME DistinctIds
         PROVE  /\ \A i \in DOMAIN jsGraphResize' : jsGraphResize'[i].ctx = c => jsGraphResize'[i].data = d
                /\ \A i \in DOMAIN jsGraphResize' :
                     jsGraphResize'[i].ctx # c =>
                       i \in DOMAIN jsGraphResize /\ jsGraphResize'[i] = jsGraphResize[i]
    <3>1. chart[c].id # 0
      BY <2>11, <2>13
    <3>2. \A i \in DOMAIN jsGraphResize' : same(i) <=> jsGraphResize[i].ctx = c
      BY <2>4, <2>12, <2>13, <3>1 DEF DistinctIds
    <3> HIDE DEF same
    <3>3. QED
      BY <2>12, <3>2
  <2>14. ASSUME DistinctIds
         PROVE  /\ \A j \in 1 .. MaxMs : j # after.id => jsGraphAnnotate'[j] = jsGraphAnnotate[j]
                /\ jsGraphAnnotate'[after.id] = <<>>
    <3>1. cv.id \in 1 .. MaxMs /\ after.id = cv.id
      BY <2>4, <2>9, <2>11, <2>14
    <3>2. jsGraphAnnotate' = clearAnnotate(jsGraphAnnotate, cv, ready)
      BY <2>1
    <3>3. QED
      BY <2>5, <3>1, <3>2, ClearOne
  <2>15. ASSUME DistinctIds PROVE OneContent(c)'
    <3>1. chart[c].id # 0
      BY <2>11, <2>15
    <3>2. QED
      BY <2>9, <2>10, <2>13, <2>14, <2>15, <3>1, RedrawnCarries
  <2>16. CASE DistinctIds
    <3>1. after.id # 0 /\ chart[c].id \in {0, after.id}
      BY <2>9, <2>11, <2>16
    <3>2. /\ \A i \in DOMAIN jsGraphResize' :
               jsGraphResize'[i].ctx # c =>
                 i \in DOMAIN jsGraphResize /\ jsGraphResize'[i] = jsGraphResize[i]
          /\ \A j \in 1 .. MaxMs : j # after.id => jsGraphAnnotate'[j] = jsGraphAnnotate[j]
          /\ OneContent(c)'
      BY <2>13, <2>14, <2>15, <2>16
    <3>3. chart' = [chart EXCEPT ![c] = after]
      BY <2>1
    <3>4. QED
      BY <3>1, <3>2, <3>3, OneChartData
  <2>17. CASE ~DistinctIds
    <3>1. \A a \in Ctx : chart'[a].id = chart[a].id
      BY <2>1, <2>2, <2>9
    <3>2. ~DistinctIds'
      BY <2>17, <3>1 DEF DistinctIds
    <3>3. QED
      BY <3>2 DEF DataIInv
  <2>18. QED
    BY <2>16, <2>17
<1>3. QED
  BY <1>1, <1>2

-----------------------------------------------------------------------------
(* Frames and resizes.                                                       *)

(* A complete frame adds what it shows to what the mouse finds. *)
LEMMA AnnotateData ==
  ASSUME EngineIInv, NEW c \in Ctx, NEW lp \in Loop, NEW iter \in Int,
         chart[c].id \in 1 .. MaxMs, annotateFrame(c, lp, iter),
         \A i \in DOMAIN jsGraphAnnotate[chart[c].id] :
           jsGraphAnnotate[chart[c].id][i] = [ctx |-> c, data |-> lp.data]
  PROVE  /\ \A j \in 1 .. MaxMs : j # chart[c].id => jsGraphAnnotate'[j] = jsGraphAnnotate[j]
         /\ \A i \in DOMAIN jsGraphAnnotate'[chart[c].id] :
              jsGraphAnnotate'[chart[c].id][i] = [ctx |-> c, data |-> lp.data]
         /\ AnnotateDisplay /\ Complete(chart[c], lp, iter) => jsGraphAnnotate'[chart[c].id] # <<>>
<1> DEFINE e == [ctx |-> c, data |-> lp.data]
           E == [ctx : Ctx, data : Data]
           id == chart[c].id
           shows == AnnotateDisplay /\ Complete(chart[c], lp, iter)
<1>1. e \in E
  BY DEF Loop
<1>2. jsGraphAnnotate \in [1 .. MaxMs -> Seq(E)]
  BY DEF EngineIInv, EngineTypeOK
<1>3. \A i \in DOMAIN jsGraphAnnotate[id] : jsGraphAnnotate[id][i] = e
  OBVIOUS
<1>4. jsGraphAnnotate' = IF ~shows THEN jsGraphAnnotate
                         ELSE [jsGraphAnnotate EXCEPT ![id] = Append(@, e)]
  BY DEF annotateFrame
<1>5. id \in 1 .. MaxMs
  OBVIOUS
<1> HIDE DEF e, E, id, shows
<1>6. CASE ~shows
  BY <1>3, <1>4, <1>6 DEF e, id, shows
<1>7. CASE shows
  <2>1. jsGraphAnnotate'[id] = Append(jsGraphAnnotate[id], e)
    BY <1>2, <1>4, <1>5, <1>7
  <2>2. \A j \in 1 .. MaxMs : j # id => jsGraphAnnotate'[j] = jsGraphAnnotate[j]
    BY <1>2, <1>4, <1>7
  <2>3. /\ jsGraphAnnotate'[id] # <<>>
        /\ \A i \in DOMAIN jsGraphAnnotate'[id] : jsGraphAnnotate'[id][i] = e
    <3> DEFINE s == jsGraphAnnotate[id]
    <3>1. s \in Seq(E)
      BY <1>2, <1>5
    <3> HIDE DEF s
    <3>2. /\ Append(s, e) # <<>>
          /\ \A i \in DOMAIN Append(s, e) : (i \in DOMAIN s /\ Append(s, e)[i] = s[i]) \/ Append(s, e)[i] = e
      BY <1>1, <3>1
    <3>3. QED
      BY <1>3, <2>1, <3>2 DEF s
  <2>4. QED
    BY <2>2, <2>3 DEF e, id
<1>8. QED
  BY <1>6, <1>7

(* The chart of a frame has an id and one content, that of its loop. *)
LEMMA FrameContent ==
  ASSUME EngineIInv, DataIInv, NEW c \in Ctx, NEW i \in DOMAIN chart[c].loops, DistinctIds
  PROVE  Carries(c, chart[c].loops[i].data) /\ chart[c].id \in 1 .. MaxMs
<1>1. chart[c] \in Chart /\ chart[c].firstPass \in 1 .. 4
  BY OnlyLoop
<1>2. OneContent(c) /\ ~Fresh(c)
  BY <1>1 DEF DataIInv, Fresh, Undefined
<1>3. PICK d \in Data : Carries(c, d)
  BY <1>2 DEF OneContent
<1>4. chart[c].loops[i].data = d /\ chart[c].id # 0
  BY <1>3 DEF Carries
<1>5. chart[c].id \in 1 .. MaxMs
  BY <1>1, <1>4 DEF Chart, ChartIn
<1>6. QED
  BY <1>3, <1>4, <1>5

LEMMA AnimateData ==
  ASSUME NEW cv \in Chart, NEW lp \in Loop, NEW iter \in Int
  PROVE  LET r == animateFrame(cv, lp, iter) IN r.id = cv.id /\ r.shown = lp.data
  BY DEF animateFrame, Chart, ChartIn

(* Ids do not change in a step that has no effect on them. *)
LEMMA SameIds ==
  ASSUME EngineIInv, NEW c \in Ctx, NEW x, chart' = [chart EXCEPT ![c] = x], x.id = chart[c].id,
         ~DistinctIds
  PROVE  DataIInv'
<1>1. \A a \in Ctx : chart'[a].id = chart[a].id
  BY DEF EngineIInv, EngineTypeOK
<1>2. ~DistinctIds'
  BY <1>1 DEF DistinctIds
<1>3. QED
  BY <1>2 DEF DataIInv

(* The chart after a frame that shows the data of its loop. *)
LEMMA PaintedData ==
  ASSUME EngineIInv, DataIInv, NEW c \in Ctx, NEW i \in DOMAIN chart[c].loops, NEW iter \in Int,
         annotateFrame(c, chart[c].loops[i], iter), UNCHANGED jsGraphResize,
         NEW r \in Chart, chart' = [chart EXCEPT ![c] = r], r.id = chart[c].id,
         r.shown = chart[c].loops[i].data, r.firstPass # Undefined,
         r.full => Complete(chart[c], chart[c].loops[i], iter),
         \A k \in DOMAIN r.loops : r.loops[k].data = chart[c].loops[i].data
  PROVE  DataIInv'
<1> DEFINE lp == chart[c].loops[i]
<1>1. lp \in Loop /\ chart[c].firstPass # Undefined
  BY OnlyLoop DEF Undefined
<1>2. chart'[c] = r
  BY DEF EngineIInv, EngineTypeOK
<1>3. CASE ~DistinctIds
  BY <1>3, SameIds
<1>4. CASE DistinctIds
  <2> DEFINE id == chart[c].id
  <2>1. Carries(c, lp.data) /\ id \in 1 .. MaxMs
    BY <1>4, FrameContent
  <2>2. \A k \in DOMAIN jsGraphAnnotate[id] : jsGraphAnnotate[id][k] = [ctx |-> c, data |-> lp.data]
    BY <1>1, <2>1 DEF Carries
  <2>3. /\ \A j \in 1 .. MaxMs : j # id => jsGraphAnnotate'[j] = jsGraphAnnotate[j]
        /\ \A k \in DOMAIN jsGraphAnnotate'[id] :
             jsGraphAnnotate'[id][k] = [ctx |-> c, data |-> lp.data]
        /\ AnnotateDisplay /\ Complete(chart[c], lp, iter) => jsGraphAnnotate'[id] # <<>>
    BY <1>1, <2>1, <2>2, AnnotateData
  <2>4. PICK d \in Data : d = lp.data
    BY <1>1 DEF Loop
  <2>5. Carries(c, d)'
    <3>1. \A k \in Registered(c)' : jsGraphResize'[k].data = d
      BY <2>1, <2>4 DEF Carries, Registered
    <3>2. d.for = Owner(c) /\ id # 0
      BY <2>1, <2>4 DEF Carries
    <3>3. chart'[c].full /\ AnnotateDisplay => jsGraphAnnotate'[id] # <<>>
      BY <1>2, <2>3
    <3>4. chart'[c].id = id /\ chart'[c].shown = d /\ chart'[c].firstPass # Undefined
      BY <1>2, <2>4
    <3>5. \A k \in DOMAIN chart'[c].loops : chart'[c].loops[k].data = d
      BY <1>2, <2>4
    <3>6. \A k \in DOMAIN jsGraphAnnotate'[id] : jsGraphAnnotate'[id][k] = [ctx |-> c, data |-> d]
      BY <2>3, <2>4
    <3> HIDE DEF id
    <3>7. QED
      BY <3>1, <3>2, <3>3, <3>4, <3>5, <3>6 DEF Carries, Owner
  <2>6. OneContent(c)'
    BY <2>5 DEF OneContent
  <2>7. r.id # 0 /\ chart[c].id \in {0, r.id}
    BY <2>1
  <2>8. /\ \A k \in DOMAIN jsGraphResize' :
            jsGraphResize'[k].ctx # c => k \in DOMAIN jsGraphResize /\ jsGraphResize'[k] = jsGraphResize[k]
        /\ \A j \in 1 .. MaxMs : j # r.id => jsGraphAnnotate'[j] = jsGraphAnnotate[j]
    BY <2>3
  <2>9. QED
    BY <2>6, <2>7, <2>8, OneChartData
<1>5. QED
  BY <1>3, <1>4

(* A frame after which the loop goes on. *)
LEMMA FrameGoesOnData ==
  ASSUME EngineIInv, DataIInv, NEW c \in Ctx, NEW i \in DOMAIN chart[c].loops, NEW iter \in Int,
         NEW next \in Loop, next.data = chart[c].loops[i].data,
         annotateFrame(c, chart[c].loops[i], iter),
         chart' = [chart EXCEPT
                     ![c] = WithLoop(animateFrame(chart[c], chart[c].loops[i], iter), i, next)],
         UNCHANGED jsGraphResize
  PROVE  DataIInv'
<1> DEFINE lp == chart[c].loops[i]
           x == animateFrame(chart[c], lp, iter)
           r == WithLoop(x, i, next)
           S == {Undefined} \cup 1 .. 5
<1>1. /\ chart[c] \in Chart /\ chart[c].firstPass \in 1 .. 4
      /\ i = 1 /\ Len(chart[c].loops) = 1 /\ chart[c].loops \in Seq(Loop) /\ lp \in Loop
  BY OnlyLoop
<1> HIDE DEF lp
<1>2. /\ x \in Chart /\ x.firstPass = chart[c].firstPass /\ x.loops = chart[c].loops
      /\ x.full = Complete(chart[c], lp, iter) /\ x.id = chart[c].id /\ x.shown = lp.data
  BY <1>1, AnimateFrame, AnimateData
<1> HIDE DEF x
<1> DEFINE l == [x.loops EXCEPT ![i] = next]
<1>3. l \in Seq(Loop) /\ \A k \in DOMAIN l : l[k].data = lp.data
  BY <1>1, <1>2 DEF lp
<1>4. r = [x EXCEPT !.loops = l]
  BY DEF WithLoop
<1> HIDE DEF l, r
<1>5. /\ r \in Chart /\ r.loops = l /\ r.firstPass # Undefined /\ r.id = chart[c].id
      /\ r.full = Complete(chart[c], lp, iter) /\ r.shown = lp.data
  <2>1. Chart = ChartIn(S)
    BY DEF Chart
  <2> HIDE DEF S
  <2>2. /\ r \in Chart /\ r.loops = l /\ r.firstPass = x.firstPass /\ r.id = x.id
        /\ r.full = x.full /\ r.shown = x.shown
    BY <1>2, <1>3, <1>4, <2>1, SetLoops
  <2>3. QED
    BY <1>1, <1>2, <2>2 DEF Undefined
<1>6. chart' = [chart EXCEPT ![c] = r]
  BY DEF r, x, lp
<1>7. \A k \in DOMAIN r.loops : r.loops[k].data = lp.data
  BY <1>3, <1>5
<1>8. annotateFrame(c, lp, iter) /\ (r.full => Complete(chart[c], lp, iter))
  BY <1>5 DEF lp
<1>9. QED
  BY <1>5, <1>6, <1>7, <1>8, PaintedData DEF lp

LEMMA NextFrameData ==
  ASSUME EngineIInv, DataIInv, NEW c \in Ctx, NEW i \in DOMAIN chart[c].loops, NextFrame(c, i)
  PROVE  DataIInv'
<1> DEFINE lp == chart[c].loops[i]
           iter == lp.iter + lp.mult
           atStart == lp.mult = -1 /\ iter <= 0
           next == [lp EXCEPT !.iter = iter, !.mult = IF atStart THEN 1 ELSE @]
<1>1. lp \in Loop
  BY OnlyLoop
<1>2. iter \in Int
  BY <1>1 DEF Loop
<1>3. next \in Loop /\ next.data = lp.data
  <2> DEFINE x == [lp EXCEPT !.iter = iter]
             m == IF atStart THEN 1 ELSE lp.mult
  <2>1. m \in {-1, 1}
    BY <1>1 DEF Loop
  <2>2. x \in Loop /\ x.data = lp.data
    <3> HIDE DEF iter
    <3>1. x \in Loop
      BY <1>1, <1>2, LoopFields
    <3>2. x.data = lp.data
      BY <1>1 DEF Loop
    <3>3. QED
      BY <3>1, <3>2
  <2>3. next = [x EXCEPT !.mult = m]
    OBVIOUS
  <2> HIDE DEF x, m, next
  <2>4. next \in Loop
    BY <2>1, <2>2, <2>3, LoopFields
  <2>5. next.data = x.data
    BY <2>2, <2>3 DEF Loop
  <2>6. QED
    BY <2>2, <2>4, <2>5
<1>4. /\ annotateFrame(c, lp, iter)
      /\ chart' = [chart EXCEPT ![c] = WithLoop(animateFrame(chart[c], lp, iter), i, next)]
      /\ UNCHANGED jsGraphResize
  BY DEF NextFrame
<1> HIDE DEF iter, next
<1>5. QED
  BY <1>2, <1>3, <1>4, FrameGoesOnData

LEMMA RepeatFrameData ==
  ASSUME EngineIInv, DataIInv, NEW c \in Ctx, NEW i \in DOMAIN chart[c].loops, RepeatFrame(c, i)
  PROVE  DataIInv'
<1> DEFINE lp == chart[c].loops[i]
           iter == lp.iter + lp.mult
           back == lp.data.what.animationBackward /\ lp.mult = 1
           next == [lp EXCEPT !.count = @ + 1, !.mult = IF back THEN -1 ELSE 1,
                              !.iter = IF back THEN iter ELSE -1]
<1>1. lp \in Loop
  BY OnlyLoop
<1>2. iter \in Int
  BY <1>1 DEF Loop
<1>3. next \in Loop /\ next.data = lp.data
  <2> HIDE DEF back
  <2> DEFINE k == lp.count + 1
             m == IF back THEN -1 ELSE 1
             n == IF back THEN iter ELSE -1
             x == [lp EXCEPT !.count = k]
             y == [x EXCEPT !.mult = m]
  <2>1. k \in Nat /\ m \in {-1, 1} /\ n \in Int
    BY <1>1, <1>2 DEF Loop
  <2>2. next = [y EXCEPT !.iter = n]
    OBVIOUS
  <2> HIDE DEF k, m, n, next
  <2>3. x \in Loop /\ x.data = lp.data
    <3>1. x \in Loop
      BY <1>1, <2>1, LoopFields
    <3>2. x.data = lp.data
      BY <1>1 DEF Loop
    <3>3. QED
      BY <3>1, <3>2
  <2> HIDE DEF x
  <2>4. y \in Loop /\ y.data = lp.data
    <3>1. y \in Loop
      BY <2>1, <2>3, LoopFields
    <3>2. y.data = x.data
      BY <2>3 DEF Loop
    <3>3. QED
      BY <2>3, <3>1, <3>2
  <2> HIDE DEF y
  <2>5. next \in Loop
    BY <2>1, <2>2, <2>4, LoopFields
  <2>6. next.data = y.data
    BY <2>2, <2>4 DEF Loop
  <2>7. QED
    BY <2>4, <2>5, <2>6
<1>4. /\ annotateFrame(c, lp, iter)
      /\ chart' = [chart EXCEPT ![c] = WithLoop(animateFrame(chart[c], lp, iter), i, next)]
      /\ UNCHANGED jsGraphResize
  BY DEF RepeatFrame
<1> HIDE DEF iter, next
<1>5. QED
  BY <1>2, <1>3, <1>4, FrameGoesOnData

(* The last frame: the chart is drawn again, or stays as it is. *)
LEMMA TestRedrawData ==
  ASSUME NEW cv \in Chart, NEW d \in Data, NEW w \in Width, cv.loops = <<>>
  PROVE  LET r == testRedraw(cv, d, w)
             again == cv.firstPass \in {2, 4} /\ resizeGraph(w) # cv.prevWidth
         IN  /\ r.id = cv.id /\ r.firstPass # Undefined
             /\ again => /\ r.shown = Blank /\ r.full = FALSE
                         /\ \A i \in DOMAIN r.loops : r.loops[i].data = d
             /\ ~again => r.shown = cv.shown /\ r.loops = <<>>
<1> DEFINE S == {Undefined} \cup 1 .. 5
           T == {Undefined} \cup 0 .. 7
<1>1. cv \in ChartIn(S) /\ Chart = ChartIn(S) /\ Passing = ChartIn(T) /\ 6 \in T /\ 5 \in S
  <2>1. Chart = ChartIn(S) /\ Passing = ChartIn(T)
    BY DEF Chart, Passing
  <2>2. 6 \in T /\ 5 \in S
    OBVIOUS
  <2> HIDE DEF S, T
  <2>3. QED
    BY <2>1, <2>2
<1> HIDE DEF S, T
<1>2. CASE cv.firstPass \in {2, 4}
  <2> DEFINE x == [cv EXCEPT !.firstPass = 6]
  <2>1. /\ x \in Passing /\ x.firstPass = 6 /\ x.loops = <<>> /\ x.id = cv.id
        /\ x.shown = cv.shown /\ x.prevWidth = cv.prevWidth
    BY <1>1, SetPass
  <2>2. testRedraw(cv, d, w) = subUpdate(x, d, w)
    BY <1>2 DEF testRedraw
  <2> HIDE DEF x
  <2>3. redraws(x, w) <=> resizeGraph(w) # cv.prevWidth
    BY <2>1 DEF redraws, Undefined
  <2>4. Len(x.loops) = IF x.firstPass \in 1 .. 4 THEN 1 ELSE 0
    BY <2>1
  <2>5. LET r == subUpdate(x, d, w)
        IN  /\ r.id = x.id /\ r.firstPass # Undefined
            /\ redraws(x, w) => /\ r.shown = Blank /\ r.full = FALSE
                                /\ \A i \in DOMAIN r.loops : r.loops[i].data = d
            /\ ~redraws(x, w) => r.shown = x.shown /\ r.loops = x.loops
    BY <2>1, <2>4, SubUpdateData
  <2>6. QED
    BY <1>2, <2>1, <2>2, <2>3, <2>5
<1>3. CASE cv.firstPass \notin {2, 4}
  <2> DEFINE x == [cv EXCEPT !.firstPass = 5]
  <2>1. x.firstPass = 5 /\ x.loops = <<>> /\ x.id = cv.id /\ x.shown = cv.shown
    BY <1>1, SetPass
  <2>2. testRedraw(cv, d, w) = x
    BY <1>3 DEF testRedraw
  <2> HIDE DEF x
  <2>3. QED
    BY <1>3, <2>1, <2>2 DEF Undefined
<1>4. QED
  BY <1>2, <1>3

(* A chart that is redrawn with data it is registered with. *)
LEMMA RedrawnData ==
  ASSUME EngineIInv, DataIInv, DistinctIds, NEW c \in Ctx, NEW d \in Data, Carries(c, d),
         NEW r \in Chart, chart' = [chart EXCEPT ![c] = r], r.id = chart[c].id,
         r.firstPass # Undefined, r.shown = Blank, r.full = FALSE,
         \A i \in DOMAIN r.loops : r.loops[i].data = d,
         UNCHANGED jsGraphResize,
         NEW cv, cv.id = chart[c].id, jsGraphAnnotate' = clearAnnotate(jsGraphAnnotate, cv, TRUE)
  PROVE  DataIInv'
<1>1. chart'[c] = r /\ chart[c] \in Chart
  BY DEF EngineIInv, EngineTypeOK
<1>2. chart[c].id # 0 /\ d.for = Owner(c)
  BY DEF Carries
<1>3. chart[c].id \in 1 .. MaxMs
  BY <1>1, <1>2 DEF Chart, ChartIn
<1>4. /\ \A j \in 1 .. MaxMs : j # r.id => jsGraphAnnotate'[j] = jsGraphAnnotate[j]
      /\ jsGraphAnnotate'[r.id] = <<>>
  BY <1>3, ClearOne
<1>5. \A i \in DOMAIN jsGraphResize' : jsGraphResize'[i].ctx = c => jsGraphResize'[i].data = d
  BY DEF Carries, Registered
<1>6. OneContent(c)'
  <2>1. /\ chart'[c].id # 0 /\ chart'[c].firstPass # Undefined
        /\ chart'[c].shown = Blank /\ chart'[c].full = FALSE
        /\ \A i \in DOMAIN chart'[c].loops : chart'[c].loops[i].data = d
        /\ jsGraphAnnotate'[chart'[c].id] = <<>>
    BY <1>1, <1>2, <1>4
  <2>2. QED
    BY <1>2, <1>5, <2>1, RedrawnCarries
<1>7. /\ r.id # 0 /\ chart[c].id \in {0, r.id}
      /\ \A i \in DOMAIN jsGraphResize' :
           jsGraphResize'[i].ctx # c => i \in DOMAIN jsGraphResize /\ jsGraphResize'[i] = jsGraphResize[i]
  BY <1>2
<1>8. QED
  BY <1>4, <1>6, <1>7, OneChartData

LEMMA LastFrameData ==
  ASSUME EngineIInv, DataIInv, NEW c \in Ctx, NEW i \in DOMAIN chart[c].loops, LastFrame(c, i)
  PROVE  DataIInv'
<1> DEFINE lp == chart[c].loops[i]
           iter == lp.iter + lp.mult
           x == animateFrame(chart[c], lp, iter)
           l == SubSeq(x.loops, 1, i - 1) \o SubSeq(x.loops, i + 1, Len(x.loops))
           painted == [x EXCEPT !.loops = l]
           after == testRedraw(painted, lp.data, width)
           again == chart[c].firstPass \in {2, 4} /\ resizeGraph(width) # painted.prevWidth
           S == {Undefined} \cup 1 .. 5
<1>1. /\ chart[c] \in Chart /\ GoodChart(chart[c]) /\ chart[c].firstPass \in 1 .. 4
      /\ i = 1 /\ Len(chart[c].loops) = 1 /\ chart[c].loops \in Seq(Loop) /\ lp \in Loop
  BY OnlyLoop
<1>2. iter \in Int /\ lp.data \in Data
  BY <1>1 DEF Loop
<1>3. /\ chart' = [chart EXCEPT ![c] = after]
      /\ again => jsGraphAnnotate' = clearAnnotate(jsGraphAnnotate, painted, TRUE)
      /\ ~again => annotateFrame(c, lp, iter)
      /\ UNCHANGED <<jsGraphResize, dynamicDisplay>>
      /\ AtEnd(chart[c], lp, iter)
  BY DEF LastFrame, WithoutLoop
<1> HIDE DEF lp, iter
<1>4. Complete(chart[c], lp, iter)
  <2>1. iter = AnimationSteps => iter >= AnimationSteps
    BY <1>2
  <2>2. QED
    BY <1>3, <2>1, Zenon DEF AtEnd, Complete
<1>5. /\ x \in Chart /\ x.firstPass = chart[c].firstPass /\ x.loops = chart[c].loops
      /\ x.dynamic = chart[c].dynamic /\ x.id = chart[c].id /\ x.shown = lp.data
  BY <1>1, <1>2, AnimateFrame, AnimateData
<1> HIDE DEF x
<1>6. l = <<>>
  <2>1. x.loops \in Seq(Loop) /\ Len(x.loops) = 1
    BY <1>1, <1>5
  <2>2. SubSeq(x.loops, 1, 0) = <<>> /\ SubSeq(x.loops, 2, 1) = <<>>
    BY <2>1
  <2>3. QED
    BY <1>1, <2>1, <2>2
<1> HIDE DEF l
<1>7. /\ painted \in Chart /\ painted.firstPass = chart[c].firstPass /\ painted.loops = <<>>
      /\ painted.id = chart[c].id /\ painted.shown = lp.data
  <2>1. Chart = ChartIn(S) /\ l \in Seq(Loop)
    BY <1>6, EmptySeq DEF Chart
  <2> HIDE DEF S
  <2>2. /\ painted \in Chart /\ painted.firstPass = x.firstPass /\ painted.loops = l
        /\ painted.id = x.id /\ painted.shown = x.shown
    <3>1. x \in ChartIn(S)
      BY <1>5, <2>1
    <3>2. QED
      BY <2>1, <3>1, SetLoops
  <2> HIDE DEF painted
  <2>3. QED
    BY <1>5, <1>6, <2>2
<1>8. again <=> painted.firstPass \in {2, 4} /\ resizeGraph(width) # painted.prevWidth
  BY <1>7
<1> HIDE DEF painted, again
<1>9. width \in Width
  BY DEF EngineIInv, EngineTypeOK
<1>10. /\ after.id = chart[c].id /\ after.firstPass # Undefined
       /\ again => /\ after.shown = Blank /\ after.full = FALSE
                   /\ \A k \in DOMAIN after.loops : after.loops[k].data = lp.data
       /\ ~again => after.shown = lp.data /\ after.loops = <<>>
  BY <1>2, <1>7, <1>8, <1>9, TestRedrawData
<1>11. after \in Chart
  <2>1. EngineKept'
    BY LastFrameStep
  <2>2. chart'[c] = after /\ chart'[c] \in Chart
    <3> HIDE DEF after
    <3>1. chart \in [Ctx -> Chart] /\ chart' \in [Ctx -> Chart]
      BY <2>1 DEF EngineIInv, EngineTypeOK, EngineKept
    <3>2. QED
      BY <1>3, <3>1
  <2>3. QED
    BY <2>2
<1> HIDE DEF after
<1>12. CASE ~again
  <2>1. \A k \in DOMAIN after.loops : after.loops[k].data = lp.data
    BY <1>10, <1>12
  <2>2. annotateFrame(c, lp, iter) /\ after.shown = lp.data
    BY <1>3, <1>10, <1>12
  <2>3. QED
    BY <1>2, <1>3, <1>4, <1>10, <1>11, <2>1, <2>2, PaintedData DEF lp
<1>13. CASE again /\ ~DistinctIds
  BY <1>3, <1>10, <1>13, SameIds
<1>14. CASE again /\ DistinctIds
  <2>1. Carries(c, lp.data)
    BY <1>14, FrameContent DEF lp
  <2>2. PICK d \in Data : d = lp.data
    BY <1>2
  <2>3. Carries(c, d)
    BY <2>1, <2>2
  <2>4. \A k \in DOMAIN after.loops : after.loops[k].data = d
    BY <1>10, <1>14, <2>2
  <2>5. QED
    BY <1>3, <1>7, <1>10, <1>11, <1>14, <2>3, <2>4, RedrawnData
<1>15. QED
  BY <1>12, <1>13, <1>14

(* The resize handler redraws a chart with the data it is registered with. *)
LEMMA ResizeData ==
  ASSUME EngineIInv, DataIInv, chartJsResize, at \in DOMAIN jsGraphResize
  PROVE  DataIInv'
<1> DEFINE entry == jsGraphResize[at]
           c == entry.ctx
           fp == IF chart[c].firstPass = 5 THEN 6 ELSE chart[c].firstPass
           cv == [chart[c] EXCEPT !.firstPass = fp]
           seen == c \in visible
           x == dynamicFunction(cv, entry.data, seen)
           ready == dynamicReady(cv, seen)
           after == subUpdateChart(cv, entry.data, width, seen)
           redrawn == ready /\ redraws(cv, width)
<1>1. c \in Ctx /\ entry.data \in Data
  <2> DEFINE E == [ctx : Ctx, data : Data]
  <2>1. jsGraphResize \in Seq(E)
    BY DEF EngineIInv, EngineTypeOK
  <2> HIDE DEF E
  <2>2. entry \in E
    BY <2>1
  <2> HIDE DEF entry
  <2>3. QED
    BY <2>2 DEF E
<1>2. /\ chart' = [chart EXCEPT ![c] = after]
      /\ jsGraphAnnotate' = clearAnnotate(jsGraphAnnotate, cv, redrawn)
      /\ UNCHANGED <<jsGraphResize, dynamicDisplay>>
  BY DEF chartJsResize
<1>3. /\ chart[c] \in Chart /\ GoodChart(chart[c]) /\ width \in Width /\ seen \in BOOLEAN
      /\ chart \in [Ctx -> Chart]
  BY <1>1 DEF EngineIInv, EngineTypeOK
<1>4. /\ fp \in {Undefined} \cup 0 .. 7
      /\ fp = Undefined <=> chart[c].firstPass = Undefined
      /\ fp \in 1 .. 4 <=> chart[c].firstPass \in 1 .. 4
      /\ fp \notin {0, 5, 7}
  BY <1>3 DEF Chart, ChartIn, Undefined
<1>5. at \in Registered(c)
  BY DEF Registered
<1>6. after \in Chart
  <2>1. EngineKept'
    BY ResizeStep
  <2> HIDE DEF after, c
  <2>2. chart' \in [Ctx -> Chart]
    BY <2>1 DEF EngineKept
  <2>3. QED
    BY <1>1, <1>2, <1>3, <2>2
<1> HIDE DEF entry, fp, seen
<1>7. /\ cv \in Passing /\ cv.firstPass = fp /\ cv.loops = chart[c].loops
      /\ cv.dynamic = chart[c].dynamic /\ cv.shown = chart[c].shown
      /\ cv.full = chart[c].full /\ cv.id = chart[c].id
  <2> DEFINE S == {Undefined} \cup 1 .. 5
             T == {Undefined} \cup 0 .. 7
  <2>1. chart[c] \in ChartIn(S) /\ Passing = ChartIn(T) /\ fp \in T
    BY <1>3, <1>4 DEF Chart, Passing
  <2> HIDE DEF S, T, c
  <2>2. QED
    BY <2>1, SetPass
<1> HIDE DEF cv, c
<1>8. /\ x \in Passing /\ x.id = cv.id /\ x.shown = cv.shown /\ x.full = cv.full
      /\ x.loops = cv.loops /\ x.firstPass = cv.firstPass /\ x.prevWidth = cv.prevWidth
      /\ cv.dynamic # NoEntry => x.dynamic # NoEntry /\ x.dynamic.data = cv.dynamic.data
  BY <1>1, <1>3, <1>7, DynamicData, DynamicFunction
<1>9. after = IF ready THEN subUpdate(x, entry.data, width) ELSE x
  BY DEF subUpdateChart
<1> HIDE DEF x, after, ready
<1>10. redraws(x, width) <=> redraws(cv, width)
  BY <1>8 DEF redraws
<1>11. Len(x.loops) = IF x.firstPass \in 1 .. 4 THEN 1 ELSE 0
  BY <1>3, <1>4, <1>7, <1>8 DEF GoodChart
<1>12. LET r == subUpdate(x, entry.data, width)
       IN  /\ r.id = x.id /\ r.firstPass # Undefined
           /\ redraws(x, width) =>
                /\ r.shown = Blank /\ r.full = FALSE
                /\ \A i \in DOMAIN r.loops : r.loops[i].data = entry.data
           /\ ~redraws(x, width) =>
                r.shown = x.shown /\ r.full = x.full /\ r.loops = x.loops
  BY <1>1, <1>3, <1>8, <1>11, SubUpdateData
<1>13. after.id = chart[c].id
  BY <1>7, <1>8, <1>9, <1>12
<1>14. redrawn => /\ after.firstPass # Undefined /\ after.shown = Blank /\ after.full = FALSE
                  /\ \A i \in DOMAIN after.loops : after.loops[i].data = entry.data
  BY <1>9, <1>10, <1>12
<1>15. ~redrawn => /\ after.shown = chart[c].shown /\ after.full = chart[c].full
                   /\ after.loops = chart[c].loops
  BY <1>7, <1>8, <1>9, <1>10, <1>12
<1>16. ~redrawn => \/ after.firstPass # Undefined /\ chart[c].firstPass # Undefined
                   \/ after = x /\ after.firstPass = Undefined /\ chart[c].firstPass = Undefined
  <2>1. ready /\ ~redraws(cv, width) => cv.firstPass # Undefined /\ after.firstPass # Undefined
    BY <1>9, <1>12 DEF redraws
  <2>2. ~ready => cv.firstPass = Undefined
    BY <1>3, <1>4, <1>7 DEF ready, dynamicReady, GoodChart
  <2>3. cv.firstPass = Undefined <=> chart[c].firstPass = Undefined
    BY <1>4, <1>7
  <2>4. QED
    BY <1>8, <1>9, <2>1, <2>2, <2>3
<1> HIDE DEF redrawn
<1>17. CASE ~DistinctIds
  BY <1>1, <1>2, <1>6, <1>13, <1>17, SameIds
<1>18. CASE DistinctIds
  <2>1. PICK d \in Data : Carries(c, d)
    <3>1. OneContent(c) /\ Registered(c) # {}
      BY <1>1, <1>5, <1>18 DEF DataIInv
    <3>2. QED
      BY <3>1 DEF OneContent
  <2>2. entry.data = d
    BY <1>5, <2>1 DEF Carries, entry
  <2>3. CASE redrawn
    <3>1. \A i \in DOMAIN after.loops : after.loops[i].data = d
      BY <1>14, <2>2, <2>3
    <3>2. jsGraphAnnotate' = clearAnnotate(jsGraphAnnotate, cv, TRUE)
      BY <1>2, <2>3 DEF clearAnnotate
    <3>3. QED
      BY <1>1, <1>2, <1>6, <1>7, <1>13, <1>14, <1>18, <2>1, <2>3, <3>1, <3>2, RedrawnData
  <2>4. CASE ~redrawn
    <3>1. jsGraphAnnotate' = jsGraphAnnotate
      BY <1>2, <2>4 DEF clearAnnotate
    <3>2. chart'[c] = after
      BY <1>1, <1>2, <1>3
    <3>3. PICK k \in Ctx : k = c
      BY <1>1
    <3>4. Carries(k, d)
      BY <2>1, <3>3
    <3>5. Carries(k, d)'
      <4>1. /\ chart'[k].id = chart[k].id /\ chart'[k].shown = chart[k].shown
            /\ chart'[k].full = chart[k].full /\ chart'[k].loops = chart[k].loops
        BY <1>13, <1>15, <2>4, <3>2, <3>3
      <4>2. chart'[k].firstPass = Undefined =>
              chart'[k].dynamic # NoEntry /\ chart'[k].dynamic.data = d /\ chart'[k].shown = Blank
        BY <1>7, <1>8, <1>15, <1>16, <2>4, <3>2, <3>3, <3>4 DEF Carries
      <4>3. chart'[k].firstPass # Undefined => chart[k].firstPass # Undefined
        BY <1>16, <2>4, <3>2, <3>3
      <4>4. Registered(k)' = Registered(k)
        BY <1>2 DEF Registered
      <4>5. QED
        BY <1>2, <3>1, <3>4, <4>1, <4>2, <4>3, <4>4 DEF Carries, Owner
    <3>6. OneContent(k)'
      BY <3>5 DEF OneContent
    <3>7. /\ after.id # 0 /\ chart[k].id \in {0, after.id}
      BY <1>13, <3>3, <3>4 DEF Carries
    <3>8. /\ chart' = [chart EXCEPT ![k] = after]
          /\ \A i \in DOMAIN jsGraphResize' :
               jsGraphResize'[i].ctx # k => i \in DOMAIN jsGraphResize /\ jsGraphResize'[i] = jsGraphResize[i]
          /\ \A j \in 1 .. MaxMs : j # after.id => jsGraphAnnotate'[j] = jsGraphAnnotate[j]
      BY <1>2, <3>1, <3>3
    <3>9. QED
      BY <3>6, <3>7, <3>8, OneChartData
  <2>5. QED
    BY <2>3, <2>4
<1>19. QED
  BY <1>17, <1>18

LEMMA DataStart == EngineInit => DataIInv
<1> SUFFICES ASSUME EngineInit PROVE DataIInv
  OBVIOUS
<1>1. ASSUME NEW c \in Ctx PROVE OneContent(c)
  <2>1. chart[c].firstPass = Undefined /\ chart[c].dynamic = NoEntry /\ chart[c].shown = Blank
    BY DEF EngineInit, FreshChart
  <2>2. Registered(c) = {}
    BY DEF EngineInit, Registered
  <2>3. QED
    BY <2>1, <2>2 DEF OneContent, Fresh
<1>2. QED
  BY <1>1 DEF DataIInv

LEMMA DataStep == EngineIInv /\ DataIInv /\ [EngineNext]_engineVars => DataIInv'
<1> SUFFICES ASSUME EngineIInv, DataIInv, [EngineNext]_engineVars PROVE DataIInv'
  OBVIOUS
<1>1. ASSUME NEW c \in Ctx, AnimFrame(c) PROVE DataIInv'
  <2>1. PICK i \in DOMAIN chart[c].loops : NextFrame(c, i) \/ RepeatFrame(c, i) \/ LastFrame(c, i)
    BY <1>1 DEF AnimFrame
  <2>2. QED
    BY <2>1, NextFrameData, RepeatFrameData, LastFrameData
<1>2. ASSUME NEW w \in Width, ResizeWindow(w) PROVE DataIInv'
  BY <1>2, SameData DEF ResizeWindow
<1>3. CASE chartJsResize
  <2>1. at \in DOMAIN jsGraphResize
    BY <1>3 DEF EngineIInv, chartJsResize
  <2>2. QED
    BY <1>3, <2>1, ResizeData
<1>4. CASE Tick
  BY <1>4, SameData DEF Tick
<1>5. ASSUME NEW c \in Ctx, NEW k \in Content
      PROVE  LET d == [for |-> Owner(c), what |-> k] IN d \in Data /\ d.for = Owner(c)
  BY DEF Data, Owner, Ctx
<1>6. ASSUME NEW c \in Ctx, NEW k \in Content, Draw(c, [for |-> Owner(c), what |-> k])
      PROVE  DataIInv'
  <2> DEFINE d == [for |-> Owner(c), what |-> k]
  <2>1. d \in Data /\ d.for = Owner(c) /\ Draw(c, d)
    BY <1>5, <1>6
  <2> HIDE DEF d
  <2>2. /\ Becomes(init_and_start(Engine, c, d, c \in visible)) /\ (c \in visible) \in BOOLEAN
        /\ chart[c].firstPass = Undefined /\ chart[c].dynamic = NoEntry
    BY <2>1 DEF Draw
  <2>3. QED
    BY <2>1, <2>2, InitAndStartData
<1>7. ASSUME NEW c \in Ctx, NEW k \in Content, NEW animation \in BOOLEAN,
             Update(c, [for |-> Owner(c), what |-> k], animation)
      PROVE  DataIInv'
  <2> DEFINE d == [for |-> Owner(c), what |-> k]
  <2>1. d \in Data /\ d.for = Owner(c) /\ Update(c, d, animation)
    BY <1>5, <1>7
  <2> HIDE DEF d
  <2>2. /\ Becomes(updateChart(Engine, c, d, animation, c \in visible))
        /\ (c \in visible) \in BOOLEAN
    BY <2>1 DEF Update
  <2>3. QED
    BY <2>1, <2>2, UpdateChartData
<1>8. ASSUME NEW c \in Ctx, scrollFunction(c) PROVE DataIInv'
  <2> DEFINE entry == chart[c].dynamic
  <2>1. CASE c \notin visible /\ entry # NoEntry /\ ~entry.done
    <3>1. entry \in Waiting /\ GoodChart(chart[c]) /\ chart[c] \in Chart
      BY DEF EngineIInv, EngineTypeOK, Chart, ChartIn
    <3>2. entry.data \in Data
      BY <2>1, <3>1 DEF Waiting
    <3>3. Becomes(init_and_start(Engine, c, entry.data, TRUE)) /\ dynamicDisplay
      BY <1>8, <2>1 DEF scrollFunction
    <3>4. chart[c].firstPass = Undefined
      BY <2>1, <3>1, <3>3 DEF GoodChart
    <3>5. DistinctIds => entry.data.for = Owner(c)
      <4>1. DistinctIds => \E d \in Data : Carries(c, d)
        BY <2>1 DEF DataIInv, OneContent, Fresh
      <4>2. QED
        BY <3>4, <4>1 DEF Carries
    <3>6. PICK d \in Data : d = entry.data
      BY <3>2
    <3>7. /\ Becomes(init_and_start(Engine, c, d, TRUE)) /\ TRUE \in BOOLEAN
          /\ DistinctIds => d.for = Owner(c)
          /\ chart[c].dynamic.data = d
      BY <3>3, <3>5, <3>6
    <3>8. QED
      BY <3>4, <3>7, InitAndStartData
  <2>2. CASE ~(c \notin visible /\ entry # NoEntry /\ ~entry.done)
    <3>1. UNCHANGED <<chart, jsGraphResize, jsGraphAnnotate>>
      BY <1>8, <2>2 DEF scrollFunction
    <3>2. QED
      BY <3>1, SameData
  <2>3. QED
    BY <2>1, <2>2
<1>9. CASE UNCHANGED engineVars
  BY <1>9, SameData DEF engineVars
<1>10. QED
  BY <1>1, <1>2, <1>3, <1>4, <1>6, <1>7, <1>8, <1>9 DEF EngineNext, Browser

(* The invariant of the data: as long as no two charts share an id, each     *)
(* chart has one content that its picture, its animation, the resize list,   *)
(* the mouse list and the list of waiting charts agree on (ChartNew.js).     *)
THEOREM DataInvariant == EngineSpec => []DataIInv
  BY DataStart, DataStep, EngineInvariant, PTL DEF EngineSpec

(* As long as no two charts were created in the same millisecond, the mouse  *)
(* finds what is displayed and a resize draws what is displayed, whichever   *)
(* updates, frames and resizes came in between (updateChart, chartJsResize,  *)
(* jsGraphResize, jsGraphAnnotate).                                          *)
THEOREM DataAreCurrent == EngineSpec => []CurrentData
<1>1. EngineIInv /\ DataIInv => CurrentData
  <2> SUFFICES ASSUME EngineIInv, DataIInv, DistinctIds, NEW c \in Ctx,
                      chart[c].firstPass # Undefined, Current(c) # Blank
               PROVE  /\ Current(c).for = Owner(c)
                      /\ \A i \in DOMAIN jsGraphResize :
                           jsGraphResize[i].ctx = c => jsGraphResize[i].data = Current(c)
                      /\ \A i \in DOMAIN jsGraphAnnotate[chart[c].id] :
                           jsGraphAnnotate[chart[c].id][i] = [ctx |-> c, data |-> Current(c)]
                      /\ (chart[c].full /\ AnnotateDisplay) => jsGraphAnnotate[chart[c].id] # <<>>
    BY DEF CurrentData
  <2>1. PICK d \in Data : Carries(c, d)
    BY DEF DataIInv, OneContent, Fresh
  <2>2. Current(c) = d
    <3>1. chart[c].loops \in Seq(Loop)
      BY DEF EngineIInv, EngineTypeOK, Chart, ChartIn
    <3>2. CASE chart[c].loops # <<>>
      <4>1. 1 \in DOMAIN chart[c].loops
        BY <3>1, <3>2
      <4>2. QED
        BY <2>1, <3>2, <4>1 DEF Carries, Current
    <3>3. CASE chart[c].loops = <<>>
      BY <2>1, <3>3 DEF Carries, Current
    <3>4. QED
      BY <3>2, <3>3
  <2>3. QED
    BY <2>1, <2>2 DEF Carries, Registered
<1>2. QED
  BY <1>1, EngineInvariant, DataInvariant, PTL
=============================================================================
