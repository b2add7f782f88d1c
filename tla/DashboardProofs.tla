--------------------------- MODULE DashboardProofs ---------------------------
(***************************************************************************)
(* Proofs about Dashboard, for any statistics, canvases, contents, frames   *)
(* and widths of the window: the charts of a page are always in a state the *)
(* engine's proofs allow, and each canvas shows the statistic it is named   *)
(* after, whichever answers, failures, resizes and frames follow each other *)
(* and although charts may share an id.                                     *)
(***************************************************************************)
EXTENDS Dashboard, ChartEngineProofs, Positions

-----------------------------------------------------------------------------
(* Drawing on one canvas of a page. *)

(* The charts of a page have one width, whatever the window is. *)
LEMMA OneWidth == ASSUME NEW w \in Nat PROVE resizeGraph(w) = MaxWidth
  BY EngineAssumption, PageAssumption DEF resizeGraph

LEMMA RedrawWidth ==
  ASSUME NEW cv \in Passing, NEW d \in Data
  PROVE  redrawGraph(cv, d).prevWidth = cv.prevWidth
  BY DEF redrawGraph, Passing, ChartIn

LEMMA SubUpdateWidth ==
  ASSUME NEW cv \in Passing, NEW d \in Data, NEW w \in Width
  PROVE  subUpdate(cv, d, w).prevWidth \in {cv.prevWidth, resizeGraph(w)}
<1>1. CASE redraws(cv, w)
  <2> DEFINE fp == IF cv.firstPass \in {6, 7} THEN 3 ELSE 1
             pw == IF cv.firstPass = 5 THEN cv.prevWidth ELSE resizeGraph(w)
             x == [cv EXCEPT !.firstPass = fp]
             pre == [x EXCEPT !.prevWidth = pw]
             T == {Undefined} \cup 0 .. 7
  <2>1. subUpdate(cv, d, w) = redrawGraph(pre, d)
    BY <1>1 DEF subUpdate
  <2>2. Passing = ChartIn(T) /\ fp \in T /\ pw \in Nat /\ pw \in {cv.prevWidth, resizeGraph(w)}
    <3>1. Passing = ChartIn(T)
      BY DEF Passing
    <3>2. fp \in T
      OBVIOUS
    <3>3. cv.prevWidth \in Nat
      BY DEF Passing, ChartIn
    <3>4. pw \in {cv.prevWidth, resizeGraph(w)}
      OBVIOUS
    <3>5. QED
      BY <3>1, <3>2, <3>3, <3>4, SizeIsNat
  <2> HIDE DEF fp, pw, T
  <2>3. x \in Passing
    BY <2>2, SetPass
  <2> HIDE DEF x
  <2>4. pre \in Passing /\ pre.prevWidth = pw
    BY <2>2, <2>3, SetWidth
  <2> HIDE DEF pre
  <2>5. QED
    BY <2>1, <2>2, <2>4, RedrawWidth
<1>2. CASE ~redraws(cv, w)
  BY <1>2 DEF subUpdate, Passing, ChartIn
<1>3. QED
  BY <1>1, <1>2

(* A canvas that is drawn on with its own data shows its own data. *)
LEMMA SubUpdateOwn ==
  ASSUME NEW c \in Ctx, NEW cv \in Passing, NEW d \in Data, NEW w \in Width, Ready(cv),
         cv.prevWidth = MaxWidth, OwnData(c, cv),
         redraws(cv, w) => d.for = Owner(c)
  PROVE  LET r == subUpdate(cv, d, w)
         IN  r \in Chart /\ GoodChart(r) /\ OwnData(c, r) /\ r.firstPass # Undefined
<1> DEFINE r == subUpdate(cv, d, w)
<1>1. r \in Chart /\ GoodChart(r)
  BY SubUpdate
<1>2. /\ r.firstPass # Undefined
      /\ redraws(cv, w) => /\ r.shown = Blank
                           /\ \A i \in DOMAIN r.loops : r.loops[i].data = d
      /\ ~redraws(cv, w) => r.shown = cv.shown /\ r.loops = cv.loops
  <2>1. Len(cv.loops) = IF cv.firstPass \in 1 .. 4 THEN 1 ELSE 0
    BY DEF Ready
  <2>2. QED
    BY <2>1, SubUpdateData
<1>3. r.prevWidth = MaxWidth
  <2>1. w \in Nat
    BY EngineAssumption
  <2>2. QED
    BY <2>1, SubUpdateWidth, OneWidth
<1> HIDE DEF r
<1>4. OwnData(c, r)
  <2>1. CASE redraws(cv, w)
    BY <1>2, <1>3, <2>1 DEF OwnData
  <2>2. CASE ~redraws(cv, w)
    BY <1>2, <1>3, <2>2 DEF OwnData
  <2>3. QED
    BY <2>1, <2>2
<1>5. QED
  BY <1>1, <1>2, <1>4 DEF r

(* The engine of a page: every chart is as the engine keeps it and shows its *)
(* own statistic, and every registered chart has been drawn.                 *)
Entry == [ctx : Ctx, data : Data]
EngineRecord ==
  [chart : [Ctx -> Chart], resize : Seq(Entry), annotate : [1 .. MaxMs -> Seq(Entry)]]
Fitting ==
  {e \in EngineRecord :
     /\ \A c \in Ctx : GoodChart(e.chart[c]) /\ OwnData(c, e.chart[c])
     /\ \A i \in DOMAIN e.resize : e.chart[e.resize[i].ctx].firstPass # Undefined}

LEMMA FittingParts ==
  ASSUME NEW e \in Fitting
  PROVE  /\ e.chart \in [Ctx -> Chart] /\ e.resize \in Seq(Entry)
         /\ e.annotate \in [1 .. MaxMs -> Seq(Entry)]
         /\ \A c \in Ctx : e.chart[c] \in Chart /\ GoodChart(e.chart[c]) /\ OwnData(c, e.chart[c])
         /\ \A i \in DOMAIN e.resize : e.chart[e.resize[i].ctx].firstPass # Undefined
  BY DEF Fitting, EngineRecord

LEMMA OneCanvas ==
  ASSUME NEW e \in Fitting, NEW c \in Ctx, NEW r \in Chart,
         GoodChart(r), OwnData(c, r), r.firstPass # Undefined,
         NEW resize \in Seq(Entry), NEW annotate \in [1 .. MaxMs -> Seq(Entry)],
         \A i \in DOMAIN resize :
           resize[i].ctx = c \/ (i \in DOMAIN e.resize /\ resize[i].ctx = e.resize[i].ctx)
  PROVE  [chart |-> [e.chart EXCEPT ![c] = r], resize |-> resize, annotate |-> annotate] \in Fitting
<1> DEFINE g == [e.chart EXCEPT ![c] = r]
           f == [chart |-> g, resize |-> resize, annotate |-> annotate]
<1>1. f.chart = g /\ f.resize = resize /\ f.annotate = annotate
  OBVIOUS
<1>2. e.chart \in [Ctx -> Chart]
  BY FittingParts
<1>3. g \in [Ctx -> Chart] /\ g[c] = r /\ \A b \in Ctx : b # c => g[b] = e.chart[b]
  BY <1>2
<1>4. \A b \in Ctx : GoodChart(g[b]) /\ OwnData(b, g[b])
  <2> HIDE DEF g
  <2> SUFFICES ASSUME NEW b \in Ctx PROVE GoodChart(g[b]) /\ OwnData(b, g[b])
    OBVIOUS
  <2>1. CASE b = c
    BY <1>3, <2>1
  <2>2. CASE b # c
    BY <1>3, <2>2, FittingParts
  <2>3. QED
    BY <2>1, <2>2
<1>5. ASSUME NEW i \in DOMAIN resize PROVE g[resize[i].ctx].firstPass # Undefined
  <2>1. resize[i].ctx \in Ctx
    <3> HIDE DEF Entry
    <3>1. resize[i] \in Entry
      OBVIOUS
    <3>2. QED
      BY <3>1 DEF Entry
  <2> HIDE DEF g
  <2>2. CASE resize[i].ctx = c
    BY <1>3, <2>2
  <2>3. CASE resize[i].ctx # c
    <3>1. i \in DOMAIN e.resize /\ resize[i].ctx = e.resize[i].ctx
      BY <2>3
    <3>2. e.chart[e.resize[i].ctx].firstPass # Undefined
      BY <3>1, FittingParts
    <3>3. QED
      BY <1>3, <2>1, <2>3, <3>1, <3>2
  <2>4. QED
    BY <2>2, <2>3
<1> HIDE DEF f, g
<1>6. f \in EngineRecord
  BY <1>3 DEF EngineRecord, f
<1>7. f \in Fitting
  BY <1>1, <1>4, <1>5, <1>6 DEF Fitting
<1>8. QED
  BY <1>7 DEF f, g

(* What the mouse finds keeps its type. *)
LEMMA ClearFits ==
  ASSUME NEW a \in [1 .. MaxMs -> Seq(Entry)], NEW cv, NEW redrawn
  PROVE  clearAnnotate(a, cv, redrawn) \in [1 .. MaxMs -> Seq(Entry)]
  BY ClearAnnotate DEF Found, Entry

(* A new chart, on a canvas of its own or not. *)
LEMMA StartFits ==
  ASSUME NEW e \in Fitting, NEW c \in Ctx, NEW d \in Data, d.for = Owner(c),
         ~dynamicDisplay, width \in Width, ms \in 1 .. MaxMs
  PROVE  init_and_start(e, c, d, TRUE) \in Fitting
<1> DEFINE old == e.chart[c]
           newId == IF old.id = 0 THEN ms ELSE old.id
           named == [old EXCEPT !.id = newId]
           registered == [named EXCEPT !.prevWidth = resizeGraph(width)]
           drawn == subUpdate(registered, d, width)
           entry == [ctx |-> c, data |-> d]
           resize == Append(e.resize, entry)
           annotate == clearAnnotate(e.annotate, named, TRUE)
           S == {Undefined} \cup 1 .. 5
<1>1. init_and_start(e, c, d, TRUE) =
        [chart |-> [e.chart EXCEPT ![c] = drawn], resize |-> resize, annotate |-> annotate]
  BY DEF init_and_start, dynamicFunction, dynamicReady
<1>2. old \in Chart /\ GoodChart(old) /\ OwnData(c, old)
  BY FittingParts
<1>3. Chart = ChartIn(S)
  BY DEF Chart
<1>4. newId \in 0 .. MaxMs
  BY <1>2 DEF Chart, ChartIn
<1>5. resizeGraph(width) = MaxWidth /\ MaxWidth \in Nat
  BY OneWidth, EngineAssumption
<1> HIDE DEF newId, S, old
<1>6. /\ named \in Chart /\ named.firstPass = old.firstPass /\ named.loops = old.loops
      /\ named.shown = old.shown
  BY <1>2, <1>3, <1>4, SetId
<1> HIDE DEF named
<1>7. /\ registered \in Chart /\ registered.firstPass = old.firstPass
      /\ registered.loops = old.loops /\ registered.shown = old.shown
      /\ registered.prevWidth = MaxWidth
  BY <1>3, <1>5, <1>6, SetWidth
<1> HIDE DEF registered
<1>8. Ready(registered) /\ OwnData(c, registered) /\ registered \in Passing
  <2>1. registered.firstPass # 6
    BY <1>7 DEF Chart, ChartIn, Undefined
  <2>2. Ready(registered)
    BY <1>2, <1>7, <2>1 DEF Ready, GoodChart
  <2>3. QED
    BY <1>2, <1>7, <2>2, ChartIsPassing DEF OwnData
<1>9. drawn \in Chart /\ GoodChart(drawn) /\ OwnData(c, drawn) /\ drawn.firstPass # Undefined
  BY <1>7, <1>8, SubUpdateOwn
<1>10. resize \in Seq(Entry) /\ \A i \in DOMAIN resize :
         resize[i].ctx = c \/ (i \in DOMAIN e.resize /\ resize[i].ctx = e.resize[i].ctx)
  <2>1. e.resize \in Seq(Entry) /\ entry \in Entry /\ entry.ctx = c
    BY FittingParts DEF Entry
  <2> HIDE DEF Entry, entry
  <2>2. /\ resize \in Seq(Entry) /\ DOMAIN resize = 1 .. Len(e.resize) + 1
        /\ DOMAIN e.resize = 1 .. Len(e.resize) /\ Len(e.resize) \in Nat
        /\ resize[Len(e.resize) + 1] = entry
        /\ \A i \in 1 .. Len(e.resize) : resize[i] = e.resize[i]
    BY <2>1
  <2> HIDE DEF resize
  <2>3. ASSUME NEW i \in DOMAIN resize
        PROVE  resize[i].ctx = c \/ (i \in DOMAIN e.resize /\ resize[i].ctx = e.resize[i].ctx)
    <3>1. CASE i = Len(e.resize) + 1
      <4>1. resize[i] = entry
        BY <2>2, <3>1
      <4>2. resize[i].ctx = c
        BY <2>1, <4>1
      <4>3. QED
        BY <4>2
    <3>2. CASE i # Len(e.resize) + 1
      <4>1. i \in 1 .. Len(e.resize)
        BY <2>2, <3>2
      <4>2. QED
        BY <2>2, <4>1
    <3>3. QED
      BY <3>1, <3>2
  <2>4. QED
    BY <2>2, <2>3
<1>11. annotate \in [1 .. MaxMs -> Seq(Entry)]
  BY FittingParts, ClearFits
<1> HIDE DEF drawn, resize, annotate
<1>12. [chart |-> [e.chart EXCEPT ![c] = drawn], resize |-> resize, annotate |-> annotate] \in Fitting
  BY <1>9, <1>10, <1>11, OneCanvas
<1>13. QED
  BY <1>1, <1>12

(* An update, which is ignored unless the chart is at rest. *)
LEMMA UpdateFits ==
  ASSUME NEW e \in Fitting, NEW c \in Ctx, NEW d \in Data, d.for = Owner(c),
         ~dynamicDisplay, width \in Width
  PROVE  updateChart(e, c, d, FALSE, TRUE) \in Fitting
<1>1. CASE e.chart[c].firstPass # 5
  BY <1>1 DEF updateChart
<1>2. CASE e.chart[c].firstPass = 5
  <2> DEFINE old == e.chart[c]
             cv == [old EXCEPT !.firstPass = 7]
             after == subUpdate(cv, d, width)
             fresh(k) == IF e.chart[e.resize[k].ctx].id = cv.id
                         THEN [e.resize[k] EXCEPT !.data = d] ELSE e.resize[k]
             resize == [k \in DOMAIN e.resize |-> fresh(k)]
             annotate == clearAnnotate(e.annotate, cv, TRUE)
             S == {Undefined} \cup 1 .. 5
             T == {Undefined} \cup 0 .. 7
  <2>1. updateChart(e, c, d, FALSE, TRUE) =
          [chart |-> [e.chart EXCEPT ![c] = after], resize |-> resize, annotate |-> annotate]
    BY <1>2 DEF updateChart, subUpdateChart, dynamicFunction, dynamicReady
  <2>2. old \in Chart /\ GoodChart(old) /\ OwnData(c, old) /\ old.firstPass = 5
    BY <1>2, FittingParts
  <2>3. old \in ChartIn(S) /\ Passing = ChartIn(T) /\ 7 \in T
    BY <2>2 DEF Chart, Passing
  <2> HIDE DEF S, T, old
  <2>4. /\ cv \in Passing /\ cv.firstPass = 7 /\ cv.loops = old.loops
        /\ cv.shown = old.shown /\ cv.prevWidth = old.prevWidth
    BY <2>3, SetPass
  <2> HIDE DEF cv
  <2>5. Ready(cv) /\ OwnData(c, cv) /\ cv.prevWidth = MaxWidth
    BY <2>2, <2>4 DEF Ready, GoodChart, OwnData, Undefined
  <2>6. after \in Chart /\ GoodChart(after) /\ OwnData(c, after) /\ after.firstPass # Undefined
    BY <2>4, <2>5, SubUpdateOwn
  <2>7. resize \in Seq(Entry) /\ \A i \in DOMAIN resize :
          i \in DOMAIN e.resize /\ resize[i].ctx = e.resize[i].ctx
    <3>1. e.resize \in Seq(Entry)
      BY FittingParts
    <3>2. \A x \in Entry : [x EXCEPT !.data = d] \in Entry /\ [x EXCEPT !.data = d].ctx = x.ctx
      BY DEF Entry
    <3> HIDE DEF Entry
    <3>3. DOMAIN e.resize = 1 .. Len(e.resize) /\ Len(e.resize) \in Nat
      BY <3>1
    <3>4. \A k \in 1 .. Len(e.resize) : e.resize[k] \in Entry
      BY <3>1
    <3>5. \A k \in 1 .. Len(e.resize) : fresh(k) \in Entry /\ fresh(k).ctx = e.resize[k].ctx
      BY <3>2, <3>4
    <3> HIDE DEF fresh
    <3>6. resize \in [1 .. Len(e.resize) -> Entry]
      BY <3>3, <3>5
    <3>7. resize \in Seq(Entry)
      BY <3>3, <3>6, SeqDef
    <3>8. QED
      BY <3>3, <3>5, <3>7
  <2>8. annotate \in [1 .. MaxMs -> Seq(Entry)]
    BY FittingParts, ClearFits
  <2> HIDE DEF after, resize, annotate
  <2>9. [chart |-> [e.chart EXCEPT ![c] = after], resize |-> resize, annotate |-> annotate] \in Fitting
    BY <2>6, <2>7, <2>8, OneCanvas
  <2>10. QED
    BY <2>1, <2>9
<1>3. QED
  BY <1>1, <1>2

-----------------------------------------------------------------------------
(* The statistics of an answer. *)

(* Names of A, each at most once, that come among the first i in the order   *)
(* of names.                                                                 *)
Sorted(A, i) ==
  {s \in Seq(A) : /\ \A j \in DOMAIN s : \E k \in 1 .. i : s[j] = NameOrder[k]
                  /\ \A j, k \in DOMAIN s : s[j] = s[k] => j = k}

LEMMA AppendSorted ==
  ASSUME NEW A \in SUBSET Name, NEW i \in DOMAIN NameOrder, NEW s \in Sorted(A, i - 1),
         NameOrder[i] \in A
  PROVE  Append(s, NameOrder[i]) \in Sorted(A, i)
<1> DEFINE n == NameOrder[i]
           t == Append(s, n)
<1>1. i \in Nat \ {0} /\ DOMAIN NameOrder = 1 .. Len(NameOrder) /\ Len(NameOrder) \in Nat
  BY PageAssumption
<1>2. s \in Seq(A) /\ t \in Seq(A) /\ Len(s) \in Nat /\ DOMAIN s = 1 .. Len(s)
  BY DEF Sorted
<1>3. DOMAIN t = 1 .. Len(s) + 1 /\ t[Len(s) + 1] = n /\ \A j \in 1 .. Len(s) : t[j] = s[j]
  BY <1>2
<1>4. \A j \in 1 .. Len(s) : \E k \in 1 .. i - 1 : s[j] = NameOrder[k]
  BY <1>2 DEF Sorted
<1>5. \A j \in 1 .. Len(s) : s[j] # n
  <2> SUFFICES ASSUME NEW j \in 1 .. Len(s), s[j] = n PROVE FALSE
    OBVIOUS
  <2>1. PICK k \in 1 .. i - 1 : s[j] = NameOrder[k]
    BY <1>4
  <2>2. k \in DOMAIN NameOrder /\ k # i
    BY <1>1
  <2>3. QED
    BY <2>1, <2>2, PageAssumption
<1> HIDE DEF t
<1>6. \A j \in DOMAIN t : \E k \in 1 .. i : t[j] = NameOrder[k]
  <2> SUFFICES ASSUME NEW j \in 1 .. Len(s) + 1 PROVE \E k \in 1 .. i : t[j] = NameOrder[k]
    BY <1>3
  <2>1. CASE j = Len(s) + 1
    BY <1>1, <1>3, <2>1
  <2>2. CASE j # Len(s) + 1
    <3>1. j \in 1 .. Len(s)
      BY <1>2, <2>2
    <3>2. PICK k \in 1 .. i - 1 : s[j] = NameOrder[k]
      BY <1>4, <3>1
    <3>3. k \in 1 .. i
      BY <1>1
    <3>4. QED
      BY <1>3, <3>1, <3>2, <3>3
  <2>3. QED
    BY <2>1, <2>2
<1>7. ASSUME NEW j \in DOMAIN t, NEW k \in DOMAIN t, t[j] = t[k] PROVE j = k
  <2>1. \A x, y \in 1 .. Len(s) : s[x] = s[y] => x = y
    BY <1>2 DEF Sorted
  <2> HIDE DEF n
  <2>2. j \in 1 .. Len(s) \/ j = Len(s) + 1
    BY <1>2, <1>3
  <2>3. k \in 1 .. Len(s) \/ k = Len(s) + 1
    BY <1>2, <1>3
  <2>4. CASE j \in 1 .. Len(s) /\ k \in 1 .. Len(s)
    BY <1>3, <1>7, <2>1, <2>4
  <2>5. CASE j = Len(s) + 1 /\ k \in 1 .. Len(s)
    BY <1>3, <1>5, <1>7, <2>5
  <2>6. CASE j \in 1 .. Len(s) /\ k = Len(s) + 1
    BY <1>3, <1>5, <1>7, <2>6
  <2>7. QED
    BY <2>2, <2>3, <2>4, <2>5, <2>6
<1>8. QED
  BY <1>2, <1>6, <1>7 DEF Sorted, t

(* The statistics that are rendered are in the answer, each of them once. *)
LEMMA ReportedNames ==
  ASSUME poll.says.names \subseteq Name
  PROVE  Reported \in Sorted(poll.says.names \cap Wanted, Len(NameOrder))
<1> DEFINE A == poll.says.names \cap Wanted
           N == Len(NameOrder)
           Q == Seq(A)
           step(s, i) == IF NameOrder[i] \in A THEN Append(s, NameOrder[i]) ELSE s
           value(f, i) == IF i = 0 THEN <<>>
                          ELSE IF NameOrder[i] \in A THEN Append(f[i - 1], NameOrder[i])
                                                     ELSE f[i - 1]
           Is(f) == f = [i \in 0 .. N |-> value(f, i)]
           U == CHOOSE f : Is(f)
           S == [i \in 0 .. N |-> Sorted(A, i)]
<1>1. Reported = U[N]
  BY DEF Reported
<1>2. A \in SUBSET Name /\ N \in Nat /\ DOMAIN NameOrder = 1 .. N
  BY PageAssumption
<1> HIDE DEF A, N
<1>3. \E f : Is(f)
  <2> DEFINE G == [i \in 1 .. N |-> [s \in Q |-> step(s, i)]]
  <2>1. <<>> \in Q /\ \A i \in 1 .. N : \A s \in Q : step(s, i) \in Q
    BY EmptySeq
  <2> HIDE DEF Q, step
  <2>2. G \in Steps(N, Q)
    BY <2>1 DEF Steps
  <2>3. PICK f \in [0 .. N -> Q] : f[0] = <<>> /\ \A i \in 1 .. N : f[i] = G[i][f[i - 1]]
    <3> HIDE DEF G
    <3>1. Runs(N, Q, <<>>, G) # {}
      BY <1>2, <2>1, <2>2, Recursion
    <3>2. QED
      BY <3>1 DEF Runs
  <2>4. \A i \in 1 .. N : f[i] = step(f[i - 1], i)
    <3> SUFFICES ASSUME NEW i \in 1 .. N PROVE f[i] = step(f[i - 1], i)
      OBVIOUS
    <3>1. i - 1 \in 0 .. N
      BY <1>2
    <3>2. f[i - 1] \in Q
      BY <3>1
    <3>3. QED
      BY <2>3, <3>2
  <2>5. \A i \in 0 .. N : f[i] = value(f, i)
    <3> SUFFICES ASSUME NEW i \in 0 .. N PROVE f[i] = value(f, i)
      OBVIOUS
    <3>1. CASE i = 0
      BY <2>3, <3>1
    <3>2. CASE i # 0
      <4>1. i \in 1 .. N
        BY <1>2, <3>2
      <4>2. QED
        BY <2>4, <3>2, <4>1 DEF step
    <3>3. QED
      BY <3>1, <3>2
  <2> HIDE DEF value
  <2>6. QED
    BY <2>5
<1>4. Is(U)
  BY <1>3
<1>5. \A i \in 0 .. N : U[i] = value(U, i)
  <2> HIDE DEF U, value
  <2>1. QED
    BY <1>4
<1> HIDE DEF U
<1>6. U[0] \in S[0]
  <2>1. <<>> \in Sorted(A, 0)
    BY EmptySeq DEF Sorted
  <2>2. QED
    BY <1>2, <1>5, <2>1
<1>7. ASSUME NEW i \in 1 .. N, U[i - 1] \in S[i - 1] PROVE U[i] \in S[i]
  <2>1. i - 1 \in 0 .. N /\ U[i - 1] \in Sorted(A, i - 1) /\ S[i] = Sorted(A, i)
    BY <1>2, <1>7
  <2>2. CASE NameOrder[i] \in A
    <3>1. Append(U[i - 1], NameOrder[i]) \in Sorted(A, i)
      BY <1>2, <2>1, <2>2, AppendSorted
    <3>2. QED
      BY <1>5, <2>1, <2>2, <3>1
  <2>3. CASE NameOrder[i] \notin A
    <3>1. 1 .. i - 1 \subseteq 1 .. i
      BY <1>2
    <3>2. U[i - 1] \in Sorted(A, i)
      BY <2>1, <3>1 DEF Sorted
    <3>3. QED
      BY <1>5, <2>1, <2>3, <3>2
  <2>4. QED
    BY <2>2, <2>3
<1> HIDE DEF S
<1>8. \A i \in 0 .. N : U[i] \in S[i]
  BY <1>2, <1>6, <1>7, EveryPosition
<1>9. U[N] \in Sorted(A, N)
  BY <1>2, <1>8 DEF S
<1>10. QED
  BY <1>1, <1>9 DEF A, N

-----------------------------------------------------------------------------
(* Rendering an answer. *)

(* The state in which an answer is rendered. *)
Answered == PageIInv /\ poll.at = "answered"

LEMMA AnsweredParts ==
  ASSUME Answered
  PROVE  /\ poll.says \in Says /\ poll.says.names \subseteq Name /\ poll.says.ver \in 1 .. MaxVer
         /\ ~dynamicDisplay /\ width \in Width /\ ms \in 1 .. MaxMs
  BY DEF Answered, PageIInv, PageTypeOK, PollTypeOK, Says, OwnCharts, EngineIInv, EngineTypeOK

LEMMA DataOf ==
  ASSUME Answered, NEW n \in Name, NEW new \in BOOLEAN
  PROVE  LET d == getData(n, getChartOpts(new)) IN d \in Data /\ d.for = n
<1>1. getChartOpts(new) \in Content
  BY AnsweredParts, PageAssumption DEF getChartOpts
<1>2. QED
  BY <1>1 DEF getData, Data

(* The engine as it is fits. *)
LEMMA EngineFits == ASSUME PageIInv PROVE Engine \in Fitting
<1>1. /\ Engine.chart = chart /\ Engine.resize = jsGraphResize /\ Engine.annotate = jsGraphAnnotate
      /\ Engine \in EngineRecord
  BY DEF PageIInv, EngineIInv, EngineTypeOK, Engine, EngineRecord, Entry
<1> HIDE DEF Engine
<1>2. /\ \A c \in Ctx : GoodChart(chart[c]) /\ OwnData(c, chart[c])
      /\ \A i \in DOMAIN jsGraphResize : chart[jsGraphResize[i].ctx].firstPass # Undefined
  BY DEF PageIInv, EngineIInv, OwnCharts
<1>3. QED
  BY <1>1, <1>2 DEF Fitting

(* There is a canvas element for each statistic of the answer. *)
LEMMA NewCanvas ==
  ASSUME Answered, part = "stats", NEW n \in poll.says.names, dom[n] = 0
  PROVE  <<n, used[n] + 1>> \in Ctx
<1>1. n \in Name /\ used[n] \in Nat /\ acts \in 0 .. MaxAct /\ MaxAct \in Nat
  BY AnsweredParts, PageAssumption DEF Answered, PageIInv, PageTypeOK
<1>2. Changes(n) <= acts + 1
  BY <1>1 DEF Answered, PageIInv, CanvasesSuffice
<1>3. ~Shown(n) /\ Told(n)
  BY DEF Shown, Told, Answered
<1>4. 2 * used[n] + 1 <= acts + 1
  BY <1>1, <1>2, <1>3 DEF Changes
<1>5. used[n] + 1 \in 1 .. MaxAct \div 2 + 1
  BY <1>1, <1>4
<1>6. QED
  BY <1>1, <1>5, PageAssumption DEF Ctx

LEMMA OldCanvas ==
  ASSUME Answered, part = "stats", NEW n \in poll.says.names, dom[n] # 0
  PROVE  <<n, dom[n]>> \in Ctx
<1>1. /\ n \in Name /\ used[n] \in Nat /\ dom[n] \in Nat /\ acts \in 0 .. MaxAct
      /\ MaxAct \in Nat /\ dom[n] = used[n]
  BY AnsweredParts, PageAssumption DEF Answered, PageIInv, PageTypeOK, CanvasesSuffice, Shown
<1>2. Changes(n) <= acts + 1
  BY <1>1 DEF Answered, PageIInv, CanvasesSuffice
<1>3. Shown(n)
  BY DEF Shown
<1>4. 2 * used[n] - 1 <= acts + 1
  BY <1>1, <1>2, <1>3 DEF Changes
<1>5. dom[n] \in 1 .. MaxAct \div 2 + 1
  BY <1>1, <1>4
<1>6. QED
  BY <1>1, <1>5, PageAssumption DEF Ctx

LEMMA RenderStatFits ==
  ASSUME Answered, part = "stats", NEW e \in Fitting, NEW n \in poll.says.names
  PROVE  renderStat(e, n) \in Fitting
<1>1. n \in Name
  BY AnsweredParts
<1>2. CASE dom[n] = 0
  <2> DEFINE c == <<n, used[n] + 1>>
             d == getData(n, getChartOpts(TRUE))
  <2>1. renderStat(e, n) = init_and_start(e, c, d, TRUE)
    BY <1>2 DEF renderStat
  <2>2. c \in Ctx /\ Owner(c) = n
    BY <1>2, NewCanvas DEF Owner
  <2>3. d \in Data /\ d.for = n
    BY <1>1, DataOf
  <2> HIDE DEF c, d
  <2>4. QED
    BY <2>1, <2>2, <2>3, AnsweredParts, StartFits
<1>3. CASE dom[n] # 0
  <2> DEFINE c == <<n, dom[n]>>
             d == getData(n, getChartOpts(FALSE))
  <2>1. renderStat(e, n) = updateChart(e, c, d, FALSE, TRUE)
    BY <1>3 DEF renderStat
  <2>2. c \in Ctx /\ Owner(c) = n
    BY <1>3, OldCanvas DEF Owner
  <2>3. d \in Data /\ d.for = n
    BY <1>1, DataOf
  <2> HIDE DEF c, d
  <2>4. QED
    BY <2>1, <2>2, <2>3, AnsweredParts, UpdateFits
<1>4. QED
  BY <1>2, <1>3

(* One statistic after the other. *)
LEMMA StatsFit ==
  ASSUME Answered, part = "stats"
  PROVE  StatsRendered \in Fitting
<1> DEFINE N == Len(Reported)
           step(e, i) == renderStat(e, Reported[i])
           value(f, i) == IF i = 0 THEN Engine ELSE renderStat(f[i - 1], Reported[i])
           Is(f) == f = [i \in 0 .. N |-> value(f, i)]
           U == CHOOSE f : Is(f)
           S == [i \in 0 .. N |-> Fitting]
<1>1. StatsRendered = U[N]
  BY DEF StatsRendered
<1>2. N \in Nat /\ \A i \in 1 .. N : Reported[i] \in poll.says.names
  BY AnsweredParts, ReportedNames DEF Sorted
<1>3. Engine \in Fitting
  BY EngineFits DEF Answered
<1>4. \A i \in 1 .. N : \A e \in Fitting : step(e, i) \in Fitting
  BY <1>2, RenderStatFits
<1> HIDE DEF N
<1>5. \E f : Is(f)
  <2> DEFINE G == [i \in 1 .. N |-> [e \in Fitting |-> step(e, i)]]
  <2> HIDE DEF step
  <2>1. G \in Steps(N, Fitting)
    BY <1>4 DEF Steps
  <2>2. PICK f \in [0 .. N -> Fitting] : f[0] = Engine /\ \A i \in 1 .. N : f[i] = G[i][f[i - 1]]
    <3> HIDE DEF G
    <3>1. Runs(N, Fitting, Engine, G) # {}
      BY <1>2, <1>3, <2>1, Recursion
    <3>2. QED
      BY <3>1 DEF Runs
  <2>3. \A i \in 0 .. N : f[i] = value(f, i)
    <3> SUFFICES ASSUME NEW i \in 0 .. N PROVE f[i] = value(f, i)
      OBVIOUS
    <3>1. CASE i = 0
      BY <2>2, <3>1
    <3>2. CASE i # 0
      <4>1. i \in 1 .. N /\ i - 1 \in 0 .. N
        BY <1>2, <3>2
      <4>2. f[i - 1] \in Fitting
        BY <4>1
      <4>3. f[i] = step(f[i - 1], i)
        BY <2>2, <4>1, <4>2
      <4>4. QED
        BY <3>2, <4>3 DEF step
    <3>3. QED
      BY <3>1, <3>2
  <2> HIDE DEF value
  <2>4. QED
    BY <2>3
<1>6. Is(U)
  BY <1>5
<1>7. \A i \in 0 .. N : U[i] = value(U, i)
  <2> HIDE DEF U, value
  <2>1. QED
    BY <1>6
<1> HIDE DEF U
<1>8. U[0] \in S[0]
  BY <1>2, <1>3, <1>7
<1>9. ASSUME NEW i \in 1 .. N, U[i - 1] \in S[i - 1] PROVE U[i] \in S[i]
  <2>1. i \in 0 .. N /\ i - 1 \in 0 .. N /\ i # 0
    BY <1>2
  <2>2. U[i - 1] \in Fitting /\ S[i] = Fitting
    BY <1>9, <2>1
  <2>3. U[i] = step(U[i - 1], i)
    BY <1>7, <2>1
  <2> HIDE DEF step
  <2>4. QED
    BY <1>4, <2>2, <2>3
<1> HIDE DEF S
<1>10. \A i \in 0 .. N : U[i] \in S[i]
  BY <1>2, <1>8, <1>9, EveryPosition
<1>11. U[N] \in Fitting
  BY <1>2, <1>10 DEF S
<1>12. QED
  BY <1>1, <1>11

(* The dashboard finds the statistics by their position: it takes the right  *)
(* one for each canvas, or throws.                                           *)
LEMMA GraphsKnown ==
  ASSUME Answered, part = "graphs"
  PROVE  /\ GraphsRendered \in Seq({"queue", "data-store"})
         /\ \A i \in DOMAIN GraphsRendered :
              Reported[StatsIdx(GraphsRendered[i])] = GraphsRendered[i]
<1> DEFINE A == poll.says.names \cap Wanted
<1>1. Reported \in Sorted(A, Len(NameOrder)) /\ A \subseteq {"queue", "data-store"}
  BY AnsweredParts, ReportedNames DEF Wanted
<1> HIDE DEF A
<1>2. /\ Len(Reported) \in Nat /\ DOMAIN Reported = 1 .. Len(Reported)
      /\ Reported # <<>> => Len(Reported) # 0
      /\ \A j, k \in DOMAIN Reported : Reported[j] = Reported[k] => j = k
      /\ \A j \in DOMAIN Reported : Reported[j] \in {"queue", "data-store"}
  <2>1. Reported \in Seq(A) /\ \A j, k \in DOMAIN Reported : Reported[j] = Reported[k] => j = k
    BY <1>1 DEF Sorted
  <2>2. \A j \in DOMAIN Reported : Reported[j] \in A
    BY <2>1
  <2>3. /\ Len(Reported) \in Nat /\ DOMAIN Reported = 1 .. Len(Reported)
        /\ Reported # <<>> => Len(Reported) # 0
    BY <2>1, EmptySeq
  <2>4. \A j \in DOMAIN Reported : Reported[j] \in {"queue", "data-store"}
    BY <1>1, <2>2, Zenon
  <2>5. QED
    BY <2>1, <2>3, <2>4
<1>3. Reported # <<>> => 1 \in DOMAIN Reported
  BY <1>2
<1>4. ASSUME NEW n \in {"queue", "data-store"}, Reported # <<>>, StatsIdx(n) \in DOMAIN Reported
      PROVE  Reported[StatsIdx(n)] = n
  <2>1. CASE Reported[1] = "queue"
    BY <1>2, <1>3, <1>4, <2>1 DEF StatsIdx
  <2>2. CASE Reported[1] = "data-store"
    BY <1>2, <1>3, <1>4, <2>2 DEF StatsIdx
  <2>3. QED
    BY <1>2, <1>3, <1>4, <2>1, <2>2
<1> DEFINE throws(n) == Reported = <<>> \/ StatsIdx(n) \notin DOMAIN Reported
<1>5. \/ GraphsRendered = <<>>
      \/ GraphsRendered = <<"queue">> /\ ~throws("queue")
      \/ GraphsRendered = <<"queue", "data-store">> /\ ~throws("queue") /\ ~throws("data-store")
  BY DEF GraphsRendered
<1>6. CASE GraphsRendered = <<>>
  BY <1>6
<1>7. CASE GraphsRendered = <<"queue">> /\ ~throws("queue")
  BY <1>4, <1>7
<1>8. CASE GraphsRendered = <<"queue", "data-store">> /\ ~throws("queue") /\ ~throws("data-store")
  <2>1. Reported[StatsIdx("queue")] = "queue" /\ Reported[StatsIdx("data-store")] = "data-store"
    BY <1>4, <1>8
  <2> DEFINE q == "queue"
             r == "data-store"
  <2>2. q \in {q, r} /\ r \in {q, r} /\ GraphsRendered = <<q, r>>
    BY <1>8
  <2> HIDE DEF q, r
  <2>3. GraphsRendered \in Seq({q, r}) /\ \A i \in DOMAIN GraphsRendered : GraphsRendered[i] \in {q, r}
    BY <2>2
  <2>4. QED
    BY <2>1, <2>3 DEF q, r
<1>9. QED
  BY <1>5, <1>6, <1>7, <1>8

LEMMA RenderGraphFits ==
  ASSUME Answered, part = "graphs", NEW e \in Fitting, NEW i \in DOMAIN GraphsRendered
  PROVE  renderGraph(e, GraphsRendered[i]) \in Fitting
<1> DEFINE n == GraphsRendered[i]
           c == <<n, 1>>
           d == getData(n, getChartOpts(FALSE))
<1>1. n \in {"queue", "data-store"} /\ Reported[StatsIdx(n)] = n
  BY GraphsKnown
<1>2. renderGraph(e, n) \in {updateChart(e, c, d, FALSE, TRUE), init_and_start(e, c, d, TRUE)}
  BY <1>1 DEF renderGraph
<1> HIDE DEF n
<1>3. n \in Name
  BY <1>1, PageAssumption
<1>4. c \in Ctx /\ Owner(c) = n
  <2>1. 1 \in 1 .. MaxAct \div 2 + 1
    BY PageAssumption
  <2>2. QED
    BY <1>3, <2>1, PageAssumption DEF Ctx, Owner
<1>5. d \in Data /\ d.for = n
  BY <1>3, DataOf
<1> HIDE DEF c, d
<1>6. updateChart(e, c, d, FALSE, TRUE) \in Fitting
  BY <1>4, <1>5, AnsweredParts, UpdateFits
<1>7. init_and_start(e, c, d, TRUE) \in Fitting
  BY <1>4, <1>5, AnsweredParts, StartFits
<1>8. QED
  BY <1>2, <1>6, <1>7 DEF n

LEMMA GraphsFit ==
  ASSUME Answered, part = "graphs"
  PROVE  GraphsDrawn \in Fitting
<1> DEFINE N == Len(GraphsRendered)
           step(e, i) == renderGraph(e, GraphsRendered[i])
           value(f, i) == IF i = 0 THEN Engine ELSE renderGraph(f[i - 1], GraphsRendered[i])
           Is(f) == f = [i \in 0 .. N |-> value(f, i)]
           U == CHOOSE f : Is(f)
           S == [i \in 0 .. N |-> Fitting]
<1>1. GraphsDrawn = U[N]
  BY DEF GraphsDrawn
<1>2. N \in Nat /\ \A i \in 1 .. N : i \in DOMAIN GraphsRendered
  BY GraphsKnown
<1>3. Engine \in Fitting
  BY EngineFits DEF Answered
<1>4. \A i \in 1 .. N : \A e \in Fitting : step(e, i) \in Fitting
  BY <1>2, RenderGraphFits
<1> HIDE DEF N
<1>5. \E f : Is(f)
  <2> DEFINE G == [i \in 1 .. N |-> [e \in Fitting |-> step(e, i)]]
  <2> HIDE DEF step
  <2>1. G \in Steps(N, Fitting)
    BY <1>4 DEF Steps
  <2>2. PICK f \in [0 .. N -> Fitting] : f[0] = Engine /\ \A i \in 1 .. N : f[i] = G[i][f[i - 1]]
    <3> HIDE DEF G
    <3>1. Runs(N, Fitting, Engine, G) # {}
      BY <1>2, <1>3, <2>1, Recursion
    <3>2. QED
      BY <3>1 DEF Runs
  <2>3. \A i \in 0 .. N : f[i] = value(f, i)
    <3> SUFFICES ASSUME NEW i \in 0 .. N PROVE f[i] = value(f, i)
      OBVIOUS
    <3>1. CASE i = 0
      BY <2>2, <3>1
    <3>2. CASE i # 0
      <4>1. i \in 1 .. N /\ i - 1 \in 0 .. N
        BY <1>2, <3>2
      <4>2. f[i - 1] \in Fitting
        BY <4>1
      <4>3. f[i] = step(f[i - 1], i)
        BY <2>2, <4>1, <4>2
      <4>4. QED
        BY <3>2, <4>3 DEF step
    <3>3. QED
      BY <3>1, <3>2
  <2> HIDE DEF value
  <2>4. QED
    BY <2>3
<1>6. Is(U)
  BY <1>5
<1>7. \A i \in 0 .. N : U[i] = value(U, i)
  <2> HIDE DEF U, value
  <2>1. QED
    BY <1>6
<1> HIDE DEF U
<1>8. U[0] \in S[0]
  BY <1>2, <1>3, <1>7
<1>9. ASSUME NEW i \in 1 .. N, U[i - 1] \in S[i - 1] PROVE U[i] \in S[i]
  <2>1. i \in 0 .. N /\ i - 1 \in 0 .. N /\ i # 0
    BY <1>2
  <2>2. U[i - 1] \in Fitting /\ S[i] = Fitting
    BY <1>9, <2>1
  <2>3. U[i] = step(U[i - 1], i)
    BY <1>7, <2>1
  <2> HIDE DEF step
  <2>4. QED
    BY <1>4, <2>2, <2>3
<1> HIDE DEF S
<1>10. \A i \in 0 .. N : U[i] \in S[i]
  BY <1>2, <1>8, <1>9, EveryPosition
<1>11. U[N] \in Fitting
  BY <1>2, <1>10 DEF S
<1>12. QED
  BY <1>1, <1>11

-----------------------------------------------------------------------------
(* What the browser does to the charts of a page. *)

LEMMA OwnChart ==
  ASSUME EngineIInv, OwnCharts, NEW c \in Ctx, NEW r, OwnData(c, r), r.firstPass # Undefined,
         chart' = [chart EXCEPT ![c] = r], UNCHANGED <<jsGraphResize, dynamicDisplay>>
  PROVE  OwnCharts'
<1>1. chart \in [Ctx -> Chart] /\ jsGraphResize \in Seq(Entry)
  BY DEF EngineIInv, EngineTypeOK, Entry
<1>2. chart'[c] = r /\ \A b \in Ctx : b # c => chart'[b] = chart[b]
  BY <1>1
<1>3. \A b \in Ctx : OwnData(b, chart'[b])
  BY <1>2 DEF OwnCharts
<1>4. ASSUME NEW i \in DOMAIN jsGraphResize PROVE chart'[jsGraphResize[i].ctx].firstPass # Undefined
  <2>1. jsGraphResize[i].ctx \in Ctx
    <3> HIDE DEF Entry
    <3>1. jsGraphResize[i] \in Entry
      BY <1>1
    <3>2. QED
      BY <3>1 DEF Entry
  <2>2. CASE jsGraphResize[i].ctx = c
    BY <1>2, <2>2
  <2>3. CASE jsGraphResize[i].ctx # c
    BY <1>2, <2>1, <2>3 DEF OwnCharts
  <2>4. QED
    BY <2>2, <2>3
<1>5. QED
  BY <1>3, <1>4 DEF OwnCharts, OwnData

(* A frame of a chart: the loop carries the data of its canvas. *)
LEMMA LoopIsOwn ==
  ASSUME EngineIInv, OwnCharts, NEW c \in Ctx, NEW i \in DOMAIN chart[c].loops, NEW iter \in Int
  PROVE  LET lp == chart[c].loops[i]
             x == animateFrame(chart[c], lp, iter)
         IN  /\ lp \in Loop /\ lp.data.for = Owner(c) /\ lp.data \in Data
             /\ i = 1 /\ chart[c].firstPass \in 1 .. 4
             /\ x \in Chart /\ x.shown = lp.data /\ x.loops = chart[c].loops
             /\ x.loops \in Seq(Loop) /\ Len(x.loops) = 1
             /\ x.firstPass = chart[c].firstPass /\ x.prevWidth = MaxWidth
<1> DEFINE lp == chart[c].loops[i]
           x == animateFrame(chart[c], lp, iter)
<1>1. /\ chart[c] \in Chart /\ chart[c].firstPass \in 1 .. 4 /\ i = 1
      /\ Len(chart[c].loops) = 1 /\ chart[c].loops \in Seq(Loop) /\ lp \in Loop
  BY OnlyLoop
<1>2. lp.data.for = Owner(c) /\ chart[c].prevWidth = MaxWidth
  BY <1>1 DEF OwnCharts, OwnData, Undefined
<1>3. lp.data \in Data
  BY <1>1 DEF Loop
<1> HIDE DEF lp
<1>4. /\ x \in Chart /\ x.loops = chart[c].loops /\ x.firstPass = chart[c].firstPass
      /\ x.prevWidth = chart[c].prevWidth /\ x.shown = lp.data
  BY <1>1, AnimateFrame, AnimateData
<1> HIDE DEF x
<1>5. QED
  BY <1>1, <1>2, <1>3, <1>4 DEF lp, x

LEMMA GoesOnOwn ==
  ASSUME EngineIInv, OwnCharts, NEW c \in Ctx, NEW i \in DOMAIN chart[c].loops, NEW iter \in Int,
         NEW next, next.data = chart[c].loops[i].data,
         chart' = [chart EXCEPT
                     ![c] = WithLoop(animateFrame(chart[c], chart[c].loops[i], iter), i, next)],
         UNCHANGED <<jsGraphResize, dynamicDisplay>>
  PROVE  OwnCharts'
<1> DEFINE lp == chart[c].loops[i]
           x == animateFrame(chart[c], lp, iter)
           l == [x.loops EXCEPT ![i] = next]
           r == [x EXCEPT !.loops = l]
<1>1. /\ lp.data.for = Owner(c) /\ i = 1 /\ chart[c].firstPass \in 1 .. 4
      /\ x \in Chart /\ x.shown = lp.data /\ x.loops \in Seq(Loop) /\ Len(x.loops) = 1
      /\ x.firstPass = chart[c].firstPass /\ x.prevWidth = MaxWidth
  BY LoopIsOwn
<1>2. chart' = [chart EXCEPT ![c] = r]
  BY DEF WithLoop
<1> HIDE DEF x
<1>3. \A j \in DOMAIN l : l[j].data = lp.data
  <2>1. DOMAIN l = {1} /\ l[1] = next
    BY <1>1
  <2>2. QED
    BY <2>1
<1> HIDE DEF l, lp
<1>4. r.loops = l /\ r.shown = x.shown /\ r.prevWidth = x.prevWidth /\ r.firstPass = x.firstPass
  BY <1>1 DEF Chart, ChartIn
<1> HIDE DEF r
<1>5. OwnData(c, r) /\ r.firstPass # Undefined
  BY <1>1, <1>3, <1>4 DEF OwnData, Undefined
<1>6. QED
  BY <1>2, <1>5, OwnChart

LEMMA NextFrameOwn ==
  ASSUME EngineIInv, OwnCharts, NEW c \in Ctx, NEW i \in DOMAIN chart[c].loops, NextFrame(c, i)
  PROVE  OwnCharts'
<1> DEFINE lp == chart[c].loops[i]
           iter == lp.iter + lp.mult
           atStart == lp.mult = -1 /\ iter <= 0
           next == [lp EXCEPT !.iter = iter, !.mult = IF atStart THEN 1 ELSE @]
<1>1. lp \in Loop
  BY OnlyLoop
<1>2. iter \in Int /\ next.data = lp.data
  BY <1>1 DEF Loop
<1>3. /\ chart' = [chart EXCEPT ![c] = WithLoop(animateFrame(chart[c], lp, iter), i, next)]
      /\ UNCHANGED <<jsGraphResize, dynamicDisplay>>
  BY DEF NextFrame
<1> HIDE DEF iter, next
<1>4. QED
  BY <1>2, <1>3, GoesOnOwn

LEMMA RepeatFrameOwn ==
  ASSUME EngineIInv, OwnCharts, NEW c \in Ctx, NEW i \in DOMAIN chart[c].loops, RepeatFrame(c, i)
  PROVE  OwnCharts'
<1> DEFINE lp == chart[c].loops[i]
           iter == lp.iter + lp.mult
           back == lp.data.what.animationBackward /\ lp.mult = 1
           next == [lp EXCEPT !.count = @ + 1, !.mult = IF back THEN -1 ELSE 1,
                              !.iter = IF back THEN iter ELSE -1]
<1>1. lp \in Loop
  BY OnlyLoop
<1>2. iter \in Int /\ next.data = lp.data
  BY <1>1 DEF Loop
<1>3. /\ chart' = [chart EXCEPT ![c] = WithLoop(animateFrame(chart[c], lp, iter), i, next)]
      /\ UNCHANGED <<jsGraphResize, dynamicDisplay>>
  BY DEF RepeatFrame
<1> HIDE DEF iter, next
<1>4. QED
  BY <1>2, <1>3, GoesOnOwn

(* The last frame: if the window was resized in the meantime, the chart is   *)
(* drawn again with the data it has, if at all.                              *)
LEMMA LastFrameOwn ==
  ASSUME EngineIInv, OwnCharts, NEW c \in Ctx, NEW i \in DOMAIN chart[c].loops, LastFrame(c, i)
  PROVE  OwnCharts'
<1> DEFINE lp == chart[c].loops[i]
           iter == lp.iter + lp.mult
           x == animateFrame(chart[c], lp, iter)
           l == SubSeq(x.loops, 1, i - 1) \o SubSeq(x.loops, i + 1, Len(x.loops))
           painted == [x EXCEPT !.loops = l]
           after == testRedraw(painted, lp.data, width)
           S == {Undefined} \cup 1 .. 5
           T == {Undefined} \cup 0 .. 7
<1>1. lp \in Loop
  BY OnlyLoop
<1>2. iter \in Int
  BY <1>1 DEF Loop
<1>3. /\ lp.data.for = Owner(c) /\ lp.data \in Data /\ i = 1 /\ chart[c].firstPass \in 1 .. 4
      /\ x \in Chart /\ x.shown = lp.data /\ x.loops \in Seq(Loop) /\ Len(x.loops) = 1
      /\ x.firstPass = chart[c].firstPass /\ x.prevWidth = MaxWidth
  BY <1>2, LoopIsOwn
<1>4. chart' = [chart EXCEPT ![c] = after] /\ UNCHANGED <<jsGraphResize, dynamicDisplay>>
  BY DEF LastFrame, WithoutLoop
<1> HIDE DEF x, lp
<1>5. l = <<>>
  <2>1. SubSeq(x.loops, 1, 0) = <<>> /\ SubSeq(x.loops, 2, 1) = <<>>
    BY <1>3
  <2>2. QED
    BY <1>3, <2>1
<1> HIDE DEF l
<1>6. Chart = ChartIn(S) /\ Passing = ChartIn(T) /\ l \in Seq(Loop) /\ 6 \in T /\ 5 \in S
  <2>1. 6 \in T /\ 5 \in S
    OBVIOUS
  <2>2. Chart = ChartIn(S) /\ Passing = ChartIn(T)
    BY DEF Chart, Passing
  <2>3. l \in Seq(Loop)
    BY <1>5, EmptySeq
  <2>4. QED
    BY <2>1, <2>2, <2>3
<1> HIDE DEF S, T
<1>7. /\ painted \in Chart /\ painted.loops = <<>> /\ painted.firstPass = x.firstPass
      /\ painted.shown = x.shown /\ painted.prevWidth = MaxWidth
  <2>1. x \in ChartIn(S)
    BY <1>3, <1>6
  <2>2. /\ painted \in ChartIn(S) /\ painted.loops = l /\ painted.firstPass = x.firstPass
        /\ painted.shown = x.shown /\ painted.prevWidth = x.prevWidth
    BY <1>6, <2>1, SetLoops
  <2>3. QED
    BY <1>3, <1>5, <1>6, <2>2
<1> HIDE DEF painted
<1>8. OwnData(c, after) /\ after.firstPass # Undefined
  <2>1. CASE painted.firstPass \in {2, 4}
    <3> DEFINE y == [painted EXCEPT !.firstPass = 6]
               r == subUpdate(y, lp.data, width)
    <3>1. after = r
      BY <2>1 DEF testRedraw
    <3>2. /\ y \in Passing /\ y.firstPass = 6 /\ y.loops = <<>> /\ y.shown = lp.data
          /\ y.prevWidth = MaxWidth
      BY <1>3, <1>6, <1>7, SetPass
    <3> HIDE DEF y
    <3>3. width \in Width /\ width \in Nat
      BY EngineAssumption DEF EngineIInv, EngineTypeOK
    <3>4. ~redraws(y, width)
      BY <3>2, <3>3, OneWidth DEF redraws, Undefined
    <3>5. Len(y.loops) = IF y.firstPass \in 1 .. 4 THEN 1 ELSE 0
      BY <3>2
    <3>6. r.firstPass # Undefined /\ r.shown = y.shown /\ r.loops = y.loops
      BY <1>3, <3>2, <3>3, <3>4, <3>5, SubUpdateData
    <3>7. r.prevWidth = MaxWidth
      BY <1>3, <3>2, <3>3, SubUpdateWidth, OneWidth
    <3> HIDE DEF r
    <3>8. OwnData(c, r)
      BY <1>3, <3>2, <3>6, <3>7 DEF OwnData
    <3>9. QED
      BY <3>1, <3>6, <3>8
  <2>2. CASE painted.firstPass \notin {2, 4}
    <3> DEFINE r == [painted EXCEPT !.firstPass = 5]
    <3>1. after = r
      BY <2>2 DEF testRedraw
    <3>2. /\ r.firstPass = 5 /\ r.loops = <<>> /\ r.shown = lp.data /\ r.prevWidth = MaxWidth
      BY <1>3, <1>6, <1>7, SetPass
    <3> HIDE DEF r
    <3>3. QED
      BY <1>3, <3>1, <3>2 DEF OwnData, Undefined
  <2>3. QED
    BY <2>1, <2>2
<1> HIDE DEF after
<1>9. QED
  BY <1>4, <1>8, OwnChart

(* A resize does not draw a registered chart again: it has been drawn, at    *)
(* the one width there is.                                                   *)
LEMMA ResizeOwn ==
  ASSUME EngineIInv, OwnCharts, chartJsResize
  PROVE  OwnCharts'
<1> DEFINE entry == jsGraphResize[at]
           c == entry.ctx
           fp == IF chart[c].firstPass = 5 THEN 6 ELSE chart[c].firstPass
           cv == [chart[c] EXCEPT !.firstPass = fp]
           r == subUpdate(cv, entry.data, width)
<1>1. at \in DOMAIN jsGraphResize /\ jsGraphResize \in Seq(Entry)
  BY DEF EngineIInv, EngineTypeOK, chartJsResize, Entry
<1>2. entry \in Entry
  BY <1>1
<1>3. c \in Ctx /\ entry.data \in Data
  <2> HIDE DEF entry
  <2>1. QED
    BY <1>2 DEF Entry
<1>4. chart' = [chart EXCEPT ![c] = r] /\ UNCHANGED <<jsGraphResize, dynamicDisplay>>
  BY DEF chartJsResize, subUpdateChart, dynamicReady, dynamicFunction, OwnCharts
<1>5. /\ chart[c] \in Chart /\ GoodChart(chart[c]) /\ OwnData(c, chart[c])
      /\ width \in Width /\ width \in Nat
  BY <1>3, EngineAssumption DEF EngineIInv, EngineTypeOK, OwnCharts
<1>6. chart[c].firstPass # Undefined
  BY <1>1 DEF OwnCharts
<1>7. fp \in {1, 2, 3, 4, 6} /\ (fp = 6 => chart[c].firstPass = 5)
      /\ (fp \in 1 .. 4 <=> chart[c].firstPass \in 1 .. 4)
  BY <1>5, <1>6 DEF Chart, ChartIn, Undefined
<1> HIDE DEF entry, fp
<1>8. /\ cv \in Passing /\ cv.firstPass = fp /\ cv.loops = chart[c].loops
      /\ cv.shown = chart[c].shown /\ cv.prevWidth = chart[c].prevWidth /\ cv.full = chart[c].full
  <2> DEFINE S == {Undefined} \cup 1 .. 5
             T == {Undefined} \cup 0 .. 7
  <2>1. fp \in T
    BY <1>7
  <2>2. chart[c] \in ChartIn(S) /\ Passing = ChartIn(T)
    BY <1>5 DEF Chart, Passing
  <2> HIDE DEF S, T, c
  <2>3. QED
    BY <2>1, <2>2, SetPass
<1> HIDE DEF cv, c
<1>9. cv.prevWidth = MaxWidth /\ OwnData(c, cv)
  BY <1>5, <1>6, <1>8 DEF OwnData
<1>10. ~redraws(cv, width)
  BY <1>5, <1>7, <1>8, <1>9, OneWidth DEF redraws, Undefined
<1>11. Ready(cv)
  <2>1. Len(cv.loops) = IF cv.firstPass \in 1 .. 4 THEN 1 ELSE 0
    BY <1>5, <1>7, <1>8 DEF GoodChart
  <2>2. cv.firstPass = 6 /\ cv.prevWidth >= DrawableWidth => cv.full
    BY <1>5, <1>7, <1>8 DEF GoodChart
  <2>3. QED
    BY <2>1, <2>2 DEF Ready, OwnCharts
<1>12. OwnData(c, r) /\ r.firstPass # Undefined
  BY <1>3, <1>5, <1>8, <1>9, <1>10, <1>11, SubUpdateOwn
<1> HIDE DEF r
<1>13. QED
  BY <1>3, <1>4, <1>12, OwnChart

LEMMA BrowserOwn ==
  ASSUME EngineIInv, OwnCharts, Browser
  PROVE  EngineIInv' /\ OwnCharts'
<1>1. EngineIInv'
  BY EngineStep DEF EngineNext
<1>2. ASSUME NEW c \in Ctx, AnimFrame(c) PROVE OwnCharts'
  <2>1. PICK i \in DOMAIN chart[c].loops : NextFrame(c, i) \/ RepeatFrame(c, i) \/ LastFrame(c, i)
    BY <1>2 DEF AnimFrame
  <2>2. QED
    BY <2>1, NextFrameOwn, RepeatFrameOwn, LastFrameOwn
<1>3. ASSUME UNCHANGED <<chart, jsGraphResize, dynamicDisplay>> PROVE OwnCharts'
  BY <1>3 DEF OwnCharts, OwnData
<1>4. ASSUME NEW w \in Width, ResizeWindow(w) PROVE OwnCharts'
  BY <1>3, <1>4 DEF ResizeWindow
<1>5. ASSUME Tick PROVE OwnCharts'
  BY <1>3, <1>5 DEF Tick
<1>6. ASSUME chartJsResize PROVE OwnCharts'
  BY <1>6, ResizeOwn
<1>7. QED
  BY <1>1, <1>2, <1>4, <1>5, <1>6 DEF Browser

(* A script has rendered charts. *)
LEMMA Rendered ==
  ASSUME PageIInv, NEW e \in Fitting, Becomes(e),
         UNCHANGED <<width, dynamicDisplay, visible, handler, at, ms, events>>, handler = "idle"
  PROVE  EngineIInv' /\ OwnCharts'
<1>1. /\ e.chart \in [Ctx -> Chart] /\ e.resize \in Seq(Entry)
      /\ e.annotate \in [1 .. MaxMs -> Seq(Entry)]
      /\ \A c \in Ctx : GoodChart(e.chart[c]) /\ OwnData(c, e.chart[c])
      /\ \A i \in DOMAIN e.resize : e.chart[e.resize[i].ctx].firstPass # Undefined
  BY FittingParts
<1>2. chart' = e.chart /\ jsGraphResize' = e.resize /\ jsGraphAnnotate' = e.annotate
  BY DEF Becomes
<1>3. EngineKept'
  BY <1>1, <1>2 DEF EngineKept, GoodChart, Found, Entry
<1>4. Around'
  BY InvariantParts DEF PageIInv, Around
<1>5. OwnCharts'
  BY <1>1, <1>2 DEF PageIInv, OwnCharts, OwnData
<1>6. QED
  BY <1>3, <1>4, <1>5, InvariantNext

(* Nothing is drawn. *)
LEMMA NothingDrawn ==
  ASSUME EngineIInv, OwnCharts, UNCHANGED engineVars
  PROVE  EngineIInv' /\ OwnCharts'
<1>1. EngineIInv'
  BY EngineStep
<1>2. QED
  BY <1>1 DEF engineVars, OwnCharts, OwnData

-----------------------------------------------------------------------------
(* What the rest of a page does. *)

(* The canvases stay, and at most one more change is counted for each of the *)
(* changes that the environment makes.                                       *)
LEMMA CanvasesStay ==
  ASSUME PageTypeOK, CanvasesSuffice, UNCHANGED <<part, dom, used>>, PageTypeOK',
         \A n \in Name : Changes(n)' - Changes(n) <= acts' - acts
  PROVE  CanvasesSuffice'
<1>1. \A n \in Name : used[n] \in Nat
  BY DEF PageTypeOK
<1>2. \A n \in Name : Changes(n) \in Int /\ Changes(n)' \in Int
  BY <1>1 DEF Changes
<1>3. acts \in Nat /\ acts' \in Nat
  BY DEF PageTypeOK
<1>4. part = "stats" => \A n \in Name : Changes(n)' <= acts' + 1
  <2> SUFFICES ASSUME part = "stats", NEW n \in Name PROVE Changes(n)' <= acts' + 1
    OBVIOUS
  <2>1. Changes(n) <= acts + 1
    BY DEF CanvasesSuffice
  <2>2. Changes(n)' - Changes(n) <= acts' - acts
    OBVIOUS
  <2> HIDE DEF Changes
  <2>3. QED
    BY <1>2, <1>3, <2>1, <2>2
<1>5. \A n \in Name : Shown(n)' => dom'[n] = used'[n]
  BY DEF CanvasesSuffice, Shown
<1>6. QED
  BY <1>4, <1>5 DEF CanvasesSuffice

(* A request, an answer or a failure: what the page is told changes. *)
LEMMA PollStep ==
  ASSUME PageIInv, UNCHANGED engineVars,
         UNCHANGED <<part, server, dom, used, hasData, posts, acts>>,
         panel' \in Int, slider' \in Int,
         \/ poll'.at \in {"timer", "sent", "dead"}
         \/ poll.at # "answered" /\ poll' = [at |-> "answered", says |-> server]
  PROVE  PageIInv'
<1>1. EngineIInv' /\ OwnCharts'
  BY NothingDrawn DEF PageIInv
<1>2. PollTypeOK'
  BY DEF PageIInv, PageTypeOK, PollTypeOK
<1>3. PageTypeOK'
  BY <1>2 DEF PageIInv, PageTypeOK
<1>4. ASSUME NEW n \in Name PROVE Changes(n)' - Changes(n) <= acts' - acts
  <2> DEFINE s == IF Shown(n) THEN 1 ELSE 0
             a == IF Shown(n) <=> Told(n) THEN 0 ELSE 1
             b == IF Told(n) <=> n \in server.names THEN 0 ELSE 1
             aa == IF Shown(n) <=> Told(n)' THEN 0 ELSE 1
             bb == IF Told(n)' <=> n \in server.names THEN 0 ELSE 1
  <2>1. Changes(n) = 2 * used[n] - s + a + b /\ Changes(n)' = 2 * used[n] - s + aa + bb
    BY DEF Changes, Shown
  <2>2. \/ Told(n)' <=> Shown(n)
        \/ (Told(n) <=> Shown(n)) /\ (Told(n)' <=> n \in server.names)
    <3>1. CASE poll'.at \in {"timer", "sent", "dead"}
      <4>1. poll'.at # "answered"
        BY <3>1
      <4>2. QED
        BY <4>1 DEF Told, Shown
    <3>2. CASE poll.at # "answered" /\ poll' = [at |-> "answered", says |-> server]
      <4>1. poll'.at = "answered" /\ poll'.says = server
        BY <3>2
      <4>2. QED
        BY <3>2, <4>1 DEF Told, Shown
    <3>3. QED
      BY <3>1, <3>2
  <2>3. aa + bb <= a + b
    BY <2>2
  <2>4. used[n] \in Nat /\ acts \in Nat /\ acts' = acts
    BY DEF PageIInv, PageTypeOK
  <2>5. s \in Int /\ a \in Int /\ b \in Int /\ aa \in Int /\ bb \in Int
    OBVIOUS
  <2> HIDE DEF s, a, b, aa, bb
  <2>6. QED
    BY <2>1, <2>3, <2>4, <2>5
<1>5. CanvasesSuffice'
  BY <1>3, <1>4, CanvasesStay DEF PageIInv
<1>6. QED
  BY <1>1, <1>3, <1>5 DEF PageIInv

(* The user, a post, a measurement, or a provider that comes or goes. *)
LEMMA OutsideStep ==
  ASSUME PageIInv, UNCHANGED engineVars, UNCHANGED <<part, poll, dom, used>>, PageTypeOK',
         acts' = acts + 1 \/ (acts' = acts /\ server'.names = server.names)
  PROVE  PageIInv'
<1>1. EngineIInv' /\ OwnCharts'
  BY NothingDrawn DEF PageIInv
<1>2. ASSUME NEW n \in Name PROVE Changes(n)' - Changes(n) <= acts' - acts
  <2> DEFINE a == 2 * used[n] - (IF Shown(n) THEN 1 ELSE 0) + (IF Shown(n) <=> Told(n) THEN 0 ELSE 1)
             b == IF Told(n) <=> n \in server.names THEN 0 ELSE 1
             bb == IF Told(n) <=> n \in server'.names THEN 0 ELSE 1
  <2>1. Changes(n) = a + b /\ Changes(n)' = a + bb
    BY DEF Changes, Shown, Told
  <2>2. used[n] \in Nat /\ acts \in Nat
    BY DEF PageIInv, PageTypeOK
  <2>3. a \in Int /\ b \in {0, 1} /\ bb \in {0, 1}
    BY <2>2
  <2>4. server'.names = server.names => b = bb
    OBVIOUS
  <2> HIDE DEF a, b, bb
  <2>5. QED
    BY <2>1, <2>2, <2>3, <2>4
<1>3. CanvasesSuffice'
  BY <1>2, CanvasesStay DEF PageIInv
<1>4. QED
  BY <1>1, <1>3 DEF PageIInv

(* The statistics of the answer get canvases, the others lose theirs. *)
LEMMA RenderStatsStep == ASSUME PageIInv, renderStats PROVE PageIInv'
<1> DEFINE new == {n \in Name : n \in poll.says.names /\ dom[n] = 0}
<1>1. /\ handler = "idle" /\ poll.at = "answered" /\ poll' = Idle /\ part = "stats"
      /\ Becomes(StatsRendered)
      /\ used' = [n \in Name |-> IF n \in new THEN used[n] + 1 ELSE used[n]]
      /\ dom' = [n \in Name |-> CASE n \notin poll.says.names -> 0
                                  [] n \in new -> used[n] + 1
                                  [] OTHER -> dom[n]]
      /\ UNCHANGED <<width, dynamicDisplay, visible, handler, at, ms, events>>
      /\ UNCHANGED <<part, server, hasData, panel, slider, posts, acts>>
  BY DEF renderStats, onload, reschedule
<1>2. EngineIInv' /\ OwnCharts'
  BY <1>1, StatsFit, Rendered DEF Answered
<1>3. dom \in [Name -> Nat] /\ used \in [Name -> Nat]
  BY DEF PageIInv, PageTypeOK
<1>4. \A n \in Name :
        /\ n \notin poll.says.names => dom'[n] = 0 /\ used'[n] = used[n]
        /\ n \in poll.says.names /\ dom[n] = 0 => dom'[n] = used[n] + 1 /\ used'[n] = used[n] + 1
        /\ n \in poll.says.names /\ dom[n] # 0 => dom'[n] = dom[n] /\ used'[n] = used[n]
  BY <1>1
<1>5. dom' \in [Name -> Nat] /\ used' \in [Name -> Nat]
  BY <1>1, <1>3
<1>6. PollTypeOK' /\ poll'.at # "answered"
  BY <1>1 DEF PollTypeOK, Idle
<1>7. PageTypeOK'
  BY <1>1, <1>5, <1>6 DEF PageIInv, PageTypeOK
<1>8. ASSUME NEW n \in Name PROVE Changes(n)' <= acts' + 1
  <2>1. Changes(n) <= acts + 1 /\ used[n] \in Nat /\ dom[n] \in Nat /\ acts \in Nat /\ acts' = acts
    BY <1>1, <1>3 DEF PageIInv, CanvasesSuffice, PageTypeOK
  <2> DEFINE b == IF n \in poll.says.names <=> n \in server.names THEN 0 ELSE 1
  <2>2. (Told(n) <=> n \in poll.says.names) /\ (Shown(n) <=> dom[n] # 0)
    BY <1>1 DEF Told, Shown
  <2>3. (Shown(n)' <=> n \in poll.says.names) /\ (Told(n)' <=> n \in poll.says.names)
    BY <1>4, <1>6, <2>1 DEF Told, Shown
  <2>4. Changes(n)' = 2 * used'[n] - (IF n \in poll.says.names THEN 1 ELSE 0) + b
    BY <1>1, <1>4, <2>1, <2>3 DEF Changes
  <2>5. Changes(n) = 2 * used[n] - (IF dom[n] # 0 THEN 1 ELSE 0)
                       + (IF dom[n] # 0 <=> n \in poll.says.names THEN 0 ELSE 1) + b
    BY <2>2 DEF Changes
  <2>6. b \in Int
    OBVIOUS
  <2> HIDE DEF b
  <2>7. CASE n \notin poll.says.names
    BY <1>4, <2>1, <2>4, <2>5, <2>6, <2>7
  <2>8. CASE n \in poll.says.names
    BY <1>4, <2>1, <2>4, <2>5, <2>6, <2>8
  <2>9. QED
    BY <2>7, <2>8
<1>9. \A n \in Name : Shown(n)' => dom'[n] = used'[n]
  BY <1>1, <1>4 DEF PageIInv, CanvasesSuffice, Shown
<1>10. CanvasesSuffice'
  BY <1>1, <1>8, <1>9 DEF CanvasesSuffice
<1>11. QED
  BY <1>2, <1>7, <1>10 DEF PageIInv

(* The graphs of the dashboard have canvases of their own. *)
LEMMA RenderGraphsStep == ASSUME PageIInv, renderUtilisationGraph PROVE PageIInv'
<1>1. /\ handler = "idle" /\ poll.at = "answered" /\ poll' = Idle /\ part = "graphs"
      /\ Becomes(GraphsDrawn)
      /\ hasData' = hasData \cup Range(GraphsRendered)
      /\ UNCHANGED <<width, dynamicDisplay, visible, handler, at, ms, events>>
      /\ UNCHANGED <<part, server, dom, used, panel, slider, posts, acts>>
  BY DEF renderUtilisationGraph, onload, reschedule
<1>2. EngineIInv' /\ OwnCharts'
  BY <1>1, GraphsFit, Rendered DEF Answered
<1>3. Range(GraphsRendered) \subseteq {"queue", "data-store"}
  <2>1. GraphsRendered \in Seq({"queue", "data-store"})
    BY <1>1, GraphsKnown DEF Answered
  <2>2. QED
    BY <2>1 DEF Range
<1>4. PollTypeOK'
  BY <1>1 DEF PollTypeOK, Idle
<1>5. PageTypeOK'
  BY <1>1, <1>3, <1>4 DEF PageIInv, PageTypeOK
<1>6. CanvasesSuffice'
  BY <1>1 DEF PageIInv, CanvasesSuffice, Shown
<1>7. QED
  BY <1>2, <1>5, <1>6 DEF PageIInv

-----------------------------------------------------------------------------
(* The invariant of a page. *)

LEMMA PageStart == Init => PageIInv
<1> SUFFICES ASSUME Init PROVE PageIInv
  OBVIOUS
<1>1. EngineIInv
  BY EngineStart DEF Init
<1>2. OwnCharts
  <2>1. \A c \in Ctx : chart[c] = FreshChart
    BY DEF Init, EngineInit
  <2>2. \A c \in Ctx : OwnData(c, FreshChart)
    BY DEF OwnData, FreshChart, Undefined
  <2>3. jsGraphResize = <<>> /\ ~dynamicDisplay
    BY DEF Init, EngineInit
  <2>4. QED
    BY <2>1, <2>2, <2>3 DEF OwnCharts
<1>3. server \in Says /\ server.names = Name
  BY PageAssumption DEF Init, Says
<1>4. PollTypeOK /\ poll.at # "answered"
  BY DEF Init, PollTypeOK, Idle
<1>5. dom \in [Name -> Nat] /\ used \in [Name -> Nat]
  BY DEF Init
<1>6. PageTypeOK
  BY <1>3, <1>4, <1>5, PageAssumption DEF Init, PageTypeOK, Parts
<1>7. CanvasesSuffice
  <2>1. \A n \in Name : dom[n] = used[n] /\ (part # "stats" => dom[n] = 1) /\ (part = "stats" => dom[n] = 0)
    BY DEF Init
  <2>2. ASSUME part = "stats", NEW n \in Name PROVE Changes(n) <= acts + 1
    <3>1. used[n] = 0 /\ ~Shown(n) /\ ~Told(n) /\ n \in server.names /\ acts = 0
      BY <1>3, <1>4, <2>1, <2>2 DEF Shown, Told, Init
    <3>2. QED
      BY <3>1 DEF Changes
  <2>3. QED
    BY <2>1, <2>2 DEF CanvasesSuffice
<1>8. QED
  BY <1>1, <1>2, <1>6, <1>7 DEF PageIInv

(* The posts keep their type. *)
LEMMA PostsAreTyped ==
  ASSUME PageIInv
  PROVE  \A m \in posts : m.to \in {"utilisation", "scaleProducer"} /\ m.value \in Int
  BY DEF PageIInv, PageTypeOK

LEMMA PageStep == PageIInv /\ [Next]_vars => PageIInv'
<1> SUFFICES ASSUME PageIInv, [Next]_vars PROVE PageIInv'
  OBVIOUS
<1>1. CASE Browser /\ UNCHANGED pageVars
  <2>1. EngineIInv' /\ OwnCharts'
    BY <1>1, BrowserOwn DEF PageIInv
  <2>2. PageTypeOK'
    BY <1>1 DEF PageIInv, PageTypeOK, PollTypeOK, pageVars
  <2>3. CanvasesSuffice'
    BY <1>1 DEF PageIInv, CanvasesSuffice, Changes, Shown, Told, pageVars
  <2>4. QED
    BY <2>1, <2>2, <2>3 DEF PageIInv
<1>2. panel \in Int /\ slider \in Int /\ part \in Parts /\ server \in Says /\ acts \in 0 .. MaxAct
  BY DEF PageIInv, PageTypeOK
<1>3. CASE Send \/ NetworkError \/ LoadFailed
  <2>1. /\ UNCHANGED <<engineVars, part, server, dom, used, hasData, panel, slider, posts, acts>>
        /\ poll'.at \in {"timer", "sent", "dead"}
    BY <1>3 DEF Send, NetworkError, LoadFailed, onload, reschedule, Idle
  <2>2. QED
    BY <1>2, <2>1, PollStep
<1>4. CASE Answer
  <2>1. /\ UNCHANGED <<engineVars, part, server, dom, used, hasData, panel, slider, posts, acts>>
        /\ poll.at # "answered" /\ poll' = [at |-> "answered", says |-> server]
    BY <1>4 DEF Answer
  <2>2. QED
    BY <1>2, <2>1, PollStep
<1>5. CASE LoadNull \/ renderUtilisation \/ renderClusterInfo \/ renderSystemStats
  <2>1. poll.at = "answered" /\ poll' = Idle
    BY <1>5 DEF LoadNull, renderUtilisation, renderClusterInfo, renderSystemStats, onload, reschedule
  <2>2. poll.says.ver \in Int /\ poll.says.rate \in Int /\ poll.says.producers \in Int
    BY <2>1, AnsweredParts, PageAssumption DEF Answered, Says
  <2>3. UNCHANGED <<engineVars, part, server, dom, used, hasData, posts, acts>>
    BY <1>5 DEF LoadNull, renderUtilisation, renderClusterInfo, renderSystemStats
  <2>4. panel' \in Int /\ slider' \in Int
    BY <1>2, <1>5, <2>2 DEF LoadNull, renderUtilisation, renderClusterInfo, renderSystemStats
  <2>5. poll'.at \in {"timer", "sent", "dead"}
    BY <2>1 DEF Idle
  <2>6. QED
    BY <2>3, <2>4, <2>5, PollStep
<1>6. CASE renderStats
  BY <1>6, RenderStatsStep
<1>7. CASE renderUtilisationGraph
  BY <1>7, RenderGraphsStep
<1>8. ASSUME NEW v \in {0, 50}, postAndUpdateUtilisation(v) PROVE PageIInv'
  <2> DEFINE m == [to |-> "utilisation", value |-> v]
  <2>1. /\ acts' = acts + 1 /\ acts < MaxAct /\ slider' = v /\ posts' = posts \cup {m}
        /\ UNCHANGED <<engineVars, part, poll, server, dom, used, hasData, panel>>
    BY <1>8 DEF postAndUpdateUtilisation, Act
  <2>2. m.to = "utilisation" /\ m.value \in Int
    OBVIOUS
  <2> HIDE DEF m
  <2>3. \A x \in posts' : x.to \in {"utilisation", "scaleProducer"} /\ x.value \in Int
    BY <2>1, <2>2, PostsAreTyped
  <2>4. acts' \in 0 .. MaxAct /\ slider' \in Int
    BY <1>2, <2>1, PageAssumption
  <2>5. PageTypeOK'
    BY <2>1, <2>3, <2>4 DEF PageIInv, PageTypeOK, PollTypeOK
  <2>6. QED
    BY <2>1, <2>5, OutsideStep
<1>9. CASE scaleProducer(1)
  <2> DEFINE m == [to |-> "scaleProducer", value |-> 1]
  <2>1. /\ acts' = acts + 1 /\ acts < MaxAct /\ posts' = posts \cup {m}
        /\ UNCHANGED <<engineVars, part, poll, server, dom, used, hasData, panel, slider>>
    BY <1>9 DEF scaleProducer, Act
  <2>2. m.to = "scaleProducer" /\ m.value \in Int
    OBVIOUS
  <2> HIDE DEF m
  <2>3. \A x \in posts' : x.to \in {"utilisation", "scaleProducer"} /\ x.value \in Int
    BY <2>1, <2>2, PostsAreTyped
  <2>4. acts' \in 0 .. MaxAct
    BY <1>2, <2>1, PageAssumption
  <2>5. PageTypeOK'
    BY <2>1, <2>3, <2>4 DEF PageIInv, PageTypeOK, PollTypeOK
  <2>6. QED
    BY <2>1, <2>5, OutsideStep
<1>10. ASSUME NEW m \in posts, Post(m) PROVE PageIInv'
  <2>1. /\ posts' = posts \ {m}
        /\ UNCHANGED <<engineVars, part, poll, dom, used, hasData, panel, slider, acts>>
        /\ \/ server' = [server EXCEPT !.rate = m.value]
           \/ server' = [server EXCEPT !.producers = @ + m.value]
           \/ server' = server
    BY <1>10 DEF Post
  <2>2. m.value \in Int
    BY PostsAreTyped
  <2>3. server' \in Says /\ server'.names = server.names
    BY <1>2, <2>1, <2>2 DEF Says
  <2>4. PageTypeOK'
    BY <2>1, <2>3 DEF PageIInv, PageTypeOK, PollTypeOK
  <2>5. QED
    BY <2>1, <2>3, <2>4, OutsideStep
<1>11. CASE Measure
  <2>1. /\ server.ver < MaxVer /\ server' = [server EXCEPT !.ver = @ + 1]
        /\ UNCHANGED <<engineVars, part, poll, dom, used, hasData, panel, slider, posts, acts>>
    BY <1>11 DEF Measure
  <2>2. server' \in Says /\ server'.names = server.names
    <3> DEFINE v == server.ver + 1
               V == 1 .. MaxVer
    <3>1. v \in V
      BY <1>2, <2>1, PageAssumption DEF Says
    <3>2. server' = [server EXCEPT !.ver = v] /\ Says = [names : SUBSET Name, ver : V, rate : Int, producers : Int]
      BY <2>1 DEF Says
    <3> HIDE DEF v, V
    <3>3. QED
      BY <1>2, <3>1, <3>2
  <2>3. PageTypeOK'
    BY <2>1, <2>2 DEF PageIInv, PageTypeOK, PollTypeOK
  <2>4. QED
    BY <2>1, <2>2, <2>3, OutsideStep
<1>12. ASSUME NEW n \in Name, Provider(n) PROVE PageIInv'
  <2> DEFINE names == IF n \in server.names THEN server.names \ {n} ELSE server.names \cup {n}
  <2>1. /\ acts' = acts + 1 /\ acts < MaxAct /\ server' = [server EXCEPT !.names = names]
        /\ UNCHANGED <<engineVars, part, poll, dom, used, hasData, panel, slider, posts>>
    BY <1>12 DEF Provider, Act
  <2>2. names \in SUBSET Name
    BY <1>2 DEF Says
  <2> HIDE DEF names
  <2>3. server' \in Says
    BY <1>2, <2>1, <2>2 DEF Says
  <2>4. acts' \in 0 .. MaxAct
    BY <1>2, <2>1, PageAssumption
  <2>5. PageTypeOK'
    BY <2>1, <2>3, <2>4 DEF PageIInv, PageTypeOK, PollTypeOK
  <2>6. QED
    BY <2>1, <2>5, OutsideStep
<1>13. CASE UNCHANGED vars
  <2>1. EngineIInv' /\ OwnCharts'
    BY <1>13, NothingDrawn DEF PageIInv, vars
  <2>2. PageTypeOK' /\ CanvasesSuffice'
    BY <1>13 DEF PageIInv, PageTypeOK, PollTypeOK, CanvasesSuffice, Changes, Shown, Told, vars, pageVars
  <2>3. QED
    BY <2>1, <2>2 DEF PageIInv
<1>14. QED
  BY <1>1, <1>3, <1>4, <1>5, <1>6, <1>7, <1>8, <1>9, <1>10, <1>11, <1>12, <1>13
  DEF Next, LoadOk

(* The invariant of a page: the engine is in a state its own invariant       *)
(* allows, the canvases carry their own data, the registered charts have     *)
(* been drawn, and there is a canvas element for every statistic, whatever   *)
(* the servlet answers and the user does (inaeticsCommon.js,                 *)
(* inaeticsStats.js, inaeticsDashboard.js).                                  *)
THEOREM PageInvariant == Spec => []PageIInv
  BY PageStart, PageStep, PTL DEF Spec

(* Each canvas only ever shows the statistic it is named after, although     *)
(* the dashboard picks the statistics of an answer by their position and     *)
(* although the data kept for a resize may be those of another chart.        *)
THEOREM CanvasesShowOwn == Spec => []OwnStatistic
<1>1. PageIInv => OwnStatistic
  BY DEF PageIInv, OwnCharts, OwnData, OwnStatistic
<1>2. QED
  BY <1>1, PageInvariant, PTL

(* Rendering several charts in one callback, in any state of their           *)
(* animations, keeps drawing states and animation loops together, and a      *)
(* chart of a page that is at rest shows all its data (ChartNew.js under     *)
(* renderStat and renderGraph).                                              *)
THEOREM PageChartsSound == Spec => [](LoopMatchesPass /\ EndsComplete)
<1>1. PageIInv => LoopMatchesPass /\ EndsComplete
  BY DEF PageIInv, EngineIInv, GoodChart, LoopMatchesPass, EndsComplete
<1>2. QED
  BY <1>1, PageInvariant, PTL

================================================================================
