------------------------------ MODULE Dashboard ------------------------------
(***************************************************************************)
(* The two pages of the demonstrator (inaeticsCommon.js, inaeticsStats.js,  *)
(* inaeticsDashboard.js) in a browser, with the charts of ChartEngine.      *)
(*                                                                          *)
(* Every part of a page polls the coordinator servlet: a request is sent,   *)
(* the answer is rendered, and a timer sends the next request. The page     *)
(* "stats" has a canvas for each statistic the servlet reports; the         *)
(* dashboard has two graphs with canvases of their own ("graphs"), a table  *)
(* with a slider ("systemStats") and two panels. The parts share nothing    *)
(* but the event loop and are looked at one by one. Scripts run to          *)
(* completion: a callback that draws several charts is one step.            *)
(***************************************************************************)
EXTENDS ChartEngine, Functions

CONSTANTS
  NameOrder,         \* the statistics, sorted as the servlet sorts them
  MaxVer,            \* bound: versions of the measured values
  MaxAct             \* bound: what the user does, and how often providers change

(* Charts are drawn without animation; the page stats turns it on for a new   *)
(* chart.                                                                    *)
PageOpts(ver, new) ==
  [ver |-> ver, animation |-> new, animationCount |-> 1, animationBackward |-> FALSE]

ASSUME PageAssumption ==
  /\ MaxVer \in Nat \ {0} /\ MaxAct \in Nat
  /\ NameOrder \in Seq(Name) /\ Name = {NameOrder[i] : i \in DOMAIN NameOrder}
  /\ \A i, j \in DOMAIN NameOrder : NameOrder[i] = NameOrder[j] => i = j
  /\ {"queue", "data-store"} \subseteq Name
  /\ \A ver \in 1 .. MaxVer, new \in BOOLEAN : PageOpts(ver, new) \in Content
  /\ 1 .. MaxAct \div 2 + 1 \subseteq Generation
  /\ MinWidth = MaxWidth

VARIABLES
  part,              \* the page, or the part of it
  poll,              \* its request: where it is, and the answer
  server,            \* what the servlet would answer
  dom,               \* the canvas of each statistic on the page (0: none)
  used,              \* canvas elements that were created for each statistic
  hasData,           \* canvases with the attribute hasData
  panel,             \* what a panel or table shows (0: it is empty)
  slider,            \* the position of the slider
  posts,             \* posts on their way
  acts               \* what the environment has done

pageVars == <<part, poll, server, dom, used, hasData, panel, slider, posts, acts>>
vars == <<engineVars, pageVars>>

Idle == [at |-> "timer"]
Graphical == part \in {"stats", "graphs"}

Init ==
  /\ EngineInit /\ ~dynamicDisplay /\ width = MaxWidth
  /\ part \in {"stats", "graphs", "systemStats", "utilisation", "clusterInfo"}
  /\ poll = Idle
  /\ server = [names |-> Name, ver |-> 1, rate |-> 5, producers |-> 5]
  /\ dom = [n \in Name |-> IF part = "stats" THEN 0 ELSE 1]
  /\ used = dom /\ hasData = {}
  /\ panel = 0 /\ slider = 20 /\ posts = {} /\ acts = 0

--------------------------------------------------------------------------------
(* Requests (getJSON). *)

(* The timer is due: the request is sent. *)
Send ==
  /\ handler = "idle" /\ poll.at = "timer"
  /\ poll' = [at |-> "sent"]
  /\ UNCHANGED <<engineVars, part, server, dom, used, hasData, panel, slider,
                 posts, acts>>

(* CoordinatorServlet answers with what it knows at that moment. *)
Answer ==
  /\ poll.at = "sent"
  /\ poll' = [at |-> "answered", says |-> server]
  /\ UNCHANGED <<engineVars, part, server, dom, used, hasData, panel, slider,
                 posts, acts>>

(* The connection fails: onload is never called, and there is no onerror. *)
NetworkError ==
  /\ poll.at \in {"sent", "answered"}
  /\ poll' = [at |-> "dead"]
  /\ UNCHANGED <<engineVars, part, server, dom, used, hasData, panel, slider,
                 posts, acts>>

(* The finally clause of onload, whatever the callback did. *)
reschedule == poll' = Idle

onload == handler = "idle" /\ poll.at = "answered" /\ reschedule

(* Faulty: a failed request is not repeated. *)
LoadFailedForGood ==
  /\ handler = "idle" /\ poll.at = "answered"
  /\ poll' = [at |-> "stopped"]
  /\ UNCHANGED <<engineVars, part, server, dom, used, hasData, panel, slider,
                 posts, acts>>

(* A status other than 200 is logged. *)
LoadFailed ==
  /\ onload
  /\ UNCHANGED <<engineVars, part, server, dom, used, hasData, panel, slider,
                 posts, acts>>

(* An answer without JSON: the callbacks get null. Graphs and statistics      *)
(* return, renderUtilisation throws, and the tables are emptied.             *)
LoadNull ==
  /\ onload
  /\ panel' = IF part \in {"systemStats", "clusterInfo"} THEN 0 ELSE panel
  /\ UNCHANGED <<engineVars, part, server, dom, used, hasData, slider, posts,
                 acts>>

renderUtilisation ==
  /\ onload /\ part = "utilisation"
  /\ panel' = poll.says.ver
  /\ UNCHANGED <<engineVars, part, server, dom, used, hasData, slider, posts,
                 acts>>

renderClusterInfo ==
  /\ onload /\ part = "clusterInfo"
  /\ panel' = poll.says.ver
  /\ UNCHANGED <<engineVars, part, server, dom, used, hasData, slider, posts,
                 acts>>

(* Faulty: the slider is set by the first answer only. *)
renderSystemStatsOnce ==
  /\ onload /\ part = "systemStats"
  /\ panel' = poll.says.producers
  /\ slider' = IF panel = 0 THEN poll.says.rate ELSE slider
  /\ UNCHANGED <<engineVars, part, server, dom, used, hasData, posts, acts>>

(* The slider is set to the rate of the answer, also while the user moves it. *)
renderSystemStats ==
  /\ onload /\ part = "systemStats"
  /\ panel' = poll.says.producers
  /\ slider' = poll.says.rate
  /\ UNCHANGED <<engineVars, part, server, dom, used, hasData, posts, acts>>

--------------------------------------------------------------------------------
(* Rendering statistics. *)

(* The dashboard asks for two statistics, the page stats for all of them. *)
Wanted == IF part = "graphs" THEN {"queue", "data-store"} ELSE Name

(* The statistics of the answer, in the order of their names. *)
Reported ==
  LET upTo[i \in 0 .. Len(NameOrder)] ==
        IF i = 0 THEN <<>>
        ELSE IF NameOrder[i] \in poll.says.names \cap Wanted
             THEN Append(upTo[i - 1], NameOrder[i])
             ELSE upTo[i - 1]
  IN  upTo[Len(NameOrder)]

(* The data of a statistic. *)
getData(n, opts) == [for |-> n, what |-> opts]

getChartOpts(new) == PageOpts(poll.says.ver, new)

(* Faulty: a canvas that is there is not updated. *)
renderStatNew(e, n) ==
  IF dom[n] = 0
  THEN init_and_start(e, <<n, used[n] + 1>>, getData(n, getChartOpts(TRUE)), TRUE)
  ELSE e

(* One statistic of the answer: a new chart on a new canvas, or an update. *)
renderStat(e, n) ==
  IF dom[n] = 0
  THEN init_and_start(e, <<n, used[n] + 1>>, getData(n, getChartOpts(TRUE)), TRUE)
  ELSE updateChart(e, <<n, dom[n]>>, getData(n, getChartOpts(FALSE)), FALSE, TRUE)

(* One statistic after the other. *)
StatsRendered ==
  LET rendered[i \in 0 .. Len(Reported)] ==
        IF i = 0 THEN Engine ELSE renderStat(rendered[i - 1], Reported[i])
  IN  rendered[Len(Reported)]

(* Canvases of statistics that are not in the answer are removed; the engine  *)
(* keeps their charts.                                                       *)
renderStats ==
  LET new == {n \in Name : n \in poll.says.names /\ dom[n] = 0}
  IN  /\ onload /\ part = "stats"
      /\ Becomes(StatsRendered)
      /\ used' = [n \in Name |-> IF n \in new THEN used[n] + 1 ELSE used[n]]
      /\ dom' = [n \in Name |-> CASE n \notin poll.says.names -> 0
                                  [] n \in new -> used[n] + 1
                                  [] OTHER -> dom[n]]
      /\ UNCHANGED <<width, dynamicDisplay, visible, handler, at, ms, events>>
      /\ UNCHANGED <<part, server, hasData, panel, slider, posts, acts>>

(* Faulty: the order of the answer is taken for granted. *)
StatsIdxFixed(canvas) == IF canvas = "queue" THEN 1 ELSE 2

(* The position in the answer of the statistic for a canvas: only the name of *)
(* the first statistic is looked at, the other canvas gets the other one.    *)
StatsIdx(canvas) ==
  LET queueIdx == IF Reported[1] = "queue" THEN 1 ELSE 2
  IN  IF canvas = "queue" THEN queueIdx ELSE 3 - queueIdx

(* The canvases that are rendered before the callback ends: it throws when    *)
(* the statistic for a canvas is not in the answer.                          *)
GraphsRendered ==
  LET canvases == <<"queue", "data-store">>
      throws(i) == Reported = <<>> \/ StatsIdx(canvases[i]) \notin DOMAIN Reported
  IN  IF throws(1) THEN <<>> ELSE IF throws(2) THEN <<"queue">> ELSE canvases

renderGraph(e, canvas) ==
  LET d == getData(Reported[StatsIdx(canvas)], getChartOpts(FALSE))
  IN  IF canvas \in hasData
      THEN updateChart(e, <<canvas, 1>>, d, FALSE, TRUE)
      ELSE init_and_start(e, <<canvas, 1>>, d, TRUE)

GraphsDrawn ==
  LET drawn[i \in 0 .. Len(GraphsRendered)] ==
        IF i = 0 THEN Engine ELSE renderGraph(drawn[i - 1], GraphsRendered[i])
  IN  drawn[Len(GraphsRendered)]

renderUtilisationGraph ==
  /\ onload /\ part = "graphs"
  /\ Becomes(GraphsDrawn)
  /\ hasData' = hasData \cup Range(GraphsRendered)
  /\ UNCHANGED <<width, dynamicDisplay, visible, handler, at, ms, events>>
  /\ UNCHANGED <<part, server, dom, used, panel, slider, posts, acts>>

LoadOk ==
  \/ renderStats \/ renderUtilisationGraph
  \/ renderUtilisation \/ renderSystemStats \/ renderClusterInfo

--------------------------------------------------------------------------------
(* The user, and the servlet. *)

Act == acts < MaxAct /\ acts' = acts + 1

(* Nobody waits for the answer of a post. *)
postAndUpdateUtilisation(val) ==
  /\ part = "systemStats" /\ Act
  /\ slider' = val
  /\ posts' = posts \cup {[to |-> "utilisation", value |-> val]}
  /\ UNCHANGED <<engineVars, part, poll, server, dom, used, hasData, panel>>

scaleProducer(val) ==
  /\ part = "systemStats" /\ Act
  /\ posts' = posts \cup {[to |-> "scaleProducer", value |-> val]}
  /\ UNCHANGED <<engineVars, part, poll, server, dom, used, hasData, panel,
                 slider>>

(* A post arrives, in any order, or is lost: on the way, or because two       *)
(* scalings have read the same number of replicas.                           *)
Post(m) ==
  /\ m \in posts /\ posts' = posts \ {m}
  /\ \/ server' = IF m.to = "utilisation" THEN [server EXCEPT !.rate = m.value]
                  ELSE [server EXCEPT !.producers = @ + m.value]
     \/ UNCHANGED server
  /\ UNCHANGED <<engineVars, part, poll, dom, used, hasData, panel, slider, acts>>

(* New values are measured. *)
Measure ==
  /\ part # "systemStats" /\ server.ver < MaxVer
  /\ server' = [server EXCEPT !.ver = @ + 1]
  /\ UNCHANGED <<engineVars, part, poll, dom, used, hasData, panel, slider,
                 posts, acts>>

(* A provider of statistics does not answer in time, goes, or comes back. *)
Provider(n) ==
  /\ Graphical /\ Act
  /\ server' = [server EXCEPT !.names = IF n \in @ THEN @ \ {n} ELSE @ \cup {n}]
  /\ UNCHANGED <<engineVars, part, poll, dom, used, hasData, panel, slider, posts>>

Next ==
  \/ Browser /\ Graphical /\ UNCHANGED pageVars
  \/ Send \/ Answer \/ NetworkError
  \/ LoadFailed \/ LoadNull \/ LoadOk
  \/ \E v \in {0, 50} : postAndUpdateUtilisation(v)
  \/ scaleProducer(1)
  \/ \E m \in posts : Post(m)
  \/ Measure
  \/ \E n \in Name : Provider(n)

Spec == Init /\ [][Next]_vars

(* Browsers run due timers, events and frames; the servlet answers every      *)
(* request that reaches it, and does not fail every time; posts arrive or     *)
(* are lost.                                                                 *)
Fairness ==
  /\ WF_vars(chartJsResize /\ UNCHANGED pageVars)
  /\ \A c \in Ctx : WF_vars(AnimFrame(c) /\ UNCHANGED pageVars)
  /\ WF_vars(Send) /\ WF_vars(Answer)
  /\ WF_vars(LoadFailed \/ LoadNull \/ LoadOk) /\ SF_vars(LoadOk)
  /\ WF_vars(\E m \in posts : Post(m))

FairSpec == Spec /\ Fairness

--------------------------------------------------------------------------------
(* Properties. *)

Drawn(n) == chart[<<n, dom[n]>>]

(* Each canvas only ever shows the statistic it is named after, although the  *)
(* dashboard picks statistics by their position, and although charts may     *)
(* share an id and with it the data kept for a resize: the fixed size of the *)
(* charts (responsiveMinWidth = responsiveMaxWidth) keeps those from being   *)
(* drawn.                                                                    *)
OwnStatistic ==
  \A c \in Ctx : chart[c].shown = Blank \/ chart[c].shown.for = Owner(c)

(* A part of a page goes on polling for ever, also after failed requests,     *)
(* answers it cannot read and callbacks that throw, unless the network fails *)
(* under a request.                                                          *)
PollingGoesOn == []<>(poll.at \in {"dead", "sent"})

UpToDate(n) ==
  IF n \in server.names
  THEN dom[n] # 0 /\ Drawn(n).full /\ Drawn(n).shown.what.ver = server.ver
  ELSE part = "stats" => dom[n] = 0

(* When values and providers settle, every statistic gets a canvas that ends  *)
(* up showing all its last values, although updateChart drops what comes     *)
(* while a chart is being drawn, and no canvas is left of a provider that is *)
(* gone; on the dashboard if both statistics are reported.                   *)
LatestShown ==
  \A n \in Name :
    []<>(\/ ~Graphical \/ poll.at = "dead"
         \/ part = "graphs" /\ server.names # Name
         \/ UpToDate(n))

(* When the user has finished, the slider and the system panel end up at the  *)
(* values of the servlet, whichever posts were lost or overtook each other.  *)
ControlsSettle ==
  <>[](\/ part # "systemStats" \/ poll.at = "dead"
       \/ slider = server.rate /\ panel \in {0, server.producers})

(* The inductive invariant behind OwnStatistic. *)

Parts == {"stats", "graphs", "systemStats", "utilisation", "clusterInfo"}
Says == [names : SUBSET Name, ver : 1 .. MaxVer, rate : Int, producers : Int]
PollTypeOK ==
  \/ poll.at \in {"timer", "sent", "dead"}
  \/ poll.at = "answered" /\ poll.says \in Says

PageTypeOK ==
  /\ part \in Parts /\ PollTypeOK /\ server \in Says
  /\ dom \in [Name -> Nat] /\ used \in [Name -> Nat]
  /\ hasData \subseteq {"queue", "data-store"}
  /\ panel \in Int /\ slider \in Int /\ acts \in 0 .. MaxAct
  /\ \A m \in posts : m.to \in {"utilisation", "scaleProducer"} /\ m.value \in Int

(* What is drawn and what is being drawn on a canvas is its statistic. The    *)
(* data kept for a resize may be others; but a registered chart has been     *)
(* drawn, at the one width there is, and so a resize does not draw it again. *)
OwnData(c, cv) ==
  /\ \A i \in DOMAIN cv.loops : cv.loops[i].data.for = Owner(c)
  /\ cv.shown = Blank \/ cv.shown.for = Owner(c)
  /\ cv.firstPass # Undefined => cv.prevWidth = MaxWidth

OwnCharts ==
  /\ ~dynamicDisplay
  /\ \A c \in Ctx : OwnData(c, chart[c])
  /\ \A i \in DOMAIN jsGraphResize : chart[jsGraphResize[i].ctx].firstPass # Undefined

(* There are canvas elements enough: a new canvas for a statistic takes two   *)
(* changes of its provider, which the answer and the page follow later.      *)
Shown(n) == dom[n] # 0
Told(n) == IF poll.at = "answered" THEN n \in poll.says.names ELSE Shown(n)
Changes(n) ==
  2 * used[n] - (IF Shown(n) THEN 1 ELSE 0)
    + (IF Shown(n) <=> Told(n) THEN 0 ELSE 1)
    + (IF Told(n) <=> n \in server.names THEN 0 ELSE 1)

CanvasesSuffice ==
  /\ \A n \in Name : Shown(n) => dom[n] = used[n]
  /\ part = "stats" => \A n \in Name : Changes(n) <= acts + 1
  /\ part # "stats" => \A n \in Name : dom[n] = 1

PageIInv == EngineIInv /\ PageTypeOK /\ OwnCharts /\ CanvasesSuffice
================================================================================
