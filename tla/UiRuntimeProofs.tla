--------------------------- MODULE UiRuntimeProofs ---------------------------
(* The busy signals of a window keep its runtime calls apart, for any number of
   clicks, left pages and failures.                                         *)
EXTENDS UiRuntime, FiniteSetTheorems, TLAPS

\* A control has one record, with at least the fields that matter here.
Fields == {"stage", "owns"}
Shape == DOMAIN uiTask = Controls /\ \A c \in Controls : Fields \subseteq DOMAIN uiTask[c]

\* A task that only waits for its first poll has claimed nothing when it is one
\* of these; what a task has not claimed it cannot release.
Late(c) == c \in {"restart", "banner"} /\ UiAt(c, "queued")
LateInv == \A c \in Controls : Late(c) => uiTask[c].owns = {}

\* The heart: while a control is active some signal is set, and no other control
\* is active.
Active(c) == ~UiIdle(c) /\ ~Late(c)
OneInv ==
    beside \/ \A c \in Controls : Active(c) =>
                  busy # {} /\ \A d \in Controls : Active(d) => d = c

UiInv == Shape /\ LateInv /\ OneInv
-----------------------------------------------------------------------------
(* The start.                                                               *)
LEMMA UiInitSafe == UiInit => UiInv
<1> SUFFICES ASSUME UiInit PROVE UiInv
  OBVIOUS
<1>1. uiTask = [c \in Controls |-> NoUiTask]
  BY DEF UiInit
<1>2. DOMAIN uiTask = Controls /\ \A c \in Controls : uiTask[c] = NoUiTask
  BY <1>1
<1>3. Fields \subseteq DOMAIN NoUiTask /\ NoUiTask.stage = "none"
  BY DEF Fields, NoUiTask
<1> QED BY <1>2, <1>3 DEF UiInv, Shape, LateInv, OneInv, Late, Active, UiIdle, UiAt

(* What a step may do to the tasks.                                         *)
LEMMA Replaced ==
    ASSUME Shape, NEW c \in Controls, NEW r, uiTask' = [uiTask EXCEPT ![c] = r]
    PROVE  /\ DOMAIN uiTask' = Controls
           /\ uiTask'[c] = r /\ \A d \in Controls \ {c} : uiTask'[d] = uiTask[d]
BY DEF Shape

\* Nothing happens to the tasks and the signals.
LEMMA Elsewhere ==
    ASSUME UiInv, UNCHANGED <<uiTask, busy, beside>> PROVE UiInv'
BY DEF UiInv, Shape, LateInv, OneInv, Late, Active, UiIdle, UiAt

\* A click: nothing was busy, so nothing was active.
LEMMA Starts ==
    ASSUME UiInv, NEW c \in Controls, NEW claims, NEW r, busy = {},
           busy' = busy \cup claims, uiTask' = [uiTask EXCEPT ![c] = r], beside => beside',
           Fields \subseteq DOMAIN r, r.stage # "none",
           \/ claims # {}
           \/ c \in {"restart", "banner"} /\ r.stage = "queued" /\ r.owns = {},
           c \in {"restart", "banner"} => r.stage = "queued" /\ r.owns = {}
    PROVE  UiInv'
<1>1. DOMAIN uiTask' = Controls /\ uiTask'[c] = r /\ \A d \in Controls \ {c} : uiTask'[d] = uiTask[d]
  BY Replaced DEF UiInv
<1>2. Shape'
  BY <1>1 DEF UiInv, Shape
<1>3. LateInv'
  BY <1>1 DEF UiInv, LateInv, Late, UiAt
<1>4. OneInv'
  <2> SUFFICES ASSUME ~beside, ~beside' PROVE OneInv'
    BY DEF OneInv
  <2>1. \A d \in Controls : ~Active(d)
    BY DEF UiInv, OneInv
  <2>2. \A d \in Controls \ {c} : ~Active(d)'
    BY <1>1, <2>1 DEF Active, UiIdle, Late, UiAt
  <2>3. Active(c)' => busy' # {}
    BY <1>1 DEF Active, UiIdle, Late, UiAt
  <2> QED BY <2>2, <2>3 DEF OneInv
<1> QED BY <1>2, <1>3, <1>4 DEF UiInv

\* An active control goes on, and may claim more.
LEMMA GoesOn ==
    ASSUME UiInv, NEW c \in Controls, NEW r, Active(c), busy \subseteq busy',
           uiTask' = [uiTask EXCEPT ![c] = r], beside => beside',
           Fields \subseteq DOMAIN r, r.stage \notin {"none", "queued"}
    PROVE  UiInv'
<1>1. DOMAIN uiTask' = Controls /\ uiTask'[c] = r /\ \A d \in Controls \ {c} : uiTask'[d] = uiTask[d]
  BY Replaced DEF UiInv
<1>2. Shape'
  BY <1>1 DEF UiInv, Shape
<1>3. LateInv'
  BY <1>1 DEF UiInv, LateInv, Late, UiAt
<1>4. OneInv'
  <2> SUFFICES ASSUME ~beside, ~beside' PROVE OneInv'
    BY DEF OneInv
  <2>1. busy # {} /\ \A d \in Controls \ {c} : ~Active(d)
    BY DEF UiInv, OneInv
  <2>2. \A d \in Controls \ {c} : ~Active(d)'
    BY <1>1, <2>1 DEF Active, UiIdle, Late, UiAt
  <2> QED BY <2>1, <2>2 DEF OneInv
<1> QED BY <1>2, <1>3, <1>4 DEF UiInv

\* A task ends: it was the active one, or had claimed nothing.
LEMMA Ends ==
    ASSUME UiInv, NEW c \in Controls, ~UiIdle(c), EndTask(c), beside => beside' PROVE UiInv'
<1>0. uiTask' = [uiTask EXCEPT ![c] = NoUiTask] /\ busy' = busy \ uiTask[c].owns
  BY DEF EndTask
<1>1. /\ DOMAIN uiTask' = Controls /\ uiTask'[c] = NoUiTask
      /\ \A d \in Controls \ {c} : uiTask'[d] = uiTask[d]
  BY <1>0, Replaced DEF UiInv
<1>2. Fields \subseteq DOMAIN NoUiTask /\ NoUiTask.stage = "none"
  BY DEF Fields, NoUiTask
<1>3. Shape'
  BY <1>1, <1>2 DEF UiInv, Shape
<1>4. LateInv'
  BY <1>1, <1>2 DEF UiInv, LateInv, Late, UiAt
<1>5. ~Active(c)' /\ \A d \in Controls \ {c} : Active(d)' <=> Active(d)
  BY <1>1, <1>2 DEF Active, UiIdle, Late, UiAt
<1>6. OneInv'
  <2> SUFFICES ASSUME ~beside PROVE OneInv'
    BY DEF OneInv
  <2>1. CASE Active(c)
    <3>1. \A d \in Controls : ~Active(d)'
      BY <1>5, <2>1 DEF UiInv, OneInv
    <3> QED BY <3>1 DEF OneInv
  <2>2. CASE ~Active(c)
    <3>1. busy' = busy
      BY <1>0, <2>2 DEF UiInv, LateInv, Active
    <3> QED BY <1>5, <3>1 DEF UiInv, OneInv
  <2> QED BY <2>1, <2>2
<1> QED BY <1>3, <1>4, <1>6 DEF UiInv
-----------------------------------------------------------------------------
(* One lemma per group of actions.                                          *)
LEMMA ClicksSafe ==
    ASSUME UiInv,
           \/ PowerClick \/ TunClick \/ LanClick \/ ProxyClick \/ RestartClick
           \/ BannerClick \/ MemberClick
    PROVE  UiInv'
<1> USE DEF NoneBusy, Click, MarkStale, Controls
<1>1. CASE PowerClick
  <2> DEFINE r == New(IF ~ui.connected /\ ui.tun THEN "prepare" ELSE "call", ui.page,
                      {"core_busy"}, ~ui.connected, ui.tun, ui.lan)
  <2>1. /\ busy = {} /\ busy' = busy \cup {"core_busy"} /\ beside' = beside
        /\ uiTask' = [uiTask EXCEPT !["power"] = r]
    BY <1>1 DEF PowerClick
  <2>2. Fields \subseteq DOMAIN r /\ r.stage \in {"prepare", "call"}
    BY DEF New, Fields
  <2> HIDE DEF r
  <2> QED BY <2>1, <2>2, Starts
<1>2. CASE TunClick
  <2> DEFINE r == New("queued", ui.page, {"runtime_action_busy"}, ~ui.tun, ~ui.tun, ui.lan)
  <2>1. /\ busy = {} /\ busy' = busy \cup {"runtime_action_busy"} /\ beside' = beside
        /\ uiTask' = [uiTask EXCEPT !["tun"] = r]
    BY <1>2 DEF TunClick
  <2>2. Fields \subseteq DOMAIN r /\ r.stage = "queued"
    BY DEF New, Fields
  <2> HIDE DEF r
  <2> QED BY <2>1, <2>2, Starts
<1>3. CASE LanClick
  <2> DEFINE claims == {"runtime_action_busy", "core_restarting"}
             r == New("queued", ui.page, claims, ~ui.lan, ui.tun, ~ui.lan)
  <2>1. /\ busy = {} /\ busy' = busy \cup claims /\ beside' = beside /\ claims # {}
        /\ uiTask' = [uiTask EXCEPT !["lan"] = r]
    BY <1>3 DEF LanClick
  <2>2. Fields \subseteq DOMAIN r /\ r.stage = "queued"
    BY DEF New, Fields
  <2> HIDE DEF r, claims
  <2> QED BY <2>1, <2>2, Starts
<1>4. CASE ProxyClick
  <2>1. PICK home \in {ui.page, "app"} :
          LET claims == {"system_proxy_busy"} \cup
                        (IF home = "app" THEN {"runtime_action_busy"} ELSE {})
          IN /\ busy = {} /\ busy' = busy \cup claims /\ beside' = beside
             /\ uiTask' = [uiTask EXCEPT !["proxy"] =
                              New("call", home, claims, ui.proxy = "off", FALSE, FALSE)]
    BY <1>4 DEF ProxyClick
  <2> DEFINE claims == {"system_proxy_busy"} \cup
                       (IF home = "app" THEN {"runtime_action_busy"} ELSE {})
             r == New("call", home, claims, ui.proxy = "off", FALSE, FALSE)
  <2>2. /\ busy = {} /\ busy' = busy \cup claims /\ beside' = beside /\ claims # {}
        /\ uiTask' = [uiTask EXCEPT !["proxy"] = r]
    BY <2>1
  <2>3. Fields \subseteq DOMAIN r /\ r.stage = "call"
    BY DEF New, Fields
  <2> HIDE DEF r, claims
  <2> QED BY <2>2, <2>3, Starts
<1>5. CASE RestartClick
  <2> DEFINE r == New("queued", "app", {}, TRUE, ui.tun, ui.lan)
  <2>1. /\ busy = {} /\ busy' = busy \cup {} /\ beside' = beside
        /\ uiTask' = [uiTask EXCEPT !["restart"] = r]
    BY <1>5 DEF RestartClick
  <2>2. Fields \subseteq DOMAIN r /\ r.stage = "queued" /\ r.owns = {}
    BY DEF New, Fields
  <2> HIDE DEF r
  <2> QED BY <2>1, <2>2, Starts
<1>6. CASE BannerClick
  <2> DEFINE r == New("queued", ui.page, {}, TRUE, ui.tun, ui.lan)
  <2>1. /\ busy = {} /\ busy' = busy \cup {} /\ beside' = beside
        /\ uiTask' = [uiTask EXCEPT !["banner"] = r]
    BY <1>6 DEF BannerClick
  <2>2. Fields \subseteq DOMAIN r /\ r.stage = "queued" /\ r.owns = {}
    BY DEF New, Fields
  <2> HIDE DEF r
  <2> QED BY <2>1, <2>2, Starts
<1>7. CASE MemberClick
  <2>1. PICK home \in {ui.page, "app"} :
          /\ busy = {} /\ busy' = busy \cup {"runtime_action_busy"} /\ beside' = beside
          /\ uiTask' = [uiTask EXCEPT !["member"] =
                           New("queued", home, {"runtime_action_busy"}, TRUE, ui.tun, ui.lan)]
    BY <1>7 DEF MemberClick
  <2> DEFINE r == New("queued", home, {"runtime_action_busy"}, TRUE, ui.tun, ui.lan)
  <2>2. Fields \subseteq DOMAIN r /\ r.stage = "queued"
    BY DEF New, Fields
  <2>3. uiTask' = [uiTask EXCEPT !["member"] = r]
    BY <2>1
  <2> HIDE DEF r
  <2> QED BY <2>1, <2>2, <2>3, Starts
<1> QED BY <1>1, <1>2, <1>3, <1>4, <1>5, <1>6, <1>7

\* Goto and ClaimMore, of an active control.
LEMMA GotoSafe ==
    ASSUME UiInv, NEW c \in Controls, NEW stage, Active(c), Goto(c, stage), busy' = busy,
           beside' = beside, stage \notin {"none", "queued"}
    PROVE  UiInv'
<1> DEFINE r == [uiTask[c] EXCEPT !.stage = stage]
<1>1. uiTask' = [uiTask EXCEPT ![c] = r]
  BY DEF Goto, UiInv, Shape
<1>2. Fields \subseteq DOMAIN r /\ r.stage = stage
  BY DEF UiInv, Shape, Fields
<1> HIDE DEF r
<1> QED BY <1>1, <1>2, GoesOn

LEMMA ClaimMoreSafe ==
    ASSUME UiInv, NEW c \in Controls, NEW more, NEW stage, Active(c), ClaimMore(c, more, stage),
           beside' = beside, stage \notin {"none", "queued"}
    PROVE  UiInv'
<1> DEFINE r == [uiTask[c] EXCEPT !.stage = stage, !.owns = @ \cup more]
<1>1. uiTask' = [uiTask EXCEPT ![c] = r] /\ busy \subseteq busy'
  BY DEF ClaimMore, UiInv, Shape
<1>2. Fields \subseteq DOMAIN r /\ r.stage = stage
  BY DEF UiInv, Shape, Fields
<1> HIDE DEF r
<1> QED BY <1>1, <1>2, GoesOn

LEMMA AnsweredSafe ==
    ASSUME UiInv, NEW c \in Controls, NEW answer, Active(c), Answered(c, answer), busy' = busy,
           beside' = beside
    PROVE  UiInv'
<1> DEFINE r == [uiTask[c] EXCEPT !.stage = "answered", !.answer = answer]
<1>1. uiTask' = [uiTask EXCEPT ![c] = r]
  BY DEF Answered, UiInv, Shape
<1>2. Fields \subseteq DOMAIN r /\ r.stage = "answered"
  BY DEF UiInv, Shape, Fields
<1> HIDE DEF r
<1> QED BY <1>1, <1>2, GoesOn

\* The first poll of a task.
LEMMA QueuedRunsSafe == ASSUME UiInv, NEW c \in Controls, QueuedRuns(c) PROVE UiInv'
<1>1. CASE EndTask(c)
  <2>1. ~UiIdle(c) /\ (beside => beside')
    BY DEF QueuedRuns, UiIdle, UiAt
  <2> QED BY <1>1, <2>1, Ends
<1>2. CASE ~EndTask(c)
  <2> DEFINE r == IF c = "restart"
                  THEN [uiTask[c] EXCEPT !.stage = "call", !.owns = {"core_restarting"}]
                  ELSE New("call", uiTask[c].home, uiTask[c].owns \cup {"core_restarting"}, TRUE,
                           ui.tun, ui.lan)
  <2>1. /\ c \in {"restart", "banner", "member"} /\ UiAt(c, "queued")
        /\ c = "restart" => busy = {}
        /\ busy' = busy \cup {"core_restarting"}
        /\ beside' = (beside \/ (c = "banner" /\ busy # {}))
    BY <1>2 DEF QueuedRuns
  <2>2. uiTask' = [uiTask EXCEPT ![c] = r]
    BY <1>2 DEF QueuedRuns, UiInv, Shape
  <2>3. Fields \subseteq DOMAIN r /\ r.stage = "call"
    BY DEF New, UiInv, Shape, Fields
  <2> HIDE DEF r
  <2>4. CASE c = "member"
    <3>1. Active(c) /\ (beside => beside')
      BY <2>1, <2>4 DEF Active, UiIdle, Late, UiAt
    <3> QED BY <2>1, <2>2, <2>3, <3>1, GoesOn
  <2>5. CASE c # "member"
    <3>1. DOMAIN uiTask' = Controls /\ uiTask'[c] = r
          /\ \A d \in Controls \ {c} : uiTask'[d] = uiTask[d]
      BY <2>2, Replaced DEF UiInv
    <3>2. Shape'
      BY <2>3, <3>1 DEF UiInv, Shape
    <3>3. LateInv'
      BY <2>3, <3>1 DEF UiInv, LateInv, Late, UiAt
    <3>4. OneInv'
      <4> SUFFICES ASSUME ~beside' PROVE OneInv'
        BY DEF OneInv
      <4>1. busy = {} /\ ~beside
        BY <2>1, <2>5
      <4>2. \A d \in Controls : ~Active(d)
        BY <4>1 DEF UiInv, OneInv
      <4>3. \A d \in Controls \ {c} : ~Active(d)'
        BY <3>1, <4>2 DEF Active, UiIdle, Late, UiAt
      <4> QED BY <2>1, <4>3 DEF OneInv
    <3> QED BY <3>2, <3>3, <3>4 DEF UiInv
  <2> QED BY <2>4, <2>5
<1> QED BY <1>1, <1>2

LEMMA TaskStepSafe == ASSUME UiInv, NEW c \in Controls, TaskStep(c) PROVE UiInv'
<1>0. ASSUME NEW d \in Controls, NEW stage \in {"prepare", "check", "call", "answered", "reread", "proxyread"},
             UiAt(d, stage)
      PROVE  Active(d) /\ ~UiIdle(d)
  BY <1>0 DEF Active, UiIdle, Late, UiAt
<1>00. ASSUME NEW d \in {"tun", "lan"}, UiAt(d, "queued") PROVE Active(d) /\ ~UiIdle(d)
  BY <1>00 DEF Active, UiIdle, Late, UiAt
<1>000. {"power", "proxy", "tun", "lan"} \subseteq Controls
  BY DEF Controls
<1>1. CASE CallRestart(c)
  <2>1. PICK answer : Answered(c, answer)
    BY <1>1 DEF CallRestart
  <2>2. UiAt(c, "call") /\ busy' = busy /\ beside' = beside
    BY <1>1 DEF CallRestart
  <2> QED BY <1>0, <2>1, <2>2, AnsweredSafe
<1>2. CASE Prepare(c)
  <2>1. UiAt(c, "prepare") /\ beside' = beside
    BY <1>2 DEF Prepare
  <2>2. EndTask(c) \/ (busy' = busy /\ (Goto(c, "call") \/ Goto(c, "check")))
    BY <1>2 DEF Prepare
  <2> QED BY <1>0, <2>1, <2>2, Ends, GotoSafe
<1>3. CASE Check(c)
  <2>1. UiAt(c, "check") /\ beside' = beside
    BY <1>3 DEF Check
  <2>2. EndTask(c) \/ \E more : ClaimMore(c, more, "call")
    BY <1>3 DEF Check
  <2> QED BY <1>0, <2>1, <2>2, Ends, ClaimMoreSafe
<1>4. CASE ShowAnswer(c)
  <2>1. UiAt(c, "answered") /\ beside' = beside
    BY <1>4 DEF ShowAnswer
  <2>2. EndTask(c) \/ (busy' = busy /\ (Goto(c, "reread") \/ Goto(c, "proxyread")))
    BY <1>4 DEF ShowAnswer
  <2> QED BY <1>0, <2>1, <2>2, Ends, GotoSafe
<1>5. CASE Reread(c)
  <2>1. UiAt(c, "reread") /\ beside' = beside
    BY <1>5 DEF Reread
  <2>2. EndTask(c) \/ (busy' = busy /\ Goto(c, "proxyread"))
    BY <1>5 DEF Reread
  <2> QED BY <1>0, <2>1, <2>2, Ends, GotoSafe
<1>6. CASE CallPower
  <2>1. PICK answer : Answered("power", answer)
    BY <1>6 DEF CallPower
  <2>2. UiAt("power", "call") /\ busy' = busy /\ beside' = beside
    BY <1>6 DEF CallPower
  <2> QED BY <1>0, <1>000, <2>1, <2>2, AnsweredSafe
<1>7. CASE ProxyRead
  <2>1. UiAt("power", "proxyread") /\ beside' = beside /\ EndTask("power")
    BY <1>7 DEF ProxyRead
  <2> QED BY <1>0, <1>000, <2>1, Ends
<1>8. CASE CallProxy
  <2>1. PICK answer : Answered("proxy", answer)
    BY <1>8 DEF CallProxy
  <2>2. UiAt("proxy", "call") /\ busy' = busy /\ beside' = beside
    BY <1>8 DEF CallProxy
  <2> QED BY <1>0, <1>000, <2>1, <2>2, AnsweredSafe
<1>9. CASE ShowProxy
  <2>1. UiAt("proxy", "answered") /\ beside' = beside /\ EndTask("proxy")
    BY <1>9 DEF ShowProxy
  <2> QED BY <1>0, <1>000, <2>1, Ends
<1>10. CASE TunRuns
  <2>1. UiAt("tun", "queued") /\ beside' = beside
    BY <1>10 DEF TunRuns, MarkStale
  <2>2. ClaimMore("tun", {"core_restarting"}, "call") \/ (Goto("tun", "prepare") /\ busy' = busy)
    BY <1>10 DEF TunRuns
  <2> QED BY <1>00, <1>000, <2>1, <2>2, ClaimMoreSafe, GotoSafe
<1>11. CASE LanRuns
  <2>1. UiAt("lan", "queued") /\ beside' = beside
    BY <1>11 DEF LanRuns, MarkStale
  <2>2. EndTask("lan") \/ (Goto("lan", "call") /\ busy' = busy)
    BY <1>11 DEF LanRuns
  <2> QED BY <1>00, <1>000, <2>1, <2>2, Ends, GotoSafe
<1>12. CASE QueuedRuns(c)
  BY <1>12, QueuedRunsSafe
<1> QED BY <1>1, <1>2, <1>3, <1>4, <1>5, <1>6, <1>7, <1>8, <1>9, <1>10, <1>11, <1>12 DEF TaskStep

\* A page that is left takes tasks along and leaves their signals.
LEMMA NavigateSafe == ASSUME UiInv, NEW page \in Pages, Navigate(page) PROVE UiInv'
<1>1. PICK dropped : uiTask' = [c \in Controls |-> IF c \in dropped THEN NoUiTask ELSE uiTask[c]]
  BY DEF Navigate
<1>2. busy' = busy /\ beside' = beside
  BY DEF Navigate
<1>3. Fields \subseteq DOMAIN NoUiTask /\ NoUiTask.stage = "none"
  BY DEF Fields, NoUiTask
<1>4. /\ DOMAIN uiTask' = Controls
      /\ \A c \in Controls : uiTask'[c] = NoUiTask \/ uiTask'[c] = uiTask[c]
  BY <1>1
<1>5. Shape'
  BY <1>3, <1>4 DEF UiInv, Shape
<1>6. LateInv'
  BY <1>3, <1>4 DEF UiInv, LateInv, Late, UiAt
<1>7. \A c \in Controls : Active(c)' => Active(c)
  BY <1>3, <1>4 DEF Active, UiIdle, Late, UiAt
<1>8. OneInv'
  BY <1>2, <1>7 DEF UiInv, OneInv
<1> QED BY <1>5, <1>6, <1>8 DEF UiInv
-----------------------------------------------------------------------------
(* The invariant that carries the rest.                                     *)
LEMMA UiStepSafe == ASSUME UiInv, [UiNext]_uiVars PROVE UiInv'
<1>1. CASE \/ BeatReads \/ BeatFails \/ BeatShows \/ EditConfig \/ CoreDies \/ ConsentEnds
  BY <1>1, Elsewhere DEF BeatReads, BeatFails, BeatShows, EditConfig, CoreDies, ConsentEnds
<1>2. CASE UNCHANGED uiVars
  BY <1>2, Elsewhere DEF uiVars
<1> QED BY <1>1, <1>2, ClicksSafe, TaskStepSafe, NavigateSafe DEF UiNext

THEOREM UiSafe == UiSpec => []UiInv
BY UiInitSafe, UiStepSafe, PTL DEF UiSpec

(* The runtime calls of one window never run at once, however its controls are
   clicked, unless the banner's future ran beside another task
   (runtime.rs:461).                                                        *)
THEOREM UiOneRuntimeCall == UiSpec => []OneRuntimeCall
<1>1. UiInv => OneRuntimeCall
  <2> SUFFICES ASSUME UiInv, ~beside PROVE Cardinality({c \in Controls : UiAt(c, "call")}) <= 1
    BY DEF OneRuntimeCall
  <2> DEFINE calling == {c \in Controls : UiAt(c, "call")}
  <2>1. ASSUME NEW c \in calling, NEW d \in calling PROVE c = d
    <3>1. Active(c) /\ Active(d)
      BY DEF Active, UiIdle, Late, UiAt
    <3> QED BY <3>1 DEF UiInv, OneInv
  <2>2. CASE calling = {}
    BY <2>2, FS_EmptySet
  <2>3. CASE calling # {}
    <3>1. PICK c : calling = {c}
      BY <2>1, <2>3
    <3> QED BY <3>1, FS_Singleton
  <2> QED BY <2>2, <2>3
<1> QED BY <1>1, UiSafe, PTL
-----------------------------------------------------------------------------
(* The switches.  A call changes the backend before the window shows it: until
   then the task that made it owes the window an answer or a read.           *)
SrvType == [core : {"off", "on", "waiting"}, tun : BOOLEAN, lan : BOOLEAN, proxy : BOOLEAN]
WindowType == [page : Pages, connected : BOOLEAN, tun : BOOLEAN, lan : BOOLEAN,
               proxy : ProxyShown, pending : BOOLEAN]
Stages == {"none", "queued", "prepare", "check", "call", "answered", "reread", "proxyread"}
UiTaskType == [stage : Stages, home : Pages \cup {"app"}, owns : SUBSET Signals,
               want : BOOLEAN, tun : BOOLEAN, lan : BOOLEAN,
               answer : {"none", "ok", "waiting", "err"}]

Restarters == {"tun", "lan", "restart", "banner", "member"}

\* What the switches show is what the backend has.
ProxyTrue == ui.proxy # "unread" => (ui.proxy = "on") = srv.proxy
SwitchesTrue == srv.core # "off" => ui.tun = srv.tun /\ ui.lan = srv.lan

\* A task on its way that will read the system proxy, or show two switches.
ProxyOwed(c) ==
    LET t == uiTask[c] IN
    \/ c = "power" /\ ~t.want /\ t.stage \in {"answered", "reread", "proxyread"}
    \/ c = "proxy" /\ t.stage = "answered"
    \/ c \in Restarters /\ ((t.stage = "answered" /\ t.answer = "err") \/ t.stage = "reread")
SwitchesOwed(c) ==
    c \in {"tun", "lan"} /\ uiTask[c].stage = "answered" /\ uiTask[c].answer # "err"

\* The request of a task that has begun is what the window shows, but for the
\* switch it is about; and its answer tells what the backend took from it.
Fits(c, t) ==
    /\ c = "tun" => t.tun = t.want /\ t.lan = ui.lan /\ (t.stage = "prepare" => srv.core = "off")
    /\ c = "lan" => t.lan = t.want /\ t.tun = ui.tun
    /\ c \in {"power", "restart", "banner", "member"} => t.tun = ui.tun /\ t.lan = ui.lan
    /\ c = "power" /\ t.stage \in {"prepare", "check"} => t.want
    /\ t.stage = "answered" /\ t.answer # "err" =>
          /\ c = "proxy" => srv.proxy = t.want
          /\ c \in {"tun", "lan"} /\ srv.core # "off" => srv.tun = t.tun /\ srv.lan = t.lan

TrueInv ==
    stale \/ beside \/
    /\ ProxyTrue \/ \E c \in Controls : ProxyOwed(c)
    /\ SwitchesTrue \/ \E c \in Controls : SwitchesOwed(c)
    /\ \A c \in Controls : Active(c) => Fits(c, uiTask[c])
-----------------------------------------------------------------------------
LEMMA UiTypeIs ==
    UiTypeOK <=>
        /\ srv \in SrvType /\ ui \in WindowType
        /\ busy \subseteq Signals /\ orphaned \subseteq Signals
        /\ uiTask \in [Controls -> UiTaskType]
        /\ beat \in CoreStates \cup {"idle"}
        /\ stale \in BOOLEAN /\ beside \in BOOLEAN
        /\ clicks \in 0..MaxClicks /\ mishaps \in 0..MaxUiMishaps
BY DEF UiTypeOK, SrvType, WindowType, UiTaskType, Stages

LEMMA UiRecords ==
    /\ NoUiTask \in UiTaskType /\ NoUiTask.stage = "none"
BY DEF NoUiTask, UiTaskType, Stages

LEMMA UiCounts ==
    ASSUME UiTypeOK
    PROVE  /\ Mishap => mishaps' \in 0..MaxUiMishaps
           /\ clicks < MaxClicks => clicks + 1 \in 0..MaxClicks
BY UiAssumption DEF UiAssumption, UiTypeOK, Mishap

(* Another task of the same control: nobody else has begun one.              *)
LEMMA TaskTyped ==
    ASSUME UiTypeOK, NEW c \in Controls, NEW r \in UiTaskType, uiTask' = [uiTask EXCEPT ![c] = r]
    PROVE  /\ uiTask' \in [Controls -> UiTaskType] /\ uiTask'[c] = r
           /\ \A d \in Controls \ {c} : uiTask'[d] = uiTask[d]
<1>1. uiTask \in [Controls -> UiTaskType]
  BY UiTypeIs
<1> QED BY <1>1

LEMMA TaskTrue ==
    ASSUME UiTypeOK, UiInv, NEW c \in Controls, NEW r \in UiTaskType,
           uiTask' = [uiTask EXCEPT ![c] = r], beside => beside',
           Active(c) \/ busy = {},
           stale' \/ beside' \/
              /\ ProxyTrue' \/ ProxyOwed(c)'
              /\ SwitchesTrue' \/ SwitchesOwed(c)'
              /\ Fits(c, uiTask[c])'
    PROVE  TrueInv'
<1> SUFFICES ASSUME ~stale', ~beside'
             PROVE  /\ ProxyTrue' \/ \E d \in Controls : ProxyOwed(d)'
                    /\ SwitchesTrue' \/ \E d \in Controls : SwitchesOwed(d)'
                    /\ \A d \in Controls : Active(d)' => Fits(d, uiTask[d])'
  BY DEF TrueInv
<1>1. \A d \in Controls \ {c} : ~Active(d)
  BY DEF UiInv, OneInv
<1>2. \A d \in Controls \ {c} : ~Active(d)'
  BY <1>1, TaskTyped DEF Active, UiIdle, Late, UiAt
<1> QED BY <1>2

\* Before its first answer a task owes nothing, and the others have not begun.
LEMMA AloneIs ==
    ASSUME UiInv, TrueInv, ~stale, ~beside, NEW c \in Controls, Active(c) \/ busy = {}
    PROVE  /\ ProxyTrue \/ ProxyOwed(c)
           /\ SwitchesTrue \/ SwitchesOwed(c)
           /\ Active(c) => Fits(c, uiTask[c])
<1>1. \A d \in Controls \ {c} : ~Active(d)
  BY DEF UiInv, OneInv
<1>2. \A d \in Controls \ {c} : ~ProxyOwed(d) /\ ~SwitchesOwed(d)
  BY <1>1 DEF Active, UiIdle, Late, UiAt, ProxyOwed, SwitchesOwed
<1> QED BY <1>2 DEF TrueInv

(* A task that ends without having begun.                                   *)
LEMMA DropTrue ==
    ASSUME UiTypeOK, TrueInv, NEW c \in Controls, uiTask[c].stage = "queued",
           uiTask' = [uiTask EXCEPT ![c] = NoUiTask], stale => stale', beside => beside',
           UNCHANGED <<srv, ui>>
    PROVE  TrueInv'
<1> SUFFICES ASSUME ~stale', ~beside'
             PROVE  /\ ProxyTrue' \/ \E d \in Controls : ProxyOwed(d)'
                    /\ SwitchesTrue' \/ \E d \in Controls : SwitchesOwed(d)'
                    /\ \A d \in Controls : Active(d)' => Fits(d, uiTask[d])'
  BY DEF TrueInv
<1>1. /\ uiTask'[c] = NoUiTask /\ NoUiTask.stage = "none"
      /\ \A d \in Controls \ {c} : uiTask'[d] = uiTask[d]
  BY UiRecords, TaskTyped
<1>2. \A d \in Controls \ {c} : /\ ProxyOwed(d)' <=> ProxyOwed(d)
                                /\ SwitchesOwed(d)' <=> SwitchesOwed(d)
                                /\ Active(d)' <=> Active(d)
                                /\ Fits(d, uiTask[d])' <=> Fits(d, uiTask[d])
  BY <1>1 DEF ProxyOwed, SwitchesOwed, Active, Late, UiIdle, UiAt, Fits
<1>3. ~ProxyOwed(c) /\ ~SwitchesOwed(c) /\ ~Active(c)'
  BY <1>1 DEF ProxyOwed, SwitchesOwed, Active, UiIdle
<1>4. ProxyTrue' <=> ProxyTrue
  BY DEF ProxyTrue
<1>5. SwitchesTrue' <=> SwitchesTrue
  BY DEF SwitchesTrue
<1> QED BY <1>2, <1>3, <1>4, <1>5 DEF TrueInv
-----------------------------------------------------------------------------
(* Clicks.                                                                  *)
LEMMA ClickTrue ==
    ASSUME UiTypeOK, UiInv, TrueInv, NEW c \in Controls, NEW homes, NEW claims \in SUBSET Signals,
           NEW r \in UiTaskType, Click(c, homes, claims, r), busy = {},
           r.stage \in {"queued", "prepare", "call"}, Fits(c, r)
    PROVE  UiTypeOK' /\ TrueInv'
<1>1. /\ clicks' \in 0..MaxClicks /\ busy' = busy \cup claims
      /\ uiTask' = [uiTask EXCEPT ![c] = r] /\ UNCHANGED <<srv, ui, beat, orphaned, mishaps, beside>>
      /\ stale' \in BOOLEAN /\ (stale => stale')
  BY UiCounts, UiTypeIs DEF Click, MarkStale
<1>2. UiTypeOK'
  BY <1>1, TaskTyped, UiTypeIs DEF UiTypeOK, SrvType, WindowType, UiTaskType, Stages
<1>3. ASSUME ~stale', ~beside' PROVE ProxyTrue' /\ SwitchesTrue' /\ Fits(c, uiTask[c])'
  <2>1. uiTask[c].stage = "none"
    BY DEF Click, UiIdle
  <2>2. ProxyTrue /\ SwitchesTrue
    BY <1>1, <1>3, <2>1, AloneIs DEF ProxyOwed, SwitchesOwed
  <2>3. uiTask'[c] = r
    BY <1>1, TaskTyped
  <2> QED BY <1>1, <2>2, <2>3 DEF ProxyTrue, SwitchesTrue, Fits
<1> QED BY <1>1, <1>2, <1>3, TaskTrue

LEMMA ClicksTrue ==
    ASSUME UiTypeOK, UiInv, TrueInv,
           \/ PowerClick \/ TunClick \/ LanClick \/ ProxyClick \/ RestartClick
           \/ BannerClick \/ MemberClick
    PROVE  UiTypeOK' /\ TrueInv'
<1>1. /\ ui \in WindowType /\ ui.page \in Pages \cup {"app"} /\ ui.connected \in BOOLEAN
      /\ ui.tun \in BOOLEAN /\ ui.lan \in BOOLEAN /\ (ui.proxy = "off") \in BOOLEAN
      /\ (~ui.connected) \in BOOLEAN /\ (~ui.tun) \in BOOLEAN /\ (~ui.lan) \in BOOLEAN
      /\ TRUE \in BOOLEAN /\ FALSE \in BOOLEAN
  BY UiTypeIs DEF WindowType
<1>2. busy = {}
  BY DEF PowerClick, TunClick, LanClick, ProxyClick, RestartClick, BannerClick, MemberClick,
         NoneBusy
<1>3. /\ {"core_busy"} \in SUBSET Signals /\ {"runtime_action_busy"} \in SUBSET Signals
      /\ {"runtime_action_busy", "core_restarting"} \in SUBSET Signals
      /\ {"system_proxy_busy"} \in SUBSET Signals /\ {} \in SUBSET Signals
      /\ {"system_proxy_busy"} \cup {"runtime_action_busy"} \in SUBSET Signals
      /\ {"system_proxy_busy"} \cup {} \in SUBSET Signals
  BY DEF Signals
<1>4. "queued" \in Stages /\ "prepare" \in Stages /\ "call" \in Stages /\ "app" \in Pages \cup {"app"}
      /\ Controls = {"power", "tun", "lan", "proxy", "restart", "banner", "member"}
  BY DEF Stages, Controls
<1>5. CASE PowerClick
  <2> DEFINE stage == IF ~ui.connected /\ ui.tun THEN "prepare" ELSE "call"
             r == New(stage, ui.page, {"core_busy"}, ~ui.connected, ui.tun, ui.lan)
  <2>1. Click("power", {"overview"}, {"core_busy"}, r)
    BY <1>5 DEF PowerClick
  <2>2. stage \in Stages /\ stage \in {"prepare", "call"} /\ (stage = "prepare" => ~ui.connected)
    BY <1>4
  <2> HIDE DEF stage
  <2>3. r \in UiTaskType /\ r.stage = stage /\ r.want = ~ui.connected /\ r.tun = ui.tun
        /\ r.lan = ui.lan
    BY <1>1, <1>3, <2>2 DEF New, UiTaskType
  <2> HIDE DEF r
  <2>4. Fits("power", r)
    BY <2>2, <2>3 DEF Fits
  <2> QED BY <1>2, <1>3, <1>4, <2>1, <2>2, <2>3, <2>4, ClickTrue
<1>6. CASE TunClick
  <2> DEFINE r == New("queued", ui.page, {"runtime_action_busy"}, ~ui.tun, ~ui.tun, ui.lan)
  <2>1. Click("tun", {"overview", "settings"}, {"runtime_action_busy"}, r)
    BY <1>6 DEF TunClick
  <2>2. r \in UiTaskType /\ r.stage = "queued" /\ r.want = r.tun /\ r.lan = ui.lan
    BY <1>1, <1>3, <1>4 DEF New, UiTaskType
  <2> HIDE DEF r
  <2>3. Fits("tun", r)
    BY <2>2 DEF Fits
  <2> QED BY <1>2, <1>3, <1>4, <2>1, <2>2, <2>3, ClickTrue
<1>7. CASE LanClick
  <2> DEFINE claims == {"runtime_action_busy", "core_restarting"}
             r == New("queued", ui.page, claims, ~ui.lan, ui.tun, ~ui.lan)
  <2>1. Click("lan", {"overview", "settings"}, claims, r)
    BY <1>7 DEF LanClick
  <2>2. r \in UiTaskType /\ r.stage = "queued" /\ r.want = r.lan /\ r.tun = ui.tun
    BY <1>1, <1>3, <1>4 DEF New, UiTaskType
  <2> HIDE DEF r
  <2>3. Fits("lan", r)
    BY <2>2 DEF Fits
  <2> QED BY <1>2, <1>3, <1>4, <2>1, <2>2, <2>3, ClickTrue
<1>8. CASE ProxyClick
  <2>1. PICK home \in {ui.page, "app"} :
          LET claims == {"system_proxy_busy"} \cup
                        (IF home = "app" THEN {"runtime_action_busy"} ELSE {})
          IN Click("proxy", Pages, claims,
                   New("call", home, claims, ui.proxy = "off", FALSE, FALSE))
    BY <1>8 DEF ProxyClick
  <2> DEFINE claims == {"system_proxy_busy"} \cup
                       (IF home = "app" THEN {"runtime_action_busy"} ELSE {})
             r == New("call", home, claims, ui.proxy = "off", FALSE, FALSE)
  <2>2. Click("proxy", Pages, claims, r)
    BY <2>1
  <2>3. claims \in SUBSET Signals /\ home \in Pages \cup {"app"}
    BY <1>1, <1>3, <1>4
  <2> HIDE DEF claims
  <2>4. r \in UiTaskType /\ r.stage = "call"
    BY <1>1, <1>4, <2>3 DEF New, UiTaskType
  <2> HIDE DEF r
  <2>5. Fits("proxy", r)
    BY <2>4 DEF Fits
  <2> QED BY <1>2, <1>3, <1>4, <2>2, <2>3, <2>4, <2>5, ClickTrue
<1>9. CASE RestartClick
  <2> DEFINE r == New("queued", "app", {}, TRUE, ui.tun, ui.lan)
  <2>1. Click("restart", Pages, {}, r)
    BY <1>9 DEF RestartClick
  <2>2. r \in UiTaskType /\ r.stage = "queued" /\ r.tun = ui.tun /\ r.lan = ui.lan
    BY <1>1, <1>3, <1>4 DEF New, UiTaskType
  <2> HIDE DEF r
  <2>3. Fits("restart", r)
    BY <2>2 DEF Fits
  <2> QED BY <1>2, <1>3, <1>4, <2>1, <2>2, <2>3, ClickTrue
<1>10. CASE BannerClick
  <2> DEFINE r == New("queued", ui.page, {}, TRUE, ui.tun, ui.lan)
  <2>1. Click("banner", {"overview"}, {}, r)
    BY <1>10 DEF BannerClick
  <2>2. r \in UiTaskType /\ r.stage = "queued" /\ r.tun = ui.tun /\ r.lan = ui.lan
    BY <1>1, <1>3, <1>4 DEF New, UiTaskType
  <2> HIDE DEF r
  <2>3. Fits("banner", r)
    BY <2>2 DEF Fits
  <2> QED BY <1>2, <1>3, <1>4, <2>1, <2>2, <2>3, ClickTrue
<1>11. CASE MemberClick
  <2>1. PICK home \in {ui.page, "app"} :
          Click("member", Pages, {"runtime_action_busy"},
                New("queued", home, {"runtime_action_busy"}, TRUE, ui.tun, ui.lan))
    BY <1>11 DEF MemberClick
  <2> DEFINE r == New("queued", home, {"runtime_action_busy"}, TRUE, ui.tun, ui.lan)
  <2>2. home \in Pages \cup {"app"}
    BY <1>1, <1>4
  <2>3. r \in UiTaskType /\ r.stage = "queued" /\ r.tun = ui.tun /\ r.lan = ui.lan
    BY <1>1, <1>3, <1>4, <2>2 DEF New, UiTaskType
  <2>4. Click("member", Pages, {"runtime_action_busy"}, r)
    BY <2>1
  <2> HIDE DEF r
  <2>5. Fits("member", r)
    BY <2>3 DEF Fits
  <2> QED BY <1>2, <1>3, <1>4, <2>3, <2>4, <2>5, ClickTrue
<1> QED BY <1>5, <1>6, <1>7, <1>8, <1>9, <1>10, <1>11
-----------------------------------------------------------------------------
(* The steps of a task.                                                     *)
\* A step of the task of c that leaves the rest of the state typed.
LEMMA StepTyped ==
    ASSUME UiTypeOK, NEW c \in Controls, NEW r \in UiTaskType, uiTask' = [uiTask EXCEPT ![c] = r],
           srv' \in SrvType, ui' \in WindowType, busy' \in SUBSET Signals,
           stale' \in BOOLEAN, beside' \in BOOLEAN, mishaps' \in 0..MaxUiMishaps,
           UNCHANGED <<beat, orphaned, clicks>>
    PROVE  UiTypeOK'
<1>1. uiTask' \in [Controls -> UiTaskType]
  BY TaskTyped
<1> QED BY <1>1, UiTypeIs DEF UiTypeOK, SrvType, WindowType, UiTaskType, Stages

LEMMA StateIs ==
    ASSUME UiTypeOK, NEW c \in Controls
    PROVE  /\ srv \in SrvType /\ ui \in WindowType /\ busy \in SUBSET Signals
           /\ uiTask[c] \in UiTaskType /\ stale \in BOOLEAN /\ beside \in BOOLEAN
           /\ mishaps \in 0..MaxUiMishaps /\ uiTask[c].owns \in SUBSET Signals
           /\ uiTask[c].want \in BOOLEAN /\ uiTask[c].tun \in BOOLEAN /\ uiTask[c].lan \in BOOLEAN
<1>1. uiTask[c] \in UiTaskType
  BY UiTypeIs
<1> QED BY <1>1, UiTypeIs DEF UiTaskType

LEMMA GotoIs ==
    ASSUME UiTypeOK, NEW c \in Controls, NEW stage \in Stages
    PROVE  LET r == [uiTask[c] EXCEPT !.stage = stage] IN
           /\ r \in UiTaskType /\ r.stage = stage /\ r.want = uiTask[c].want
           /\ r.tun = uiTask[c].tun /\ r.lan = uiTask[c].lan /\ r.answer = uiTask[c].answer
           /\ Goto(c, stage) => uiTask' = [uiTask EXCEPT ![c] = r]
<1>1. uiTask[c] \in UiTaskType
  BY StateIs
<1>2. Goto(c, stage) => uiTask' = [uiTask EXCEPT ![c] = [uiTask[c] EXCEPT !.stage = stage]]
  BY DEF Goto
<1> QED BY <1>1, <1>2 DEF UiTaskType

LEMMA ClaimIs ==
    ASSUME UiTypeOK, NEW c \in Controls, NEW more \in SUBSET Signals, NEW stage \in Stages,
           ClaimMore(c, more, stage)
    PROVE  /\ busy' \in SUBSET Signals
           /\ \E r \in UiTaskType :
                 /\ r.stage = stage /\ r.want = uiTask[c].want /\ r.tun = uiTask[c].tun
                 /\ r.lan = uiTask[c].lan /\ uiTask' = [uiTask EXCEPT ![c] = r]
<1> DEFINE r == [uiTask[c] EXCEPT !.stage = stage, !.owns = @ \cup more]
<1>1. uiTask[c] \in UiTaskType /\ uiTask[c].owns \cup more \in SUBSET Signals
      /\ busy \cup more \in SUBSET Signals
  BY StateIs
<1>2. uiTask' = [uiTask EXCEPT ![c] = r] /\ busy' \in SUBSET Signals
  BY <1>1 DEF ClaimMore
<1>3. r \in UiTaskType /\ r.stage = stage /\ r.want = uiTask[c].want
      /\ r.tun = uiTask[c].tun /\ r.lan = uiTask[c].lan
  BY <1>1 DEF UiTaskType
<1> QED BY <1>2, <1>3

LEMMA AnsweredIs ==
    ASSUME UiTypeOK, NEW c \in Controls, NEW answer \in {"ok", "waiting", "err"}
    PROVE  LET r == [uiTask[c] EXCEPT !.stage = "answered", !.answer = answer] IN
           /\ r \in UiTaskType /\ r.stage = "answered" /\ r.want = uiTask[c].want
           /\ r.tun = uiTask[c].tun /\ r.lan = uiTask[c].lan /\ r.answer = answer
           /\ Answered(c, answer) => uiTask' = [uiTask EXCEPT ![c] = r]
<1>1. uiTask[c] \in UiTaskType
  BY StateIs
<1>2. Answered(c, answer)
        => uiTask' = [uiTask EXCEPT ![c] = [uiTask[c] EXCEPT !.stage = "answered", !.answer = answer]]
  BY DEF Answered
<1> QED BY <1>1, <1>2 DEF UiTaskType, Stages

LEMMA EndIs ==
    ASSUME UiTypeOK, NEW c \in Controls, EndTask(c)
    PROVE  uiTask' = [uiTask EXCEPT ![c] = NoUiTask] /\ busy' \in SUBSET Signals
           /\ NoUiTask \in UiTaskType /\ NoUiTask.stage = "none"
BY StateIs, UiRecords DEF EndTask

(* A step that only moves a task on, when it owes nothing before or after.  *)
LEMMA MovesTrue ==
    ASSUME UiTypeOK, UiInv, TrueInv, NEW c \in Controls, Active(c), NEW r \in UiTaskType,
           uiTask' = [uiTask EXCEPT ![c] = r], busy' \in SUBSET Signals,
           stale' \in BOOLEAN, stale => stale', beside' \in BOOLEAN, beside => beside',
           mishaps' \in 0..MaxUiMishaps, UNCHANGED <<srv, ui, beat, orphaned, clicks>>,
           uiTask[c].stage \notin {"answered", "reread", "proxyread"},
           r.stage \notin {"answered"},
           r.want = uiTask[c].want, r.tun = uiTask[c].tun, r.lan = uiTask[c].lan,
           stale' \/ beside' \/
              /\ c = "tun" /\ r.stage = "prepare" => srv.core = "off"
              /\ c = "power" /\ r.stage \in {"prepare", "check"} => r.want
    PROVE  UiTypeOK' /\ TrueInv'
<1>1. UiTypeOK'
  BY StateIs, StepTyped
<1>2. ASSUME ~stale', ~beside' PROVE ProxyTrue' /\ SwitchesTrue' /\ Fits(c, uiTask[c])'
  <2>1. ~ProxyOwed(c) /\ ~SwitchesOwed(c)
    BY DEF ProxyOwed, SwitchesOwed
  <2>2. ProxyTrue /\ SwitchesTrue /\ Fits(c, uiTask[c])
    BY <1>2, <2>1, AloneIs
  <2>3. uiTask'[c] = r
    BY TaskTyped
  <2> QED BY <1>2, <2>2, <2>3 DEF ProxyTrue, SwitchesTrue, Fits
<1> QED BY <1>1, <1>2, TaskTrue

(* A task ends, and leaves the switches true.                               *)
LEMMA EndsTrue ==
    ASSUME UiTypeOK, UiInv, TrueInv, NEW c \in Controls, Active(c), EndTask(c), ui' \in WindowType,
           stale' \in BOOLEAN, stale => stale', beside' \in BOOLEAN, beside => beside',
           mishaps' \in 0..MaxUiMishaps, UNCHANGED <<srv, beat, orphaned, clicks>>,
           stale' \/ beside' \/ (ProxyTrue' /\ SwitchesTrue')
    PROVE  UiTypeOK' /\ TrueInv'
<1>1. /\ uiTask' = [uiTask EXCEPT ![c] = NoUiTask] /\ busy' \in SUBSET Signals
      /\ NoUiTask \in UiTaskType /\ NoUiTask.stage = "none"
  BY EndIs
<1>2. UiTypeOK' /\ uiTask'[c] = NoUiTask
  BY <1>1, StateIs, StepTyped, TaskTyped
<1>3. \A d \in Controls \ {c} : ~Active(d)' \/ beside'
  BY <1>1, TaskTyped DEF UiInv, OneInv, Active, UiIdle, Late, UiAt
<1>4. ~Active(c)'
  BY <1>1, <1>2 DEF Active, UiIdle
<1> QED BY <1>2, <1>3, <1>4 DEF TrueInv

\* MarkStale at a first poll: a status that was not true is on record.
LEMMA MarkIs ==
    ASSUME UiTypeOK, MarkStale
    PROVE  /\ stale' \in BOOLEAN /\ (stale => stale') /\ beside' = beside /\ beside' \in BOOLEAN
           /\ ~stale' => srv.core = (IF ui.connected THEN "on" ELSE "off")
BY UiTypeIs DEF MarkStale

LEMMA ClaimsAre == {"core_restarting"} \in SUBSET Signals /\ {} \in SUBSET Signals
BY DEF Signals

LEMMA StagesAre ==
    /\ "none" \in Stages /\ "queued" \in Stages /\ "prepare" \in Stages /\ "check" \in Stages
    /\ "call" \in Stages /\ "answered" \in Stages /\ "reread" \in Stages /\ "proxyread" \in Stages
    /\ {"core_restarting"} \in SUBSET Signals /\ {} \in SUBSET Signals
    /\ Controls = {"power", "tun", "lan", "proxy", "restart", "banner", "member"}
BY DEF Stages, Signals, Controls

LEMMA TunRunsTrue ==
    ASSUME UiTypeOK, UiInv, TrueInv, TunRuns PROVE UiTypeOK' /\ TrueInv'
<1>1. /\ "tun" \in Controls /\ uiTask["tun"].stage = "queued" /\ Active("tun") /\ MarkStale
      /\ UNCHANGED <<srv, ui, beat, orphaned, clicks, mishaps>>
  BY StagesAre DEF TunRuns, UiAt, Active, UiIdle, Late
<1>2. mishaps' \in 0..MaxUiMishaps /\ busy \in SUBSET Signals
  BY <1>1, StateIs
<1>5. /\ stale' \in BOOLEAN /\ (stale => stale') /\ beside' \in BOOLEAN /\ (beside => beside')
      /\ ~stale' => srv.core = (IF ui.connected THEN "on" ELSE "off")
  BY <1>1, MarkIs
<1>6. "call" \in Stages /\ "prepare" \in Stages
  BY StagesAre
<1>3. CASE ui.connected
  <2>1. PICK more \in SUBSET Signals : ClaimMore("tun", more, "call")
    BY <1>3, ClaimsAre DEF TunRuns
  <2>2. busy' \in SUBSET Signals
        /\ \E r \in UiTaskType :
              /\ r.stage = "call" /\ r.want = uiTask["tun"].want /\ r.tun = uiTask["tun"].tun
              /\ r.lan = uiTask["tun"].lan /\ uiTask' = [uiTask EXCEPT !["tun"] = r]
    BY <1>1, <1>6, <2>1, ClaimIs
  <2> QED BY <1>1, <1>2, <2>2, <1>5, MovesTrue
<1>4. CASE ~ui.connected
  <2> DEFINE r == [uiTask["tun"] EXCEPT !.stage = "prepare"]
  <2>1. Goto("tun", "prepare") /\ busy' = busy
    BY <1>4 DEF TunRuns
  <2>2. /\ r \in UiTaskType /\ r.stage = "prepare" /\ r.want = uiTask["tun"].want
        /\ r.tun = uiTask["tun"].tun /\ r.lan = uiTask["tun"].lan
        /\ uiTask' = [uiTask EXCEPT !["tun"] = r]
    BY <1>1, <1>6, <2>1, GotoIs
  <2> HIDE DEF r
  <2>3. stale' \/ srv.core = "off"
    BY <1>4, <1>5
  <2> QED BY <1>1, <1>2, <2>1, <2>2, <2>3, <1>5, MovesTrue
<1> QED BY <1>3, <1>4

LEMMA LanRunsTrue ==
    ASSUME UiTypeOK, UiInv, TrueInv, LanRuns PROVE UiTypeOK' /\ TrueInv'
<1>1. /\ "lan" \in Controls /\ uiTask["lan"].stage = "queued" /\ Active("lan") /\ MarkStale
      /\ UNCHANGED <<srv, beat, orphaned, clicks, mishaps>>
  BY StagesAre DEF LanRuns, UiAt, Active, UiIdle, Late
<1>2. mishaps' \in 0..MaxUiMishaps /\ busy \in SUBSET Signals /\ ui \in WindowType
      /\ uiTask["lan"].want \in BOOLEAN
  BY <1>1, StateIs
<1>5. /\ stale' \in BOOLEAN /\ (stale => stale') /\ beside' \in BOOLEAN /\ (beside => beside')
      /\ ~stale' => srv.core = (IF ui.connected THEN "on" ELSE "off")
  BY <1>1, MarkIs
<1>6. "call" \in Stages /\ "prepare" \in Stages
  BY StagesAre
<1>3. CASE ui.connected
  <2> DEFINE r == [uiTask["lan"] EXCEPT !.stage = "call"]
  <2>1. Goto("lan", "call") /\ UNCHANGED <<ui, busy>>
    BY <1>3 DEF LanRuns
  <2>2. /\ r \in UiTaskType /\ r.stage = "call" /\ r.want = uiTask["lan"].want
        /\ r.tun = uiTask["lan"].tun /\ r.lan = uiTask["lan"].lan
        /\ uiTask' = [uiTask EXCEPT !["lan"] = r]
    BY <1>1, <1>6, <2>1, GotoIs
  <2> HIDE DEF r
  <2> QED BY <1>1, <1>2, <2>1, <2>2, <1>5, MovesTrue
<1>4. CASE ~ui.connected
  <2>1. ui' = [ui EXCEPT !.lan = uiTask["lan"].want] /\ EndTask("lan")
    BY <1>4 DEF LanRuns
  <2>2. ui' \in WindowType /\ ui'.proxy = ui.proxy
    BY <1>2, <2>1 DEF WindowType
  <2>3. ASSUME ~stale', ~beside' PROVE ProxyTrue' /\ SwitchesTrue'
    <3>1. srv.core = "off" /\ ~stale /\ ~beside
      BY <1>1, <1>4, <1>5, <2>3
    <3>2. ProxyTrue
      BY <1>1, <3>1, AloneIs DEF ProxyOwed
    <3> QED BY <1>1, <2>2, <3>1, <3>2 DEF ProxyTrue, SwitchesTrue
  <2> QED BY <1>1, <1>2, <2>1, <2>2, <2>3, <1>5, EndsTrue
<1> QED BY <1>3, <1>4

LEMMA QueuedRunsTrue ==
    ASSUME UiTypeOK, UiInv, TrueInv, NEW c \in Controls, QueuedRuns(c)
    PROVE  UiTypeOK' /\ TrueInv'
<1>1. /\ c \in {"restart", "banner", "member"} /\ uiTask[c].stage = "queued"
      /\ UNCHANGED <<srv, ui, beat, orphaned, clicks, mishaps>>
      /\ stale' = (stale \/ (c = "restart" /\ <<uiTask[c].tun, uiTask[c].lan>> # <<ui.tun, ui.lan>>))
      /\ beside' = (beside \/ (c = "banner" /\ busy # {}))
  BY DEF QueuedRuns, UiAt
<1>2. /\ stale' \in BOOLEAN /\ (stale => stale') /\ beside' \in BOOLEAN /\ (beside => beside')
      /\ mishaps' \in 0..MaxUiMishaps /\ srv' \in SrvType /\ ui' \in WindowType
  BY <1>1, StateIs
<1>3. CASE EndTask(c)
  <2>1. uiTask' = [uiTask EXCEPT ![c] = NoUiTask] /\ busy' \in SUBSET Signals
        /\ NoUiTask \in UiTaskType
    BY <1>3, EndIs
  <2> QED BY <1>1, <1>2, <2>1, StepTyped, DropTrue
<1>4. CASE ~EndTask(c)
  <2> DEFINE r == IF c = "restart"
                  THEN [uiTask[c] EXCEPT !.stage = "call", !.owns = {"core_restarting"}]
                  ELSE New("call", uiTask[c].home, uiTask[c].owns \cup {"core_restarting"}, TRUE,
                           ui.tun, ui.lan)
  <2>1. /\ busy' = busy \cup {"core_restarting"} /\ (c = "restart" => busy = {})
        /\ uiTask' = [uiTask EXCEPT ![c] = r]
    BY <1>4 DEF QueuedRuns
  <2>2. /\ uiTask[c] \in UiTaskType /\ uiTask[c].owns \cup {"core_restarting"} \in SUBSET Signals
        /\ uiTask[c].home \in Pages \cup {"app"} /\ ui.tun \in BOOLEAN /\ ui.lan \in BOOLEAN
        /\ busy' \in SUBSET Signals
    BY <2>1, StateIs, StagesAre DEF UiTaskType, WindowType
  <2>3. /\ r \in UiTaskType /\ r.stage = "call"
        /\ ~stale' => r.tun = ui.tun /\ r.lan = ui.lan
    <3>1. CASE c = "restart"
      <4>1. r = [uiTask[c] EXCEPT !.stage = "call", !.owns = {"core_restarting"}]
        BY <3>1
      <4>2. r \in UiTaskType /\ r.stage = "call" /\ r.tun = uiTask[c].tun /\ r.lan = uiTask[c].lan
        BY <2>2, <4>1, StagesAre DEF UiTaskType
      <4> QED BY <1>1, <3>1, <4>2
    <3>2. CASE c # "restart"
      <4>1. r = New("call", uiTask[c].home, uiTask[c].owns \cup {"core_restarting"}, TRUE,
                    ui.tun, ui.lan)
        BY <3>2
      <4> QED BY <2>2, <4>1, StagesAre DEF New, UiTaskType
    <3> QED BY <3>1, <3>2
  <2> HIDE DEF r
  <2>4. UiTypeOK'
    BY <1>1, <1>2, <2>1, <2>2, <2>3, StepTyped
  <2>5. ASSUME ~stale', ~beside' PROVE TrueInv'
    <3>1. ~stale /\ ~beside /\ (c = "banner" => busy = {})
      BY <1>1, <1>2, <2>5
    <3>2. Active(c) \/ busy = {}
      BY <1>1, <2>1, <3>1 DEF Active, UiIdle, Late
    <3>3. ProxyTrue /\ SwitchesTrue
      BY <1>1, <3>1, <3>2, AloneIs DEF ProxyOwed, SwitchesOwed
    <3>4. uiTask'[c] = r
      BY <2>1, <2>3, TaskTyped
    <3>5. ProxyTrue' /\ SwitchesTrue' /\ Fits(c, uiTask[c])'
      BY <1>1, <2>3, <2>5, <3>3, <3>4 DEF ProxyTrue, SwitchesTrue, Fits
    <3> QED BY <1>2, <2>1, <2>3, <3>2, <3>5, TaskTrue
  <2> QED BY <2>4, <2>5 DEF TrueInv
<1> QED BY <1>3, <1>4

(* The calls: what they change is owed to the window.                       *)
LEMMA CallPowerTrue ==
    ASSUME UiTypeOK, UiInv, TrueInv, CallPower PROVE UiTypeOK' /\ TrueInv'
<1> DEFINE t == uiTask["power"]
<1>1. /\ "power" \in Controls /\ t.stage = "call" /\ Active("power")
      /\ UNCHANGED <<ui, busy, beat, stale, beside, orphaned, clicks, mishaps>>
  BY StagesAre DEF CallPower, UiAt, Active, UiIdle, Late
<1>2. /\ srv \in SrvType /\ ui' \in WindowType /\ busy' \in SUBSET Signals
      /\ stale' \in BOOLEAN /\ beside' \in BOOLEAN /\ mishaps' \in 0..MaxUiMishaps
      /\ t.tun \in BOOLEAN /\ t.lan \in BOOLEAN
  BY <1>1, StateIs
<1>3. ASSUME ~stale, ~beside PROVE ProxyTrue /\ SwitchesTrue /\ Fits("power", t)
  BY <1>1, <1>3, AloneIs DEF ProxyOwed, SwitchesOwed
<1>4. PICK answer \in {"ok", "waiting", "err"} :
        /\ Answered("power", answer)
        /\ \/ srv' = srv
           \/ \E up \in {"on", "waiting"} :
                 srv' = [srv EXCEPT !.core = up, !.tun = t.tun, !.lan = t.lan]
           \/ ~t.want /\ srv' = [srv EXCEPT !.core = "off", !.proxy = FALSE]
  BY DEF CallPower
<1> DEFINE r == [t EXCEPT !.stage = "answered", !.answer = answer]
<1>5. /\ r \in UiTaskType /\ r.stage = "answered" /\ r.want = t.want /\ r.tun = t.tun
      /\ r.lan = t.lan /\ uiTask' = [uiTask EXCEPT !["power"] = r]
  BY <1>1, <1>4, AnsweredIs
<1> HIDE DEF r
<1>6. uiTask'["power"] = r
  BY <1>1, <1>5, TaskTyped
<1>7. CASE srv' = srv
  <2>1. ASSUME ~stale, ~beside PROVE ProxyTrue' /\ SwitchesTrue' /\ Fits("power", uiTask["power"])'
    BY <1>1, <1>3, <1>5, <1>6, <1>7, <2>1 DEF ProxyTrue, SwitchesTrue, Fits
  <2> QED BY <1>1, <1>2, <1>5, <1>7, <2>1, StepTyped, TaskTrue
<1>8. ASSUME NEW up \in {"on", "waiting"},
             srv' = [srv EXCEPT !.core = up, !.tun = t.tun, !.lan = t.lan]
      PROVE  UiTypeOK' /\ TrueInv'
  <2>1. srv' \in SrvType /\ srv'.tun = t.tun /\ srv'.lan = t.lan /\ srv'.proxy = srv.proxy
    BY <1>2, <1>8 DEF SrvType
  <2>2. ASSUME ~stale, ~beside PROVE ProxyTrue' /\ SwitchesTrue' /\ Fits("power", uiTask["power"])'
    BY <1>1, <1>3, <1>5, <1>6, <2>1, <2>2 DEF ProxyTrue, SwitchesTrue, Fits
  <2> QED BY <1>1, <1>2, <1>5, <2>1, <2>2, StepTyped, TaskTrue
<1>9. CASE ~t.want /\ srv' = [srv EXCEPT !.core = "off", !.proxy = FALSE]
  <2>1. srv' \in SrvType /\ srv'.core = "off"
    BY <1>2, <1>9 DEF SrvType
  <2>2. ASSUME ~stale, ~beside
        PROVE  ProxyOwed("power")' /\ SwitchesTrue' /\ Fits("power", uiTask["power"])'
    BY <1>1, <1>3, <1>5, <1>6, <1>9, <2>1, <2>2 DEF ProxyOwed, SwitchesTrue, Fits
  <2> QED BY <1>1, <1>2, <1>5, <2>1, <2>2, StepTyped, TaskTrue
<1> QED BY <1>4, <1>7, <1>8, <1>9

LEMMA CallRestartTrue ==
    ASSUME UiTypeOK, UiInv, TrueInv, NEW c \in Controls, CallRestart(c)
    PROVE  UiTypeOK' /\ TrueInv'
<1> DEFINE t == uiTask[c]
<1>1. /\ c \in Restarters /\ t.stage = "call" /\ Active(c)
      /\ UNCHANGED <<ui, busy, beat, stale, beside, orphaned, clicks, mishaps>>
  BY DEF CallRestart, UiAt, Active, UiIdle, Late, Restarters
<1>2. /\ srv \in SrvType /\ ui' \in WindowType /\ busy' \in SUBSET Signals
      /\ stale' \in BOOLEAN /\ beside' \in BOOLEAN /\ mishaps' \in 0..MaxUiMishaps
      /\ t.tun \in BOOLEAN /\ t.lan \in BOOLEAN
  BY <1>1, StateIs
<1>3. ASSUME ~stale, ~beside PROVE ProxyTrue /\ SwitchesTrue /\ Fits(c, t)
  BY <1>1, <1>3, AloneIs DEF ProxyOwed, SwitchesOwed
<1>4. PICK answer \in {"ok", "waiting", "err"} :
        /\ Answered(c, answer)
        /\ \/ /\ answer # "err"
              /\ \E up \in {"on", "waiting"} :
                    srv' = [srv EXCEPT !.core = up, !.tun = t.tun, !.lan = t.lan]
           \/ answer = "err" /\ srv' \in {srv, [srv EXCEPT !.core = "off", !.proxy = FALSE]}
  BY DEF CallRestart
<1> DEFINE r == [t EXCEPT !.stage = "answered", !.answer = answer]
<1>5. /\ r \in UiTaskType /\ r.stage = "answered" /\ r.want = t.want /\ r.tun = t.tun
      /\ r.lan = t.lan /\ r.answer = answer /\ uiTask' = [uiTask EXCEPT ![c] = r]
  BY <1>1, <1>4, AnsweredIs
<1> HIDE DEF r
<1>6. uiTask'[c] = r
  BY <1>1, <1>5, TaskTyped
<1>7. ASSUME answer # "err", NEW up \in {"on", "waiting"},
             srv' = [srv EXCEPT !.core = up, !.tun = t.tun, !.lan = t.lan]
      PROVE  UiTypeOK' /\ TrueInv'
  <2>1. srv' \in SrvType /\ srv'.tun = t.tun /\ srv'.lan = t.lan /\ srv'.proxy = srv.proxy
    BY <1>2, <1>7 DEF SrvType
  <2>2. ASSUME ~stale, ~beside
        PROVE  /\ ProxyTrue' /\ (SwitchesTrue' \/ SwitchesOwed(c)')
               /\ Fits(c, uiTask[c])'
    <3>1. ProxyTrue'
      BY <1>1, <1>3, <2>1, <2>2 DEF ProxyTrue
    <3>2. Fits(c, uiTask[c])'
      BY <1>1, <1>3, <1>5, <1>6, <2>1, <2>2 DEF Fits, Restarters
    <3>3. SwitchesTrue' \/ SwitchesOwed(c)'
      BY <1>1, <1>3, <1>5, <1>6, <1>7, <2>1, <2>2
         DEF Fits, Restarters, SwitchesTrue, SwitchesOwed
    <3> QED BY <3>1, <3>2, <3>3
  <2> QED BY <1>1, <1>2, <1>5, <2>1, <2>2, StepTyped, TaskTrue
<1>8. CASE answer = "err" /\ srv' \in {srv, [srv EXCEPT !.core = "off", !.proxy = FALSE]}
  <2>1. srv' \in SrvType /\ (srv'.core # "off" => srv' = srv)
    BY <1>2, <1>8 DEF SrvType
  <2>2. ASSUME ~stale, ~beside
        PROVE  ProxyOwed(c)' /\ SwitchesTrue' /\ Fits(c, uiTask[c])'
    <3>1. ProxyOwed(c)'
      BY <1>1, <1>5, <1>6, <1>8 DEF ProxyOwed
    <3>2. SwitchesTrue'
      BY <1>1, <1>3, <2>1, <2>2 DEF SwitchesTrue
    <3>3. Fits(c, uiTask[c])'
      BY <1>1, <1>3, <1>5, <1>6, <1>8, <2>2 DEF Fits, Restarters
    <3> QED BY <3>1, <3>2, <3>3
  <2> QED BY <1>1, <1>2, <1>5, <2>1, <2>2, StepTyped, TaskTrue
<1> QED BY <1>4, <1>7, <1>8

LEMMA CallProxyTrue ==
    ASSUME UiTypeOK, UiInv, TrueInv, CallProxy PROVE UiTypeOK' /\ TrueInv'
<1> DEFINE t == uiTask["proxy"]
<1>1. /\ "proxy" \in Controls /\ t.stage = "call" /\ Active("proxy")
      /\ UNCHANGED <<ui, busy, beat, stale, beside, orphaned, clicks, mishaps>>
  BY StagesAre DEF CallProxy, UiAt, Active, UiIdle, Late
<1>2. /\ srv \in SrvType /\ ui' \in WindowType /\ busy' \in SUBSET Signals
      /\ stale' \in BOOLEAN /\ beside' \in BOOLEAN /\ mishaps' \in 0..MaxUiMishaps
      /\ t.want \in BOOLEAN
  BY <1>1, StateIs
<1>3. ASSUME ~stale, ~beside PROVE SwitchesTrue
  BY <1>1, <1>3, AloneIs DEF SwitchesOwed
<1>4. PICK answer \in {"ok", "waiting", "err"} :
        /\ Answered("proxy", answer)
        /\ \/ answer = "ok" /\ srv' = [srv EXCEPT !.proxy = t.want]
           \/ answer = "err" /\ srv' = srv
  BY DEF CallProxy
<1> DEFINE r == [t EXCEPT !.stage = "answered", !.answer = answer]
<1>5. /\ r \in UiTaskType /\ r.stage = "answered" /\ r.want = t.want
      /\ r.answer = answer /\ uiTask' = [uiTask EXCEPT !["proxy"] = r]
  BY <1>1, <1>4, AnsweredIs
<1> HIDE DEF r
<1>6. uiTask'["proxy"] = r
  BY <1>1, <1>5, TaskTyped
<1>7. /\ srv' \in SrvType /\ srv'.core = srv.core /\ srv'.tun = srv.tun /\ srv'.lan = srv.lan
      /\ answer # "err" => srv'.proxy = t.want
  BY <1>2, <1>4 DEF SrvType
<1>8. ASSUME ~stale, ~beside
      PROVE  ProxyOwed("proxy")' /\ SwitchesTrue' /\ Fits("proxy", uiTask["proxy"])'
  BY <1>1, <1>3, <1>5, <1>6, <1>7, <1>8 DEF ProxyOwed, SwitchesTrue, Fits
<1> QED BY <1>1, <1>2, <1>5, <1>7, <1>8, StepTyped, TaskTrue

(* The answers.                                                             *)
LEMMA PrepareTrue ==
    ASSUME UiTypeOK, UiInv, TrueInv, NEW c \in Controls, Prepare(c)
    PROVE  UiTypeOK' /\ TrueInv'
<1>1. /\ c \in {"power", "tun"} /\ uiTask[c].stage = "prepare" /\ Active(c)
      /\ UNCHANGED <<srv, beat, stale, beside, orphaned, clicks, mishaps>>
  BY DEF Prepare, UiAt, Active, UiIdle, Late
<1>2. /\ ui \in WindowType /\ busy \in SUBSET Signals /\ stale' \in BOOLEAN /\ beside' \in BOOLEAN
      /\ mishaps' \in 0..MaxUiMishaps /\ uiTask[c].want \in BOOLEAN
      /\ "call" \in Stages /\ "check" \in Stages
  BY <1>1, StateIs, StagesAre
<1>3. ASSUME ~stale, ~beside PROVE ProxyTrue /\ SwitchesTrue /\ Fits(c, uiTask[c])
  BY <1>1, <1>3, AloneIs DEF ProxyOwed, SwitchesOwed
<1>4. ASSUME NEW stage \in {"call", "check"}, Goto(c, stage), UNCHANGED <<ui, busy>>
      PROVE  UiTypeOK' /\ TrueInv'
  <2> DEFINE r == [uiTask[c] EXCEPT !.stage = stage]
  <2>1. /\ r \in UiTaskType /\ r.stage = stage /\ r.want = uiTask[c].want
        /\ r.tun = uiTask[c].tun /\ r.lan = uiTask[c].lan
        /\ uiTask' = [uiTask EXCEPT ![c] = r]
    BY <1>2, <1>4, GotoIs
  <2> HIDE DEF r
  <2>2. stale \/ beside \/ (c = "power" => r.want)
    BY <1>1, <1>3, <2>1 DEF Fits
  <2> QED BY <1>1, <1>2, <1>4, <2>1, <2>2, MovesTrue
<1>5. ASSUME c = "tun", ui' = [ui EXCEPT !.tun = uiTask[c].want], EndTask(c)
      PROVE  UiTypeOK' /\ TrueInv'
  <2>1. ui' \in WindowType /\ ui'.proxy = ui.proxy
    BY <1>2, <1>5 DEF WindowType
  <2>2. ASSUME ~stale, ~beside PROVE ProxyTrue' /\ SwitchesTrue'
    BY <1>1, <1>3, <1>5, <2>1, <2>2 DEF ProxyTrue, SwitchesTrue, Fits
  <2> QED BY <1>1, <1>2, <1>5, <2>1, <2>2, EndsTrue
<1> QED BY <1>1, <1>4, <1>5 DEF Prepare

LEMMA CheckTrue ==
    ASSUME UiTypeOK, UiInv, TrueInv, NEW c \in Controls, Check(c)
    PROVE  UiTypeOK' /\ TrueInv'
<1>1. /\ c \in {"power", "tun"} /\ uiTask[c].stage = "check" /\ Active(c)
      /\ UNCHANGED <<srv, ui, beat, stale, beside, orphaned, clicks>>
  BY DEF Check, UiAt, Active, UiIdle, Late
<1>2. /\ ui' \in WindowType /\ stale' \in BOOLEAN /\ beside' \in BOOLEAN
      /\ mishaps' \in 0..MaxUiMishaps /\ "call" \in Stages
  BY <1>1, StateIs, StagesAre, UiCounts DEF Check
<1>3. ASSUME ~stale, ~beside PROVE ProxyTrue /\ SwitchesTrue
  BY <1>1, <1>3, AloneIs DEF ProxyOwed, SwitchesOwed
<1>4. ASSUME NEW more \in SUBSET Signals, ClaimMore(c, more, "call")
      PROVE  UiTypeOK' /\ TrueInv'
  <2>1. busy' \in SUBSET Signals
        /\ \E r \in UiTaskType :
              /\ r.stage = "call" /\ r.want = uiTask[c].want /\ r.tun = uiTask[c].tun
              /\ r.lan = uiTask[c].lan /\ uiTask' = [uiTask EXCEPT ![c] = r]
    BY <1>2, <1>4, ClaimIs
  <2> QED BY <1>1, <1>2, <2>1, MovesTrue
<1>5. ASSUME EndTask(c) PROVE UiTypeOK' /\ TrueInv'
  <2>1. ASSUME ~stale, ~beside PROVE ProxyTrue' /\ SwitchesTrue'
    BY <1>1, <1>3, <2>1 DEF ProxyTrue, SwitchesTrue
  <2> QED BY <1>1, <1>2, <1>5, <2>1, EndsTrue
<1>6. (IF c = "tun" THEN {"core_restarting"} ELSE {}) \in SUBSET Signals
  BY ClaimsAre
<1> QED BY <1>4, <1>5, <1>6 DEF Check

LEMMA ShowAnswerTrue ==
    ASSUME UiTypeOK, UiInv, TrueInv, NEW c \in Controls, ShowAnswer(c)
    PROVE  UiTypeOK' /\ TrueInv'
<1> DEFINE t == uiTask[c]
<1>1. /\ c # "proxy" /\ t.stage = "answered" /\ Active(c)
      /\ UNCHANGED <<srv, beat, stale, beside, orphaned, clicks, mishaps>>
  BY DEF ShowAnswer, UiAt, Active, UiIdle, Late
<1>2. /\ ui \in WindowType /\ busy \in SUBSET Signals /\ stale' \in BOOLEAN /\ beside' \in BOOLEAN
      /\ srv' \in SrvType /\ mishaps' \in 0..MaxUiMishaps /\ t.want \in BOOLEAN
      /\ "reread" \in Stages /\ "proxyread" \in Stages
  BY <1>1, StateIs, StagesAre
<1>3. ASSUME ~stale, ~beside
      PROVE  /\ ProxyTrue \/ ProxyOwed(c)
             /\ SwitchesTrue \/ SwitchesOwed(c)
             /\ Fits(c, t)
  BY <1>1, <1>3, AloneIs
<1>4. CASE t.answer = "err"
  <2> DEFINE r == [t EXCEPT !.stage = "reread"]
  <2>1. Goto(c, "reread") /\ UNCHANGED <<ui, busy>>
    BY <1>4 DEF ShowAnswer
  <2>2. /\ r \in UiTaskType /\ r.stage = "reread" /\ r.want = t.want
        /\ r.tun = t.tun /\ r.lan = t.lan /\ uiTask' = [uiTask EXCEPT ![c] = r]
    BY <1>2, <2>1, GotoIs
  <2> HIDE DEF r
  <2>3. uiTask'[c] = r
    BY <2>2, TaskTyped
  <2>4. ASSUME ~stale, ~beside
        PROVE  /\ ProxyTrue' \/ ProxyOwed(c)'
               /\ SwitchesTrue' /\ Fits(c, uiTask[c])'
    <3>1. SwitchesTrue'
      BY <1>1, <1>3, <1>4, <2>1, <2>4 DEF SwitchesTrue, SwitchesOwed
    <3>2. Fits(c, uiTask[c])'
      BY <1>1, <1>3, <2>1, <2>2, <2>3, <2>4 DEF Fits
    <3>3. ProxyTrue' \/ ProxyOwed(c)'
      BY <1>1, <1>3, <2>1, <2>2, <2>3, <2>4 DEF ProxyTrue, ProxyOwed
    <3> QED BY <3>1, <3>2, <3>3
  <2> QED BY <1>1, <1>2, <2>1, <2>2, <2>4, StepTyped, TaskTrue
<1>5. CASE t.answer # "err"
  <2> DEFINE up == t.answer = "ok" /\ (c = "power" => t.want)
             clears == up \/ c \in {"restart", "banner", "member"}
  <2>1. ui' = [ui EXCEPT !.connected = up, !.pending = @ /\ ~clears,
                         !.tun = IF c = "tun" THEN t.want ELSE @,
                         !.lan = IF c = "lan" THEN t.want ELSE @]
    BY <1>5 DEF ShowAnswer, Accept
  <2>2. up \in BOOLEAN /\ (ui.pending /\ ~clears) \in BOOLEAN
    BY <1>2 DEF WindowType
  <2> HIDE DEF clears
  <2>3. /\ ui' \in WindowType /\ ui'.proxy = ui.proxy /\ ui'.connected = up
        /\ ui'.tun = (IF c = "tun" THEN t.want ELSE ui.tun)
        /\ ui'.lan = (IF c = "lan" THEN t.want ELSE ui.lan)
    BY <1>2, <2>1, <2>2 DEF WindowType
  <2>4. ASSUME ~stale, ~beside PROVE SwitchesTrue' /\ (ProxyTrue' \/ (c = "power" /\ ~t.want))
    <3>1. CASE c \in {"tun", "lan"}
      BY <1>1, <1>3, <1>5, <2>3, <2>4, <3>1
         DEF SwitchesTrue, SwitchesOwed, Fits, ProxyTrue, ProxyOwed
    <3>2. CASE c \notin {"tun", "lan"}
      BY <1>1, <1>3, <1>5, <2>3, <2>4, <3>2
         DEF SwitchesTrue, SwitchesOwed, ProxyTrue, ProxyOwed
    <3> QED BY <3>1, <3>2
  <2>5. CASE c = "power" /\ ~ui'.connected
    <3> DEFINE r == [t EXCEPT !.stage = "proxyread"]
    <3>1. Goto(c, "proxyread") /\ UNCHANGED busy
      BY <1>5, <2>5 DEF ShowAnswer
    <3>2. /\ r \in UiTaskType /\ r.stage = "proxyread" /\ r.want = t.want
          /\ r.tun = t.tun /\ r.lan = t.lan /\ uiTask' = [uiTask EXCEPT ![c] = r]
      BY <1>2, <3>1, GotoIs
    <3> HIDE DEF r
    <3>3. uiTask'[c] = r
      BY <3>2, TaskTyped
    <3>4. ASSUME ~stale, ~beside
          PROVE  (ProxyTrue' \/ ProxyOwed(c)') /\ SwitchesTrue' /\ Fits(c, uiTask[c])'
      <4>1. Fits(c, uiTask[c])'
        BY <1>3, <2>3, <2>5, <3>2, <3>3, <3>4 DEF Fits
      <4>2. ProxyTrue' \/ ProxyOwed(c)'
        BY <2>4, <3>2, <3>3, <3>4 DEF ProxyOwed
      <4> QED BY <2>4, <3>4, <4>1, <4>2
    <3> QED BY <1>1, <1>2, <2>3, <3>1, <3>2, <3>4, StepTyped, TaskTrue
  <2>6. CASE ~(c = "power" /\ ~ui'.connected)
    <3>1. EndTask(c)
      BY <1>5, <2>6 DEF ShowAnswer
    <3>2. ASSUME ~stale, ~beside PROVE ProxyTrue' /\ SwitchesTrue'
      BY <2>3, <2>4, <2>6, <3>2
    <3> QED BY <1>1, <1>2, <2>3, <3>1, <3>2, EndsTrue
  <2> QED BY <2>5, <2>6
<1> QED BY <1>4, <1>5

\* A read shows the truth, or that there is none.
LEMMA ReadIs ==
    ASSUME UiTypeOK, NEW shown, ReadProxy(shown)
    PROVE  /\ shown \in ProxyShown /\ mishaps' \in 0..MaxUiMishaps
           /\ shown # "unread" => (shown = "on") = srv.proxy
<1>1. CASE shown = (IF srv.proxy THEN "on" ELSE "off") /\ UNCHANGED mishaps
  BY <1>1, UiTypeIs DEF SrvType, ProxyShown
<1>2. CASE shown = "unread" /\ Mishap
  BY <1>2, UiCounts DEF ProxyShown
<1> QED BY <1>1, <1>2 DEF ReadProxy

LEMMA ShowProxyTrue ==
    ASSUME UiTypeOK, UiInv, TrueInv, ShowProxy PROVE UiTypeOK' /\ TrueInv'
<1> DEFINE t == uiTask["proxy"]
<1>1. /\ "proxy" \in Controls /\ t.stage = "answered" /\ Active("proxy") /\ EndTask("proxy")
      /\ UNCHANGED <<srv, beat, stale, beside, orphaned, clicks>>
  BY StagesAre DEF ShowProxy, UiAt, Active, UiIdle, Late
<1>2. /\ ui \in WindowType /\ srv \in SrvType /\ stale' \in BOOLEAN /\ beside' \in BOOLEAN
      /\ t.want \in BOOLEAN /\ mishaps \in 0..MaxUiMishaps
  BY <1>1, StateIs
<1>3. PICK shown \in ProxyShown :
        /\ IF t.answer = "err" THEN ReadProxy(shown)
           ELSE shown = (IF t.want THEN "on" ELSE "off") /\ UNCHANGED mishaps
        /\ ui' = [ui EXCEPT !.proxy = shown]
  BY DEF ShowProxy
<1>4. /\ ui' \in WindowType /\ ui'.proxy = shown /\ ui'.tun = ui.tun /\ ui'.lan = ui.lan
      /\ mishaps' \in 0..MaxUiMishaps
  BY <1>2, <1>3, ReadIs DEF WindowType
<1>5. ASSUME ~stale, ~beside PROVE ProxyTrue' /\ SwitchesTrue'
  <2>1. SwitchesTrue /\ Fits("proxy", t)
    BY <1>1, <1>5, AloneIs DEF SwitchesOwed
  <2>2. t.answer # "err" => srv.proxy = t.want
    BY <1>1, <2>1 DEF Fits
  <2>3. shown # "unread" => (shown = "on") = srv.proxy
    BY <1>2, <1>3, <2>2, ReadIs
  <2> QED BY <1>1, <1>4, <2>1, <2>3 DEF ProxyTrue, SwitchesTrue
<1> QED BY <1>1, <1>2, <1>4, <1>5, EndsTrue

LEMMA RereadTrue ==
    ASSUME UiTypeOK, UiInv, TrueInv, NEW c \in Controls, Reread(c)
    PROVE  UiTypeOK' /\ TrueInv'
<1> DEFINE t == uiTask[c]
<1>1. /\ t.stage = "reread" /\ Active(c)
      /\ UNCHANGED <<srv, beat, stale, beside, orphaned, clicks>>
  BY DEF Reread, UiAt, Active, UiIdle, Late
<1>2. /\ ui \in WindowType /\ srv \in SrvType /\ stale' \in BOOLEAN /\ beside' \in BOOLEAN
      /\ t.want \in BOOLEAN /\ mishaps \in 0..MaxUiMishaps /\ busy \in SUBSET Signals
      /\ "proxyread" \in Stages
  BY <1>1, StateIs, StagesAre
<1>3. PICK shown \in ProxyShown :
        /\ IF c = "power" THEN shown = ui.proxy /\ UNCHANGED mishaps ELSE ReadProxy(shown)
        /\ ui' = [ui EXCEPT !.connected = srv.core = "on", !.proxy = shown]
  BY DEF Reread
<1>4. /\ ui' \in WindowType /\ ui'.proxy = shown /\ ui'.tun = ui.tun /\ ui'.lan = ui.lan
      /\ mishaps' \in 0..MaxUiMishaps
  BY <1>2, <1>3, ReadIs DEF WindowType
<1>5. ASSUME ~stale, ~beside
      PROVE  /\ ProxyTrue' \/ (c = "power" /\ ~t.want)
             /\ SwitchesTrue' /\ Fits(c, t)
  <2>1. (ProxyTrue \/ ProxyOwed(c)) /\ SwitchesTrue /\ Fits(c, t)
    BY <1>1, <1>5, AloneIs DEF SwitchesOwed
  <2>2. ProxyTrue' \/ (c = "power" /\ ~t.want)
    <3>1. CASE c = "power"
      BY <1>1, <1>3, <1>4, <2>1, <3>1 DEF ProxyTrue, ProxyOwed, Restarters
    <3>2. CASE c # "power"
      BY <1>1, <1>3, <1>4, <3>2, ReadIs DEF ProxyTrue
    <3> QED BY <3>1, <3>2
  <2> QED BY <1>1, <1>4, <2>1, <2>2 DEF SwitchesTrue
<1>6. CASE c = "power" /\ ~(t.want /\ ui'.connected)
  <2> DEFINE r == [t EXCEPT !.stage = "proxyread"]
  <2>1. Goto(c, "proxyread") /\ UNCHANGED busy
    BY <1>6 DEF Reread
  <2>2. /\ r \in UiTaskType /\ r.stage = "proxyread" /\ r.want = t.want
        /\ r.tun = t.tun /\ r.lan = t.lan /\ uiTask' = [uiTask EXCEPT ![c] = r]
    BY <1>2, <2>1, GotoIs
  <2> HIDE DEF r
  <2>3. uiTask'[c] = r
    BY <2>2, TaskTyped
  <2>4. ASSUME ~stale, ~beside
        PROVE  (ProxyTrue' \/ ProxyOwed(c)') /\ SwitchesTrue' /\ Fits(c, uiTask[c])'
    <3>1. Fits(c, uiTask[c])'
      BY <1>4, <1>5, <1>6, <2>2, <2>3, <2>4 DEF Fits
    <3>2. ProxyTrue' \/ ProxyOwed(c)'
      BY <1>5, <2>2, <2>3, <2>4 DEF ProxyOwed
    <3> QED BY <1>5, <2>4, <3>1, <3>2
  <2> QED BY <1>1, <1>2, <1>4, <2>1, <2>2, <2>4, StepTyped, TaskTrue
<1>7. CASE ~(c = "power" /\ ~(t.want /\ ui'.connected))
  <2>1. EndTask(c)
    BY <1>7 DEF Reread
  <2>2. ASSUME ~stale, ~beside PROVE ProxyTrue' /\ SwitchesTrue'
    BY <1>5, <1>7, <2>2
  <2> QED BY <1>1, <1>2, <1>4, <2>1, <2>2, EndsTrue
<1> QED BY <1>6, <1>7

LEMMA ProxyReadTrue ==
    ASSUME UiTypeOK, UiInv, TrueInv, ProxyRead PROVE UiTypeOK' /\ TrueInv'
<1>1. /\ "power" \in Controls /\ uiTask["power"].stage = "proxyread" /\ Active("power")
      /\ EndTask("power") /\ UNCHANGED <<srv, beat, stale, beside, orphaned, clicks>>
  BY StagesAre DEF ProxyRead, UiAt, Active, UiIdle, Late
<1>2. ui \in WindowType /\ stale' \in BOOLEAN /\ beside' \in BOOLEAN
  BY <1>1, StateIs
<1>3. PICK shown \in ProxyShown : ReadProxy(shown) /\ ui' = [ui EXCEPT !.proxy = shown]
  BY DEF ProxyRead
<1>4. /\ ui' \in WindowType /\ ui'.proxy = shown /\ ui'.tun = ui.tun /\ ui'.lan = ui.lan
      /\ mishaps' \in 0..MaxUiMishaps
  BY <1>2, <1>3, ReadIs DEF WindowType
<1>5. ASSUME ~stale, ~beside PROVE ProxyTrue' /\ SwitchesTrue'
  <2>1. SwitchesTrue
    BY <1>1, <1>5, AloneIs DEF SwitchesOwed
  <2> QED BY <1>1, <1>3, <1>4, <2>1, ReadIs DEF ProxyTrue, SwitchesTrue
<1> QED BY <1>1, <1>2, <1>4, <1>5, EndsTrue
-----------------------------------------------------------------------------
(* Steps that leave the tasks alone.                                        *)
LEMMA AsideTrue ==
    ASSUME UiTypeOK, TrueInv, UNCHANGED <<uiTask, stale, beside>>,
           ui' \in WindowType, ui'.tun = ui.tun, ui'.lan = ui.lan, ui'.proxy = ui.proxy,
           srv' \in SrvType, srv'.tun = srv.tun, srv'.lan = srv.lan, srv'.proxy = srv.proxy,
           srv.core = "off" => srv'.core = "off"
    PROVE  TrueInv'
<1>1. /\ ProxyTrue' <=> ProxyTrue
      /\ SwitchesTrue => SwitchesTrue'
  BY DEF ProxyTrue, SwitchesTrue
<1>2. ASSUME NEW c \in Controls
      PROVE  /\ ProxyOwed(c)' <=> ProxyOwed(c)
             /\ SwitchesOwed(c)' <=> SwitchesOwed(c)
             /\ Active(c)' <=> Active(c)
             /\ Fits(c, uiTask[c]) => Fits(c, uiTask[c])'
  BY DEF ProxyOwed, SwitchesOwed, Active, Late, UiIdle, UiAt, Fits
<1> QED BY <1>1, <1>2 DEF TrueInv

LEMMA OthersTrue ==
    ASSUME UiTypeOK, TrueInv,
           BeatReads \/ BeatFails \/ BeatShows \/ EditConfig \/ CoreDies \/ ConsentEnds
    PROVE  UiTypeOK' /\ TrueInv'
<1>1. /\ srv \in SrvType /\ ui \in WindowType /\ mishaps \in 0..MaxUiMishaps
      /\ beat \in CoreStates \cup {"idle"} /\ srv.core \in CoreStates
  BY UiTypeIs DEF SrvType, CoreStates
<1>2. UNCHANGED <<uiTask, busy, stale, beside, orphaned, clicks>>
  BY DEF BeatReads, BeatFails, BeatShows, EditConfig, CoreDies, ConsentEnds
<1>3. mishaps' \in 0..MaxUiMishaps
  BY <1>1, UiCounts DEF BeatReads, BeatFails, BeatShows, EditConfig, CoreDies, ConsentEnds
<1>4. beat' \in CoreStates \cup {"idle"}
  BY <1>1 DEF BeatReads, BeatFails, BeatShows, EditConfig, CoreDies, ConsentEnds, CoreStates
<1>5. ui' \in WindowType /\ ui'.tun = ui.tun /\ ui'.lan = ui.lan /\ ui'.proxy = ui.proxy
  <2>1. CASE UNCHANGED ui
    BY <1>1, <2>1
  <2>2. CASE ui' = [ui EXCEPT !.connected = beat = "on"]
    BY <1>1, <2>2 DEF WindowType
  <2>3. CASE ui' = [ui EXCEPT !.pending = TRUE]
    BY <1>1, <2>3 DEF WindowType
  <2> QED BY <2>1, <2>2, <2>3 DEF BeatReads, BeatFails, BeatShows, EditConfig, CoreDies, ConsentEnds
<1>6. /\ srv' \in SrvType /\ srv'.tun = srv.tun /\ srv'.lan = srv.lan /\ srv'.proxy = srv.proxy
      /\ srv.core = "off" => srv'.core = "off"
  <2>1. CASE UNCHANGED srv
    BY <1>1, <2>1
  <2>2. CASE srv.core # "off" /\ \E up \in {"on", "off"} : srv' = [srv EXCEPT !.core = up]
    BY <1>1, <2>2 DEF SrvType
  <2> QED BY <2>1, <2>2 DEF BeatReads, BeatFails, BeatShows, EditConfig, CoreDies, ConsentEnds
<1>7. UiTypeOK'
  BY <1>2, <1>3, <1>4, <1>5, <1>6, UiTypeIs
     DEF UiTypeOK, SrvType, WindowType, UiTaskType, Stages
<1> QED BY <1>2, <1>5, <1>6, <1>7, AsideTrue

\* A page that is left with a task on it is on record.
LEMMA NavigateTrue ==
    ASSUME UiTypeOK, TrueInv, NEW page \in Pages, Navigate(page) PROVE UiTypeOK' /\ TrueInv'
<1> DEFINE dropped == {c \in Controls : ~UiIdle(c) /\ uiTask[c].home = ui.page}
<1>1. /\ IF dropped = {} THEN UNCHANGED mishaps ELSE Mishap
      /\ uiTask' = [c \in Controls |-> IF c \in dropped THEN NoUiTask ELSE uiTask[c]]
      /\ orphaned' = orphaned \cup UNION {uiTask[c].owns : c \in dropped}
      /\ stale' = (stale \/ dropped # {}) /\ beside' = beside
      /\ ui' = [ui EXCEPT !.page = page] /\ UNCHANGED <<srv, busy, beat, clicks>>
  BY DEF Navigate
<1>2. /\ srv \in SrvType /\ ui \in WindowType /\ uiTask \in [Controls -> UiTaskType]
      /\ orphaned \in SUBSET Signals /\ mishaps \in 0..MaxUiMishaps
      /\ \A c \in Controls : uiTask[c].owns \in SUBSET Signals
  BY UiTypeIs, StateIs
<1>3. ui' \in WindowType /\ ui'.tun = ui.tun /\ ui'.lan = ui.lan /\ ui'.proxy = ui.proxy
  BY <1>1, <1>2 DEF WindowType
<1>4. uiTask' \in [Controls -> UiTaskType]
  BY <1>1, <1>2, UiRecords
<1>5. orphaned' \in SUBSET Signals
  BY <1>1, <1>2
<1>6. mishaps' \in 0..MaxUiMishaps
  BY <1>1, <1>2, UiCounts
<1>7. UiTypeOK'
  BY <1>1, <1>2, <1>3, <1>4, <1>5, <1>6, UiTypeIs
     DEF UiTypeOK, SrvType, WindowType, UiTaskType, Stages
<1>8. TrueInv'
  <2>1. CASE dropped = {}
    <3>1. uiTask' = uiTask /\ stale' = stale
      BY <1>1, <1>2, <2>1, UiTypeIs
    <3> QED BY <1>1, <1>2, <1>3, <3>1, AsideTrue
  <2>2. CASE dropped # {}
    BY <1>1, <2>2 DEF TrueInv
  <2> QED BY <2>1, <2>2
<1> QED BY <1>7, <1>8

LEMMA UiStepTrue ==
    ASSUME UiTypeOK, UiInv, TrueInv, [UiNext]_uiVars PROVE UiTypeOK' /\ TrueInv'
<1>1. CASE UNCHANGED uiVars
  <2>1. UiTypeOK'
    BY <1>1 DEF uiVars, UiTypeOK
  <2>2. srv \in SrvType /\ ui \in WindowType
    BY UiTypeIs
  <2>3. TrueInv'
    BY <1>1, <2>2, AsideTrue DEF uiVars
  <2> QED BY <2>1, <2>3
<1>2. ASSUME NEW c \in Controls, TaskStep(c) PROVE UiTypeOK' /\ TrueInv'
  BY <1>2, CallRestartTrue, PrepareTrue, CheckTrue, ShowAnswerTrue, RereadTrue, CallPowerTrue,
     ProxyReadTrue, CallProxyTrue, ShowProxyTrue, TunRunsTrue, LanRunsTrue, QueuedRunsTrue
     DEF TaskStep
<1> QED BY <1>1, <1>2, ClicksTrue, OthersTrue, NavigateTrue DEF UiNext

LEMMA UiInitTrue == UiInit => UiTypeOK /\ TrueInv
<1> SUFFICES ASSUME UiInit PROVE UiTypeOK /\ TrueInv
  OBVIOUS
<1>1. /\ srv \in SrvType /\ srv.proxy = FALSE /\ srv.tun = FALSE /\ srv.lan = FALSE
      /\ ui \in WindowType /\ ui.proxy = "off" /\ ui.tun = FALSE /\ ui.lan = FALSE
  BY DEF UiInit, SrvType, WindowType, Pages, ProxyShown
<1>2. /\ uiTask \in [Controls -> UiTaskType] /\ \A c \in Controls : uiTask[c].stage = "none"
  BY UiRecords DEF UiInit
<1>3. UiTypeOK
  <2>1. /\ busy \subseteq Signals /\ orphaned \subseteq Signals /\ beat \in CoreStates \cup {"idle"}
        /\ stale \in BOOLEAN /\ beside \in BOOLEAN
    BY DEF UiInit
  <2>2. clicks \in 0..MaxClicks /\ mishaps \in 0..MaxUiMishaps
    BY UiAssumption DEF UiInit, UiAssumption
  <2> QED BY <1>1, <1>2, <2>1, <2>2, UiTypeIs
<1>4. TrueInv
  <2>1. ProxyTrue /\ SwitchesTrue
    BY <1>1 DEF ProxyTrue, SwitchesTrue
  <2>2. \A c \in Controls : ~Active(c)
    BY <1>2 DEF Active, UiIdle
  <2> QED BY <2>1, <2>2 DEF TrueInv
<1> QED BY <1>3, <1>4

(* All of it, of the steps alone: fairness has no part in it.               *)
LEMMA UiKept == UiInit /\ [][UiNext]_uiVars => [](UiInv /\ UiTypeOK /\ TrueInv)
<1> DEFINE All == UiInv /\ UiTypeOK /\ TrueInv
<1>1. UiInit => All
  BY UiInitSafe, UiInitTrue
<1>2. All /\ [UiNext]_uiVars => All'
  BY UiStepSafe, UiStepTrue
<1> HIDE DEF All
<1>3. UiInit /\ [][UiNext]_uiVars => []All
  BY <1>1, <1>2, PTL
<1> QED BY <1>3 DEF All

(* The variables of a window keep their types.                              *)
THEOREM UiTyped == UiSpec => []UiTypeOK
BY UiKept, PTL DEF UiSpec

LEMMA TrueIsShown == ASSUME TrueInv PROVE ShownIsTrue
<1> SUFFICES ASSUME \A c \in Controls : UiIdle(c), ~stale, ~beside
             PROVE  /\ ui.proxy # "unread" => (ui.proxy = "on") = srv.proxy
                    /\ srv.core = "on" => ui.tun = srv.tun /\ ui.lan = srv.lan
  BY DEF ShownIsTrue
<1>1. \A c \in Controls : ~ProxyOwed(c) /\ ~SwitchesOwed(c)
  BY DEF UiIdle, ProxyOwed, SwitchesOwed
<1> QED BY <1>1 DEF TrueInv, ProxyTrue, SwitchesTrue

(* When no task is on its way, none was started on a status that was not true
   and none beside another, the switches show what the backend has: every
   path of every control, a failed call and a failed read included, ends in
   an answer or a read that says so (runtime.rs, toggles.rs).               *)
THEOREM UiShownIsTrue == UiSpec => []ShownIsTrue
BY UiKept, TrueIsShown, PTL DEF UiSpec
=============================================================================
