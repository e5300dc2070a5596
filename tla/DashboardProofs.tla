-------------------------- MODULE DashboardProofs --------------------------
(***************************************************************************)
(* Proofs about Dashboard, for any flows, any number of panes and any      *)
(* channel capacity: types, that only the pane's command runs, that no     *)
(* disruptive command runs unasked, and that a guided flow goes on.        *)
(***************************************************************************)
EXTENDS Dashboard, TLAPS

Screens == {"menu", "confirm", "via", "wizard", "output", "card", "gone", "panic"}
Panels  == Screens \ {"gone", "panic"}
Asks    == {"askHeap", "askRead"}

\* Models without the bounds on the panes.
Records == [scr : Screens, prev : Panels, text : Questions, armed : BOOLEAN,
            pendHeap : BOOLEAN, route : {"threads", "heap"}, active : BOOLEAN,
            queue : Seq(StepKinds), id : Nat, running : BOOLEAN,
            cancelled : SUBSET Nat, unasked : SUBSET Nat]

\* There is room for the panes that the question and the flow may still open.
Room(x) == x.id + Len(x.queue) + (IF x.armed THEN 1 ELSE 0) <= MaxStreams

\* A running pane is on the screen, unless the strip shows it.
ShownOK(x) == "resize" \notin scene /\ x.running => strip \/ x.scr \in {"output", "gone", "panic"}

\* A pending heap dump is on its way through the prompt that was opened for it,
\* which a flow's question may cover.
PendOK(x) ==
  "resize" \notin scene /\ x.pendHeap =>
    /\ x.route = "heap"
    /\ \/ x.scr = "via"
       \/ strip /\ x.scr = "confirm" /\ x.prev \in {"via", "confirm"}
       \/ x.scr \in {"gone", "panic"}

AskedOK(x) == "resize" \notin scene => x.unasked = {}

FlowOK(x) ==
  "view" \notin scene /\ x.active /\ x.scr # "gone" =>
    \/ x.running
    \/ x.armed /\ x.text \in Asks /\ x.scr = "confirm"
    \/ x.scr = "panic"

\* What the model says about screens and flows.
ScreenOK(x) == ShownOK(x) /\ PendOK(x) /\ AskedOK(x) /\ FlowOK(x)

\* Streams that were not started are empty; what has ended has no child; the
\* pane's stream is waited for only while the pane runs.
StreamInv ==
  /\ \A s \in Ids : s > m.id => streams[s] = NoStream
  /\ \A s \in Ids : streams[s].child = "live" =>
                      \A i \in DOMAIN streams[s].chan : streams[s].chan[i] # "done"
  /\ m.id \in Ids /\ streams[m.id].waiter => m.running
  /\ m.running => m.id > 0

IInv == TypeOK /\ Room(m) /\ ScreenOK(m) /\ StreamInv /\ OnlyThePaneRuns

---------------------------------------------------------------------------
(* The methods, field by field.                                            *)

\* y is x but for the fields in F.
Keeps(x, y, F) ==
  /\ "scr" \in F \/ y.scr = x.scr
  /\ "prev" \in F \/ y.prev = x.prev
  /\ "text" \in F \/ y.text = x.text
  /\ "armed" \in F \/ y.armed = x.armed
  /\ "pendHeap" \in F \/ y.pendHeap = x.pendHeap
  /\ "route" \in F \/ y.route = x.route
  /\ "active" \in F \/ y.active = x.active
  /\ "queue" \in F \/ y.queue = x.queue
  /\ "id" \in F \/ y.id = x.id
  /\ "running" \in F \/ y.running = x.running
  /\ "cancelled" \in F \/ y.cancelled = x.cancelled
  /\ "unasked" \in F \/ y.unasked = x.unasked

Cancels(x) == IF x.running THEN x.cancelled \union {x.id} ELSE x.cancelled

LEMMA StopEffect ==
  ASSUME NEW x \in Records
  PROVE  /\ Stop(x) \in Records /\ Keeps(x, Stop(x), {"cancelled"})
         /\ Stop(x).cancelled = Cancels(x)
<1>1. Stop(x) \in Records
  BY DEF Stop, Records
<1>2. Keeps(x, Stop(x), {"cancelled"})
  BY DEF Stop, Records, Keeps
<1>3. Stop(x).cancelled = Cancels(x)
  BY DEF Stop, Records, Cancels
<1> QED
  BY <1>1, <1>2, <1>3

LEMMA ShowPaneEffect ==
  ASSUME NEW x \in Records
  PROVE  /\ ShowPane(x) \in Records /\ Keeps(x, ShowPane(x), {"scr", "prev"})
         /\ ShowPane(x).scr = (IF strip THEN x.scr ELSE "output")
         /\ ShowPane(x).prev = (IF strip THEN x.prev ELSE "menu")
<1>1. ShowPane(x) \in Records
  BY DEF ShowPane, Records, Screens, Panels
<1>2. Keeps(x, ShowPane(x), {"scr", "prev"})
  BY DEF ShowPane, Records, Keeps
<1>3. ShowPane(x).scr = (IF strip THEN x.scr ELSE "output")
  BY DEF ShowPane, Records
<1>4. ShowPane(x).prev = (IF strip THEN x.prev ELSE "menu")
  BY DEF ShowPane, Records
<1> QED
  BY <1>1, <1>2, <1>3, <1>4

\* The fields that StartPane changes, and their values.
PaneFields == {"scr", "prev", "id", "running", "unasked", "cancelled"}
Started(x, y, u) ==
  /\ y.scr = (IF strip THEN x.scr ELSE "output")
  /\ y.prev = (IF strip THEN x.prev ELSE "menu")
  /\ y.id = x.id + 1 /\ y.running = TRUE /\ y.cancelled = Cancels(x)
  /\ y.unasked = (IF u THEN x.unasked \union {x.id + 1} ELSE x.unasked)

LEMMA StartPaneEffect ==
  ASSUME NEW x \in Records, NEW u \in BOOLEAN
  PROVE  /\ StartPane(x, u) \in Records
         /\ Keeps(x, StartPane(x, u), PaneFields) /\ Started(x, StartPane(x, u), u)
<1> DEFINE y == Stop(x)
           v == IF u THEN y.unasked \union {x.id + 1} ELSE y.unasked
           z == [y EXCEPT !.id = x.id + 1, !.running = TRUE, !.unasked = v]
<1>1. y \in Records /\ Keeps(x, y, {"cancelled"}) /\ y.cancelled = Cancels(x)
  BY StopEffect
<1>a. x.id + 1 \in Nat
  BY DEF Records
<1> HIDE DEF y
<1>b. v \in SUBSET Nat
  BY <1>1, <1>a DEF Records
<1>2. StartPane(x, u) = ShowPane(z)
  BY DEF StartPane, y
<1> HIDE DEF v
<1>3. z \in Records
  BY <1>1, <1>a, <1>b DEF Records
<1>4. Keeps(y, z, {"id", "running", "unasked"})
  BY <1>1 DEF Records, Keeps
<1>5. z.id = x.id + 1 /\ z.running = TRUE
  BY <1>1 DEF Records
<1>6. z.unasked = (IF u THEN y.unasked \union {x.id + 1} ELSE y.unasked)
  BY <1>1 DEF Records, v
<1> HIDE DEF z
<1>7. /\ ShowPane(z) \in Records /\ Keeps(z, ShowPane(z), {"scr", "prev"})
      /\ ShowPane(z).scr = (IF strip THEN z.scr ELSE "output")
      /\ ShowPane(z).prev = (IF strip THEN z.prev ELSE "menu")
  BY <1>3, ShowPaneEffect
<1> QED
  BY <1>1, <1>2, <1>4, <1>5, <1>6, <1>7 DEF Keeps, Started, PaneFields

AskFields == {"text", "armed", "prev", "scr"}

LEMMA AskConfirmEffect ==
  ASSUME NEW x \in Records, NEW q \in Questions, x.scr \in Panels
  PROVE  /\ AskConfirm(x, q) \in Records /\ Keeps(x, AskConfirm(x, q), AskFields)
         /\ AskConfirm(x, q).text = q /\ AskConfirm(x, q).armed = TRUE
         /\ AskConfirm(x, q).prev = x.scr /\ AskConfirm(x, q).scr = "confirm"
<1>1. AskConfirm(x, q) \in Records
  BY DEF AskConfirm, Records, Screens, Panels
<1>2. Keeps(x, AskConfirm(x, q), AskFields)
  BY DEF AskConfirm, Records, Keeps, AskFields
<1>3. /\ AskConfirm(x, q).text = q /\ AskConfirm(x, q).armed = TRUE
      /\ AskConfirm(x, q).prev = x.scr /\ AskConfirm(x, q).scr = "confirm"
  BY DEF AskConfirm, Records
<1> QED
  BY <1>1, <1>2, <1>3

\* A flow is over, or runs its next step, or asks for it.
FlowOver(x, y) ==
  /\ x.queue = <<>> /\ Keeps(x, y, {"active", "scr"})
  /\ y.active = FALSE /\ y.scr = (IF x.scr = "wizard" THEN "menu" ELSE x.scr)
FlowRuns(x, y) ==
  /\ x.queue # <<>> /\ Head(x.queue) = "read"
  /\ Keeps(x, y, PaneFields \union {"queue"}) /\ Started(x, y, FALSE)
  /\ y.queue = Tail(x.queue)
FlowAsks(x, y) ==
  /\ x.queue # <<>> /\ Head(x.queue) \in Asks
  /\ Keeps(x, y, AskFields \union {"queue"})
  /\ y.text \in Asks /\ y.armed = TRUE /\ y.prev = x.scr /\ y.scr = "confirm"
  /\ y.queue = Tail(x.queue)

LEMMA WizardAdvanceEffect ==
  ASSUME NEW x \in Records, x.scr \in Panels
  PROVE  LET y == WizardAdvance(x) IN
           y \in Records /\ (FlowOver(x, y) \/ FlowRuns(x, y) \/ FlowAsks(x, y))
<1>1. CASE x.queue = <<>>
  <2> DEFINE y == [x EXCEPT !.active = FALSE, !.scr = IF @ = "wizard" THEN "menu" ELSE @]
  <2>1. WizardAdvance(x) = y
    BY <1>1 DEF WizardAdvance
  <2>2. y \in Records
    BY DEF Records, Screens
  <2>3. Keeps(x, y, {"active", "scr"})
    BY DEF Records, Keeps
  <2>4. y.active = FALSE /\ y.scr = (IF x.scr = "wizard" THEN "menu" ELSE x.scr)
    BY DEF Records
  <2> QED
    BY <1>1, <2>1, <2>2, <2>3, <2>4 DEF FlowOver
<1>2. CASE x.queue # <<>>
  <2> DEFINE y == [x EXCEPT !.queue = Tail(@)]
  <2>1. x.queue \in Seq(StepKinds) /\ Head(x.queue) \in StepKinds /\ Tail(x.queue) \in Seq(StepKinds)
    BY <1>2 DEF Records
  <2>2. y \in Records
    BY <2>1 DEF Records
  <2>3. Keeps(x, y, {"queue"}) /\ y.queue = Tail(x.queue)
    BY DEF Records, Keeps
  <2>4. WizardAdvance(x) = (IF Head(x.queue) = "read" THEN StartPane(y, FALSE)
                                                     ELSE AskConfirm(y, Head(x.queue)))
    BY <1>2 DEF WizardAdvance
  <2> HIDE DEF y
  <2>5. CASE Head(x.queue) = "read"
    <3>1. /\ StartPane(y, FALSE) \in Records /\ Keeps(y, StartPane(y, FALSE), PaneFields)
          /\ Started(y, StartPane(y, FALSE), FALSE)
      BY <2>2, StartPaneEffect
    <3>2. Keeps(x, StartPane(y, FALSE), PaneFields \union {"queue"})
      BY <2>3, <3>1 DEF Keeps, PaneFields
    <3>3. Started(x, StartPane(y, FALSE), FALSE) /\ StartPane(y, FALSE).queue = Tail(x.queue)
      BY <2>3, <3>1 DEF Keeps, Started, Cancels, PaneFields
    <3> QED
      BY <1>2, <2>4, <2>5, <3>1, <3>2, <3>3 DEF FlowRuns
  <2>6. CASE Head(x.queue) # "read"
    <3> DEFINE q == Head(x.queue)
    <3>1. q \in Asks /\ q \in Questions /\ y.scr \in Panels
      BY <2>1, <2>3, <2>6 DEF StepKinds, Asks, Questions, Keeps
    <3> HIDE DEF q
    <3>2. /\ AskConfirm(y, q) \in Records /\ Keeps(y, AskConfirm(y, q), AskFields)
          /\ AskConfirm(y, q).text = q /\ AskConfirm(y, q).armed = TRUE
          /\ AskConfirm(y, q).prev = y.scr /\ AskConfirm(y, q).scr = "confirm"
      BY <2>2, <3>1, AskConfirmEffect
    <3>3. Keeps(x, AskConfirm(y, q), AskFields \union {"queue"})
      BY <2>3, <3>2 DEF Keeps, AskFields
    <3>4. AskConfirm(y, q).prev = x.scr /\ AskConfirm(y, q).queue = Tail(x.queue)
      BY <2>3, <3>2 DEF Keeps, AskFields
    <3> QED
      BY <1>2, <2>4, <2>6, <3>1, <3>2, <3>3, <3>4 DEF FlowAsks, q
  <2> QED
    BY <2>5, <2>6
<1> QED
  BY <1>1, <1>2

---------------------------------------------------------------------------
(* What Update may return, and that it keeps the invariant.                *)

\* The pane goes on; it has ended; a command takes it; a capture takes it.
Stays(x) ==
  /\ x.id = m.id /\ x.running = m.running /\ x.unasked = m.unasked
  /\ \/ x.cancelled = Cancels(m)
     \/ x.cancelled = m.cancelled /\ x.scr # "gone"
Ends(x) ==
  /\ x.id = m.id /\ x.running = FALSE /\ x.unasked = m.unasked /\ x.cancelled = m.cancelled
  /\ m.id \in Ids /\ streams[m.id].child # "live" /\ x.scr # "gone"
Opens(x) ==
  /\ x.id = m.id + 1 /\ x.running = TRUE /\ x.scr # "gone"
  /\ x.unasked \in {m.unasked, m.unasked \union {m.id + 1}}
  /\ \/ x.cancelled = Cancels(m)
     \/ x.cancelled = m.cancelled /\ m.id \in Ids /\ streams[m.id].child # "live"
Views(x) ==
  /\ "view" \in scene /\ x.id = m.id + 1 /\ x.running = FALSE
  /\ x.unasked = m.unasked /\ x.cancelled = m.cancelled

Returned(x) == Stays(x) \/ Ends(x) \/ Opens(x) \/ Views(x)

\* What a handler may do to the streams besides: take a message.
Handled(strs, x) ==
  /\ strs \in [Ids -> Streams]
  /\ \A s \in Ids : /\ Len(strs[s].chan) <= Buffer
                    /\ strs[s].child = streams[s].child
                    /\ s > m.id => strs[s] = NoStream
                    /\ strs[s].child = "live" =>
                         \A i \in DOMAIN strs[s].chan : strs[s].chan[i] # "done"
  /\ x.id = m.id /\ m.id \in Ids /\ strs[m.id].waiter => x.running

LEMMA FreshIsStream == Fresh \in Streams /\ Len(Fresh.chan) = 0 /\ DOMAIN Fresh.chan = {}
BY DEF Fresh, Streams

LEMMA ModelsAreRecords ==
  ASSUME NEW x
  PROVE  /\ x \in Models => x \in Records
         /\ /\ x \in Records
            /\ x.id <= MaxStreams /\ x.cancelled \subseteq Ids /\ x.unasked \subseteq Ids
            => x \in Models
<1>a. MaxStreams \in Nat
  BY BoundsAssumption
<1>1. x \in Models => x \in Records
  BY <1>a DEF Models, Records, Screens, Panels, Ids
<1>2. ASSUME x \in Records,
             x.id <= MaxStreams, x.cancelled \subseteq Ids, x.unasked \subseteq Ids
      PROVE  x \in Models
  <2>1. x.id \in 0 .. MaxStreams
    BY <1>2, <1>a DEF Records
  <2> QED
    BY <1>2, <2>1 DEF Models, Records, Screens, Panels
<1> QED
  BY <1>1, <1>2

LEMMA UpdateKeeps ==
  ASSUME IInv, m.scr \notin {"gone", "panic"}, NEW x \in Records, NEW strs,
         Handled(strs, x), Returned(x), Room(x), ScreenOK(x), Update(x, strs)
  PROVE  IInv'
<1>a. MaxStreams \in Nat /\ m \in Records /\ m.id \in 0 .. MaxStreams
  BY BoundsAssumption, ModelsAreRecords DEF IInv, TypeOK, Models
<1>b. x.id \in Nat /\ m.id \in Nat /\ Len(x.queue) \in Nat
  BY <1>a DEF Records
<1>c. x.id <= MaxStreams
  BY <1>a, <1>b DEF Room
<1>d. m' = x /\ scene' = scene /\ strip' = strip
  BY DEF Update
<1>e. /\ x.id = m.id \/ x.id = m.id + 1
      /\ x.running => x.id \in Ids
  BY <1>a, <1>b, <1>c DEF Returned, Stays, Ends, Opens, Views, IInv, StreamInv, Ids
<1>f. /\ m.cancelled \subseteq Ids /\ m.unasked \subseteq Ids
      /\ m.running => m.id \in Ids
  BY <1>a DEF IInv, TypeOK, Models, StreamInv, Ids
<1>g. ASSUME NEW s \in Ids
      PROVE  streams'[s] = IF s = x.id /\ x.id > m.id /\ x.running THEN Fresh ELSE strs[s]
  BY <1>e DEF Update, Handled
<1>h. streams' \in [Ids -> Streams]
  BY FreshIsStream, <1>e DEF Update, Handled
<1>1. TypeOK'
  <2>1. x.cancelled \subseteq Ids /\ x.unasked \subseteq Ids
    BY <1>e, <1>f, <1>a, <1>b, <1>c
       DEF Returned, Stays, Ends, Opens, Views, Cancels, Ids
  <2>2. m' \in Models
    BY <1>c, <1>d, <2>1, ModelsAreRecords
  <2>3. ASSUME NEW s \in Ids PROVE Len(streams'[s].chan) <= Buffer
    BY <1>g, FreshIsStream, BoundsAssumption DEF Handled
  <2>4. scene' \in Scenes /\ strip' \in BOOLEAN
    BY <1>d DEF IInv, TypeOK
  <2> QED
    BY <1>h, <2>2, <2>3, <2>4 DEF TypeOK
<1>2. Room(m)' /\ ScreenOK(m)'
  BY <1>d DEF Room, ScreenOK, ShownOK, PendOK, AskedOK, FlowOK
<1>3. StreamInv'
  <2>1. ASSUME NEW s \in Ids, s > x.id PROVE streams'[s] = NoStream
    BY <2>1, <1>g, <1>e, <1>b DEF Handled, Ids
  <2>2. ASSUME NEW s \in Ids, streams'[s].child = "live", NEW i \in DOMAIN streams'[s].chan
        PROVE  streams'[s].chan[i] # "done"
    BY <2>2, <1>g, FreshIsStream DEF Handled
  <2>3. ASSUME x.id \in Ids, streams'[x.id].waiter PROVE x.running
    <3>1. CASE x.id = m.id
      BY <3>1, <2>3, <1>g, <1>b DEF Handled
    <3>2. CASE x.id = m.id + 1
      <4> SUFFICES ASSUME ~x.running PROVE FALSE
        OBVIOUS
      <4>1. streams'[x.id] = strs[x.id] /\ x.id > m.id
        BY <2>3, <3>2, <1>g, <1>b
      <4>2. streams'[x.id] = NoStream
        BY <4>1, <2>3 DEF Handled
      <4> QED
        BY <4>2, <2>3 DEF NoStream
    <3> QED
      BY <3>1, <3>2, <1>e
  <2>4. x.running => x.id > 0
    BY <1>e DEF Ids
  <2> QED
    BY <1>d, <2>1, <2>2, <2>3, <2>4 DEF StreamInv
<1>4. OnlyThePaneRuns'
  <2> SUFFICES ASSUME "view" \notin scene
               PROVE  /\ Unstoppable' \subseteq {x.id}
                      /\ Unstoppable' # {} /\ x.scr # "panic" => x.running /\ x.scr # "gone"
    BY <1>d DEF OnlyThePaneRuns
  <2>1. ASSUME NEW s \in Ids, streams[s].child = "live", s \notin m.cancelled
        PROVE  s = m.id /\ m.running
    BY <2>1 DEF IInv, OnlyThePaneRuns, Unstoppable
  <2>2. ASSUME NEW s \in Unstoppable'
        PROVE  s = x.id /\ x.running /\ x.scr # "gone"
    <3>1. s \in Ids /\ streams'[s].child = "live" /\ s \notin x.cancelled
      BY <2>2, <1>d DEF Unstoppable
    <3>2. CASE s = x.id /\ x.id > m.id /\ x.running
      <4>1. Opens(x)
        <5>1. x.id # m.id /\ x.running # FALSE
          BY <3>2, <1>b
        <5> QED
          BY <5>1 DEF Returned, Stays, Ends, Views
      <4> QED
        BY <3>2, <4>1 DEF Opens
    <3>3. CASE ~(s = x.id /\ x.id > m.id /\ x.running)
      <4>1. streams[s].child = "live"
        BY <3>1, <3>3, <1>g DEF Handled
      <4>2. s \notin m.cancelled
        BY <3>1 DEF Returned, Stays, Ends, Opens, Views, Cancels
      <4>3. s = m.id /\ m.running
        BY <3>1, <4>1, <4>2, <2>1
      <4>4. CASE Stays(x)
        BY <4>4, <4>3, <3>1 DEF Stays, Cancels
      <4>5. CASE Ends(x)
        BY <4>5, <4>3, <4>1 DEF Ends
      <4>6. CASE Opens(x)
        BY <4>6, <4>3, <4>1, <3>1 DEF Opens, Cancels
      <4> QED
        BY <4>4, <4>5, <4>6 DEF Returned, Views
    <3> QED
      BY <3>2, <3>3
  <2> QED
    BY <2>2
<1> QED
  BY <1>1, <1>2, <1>3, <1>4 DEF IInv

\* A key leaves the channels alone.
LEMMA KeyKeeps ==
  ASSUME IInv, m.scr \notin {"gone", "panic"}, NEW x \in Records,
         Stays(x) \/ Opens(x) \/ Views(x), ScreenOK(x), Key(x)
  PROVE  IInv'
<1>1. Room(x) /\ Update(x, streams)
  BY DEF Key, Room
<1>2. x.id = m.id /\ m.id \in Ids /\ streams[m.id].waiter => x.running
  <2>1. m.id \in Nat
    BY ModelsAreRecords DEF IInv, TypeOK, Records
  <2>2. x.id = m.id => Stays(x)
    BY <2>1 DEF Opens, Views
  <2> QED
    BY <2>2 DEF IInv, StreamInv, Stays
<1>3. Handled(streams, x)
  BY <1>2 DEF Handled, IInv, TypeOK, StreamInv
<1> QED
  BY <1>1, <1>3, UpdateKeeps DEF Returned

---------------------------------------------------------------------------
(* Every key returns such a model.                                         *)

LEMMA PaneOpens ==
  ASSUME NEW z \in Records, NEW x \in Records, NEW u \in BOOLEAN,
         Keeps(z, x, PaneFields \union {"queue"}), Started(z, x, u),
         z.id = m.id, z.unasked = m.unasked, z.scr \notin {"gone", "panic"},
         \/ Cancels(z) = Cancels(m)
         \/ Cancels(z) = m.cancelled /\ m.id \in Ids /\ streams[m.id].child # "live",
         AskedOK(m), "resize" \notin scene => ~u,
         PendOK(z), "resize" \notin scene /\ z.pendHeap => strip
  PROVE  Opens(x) /\ ScreenOK(x)
<1>1. Opens(x)
  BY DEF Started, Opens
<1>2. ShownOK(x)
  BY DEF ShownOK, Started
<1>3. PendOK(x)
  BY DEF PendOK, Started, Keeps, PaneFields
<1>4. AskedOK(x)
  BY DEF AskedOK, Started
<1>5. FlowOK(x)
  BY DEF FlowOK, Started
<1> QED
  BY <1>1, <1>2, <1>3, <1>4, <1>5 DEF ScreenOK

\* What the invariant says on a screen other than confirm.
LEMMA Unasking ==
  ASSUME IInv, m.scr \in Panels \ {"confirm"}
  PROVE  /\ m \in Records /\ m.id \in Nat
         /\ "resize" \notin scene /\ m.scr # "via" => ~m.pendHeap
         /\ "resize" \notin scene /\ m.pendHeap => m.route = "heap"
         /\ "resize" \notin scene /\ m.running /\ m.scr # "output" => strip
         /\ "view" \notin scene /\ m.active => m.running
         /\ AskedOK(m)
<1>1. m \in Records /\ m.id \in Nat
  BY ModelsAreRecords DEF IInv, TypeOK, Records
<1>2. /\ "resize" \notin scene /\ m.scr # "via" => ~m.pendHeap
      /\ "resize" \notin scene /\ m.pendHeap => m.route = "heap"
  BY DEF IInv, ScreenOK, PendOK, Panels, Screens
<1>3. "resize" \notin scene /\ m.running /\ m.scr # "output" => strip
  BY DEF IInv, ScreenOK, ShownOK, Panels, Screens
<1>4. "view" \notin scene /\ m.active => m.running
  BY DEF IInv, ScreenOK, FlowOK, Panels, Screens
<1> QED
  BY <1>1, <1>2, <1>3, <1>4 DEF IInv, ScreenOK

LEMMA MenuEffect ==
  ASSUME m \in Records
  PROVE  Menu \in Records /\ Keeps(m, Menu, {"prev"})
<1>1. Menu \in Records
  BY DEF Menu, Records, Panels, Screens
<1>2. Keeps(m, Menu, {"prev"})
  BY DEF Menu, Records, Keeps
<1> QED
  BY <1>1, <1>2

\* A key that changes neither the pane's stream nor, but for the screens, what
\* is asked; or that ends the flow.
LEMMA MovesOn ==
  ASSUME IInv, m.scr \in Panels \ {"confirm"}, NEW x \in Records,
         Keeps(m, x, {"scr", "prev", "text", "armed", "pendHeap", "route", "active", "queue"}),
         x.scr \in Panels, m.scr = "output" => ~m.running,
         "resize" \notin scene => ~x.pendHeap,
         x.active => m.active
  PROVE  Stays(x) /\ ScreenOK(x)
<1>1. Stays(x)
  BY DEF Stays, Keeps, Panels, Screens
<1>2. ShownOK(x) /\ PendOK(x) /\ AskedOK(x) /\ FlowOK(x)
  BY Unasking DEF ShownOK, PendOK, AskedOK, FlowOK, Keeps
<1> QED
  BY <1>1, <1>2 DEF ScreenOK

LEMMA QuickCommandKeeps == IInv /\ QuickCommand => IInv'
<1> SUFFICES ASSUME IInv, At("menu") \/ At("card"), NEW s \in {"menu", m.scr},
                    Key(StartPane([Menu EXCEPT !.scr = s], FALSE))
             PROVE  IInv'
  BY DEF QuickCommand
<1> DEFINE z == [Menu EXCEPT !.scr = s]
           x == StartPane(z, FALSE)
<1>1. m.scr \in Panels \ {"confirm"} /\ m.scr # "via" /\ s \in Panels
  BY DEF At, Panels, Screens
<1>2. m \in Records /\ Menu \in Records /\ Keeps(m, Menu, {"prev"})
  BY <1>1, Unasking, MenuEffect
<1>3. z \in Records
  BY <1>1, <1>2 DEF Records, Panels
<1>4. Keeps(Menu, z, {"scr"}) /\ z.scr = s
  BY <1>2 DEF Records, Keeps
<1> HIDE DEF z
<1>5. Keeps(m, z, {"prev", "scr"})
  BY <1>2, <1>4 DEF Keeps
<1>6. x \in Records /\ Keeps(z, x, PaneFields) /\ Started(z, x, FALSE)
  BY <1>3, StartPaneEffect
<1>7. Keeps(z, x, PaneFields \union {"queue"})
  BY <1>6 DEF Keeps
<1>8. Cancels(z) = Cancels(m) /\ z.id = m.id /\ z.unasked = m.unasked /\ z.pendHeap = m.pendHeap
  BY <1>5 DEF Keeps, Cancels
<1>9. "resize" \notin scene => ~z.pendHeap
  BY <1>1, <1>8, Unasking
<1>10. z.scr \notin {"gone", "panic"} /\ PendOK(z) /\ AskedOK(m)
  BY <1>1, <1>4, <1>9, Unasking DEF PendOK, Panels
<1> HIDE DEF x
<1>11. Opens(x) /\ ScreenOK(x)
  BY <1>3, <1>6, <1>7, <1>8, <1>9, <1>10, PaneOpens
<1> QED
  BY <1>1, <1>6, <1>11, KeyKeeps DEF x, z, Panels

LEMMA AskFirstKeeps == IInv /\ AskFirst => IInv'
<1> SUFFICES ASSUME IInv, At("menu"), NEW q \in {"heap", "restart", "bundle", "quit"},
                    Key(AskConfirm(Menu, q))
             PROVE  IInv'
  BY DEF AskFirst
<1> DEFINE x == AskConfirm(Menu, q)
<1>1. m.scr \in Panels \ {"confirm"} /\ m.scr = "menu"
  BY DEF At, Panels, Screens
<1>2. m \in Records /\ Menu \in Records /\ Keeps(m, Menu, {"prev"})
  BY <1>1, Unasking, MenuEffect
<1>3. Menu.scr \in Panels /\ q \in Questions
  BY <1>1, <1>2 DEF Keeps, Questions
<1>4. x \in Records /\ Keeps(Menu, x, AskFields) /\ x.scr = "confirm"
  BY <1>2, <1>3, AskConfirmEffect
<1> HIDE DEF x
<1>5. Keeps(m, x, {"scr", "prev", "text", "armed", "pendHeap", "route", "active", "queue"})
  BY <1>2, <1>4 DEF Keeps, AskFields
<1>6. x.scr \in Panels /\ x.pendHeap = m.pendHeap /\ x.active = m.active
  BY <1>2, <1>4 DEF Keeps, AskFields, Panels, Screens
<1>7. Stays(x) /\ ScreenOK(x)
  BY <1>1, <1>4, <1>5, <1>6, Unasking, MovesOn
<1> QED
  BY <1>1, <1>4, <1>7, KeyKeeps DEF x

LEMMA AskRouteKeeps == IInv /\ AskRoute => IInv'
<1> SUFFICES ASSUME IInv, At("menu"), Key([Menu EXCEPT !.scr = "via", !.route = "threads"])
             PROVE  IInv'
  BY DEF AskRoute
<1> DEFINE x == [Menu EXCEPT !.scr = "via", !.route = "threads"]
<1>1. m.scr \in Panels \ {"confirm"} /\ m.scr = "menu"
  BY DEF At, Panels, Screens
<1>2. m \in Records /\ Menu \in Records /\ Keeps(m, Menu, {"prev"})
  BY <1>1, Unasking, MenuEffect
<1>3. x \in Records
  BY <1>2 DEF Records, Screens
<1>4. Keeps(Menu, x, {"scr", "route"}) /\ x.scr = "via"
  BY <1>2 DEF Records, Keeps
<1> HIDE DEF x
<1>5. Keeps(m, x, {"scr", "prev", "text", "armed", "pendHeap", "route", "active", "queue"})
  BY <1>2, <1>4 DEF Keeps
<1>6. x.scr \in Panels /\ x.pendHeap = m.pendHeap /\ x.active = m.active
  BY <1>2, <1>4 DEF Keeps, Panels, Screens
<1>7. Stays(x) /\ ScreenOK(x)
  BY <1>1, <1>3, <1>5, <1>6, Unasking, MovesOn
<1> QED
  BY <1>1, <1>3, <1>7, KeyKeeps DEF x

LEMMA PickRouteKeeps == IInv /\ PickRoute => IInv'
<1> DEFINE z == [Menu EXCEPT !.scr = "menu", !.pendHeap = FALSE]
           u == m.pendHeap /\ m.route # "heap"
           x == StartPane(z, u)
<1> SUFFICES ASSUME IInv, At("via"), Key(x)
             PROVE  IInv'
  BY DEF PickRoute
<1>1. m.scr \in Panels \ {"confirm"}
  BY DEF At, Panels, Screens
<1>2. m \in Records /\ Menu \in Records /\ Keeps(m, Menu, {"prev"})
  BY <1>1, Unasking, MenuEffect
<1>3. z \in Records
  BY <1>2 DEF Records, Screens
<1>4. Keeps(Menu, z, {"scr", "pendHeap"}) /\ z.scr = "menu" /\ z.pendHeap = FALSE
  BY <1>2 DEF Records, Keeps
<1>b. u \in BOOLEAN /\ ("resize" \notin scene => ~u)
  BY <1>1, Unasking
<1> HIDE DEF z, u
<1>5. Keeps(m, z, {"prev", "scr", "pendHeap"})
  BY <1>2, <1>4 DEF Keeps
<1>6. x \in Records /\ Keeps(z, x, PaneFields) /\ Started(z, x, u)
  BY <1>3, <1>b, StartPaneEffect
<1>7. Keeps(z, x, PaneFields \union {"queue"})
  BY <1>6 DEF Keeps
<1>8. Cancels(z) = Cancels(m) /\ z.id = m.id /\ z.unasked = m.unasked
  BY <1>5 DEF Keeps, Cancels
<1>10. z.scr \notin {"gone", "panic"} /\ PendOK(z) /\ AskedOK(m)
  BY <1>1, <1>4, Unasking DEF PendOK
<1> HIDE DEF x
<1>11. Opens(x) /\ ScreenOK(x)
  BY <1>3, <1>b, <1>4, <1>6, <1>7, <1>8, <1>10, PaneOpens
<1> QED
  BY <1>1, <1>6, <1>11, KeyKeeps DEF Panels

LEMMA CancelRouteKeeps == IInv /\ CancelRoute => IInv'
<1> DEFINE x == [m EXCEPT !.scr = "menu", !.pendHeap = FALSE]
<1> SUFFICES ASSUME IInv, At("via"), Key(x)
             PROVE  IInv'
  BY DEF CancelRoute
<1>1. m.scr \in Panels \ {"confirm"} /\ m.scr = "via" /\ m \in Records
  BY Unasking DEF At, Panels, Screens
<1>3. x \in Records
  BY <1>1 DEF Records, Screens
<1>4. Keeps(m, x, {"scr", "prev", "text", "armed", "pendHeap", "route", "active", "queue"})
  BY <1>1 DEF Records, Keeps
<1>5. x.scr = "menu" /\ x.pendHeap = FALSE /\ x.active = m.active
  BY <1>1 DEF Records
<1> HIDE DEF x
<1>7. Stays(x) /\ ScreenOK(x)
  BY <1>1, <1>3, <1>4, <1>5, MovesOn DEF Panels, Screens
<1> QED
  BY <1>1, <1>3, <1>7, KeyKeeps DEF Panels

LEMMA OpenCardKeeps == IInv /\ OpenCard => IInv'
<1> DEFINE x == [Menu EXCEPT !.scr = "card"]
<1> SUFFICES ASSUME IInv, At("menu"), Key(x)
             PROVE  IInv'
  BY DEF OpenCard
<1>1. m.scr \in Panels \ {"confirm"} /\ m.scr = "menu"
  BY DEF At, Panels, Screens
<1>2. m \in Records /\ Menu \in Records /\ Keeps(m, Menu, {"prev"})
  BY <1>1, Unasking, MenuEffect
<1>3. x \in Records
  BY <1>2 DEF Records, Screens
<1>4. Keeps(Menu, x, {"scr"}) /\ x.scr = "card"
  BY <1>2 DEF Records, Keeps
<1> HIDE DEF x
<1>5. Keeps(m, x, {"scr", "prev", "text", "armed", "pendHeap", "route", "active", "queue"})
  BY <1>2, <1>4 DEF Keeps
<1>6. x.scr \in Panels /\ x.pendHeap = m.pendHeap /\ x.active = m.active
  BY <1>2, <1>4 DEF Keeps, Panels, Screens
<1>7. Stays(x) /\ ScreenOK(x)
  BY <1>1, <1>3, <1>5, <1>6, Unasking, MovesOn
<1> QED
  BY <1>1, <1>3, <1>7, KeyKeeps

LEMMA OpenWizardKeeps == IInv /\ OpenWizard => IInv'
<1> DEFINE x == [Menu EXCEPT !.scr = "wizard", !.active = FALSE, !.queue = <<>>]
<1> SUFFICES ASSUME IInv, At("menu"), Key(x)
             PROVE  IInv'
  BY DEF OpenWizard
<1>1. m.scr \in Panels \ {"confirm"} /\ m.scr = "menu"
  BY DEF At, Panels, Screens
<1>2. m \in Records /\ Menu \in Records /\ Keeps(m, Menu, {"prev"})
  BY <1>1, Unasking, MenuEffect
<1>3. x \in Records
  <2>1. <<>> \in Seq(StepKinds)
    OBVIOUS
  <2> QED
    BY <1>2, <2>1 DEF Records, Screens
<1>4. Keeps(Menu, x, {"scr", "active", "queue"})
  BY <1>2 DEF Records, Keeps
<1>5. x.scr = "wizard" /\ x.active = FALSE
  BY <1>2 DEF Records
<1> HIDE DEF x
<1>6. Keeps(m, x, {"scr", "prev", "text", "armed", "pendHeap", "route", "active", "queue"})
  BY <1>2, <1>4 DEF Keeps
<1>7. x.scr \in Panels /\ x.pendHeap = m.pendHeap
  BY <1>2, <1>4, <1>5 DEF Keeps, Panels, Screens
<1>8. Stays(x) /\ ScreenOK(x)
  BY <1>1, <1>3, <1>5, <1>6, <1>7, Unasking, MovesOn
<1> QED
  BY <1>1, <1>3, <1>8, KeyKeeps

LEMMA BackToMenuKeeps == IInv /\ BackToMenu => IInv'
<1> DEFINE x == [m EXCEPT !.scr = "menu"]
<1> SUFFICES ASSUME IInv, At("card") \/ At("wizard"), Key(x)
             PROVE  IInv'
  BY DEF BackToMenu
<1>1. m.scr \in Panels \ {"confirm"} /\ m.scr \in {"card", "wizard"} /\ m \in Records
  BY Unasking DEF At, Panels, Screens
<1>3. x \in Records
  BY <1>1 DEF Records, Screens
<1>4. Keeps(m, x, {"scr", "prev", "text", "armed", "pendHeap", "route", "active", "queue"})
  BY <1>1 DEF Records, Keeps
<1>5. x.scr = "menu" /\ x.pendHeap = m.pendHeap /\ x.active = m.active
  BY <1>1 DEF Records
<1> HIDE DEF x
<1>7. Stays(x) /\ ScreenOK(x)
  BY <1>1, <1>3, <1>4, <1>5, Unasking, MovesOn DEF Panels, Screens
<1> QED
  BY <1>1, <1>3, <1>7, KeyKeeps

LEMMA QuitEffect ==
  ASSUME NEW x \in Records
  PROVE  /\ Quit(x) \in Records /\ Keeps(x, Quit(x), {"scr", "cancelled"})
         /\ Quit(x).scr = "gone" /\ Quit(x).cancelled = Cancels(x)
<1> DEFINE y == Stop(x)
<1>1. y \in Records /\ Keeps(x, y, {"cancelled"}) /\ y.cancelled = Cancels(x)
  BY StopEffect
<1>2. Quit(x) = [y EXCEPT !.scr = "gone"]
  BY DEF Quit
<1> HIDE DEF y
<1>3. Quit(x) \in Records
  BY <1>1, <1>2 DEF Records, Screens
<1>4. Keeps(y, Quit(x), {"scr"}) /\ Quit(x).scr = "gone"
  BY <1>1, <1>2 DEF Records, Keeps
<1> QED
  BY <1>1, <1>3, <1>4 DEF Keeps

LEMMA AnsweredEffect ==
  ASSUME m \in Records
  PROVE  /\ Answered \in Records /\ Keeps(m, Answered, {"armed", "text", "scr"})
         /\ Answered.armed = FALSE /\ Answered.text = "none"
         /\ Answered.scr = m.prev /\ m.prev \in Panels
<1>1. Answered \in Records
  BY DEF Answered, Records, Questions, Panels, Screens
<1>2. Keeps(m, Answered, {"armed", "text", "scr"})
  BY DEF Answered, Records, Keeps
<1>3. /\ Answered.armed = FALSE /\ Answered.text = "none"
      /\ Answered.scr = m.prev /\ m.prev \in Panels
  BY DEF Answered, Records
<1> QED
  BY <1>1, <1>2, <1>3

\* What the invariant says while a question is on the screen.
LEMMA Asking ==
  ASSUME IInv, m.scr = "confirm"
  PROVE  /\ m \in Records /\ m.id \in Nat
         /\ "resize" \notin scene /\ m.pendHeap =>
              strip /\ m.route = "heap" /\ m.prev \in {"via", "confirm"}
         /\ "resize" \notin scene /\ m.running => strip
         /\ "view" \notin scene /\ m.active => m.running \/ (m.armed /\ m.text \in Asks)
         /\ AskedOK(m)
<1>1. m \in Records /\ m.id \in Nat
  BY ModelsAreRecords DEF IInv, TypeOK, Records
<1>2. "resize" \notin scene /\ m.pendHeap =>
        strip /\ m.route = "heap" /\ m.prev \in {"via", "confirm"}
  BY DEF IInv, ScreenOK, PendOK
<1>3. "resize" \notin scene /\ m.running => strip
  BY DEF IInv, ScreenOK, ShownOK
<1>4. "view" \notin scene /\ m.active => m.running \/ (m.armed /\ m.text \in Asks)
  BY DEF IInv, ScreenOK, FlowOK
<1> QED
  BY <1>1, <1>2, <1>3, <1>4 DEF IInv, ScreenOK

\* The pane that an answer opens.
LEMMA AnswerOpens ==
  ASSUME IInv, m.scr = "confirm", NEW x, Key(x),
         \/ x = StartPane(Answered, FALSE)
         \/ x \in Records /\ FlowRuns(Answered, x)
  PROVE  IInv'
<1> DEFINE z == Answered
<1>1. m \in Records
  BY Asking
<1>2. /\ z \in Records /\ Keeps(m, z, {"armed", "text", "scr"})
      /\ z.scr = m.prev /\ m.prev \in Panels
  BY <1>1, AnsweredEffect
<1> HIDE DEF z
<1>3. /\ x \in Records
      /\ Keeps(z, x, PaneFields \union {"queue"}) /\ Started(z, x, FALSE)
  <2>1. CASE x = StartPane(z, FALSE)
    <3>1. x \in Records /\ Keeps(z, x, PaneFields) /\ Started(z, x, FALSE)
      BY <1>2, <2>1, StartPaneEffect
    <3> QED
      BY <3>1 DEF Keeps
  <2>2. CASE x \in Records /\ FlowRuns(z, x)
    BY <2>2 DEF FlowRuns
  <2> QED
    BY <2>1, <2>2 DEF z
<1>4. Cancels(z) = Cancels(m) /\ z.id = m.id /\ z.unasked = m.unasked
  BY <1>2 DEF Keeps, Cancels
<1>5. z.pendHeap = m.pendHeap /\ z.route = m.route /\ z.prev = m.prev
  BY <1>2 DEF Keeps
<1>6. z.scr \notin {"gone", "panic"}
  BY <1>2 DEF Panels
<1>7. PendOK(z) /\ ("resize" \notin scene /\ z.pendHeap => strip) /\ AskedOK(m)
  BY <1>2, <1>5, Asking DEF PendOK
<1>8. Opens(x) /\ ScreenOK(x)
  BY <1>2, <1>3, <1>4, <1>6, <1>7, PaneOpens
<1> QED
  BY <1>3, <1>8, KeyKeeps

LEMMA YesKeeps == IInv /\ Yes => IInv'
<1> SUFFICES ASSUME IInv, m.scr = "confirm", Yes
             PROVE  IInv'
  BY DEF Yes, At
<1>1. m \in Records
  BY Asking
<1>2. /\ Answered \in Records /\ Keeps(m, Answered, {"armed", "text", "scr"})
      /\ Answered.scr = m.prev
  BY <1>1, AnsweredEffect
<1>3. CASE ~m.armed
  <2> DEFINE x == [m EXCEPT !.scr = "panic"]
  <2>1. Key(x)
    BY <1>3 DEF Yes
  <2>2. x \in Records
    BY <1>1 DEF Records, Screens
  <2>3. Keeps(m, x, {"scr"}) /\ x.scr = "panic"
    BY <1>1 DEF Records, Keeps
  <2> HIDE DEF x
  <2>4. Stays(x)
    BY <2>3 DEF Keeps, Stays
  <2>5. ShownOK(x) /\ PendOK(x) /\ AskedOK(x) /\ FlowOK(x)
    BY <2>3, Asking DEF Keeps, ShownOK, PendOK, AskedOK, FlowOK
  <2> QED
    BY <2>1, <2>2, <2>4, <2>5, KeyKeeps DEF ScreenOK
<1>4. CASE m.armed /\ m.text = "heap"
  <2> DEFINE x == [Answered EXCEPT !.scr = "via", !.pendHeap = TRUE, !.route = "heap"]
  <2>1. Key(x)
    BY <1>4 DEF Yes
  <2>2. x \in Records
    BY <1>2 DEF Records, Screens
  <2>3. Keeps(Answered, x, {"scr", "pendHeap", "route"})
    BY <1>2 DEF Records, Keeps
  <2>4. x.scr = "via" /\ x.pendHeap = TRUE /\ x.route = "heap"
    BY <1>2 DEF Records
  <2> HIDE DEF x
  <2>5. Keeps(m, x, {"scr", "pendHeap", "route", "armed", "text"})
    BY <1>2, <2>3 DEF Keeps
  <2>6. Stays(x)
    BY <2>4, <2>5 DEF Keeps, Stays
  <2>7. ShownOK(x) /\ PendOK(x) /\ AskedOK(x) /\ FlowOK(x)
    BY <1>4, <2>4, <2>5, Asking DEF Keeps, ShownOK, PendOK, AskedOK, FlowOK, Asks
  <2> QED
    BY <2>1, <2>2, <2>6, <2>7, KeyKeeps DEF ScreenOK
<1>5. CASE m.armed /\ m.text = "quit"
  <2> DEFINE x == Quit(Answered)
  <2>1. Key(x)
    BY <1>5 DEF Yes
  <2>2. /\ x \in Records /\ Keeps(Answered, x, {"scr", "cancelled"})
        /\ x.scr = "gone" /\ x.cancelled = Cancels(Answered)
    BY <1>2, QuitEffect
  <2> HIDE DEF x
  <2>3. Keeps(m, x, {"scr", "cancelled", "armed", "text"}) /\ x.cancelled = Cancels(m)
    BY <1>2, <2>2 DEF Keeps, Cancels
  <2>4. Stays(x)
    BY <2>3 DEF Keeps, Stays
  <2>5. ShownOK(x) /\ PendOK(x) /\ AskedOK(x) /\ FlowOK(x)
    BY <2>2, <2>3, Asking DEF Keeps, ShownOK, PendOK, AskedOK, FlowOK
  <2> QED
    BY <2>1, <2>2, <2>4, <2>5, KeyKeeps DEF ScreenOK
<1>6. CASE m.armed /\ m.text \notin {"heap", "quit"}
  <2>1. Key(StartPane(Answered, FALSE))
    BY <1>6 DEF Yes
  <2> QED
    BY <2>1, AnswerOpens
<1> QED
  BY <1>3, <1>4, <1>5, <1>6

LEMMA NoKeeps == IInv /\ No => IInv'
<1> SUFFICES ASSUME IInv, m.scr = "confirm", No
             PROVE  IInv'
  BY DEF No, At
<1>1. m \in Records
  BY Asking
<1>2. /\ Answered \in Records /\ Keeps(m, Answered, {"armed", "text", "scr"})
      /\ Answered.scr = m.prev /\ m.prev \in Panels
  BY <1>1, AnsweredEffect
<1>3. CASE m.armed /\ m.text = "bundle"
  <2>1. Key(StartPane(Answered, FALSE))
    BY <1>3 DEF No
  <2> QED
    BY <2>1, AnswerOpens
<1>4. CASE m.armed /\ m.text \in {"askHeap", "askRead"}
  <2> DEFINE x == WizardAdvance(Answered)
  <2>1. Key(x)
    BY <1>4 DEF No
  <2>2. x \in Records /\ (FlowOver(Answered, x) \/ FlowRuns(Answered, x) \/ FlowAsks(Answered, x))
    BY <1>2, WizardAdvanceEffect
  <2> HIDE DEF x
  <2>3. CASE FlowOver(Answered, x)
    <3>1. /\ Keeps(m, x, {"scr", "active", "armed", "text"}) /\ x.active = FALSE
          /\ x.scr = (IF m.prev = "wizard" THEN "menu" ELSE m.prev)
      BY <1>2, <2>3 DEF FlowOver, Keeps
    <3>2. Stays(x)
      BY <1>2, <3>1 DEF Keeps, Stays, Panels
    <3>3. ShownOK(x) /\ PendOK(x) /\ AskedOK(x) /\ FlowOK(x)
      BY <3>1, Asking DEF Keeps, ShownOK, PendOK, AskedOK, FlowOK
    <3> QED
      BY <2>1, <2>2, <3>2, <3>3, KeyKeeps DEF ScreenOK
  <2>4. CASE FlowRuns(Answered, x)
    BY <2>1, <2>2, <2>4, AnswerOpens
  <2>5. CASE FlowAsks(Answered, x)
    <3>1. /\ Keeps(m, x, {"text", "armed", "prev", "scr", "queue"})
          /\ x.text \in Asks /\ x.armed = TRUE /\ x.prev = m.prev /\ x.scr = "confirm"
      BY <1>2, <2>5 DEF FlowAsks, Keeps, AskFields
    <3>2. Stays(x)
      BY <3>1 DEF Keeps, Stays
    <3>3. ShownOK(x) /\ PendOK(x) /\ AskedOK(x) /\ FlowOK(x)
      BY <3>1, Asking DEF Keeps, ShownOK, PendOK, AskedOK, FlowOK
    <3> QED
      BY <2>1, <2>2, <3>2, <3>3, KeyKeeps DEF ScreenOK
  <2> QED
    BY <2>2, <2>3, <2>4, <2>5
<1>5. CASE ~(m.armed /\ m.text \in {"bundle", "askHeap", "askRead"})
  <2> DEFINE x == Answered
  <2>1. Key(x)
    BY <1>5 DEF No
  <2> HIDE DEF x
  <2>2. Stays(x)
    BY <1>2 DEF Keeps, Stays, Panels, x
  <2>3. ShownOK(x) /\ PendOK(x) /\ AskedOK(x) /\ FlowOK(x)
    BY <1>2, <1>5, Asking DEF Keeps, ShownOK, PendOK, AskedOK, FlowOK, Asks, x
  <2> QED
    BY <1>2, <2>1, <2>2, <2>3, KeyKeeps DEF ScreenOK, x
<1> QED
  BY <1>3, <1>4, <1>5

LEMMA StartFlowKeeps == IInv /\ StartFlow => IInv'
<1> SUFFICES ASSUME IInv, At("wizard"), NEW f \in Flows,
                    Key(WizardAdvance([Stop(m) EXCEPT !.scr = "menu", !.active = TRUE,
                                                      !.queue = f, !.running = FALSE]))
             PROVE  IInv'
  BY DEF StartFlow
<1> DEFINE y == Stop(m)
           z == [y EXCEPT !.scr = "menu", !.active = TRUE, !.queue = f, !.running = FALSE]
           x == WizardAdvance(z)
<1>1. m.scr \in Panels \ {"confirm"} /\ m.scr = "wizard"
  BY DEF At, Panels, Screens
<1>2. m \in Records /\ ("resize" \notin scene => ~m.pendHeap) /\ AskedOK(m)
  BY <1>1, Unasking
<1>3. y \in Records /\ Keeps(m, y, {"cancelled"}) /\ y.cancelled = Cancels(m)
  BY <1>2, StopEffect
<1>4. f \in Seq(StepKinds) /\ f # <<>> /\ Head(f) = "read"
  BY FlowsAssumption
<1>a. Key(x)
  OBVIOUS
<1> HIDE DEF y
<1>5. z \in Records
  BY <1>3, <1>4 DEF Records, Screens
<1>6. Keeps(y, z, {"scr", "active", "queue", "running"})
  BY <1>3 DEF Records, Keeps
<1>7. z.scr = "menu" /\ z.queue = f /\ z.running = FALSE
  BY <1>3 DEF Records
<1> HIDE DEF z
<1>8. x \in Records /\ FlowRuns(z, x)
  <2>1. z.scr \in Panels
    BY <1>7 DEF Panels, Screens
  <2> QED
    BY <1>4, <1>5, <1>7, <2>1, WizardAdvanceEffect DEF FlowOver, FlowAsks, Asks
<1> HIDE DEF x
<1>9. Keeps(z, x, PaneFields \union {"queue"}) /\ Started(z, x, FALSE)
  BY <1>8 DEF FlowRuns
<1>10. Cancels(z) = Cancels(m) /\ z.id = m.id /\ z.unasked = m.unasked /\ z.pendHeap = m.pendHeap
  BY <1>3, <1>6, <1>7 DEF Keeps, Cancels
<1>11. PendOK(z) /\ ("resize" \notin scene /\ z.pendHeap => strip)
  BY <1>2, <1>10 DEF PendOK
<1>12. Opens(x) /\ ScreenOK(x)
  BY <1>2, <1>5, <1>7, <1>8, <1>9, <1>10, <1>11, PaneOpens
<1> QED
  BY <1>1, <1>a, <1>8, <1>12, KeyKeeps

\* Leaving, or stopping the stream.
LEMMA StopKeeps ==
  ASSUME IInv, m.scr \in {"menu", "output"}, NEW x \in Records, Key(x),
         Keeps(m, x, {"scr", "cancelled"}), x.cancelled = Cancels(m), x.scr \in {m.scr, "gone"}
  PROVE  IInv'
<1>1. m.scr \in Panels \ {"confirm"} /\ m.scr # "via"
  BY DEF Panels, Screens
<1>2. Stays(x)
  BY DEF Keeps, Stays
<1>3. ShownOK(x) /\ PendOK(x) /\ AskedOK(x) /\ FlowOK(x)
  BY <1>1, Unasking DEF Keeps, ShownOK, PendOK, AskedOK, FlowOK
<1> QED
  BY <1>2, <1>3, KeyKeeps DEF ScreenOK

LEMMA EscKeeps == IInv /\ Esc => IInv'
<1>1. ASSUME IInv, At("menu") \/ At("output"), Key(Stop(m))
      PROVE  IInv'
  <2>1. m.scr \in {"menu", "output"} /\ m \in Records
    BY <1>1, Unasking DEF At, Panels, Screens
  <2>2. /\ Stop(m) \in Records /\ Keeps(m, Stop(m), {"cancelled"})
        /\ Stop(m).cancelled = Cancels(m)
    BY <2>1, StopEffect
  <2>3. Keeps(m, Stop(m), {"scr", "cancelled"}) /\ Stop(m).scr = m.scr
    BY <2>2 DEF Keeps
  <2> QED
    BY <1>1, <2>1, <2>2, <2>3, StopKeeps
<1>2. ASSUME IInv, At("output"), ~m.running, Key([m EXCEPT !.scr = m.prev])
      PROVE  IInv'
  <2> DEFINE x == [m EXCEPT !.scr = m.prev]
  <2>1. m.scr \in Panels \ {"confirm"} /\ m.scr = "output" /\ m \in Records
    BY <1>2, Unasking DEF At, Panels, Screens
  <2>2. x \in Records
    BY <2>1 DEF Records, Panels
  <2>3. Keeps(m, x, {"scr"}) /\ x.scr = m.prev /\ m.prev \in Panels
    BY <2>1 DEF Records, Keeps
  <2> HIDE DEF x
  <2>4. /\ Keeps(m, x, {"scr", "prev", "text", "armed", "pendHeap", "route", "active", "queue"})
        /\ x.pendHeap = m.pendHeap /\ x.active = m.active
    BY <2>3 DEF Keeps
  <2>5. Stays(x) /\ ScreenOK(x)
    BY <1>2, <2>1, <2>2, <2>3, <2>4, Unasking, MovesOn
  <2> QED
    BY <1>2, <2>1, <2>2, <2>5, KeyKeeps DEF x
<1> QED
  BY <1>1, <1>2 DEF Esc

LEMMA CtrlCKeeps == IInv /\ CtrlC => IInv'
<1> SUFFICES ASSUME IInv, At("menu") \/ At("output"), Key(Quit(m))
             PROVE  IInv'
  BY DEF CtrlC
<1>1. m.scr \in {"menu", "output"} /\ m \in Records
  BY Unasking DEF At, Panels, Screens
<1> QED
  BY <1>1, QuitEffect, StopKeeps

LEMMA ViewFileKeeps == IInv /\ ViewFile => IInv'
<1> DEFINE z == [m EXCEPT !.id = m.id + 1, !.running = FALSE]
           x == ShowPane(z)
<1> SUFFICES ASSUME IInv, "view" \in scene, At("menu"), Key(x)
             PROVE  IInv'
  BY DEF ViewFile
<1>1. m.scr \in Panels \ {"confirm"} /\ m.scr = "menu" /\ m \in Records
  BY Unasking DEF At, Panels, Screens
<1>a. m.id + 1 \in Nat
  BY <1>1, Unasking
<1>2. z \in Records
  BY <1>1, <1>a DEF Records
<1>3. Keeps(m, z, {"id", "running"}) /\ z.id = m.id + 1 /\ z.running = FALSE
  BY <1>1 DEF Records, Keeps
<1> HIDE DEF z
<1>4. x \in Records /\ Keeps(z, x, {"scr", "prev"})
  BY <1>2, ShowPaneEffect
<1> HIDE DEF x
<1>5. Keeps(m, x, {"id", "running", "scr", "prev"}) /\ x.id = m.id + 1 /\ x.running = FALSE
  BY <1>3, <1>4 DEF Keeps
<1>6. Views(x)
  BY <1>5 DEF Views, Keeps
<1>7. ShownOK(x) /\ PendOK(x) /\ AskedOK(x) /\ FlowOK(x)
  BY <1>1, <1>5, Unasking DEF Keeps, ShownOK, PendOK, AskedOK, FlowOK
<1> QED
  BY <1>1, <1>4, <1>6, <1>7, KeyKeeps DEF ScreenOK

---------------------------------------------------------------------------
(* The streams' own steps, and the messages.                               *)

\* A step of a stream's processes that leaves the channels alone, and starts
\* none of them.
LEMMA ProcessStep ==
  ASSUME IInv, NEW s \in Ids, UNCHANGED <<scene, strip, m>>, streams' \in [Ids -> Streams],
         \A r \in Ids : r # s => streams'[r] = streams[r],
         streams[s].child # "none",
         streams'[s].chan = streams[s].chan, streams'[s].waiter = streams[s].waiter,
         streams'[s].child \in {streams[s].child, "dead"}
  PROVE  IInv'
<1>a. s <= m.id /\ m.id \in Nat
  <2>1. streams[s] # NoStream
    BY DEF NoStream
  <2>2. s \in Nat /\ m.id \in Nat
    BY BoundsAssumption, ModelsAreRecords DEF IInv, TypeOK, Records, Ids
  <2> QED
    BY <2>1, <2>2 DEF IInv, StreamInv
<1>b. \A r \in Ids : r \in Nat
  BY DEF Ids
<1>1. TypeOK'
  BY DEF IInv, TypeOK
<1>2. Room(m)' /\ ScreenOK(m)'
  BY DEF IInv, Room, ScreenOK, ShownOK, PendOK, AskedOK, FlowOK
<1>3. StreamInv'
  <2>1. ASSUME NEW r \in Ids, r > m.id PROVE streams'[r] = NoStream
    BY <2>1, <1>a, <1>b DEF IInv, StreamInv
  <2>2. ASSUME NEW r \in Ids, streams'[r].child = "live", NEW i \in DOMAIN streams'[r].chan
        PROVE  streams'[r].chan[i] # "done"
    BY <2>2 DEF IInv, StreamInv
  <2>3. m.id \in Ids /\ streams'[m.id].waiter => m.running
    BY DEF IInv, StreamInv
  <2> QED
    BY <2>1, <2>2, <2>3 DEF StreamInv, IInv
<1>4. OnlyThePaneRuns'
  <2>1. Unstoppable' \subseteq Unstoppable
    BY DEF Unstoppable
  <2> QED
    BY <2>1 DEF IInv, OnlyThePaneRuns
<1> QED
  BY <1>1, <1>2, <1>3, <1>4 DEF IInv

LEMMA ProcessesKeep ==
  ASSUME IInv, NEW s \in Ids, ChildExits(s) \/ ChildKilled(s) \/ BelowExits(s)
  PROVE  IInv'
<1> DEFINE t == streams[s]
<1>1. streams \in [Ids -> Streams] /\ t \in Streams
  BY DEF IInv, TypeOK
<1>2. t.child # "none" /\ UNCHANGED <<scene, strip, m>>
  BY DEF ChildExits, ChildKilled, BelowExits
<1>3. PICK c \in {t.child, "dead"} : \E b \in {t.below, FALSE} :
        streams' = [streams EXCEPT ![s] = [t EXCEPT !.child = c, !.below = b]]
  <2>1. CASE ChildExits(s)
    <3>1. streams' = [streams EXCEPT ![s] = [t EXCEPT !.child = "dead", !.below = FALSE]]
      BY <2>1, <1>1 DEF ChildExits
    <3> QED
      BY <3>1
  <2>2. CASE ChildKilled(s)
    <3>1. streams' = [streams EXCEPT ![s] = [t EXCEPT !.child = "dead", !.below = t.below]]
      BY <2>2, <1>1 DEF ChildKilled, Streams
    <3> QED
      BY <3>1
  <2>3. CASE BelowExits(s)
    <3>1. streams' = [streams EXCEPT ![s] = [t EXCEPT !.child = t.child, !.below = FALSE]]
      BY <2>3, <1>1 DEF BelowExits, Streams
    <3> QED
      BY <3>1
  <2> QED
    BY <2>1, <2>2, <2>3
<1>4. PICK b \in {t.below, FALSE} :
        streams' = [streams EXCEPT ![s] = [t EXCEPT !.child = c, !.below = b]]
  BY <1>3
<1> DEFINE u == [t EXCEPT !.child = c, !.below = b]
<1> HIDE DEF t
<1>5. u \in Streams /\ u.chan = t.chan /\ u.waiter = t.waiter /\ u.child = c
  BY <1>1 DEF Streams
<1>6. streams' = [streams EXCEPT ![s] = u]
  BY <1>4
<1> HIDE DEF u
<1>7. /\ streams' \in [Ids -> Streams] /\ streams'[s] = u
      /\ \A r \in Ids : r # s => streams'[r] = streams[r]
  BY <1>1, <1>5, <1>6
<1> QED
  BY <1>2, <1>5, <1>7, ProcessStep DEF t

\* A step of a stream's reader: it sends a chunk, or that the stream is over.
LEMMA ReaderKeeps ==
  ASSUME IInv, NEW s \in Ids, ReadChunk(s) \/ ReadEnd(s)
  PROVE  IInv'
<1> DEFINE t == streams[s]
<1>1. streams \in [Ids -> Streams] /\ t \in Streams /\ Len(t.chan) < Buffer
  BY DEF IInv, TypeOK, ReadChunk, ReadEnd
<1>2. t.reader = TRUE /\ UNCHANGED <<scene, strip, m>>
  BY <1>1 DEF ReadChunk, ReadEnd, Streams
<1>3. PICK msg \in {"chunk", "done"} :
        /\ streams' = [streams EXCEPT ![s].chan = Append(@, msg), ![s].reader = (msg # "done")]
        /\ msg = "done" => t.child # "live"
  BY DEF ReadChunk, ReadEnd, Send, PipeOpen
<1> DEFINE u == [t EXCEPT !.chan = Append(t.chan, msg), !.reader = (msg # "done")]
<1>4. streams' = [streams EXCEPT ![s] = u]
  BY <1>1, <1>3
<1>a. t.chan \in Seq({"chunk", "done"}) /\ Append(t.chan, msg) \in Seq({"chunk", "done"})
  BY <1>1 DEF Streams
<1> HIDE DEF t
<1>5. u \in Streams /\ u.chan = Append(t.chan, msg) /\ u.waiter = t.waiter /\ u.child = t.child
  BY <1>1, <1>a DEF Streams
<1> HIDE DEF u
<1>6. /\ streams' \in [Ids -> Streams] /\ streams'[s] = u
      /\ \A r \in Ids : r # s => streams'[r] = streams[r]
  BY <1>1, <1>4, <1>5
<1>b. s \in Nat /\ m.id \in Nat /\ s <= m.id
  <2>1. s \in Nat /\ m.id \in Nat
    BY ModelsAreRecords DEF IInv, TypeOK, Records, Ids
  <2>2. t # NoStream
    BY <1>2 DEF NoStream
  <2> QED
    BY <2>1, <2>2 DEF IInv, StreamInv, t
<1>7. TypeOK'
  <2>1. Len(u.chan) <= Buffer
    BY <1>1, <1>a, <1>5, BoundsAssumption
  <2> QED
    BY <1>2, <1>6, <2>1 DEF IInv, TypeOK
<1>8. Room(m)' /\ ScreenOK(m)'
  BY <1>2 DEF IInv, Room, ScreenOK, ShownOK, PendOK, AskedOK, FlowOK
<1>9. StreamInv'
  <2>1. ASSUME NEW r \in Ids, r > m.id PROVE streams'[r] = NoStream
    <3>1. r # s
      BY <2>1, <1>b DEF Ids
    <3> QED
      BY <2>1, <3>1, <1>6 DEF IInv, StreamInv
  <2>2. ASSUME NEW r \in Ids, streams'[r].child = "live", NEW i \in DOMAIN streams'[r].chan
        PROVE  streams'[r].chan[i] # "done"
    <3>1. CASE r # s
      BY <3>1, <2>2, <1>6 DEF IInv, StreamInv
    <3>2. CASE r = s
      <4>0. u.child = "live" /\ i \in DOMAIN u.chan
        BY <3>2, <2>2, <1>6
      <4>a. DOMAIN Append(t.chan, msg) = 1 .. Len(t.chan) + 1
        BY <1>a
      <4>1. t.child = "live" /\ i \in 1 .. Len(t.chan) + 1 /\ msg # "done"
        BY <4>0, <4>a, <1>3, <1>5
      <4>2. \A j \in DOMAIN t.chan : t.chan[j] # "done"
        BY <4>1 DEF IInv, StreamInv, t
      <4> QED
        BY <3>2, <4>1, <4>2, <1>5, <1>6, <1>a
    <3> QED
      BY <3>1, <3>2
  <2>3. m.id \in Ids /\ streams'[m.id].waiter => m.running
    BY <1>5, <1>6 DEF IInv, StreamInv, t
  <2> QED
    BY <1>2, <2>1, <2>2, <2>3 DEF StreamInv, IInv
<1>10. OnlyThePaneRuns'
  <2>1. Unstoppable' \subseteq Unstoppable
    BY <1>2, <1>5, <1>6 DEF Unstoppable, t
  <2> QED
    BY <2>1, <1>2 DEF IInv, OnlyThePaneRuns
<1> QED
  BY <1>7, <1>8, <1>9, <1>10 DEF IInv

\* What a message leaves behind.
LEMMA TakenEffect ==
  ASSUME IInv, NEW s \in Ids, NEW again \in BOOLEAN, streams[s].chan # <<>>, streams[s].waiter,
         NEW x, x.id = m.id, s = m.id /\ again => x.running, s # m.id => x.running = m.running
  PROVE  Handled(Taken(s, again), x)
<1> DEFINE t == streams[s]
           strs == Taken(s, again)
           u == [t EXCEPT !.chan = Tail(t.chan), !.waiter = again]
<1>1. streams \in [Ids -> Streams] /\ t \in Streams /\ Len(t.chan) <= Buffer
  BY DEF IInv, TypeOK
<1>2. strs = [streams EXCEPT ![s] = u]
  BY <1>1 DEF Taken
<1>3. /\ t.chan \in Seq({"chunk", "done"}) /\ Tail(t.chan) \in Seq({"chunk", "done"})
      /\ Len(Tail(t.chan)) = Len(t.chan) - 1 /\ Len(t.chan) \in Nat
      /\ \A i \in DOMAIN Tail(t.chan) : i + 1 \in DOMAIN t.chan /\ Tail(t.chan)[i] = t.chan[i + 1]
  BY <1>1 DEF Streams
<1>a. s \in Nat /\ m.id \in Nat /\ s <= m.id
  <2>1. s \in Nat /\ m.id \in Nat
    BY ModelsAreRecords DEF IInv, TypeOK, Records, Ids
  <2>2. t # NoStream
    BY DEF NoStream
  <2> QED
    BY <2>1, <2>2 DEF IInv, StreamInv
<1> HIDE DEF t
<1>4. u \in Streams /\ u.chan = Tail(t.chan) /\ u.waiter = again /\ u.child = t.child
  BY <1>1, <1>3 DEF Streams
<1> HIDE DEF u, strs
<1>5. /\ strs \in [Ids -> Streams] /\ strs[s] = u
      /\ \A r \in Ids : r # s => strs[r] = streams[r]
  BY <1>1, <1>2, <1>4
<1>6. ASSUME NEW r \in Ids
      PROVE  /\ Len(strs[r].chan) <= Buffer /\ strs[r].child = streams[r].child
             /\ r > m.id => strs[r] = NoStream
  <2>1. CASE r = s
    <3>1. strs[r] = u /\ ~(r > m.id)
      BY <2>1, <1>a, <1>5
    <3>2. Len(u.chan) <= Buffer
      BY <1>1, <1>3, <1>4, BoundsAssumption
    <3> QED
      BY <2>1, <3>1, <3>2, <1>4 DEF t
  <2>2. CASE r # s
    BY <2>2, <1>5 DEF IInv, TypeOK, StreamInv
  <2> QED
    BY <2>1, <2>2
<1>7. ASSUME NEW r \in Ids, strs[r].child = "live", NEW i \in DOMAIN strs[r].chan
      PROVE  strs[r].chan[i] # "done"
  <2>1. CASE r = s
    <3>1. u.child = "live" /\ i \in DOMAIN Tail(t.chan) /\ strs[r].chan[i] = Tail(t.chan)[i]
      BY <2>1, <1>7, <1>4, <1>5
    <3>2. i + 1 \in DOMAIN t.chan /\ strs[r].chan[i] = t.chan[i + 1]
      BY <3>1, <1>3
    <3>3. \A j \in DOMAIN t.chan : t.chan[j] # "done"
      BY <3>1, <1>4 DEF IInv, StreamInv, t
    <3> QED
      BY <3>2, <3>3
  <2>2. CASE r # s
    BY <2>2, <1>7, <1>5 DEF IInv, StreamInv
  <2> QED
    BY <2>1, <2>2
<1>8. m.id \in Ids /\ strs[m.id].waiter => x.running
  <2>1. CASE s = m.id
    BY <2>1, <1>4, <1>5
  <2>2. CASE s # m.id
    BY <2>2, <1>5 DEF IInv, StreamInv
  <2> QED
    BY <2>1, <2>2
<1> QED
  BY <1>5, <1>6, <1>7, <1>8 DEF Handled, strs

LEMMA ChunkKeeps ==
  ASSUME IInv, NEW s \in Ids, Chunk(s)
  PROVE  IInv'
<1>1. /\ m.scr \notin {"gone", "panic"} /\ streams[s].waiter /\ streams[s].chan # <<>>
      /\ Update(m, Taken(s, s = m.id))
  BY DEF Chunk, Pending
<1>2. m \in Records
  BY ModelsAreRecords DEF IInv, TypeOK
<1>3. s = m.id => m.running
  BY <1>1 DEF IInv, StreamInv
<1>4. Handled(Taken(s, s = m.id), m)
  BY <1>1, <1>3, TakenEffect
<1>5. Returned(m)
  BY <1>1 DEF Returned, Stays
<1> QED
  BY <1>1, <1>2, <1>4, <1>5, UpdateKeeps DEF IInv

\* The end of the pane's stream: the flow, if one is on, goes on.
LEMMA EndKeeps ==
  ASSUME IInv, m.id \in Ids, Done(m.id)
  PROVE  IInv'
<1> DEFINE s == m.id
           z == Ended
           x == IF m.active THEN WizardAdvance(z) ELSE z
           strs == Taken(s, FALSE)
<1>1. /\ m.scr \in Panels /\ streams[s].waiter /\ streams[s].chan # <<>>
      /\ Head(streams[s].chan) = "done" /\ Update(x, strs) /\ m.running
  <2>1. m.scr \in Screens
    BY ModelsAreRecords DEF IInv, TypeOK, Records
  <2> QED
    BY <2>1 DEF Done, Pending, IInv, StreamInv, Panels
<1>2. m \in Records /\ m.id \in Nat
  BY ModelsAreRecords DEF IInv, TypeOK, Records
<1>3. z \in Records
  BY <1>2 DEF Ended, Records
<1>4. Keeps(m, z, {"running"}) /\ z.running = FALSE
  BY <1>2 DEF Ended, Records, Keeps
<1>5. streams[s].child # "live"
  <2>1. streams[s].chan \in Seq({"chunk", "done"})
    BY DEF IInv, TypeOK, Streams
  <2>2. 1 \in DOMAIN streams[s].chan /\ streams[s].chan[1] = "done"
    BY <1>1, <2>1
  <2> QED
    BY <2>2 DEF IInv, StreamInv
<1> HIDE DEF z
<1>a. z.scr = m.scr /\ z.prev = m.prev /\ z.queue = m.queue /\ z.id = m.id /\ z.armed = m.armed
  BY <1>4 DEF Keeps
<1>6. z.scr \in Panels
  BY <1>1, <1>a
<1>b. Room(z)
  BY <1>a DEF IInv, Room
<1>c. /\ "resize" \notin scene /\ z.scr # "output" => strip
      /\ PendOK(z) /\ AskedOK(m)
      /\ "resize" \notin scene /\ m.scr = "output" => ~m.pendHeap
      /\ "resize" \notin scene /\ m.pendHeap => m.route = "heap"
  BY <1>1, <1>4 DEF IInv, ScreenOK, ShownOK, PendOK, Keeps, Panels, Screens
<1>d. Len(m.queue) \in Nat
  BY <1>2 DEF Records
<1>7. ASSUME x \in Records, Returned(x), ScreenOK(x), Room(x),
             x.id = m.id \/ x.id = m.id + 1
      PROVE  IInv'
  <2> HIDE DEF x
  <2>1. ASSUME NEW y, y.id = m.id PROVE Handled(strs, y)
    BY <1>1, <2>1, TakenEffect
  <2>2. Handled(strs, x)
    <3>1. CASE x.id = m.id
      BY <3>1, <2>1
    <3>2. CASE x.id # m.id
      BY <3>2, <2>1 DEF Handled
    <3> QED
      BY <3>1, <3>2
  <2> QED
    BY <1>1, <1>7, <2>2, UpdateKeeps DEF Panels
<1>8. CASE ~m.active
  <2>1. x = z
    BY <1>8
  <2>2. Ends(z)
    BY <1>4, <1>5, <1>6 DEF Ends, Keeps, Panels
  <2>3. ShownOK(z) /\ FlowOK(z) /\ AskedOK(z)
    BY <1>c, <1>4, <1>8 DEF Keeps, ShownOK, FlowOK, AskedOK
  <2> QED
    BY <1>3, <1>7, <1>a, <1>b, <1>c, <2>1, <2>2, <2>3 DEF Returned, ScreenOK
<1>9. CASE m.active
  <2>1. x = WizardAdvance(z)
    BY <1>9
  <2>2. x \in Records /\ (FlowOver(z, x) \/ FlowRuns(z, x) \/ FlowAsks(z, x))
    BY <1>3, <1>6, <2>1, WizardAdvanceEffect
  <2> HIDE DEF x
  <2>3. CASE FlowOver(z, x)
    <3>1. /\ Keeps(m, x, {"running", "scr", "active"}) /\ x.active = FALSE /\ x.running = FALSE
          /\ x.scr = (IF m.scr = "wizard" THEN "menu" ELSE m.scr)
      BY <1>4, <1>a, <2>3 DEF FlowOver, Keeps
    <3>2. Ends(x)
      BY <1>1, <1>5, <3>1 DEF Ends, Keeps, Panels
    <3>3. ShownOK(x) /\ FlowOK(x) /\ AskedOK(x)
      BY <1>c, <3>1 DEF Keeps, ShownOK, FlowOK, AskedOK
    <3>4. PendOK(x)
      BY <1>c, <1>4, <3>1 DEF Keeps, PendOK
    <3>5. Room(x) /\ x.id = m.id
      BY <1>4, <1>b, <3>1 DEF Keeps, Room
    <3> QED
      BY <1>7, <2>2, <3>2, <3>3, <3>4, <3>5 DEF Returned, ScreenOK
  <2>4. CASE FlowRuns(z, x)
    <3>1. Keeps(z, x, PaneFields \union {"queue"}) /\ Started(z, x, FALSE)
      BY <2>4 DEF FlowRuns
    <3>2. Cancels(z) = m.cancelled /\ z.id = m.id /\ z.unasked = m.unasked /\ z.pendHeap = m.pendHeap
      BY <1>4 DEF Keeps, Cancels
    <3>3. "resize" \notin scene /\ z.pendHeap => strip
      BY <1>a, <1>c, <3>2
    <3>4. Opens(x) /\ ScreenOK(x)
      BY <1>3, <1>5, <1>6, <1>c, <2>2, <3>1, <3>2, <3>3, PaneOpens DEF Panels
    <3>5. x.id = m.id + 1 /\ x.armed = m.armed /\ x.queue = Tail(m.queue) /\ m.queue # <<>>
      BY <1>4, <1>a, <2>4, <3>1 DEF Started, Keeps, PaneFields, FlowRuns
    <3>6. Len(Tail(m.queue)) = Len(m.queue) - 1
      BY <1>2, <3>5 DEF Records
    <3>7. Room(x)
      BY <1>2, <1>a, <1>b, <1>d, <3>5, <3>6, BoundsAssumption DEF Room
    <3> QED
      BY <1>7, <2>2, <3>4, <3>5, <3>7 DEF Returned
  <2>5. CASE FlowAsks(z, x)
    <3>1. /\ Keeps(m, x, {"running", "text", "armed", "prev", "scr", "queue"})
          /\ x.text \in Asks /\ x.armed = TRUE /\ x.prev = m.scr /\ x.scr = "confirm"
          /\ x.running = FALSE /\ x.queue = Tail(m.queue) /\ m.queue # <<>>
      BY <1>4, <1>a, <2>5 DEF FlowAsks, Keeps, AskFields
    <3>2. Ends(x)
      BY <1>5, <3>1 DEF Ends, Keeps
    <3>3. ShownOK(x) /\ FlowOK(x) /\ AskedOK(x)
      BY <1>c, <3>1 DEF Keeps, ShownOK, FlowOK, AskedOK
    <3>4. PendOK(x)
      <4>1. x.pendHeap = m.pendHeap /\ x.route = m.route
        BY <3>1 DEF Keeps
      <4>2. "resize" \notin scene /\ m.pendHeap => strip /\ m.scr \in {"via", "confirm"}
        BY <1>1, <1>c, <1>a, <1>4 DEF PendOK, Keeps, Panels
      <4> QED
        BY <1>c, <3>1, <4>1, <4>2 DEF PendOK
    <3>5. Len(Tail(m.queue)) = Len(m.queue) - 1
      BY <1>2, <3>1 DEF Records
    <3>6. Room(x) /\ x.id = m.id
      <4>1. x.id = m.id
        BY <3>1 DEF Keeps
      <4> QED
        BY <1>2, <1>a, <1>b, <1>d, <3>1, <3>5, <4>1, BoundsAssumption DEF Room
    <3> QED
      BY <1>7, <2>2, <3>2, <3>3, <3>4, <3>6 DEF Returned, ScreenOK
  <2> QED
    BY <2>2, <2>3, <2>4, <2>5
<1> QED
  BY <1>8, <1>9

LEMMA DoneKeeps ==
  ASSUME IInv, NEW s \in Ids, Done(s)
  PROVE  IInv'
<1>1. CASE s = m.id
  BY <1>1, EndKeeps
<1>2. CASE s # m.id
  <2>1. /\ m.scr \notin {"gone", "panic"} /\ streams[s].waiter /\ streams[s].chan # <<>>
        /\ Update(m, Taken(s, FALSE))
    BY <1>2 DEF Done, Pending
  <2>2. m \in Records
    BY ModelsAreRecords DEF IInv, TypeOK
  <2>3. Handled(Taken(s, FALSE), m)
    BY <1>2, <2>1, TakenEffect
  <2>4. Returned(m)
    BY <2>1 DEF Returned, Stays
  <2> QED
    BY <2>1, <2>2, <2>3, <2>4, UpdateKeeps DEF IInv
<1> QED
  BY <1>1, <1>2

---------------------------------------------------------------------------
(* The theorems.                                                           *)

LEMMA InitIInv == Init => IInv
<1> SUFFICES ASSUME Init PROVE IInv
  OBVIOUS
<1>a. MaxStreams \in Nat \ {0} /\ Buffer \in Nat \ {0} /\ 0 \notin Ids
  BY BoundsAssumption DEF Ids
<1>1. m \in Models
  <2>1. <<>> \in Seq(StepKinds) /\ 0 \in 0 .. MaxStreams
    BY <1>a
  <2> QED
    BY <2>1 DEF Init, Models, Questions
<1>2. /\ m.scr = "menu" /\ m.armed = FALSE /\ m.pendHeap = FALSE /\ m.active = FALSE
      /\ m.queue = <<>> /\ m.id = 0 /\ m.running = FALSE /\ m.unasked = {}
  BY DEF Init
<1>3. NoStream \in Streams /\ NoStream.chan = <<>> /\ NoStream.child = "none"
  BY DEF NoStream, Streams
<1>4. TypeOK
  BY <1>1, <1>3, <1>a DEF Init, TypeOK
<1>5. Room(m) /\ ScreenOK(m)
  BY <1>2, <1>a DEF Room, ScreenOK, ShownOK, PendOK, AskedOK, FlowOK
<1>6. StreamInv
  BY <1>2, <1>3, <1>a DEF Init, StreamInv
<1>7. OnlyThePaneRuns
  BY <1>3 DEF Init, OnlyThePaneRuns, Unstoppable
<1> QED
  BY <1>4, <1>5, <1>6, <1>7 DEF IInv

LEMMA ResizeKeeps == IInv /\ Resize => IInv'
<1> SUFFICES ASSUME IInv, Resize PROVE IInv'
  OBVIOUS
<1>1. "resize" \in scene /\ strip' \in BOOLEAN /\ scene' = scene /\ m' = m /\ streams' = streams
  BY DEF Resize
<1>2. TypeOK' /\ StreamInv' /\ OnlyThePaneRuns'
  BY <1>1 DEF IInv, TypeOK, StreamInv, OnlyThePaneRuns, Unstoppable
<1>3. Room(m)' /\ ScreenOK(m)'
  BY <1>1 DEF IInv, Room, ScreenOK, ShownOK, PendOK, AskedOK, FlowOK
<1> QED
  BY <1>2, <1>3 DEF IInv

LEMMA NextIInv == IInv /\ [Next]_vars => IInv'
<1>1. IInv /\ Keys => IInv'
  BY QuickCommandKeeps, AskFirstKeeps, AskRouteKeeps, PickRouteKeeps, CancelRouteKeeps,
     OpenCardKeeps, OpenWizardKeeps, BackToMenuKeeps, StartFlowKeeps, YesKeeps, NoKeeps,
     EscKeeps, CtrlCKeeps, ViewFileKeeps DEF Keys
<1>2. ASSUME IInv, NEW s \in Ids, ChildExits(s) \/ ChildKilled(s) \/ BelowExits(s)
      PROVE  IInv'
  BY <1>2, ProcessesKeep
<1>3. ASSUME IInv, NEW s \in Ids, ReadChunk(s) \/ ReadEnd(s) PROVE IInv'
  BY <1>3, ReaderKeeps
<1>4. ASSUME IInv, NEW s \in Ids, Chunk(s) \/ Done(s) PROVE IInv'
  BY <1>4, ChunkKeeps, DoneKeeps
<1>5. IInv /\ UNCHANGED vars => IInv'
  BY DEF vars, IInv, TypeOK, StreamInv, OnlyThePaneRuns, Unstoppable,
         Room, ScreenOK, ShownOK, PendOK, AskedOK, FlowOK
<1> QED
  BY <1>1, <1>2, <1>3, <1>4, <1>5, ResizeKeeps DEF Next

LEMMA SpecIInv == Spec => []IInv
<1> QED
  BY InitIInv, NextIInv, PTL DEF Spec

\* Types: the model stays a model, the channels within their capacity.
THEOREM TypesOK == Spec => []TypeOK
<1>1. IInv => TypeOK
  BY DEF IInv
<1> QED
  BY <1>1, SpecIInv, PTL

\* Whatever the flows and however many panes: no child runs on behind the pane.
THEOREM OnlyThePaneRunsAlways == Spec => []OnlyThePaneRuns
<1>1. IInv => OnlyThePaneRuns
  BY DEF IInv
<1> QED
  BY <1>1, SpecIInv, PTL

\* As long as the strip stays, nothing that hurts the application runs unasked.
THEOREM HeapAlwaysAsksFirst == Spec => []HeapAsksFirst
<1>1. IInv => HeapAsksFirst
  BY DEF IInv, ScreenOK, AskedOK, HeapAsksFirst
<1> QED
  BY <1>1, SpecIInv, PTL

\* A guided flow always has what will carry it on.
THEOREM FlowAlwaysGoesOn == Spec => []FlowGoesOn
<1>1. IInv => FlowGoesOn
  BY DEF IInv, ScreenOK, FlowOK, FlowGoesOn, At, Asks
<1> QED
  BY <1>1, SpecIInv, PTL
=============================================================================
