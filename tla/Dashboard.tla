----------------------------- MODULE Dashboard -----------------------------
(***************************************************************************)
(* The TUI's screens, confirmations and guided flows, and the commands     *)
(* that stream into its output pane: menuKey and viaKey (tui/menu.go),     *)
(* Update, askConfirm2 and confirmKeyPress (tui/main.go), wizardKey and    *)
(* wizardAdvance (tui/wizard.go), startPane, streamCmd and the output keys *)
(* (tui/output.go), viewFile (tui/captures.go).  Kubernetes mode.          *)
(*                                                                         *)
(* Update handles one message at a time, a key or the next message of a    *)
(* stream, and returns the model: m is that record, and the operators from *)
(* records to records are the methods that return an updated model.  A     *)
(* stream is a child process, a goroutine that sends what the child writes *)
(* over a channel, and a waitStream command that hands one message to      *)
(* Update and has to be issued again for the next.                         *)
(*                                                                         *)
(* Left out: which command is run and on which row (it can hurt the        *)
(* application or cannot), tabs and scrolling, the screens that only show  *)
(* something or edit the target ("card"), and the shell inside the pod,    *)
(* during which the loop is suspended.                                     *)
(***************************************************************************)
EXTENDS Naturals, Sequences

CONSTANTS
  Flows,      \* the guided flows: sequences of steps
  MaxStreams, \* bound on the panes opened in a session
  Buffer,     \* the capacity of a stream's channel (32 in the code)
  Scenes      \* the combinations of AllEvents that may occur

\* A capture is viewed; the strip appears or goes, with the size of the
\* terminal or the probe of the target; a command follows the logs for ever.
AllEvents == {"view", "resize", "follow"}

\* A step runs a read at once, or asks first: for a heap dump, or before a
\* read that has to be timed or may be skipped.
StepKinds == {"read", "askHeap", "askRead"}

ASSUME FlowsAssumption == \A f \in Flows : f \in Seq(StepKinds) /\ f # <<>> /\ f[1] = "read"
ASSUME BoundsAssumption == MaxStreams \in Nat \ {0} /\ Buffer \in Nat \ {0}
ASSUME ScenesAssumption == Scenes \subseteq SUBSET AllEvents

VARIABLES
  scene,  \* the events that occur in this behaviour
  strip,  \* is there room for the output at the bottom of the menu?
  m,      \* the model
  streams \* per stream: its processes, its goroutine, its channel

vars == <<scene, strip, m, streams>>

Ids       == 1 .. MaxStreams
Questions == {"none", "heap", "restart", "bundle", "quit", "askHeap", "askRead"}

\* scr is "gone" once the program has left and "panic" when it died; armed:
\* the closures of the question are set; route: what the open capture-route
\* prompt was opened for; the last two fields are the streams whose cancel was
\* called, and the ones that can hurt the application although the operator has
\* not said yes to that.
Models == [scr : {"menu", "confirm", "via", "wizard", "output", "card", "gone", "panic"},
           prev : {"menu", "confirm", "via", "wizard", "output", "card"},
           text : Questions, armed : BOOLEAN, pendHeap : BOOLEAN,
           route : {"threads", "heap"}, active : BOOLEAN, queue : Seq(StepKinds),
           id : 0 .. MaxStreams, running : BOOLEAN,
           cancelled : SUBSET Ids, unasked : SUBSET Ids]

\* child is the process startPane started; below: a process under it has the
\* pipe open too; reader: the goroutine is at work; waiter: a waitStream is.
Streams == [child : {"none", "live", "dead"}, below : BOOLEAN,
            reader : BOOLEAN, chan : Seq({"chunk", "done"}), waiter : BOOLEAN]

NoStream == [child |-> "none", below |-> FALSE, reader |-> FALSE, chan |-> <<>>, waiter |-> FALSE]
Fresh    == [child |-> "live", below |-> TRUE, reader |-> TRUE, chan |-> <<>>, waiter |-> TRUE]

Init ==
  /\ scene \in Scenes /\ strip \in BOOLEAN
  /\ m = [scr |-> "menu", prev |-> "menu", text |-> "none", armed |-> FALSE,
          pendHeap |-> FALSE, route |-> "threads", active |-> FALSE, queue |-> <<>>,
          id |-> 0, running |-> FALSE, cancelled |-> {}, unasked |-> {}]
  /\ streams = [s \in Ids |-> NoStream]

---------------------------------------------------------------------------
(* The methods.                                                            *)

\* cancel is set exactly while the pane's stream is running.
Stop(x) == IF x.running THEN [x EXCEPT !.cancelled = @ \union {x.id}] ELSE x

\* Without the strip the pane takes the screen.
ShowPane(x) == IF strip THEN x ELSE [x EXCEPT !.prev = "menu", !.scr = "output"]

StartPane(x, unasked) ==
  LET id == x.id + 1 IN
    ShowPane([Stop(x) EXCEPT !.id = id, !.running = TRUE,
                             !.unasked = IF unasked THEN @ \union {id} ELSE @])

AskConfirm(x, q) == [x EXCEPT !.text = q, !.armed = TRUE, !.prev = x.scr, !.scr = "confirm"]

\* Run the next step, ask for it, or finish.
WizardAdvance(x) ==
  IF x.queue = <<>> THEN [x EXCEPT !.active = FALSE, !.scr = IF @ = "wizard" THEN "menu" ELSE @]
  ELSE LET y == [x EXCEPT !.queue = Tail(@)] IN
         IF Head(x.queue) = "read" THEN StartPane(y, FALSE) ELSE AskConfirm(y, Head(x.queue))

\* Update returns x; streams is what strs says, with the one x has started.
Update(x, strs) ==
  /\ m' = x
  /\ streams' = IF x.id > m.id /\ x.running THEN [strs EXCEPT ![x.id] = Fresh] ELSE strs
  /\ UNCHANGED <<scene, strip>>

\* A key; MaxStreams leaves room for what x has still to start.
Key(x) ==
  /\ x.id + Len(x.queue) + (IF x.armed THEN 1 ELSE 0) <= MaxStreams
  /\ Update(x, streams)

At(s) == m.scr = s
Menu  == [m EXCEPT !.prev = "menu"]

---------------------------------------------------------------------------
(* Keys.                                                                   *)

\* Most menu keys, the runbook's E, what is picked on the jcmd and log-level
\* cards; also the opening status.
QuickCommand ==
  /\ At("menu") \/ At("card")
  /\ \E s \in {"menu", m.scr} : Key(StartPane([Menu EXCEPT !.scr = s], FALSE))

\* H, R or K, x, q.
AskFirst == At("menu") /\ \E q \in {"heap", "restart", "bundle", "quit"} : Key(AskConfirm(Menu, q))

\* t.
AskRoute == At("menu") /\ Key([Menu EXCEPT !.scr = "via", !.route = "threads"])

PickRoute ==
  /\ At("via")
  /\ Key(StartPane([Menu EXCEPT !.scr = "menu", !.pendHeap = FALSE],
                   m.pendHeap /\ m.route # "heap"))

\* Mutant: the pending heap dump is not forgotten.
CancelRouteOnly == At("via") /\ Key([m EXCEPT !.scr = "menu"])

\* esc or any stray key.
CancelRoute == At("via") /\ Key([m EXCEPT !.scr = "menu", !.pendHeap = FALSE])

OpenCard   == At("menu") /\ Key([Menu EXCEPT !.scr = "card"])
OpenWizard == At("menu") /\ Key([Menu EXCEPT !.scr = "wizard", !.active = FALSE, !.queue = <<>>])
BackToMenu == (At("card") \/ At("wizard")) /\ Key([m EXCEPT !.scr = "menu"])

\* Mutant: the stream of the pane is not cancelled.
StartFlowBeside ==
  At("wizard") /\ \E f \in Flows :
    Key(WizardAdvance([m EXCEPT !.scr = "menu", !.active = TRUE, !.queue = f, !.running = FALSE]))

\* A flow starts with a pane of its own.
StartFlow ==
  At("wizard") /\ \E f \in Flows :
    Key(WizardAdvance([Stop(m) EXCEPT !.scr = "menu", !.active = TRUE, !.queue = f,
                                      !.running = FALSE]))

\* tea.Quit; main cancels the stream of the pane.
Quit(x) == [Stop(x) EXCEPT !.scr = "gone"]

\* confirmKeyPress: the closures are taken and the screen goes back before one
\* of them is called.  With none set there is nothing to call.
Answered == [m EXCEPT !.armed = FALSE, !.text = "none", !.scr = m.prev]

Yes == At("confirm") /\ Key(
  CASE ~m.armed               -> [m EXCEPT !.scr = "panic"]
    [] m.armed /\ m.text = "heap" -> [Answered EXCEPT !.scr = "via", !.pendHeap = TRUE, !.route = "heap"]
    [] m.armed /\ m.text = "quit" -> Quit(Answered)
    [] OTHER                      -> StartPane(Answered, FALSE))

\* Any other key.  x then captures its bundle without the heap, a flow goes on.
No == At("confirm") /\ Key(
  CASE m.armed /\ m.text = "bundle"                  -> StartPane(Answered, FALSE)
    [] m.armed /\ m.text \in {"askHeap", "askRead"} -> WizardAdvance(Answered)
    [] OTHER                                        -> Answered)

\* esc stops the stream; on a pane of its own it then goes back.
Esc ==
  \/ (At("menu") \/ At("output")) /\ m.running /\ Key(Stop(m))
  \/ At("output") /\ ~m.running /\ Key([m EXCEPT !.scr = m.prev])

CtrlC == (At("menu") \/ At("output")) /\ Key(Quit(m))

\* A capture takes the pane, whatever is streaming into it.
ViewFile ==
  /\ "view" \in scene /\ At("menu")
  /\ Key(ShowPane([m EXCEPT !.id = @ + 1, !.running = FALSE]))

Resize ==
  /\ "resize" \in scene /\ strip' = ~strip
  /\ UNCHANGED <<scene, m, streams>>

---------------------------------------------------------------------------
(* Streams.                                                                *)

PipeOpen(s) == streams[s].child = "live" \/ streams[s].below

ChildExits(s) ==
  /\ streams[s].child = "live"
  /\ streams' = [streams EXCEPT ![s].child = "dead", ![s].below = FALSE]
  /\ UNCHANGED <<scene, strip, m>>

\* CommandContext kills the child; what runs below it goes on.
ChildKilled(s) ==
  /\ streams[s].child = "live" /\ s \in m.cancelled
  /\ streams' = [streams EXCEPT ![s].child = "dead"]
  /\ UNCHANGED <<scene, strip, m>>

BelowExits(s) ==
  /\ streams[s].child = "dead" /\ streams[s].below
  /\ streams' = [streams EXCEPT ![s].below = FALSE]
  /\ UNCHANGED <<scene, strip, m>>

Send(s, msg) == streams' = [streams EXCEPT ![s].chan = Append(@, msg), ![s].reader = (msg # "done")]

\* Mutant: the channel takes any number of messages.
ReadUnbounded(s) ==
  /\ streams[s].reader /\ PipeOpen(s)
  /\ Send(s, "chunk")
  /\ UNCHANGED <<scene, strip, m>>

ReadChunk(s) ==
  /\ streams[s].reader /\ PipeOpen(s) /\ Len(streams[s].chan) < Buffer
  /\ Send(s, "chunk")
  /\ UNCHANGED <<scene, strip, m>>

\* End of file: nobody has the write end any more.
ReadEnd(s) ==
  /\ streams[s].reader /\ ~PipeOpen(s) /\ Len(streams[s].chan) < Buffer
  /\ Send(s, "done")
  /\ UNCHANGED <<scene, strip, m>>

Pending(s, msg) ==
  /\ m.scr \notin {"gone", "panic"}
  /\ streams[s].waiter /\ streams[s].chan # <<>> /\ Head(streams[s].chan) = msg

Taken(s, again) == [streams EXCEPT ![s].chan = Tail(@), ![s].waiter = again]

\* Mutant: the next message is not asked for.
ChunkOnce(s) == Pending(s, "chunk") /\ Update(m, Taken(s, FALSE))

\* The messages of a superseded stream are not waited for any more.
Chunk(s) == Pending(s, "chunk") /\ Update(m, Taken(s, s = m.id))

Ended == [m EXCEPT !.running = FALSE]

\* Mutant: only a step that was not stopped chains the next one.
DoneStops(s) ==
  /\ Pending(s, "done")
  /\ Update(IF s # m.id THEN m
            ELSE IF m.active /\ s \notin m.cancelled THEN WizardAdvance(Ended) ELSE Ended,
            Taken(s, FALSE))

Done(s) ==
  /\ Pending(s, "done")
  /\ Update(IF s # m.id THEN m ELSE IF m.active THEN WizardAdvance(Ended) ELSE Ended,
            Taken(s, FALSE))

Keys ==
  \/ QuickCommand \/ AskFirst \/ AskRoute \/ PickRoute \/ CancelRoute
  \/ OpenCard \/ OpenWizard \/ BackToMenu \/ StartFlow
  \/ Yes \/ No \/ Esc \/ CtrlC \/ ViewFile

Next ==
  \/ Keys \/ Resize
  \/ \E s \in Ids : \/ ChildExits(s) \/ ChildKilled(s) \/ BelowExits(s)
                    \/ ReadChunk(s) \/ ReadEnd(s) \/ Chunk(s) \/ Done(s)

Spec == Init /\ [][Next]_vars

\* A killed process dies, goroutines and commands run, and what a command has
\* started ends, unless it follows the logs.
FairSpec ==
  /\ Spec
  /\ \A s \in Ids : /\ WF_vars(ChildKilled(s)) /\ WF_vars(ReadEnd(s))
                    /\ WF_vars(Chunk(s)) /\ WF_vars(Done(s))
                    /\ WF_vars("follow" \notin scene /\ BelowExits(s))

---------------------------------------------------------------------------
(* Properties.                                                             *)

TypeOK ==
  /\ scene \in Scenes /\ strip \in BOOLEAN /\ m \in Models
  /\ streams \in [Ids -> Streams]
  /\ \A s \in Ids : Len(streams[s].chan) <= Buffer

Unstoppable == {s \in Ids : streams[s].child = "live" /\ s \notin m.cancelled}

\* No child runs on behind the pane: the only one nobody has cancelled is the
\* one the pane shows, where esc and leaving will cancel it.
OnlyThePaneRuns ==
  "view" \notin scene =>
    /\ Unstoppable \subseteq {m.id}
    /\ Unstoppable # {} /\ m.scr # "panic" => m.running /\ m.scr # "gone"

\* As long as the strip neither appears nor goes, no heap dump, restart or kill
\* runs to which the operator has not said yes, whatever messages of streams
\* come between his keys.
HeapAsksFirst == "resize" \notin scene => m.unasked = {}

\* A guided flow always has what will carry it on: a running step, or the
\* question for the next one; unless the dashboard itself is gone, by the call of
\* a nil function behind a confirm screen that is its own previous screen.
FlowGoesOn ==
  "view" \notin scene /\ m.active /\ m.scr # "gone" =>
    \/ m.running
    \/ m.armed /\ m.text \in {"askHeap", "askRead"} /\ At("confirm")
    \/ At("panic")

Stopping == m.running /\ m.id \in m.cancelled /\ m.scr \notin {"gone", "panic"}

\* Unless a command follows the logs, a stopped stream ends, although its
\* last messages and those of other streams are still on their way.
StoppedEnds == "follow" \notin scene /\ Stopping ~> ~Stopping

---------------------------------------------------------------------------
(* A statement the code does not live up to.                               *)

\* "Esc always goes back. On every screen ... Esc backs out to the screen
\* underneath" (docs/tui.md:106-108).
EscGoesBack == At("confirm") => m.prev # "confirm"
=============================================================================
