------------------------------ MODULE Refresh ------------------------------
(***************************************************************************)
(* What the dashboard fetches in the background while the operator looks   *)
(* at it, and the pod he looks at: Init, Update's tickMsg, logTickMsg,     *)
(* panelMsg and logMsg, panelFetch, logsFetch, refreshNow and probeRemote  *)
(* (tui/main.go), menuKey (tui/menu.go), chooserKey (tui/chooser.go), the  *)
(* target editor (tui/editor.go), switchPod (tui/pods.go), fetchPanel      *)
(* (tui/panel.go), fetchLogs (tui/logs.go) and the fetches that follow a   *)
(* command (main.go, tui/output.go).  Kubernetes mode, with a terminal     *)
(* large enough for the log pane; the pickers and the typed input of the   *)
(* editor are part of its screen.                                          *)
(*                                                                         *)
(* A fetch is a goroutine that runs kubectl and then hands Update its      *)
(* reply; replies come in any order.  Every call is killed after 8 s but   *)
(* those of jvmHeap and jvmMetrics, which probe the JVM without a limit: a *)
(* JVM that hangs may never answer.  A reply does not say for which pod it *)
(* was asked: that is history, kept here to state properties.              *)
(* Events, captures and the list of pods are fetched the same way without  *)
(* any guard and are left out.                                             *)
(***************************************************************************)
EXTENDS Naturals, FiniteSets, FiniteSetsExt

CONSTANTS
  Pods, NoPod, \* the pods of the namespace; no pod chosen, nothing shown yet
  Hung,        \* the pods whose JVM may never answer a probe
  MaxKeys      \* bound on what the operator does

ASSUME PodsAssumption == NoPod \notin Pods /\ Pods # {} /\ IsFiniteSet(Pods)
ASSUME HungAssumption == Hung \subseteq Pods
ASSUME KeysAssumption == MaxKeys \in Nat

VARIABLES
  scr,       \* "menu", "chooser", "editor" or "other"
  bg,        \* bgMode: "live", "quiet" or "paused"
  pod,       \* m.t.Pod
  ready,     \* did the last probe of the target find it complete (remote.OK)?
  due,       \* has remote.When been reset, so that the next key must probe?
  output,    \* does the strip show a command's output (out.show)?
  panelBusy, logBusy,
  tick, logTick, logTickOn, \* timers that are running; is the log timer armed?
  panels,    \* panel fetches in flight, per pod and per whether the JVM is probed
  logs,      \* log fetches in flight, per pod
  shown,     \* the pods whose panel, heap figures and logs are on the screen
  keys, starts \* what the operator has done; how often the dashboard was started

vars == <<scr, bg, pod, ready, due, output, panelBusy, logBusy, tick, logTick,
          logTickOn, panels, logs, shown, keys, starts>>

ui     == <<scr, bg, pod, ready, due, output>>
timers == <<tick, logTick, logTickOn>>
spent  == <<keys, starts>>

Targets == Pods \union {NoPod}
Screens == {"menu", "chooser", "editor", "other"}

Plus(f, x)  == [f EXCEPT ![x] = @ + 1]
Minus(f, x) == [f EXCEPT ![x] = @ - 1]
InFlight(f) == MapThenSumSet(LAMBDA x : f[x], DOMAIN f)

\* What is fetched at the start, in Init or once the mode is chosen: the busy
\* flags are not raised.
Started(p) == /\ panels' = Plus(panels, <<p, TRUE>>)
              /\ logs' = IF p = NoPod THEN logs ELSE Plus(logs, p)
              /\ starts' = starts + 1

\* What a probe of the cluster, the pod and its container may say.
Verdicts(p) == IF p = NoPod THEN {FALSE} ELSE BOOLEAN

Init ==
  /\ scr \in {"menu", "chooser"} /\ bg = "live" /\ pod \in Targets /\ output = FALSE
  /\ due = (scr = "chooser") /\ ready \in IF due THEN {FALSE} ELSE Verdicts(pod)
  /\ panelBusy = FALSE /\ logBusy = FALSE
  /\ tick = 1 /\ logTick = 0 /\ logTickOn = FALSE
  /\ starts = (IF scr = "menu" THEN 1 ELSE 0) /\ keys = 0
  /\ panels = [x \in Targets \X BOOLEAN |-> IF x = <<pod, TRUE>> THEN starts ELSE 0]
  /\ logs = [p \in Targets |-> IF p = pod /\ p # NoPod THEN starts ELSE 0]
  /\ shown = [panel |-> NoPod, heap |-> NoPod, logs |-> NoPod]

Live == bg = "live"

\* panelFetch and logsFetch raise the flag; the caller looks at it, or not.
PanelFetch(p)        == panelBusy' = TRUE /\ panels' = Plus(panels, <<p, Live>>)
LogsFetch(p)         == logBusy' = TRUE /\ logs' = Plus(logs, p)
NoLogsFetch          == UNCHANGED <<logBusy, logs>>
NoPanelFetch         == UNCHANGED <<panelBusy, panels>>
LogsFetchUnlessBusy(p) == IF logBusy THEN NoLogsFetch ELSE LogsFetch(p)

---------------------------------------------------------------------------
(* Timers.                                                                 *)

\* The first WindowSizeMsg.
WindowSize ==
  /\ ~logTickOn
  /\ logTickOn' = TRUE /\ logTick' = logTick + 1
  /\ UNCHANGED <<ui, panelBusy, logBusy, tick, panels, logs, shown, spent>>

\* Every 20 s; the timer is started again.
Tick ==
  /\ tick > 0
  /\ IF bg # "paused" /\ scr = "menu" /\ ready /\ ~panelBusy
     THEN PanelFetch(pod) ELSE NoPanelFetch
  /\ UNCHANGED <<ui, logBusy, timers, logs, shown, spent>>

Polls == Live /\ scr = "menu" /\ ready /\ ~output

\* Mutant: the fetch in flight is not looked at.
LogTickStacks ==
  /\ logTick > 0
  /\ IF Polls THEN LogsFetch(pod) ELSE NoLogsFetch
  /\ UNCHANGED <<ui, panelBusy, timers, panels, shown, spent>>

\* Mutant: logs that are there are not fetched again.
LogTickOnce ==
  /\ logTick > 0
  /\ IF Polls /\ shown.logs = NoPod THEN LogsFetchUnlessBusy(pod) ELSE NoLogsFetch
  /\ UNCHANGED <<ui, panelBusy, timers, panels, shown, spent>>

\* Every 5 s.
LogTick ==
  /\ logTick > 0
  /\ IF Polls THEN LogsFetchUnlessBusy(pod) ELSE NoLogsFetch
  /\ UNCHANGED <<ui, panelBusy, timers, panels, shown, spent>>

---------------------------------------------------------------------------
(* Replies, which may come after the target has changed.                   *)

\* What a panel fetch brings: the status of its pod, and the figures of the
\* heap unless the probe was skipped; without a pod there are none.
Fetched(x) == [panel |-> x[1],
               heap  |-> IF x[2] \/ x[1] = NoPod THEN x[1] ELSE shown.heap]

PanelReply(x) ==
  /\ panels[x] > 0
  /\ panels' = Minus(panels, x) /\ panelBusy' = FALSE
  /\ shown' = [shown EXCEPT !.panel = Fetched(x).panel, !.heap = Fetched(x).heap]
  /\ UNCHANGED <<ui, logBusy, timers, logs, spent>>

\* Mutant: a late reply is dropped before the flag is lowered.
LogReplyChecked(p) ==
  /\ logs[p] > 0
  /\ logs' = Minus(logs, p)
  /\ IF p = pod THEN logBusy' = FALSE /\ shown' = [shown EXCEPT !.logs = p]
     ELSE UNCHANGED <<logBusy, shown>>
  /\ UNCHANGED <<ui, panelBusy, timers, panels, spent>>

LogReply(p) ==
  /\ logs[p] > 0
  /\ logs' = Minus(logs, p) /\ logBusy' = FALSE
  /\ shown' = [shown EXCEPT !.logs = p]
  /\ UNCHANGED <<ui, panelBusy, timers, panels, spent>>

---------------------------------------------------------------------------
(* The operator.                                                           *)

Key == keys < MaxKeys /\ keys' = keys + 1

\* menuKey probes the target before it looks at the key, if that is due or the
\* last probe is 20 s old; where only a selector is set it picks a pod itself.
Probes(p) ==
  /\ scr = "menu" /\ pod' = p
  /\ \/ p = pod /\ ~due /\ UNCHANGED <<ready, due>>
     \/ (p = pod \/ pod = NoPod) /\ ready' \in Verdicts(p) /\ due' = FALSE

\* A pod is clicked.
SwitchPod(p) ==
  /\ Key /\ scr = "menu" /\ ready /\ p # pod
  /\ pod' = p /\ ready' \in BOOLEAN /\ due' = FALSE
  /\ shown' = [shown EXCEPT !.logs = NoPod]
  /\ PanelFetch(p) /\ LogsFetchUnlessBusy(p)
  /\ UNCHANGED <<scr, bg, output, timers, starts>>

\* r probes the JVM whatever the mode.
RefreshNow(p) ==
  /\ Key /\ Probes(p)
  /\ IF panelBusy \/ ~ready' THEN NoPanelFetch
     ELSE panelBusy' = TRUE /\ panels' = Plus(panels, <<p, TRUE>>)
  /\ IF ready' THEN LogsFetchUnlessBusy(p) ELSE NoLogsFetch
  /\ UNCHANGED <<scr, bg, output, timers, shown, starts>>

CycleBackground(p) ==
  /\ Key /\ Probes(p)
  /\ bg' = IF ready' THEN [live |-> "quiet", quiet |-> "paused", paused |-> "live"][bg]
           ELSE bg
  /\ UNCHANGED <<scr, output, panelBusy, logBusy, timers, panels, logs, shown, starts>>

\* A command is started: its output takes the strip.
RunCommand(p) ==
  /\ Key /\ Probes(p)
  /\ output' = TRUE
  /\ UNCHANGED <<scr, bg, panelBusy, logBusy, timers, panels, logs, shown, starts>>

\* It ends, on whatever screen, or its output is dismissed: the panel is
\* fetched again.
CommandDone ==
  /\ Key /\ output
  /\ PanelFetch(pod)
  /\ UNCHANGED <<ui, logBusy, timers, logs, shown, starts>>

DismissOutput ==
  /\ Key /\ scr = "menu" /\ output
  /\ output' = FALSE /\ PanelFetch(pod)
  /\ UNCHANGED <<scr, bg, pod, ready, due, logBusy, timers, logs, shown, starts>>

\* The shell in the pod has ended, or the chooser's self-test, after which the
\* logs are fetched only if Kubernetes mode had been chosen before.
ExecDone ==
  /\ Key /\ scr \in {"menu", "chooser"}
  /\ PanelFetch(pod)
  /\ \/ LogsFetchUnlessBusy(pod)
     \/ scr = "chooser" /\ NoLogsFetch
  /\ UNCHANGED <<ui, timers, shown, starts>>

\* A pick in the editor changes the target at once.  Nothing is cleared and
\* nothing fetched; a new namespace, selector or context leaves no pod.
EditTarget(p) ==
  /\ Key /\ scr = "editor" /\ p # pod
  /\ pod' = p
  /\ UNCHANGED <<scr, bg, ready, due, output, panelBusy, logBusy, timers, panels, logs,
                 shown, starts>>

LeaveMenu(s, p) ==
  /\ Key /\ s # "menu" /\ Probes(p)
  /\ scr' = s
  /\ UNCHANGED <<bg, output, panelBusy, logBusy, timers, panels, logs, shown, starts>>

\* Back to the menu: the chooser probes and starts the dashboard, the editor
\* leaves the probe to the next key.
Back ==
  /\ Key /\ scr # "menu" /\ scr' = "menu"
  /\ IF scr = "chooser" THEN ready' \in Verdicts(pod) /\ Started(pod)
     ELSE UNCHANGED <<ready, panels, logs, starts>>
  /\ due' = CASE scr = "editor" -> TRUE [] scr = "chooser" -> FALSE [] OTHER -> due
  /\ UNCHANGED <<bg, pod, output, panelBusy, logBusy, timers, shown>>

Next ==
  \/ WindowSize \/ Tick \/ LogTick
  \/ \E x \in Targets \X BOOLEAN : PanelReply(x)
  \/ \E p \in Pods : SwitchPod(p)
  \/ \E p \in Targets : \/ LogReply(p) \/ RefreshNow(p) \/ CycleBackground(p)
                       \/ RunCommand(p) \/ EditTarget(p)
                       \/ \E s \in Screens : LeaveMenu(s, p)
  \/ CommandDone \/ DismissOutput \/ ExecDone \/ Back

Spec == Init /\ [][Next]_vars

\* The terminal's size is announced, timers expire, and every fetch is
\* answered, its kubectl calls being killed after 8 s, but the probe of a hung
\* JVM.
FairSpec ==
  /\ Spec
  /\ WF_vars(WindowSize) /\ WF_vars(Tick) /\ WF_vars(LogTick)
  /\ \A x \in (Targets \X BOOLEAN) \ (Hung \X {TRUE}) : WF_vars(PanelReply(x))
  /\ \A p \in Targets : WF_vars(LogReply(p))

---------------------------------------------------------------------------
(* Properties.                                                             *)

\* One timer of each kind, however the dashboard was entered
\* (main.go:118, "must never double-arm").
TypeOK ==
  /\ scr \in Screens /\ bg \in {"live", "quiet", "paused"}
  /\ pod \in Targets /\ ready \in BOOLEAN /\ due \in BOOLEAN
  /\ output \in BOOLEAN /\ panelBusy \in BOOLEAN /\ logBusy \in BOOLEAN
  /\ tick = 1 /\ logTickOn \in BOOLEAN /\ logTick = (IF logTickOn THEN 1 ELSE 0)
  /\ panels \in [Targets \X BOOLEAN -> Nat] /\ logs \in [Targets -> Nat]
  /\ shown \in [panel : Targets, heap : Targets, logs : Targets]
  /\ keys \in 0 .. MaxKeys /\ starts \in 0 .. MaxKeys + 1

\* A raised flag always has a reply to come that lowers it: the panes never
\* stop for good, whatever is fetched without a flag and in whatever order the
\* replies come (main.go:134-143, 300-342).
BusyIsAnswered ==
  /\ panelBusy => \E x \in DOMAIN panels : panels[x] > 0
  /\ logBusy => \E p \in Targets : logs[p] > 0

\* A slow cluster stacks no log fetches: at most one is in flight besides
\* those of the starts of the dashboard (main.go:109-111).
LogsDoNotStack == InFlight(logs) <= starts + (IF logBusy THEN 1 ELSE 0)

Watching == Live /\ scr = "menu" /\ ready /\ ~output
OnTarget == \A part \in DOMAIN shown : shown[part] = pod

\* Only probes of JVMs that hang are still to answer: after a click the fetch
\* for the new pod lowers the flag, after a change in the editor nothing does.
HeldBack == panelBusy /\ \A x \in DOMAIN panels : panels[x] > 0 => x \in Hung \X {TRUE}

\* Who stays on the live menu ends up looking at the pod he has chosen, by a
\* click, in the editor or with a selector, although answers for another are
\* still on their way, and although the JVM of one he has left with a click
\* hangs and its answer never comes (pods.go:198, editor.go:157-163).
CatchesUp == <>[](Watching /\ pod \notin Hung /\ ~HeldBack) => <>[]OnTarget
=============================================================================
