---------------------------- MODULE RefreshProofs ----------------------------
(***************************************************************************)
(* TLAPS proofs about Refresh, for any pods, any of them hung, and any     *)
(* number of keys: there is one timer of each kind, a busy flag always has *)
(* a reply to come, and fetches of the logs do not stack.                  *)
(***************************************************************************)
EXTENDS Refresh, FiniteSetTheorems, WellFoundedInduction, TLAPS

\* Type correctness bounds the starts of the dashboard by the keys pressed,
\* each of which may be one.
IInv == TypeOK /\ starts <= keys + 1 /\ BusyIsAnswered

LEMMA PlusCounts ==
  ASSUME NEW S, NEW f \in [S -> Nat], NEW x \in S
  PROVE  /\ Plus(f, x) \in [S -> Nat] /\ Plus(f, x)[x] > 0
         /\ \A y \in S : f[y] > 0 => Plus(f, x)[y] > 0
BY DEF Plus

LEMMA MinusCounts ==
  ASSUME NEW S, NEW f \in [S -> Nat], NEW x \in S, f[x] > 0
  PROVE  Minus(f, x) \in [S -> Nat]
BY DEF Minus

\* What a panel fetch, with or without the probe, does to its flag and count.
LEMMA PanelFetched ==
  ASSUME TypeOK, NEW x \in Targets \X BOOLEAN, panels' = Plus(panels, x)
  PROVE  /\ panels' \in [Targets \X BOOLEAN -> Nat]
         /\ \E y \in DOMAIN panels' : panels'[y] > 0
<1>1. panels \in [Targets \X BOOLEAN -> Nat]
  BY DEF TypeOK
<1> QED
  BY <1>1, PlusCounts

LEMMA LogsFetched ==
  ASSUME TypeOK, NEW p \in Targets, logs' = Plus(logs, p)
  PROVE  logs' \in [Targets -> Nat] /\ \E q \in Targets : logs'[q] > 0
<1>1. logs \in [Targets -> Nat]
  BY DEF TypeOK
<1> QED
  BY <1>1, PlusCounts

\* The panel and log halves of the invariant, which each action changes on
\* their own.
PanelsInv == /\ panelBusy \in BOOLEAN /\ panels \in [Targets \X BOOLEAN -> Nat]
             /\ panelBusy => \E x \in DOMAIN panels : panels[x] > 0
LogsInv   == /\ logBusy \in BOOLEAN /\ logs \in [Targets -> Nat]
             /\ logBusy => \E p \in Targets : logs[p] > 0
RestInv   ==
  /\ scr \in Screens /\ bg \in {"live", "quiet", "paused"}
  /\ pod \in Targets /\ ready \in BOOLEAN /\ due \in BOOLEAN /\ output \in BOOLEAN
  /\ tick = 1 /\ logTickOn \in BOOLEAN /\ logTick = (IF logTickOn THEN 1 ELSE 0)
  /\ shown \in [panel : Targets, heap : Targets, logs : Targets]
  /\ keys \in 0 .. MaxKeys /\ starts \in Nat /\ starts <= keys + 1

LEMMA Halves == IInv <=> PanelsInv /\ LogsInv /\ RestInv
BY KeysAssumption DEF IInv, TypeOK, BusyIsAnswered, PanelsInv, LogsInv, RestInv

\* Every probe answers yes or no, and a key leaves one of the targets chosen.
LEMMA ProbesTypes ==
  ASSUME NEW p \in Targets, Probes(p), RestInv
  PROVE  pod' \in Targets /\ ready' \in BOOLEAN /\ due' \in BOOLEAN
BY DEF Probes, Verdicts, RestInv

LEMMA InitIInv == Init => IInv
<1> SUFFICES ASSUME Init PROVE IInv
  OBVIOUS
<1>1. starts \in {0, 1} /\ <<pod, TRUE>> \in Targets \X BOOLEAN
  BY DEF Init, Targets
<1>2. panels \in [Targets \X BOOLEAN -> Nat] /\ logs \in [Targets -> Nat]
  BY <1>1 DEF Init
<1>3. shown \in [panel : Targets, heap : Targets, logs : Targets]
  BY DEF Init, Targets
<1>4. keys \in 0 .. MaxKeys /\ starts \in 0 .. MaxKeys + 1 /\ starts <= keys + 1
  BY <1>1, KeysAssumption DEF Init
<1>5. ready \in BOOLEAN /\ due \in BOOLEAN /\ scr \in Screens
  BY DEF Init, Verdicts, Screens
<1> QED
  BY <1>2, <1>3, <1>4, <1>5 DEF Init, IInv, TypeOK, BusyIsAnswered

\* The flag for the panel: raised with a fetch, lowered by any reply.
LEMMA PanelsStep == ASSUME IInv, [Next]_vars PROVE PanelsInv'
<1> USE Halves
<1>1. PanelsInv /\ pod \in Targets /\ Pods \subseteq Targets
  BY DEF RestInv, Targets
<1>2. TypeOK
  BY DEF IInv
<1>3. ASSUME NEW x \in Targets \X BOOLEAN, panels' = Plus(panels, x),
             panelBusy' \in BOOLEAN
      PROVE  PanelsInv'
  BY <1>2, <1>3, PanelFetched DEF PanelsInv
<1>4. CASE UNCHANGED <<panelBusy, panels>>
  BY <1>1, <1>4 DEF PanelsInv
<1>5. ASSUME NEW p \in Targets, PanelFetch(p) PROVE PanelsInv'
  <2>1. <<p, Live>> \in Targets \X BOOLEAN
    BY DEF Live
  <2> QED
    BY <1>3, <1>5, <2>1 DEF PanelFetch
<1>6. ASSUME NEW x \in Targets \X BOOLEAN, PanelReply(x) PROVE PanelsInv'
  BY <1>1, <1>6, MinusCounts DEF PanelReply, PanelsInv
<1>7. CASE Tick
  BY <1>1, <1>4, <1>5, <1>7 DEF Tick, NoPanelFetch
<1>8. ASSUME NEW p \in Targets, RefreshNow(p) PROVE PanelsInv'
  <2>1. <<p, TRUE>> \in Targets \X BOOLEAN
    OBVIOUS
  <2> QED
    BY <1>3, <1>4, <1>8, <2>1 DEF RefreshNow, NoPanelFetch
<1>9. CASE Back
  <2>1. <<pod, TRUE>> \in Targets \X BOOLEAN
    BY <1>1
  <2>2. panelBusy' \in BOOLEAN
    BY <1>1, <1>9 DEF Back, PanelsInv
  <2> QED
    BY <1>3, <1>4, <1>9, <2>1, <2>2 DEF Back, Started
<1>10. CASE \E p \in Pods : SwitchPod(p)
  BY <1>1, <1>5, <1>10 DEF SwitchPod
<1>11. CASE CommandDone \/ DismissOutput \/ ExecDone
  BY <1>1, <1>5, <1>11 DEF CommandDone, DismissOutput, ExecDone
<1>12. CASE WindowSize \/ LogTick \/ UNCHANGED vars
  BY <1>4, <1>12 DEF WindowSize, LogTick, vars
<1>13. CASE \E p \in Targets : \/ LogReply(p) \/ CycleBackground(p) \/ RunCommand(p)
                              \/ EditTarget(p) \/ \E s \in Screens : LeaveMenu(s, p)
  BY <1>4, <1>13 DEF LogReply, CycleBackground, RunCommand, EditTarget, LeaveMenu
<1> QED
  BY <1>6, <1>7, <1>8, <1>9, <1>10, <1>11, <1>12, <1>13 DEF Next

\* The same for the logs.
LEMMA LogsStep == ASSUME IInv, [Next]_vars PROVE LogsInv'
<1> USE Halves
<1>1. LogsInv /\ pod \in Targets /\ Pods \subseteq Targets
  BY DEF RestInv, Targets
<1>2. TypeOK
  BY DEF IInv
<1>3. ASSUME NEW p \in Targets, logs' = Plus(logs, p), logBusy' \in BOOLEAN
      PROVE  LogsInv'
  BY <1>2, <1>3, LogsFetched DEF LogsInv
<1>4. CASE UNCHANGED <<logBusy, logs>>
  BY <1>1, <1>4 DEF LogsInv
<1>5. ASSUME NEW p \in Targets, LogsFetchUnlessBusy(p) \/ LogsFetch(p) \/ NoLogsFetch
      PROVE  LogsInv'
  BY <1>3, <1>4, <1>5 DEF LogsFetchUnlessBusy, LogsFetch, NoLogsFetch
<1>6. ASSUME NEW p \in Targets, LogReply(p) PROVE LogsInv'
  BY <1>1, <1>6, MinusCounts DEF LogReply, LogsInv
<1>7. CASE LogTick
  BY <1>1, <1>5, <1>7 DEF LogTick
<1>8. ASSUME NEW p \in Targets, RefreshNow(p) PROVE LogsInv'
  BY <1>5, <1>8 DEF RefreshNow
<1>9. CASE ExecDone
  BY <1>1, <1>5, <1>9 DEF ExecDone
<1>10. CASE \E p \in Pods : SwitchPod(p)
  BY <1>1, <1>5, <1>10 DEF SwitchPod
<1>11. CASE Back
  <2>1. logBusy' \in BOOLEAN
    BY <1>1, <1>11 DEF Back, LogsInv
  <2>2. logs' = logs \/ logs' = Plus(logs, pod)
    BY <1>11 DEF Back, Started
  <2> QED
    BY <1>1, <1>3, <1>4, <1>11, <2>1, <2>2 DEF Back
<1>12. CASE \/ WindowSize \/ Tick \/ CommandDone \/ DismissOutput
            \/ \E x \in Targets \X BOOLEAN : PanelReply(x)
            \/ UNCHANGED vars
  BY <1>4, <1>12 DEF WindowSize, Tick, CommandDone, DismissOutput, PanelReply, vars
<1>13. CASE \E p \in Targets : \/ CycleBackground(p) \/ RunCommand(p) \/ EditTarget(p)
                              \/ \E s \in Screens : LeaveMenu(s, p)
  BY <1>4, <1>13 DEF CycleBackground, RunCommand, EditTarget, LeaveMenu
<1> QED
  BY <1>6, <1>7, <1>8, <1>9, <1>10, <1>11, <1>12, <1>13 DEF Next

\* Timers, screens and what the operator may still do.
LEMMA RestStep == ASSUME IInv, [Next]_vars PROVE RestInv'
<1> USE Halves, KeysAssumption
<1>1. CASE WindowSize
  BY <1>1 DEF WindowSize, RestInv, ui, spent
<1>2. CASE Tick \/ LogTick \/ UNCHANGED vars
  BY <1>2 DEF Tick, LogTick, RestInv, ui, timers, spent, vars
<1>3. ASSUME NEW x \in Targets \X BOOLEAN, PanelReply(x) PROVE RestInv'
  <2>1. shown' \in [panel : Targets, heap : Targets, logs : Targets]
    <3> DEFINE h == IF x[2] \/ x[1] = NoPod THEN x[1] ELSE shown.heap
    <3>1. x[1] \in Targets /\ h \in Targets
      BY DEF RestInv
    <3>2. shown' = [shown EXCEPT !.panel = x[1], !.heap = h]
      BY <1>3 DEF PanelReply, Fetched
    <3>3. shown' = [panel |-> x[1], heap |-> h, logs |-> shown.logs]
      BY <3>2 DEF RestInv
    <3> QED
      BY <3>1, <3>3 DEF RestInv
  <2> QED
    BY <1>3, <2>1 DEF PanelReply, RestInv, ui, timers, spent
<1>4. CASE \E p \in Targets : LogReply(p)
  BY <1>4 DEF LogReply, RestInv, ui, timers, spent
<1>5. ASSUME NEW p \in Pods, SwitchPod(p) PROVE RestInv'
  <2>1. p \in Targets /\ NoPod \in Targets
    BY DEF Targets
  <2>2. shown' \in [panel : Targets, heap : Targets, logs : Targets]
    BY <1>5, <2>1 DEF SwitchPod, RestInv
  <2>3. ready' \in BOOLEAN /\ due' \in BOOLEAN
    BY <1>5 DEF SwitchPod
  <2> QED
    BY <1>5, <2>1, <2>2, <2>3 DEF SwitchPod, Key, RestInv, timers
<1>6. CASE CommandDone \/ ExecDone
  BY <1>6 DEF CommandDone, ExecDone, Key, RestInv, ui, timers
<1>7. ASSUME NEW p \in Targets, CycleBackground(p) PROVE RestInv'
  <2>1. bg' \in {"live", "quiet", "paused"}
    BY <1>7 DEF CycleBackground, RestInv
  <2> QED
    BY <1>7, <2>1, ProbesTypes DEF CycleBackground, Key, RestInv, timers
<1>8. ASSUME NEW p \in Targets, RunCommand(p) \/ RefreshNow(p) PROVE RestInv'
  <2>1. pod' \in Targets /\ ready' \in BOOLEAN /\ due' \in BOOLEAN
    BY <1>8, ProbesTypes DEF RunCommand, RefreshNow
  <2>2. /\ keys < MaxKeys /\ keys' = keys + 1
        /\ UNCHANGED <<scr, bg, timers, shown, starts>>
    BY <1>8, Zenon DEF RunCommand, RefreshNow, Key
  <2>3. output' \in BOOLEAN
    <3>1. CASE RunCommand(p)
      BY <3>1, Zenon DEF RunCommand
    <3>2. CASE RefreshNow(p)
      <4>1. output' = output
        BY <3>2, Zenon DEF RefreshNow
      <4> QED
        BY <4>1 DEF RestInv
    <3> QED
      BY <1>8, <3>1, <3>2
  <2> QED
    BY <2>1, <2>2, <2>3 DEF RestInv, timers
<1>9. CASE DismissOutput
  <2>1. /\ output' \in BOOLEAN /\ keys < MaxKeys /\ keys' = keys + 1
        /\ UNCHANGED <<scr, bg, pod, ready, due, timers, shown, starts>>
    BY <1>9, Zenon DEF DismissOutput, Key
  <2> QED
    BY <2>1 DEF RestInv, timers
<1>10. ASSUME NEW p \in Targets, EditTarget(p) PROVE RestInv'
  BY <1>10 DEF EditTarget, Key, RestInv, timers
<1>11. ASSUME NEW s \in Screens, NEW p \in Targets, LeaveMenu(s, p) PROVE RestInv'
  BY <1>11, ProbesTypes DEF LeaveMenu, Key, RestInv, timers
<1>12. CASE Back
  <2>1. ready' \in BOOLEAN /\ due' \in BOOLEAN /\ starts' \in {starts, starts + 1}
    BY <1>12 DEF Back, Started, Verdicts, RestInv
  <2>2. /\ scr' = "menu" /\ keys < MaxKeys /\ keys' = keys + 1
        /\ UNCHANGED <<bg, pod, output, timers, shown>>
    BY <1>12, Zenon DEF Back, Key
  <2>3. /\ scr' \in Screens /\ bg' \in {"live", "quiet", "paused"}
        /\ pod' \in Targets /\ output' \in BOOLEAN
        /\ shown' \in [panel : Targets, heap : Targets, logs : Targets]
    BY <2>2 DEF RestInv, Screens
  <2>4. starts \in Nat /\ starts <= keys + 1 /\ keys \in 0 .. MaxKeys
    BY DEF RestInv
  <2>5. keys' \in 0 .. MaxKeys /\ starts' \in Nat /\ starts' <= keys' + 1
    BY <2>1, <2>2, <2>4
  <2> QED
    BY <2>1, <2>2, <2>3, <2>5 DEF RestInv, timers
<1> QED
  BY <1>1, <1>2, <1>3, <1>4, <1>5, <1>6, <1>7, <1>8, <1>9, <1>10, <1>11, <1>12 DEF Next

\* The three parts are inductive together.
THEOREM Invariance == Spec => []IInv
<1> DEFINE Parts == PanelsInv /\ LogsInv /\ RestInv
<1>1. Init => Parts
  BY InitIInv, Halves
<1>2. Parts /\ [Next]_vars => PanelsInv' /\ LogsInv' /\ RestInv'
  BY Halves, PanelsStep, LogsStep, RestStep
<1>3. Parts /\ [Next]_vars => Parts'
  BY <1>2
<1>4. Parts => IInv
  BY Halves
<1> HIDE DEF Parts
<1> QED
  BY <1>1, <1>3, <1>4, PTL DEF Spec

\* The dashboard never has two timers of a kind nor a count below zero
\* (main.go:118, 222-233, 370-386).
THEOREM TypeCorrect == Spec => []TypeOK
<1>1. IInv => TypeOK
  BY DEF IInv
<1> QED
  BY Invariance, <1>1, PTL

\* Neither pane can be stopped for good by its own flag, for any number of
\* pods and fetches (main.go:134-143, 301-338).
THEOREM FlagsAreAnswered == Spec => []BusyIsAnswered
<1>1. IInv => BusyIsAnswered
  BY DEF IInv
<1> QED
  BY Invariance, <1>1, PTL

---------------------------------------------------------------------------
(* Induction over the size of a finite set.                                *)

LEMMA LeastOf ==
  ASSUME NEW T \in SUBSET Nat, T # {}
  PROVE  \E k \in T : \A y \in T : k <= y
<1> DEFINE R == OpToRel(<, Nat)
<1>1. IsWellFoundedOn(R, Nat)
  BY NatLessThanWellFounded, Zenon DEF OpToRel
<1>2. \A x, y \in Nat : x < y => <<x, y>> \in R
  BY DEF OpToRel
<1> HIDE DEF R
<1>3. PICK k \in T : \A y \in T : ~(<<y, k>> \in R)
  BY <1>1, WFMin
<1>4. ASSUME NEW y \in T PROVE k <= y
  <2>1. ~(y < k)
    BY <1>2, <1>3
  <2> QED
    BY <2>1
<1> QED
  BY <1>4

LEMMA NatSetInduction ==
  ASSUME NEW S, 0 \in S, \A n \in Nat : n \in S => n + 1 \in S
  PROVE  Nat \subseteq S
<1> SUFFICES ASSUME Nat \ S # {} PROVE FALSE
  OBVIOUS
<1>1. PICK k \in Nat \ S : \A y \in Nat \ S : k <= y
  BY LeastOf
<1>2. k # 0 /\ k - 1 \in Nat
  OBVIOUS
<1>3. k - 1 \in S
  BY <1>1, <1>2
<1>4. (k - 1) + 1 \in S
  BY <1>2, <1>3
<1> QED
  BY <1>4

---------------------------------------------------------------------------
(* InFlight, a sum over a finite set.                                      *)

PickOf(s)        == CHOOSE x \in s : TRUE
SumStep(f, h, s) == IF s = {} THEN 0 ELSE f[PickOf(s)] + h[s \ {PickOf(s)}]
Counts(S)        == [S -> Nat]
SumsOf(S)        == [SUBSET S -> Nat]
IsSum(S, f, h)   == h = [s \in SUBSET S |-> SumStep(f, h, s)]

LEMMA OneLess ==
  ASSUME NEW s, IsFiniteSet(s), s # {}
  PROVE  /\ PickOf(s) \in s /\ IsFiniteSet(s \ {PickOf(s)})
         /\ Cardinality(s \ {PickOf(s)}) = Cardinality(s) - 1
         /\ Cardinality(s) \in Nat \ {0}
<1>1. PickOf(s) \in s
  BY DEF PickOf
<1> QED
  BY <1>1, FS_RemoveElement, FS_CardinalityType, FS_EmptySet

\* There is a function that is the sum of every subset.
LEMMA SumsExist ==
  ASSUME NEW S, IsFiniteSet(S), NEW f \in Counts(S)
  PROVE  \E h \in SumsOf(S) : IsSum(S, f, h)
<1> DEFINE UpTo(h, n) == \A s \in SUBSET S : Cardinality(s) <= n => h[s] = SumStep(f, h, s)
           Ok == {n \in Nat : \E h \in SumsOf(S) : UpTo(h, n)}
<1>0. \A s \in SUBSET S : IsFiniteSet(s) /\ Cardinality(s) \in Nat /\ Cardinality(s) <= Cardinality(S)
  BY FS_Subset, FS_CardinalityType
<1>a. \A h \in SumsOf(S), s \in SUBSET S : SumStep(f, h, s) \in Nat
  <2> SUFFICES ASSUME NEW h \in SumsOf(S), NEW s \in SUBSET S, s # {}
               PROVE  f[PickOf(s)] \in Nat /\ h[s \ {PickOf(s)}] \in Nat
    BY DEF SumStep
  <2>1. PickOf(s) \in s
    BY DEF PickOf
  <2> QED
    BY <2>1 DEF Counts, SumsOf
<1>1. 0 \in Ok
  <2> DEFINE h == [s \in SUBSET S |-> 0]
  <2>1. h \in SumsOf(S)
    BY DEF SumsOf
  <2>2. UpTo(h, 0)
    <3> SUFFICES ASSUME NEW s \in SUBSET S, Cardinality(s) <= 0 PROVE h[s] = SumStep(f, h, s)
      OBVIOUS
    <3>1. s = {}
      BY <1>0, FS_EmptySet
    <3> QED
      BY <3>1 DEF SumStep
  <2> HIDE DEF h
  <2> QED
    BY <2>1, <2>2
<1>2. ASSUME NEW n \in Nat, n \in Ok PROVE n + 1 \in Ok
  <2>1. PICK h \in SumsOf(S) : UpTo(h, n)
    BY <1>2
  <2> DEFINE g == [s \in SUBSET S |-> IF Cardinality(s) = n + 1 THEN SumStep(f, h, s) ELSE h[s]]
  <2>2. g \in SumsOf(S)
    BY <1>a DEF SumsOf
  <2>3. ASSUME NEW s \in SUBSET S, Cardinality(s) <= n + 1 PROVE g[s] = SumStep(f, g, s)
    <3>1. g[s] = SumStep(f, h, s)
      <4>1. CASE Cardinality(s) = n + 1
        BY <4>1
      <4>2. CASE Cardinality(s) # n + 1
        <5>1. Cardinality(s) <= n /\ g[s] = h[s]
          BY <4>2, <2>3, <1>0
        <5> QED
          BY <5>1, <2>1
      <4> QED
        BY <4>1, <4>2
    <3>2. s # {} => g[s \ {PickOf(s)}] = h[s \ {PickOf(s)}]
      <4> SUFFICES ASSUME s # {} PROVE g[s \ {PickOf(s)}] = h[s \ {PickOf(s)}]
        OBVIOUS
      <4>1. s \ {PickOf(s)} \in SUBSET S /\ Cardinality(s \ {PickOf(s)}) # n + 1
        BY <2>3, <1>0, OneLess
      <4> QED
        BY <4>1
    <3> HIDE DEF g
    <3> QED
      BY <3>1, <3>2 DEF SumStep
  <2> HIDE DEF g
  <2>4. UpTo(g, n + 1)
    BY <2>3
  <2> QED
    BY <2>2, <2>4
<1>3. Nat \subseteq Ok
  <2> HIDE DEF Ok
  <2> QED
    BY <1>1, <1>2, NatSetInduction
<1>4. PICK h \in SumsOf(S) : UpTo(h, Cardinality(S))
  BY <1>0, <1>3
<1>5. \A s \in SUBSET S : h[s] = SumStep(f, h, s)
  BY <1>0, <1>4
<1>6. IsSum(S, f, h)
  BY <1>5 DEF SumsOf, IsSum
<1> QED
  BY <1>6

\* What InFlight unfolds to.
Summed(S, f) == CHOOSE h : IsSum(S, f, h)

LEMMA SumIs ==
  ASSUME NEW S, IsFiniteSet(S), NEW f \in Counts(S)
  PROVE  /\ InFlight(f) = Summed(S, f)[S]
         /\ \A s \in SUBSET S : Summed(S, f)[s] = SumStep(f, Summed(S, f), s)
<1>1. InFlight(f) = Summed(S, f)[S]
  BY DEF InFlight, MapThenSumSet, MapThenFoldSet, SumStep, PickOf, Summed, IsSum, Counts
<1>2. \E h : IsSum(S, f, h)
  BY SumsExist
<1>3. IsSum(S, f, Summed(S, f))
  BY <1>2 DEF Summed
<1>4. PICK g : g = Summed(S, f)
  OBVIOUS
<1>5. g = [s \in SUBSET S |-> SumStep(f, g, s)]
  BY <1>3, <1>4 DEF IsSum
<1>6. \A s \in SUBSET S : g[s] = SumStep(f, g, s)
  <2> SUFFICES ASSUME NEW s \in SUBSET S PROVE g[s] = SumStep(f, g, s)
    OBVIOUS
  <2> DEFINE k == [t \in SUBSET S |-> SumStep(f, g, t)]
  <2>1. k[s] = SumStep(f, g, s)
    OBVIOUS
  <2>2. g = k
    BY <1>5
  <2> HIDE DEF k
  <2> QED
    BY <2>1, <2>2
<1> QED
  BY <1>1, <1>4, <1>6

\* One more of x is one more in all.
LEMMA SumsDiffer ==
  ASSUME NEW S, IsFiniteSet(S), NEW f \in Counts(S), NEW g \in Counts(S), NEW x \in S,
         g[x] = f[x] + 1, \A y \in S \ {x} : g[y] = f[y]
  PROVE  InFlight(f) \in Nat /\ InFlight(g) = InFlight(f) + 1
<1> DEFINE F == Summed(S, f)
           G == Summed(S, g)
           Right(s) == F[s] \in Nat /\ G[s] = F[s] + IF x \in s THEN 1 ELSE 0
           Ok == {n \in Nat : \A s \in SUBSET S : Cardinality(s) = n => Right(s)}
<1>0. \A s \in SUBSET S : IsFiniteSet(s) /\ Cardinality(s) \in Nat
  BY FS_Subset, FS_CardinalityType
<1>1. \A s \in SUBSET S : F[s] = SumStep(f, F, s) /\ G[s] = SumStep(g, G, s)
  BY SumIs
<1>2. InFlight(f) = F[S] /\ InFlight(g) = G[S]
  BY SumIs
<1> HIDE DEF F, G
<1>3. 0 \in Ok
  <2> SUFFICES ASSUME NEW s \in SUBSET S, Cardinality(s) = 0 PROVE Right(s)
    OBVIOUS
  <2>1. s = {}
    BY <1>0, FS_EmptySet
  <2>2. F[s] = SumStep(f, F, s) /\ G[s] = SumStep(g, G, s)
    BY <1>1
  <2>3. SumStep(f, F, s) = 0 /\ SumStep(g, G, s) = 0
    BY <2>1 DEF SumStep
  <2> QED
    BY <2>1, <2>2, <2>3
<1>4. ASSUME NEW n \in Nat, n \in Ok PROVE n + 1 \in Ok
  <2> SUFFICES ASSUME NEW s \in SUBSET S, Cardinality(s) = n + 1 PROVE Right(s)
    OBVIOUS
  <2> DEFINE c == PickOf(s)
             r == s \ {c}
  <2>1. s # {}
    BY FS_EmptySet
  <2>2. c \in s /\ r \in SUBSET S /\ Cardinality(r) = n
    BY <2>1, <1>0, OneLess
  <2>3. Right(r)
    BY <2>2, <1>4
  <2>4. F[s] = f[c] + F[r] /\ G[s] = g[c] + G[r]
    BY <2>1, <1>1 DEF SumStep
  <2>5. f[c] \in Nat /\ g[c] = f[c] + IF c = x THEN 1 ELSE 0
    BY <2>2 DEF Counts
  <2>6. x \in s <=> x \in r \/ c = x
    BY <2>2
  <2>7. ~(x \in r /\ c = x)
    OBVIOUS
  <2> HIDE DEF c, r
  <2> QED
    BY <2>3, <2>4, <2>5, <2>6, <2>7
<1>5. Nat \subseteq Ok
  <2> HIDE DEF Ok
  <2> QED
    BY <1>3, <1>4, NatSetInduction
<1>6. Right(S)
  BY <1>0, <1>5
<1> QED
  BY <1>2, <1>6

LEMMA SumOfNone ==
  ASSUME NEW S, IsFiniteSet(S), NEW f \in Counts(S), \A y \in S : f[y] = 0
  PROVE  InFlight(f) = 0
<1> DEFINE F == Summed(S, f)
           Ok == {n \in Nat : \A s \in SUBSET S : Cardinality(s) = n => F[s] = 0}
<1>0. \A s \in SUBSET S : IsFiniteSet(s) /\ Cardinality(s) \in Nat
  BY FS_Subset, FS_CardinalityType
<1>1. InFlight(f) = F[S] /\ \A s \in SUBSET S : F[s] = SumStep(f, F, s)
  BY SumIs
<1> HIDE DEF F
<1>2. 0 \in Ok
  BY <1>0, <1>1, FS_EmptySet DEF SumStep
<1>3. ASSUME NEW n \in Nat, n \in Ok PROVE n + 1 \in Ok
  <2> SUFFICES ASSUME NEW s \in SUBSET S, Cardinality(s) = n + 1 PROVE F[s] = 0
    OBVIOUS
  <2>1. s # {}
    BY FS_EmptySet
  <2>2. PickOf(s) \in S /\ s \ {PickOf(s)} \in SUBSET S /\ Cardinality(s \ {PickOf(s)}) = n
    BY <2>1, <1>0, OneLess
  <2>3. f[PickOf(s)] = 0 /\ F[s \ {PickOf(s)}] = 0
    BY <2>2, <1>3
  <2>4. F[s] = SumStep(f, F, s)
    BY <1>1
  <2> QED
    BY <2>1, <2>3, <2>4 DEF SumStep
<1>4. Nat \subseteq Ok
  <2> HIDE DEF Ok
  <2> QED
    BY <1>2, <1>3, NatSetInduction
<1> QED
  BY <1>0, <1>1, <1>4

LEMMA FlightPlus ==
  ASSUME NEW S, IsFiniteSet(S), NEW f \in Counts(S), NEW x \in S
  PROVE  InFlight(f) \in Nat /\ InFlight(Plus(f, x)) = InFlight(f) + 1
<1> DEFINE g == Plus(f, x)
<1>1. g \in Counts(S) /\ g[x] = f[x] + 1 /\ \A y \in S \ {x} : g[y] = f[y]
  BY DEF Plus, Counts
<1> HIDE DEF g
<1>2. InFlight(f) \in Nat /\ InFlight(g) = InFlight(f) + 1
  BY <1>1, SumsDiffer
<1> QED
  BY <1>2 DEF g

LEMMA FlightMinus ==
  ASSUME NEW S, IsFiniteSet(S), NEW f \in Counts(S), NEW x \in S, f[x] > 0
  PROVE  InFlight(f) \in Nat /\ InFlight(Minus(f, x)) = InFlight(f) - 1
<1> DEFINE g == Minus(f, x)
<1>1. g \in Counts(S) /\ f[x] = g[x] + 1 /\ \A y \in S \ {x} : f[y] = g[y]
  BY DEF Minus, Counts
<1> HIDE DEF g
<1>2. InFlight(g) \in Nat /\ InFlight(f) = InFlight(g) + 1
  BY <1>1, SumsDiffer
<1>3. InFlight(g) = InFlight(f) - 1
  BY <1>2
<1> QED
  BY <1>2, <1>3 DEF g

---------------------------------------------------------------------------
(* The log fetches in flight.                                              *)

LEMMA TargetsFinite == IsFiniteSet(Targets) /\ NoPod \in Targets
<1>1. IsFiniteSet(Targets)
  BY PodsAssumption, FS_AddElement DEF Targets
<1> QED
  BY <1>1 DEF Targets

\* How each step changes their number, the flag and the starts.
LEMMA StackInit == Init => LogsDoNotStack
<1> SUFFICES ASSUME Init PROVE LogsDoNotStack
  OBVIOUS
<1> DEFINE zero == [p \in Targets |-> 0]
<1>1. zero \in Counts(Targets) /\ \A p \in Targets : zero[p] = 0
  BY DEF Counts
<1>2. /\ logs = [p \in Targets |-> IF p = pod /\ p # NoPod THEN starts ELSE 0]
      /\ pod \in Targets /\ starts \in {0, 1} /\ logBusy = FALSE
  BY DEF Init
<1>3. logs = zero \/ (logs = Plus(zero, pod) /\ starts = 1)
  <2>1. CASE starts = 0 \/ pod = NoPod
    BY <2>1, <1>2
  <2>2. CASE starts = 1 /\ pod # NoPod
    <3>1. logs = Plus(zero, pod)
      BY <2>2, <1>2 DEF Plus
    <3> QED
      BY <2>2, <3>1
  <2> QED
    BY <2>1, <2>2, <1>2
<1> HIDE DEF zero
<1>4. InFlight(zero) = 0 /\ InFlight(Plus(zero, pod)) = 1
  BY <1>1, <1>2, TargetsFinite, SumOfNone, FlightPlus
<1> QED
  BY <1>2, <1>3, <1>4 DEF LogsDoNotStack

LEMMA StackStep == ASSUME IInv, LogsDoNotStack, [Next]_vars PROVE LogsDoNotStack'
<1>1. /\ logs \in Counts(Targets) /\ logBusy \in BOOLEAN /\ starts \in Nat
      /\ pod \in Targets /\ Pods \subseteq Targets
  BY KeysAssumption DEF IInv, TypeOK, Counts, Targets
<1>2. ASSUME NEW p \in Targets
      PROVE  /\ InFlight(logs) \in Nat /\ InFlight(Plus(logs, p)) = InFlight(logs) + 1
             /\ logs[p] > 0 => InFlight(Minus(logs, p)) = InFlight(logs) - 1
  BY <1>1, TargetsFinite, FlightPlus, FlightMinus
\* No fetch, or one without the flag having been up, or one of a start.
<1>3. CASE UNCHANGED <<logs, logBusy, starts>>
  BY <1>3 DEF LogsDoNotStack
<1>4. ASSUME NEW p \in Targets, LogsFetchUnlessBusy(p), starts' = starts PROVE LogsDoNotStack'
  BY <1>1, <1>2, <1>4 DEF LogsFetchUnlessBusy, LogsFetch, NoLogsFetch, LogsDoNotStack
<1>5. CASE Back
  <2>1. CASE UNCHANGED <<logs, logBusy, starts>>
    BY <2>1, <1>3
  <2>2. CASE logs' = logs /\ starts' = starts + 1 /\ logBusy' = logBusy
    BY <2>2, <1>1, <1>2 DEF LogsDoNotStack
  <2>3. CASE logs' = Plus(logs, pod) /\ starts' = starts + 1 /\ logBusy' = logBusy
    BY <2>3, <1>1, <1>2 DEF LogsDoNotStack
  <2> QED
    BY <1>5, <2>1, <2>2, <2>3 DEF Back, Started
<1>6. CASE LogTick
  BY <1>1, <1>3, <1>4, <1>6 DEF LogTick, NoLogsFetch, spent
<1>7. ASSUME NEW p \in Targets, LogReply(p) PROVE LogsDoNotStack'
  BY <1>1, <1>2, <1>7 DEF LogReply, LogsDoNotStack, spent
<1>8. ASSUME NEW p \in Targets, RefreshNow(p) PROVE LogsDoNotStack'
  BY <1>3, <1>4, <1>8 DEF RefreshNow, NoLogsFetch
<1>9. ASSUME NEW p \in Pods, SwitchPod(p) PROVE LogsDoNotStack'
  BY <1>1, <1>4, <1>9 DEF SwitchPod
<1>10. CASE ExecDone
  BY <1>1, <1>3, <1>4, <1>10 DEF ExecDone, NoLogsFetch
<1>11. CASE \/ WindowSize \/ Tick \/ CommandDone \/ DismissOutput
            \/ \E x \in Targets \X BOOLEAN : PanelReply(x)
            \/ UNCHANGED vars
  BY <1>3, <1>11 DEF WindowSize, Tick, CommandDone, DismissOutput, PanelReply, vars, spent
<1>12. CASE \E p \in Targets : \/ CycleBackground(p) \/ RunCommand(p) \/ EditTarget(p)
                              \/ \E s \in Screens : LeaveMenu(s, p)
  BY <1>3, <1>12 DEF CycleBackground, RunCommand, EditTarget, LeaveMenu
<1> QED
  BY <1>5, <1>6, <1>7, <1>8, <1>9, <1>10, <1>11, <1>12 DEF Next

\* However slow the cluster and however many pods are clicked through: besides
\* those of the starts of the dashboard one log fetch is in flight at most
\* (main.go:109-111, 337-342).
THEOREM FetchesDoNotStack == Spec => []LogsDoNotStack
<1>1. IInv /\ LogsDoNotStack /\ [Next]_vars => LogsDoNotStack'
  BY StackStep
<1> QED
  BY Invariance, StackInit, <1>1, PTL DEF Spec
=============================================================================
