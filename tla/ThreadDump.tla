---------------------------- MODULE ThreadDump ----------------------------
(***************************************************************************)
(* core/threaddump.go: what `jdebug analyze` and the check after a capture *)
(* read from a thread dump.  The dump is text (jstack, jcmd or the         *)
(* actuator) or the actuator's JSON; deadlocks are cycles of the waits-for *)
(* graph, searched from starts in the order in which Go ranges over a map, *)
(* that is, in any order.                                                  *)
(*                                                                         *)
(* The JVM is external: its threads own and wait for locks, and it prints  *)
(* them.  jstack and jcmd add a section about the deadlocks they found;    *)
(* the actuator does not.                                                  *)
(***************************************************************************)
EXTENDS Naturals, SequencesExt, FiniteSets

CONSTANTS
  N,         \* the JVM has N threads, printed in the order 1..N
  Monitors,  \* locks of synchronized blocks
  JucLocks,  \* locks of java.util.concurrent
  Namings,   \* the names the threads may have: a set of functions from 1..N
  Forms      \* the formats of the dump, of AllForms

AllForms == {"actuator", "jstack", "json", "plain"}
None     == "none"
Threads  == 1 .. N
Locks    == Monitors \cup JucLocks

ASSUME ThreadsAssumption == N \in Nat \ {0}
ASSUME LocksAssumption ==
  /\ IsFiniteSet(Locks) /\ Monitors \cap JucLocks = {}
  /\ {None, "condition"} \cap Locks = {}
ASSUME FormsAssumption == Forms \subseteq AllForms

---------------------------------------------------------------------------
(* The JVM and its dump.                                                   *)

\* A thread runs the one hot frame or an idle selector, carries virtual threads,
\* rests in a pool on an object nobody owns, or waits for a lock.
Doings == [does : {"hot", "idle", "virtual", "rest"}]
          \cup [does : {"enter"}, lock : Monitors]
          \cup [does : {"park", "parkTimed"}, lock : JucLocks]

Waits(d)  == d.does \in {"enter", "park", "parkTimed"}
StateOf(d) == CASE d.does = "enter" -> "BLOCKED"
                [] d.does \in {"park", "rest"} -> "WAITING"
                [] d.does = "parkTimed" -> "TIMED_WAITING"
                [] OTHER -> "RUNNABLE"

JVMs == {j \in [doing : [Threads -> Doings], owner : [Locks -> Threads \cup {0}],
                name : Namings] :
           \A t \in Threads : Waits(j.doing[t]) => j.owner[j.doing[t].lock] # t}

VARIABLES
  jvm,     \* the JVM at the moment of the dump
  form,    \* the format of the dump
  pc,      \* "parse", "walk", "shown"
  dump,    \* ThreadDump: the threads as parsed, and JstackBanner
  next,    \* the waits-for edges, by index in dump.threads
  left,    \* the starts that the range over next has not yielded
  path, cur, seen, \* the walk: indexes, the next one (0: none), those done with
  cycles,  \* DeadlockCycles: sequences of names
  out      \* the flags Render raised, or "calm"

vars == <<jvm, form, pc, dump, next, left, path, cur, seen, cycles, out>>

Owned(t, S) == {l \in S : jvm.owner[l] = t}

Line(k, v) == [is |-> k, of |-> v]
Listed(k, S) == [i \in 1 .. Cardinality(S) |-> Line(k, SetToSeq(S)[i])]

WaitLine(d) ==
  CASE d.does = "enter" -> <<Line("waiting", d.lock)>>
    [] d.does \in {"park", "parkTimed"} -> <<Line("parking", d.lock)>>
    [] d.does = "rest" -> <<Line("parking", "condition")>>
    [] OTHER -> <<Line("frame", d.does)>>

Stack(t) == <<Line("head", jvm.name[t])>> \o WaitLine(jvm.doing[t])
            \o Listed("locked", Owned(t, Monitors))

Block(t) == Stack(t) \o <<Line("state", StateOf(jvm.doing[t])), Line("synchronizers", None)>>
            \o Listed("held", Owned(t, JucLocks))

\* What is really so: t waits for u; the threads of a deadlock.
WaitsOn(t, u) == Waits(jvm.doing[t]) /\ jvm.owner[jvm.doing[t].lock] = u
Image(S)      == {u \in Threads : \E t \in S : WaitsOn(t, u)}
Deadlocks     == LET Closed == {S \in (SUBSET Threads) \ {{}} : Image(S) = S}
                 IN  {S \in Closed : \A D \in Closed : D \subseteq S => D = S}

\* The section of jstack: a list of names, and the stacks again.
Report(S) ==
  LET ts == SetToSeq(S)
  IN  <<Line("banner", None)>> \o [i \in DOMAIN ts |-> Line("head", jvm.name[ts[i]])]
      \o FlattenSeq([i \in DOMAIN ts |-> Stack(ts[i])])

Text == FlattenSeq([t \in Threads |-> Block(t)])
        \o IF form = "jstack" THEN FlattenSeq(SetToSeq({Report(S) : S \in Deadlocks})) ELSE <<>>

---------------------------------------------------------------------------
(* Parsing.                                                                *)

NoThread(n) == [name |-> n, state |-> None, waitsFor |-> None, holds |-> {},
                lockOwner |-> None, frame |-> None]

\* parseTextDump, one line: heads start a thread, and what follows is of the
\* last one; nothing is of a thread between the banner and the next head.
ReadLine(s, line) ==
  LET n == Len(s.threads)
      Put(T) == [s EXCEPT !.threads[n] = T]
      T == s.threads[n]
  IN  IF line.is = "banner" THEN [s EXCEPT !.banner = TRUE, !.open = FALSE]
      ELSE IF line.is = "head"
      THEN [s EXCEPT !.threads = Append(@, NoThread(line.of)), !.open = TRUE, !.inSyncList = FALSE]
      ELSE IF ~s.open THEN s
      ELSE CASE line.is = "synchronizers" -> [s EXCEPT !.inSyncList = TRUE]
             [] line.is = "state" -> Put([T EXCEPT !.state = line.of])
             [] line.is = "waiting" -> Put([T EXCEPT !.waitsFor = line.of])
             [] line.is = "parking" ->
                  Put([T EXCEPT !.waitsFor = IF @ = None THEN line.of ELSE @])
             [] line.is = "locked" -> Put([T EXCEPT !.holds = @ \cup {line.of}])
             [] line.is = "held" -> IF s.inSyncList THEN Put([T EXCEPT !.holds = @ \cup {line.of}]) ELSE s
             [] line.is = "frame" -> Put([T EXCEPT !.frame = line.of])

ParseText ==
  LET none == [threads |-> <<>>, banner |-> FALSE, open |-> FALSE, inSyncList |-> FALSE]
      d == FoldLeft(ReadLine, none, Text)
  IN  [threads |-> d.threads, banner |-> d.banner]

\* parseJSONDump: the owner of the lock comes with its name.  A lock waited for
\* is printed with its hash in hexadecimal, one held with the same in decimal,
\* and only the monitors held are listed: the two never meet.
ParseJSON ==
  LET T(t) == LET d == jvm.doing[t]
                  owned == Waits(d) /\ jvm.owner[d.lock] # 0
              IN  [NoThread(jvm.name[t]) EXCEPT
                     !.state = StateOf(d),
                     !.lockOwner = IF owned THEN jvm.name[jvm.owner[d.lock]] ELSE None,
                     !.waitsFor = IF Waits(d) /\ StateOf(d) \in {"BLOCKED", "WAITING"}
                                  THEN <<"hex", d.lock>> ELSE None,
                     !.holds = {<<"dec", l>> : l \in Owned(t, Monitors)},
                     !.frame = IF StateOf(d) = "RUNNABLE" THEN d.does ELSE None]
  IN  [threads |-> [t \in Threads |-> T(t)], banner |-> FALSE]

Parsed == CASE form = "json" -> ParseJSON
            [] form = "plain" -> [threads |-> <<>>, banner |-> FALSE]
            [] OTHER -> ParseText

---------------------------------------------------------------------------
(* deadlockCycles.                                                         *)

\* holder and byName: the last thread that was put under the key, 0 for none.
LastOf(S)       == IF S = {} THEN 0 ELSE CHOOSE i \in S : \A j \in S : j <= i
Holder(ts, l)   == LastOf({i \in DOMAIN ts : l \in ts[i].holds})
Named(ts, n)    == LastOf({i \in DOMAIN ts : ts[i].name = n})

Target(ts, i) ==
  LET byOwner == IF ts[i].lockOwner = None THEN 0 ELSE Named(ts, ts[i].lockOwner)
      byLock  == IF ts[i].waitsFor = None THEN 0 ELSE Holder(ts, ts[i].waitsFor)
  IN  IF byOwner \notin {0, i} THEN byOwner ELSE IF byLock # i THEN byLock ELSE 0

\* Mutant: only BLOCKED threads wait for a lock.
EdgesOfBlocked(ts) == [i \in {k \in DOMAIN ts : Target(ts, k) # 0 /\ ts[k].state = "BLOCKED"}
                         |-> Target(ts, i)]

Edges(ts) == [i \in {k \in DOMAIN ts : Target(ts, k) # 0} |-> Target(ts, i)]

Init ==
  /\ jvm \in JVMs /\ form \in Forms
  /\ form \in {"jstack", "plain"} => Deadlocks # {} \* else as "actuator", or refused
  /\ pc = "parse" /\ dump = [threads |-> <<>>, banner |-> FALSE]
  /\ next = <<>> /\ left = {} /\ path = <<>> /\ cur = 0 /\ seen = {}
  /\ cycles = <<>> /\ out = {}

Parse ==
  /\ pc = "parse"
  /\ LET d == Parsed
         e == Edges(d.threads)
     IN  dump' = d /\ next' = e /\ left' = DOMAIN e
  /\ pc' = "walk"
  /\ UNCHANGED <<jvm, form, path, cur, seen, cycles, out>>

Start ==
  /\ pc = "walk" /\ cur = 0
  /\ \E s \in left :
       /\ left' = left \ {s}
       /\ cur' = IF s \in seen THEN 0 ELSE s
  /\ path' = <<>>
  /\ UNCHANGED <<jvm, form, pc, dump, next, seen, cycles, out>>

OnPath == cur \in ToSet(path)
NameAt(i) == dump.threads[i].name

\* Mutant: the walk does not remember what was walked before.
VisitForgets ==
  /\ pc = "walk" /\ cur # 0
  /\ IF OnPath THEN cycles' = Append(cycles, [i \in DOMAIN path |-> NameAt(path[i])])
               ELSE UNCHANGED cycles
  /\ path' = IF OnPath THEN path ELSE Append(path, cur)
  /\ cur' = IF ~OnPath /\ cur \in DOMAIN next THEN next[cur] ELSE 0
  /\ UNCHANGED <<jvm, form, pc, dump, next, left, seen, out>>

\* Mutant: the walk does not look for its own path.
VisitForever ==
  /\ pc = "walk" /\ cur # 0
  /\ path' = IF OnPath THEN path ELSE Append(path, cur)
  /\ cur' = IF cur \in DOMAIN next \ seen THEN next[cur] ELSE 0
  /\ seen' = IF cur' = 0 THEN seen \cup ToSet(path) ELSE seen
  /\ UNCHANGED <<jvm, form, pc, dump, next, left, cycles, out>>

\* The walk is back on its own path, or in what was walked before, or goes on.
Visit ==
  /\ pc = "walk" /\ cur # 0
  /\ IF OnPath
     THEN LET cyc == SubSeq(path, CHOOSE p \in DOMAIN path : path[p] = cur, Len(path))
          IN  /\ cycles' = Append(cycles, [i \in DOMAIN cyc |-> NameAt(cyc[i])])
              /\ UNCHANGED path
     ELSE /\ path' = IF cur \in seen THEN path ELSE Append(path, cur)
          /\ UNCHANGED cycles
  /\ LET more == ~OnPath /\ cur \notin seen /\ cur \in DOMAIN next
     IN  /\ cur' = IF more THEN next[cur] ELSE 0
         /\ seen' = IF more THEN seen ELSE seen \cup ToSet(path) \cup {cur}
  /\ UNCHANGED <<jvm, form, pc, dump, next, left, out>>

---------------------------------------------------------------------------
(* Analyze and Render.                                                     *)

\* The threads that Analyze counts: by state, by hot frame, by a sign of
\* virtual threads.
Blocked == {i \in DOMAIN dump.threads : dump.threads[i].state = "BLOCKED"}
Hot     == {i \in DOMAIN dump.threads : /\ dump.threads[i].state = "RUNNABLE"
                                       /\ dump.threads[i].frame = "hot"}
Virtual == {i \in DOMAIN dump.threads : dump.threads[i].frame = "virtual"}

Raised ==
  {f \in {"deadlock", "blocked", "hot", "virtual"} :
     \/ f = "deadlock" /\ (cycles # <<>> \/ dump.banner)
     \/ f = "blocked" /\ Blocked # {}
     \/ f = "hot" /\ Cardinality(Hot) >= 3
     \/ f = "virtual" /\ Virtual # {}}

\* A file without a thread is refused, not blessed.
Flags == IF dump.threads = <<>> THEN {"refused"} ELSE Raised

Render ==
  /\ pc = "walk" /\ cur = 0 /\ left = {}
  /\ out' = IF Flags = {} THEN {"calm"} ELSE Flags
  /\ pc' = "shown"
  /\ UNCHANGED <<jvm, form, dump, next, left, path, cur, seen, cycles>>

Next == Parse \/ Start \/ Visit \/ Render

Spec == Init /\ [][Next]_vars /\ WF_vars(Start \/ Visit)

---------------------------------------------------------------------------
(* Properties.                                                             *)

\* The threads a reported cycle names.
Who(c) == {t \in Threads : jvm.name[t] \in ToSet(c)}

\* deadlockCycles: wherever the range over the map starts, and however often
\* the section of jstack repeats a thread, a cycle it reports is a deadlock of
\* the JVM with each thread waiting for the next, and none is reported twice.
CyclesAreReal ==
  /\ \A k \in DOMAIN cycles :
       /\ Who(cycles[k]) \in Deadlocks
       /\ Cardinality(Who(cycles[k])) = Len(cycles[k])
       /\ \A i \in DOMAIN cycles[k] : \E t, u \in Threads :
            /\ jvm.name[t] = cycles[k][i] /\ WaitsOn(t, u)
            /\ jvm.name[u] = cycles[k][(i % Len(cycles[k])) + 1]
  /\ \A k, m \in DOMAIN cycles : k # m => Who(cycles[k]) # Who(cycles[m])

\* Analyze: when the verdict is shown, each deadlock of the JVM is among the
\* cycles, monitors and java.util.concurrent locks mixed, banner or none.
EveryDeadlockFound ==
  pc = "shown" /\ form # "plain" =>
    Deadlocks \subseteq {Who(cycles[k]) : k \in DOMAIN cycles}

\* Render: "nothing alarming" is said only of a dump that was read, of a JVM
\* with no deadlock, no blocked thread and no threads the dump cannot show.
AllClearIsEarned ==
  out = {"calm"} =>
    /\ form # "plain" /\ Deadlocks = {}
    /\ \A t \in Threads : jvm.doing[t].does \notin {"enter", "virtual"}

\* The header of threaddump.go: "a deadlock certified healthy is worse than no
\* tool".  A deadlocked JVM is never shown without the deadlock flag.
NeverCertifiedHealthy ==
  pc = "shown" /\ form # "plain" /\ Deadlocks # {} => "deadlock" \in out

\* The walk over the waits-for graph ends, whatever cycles the graph has.
WalkEnds == (pc = "walk") ~> (cur = 0 /\ left = {})
=============================================================================
