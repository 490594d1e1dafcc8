----------------------------- MODULE ServiceProofs -----------------------------
(***************************************************************************)
(* The order of the start holds for every set of clients, every script and *)
(* every number of slots: commands from the port wait for the start        *)
(* script, and no thread touches a slot before it was allocated.  A line   *)
(* of any length stays inside its buffer, and connections are served once  *)
(* and in turn.                                                            *)
(*                                                                         *)
(* ScriptFirst says nothing before the first command.  The invariant adds  *)
(* that a listener past its join has found the script ended, or no id to   *)
(* join (Joined), that the script thread is not made twice, which is       *)
(* counted by begun (Started), and that the slots are there before any     *)
(* thread is.                                                              *)
(***************************************************************************)
EXTENDS Service, SequenceTheorems, TLAPS

Others == Threads \ {"main"}

Started ==
  /\ DOMAIN pc = Threads
  /\ begun \in Nat /\ freed \in Nat
  /\ begun > 0 => live
  /\ begun <= 2 => pc["script"] = "none"
  /\ \A t \in Others : pc[t] # "none" => begun > 0
  /\ pc["main"] # "start" => begun > 0
  /\ pc["main"] = "start" => begun < 5

\* What the join of the listener found: the script at its end, or no id.
Free == pc["script"] = "done" \/ unset

Joined == pc["listener"] \in {"none", "socket", "join", "dead"} \/ Free

Releasing == freed > 0 => pc["main"] = "clean"

SInv == Started /\ Joined /\ Releasing /\ ScriptFirst /\ SlotsReady

-------------------------------------------------------------------------------
\* A thread that runs finds the slots allocated, and released only by a main that ends.
LEMMA UseOk ==
  ASSUME SInv, begun > 0, proc = "up", UseSlots
  PROVE  proc' = "crash_slots" => live /\ pc["main"] = "clean"
BY DEF SInv, Started, Releasing, UseSlots

\* A step in which no thread moves.
LEMMA Stay ==
  ASSUME SInv, UNCHANGED <<pc, begun, live, freed>>,
         unset => unset', remote' # <<>> => Free,
         proc' = "crash_slots" => live /\ pc["main"] = "clean"
  PROVE  SInv'
BY DEF SInv, Started, Joined, Free, Releasing, ScriptFirst, SlotsReady

\* A step in which a thread that was started moves on.
LEMMA Move ==
  ASSUME SInv, NEW t \in Others, NEW l, Goto(t, l),
         UNCHANGED <<begun, live, freed>>,
         pc[t] # "none", l # "none",
         t = "script" => l = "done" \/ pc[t] # "done",
         unset => unset',
         t = "listener" => l \in {"join", "dead"} \/ pc["script"] = "done" \/ unset',
         remote' # <<>> => Free,
         proc' = "crash_slots" => live /\ pc["main"] = "clean"
  PROVE  SInv'
<1>1. /\ DOMAIN pc' = Threads /\ pc'[t] = l
      /\ \A u \in Threads \ {t} : pc'[u] = pc[u]
  BY DEF SInv, Started, Goto, Others
<1>2. pc'["main"] = pc["main"] /\ (pc["script"] = "done" => pc'["script"] = "done")
  BY <1>1 DEF Others, Threads, Runners
<1>3. begun > 0
  BY DEF SInv, Started
<1>4. Started'
  <2>1. begun <= 2 => pc'["script"] = "none"
    BY <1>1 DEF SInv, Started, Threads, Runners
  <2> QED
    BY <1>1, <1>2, <1>3, <2>1 DEF SInv, Started
<1>5. Joined'
  BY <1>1, <1>2 DEF SInv, Joined, Free, Others, Threads, Runners
<1> QED
  BY <1>2, <1>4, <1>5 DEF SInv, Free, Releasing, ScriptFirst, SlotsReady

LEMMA SInit == Init => SInv
BY DEF Init, SInv, Started, Joined, Free, Releasing, ScriptFirst, SlotsReady, Others,
       Threads, Runners

-------------------------------------------------------------------------------
\* The steps of main.
LEMMA MainStep == SInv /\ (Main \/ WaitFails \/ \E e \in WindowEvents : EventFilter(e)) => SInv'
<1> SUFFICES ASSUME SInv, Main \/ WaitFails \/ \E e \in WindowEvents : EventFilter(e)
             PROVE  SInv'
  OBVIOUS
<1> USE DEF slotVars, portVars
<1>1. CASE initGFX
  <2>1. CASE Exit
    BY <1>1, <2>1 DEF initGFX, Exit, Starting, At, Begun, SInv, Started, Joined, Free, Releasing,
                      ScriptFirst, SlotsReady, Others, Threads, Runners
  <2>2. CASE Begun("main", "start") /\ UNCHANGED proc
    <3>1. /\ live' = TRUE /\ UNCHANGED <<proc, freed, remote, unset>> /\ begun' = begun + 1
          /\ proc = "up" /\ pc["main"] = "start"
          /\ StartOrder[begun + 1] = "gfx"
      BY <1>1, <2>2 DEF initGFX, Begun, Starting, At, Exit
    <3>2. begun = 0
      BY <3>1 DEF StartOrder, SInv, Started
    <3>3. /\ DOMAIN pc' = Threads /\ \A t \in Others : pc'[t] = pc[t]
          /\ pc'["main"] = "start"
      BY <2>2, <3>1, <3>2 DEF Begun, StartOrder, SInv, Started, Others, Threads, Runners
    <3> QED
      BY <3>1, <3>2, <3>3 DEF SInv, Started, Joined, Free, Releasing, ScriptFirst, SlotsReady,
                              Others, Threads, Runners
  <2> QED
    BY <1>1, <2>1, <2>2 DEF initGFX
<1>2. CASE initThreadsAndHandlers
  <2>1. PICK t \in Others :
          /\ Starting(t)
          /\ \/ Begun(t, FirstStep[t]) /\ UNCHANGED proc
             \/ Exit /\ UNCHANGED <<pc, begun>>
    BY <1>2 DEF initThreadsAndHandlers, Others
  <2>2. UNCHANGED <<live, freed, remote, unset>>
    BY <1>2 DEF initThreadsAndHandlers
  <2>3. CASE Exit /\ UNCHANGED <<pc, begun>>
    BY <2>2, <2>3, Stay DEF Exit, SInv, Free, ScriptFirst
  <2>4. CASE Begun(t, FirstStep[t]) /\ UNCHANGED proc
    <3>1. /\ begun' = begun + 1 /\ proc = "up" /\ pc["main"] = "start"
          /\ StartOrder[begun + 1] = t /\ proc' = "up"
      BY <2>1, <2>4 DEF Begun, Starting, At
    <3>2. begun \in 1..4 /\ (t = "script" => begun = 2) /\ (t = "listener" => begun = 1)
      BY <3>1 DEF StartOrder, SInv, Started, Others, Threads, Runners
    <3>3. /\ DOMAIN pc' = Threads /\ \A u \in Others \ {t} : pc'[u] = pc[u]
          /\ pc'[t] = FirstStep[t]
          /\ pc'["main"] = "start" => begun' < 5
      BY <2>4, <3>1, <3>2 DEF Begun, StartOrder, SInv, Started, Others, Threads, Runners
    <3>4. pc["script"] = "done" => t # "script"
      BY <3>2 DEF SInv, Started
    <3>5. t = "listener" => pc'["listener"] = "socket"
      BY <3>3 DEF FirstStep
    <3>6. freed = 0
      BY <3>1 DEF SInv, Started, Releasing
    <3>7. Started'
      <4>1. begun' <= 2 => pc'["script"] = "none"
        BY <3>1, <3>2, <3>3 DEF SInv, Started, Others, Threads, Runners
      <4>2. begun' \in Nat /\ begun' > 0 /\ live /\ freed' \in Nat
        BY <2>2, <3>1, <3>2 DEF SInv, Started
      <4> QED
        BY <2>2, <3>3, <4>1, <4>2 DEF Started
    <3>8. pc["script"] = "done" => pc'["script"] = "done"
      BY <3>3, <3>4 DEF Others, Threads, Runners
    <3>9. Joined'
      <4>1. CASE t = "listener"
        BY <3>5, <4>1 DEF Joined
      <4>2. CASE t # "listener"
        BY <2>2, <3>3, <3>8, <4>2 DEF SInv, Joined, Free, Others, Threads, Runners
      <4> QED
        BY <4>1, <4>2
    <3> QED
      BY <2>2, <3>1, <3>6, <3>7, <3>8, <3>9 DEF SInv, Free, Releasing, ScriptFirst, SlotsReady
  <2> QED
    BY <2>1, <2>3, <2>4
<1>3. ASSUME pc["main"] = "wait", UNCHANGED <<begun, live, freed, remote, unset>>,
             NEW l \in {"wait", "clean"}, Goto("main", l),
             proc = "up", proc' = "crash_slots" => ~(live /\ freed = 0)
      PROVE  SInv'
  <2>1. begun > 0 /\ live /\ freed = 0
    BY <1>3 DEF SInv, Started, Releasing
  <2>2. /\ DOMAIN pc' = Threads /\ pc'["main"] = l
        /\ \A t \in Others : pc'[t] = pc[t]
    BY <1>3 DEF Goto, SInv, Started, Others, Threads, Runners
  <2> QED
    BY <1>3, <2>1, <2>2 DEF SInv, Started, Joined, Free, Releasing, ScriptFirst, SlotsReady, Others,
                            Threads, Runners
<1>4. CASE HandleEvent
  BY <1>3, <1>4 DEF HandleEvent, At, UseSlots
<1>5. CASE WaitFails
  BY <1>3, <1>5 DEF WaitFails, At
<1>6. CASE \E e \in WindowEvents : EventFilter(e)
  BY <1>6, Stay DEF EventFilter, At, SInv, Free, ScriptFirst, SlotsReady
<1>7. CASE cleanupGFX
  <2>1. /\ UNCHANGED <<pc, begun, live, remote, unset>> /\ pc["main"] = "clean" /\ proc = "up"
        /\ freed' = freed + 1 \/ freed' = freed
    BY <1>7 DEF cleanupGFX, At
  <2>2. begun > 0 /\ live
    BY <2>1 DEF SInv, Started
  <2> QED
    BY <2>1, <2>2 DEF SInv, Started, Joined, Free, Releasing, ScriptFirst, SlotsReady
<1>8. CASE sig_handler
  BY <1>8, Stay DEF sig_handler, Exit, SInv, Free, ScriptFirst
<1> QED
  BY <1>1, <1>2, <1>4, <1>5, <1>6, <1>7, <1>8 DEF Main

\* The steps of the fader, the timer, the start script and of commands.
LEMMA CommandStep ==
  SInv /\ (processScript \/ OpenGate \/ \/ \E t \in Runners : processCommand(t)
                                        \/ \E t \in {"fader", "timer"} : Sweep(t)) => SInv'
<1> SUFFICES ASSUME SInv, \/ processScript \/ OpenGate
                          \/ \E t \in Runners : processCommand(t)
                          \/ \E t \in {"fader", "timer"} : Sweep(t)
             PROVE  SInv'
  OBVIOUS
<1> USE DEF slotVars, portVars
<1>1. ASSUME NEW t \in Others, pc[t] # "none", proc = "up",
             UNCHANGED <<pc, begun, live, freed, remote, unset>>,
             UseSlots \/ proc' # "crash_slots"
      PROVE  SInv'
  <2>1. begun > 0
    BY <1>1 DEF SInv, Started
  <2> QED
    BY <1>1, <2>1, UseOk, Stay DEF SInv, Free, ScriptFirst
<1>2. CASE processScript
  <2>1. /\ pc["script"] = "wait" /\ proc = "up" /\ UNCHANGED <<begun, live, freed, remote, unset>>
        /\ proc' # "crash_slots" /\ \E l \in {"done", "run"} : Goto("script", l)
    BY <1>2 DEF processScript, At, Begin
  <2> QED
    BY <2>1, Move DEF SInv, Free, ScriptFirst, Others, Threads, Runners
<1>3. CASE OpenGate
  BY <1>3, Stay DEF OpenGate, SInv, Free, ScriptFirst, SlotsReady
<1>4. ASSUME NEW t \in {"fader", "timer"}, Sweep(t) PROVE SInv'
  BY <1>1, <1>4 DEF Sweep, At, Others, Threads
<1>5. ASSUME NEW t \in Runners, processCommand(t) PROVE SInv'
  <2>1. t \in Others
    BY DEF Others, Threads, Runners
  <2>2. pc[t] = "run" /\ proc = "up"
    BY <1>5 DEF processCommand, CmdQuit, CmdComment, CmdUse, CmdFade, CmdRun, CommandsDone,
                Ready, At
  <2>3. CASE CommandsDone(t)
    <3>1. /\ Goto(t, AfterCommands(t)) /\ UNCHANGED <<proc, begun, live, freed, remote, unset>>
      BY <2>3 DEF CommandsDone
    <3>2. /\ t = "script" => AfterCommands(t) = "done"
          /\ t = "listener" => pc["script"] = "done" \/ unset
          /\ AfterCommands(t) # "none"
      BY <2>2 DEF AfterCommands, SInv, Joined, Free
    <3> QED
      BY <2>1, <2>2, <3>1, <3>2, Move DEF SInv, Free, ScriptFirst, SlotsReady
  <2>4. CASE ~CommandsDone(t)
    <3>1. /\ UNCHANGED <<pc, begun, live, freed, remote, unset>>
          /\ UseSlots \/ proc' # "crash_slots"
      BY <1>5, <2>2, <2>4 DEF processCommand, CmdQuit, CmdComment, CmdUse, CmdFade, CmdRun
    <3> QED
      BY <1>1, <2>1, <2>2, <3>1
  <2> QED
    BY <2>3, <2>4
<1> QED
  BY <1>2, <1>3, <1>4, <1>5

\* The steps of the listener.
LEMMA ListenerStep == SInv /\ (Listener \/ AcceptFails) => SInv'
<1> SUFFICES ASSUME SInv, Listener \/ AcceptFails PROVE SInv'
  OBVIOUS
<1> USE DEF slotVars, portVars
<1> DEFINE Past == pc["listener"] \notin {"none", "socket", "join", "dead"}
<1>1. Past => Free
  BY DEF SInv, Joined
<1>2. "listener" \in Others
  BY DEF Others, Threads, Runners
<1>3. ASSUME NEW l, Goto("listener", l), l # "none", pc["listener"] # "none", proc = "up",
             UNCHANGED <<begun, live, freed>>, proc' # "crash_slots",
             remote' = remote \/ Free, unset => unset',
             l \in {"join", "dead"} \/ pc["script"] = "done" \/ unset'
      PROVE  SInv'
  BY <1>2, <1>3, Move DEF SInv, Free, ScriptFirst
<1>4. ASSUME UNCHANGED <<pc, begun, live, freed, remote, unset>>, proc' # "crash_slots"
      PROVE  SInv'
  BY <1>4, Stay DEF SInv, Free, ScriptFirst
<1>5. CASE OpenPort
  BY <1>3, <1>5 DEF OpenPort, At
<1>6. CASE JoinStartup
  BY <1>3, <1>4, <1>6 DEF JoinStartup, At, ScriptEnded
<1>7. CASE Accept
  BY <1>1, <1>3, <1>7 DEF Accept, At, Free
<1>8. CASE AcceptFails
  BY <1>3, <1>8 DEF AcceptFails, At
<1>9. CASE ReadByte
  <2>1. /\ pc["listener"] = "read" /\ proc = "up" /\ proc' = proc
        /\ UNCHANGED <<begun, live, freed, remote, unset>>
        /\ UNCHANGED pc \/ Goto("listener", "answer") \/ Goto("listener", "close")
    BY <1>9 DEF ReadByte, At
  <2> QED
    BY <1>1, <1>3, <1>4, <2>1 DEF Free
<1>10. CASE ReadFails
  BY <1>1, <1>3, <1>10 DEF ReadFails, At, Free
<1>11. CASE AnswerAndRun
  <2>1. /\ pc["listener"] = "answer" /\ proc = "up" /\ proc' # "crash_slots"
        /\ UNCHANGED <<begun, live, freed, unset>> /\ Goto("listener", "run")
    BY <1>11 DEF AnswerAndRun, At, Begin
  <2> QED
    BY <1>1, <1>3, <2>1 DEF Free
<1>12. CASE CloseConnection
  BY <1>1, <1>3, <1>12 DEF CloseConnection, At, Free
<1> QED
  BY <1>5, <1>6, <1>7, <1>8, <1>9, <1>10, <1>11, <1>12 DEF Listener

LEMMA SStep == SInv /\ [Next]_vars => SInv'
<1> SUFFICES ASSUME SInv, [Next]_vars PROVE SInv'
  OBVIOUS
<1>1. ASSUME NEW c \in Clients, wallyc(c) PROVE SInv'
  <2>1. UNCHANGED <<proc, pc, begun, live, freed, remote, unset>>
    BY <1>1 DEF wallyc, conn_, send_data, receive, slotVars, portVars
  <2> QED
    BY <2>1, Stay DEF SInv, Free, ScriptFirst, SlotsReady
<1>2. CASE UNCHANGED vars
  BY <1>2, Stay DEF vars, SInv, Free, ScriptFirst, SlotsReady
<1> QED
  BY <1>1, <1>2, MainStep, CommandStep, ListenerStep DEF Next, Environment

\* Commands from the port never overtake the start script, unless the listener joined
\* before main had stored the id of that thread (wallylistener.c 39) and the C library
\* let it go on.
THEOREM StartScriptFirst == Spec => []ScriptFirst
<1>1. SInv => ScriptFirst
  BY DEF SInv
<1> QED
  BY <1>1, SInit, SStep, PTL DEF Spec

\* No thread finds the slots missing; only a main that ends takes them away.
THEOREM SlotsBeforeThreads == Spec => []SlotsReady
<1>1. SInv => SlotsReady
  BY DEF SInv
<1> QED
  BY <1>1, SInit, SStep, PTL DEF Spec
-------------------------------------------------------------------------------
(***************************************************************************)
(* A line stays inside its buffer                                          *)
(*                                                                         *)
(* The listener reads only from an accepted client, and each byte that is  *)
(* loaded leaves room for the next one or makes the buffer grow.           *)
(***************************************************************************)
LineTyped ==
  /\ request \in [Clients -> Seq(Letters)] /\ inbox \in [Clients -> Seq(Letters)]
  /\ backlog \in Seq(Clients)
  /\ line \in Seq(Letters) /\ size \in Nat

Reading == pc["listener"] = "read" => cur \in Clients /\ Len(line) < size

LineInv == DOMAIN pc = Threads /\ LineTyped /\ Reading

LEMMA LineInit == Init => LineInv
BY ServiceAssumption DEF Init, LineInv, LineTyped, Reading, Threads, Runners

\* A step of another thread, or of the environment, that leaves the line alone.
LEMMA LineKept ==
  ASSUME LineInv, UNCHANGED <<request, inbox, backlog, line, size, cur>>,
         DOMAIN pc' = Threads,
         pc'["listener"] = "read" => pc["listener"] = "read"
  PROVE  LineInv'
BY DEF LineInv, LineTyped, Reading

\* Goto of some thread, the listener not to "read".
LEMMA Moved ==
  ASSUME LineInv, NEW t \in Threads, NEW l, Goto(t, l), t = "listener" => l # "read"
  PROVE  /\ DOMAIN pc' = Threads
         /\ pc'["listener"] = "read" => pc["listener"] = "read"
BY DEF LineInv, Goto

\* 79-91: a new line and a new buffer.
LEMMA AcceptLine == LineInv /\ Accept => LineInv'
<1> SUFFICES ASSUME LineInv, Accept PROVE LineInv'
  OBVIOUS
<1>1. /\ backlog # <<>> /\ cur' = Head(backlog) /\ backlog' = Tail(backlog)
      /\ line' = <<>> /\ size' = BufSize /\ UNCHANGED <<request, inbox>>
      /\ \E l \in {"read", "close"} : Goto("listener", l)
  BY DEF Accept, clientVars
<1>2. cur' \in Clients /\ backlog' \in Seq(Clients)
  BY <1>1 DEF LineInv, LineTyped
<1>3. size' \in Nat /\ Len(line') < size' /\ line' \in Seq(Letters)
  BY <1>1, ServiceAssumption
<1>4. DOMAIN pc' = Threads
  BY <1>1 DEF Goto, LineInv
<1> QED
  BY <1>1, <1>2, <1>3, <1>4 DEF LineInv, LineTyped, Reading

\* 95-119: a byte is loaded; the buffer grows when the next one would not fit.
LEMMA ReadLine == LineInv /\ ReadByte => LineInv'
<1> SUFFICES ASSUME LineInv, ReadByte PROVE LineInv'
  OBVIOUS
<1> DEFINE b == Head(inbox[cur])
<1>1. /\ pc["listener"] = "read" /\ inbox[cur] # <<>>
      /\ line' = Append(line, b) /\ inbox' = [inbox EXCEPT ![cur] = Tail(@)]
      /\ UNCHANGED <<request, backlog, cur>>
  BY DEF ReadByte, At, clientVars
<1>2. cur \in Clients /\ Len(line) < size /\ size \in Nat /\ line \in Seq(Letters)
  BY <1>1 DEF LineInv, LineTyped, Reading
<1>3. inbox[cur] \in Seq(Letters)
  BY <1>2 DEF LineInv, LineTyped
<1>4. b \in Letters /\ Tail(inbox[cur]) \in Seq(Letters)
  BY <1>1, <1>3
<1>5. line' \in Seq(Letters) /\ Len(line') = Len(line) + 1 /\ inbox' \in [Clients -> Seq(Letters)]
  BY <1>1, <1>2, <1>4 DEF LineInv, LineTyped
<1>6. \/ Goto("listener", "answer") /\ UNCHANGED size
      \/ Len(line') < size /\ UNCHANGED <<pc, size>>
      \/ size' = size + BufStep /\ UNCHANGED pc
      \/ Goto("listener", "close") /\ UNCHANGED size
  <2>1. Len(line') \in Nat
    BY <1>5
  <2> QED
    BY <1>2, <2>1 DEF ReadByte, NeedsMore
<1>7. /\ DOMAIN pc' = Threads /\ size' \in Nat
      /\ pc'["listener"] = "read" => Len(line') < size'
  <2>1. Len(line) \in Nat /\ BufStep \in Nat \ {0}
    BY <1>2, ServiceAssumption
  <2> QED
    BY <1>2, <1>5, <1>6, <2>1 DEF LineInv, Goto, Threads, Runners
<1> QED
  BY <1>1, <1>2, <1>5, <1>7 DEF LineInv, LineTyped, Reading

LEMMA ListenerLine == LineInv /\ (Listener \/ AcceptFails) => LineInv'
<1> SUFFICES ASSUME LineInv, Listener \/ AcceptFails PROVE LineInv'
  OBVIOUS
<1> USE DEF portVars, netVars, clientVars
<1>1. "listener" \in Threads
  BY DEF Threads, Runners
<1>2. ASSUME UNCHANGED <<request, inbox, backlog, line, size, cur>>,
             UNCHANGED pc \/ \E l : l # "read" /\ Goto("listener", l)
      PROVE  LineInv'
  BY <1>1, <1>2, Moved, LineKept DEF LineInv
<1>3. CASE OpenPort
  BY <1>2, <1>3 DEF OpenPort
<1>4. CASE JoinStartup
  BY <1>2, <1>4 DEF JoinStartup
<1>5. CASE AcceptFails
  BY <1>2, <1>5 DEF AcceptFails
<1>6. CASE ReadFails
  BY <1>2, <1>6 DEF ReadFails
<1>7. CASE AnswerAndRun
  BY <1>2, <1>7 DEF AnswerAndRun, Begin
<1>8. CASE CloseConnection
  <2>1. /\ inbox' = [inbox EXCEPT ![cur] = <<>>] /\ Goto("listener", "accept")
        /\ UNCHANGED <<request, backlog, line, size>>
    BY <1>8 DEF CloseConnection
  <2>2. inbox' \in [Clients -> Seq(Letters)]
    <3>1. <<>> \in Seq(Letters) /\ inbox \in [Clients -> Seq(Letters)]
      BY DEF LineInv, LineTyped
    <3> QED
      BY <2>1, <3>1, Zenon
  <2>3. DOMAIN pc' = Threads /\ pc'["listener"] # "read"
    BY <1>1, <2>1 DEF Goto, LineInv
  <2> QED
    BY <2>1, <2>2, <2>3 DEF LineInv, LineTyped, Reading
<1> QED
  BY <1>3, <1>4, <1>5, <1>6, <1>7, <1>8, AcceptLine, ReadLine DEF Listener

LEMMA RunnerLine == LineInv /\ (processScript \/ \E t \in Runners : processCommand(t)) => LineInv'
<1> SUFFICES ASSUME LineInv, processScript \/ \E t \in Runners : processCommand(t)
             PROVE  LineInv'
  OBVIOUS
<1> USE DEF portVars, netVars, clientVars
<1>1. "script" \in Threads /\ "script" # "listener" /\ Runners \subseteq Threads
  BY DEF Threads, Runners
<1>2. CASE processScript
  <2>1. UNCHANGED <<request, inbox, backlog, line, size, cur>> /\ \E l : Goto("script", l)
    BY <1>2 DEF processScript, Begin
  <2> QED
    BY <1>1, <2>1, Moved, LineKept
<1>3. ASSUME NEW t \in Runners, processCommand(t) PROVE LineInv'
  <2>1. CASE CommandsDone(t)
    <3>1. /\ Goto(t, AfterCommands(t)) /\ UNCHANGED <<request, inbox, backlog, cur>>
          /\ line' = (IF t = "listener" THEN <<>> ELSE line)
          /\ size' = (IF t = "listener" THEN BufSize ELSE size)
      BY <2>1 DEF CommandsDone
    <3>2. t = "listener" => AfterCommands(t) # "read"
      BY DEF AfterCommands
    <3>3. /\ DOMAIN pc' = Threads
          /\ pc'["listener"] = "read" => pc["listener"] = "read"
      BY <1>1, <3>1, <3>2, Moved
    <3>4. CASE t = "listener"
      <4>1. line' \in Seq(Letters) /\ size' \in Nat
        BY <3>1, <3>4, ServiceAssumption
      <4>2. pc'["listener"] # "read"
        BY <1>1, <3>1, <3>2, <3>4 DEF Goto, LineInv
      <4> QED
        BY <3>1, <3>3, <4>1, <4>2 DEF LineInv, LineTyped, Reading
    <3>5. CASE t # "listener"
      BY <3>1, <3>3, <3>5, LineKept
    <3> QED
      BY <3>4, <3>5
  <2>2. CASE ~CommandsDone(t)
    <3>1. UNCHANGED <<pc, request, inbox, backlog, line, size, cur>>
      BY <1>3, <2>2 DEF processCommand, CmdQuit, CmdComment, CmdUse, CmdFade, CmdRun
    <3> QED
      BY <3>1, LineKept DEF LineInv
  <2> QED
    BY <2>1, <2>2
<1> QED
  BY <1>2, <1>3

LEMMA ClientLine == ASSUME NEW c \in Clients PROVE LineInv /\ wallyc(c) => LineInv'
<1> SUFFICES ASSUME LineInv, wallyc(c) PROVE LineInv'
  OBVIOUS
<1> USE DEF portVars, netVars
<1>1. UNCHANGED <<pc, request, line, size, cur>>
  BY DEF wallyc, conn_, send_data, receive
<1>2. /\ backlog' = backlog \/ backlog' = Append(backlog, c)
      /\ inbox' = inbox \/ inbox' = [inbox EXCEPT ![c] = request[c]]
  BY DEF wallyc, conn_, send_data, receive
<1>3. backlog' \in Seq(Clients)
  <2>1. backlog \in Seq(Clients) /\ (backlog' = backlog \/ backlog' = Append(backlog, c))
    BY <1>2 DEF LineInv, LineTyped
  <2> QED
    BY <2>1
<1>4. inbox' \in [Clients -> Seq(Letters)]
  <2>1. request[c] \in Seq(Letters) /\ inbox \in [Clients -> Seq(Letters)]
    BY DEF LineInv, LineTyped
  <2> QED
    BY <1>2, <2>1, Zenon
<1> QED
  BY <1>1, <1>3, <1>4 DEF LineInv, LineTyped, Reading

LEMMA LineStep == LineInv /\ [Next]_vars => LineInv'
<1> SUFFICES ASSUME LineInv, [Next]_vars PROVE LineInv'
  OBVIOUS
<1> USE DEF portVars, netVars, clientVars
<1>1. ASSUME UNCHANGED <<request, inbox, backlog, line, size, cur>>,
             UNCHANGED pc \/ \E l : Goto("main", l)
      PROVE  LineInv'
  <2>1. "main" \in Threads /\ "main" # "listener"
    BY DEF Threads, Runners
  <2> QED
    BY <1>1, <2>1, Moved, LineKept DEF LineInv
<1>2. ASSUME NEW t \in Threads, NEW l, Begun(t, l), l # "read",
             UNCHANGED <<request, inbox, backlog, line, size, cur>>
      PROVE  LineInv'
  <2>1. /\ DOMAIN pc' = Threads
        /\ pc'["listener"] = "read" => pc["listener"] = "read"
    BY <1>2 DEF Begun, LineInv, Threads, Runners
  <2> QED
    BY <1>2, <2>1, LineKept
<1>3. CASE initGFX
  <2>1. "main" \in Threads
    BY DEF Threads
  <2>2. UNCHANGED <<request, inbox, backlog, line, size, cur>>
    BY <1>3 DEF initGFX
  <2>3. Begun("main", "start") \/ UNCHANGED pc
    BY <1>3 DEF initGFX
  <2>4. CASE Begun("main", "start")
    BY <1>2, <2>1, <2>2, <2>4
  <2> QED
    BY <1>1, <2>2, <2>3, <2>4
<1>4. CASE initThreadsAndHandlers
  <2>1. PICK t \in Threads \ {"main"} :
          Begun(t, FirstStep[t]) \/ UNCHANGED pc
    BY <1>4 DEF initThreadsAndHandlers
  <2>2. FirstStep[t] # "read"
    BY DEF FirstStep, Threads, Runners
  <2> QED
    BY <1>1, <1>2, <1>4, <2>1, <2>2 DEF initThreadsAndHandlers
<1>5. CASE HandleEvent \/ WaitFails \/ cleanupGFX \/ sig_handler
  BY <1>1, <1>5 DEF HandleEvent, WaitFails, cleanupGFX, sig_handler
<1>6. ASSUME NEW e \in WindowEvents, EventFilter(e) PROVE LineInv'
  BY <1>1, <1>6 DEF EventFilter
<1>7. CASE OpenGate
  BY <1>1, <1>7 DEF OpenGate
<1>8. ASSUME NEW t, Sweep(t) PROVE LineInv'
  BY <1>1, <1>8 DEF Sweep
<1>9. CASE UNCHANGED vars
  BY <1>1, <1>9 DEF vars
<1> QED
  BY <1>3, <1>4, <1>5, <1>6, <1>7, <1>8, <1>9, ListenerLine, RunnerLine, ClientLine
     DEF Next, Main, Environment

\* However long a request is, the byte that is read next is stored inside the buffer
\* (102).  It does not say that a zero fits behind the last byte: none is reserved.
THEOREM LinesFit == Spec => []BufferFits
<1>1. LineInv => BufferFits
  BY DEF LineInv, Reading, BufferFits
<1> QED
  BY <1>1, LineInit, LineStep, PTL DEF Spec
-------------------------------------------------------------------------------
(***************************************************************************)
(* Every connection is served once, in its turn                            *)
(*                                                                         *)
(* The connections that wait are the last ones made (Queue), the accepted  *)
(* one is the last one before them (Serving), and the lines that ran came  *)
(* from accepted ones, each before the current (Ran).  What is loaded and  *)
(* what is still to be read of a connection is together what its client    *)
(* has sent (Loaded), and the line ends with its first line end (Framed).  *)
(***************************************************************************)
Inside == pc["listener"] \in {"read", "answer", "run", "close"}
Loads  == pc["listener"] \in {"read", "answer"}

ClientTyped ==
  /\ conn \in [Clients -> {"idle", "connected", "sent", "done"}]
  /\ reply \in [Clients -> {"none", "answer", "closed"}]
  /\ got \in [Clients -> {"none", "answer", "closed", "timeout"}]

Accepted == Len(order) - Len(backlog)

Queue ==
  /\ order \in Seq(Clients)
  /\ Accepted \in Nat
  /\ \A k \in 1..Len(backlog) : backlog[k] = order[Accepted + k]
  /\ \A i, j \in 1..Len(order) : order[i] = order[j] => i = j
  /\ \A i \in 1..Len(order) : conn[order[i]] # "idle"

Serving == Inside => Accepted > 0 /\ cur = order[Accepted]

Ran ==
  /\ remote \in Seq(Clients)
  /\ \A i \in 1..Len(remote) : \E p \in 1..Accepted : order[p] = remote[i]
  /\ \A i, j \in 1..Len(remote), p, q \in 1..Len(order) :
       i < j /\ order[p] = remote[i] /\ order[q] = remote[j] => p < q
  /\ Loads => \A i \in 1..Len(remote) : remote[i] # cur

Answered ==
  \A c \in Clients : reply[c] = "answer" \/ got[c] = "answer" =>
                       \E i \in 1..Len(remote) : remote[i] = c

\* What a client has sent, and whether its connection was accepted.
Sent(c)  == IF conn[c] \in {"sent", "done"} THEN request[c] ELSE <<>>
Fresh(c) == \A p \in 1..Accepted : order[p] # c

Arrived == \A c \in Clients : Fresh(c) => inbox[c] = Sent(c)

Loaded ==
  Loads =>
    /\ Len(line) + Len(inbox[cur]) = Len(Sent(cur))
    /\ \A k \in 1..Len(line) : line[k] = Sent(cur)[k]
    /\ \A k \in 1..Len(inbox[cur]) : inbox[cur][k] = Sent(cur)[Len(line) + k]

Framed ==
  /\ pc["listener"] = "read" => \A k \in 1..Len(line) : line[k] # NL
  /\ pc["listener"] = "answer" => /\ Len(line) > 0 /\ line[Len(line)] = NL
                                  /\ \A k \in 1..Len(line) - 1 : line[k] # NL

ServeInv == /\ ClientTyped /\ Queue /\ Serving /\ Ran /\ Answered
            /\ Arrived /\ Loaded /\ Framed

LEMMA ServeInit == Init => ServeInv
<1> SUFFICES ASSUME Init PROVE ServeInv
  OBVIOUS
<1> USE DEF Init
<1>1. order = <<>> /\ backlog = <<>> /\ remote = <<>> /\ ~Inside /\ ~Loads
  BY DEF Inside, Loads, Threads, Runners
<1>2. ClientTyped
  BY DEF ClientTyped
<1>3. Queue /\ Serving /\ Ran /\ Answered
  BY <1>1 DEF Queue, Serving, Ran, Answered, Accepted
<1>4. Arrived
  BY DEF Arrived, Sent
<1>5. Loaded /\ Framed
  BY <1>1 DEF Loaded, Framed, Loads
<1> QED
  BY <1>2, <1>3, <1>4, <1>5 DEF ServeInv

\* Who was served was accepted, in the order of the connections, however many more are
\* accepted.
LEMMA RanKept ==
  ASSUME Ran, UNCHANGED <<remote, order>>, 1..Accepted \subseteq (1..Accepted)',
         Loads' => \A i \in 1..Len(remote) : remote[i] # cur'
  PROVE  Ran'
<1> DEFINE Among(r, o, s) == \A i \in 1..Len(r) : \E p \in s : o[p] = r[i]
           InTurn(r, o) == \A i, j \in 1..Len(r), p, q \in 1..Len(o) :
                             i < j /\ o[p] = r[i] /\ o[q] = r[j] => p < q
<1>1. Ran <=> /\ remote \in Seq(Clients) /\ Among(remote, order, 1..Accepted)
              /\ InTurn(remote, order)
              /\ Loads => \A i \in 1..Len(remote) : remote[i] # cur
  BY Zenon DEF Ran
<1>2. Ran' <=> /\ remote' \in Seq(Clients) /\ Among(remote', order', (1..Accepted)')
               /\ InTurn(remote', order')
               /\ Loads' => \A i \in 1..Len(remote') : remote'[i] # cur'
  BY Zenon DEF Ran
<1>3. Among(remote, order, 1..Accepted) => Among(remote, order, (1..Accepted)')
  OBVIOUS
<1> HIDE DEF Among, InTurn
<1> QED
  BY <1>1, <1>2, <1>3

\* Steps that leave the connections alone: the listener stays where it is with its
\* line, or leaves it.
LEMMA ServeKept ==
  ASSUME ServeInv, UNCHANGED <<conn, request, inbox, backlog, order, cur, remote, got, reply>>,
         \/ pc'["listener"] = pc["listener"] /\ line' = line
         \/ ~Loads' /\ (Inside' => Inside)
  PROVE  ServeInv'
<1>1. Accepted' = Accepted /\ (Loads' => Loads) /\ (Inside' => Inside)
  BY DEF Accepted, Loads, Inside
<1>2. ClientTyped' /\ Queue' /\ Serving' /\ Answered'
  BY <1>1 DEF ServeInv, ClientTyped, Queue, Serving, Answered
<1>3. Ran'
  <2>1. Ran /\ (Loads => \A i \in 1..Len(remote) : remote[i] # cur)
    BY DEF ServeInv, Ran
  <2> QED
    BY <1>1, <2>1, RanKept
<1>4. Arrived'
  BY <1>1 DEF ServeInv, Arrived, Fresh, Sent
<1>5. Loaded' /\ Framed'
  BY DEF ServeInv, Loaded, Framed, Loads, Sent
<1> QED
  BY <1>2, <1>3, <1>4, <1>5 DEF ServeInv

\* A step of another thread.
LEMMA ServeElsewhere ==
  ASSUME LineInv, ServeInv, NEW t \in Threads \ {"listener"}, NEW l,
         UNCHANGED pc \/ Goto(t, l),
         UNCHANGED <<conn, request, inbox, backlog, order, cur, remote, got, reply, line>>
  PROVE  ServeInv'
<1>1. pc'["listener"] = pc["listener"]
  BY DEF Goto, LineInv, Threads, Runners
<1> QED
  BY <1>1, ServeKept

\* A step of the listener that leaves the line.
LEMMA ServeLeaves ==
  ASSUME LineInv, ServeInv, NEW l, Goto("listener", l), l \notin {"read", "answer"},
         l \in {"run", "close"} => Inside,
         UNCHANGED <<conn, request, inbox, backlog, order, cur, remote, got, reply>>
  PROVE  ServeInv'
<1>1. pc'["listener"] = l
  BY DEF Goto, LineInv, Threads, Runners
<1> QED
  BY <1>1, ServeKept DEF Inside, Loads

\* The next connection: the first one that waits, of which nothing was read yet.
LEMMA AcceptServes == LineInv /\ ServeInv /\ Accept => ServeInv'
<1> SUFFICES ASSUME LineInv, ServeInv, Accept PROVE ServeInv'
  OBVIOUS
<1> DEFINE a == Accepted
<1>1. /\ backlog # <<>> /\ cur' = Head(backlog) /\ backlog' = Tail(backlog)
      /\ line' = <<>> /\ \E l \in {"read", "close"} : Goto("listener", l)
      /\ UNCHANGED <<conn, request, inbox, order, remote, got, reply>>
  BY DEF Accept, clientVars
<1>2. /\ backlog \in Seq(Clients) /\ order \in Seq(Clients) /\ a \in Nat
      /\ Len(backlog) \in Nat \ {0} /\ Len(order) \in Nat
  BY <1>1, EmptySeq, LenProperties DEF LineInv, LineTyped, ServeInv, Queue
<1>3. /\ Len(backlog') = Len(backlog) - 1 /\ Head(backlog) = backlog[1]
      /\ \A k \in 1..Len(backlog') : backlog'[k] = backlog[k + 1]
  BY <1>1, <1>2, HeadTailProperties
<1>4. Accepted' = a + 1 /\ a + 1 <= Len(order)
  BY <1>1, <1>2, <1>3 DEF Accepted
<1>5. cur' = order[a + 1] /\ cur' \in Clients
  BY <1>1, <1>2, <1>3 DEF ServeInv, Queue
<1>6. pc'["listener"] \in {"read", "close"} /\ Inside'
  BY <1>1 DEF Goto, LineInv, Threads, Runners, Inside
<1>7. Fresh(cur')
  <2> SUFFICES ASSUME NEW p \in 1..a PROVE order[p] # order[a + 1]
    BY <1>5 DEF Fresh
  <2> QED
    BY <1>2, <1>4 DEF ServeInv, Queue
<1> HIDE DEF a
<1>8. ClientTyped' /\ Answered'
  BY <1>1 DEF ServeInv, ClientTyped, Answered
<1>9. Queue'
  <2>1. \A k \in 1..Len(backlog') : backlog'[k] = order[Accepted' + k]
    <3> SUFFICES ASSUME NEW k \in 1..Len(backlog')
                 PROVE  backlog'[k] = order[Accepted' + k]
      OBVIOUS
    <3>1. k + 1 \in 1..Len(backlog) /\ backlog'[k] = backlog[k + 1]
      BY <1>2, <1>3
    <3>2. backlog[k + 1] = order[a + (k + 1)]
      BY <3>1 DEF ServeInv, Queue, a
    <3>3. a + (k + 1) = Accepted' + k
      BY <1>2, <1>4
    <3> QED
      BY <3>1, <3>2, <3>3
  <2>2. Accepted' \in Nat
    BY <1>2, <1>4
  <2> QED
    BY <2>1, <2>2, <1>1 DEF ServeInv, Queue
<1>10. Serving'
  BY <1>1, <1>2, <1>4, <1>5 DEF Serving
<1>11. Ran'
  <2>1. \A i \in 1..Len(remote) : \E p \in 1..a : order[p] = remote[i]
    BY DEF ServeInv, Ran, a
  <2>2. \A i \in 1..Len(remote) : \E p \in 1..Accepted' : order[p] = remote[i]
    BY <2>1, <1>2, <1>4
  <2>3. \A i \in 1..Len(remote) : remote[i] # cur'
    BY <2>1, <1>7 DEF Fresh, a
  <2>4. 1..Accepted \subseteq (1..Accepted)'
    BY <1>2, <1>4 DEF a
  <2>5. Ran
    BY DEF ServeInv
  <2> QED
    BY <2>3, <2>4, <2>5, <1>1, RanKept
<1>12. Arrived'
  <2>1. \A c \in Clients : Fresh(c)' => Fresh(c)
    BY <1>1, <1>2, <1>4 DEF Fresh, a
  <2> QED
    BY <2>1, <1>1 DEF ServeInv, Arrived, Sent
<1>13. Loaded'
  <2>1. inbox[cur'] = Sent(cur')
    BY <1>5, <1>7 DEF ServeInv, Arrived
  <2>2. Sent(cur)' = Sent(cur')
    BY <1>1 DEF Sent
  <2>3. inbox[cur'] \in Seq(Letters) /\ Len(inbox[cur']) \in Nat /\ Len(line') = 0
    BY <1>1, <1>5, LenProperties DEF LineInv, LineTyped
  <2> QED
    BY <2>1, <2>2, <2>3, <1>1 DEF Loaded
<1>14. Framed'
  BY <1>1, <1>6 DEF Framed
<1> QED
  BY <1>8, <1>9, <1>10, <1>11, <1>12, <1>13, <1>14 DEF ServeInv

\* A byte goes from the connection to the line.
LEMMA ReadServes == LineInv /\ ServeInv /\ ReadByte => ServeInv'
<1> SUFFICES ASSUME LineInv, ServeInv, ReadByte PROVE ServeInv'
  OBVIOUS
<1> DEFINE u == inbox[cur]
           b == Head(u)
           s == Sent(cur)
<1>1. /\ pc["listener"] = "read" /\ u # <<>>
      /\ line' = Append(line, b) /\ inbox' = [inbox EXCEPT ![cur] = Tail(u)]
      /\ UNCHANGED <<conn, request, backlog, cur, order, remote, got, reply>>
  BY DEF ReadByte, At, clientVars
<1>2. /\ cur \in Clients /\ line \in Seq(Letters) /\ u \in Seq(Letters)
      /\ inbox \in [Clients -> Seq(Letters)]
  BY <1>1 DEF LineInv, LineTyped, Reading
<1>3. \/ b = NL /\ pc'["listener"] = "answer"
      \/ b # NL /\ pc'["listener"] = "read"
      \/ pc'["listener"] = "close"
  BY <1>1 DEF ReadByte, Goto, LineInv, Threads, Runners
<1>4. /\ b \in Letters /\ Tail(u) \in Seq(Letters) /\ Len(Tail(u)) = Len(u) - 1
      /\ b = u[1] /\ \A k \in 1..Len(Tail(u)) : Tail(u)[k] = u[k + 1]
  BY <1>1, <1>2, HeadTailProperties
<1>5. /\ Len(line') = Len(line) + 1 /\ line'[Len(line) + 1] = b
      /\ \A k \in 1..Len(line) : line'[k] = line[k]
  BY <1>1, <1>2, <1>4, AppendProperties
<1>6. Len(line) \in Nat /\ Len(u) \in Nat \ {0}
  BY <1>1, <1>2, EmptySeq, LenProperties
<1>7. inbox'[cur] = Tail(u) /\ \A c \in Clients : c # cur => inbox'[c] = inbox[c]
  BY <1>1, <1>2
<1>8. Inside /\ Loads /\ Accepted' = Accepted /\ \A c : Sent(c)' = Sent(c)
  BY <1>1 DEF Inside, Loads, Accepted, Sent
<1>9. /\ Len(line) + Len(u) = Len(s)
      /\ \A k \in 1..Len(line) : line[k] = s[k]
      /\ \A k \in 1..Len(u) : u[k] = s[Len(line) + k]
  BY <1>8 DEF ServeInv, Loaded
<1>10. ClientTyped' /\ Queue' /\ Serving' /\ Answered'
  BY <1>1, <1>8 DEF ServeInv, ClientTyped, Queue, Serving, Answered
<1>11. Ran'
  <2>1. Ran /\ \A i \in 1..Len(remote) : remote[i] # cur
    BY <1>8 DEF ServeInv, Ran
  <2> QED
    BY <1>1, <1>8, <2>1, RanKept
<1>12. Arrived'
  <2>1. ~Fresh(cur) /\ \A c \in Clients : Fresh(c)' => Fresh(c)
    BY <1>1, <1>8 DEF Fresh, ServeInv, Serving, Queue
  <2> QED
    BY <2>1, <1>7, <1>8 DEF ServeInv, Arrived
<1>13. Loaded'
  <2>1. Sent(cur)' = s
    BY <1>1, <1>8 DEF Sent
  <2> HIDE DEF s, u, b
  <2>2. Len(line') + Len(inbox'[cur]) = Len(s)
    BY <1>4, <1>5, <1>6, <1>7, <1>9
  <2>3. \A k \in 1..Len(line') : line'[k] = s[k]
    <3> SUFFICES ASSUME NEW k \in 1..Len(line') PROVE line'[k] = s[k]
      OBVIOUS
    <3>1. CASE k \in 1..Len(line)
      BY <3>1, <1>5, <1>9
    <3>2. CASE k = Len(line) + 1
      <4>1. u[1] = s[Len(line) + 1]
        BY <1>6, <1>9
      <4> QED
        BY <3>2, <4>1, <1>4, <1>5
    <3> QED
      BY <3>1, <3>2, <1>5, <1>6
  <2>4. \A k \in 1..Len(inbox'[cur]) : inbox'[cur][k] = s[Len(line') + k]
    <3> SUFFICES ASSUME NEW k \in 1..Len(Tail(u)) PROVE Tail(u)[k] = s[Len(line') + k]
      BY <1>7
    <3>1. k + 1 \in 1..Len(u) /\ Tail(u)[k] = u[k + 1]
      BY <1>4, <1>6
    <3>2. u[k + 1] = s[Len(line) + (k + 1)]
      BY <3>1, <1>9
    <3>3. Len(line) + (k + 1) = Len(line') + k
      BY <1>5, <1>6
    <3> QED
      BY <3>1, <3>2, <3>3
  <2> QED
    BY <2>1, <2>2, <2>3, <2>4, <1>1 DEF Loaded
<1>14. Framed'
  <2>1. \A k \in 1..Len(line) : line[k] # NL
    BY <1>1 DEF ServeInv, Framed
  <2>2. CASE b = NL /\ pc'["listener"] = "answer"
    BY <2>1, <2>2, <1>5, <1>6 DEF Framed
  <2>3. CASE b # NL /\ pc'["listener"] = "read"
    <3>1. \A k \in 1..Len(line') : k \in 1..Len(line) \/ k = Len(line) + 1
      BY <1>5, <1>6
    <3> QED
      BY <2>1, <2>3, <3>1, <1>5 DEF Framed
  <2>4. CASE pc'["listener"] = "close"
    BY <2>4 DEF Framed
  <2> QED
    BY <2>2, <2>3, <2>4, <1>3
<1> QED
  BY <1>10, <1>11, <1>12, <1>13, <1>14 DEF ServeInv

\* The line of the connection runs, after those of all earlier ones.
LEMMA AnswerServes == LineInv /\ ServeInv /\ AnswerAndRun => ServeInv'
<1> SUFFICES ASSUME LineInv, ServeInv, AnswerAndRun PROVE ServeInv'
  OBVIOUS
<1> DEFINE n == Len(remote)
<1>1. /\ pc["listener"] = "answer" /\ Goto("listener", "run")
      /\ reply' = [reply EXCEPT ![cur] = "answer"] /\ remote' = Append(remote, cur)
      /\ UNCHANGED <<conn, request, inbox, backlog, order, cur, got>>
  BY DEF AnswerAndRun, At, Begin, clientVars
<1>2. pc'["listener"] = "run" /\ Inside /\ Loads /\ Inside' /\ ~Loads' /\ Accepted' = Accepted
  BY <1>1 DEF Goto, LineInv, Threads, Runners, Inside, Loads, Accepted
<1>3. /\ Accepted \in Nat \ {0} /\ Accepted <= Len(order) /\ cur = order[Accepted]
      /\ cur \in Clients /\ order \in Seq(Clients) /\ Len(order) \in Nat
      /\ remote \in Seq(Clients) /\ n \in Nat
  <2>1. /\ order \in Seq(Clients) /\ Len(order) \in Nat /\ Len(backlog) \in Nat
        /\ remote \in Seq(Clients) /\ n \in Nat /\ Accepted \in Nat
    BY LenProperties DEF ServeInv, Queue, Ran, LineInv, LineTyped
  <2>2. Accepted > 0 /\ cur = order[Accepted]
    BY <1>2 DEF ServeInv, Serving
  <2>3. Accepted <= Len(order)
    BY <2>1 DEF Accepted
  <2>4. cur \in Clients
    BY <2>1, <2>2, <2>3
  <2> QED
    BY <2>1, <2>2, <2>3, <2>4
<1>4. /\ remote' \in Seq(Clients) /\ Len(remote') = n + 1 /\ remote'[n + 1] = cur
      /\ \A i \in 1..n : remote'[i] = remote[i]
  BY <1>1, <1>3, AppendProperties
<1>5. ClientTyped' /\ Queue' /\ Serving'
  BY <1>1, <1>2, <1>3 DEF ServeInv, ClientTyped, Queue, Serving
<1>6. Answered'
  <2> SUFFICES ASSUME NEW c \in Clients, reply'[c] = "answer" \/ got[c] = "answer"
               PROVE  \E i \in 1..Len(remote') : remote'[i] = c
    BY <1>1 DEF Answered
  <2>1. CASE c = cur
    BY <2>1, <1>3, <1>4
  <2>2. CASE c # cur
    <3>1. reply'[c] = reply[c]
      BY <2>2, <1>1, <1>3 DEF ServeInv, ClientTyped
    <3>2. PICK i \in 1..n : remote[i] = c
      BY <3>1 DEF ServeInv, Answered
    <3> QED
      BY <3>2, <1>3, <1>4
  <2> QED
    BY <2>1, <2>2
<1>7. Ran'
  <2>1. \A i \in 1..n : \E p \in 1..Accepted : order[p] = remote[i]
    BY DEF ServeInv, Ran
  <2>2. \A i \in 1..n + 1 : i \in 1..n \/ i = n + 1
    BY <1>3
  <2>3. \A i \in 1..n + 1 : \E p \in 1..Accepted : order[p] = remote'[i]
    BY <2>1, <2>2, <1>3, <1>4
  <2>4. ASSUME NEW i \in 1..n + 1, NEW j \in 1..n + 1, NEW p \in 1..Len(order),
               NEW q \in 1..Len(order), i < j, order[p] = remote'[i], order[q] = remote'[j]
        PROVE  p < q
    <3>1. i \in 1..n
      BY <2>4, <1>3
    <3>2. CASE j \in 1..n
      BY <2>4, <3>1, <3>2, <1>4 DEF ServeInv, Ran
    <3>3. CASE j = n + 1
      <4>1. q = Accepted
        BY <2>4, <3>3, <1>3, <1>4 DEF ServeInv, Queue
      <4>2. PICK r \in 1..Accepted : order[r] = remote[i]
        BY <2>1, <3>1
      <4>3. r = p
        BY <2>4, <3>1, <4>2, <1>3, <1>4 DEF ServeInv, Queue
      <4>4. remote[i] # cur
        BY <3>1, <1>2 DEF ServeInv, Ran
      <4> QED
        BY <4>1, <4>2, <4>3, <4>4, <1>3
    <3> QED
      BY <2>2, <3>2, <3>3
  <2>5. /\ \A i \in 1..Len(remote') : \E p \in 1..Accepted' : order'[p] = remote'[i]
        /\ \A i, j \in 1..Len(remote'), p, q \in 1..Len(order') :
             i < j /\ order'[p] = remote'[i] /\ order'[q] = remote'[j] => p < q
    <3>1. Len(remote') = n + 1 /\ order' = order /\ Accepted' = Accepted
      BY <1>1, <1>2, <1>4
    <3> HIDE DEF n
    <3> QED
      BY <2>3, <2>4, <3>1
  <2> QED
    BY <2>5, <1>2, <1>4 DEF Ran
<1>8. Arrived'
  BY <1>1, <1>2 DEF ServeInv, Arrived, Fresh, Sent
<1>9. Loaded' /\ Framed'
  BY <1>2 DEF Loaded, Framed, Loads
<1> QED
  BY <1>5, <1>6, <1>7, <1>8, <1>9 DEF ServeInv

\* The connection ends; who has been answered stays answered.
LEMMA CloseServes == LineInv /\ ServeInv /\ CloseConnection => ServeInv'
<1> SUFFICES ASSUME LineInv, ServeInv, CloseConnection PROVE ServeInv'
  OBVIOUS
<1>1. /\ pc["listener"] = "close" /\ Goto("listener", "accept")
      /\ reply' = [reply EXCEPT ![cur] = IF @ = "none" THEN "closed" ELSE @]
      /\ inbox' = [inbox EXCEPT ![cur] = <<>>]
      /\ UNCHANGED <<conn, request, backlog, order, remote, got>>
  BY DEF CloseConnection, At, clientVars
<1>2. pc'["listener"] = "accept" /\ Inside /\ ~Inside' /\ ~Loads' /\ Accepted' = Accepted
  BY <1>1 DEF Goto, LineInv, Threads, Runners, Inside, Loads, Accepted
<1>3. ClientTyped' /\ \A c \in Clients : reply'[c] = "answer" => reply[c] = "answer"
  BY <1>1 DEF ServeInv, ClientTyped
<1>4. Queue' /\ Serving' /\ Answered'
  BY <1>1, <1>2, <1>3 DEF ServeInv, Queue, Serving, Answered
<1>5. Ran'
  BY <1>1, <1>2 DEF ServeInv, Ran
<1>6. Arrived'
  <2>1. ~Fresh(cur)
    BY <1>2 DEF ServeInv, Serving, Queue, Fresh
  <2>2. \A c \in Clients : c # cur => inbox'[c] = inbox[c]
    BY <1>1 DEF LineInv, LineTyped
  <2> QED
    BY <2>1, <2>2, <1>1, <1>2 DEF ServeInv, Arrived, Fresh, Sent
<1>7. Loaded' /\ Framed'
  BY <1>2 DEF Loaded, Framed, Loads
<1> QED
  BY <1>3, <1>4, <1>5, <1>6, <1>7 DEF ServeInv

LEMMA ListenerServes == LineInv /\ ServeInv /\ (Listener \/ AcceptFails) => ServeInv'
<1> SUFFICES ASSUME LineInv, ServeInv, Listener \/ AcceptFails PROVE ServeInv'
  OBVIOUS
<1> USE DEF portVars, netVars, clientVars
<1>1. ASSUME NEW l \in {"join", "dead", "accept"}, Goto("listener", l) \/ UNCHANGED pc,
             UNCHANGED <<conn, request, inbox, backlog, order, cur, remote, got, reply, line>>
      PROVE  ServeInv'
  BY <1>1, ServeLeaves, ServeKept
<1>2. CASE OpenPort
  BY <1>1, <1>2 DEF OpenPort
<1>3. CASE JoinStartup
  BY <1>1, <1>3 DEF JoinStartup
<1>4. CASE AcceptFails
  BY <1>1, <1>4 DEF AcceptFails
<1>5. CASE ReadFails
  <2>1. /\ pc["listener"] = "read" /\ Goto("listener", "close")
        /\ UNCHANGED <<conn, request, inbox, backlog, order, cur, remote, got, reply>>
    BY <1>5 DEF ReadFails, At
  <2> QED
    BY <2>1, ServeLeaves DEF Inside
<1> QED
  BY <1>2, <1>3, <1>4, <1>5, AcceptServes, ReadServes, AnswerServes, CloseServes DEF Listener

LEMMA RunnerServes ==
  LineInv /\ ServeInv /\ (processScript \/ \E t \in Runners : processCommand(t)) => ServeInv'
<1> SUFFICES ASSUME LineInv, ServeInv, processScript \/ \E t \in Runners : processCommand(t)
             PROVE  ServeInv'
  OBVIOUS
<1> USE DEF portVars, netVars, clientVars
<1>1. CASE processScript
  <2>1. /\ \E l : Goto("script", l)
        /\ UNCHANGED <<conn, request, inbox, backlog, order, cur, remote, got, reply, line>>
    BY <1>1 DEF processScript, Begin
  <2> QED
    BY <2>1, ServeElsewhere DEF Threads, Runners
<1>2. ASSUME NEW t \in Runners, processCommand(t) PROVE ServeInv'
  <2>1. /\ pc[t] = "run"
        /\ UNCHANGED <<conn, request, inbox, backlog, order, cur, remote, got, reply>>
    BY <1>2 DEF processCommand, CmdQuit, CmdComment, CmdUse, CmdFade, CmdRun, CommandsDone,
                Ready, At
  <2>2. CASE CommandsDone(t) /\ t = "listener"
    <3>1. Goto("listener", "close") /\ Inside
      BY <2>1, <2>2 DEF CommandsDone, AfterCommands, Inside
    <3> QED
      BY <2>1, <3>1, ServeLeaves
  <2>3. CASE CommandsDone(t) /\ t # "listener"
    <3>1. Goto(t, AfterCommands(t)) /\ UNCHANGED line
      BY <2>3 DEF CommandsDone
    <3> QED
      BY <2>1, <2>3, <3>1, ServeElsewhere DEF Threads
  <2>4. CASE ~CommandsDone(t)
    <3>1. UNCHANGED <<pc, line>>
      BY <1>2, <2>4 DEF processCommand, CmdQuit, CmdComment, CmdUse, CmdFade, CmdRun
    <3> QED
      BY <2>1, <3>1, ServeKept
  <2> QED
    BY <2>2, <2>3, <2>4
<1> QED
  BY <1>1, <1>2

\* A client connects: it waits behind all others.
LEMMA ConnServes ==
  ASSUME NEW c \in Clients, LineInv, ServeInv, conn_(c)
  PROVE  ServeInv'
<1> DEFINE m == Len(order)
           w == Len(backlog)
           a == Accepted
<1>1. /\ conn[c] = "idle" /\ backlog' = Append(backlog, c) /\ order' = Append(order, c)
      /\ conn' = [conn EXCEPT ![c] = "connected"]
      /\ UNCHANGED <<pc, request, inbox, cur, line, remote, got, reply>>
  BY DEF conn_, Client, portVars
<1>2. /\ backlog \in Seq(Clients) /\ order \in Seq(Clients)
      /\ m \in Nat /\ w \in Nat /\ a \in Nat /\ m = a + w
  BY LenProperties DEF LineInv, LineTyped, ServeInv, Queue, Accepted
<1>3. /\ order' \in Seq(Clients) /\ Len(order') = m + 1 /\ order'[m + 1] = c
      /\ \A i \in 1..m : order'[i] = order[i]
  BY <1>1, <1>2, AppendProperties
<1>4. /\ Len(backlog') = w + 1 /\ backlog'[w + 1] = c
      /\ \A i \in 1..w : backlog'[i] = backlog[i]
  BY <1>1, <1>2, AppendProperties
<1>5. Accepted' = a
  BY <1>2, <1>3, <1>4 DEF Accepted
<1>6. \A i \in 1..a : i \in 1..m
  BY <1>2
<1>7. \A i \in 1..m : order[i] # c
  BY <1>1 DEF ServeInv, Queue
<1>8. \A i \in 1..m + 1 : i \in 1..m \/ i = m + 1
  BY <1>2
<1>9. (Inside' <=> Inside) /\ (Loads' <=> Loads) /\ \A d \in Clients : Sent(d)' = Sent(d)
  BY <1>1 DEF Inside, Loads, Sent, ServeInv, ClientTyped
<1> HIDE DEF m, w, a
<1>10. ClientTyped' /\ Answered'
  BY <1>1 DEF ServeInv, ClientTyped, Answered
<1>11. Queue'
  <2>1. \A k \in 1..Len(backlog') : backlog'[k] = order'[Accepted' + k]
    <3> SUFFICES ASSUME NEW k \in 1..w + 1 PROVE backlog'[k] = order'[a + k]
      BY <1>4, <1>5
    <3>1. CASE k \in 1..w
      <4>1. backlog[k] = order[a + k] /\ a + k \in 1..m
        BY <3>1, <1>2 DEF ServeInv, Queue, a, w
      <4> QED
        BY <3>1, <4>1, <1>3, <1>4
    <3>2. CASE k = w + 1
      BY <3>2, <1>2, <1>3, <1>4
    <3> QED
      BY <3>1, <3>2, <1>2
  <2>2. \A i, j \in 1..Len(order') : order'[i] = order'[j] => i = j
    <3> SUFFICES ASSUME NEW i \in 1..m + 1, NEW j \in 1..m + 1, order'[i] = order'[j]
                 PROVE  i = j
      BY <1>3
    <3>1. CASE i \in 1..m /\ j \in 1..m
      BY <3>1, <1>3 DEF ServeInv, Queue, m
    <3>2. CASE ~(i \in 1..m /\ j \in 1..m)
      BY <3>2, <1>3, <1>7, <1>8
    <3> QED
      BY <3>1, <3>2
  <2>3. \A i \in 1..Len(order') : conn'[order'[i]] # "idle"
    <3> SUFFICES ASSUME NEW i \in 1..m + 1 PROVE conn'[order'[i]] # "idle"
      BY <1>3
    <3>1. CASE i \in 1..m
      <4>1. conn[order[i]] # "idle" /\ order[i] \in Clients /\ order[i] # c
        BY <3>1, <1>2, <1>7 DEF ServeInv, Queue, m
      <4> QED
        BY <3>1, <4>1, <1>1, <1>3 DEF ServeInv, ClientTyped
    <3>2. CASE i = m + 1
      BY <3>2, <1>1, <1>3 DEF ServeInv, ClientTyped
    <3> QED
      BY <3>1, <3>2, <1>8
  <2> QED
    BY <2>1, <2>2, <2>3, <1>2, <1>3, <1>5 DEF Queue
<1>12. Serving'
  <2>1. ASSUME Inside PROVE a > 0 /\ cur = order'[a]
    <3>1. a > 0 /\ cur = order[a]
      BY <2>1 DEF ServeInv, Serving, a
    <3>2. a \in 1..m
      BY <3>1, <1>2
    <3> QED
      BY <3>1, <3>2, <1>3
  <2> QED
    BY <2>1, <1>1, <1>5, <1>9 DEF Serving
<1>13. Ran'
  <2>1. \A i \in 1..Len(remote) : \E p \in 1..a : order[p] = remote[i]
    BY DEF ServeInv, Ran, a
  <2>2. \A i \in 1..Len(remote) : \E p \in 1..a : order'[p] = remote[i]
    BY <2>1, <1>3, <1>6
  <2>3. \A i \in 1..Len(remote) : remote[i] # c
    BY <2>1, <1>6, <1>7
  <2>4. \A i, j \in 1..Len(remote), p, q \in 1..Len(order') :
          i < j /\ order'[p] = remote[i] /\ order'[q] = remote[j] => p < q
    <3> SUFFICES ASSUME NEW i \in 1..Len(remote), NEW j \in 1..Len(remote),
                        NEW p \in 1..m + 1, NEW q \in 1..m + 1,
                        i < j, order'[p] = remote[i], order'[q] = remote[j]
                 PROVE  p < q
      BY <1>3
    <3>1. p \in 1..m /\ q \in 1..m
      BY <2>3, <1>3, <1>8
    <3> QED
      BY <3>1, <1>3 DEF ServeInv, Ran, m
  <2>5. remote \in Seq(Clients) /\ (Loads => \A i \in 1..Len(remote) : remote[i] # cur)
    BY DEF ServeInv, Ran
  <2>6. UNCHANGED <<remote, cur>> /\ Accepted' = a
    BY <1>1, <1>5
  <2>7. /\ \A i \in 1..Len(remote') : \E p \in 1..Accepted' : order'[p] = remote'[i]
        /\ \A i, j \in 1..Len(remote'), p, q \in 1..Len(order') :
             i < j /\ order'[p] = remote'[i] /\ order'[q] = remote'[j] => p < q
    BY <2>2, <2>4, <2>6
  <2> QED
    BY <2>5, <2>6, <2>7, <1>9 DEF Ran
<1>14. Arrived'
  <2>1. \A d \in Clients : Fresh(d)' => Fresh(d)
    BY <1>3, <1>5, <1>6 DEF Fresh, a
  <2> QED
    BY <2>1, <1>1, <1>9 DEF ServeInv, Arrived
<1>15. Loaded' /\ Framed'
  <2>1. Loads => cur \in Clients
    <3>1. Loads => a > 0 /\ cur = order[a]
      BY DEF ServeInv, Serving, Loads, Inside, a
    <3> QED
      BY <3>1, <1>2 DEF m
  <2>2. Loads => Sent(cur)' = Sent(cur)
    BY <2>1, <1>1, <1>9 DEF Sent
  <2> QED
    BY <2>2, <1>1, <1>9 DEF ServeInv, Loaded, Framed
<1> QED
  BY <1>10, <1>11, <1>12, <1>13, <1>14, <1>15 DEF ServeInv

\* It sends its request and waits for the answer.
LEMMA TalkServes ==
  ASSUME NEW c \in Clients, LineInv, ServeInv, send_data(c) \/ receive(c)
  PROVE  ServeInv'
<1>1. UNCHANGED <<pc, request, backlog, order, cur, line, remote, reply>>
  BY DEF send_data, receive, portVars, netVars
<1>2. /\ Accepted' = Accepted /\ (Inside' <=> Inside) /\ (Loads' <=> Loads)
      /\ \A d : Fresh(d)' <=> Fresh(d)
  BY <1>1 DEF Accepted, Inside, Loads, Fresh
<1>3. PICK l \in {"sent", "done"} : conn' = [conn EXCEPT ![c] = l]
  BY DEF send_data, receive, Client
<1>4. conn[c] \in {"connected", "sent"} /\ conn \in [Clients -> {"idle", "connected", "sent", "done"}]
  BY DEF send_data, receive, ServeInv, ClientTyped
<1>5. ClientTyped' /\ \A d \in Clients : got'[d] = "answer" => got[d] = "answer" \/ reply[d] = "answer"
  BY <1>1, <1>3 DEF ServeInv, ClientTyped, send_data, receive
<1>6. Answered' /\ Serving' /\ Ran'
  BY <1>1, <1>2, <1>5 DEF ServeInv, Answered, Serving, Ran
<1>7. Queue'
  BY <1>1, <1>2, <1>3, <1>4 DEF ServeInv, Queue
<1>8. /\ Sent(c)' = request[c]
      /\ \A d \in Clients : d # c => Sent(d)' = Sent(d) /\ inbox'[d] = inbox[d]
      /\ \/ inbox'[c] = request[c] /\ Sent(c) = <<>>
         \/ UNCHANGED inbox /\ Sent(c) = request[c]
  <2>1. Sent(c)' = request[c] /\ \A d \in Clients : d # c => Sent(d)' = Sent(d)
    BY <1>1, <1>3, <1>4 DEF Sent
  <2>2. CASE send_data(c)
    BY <2>1, <2>2 DEF send_data, Sent, LineInv, LineTyped
  <2>3. CASE receive(c)
    BY <2>1, <2>3 DEF receive, netVars, Sent
  <2> QED
    BY <2>1, <2>2, <2>3
<1>9. Arrived'
  <2> SUFFICES ASSUME NEW d \in Clients, Fresh(d) PROVE inbox'[d] = Sent(d)'
    BY <1>2 DEF Arrived
  <2>1. inbox[d] = Sent(d)
    BY DEF ServeInv, Arrived
  <2> QED
    BY <2>1, <1>8
<1>10. Loaded'
  <2> SUFFICES ASSUME Loads
               PROVE  /\ Len(line) + Len(inbox'[cur]) = Len(Sent(cur)')
                      /\ \A k \in 1..Len(line) : line[k] = Sent(cur)'[k]
                      /\ \A k \in 1..Len(inbox'[cur]) :
                           inbox'[cur][k] = Sent(cur)'[Len(line) + k]
    BY <1>1, <1>2 DEF Loaded, Sent
  <2>1. /\ Len(line) + Len(inbox[cur]) = Len(Sent(cur))
        /\ \A k \in 1..Len(line) : line[k] = Sent(cur)[k]
        /\ \A k \in 1..Len(inbox[cur]) : inbox[cur][k] = Sent(cur)[Len(line) + k]
    BY DEF ServeInv, Loaded
  <2>2. cur \in Clients
    <3>1. Accepted \in 1..Len(order) /\ cur = order[Accepted] /\ order \in Seq(Clients)
      <4>1. /\ Len(order) \in Nat /\ Len(backlog) \in Nat /\ Accepted \in Nat
            /\ order \in Seq(Clients)
        BY LenProperties DEF ServeInv, Queue, LineInv, LineTyped
      <4>2. Accepted > 0 /\ cur = order[Accepted]
        BY DEF ServeInv, Serving, Loads, Inside
      <4> QED
        BY <4>1, <4>2 DEF Accepted
    <3> QED
      BY <3>1
  <2>4. CASE cur = c /\ Sent(c) = <<>> /\ inbox'[c] = request[c]
    <3>1. Len(line) \in Nat /\ Len(inbox[cur]) \in Nat /\ Len(request[c]) \in Nat
      BY <2>2, LenProperties DEF LineInv, LineTyped
    <3>2. Len(line) = 0
      BY <2>1, <2>4, <3>1
    <3>3. Sent(cur)' = request[c]
      BY <2>4, <1>1, <1>8 DEF Sent
    <3> QED
      BY <2>4, <3>1, <3>2, <3>3
  <2>5. CASE cur = c /\ Sent(c) = request[c] /\ UNCHANGED inbox
    <3>1. Sent(cur)' = Sent(cur)
      BY <2>5, <1>1, <1>8 DEF Sent
    <3> QED
      BY <2>1, <2>5, <3>1
  <2>6. CASE cur # c
    <3>1. Sent(cur)' = Sent(cur) /\ inbox'[cur] = inbox[cur]
      BY <2>2, <2>6, <1>1, <1>8 DEF Sent
    <3> QED
      BY <2>1, <3>1
  <2> QED
    BY <2>4, <2>5, <2>6, <1>8
<1>11. Framed'
  BY <1>1 DEF ServeInv, Framed
<1> QED
  BY <1>5, <1>6, <1>7, <1>9, <1>10, <1>11 DEF ServeInv

LEMMA ServeStep == LineInv /\ ServeInv /\ [Next]_vars => ServeInv'
<1> SUFFICES ASSUME LineInv, ServeInv, [Next]_vars PROVE ServeInv'
  OBVIOUS
<1> USE DEF portVars, netVars, clientVars
<1>1. ASSUME UNCHANGED <<conn, request, inbox, backlog, order, cur, remote, got, reply, line>>,
             UNCHANGED pc \/ \E l : Goto("main", l)
      PROVE  ServeInv'
  <2>1. "main" \in Threads \ {"listener"}
    BY DEF Threads
  <2> QED
    BY <1>1, <2>1, ServeElsewhere
<1>2. ASSUME NEW t \in Threads, Begun(t, FirstStep[t]) \/ (t = "main" /\ Begun(t, "start")),
             UNCHANGED <<conn, request, inbox, backlog, order, cur, remote, got, reply, line>>
      PROVE  ServeInv'
  <2>1. pc'["listener"] = pc["listener"] \/ pc'["listener"] = "socket"
    BY <1>2 DEF Begun, FirstStep, LineInv, Threads, Runners
  <2> QED
    BY <1>2, <2>1, ServeKept DEF Loads, Inside
<1>3. CASE initGFX
  <2>1. "main" \in Threads
    BY DEF Threads
  <2>2. /\ UNCHANGED <<conn, request, inbox, backlog, order, cur, remote, got, reply, line>>
        /\ Begun("main", "start") \/ UNCHANGED pc
    BY <1>3 DEF initGFX
  <2> QED
    BY <1>1, <1>2, <2>1, <2>2
<1>4. CASE initThreadsAndHandlers
  <2>1. PICK t \in Threads \ {"main"} :
          Begun(t, FirstStep[t]) \/ UNCHANGED pc
    BY <1>4 DEF initThreadsAndHandlers
  <2> QED
    BY <1>1, <1>2, <1>4, <2>1 DEF initThreadsAndHandlers
<1>5. CASE HandleEvent \/ WaitFails \/ cleanupGFX \/ sig_handler
  BY <1>1, <1>5 DEF HandleEvent, WaitFails, cleanupGFX, sig_handler
<1>6. ASSUME NEW e \in WindowEvents, EventFilter(e) PROVE ServeInv'
  BY <1>1, <1>6 DEF EventFilter
<1>7. CASE OpenGate
  BY <1>1, <1>7 DEF OpenGate
<1>8. ASSUME NEW t, Sweep(t) PROVE ServeInv'
  BY <1>1, <1>8 DEF Sweep
<1>9. CASE UNCHANGED vars
  BY <1>1, <1>9 DEF vars
<1>10. ASSUME NEW c \in Clients, wallyc(c) PROVE ServeInv'
  BY <1>10, ConnServes, TalkServes DEF wallyc
<1> QED
  BY <1>3, <1>4, <1>5, <1>6, <1>7, <1>8, <1>9, <1>10, ListenerServes, RunnerServes
     DEF Next, Main, Environment

\* The line that is answered is the request up to its first line end.
LEMMA FirstLine ==
  ASSUME LineInv, ServeInv, pc["listener"] = "answer"
  PROVE  line = SubSeq(request[cur], 1, Newline(request[cur]))
<1> DEFINE s == Sent(cur)
           n == Len(line)
           r == request[cur]
<1>1. /\ n > 0 /\ line[n] = NL /\ \A k \in 1..n - 1 : line[k] # NL
  BY DEF ServeInv, Framed
<1>2. cur \in Clients
  <2>1. /\ Len(order) \in Nat /\ Len(backlog) \in Nat /\ Accepted \in Nat
        /\ order \in Seq(Clients)
    BY LenProperties DEF ServeInv, Queue, LineInv, LineTyped
  <2>2. Accepted > 0 /\ cur = order[Accepted]
    BY DEF ServeInv, Serving, Inside
  <2>3. Accepted \in 1..Len(order)
    BY <2>1, <2>2 DEF Accepted
  <2> QED
    BY <2>1, <2>2, <2>3
<1>3. /\ line \in Seq(Letters) /\ inbox[cur] \in Seq(Letters) /\ r \in Seq(Letters)
      /\ n \in Nat /\ Len(inbox[cur]) \in Nat
  BY <1>2, LenProperties DEF LineInv, LineTyped
<1>4. n + Len(inbox[cur]) = Len(s) /\ \A k \in 1..n : line[k] = s[k]
  BY DEF ServeInv, Loaded, Loads
<1>5. s = r
  <2>1. s = r \/ Len(s) = 0
    BY DEF Sent
  <2> QED
    BY <2>1, <1>1, <1>3, <1>4
<1> HIDE DEF s, r
<1>6. n <= Len(r) /\ Len(r) \in Nat /\ DOMAIN r = 1..Len(r) /\ \A k \in 1..n : line[k] = r[k]
  BY <1>3, <1>4, <1>5, LenProperties
<1>7. Newline(r) = n
  <2> DEFINE P(i) == r[i] = NL /\ \A j \in 1..i - 1 : r[j] # NL
  <2>1. n \in DOMAIN r /\ P(n)
    BY <1>1, <1>3, <1>6
  <2>2. ASSUME NEW i \in DOMAIN r, P(i) PROVE i = n
    <3>1. ~(n < i)
      BY <2>1, <2>2, <1>1, <1>3, <1>6
    <3>2. ~(i < n)
      BY <2>1, <2>2, <1>1, <1>3, <1>6
    <3> QED
      BY <3>1, <3>2, <1>3, <1>6, <2>2
  <2>3. (CHOOSE i \in DOMAIN r : P(i)) = n
    <3> HIDE DEF P
    <3> QED
      BY <2>1, <2>2
  <2> QED
    BY <2>3 DEF Newline
<1>8. /\ SubSeq(r, 1, n) \in Seq(Letters) /\ Len(SubSeq(r, 1, n)) = n
      /\ \A k \in 1..n : SubSeq(r, 1, n)[k] = r[k]
  <2>1. \A k \in 1..n : r[k] \in Letters
    BY <1>3, <1>6
  <2> HIDE DEF n
  <2>2. /\ SubSeq(r, 1, n) \in Seq(Letters)
        /\ Len(SubSeq(r, 1, n)) = IF 1 <= n THEN n - 1 + 1 ELSE 0
        /\ \A k \in 1..n - 1 + 1 : SubSeq(r, 1, n)[k] = r[1 + k - 1]
    BY <2>1, <1>3, SubSeqProperties
  <2> QED
    BY <2>2, <1>1, <1>3
<1>9. line = SubSeq(r, 1, n)
  BY <1>3, <1>6, <1>8, SeqEqual
<1> QED
  BY <1>7, <1>9 DEF r

\* Of every connection at most one line runs, in the order of the connections, and
\* it is the first line of the request, however its bytes arrive and whoever else
\* connects meanwhile; an answer says that it ran.
THEOREM ServedInTurn == Spec => []ServedOnce
<1>1. LineInv /\ ServeInv => \A i, j \in DOMAIN remote : i < j => Place(remote[i]) < Place(remote[j])
  <2> SUFFICES ASSUME LineInv, ServeInv, NEW i \in DOMAIN remote, NEW j \in DOMAIN remote, i < j
               PROVE  Place(remote[i]) < Place(remote[j])
    OBVIOUS
  <2>1. DOMAIN remote = 1..Len(remote) /\ DOMAIN order = 1..Len(order)
    BY LenProperties DEF ServeInv, Ran, Queue
  <2>2. ASSUME NEW k \in 1..Len(remote)
        PROVE  Place(remote[k]) \in 1..Len(order) /\ order[Place(remote[k])] = remote[k]
    <3>1. PICK p \in 1..Accepted : order[p] = remote[k]
      BY DEF ServeInv, Ran
    <3>2. p \in 1..Len(order)
      <4>1. Len(order) \in Nat /\ Len(backlog) \in Nat
        BY LenProperties DEF ServeInv, Queue, LineInv, LineTyped
      <4> QED
        BY <4>1 DEF Accepted
    <3> QED
      BY <3>1, <3>2, <2>1 DEF Place
  <2> QED
    BY <2>1, <2>2 DEF ServeInv, Ran
<1>2. ServeInv => \A c \in Clients : got[c] = "answer" => \E i \in DOMAIN remote : remote[i] = c
  BY LenProperties DEF ServeInv, Answered, Ran
<1>3. LineInv /\ ServeInv => ServedOnce
  BY <1>1, <1>2, FirstLine DEF ServedOnce
<1> QED
  BY <1>3, LineInit, LineStep, ServeInit, ServeStep, PTL DEF Spec
-------------------------------------------------------------------------------
(***************************************************************************)
(* Types                                                                   *)
(***************************************************************************)
TextCommands == Seq(Commands) \cup {Missing}

Typed ==
  /\ proc \in {"up", "exited", "crash_slots", "crash_empty", "crash_join"}
  /\ \A t \in Threads : pc[t] \in Ids(t)
  /\ begun \in 0..5
  /\ quit \in BOOLEAN /\ eventLoop \in BOOLEAN /\ blockCommands \in BOOLEAN
  /\ sigint \in BOOLEAN /\ live \in BOOLEAN /\ port \in BOOLEAN /\ unset \in BOOLEAN
  /\ events \in 0..MaxEvents
  /\ freed \in 0..TEXTURE_SLOTS + 1
  /\ script \in TextCommands
  /\ todo \in [Runners -> Seq(Commands)]
  /\ cur \in Clients \cup {Nobody}
  /\ Len(backlog) <= Backlog

\* A thread goes to one of its own places.
LEMMA GoneTo ==
  ASSUME LineInv, Typed, NEW t \in Threads, NEW l \in Ids(t), Goto(t, l) \/ UNCHANGED pc
  PROVE  \A u \in Threads : pc'[u] \in Ids(u)
BY DEF Goto, LineInv, Typed

\* What is left of a thread's commands, and what it begins with.
LEMMA Todo ==
  ASSUME Typed, NEW t \in Runners, NEW cs \in Seq(Commands), todo' = [todo EXCEPT ![t] = cs]
  PROVE  todo' \in [Runners -> Seq(Commands)]
BY DEF Typed

LEMMA TypedInit == Init => Typed
<1> SUFFICES ASSUME Init PROVE Typed
  OBVIOUS
<1>1. \A t \in Threads : pc[t] \in Ids(t)
  BY DEF Init, Ids, Threads, Runners
<1>2. todo \in [Runners -> Seq(Commands)]
  BY DEF Init
<1>3. script \in TextCommands /\ Len(backlog) <= Backlog
  BY ServiceAssumption, EmptySeq DEF Init, TextCommands
<1>4. 0 \in 0..MaxEvents /\ 0 \in 0..TEXTURE_SLOTS + 1
  BY ServiceAssumption
<1>5. /\ quit \in BOOLEAN /\ eventLoop \in BOOLEAN /\ blockCommands \in BOOLEAN
      /\ sigint \in BOOLEAN /\ live \in BOOLEAN /\ port \in BOOLEAN /\ unset \in BOOLEAN
  BY Zenon DEF Init
<1>6. /\ proc \in {"up", "exited", "crash_slots", "crash_empty", "crash_join"}
      /\ begun \in 0..5 /\ cur \in Clients \cup {Nobody}
      /\ events \in 0..MaxEvents /\ freed \in 0..TEXTURE_SLOTS + 1
  BY <1>4 DEF Init
<1> QED
  BY <1>1, <1>2, <1>3, <1>5, <1>6 DEF Typed

LEMMA UseSlotsTyped == ASSUME Typed, UseSlots PROVE proc' \in {"up", "exited", "crash_slots", "crash_empty", "crash_join"}
BY DEF UseSlots, Typed

LEMMA MainTyped ==
  ASSUME SInv, LineInv, Typed, Main \/ WaitFails \/ \E e \in WindowEvents : EventFilter(e)
  PROVE  Typed'
<1> USE DEF loopVars, slotVars, runVars, portVars, netVars
<1>1. "main" \in Threads /\ Ids("main") = {"start", "wait", "clean"}
  BY DEF Threads, Ids
<1>2. ASSUME NEW t \in Threads, NEW l \in Ids(t), t = "main" => l = "start",
             Begun(t, l), pc["main"] = "start"
      PROVE  begun' \in 0..5 /\ \A u \in Threads : pc'[u] \in Ids(u)
  <2>1. begun' = begun + 1 /\ begun < 5 /\ begun \in 0..5
    BY <1>2 DEF Begun, SInv, Started, Typed
  <2>2. pc'["main"] \in {"start", "wait"}
    BY <1>1, <1>2 DEF Begun, LineInv
  <2>3. \A u \in Threads \ {"main"} : pc'[u] \in Ids(u)
    BY <1>1, <1>2 DEF Begun, LineInv, Typed
  <2> QED
    BY <2>1, <2>2, <2>3, <1>1
<1>3. CASE initGFX
  <2>1. /\ pc["main"] = "start" /\ live' = TRUE
        /\ \/ Begun("main", "start") /\ UNCHANGED proc
           \/ Exit /\ UNCHANGED <<pc, begun>>
        /\ UNCHANGED <<sigint, freed, loopVars, runVars, portVars, backlog>>
    BY <1>3 DEF initGFX, Starting, At
  <2>2. begun' \in 0..5 /\ \A u \in Threads : pc'[u] \in Ids(u)
    BY <2>1, <1>1, <1>2 DEF Typed
  <2> QED
    BY <2>1, <2>2 DEF Typed, Exit
<1>4. CASE initThreadsAndHandlers
  <2>1. PICK t \in Threads \ {"main"} :
          /\ pc["main"] = "start"
          /\ \/ Begun(t, FirstStep[t]) /\ UNCHANGED proc
             \/ Exit /\ UNCHANGED <<pc, begun>>
    BY <1>4 DEF initThreadsAndHandlers, Starting, At
  <2>2. FirstStep[t] \in Ids(t)
    BY DEF FirstStep, Ids, Threads, Runners
  <2>3. begun' \in 0..5 /\ \A u \in Threads : pc'[u] \in Ids(u)
    BY <2>1, <2>2, <1>2 DEF Typed
  <2> QED
    BY <2>1, <2>3, <1>4 DEF Typed, Exit, initThreadsAndHandlers
<1>5. CASE HandleEvent
  <2>1. /\ events > 0 /\ events' = events - 1 /\ eventLoop' = TRUE /\ UseSlots
        /\ \E l \in {"clean", "wait"} : Goto("main", l)
        /\ UNCHANGED <<begun, quit, sigint, slotVars, runVars, portVars, backlog>>
    BY <1>5 DEF HandleEvent
  <2>2. \A u \in Threads : pc'[u] \in Ids(u)
    BY <2>1, <1>1, GoneTo
  <2>3. events' \in 0..MaxEvents
    BY <2>1, ServiceAssumption DEF Typed
  <2> QED
    BY <2>1, <2>2, <2>3, UseSlotsTyped DEF Typed
<1>6. CASE WaitFails
  <2>1. \A u \in Threads : pc'[u] \in Ids(u)
    BY <1>1, <1>6, GoneTo DEF WaitFails
  <2> QED
    BY <2>1, <1>6 DEF WaitFails, Typed
<1>7. ASSUME NEW e \in WindowEvents, EventFilter(e) PROVE Typed'
  <2>1. events' \in 0..MaxEvents /\ quit' \in BOOLEAN
    BY <1>7, ServiceAssumption DEF EventFilter, Typed
  <2> QED
    BY <2>1, <1>7 DEF EventFilter, Typed
<1>8. CASE cleanupGFX
  <2>1. /\ freed' \in 0..TEXTURE_SLOTS + 1
        /\ UseSlots \/ UNCHANGED proc \/ proc' = "exited"
    BY <1>8, ServiceAssumption DEF cleanupGFX, FreesMore, Exit, Typed
  <2>2. UNCHANGED <<pc, begun, sigint, live, loopVars, runVars, portVars, backlog>>
    BY <1>8 DEF cleanupGFX
  <2> QED
    BY <2>1, <2>2, UseSlotsTyped DEF Typed
<1>9. CASE sig_handler
  BY <1>9 DEF sig_handler, Exit, Typed
<1> QED
  BY <1>3, <1>4, <1>5, <1>6, <1>7, <1>8, <1>9 DEF Main

LEMMA RunnerTyped ==
  ASSUME LineInv, Typed, NEW t \in Runners, processCommand(t)
  PROVE  Typed'
<1> USE DEF loopVars, slotVars, portVars, netVars
<1>1. t \in Threads /\ todo[t] \in Seq(Commands)
  BY DEF Threads, Typed
<1>2. todo[t] # <<>> => Tail(todo[t]) \in Seq(Commands)
  BY <1>1
<1>3. ASSUME Drop(t), todo[t] # <<>> PROVE todo' \in [Runners -> Seq(Commands)]
  BY <1>2, <1>3, Todo DEF Drop
<1>4. CASE CmdQuit(t)
  BY <1>3, <1>4 DEF CmdQuit, Ready, Typed
<1>5. CASE CmdComment(t)
  BY <1>3, <1>5 DEF CmdComment, Ready, Typed
<1>6. CASE CmdUse(t)
  BY <1>3, <1>6, UseSlotsTyped DEF CmdUse, Ready, Typed
<1>7. CASE CmdFade(t)
  <2>1. events' \in 0..MaxEvents
    BY <1>7, ServiceAssumption DEF CmdFade, Typed
  <2> QED
    BY <2>1, <1>3, <1>7, UseSlotsTyped DEF CmdFade, Ready, Typed
<1>8. CASE CmdRun(t)
  <2> DEFINE text == IF RunScript = Missing THEN <<>> ELSE RunScript
  <2>1. /\ todo[t] # <<>> /\ todo' = [todo EXCEPT ![t] = text \o Tail(@)]
        /\ proc' = "crash_empty" \/ UNCHANGED proc
        /\ UNCHANGED <<pc, begun, sigint, blockCommands, script, slotVars, loopVars, portVars,
                       backlog>>
    BY <1>8 DEF CmdRun, Ready
  <2>2. text \in Seq(Commands)
    BY ServiceAssumption
  <2> HIDE DEF text
  <2>3. text \o Tail(todo[t]) \in Seq(Commands)
    BY <2>1, <2>2, <1>2, ConcatProperties
  <2>4. todo' = [todo EXCEPT ![t] = text \o Tail(todo[t])]
    BY <2>1
  <2>5. todo' \in [Runners -> Seq(Commands)]
    BY <2>3, <2>4, Todo
  <2> QED
    BY <2>1, <2>5 DEF Typed
<1>9. CASE CommandsDone(t)
  <2>1. AfterCommands(t) \in Ids(t)
    BY DEF AfterCommands, Ids, Runners
  <2>2. \A u \in Threads : pc'[u] \in Ids(u)
    BY <2>1, <1>1, <1>9, GoneTo DEF CommandsDone
  <2> QED
    BY <2>2, <1>9 DEF CommandsDone, runVars, Typed
<1> QED
  BY <1>4, <1>5, <1>6, <1>7, <1>8, <1>9 DEF processCommand

LEMMA ScriptTyped ==
  ASSUME LineInv, Typed, processScript
  PROVE  Typed'
<1> USE DEF loopVars, slotVars, portVars, netVars
<1>1. \E l \in {"run", "done"} : Goto("script", l)
  BY DEF processScript, Begin
<1>2. "script" \in Threads /\ "script" \in Runners /\ Ids("script") = {"none", "wait", "run", "done"}
  BY DEF Threads, Runners, Ids
<1>3. \A u \in Threads : pc'[u] \in Ids(u)
  BY <1>1, <1>2, GoneTo
<1>4. todo' \in [Runners -> Seq(Commands)]
  <2>1. CASE script = Missing
    BY <2>1 DEF processScript, Typed
  <2>2. CASE script # Missing
    <3>1. script \in Seq(Commands) /\ todo' = [todo EXCEPT !["script"] = script]
      BY <2>2 DEF processScript, Begin, Typed, TextCommands
    <3> QED
      BY <3>1, <1>2, Todo
  <2> QED
    BY <2>1, <2>2
<1>5. proc' = "crash_empty" \/ UNCHANGED proc
  BY DEF processScript, Begin
<1>6. UNCHANGED <<begun, sigint, blockCommands, script, slotVars, loopVars, portVars, backlog>>
  BY DEF processScript
<1> QED
  BY <1>3, <1>4, <1>5, <1>6 DEF Typed

LEMMA ListenerTyped ==
  ASSUME LineInv, ServeInv, Typed, Listener \/ AcceptFails
  PROVE  Typed'
<1> USE DEF loopVars, slotVars, runVars, portVars, netVars
<1>1. /\ "listener" \in Threads /\ "listener" \in Runners
      /\ Ids("listener") = {"none", "socket", "join", "accept", "read", "answer", "run",
                            "close", "dead"}
  BY DEF Threads, Runners, Ids
<1>2. ASSUME NEW l \in Ids("listener"), Goto("listener", l) \/ UNCHANGED pc
      PROVE  \A u \in Threads : pc'[u] \in Ids(u)
  BY <1>1, <1>2, GoneTo
<1>3. CASE OpenPort
  BY <1>1, <1>2, <1>3 DEF OpenPort, Typed
<1>4. CASE JoinStartup
  <2>1. /\ proc' \in {"crash_join", proc} /\ unset' \in {TRUE, unset}
        /\ Goto("listener", "accept") \/ UNCHANGED pc
        /\ UNCHANGED <<begun, sigint, port, cur, script, todo, blockCommands, slotVars, loopVars,
                       backlog>>
    BY <1>4 DEF JoinStartup
  <2>2. \A u \in Threads : pc'[u] \in Ids(u)
    BY <1>1, <1>2, <2>1
  <2>3. /\ proc \in {"up", "exited", "crash_slots", "crash_empty", "crash_join"}
        /\ unset \in BOOLEAN
    BY DEF Typed
  <2>4. /\ proc' \in {"up", "exited", "crash_slots", "crash_empty", "crash_join"}
        /\ unset' \in BOOLEAN
    BY <2>1, <2>3
  <2> QED
    BY <2>1, <2>2, <2>4, Zenon DEF Typed
<1>5. CASE AcceptFails
  BY <1>1, <1>2, <1>5 DEF AcceptFails, Typed
<1>6. CASE ReadFails
  BY <1>1, <1>2, <1>6 DEF ReadFails, Typed
<1>7. CASE CloseConnection
  BY <1>1, <1>2, <1>7 DEF CloseConnection, Typed
<1>8. CASE ReadByte
  <2>1. /\ UNCHANGED <<proc, begun, sigint, port, unset, cur, slotVars, loopVars, runVars, backlog>>
        /\ \E l \in {"answer", "close"} : Goto("listener", l) \/ UNCHANGED pc
    BY <1>8 DEF ReadByte
  <2> QED
    BY <2>1, <1>1, <1>2 DEF Typed
<1>9. CASE Accept
  <2>1. /\ backlog # <<>> /\ cur' = Head(backlog) /\ backlog' = Tail(backlog)
        /\ \E l \in {"read", "close"} : Goto("listener", l)
        /\ UNCHANGED <<proc, begun, sigint, port, unset, slotVars, loopVars, runVars>>
    BY <1>9 DEF Accept
  <2>2. backlog \in Seq(Clients) /\ Len(backlog) \in Nat
    BY LenProperties DEF LineInv, LineTyped
  <2>3. cur' \in Clients /\ Len(backlog') = Len(backlog) - 1
    BY <2>1, <2>2, HeadTailProperties
  <2>4. Len(backlog') <= Backlog
    BY <2>2, <2>3, ServiceAssumption DEF Typed
  <2> QED
    BY <2>1, <2>3, <2>4, <1>1, <1>2 DEF Typed
<1>10. CASE AnswerAndRun
  <2> DEFINE text == IF Len(line) = 1 THEN <<>> ELSE <<line[1]>>
  <2>1. /\ pc["listener"] = "answer" /\ Begin("listener", text)
        /\ UNCHANGED <<begun, sigint, port, unset, cur, backlog, blockCommands, script, slotVars,
                       loopVars>>
    BY <1>10 DEF AnswerAndRun, At
  <2>2. text \in Seq(Commands)
    <3>1. line \in Seq(Letters) /\ Len(line) \in Nat \ {0} /\ \A k \in 1..Len(line) - 1 : line[k] # NL
      BY <2>1, LenProperties DEF LineInv, LineTyped, ServeInv, Framed
    <3>2. Len(line) # 1 => 1 \in 1..Len(line) - 1 /\ 1 \in 1..Len(line)
      <4>1. \A n \in Nat \ {0} : n # 1 => 1 \in 1..n - 1 /\ 1 \in 1..n
        OBVIOUS
      <4> QED
        BY <4>1, <3>1
    <3>3. Len(line) # 1 => line[1] \in Letters /\ line[1] # NL
      BY <3>1, <3>2
    <3> QED
      BY <3>3 DEF Letters
  <2> HIDE DEF text
  <2>3. todo' \in [Runners -> Seq(Commands)]
    BY <2>1, <2>2, <1>1, Todo DEF Begin
  <2>4. proc' = "crash_empty" \/ UNCHANGED proc
    BY <2>1 DEF Begin
  <2>5. \A u \in Threads : pc'[u] \in Ids(u)
    BY <2>1, <1>1, <1>2 DEF Begin
  <2> QED
    BY <2>1, <2>3, <2>4, <2>5 DEF Typed
<1> QED
  BY <1>3, <1>4, <1>5, <1>6, <1>7, <1>8, <1>9, <1>10 DEF Listener

LEMMA TypedStep == SInv /\ LineInv /\ ServeInv /\ Typed /\ [Next]_vars => Typed'
<1> SUFFICES ASSUME SInv, LineInv, ServeInv, Typed, [Next]_vars PROVE Typed'
  OBVIOUS
<1> USE DEF loopVars, slotVars, runVars, portVars, netVars
<1>1. CASE OpenGate
  BY <1>1 DEF OpenGate, Typed
<1>2. ASSUME NEW t, Sweep(t) PROVE Typed'
  BY <1>2, UseSlotsTyped DEF Sweep, Typed
<1>3. ASSUME NEW c \in Clients, wallyc(c) PROVE Typed'
  <2>1. UNCHANGED <<proc, pc, begun, sigint, slotVars, loopVars, runVars, port, unset, cur>>
    BY <1>3 DEF wallyc, conn_, send_data, receive
  <2>2. Len(backlog') <= Backlog
    <3>1. CASE conn_(c)
      <4>1. Len(backlog) < Backlog /\ backlog' = Append(backlog, c)
        BY <3>1 DEF conn_
      <4>2. Len(backlog') = Len(backlog) + 1 /\ Len(backlog) \in Nat
        BY <4>1, AppendProperties, LenProperties DEF LineInv, LineTyped
      <4> QED
        BY <4>1, <4>2, ServiceAssumption
    <3>2. CASE ~conn_(c)
      BY <1>3, <3>2 DEF wallyc, send_data, receive, Typed
    <3> QED
      BY <3>1, <3>2
  <2> QED
    BY <2>1, <2>2 DEF Typed
<1>4. CASE UNCHANGED vars
  BY <1>4 DEF vars, Typed
<1> QED
  BY <1>1, <1>2, <1>3, <1>4, MainTyped, RunnerTyped, ScriptTyped, ListenerTyped
     DEF Next, Environment

\* Every variable keeps its type; no slot is released twice (430-439), the start
\* takes no step twice, the kernel's queue stays in its bound, and whatever a line
\* holds, what is executed of it is a command or a comment.
THEOREM ServiceTyped == Spec => []TypeOK
<1>1. Init => SInv /\ LineInv /\ ServeInv /\ Typed
  BY SInit, LineInit, ServeInit, TypedInit
<1>2. SInv /\ LineInv /\ ServeInv /\ Typed /\ [Next]_vars
        => (SInv /\ LineInv /\ ServeInv /\ Typed)'
  BY SStep, LineStep, ServeStep, TypedStep
<1>3. ServeInv /\ Typed => TypeOK
  BY DEF Typed, ServeInv, ClientTyped, TypeOK, StartOrder
<1> QED
  BY <1>1, <1>2, <1>3, PTL DEF Spec
===============================================================================
