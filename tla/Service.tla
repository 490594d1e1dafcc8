-------------------------------- MODULE Service --------------------------------
(***************************************************************************)
(* The life of the wallystart process and its command port: main starts    *)
(* and ends the program (wallystart.c 6-65, wallylib.c 374-442, 563-600),  *)
(* the start script runs (wallystart.c 380-411), the listener serves one   *)
(* line of each connection (wallylistener.c), and wallyc sends commands    *)
(* (wallyc.cpp, tcp.cpp).                                                  *)
(*                                                                         *)
(* What commands do to pictures and texts is in FadeEngine and TextSlots.  *)
(* Here a line is one command, named by its first letter:                  *)
(*    u  uses the slots      f  starts a fade and closes the gate          *)
(*    r  runs a script       q  quits        #  is a comment               *)
(* SDL, the kernel's sockets and signals are the environment.              *)
(***************************************************************************)
EXTENDS Integers, Sequences, FiniteSets

CONSTANTS
  Clients,           \* runs of wallyc
  Requests,          \* what each client may send: sequences of letters and NL
  Scripts,           \* what the start script may hold: sequences of commands
  RunScript,         \* what the command run finds in its file
  TEXTURE_SLOTS,
  BufSize, BufStep,  \* sgetline's first buffer and what it grows by: 1024, 128
  Backlog,           \* connections the kernel keeps for accept: 5
  MaxEvents          \* bound: SDL events that wait

NL       == "NL"
Nobody   == "nobody"
Missing  == <<"missing">>     \* a script that cannot be opened
Runners  == {"script", "listener"}
Threads  == {"main", "fader", "timer"} \cup Runners

\* What a request is made of: commands of a letter, a comment sign, line ends.
Commands == {"u", "f", "r", "q", "#"}
Letters  == Commands \cup {NL}

ASSUME ServiceAssumption ==
  /\ Requests \subseteq [Clients -> Seq(Letters)]
  /\ Scripts \subseteq Seq(Commands) \cup {Missing} /\ RunScript \in Seq(Commands) \cup {Missing}
  /\ TEXTURE_SLOTS \in Nat /\ Backlog \in Nat /\ MaxEvents \in Nat
  /\ BufSize \in Nat \ {0} /\ BufStep \in Nat \ {0}
  /\ Nobody \notin Clients

VARIABLES
  proc,              \* the process: up, exited, or crashed and why
  pc,                \* where each thread is
  begun,             \* steps of its start that main has taken
  quit, eventLoop, blockCommands,
  sigint,            \* a SIGINT is pending
  events,            \* SDL events that wait
  live, freed,       \* the slots were allocated; steps of their release
  script,            \* the start script
  todo,              \* the commands each runner still has to execute
  port,              \* the port is bound and listened to
  backlog, cur,      \* connections not accepted yet, and the accepted one
  line, size,        \* sgetline: the bytes loaded, the size of the buffer
  unset,             \* history: the listener has joined an id that was not stored yet
  conn,              \* each client: idle, connected, sent, done
  request, inbox,    \* what each client sends; what of it the server has not read
  reply, got,        \* answer written, or connection closed; what the client saw
  order, remote      \* history: clients as they connected; those whose line ran

vars == <<proc, pc, begun, quit, eventLoop, blockCommands, sigint, events, live, freed,
          script, todo, port, unset, backlog, cur, line, size, conn, request, inbox,
          reply, got, order, remote>>

loopVars   == <<quit, eventLoop, events>>
slotVars   == <<live, freed>>
runVars    == <<blockCommands, script, todo>>
portVars   == <<port, unset, cur, line, size, remote>>
clientVars == <<conn, request, got, order>>
netVars    == <<backlog, inbox, reply>>

Init ==
  /\ proc = "up" /\ begun = 0 /\ sigint = FALSE
  /\ pc = [t \in Threads |-> IF t = "main" THEN "start" ELSE "none"]
  /\ quit = FALSE /\ eventLoop = FALSE /\ events = 0
  /\ live = FALSE /\ freed = 0
  /\ blockCommands = FALSE /\ script \in Scripts /\ todo = [t \in Runners |-> <<>>]
  /\ port = FALSE /\ unset = FALSE /\ cur = Nobody /\ line = <<>> /\ size = 0
  /\ remote = <<>> /\ order = <<>> /\ backlog = <<>>
  /\ conn = [c \in Clients |-> "idle"] /\ request \in Requests
  /\ inbox = [c \in Clients |-> <<>>] /\ reply = [c \in Clients |-> "none"]
  /\ got = [c \in Clients |-> "none"]

-------------------------------------------------------------------------------
At(t, l)   == proc = "up" /\ pc[t] = l
Goto(t, l) == pc' = [pc EXCEPT ![t] = l]

Exit == proc' = "exited"

\* A slot is read or written: before they are allocated or after their release the
\* process crashes or goes on with what it finds.
UseSlots == IF live /\ freed = 0 THEN UNCHANGED proc ELSE proc' \in {"up", "crash_slots"}

-------------------------------------------------------------------------------
\* Defect: the threads are started before the slots are allocated.
ThreadsFirst == <<"listener", "script", "fader", "timer", "gfx">>

\* wallystart.c 17-23, wallylib.c 572-600: the order in which main starts things.
StartOrder == <<"gfx", "listener", "script", "fader", "timer">>

Starting(what) == At("main", "start") /\ StartOrder[begun + 1] = what

\* main goes on with what comes next in its start.
Begun(t, l) ==
  /\ begun' = begun + 1
  /\ pc' = [pc EXCEPT !["main"] = IF begun' = Len(StartOrder) THEN "wait" ELSE @,
                      ![t] = IF t = "main" THEN @ ELSE l]

\* 374-426: the slots are allocated, then SDL is loaded, which may fail.
initGFX ==
  /\ Starting("gfx")
  /\ live' = TRUE
  /\ \/ Begun("main", "start") /\ UNCHANGED proc
     \/ Exit /\ UNCHANGED <<pc, begun>>
  /\ UNCHANGED <<sigint, freed, loopVars, runVars, portVars, clientVars, netVars>>

FirstStep == [listener |-> "socket", script |-> "wait", fader |-> "sweep", timer |-> "sweep"]

\* 572-600: the four threads are created in this order; a failure ends the program.
initThreadsAndHandlers ==
  /\ \E t \in Threads \ {"main"} :
       /\ Starting(t)
       /\ \/ Begun(t, FirstStep[t]) /\ UNCHANGED proc
          \/ Exit /\ UNCHANGED <<pc, begun>>
  /\ UNCHANGED <<sigint, slotVars, loopVars, runVars, portVars, clientVars, netVars>>

\* 25-60: the first event that main sees starts the start script.  Only main's own
\* filter and a signal set quit, so that it is tested here.
HandleEvent ==
  /\ At("main", "wait") /\ events > 0
  /\ events' = events - 1
  /\ eventLoop' = TRUE
  /\ UseSlots
  /\ Goto("main", IF quit THEN "clean" ELSE "wait")
  /\ UNCHANGED <<begun, quit, sigint, slotVars, runVars, portVars, clientVars, netVars>>

\* 25: SDL_WaitEvent fails, which ends the loop.
WaitFails ==
  /\ At("main", "wait")
  /\ Goto("main", "clean")
  /\ UNCHANGED <<proc, begun, sigint, slotVars, loopVars, runVars, portVars, clientVars,
                 netVars>>

WindowEvents == {"exposed", "resized", "shown", "motion", "key", "escape", "click", "close"}
Quitting     == {"escape", "click", "close"}

\* Defect: the filter keeps ESC for itself.
DropsEscape(e) == e \in {"exposed", "resized", "click", "close"}

\* wallylib.c 81-129: what EventFilter lets through.
Passes(e) == e \in {"exposed", "resized", "escape", "click", "close"}

\* wallylib.c 81-129: main runs the filter when it pumps a window event.
EventFilter(e) ==
  /\ At("main", "wait") /\ events < MaxEvents
  /\ quit' = (quit \/ e \in Quitting)
  /\ events' = IF Passes(e) THEN events + 1 ELSE events
  /\ UNCHANGED <<proc, pc, begun, eventLoop, sigint, slotVars, runVars, portVars,
                 clientVars, netVars>>

\* Defect: the loop over the text slots runs too far.
FreesTooMany == freed <= TEXTURE_SLOTS + 1

\* wallylib.c 430-439: one step for each picture slot and one for the text slots.
FreesMore == freed <= TEXTURE_SLOTS

\* wallylib.c 428-442: the picture slots are released one by one; a texture is
\* destroyed first, and the redraw in destroyTexture (493) looks at all picture
\* slots, released or not.  Nobody waits for the other threads.
cleanupGFX ==
  /\ At("main", "clean")
  /\ IF FreesMore
     THEN /\ freed' = freed + 1
          /\ IF freed < TEXTURE_SLOTS THEN UseSlots ELSE UNCHANGED proc
     ELSE Exit /\ UNCHANGED freed
  /\ UNCHANGED <<pc, begun, sigint, live, loopVars, runVars, portVars, clientVars, netVars>>

\* wallylib.c 563-570: the signal ends the process, whatever its threads do.
sig_handler ==
  /\ proc = "up" /\ sigint
  /\ Exit
  /\ quit' = TRUE
  /\ UNCHANGED <<pc, begun, eventLoop, events, sigint, slotVars, runVars, portVars,
                 clientVars, netVars>>

Main == \/ initGFX \/ initThreadsAndHandlers \/ HandleEvent \/ cleanupGFX
        \/ sig_handler

-------------------------------------------------------------------------------
\* wallystart.c 118-203, 413-435: the fader and the timer go through the slots; they
\* stop some time after quit is set, and may go on until then.
Sweep(t) ==
  /\ At(t, "sweep")
  /\ UseSlots
  /\ UNCHANGED <<pc, begun, sigint, slotVars, loopVars, runVars, portVars, clientVars, netVars>>

\* wallystart.c 133, 181: the end of a fade opens the gate.  That it comes is not
\* promised: see the ways in which FadeEngine leaves the gate closed.
OpenGate ==
  /\ proc = "up" /\ blockCommands /\ pc["fader"] = "sweep"
  /\ blockCommands' = FALSE
  /\ UNCHANGED <<proc, pc, begun, sigint, script, todo, slotVars, loopVars, portVars,
                 clientVars, netVars>>

-------------------------------------------------------------------------------
\* 205-213: a text without any line crashes: there is no command to copy.
Begin(t, commands) ==
  /\ IF commands = <<>> THEN proc' = "crash_empty" ELSE UNCHANGED proc
  /\ todo' = [todo EXCEPT ![t] = commands]
  /\ Goto(t, "run")

\* 380-394: the start script thread waits for the event loop; without the file there
\* is nothing to do.
processScript ==
  /\ At("script", "wait") /\ eventLoop
  /\ IF script = Missing
     THEN Goto("script", "done") /\ UNCHANGED <<proc, todo>>
     ELSE Begin("script", script)
  /\ UNCHANGED <<begun, sigint, blockCommands, script, slotVars, loopVars, portVars,
                 clientVars, netVars>>

Command(t) == Head(todo[t])

\* 214-230: the next command is read when the gate is open.
Ready(t, k) == At(t, "run") /\ todo[t] # <<>> /\ ~blockCommands /\ Command(t) = k

\* Defect: the line just executed is taken again.
SameAgain(t) == UNCHANGED todo

\* 372
Drop(t) == todo' = [todo EXCEPT ![t] = Tail(@)]

\* 225-227, 365-366: the signal is sent, and the line is then refused as no command.
CmdQuit(t) ==
  /\ Ready(t, "q")
  /\ sigint' = TRUE
  /\ Drop(t)
  /\ UNCHANGED <<proc, pc, begun, blockCommands, script, slotVars, loopVars, portVars,
                 clientVars, netVars>>

\* 368-370
CmdComment(t) ==
  /\ Ready(t, "#")
  /\ Drop(t)
  /\ UNCHANGED <<proc, pc, begun, sigint, blockCommands, script, slotVars, loopVars,
                 portVars, clientVars, netVars>>

\* 316-347
CmdUse(t) ==
  /\ Ready(t, "u")
  /\ UseSlots
  /\ Drop(t)
  /\ UNCHANGED <<pc, begun, sigint, blockCommands, script, slotVars, loopVars, portVars,
                 clientVars, netVars>>

\* 232-251, 269-285: a fade loads a picture through an event and closes the gate.
CmdFade(t) ==
  /\ Ready(t, "f")
  /\ UseSlots
  /\ Drop(t)
  /\ events' = IF events < MaxEvents THEN events + 1 ELSE events
  /\ blockCommands' = TRUE
  /\ UNCHANGED <<pc, begun, quit, eventLoop, sigint, script, slotVars, portVars, clientVars,
                 netVars>>

\* 318-319, 380-408: the lines of the file come before the rest.
CmdRun(t) ==
  /\ Ready(t, "r") /\ eventLoop
  /\ IF RunScript = <<>> THEN proc' = "crash_empty" ELSE UNCHANGED proc
  /\ todo' = [todo EXCEPT ![t] = (IF RunScript = Missing THEN <<>> ELSE RunScript) \o Tail(@)]
  /\ UNCHANGED <<pc, begun, sigint, blockCommands, script, slotVars, loopVars, portVars,
                 clientVars, netVars>>

\* Defect: the listener reads another line from the same connection.
ReadsOn(t) == IF t = "script" THEN "done" ELSE "read"

\* wallystart.c 407-410, wallylistener.c 71-73
AfterCommands(t) == IF t = "script" THEN "done" ELSE "close"

CommandsDone(t) ==
  /\ At(t, "run") /\ todo[t] = <<>>
  /\ Goto(t, AfterCommands(t))
  /\ line' = IF t = "listener" THEN <<>> ELSE line
  /\ size' = IF t = "listener" THEN BufSize ELSE size
  /\ UNCHANGED <<proc, begun, sigint, port, unset, cur, remote, slotVars, loopVars, runVars,
                 clientVars, netVars>>

processCommand(t) == \/ CmdQuit(t) \/ CmdComment(t) \/ CmdUse(t) \/ CmdFade(t) \/ CmdRun(t)
                     \/ CommandsDone(t)

-------------------------------------------------------------------------------
\* wallylistener.c 13-35: the port is opened, or the thread ends.
OpenPort ==
  /\ At("listener", "socket")
  /\ \/ port' = TRUE /\ Goto("listener", "join")
     \/ Goto("listener", "dead") /\ UNCHANGED port
  /\ UNCHANGED <<proc, begun, sigint, unset, cur, line, size, remote, slotVars, loopVars,
                 runVars, clientVars, netVars>>

\* Defect: the listener does not wait.
JoinsNobody == TRUE

\* 39
ScriptEnded == pc["script"] = "done"

\* 39: the listener waits for the start script.  As long as main has not created that
\* thread its id is not stored, and to join it is undefined: the C library crashes,
\* or returns an error, which is ignored.
JoinStartup ==
  /\ At("listener", "join")
  /\ \/ /\ pc["script"] = "none"
        /\ proc' = "crash_join"
        /\ UNCHANGED <<pc, unset>>
     \/ /\ pc["script"] = "none"
        /\ unset' = TRUE
        /\ Goto("listener", "accept")
        /\ UNCHANGED proc
     \/ /\ ScriptEnded
        /\ Goto("listener", "accept")
        /\ UNCHANGED <<proc, unset>>
  /\ UNCHANGED <<begun, sigint, port, cur, line, size, remote, slotVars, loopVars, runVars,
                 clientVars, netVars>>

\* 43, 79-91: the next connection, and a new buffer for its line, or no memory for it.
Accept ==
  /\ At("listener", "accept") /\ backlog # <<>>
  /\ cur' = Head(backlog) /\ backlog' = Tail(backlog)
  /\ line' = <<>> /\ size' = BufSize
  /\ Goto("listener", "read") \/ Goto("listener", "close")
  /\ UNCHANGED <<proc, begun, sigint, port, unset, remote, inbox, reply, slotVars, loopVars,
                 runVars, clientVars>>

\* 45-48: accept fails, the thread ends, and the port stays open.
AcceptFails ==
  /\ At("listener", "accept")
  /\ Goto("listener", "dead")
  /\ UNCHANGED <<proc, begun, sigint, slotVars, loopVars, runVars, portVars, clientVars,
                 netVars>>

\* Defect: the buffer grows one byte too late.
GrowsLate(n) == n > size

\* 110
NeedsMore(n) == n >= size

\* 95-119: one byte; the buffer grows when it is full, if there is memory.
ReadByte ==
  /\ At("listener", "read") /\ inbox[cur] # <<>>
  /\ LET b == Head(inbox[cur])
     IN  /\ line' = Append(line, b)
         /\ inbox' = [inbox EXCEPT ![cur] = Tail(@)]
         /\ \/ b = NL /\ Goto("listener", "answer") /\ UNCHANGED size
            \/ b # NL /\ ~NeedsMore(Len(line')) /\ UNCHANGED <<pc, size>>
            \/ b # NL /\ NeedsMore(Len(line')) /\ size' = size + BufStep /\ UNCHANGED pc
            \/ b # NL /\ NeedsMore(Len(line')) /\ Goto("listener", "close") /\ UNCHANGED size
  /\ UNCHANGED <<proc, begun, sigint, port, unset, cur, remote, backlog, reply, slotVars,
                 loopVars, runVars, clientVars>>

\* Defect: the end of the connection is not an error.
EofIgnored == FALSE

\* 96: nothing is left to read and the client has closed its side.
Eof == inbox[cur] = <<>> /\ conn[cur] = "done"

\* 96-100, 56-59
ReadFails ==
  /\ At("listener", "read") /\ Eof
  /\ Goto("listener", "close")
  /\ UNCHANGED <<proc, begun, sigint, slotVars, loopVars, runVars, portVars, clientVars,
                 netVars>>

\* 60-67: the answer goes out before the line, without its last byte, is executed.
AnswerAndRun ==
  /\ At("listener", "answer")
  /\ reply' = [reply EXCEPT ![cur] = "answer"]
  /\ remote' = Append(remote, cur)
  /\ Begin("listener", IF Len(line) = 1 THEN <<>> ELSE <<line[1]>>)
  /\ UNCHANGED <<begun, sigint, port, unset, cur, line, size, backlog, inbox, blockCommands,
                 script, slotVars, loopVars, clientVars>>

\* 57, 72: what the client has sent beyond its first line is lost.
CloseConnection ==
  /\ At("listener", "close")
  /\ reply' = [reply EXCEPT ![cur] = IF @ = "none" THEN "closed" ELSE @]
  /\ inbox' = [inbox EXCEPT ![cur] = <<>>]
  /\ cur' = Nobody
  /\ Goto("listener", "accept")
  /\ UNCHANGED <<proc, begun, sigint, port, unset, line, size, remote, backlog, slotVars,
                 loopVars, runVars, clientVars>>

Listener == \/ OpenPort \/ JoinStartup \/ Accept \/ ReadByte \/ ReadFails \/ AnswerAndRun
            \/ CloseConnection

-------------------------------------------------------------------------------
Client(c, l) == conn' = [conn EXCEPT ![c] = l]

\* tcp.cpp 9-65: the connection is made when the kernel has room for it.  A client
\* that is refused has done nothing, and may be run again.
conn_(c) ==
  /\ proc = "up" /\ port /\ conn[c] = "idle" /\ Len(backlog) < Backlog
  /\ backlog' = Append(backlog, c)
  /\ order' = Append(order, c)
  /\ Client(c, "connected")
  /\ UNCHANGED <<proc, pc, begun, sigint, request, got, inbox, reply, slotVars, loopVars,
                 runVars, portVars>>

\* wallyc.cpp 18-37, tcp.cpp 67-75: everything is sent at once, after the connection was
\* made: as soon as standard input ends, which may never be.
send_data(c) ==
  /\ proc = "up" /\ conn[c] = "connected"
  /\ inbox' = [inbox EXCEPT ![c] = request[c]]
  /\ Client(c, "sent")
  /\ UNCHANGED <<proc, pc, begun, sigint, request, got, order, backlog, reply, slotVars,
                 loopVars, runVars, portVars>>

\* tcp.cpp 77-93, wallyc.cpp 38-41: the answer, the end of the connection, or neither
\* within three seconds; then the client is gone.
receive(c) ==
  /\ proc = "up" /\ conn[c] = "sent"
  /\ got' = [got EXCEPT ![c] = IF reply[c] = "none" THEN "timeout" ELSE reply[c]]
  /\ Client(c, "done")
  /\ UNCHANGED <<proc, pc, begun, sigint, request, order, netVars, slotVars, loopVars,
                 runVars, portVars>>

wallyc(c) == conn_(c) \/ send_data(c) \/ receive(c)

Environment == (\E e \in WindowEvents : EventFilter(e)) \/ WaitFails \/ AcceptFails

Next == \/ Main \/ processScript \/ (\E t \in Runners : processCommand(t)) \/ Listener
        \/ (\E t \in {"fader", "timer"} : Sweep(t)) \/ OpenGate
        \/ (\E c \in Clients : wallyc(c)) \/ Environment

\* The threads run, and a client that waits for its answer gives up in the end.  No
\* client has to send, and no fade has to end.
Fairness ==
  /\ WF_vars(Main) /\ WF_vars(sig_handler) /\ WF_vars(processScript) /\ WF_vars(Listener)
  /\ \A t \in Runners : WF_vars(processCommand(t))
  /\ \A c \in Clients : WF_vars(receive(c))

Spec == Init /\ [][Next]_vars /\ Fairness

-------------------------------------------------------------------------------
Ids(t) == CASE t = "main"     -> {"start", "wait", "clean"}
            [] t = "script"   -> {"none", "wait", "run", "done"}
            [] t = "listener" -> {"none", "socket", "join", "accept", "read", "answer",
                                  "run", "close", "dead"}
            [] OTHER          -> {"none", "sweep"}

\* Types; cleanupGFX releases every slot once.
TypeOK ==
  /\ proc \in {"up", "exited", "crash_slots", "crash_empty", "crash_join"}
  /\ \A t \in Threads : pc[t] \in Ids(t)
  /\ begun \in 0..Len(StartOrder)
  /\ {quit, eventLoop, blockCommands, sigint, live, port, unset} \subseteq BOOLEAN
  /\ events \in 0..MaxEvents
  /\ freed \in 0..TEXTURE_SLOTS + 1
  /\ \A t \in Runners : todo[t] \in Seq(Commands)
  /\ cur \in Clients \cup {Nobody}
  /\ Len(backlog) <= Backlog
  /\ conn \in [Clients -> {"idle", "connected", "sent", "done"}]
  /\ reply \in [Clients -> {"none", "answer", "closed"}]
  /\ got \in [Clients -> {"none", "answer", "closed", "timeout"}]

\* logListener 38-43: no command from the port is executed before the start script has
\* ended, unless the listener was there before main had stored the id it joins.
ScriptFirst == remote # <<>> => pc["script"] = "done" \/ unset

Place(c)   == CHOOSE i \in DOMAIN order : order[i] = c
Newline(s) == CHOOSE i \in DOMAIN s : s[i] = NL /\ \A j \in 1..i - 1 : s[j] # NL

\* logListener 42-75: of every connection at most one line is executed, in the order
\* of the connections, and it is the first line of the request.  Whoever has the
\* answer had its line executed, or has it executed now.
ServedOnce ==
  /\ \A i, j \in DOMAIN remote : i < j => Place(remote[i]) < Place(remote[j])
  /\ \A c \in Clients : got[c] = "answer" => \E i \in DOMAIN remote : remote[i] = c
  /\ pc["listener"] = "answer" => line = SubSeq(request[cur], 1, Newline(request[cur]))

\* sgetline 102: the next byte is written inside the buffer.
BufferFits == pc["listener"] = "read" => Len(line) < size

\* initGFX, cleanupGFX: no thread uses slots that were not allocated yet; they are
\* used after their release only while main ends the program.
SlotsReady == proc = "crash_slots" => live /\ pc["main"] = "clean"

\* Runner t waits for the gate, or with run for the first event.
Held(t) == /\ pc[t] = "run" /\ todo[t] # <<>>
           /\ blockCommands \/ (Command(t) = "r" /\ ~eventLoop)

\* The listener reads from a client that has not sent anything.
Silent == pc["listener"] = "read" /\ conn[cur] = "connected"

\* Answers, the event loop's first event and requests to quit, once there, stay: what
\* must follow on one is said as what cannot be missing for ever.

\* logListener 60-67: a client that has the answer has its line executed to the end,
\* unless the process ends first.  Only a gate that never opens again leaves it
\* answered and not executed.
AnsweredRuns ==
  \A c \in Clients :
    \/ []<>(got[c] # "answer" \/ proc # "up" \/ cur # c)
    \/ <>[]Held("listener")

Waiting(c) == \E i \in DOMAIN backlog : backlog[i] = c

\* logListener, sgetline: once the event loop has seen an event no connection waits for
\* ever behind another one, unless the listener has died, or it waits for ever for a
\* client that sends nothing (wallylistener.c 95 has no time limit), or it or the start
\* script for a gate that stays closed.
QueueMoves ==
  \A c \in Clients :
    \/ []<>(~Waiting(c) \/ ~eventLoop \/ pc["listener"] = "dead" \/ proc # "up")
    \/ <>[]Silent
    \/ \E t \in Runners : <>[]Held(t)

\* EventFilter, sig_handler, cleanupGFX: the program ends when it is asked to.
QuitEnds == []<>(~(quit \/ sigint) \/ proc # "up")
===============================================================================
