------------------------------- MODULE TextSlots -------------------------------
(***************************************************************************)
(* The text slots of the wallystart daemon (wallylib.c, wallystart.c).     *)
(* Three threads share textFields[] without a lock:                        *)
(*                                                                         *)
(*   cmd    sets up and clears texts, and redraws the display after it;    *)
(*   timer  counts the duration of each text down and marks it destroyed;  *)
(*   main   redraws the display when it is asked to, and clears the marked *)
(*          texts while it draws.                                          *)
(*                                                                         *)
(* Drawing and clearing call each other: renderTexts clears a marked slot  *)
(* with clearText, which redraws everything with update(0), which calls    *)
(* renderTexts again.  Each drawing thread has a stack of calls.  The      *)
(* pictures are one slot here, and the fader is the environment that makes *)
(* it dirty.  Line numbers are those of wallylib.c; "start" marks those of *)
(* wallystart.c.                                                           *)
(***************************************************************************)
EXTENDS Integers, Sequences

CONSTANTS
  NumTexts,    \* TEXT_SLOTS
  MaxTimeout,  \* bound: the longest duration of a text; 0 is for ever
  MaxCmds,     \* bound: text and cleartext commands read
  Fades,       \* whether a fade may redraw the display now and then
  HasPicture,  \* whether picture slot 0 is loaded
  Flips,       \* whether the renderer swaps two buffers when it presents
  Interrupts   \* <<u, r>>: thread u may step while another is in region r

Ids       == 0..NumTexts - 1
Drawers   == {"main", "cmd"}
Threads   == Drawers \cup {"timer"}
Regions   == {"setup", "render", "timer"}
MaxQueue  == 2     \* bound: redraw requests waiting when a fade adds one

ASSUME TextAssumption ==
  /\ NumTexts \in Nat \ {0}
  /\ MaxTimeout \in Nat
  /\ MaxCmds \in Nat
  /\ Fades \in BOOLEAN /\ HasPicture \in BOOLEAN /\ Flips \in BOOLEAN
  /\ Interrupts \subseteq Threads \X Regions

VARIABLES
  textFields,  \* the slots: tex, active, destroy, timeout
  live,        \* the text textures that exist; the n-th command makes texture n
  calls,       \* the stack of calls of each drawing thread, the inner one first
  timer,       \* the place of the timer thread and the slot it visits
  queue,       \* redraw requests: "all" for code -1, "one" for a picture slot
  dirty,       \* textures[0]->dirty
  back,        \* the texts drawn in the back buffer
  shown,       \* the texts on the display
  issued,      \* commands read so far
  asked,       \* the duration given in the last text command
  lasts,       \* history: the duration each slot's text was set up with,
  age          \* and the visits of the timer since

vars == <<textFields, live, calls, timer, queue, dirty, back, shown,
          issued, asked, lasts, age>>

NoTex  == 0
NoText == [tex |-> NoTex, active |-> FALSE, destroy |-> FALSE, timeout |-> 0]

\* A call: where it is, the slot it is at, and the texture it has read.
Call(pc, id) == [pc |-> pc, id |-> id, tex |-> NoTex]

Idle(t)  == calls[t] = <<>>
Top(t)   == Head(calls[t])
At(t, p) == ~Idle(t) /\ Top(t).pc = p

Replace(t, c) == calls' = [calls EXCEPT ![t] = <<c>> \o Tail(@)]
Push(t, c, d) == calls' = [calls EXCEPT ![t] = <<c, d>> \o Tail(@)]
Return(t)     == calls' = [calls EXCEPT ![t] = Tail(@)]

-------------------------------------------------------------------------------
(* Scheduling                                                              *)

Busy(t) == CASE t = "timer" -> IF timer.pc = "visit" THEN {} ELSE {"timer"}
             [] OTHER -> IF Idle(t) THEN {}
                         ELSE IF Top(t).pc \in {"setup", "setNull", "activate",
                                                "setTimeout", "setTex"}
                              THEN {"setup"} ELSE {"render"}

May(u) == \A t \in Threads \ {u} : \A r \in Busy(t) : <<u, r>> \in Interrupts

Init ==
  /\ textFields = [i \in Ids |-> NoText]
  /\ live = {}
  /\ calls = [t \in Drawers |-> <<>>]
  /\ timer = [pc |-> "visit", id |-> 0]
  /\ queue = <<>>
  /\ dirty = FALSE
  /\ back = {}
  /\ shown = {}
  /\ issued = 0
  /\ asked = 0
  /\ lasts = [i \in Ids |-> 0]
  /\ age = [i \in Ids |-> 0]

-------------------------------------------------------------------------------
(* update(id): the picture, then the texts, then present.                  *)

textVars == <<timer, queue, issued, asked, lasts, age>>

\* start 104-112: the picture covers what the back buffer had, if there is one.
DrawPicture(t) ==
  /\ At(t, "draw")
  /\ back' = IF HasPicture THEN {} ELSE back
  /\ dirty' = FALSE
  /\ Replace(t, Call("texts", 0))
  /\ UNCHANGED <<textFields, live, shown, textVars>>

\* Defect: the last slot is not visited.
DoneEarly(i) == i >= NumTexts - 1

\* 449: the end of the loop over the slots.
Done(i) == i = NumTexts

\* 451-454: a marked slot is cleared first; the loop goes on behind it.
VisitSlot(t) ==
  /\ At(t, "texts") /\ ~Done(Top(t).id)
  /\ LET i == Top(t).id
     IN  IF textFields[i].destroy
         THEN Push(t, Call("clear", i), Call("texts", i + 1))
         ELSE Replace(t, Call("read", i))
  /\ UNCHANGED <<textFields, live, dirty, back, shown, textVars>>

\* 455-462: the texture of an active slot is read.
ReadSlot(t) ==
  /\ At(t, "read")
  /\ LET i == Top(t).id
     IN  IF textFields[i].active
         THEN Replace(t, [Call("copy", i) EXCEPT !.tex = textFields[i].tex])
         ELSE Replace(t, Call("texts", i + 1))
  /\ UNCHANGED <<textFields, live, dirty, back, shown, textVars>>

\* 463-467: and drawn; NULL is refused.
DrawText(t) ==
  /\ At(t, "copy")
  /\ back' = back \cup ({Top(t).tex} \ {NoTex})
  /\ Replace(t, Call("texts", Top(t).id + 1))
  /\ UNCHANGED <<textFields, live, dirty, shown, textVars>>

\* start 113
Present(t) ==
  /\ At(t, "texts") /\ Done(Top(t).id)
  /\ shown' = back
  /\ back' = IF Flips THEN shown ELSE back
  /\ Return(t)
  /\ UNCHANGED <<textFields, live, dirty, textVars>>

-------------------------------------------------------------------------------
(* clearText(id)                                                           *)

\* 498-502: nothing to do without a texture.
ClearTest(t) ==
  /\ At(t, "clear")
  /\ LET i == Top(t).id
     IN  \/ /\ textFields[i].tex = NoTex
            /\ Return(t)
            /\ UNCHANGED live
         \/ /\ textFields[i].tex # NoTex
            /\ live' = live \ {textFields[i].tex}
            /\ Replace(t, Call("clearSlot", i))
  /\ UNCHANGED <<textFields, dirty, back, shown, textVars>>

\* Defect: the slot keeps the texture.
ClearKeepsTex(t) ==
  /\ At(t, "clearSlot")
  /\ textFields' = [textFields EXCEPT ![Top(t).id].active = FALSE]
  /\ Replace(t, Call("draw", 0))
  /\ UNCHANGED <<live, dirty, back, shown, textVars>>

\* Defect: the display is not redrawn.
ClearNoRedraw(t) ==
  /\ At(t, "clearSlot")
  /\ textFields' = [textFields EXCEPT ![Top(t).id].tex = NoTex,
                                      ![Top(t).id].active = FALSE]
  /\ Return(t)
  /\ UNCHANGED <<live, dirty, back, shown, textVars>>

\* 503-509: the call ends with update(0).
ClearSlot(t) ==
  /\ At(t, "clearSlot")
  /\ textFields' = [textFields EXCEPT ![Top(t).id].tex = NoTex,
                                      ![Top(t).id].active = FALSE]
  /\ Replace(t, Call("draw", 0))
  /\ UNCHANGED <<live, dirty, back, shown, textVars>>

Draw(t) ==
  /\ May(t)
  /\ \/ DrawPicture(t) \/ VisitSlot(t) \/ ReadSlot(t) \/ DrawText(t)
     \/ Present(t) \/ ClearTest(t) \/ ClearSlot(t)

-------------------------------------------------------------------------------
(* main: start 27-34.  A request drops every other; code -1 draws only a   *)
(* picture that is dirty.                                                  *)

TakeUpd ==
  /\ May("main") /\ Idle("main") /\ queue # <<>>
  /\ queue' = <<>>
  /\ calls' = IF Head(queue) = "all" /\ ~dirty THEN calls
              ELSE [calls EXCEPT !["main"] = <<Call("draw", 0)>>]
  /\ UNCHANGED <<textFields, live, timer, dirty, back, shown, issued, asked,
                 lasts, age>>

\* start 136-142, 184-190: a step of a fade.  No fade is under way while a text
\* command is executed (AdmittedIdle of FadeEngine).
FadeStep ==
  /\ Fades /\ Idle("cmd") /\ Len(queue) < MaxQueue
  /\ dirty' = TRUE
  /\ queue' = Append(queue, "one")
  /\ UNCHANGED <<textFields, live, calls, timer, back, shown, issued, asked,
                 lasts, age>>

-------------------------------------------------------------------------------
(* The commands text, log, cleartext and clearlog.                         *)

drawVars == <<timer, queue, dirty, back, shown>>

\* start 324-325, 327-347: setupText, then update(0).
TextCommand ==
  /\ May("cmd") /\ Idle("cmd") /\ issued < MaxCmds
  /\ \E i \in Ids, n \in 0..MaxTimeout :
       /\ calls' = [calls EXCEPT !["cmd"] = <<Call("setup", i), Call("draw", 0)>>]
       /\ asked' = n
  /\ issued' = issued + 1
  /\ UNCHANGED <<textFields, live, lasts, age, drawVars>>

\* start 316-317, 320-322: clearText.
ClearCommand ==
  /\ May("cmd") /\ Idle("cmd") /\ issued < MaxCmds
  /\ \E i \in Ids : calls' = [calls EXCEPT !["cmd"] = <<Call("clear", i)>>]
  /\ issued' = issued + 1
  /\ UNCHANGED <<textFields, live, asked, lasts, age, drawVars>>

\* 522-525: the old text goes.
SetupDestroy ==
  /\ At("cmd", "setup")
  /\ LET i == Top("cmd").id
     IN  IF textFields[i].tex # NoTex
         THEN /\ live' = live \ {textFields[i].tex}
              /\ Replace("cmd", Call("setNull", i))
         ELSE /\ UNCHANGED live
              /\ Replace("cmd", Call("activate", i))
  /\ UNCHANGED <<textFields, issued, asked, lasts, age, drawVars>>

\* Defect: the slot keeps the destroyed texture until there is a new one.
SetupKeepsTex ==
  /\ At("cmd", "setNull")
  /\ Replace("cmd", Call("activate", Top("cmd").id))
  /\ UNCHANGED <<textFields, live, issued, asked, lasts, age, drawVars>>

\* 526
SetupNull ==
  /\ At("cmd", "setNull")
  /\ textFields' = [textFields EXCEPT ![Top("cmd").id].tex = NoTex]
  /\ Replace("cmd", Call("activate", Top("cmd").id))
  /\ UNCHANGED <<live, issued, asked, lasts, age, drawVars>>

\* Defect: the mark of an expired text stays.
ActivateMarked ==
  /\ At("cmd", "activate")
  /\ textFields' = [textFields EXCEPT ![Top("cmd").id].active = TRUE]
  /\ Replace("cmd", Call("setTimeout", Top("cmd").id))
  /\ UNCHANGED <<live, issued, asked, lasts, age, drawVars>>

\* 533-536
SetupActivate ==
  /\ At("cmd", "activate")
  /\ textFields' = [textFields EXCEPT ![Top("cmd").id].active = TRUE,
                                      ![Top("cmd").id].destroy = FALSE]
  /\ Replace("cmd", Call("setTimeout", Top("cmd").id))
  /\ UNCHANGED <<live, issued, asked, lasts, age, drawVars>>

\* 537
SetupTimeout ==
  /\ At("cmd", "setTimeout")
  /\ LET i == Top("cmd").id
     IN  /\ textFields' = [textFields EXCEPT ![i].timeout = asked]
         /\ lasts' = [lasts EXCEPT ![i] = asked]
         /\ age' = [age EXCEPT ![i] = 0]
         /\ Replace("cmd", Call("setTex", i))
  /\ UNCHANGED <<live, issued, asked, drawVars>>

\* 541-560: font, surface and texture; each may fail, and nothing is undone.
SetupTex ==
  /\ At("cmd", "setTex")
  /\ \/ /\ live' = live \cup {issued}
        /\ textFields' = [textFields EXCEPT ![Top("cmd").id].tex = issued]
     \/ UNCHANGED <<live, textFields>>
  /\ Return("cmd")
  /\ UNCHANGED <<issued, asked, lasts, age, drawVars>>

Setup ==
  /\ May("cmd")
  /\ \/ SetupDestroy \/ SetupNull \/ SetupActivate \/ SetupTimeout \/ SetupTex

-------------------------------------------------------------------------------
(* timerThread: visits the slots in turn, once a second (start 414-435).   *)

callVars == <<live, calls, dirty, back, shown, issued, asked, lasts>>

NextSlot(i) == [pc |-> "visit", id |-> (i + 1) % NumTexts]

\* Defect: the text expires one visit too late, when it is not counted any more.
LapsesLate(i) == textFields[i].timeout = 0

\* start 421
Lapses(i) == textFields[i].timeout = 1

\* Defect: texts without a duration are counted down too.
CountsAll(i) == textFields[i].active

\* start 419
Counts(i) == textFields[i].active /\ textFields[i].timeout > 0

\* start 419-421
TimerVisit ==
  /\ timer.pc = "visit"
  /\ LET i == timer.id
     IN  IF Counts(i)
         THEN /\ timer' = [timer EXCEPT !.pc = IF Lapses(i) THEN "deactivate"
                                               ELSE "count"]
              /\ age' = [age EXCEPT ![i] = IF @ < MaxTimeout THEN @ + 1 ELSE @]
         ELSE /\ timer' = NextSlot(i)
              /\ UNCHANGED age
  /\ UNCHANGED <<textFields, queue, callVars>>

\* start 422
TimerDeactivate ==
  /\ timer.pc = "deactivate"
  /\ textFields' = [textFields EXCEPT ![timer.id].active = FALSE]
  /\ timer' = [timer EXCEPT !.pc = "mark"]
  /\ UNCHANGED <<queue, age, callVars>>

\* start 423-427
TimerMark ==
  /\ timer.pc = "mark"
  /\ textFields' = [textFields EXCEPT ![timer.id].destroy = TRUE]
  /\ queue' = Append(queue, "all")
  /\ timer' = [timer EXCEPT !.pc = "count"]
  /\ UNCHANGED <<age, callVars>>

\* start 429
TimerCount ==
  /\ timer.pc = "count"
  /\ textFields' = [textFields EXCEPT ![timer.id].timeout = @ - 1]
  /\ timer' = NextSlot(timer.id)
  /\ UNCHANGED <<queue, age, callVars>>

timerThread ==
  /\ May("timer")
  /\ TimerVisit \/ TimerDeactivate \/ TimerMark \/ TimerCount

-------------------------------------------------------------------------------
Next == \/ \E t \in Drawers : Draw(t)
        \/ TakeUpd
        \/ FadeStep
        \/ TextCommand
        \/ ClearCommand
        \/ Setup
        \/ timerThread

\* Threads are scheduled fairly; nobody has to send a command or fade a picture.
Fairness == /\ \A t \in Drawers : WF_vars(Draw(t))
            /\ WF_vars(TakeUpd)
            /\ WF_vars(Setup)
            /\ WF_vars(timerThread)

Spec == Init /\ [][Next]_vars /\ Fairness
-------------------------------------------------------------------------------
(* Properties                                                              *)

Places == {"draw", "texts", "read", "copy", "clear", "clearSlot", "setup", "setNull",
           "activate", "setTimeout", "setTex"}

\* Every variable keeps its type; a timeout is never counted below 0.
TypeOK ==
  /\ textFields \in [Ids -> [tex : 0..MaxCmds, active : BOOLEAN, destroy : BOOLEAN,
                             timeout : 0..MaxTimeout]]
  /\ live \subseteq 1..MaxCmds
  /\ \A t \in Drawers :
       calls[t] \in Seq([pc : Places, id : 0..NumTexts, tex : 0..MaxCmds])
  /\ timer \in [pc : {"visit", "deactivate", "mark", "count"}, id : Ids]
  /\ queue \in Seq({"all", "one"})
  /\ dirty \in BOOLEAN
  /\ back \subseteq 1..MaxCmds /\ shown \subseteq 1..MaxCmds
  /\ issued \in 0..MaxCmds
  /\ asked \in 0..MaxTimeout
  /\ lasts \in [Ids -> 0..MaxTimeout] /\ age \in [Ids -> 0..MaxTimeout]

\* The texture a thread is about to draw (464) or to destroy (502, 525) exists:
\* no text texture is used after its destruction, and none is destroyed twice.
TextLive ==
  \A t \in Drawers :
    /\ At(t, "copy") /\ Top(t).tex # NoTex => Top(t).tex \in live
    /\ At(t, "clear") \/ At(t, "setup") =>
         textFields[Top(t).id].tex \in live \cup {NoTex}

\* The recursion of renderTexts, clearText and update (452, 509) ends: clearText
\* forgets the texture before it redraws, so each level has cleared a slot of its
\* own, and only the innermost clearText may find nothing to do.
RecursionBound == \A t \in Drawers : Len(calls[t]) <= NumTexts + 2

AllIdle == \A t \in Drawers : Idle(t)

\* When nobody draws, every active text is on the display, although the inner
\* redraws present before the outer ones have drawn all their texts.
TextShown ==
  AllIdle => \A i \in Ids : textFields[i].active => textFields[i].tex \in shown \cup {NoTex}

\* When nobody draws, nothing is on the display that was destroyed: whoever
\* clears or replaces a text redraws the display.
TextGone == AllIdle => shown \subseteq live

\* A text is not marked as expired (start 423) before the timer has counted the
\* duration it was set up with, and a text without a duration never is.
TextLasts ==
  \A i \in Ids : textFields[i].destroy =>
    lasts[i] > 0 /\ age[i] >= lasts[i]

Temporary(i) == textFields[i].active /\ textFields[i].timeout > 0

\* While redraws keep coming, a text with a duration is cleared and its texture
\* freed: timer, redraw and clearText together.
RedrawFrees ==
  []<>(~Idle("main")) => \A i \in Ids : Temporary(i) ~> textFields[i].tex = NoTex

\* A text with a duration leaves the display.
TextLeaves == \A i \in Ids : Temporary(i) ~> textFields[i].tex \notin shown
===============================================================================
