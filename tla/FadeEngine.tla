------------------------------ MODULE FadeEngine ------------------------------
(***************************************************************************)
(* The picture engine of the wallystart daemon (wallystart.c, wallylib.c). *)
(* Three threads share the texture slots without a lock:                   *)
(*                                                                         *)
(*   cmd    processCommand: reads commands, arms a fade in a slot;         *)
(*   fader  faderThread: counts the armed fades down, swaps the slots when *)
(*          a fade ends, and opens the gate blockCommands again;           *)
(*   main   the SDL event loop: loads, destroys and draws textures.        *)
(*                                                                         *)
(* They talk through the SDL event queue and through blockCommands.  The   *)
(* timer thread, which only adds redraw requests to the queue, is the      *)
(* environment.  A handler is split where another thread can observe it    *)
(* half done; the constant Preempt says which handlers may be interrupted  *)
(* there.  File names, delays and log output are abstracted away.  Line    *)
(* numbers are those of wallystart.c unless another file is named.         *)
(***************************************************************************)
EXTENDS Integers, Sequences

CONSTANTS
  FadeMax,     \* steps of a fade and the opaque value of a modulation (255)
  MaxLoop,     \* bound: the largest <num> of a fadeloop command
  MaxCmds,     \* bound: commands read
  TimerUpds,   \* bound: redraw requests of the timer thread
  Commands,    \* the commands that are sent
  Preempt,     \* regions the scheduler may interrupt
  LoadMayFail  \* whether an image file may be unreadable

Slots      == 0..2          \* TEXTURE_SLOTS is 3
TempSlot   == 2             \* holds the render target of fadeOver
Renderers  == {"main", "cmd"}
Regions    == {"handler", "fader", "update", "load", "lag"}
FadeArming == {"fadein", "fadeout", "fadeover", "fadeloop", "loop2"}

ASSUME ConstantsAssumption ==
  /\ FadeMax \in Nat /\ FadeMax >= 2
  /\ MaxLoop \in Nat
  /\ MaxCmds \in Nat
  /\ TimerUpds \in Nat
  /\ Commands \subseteq {"fadein", "fadeout", "fadeover", "fadeloop", "draw"}
  /\ Preempt \subseteq Regions
  /\ LoadMayFail \in BOOLEAN

VARIABLES
  textures,       \* textures[]: the slots, struct texture without delay
  heap,           \* the SDL textures ever created; a tex is an index, 0 is NULL
  queue,          \* the SDL event queue
  loading,        \* the LOADIMAGE event main is working on, or NoEvent
  blockCommands,  \* the gate
  cmd,            \* the command thread: its place and the <num> of fadeloop
  fader,          \* the fader thread: its place, and its locals i and src
  upd,            \* the call of update() on each thread that may draw
  screen,         \* the texture copied to the display last, with its modulations;
                  \* picture 0 before any, or for a blend
  issued,         \* commands read so far
  ticks,          \* redraw requests of the timer thread so far
  goal            \* the picture the last fade command ends on

vars == <<textures, heap, queue, loading, blockCommands, cmd, fader, upd,
          screen, issued, ticks, goal>>

-------------------------------------------------------------------------------
(* Data                                                                    *)

NoTex   == 0
NoEvent == [type |-> "none", code |-> 0, arg |-> 0]

\* Defect: code and data1 of the event are mixed up.
LoadImgSwapped(slot, img) == [type |-> "load", code |-> img, arg |-> slot]

Upd(slot)           == [type |-> "upd", code |-> slot, arg |-> 0]
LoadImg(slot, img)  == [type |-> "load", code |-> slot, arg |-> img]
Destroy(slot, tex)  == [type |-> "destroy", code |-> slot, arg |-> tex]

Texture(img) == [live |-> TRUE, alphaMod |-> FadeMax, colorMod |-> FadeMax,
                 img |-> img]

\* The pictures of the n-th command: A is only used by fadeloop.
PicB(n) == 2 * n
PicA(n) == 2 * n + 1

Blank(t) == [tex |-> t, active |-> FALSE, fadein |-> 0, fadeout |-> 0,
             fadeover |-> 0, fadesrc |-> 0, fadeloop |-> 0, dirty |-> FALSE,
             alpha |-> 0]

\* Defect: only the flag is reset.
resetFlag(T, i) == [T EXCEPT ![i].active = FALSE]

\* resetTexture zeroes a slot and keeps its texture, copyTexture is a memcpy.
resetTexture(T, i)       == [T EXCEPT ![i] = Blank(T[i].tex)]
copyTexture(T, from, to) == [T EXCEPT ![to] = T[from]]

\* The fader thread has work to do in slot s.
Fading(T, s) == T[s].fadein > 0 \/ T[s].fadeover > 0 \/ T[s].fadeloop > 0

\* Defect: every event is flushed.
FlushAll(q) == <<>>

\* SDL_FlushEvent(SDL_UPD_EVENT)
FlushUpd(q) ==
  LET kept[n \in 0..Len(q)] ==
        IF n = 0 THEN <<>>
        ELSE IF q[n].type = "upd" THEN kept[n - 1] ELSE Append(kept[n - 1], q[n])
  IN  kept[Len(q)]

LoadPending == loading # NoEvent
                    \/ \E k \in DOMAIN queue : queue[k].type = "load"

\* No update() under way, and the first step of update(code).
NoUpdate == [at |-> "no", id |-> 0, tex |-> 0, rest |-> 0, all |-> FALSE]
StartUpdate(code) ==
  IF code = -1 THEN [NoUpdate EXCEPT !.at = "loop", !.all = TRUE]
               ELSE [NoUpdate EXCEPT !.at = "begin", !.id = code]

-------------------------------------------------------------------------------
(* Scheduling: the region a thread is in, and whether thread u may step    *)
(* although the others are where they are.                                 *)

InHandler  == cmd.pc \in FadeArming \cup {"block"}
InUpdate(t) == upd[t].at # "no"

Busy(t) == CASE t = "fader" -> IF fader.pc = "scan" THEN {} ELSE {"fader"}
             [] t = "cmd"   -> (IF InHandler THEN {"handler"} ELSE {})
                                 \cup (IF InUpdate("cmd") THEN {"update"} ELSE {})
             [] t = "main"  -> (IF loading # NoEvent THEN {"load"} ELSE {})
                                 \cup (IF InUpdate("main") THEN {"update"} ELSE {})

May(u) == \A t \in {"fader", "cmd", "main"} \ {u} : Busy(t) \subseteq Preempt

\* A fade outlasts the loading of its picture, unless a load may be overtaken.
LoadInTime == "load" \in Preempt \/ ~LoadPending

\* 145, 193, 198: the fader sleeps after each step that asks for a redraw; main draws
\* within that time, unless it may lag behind.
DrawnInTime == \/ "lag" \in Preempt
               \/ ~InUpdate("main") /\ \A k \in DOMAIN queue : queue[k].type # "upd"

-------------------------------------------------------------------------------
(* initGFX, loadSDL                                                        *)

Init ==
  /\ textures = [s \in Slots |-> Blank(IF s = TempSlot THEN 1 ELSE NoTex)]
  /\ heap = <<Texture(0)>>
  /\ queue = <<>>
  /\ loading = NoEvent
  /\ blockCommands = FALSE
  /\ cmd = [pc |-> "gate", loop |-> 0]
  /\ fader = [pc |-> "scan", slot |-> 0, src |-> 0]
  /\ upd = [t \in Renderers |-> NoUpdate]
  /\ screen = Texture(0)
  /\ issued = 0
  /\ ticks = 0
  /\ goal = 0

-------------------------------------------------------------------------------
(* faderThread.  Its loop visits the slots in turn and tests five blocks   *)
(* on each; a visit on which no block fires changes nothing and is no      *)
(* step.  A block's guard excludes what an earlier block would have taken. *)

dataVars == <<heap, loading, upd, screen, issued, ticks, goal>>

\* 126-134: the last step of a fadein.
FadeinLast(i) ==
  /\ textures[i].fadein = 1
  /\ LoadInTime
  /\ textures' = [resetTexture(textures, i) EXCEPT ![i].alpha = FadeMax]
  /\ queue' = Append(queue, Upd(i))
  /\ blockCommands' = FALSE
  /\ UNCHANGED <<cmd, fader, dataVars>>

\* Defect: the counter is not decremented.
FadeinTickStuck(i) ==
  /\ textures[i].fadein > 1
  /\ textures' = [textures EXCEPT ![i].dirty = TRUE]
  /\ queue' = Append(queue, Upd(i))
  /\ blockCommands' = TRUE
  /\ UNCHANGED <<cmd, fader, dataVars>>

\* 135-146
FadeinTick(i) ==
  /\ textures[i].fadein > 1
  /\ textures' = [textures EXCEPT ![i].fadein = @ - 1,
                                  ![i].dirty = TRUE,
                                  ![i].alpha = FadeMax - (textures[i].fadein - 1)]
  /\ queue' = Append(queue, Upd(i))
  /\ blockCommands' = TRUE
  /\ UNCHANGED <<cmd, fader, dataVars>>

\* 148: the test that one leg of a fadeloop is over.
ToggleTest(i) ==
  /\ textures[i].fadeloop > 0 /\ textures[i].fadeover < 2
  /\ fader' = [fader EXCEPT !.pc = "toggle", !.slot = i]
  /\ UNCHANGED <<textures, queue, blockCommands, cmd, dataVars>>

\* Defect: the next leg is armed with the same number of legs to go.
ArmSameLeg(T, i, src) ==
  LET R == resetTexture(T, src)
  IN  [R EXCEPT ![src].fadeover = FadeMax, ![src].fadeloop = R[i].fadeloop,
                ![src].fadesrc = i, ![src].active = TRUE]

\* 151-156: the slot faded from becomes the slot of the next leg.
ArmNextLeg(T, i, src) ==
  LET R == resetTexture(T, src)
  IN  [R EXCEPT ![src].fadeover = FadeMax,
                ![src].fadeloop = R[i].fadeloop - 1,
                ![src].fadesrc = i,
                ![src].active = TRUE]

\* 150-156
ToggleSrc ==
  /\ fader.pc = "toggle"
  /\ LET src == textures[fader.slot].fadesrc
     IN  /\ textures' = ArmNextLeg(textures, fader.slot, src)
         /\ fader' = [fader EXCEPT !.pc = "toggleEnd", !.src = src]
  /\ UNCHANGED <<queue, blockCommands, cmd, dataVars>>

\* 157-159
ToggleEnd ==
  /\ fader.pc = "toggleEnd"
  /\ textures' = resetTexture(textures, fader.slot)
  /\ blockCommands' = TRUE
  /\ fader' = [fader EXCEPT !.pc = "scan", !.slot = 0, !.src = 0]
  /\ UNCHANGED <<queue, cmd, dataVars>>

\* Defect: the texture faded to is destroyed.
FadedTo(i) == textures[i].tex

\* 168: the texture that the finished fade leaves.
FadedFrom(i) == textures[textures[i].fadesrc].tex

\* 162-169: a fadeover is over; the texture faded from is to be destroyed.
FinishBegin(i) ==
  /\ textures[i].fadeover = 1 /\ textures[i].fadeloop <= 0
  /\ LoadInTime
  /\ LET src == textures[i].fadesrc
     IN  /\ queue' = Append(queue, Destroy(src, FadedFrom(i)))
         /\ fader' = [pc |-> "finish", slot |-> i, src |-> src]
  /\ UNCHANGED <<textures, blockCommands, cmd, dataVars>>

\* Defect: the slot faded from keeps the texture that is being destroyed.
MoveNoCopy(T, i, src) ==
  [resetTexture(resetTexture(T, src), i)
     EXCEPT ![i].active = FALSE, ![src].active = TRUE]

\* Defect: the counters copied with the texture are not reset.
MoveNoReset(T, i, src) ==
  [resetTexture(copyTexture(T, i, src), i)
     EXCEPT ![i].active = FALSE, ![src].active = TRUE]

\* 171-175: the new picture moves to the slot it was faded from.
MoveTexture(T, i, src) ==
  [resetTexture(resetTexture(copyTexture(T, i, src), src), i)
     EXCEPT ![i].active = FALSE, ![src].active = TRUE]

\* Defect: the gate is not opened.
FinishEndShut ==
  /\ fader.pc = "finish"
  /\ textures' = MoveTexture(textures, fader.slot, fader.src)
  /\ queue' = Append(queue, Upd(fader.slot))
  /\ fader' = [fader EXCEPT !.pc = "scan", !.slot = 0, !.src = 0]
  /\ UNCHANGED <<blockCommands, cmd, dataVars>>

\* 171-182
FinishEnd ==
  /\ fader.pc = "finish"
  /\ textures' = MoveTexture(textures, fader.slot, fader.src)
  /\ queue' = Append(queue, Upd(fader.slot))
  /\ blockCommands' = FALSE
  /\ fader' = [fader EXCEPT !.pc = "scan", !.slot = 0, !.src = 0]
  /\ UNCHANGED <<cmd, dataVars>>

\* 183-194
FadeoverTick(i) ==
  /\ textures[i].fadeover > 1
  /\ textures' = [textures EXCEPT ![i].fadeover = @ - 1,
                                  ![i].dirty = TRUE,
                                  ![i].alpha = textures[i].fadeover - 1]
  /\ queue' = Append(queue, Upd(i))
  /\ blockCommands' = TRUE
  /\ UNCHANGED <<cmd, fader, dataVars>>

FaderScan(i) ==
  /\ fader.pc = "scan"
  /\ DrawnInTime
  /\ \/ FadeinLast(i)
     \/ FadeinTick(i)
     \/ ToggleTest(i)
     \/ FinishBegin(i)
     \/ FadeoverTick(i)

faderThread ==
  /\ May("fader")
  /\ (\E i \in Slots : FaderScan(i)) \/ ToggleSrc \/ ToggleEnd \/ FinishEnd

-------------------------------------------------------------------------------
(* update(): draws one slot, or every slot that is dirty and active.  Main *)
(* calls it, and so does the command thread for its texts.                 *)

slotVars == <<loading, cmd, fader, blockCommands, issued, ticks, goal>>

\* 72-80: the next slot of update(-1); the loop ends when there is none.
Redraw(t) == {s \in Slots : s >= upd[t].rest /\ textures[s].dirty
                                             /\ textures[s].active}

UpdateLoop(t) ==
  /\ upd[t].at = "loop"
  /\ \/ /\ Redraw(t) = {}
        /\ upd' = [upd EXCEPT ![t] = NoUpdate]
     \/ \E s \in Redraw(t) :
          /\ \A r \in Redraw(t) : s <= r
          /\ upd' = [upd EXCEPT ![t].at = "begin", ![t].id = s,
                                ![t].rest = s + 1]
  /\ UNCHANGED <<textures, heap, queue, screen, slotVars>>

\* 87-97: reads the texture, and dims it during a fadein.
UpdateBegin(t) ==
  /\ upd[t].at = "begin"
  /\ LET s == textures[upd[t].id]
     IN  /\ heap' = IF s.fadein > 0 /\ s.tex # NoTex
                    THEN [heap EXCEPT ![s.tex].colorMod = s.alpha] ELSE heap
         /\ upd' = [upd EXCEPT ![t].tex = s.tex,
                               ![t].at = IF s.fadeover > 0 THEN "blend" ELSE "copy"]
  /\ UNCHANGED <<textures, queue, screen, slotVars>>

\* Defect: the two textures of fadeOver are mixed up.
BlendSwapped(t) ==
  /\ upd[t].at = "blend"
  /\ LET s == textures[upd[t].id]
     IN  heap' = IF s.tex # NoTex
                 THEN [heap EXCEPT ![s.tex].alphaMod = s.alpha] ELSE heap
  /\ upd' = [upd EXCEPT ![t].tex = textures[TempSlot].tex, ![t].at = "copy"]
  /\ UNCHANGED <<textures, queue, screen, slotVars>>

\* 99-101, fadeOver: draws the picture and over it, step transparent, the one
\* it is faded from; the texture to show is the render target.
UpdateBlend(t) ==
  /\ upd[t].at = "blend"
  /\ LET s   == textures[upd[t].id]
         src == textures[s.fadesrc].tex
     IN  heap' = IF src # NoTex
                 THEN [heap EXCEPT ![src].alphaMod = s.alpha] ELSE heap
  /\ upd' = [upd EXCEPT ![t].tex = textures[TempSlot].tex, ![t].at = "copy"]
  /\ UNCHANGED <<textures, queue, screen, slotVars>>

\* 104-107: a destroyed texture may be refused by SDL, or copied all the same.
Copied(tex) == IF tex = NoTex THEN {screen}
               ELSE IF heap[tex].live THEN {heap[tex]}
               ELSE {screen, heap[tex]}

\* 104-115
UpdateCopy(t) ==
  /\ upd[t].at = "copy"
  /\ screen' \in Copied(upd[t].tex)
  /\ textures' = [textures EXCEPT ![upd[t].id].dirty = FALSE]
  /\ upd' = [upd EXCEPT ![t] = IF upd[t].all
                               THEN [@ EXCEPT !.at = "loop", !.id = 0, !.tex = NoTex]
                               ELSE NoUpdate]
  /\ UNCHANGED <<heap, queue, slotVars>>

update(t) ==
  /\ May(t)
  /\ UpdateLoop(t) \/ UpdateBegin(t) \/ UpdateBlend(t) \/ UpdateCopy(t)

-------------------------------------------------------------------------------
(* The event loop of main.                                                 *)

threadVars == <<blockCommands, cmd, fader, issued, ticks, goal>>

MainIdle == ~InUpdate("main") /\ loading = NoEvent /\ queue # <<>>

\* 27-34: an UPD event drops every other UPD event and redraws its own slot.
TakeUpd ==
  /\ MainIdle /\ Head(queue).type = "upd"
  /\ queue' = FlushUpd(Tail(queue))
  /\ upd' = [upd EXCEPT !["main"] = StartUpdate(Head(queue).code)]
  /\ UNCHANGED <<textures, heap, loading, screen, threadVars>>

\* 35
TakeLoad ==
  /\ MainIdle /\ Head(queue).type = "load"
  /\ loading' = Head(queue)
  /\ queue' = Tail(queue)
  /\ UNCHANGED <<textures, heap, upd, screen, threadVars>>

\* 37-39, loadImage: the slot's old texture is forgotten, not destroyed.
LoadImage ==
  /\ loading # NoEvent
  /\ \/ /\ heap' = Append(heap, Texture(loading.arg))
        /\ textures' = [textures EXCEPT ![loading.code].tex = Len(heap) + 1]
     \/ /\ LoadMayFail
        /\ textures' = [textures EXCEPT ![loading.code].tex = NoTex]
        /\ UNCHANGED heap
  /\ loading' = NoEvent
  /\ UNCHANGED <<queue, upd, screen, threadVars>>

\* 46-51
TakeDestroy ==
  /\ MainIdle /\ Head(queue).type = "destroy"
  /\ queue' = Tail(queue)
  /\ heap' = IF Head(queue).arg = NoTex THEN heap
             ELSE [heap EXCEPT ![Head(queue).arg].live = FALSE]
  /\ upd' = [upd EXCEPT !["main"] = StartUpdate(-1)]
  /\ UNCHANGED <<textures, loading, screen, threadVars>>

main ==
  /\ May("main")
  /\ TakeUpd \/ TakeLoad \/ LoadImage \/ TakeDestroy

-------------------------------------------------------------------------------
(* processCommand.                                                         *)

engineVars == <<heap, loading, fader, screen, ticks>>

\* The <num> of a command; fadeloop takes every number but 0, a negative one too.
Nums(c) == IF c = "fadeloop" THEN {-1} \cup 1..MaxLoop ELSE {0}

\* The picture a fadeloop of n ends on: every swap of the slots shows the other.
LoopGoal(c, n) == IF n > 0 /\ n % 2 = 1 THEN PicA(c) ELSE PicB(c)

\* 216-223: a command is read when the gate is found open.
Issue(c) ==
  /\ cmd.pc = "gate" /\ ~blockCommands /\ issued < MaxCmds
  /\ \E n \in Nums(c) :
       /\ cmd' = [pc |-> c, loop |-> n]
       /\ goal' = CASE c \in {"fadein", "fadeover"} -> PicB(issued + 1)
                    [] c = "fadeloop" -> LoopGoal(issued + 1, n)
                    [] OTHER -> goal
  /\ issued' = issued + 1
  /\ upd' = IF c = "draw" THEN [upd EXCEPT !["cmd"] = StartUpdate(0)] ELSE upd
  /\ UNCHANGED <<textures, queue, blockCommands, engineVars>>

\* 232-247
FadeIn ==
  /\ cmd.pc = "fadein"
  /\ queue' = Append(queue, LoadImg(0, PicB(issued)))
  /\ textures' = [textures EXCEPT ![0].active = TRUE, ![0].fadein = FadeMax]
  /\ cmd' = [cmd EXCEPT !.pc = "block"]
  /\ UNCHANGED <<blockCommands, upd, issued, goal, engineVars>>

\* 252-261
FadeOut ==
  /\ cmd.pc = "fadeout"
  /\ textures' = [textures EXCEPT ![0].active = TRUE, ![0].fadeout = FadeMax]
  /\ cmd' = [cmd EXCEPT !.pc = "block"]
  /\ UNCHANGED <<queue, blockCommands, upd, issued, goal, engineVars>>

\* 269-284
FadeOver ==
  /\ cmd.pc = "fadeover"
  /\ queue' = Append(queue, LoadImg(1, PicB(issued)))
  /\ textures' = [textures EXCEPT ![1].fadeover = FadeMax, ![1].fadesrc = 0,
                                  ![1].active = TRUE]
  /\ cmd' = [cmd EXCEPT !.pc = "block"]
  /\ UNCHANGED <<blockCommands, upd, issued, goal, engineVars>>

\* 289-306: the fader may see fadeloop before the rest is written.
FadeLoop ==
  /\ cmd.pc = "fadeloop"
  /\ queue' = queue \o <<LoadImg(0, PicB(issued)), LoadImg(1, PicA(issued))>>
  /\ textures' = [textures EXCEPT ![0].fadeloop = cmd.loop]
  /\ cmd' = [cmd EXCEPT !.pc = "loop2"]
  /\ UNCHANGED <<blockCommands, upd, issued, goal, engineVars>>

\* 307-310
FadeLoop2 ==
  /\ cmd.pc = "loop2"
  /\ textures' = [textures EXCEPT ![0].fadeover = FadeMax, ![0].fadesrc = 1,
                                  ![0].active = TRUE]
  /\ cmd' = [cmd EXCEPT !.pc = "block"]
  /\ UNCHANGED <<queue, blockCommands, upd, issued, goal, engineVars>>

\* 248, 263, 285, 311: the fade is armed, the gate is closed after it.
Block ==
  /\ cmd.pc = "block"
  /\ blockCommands' = TRUE
  /\ cmd' = [cmd EXCEPT !.pc = "gate"]
  /\ UNCHANGED <<textures, queue, upd, issued, goal, engineVars>>

\* 325, 347: the update(0) after setupText is over.
DrawDone ==
  /\ cmd.pc = "draw" /\ ~InUpdate("cmd")
  /\ cmd' = [cmd EXCEPT !.pc = "gate"]
  /\ UNCHANGED <<textures, queue, blockCommands, upd, issued, goal, engineVars>>

\* A command once read; the next one is the sender's business.
Handler ==
  /\ May("cmd")
  /\ FadeIn \/ FadeOut \/ FadeOver \/ FadeLoop \/ FadeLoop2 \/ Block \/ DrawDone

processCommand == Handler \/ (May("cmd") /\ \E c \in Commands : Issue(c))

-------------------------------------------------------------------------------
(* The timer thread asks for a redraw of all slots when a text expires.    *)

TimerUpd ==
  /\ ticks < TimerUpds
  /\ May("timer")
  /\ ticks' = ticks + 1
  /\ queue' = Append(queue, Upd(-1))
  /\ UNCHANGED <<textures, heap, loading, blockCommands, cmd, fader, upd,
                 screen, issued, goal>>

-------------------------------------------------------------------------------
Next == \/ faderThread
        \/ main
        \/ \E t \in Renderers : update(t)
        \/ processCommand
        \/ TimerUpd

\* Threads are scheduled fairly; nobody has to send a command.
Fairness == /\ WF_vars(faderThread)
            /\ WF_vars(main)
            /\ \A t \in Renderers : WF_vars(update(t))
            /\ WF_vars(Handler)

Spec == Init /\ [][Next]_vars /\ Fairness
-------------------------------------------------------------------------------
(* Properties                                                              *)

Slot(tex) ==
  [tex : {tex}, active : BOOLEAN, fadein : 0..FadeMax, fadeout : {0, FadeMax},
   fadeover : 0..FadeMax, fadesrc : {0, 1}, fadeloop : -1..MaxLoop,
   dirty : BOOLEAN, alpha : 0..FadeMax]

SlotsOK(T) == /\ T = [s \in Slots |-> T[s]]
              /\ \A s \in Slots : T[s] \in Slot(T[s].tex)

\* The part of the type invariant that says what the threads read and write.
ControlTypeOK ==
  /\ SlotsOK(textures)
  /\ blockCommands \in BOOLEAN
  /\ cmd \in [pc : {"gate", "block", "draw"} \cup FadeArming, loop : -1..MaxLoop]
  /\ fader \in [pc : {"scan", "toggle", "toggleEnd", "finish"},
                slot : {0, 1}, src : {0, 1}]

SdlTexture == [live : BOOLEAN, alphaMod : 0..FadeMax, colorMod : 0..FadeMax,
               img : 0..2 * MaxCmds + 1]

Event ==
  [type : {"upd", "load", "destroy"}, code : {-1} \cup Slots, arg : Nat]

\* Every variable keeps its type, and a texture id its meaning: an index of heap.
TypeOK ==
  /\ ControlTypeOK
  /\ heap \in Seq(SdlTexture)
  /\ queue \in Seq(Event)
  /\ loading \in Event \cup {NoEvent}
  /\ upd \in [Renderers -> [at : {"no", "loop", "begin", "blend", "copy"},
                            id : Slots, tex : 0..Len(heap), rest : 0..3,
                            all : BOOLEAN]]
  /\ screen \in SdlTexture
  /\ issued \in 0..MaxCmds
  /\ ticks \in 0..TimerUpds
  /\ \A s \in Slots : textures[s].tex \in 0..Len(heap)

NoFade(T) == \A s \in Slots : ~Fading(T, s)

\* A command past the gate that has not armed its own fade yet finds no fade
\* under way: the gate of wallystart.c:216 is never open during a fade.
AdmittedIdle ==
  cmd.pc \in {"fadein", "fadeout", "fadeover", "fadeloop", "draw"} =>
    NoFade(textures) /\ fader.pc = "scan"

\* At most one slot fades; only in the middle of a swap (148-160) are there two,
\* the one just armed and the one about to be reset.
ExclusiveFade ==
  \A s, r \in Slots :
    Fading(textures, s) /\ Fading(textures, r) /\ s # r =>
      fader.pc = "toggleEnd" /\ {s, r} = {fader.slot, fader.src}

\* The gate is opened (133, 181) only by a step that leaves no slot fading.
GateOpensIdle == [][blockCommands /\ ~blockCommands' => NoFade(textures')]_vars

\* Every fade comes to an end, whatever the interleaving (118-203).
FadesEnd == []<>NoFade(textures)

\* A texture that a step of update() is about to read or draw is not destroyed
\* (87-107 against 48).
RenderLive ==
  \A t \in Renderers :
    LET s == textures[upd[t].id]
    IN  /\ upd[t].at \in {"begin", "blend"} /\ s.tex # NoTex => heap[s.tex].live
        /\ upd[t].at = "blend" /\ textures[s.fadesrc].tex # NoTex =>
             heap[textures[s.fadesrc].tex].live
        /\ upd[t].at = "copy" /\ upd[t].tex # NoTex => heap[upd[t].tex].live

\* No texture is destroyed twice: a DESTROY event in the queue (169) is for a
\* texture that is alive and that no other event destroys.
DestroyOnce ==
  \A k \in DOMAIN queue :
    queue[k].type = "destroy" /\ queue[k].arg # NoTex =>
      /\ heap[queue[k].arg].live
      /\ \A m \in DOMAIN queue :
           queue[m].type = "destroy" /\ queue[m].arg = queue[k].arg => m = k

Settled == /\ queue = <<>> /\ loading = NoEvent /\ cmd.pc = "gate"
           /\ fader.pc = "scan" /\ NoFade(textures)
           /\ \A t \in Renderers : ~InUpdate(t)

\* Once every event is handled, the texture that was copied to the display last holds
\* the picture the last fade command asked for: not a blend, not an older picture.
LastDrawn == Settled /\ goal # 0 => screen.img = goal

\* The same, and it can be seen: all pictures blend (wallylib.c 349), so that nothing
\* shines through one only if it is opaque, and the steps of a fadein leave it no
\* darker than one step from full brightness.
FinalFrame == Settled /\ goal # 0 => /\ screen.img = goal
                                     /\ screen.alphaMod = FadeMax
                                     /\ screen.colorMod >= FadeMax - 1

\* Once every event is handled the picture on the screen is opaque: only the
\* one faded from is made transparent, by fadeOver (wallylib.c:275).
FinalOpaque == Settled /\ goal # 0 => screen.alphaMod = FadeMax

\* A closed gate opens again, and the next command can be read.
CommandsResume == blockCommands ~> cmd.pc = "gate" /\ ~blockCommands
===============================================================================
