# Verification of wally-start

wally-start is the splash screen of the wally devices: `wallystart` fades
pictures and texts over an SDL window while the device boots. The repository
also has `wallypixel` (an LED strip), `wallyvideo` (a video player), `wallyc`
(a command line client) and a few display demos. This directory holds TLA+
models of that code, the TLC runs that check them and proofs that TLAPS checks.
Line numbers are those of `src/wallystart.c` unless another file is named.

## 1. Inventory

| Part | State | Operations | Hard behaviour | What makes it correct |
|---|---|---|---|---|
| picture engine (`wallystart.c`, `wallylib.c`) | three texture slots, SDL event queue, `blockCommands`, SDL textures, the screen | fade commands (232-315), `faderThread` (118-203), `main` (25-60), `update` (68-116), `fadeOver`, `loadImage`, `resetTexture`, `copyTexture` | command, fader, main and timer threads share the slots without a lock; redraw requests are flushed; images are loaded asynchronously | one fade at a time, the gate closed during a fade and opened after it, no destroyed texture drawn, the right last frame |
| text slots and timer | 255 text slots, their textures, timeouts | `setupText`, `clearText`, `renderTexts`, `timerThread` | three threads again; `clearText` redraws recursively | a text stays as long as asked and then leaves the screen; no texture used after its destruction |
| startup and shutdown | `quit`, `eventLoop`, four threads | `initGFX`, `initThreadsAndHandlers`, `EventFilter`, `processScript`, `cleanupGFX` | threads are started in an order that matters for the join; shutdown frees what the threads use | the start script runs before remote commands; nothing is used after it is freed |
| `wallylistener` | sockets, one line buffer | `logListener`, `sgetline` | one line per connection, the answer precedes the execution | every line that is answered is executed, once, in order |
| `wallyc`, `tcp` | a socket | `conn`, `send_data`, `receive` | receive timeout | the client gets the answer to its lines |
| `wallyvideo` | two packet queues, one picture queue, `quit` | reader, decoder, audio callback, refresh timer, main | condition variables, bounded queues, a quit that must wake everyone | no packet lost, bounds kept, quit ends all threads |
| `wallypixel` | pixel list, `logStr` mailbox | `setPixel`, `fade`, `rise`, `crossfade`, `show` | mailbox without a lock; 8 and 32 bit arithmetic | commands are not lost, colours do not bleed into each other |
| pure helpers | none | `repl_str`, `hexToColor`, `getNumOrPercentEx`, `sgetline` | boundaries | they compute what their comments say |
| `slog` | log levels | level filter, output | none | output only |
| demos (`kmscube`, `kmsraw`, `es*`), build files, configuration | - | - | - | not part of the daemon |

How they interact: the listener thread and the start script thread call
`processCommand`; it writes the texture slots, pushes events for `main` and
polls `blockCommands`, which `faderThread` writes; the fader pushes redraw and
destroy events; the timer pushes redraw events; `main` and, for texts, the
command thread draw. `wallypixel` has the same listener, which there only stores
the line in the global `logStr`. `wallyvideo` creates it too (`wallyvideo.c` 889) and
reads `logStr` when a command event arrives (923); nothing in the repository pushes that
event, so that the model has commands arrive at any time.

`wallypixel` and `wallyvideo` do not build at this commit. The first is commented
out in CMake, its `logStr` mailbox lacks the `answer` pointer and the
`startup_thr` the listener wants; the second is behind `WITH_VIDEO` and uses a
variable as a case label. They are modelled by what their code says.

`PROJECT.json` lists the hazards line by line, with the properties that cover
each.

## 2. The picture engine

### Modules

* `FadeGate` - the abstract specification of the gate (216): commands are read
  one at a time, a fade command fixes the number of steps of its fade and
  closes the gate, the last step opens it.
* `FadeEngine` - the detailed model: threads, slots, events, textures, screen;
  its properties; the defects that show each property can fail.
* `FadeEngineGate` - the refinement mapping from the engine to the gate.
* `FadeEngineProofs` - the theorems about the gate, the types and the textures.
* `FadeGateProofs` - the theorems about the refinement and the last frame.
* `MCFade` - instances for TLC; `MCFrame` - two of them in one run.

### State and actions

| Model | Code |
|---|---|
| `textures` | `textures[]`, the fields of `struct texture` without `delay` and the geometry that is never written |
| `heap` | every SDL texture ever created: alive or destroyed, its alpha and colour modulation, its picture |
| `queue` | the SDL event queue with the three event types in use |
| `loading` | the LOADIMAGE event whose file main is reading |
| `cmd`, `fader`, `upd` | where each thread is inside a handler that others can observe half done, with the locals that live across it (`i`, `src`, `tex`) |
| `blockCommands` | the same |
| `screen` | the texture that was copied and presented last, with its alpha and colour modulation |
| `issued`, `ticks`, `goal` | two bounds and a history variable: the picture the last fade command ends on |

Each block of the fader (126, 135, 148, 162, 183), each fade command, each
branch of the event loop that changes state and each stretch of `update()`
between two reads of shared state is an action of the same name. Blocks that
follow each other in one visit of a slot are distinct actions: their guards say
what the earlier block has left. A step of the fader that asks for a redraw ends with `usleep` (145, 193, 198). In the
model the fader may still be as fast as it likes, unless the region `lag` is left out:
then main draws a step before the fader counts the next (`DrawnInTime`).

`delay` is abstracted: the time of a step is arbitrary. Drawing texts is seen
here only as `update(0)` on the command thread (`draw`, 325 and 347) and as the
timer's `update(-1)`. `rot`, `color`, `sleep`, `nice` change nothing the model has.

### Interruption

The constant `Preempt` names the regions in which the scheduler may stop a
thread and run another: `handler` (a fade command between its first write and
`blockCommands = true`), `fader` (the fader inside a toggle or a finish), `update`
(inside `update()`), `load` (main inside `loadImage`, and a fade that ends
before its picture is loaded) and `lag` (redraws that main has not served when the fader
goes on). With all five every thread may be stopped between any two actions. An action
is a stretch with at most a few accesses to shared state, which the model takes as one
step: finer interruptions, and what a compiler or a cache makes of unlocked
variables, are not in it. With fewer regions it shows what is right as long as the named
stretches are short. Every run names its regions.

### Runs

| Run | Regions | Commands | What it shows |
|---|---|---|---|
| `fade_free` | all | all, 2 of them, loops of -1 and 1 | `AdmittedIdle`, `ExclusiveFade`, `GateOpensIdle`: the gate separates fades whatever the schedule. `FadesEnd`: every fade ends. `TypeOK` |
| `fade_gate` | fader, load, lag | all but fadeout, 2 of them, loops of -1, 1, 2; one timer request | `GateRefinement`: the engine implements `FadeGate`. `CommandsResume`: a closed gate opens |
| `fade_calm` | update, lag | all but fadeout, 3 of them, loops up to 2 | `RenderLive`, `DestroyOnce`. `FadeShown`: the texture drawn last holds the picture asked for (`LastDrawn`) |
| | update | all but fadeout and fadeloop, 4 of them, fades of 4 steps; one timer request | `FadeShown`: that picture is seen, opaque and at full brightness (`FinalFrame`) |
| `fade_out` | lag | fadeout | `CommandsResume` fails: nobody acts on `fadeout` |
| `fade_arm` | handler, lag | all but fadeout | `CommandsResume` fails: the fade ends before its handler closes the gate |
| `fade_load` | load, lag | no loops | `RenderLive` fails: a late picture lands in the slot that was moved away |
| `fade_opaque` | none | all but fadeout | `FinalOpaque` fails: the last picture of a fadeloop is transparent |

What is seen. Every picture is loaded with `SDL_BLENDMODE_BLEND` (`wallylib.c` 349), and
`update()` copies a texture over what is in the back buffer. Which texture was copied last says
therefore little about the display unless that texture is opaque: `LastDrawn` is about the
texture only, `FinalFrame` adds full alpha, through which nothing of the back buffer can shine,
and a colour modulation at most one step of a fadein below full. `fade_calm` takes two
instances of the engine (`MCFrame`): one in which main lags behind and fades may loop, for which
only `LastDrawn` holds, and `Prompt`, for which `FinalFrame` does.

Bounds. A fade has 2 steps instead of 255 (`FadeMax`): one that only counts and
the last one, which are the two kinds the code tells apart. In `Prompt` it has 4, so
that a nearly dark or transparent picture differs from a nearly full one, and four
commands, so that a picture is faded in, over, and away again. Loops of up to two
legs reach a toggle in both directions; -1 is a legal argument that is never a
toggle. Two commands make every pair follow each other, three let a defect of
the second show in the third. The bound on commands lets the system come to
rest, which is why the runs do not check deadlock; the liveness properties do
that job. The states are finitely many because a fade has finitely many steps
and commands and timer requests are bounded.

Fairness. The fader, main, the two calls of `update` and the command handler are
POSIX threads that nothing blocks for ever: weak fairness each. Nobody has to
send a command or let a text expire: `Issue` and `TimerUpd` are not fair.

What fails with more interruption. `RenderLive` needs the fader's finish (162-182)
whole: the DESTROY event is pushed (169) before the slot is overwritten (171).
It needs loads in time (`fade_load`). `LastDrawn` needs handlers whole, loads
in time and successful, and no timer request while main lags behind: `update(-1)`
arriving first flushes the last redraw request of the fade (31) whose dirty
flag was just reset (172). `FinalFrame` needs in addition that main does not lag behind
(`lag`): the fade and the alpha of a step are read (97, 101) and set on the source only when the step is
drawn, and steps that are drawn late or left out leave the picture of the fade transparent.
And it needs fades that do not loop: the legs of a fadeloop make both pictures transparent in
turn (`wallylib.c` 281), and nothing makes the last one opaque again (`fade_opaque`). These are
hazards of the code; they are listed in `PROJECT.json`.

### Proofs

For every value of the constants (`FadeMax` at least 2, any loop bound, any number
of commands), and

* for any `Preempt`: `GateGuardsFades`: `Spec => []AdmittedIdle`, a command past the
  gate finds no fade under way; `OneFade`: `Spec => []ExclusiveFade`; `OpensIdle`:
  `Spec => GateOpensIdle`; `EngineTyped`: `Spec => []TypeOK`;
* for whole fader blocks and loads (`Whole`): `DestroyedOnce`: `Spec => []DestroyOnce`
  and `DrawsLive`: `Spec => []RenderLive`;
* for whole handlers and no `fadeout` (`Calm`): `StepsAddUp`: `Spec => []StepsInv` and
  `GateImplemented`, the safety half of `GateRefinement`;
* for whole handlers, fader blocks and loads, no `fadeout`, readable pictures and no
  redraw of the timer (`Punctual`, the instance of `fade_calm`): `LastPicture`:
  `Spec => []LastDrawn`;
* for the same, no `fadeloop` and a main that does not lag behind (`Timely`): `LastFrame`:
  `Spec => []FinalFrame`. The instance `Prompt` allows a request of the timer beside that.

*The gate.* None of these is inductive. `blockCommands` alone says little: it is stale in
both directions, since the handler sets it last and the fader sets it at every tick.
What is true is `GateInv`: if the command thread is at the gate and the gate is
open, or it has passed the gate and not armed its fade yet, then nothing fades
and the fader is between two blocks (`Quiet`). To keep that through a fade one
needs that at most one slot fades (`ExclusiveFade`), that an idle slot has no
source left from an earlier fade (`SrcClean`, else a fadeloop armed field by field
would toggle into another slot), what the fader tested before it acts
(`FaderInv`), and the shape of the half written fadeloop (`LoopInv`). `IInv` is
the conjunction with the types of the control (`ControlTypeOK`).

*Types.* The flush of an update request is a recursive function on the event queue. What
it returns is known from lemmas for every queue, by the least index at which they could
fail; `EngineTyped` and all that follows rest on them.

*Textures.* A texture dies when main takes its DESTROY event. `TexInv` says why nobody
holds it by then: a slot holds a texture that lives, and none that an event names, but for
the slot that the fader is about to overwrite (`Holding`); what the command thread is about
to show is named by no event (`Drawn`); no texture is named twice (`NoTwice`); and during a fade
the two slots hold different textures once they are loaded (`Apart`), so that the swap at its
end leaves nobody with the destroyed one. The condition `Whole` is what the code needs: the event is pushed (169)
before the slot is overwritten (171), and a late load is a counterexample (`fade_load`).

*The refinement.* The abstract gate counts the steps of a fade down. In the engine that count
is the counters of the slots and the steps of the remaining legs, where a toggle that is
half done counts once. `StepsInv` says how the counters relate, so that each step of the fader
takes one off: a slot does one kind of fade (`Counters`), what the fader tested before a toggle or a
finish (`Tested`), what a handler has written so far (`Planned`). `Calm` is needed: a handler that
is interrupted arms a fade of another length, and `fadeout` closes the gate without a fade.

*The last frame.* `FrameInv` follows the picture that the last command names (`goal`): it
is brought by the command (`Promised`) and by LOADIMAGE events; every slot that a fade
is heading for has it or will have it once the loads that wait are done (`Aim`);
no load is left when the fade ends (`Loaded`); the queue keeps the order in which a fadein
needs its redraw and its load (`Order`); and when all is at rest a redraw request waits, or
main is showing the picture, or the screen has it (`Resting`). That the picture can be
seen is `LightInv`, which holds under `Timely`: only slot 1 fades over, and from slot 0
(`Plain`); two pictures are blended only while the fade goes on (`Blending`), so that the one made
transparent is the one that goes away; the one a fade is heading for was loaded for it and is opaque
(`Opaque`), and in the last step of a fadein it was drawn at nearly full brightness or
will be (`Lit`). The hypotheses of `LastPicture` exclude
four ways in which the code ends on another frame. A timer's `update(-1)` flushes the last
redraw request of the fade (31) whose dirty flag was just reset (172). A picture that cannot be
read leaves the old one. A fade that starts before its handler is done runs with half of
its fields. A load that comes after its fade ended lands in the wrong slot.

The liveness of `GateRefinement`, `CommandsResume` and `FadesEnd` stay with TLC.

## 3. The text slots

### Modules

* `TextSlots` - text slots, the three threads that use them, the redraws.
* `TextSlotsProofs` - the theorems about types and expiry.
* `TextTurnsProofs` - the theorems about threads that take turns.
* `MCText` - instances for TLC.

Line numbers are those of `src/wallylib.c`; "start" marks those of
`src/wallystart.c`.

### State and actions

| Model | Code |
|---|---|
| `textFields` | `tex`, `active`, `destroy`, `timeout` of `textFields[]`; position, size, colour and the string are left out |
| `live` | the text textures that exist; the n-th command makes texture n |
| `calls` | the call stack of main and of the command thread: renderTexts (444-473) calls clearText (497-511), which calls update (start 68-116), which calls renderTexts |
| `timer` | where `timerThread` (start 414-435) is and which slot it visits |
| `queue`, `dirty` | redraw requests and what `update(-1)` looks at |
| `back`, `shown` | the texts in the renderer's back buffer and on the display |
| `lasts`, `age` | history: the duration a text was set up with, the timer's visits since |

`DrawPicture`, `VisitSlot`, `ReadSlot`, `DrawText`, `Present`, `ClearTest` and
`ClearSlot` are the stretches of a redraw between two accesses to what another
thread can change; `Setup...` and `Timer...` are the single writes of `setupText`
(513-561) and of a visit of the timer. Font, surface and texture creation may
fail (`SetupTex`), and as in the code nothing is undone then. The pictures are
one slot that the fader makes dirty now and then (`FadeStep`); that it does so
only between commands is `AdmittedIdle` of the engine.

`Interrupts` is a set of pairs: `<<u, r>>` lets thread u take a step while another
thread is in region r (`setup`, `render`, `timer`). With all pairs every thread may be
stopped between any two of these stretches.

### Runs

| Run | Instance | What it shows |
|---|---|---|
| `text_timer` | 2 slots, durations up to 2, 2 commands, fades; the timer interrupts redraws, main interrupts the timer | `TextLive`: no texture is used or destroyed after its destruction. `RecursionBound`: the recursion ends. `TextShown`, `TextGone`: after every redraw the display has the active texts and nothing destroyed. `TextLasts`: no text expires early. `RedrawFrees`: while redraws keep coming, expired texts are freed. `TypeOK`; no deadlock |
| `text_idle` | one command, no fades | `TextLeaves` fails: on a display without a fade an expired text stays. The timer's `update(-1)` draws only dirty pictures |

Bounds. Two slots make one level of recursion start while the outer one still has
a slot to draw; two commands replace or clear a text in any state of its expiry;
a duration of 2 has a visit that only counts and one that expires, 0 is for ever.
The fader adds a redraw request while fewer than two wait (`MaxQueue`): a request
drops all others, so two show what more would.

Fairness. The threads are weakly fair. `FadeStep` and the commands are not:
`RedrawFrees` has the coming redraws as its hypothesis.

What fails otherwise. If main and the command thread may draw at the same time,
`TextLive`, `TextGone` and `TextLasts` fail with all pairs in `Interrupts`;
`RecursionBound` still holds. If the renderer swaps two buffers (`Flips`),
`TextShown` and `TextGone` fail even without any interruption: the redraw inside
`clearText` presents, and the outer one goes on in the other buffer. Without a
picture in slot 0 (`HasPicture` FALSE) nothing covers old texts. All three are
listed as hazards.

### Proofs

`TextSlotsProofs` proves for any number of slots, durations and commands, and for
every `Interrupts` in which the timer and `setupText` do not interrupt each other
(`Separate`; `text_timer` is such an instance):

* `TextTyped`: `Spec => []TypeOK`;
* `Expiry`: `Spec => []TextLasts`.

`TextLasts` says nothing about a slot that is not marked, so it is not inductive.
The invariant `TInv` adds that a slot's timeout is what is left of its duration,
one less while the timer is at the slot (`Countdown`), that the timer marks only a
text in its last second (`LastSecond`), and that `setupText` has removed the old
mark when it sets the new duration (`Unmarked`). That the command thread returns
from a redraw never into the middle of `setupText` is `Stacks`, an invariant of the
call stacks.

`TextTurnsProofs` proves for any number of slots, durations and commands, with the timer
running during redraws, and for main and the command thread taking turns
(`Alternate`):

* `RecursionEnds`: `Spec => []RecursionBound`;
* `TexturesLive`: `Spec => []TextLive`;
* `ActiveShown`: `Spec => []TextShown`, for a renderer that keeps its back buffer (`~Flips`);
* `DestroyedGone`: `Spec => []TextGone`, for such a renderer and a picture in slot 0.

The invariant `TurnsInv` is about one call stack, that of the thread whose turn it is. Two
levels of a recursion know little of each other: what an outer level read may be gone
when the inner one returns. `Nested` says what lasts: each suspended level stands behind a
slot of its own that it has cleared and that has no texture until the stack is empty, so that
the depth is bounded by the number of slots; `Holding` that a slot's texture exists, is in no
other slot, and is the one a level copies; `Displays` and `Remains` that the back buffer has the texts of
all slots the running level has passed, and no destroyed one. The other conditions
are those under which the run fails otherwise (see above). `RedrawFrees` is liveness and
stays with TLC.

## 4. The video player

### Modules

* `PacketQueue` - the linked list of packets and its put and get.
* `VideoPlayer` - main, reader, video thread and audio thread of `wallyvideo.c`.
* `VideoProofs` - the theorems about the packet queues, their sizes and the wake-ups.
* `VideoShowProofs` - the theorems about the picture queue, the redraws and the types.
* `MCVideo` - three files for TLC.

Line numbers are those of `src/wallyvideo.c`.

### State and actions

| Model | Code |
|---|---|
| `queues` | `audioq`, `videoq`: `first`, `last`, `next`, `nb`, `size`. A list node belongs to one packet while it is queued and is named by it |
| `pc` | where each thread is; `asleep`, `nospace`, `noalloc` are the waits on a condition variable, `towait` the moment between the look and the sleep in which the mutex is held |
| `pictq`, `slot` | the picture queue: indices and size; of each slot whether it has a texture (`bmp`), its buffer (`raw`: none, live, null when its pixels could not be allocated, freed), its dimensions, `allocated`, and the frame in it |
| `events`, `timer` | the SDL event queue, and the SDL timers that have not fired |
| `streams`, `read` | `videoStream` and `audioStream`, the place in the file |
| `audio` | of the callback's static variables what is left of a packet, what SDL still asks for, and whether the buffer pointer was ever set |
| `quit`, `running`, `frameFail` | the same |
| `sent`, `got`, `queued`, `shown` | history: what was put, taken, and what can be seen of each picture queued and displayed (`Visible`: its frame, or nothing without a texture or a buffer) |

| Action | Code |
|---|---|
| `CmdStop`, `CmdStart`, `CmdOther` | the commands of main (928-962) |
| `RefreshEmpty`, `RefreshShow`, `video_display` | `video_refresh_timer` (331-397) and `video_display` (288-327) |
| `alloc_picture` | 399-447. Three allocations fail independently: without a texture (414-422) the slot is allocated all the same, and its picture queued and passed over (294, 468); without a frame (430) it returns and leaves a freed buffer; a buffer without pixels (436) is not tested, and the scaler or SDL may crash on it |
| `QuitSignal`, `QuitSet`, `QuitDone` | 909-916, in the order of the code |
| `OpenFails`, `OpenStreams`, `ReadPacket`, `ReadError`, `ReaderFlood`, `ReaderQuits` | `decode_thread` (739-853) |
| `packet_queue_look`, `QueueSleep`, `Spurious` | one turn of the loop of `packet_queue_get` (45-81) |
| `VideoQuits`, `queue_picture_space`, `_alloc`, `_fill` | `video_thread` (543-596) and `queue_picture` (449-507), split where the mutex is released |
| `audio_callback`, `DecodeAudio`, `Silence` | 97-273 |

A packet is its stream, its size and the dimensions of the picture in it. pts,
clocks and delays are left out: they decide how long a delay is, and in the
model a delay has any length. `get_audio_clock` has no caller.

### Run

`video` plays any of three files: a film with sound, a file whose first stream
is sound, and a silent one whose picture changes its size and which has a stream
of another type first. Decoders, allocations, opening and reading may fail and
wake-ups may be spurious.

| Property | What it says |
|---|---|
| `QueueFifo` | the list holds what was put and not taken, in order; each decoder has the packet that was next |
| `SizeBound` | `size` is that of the packets in the list, and exceeds the limit by one packet at most |
| `ShownOrder` | pictures come to their turn in the order they were queued, each once, and what is seen of one is what could be seen of it when it was queued |
| `PictureSafe` | a slot that is displayed has a buffer that was not freed and the dimensions of its frame, and is not written; a slot that is written has such a buffer of the right dimensions |
| `RefreshOnce` | never two redraws under way, and one while the video runs |
| `NoLostWake` | no thread sleeps on a condition that holds |
| `FramesShown` | a queued picture comes to its turn, or the player ends |
| `PlayEnds` | a video that was opened ends by itself |
| `QuitEnds` | quit ends the program, or `SDL_Quit` waits for an audio thread asleep in its callback |

Bounds. Two packets make a list that is empty, a list of one and a list of two.
The limits 0 and 1 make the reader wait with one packet in a queue. One picture slot
is the value of the code. `FrameFailMax` is 1 for 200: one failure that goes on
and one that ends. Three events can be the redraw, the allocation and a quit, and
a fourth is lost. Two commands give a start and a stop in either order, and a
second start.

Fairness. The four threads, SDL's call of the audio callback and the timer are
weakly fair. Commands, spurious wake-ups and input errors are not: nothing has
to happen there.

What the model shows of the code. Main signals the conditions (912) before it sets
`quit` (914): a decoder that is woken in between finds `quit` unset and sleeps
again, and the audio thread may then sleep for ever, which `QuitEnds` names as its
one exception. The video stream is looked for by `coder_type` (780), where the
comment (778) speaks of the type. A failed open leaves `running` true (943), so
that no later start works. The redraws of 200 empty turns end a playback that is
merely slow (337). After an input error the reader pushes quit events without a
pause (837). A picture without a texture is counted as shown (294); one whose pixels could
not be allocated (436) reaches the scaler and SDL as a null pointer. `put` drops a packet silently when there is no memory (22). The
silence of a callback that never had a frame is written through a null pointer (254).

### Proofs

The theorems hold for every file, all limits and bounds and every interleaving;
`VideoAssumption` says what a file is and that a frame of sound and a request for sound
are not empty.

`PacketsInOrder`: `Spec => []QueueFifo`. The list alone says too little: that an
appended node is not already in the list needs that the packets put so far ascend
and none is beyond the last one read (`Ordered`); that nothing was put when the
reader initialises the queues (`Fresh`) needs that the reader is started once
(`Once`); `Shapes` gives the types that the pointers need. `FifoInv` is their
conjunction.

`WakeUpsArrive`: `Spec => []NoLostWake`. What a thread saw before it sleeps must
hold until it sleeps: `WakeInv` adds that a decoder between its look and its sleep
has an empty queue (`Looked`), that the video thread keeps the room it found until it
queues a picture (`Room`), that it waits for room only when there is none (`NoRoom`)
and for an allocation only when there is none yet (`Awaited`), and that main has a
picture to take when it makes room (`Showing`).

`PicturesInOrder` and `PicturesAreSafe`: `Spec => []ShownOrder` and
`Spec => []PictureSafe`, from `ShowInv`, for any number of picture slots. The n-th
picture queued is in slot n - 1 modulo that number (`Counted`) and stays there
untouched, with its buffer, its dimensions and what can be seen of it (`Complete`), until its turn
comes (`Waits`). Main allocates only the slot the video thread
asked for, while that thread waits or has given up (`Asking`). `Sound` and `Given` say
what an allocation leaves in a slot, whichever of its three parts fails. That the buffer has
pixels is not promised: `Held` has those that are null.

`QueuesStayBounded`: `Spec => []SizeBound`. `size` is a sum over the packets between the last
one taken and the last one put. `SizeInv` adds that without the packet put last it is
within the limit, which holds when the reader has just looked, and stays true because
decoders only take away.

`OneRedrawOnly`: `Spec => [](Redraws <= 1)`, and `RedrawsGoOn`: `Spec => []RefreshOnce`. A redraw is
an event, an SDL timer or main in it; each turns into the next. That none is lost needs
room in the event queue: beside the redraw there is at most one allocation and the commands
not handled yet, and the theorem assumes `MaxCmds < MaxEvents`. SDL's queue has
65535 places; a player whose queue is full loses its only redraw and stands still.

`PlayerTyped`: `Spec => []TypeOK`. `PlaceInv` adds what the places of the threads tell
of the data: a callback under way still needs sound and a packet being decoded has a frame,
so that both counts stay above 0 (`AudioTyped`), and who asks for a picture has taken a packet
(`Began`).

Liveness is model-checked only.

## 5. The service

### Modules

* `Service` - the process from start to end, the start script, the command port
  and its clients.
* `ServiceProofs` - the theorems.
* `MCService` - requests and scripts for TLC.

### State and actions

| Model | Code |
|---|---|
| `proc` | the process: up, exited, or crashed by use of released slots (`crash_slots`), by an empty text (`crash_empty`), by a join of a thread that does not exist (`crash_join`) |
| `unset` | history: the listener joined the start script before main had stored its id, and got an error that it ignores (`wallylistener.c` 39) |
| `begun` | what main has started so far |
| `quit`, `eventLoop`, `blockCommands` | the same |
| `live`, `freed` | the slots were allocated; how many steps of their release are done |
| `todo` | for each thread that executes commands, the lines not executed yet |
| `backlog`, `cur`, `inbox`, `reply` | the kernel's queue of connections, the accepted one, bytes sent and not read, what was answered |
| `line`, `size` | `sgetline`'s bytes and the size of its buffer |
| `conn`, `request`, `got` | each `wallyc`: where it is, what it sends, what it received |
| `order`, `remote` | history: clients as they connected, and those whose line was executed |

| Action | Code |
|---|---|
| `initGFX`, `initThreadsAndHandlers` | `wallylib.c` 374-426, 572-600, in the order `StartOrder`; each step may fail and ends the program |
| `HandleEvent`, `WaitFails`, `EventFilter` | `wallystart.c` 25-60, `wallylib.c` 81-129 |
| `cleanupGFX` | `wallylib.c` 428-442: one slot after the other, without joining any thread |
| `sig_handler` | `wallylib.c` 563-570 |
| `processScript`, `CmdRun` | `wallystart.c` 380-411 |
| `CmdQuit`, `CmdComment`, `CmdUse`, `CmdFade`, `CommandsDone` | `processCommand` (205-378), by what a line does to the rest: uses slots, closes the gate, quits, runs a script, nothing |
| `OpenPort`, `JoinStartup`, `Accept`, `AcceptFails`, `ReadByte`, `ReadFails`, `AnswerAndRun`, `CloseConnection` | `wallylistener.c`: `logListener`, `sgetline` |
| `conn_`, `send_data`, `receive` | `wallyc.cpp`, `tcp.cpp` |
| `OpenGate`, `Sweep` | the fader and the timer as this module sees them: a fade ends, slots are visited |

Composition. The gate is `FadeGate`'s: a fade command closes it, and it may be opened
again. It need not be: after a `fadeout`, and after a fade that ends before its handler has
closed the gate, it stays closed (`fade_out`, `fade_arm`), and nothing here relies on the
opposite. A client that is refused has done nothing.
A window event that the filter discards does not wake main; the start script, and
with it every remote command, waits for the first event that passes.

### Run

`service` has two clients and every combination of two pairs of requests (a fade and a
line more, and quit; an empty line and one without an end) with three start scripts (none,
empty, one that runs another script). A client need not send its request.

| Property | What it says |
|---|---|
| `ScriptFirst` | no remote command is executed before the start script has ended, unless the listener joined that script before its id was stored |
| `ServedOnce` | of a connection at most one line is executed, its first, in the order of the connections; an answer means that the line was executed or is now |
| `BufferFits` | the next byte of a line is written inside the buffer |
| `SlotsReady` | no thread uses slots that are not allocated; released slots are used only while main ends the program |
| `AnsweredRuns` | an answered line is executed to its end, or the process ends, or the listener waits for ever at a closed gate |
| `QueueMoves` | once main has seen an event, no connection waits for ever behind another one, unless the listener died, reads for ever from a client that sends nothing, or it or the start script waits for ever at a closed gate |
| `QuitEnds` | a request to quit ends the program |

Bounds. The buffer starts with one byte and grows by one, so that every byte beyond
the first makes it grow. One place in the backlog makes the second client wait or be
refused. One SDL event waits at most, and a further one is not generated. One
picture slot and the text slots are released one after the other; a redraw of a slot that
`cleanupGFX` itself has released needs a second one. A closed gate that is never opened and a
client that never sends are both among the behaviours, so that the exceptions in the
liveness properties are met.

Fairness. Main, the signal handler, the script thread, the listener and the execution of
commands are weakly fair, and so is a client that waits for its answer: its receive has a
time limit. Nothing else is. A client need not connect or send: `wallyc` connects (`wallyc.cpp`
14) before it reads its standard input (19-26), and the listener's read has no
time limit (`wallylistener.c` 95). The gate need not open. `AnsweredRuns` and `QueueMoves`
name these two as exceptions, and only if they last for ever. Window events, failures of
`SDL_WaitEvent` and `accept`, and the visits of fader and timer are not fair either. `QuitEnds`
takes it that `exit()` called in the signal handler returns to the system, which
POSIX does not promise.

What the model shows of the code. Of a request with several lines, which the usage of
`wallyc` offers, only the first is executed; the rest is lost with the connection. The
answer goes out before the execution. Nobody joins the threads before `cleanupGFX`
frees their slots, and `cleanupGFX` itself redraws (`update(-1)` by `destroyTexture`)
slots it has freed: both are `crash_slots`, with main in `clean`. An empty line or
script is `crash_empty` (`wallystart.c` 212-221). A listener that is faster than main's
`pthread_create` of the start script joins an id that is not stored yet, which is undefined:
either it crashes (`crash_join`), or it returns an error, line 39 ignores it, and remote commands
run beside the start script, although `wallylistener.c` 38 and `wallylib.c` 578 say
that the listener waits for it. `ScriptFirst` names this as its only exception. A line for which there is no buffer
(`wallylistener.c` 85-89) is closed unread. `wallyc` may give up
after three seconds although its line is still executed later. `tcp.cpp` 89 puts the end
of the string one byte too far (`len+1`), so that the answer shown has one byte more
than was received; the model has no bytes of an answer.

### Proofs

`ServiceProofs` proves, for any clients, requests, scripts and sizes,

* `StartScriptFirst`: `Spec => []ScriptFirst`, with its exception;
* `SlotsBeforeThreads`: `Spec => []SlotsReady`;
* `LinesFit`: `Spec => []BufferFits`. It says where the next byte goes, not that a closing zero
  has room behind it;
* `ServedInTurn`: `Spec => []ServedOnce`;
* `ServiceTyped`: `Spec => []TypeOK`.

For the first two, `SInv` adds to the two properties: a thread that exists was created after the slots
were allocated, and the script thread after the listener (`Started`); a listener past
its join has seen the end of the script, or joined too early (`Joined`); slots are released only by a main
that cleans up (`Releasing`). For the third, `LineInv` adds that requests are sequences
of `Letters` and that the listener reads from an accepted client into a buffer with room
for the next byte (`Reading`).

`ServedOnce` speaks of what was executed, of answers and of the first line of a request; what
connects them is `ServeInv`: the connections not served yet are, in their order, the accepted
one and the backlog (`Queue`, `Serving`), the executed ones come before them and in that order
(`Ran`), an answer was sent only to one of these (`Answered`); and of
that one, what the listener has read and what is still in the socket make up what was sent
(`Loaded`), and the line ends at the first line feed in it (`Framed`). `Typed` adds to the
types the lines that the threads still have to execute. All liveness is model-checked only.

## 6. The pixels

### Modules

* `PixelList` - the words of a list, the bytes on the wire.
* `PixelServer` - `wallypixel`: its main loop and the mailbox `logStr`.
* `PixelCalls` - the library's calls that run over time.
* `PixelProofs` - the theorems.
* `MCPixel` - the two programs together, for TLC.

### State and actions

| Model | Code |
|---|---|
| `pVector`, `wire` | the list, one 32 bit word for each LED; the four bytes last sent to each LED |
| `main` | where the main loop is; `broken` is whatever follows an undefined step |
| `logStr`, `dangling`, `copy` | the mailbox, as the number of the line it holds; whether its string was freed; the line being executed |
| `received`, `executed`, `asked` | history: lines stored, lines executed, the channels last asked of each LED |
| `op`, `round`, `steps`, `target`, `before` | the call that runs, its round and arguments, the list it began with |

| Action | Code |
|---|---|
| `Start`, `Show`, `Test`, `Copy`, `Free`, `Clear` | `wallypixel.cpp` 34-54: `logStr` is read twice, freed and cleared, each in a step of its own |
| `CmdSetPixel`, `CmdClearlog`, `CmdLog`, `LogText`, `CmdOther`, `CmdMissing` | 61-118 |
| `Store` | `wallylistener.c` 69 under `WALLYPIXEL` |
| `FadeRound`, `RiseRound`, `CrossRound` and their ends | `pixel.cpp` 91-162 |
| `dieNicely` | `clinkt.cpp` 63-81 |

Arithmetic keeps its width: a word is taken modulo `Byte^4`, a byte modulo `Byte`. A
step of a crossfade is computed in floating point and cut when it is stored; the model
has the quotient of integers. `PixelCalls` models a program that uses the library;
nothing in the repository calls `fade`, `rise` or `crossfade`.

### Run

`pixel` runs either program: behaviours of one leave the other `off`.

| Property | What it says |
|---|---|
| `MailSafe` | lines are executed at most once, in the order of their arrival; the program breaks only on a line that asks for it |
| `StripShown` | after each show every LED has been sent the red, green, blue and brightness last asked of it, if they fit their fields |
| `CallsLand` | a fade ends dark with its colours kept; a crossfade ends in the colours of the other list, its brightness one nearer for each round |
| `Served` | a line that arrives before the mailbox is copied is executed or replaced |

Bounds. A byte has 16 values (`Digit` 4) instead of 256, the strip's brightness 8
instead of 32, a pixel's 4 instead of 8, the strip 3 LEDs instead of 8; a fade has 3
rounds instead of 7. The fields keep their order and proportions, colours and
brightnesses that carry into the next field and LEDs outside the list are among the
requests, and the theorems hold for every width. Three lines make one arrive before,
one during and one after another's execution. Rises and crossfades of 0, 2 and 5
rounds end at once, stop short and pass the largest brightness.

Fairness. The main loop sleeps and goes on: weak fairness of its steps. The listener
and the calls are not fair.

What the model shows of the code. A line that is stored between the execution of
another and the clearing of the mailbox (53-54) is lost. `clearlog` frees the global
string, which main frees once more unless the listener has replaced it. The text of
`log` is stored in the mailbox and cleared, never executed. A fade may end after its first round, because
the sum it tests is not initialised. A line of the mailbox is the first line of its
connection; the listener's part of that is `Service`.

### Proofs

`PixelProofs` proves, for every width of a byte, every number of LEDs above 2 and all
lines, lists and rounds:

* `StripShows`: `ServerSpec => []StripShown`;
* `MailIsSafe`: `ServerSpec => []MailSafe`;
* `CallsLandAlways`: `CallsSpec => []CallsLand`;
* `EitherProgram`: the three properties under the specification of `MCPixel`, which the
  run checks;
* `WordsKeepWidth`: `Spec => []TypeOK`, about `MCPixel` too.

The first three are about the two programs' own specifications; a behaviour of `MCPixel` is of
one of them, which is what `EitherInv` says. Each has its invariant. `StripInv`: an LED that was asked for channels holds the word made of
them (`Holds`), and from a show to the next command the strip has the list (`Seen`). `MailInv`: what is in the mailbox is
newer than what was executed (`Newer`), what main executes is the last it copied
(`InHand`), and a string in the mailbox is a freed one only between main's free
and clear, inside `log`, or after a `clearlog` (`Freed`). `CallsInv`: after k rounds of a
fade each brightness is 0 or below `Dim - k`, its colours untouched (`Fading`), after k rounds of a crossfade it is k nearer
(`Crossing`), and the last round goes the whole way in the colours. The lemmas
`WordFields`, `LastByte`, `FrameOfWord`, `PackedChannels`, `TopFields`, `CrossedWord` and
`DimmedWord` say what division and remainder make of a word. For the width, `WordWidth`,
`PackedWidth`, `BrightWidth`, `TowardWidth` and `CrossedWidth` say that each operation of the list
makes words of words, numbers that do not fit included; a step of a crossfade stays
between its two bytes.

## 7. What is proved and what is only checked

Every invariant and every action property of the passing runs (of `FadeShown` its two parts,
`LastDrawn` and `FinalFrame`) is proved for every value of the constants, under the named
assumptions of the modules:

* for every schedule: `AdmittedIdle`, `ExclusiveFade`, `GateOpensIdle` and `TypeOK` of the
  engine; `QueueFifo`, `NoLostWake`, `SizeBound`, `ShownOrder`, `PictureSafe` and `TypeOK` of the
  player, and `RefreshOnce` if its event queue has room; `ScriptFirst`, `SlotsReady`, `BufferFits`,
  `ServedOnce` and `TypeOK` of the service; `StripShown`, `MailSafe`, `CallsLand` and `TypeOK` of
  the pixels;
* for the schedules named in sections 2 and 3, which contain those of the runs:
  `DestroyOnce`, `RenderLive`, `LastDrawn`, `FinalFrame` (without the timer's request that the run
  allows) and the safety half of `GateRefinement` of the engine;
  `TypeOK`, `TextLasts`, `RecursionBound`, `TextLive`, `TextShown` and `TextGone` of the text slots.

Model-checked only is liveness under fairness, which the prover does not do: `FadesEnd`,
`CommandsResume`, the liveness half of `GateRefinement`, `RedrawFrees`, `FramesShown`,
`PlayEnds`, the two `QuitEnds`, `AnsweredRuns`, `QueueMoves`, `Served`. So are the five
violations.

Left for later: the safety lemmas that the liveness arguments would rest on (what a fade has
left goes down with every step of the fader), and `FinalFrame` with redraws of the timer, which
`fade_calm` checks.

## 8. Not modelled

* `repl_str`, `hexToColor`, `getNumOrPercentEx`: they turn strings into strings and
  numbers and keep no state; commands have their arguments already converted.
* `setHexPixel`, `setColour`, `setFullPixel` of the pixel list, which nothing calls, and
  the single bits of a byte on the wire (`writeByte`, `flushBuffer`).
* The test program in `clinkt.cpp`.
* `slog`: output that no part reads.
* `kmscube`, `kmsraw`, `esUtil`, `esTransform`: demonstrations of the display stack, one
  thread, device set-up and matrices; not part of the daemon.
* Build files, configuration and init script: no state of their own. The lines of the
  shipped configurations are commands the models send.
* In `wallystart`: fonts, positions, colours and strings of texts; the pace of a fade;
  `rot`, `sleep` and `nice`, which change nothing a property is about.
