------------------------------ MODULE VideoPlayer ------------------------------
(***************************************************************************)
(* wallyvideo, the video player (wallyvideo.c): four threads, two packet   *)
(* queues and one picture queue.                                           *)
(*                                                                         *)
(*   main    the SDL event loop: commands, redraws, picture allocation and *)
(*           the end of the program;                                       *)
(*   reader  decode_thread: opens the file, starts the other two threads,  *)
(*           and puts the packets of the file into the queues;             *)
(*   video   video_thread: decodes packets into the picture queue;         *)
(*   audio   SDL's audio thread, which calls audio_callback.               *)
(*                                                                         *)
(* SDL timers and the sender of commands are the environment.  Time, pts   *)
(* and the contents of packets are left out: a delay has any length, a     *)
(* packet its stream, its size and the dimensions of the picture in it.    *)
(***************************************************************************)
EXTENDS PacketQueue, FiniteSets

CONSTANTS
  Files,                     \* the files that may be played
  VIDEO_PICTURE_QUEUE_SIZE,
  MAX_AUDIO_SIZE,
  MAX_VIDEO_SIZE,
  FrameFailMax,              \* redraws without a picture that end the program: 200
  MaxEvents,                 \* capacity of SDL's event queue
  MaxCmds,                   \* bound: commands sent
  AudioFrames,               \* bound: frames in an audio packet
  Chunks                     \* bound: pieces of sound one callback asks for

Kinds    == {"audio", "video"}
Threads  == {"main", "reader"} \cup Kinds
Commands == {"start", "stop", "other", "quit"}
Slots    == 0..VIDEO_PICTURE_QUEUE_SIZE - 1
NoStream == 0

\* A file has streams, with their type and whether coder_type is 0, and packets.
StreamInfo == [type : {"audio", "video", "subtitle"}, coder : {0, 1}]
PacketInfo == [stream : Nat \ {NoStream}, bytes : Nat, dim : Nat]

ASSUME VideoAssumption ==
  /\ \A f \in Files : /\ Len(f.packets) \in 0..NumPkts
                      /\ f.packets \in Seq(PacketInfo) /\ f.streams \in Seq(StreamInfo)
  /\ VIDEO_PICTURE_QUEUE_SIZE \in Nat \ {0}
  /\ {MAX_AUDIO_SIZE, MAX_VIDEO_SIZE, FrameFailMax, MaxEvents, MaxCmds} \subseteq Nat
  /\ {AudioFrames, Chunks} \subseteq Nat \ {0}

VARIABLES
  file,        \* the file that is played
  quit, running, frameFail,
  events,      \* the SDL event queue
  timer,       \* SDL timers that have not fired
  pc,          \* where each thread is
  streams,     \* videoStream and audioStream
  read,        \* packets of the file read so far
  queues,      \* audioq and videoq
  sent, got,   \* history: the packets put into each queue; how many were taken
  pkt,         \* the packet each decoder has taken last
  audio,       \* frames left in the packet, pieces the callback needs, buffer set
  pictq,       \* pictq_size, pictq_rindex, pictq_windex
  slot,        \* the pictures
  queued,      \* history: what can be seen of each picture put into the queue
  shown,       \* history: what was seen of each picture taken from it
  cmds         \* commands sent

vars == <<file, quit, running, frameFail, events, timer, pc, streams, read, queues,
          sent, got, pkt, audio, pictq, slot, queued, shown, cmds>>

mainVars    == <<running, frameFail, timer, shown>>
readerVars  == <<streams, read, sent>>
decoderVars == <<got, pkt, audio>>
pictVars    == <<pictq, slot, queued>>

EmptySlot == [bmp |-> FALSE, raw |-> "none", dim |-> 0, allocated |-> FALSE, frame |-> 0]

Init ==
  /\ file \in Files
  /\ quit = FALSE /\ running = FALSE /\ frameFail = 0
  /\ events = <<>> /\ timer = 0 /\ cmds = 0
  /\ pc = [t \in Threads |-> IF t = "main" THEN "loop" ELSE "off"]
  /\ streams = [k \in Kinds |-> NoStream]
  /\ read = 0
  /\ queues = [k \in Kinds |-> packet_queue_init]
  /\ sent = [k \in Kinds |-> <<>>] /\ got = [k \in Kinds |-> 0]
  /\ pkt = [k \in Kinds |-> Null]
  /\ audio = [left |-> 0, need |-> 0, buf |-> FALSE]
  /\ pictq = [size |-> 0, rindex |-> 0, windex |-> 0]
  /\ slot = [i \in Slots |-> EmptySlot]
  /\ queued = <<>> /\ shown = <<>>

-------------------------------------------------------------------------------
Ended == pc["main"] = "ended" \/ \E t \in Threads : pc[t] = "crashed"

\* Threads run until the process ends.
At(t, l) == pc[t] = l /\ ~Ended

Goto(t, l) == pc' = [pc EXCEPT ![t] = l]

\* Main goes on with its loop and has signalled pictq_cond, which the video thread
\* waits for in two places.
GotoLoopAndSignal ==
  pc' = [pc EXCEPT !["main"] = "loop",
                   !["video"] = CASE @ = "nospace" -> "space"
                                  [] @ = "noalloc" -> "unalloc"
                                  [] OTHER -> @]

\* A thread that sleeps on the condition of its queue looks into the queue again.
Woken(l) == IF l = "asleep" THEN "get" ELSE l

\* SDL_PushEvent fails when the queue is full; nobody looks at its result.
Push(es, e) == IF Len(es) < MaxEvents THEN Append(es, e) ELSE es

VideoDim(p) == file.packets[p].dim
Bytes(p)    == file.packets[p].bytes

-------------------------------------------------------------------------------
\* The environment: someone sends a command or closes the window.  Bound: the other
\* commands are sent only where they matter, before the start.
Command(c) ==
  /\ ~Ended /\ cmds < MaxCmds
  /\ c = "other" => ~running
  /\ cmds' = cmds + 1
  /\ events' = Push(events, c)
  /\ UNCHANGED <<file, quit, pc, queues, mainVars, readerVars, decoderVars, pictVars>>

\* sdl_refresh_timer_cb: the timer asks for a redraw and is not repeated.
FireTimer ==
  /\ ~Ended /\ timer > 0
  /\ timer' = timer - 1
  /\ events' = Push(events, "refresh")
  /\ UNCHANGED <<file, quit, running, frameFail, shown, pc, queues, cmds,
                 readerVars, decoderVars, pictVars>>

-------------------------------------------------------------------------------
Take(e) == At("main", "loop") /\ events # <<>> /\ Head(events) = e

\* Defect: stop sets quit and leaves it to the reader to end the program.
StopSilent == Tail(events)

\* 931-933
StopEvent == Push(Tail(events), "quit")

\* 928-935
CmdStop ==
  /\ Take("stop")
  /\ quit' = TRUE
  /\ events' = StopEvent
  /\ UNCHANGED <<file, pc, queues, cmds, mainVars, readerVars, decoderVars, pictVars>>

\* Defect: a second start starts a second reader.
StartAgain == TRUE

\* 941
MayStart == ~running

\* 940-957: the first start arms the redraw timer and creates the reader.
CmdStart ==
  /\ Take("start")
  /\ events' = Tail(events)
  /\ IF MayStart
     THEN /\ running' = TRUE
          /\ timer' = timer + 1
          /\ Goto("reader", "open")
     ELSE UNCHANGED <<running, timer, pc>>
  /\ UNCHANGED <<file, quit, frameFail, shown, queues, cmds, readerVars, decoderVars,
                 pictVars>>

\* 959-962: any other command ends a program that was not started yet.
CmdOther ==
  /\ Take("other")
  /\ events' = Tail(events)
  /\ IF running THEN UNCHANGED pc ELSE Goto("main", "ended")
  /\ UNCHANGED <<file, quit, queues, cmds, mainVars, readerVars, decoderVars, pictVars>>

\* Defect: the redraw of an empty queue is not repeated.
NoReschedule == 0

\* 334-343, 395: the timers armed by a redraw that has no picture to show.
Reschedule == 1

\* 335-343, 395: no stream yet, or no picture; too many failures end the program.
RefreshEmpty ==
  /\ Take("refresh")
  /\ streams["video"] = NoStream \/ pictq.size = 0
  /\ events' = Tail(events)
  /\ frameFail' = IF streams["video"] = NoStream THEN frameFail ELSE frameFail + 1
  /\ IF frameFail' > FrameFailMax
     THEN quit' = TRUE /\ UNCHANGED timer
     ELSE timer' = timer + Reschedule /\ UNCHANGED quit
  /\ UNCHANGED <<file, running, shown, pc, queues, cmds, readerVars, decoderVars, pictVars>>

\* 345-380: there is a picture; the next redraw is scheduled before it is shown.
RefreshShow ==
  /\ Take("refresh")
  /\ streams["video"] # NoStream /\ pictq.size > 0
  /\ events' = Tail(events)
  /\ frameFail' = 0
  /\ timer' = timer + 1
  /\ Goto("main", "show")
  /\ UNCHANGED <<file, quit, running, shown, queues, cmds, readerVars, decoderVars, pictVars>>

\* What can be seen of a picture: nothing when it has no texture (294) or when there
\* was no memory for its buffer (436).
Visible(s) == IF s.bmp /\ s.raw = "live" THEN s.frame ELSE Null

\* 288-327, 386-392: the picture is drawn, the reading index moves on, and the slot
\* is given back.  SDL refuses a buffer that is NULL, or the process crashes in it.
video_display ==
  /\ At("main", "show")
  /\ LET s == slot[pictq.rindex]
     IN  \/ /\ shown' = Append(shown, Visible(s))
            /\ pictq' = [pictq EXCEPT !.rindex = (@ + 1) % VIDEO_PICTURE_QUEUE_SIZE,
                                      !.size = @ - 1]
            /\ GotoLoopAndSignal
         \/ /\ s.bmp /\ s.raw = "null"
            /\ Goto("main", "crashed")
            /\ UNCHANGED <<shown, pictq>>
  /\ UNCHANGED <<file, quit, running, frameFail, timer, events, queues, slot, queued,
                 cmds, readerVars, decoderVars>>

\* 405-442: a new texture and a new buffer of the dimensions of the stream.  There may
\* be no texture (414-422), which nobody tests here, and no buffer (436), which nobody
\* tests at all.  Without a frame (430) the buffer is the one that was freed.
Allocate(s, texture, frame, buffer) ==
  [s EXCEPT !.bmp = texture, !.dim = VideoDim(pkt["video"]),
            !.raw = IF frame THEN IF buffer THEN "live" ELSE "null"
                    ELSE IF @ = "none" THEN @ ELSE "freed",
            !.allocated = IF frame THEN TRUE ELSE @]

\* 399-447: the slot is allocated and whoever waits for it goes on, or neither.
alloc_picture ==
  /\ Take("alloc")
  /\ events' = Tail(events)
  /\ \E texture, frame, buffer \in BOOLEAN :
       /\ slot' = [slot EXCEPT ![pictq.windex] = Allocate(@, texture, frame, buffer)]
       /\ IF frame THEN GotoLoopAndSignal ELSE UNCHANGED pc
  /\ UNCHANGED <<file, quit, queues, pictq, queued, cmds, mainVars, readerVars, decoderVars>>

\* 912-913: both decoders are signalled, without their mutexes.
QuitSignal ==
  /\ Take("quit")
  /\ events' = Tail(events)
  /\ pc' = [t \in Threads |-> IF t = "main" THEN "quit" ELSE Woken(pc[t])]
  /\ UNCHANGED <<file, quit, queues, cmds, mainVars, readerVars, decoderVars, pictVars>>

\* 914-915: quit is set and SDL_Quit called.
QuitSet ==
  /\ At("main", "quit")
  /\ quit' = TRUE
  /\ Goto("main", "closing")
  /\ UNCHANGED <<file, events, queues, cmds, mainVars, readerVars, decoderVars, pictVars>>

\* 915-916: SDL_Quit waits until the audio thread is out of its callback.
QuitDone ==
  /\ At("main", "closing")
  /\ pc["audio"] \in {"off", "idle"}
  /\ Goto("main", "ended")
  /\ UNCHANGED <<file, quit, events, queues, cmds, mainVars, readerVars, decoderVars,
                 pictVars>>

Main == \/ CmdStop \/ CmdStart \/ CmdOther \/ RefreshEmpty \/ RefreshShow
        \/ video_display \/ alloc_picture
        \/ QuitSignal \/ QuitSet \/ QuitDone

-------------------------------------------------------------------------------
Least(S) == IF S = {} THEN NoStream ELSE CHOOSE i \in S : \A j \in S : i <= j

\* 780: the video stream is looked for by coder_type, 785: the audio stream by type.
video_index == Least({i \in DOMAIN file.streams : file.streams[i].coder = 0})
audio_index == Least({i \in DOMAIN file.streams : file.streams[i].type = "audio"})

\* 758-773: the file or its streams cannot be read.
OpenFails ==
  /\ At("reader", "open")
  /\ Goto("reader", "done")
  /\ UNCHANGED <<file, quit, events, queues, cmds, mainVars, readerVars, decoderVars, pictVars>>

\* 845-851: the last thing the reader does.
fail == events' = Push(events, "quit")

\* 775-805, 600-736: each stream is opened if there is one and its decoder can be.
\* SDL may call the audio callback from then on; the video thread is created.  A
\* stream of another type is not taken for the video, and without a video stream
\* the reader gives up.
OpenStreams ==
  /\ At("reader", "open")
  /\ \E sound, picture \in BOOLEAN :
       /\ sound => audio_index # NoStream
       /\ picture => video_index # NoStream /\ file.streams[video_index].type = "video"
       /\ streams' = [audio |-> IF sound THEN audio_index ELSE NoStream,
                      video |-> IF picture THEN video_index ELSE NoStream]
       /\ pc' = [pc EXCEPT !["reader"] = IF picture THEN "loop" ELSE "done",
                           !["audio"]  = IF sound THEN "idle" ELSE @,
                           !["video"]  = IF picture THEN "get" ELSE @]
       /\ IF picture THEN UNCHANGED events ELSE fail
  /\ queues' = [k \in Kinds |-> packet_queue_init]
  /\ UNCHANGED <<file, quit, read, sent, cmds, mainVars, decoderVars, pictVars>>

\* 814
Full == queues["audio"].size > MAX_AUDIO_SIZE \/ queues["video"].size > MAX_VIDEO_SIZE

\* Defect: the mutex is free between the look and the sleep.
LocksNot(k) == TRUE

\* 29, 49: put waits while the other thread is between its look and its sleep.
Unlocked(k) == pc[k] # "towait"

\* 818-833, 19-43: the next packet goes to the queue of its stream, whose mutex
\* must be free; it is lost when there is no memory for a node, and dropped when
\* it belongs to neither stream.
ReadPacket ==
  /\ At("reader", "loop")
  /\ ~quit /\ ~Full /\ read < Len(file.packets)
  /\ read' = read + 1
  /\ \/ \E k \in Kinds :
          /\ streams[k] = file.packets[read'].stream
          /\ Unlocked(k)
          /\ queues' = [queues EXCEPT ![k] = packet_queue_put(@, read', Bytes(read'))]
          /\ sent' = [sent EXCEPT ![k] = Append(@, read')]
          /\ pc' = [pc EXCEPT ![k] = Woken(@)]
     \/ UNCHANGED <<queues, sent, pc>>
  /\ UNCHANGED <<file, quit, events, streams, cmds, mainVars, decoderVars, pictVars>>

\* 822-824: an input error, as opposed to the end of the file, ends the loop.
ReadError ==
  /\ At("reader", "loop") /\ ~quit /\ ~Full
  /\ Goto("reader", "flood")
  /\ UNCHANGED <<file, quit, events, queues, cmds, mainVars, readerVars, decoderVars, pictVars>>

\* 837-843: quit events are pushed without a pause until someone sets quit.
ReaderFlood ==
  /\ At("reader", "flood") /\ ~quit
  /\ events' = Push(events, "quit")
  /\ UNCHANGED <<file, quit, pc, queues, cmds, mainVars, readerVars, decoderVars, pictVars>>

\* 809-811, 837, 845-852: quit was set.
ReaderQuits ==
  /\ At("reader", "loop") \/ At("reader", "flood")
  /\ quit
  /\ fail
  /\ Goto("reader", "done")
  /\ UNCHANGED <<file, quit, queues, cmds, mainVars, readerVars, decoderVars, pictVars>>

Reader == OpenFails \/ OpenStreams \/ ReadPacket \/ ReaderFlood \/ ReaderQuits

-------------------------------------------------------------------------------
\* 573-592: a packet of the video completes a frame or it does not.
Decoded(k) == IF k = "audio" THEN {"decode"} ELSE {"space", "get"}

\* 49-76: a look into the queue under its mutex.  quit is tested first; an empty
\* queue sends the thread to sleep, with the mutex held until it does.
packet_queue_look(k) ==
  /\ At(k, "get")
  /\ IF quit
     THEN Goto(k, "quit") /\ UNCHANGED <<queues, decoderVars>>
     ELSE IF queues[k].first = Null
          THEN Goto(k, "towait") /\ UNCHANGED <<queues, decoderVars>>
          ELSE /\ pkt' = [pkt EXCEPT ![k] = queues[k].first]
               /\ queues' = [queues EXCEPT ![k] =
                               packet_queue_get(@, Bytes(queues[k].first))]
               /\ got' = [got EXCEPT ![k] = @ + 1]
               /\ audio' = IF k = "audio" THEN [audio EXCEPT !.left = AudioFrames] ELSE audio
               /\ \E l \in Decoded(k) : Goto(k, l)
  /\ UNCHANGED <<file, quit, events, cmds, mainVars, readerVars, pictVars>>

\* 74: SDL_CondWait releases the mutex and waits for a signal.
QueueSleep(k) ==
  /\ At(k, "towait")
  /\ Goto(k, "asleep")
  /\ UNCHANGED <<file, quit, events, queues, cmds, mainVars, readerVars, decoderVars, pictVars>>

\* A condition variable may wake its waiter without a signal.
Spurious(k) ==
  /\ At(k, "asleep")
  /\ Goto(k, "get")
  /\ UNCHANGED <<file, quit, events, queues, cmds, mainVars, readerVars, decoderVars, pictVars>>

-------------------------------------------------------------------------------
\* 558-564: no more packets.
VideoQuits ==
  /\ At("video", "quit")
  /\ quit' = TRUE
  /\ Goto("video", "done")
  /\ UNCHANGED <<file, events, queues, cmds, mainVars, readerVars, decoderVars, pictVars>>

\* Defect: the wait for space is off by one.
NoSpaceLate == pictq.size > VIDEO_PICTURE_QUEUE_SIZE

\* 456
NoSpace == pictq.size >= VIDEO_PICTURE_QUEUE_SIZE

Write == slot[pictq.windex]

\* 455-476: the thread waits for space, and asks main for a picture of the right
\* dimensions if the slot has none.
queue_picture_space ==
  /\ At("video", "space")
  /\ IF quit THEN Goto("video", "done") /\ UNCHANGED <<events, slot>>
     ELSE IF NoSpace THEN Goto("video", "nospace") /\ UNCHANGED <<events, slot>>
     ELSE IF Write.bmp /\ Write.dim = VideoDim(pkt["video"])
     THEN Goto("video", "fill") /\ UNCHANGED <<events, slot>>
     ELSE /\ slot' = [slot EXCEPT ![pictq.windex].allocated = FALSE]
          /\ events' = Push(events, "alloc")
          /\ Goto("video", "unalloc")
  /\ UNCHANGED <<file, quit, queues, pictq, queued, cmds, mainVars, readerVars, decoderVars>>

\* Defect: the thread goes on before the picture is allocated.
AllocUnchecked == TRUE

\* 479
Allocated == Write.allocated

\* 478-486: the thread waits for the allocation.
queue_picture_alloc ==
  /\ At("video", "unalloc")
  /\ Goto("video", IF quit THEN "done" ELSE IF Allocated THEN "fill" ELSE "noalloc")
  /\ UNCHANGED <<file, quit, events, queues, cmds, mainVars, readerVars, decoderVars, pictVars>>

\* 489-504: the frame is scaled into the buffer of the slot, if it has one, and
\* the slot joins the queue.  The scaler refuses a buffer that is NULL, or the process
\* crashes in it.
queue_picture_fill ==
  /\ At("video", "fill")
  /\ \/ /\ Write.raw = "none"
        /\ Goto("video", "get")
        /\ UNCHANGED pictVars
     \/ /\ Write.raw # "none"
        /\ slot' = [slot EXCEPT ![pictq.windex].frame = pkt["video"]]
        /\ pictq' = [pictq EXCEPT !.windex = (@ + 1) % VIDEO_PICTURE_QUEUE_SIZE,
                                  !.size = @ + 1]
        /\ queued' = Append(queued, Visible(slot'[pictq.windex]))
        /\ Goto("video", "get")
     \/ /\ Write.raw = "null"
        /\ Goto("video", "crashed")
        /\ UNCHANGED pictVars
  /\ UNCHANGED <<file, quit, events, queues, cmds, mainVars, readerVars, decoderVars>>

Video == \/ packet_queue_look("video") \/ QueueSleep("video")
         \/ VideoQuits \/ queue_picture_space
         \/ queue_picture_alloc \/ queue_picture_fill

-------------------------------------------------------------------------------
\* 110, 220-226: the thread goes on with the packet it has or wants the next one.
NextFrame(a) == IF a.left > 0 THEN "decode" ELSE "get"

\* SDL asks for sound while the audio device is open.
audio_callback ==
  /\ At("audio", "idle")
  /\ pc["main"] # "closing"
  /\ audio' = [audio EXCEPT !.need = Chunks]
  /\ Goto("audio", NextFrame(audio))
  /\ UNCHANGED <<file, quit, events, queues, got, pkt, cmds, mainVars, readerVars, pictVars>>

\* 247-269: one more piece of sound was copied.
NextPiece(a) ==
  /\ audio' = [a EXCEPT !.need = @ - 1]
  /\ Goto("audio", IF a.need = 1 THEN "idle" ELSE NextFrame(a))

\* 110-218: a frame of the packet gives sound, nothing yet, or an error, which
\* skips the rest of the packet; when the resampler fails the rest is kept.  There
\* may be no memory for the first frame.
DecodeAudio ==
  /\ At("audio", "decode")
  /\ LET less == [audio EXCEPT !.left = @ - 1]
     IN  \/ NextPiece([less EXCEPT !.buf = TRUE])
         \/ audio' = less /\ Goto("audio", NextFrame(less))
         \/ audio' = [audio EXCEPT !.left = 0] /\ Goto("audio", "get")
         \/ UNCHANGED audio /\ Goto("audio", "get")
         \/ ~audio.buf /\ UNCHANGED audio /\ Goto("audio", "quit")
  /\ UNCHANGED <<file, quit, events, queues, got, pkt, cmds, mainVars, readerVars, pictVars>>

\* 251-254: without a packet or a frame there is silence.  It is written where the last sound
\* was, and the process crashes if there never was one.
Silence ==
  /\ At("audio", "quit")
  /\ IF audio.buf THEN NextPiece(audio) ELSE UNCHANGED audio /\ Goto("audio", "crashed")
  /\ UNCHANGED <<file, quit, events, queues, got, pkt, cmds, mainVars, readerVars, pictVars>>

Audio == \/ packet_queue_look("audio") \/ QueueSleep("audio") \/ DecodeAudio \/ Silence

Environment == \/ \E c \in Commands : Command(c)
               \/ \E k \in Kinds : Spurious(k)
               \/ ReadError \/ audio_callback

Next == Main \/ Reader \/ Video \/ Audio \/ FireTimer \/ Environment

Fairness == /\ WF_vars(Main) /\ WF_vars(Reader) /\ WF_vars(Video)
            /\ WF_vars(Audio) /\ WF_vars(audio_callback) /\ WF_vars(FireTimer)

Spec == Init /\ [][Next]_vars /\ Fairness

-------------------------------------------------------------------------------
Ids(t) == CASE t = "main"   -> {"loop", "show", "quit", "closing", "ended",
                                "crashed"}
            [] t = "reader" -> {"off", "open", "loop", "flood", "done"}
            [] t = "video"  -> {"off", "get", "towait", "asleep", "quit", "space",
                                "nospace", "unalloc", "noalloc", "fill", "done",
                                "crashed"}
            [] t = "audio"  -> {"off", "get", "towait", "asleep", "decode", "quit", "idle",
                                "crashed"}

\* Types: every thread is at a place of its code, the counters of the picture
\* queue stay within its slots.
TypeOK ==
  /\ file \in Files
  /\ {quit, running} \subseteq BOOLEAN
  /\ frameFail \in 0..FrameFailMax + 1
  /\ Len(events) <= MaxEvents
  /\ \A i \in DOMAIN events : events[i] \in Commands \cup {"refresh", "alloc"}
  /\ timer \in Nat
  /\ \A t \in Threads : pc[t] \in Ids(t)
  /\ streams \in [Kinds -> Nat]
  /\ read \in 0..Len(file.packets)
  /\ queues \in [Kinds -> Queues]
  /\ pkt \in [Kinds -> Ptrs]
  /\ audio \in [left : 0..AudioFrames, need : 0..Chunks, buf : BOOLEAN]
  /\ pictq \in [size : 0..VIDEO_PICTURE_QUEUE_SIZE, rindex : Slots, windex : Slots]
  /\ slot \in [Slots -> [bmp : BOOLEAN, raw : {"none", "live", "null", "freed"},
                         dim : Nat, allocated : BOOLEAN, frame : Ptrs]]
  /\ cmds \in 0..MaxCmds

\* packet_queue_put, packet_queue_get: what the linked list holds is what was put
\* and not taken yet, in the order it was put; each decoder has the packet that
\* was next.
QueueFifo ==
  \A k \in Kinds :
    /\ Holds(queues[k], sent[k], got[k])
    /\ got[k] > 0 => pkt[k] = sent[k][got[k]]

Waiting(k) == {sent[k][i] : i \in got[k] + 1..Len(sent[k])}

\* The bytes of the packets that the members of s after the first n stand for.
BytesAfter(packets, s, n) ==
  LET sum[i \in 0..Len(s)] == IF i <= n THEN 0 ELSE sum[i - 1] + packets[s[i]].bytes
  IN  sum[Len(s)]

Limit(k) == IF k = "audio" THEN MAX_AUDIO_SIZE ELSE MAX_VIDEO_SIZE

\* 814: the size of a queue is that of the packets in it.  The reader tests the
\* limits before it reads, so that a queue can exceed its limit by one packet.
SizeBound ==
  \A k \in Kinds :
    /\ queues[k].size = BytesAfter(file.packets, sent[k], got[k])
    /\ \E last \in {0} \cup {Bytes(p) : p \in Waiting(k)} : queues[k].size - last <= Limit(k)

\* queue_picture, video_refresh_timer: the pictures come to their turn in the order in
\* which they were queued, each one once and with what was queued of it to be seen:
\* one without a texture or a buffer passes unseen, and no other one is lost by it.
\* The size counts those that wait.
ShownOrder ==
  /\ Len(queued) - Len(shown) = pictq.size
  /\ shown = SubSeq(queued, 1, Len(shown))

\* A buffer that was allocated and not freed.  There may have been no memory for its
\* contents, which nobody tests (436).
Held(s) == s.raw \in {"live", "null"}

\* video_display, queue_picture, alloc_picture: a slot that is displayed has a buffer
\* and the dimensions of its frame, whether or not it got a texture (294, 468), and no
\* one writes it; a slot that is written has a buffer of the right dimensions.  No
\* buffer is used that was freed.
PictureSafe ==
  /\ pc["main"] = "show" =>
       LET s == slot[pictq.rindex]
       IN  /\ Held(s) /\ s.dim = VideoDim(s.frame)
           /\ pc["video"] = "fill" => pictq.windex # pictq.rindex
  /\ pc["video"] = "fill" =>
       Write.allocated /\ Held(Write) /\ Write.dim = VideoDim(pkt["video"])

Redraws == timer + Cardinality({i \in DOMAIN events : events[i] = "refresh"})

\* schedule_refresh: there is never more than one redraw under way, and while the
\* video runs there is one, unless the program is about to end.
RefreshOnce ==
  /\ Redraws <= 1
  /\ Redraws = 1 \/ ~running \/ frameFail > FrameFailMax
     \/ (\E i \in DOMAIN events : events[i] = "quit")
     \/ pc["main"] \in {"quit", "closing", "ended"}

\* SDL_CondWait, SDL_CondSignal: no thread sleeps on a condition that holds.
NoLostWake ==
  /\ \A k \in Kinds : pc[k] = "asleep" => queues[k].first = Null
  /\ pc["video"] = "nospace" => pictq.size = VIDEO_PICTURE_QUEUE_SIZE
  /\ pc["video"] = "noalloc" => ~Write.allocated

\* Each of the next three says of a condition that ends by itself only in the way named
\* that it never lasts for ever; quit and the streams, once set, stay.

\* queue_picture, video_refresh_timer: the pictures that are queued come to their turn
\* and give their slots back, unless the player ends.
FramesShown == []<>(pictq.size = 0 \/ quit \/ Ended)

\* 336-340: a video that was opened ends: when the file is read and the queues are
\* empty the redraws fail until the program quits.
PlayEnds == []<>(streams["video"] = NoStream \/ quit \/ Ended)

\* 909-916: quit ends the program, or SDL_Quit waits for an audio thread that sleeps
\* in its callback: it may be signalled (912) before quit is set (914), and then
\* nobody wakes it again.
QuitEnds ==
  []<>(~quit \/ Ended \/ (pc["main"] = "closing" /\ pc["audio"] = "asleep"))
===============================================================================
