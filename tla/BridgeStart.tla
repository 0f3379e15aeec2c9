---------------------------- MODULE BridgeStart ----------------------------
(***************************************************************************)
(* How a Bridge service comes to be (makeBridge in internal/Bridge.ts up   *)
(* to the check of helloAck) and how its scope takes it down again.  The   *)
(* process is any program that writes frames or something else, tears its  *)
(* last frame, is silent or exits; its output arrives in chunks of any     *)
(* size.  Five fibres touch the service: the one that starts it, the loop  *)
(* over stdout, the one that observes the exit, the release of the scope,  *)
(* and whoever interrupts.  Operations other than id 0 are BridgeClient's. *)
(***************************************************************************)
EXTENDS Frames, FiniteSetsExt

CONSTANTS HelloAck, ErrorKind, \* the kinds of helloAck and error
          Version,        \* PROTOCOL_VERSION and PACKAGE_VERSION as one byte
          DefaultWindow,  \* DEFAULT_WINDOW (chunkSize is treated alike)
          Said,           \* the frames the process may write
          Noise,          \* bytes that are no frame and the start of none
          Torn,           \* beginnings of frames
          MaxSaid,        \* bound: frames per behaviour
          NoAnswer, Failed \* what helloDeferred holds besides a frame

ASSUME WindowAssumption == DefaultWindow \in Nat \ {0}

\* Frames that encodeFrame takes.
ASSUME SaidAssumption ==
  /\ Said \subseteq [kind : FrameKinds, id : Byte, meta : Seq(Byte), body : Seq(Byte)]
  /\ \A f \in Said : Encodable(f) /\ Len(f.meta) \in Byte
  /\ Malformed \notin Said /\ NoAnswer \notin Said /\ Failed \notin Said
  /\ NoAnswer # Failed

\* What the decoder refuses at its last byte: a length, or all that a length
\* announces.
Refused(bytes) ==
  /\ bytes \in Seq(Byte) /\ Len(bytes) >= LENGTH_PREFIX
  /\ IF BadLength(LengthAt(bytes, 0))
       THEN Len(bytes) = LENGTH_PREFIX
       ELSE /\ Len(bytes) = LENGTH_PREFIX + LengthAt(bytes, 0)
            /\ FrameView(bytes) = Malformed

\* What the decoder waits for more of.
Unfinished(bytes) ==
  /\ bytes \in Seq(Byte)
  /\ Len(bytes) >= LENGTH_PREFIX =>
       /\ ~BadLength(LengthAt(bytes, 0))
       /\ Len(bytes) < LENGTH_PREFIX + LengthAt(bytes, 0)

ASSUME OutputAssumption ==
  /\ \A bytes \in Noise : Refused(bytes)
  /\ \A bytes \in Torn : Unfinished(bytes)

VARIABLES proc,     \* "absent", "running" or "exited"
          sent,     \* the frames the process has written whole
          spoilt,   \* "no", "noise" or "torn": what it wrote after them
          pipe,     \* bytes written and not read
          buffer,   \* decoder.buffer
          decoded,  \* the frames push has returned
          threw,    \* push has thrown
          loop,     \* stdoutLoop: "reading", "killing", "ended"
          watch,    \* observeExit: "watching", "ended"
          dead,     \* state.dead
          pending,  \* pending.get(0): "none", "hello", "shutdown"
          answer,   \* helloDeferred: NoAnswer, a frame or Failed
          start,    \* where makeBridge is
          window,   \* state.window
          outOfTime, \* a timeout has fired or the start was interrupted
          scope     \* "open", "closing", "waiting", "killing", "closed"

startVars == <<proc, sent, spoilt, pipe, buffer, decoded, threw, loop, watch, dead,
               pending, answer, start, window, outOfTime, scope>>
process == <<sent, spoilt>>
output == <<pipe, buffer, decoded, threw>>
entry == <<pending, answer>>

StartInit ==
  /\ proc = "absent" /\ sent = <<>> /\ spoilt = "no"
  /\ pipe = <<>> /\ buffer = <<>> /\ decoded = <<>> /\ threw = FALSE
  /\ loop = "ended" /\ watch = "ended"
  /\ dead = "none" /\ pending = "none" /\ answer = NoAnswer
  /\ start = "resolving" /\ window = DefaultWindow
  /\ outOfTime = FALSE /\ scope = "open"

\* markDead: the first error stays, and fails the entry of id 0 with it.
\* A shutdown entry is failed too; nobody looks at how.
MarkDead(error) ==
  IF dead # "none" THEN UNCHANGED <<dead, pending, answer>>
  ELSE /\ dead' = error
       /\ pending' = "none"
       /\ answer' = IF pending = "hello" THEN Failed ELSE answer

-----------------------------------------------------------------------------
(* The process.  What it writes when nobody reads any more is left out. *)

Say(f) ==
  /\ proc = "running" /\ loop # "ended" /\ spoilt = "no" /\ Len(sent) < MaxSaid
  /\ sent' = Append(sent, f)
  /\ pipe' = pipe \o Encode(f)
  /\ UNCHANGED <<proc, spoilt, buffer, decoded, threw, loop, watch, dead, entry,
                 start, window, outOfTime, scope>>

Garble(bytes) ==
  /\ proc = "running" /\ loop # "ended" /\ spoilt = "no"
  /\ spoilt' = "noise"
  /\ pipe' = pipe \o bytes
  /\ UNCHANGED <<proc, sent, buffer, decoded, threw, loop, watch, dead, entry,
                 start, window, outOfTime, scope>>

\* It exits between two frames or in the middle of one.
Exit ==
  /\ proc = "running"
  /\ proc' = "exited"
  /\ \/ UNCHANGED <<spoilt, pipe>>
     \/ /\ spoilt = "no" /\ loop # "ended"
        /\ spoilt' = "torn"
        /\ \E bytes \in Torn : pipe' = pipe \o bytes
  /\ UNCHANGED <<sent, buffer, decoded, threw, loop, watch, dead, entry, start,
                 window, outOfTime, scope>>

-----------------------------------------------------------------------------
(* The loops over stdout and the exit. *)

\* The metadata of helloAck: the versions, and the window it may leave out.
DecodesHello(meta) == Len(meta) \in {1, 2}

IsHelloAck(f) == f.kind = HelloAck /\ f.body = <<>> /\ DecodesHello(f.meta)

\* handleErrorFrame: the operation fails, the Bridge is not condemned.
IsError(f) == f.kind = ErrorKind /\ f.body = <<>>

\* The frames of id 0 among `frames`, and the first of them.
Own(frames) == {i \in DOMAIN frames : frames[i].id = 0}
FirstOwn(frames) == frames[Min(Own(frames))]

\* Faulty form: a frame of an operation that has ended is a protocol error.
HandleFramesStrictly(frames) ==
  IF frames = <<>> THEN UNCHANGED <<dead, entry, loop>>
  ELSE IF pending = "hello" /\ Head(frames).id = 0 /\ IsHelloAck(Head(frames))
  THEN pending' = "none" /\ answer' = Head(frames) /\ UNCHANGED <<dead, loop>>
  ELSE MarkDead("protocol") /\ loop' = "killing"

\* handleFrame for the frames of a chunk.  Only the first one of id 0 can
\* meet an entry: afterwards there is none, or the loop has returned.
HandleFrames(frames) ==
  IF Own(frames) = {} \/ pending = "none" THEN UNCHANGED <<dead, entry, loop>>
  ELSE IF pending = "hello" /\ IsHelloAck(FirstOwn(frames))
  THEN pending' = "none" /\ answer' = FirstOwn(frames) /\ UNCHANGED <<dead, loop>>
  ELSE IF IsError(FirstOwn(frames))
  THEN /\ pending' = "none" /\ UNCHANGED <<dead, loop>>
       /\ answer' = IF pending = "hello" THEN Failed ELSE answer
  ELSE MarkDead("protocol") /\ loop' = "killing"

\* processChunk: push first, then the frames it returned.
ReadChunk ==
  /\ loop = "reading"
  /\ \E n \in 1 .. Len(pipe) :
       LET pushed == Push(buffer, SubSeq(pipe, 1, n))
       IN /\ pipe' = SubSeq(pipe, n + 1, Len(pipe))
          /\ buffer' = pushed.buffer
          /\ decoded' = decoded \o pushed.frames
          /\ threw' = (threw \/ pushed.threw)
          /\ IF pushed.threw THEN MarkDead("protocol") /\ loop' = "killing"
                             ELSE HandleFrames(pushed.frames)
  /\ UNCHANGED <<proc, process, watch, start, window, outOfTime, scope>>

\* handle.kill of the loop; it goes on reading afterwards.
KillAfterFailure ==
  /\ loop = "killing"
  /\ loop' = "reading"
  /\ proc' = "exited"
  /\ UNCHANGED <<process, output, watch, dead, entry, start, window, outOfTime, scope>>

\* The end of stdout: decoder.finish, and then the exit is observed.
EndOfOutput ==
  /\ loop = "reading" /\ pipe = <<>> /\ proc = "exited"
  /\ loop' = "ended"
  /\ MarkDead(IF Finished(buffer) THEN "exited" ELSE "protocol")
  /\ UNCHANGED <<proc, process, output, watch, start, window, outOfTime, scope>>

ObserveExit ==
  /\ watch = "watching" /\ proc = "exited"
  /\ watch' = "ended"
  /\ MarkDead("exited")
  /\ UNCHANGED <<proc, process, output, loop, start, window, outOfTime, scope>>

-----------------------------------------------------------------------------
(* makeBridge. *)

\* resolveBridgeBinary: no path is set, and no package is installed or exists
\* for the platform.
NotFound == start' = "failed" /\ UNCHANGED <<proc, loop, watch, entry>>

\* The binary is resolved and spawned: either may fail, and neither leaves
\* anything.  On success release is registered, the loops are forked and the
\* entry of hello is put in the map.
Spawn ==
  /\ start = "resolving"
  /\ \/ NotFound
     \/ /\ start' = "spawned"
        /\ proc' = "running" /\ loop' = "reading" /\ watch' = "watching"
        /\ pending' = "hello" /\ UNCHANGED answer
  /\ UNCHANGED <<process, output, dead, window, outOfTime, scope>>

\* writeFrame of hello; a process that has exited may still seem to take it.
SendHello ==
  /\ start = "spawned"
  /\ \/ start' = "awaiting" /\ UNCHANGED <<dead, entry>>
     \/ proc = "exited" /\ start' = "failed" /\ MarkDead("exited")
  /\ UNCHANGED <<proc, process, output, loop, watch, window, outOfTime, scope>>

\* Faulty form: a window of zero is taken as it is.
NegotiatedAsSaid(meta) == IF Len(meta) = 1 THEN DefaultWindow ELSE meta[2]

\* A window that is absent or zero stands for the default.
Negotiated(meta) ==
  IF Len(meta) = 1 \/ meta[2] = 0 THEN DefaultWindow ELSE meta[2]

TakeAnswer ==
  /\ start = "awaiting" /\ answer # NoAnswer
  /\ \/ answer = Failed /\ start' = "failed" /\ UNCHANGED <<dead, entry, window>>
     \/ /\ answer # Failed /\ answer.meta[1] # Version
        /\ start' = "killing" /\ MarkDead("version") /\ UNCHANGED window
     \/ /\ answer # Failed /\ answer.meta[1] = Version
        /\ start' = "up" /\ window' = Negotiated(answer.meta)
        /\ UNCHANGED <<dead, entry>>
  /\ UNCHANGED <<proc, process, output, loop, watch, outOfTime, scope>>

HelloTimeout ==
  /\ start = "awaiting" /\ answer = NoAnswer
  /\ start' = "killing" /\ outOfTime' = TRUE
  /\ MarkDead("protocol")
  /\ UNCHANGED <<proc, process, output, loop, watch, window, scope>>

KillAfterStart ==
  /\ start = "killing"
  /\ start' = "failed"
  /\ proc' = "exited"
  /\ UNCHANGED <<process, output, loop, watch, dead, entry, window, outOfTime, scope>>

\* Whoever builds the layer is interrupted while it waits.
InterruptStart ==
  /\ start = "awaiting"
  /\ start' = "failed" /\ outOfTime' = TRUE
  /\ UNCHANGED <<proc, process, output, loop, watch, dead, entry, window, scope>>

-----------------------------------------------------------------------------
(* The scope: of a start that failed at once, of a service at any time.    *)

\* The loops were forked into the scope last, so they are interrupted first;
\* what they have not read is read by nobody.
CloseScope ==
  /\ scope = "open" /\ start \in {"up", "failed"}
  /\ scope' = IF proc = "absent" THEN "closed" ELSE "closing"
  /\ loop' = "ended" /\ watch' = "ended" /\ pipe' = <<>>
  /\ UNCHANGED <<proc, process, buffer, decoded, threw, dead, entry, start, window, outOfTime>>

\* Faulty form: it leaves the kill to whoever marked the service dead.
ReleaseWithoutKill ==
  /\ scope = "closing"
  /\ IF dead # "none"
     THEN scope' = "closed" /\ UNCHANGED pending
     ELSE scope' = "waiting" /\ pending' = "shutdown"
  /\ UNCHANGED <<proc, process, output, loop, watch, dead, answer, start, window, outOfTime>>

Release ==
  /\ scope = "closing"
  /\ IF dead # "none"
     THEN scope' = "killing" /\ UNCHANGED pending
     ELSE scope' = "waiting" /\ pending' = "shutdown"
  /\ UNCHANGED <<proc, process, output, loop, watch, dead, answer, start, window, outOfTime>>

\* The ok is read by nobody any more: the exit or two seconds end the wait.
StopWaiting ==
  /\ scope = "waiting"
  /\ scope' = "killing"
  /\ outOfTime' = (outOfTime \/ proc # "exited")
  /\ UNCHANGED <<proc, process, output, loop, watch, dead, entry, start, window>>

KillAtRelease ==
  /\ scope = "killing"
  /\ scope' = "closed"
  /\ proc' = "exited"
  /\ UNCHANGED <<process, output, loop, watch, dead, entry, start, window, outOfTime>>

-----------------------------------------------------------------------------
Loops == ReadChunk \/ KillAfterFailure \/ EndOfOutput \/ ObserveExit
Starter == Spawn \/ SendHello \/ TakeAnswer \/ HelloTimeout \/ KillAfterStart
Closing == Release \/ StopWaiting \/ KillAtRelease

StartNext ==
  \/ \E f \in Said : Say(f)
  \/ \E bytes \in Noise : Garble(bytes)
  \/ Exit
  \/ Loops
  \/ Starter
  \/ InterruptStart
  \/ CloseScope
  \/ Closing

\* The event loop runs what is ready, timers fire, and the scope of a failed
\* start is closed; a Bridge need not answer, and one that is up may stay.
StartSpec ==
  /\ StartInit /\ [][StartNext]_startVars
  /\ WF_startVars(Loops) /\ WF_startVars(Starter) /\ WF_startVars(Closing)
  /\ WF_startVars(start = "failed" /\ CloseScope)

-----------------------------------------------------------------------------
StartTypeOK ==
  /\ proc \in {"absent", "running", "exited"}
  /\ spoilt \in {"no", "noise", "torn"}
  /\ loop \in {"reading", "killing", "ended"} /\ watch \in {"watching", "ended"}
  /\ dead \in {"none", "protocol", "exited", "version"}
  /\ pending \in {"none", "hello", "shutdown"}
  /\ answer \in {NoAnswer, Failed} \cup Said
  /\ start \in {"resolving", "spawned", "awaiting", "killing", "up", "failed"}
  /\ window \in Nat /\ threw \in BOOLEAN /\ outOfTime \in BOOLEAN
  /\ scope \in {"open", "closing", "waiting", "killing", "closed"}
  /\ \A bytes \in {pipe, buffer} : \A i \in DOMAIN bytes : bytes[i] \in Byte

\* However the output is cut, the frames that come out of the decoder are
\* the ones that were written, in their order, none is kept back once its last
\* byte is there, and the decoder refuses only what is no frame: the test
\* "handles arbitrary stream chunk boundaries" for every cut.
CutsKeepFrames ==
  /\ StartTypeOK
  /\ decoded = SubSeq(sent, 1, Len(decoded))
  /\ threw => spoilt = "noise"
  /\ ~threw => /\ Len(buffer) < LENGTH_PREFIX + MAX_FRAME_LENGTH
               /\ Len(decoded) < Len(sent) =>
                    Len(buffer) < Len(Encode(sent[Len(decoded) + 1]))

AgreedWith(f) == IsHelloAck(f) /\ f.meta[1] = Version

\* A service exists only if the process's first answer was a helloAck of this
\* version, and its window is the one of that frame: 03-protocol.md, rule 10.
UpMeansAgreed ==
  start = "up" => /\ Own(sent) # {} /\ AgreedWith(FirstOwn(sent))
                  /\ window = Negotiated(FirstOwn(sent).meta) /\ window > 0

\* A process that answers as it should and goes on running is refused only
\* because of the time or of an interrupt, whatever else it writes between
\* and however its answer is cut.
OnlyTimeRefusesHonest ==
  (/\ start = "failed" /\ proc = "running" /\ spoilt = "no"
   /\ Own(sent) # {} /\ AgreedWith(FirstOwn(sent))) => outOfTime

\* Agreement decides, and nothing but agreement and time.
AgreementDecides == UpMeansAgreed /\ OnlyTimeRefusesHonest

\* makeBridge ends, even against a process that says nothing, and when it
\* fails the process it spawned goes away.
StartEnds == <>(start \in {"up", "failed"})
FailedStartLeavesNothing == (start = "failed") ~> (proc # "running")
StartSettles == StartEnds /\ FailedStartLeavesNothing
=============================================================================
