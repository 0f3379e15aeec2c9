-------------------------- MODULE BridgeClientProofs ------------------------
(***************************************************************************)
(* Theorems about BridgeClient, for any operations of any kinds and any    *)
(* number of data frames.                                                  *)
(***************************************************************************)
EXTENDS BridgeClient, TLAPS

Start(o)    == [kind |-> "start", op |-> o]
Cancel(o)   == [kind |-> "cancel", op |-> o]
Close(o)    == [kind |-> "close", op |-> o]
First(o)    == [kind |-> "first", op |-> o]
Data(o)     == [kind |-> "data", op |-> o]
Terminal(o) == [kind |-> "terminal", op |-> o]
Shutdown    == [kind |-> "shutdown"]
Bad         == [kind |-> "bad"]

(* The frames on their way, and the operations whose data are preceded by  *)
(* their first answer.                                                     *)
Wire == {stdin[i] : i \in 1 .. Len(stdin)}
Out  == {stdout[i] : i \in 1 .. Len(stdout)}
Preceded ==
  {o \in Ops : \A i \in 1 .. Len(stdout) :
                 stdout[i] = Data(o) => \E j \in 1 .. i - 1 : stdout[j] = First(o)}

\* No frame is written twice.
WireOK == stdin \in Seq(Frame) /\ \A i, j \in 1 .. Len(stdin) : stdin[i] = stdin[j] => i = j
OutOK ==
  /\ stdout \in Seq(Emitted)
  /\ \A i, j \in 1 .. Len(stdout), o \in Ops :
       stdout[i] = First(o) /\ stdout[j] = First(o) => i = j

RestOK ==
  /\ kind \in [Ops -> Kinds]
  /\ fiber \in [Ops -> {"idle", "checked", "writing", "awaiting", "using",
                        "cancelling", "draining", "over"}]
  /\ pending \subseteq Ops
  /\ answered \in [Ops -> {"no", "yes"}]
  /\ result \in [Ops -> {"none", "refused", "told", "dead", "full"}]
  /\ closeSent \in [Ops -> {"no", "yes"}]
  /\ dead \in {"no", "exited", "protocol"}
  /\ host \in {"open", "releasing", "waiting", "killing", "closed"}
  /\ work \in [Ops -> {"none", "running", "over"}]
  /\ stopped \subseteq Ops
  /\ emitted \in [Ops -> 0 .. MaxFrames]
  /\ proc \in {"alive", "leaving", "gone"}
  /\ spoilt \in {"no", "yes"}

Unstarted == {"idle", "checked", "writing"}

(* A frame on its way to the process says where its fibre is by now.       *)
Sent ==
  /\ \A o \in Ops :
       /\ Start(o) \in Wire => fiber[o] \notin Unstarted /\ work[o] = "none"
       /\ Cancel(o) \in Wire => fiber[o] \in {"draining", "over"}
       /\ Close(o) \in Wire => fiber[o] = "over"
  /\ Shutdown \in Wire => host \notin {"open", "releasing"}

(* Whoever is under way is in the map or has been told.                    *)
Known ==
  \A o \in Ops :
    /\ fiber[o] \in {"idle", "checked"} => o \notin pending
    /\ fiber[o] \in {"writing", "awaiting", "using", "cancelling", "draining"}
         => o \in pending \/ result[o] # "none"
    /\ fiber[o] = "writing" /\ dead = "no" => o \in pending
    /\ dead # "no" /\ kind[o] = "call" => o \notin pending
    /\ dead # "no" /\ kind[o] = "call" /\ fiber[o] = "writing" => result[o] # "none"

(* What the process has made of an operation, and said of it: while it has *)
(* an operation the client has it too.                                     *)
Worked ==
  \A o \in Ops :
    /\ fiber[o] \in Unstarted => work[o] = "none"
    /\ work[o] = "none" => emitted[o] = 0
    /\ emitted[o] = 0 => answered[o] = "no" /\ First(o) \notin Out /\ Data(o) \notin Out
    /\ Terminal(o) \in Out => work[o] = "over"
    /\ (dead = "no" /\ proc = "alive" /\ kind[o] # "socket"
          /\ (work[o] = "running" \/ Start(o) \in Wire)) => o \in pending

(* The first answer of an operation comes once and before its data, unless *)
(* the client has forgotten the operation; nobody reads after the loops.   *)
Ordered ==
  /\ ~LoopsRun => stdout = <<>>
  /\ \A o \in Ops :
       /\ emitted[o] # 0 /\ LoopsRun /\ o \in pending /\ answered[o] = "no" => First(o) \in Out
       /\ First(o) \in Out => answered[o] = "no"
       /\ o \in pending /\ answered[o] = "no" => o \in Preceded

Honest == spoilt = "no" => Ordered /\ dead # "protocol" /\ Bad \notin Out

IInv == RestOK /\ WireOK /\ OutOK /\ Sent /\ Known /\ Worked /\ Honest
-----------------------------------------------------------------------------
(* The sequences, once and for all.                                        *)

\* The frames of different kinds differ, and each names its operation.
LEMMA Frames ==
  /\ \A o \in Ops : /\ Start(o) \in Frame /\ Cancel(o) \in Frame /\ Close(o) \in Frame
                    /\ First(o) \in Emitted /\ Data(o) \in Emitted /\ Terminal(o) \in Emitted
  /\ Shutdown \in Frame /\ Bad \in Emitted
  /\ \A o, p : /\ Start(o) # Cancel(p) /\ Start(o) # Close(p) /\ Cancel(o) # Close(p)
               /\ First(o) # Data(p) /\ First(o) # Terminal(p) /\ Data(o) # Terminal(p)
  /\ \A o : /\ Start(o) # Shutdown /\ Cancel(o) # Shutdown /\ Close(o) # Shutdown
            /\ First(o) # Bad /\ Data(o) # Bad /\ Terminal(o) # Bad
  /\ \A o, p : /\ Start(o) = Start(p) => o = p
               /\ Cancel(o) = Cancel(p) => o = p
               /\ Close(o) = Close(p) => o = p
               /\ First(o) = First(p) => o = p
               /\ Data(o) = Data(p) => o = p
               /\ Terminal(o) = Terminal(p) => o = p
<1> USE DEF Start, Cancel, Close, First, Data, Terminal, Shutdown, Bad, Frame, Emitted
<1>1. /\ \A o \in Ops : /\ Start(o) \in Frame /\ Cancel(o) \in Frame /\ Close(o) \in Frame
                        /\ First(o) \in Emitted /\ Data(o) \in Emitted /\ Terminal(o) \in Emitted
      /\ Shutdown \in Frame /\ Bad \in Emitted
  OBVIOUS
<1>2. /\ \A o, p : /\ Start(o) # Cancel(p) /\ Start(o) # Close(p) /\ Cancel(o) # Close(p)
                   /\ First(o) # Data(p) /\ First(o) # Terminal(p) /\ Data(o) # Terminal(p)
  OBVIOUS
<1>3. \A o : /\ Start(o).kind = "start" /\ Cancel(o).kind = "cancel" /\ Close(o).kind = "close"
             /\ First(o).kind = "first" /\ Data(o).kind = "data" /\ Terminal(o).kind = "terminal"
  OBVIOUS
<1>4. Shutdown.kind = "shutdown" /\ Bad.kind = "bad"
  OBVIOUS
<1>5. \A o : /\ Start(o) # Shutdown /\ Cancel(o) # Shutdown /\ Close(o) # Shutdown
             /\ First(o) # Bad /\ Data(o) # Bad /\ Terminal(o) # Bad
  <2> HIDE DEF Start, Cancel, Close, First, Data, Terminal, Shutdown, Bad, Frame, Emitted
  <2>1. QED
    BY <1>3, <1>4
<1>6. \A o, p : /\ Start(o) = Start(p) => o = p
                /\ Cancel(o) = Cancel(p) => o = p
                /\ Close(o) = Close(p) => o = p
                /\ First(o) = First(p) => o = p
                /\ Data(o) = Data(p) => o = p
                /\ Terminal(o) = Terminal(p) => o = p
  OBVIOUS
<1>7. QED
  BY <1>1, <1>2, <1>5, <1>6

\* A frame is one of these, told apart by its kind.
LEMMA Kinded ==
  /\ \A f \in Frame : /\ f.kind \in {"start", "cancel", "close"} => f.op \in Ops
                      /\ f.kind \in {"start", "cancel", "close", "shutdown"}
                      /\ f.kind = "start" => f = Start(f.op)
                      /\ f.kind = "cancel" => f = Cancel(f.op)
                      /\ f.kind = "close" => f = Close(f.op)
                      /\ f.kind = "shutdown" => f = Shutdown
  /\ \A f \in Emitted : /\ f.kind \in {"first", "data", "terminal"} => f.op \in Ops
                        /\ f.kind \in {"first", "data", "terminal", "bad"}
                        /\ f.kind = "first" => f = First(f.op)
                        /\ f.kind = "data" => f = Data(f.op)
                        /\ f.kind = "terminal" => f = Terminal(f.op)
                        /\ f.kind = "bad" => f = Bad
BY DEF Start, Cancel, Close, First, Data, Terminal, Shutdown, Bad, Frame, Emitted

\* With no data on their way an operation is in order.
LEMMA NothingSaid ==
  \A o \in Ops : Data(o) \notin Out => o \in Preceded
BY DEF Out, Preceded

\* writeFrame appends to stdin: a frame that was not there stays unique.
LEMMA WireWritten ==
  ASSUME WireOK, NEW f \in Frame, f \notin Wire, stdin' = Append(stdin, f)
  PROVE  WireOK' /\ Wire' = Wire \cup {f}
<1>1. /\ stdin' \in Seq(Frame) /\ Len(stdin') = Len(stdin) + 1 /\ Len(stdin) \in Nat
      /\ stdin'[Len(stdin) + 1] = f
      /\ \A i \in 1 .. Len(stdin) : stdin'[i] = stdin[i]
  BY DEF WireOK
<1>2. Wire' = Wire \cup {f}
  BY <1>1 DEF Wire
<1>3. \A i, j \in 1 .. Len(stdin') : stdin'[i] = stdin'[j] => i = j
  BY <1>1 DEF WireOK, Wire
<1>4. QED
  BY <1>1, <1>2, <1>3 DEF WireOK

\* The process takes the oldest frame off stdin, and nothing else.
LEMMA WireRead ==
  ASSUME WireOK, stdin # <<>>, stdin' = Tail(stdin)
  PROVE  /\ WireOK' /\ Head(stdin) \in Wire /\ Head(stdin) \in Frame
         /\ Wire' = Wire \ {Head(stdin)}
<1>1. /\ Tail(stdin) \in Seq(Frame) /\ Len(stdin) \in Nat \ {0} /\ Len(Tail(stdin)) = Len(stdin) - 1
      /\ Head(stdin) = stdin[1] /\ Head(stdin) \in Frame
      /\ \A i \in 1 .. Len(stdin) - 1 : Tail(stdin)[i] = stdin[i + 1]
  BY DEF WireOK
<1>2. \A i, j \in 1 .. Len(stdin') : stdin'[i] = stdin'[j] => i = j
  BY <1>1 DEF WireOK
<1>3. \A i \in 2 .. Len(stdin) : stdin[i] = Tail(stdin)[i - 1] /\ stdin[i] # Head(stdin)
  BY <1>1 DEF WireOK
<1>4. Wire' = Wire \ {Head(stdin)}
  <2>1. Wire' \subseteq Wire \ {Head(stdin)}
    BY <1>1, <1>3 DEF Wire
  <2>2. Wire \ {Head(stdin)} \subseteq Wire'
    BY <1>1, <1>3 DEF Wire
  <2>3. QED
    BY <2>1, <2>2
<1>5. Head(stdin) \in Wire
  BY <1>1 DEF Wire
<1>6. WireOK'
  BY <1>1, <1>2 DEF WireOK
<1>7. QED
  BY <1>1, <1>4, <1>5, <1>6

\* The frames of a process that has gone are nowhere.
LEMMA WireCut ==
  ASSUME stdin' = <<>>
  PROVE  WireOK' /\ Wire' = {}
BY DEF WireOK, Wire

\* A step that leaves stdin alone leaves these sets alone.
LEMMA WireSame ==
  ASSUME WireOK, stdin' = stdin
  PROVE  WireOK' /\ Wire' = Wire
BY DEF WireOK, Wire

\* The process appends to stdout: a first answer once, data after it.
LEMMA OutWritten ==
  ASSUME OutOK, NEW f \in Emitted, stdout' = Append(stdout, f),
         \A o \in Ops : f = First(o) => f \notin Out
  PROVE  /\ OutOK' /\ Out' = Out \cup {f}
         /\ \A o \in Preceded : f # Data(o) \/ First(o) \in Out => o \in Preceded'
<1>1. /\ stdout' \in Seq(Emitted) /\ Len(stdout') = Len(stdout) + 1 /\ Len(stdout) \in Nat
      /\ stdout'[Len(stdout) + 1] = f
      /\ \A i \in 1 .. Len(stdout) : stdout'[i] = stdout[i]
  BY DEF OutOK
<1>2. Out' = Out \cup {f}
  BY <1>1 DEF Out
<1>3. ASSUME NEW o \in Ops, NEW i \in 1 .. Len(stdout'), NEW j \in 1 .. Len(stdout'),
             stdout'[i] = First(o), stdout'[j] = First(o)
      PROVE  i = j
  BY <1>1, <1>3 DEF OutOK, Out
<1>4. ASSUME NEW o \in Preceded, f # Data(o) \/ First(o) \in Out
      PROVE  o \in Preceded'
  <2>1. ASSUME NEW i \in 1 .. Len(stdout'), stdout'[i] = Data(o)
        PROVE  \E j \in 1 .. i - 1 : stdout'[j] = First(o)
    <3>1. CASE i \in 1 .. Len(stdout)
      BY <1>1, <2>1, <3>1 DEF Preceded
    <3>2. CASE i = Len(stdout) + 1
      BY <1>1, <1>4, <2>1, <3>2 DEF Out
    <3>3. QED
      BY <1>1, <3>1, <3>2
  <2>2. QED
    BY <2>1 DEF Preceded
<1>5. QED
  BY <1>1, <1>2, <1>3, <1>4 DEF OutOK

\* The client takes the oldest frame off stdout: a first answer is gone with
\* it, and data at the head have had theirs before.
LEMMA OutRead ==
  ASSUME OutOK, stdout # <<>>, stdout' = Tail(stdout)
  PROVE  /\ OutOK' /\ Head(stdout) \in Out /\ Head(stdout) \in Emitted
         /\ Out' \subseteq Out /\ Out \subseteq Out' \cup {Head(stdout)}
         /\ \A o \in Ops : Head(stdout) = First(o) => First(o) \notin Out'
         /\ \A o \in Preceded : /\ Head(stdout) # Data(o)
                                /\ Head(stdout) # First(o) => o \in Preceded'
<1>1. /\ Tail(stdout) \in Seq(Emitted) /\ Len(stdout) \in Nat \ {0}
      /\ Len(Tail(stdout)) = Len(stdout) - 1
      /\ Head(stdout) = stdout[1] /\ Head(stdout) \in Emitted
      /\ \A i \in 1 .. Len(stdout) - 1 : Tail(stdout)[i] = stdout[i + 1]
  BY DEF OutOK
<1>2. \A i, j \in 1 .. Len(stdout'), o \in Ops :
        stdout'[i] = First(o) /\ stdout'[j] = First(o) => i = j
  BY <1>1 DEF OutOK
<1>3. \A i \in 2 .. Len(stdout) : stdout[i] = Tail(stdout)[i - 1]
  BY <1>1
<1>4. Out' \subseteq Out /\ Out \subseteq Out' \cup {Head(stdout)}
  <2>1. Out' \subseteq Out
    BY <1>1 DEF Out
  <2>2. \A i \in 1 .. Len(stdout) : i = 1 \/ i \in 2 .. Len(stdout)
    BY <1>1
  <2>3. \A i \in 2 .. Len(stdout) : stdout[i] \in Out'
    <3>1. \A i \in 2 .. Len(stdout) : i - 1 \in 1 .. Len(stdout') /\ stdout[i] = stdout'[i - 1]
      BY <1>1, <1>3
    <3>2. QED
      BY <3>1 DEF Out
  <2>4. QED
    BY <1>1, <2>1, <2>2, <2>3 DEF Out
<1>5. ASSUME NEW o \in Ops, Head(stdout) = First(o)
      PROVE  First(o) \notin Out'
  BY <1>1, <1>5 DEF OutOK, Out
<1>6. ASSUME NEW o \in Preceded
      PROVE  Head(stdout) # Data(o) /\ (Head(stdout) # First(o) => o \in Preceded')
  <2>1. Head(stdout) # Data(o)
    BY <1>1 DEF Preceded
  <2>2. ASSUME Head(stdout) # First(o), NEW i \in 1 .. Len(stdout'), stdout'[i] = Data(o)
        PROVE  \E j \in 1 .. i - 1 : stdout'[j] = First(o)
    <3>1. i + 1 \in 1 .. Len(stdout) /\ stdout[i + 1] = Data(o)
      BY <1>1, <2>2
    <3>2. PICK j \in 1 .. i : stdout[j] = First(o)
      BY <3>1 DEF Preceded
    <3>3. j # 1
      BY <1>1, <2>2, <3>2
    <3>4. j - 1 \in 1 .. i - 1 /\ stdout'[j - 1] = First(o)
      BY <1>1, <1>3, <2>2, <3>2, <3>3
    <3>5. QED
      BY <3>4
  <2>3. QED
    BY <2>1, <2>2 DEF Preceded
<1>7. Head(stdout) \in Out
  BY <1>1 DEF Out
<1>8. OutOK'
  BY <1>1, <1>2 DEF OutOK
<1>9. QED
  BY <1>1, <1>4, <1>5, <1>6, <1>7, <1>8

\* The rest of a chunk is dropped after a frame that is refused.
LEMMA OutDropped ==
  ASSUME OutOK, NEW n \in 1 .. Len(stdout), stdout' = SubSeq(stdout, n + 1, Len(stdout))
  PROVE  OutOK' /\ Out' \subseteq Out
<1>1. /\ stdout' \in Seq(Emitted) /\ Len(stdout') = Len(stdout) - n
      /\ \A i \in 1 .. Len(stdout') : stdout'[i] = stdout[n + i] /\ n + i \in 1 .. Len(stdout)
  BY DEF OutOK
<1>2. Out' \subseteq Out
  BY <1>1 DEF Out
<1>3. ASSUME NEW i \in 1 .. Len(stdout'), NEW j \in 1 .. Len(stdout'), NEW o \in Ops,
             stdout'[i] = First(o), stdout'[j] = First(o)
      PROVE  i = j
  <2>1. n + i = n + j
    BY <1>1, <1>3 DEF OutOK
  <2>2. QED
    BY <2>1
<1>4. QED
  BY <1>1, <1>2, <1>3 DEF OutOK

\* Nothing is on its way once stdoutLoop has been interrupted.
LEMMA OutCut ==
  ASSUME stdout' = <<>>
  PROVE  OutOK' /\ Out' = {} /\ Preceded' = Ops
BY DEF OutOK, Out, Preceded

\* A step that leaves stdout alone leaves these sets alone.
LEMMA OutSame ==
  ASSUME OutOK, stdout' = stdout
  PROVE  OutOK' /\ Out' = Out /\ Preceded' = Preceded
BY DEF OutOK, Out, Preceded

\* writeFrame writes the frame; if the process has gone, the frame is lost or the
\* death is marked.
LEMMA Writing ==
  ASSUME WireOK, NEW f \in Frame, f \notin Wire, Write(f)
  PROVE  /\ WireOK'
         /\ proc = "gone" =>
              Wire' = Wire /\ (MarkDead("exited") \/ UNCHANGED <<dead, pending, result>>)
         /\ proc # "gone" => Wire' = Wire \cup {f} /\ UNCHANGED <<dead, pending, result>>
BY WireWritten, WireSame DEF Write, Accept

\* markDead takes everybody out of the map and tells them; fibres that move
\* on at the same time do no harm.
LEMMA Swept ==
  ASSUME RestOK, Known, NEW cause \in {"exited", "protocol"}, MarkDead(cause), kind' = kind,
         \A o \in Ops : fiber'[o] = fiber[o] \/ fiber'[o] = "over"
                         \/ (fiber[o] = "cancelling" /\ fiber'[o] = "draining")
  PROVE  /\ Known' /\ pending' \subseteq pending
         /\ dead' = IF dead = "no" THEN cause ELSE dead
         /\ result' \in [Ops -> {"none", "refused", "told", "dead", "full"}]
<1>1. dead' = IF dead = "no" THEN cause ELSE dead
  BY DEF MarkDead
<1>2. pending' \subseteq pending /\ result' \in [Ops -> {"none", "refused", "told", "dead", "full"}]
  BY DEF MarkDead, RestOK
<1>3. \A o \in Ops : /\ result[o] # "none" => result'[o] # "none"
                     /\ o \in pending => o \in pending' \/ result'[o] # "none"
                     /\ dead = "no" /\ o \in pending => result'[o] # "none"
                     /\ dead = "no" => o \notin pending'
                     /\ dead # "no" => (o \in pending' <=> o \in pending)
  BY DEF MarkDead, RestOK
<1>4. dead' # "no"
  BY <1>1 DEF RestOK
<1>5. QED
  BY <1>1, <1>2, <1>3, <1>4 DEF Known

\* Taking one operation out of the map tells it.
LEMMA Completed ==
  ASSUME RestOK, Known, NEW o \in Ops, NEW with \in {"told", "full"}, Complete(o, with),
         UNCHANGED <<kind, fiber, dead>>, fiber[o] # "writing"
  PROVE  /\ Known' /\ pending' \subseteq pending
         /\ result' \in [Ops -> {"none", "refused", "told", "dead", "full"}]
<1>1. pending' = pending \ {o} /\ result' = [result EXCEPT ![o] = with]
  BY DEF Complete
<1>2. result' \in [Ops -> {"none", "refused", "told", "dead", "full"}]
      /\ \A p \in Ops : result'[p] = IF p = o THEN with ELSE result[p]
  BY <1>1 DEF RestOK
<1>3. QED
  BY <1>1, <1>2 DEF Known

\* The kill keeps the inductive invariant.
LEMMA KillKeeps ==
  ASSUME IInv, Kill
  PROVE  IInv'
<1> USE DEF IInv, Kill, clientVars, processVars
<1>1. WireOK' /\ Wire' = {}
  BY WireCut
<1>2. OutOK' /\ Out' = Out /\ Preceded' = Preceded
  BY OutSame
<1>3. RestOK'
  BY DEF RestOK
<1>4. Sent'
  BY <1>1, <1>2 DEF RestOK, Sent, Worked, Unstarted
<1>5. Known'
  BY DEF RestOK, Known, Closing, Dead
<1>6. Worked'
  BY <1>1, <1>2 DEF RestOK, Worked, Known, Sent, Unstarted
<1>7. Honest'
  BY <1>1, <1>2 DEF RestOK, Honest, Ordered, LoopsRun, Known, Worked, Unstarted
<1>8. QED
  BY <1>1, <1>2, <1>3, <1>4, <1>5, <1>6, <1>7

\* Observing the exit keeps the inductive invariant.
LEMMA ObserveExitKeeps ==
  ASSUME IInv, ObserveExit
  PROVE  IInv'
<1> USE DEF IInv, ObserveExit, MarkDead, clientVars, processVars
<1>1. WireOK' /\ Wire' = Wire
  BY WireSame
<1>2. OutOK' /\ Out' = Out /\ Preceded' = Preceded
  BY OutSame
<1>3. RestOK'
  BY DEF RestOK
<1>4. Sent'
  BY <1>1, <1>2 DEF RestOK, Sent, Worked, Unstarted
<1>5. Known'
  BY DEF RestOK, Known, Closing, Dead
<1>6. Worked'
  BY <1>1, <1>2 DEF RestOK, Worked, Known, Sent, Unstarted
<1>7. Honest'
  BY <1>1, <1>2 DEF RestOK, Honest, Ordered, LoopsRun, Known, Worked, Unstarted
<1>8. QED
  BY <1>1, <1>2, <1>3, <1>4, <1>5, <1>6, <1>7

\* Interrupting the loops keeps the inductive invariant.
LEMMA InterruptLoopsKeeps ==
  ASSUME IInv, InterruptLoops
  PROVE  IInv'
<1> USE DEF IInv, InterruptLoops, clientVars, processVars
<1>1. WireOK' /\ Wire' = Wire
  BY WireSame
<1>2. OutOK' /\ Out' = {} /\ Preceded' = Ops
  BY OutCut
<1>3. RestOK'
  BY DEF RestOK
<1>4. Sent'
  BY <1>1, <1>2 DEF RestOK, Sent, Worked, Unstarted
<1>5. Known'
  BY DEF RestOK, Known, Closing, Dead
<1>6. Worked'
  BY <1>1, <1>2 DEF RestOK, Worked, Known, Sent, Unstarted
<1>7. Honest'
  BY <1>1, <1>2 DEF RestOK, Honest, Ordered, LoopsRun, Known, Worked, Unstarted
<1>8. QED
  BY <1>1, <1>2, <1>3, <1>4, <1>5, <1>6, <1>7

\* The end of the wait in release keeps the inductive invariant.
LEMMA StopWaitingKeeps ==
  ASSUME IInv, StopWaiting
  PROVE  IInv'
<1> USE DEF IInv, StopWaiting, clientVars, processVars
<1>1. WireOK' /\ Wire' = {}
  BY WireCut
<1>2. OutOK' /\ Out' = Out /\ Preceded' = Preceded
  BY OutSame
<1>3. RestOK'
  BY DEF RestOK
<1>4. Sent'
  BY <1>1, <1>2 DEF RestOK, Sent, Worked, Unstarted
<1>5. Known'
  BY DEF RestOK, Known, Closing, Dead
<1>6. Worked'
  BY <1>1, <1>2 DEF RestOK, Worked, Known, Sent, Unstarted
<1>7. Honest'
  BY <1>1, <1>2 DEF RestOK, Honest, Ordered, LoopsRun, Known, Worked, Unstarted
<1>8. QED
  BY <1>1, <1>2, <1>3, <1>4, <1>5, <1>6, <1>7

\* The process leaving keeps the inductive invariant.
LEMMA ExitKeeps ==
  ASSUME IInv, Exit
  PROVE  IInv'
<1> USE DEF IInv, Exit, clientVars, processVars
<1>1. WireOK' /\ Wire' = {}
  BY WireCut
<1>2. OutOK' /\ Out' = Out /\ Preceded' = Preceded
  BY OutSame
<1>3. RestOK'
  BY DEF RestOK
<1>4. Sent'
  BY <1>1, <1>2 DEF RestOK, Sent, Worked, Unstarted
<1>5. Known'
  BY DEF RestOK, Known, Closing, Dead
<1>6. Worked'
  BY <1>1, <1>2 DEF RestOK, Worked, Known, Sent, Unstarted
<1>7. Honest'
  BY <1>1, <1>2 DEF RestOK, Honest, Ordered, LoopsRun, Known, Worked, Unstarted
<1>8. QED
  BY <1>1, <1>2, <1>3, <1>4, <1>5, <1>6, <1>7

\* The first look at getDead() keeps the inductive invariant.
LEMMA BeginKeeps ==
  ASSUME IInv, NEW o \in Ops, Begin(o)
  PROVE  IInv'
<1> USE DEF IInv, Begin, Goto, clientVars, processVars
<1>1. WireOK' /\ Wire' = Wire
  BY WireSame
<1>2. OutOK' /\ Out' = Out /\ Preceded' = Preceded
  BY OutSame
<1>3. RestOK'
  BY DEF RestOK
<1>4. Sent'
  BY <1>1, <1>2 DEF RestOK, Sent, Worked, Unstarted
<1>5. Known'
  BY DEF RestOK, Known, Closing, Dead
<1>6. Worked'
  BY <1>1, <1>2 DEF RestOK, Worked, Known, Sent, Unstarted
<1>7. Honest'
  BY <1>1, <1>2 DEF RestOK, Honest, Ordered, LoopsRun, Known, Worked, Unstarted
<1>8. QED
  BY <1>1, <1>2, <1>3, <1>4, <1>5, <1>6, <1>7

\* Registering an operation keeps the inductive invariant.
LEMMA RegisterKeeps ==
  ASSUME IInv, NEW o \in Ops, Register(o)
  PROVE  IInv'
<1> USE DEF IInv, Register, Goto, LooksAgain, clientVars, processVars
<1>1. WireOK' /\ Wire' = Wire
  BY WireSame
<1>2. OutOK' /\ Out' = Out /\ Preceded' = Preceded
  BY OutSame
<1>3. RestOK'
  BY DEF RestOK
<1>4. Sent'
  BY <1>1, <1>2 DEF RestOK, Sent, Worked, Unstarted
<1>5. Known'
  BY DEF RestOK, Known, Closing, Dead
<1>6. Worked'
  BY <1>1, <1>2 DEF RestOK, Worked, Known, Sent, Unstarted
<1>7. Honest'
  BY <1>1, <1>2, NothingSaid DEF RestOK, Honest, Ordered, LoopsRun, Known, Worked, Unstarted
<1>8. QED
  BY <1>1, <1>2, <1>3, <1>4, <1>5, <1>6, <1>7

\* Waking with an answer keeps the inductive invariant.
LEMMA AnswerKeeps ==
  ASSUME IInv, NEW o \in Ops, Answer(o)
  PROVE  IInv'
<1> USE DEF IInv, Answer, Goto, clientVars, processVars
<1>1. WireOK' /\ Wire' = Wire
  BY WireSame
<1>2. OutOK' /\ Out' = Out /\ Preceded' = Preceded
  BY OutSame
<1>3. RestOK'
  BY DEF RestOK
<1>4. Sent'
  BY <1>1, <1>2 DEF RestOK, Sent, Worked, Unstarted
<1>5. Known'
  BY DEF RestOK, Known, Closing, Dead
<1>6. Worked'
  BY <1>1, <1>2 DEF RestOK, Worked, Known, Sent, Unstarted
<1>7. Honest'
  BY <1>1, <1>2 DEF RestOK, Honest, Ordered, LoopsRun, Known, Worked, Unstarted
<1>8. QED
  BY <1>1, <1>2, <1>3, <1>4, <1>5, <1>6, <1>7

\* Leaving an operation keeps the inductive invariant.
LEMMA LeaveKeeps ==
  ASSUME IInv, NEW o \in Ops, Leave(o)
  PROVE  IInv'
<1> USE DEF IInv, Leave, Goto, clientVars, processVars
<1>1. WireOK' /\ Wire' = Wire
  BY WireSame
<1>2. OutOK' /\ Out' = Out /\ Preceded' = Preceded
  BY OutSame
<1>3. RestOK'
  BY DEF RestOK
<1>4. Sent'
  BY <1>1, <1>2 DEF RestOK, Sent, Worked, Unstarted
<1>5. Known'
  BY DEF RestOK, Known, Closing, Dead
<1>6. Worked'
  BY <1>1, <1>2 DEF RestOK, Worked, Known, Sent, Unstarted
<1>7. Honest'
  BY <1>1, <1>2 DEF RestOK, Honest, Ordered, LoopsRun, Known, Worked, Unstarted
<1>8. QED
  BY <1>1, <1>2, <1>3, <1>4, <1>5, <1>6, <1>7

\* Waking from the wait for the terminal frame keeps the inductive invariant.
LEMMA DrainedKeeps ==
  ASSUME IInv, NEW o \in Ops, Drained(o)
  PROVE  IInv'
<1> USE DEF IInv, Drained, Goto, clientVars, processVars
<1>1. WireOK' /\ Wire' = Wire
  BY WireSame
<1>2. OutOK' /\ Out' = Out /\ Preceded' = Preceded
  BY OutSame
<1>3. RestOK'
  BY DEF RestOK
<1>4. Sent'
  BY <1>1, <1>2 DEF RestOK, Sent, Worked, Unstarted
<1>5. Known'
  BY DEF RestOK, Known, Closing, Dead
<1>6. Worked'
  BY <1>1, <1>2 DEF RestOK, Worked, Known, Sent, Unstarted
<1>7. Honest'
  BY <1>1, <1>2 DEF RestOK, Honest, Ordered, LoopsRun, Known, Worked, Unstarted
<1>8. QED
  BY <1>1, <1>2, <1>3, <1>4, <1>5, <1>6, <1>7

\* A write that fails keeps the inductive invariant.
LEMMA WriteFailsKeeps ==
  ASSUME IInv, NEW o \in Ops, WriteFails(o)
  PROVE  IInv'
<1> USE DEF IInv, WriteFails, MarkDead, clientVars, processVars
<1>1. WireOK' /\ Wire' = Wire
  BY WireSame
<1>2. OutOK' /\ Out' = Out /\ Preceded' = Preceded
  BY OutSame
<1>3. RestOK'
  BY DEF RestOK
<1>4. Sent'
  BY <1>1, <1>2 DEF RestOK, Sent, Worked, Unstarted
<1>5. Known'
  BY DEF RestOK, Known, Closing, Dead
<1>6. Worked'
  BY <1>1, <1>2 DEF RestOK, Worked, Known, Sent, Unstarted
<1>7. Honest'
  BY <1>1, <1>2 DEF RestOK, Honest, Ordered, LoopsRun, Known, Worked, Unstarted
<1>8. QED
  BY <1>1, <1>2, <1>3, <1>4, <1>5, <1>6, <1>7

\* sendCancel keeps the inductive invariant.
LEMMA SendCancelKeeps ==
  ASSUME IInv, NEW o \in Ops, SendCancel(o)
  PROVE  IInv'
<1> USE DEF IInv, SendCancel, Goto, clientVars, processVars
<1>1. /\ WireOK'
      /\ \/ Wire' = Wire /\ UNCHANGED <<dead, pending, result>>
         \/ Wire' = Wire /\ MarkDead("exited")
         \/ Wire' = Wire \cup {Cancel(o)} /\ UNCHANGED <<dead, pending, result>>
  <2>1. CASE stdin' = stdin /\ UNCHANGED <<dead, pending, result>>
    BY <2>1, WireSame
  <2>2. CASE Write(Cancel(o))
    <3>1. Cancel(o) \notin Wire
      BY DEF Sent
    <3>2. QED
      BY <2>2, <3>1, Writing, Frames
  <2>3. QED
    BY <2>1, <2>2 DEF Cancel
<1>2. OutOK' /\ Out' = Out /\ Preceded' = Preceded
  BY OutSame
<1>3. /\ RestOK' /\ Known' /\ pending' \subseteq pending
      /\ \/ dead' = dead /\ pending' = pending
         \/ dead' = IF dead = "no" THEN "exited" ELSE dead
  <2>1. CASE UNCHANGED <<dead, pending, result>>
    BY <2>1 DEF RestOK, Known
  <2>2. CASE MarkDead("exited")
    <3>1. \A p \in Ops : fiber'[p] = fiber[p] \/ fiber'[p] = "over"
                         \/ (fiber[p] = "cancelling" /\ fiber'[p] = "draining")
      BY DEF RestOK
    <3>2. QED
      BY <2>2, <3>1, Swept DEF RestOK
  <2>3. QED
    BY <1>1, <2>1, <2>2
<1>4. Sent'
  BY <1>1, <1>2, <1>3, Frames DEF RestOK, Sent, Worked, Unstarted
<1>5. Worked'
  BY <1>1, <1>2, <1>3, Frames DEF RestOK, Worked, Known, Sent, Unstarted
<1>6. Honest'
  BY <1>1, <1>2, <1>3, Frames DEF RestOK, Honest, Ordered, LoopsRun, Known, Worked, Unstarted
<1>7. QED
  BY <1>1, <1>2, <1>3, <1>4, <1>5, <1>6

\* A socket's close keeps the inductive invariant.
LEMMA CloseSocketKeeps ==
  ASSUME IInv, NEW o \in Ops, CloseSocket(o)
  PROVE  IInv'
<1> USE DEF IInv, CloseSocket, Goto, clientVars, processVars
<1>1. /\ WireOK'
      /\ \/ Wire' = Wire /\ UNCHANGED <<dead, pending, result>>
         \/ Wire' = Wire /\ MarkDead("exited")
         \/ Wire' = Wire \cup {Close(o)} /\ UNCHANGED <<dead, pending, result>>
  <2>1. CASE stdin' = stdin /\ UNCHANGED <<dead, pending, result>>
    BY <2>1, WireSame
  <2>2. CASE Write(Close(o))
    <3>1. Close(o) \notin Wire
      BY DEF Sent
    <3>2. QED
      BY <2>2, <3>1, Writing, Frames
  <2>3. QED
    BY <2>1, <2>2 DEF Close
<1>2. OutOK' /\ Out' = Out /\ Preceded' = Preceded
  BY OutSame
<1>3. /\ RestOK' /\ Known' /\ pending' \subseteq pending
      /\ \/ dead' = dead /\ pending' = pending
         \/ dead' = IF dead = "no" THEN "exited" ELSE dead
  <2>1. CASE UNCHANGED <<dead, pending, result>>
    BY <2>1 DEF RestOK, Known
  <2>2. CASE MarkDead("exited")
    <3>1. \A p \in Ops : fiber'[p] = fiber[p] \/ fiber'[p] = "over"
                         \/ (fiber[p] = "cancelling" /\ fiber'[p] = "draining")
      BY DEF RestOK
    <3>2. QED
      BY <2>2, <3>1, Swept DEF RestOK
  <2>3. QED
    BY <1>1, <2>1, <2>2
<1>4. Sent'
  BY <1>1, <1>2, <1>3, Frames DEF RestOK, Sent, Worked, Unstarted
<1>5. Worked'
  BY <1>1, <1>2, <1>3, Frames DEF RestOK, Worked, Known, Sent, Unstarted
<1>6. Honest'
  BY <1>1, <1>2, <1>3, Frames DEF RestOK, Honest, Ordered, LoopsRun, Known, Worked, Unstarted
<1>7. QED
  BY <1>1, <1>2, <1>3, <1>4, <1>5, <1>6

\* release keeps the inductive invariant.
LEMMA ReleaseKeeps ==
  ASSUME IInv, Release
  PROVE  IInv'
<1> USE DEF IInv, Release, clientVars, processVars
<1>1. /\ WireOK'
      /\ \/ Wire' = Wire /\ UNCHANGED <<dead, pending, result>>
         \/ Wire' = Wire /\ MarkDead("exited")
         \/ Wire' = Wire \cup {Shutdown} /\ UNCHANGED <<dead, pending, result>>
  <2>1. CASE stdin' = stdin /\ UNCHANGED <<dead, pending, result>>
    BY <2>1, WireSame
  <2>2. CASE Write(Shutdown)
    <3>1. Shutdown \notin Wire
      BY DEF Sent
    <3>2. QED
      BY <2>2, <3>1, Writing, Frames
  <2>3. QED
    BY <2>1, <2>2 DEF Shutdown
<1>2. OutOK' /\ Out' = Out /\ Preceded' = Preceded
  BY OutSame
<1>3. /\ RestOK' /\ Known' /\ pending' \subseteq pending
      /\ \/ dead' = dead /\ pending' = pending
         \/ dead' = IF dead = "no" THEN "exited" ELSE dead
  <2>1. CASE UNCHANGED <<dead, pending, result>>
    BY <2>1 DEF RestOK, Known
  <2>2. CASE MarkDead("exited")
    <3>1. \A p \in Ops : fiber'[p] = fiber[p] \/ fiber'[p] = "over"
                         \/ (fiber[p] = "cancelling" /\ fiber'[p] = "draining")
      BY DEF RestOK
    <3>2. QED
      BY <2>2, <3>1, Swept DEF RestOK
  <2>3. QED
    BY <1>1, <2>1, <2>2
<1>4. Sent'
  BY <1>1, <1>2, <1>3, Frames DEF RestOK, Sent, Worked, Unstarted
<1>5. Worked'
  BY <1>1, <1>2, <1>3, Frames DEF RestOK, Worked, Known, Sent, Unstarted
<1>6. Honest'
  BY <1>1, <1>2, <1>3, Frames DEF RestOK, Honest, Ordered, LoopsRun, Known, Worked, Unstarted
<1>7. QED
  BY <1>1, <1>2, <1>3, <1>4, <1>5, <1>6

\* Writing the start frame keeps the inductive invariant.
LEMMA WriteStartKeeps ==
  ASSUME IInv, NEW o \in Ops, WriteStart(o)
  PROVE  IInv'
<1> USE DEF IInv, WriteStart, Goto, clientVars, processVars
<1>1. \/ Accept(Start(o)) /\ fiber' = [fiber EXCEPT ![o] = "awaiting"]
      \/ /\ proc = "gone" /\ UNCHANGED stdin
         /\ dead' = IF dead = "no" THEN "exited" ELSE dead
         /\ pending' = (IF dead = "no" THEN {} ELSE pending) \ {o}
         /\ fiber' = [fiber EXCEPT ![o] = "over"]
         /\ result' = [p \in Ops |-> IF p = o \/ (dead = "no" /\ p \in pending)
                                     THEN "dead" ELSE result[p]]
  BY DEF Start
<1> HIDE DEF WriteStart
<1>2. UNCHANGED <<kind, answered, closeSent, host, stdout, processVars, spoilt>> /\ fiber[o] = "writing"
  BY DEF WriteStart
<1>3. WireOK' /\ Wire' \in {Wire, IF proc = "gone" THEN Wire ELSE Wire \cup {Start(o)}}
  <2>1. CASE UNCHANGED stdin
    BY <2>1, WireSame
  <2>2. CASE Accept(Start(o))
    <3>1. Write(Start(o)) /\ Start(o) \notin Wire
      BY <2>2, <1>2 DEF Write, Sent, Unstarted
    <3>2. QED
      BY <3>1, Writing, Frames
  <2>3. QED
    BY <1>1, <2>1, <2>2
<1>4. OutOK' /\ Out' = Out /\ Preceded' = Preceded
  BY <1>2, OutSame
<1>5. /\ RestOK' /\ Known' /\ pending' \subseteq pending
      /\ \/ UNCHANGED <<dead, pending, result>>
         \/ proc = "gone" /\ dead' # "no" /\ (dead' = "protocol" => dead = "protocol")
  <2>1. CASE Accept(Start(o)) /\ fiber' = [fiber EXCEPT ![o] = "awaiting"]
    BY <1>2, <2>1 DEF Accept, RestOK, Known
  <2>2. CASE ~(Accept(Start(o)) /\ fiber' = [fiber EXCEPT ![o] = "awaiting"])
    <3>1. /\ proc = "gone"
          /\ dead' = IF dead = "no" THEN "exited" ELSE dead
          /\ pending' = (IF dead = "no" THEN {} ELSE pending) \ {o}
          /\ fiber' = [fiber EXCEPT ![o] = "over"]
          /\ result' = [p \in Ops |-> IF p = o \/ (dead = "no" /\ p \in pending)
                                      THEN "dead" ELSE result[p]]
      BY <1>1, <2>2
    <3>2. RestOK'
      BY <1>2, <3>1 DEF RestOK
    <3>3. Known'
      BY <1>2, <3>1 DEF RestOK, Known
    <3>4. QED
      BY <3>1, <3>2, <3>3 DEF RestOK
  <2>3. QED
    BY <1>1, <2>1, <2>2
<1>6. \A p \in Ops : fiber'[p] = IF p = o THEN fiber'[o] ELSE fiber[p]
  BY <1>1 DEF RestOK
<1>7. fiber'[o] \in {"awaiting", "over"}
  BY <1>1, <1>2 DEF RestOK
<1>8. Sent'
  BY <1>2, <1>3, <1>6, <1>7, <1>4, <1>5, Frames DEF RestOK, Sent, Worked, Unstarted
<1>9. Worked'
  BY <1>2, <1>3, <1>6, <1>7, <1>4, <1>5, Frames DEF RestOK, Worked, Known, Sent, Unstarted
<1>10. Honest'
  BY <1>2, <1>3, <1>6, <1>7, <1>4, <1>5, Frames DEF RestOK, Honest, Ordered, LoopsRun, Known, Worked, Unstarted
<1>11. QED
  BY <1>3, <1>4, <1>5, <1>8, <1>9, <1>10

\* A crash keeps the inductive invariant.
LEMMA CrashKeeps ==
  ASSUME IInv, Crash
  PROVE  IInv'
<1> USE DEF IInv, Crash, clientVars, processVars
<1>1. WireOK' /\ Wire' = {}
  BY WireCut
<1>2. \/ spoilt' = spoilt /\ OutOK' /\ Out' = Out /\ Preceded' = Preceded
      \/ spoilt' = "yes" /\ OutOK' /\ Out' = Out \cup {Bad}
  <2>1. CASE UNCHANGED <<stdout, spoilt>>
    BY <2>1, OutSame
  <2>2. CASE stdout' = Append(stdout, Bad) /\ spoilt' = "yes"
    BY <2>2, OutWritten, Frames
  <2>3. QED
    BY <2>1, <2>2 DEF Bad
<1>3. RestOK'
  BY DEF RestOK
<1>4. Sent'
  BY <1>1, <1>2, Frames DEF RestOK, Sent, Worked, Unstarted
<1>5. Known'
  BY DEF RestOK, Known, Closing, Dead
<1>6. Worked'
  BY <1>1, <1>2, Frames DEF RestOK, Worked, Known, Sent, Unstarted
<1>7. Honest'
  BY <1>1, <1>2, Frames DEF RestOK, Honest, Ordered, LoopsRun, Known, Worked, Unstarted
<1>8. QED
  BY <1>1, <1>2, <1>3, <1>4, <1>5, <1>6, <1>7

\* A malformed frame keeps the inductive invariant.
LEMMA SpoilKeeps ==
  ASSUME IInv, Spoil
  PROVE  IInv'
<1> USE DEF IInv, Spoil, clientVars, processVars
<1>1. WireOK' /\ Wire' = Wire
  BY WireSame
<1>2. \/ spoilt' = spoilt /\ OutOK' /\ Out' = Out /\ Preceded' = Preceded
      \/ spoilt' = "yes" /\ OutOK' /\ Out' = Out \cup {Bad}
  <2>1. CASE UNCHANGED <<stdout, spoilt>>
    BY <2>1, OutSame
  <2>2. CASE stdout' = Append(stdout, Bad) /\ spoilt' = "yes"
    BY <2>2, OutWritten, Frames
  <2>3. QED
    BY <2>1, <2>2 DEF Bad
<1>3. RestOK'
  BY DEF RestOK
<1>4. Sent'
  BY <1>1, <1>2, Frames DEF RestOK, Sent, Worked, Unstarted
<1>5. Known'
  BY DEF RestOK, Known, Closing, Dead
<1>6. Worked'
  BY <1>1, <1>2, Frames DEF RestOK, Worked, Known, Sent, Unstarted
<1>7. Honest'
  BY <1>1, <1>2, Frames DEF RestOK, Honest, Ordered, LoopsRun, Known, Worked, Unstarted
<1>8. QED
  BY <1>1, <1>2, <1>3, <1>4, <1>5, <1>6, <1>7

\* The terminal frame keeps the inductive invariant.
LEMMA EmitTerminalKeeps ==
  ASSUME IInv, NEW o \in Ops, EmitTerminal(o)
  PROVE  IInv'
<1> USE DEF IInv, EmitTerminal, clientVars, processVars
<1>1. WireOK' /\ Wire' = Wire
  BY WireSame
<1>2. /\ OutOK' /\ Out' = IF LoopsRun THEN Out \cup {Terminal(o)} ELSE Out
      /\ Preceded \subseteq Preceded' /\ (~LoopsRun => stdout' = stdout)
  <2>1. CASE LoopsRun
    <3>1. stdout' = Append(stdout, Terminal(o))
      BY <2>1 DEF Emit, Terminal
    <3>2. QED
      BY <2>1, <3>1, OutWritten, Frames
  <2>2. CASE ~LoopsRun
    BY <2>2, OutSame DEF Emit
  <2>3. QED
    BY <2>1, <2>2
<1>3. RestOK'
  BY DEF RestOK
<1>4. Sent'
  BY <1>1, <1>2, Frames DEF RestOK, Sent, Worked, Unstarted
<1>5. Known'
  BY DEF RestOK, Known, Closing, Dead
<1>6. Worked'
  BY <1>1, <1>2, Frames DEF RestOK, Worked, Known, Sent, Unstarted
<1>7. Honest'
  BY <1>1, <1>2, Frames DEF RestOK, Honest, Ordered, LoopsRun, Known, Worked, Unstarted
<1>8. QED
  BY <1>1, <1>2, <1>3, <1>4, <1>5, <1>6, <1>7

\* A data frame keeps the inductive invariant.
LEMMA EmitDataKeeps ==
  ASSUME IInv, NEW o \in Ops, EmitData(o)
  PROVE  IInv'
<1> USE DEF IInv, EmitData, clientVars, processVars
<1>1. WireOK' /\ Wire' = Wire
  BY WireSame
<1>2. /\ OutOK' /\ (~LoopsRun => stdout' = stdout)
      /\ Out' = IF ~LoopsRun THEN Out ELSE Out \cup {IF emitted[o] = 0 THEN First(o) ELSE Data(o)}
      /\ \A p \in Preceded : ~LoopsRun \/ p # o \/ emitted[o] = 0 \/ First(o) \in Out
                               => p \in Preceded'
  <2>1. CASE LoopsRun /\ emitted[o] = 0
    <3>1. stdout' = Append(stdout, First(o)) /\ First(o) \notin Out
      BY <2>1 DEF Emit, First, Worked
    <3>2. QED
      BY <2>1, <3>1, OutWritten, Frames
  <2>2. CASE LoopsRun /\ emitted[o] # 0
    <3>1. stdout' = Append(stdout, Data(o))
      BY <2>2 DEF Emit, Data
    <3>2. QED
      BY <2>2, <3>1, OutWritten, Frames
  <2>3. CASE ~LoopsRun
    BY <2>3, OutSame DEF Emit
  <2>4. QED
    BY <2>1, <2>2, <2>3
<1>3. RestOK' /\ emitted' = [emitted EXCEPT ![o] = @ + 1] /\ emitted'[o] # 0
  <2>1. emitted' \in [Ops -> 0 .. MaxFrames]
    BY MaxFramesAssumption DEF RestOK
  <2>2. QED
    BY <2>1, MaxFramesAssumption DEF RestOK
<1>4. Sent'
  BY <1>1, <1>2, <1>3, Frames DEF RestOK, Sent, Worked, Unstarted
<1>5. Known'
  BY <1>1, <1>2, <1>3, Frames DEF RestOK, Known, Closing, Dead
<1>6. Worked'
  BY <1>1, <1>2, <1>3, Frames DEF RestOK, Worked, Known, Sent, Unstarted
<1>7. Honest'
  BY <1>1, <1>2, <1>3, Frames DEF RestOK, Honest, Ordered, LoopsRun, Known, Worked, Unstarted
<1>8. QED
  BY <1>1, <1>2, <1>3, <1>4, <1>5, <1>6, <1>7

\* Reading stdin in the process keeps the inductive invariant.
LEMMA ReceiveKeeps ==
  ASSUME IInv, Receive
  PROVE  IInv'
<1> USE DEF IInv, Receive, clientVars, processVars
<1>1. /\ WireOK' /\ Head(stdin) \in Wire /\ Head(stdin) \in Frame
      /\ Wire' = Wire \ {Head(stdin)}
  BY WireRead
<1>2. OutOK' /\ Out' = Out /\ Preceded' = Preceded
  BY OutSame
<1>3. \/ \E o \in Ops : /\ Head(stdin) = Start(o) /\ work' = [work EXCEPT ![o] = "running"]
                        /\ UNCHANGED <<stopped, proc>>
      \/ UNCHANGED <<work, proc>> /\ stopped' \subseteq Ops
      \/ UNCHANGED work /\ stopped' \subseteq Ops /\ proc' = "leaving"
  <2>1. CASE Head(stdin).kind = "start"
    BY <1>1, <2>1, Kinded
  <2>2. CASE Head(stdin).kind \in {"cancel", "close"}
    <3>1. Head(stdin).op \in Ops
      BY <1>1, <2>2, Kinded
    <3>2. stopped' = IF work[Head(stdin).op] = "running" THEN stopped \cup {Head(stdin).op} ELSE stopped
      BY <2>2
    <3>3. QED
      BY <2>2, <3>1, <3>2 DEF RestOK
  <2>3. CASE Head(stdin).kind = "shutdown"
    BY <2>3
  <2>4. QED
    BY <1>1, <2>1, <2>2, <2>3, Kinded
<1> HIDE DEF Receive
<1>4. UNCHANGED <<clientVars, dead, host, stdout, emitted, spoilt>>
  BY DEF Receive
<1>5. RestOK'
  BY <1>1, <1>2, <1>3, <1>4, Frames DEF RestOK
<1>6. Sent'
  BY <1>1, <1>2, <1>3, <1>4, Frames DEF RestOK, Sent, Worked, Unstarted
<1>7. Known'
  BY <1>1, <1>2, <1>3, <1>4, Frames DEF RestOK, Known, Closing, Dead
<1>8. Worked'
  BY <1>1, <1>2, <1>3, <1>4, Frames DEF RestOK, Worked, Known, Sent, Unstarted
<1>9. Honest'
  BY <1>1, <1>2, <1>3, <1>4, Frames DEF RestOK, Honest, Ordered, LoopsRun, Known, Worked, Unstarted
<1>10. QED
  BY <1>1, <1>2, <1>3, <1>5, <1>6, <1>7, <1>8, <1>9

\* handleFrame keeps the inductive invariant.
LEMMA ReadFrameKeeps ==
  ASSUME IInv, ReadFrame
  PROVE  IInv'
<1> USE DEF IInv, ReadFrame, clientVars, processVars
<1>1. WireOK' /\ Wire' = Wire
  BY WireSame
<1>2. /\ OutOK' /\ Head(stdout) \in Out /\ Head(stdout) \in Emitted
      /\ Out' \subseteq Out /\ Out \subseteq Out' \cup {Head(stdout)}
      /\ \A o \in Ops : Head(stdout) = First(o) => First(o) \notin Out'
      /\ \A o \in Preceded : /\ Head(stdout) # Data(o)
                             /\ Head(stdout) # First(o) => o \in Preceded'
  BY OutRead
<1>3. LoopsRun /\ UNCHANGED <<kind, fiber, closeSent, host, stdin, processVars, spoilt>>
  OBVIOUS
<1>4. PICK o \in Ops :
        \/ o \notin pending /\ Head(stdout) \in {First(o), Data(o), Terminal(o)}
           /\ UNCHANGED <<dead, pending, result, answered>>
        \/ /\ Head(stdout) = Terminal(o)
           /\ Complete(o, "told") /\ UNCHANGED <<dead, answered>>
        \/ /\ Head(stdout) = First(o)
           /\ answered' = [answered EXCEPT ![o] = "yes"] /\ UNCHANGED <<dead, pending, result>>
        \/ /\ Head(stdout) = First(o) /\ answered[o] = "yes"
           /\ MarkDead("protocol") /\ UNCHANGED answered
        \/ /\ Head(stdout) = Data(o) /\ o \in pending /\ answered[o] = "no"
           /\ MarkDead("protocol") /\ UNCHANGED answered
        \/ /\ Head(stdout) = Data(o) /\ answered[o] = "yes"
           /\ \/ kind[o] = "socket" /\ Complete(o, "full") /\ UNCHANGED <<dead, answered>>
              \/ UNCHANGED <<dead, pending, result, answered>>
  <2>1. CASE Head(stdout).kind = "terminal"
    BY <1>2, <2>1, Kinded
  <2>2. CASE Head(stdout).kind = "first"
    BY <1>2, <2>2, Kinded DEF SocketFrame, StreamFrame, RestOK
  <2>3. CASE Head(stdout).kind = "data"
    BY <1>2, <2>3, Kinded DEF SocketFrame, StreamFrame, RestOK
  <2>4. QED
    BY <1>2, <2>1, <2>2, <2>3, Kinded
<1> HIDE DEF ReadFrame
<1>5. fiber[o] \notin Unstarted
  BY <1>2, <1>4, Frames DEF Worked, RestOK
<1>6. /\ RestOK' /\ Known' /\ pending' \subseteq pending
      /\ \/ dead' = dead /\ (pending' = pending \/ (pending' = pending \ {o} /\ Head(stdout) # First(o)))
         \/ dead' = IF dead = "no" THEN "protocol" ELSE dead
  <2>1. CASE UNCHANGED <<dead, pending, result>>
    BY <1>3, <1>4, <2>1 DEF RestOK, Known
  <2>2. CASE MarkDead("protocol") /\ UNCHANGED answered
    BY <1>3, <2>2, Swept DEF RestOK
  <2>3. CASE (Complete(o, "told") \/ Complete(o, "full")) /\ UNCHANGED <<dead, answered>> /\ Head(stdout) # First(o)
    <3>1. /\ Known' /\ pending' \subseteq pending
          /\ result' \in [Ops -> {"none", "refused", "told", "dead", "full"}]
      BY <1>3, <1>5, <2>3, Completed DEF Unstarted
    <3>2. QED
      BY <1>3, <2>3, <3>1 DEF RestOK, Complete
  <2>4. QED
    BY <1>4, <2>1, <2>2, <2>3, Frames
<1>7. Sent'
  BY <1>1, <1>2, <1>3, <1>4, <1>6, Frames DEF RestOK, Sent, Worked, Unstarted
<1>8. Worked'
  <2>1. \A p \in Ops : answered'[p] = answered[p] \/ First(p) \in Out
    BY <1>2, <1>4 DEF RestOK
  <2>2. Terminal(o) \in Out => work[o] = "over" /\ Start(o) \notin Wire
    BY DEF Worked, Sent
  <2>3. \A p \in pending : dead' = "no" =>
          p \in pending' \/ kind[p] = "socket" \/ (p = o /\ Terminal(o) \in Out)
    BY <1>2, <1>4 DEF Complete, MarkDead, RestOK
  <2>4. dead' = "no" => dead = "no"
    BY <1>6
  <2>5. QED
    BY <1>1, <1>2, <1>3, <2>1, <2>2, <2>3, <2>4 DEF Worked, Unstarted
<1>9. Honest'
  <2> SUFFICES ASSUME spoilt' = "no"
               PROVE  Ordered' /\ dead' # "protocol" /\ Bad \notin Out'
    BY DEF Honest
  <2>1. Ordered /\ dead # "protocol" /\ Bad \notin Out
    BY <1>3 DEF Honest
  <2>2. dead' = dead /\ pending' \subseteq pending
    BY <1>2, <1>4, <2>1, <1>6 DEF Ordered, Complete
  <2>3. /\ \A p \in Ops : answered'[p] = answered[p] \/ (p = o /\ answered'[p] = "yes" /\ Head(stdout) = First(o))
        /\ \A p \in pending' : Head(stdout) = First(p) => answered'[p] = "yes"
    BY <1>2, <1>4, <2>1, <2>2, Frames DEF Ordered, RestOK
  <2>4. Ordered'
    <3>1. ~LoopsRun' => stdout' = <<>>
      BY <1>3 DEF LoopsRun
    <3>2. ASSUME NEW p \in Ops
          PROVE  /\ emitted'[p] # 0 /\ LoopsRun' /\ p \in pending' /\ answered'[p] = "no" => First(p) \in Out'
                 /\ First(p) \in Out' => answered'[p] = "no"
                 /\ p \in pending' /\ answered'[p] = "no" => p \in Preceded'
      BY <1>2, <1>3, <2>1, <2>2, <2>3 DEF Ordered, RestOK
    <3>3. QED
      BY <3>1, <3>2 DEF Ordered
  <2>5. QED
    BY <1>2, <2>1, <2>2, <2>4
<1>10. QED
  BY <1>1, <1>2, <1>6, <1>7, <1>8, <1>9

\* Refusing a frame keeps the inductive invariant.
LEMMA RefuseFrameKeeps ==
  ASSUME IInv, RefuseFrame
  PROVE  IInv'
<1> USE DEF IInv, RefuseFrame, clientVars, processVars
<1>1. WireOK' /\ Wire' = Wire
  BY WireSame
<1>2. OutOK' /\ Out' \subseteq Out /\ Bad \in Out
  <2>1. PICK n \in 1 .. Len(stdout) : stdout' = SubSeq(stdout, n + 1, Len(stdout))
    OBVIOUS
  <2>2. Bad \in Out
    BY Kinded DEF Out, OutOK
  <2>3. QED
    BY <2>1, <2>2, OutDropped
<1>3. UNCHANGED <<kind, fiber, answered, closeSent, host, stdin, processVars, spoilt>>
  OBVIOUS
<1>4. /\ RestOK' /\ Known' /\ pending' \subseteq pending
      /\ dead' = IF dead = "no" THEN "protocol" ELSE dead
  BY <1>3, Swept DEF RestOK
<1>5. Sent'
  BY <1>1, <1>2, <1>3, <1>4 DEF RestOK, Sent, Worked, Unstarted
<1>6. Worked'
  BY <1>1, <1>2, <1>3, <1>4 DEF RestOK, Worked, Known, Sent, Unstarted
<1>7. Honest'
  BY <1>1, <1>2, <1>3, <1>4 DEF RestOK, Honest, Ordered, LoopsRun, Known, Worked, Unstarted
<1>8. QED
  BY <1>1, <1>2, <1>4, <1>5, <1>6, <1>7

\* The parts of the inductive invariant give the type invariant.
LEMMA Typed == RestOK /\ WireOK /\ OutOK => TypeOK
BY DEF RestOK, WireOK, OutOK, TypeOK

\* The client before its first operation.
LEMMA Starts == Init => IInv
<1> SUFFICES ASSUME Init
             PROVE  IInv
  OBVIOUS
<1>1. WireOK /\ OutOK /\ Wire = {} /\ Out = {} /\ Preceded = Ops
  BY DEF Init, WireOK, OutOK, Wire, Out, Preceded
<1>2. RestOK
  BY MaxFramesAssumption DEF Init, RestOK
<1>3. Sent /\ Known /\ Worked /\ Honest
  BY <1>1 DEF Init, Sent, Known, Worked, Honest, Ordered, LoopsRun, Unstarted
<1>4. QED
  BY <1>1, <1>2, <1>3 DEF IInv

\* The inductive invariant: each frame on its way says where its fibre is by
\* now, what the process has is in the client's map, and the first answer of an
\* operation comes before its data as long as the client listens.
THEOREM Invariance == Spec => []IInv
<1>1. ASSUME IInv, [Next]_vars
      PROVE  IInv'
  <2>1. CASE Loops
    BY <1>1, <2>1, ReadFrameKeeps, RefuseFrameKeeps, KillKeeps, ObserveExitKeeps DEF Loops
  <2>2. CASE Scope
    BY <1>1, <2>2, InterruptLoopsKeeps, ReleaseKeeps, StopWaitingKeeps DEF Scope
  <2>3. CASE Process
    BY <1>1, <2>3, ReceiveKeeps, ExitKeeps, CrashKeeps, SpoilKeeps, EmitDataKeeps, EmitTerminalKeeps
       DEF Process
  <2>4. ASSUME NEW o \in Ops, Fiber(o)
        PROVE  IInv'
    BY <1>1, <2>4, BeginKeeps, RegisterKeeps, WriteStartKeeps, AnswerKeeps, LeaveKeeps,
       SendCancelKeeps, DrainedKeeps, CloseSocketKeeps, WriteFailsKeeps
       DEF Fiber
  <2>5. CASE UNCHANGED vars
    <3>1. UNCHANGED <<kind, fiber, pending, answered, result, closeSent, dead, host, stdin, stdout,
                      work, stopped, emitted, proc, spoilt>>
      BY <2>5 DEF vars, clientVars, processVars
    <3>2. WireOK' /\ Wire' = Wire /\ OutOK' /\ Out' = Out /\ Preceded' = Preceded
      BY <1>1, <3>1, WireSame, OutSame DEF IInv
    <3>3. RestOK' /\ Sent' /\ Known'
      BY <1>1, <3>1, <3>2 DEF IInv, RestOK, Sent, Known
    <3>4. Worked' /\ Honest'
      BY <1>1, <3>1, <3>2 DEF IInv, Worked, Honest, Ordered, LoopsRun
    <3>5. QED
      BY <3>2, <3>3, <3>4 DEF IInv
  <2>6. QED
    BY <1>1, <2>1, <2>2, <2>3, <2>4, <2>5 DEF Next
<1>2. QED
  BY <1>1, Starts, PTL DEF Spec

\* Whoever is parked on a deferred is in the pending map or has been told, and
\* no call is left waiting by a client that has been marked dead.
THEOREM WaitersAreAccountedFor == Spec => []WaitersAccounted
<1>1. IInv => WaitersAccounted
  BY Typed DEF IInv, WaitersAccounted, WaitersAreKnown, CallsDieWithTheBridge, Known, Waiting, RestOK
<1>2. QED
  BY <1>1, Invariance, PTL

\* Whatever the order in which cancels, closes and late frames cross, the client
\* condemns the protocol only over a malformed frame.
THEOREM HonestTrusted == Spec => []HonestBridgeTrusted
<1>1. IInv => HonestBridgeTrusted
  BY DEF IInv, HonestBridgeTrusted, Honest, RestOK
<1>2. QED
  BY <1>1, Invariance, PTL

\* While both ends live, a call or stream that the process has, or will read, is
\* in the pending map.
THEOREM NoneAbandoned == Spec => []NothingAbandoned
<1>1. IInv => NothingAbandoned
  <2>1. \A o \in Ops : InProcess(o) => work[o] = "running" \/ Start(o) \in Wire
    BY DEF InProcess, Start, Wire
  <2>2. QED
    BY <2>1 DEF IInv, Worked, NothingAbandoned
<1>2. QED
  BY <1>1, Invariance, PTL
=============================================================================
