---------------------------- MODULE SocketsProofs ---------------------------
(***************************************************************************)
(* Theorems about Sockets, for any writers, number of runs and kinds of    *)
(* error.                                                                  *)
(***************************************************************************)
EXTENDS Sockets, FiniteSetTheorems, TLAPS

Holding == {"open", "pulling", "failed"}

(* An operation has an error from its end on, and one that is open was     *)
(* answered; a run that has not begun has none.                            *)
Operations ==
  \A r \in Runs :
    /\ op[r] = "over" <=> error[r] # None
    /\ op[r] = "open" => r \in opened
    /\ r \in opened => r <= run /\ op[r] \in {"open", "over"}
    /\ r > run => op[r] = "none"

(* The connection is the latest run's, while its reader holds it, and who  *)
(* is closing or writing does so on a run.                                 *)
Owned ==
  /\ reader # "idle" => run \in Runs
  /\ reader \in Holding \cup {"closing"} => run \in opened
  /\ connection # None => connection = run /\ reader \in {"open", "pulling"}
  /\ \A w \in Writers : writer[w].at \in {"writing", "closing"} => writer[w].on \in Runs
  /\ outer.at = "closing" => outer.on \in Runs

(* The books of the gauge without the gauge.                               *)
CountedByReader ==
  /\ counted \subseteq opened
  /\ \A r \in counted : r = run /\ reader \in Holding \cup {"closing"}

Kept == SleepsOnlyUndecided /\ OnlyOwnReason /\ Operations /\ Owned /\ CountedByReader

IInv == Kept /\ gauge = Cardinality(counted)

(* A reason that is not a close tells of an error that is none.            *)
LEMMA Reasons ==
  /\ \A e \in Ends \cup {BridgeExited}, phase \in {"read", "write"} :
       /\ SocketReason(phase, e) \in {"open", "close", "read", "write"}
       /\ SocketReason(phase, e) # "close" => e.kind # "Closed"
<1>1. BridgeExited.tag = "BridgeExited" /\ BridgeExited.kind = ""
  BY DEF BridgeExited, Tagged
<1>2. \A kind : LET e == SocketOperationError(kind)
                IN /\ e.tag = "TlsWebSocketError" => e.kind \in {"Handshake", "Read", "Write", "Closed"}
                   /\ e.tag # "TlsWebSocketError" => e.kind # "Closed"
  BY DEF SocketOperationError, ErrorFromMeta, TlsRequestError, Tagged, RequestErrorKinds
<1>3. Tagged("TlsWebSocketError", "Closed").tag = "TlsWebSocketError"
      /\ Tagged("TlsWebSocketError", "Closed").kind = "Closed"
  BY DEF Tagged
<1>4. QED
  BY <1>1, <1>2, <1>3 DEF Ends, SocketReason

WriterStates == [Writers -> [at : {"idle", "asleep", "woken", "writing", "closing"},
                             on : Runs \cup {None}]]

(* What a step has made of the writers: those at work are as it left them  *)
(* and none sleeps on an open latch.                                       *)
Woken(writers) ==
  /\ writer' \in WriterStates
  /\ \A w \in Writers : writer'[w].at \in {"writing", "closing"} => writer'[w] = writers[w]
  /\ \A w \in Writers : writer'[w].at = "asleep" => ~latch'

(* latch.openUnsafe wakes whoever sleeps and disturbs nobody else.          *)
LEMMA Waking ==
  ASSUME NEW writers \in WriterStates, writer' = Awake(writers)
  PROVE  Woken(writers)
<1>1. \A w \in Writers : Awake(writers)[w] =
        IF writers[w].at = "asleep" THEN [writers[w] EXCEPT !.at = "woken"] ELSE writers[w]
  BY DEF Awake
<1>2. Awake(writers) \in WriterStates
  BY DEF Awake, WriterStates
<1>3. \A w \in Writers : Awake(writers)[w].at # "asleep"
        /\ (Awake(writers)[w].at \in {"writing", "closing"} => Awake(writers)[w] = writers[w])
  BY <1>1 DEF WriterStates
<1>4. QED
  BY <1>2, <1>3 DEF Woken

(* setFailure leaves a reason, an open latch and nobody asleep.            *)
LEMMA FailureSet ==
  ASSUME TypeOK, NEW why \in {"open", "close", "read", "write"}, NEW r \in Runs,
         NEW writers \in WriterStates, SetFailure(why, r, writers)
  PROVE  /\ failure' = IF failure = None THEN [why |-> why, of |-> r] ELSE failure
         /\ failure' \in Failures /\ connection' = None /\ latch' = TRUE
         /\ Woken(writers)
<1>1. Woken(writers)
  BY Waking DEF SetFailure
<1>2. failure' \in Failures
  BY DEF SetFailure, TypeOK, Failures
<1>3. QED
  BY <1>1, <1>2 DEF SetFailure

(* The failure of an operation ends the connection of its own run alone.   *)
LEMMA FailureOfRun ==
  ASSUME SleepsOnlyUndecided, NEW why \in {"open", "close", "read", "write"}, NEW r \in Runs,
         NEW writers \in WriterStates,
         \A w \in Writers : writers[w].at = "asleep" => writer[w].at = "asleep",
         OperationFailed(why, r, writers)
  PROVE  /\ connection = r =>
              /\ failure' = IF failure = None THEN [why |-> why, of |-> r] ELSE failure
              /\ failure' \in Failures /\ connection' = None /\ latch' = TRUE
         /\ connection # r => UNCHANGED adapter
         /\ Woken(writers)
<1>1. CASE connection = r
  BY <1>1, FailureSet DEF OperationFailed, SleepsOnlyUndecided
<1>2. CASE connection # r
  BY <1>2 DEF OperationFailed, SleepsOnlyUndecided, Woken, adapter
<1>3. QED
  BY <1>1, <1>2

(* closeConnection leaves a reason too, and closes what is open.           *)
LEMMA Closing ==
  ASSUME TypeOK, Operations, NEW r \in Runs, NEW writers \in WriterStates,
         CloseConnection(r, writers)
  PROVE  /\ failure' = IF failure = None THEN [why |-> "close", of |-> r] ELSE failure
         /\ failure' \in Failures /\ connection' = None /\ latch' = TRUE
         /\ Woken(writers)
         /\ closeSent' \subseteq opened /\ UNCHANGED <<op, error, opened, cancelled, dead>>
<1>1. closeSent' \subseteq opened
  BY DEF CloseConnection, TypeOK, Operations
<1>2. QED
  BY <1>1, FailureSet DEF CloseConnection

Latched == latch <=> (connection # None \/ failure # None)
SleepersShut == \A w \in Writers : writer[w].at = "asleep" => ~latch

(* The end of the queue, told by the run it ended.                         *)
LEMMA PullFailsKeeps ==
  ASSUME Kept, PullFails
  PROVE  Kept'
<1> USE MaxRunsAssumption, NoneAssumption DEF Kept, SleepsOnlyUndecided, Runs, count, bridge
<1>1. run \in Runs /\ writer \in WriterStates
  BY DEF PullFails, TypeOK, WriterStates, Owned
<1>2. PICK why \in {"open", "close", "read", "write"} :
        /\ OperationFailed(why, run, writer)
        /\ why # "close" => error[run] # None /\ error[run].kind # "Closed"
  BY <1>1, Reasons DEF PullFails, TypeOK, Operations
<1>3. /\ connection = run =>
           /\ failure' = IF failure = None THEN [why |-> why, of |-> run] ELSE failure
           /\ failure' \in Failures /\ connection' = None /\ latch' = TRUE
      /\ connection # run => UNCHANGED adapter
      /\ Woken(writer)
  BY <1>1, <1>2, FailureOfRun
<1>4. TypeOK'
  BY <1>1, <1>2, <1>3 DEF PullFails, TypeOK, Owned, WriterStates, Woken, adapter
<1>5. Latched' /\ SleepersShut'
  BY <1>1, <1>2, <1>3 DEF PullFails, TypeOK, Latched, SleepersShut, Woken, Failures, adapter
<1>6. OnlyOwnReason'
  BY <1>1, <1>2, <1>3 DEF PullFails, TypeOK, OnlyOwnReason, Operations, Owned, Holding, Failures, adapter
<1>7. Operations'
  BY <1>1, <1>2, <1>3 DEF PullFails, TypeOK, Operations, Owned
<1>8. Owned'
  BY <1>1, <1>2, <1>3 DEF PullFails, TypeOK, Operations, Owned, Holding, Woken, adapter
<1>9. CountedByReader'
  BY <1>1, <1>2, <1>3 DEF PullFails, TypeOK, CountedByReader, Holding, Owned
<1>10. QED
  BY <1>4, <1>5, <1>6, <1>7, <1>8, <1>9 DEF SleepsOnlyUndecided, Latched, SleepersShut, Kept

(* The finalizer of a reader's scope.                                      *)
LEMMA CloseReaderKeeps ==
  ASSUME Kept, CloseReader
  PROVE  Kept'
<1> USE MaxRunsAssumption, NoneAssumption DEF Kept, SleepsOnlyUndecided, Runs, count, bridge
<1>1. run \in Runs /\ writer \in WriterStates
  BY DEF CloseReader, TypeOK, WriterStates, Owned
<1>2. /\ failure' = IF failure = None THEN [why |-> "close", of |-> run] ELSE failure
      /\ failure' \in Failures /\ connection' = None /\ latch' = TRUE
      /\ Woken(writer)
      /\ closeSent' \subseteq opened /\ UNCHANGED <<op, error, opened, cancelled, dead>>
  BY <1>1, Closing DEF CloseReader
<1>3. TypeOK'
  BY <1>1, <1>2 DEF CloseReader, TypeOK, Owned, WriterStates, Woken, adapter
<1>4. Latched' /\ SleepersShut'
  BY <1>1, <1>2 DEF CloseReader, TypeOK, Latched, SleepersShut, Woken, Failures, adapter
<1>5. OnlyOwnReason'
  BY <1>1, <1>2 DEF CloseReader, TypeOK, OnlyOwnReason, Operations, Owned, Holding, Failures, adapter
<1>6. Operations'
  BY <1>1, <1>2 DEF CloseReader, TypeOK, Operations, Owned
<1>7. Owned'
  BY <1>1, <1>2 DEF CloseReader, TypeOK, Operations, Owned, Holding, Woken, adapter
<1>8. CountedByReader'
  BY <1>1, <1>2 DEF CloseReader, TypeOK, CountedByReader, Holding, Owned
<1>9. QED
  BY <1>3, <1>4, <1>5, <1>6, <1>7, <1>8 DEF SleepsOnlyUndecided, Latched, SleepersShut, Kept

(* managed.close, of whatever connection there is.                         *)
LEMMA CloseOuterKeeps ==
  ASSUME Kept, CloseOuter
  PROVE  Kept'
<1> USE MaxRunsAssumption, NoneAssumption DEF Kept, SleepsOnlyUndecided, Runs, count, bridge
<1>1. CASE connection = None
  BY <1>1 DEF CloseOuter, TypeOK, OnlyOwnReason, Operations, Owned, CountedByReader, Holding, adapter
<1>2. CASE connection # None
  <2>1. connection \in Runs /\ writer \in WriterStates
    BY <1>2 DEF TypeOK, WriterStates
  <2>2. /\ failure' = IF failure = None THEN [why |-> "close", of |-> connection] ELSE failure
        /\ failure' \in Failures /\ connection' = None /\ latch' = TRUE
        /\ Woken(writer)
        /\ closeSent' \subseteq opened /\ UNCHANGED <<op, error, opened, cancelled, dead>>
    BY <1>2, <2>1, Closing DEF CloseOuter
  <2>3. TypeOK'
    BY <1>2, <2>1, <2>2 DEF CloseOuter, TypeOK, Owned, WriterStates, Woken, adapter
  <2>4. Latched' /\ SleepersShut'
    BY <1>2, <2>1, <2>2 DEF CloseOuter, TypeOK, Latched, SleepersShut, Woken, Failures, adapter
  <2>5. OnlyOwnReason'
    BY <1>2, <2>1, <2>2 DEF CloseOuter, TypeOK, OnlyOwnReason, Operations, Owned, Holding, Failures, adapter
  <2>6. Operations'
    BY <1>2, <2>1, <2>2 DEF CloseOuter, TypeOK, Operations, Owned
  <2>7. Owned'
    BY <1>2, <2>1, <2>2 DEF CloseOuter, TypeOK, Operations, Owned, Holding, Woken, adapter
  <2>8. CountedByReader'
    BY <1>2, <2>1, <2>2 DEF CloseOuter, TypeOK, CountedByReader, Holding, Owned
  <2>9. QED
    BY <2>3, <2>4, <2>5, <2>6, <2>7, <2>8 DEF SleepsOnlyUndecided, Latched, SleepersShut, Kept
<1>3. QED
  BY <1>1, <1>2

(* A writer with a connection: a close, a write that fails, or one begun.  *)
LEMMA WriteOnKeeps ==
  ASSUME Kept, NEW w \in Writers, connection # None, WriteOn(w)
  PROVE  Kept'
<1> USE MaxRunsAssumption, NoneAssumption DEF Kept, SleepsOnlyUndecided, Runs, count, bridge
<1>1. connection \in Runs /\ connection = run /\ writer \in WriterStates /\ Idle.at = "idle"
  BY DEF TypeOK, WriterStates, Owned, Idle
<1>2. ASSUME NEW at \in {"idle", "closing", "writing"}, NEW on \in Runs \cup {None}
      PROVE  LET new == [writer EXCEPT ![w] = [at |-> at, on |-> on]]
             IN /\ new \in WriterStates
                /\ \A v \in Writers : new[v].at = "asleep" => writer[v].at = "asleep"
                /\ new[w].on = on /\ \A v \in Writers : v # w => new[v] = writer[v]
  BY <1>1 DEF WriterStates
<1>3. ASSUME NEW new, new = [writer EXCEPT ![w] = [at |-> "closing", on |-> connection]],
             CloseConnection(connection, new), UNCHANGED <<run, reader, count, outer>>
      PROVE  Kept'
  <2>1. new \in WriterStates /\ new[w].on \in Runs /\ \A v \in Writers : v # w => new[v] = writer[v]
    BY <1>1, <1>3 DEF WriterStates
  <2>2. /\ failure' = IF failure = None THEN [why |-> "close", of |-> connection] ELSE failure
        /\ failure' \in Failures /\ connection' = None /\ latch' = TRUE
        /\ Woken(new)
        /\ closeSent' \subseteq opened /\ UNCHANGED <<op, error, opened, cancelled, dead>>
    BY <1>1, <1>3, <2>1, Closing
  <2>3. TypeOK'
    BY <1>1, <1>3, <2>1, <2>2 DEF TypeOK, Owned, WriterStates, Woken, adapter
  <2>4. Latched' /\ SleepersShut'
    BY <1>1, <1>3, <2>1, <2>2 DEF TypeOK, Latched, SleepersShut, Woken, Failures, adapter
  <2>5. OnlyOwnReason'
    BY <1>1, <1>3, <2>1, <2>2 DEF TypeOK, OnlyOwnReason, Operations, Owned, Holding, Failures, adapter
  <2>6. Operations'
    BY <1>1, <1>3, <2>1, <2>2 DEF TypeOK, Operations, Owned
  <2>7. Owned'
    BY <1>1, <1>3, <2>1, <2>2 DEF TypeOK, Operations, Owned, Holding, Woken, adapter
  <2>8. CountedByReader'
    BY <1>1, <1>3, <2>1, <2>2 DEF TypeOK, CountedByReader, Holding, Owned
  <2>9. QED
    BY <2>3, <2>4, <2>5, <2>6, <2>7, <2>8 DEF SleepsOnlyUndecided, Latched, SleepersShut, Kept
<1>4. ASSUME NEW new, new = [writer EXCEPT ![w] = Idle], op[connection] = "over",
             OperationFailed(SocketReason("write", error[connection]), connection, new),
             UNCHANGED <<run, reader, count, bridge, outer>>
      PROVE  Kept'
  <2>1. new \in WriterStates /\ new[w].at = "idle" /\ \A v \in Writers : v # w => new[v] = writer[v]
    BY <1>1, <1>2, <1>4 DEF Idle, WriterStates
  <2>2. \A v \in Writers : new[v].at = "asleep" => writer[v].at = "asleep"
    BY <2>1
  <2>3. PICK why \in {"open", "close", "read", "write"} :
          /\ OperationFailed(why, connection, new)
          /\ why # "close" => error[run] # None /\ error[run].kind # "Closed"
    BY <1>1, <1>4, Reasons DEF TypeOK, Operations
  <2>4. /\ failure' = IF failure = None THEN [why |-> why, of |-> connection] ELSE failure
        /\ failure' \in Failures /\ connection' = None /\ latch' = TRUE
        /\ Woken(new)
    BY <1>1, <2>1, <2>2, <2>3, FailureOfRun
  <2>5. TypeOK'
    BY <1>1, <1>4, <2>1, <2>3, <2>4 DEF TypeOK, Owned, WriterStates, Woken, adapter
  <2>6. Latched' /\ SleepersShut'
    BY <1>1, <1>4, <2>1, <2>3, <2>4 DEF TypeOK, Latched, SleepersShut, Woken, Failures, adapter
  <2>7. OnlyOwnReason'
    BY <1>1, <1>4, <2>1, <2>3, <2>4 DEF TypeOK, OnlyOwnReason, Operations, Owned, Holding, Failures, adapter
  <2>8. Operations'
    BY <1>1, <1>4, <2>1, <2>3, <2>4 DEF TypeOK, Operations, Owned
  <2>9. Owned'
    BY <1>1, <1>4, <2>1, <2>3, <2>4 DEF TypeOK, Operations, Owned, Holding, Woken, adapter
  <2>10. CountedByReader'
    BY <1>1, <1>4, <2>1, <2>3, <2>4 DEF TypeOK, CountedByReader, Holding, Owned
  <2>11. QED
    BY <2>5, <2>6, <2>7, <2>8, <2>9, <2>10 DEF SleepsOnlyUndecided, Latched, SleepersShut, Kept
<1>5. ASSUME writer' = [writer EXCEPT ![w] = [at |-> "writing", on |-> connection]],
             UNCHANGED <<run, reader, adapter, count, bridge, outer>>
      PROVE  Kept'
  <2>1. writer' \in WriterStates /\ writer'[w] = [at |-> "writing", on |-> connection]
        /\ \A v \in Writers : v # w => writer'[v] = writer[v]
    BY <1>1, <1>2, <1>5 DEF WriterStates
  <2>2. TypeOK'
    BY <1>1, <1>5, <2>1 DEF TypeOK, Owned, WriterStates, Woken, adapter
  <2>3. Latched' /\ SleepersShut'
    BY <1>1, <1>5, <2>1 DEF TypeOK, Latched, SleepersShut, Woken, Failures, adapter
  <2>4. OnlyOwnReason'
    BY <1>1, <1>5, <2>1 DEF TypeOK, OnlyOwnReason, Operations, Owned, Holding, Failures, adapter
  <2>5. Operations'
    BY <1>1, <1>5, <2>1 DEF TypeOK, Operations, Owned
  <2>6. Owned'
    BY <1>1, <1>5, <2>1 DEF TypeOK, Operations, Owned, Holding, Woken, adapter
  <2>7. CountedByReader'
    BY <1>1, <1>5, <2>1 DEF TypeOK, CountedByReader, Holding, Owned
  <2>8. QED
    BY <2>2, <2>3, <2>4, <2>5, <2>6, <2>7 DEF SleepsOnlyUndecided, Latched, SleepersShut, Kept
<1>6. QED
  BY <1>3, <1>4, <1>5 DEF WriteOn

(* A first look at the connection, which may put the writer to sleep.      *)
LEMMA WriteKeeps ==
  ASSUME Kept, NEW w \in Writers, Write(w)
  PROVE  Kept'
<1> USE MaxRunsAssumption, NoneAssumption DEF Kept, SleepsOnlyUndecided, Runs, count, bridge
<1>1. CASE connection # None /\ WriteOn(w)
  BY <1>1, WriteOnKeeps
<1>2. CASE connection = None /\ UNCHANGED <<run, reader, adapter, count, bridge, outer>>
  <2>1. writer' \in WriterStates /\ (writer'[w].at = "asleep" => ~latch)
        /\ writer'[w].at \in {"asleep", "idle"} /\ \A v \in Writers : v # w => writer'[v] = writer[v]
    <3>1. writer' = [writer EXCEPT ![w].at = "asleep"] /\ writer \in WriterStates
      BY <1>2 DEF Write, TypeOK, WriterStates
    <3>2. QED
      BY <1>2, <3>1 DEF Write, WriterStates, Idle
  <2>2. TypeOK'
    BY <1>2, <2>1 DEF TypeOK, Owned, WriterStates, Woken, adapter
  <2>3. Latched' /\ SleepersShut'
    BY <1>2, <2>1 DEF TypeOK, Latched, SleepersShut, Woken, Failures, adapter
  <2>4. OnlyOwnReason'
    BY <1>2, <2>1 DEF TypeOK, OnlyOwnReason, Operations, Owned, Holding, Failures, adapter
  <2>5. Operations'
    BY <1>2, <2>1 DEF TypeOK, Operations, Owned
  <2>6. Owned'
    BY <1>2, <2>1 DEF TypeOK, Operations, Owned, Holding, Woken, adapter
  <2>7. CountedByReader'
    BY <1>2, <2>1 DEF TypeOK, CountedByReader, Holding, Owned
  <2>8. QED
    BY <2>2, <2>3, <2>4, <2>5, <2>6, <2>7 DEF SleepsOnlyUndecided, Latched, SleepersShut, Kept
<1>3. QED
  BY <1>1, <1>2 DEF Write

(* The look of a writer that was woken.                                    *)
LEMMA LookAgainKeeps ==
  ASSUME Kept, NEW w \in Writers, LookAgain(w)
  PROVE  Kept'
<1> USE MaxRunsAssumption, NoneAssumption DEF Kept, SleepsOnlyUndecided, Runs, count, bridge
<1>1. CASE connection # None /\ WriteOn(w)
  BY <1>1, WriteOnKeeps
<1>2. CASE connection = None /\ UNCHANGED <<run, reader, adapter, count, bridge, outer>>
  <2>1. writer' \in WriterStates /\ (writer'[w].at = "asleep" => ~latch)
        /\ writer'[w].at \in {"asleep", "idle"} /\ \A v \in Writers : v # w => writer'[v] = writer[v]
    <3>1. writer' = [writer EXCEPT ![w] = Idle] /\ writer \in WriterStates
      BY <1>2 DEF LookAgain, TypeOK, WriterStates
    <3>2. QED
      BY <1>2, <3>1 DEF LookAgain, WriterStates, Idle
  <2>2. TypeOK'
    BY <1>2, <2>1 DEF TypeOK, Owned, WriterStates, Woken, adapter
  <2>3. Latched' /\ SleepersShut'
    BY <1>2, <2>1 DEF TypeOK, Latched, SleepersShut, Woken, Failures, adapter
  <2>4. OnlyOwnReason'
    BY <1>2, <2>1 DEF TypeOK, OnlyOwnReason, Operations, Owned, Holding, Failures, adapter
  <2>5. Operations'
    BY <1>2, <2>1 DEF TypeOK, Operations, Owned
  <2>6. Owned'
    BY <1>2, <2>1 DEF TypeOK, Operations, Owned, Holding, Woken, adapter
  <2>7. CountedByReader'
    BY <1>2, <2>1 DEF TypeOK, CountedByReader, Holding, Owned
  <2>8. QED
    BY <2>2, <2>3, <2>4, <2>5, <2>6, <2>7 DEF SleepsOnlyUndecided, Latched, SleepersShut, Kept
<1>3. QED
  BY <1>1, <1>2 DEF LookAgain

(* ws.write returns, or finds a dead Bridge.                               *)
LEMMA WriteEndsKeeps ==
  ASSUME Kept, NEW w \in Writers, WriteEnds(w)
  PROVE  Kept'
<1> USE MaxRunsAssumption, NoneAssumption DEF Kept, SleepsOnlyUndecided, Runs, count, bridge
<1> DEFINE new == [writer EXCEPT ![w] = Idle]
<1>1. writer[w].on \in Runs
  BY DEF WriteEnds, Owned
<1>2. new \in WriterStates /\ new[w].at = "idle" /\ \A v \in Writers : v # w => new[v] = writer[v]
  BY DEF WriterStates, TypeOK, Idle
<1>3. CASE writer' = new /\ UNCHANGED adapter
  <2> HIDE DEF new
  <2>1. TypeOK'
    BY <1>2, <1>3 DEF WriteEnds, TypeOK, Owned, WriterStates, Woken, adapter
  <2>2. Latched' /\ SleepersShut'
    BY <1>2, <1>3 DEF WriteEnds, TypeOK, Latched, SleepersShut, Woken, Failures, adapter
  <2>3. OnlyOwnReason'
    BY <1>2, <1>3 DEF WriteEnds, TypeOK, OnlyOwnReason, Operations, Owned, Holding, Failures, adapter
  <2>4. Operations'
    BY <1>2, <1>3 DEF WriteEnds, TypeOK, Operations, Owned
  <2>5. Owned'
    BY <1>2, <1>3 DEF WriteEnds, TypeOK, Operations, Owned, Holding, Woken, adapter
  <2>6. CountedByReader'
    BY <1>2, <1>3 DEF WriteEnds, TypeOK, CountedByReader, Holding, Owned
  <2>7. QED
    BY <2>1, <2>2, <2>3, <2>4, <2>5, <2>6 DEF SleepsOnlyUndecided, Latched, SleepersShut, Kept
<1>4. CASE dead /\ OperationFailed("write", writer[w].on, new)
  <2> HIDE DEF new
  <2>1. \A v \in Writers : new[v].at = "asleep" => writer[v].at = "asleep"
    BY <1>2
  <2>2. /\ connection = writer[w].on =>
             /\ failure' = IF failure = None THEN [why |-> "write", of |-> writer[w].on] ELSE failure
             /\ failure' \in Failures /\ connection' = None /\ latch' = TRUE
        /\ connection # writer[w].on => UNCHANGED adapter
        /\ Woken(new)
    BY <1>1, <1>2, <1>4, <2>1, FailureOfRun
  <2>3. TypeOK'
    BY <1>1, <1>2, <1>4, <2>2 DEF WriteEnds, TypeOK, Owned, WriterStates, Woken, adapter
  <2>4. Latched' /\ SleepersShut'
    BY <1>1, <1>2, <1>4, <2>2 DEF WriteEnds, TypeOK, Latched, SleepersShut, Woken, Failures, adapter
  <2>5. OnlyOwnReason'
    BY <1>1, <1>2, <1>4, <2>2 DEF WriteEnds, TypeOK, OnlyOwnReason, Operations, Owned, Holding, Failures, adapter
  <2>6. Operations'
    BY <1>1, <1>2, <1>4, <2>2 DEF WriteEnds, TypeOK, Operations, Owned
  <2>7. Owned'
    BY <1>1, <1>2, <1>4, <2>2 DEF WriteEnds, TypeOK, Operations, Owned, Holding, Woken, adapter
  <2>8. CountedByReader'
    BY <1>1, <1>2, <1>4, <2>2 DEF WriteEnds, TypeOK, CountedByReader, Holding, Owned
  <2>9. QED
    BY <2>3, <2>4, <2>5, <2>6, <2>7, <2>8 DEF SleepsOnlyUndecided, Latched, SleepersShut, Kept
<1>5. QED
  BY <1>3, <1>4 DEF WriteEnds

(* Every other step.                                                       *)
LEMMA OtherStepsKeep ==
  ASSUME Kept,
         \/ OpenReader \/ Opened \/ OpenFails \/ InterruptOpen \/ CancelDone \/ Pull \/ TakeFrame
         \/ ReaderClosed \/ OuterClosed \/ Die
         \/ \E w \in Writers : WriterClosed(w)
         \/ \E r \in Runs : Accept(r) \/ EndOperation(r)
  PROVE  Kept'
<1> USE MaxRunsAssumption, NoneAssumption DEF Kept, SleepsOnlyUndecided, Runs, count, bridge
<1>1. CASE OpenReader
  <2> USE <1>1 DEF OpenReader
  <2>1. TypeOK'
    <3>1. run + 1 \in Runs /\ run' \in 0 .. MaxRuns
      BY DEF TypeOK
    <3>2. op' \in [Runs -> {"none", "asked", "open", "over"}]
          /\ error' \in [Runs -> Ends \cup {BridgeExited, None}]
      BY <3>1 DEF TypeOK
    <3>3. failure' = None /\ connection' = None /\ latch' = FALSE
      OBVIOUS
    <3>4. QED
      BY <3>1, <3>2, <3>3 DEF TypeOK
  <2>2. Latched' /\ SleepersShut'
    BY DEF TypeOK, Latched, SleepersShut, Woken, Failures, adapter
  <2>3. OnlyOwnReason'
    BY DEF TypeOK, OnlyOwnReason, Operations, Owned, Holding, Failures, adapter
  <2>4. Operations'
    BY DEF TypeOK, Operations, Owned
  <2>5. Owned'
    BY DEF TypeOK, Operations, Owned, Holding, Woken, adapter
  <2>6. CountedByReader'
    BY DEF TypeOK, CountedByReader, Holding, Owned
  <2>7. QED
    BY <2>1, <2>2, <2>3, <2>4, <2>5, <2>6 DEF SleepsOnlyUndecided, Latched, SleepersShut, Kept
<1>2. CASE Opened
  <2>1. run \in Runs /\ writer \in WriterStates
    BY <1>2 DEF Opened, TypeOK, WriterStates, Owned
  <2>2. Woken(writer)
    BY <1>2, <2>1, Waking DEF Opened
  <2>3. TypeOK'
    BY <1>2, <2>1, <2>2 DEF Opened, TypeOK, Owned, WriterStates, Woken, adapter
  <2>4. Latched' /\ SleepersShut'
    BY <1>2, <2>1, <2>2 DEF Opened, TypeOK, Latched, SleepersShut, Woken, Failures, adapter
  <2>5. OnlyOwnReason'
    BY <1>2, <2>1, <2>2 DEF Opened, TypeOK, OnlyOwnReason, Operations, Owned, Holding, Failures, adapter
  <2>6. Operations'
    BY <1>2, <2>1, <2>2 DEF Opened, TypeOK, Operations, Owned
  <2>7. Owned'
    BY <1>2, <2>1, <2>2 DEF Opened, TypeOK, Operations, Owned, Holding, Woken, adapter
  <2>8. CountedByReader'
    BY <1>2, <2>1, <2>2 DEF Opened, TypeOK, CountedByReader, Holding, Owned
  <2>9. QED
    BY <2>3, <2>4, <2>5, <2>6, <2>7, <2>8 DEF SleepsOnlyUndecided, Latched, SleepersShut, Kept
<1>3. CASE OpenFails
  <2> USE <1>3 DEF OpenFails
  <2>1. TypeOK'
    BY DEF TypeOK, Operations, Owned, OnlyOwnReason, CountedByReader, adapter
  <2>2. Latched' /\ SleepersShut'
    BY DEF TypeOK, Latched, SleepersShut, Woken, Failures, adapter
  <2>3. OnlyOwnReason'
    BY DEF TypeOK, OnlyOwnReason, Operations, Owned, Holding, Failures, adapter
  <2>4. Operations'
    BY DEF TypeOK, Operations, Owned
  <2>5. Owned'
    BY DEF TypeOK, Operations, Owned, Holding, Woken, adapter
  <2>6. CountedByReader'
    BY DEF TypeOK, CountedByReader, Holding, Owned
  <2>7. QED
    BY <2>1, <2>2, <2>3, <2>4, <2>5, <2>6 DEF SleepsOnlyUndecided, Latched, SleepersShut, Kept
<1>4. CASE InterruptOpen
  <2> USE <1>4 DEF InterruptOpen
  <2>1. TypeOK'
    BY DEF TypeOK, Operations, Owned, OnlyOwnReason, CountedByReader, adapter
  <2>2. Latched' /\ SleepersShut'
    BY DEF TypeOK, Latched, SleepersShut, Woken, Failures, adapter
  <2>3. OnlyOwnReason'
    BY DEF TypeOK, OnlyOwnReason, Operations, Owned, Holding, Failures, adapter
  <2>4. Operations'
    BY DEF TypeOK, Operations, Owned
  <2>5. Owned'
    BY DEF TypeOK, Operations, Owned, Holding, Woken, adapter
  <2>6. CountedByReader'
    BY DEF TypeOK, CountedByReader, Holding, Owned
  <2>7. QED
    BY <2>1, <2>2, <2>3, <2>4, <2>5, <2>6 DEF SleepsOnlyUndecided, Latched, SleepersShut, Kept
<1>5. CASE CancelDone
  <2> USE <1>5 DEF CancelDone
  <2>1. TypeOK'
    BY DEF TypeOK, Operations, Owned, OnlyOwnReason, CountedByReader, adapter
  <2>2. Latched' /\ SleepersShut'
    BY DEF TypeOK, Latched, SleepersShut, Woken, Failures, adapter
  <2>3. OnlyOwnReason'
    BY DEF TypeOK, OnlyOwnReason, Operations, Owned, Holding, Failures, adapter
  <2>4. Operations'
    BY DEF TypeOK, Operations, Owned
  <2>5. Owned'
    BY DEF TypeOK, Operations, Owned, Holding, Woken, adapter
  <2>6. CountedByReader'
    BY DEF TypeOK, CountedByReader, Holding, Owned
  <2>7. QED
    BY <2>1, <2>2, <2>3, <2>4, <2>5, <2>6 DEF SleepsOnlyUndecided, Latched, SleepersShut, Kept
<1>6. CASE Pull
  <2> USE <1>6 DEF Pull
  <2>1. TypeOK'
    BY DEF TypeOK, Operations, Owned, OnlyOwnReason, CountedByReader, adapter
  <2>2. Latched' /\ SleepersShut'
    BY DEF TypeOK, Latched, SleepersShut, Woken, Failures, adapter
  <2>3. OnlyOwnReason'
    BY DEF TypeOK, OnlyOwnReason, Operations, Owned, Holding, Failures, adapter
  <2>4. Operations'
    BY DEF TypeOK, Operations, Owned
  <2>5. Owned'
    BY DEF TypeOK, Operations, Owned, Holding, Woken, adapter
  <2>6. CountedByReader'
    BY DEF TypeOK, CountedByReader, Holding, Owned
  <2>7. QED
    BY <2>1, <2>2, <2>3, <2>4, <2>5, <2>6 DEF SleepsOnlyUndecided, Latched, SleepersShut, Kept
<1>7. CASE TakeFrame
  <2> USE <1>7 DEF TakeFrame
  <2>1. TypeOK'
    BY DEF TypeOK, Operations, Owned, OnlyOwnReason, CountedByReader, adapter
  <2>2. Latched' /\ SleepersShut'
    BY DEF TypeOK, Latched, SleepersShut, Woken, Failures, adapter
  <2>3. OnlyOwnReason'
    BY DEF TypeOK, OnlyOwnReason, Operations, Owned, Holding, Failures, adapter
  <2>4. Operations'
    BY DEF TypeOK, Operations, Owned
  <2>5. Owned'
    BY DEF TypeOK, Operations, Owned, Holding, Woken, adapter
  <2>6. CountedByReader'
    BY DEF TypeOK, CountedByReader, Holding, Owned
  <2>7. QED
    BY <2>1, <2>2, <2>3, <2>4, <2>5, <2>6 DEF SleepsOnlyUndecided, Latched, SleepersShut, Kept
<1>8. CASE ReaderClosed
  <2> USE <1>8 DEF ReaderClosed, Decrement
  <2>1. TypeOK'
    BY DEF TypeOK, Operations, Owned, OnlyOwnReason, CountedByReader, adapter
  <2>2. Latched' /\ SleepersShut'
    BY DEF TypeOK, Latched, SleepersShut, Woken, Failures, adapter
  <2>3. OnlyOwnReason'
    BY DEF TypeOK, OnlyOwnReason, Operations, Owned, Holding, Failures, adapter
  <2>4. Operations'
    BY DEF TypeOK, Operations, Owned
  <2>5. Owned'
    BY DEF TypeOK, Operations, Owned, Holding, Woken, adapter
  <2>6. CountedByReader'
    BY DEF TypeOK, CountedByReader, Holding, Owned
  <2>7. QED
    BY <2>1, <2>2, <2>3, <2>4, <2>5, <2>6 DEF SleepsOnlyUndecided, Latched, SleepersShut, Kept
<1>9. ASSUME NEW w \in Writers, WriterClosed(w) PROVE Kept'
  <2> USE <1>9 DEF WriterClosed, Decrement, Idle
  <2>1. TypeOK'
    <3>1. writer' \in WriterStates
      BY DEF TypeOK, WriterStates
    <3>2. counted' \subseteq Runs
      BY DEF TypeOK
    <3>3. gauge' = gauge \/ gauge' = gauge - 1
      BY DEF TypeOK
    <3>4. gauge' \in Int
      BY <3>3 DEF TypeOK
    <3>5. QED
      BY <3>1, <3>2, <3>4 DEF TypeOK, WriterStates, adapter
  <2>2. Latched' /\ SleepersShut'
    BY DEF TypeOK, Latched, SleepersShut, Woken, Failures, adapter
  <2>3. OnlyOwnReason'
    BY DEF TypeOK, OnlyOwnReason, Operations, Owned, Holding, Failures, adapter
  <2>4. Operations'
    BY DEF TypeOK, Operations, Owned
  <2>5. Owned'
    BY DEF TypeOK, Operations, Owned, Holding, Woken, adapter
  <2>6. CountedByReader'
    BY DEF TypeOK, CountedByReader, Holding, Owned
  <2>7. QED
    BY <2>1, <2>2, <2>3, <2>4, <2>5, <2>6 DEF SleepsOnlyUndecided, Latched, SleepersShut, Kept
<1>10. CASE OuterClosed
  <2> USE <1>10 DEF OuterClosed, Decrement
  <2>1. TypeOK'
    BY DEF TypeOK, Operations, Owned, OnlyOwnReason, CountedByReader, adapter
  <2>2. Latched' /\ SleepersShut'
    BY DEF TypeOK, Latched, SleepersShut, Woken, Failures, adapter
  <2>3. OnlyOwnReason'
    BY DEF TypeOK, OnlyOwnReason, Operations, Owned, Holding, Failures, adapter
  <2>4. Operations'
    BY DEF TypeOK, Operations, Owned
  <2>5. Owned'
    BY DEF TypeOK, Operations, Owned, Holding, Woken, adapter
  <2>6. CountedByReader'
    BY DEF TypeOK, CountedByReader, Holding, Owned
  <2>7. QED
    BY <2>1, <2>2, <2>3, <2>4, <2>5, <2>6 DEF SleepsOnlyUndecided, Latched, SleepersShut, Kept
<1>11. ASSUME NEW r \in Runs, Accept(r) PROVE Kept'
  <2> USE <1>11 DEF Accept
  <2>1. TypeOK'
    BY DEF TypeOK, Operations, Owned, OnlyOwnReason, CountedByReader, adapter
  <2>2. Latched' /\ SleepersShut'
    BY DEF TypeOK, Latched, SleepersShut, Woken, Failures, adapter
  <2>3. OnlyOwnReason'
    BY DEF TypeOK, OnlyOwnReason, Operations, Owned, Holding, Failures, adapter
  <2>4. Operations'
    BY DEF TypeOK, Operations, Owned
  <2>5. Owned'
    BY DEF TypeOK, Operations, Owned, Holding, Woken, adapter
  <2>6. CountedByReader'
    BY DEF TypeOK, CountedByReader, Holding, Owned
  <2>7. QED
    BY <2>1, <2>2, <2>3, <2>4, <2>5, <2>6 DEF SleepsOnlyUndecided, Latched, SleepersShut, Kept
<1>12. ASSUME NEW r \in Runs, EndOperation(r) PROVE Kept'
  <2> USE <1>12 DEF EndOperation
  <2>1. TypeOK'
    <3>1. op' \in [Runs -> {"none", "asked", "open", "over"}]
          /\ error' \in [Runs -> Ends \cup {BridgeExited, None}]
      BY DEF TypeOK
    <3>2. QED
      BY <3>1 DEF TypeOK, adapter
  <2>2. Latched' /\ SleepersShut'
    BY DEF TypeOK, Latched, SleepersShut, Woken, Failures, adapter
  <2>3. OnlyOwnReason'
    BY DEF TypeOK, OnlyOwnReason, Operations, Owned, Holding, Failures, adapter
  <2>4. Operations'
    BY DEF TypeOK, Operations, Owned
  <2>5. Owned'
    BY DEF TypeOK, Operations, Owned, Holding, Woken, adapter
  <2>6. CountedByReader'
    BY DEF TypeOK, CountedByReader, Holding, Owned
  <2>7. QED
    BY <2>1, <2>2, <2>3, <2>4, <2>5, <2>6 DEF SleepsOnlyUndecided, Latched, SleepersShut, Kept
<1>13. CASE Die
  <2> USE <1>13 DEF Die
  <2>1. TypeOK'
    BY DEF TypeOK, Operations, Owned, OnlyOwnReason, CountedByReader, adapter
  <2>2. Latched' /\ SleepersShut'
    BY DEF TypeOK, Latched, SleepersShut, Woken, Failures, adapter
  <2>3. OnlyOwnReason'
    BY DEF TypeOK, OnlyOwnReason, Operations, Owned, Holding, Failures, adapter
  <2>4. Operations'
    BY DEF TypeOK, Operations, Owned
  <2>5. Owned'
    BY DEF TypeOK, Operations, Owned, Holding, Woken, adapter
  <2>6. CountedByReader'
    BY DEF TypeOK, CountedByReader, Holding, Owned
  <2>7. QED
    BY <2>1, <2>2, <2>3, <2>4, <2>5, <2>6 DEF SleepsOnlyUndecided, Latched, SleepersShut, Kept
<1>14. QED
  BY <1>1, <1>2, <1>3, <1>4, <1>5, <1>6, <1>7, <1>8, <1>9, <1>10, <1>11, <1>12, <1>13

(* One close counts a run out, and what it finds counted.                  *)
LEMMA Decrementing ==
  ASSUME IInv, NEW r, Decrement(r)
  PROVE  gauge' = Cardinality(counted')
<1>1. IsFiniteSet(counted)
  <2>1. IsFiniteSet(Runs)
    BY MaxRunsAssumption, FS_Interval DEF Runs
  <2>2. counted \subseteq Runs
    BY DEF IInv, Kept, SleepsOnlyUndecided, TypeOK
  <2>3. QED
    BY <2>1, <2>2, FS_Subset
<1>2. Cardinality(counted \ {r}) =
        IF r \in counted THEN Cardinality(counted) - 1 ELSE Cardinality(counted)
  BY <1>1, FS_RemoveElement
<1>3. gauge' = IF r \in counted THEN gauge - 1 ELSE gauge
  BY DEF Decrement, IInv, Kept, SleepsOnlyUndecided, TypeOK
<1>4. QED
  BY <1>2, <1>3 DEF Decrement, IInv

(* Every step keeps the gauge true.                                        *)
LEMMA GaugeKept ==
  ASSUME IInv, Next
  PROVE  gauge' = Cardinality(counted')
<1>1. CASE Opened
  <2>1. IsFiniteSet(counted) /\ run \notin counted
    BY <1>1, MaxRunsAssumption, FS_Interval, FS_Subset
    DEF Opened, IInv, Kept, SleepsOnlyUndecided, TypeOK, CountedByReader, Holding, Runs
  <2>2. QED
    BY <1>1, <2>1, FS_AddElement DEF Opened, IInv
<1>2. CASE ReaderClosed \/ OuterClosed \/ \E w \in Writers : WriterClosed(w)
  BY <1>2, Decrementing DEF ReaderClosed, OuterClosed, WriterClosed
<1>3. CASE UNCHANGED count
  BY <1>3 DEF count, IInv
<1>4. UNCHANGED count \/ Opened \/ ReaderClosed \/ OuterClosed \/ \E w \in Writers : WriterClosed(w)
  BY DEF Next, ReaderStep, WriterStep, OpenReader, OpenFails, InterruptOpen, CancelDone, Pull,
         TakeFrame, PullFails, CloseReader, Write, LookAgain, WriteOn, WriteEnds, CloseOuter,
         Accept, EndOperation, Die, count
<1>5. QED
  BY <1>1, <1>2, <1>3, <1>4

(* IInv is an invariant.                                                   *)
THEOREM Invariance == Spec => []IInv
<1>1. Init => IInv
  <2> SUFFICES ASSUME Init PROVE IInv
    OBVIOUS
  <2>1. TypeOK
    <3>1. /\ op \in [Runs -> {"none", "asked", "open", "over"}]
          /\ error \in [Runs -> Ends \cup {BridgeExited, None}]
          /\ writer \in WriterStates
          /\ outer \in [at : {"open", "closing", "closed"}, on : Runs \cup {None}]
      BY DEF Init, Idle, WriterStates
    <3>2. run \in 0 .. MaxRuns /\ gauge \in Int
      BY MaxRunsAssumption DEF Init
    <3>3. counted = {} /\ opened = {} /\ closeSent = {} /\ cancelled = {}
          /\ latch = FALSE /\ dead = FALSE
      BY DEF Init
    <3>4. reader = "idle" /\ connection = None /\ failure = None
      BY DEF Init
    <3>5. QED
      BY <3>1, <3>2, <3>3, <3>4 DEF TypeOK, WriterStates
  <2>2. \A w \in Writers : writer[w].at = "idle"
    BY DEF Init, Idle
  <2>3. SleepsOnlyUndecided /\ Owned
    BY <2>1, <2>2 DEF Init, SleepsOnlyUndecided, Owned, Holding
  <2>4. OnlyOwnReason /\ Operations /\ CountedByReader
    BY <2>1 DEF Init, OnlyOwnReason, Operations, CountedByReader, Runs
  <2>5. gauge = Cardinality(counted)
    BY FS_EmptySet DEF Init
  <2>6. QED
    BY <2>3, <2>4, <2>5 DEF IInv, Kept
<1>2. ASSUME IInv, [Next]_vars PROVE IInv'
  <2>1. CASE Next
    <3>1. Kept'
      BY <1>2, <2>1, PullFailsKeeps, CloseReaderKeeps, CloseOuterKeeps, WriteKeeps, LookAgainKeeps,
         WriteEndsKeeps, OtherStepsKeep DEF IInv, Next, ReaderStep, WriterStep
    <3>2. QED
      BY <1>2, <2>1, <3>1, GaugeKept DEF IInv
  <2>2. CASE UNCHANGED vars
    BY <1>2, <2>2
    DEF IInv, Kept, SleepsOnlyUndecided, TypeOK, OnlyOwnReason, Operations, Owned, CountedByReader,
        Holding, vars, adapter, count, bridge
  <2>3. QED
    BY <1>2, <2>1, <2>2
<1>3. QED
  BY <1>1, <1>2, PTL DEF Spec

(* A writer sleeps only while its socket has neither a connection nor a     *)
(* reason to fail with.  An open that fails gives it neither.               *)
THEOREM NobodySleepsOn == Spec => []SleepsOnlyUndecided
<1>1. IInv => SleepsOnlyUndecided
  BY DEF IInv, Kept
<1>2. QED
  BY <1>1, Invariance, PTL

(* What an earlier run left behind does not touch the run that is open.    *)
THEOREM ReasonsAreOwn == Spec => []OnlyOwnReason
<1>1. IInv => OnlyOwnReason
  BY DEF IInv, Kept
<1>2. QED
  BY <1>1, Invariance, PTL

(* The gauge of open connections is exact.                                 *)
THEOREM GaugeIsTrue == Spec => []GaugeTrue
<1>1. IInv => GaugeTrue
  BY DEF IInv, Kept, GaugeTrue, CountedByReader, Holding
<1>2. QED
  BY <1>1, Invariance, PTL
=============================================================================
