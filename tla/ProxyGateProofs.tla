--------------------------- MODULE ProxyGateProofs ---------------------------
(***************************************************************************)
(* Theorems about ProxyGate, for any finite sets of operations and any     *)
(* clients.  The counts of the gate are related to the threads by what     *)
(* each action adds to, or takes from, the sets sharing, waiting and alone.*)
(***************************************************************************)
EXTENDS ProxyGate, FiniteSetTheorems, TLAPS

(* Whoever has the session alone is one, and nobody shares it.             *)
Exclusive ==
  /\ alone # {} => sharing = {}
  /\ \A t, u \in alone : t = u

IInv == TypeOK /\ CountsTrue /\ NoSleepThrough /\ OneRequestPerClient /\ Exclusive

USE ThreadsAssumption, ClientsAssumption
USE DEF Sharers, Threads

(* The counted sets are finite.                                            *)
LEMMA Finite == IsFiniteSet(sharing) /\ IsFiniteSet(waiting)
<1>1. IsFiniteSet(Sharers)
  BY FS_Union
<1>2. sharing \subseteq Sharers /\ waiting \subseteq Writers
  BY DEF sharing, waiting
<1>3. QED
  BY <1>1, <1>2, FS_Subset

(* How a count follows its set.                                            *)
LEMMA Counting ==
  ASSUME NEW S, IsFiniteSet(S), NEW t
  PROVE  /\ Cardinality(S) \in Nat
         /\ Cardinality(S) = 0 <=> S = {}
         /\ t \notin S => Cardinality(S \cup {t}) = Cardinality(S) + 1
         /\ t \in S => Cardinality(S \ {t}) = Cardinality(S) - 1
BY FS_CardinalityType, FS_EmptySet, FS_AddElement, FS_RemoveElement

(* The counts are natural numbers and are zero when nobody is counted.     *)
LEMMA CountFacts ==
  ASSUME CountsTrue
  PROVE  /\ readers \in Nat /\ waitingWriters \in Nat
         /\ readers = 0 <=> sharing = {}
         /\ waitingWriters = 0 <=> waiting = {}
BY Finite, Counting DEF CountsTrue

(* The initial state satisfies the inductive invariant.                    *)
LEMMA InitEstablishes == Init => IInv
<1> SUFFICES ASSUME Init PROVE IInv
  OBVIOUS
<1>1. sharing = {} /\ waiting = {} /\ alone = {}
  BY DEF Init, sharing, waiting, alone
<1>2. CountsTrue /\ Exclusive
  BY <1>1, FS_EmptySet DEF Init, CountsTrue, Exclusive
<1>3. TypeOK /\ NoSleepThrough /\ OneRequestPerClient
  BY DEF Init, TypeOK, NoSleepThrough, OneRequestPerClient
<1>4. QED
  BY <1>2, <1>3 DEF IInv

(* How each step moves its thread between the sets.                        *)
LEMMA Moves ==
  ASSUME TypeOK
  PROVE  /\ \A t \in Sharers :
              /\ AcquireRead(t) =>
                   /\ t \notin sharing /\ UNCHANGED <<waiting, alone>>
                   /\ sharing' = IF writer = "free" /\ waitingWriters = 0
                                   THEN sharing \cup {t} ELSE sharing
              /\ GiveUpRead(t) => UNCHANGED <<sharing, waiting, alone>>
              /\ ReleaseRead(t) =>
                   /\ t \in sharing /\ sharing' = sharing \ {t}
                   /\ UNCHANGED <<waiting, alone>>
         /\ \A t \in Requests : Request(t) => UNCHANGED <<sharing, waiting, alone>>
         /\ \A t \in Writers :
              /\ AcquireWrite(t) =>
                   /\ UNCHANGED sharing
                   /\ pc[t] # "out" <=> t \in waiting
                   /\ IF writer = "free" /\ readers = 0
                        THEN alone' = alone \cup {t} /\ waiting' = waiting \ {t}
                        ELSE alone' = alone /\ waiting' = waiting \cup {t}
              /\ GiveUpWrite(t) =>
                   /\ t \in waiting /\ waiting' = waiting \ {t}
                   /\ UNCHANGED <<sharing, alone>>
              /\ ReleaseWrite(t) =>
                   /\ t \in alone /\ alone' = alone \ {t}
                   /\ UNCHANGED <<sharing, waiting>>
         /\ \A t \in Threads : Cancel(t) => UNCHANGED <<sharing, waiting, alone>>
<1> USE DEF TypeOK, sharing, waiting, alone, Goto, Sleep, Woken, Signal
<1>1. ASSUME NEW t \in Sharers
      PROVE  AcquireRead(t) =>
               /\ t \notin sharing /\ UNCHANGED <<waiting, alone>>
               /\ sharing' = IF writer = "free" /\ waitingWriters = 0
                               THEN sharing \cup {t} ELSE sharing
  BY DEF AcquireRead
<1>2. ASSUME NEW t \in Sharers
      PROVE  /\ GiveUpRead(t) => UNCHANGED <<sharing, waiting, alone>>
             /\ ReleaseRead(t) =>
                  /\ t \in sharing /\ sharing' = sharing \ {t}
                  /\ UNCHANGED <<waiting, alone>>
  BY DEF GiveUpRead, ReleaseRead
<1>3. ASSUME NEW t \in Requests
      PROVE  Request(t) => UNCHANGED <<sharing, waiting, alone>>
  BY DEF Request, TakePlace, GiveUpPlace, LeavePlace
<1>4. ASSUME NEW t \in Writers
      PROVE  AcquireWrite(t) =>
               /\ UNCHANGED sharing
               /\ pc[t] # "out" <=> t \in waiting
               /\ IF writer = "free" /\ readers = 0
                    THEN alone' = alone \cup {t} /\ waiting' = waiting \ {t}
                    ELSE alone' = alone /\ waiting' = waiting \cup {t}
  BY DEF AcquireWrite
<1>5. ASSUME NEW t \in Writers
      PROVE  /\ GiveUpWrite(t) =>
                  /\ t \in waiting /\ waiting' = waiting \ {t}
                  /\ UNCHANGED <<sharing, alone>>
             /\ ReleaseWrite(t) =>
                  /\ t \in alone /\ alone' = alone \ {t}
                  /\ UNCHANGED <<sharing, waiting>>
  BY DEF GiveUpWrite, ReleaseWrite
<1>6. ASSUME NEW t \in Threads
      PROVE  Cancel(t) => UNCHANGED <<sharing, waiting, alone>>
  BY DEF Cancel
<1>7. QED
  BY <1>1, <1>2, <1>3, <1>4, <1>5, <1>6

(* The counts stay true, and whoever is alone stays alone.                 *)
LEMMA CountsPreserved == IInv /\ [Next]_vars => CountsTrue' /\ Exclusive'
<1> SUFFICES ASSUME IInv, [Next]_vars PROVE CountsTrue' /\ Exclusive'
  OBVIOUS
<1> USE Moves, CountFacts, Finite, Counting DEF CountsTrue, Exclusive
<1>a. TypeOK /\ CountsTrue /\ Exclusive
  BY DEF IInv
<1>1. ASSUME NEW t \in Sharers, AcquireRead(t) PROVE CountsTrue' /\ Exclusive'
  <2>1. CASE writer = "free" /\ waitingWriters = 0
    <3>1. /\ sharing' = sharing \cup {t} /\ t \notin sharing
          /\ readers' = readers + 1 /\ UNCHANGED <<waiting, alone, writer, waitingWriters>>
      BY <1>a, <1>1, <2>1 DEF AcquireRead
    <3>2. Cardinality(sharing \cup {t}) = readers + 1
      BY <1>a, <3>1
    <3>3. CountsTrue'
      BY <1>a, <3>1, <3>2
    <3>4. alone = {}
      BY <1>a, <2>1
    <3>5. QED
      BY <3>1, <3>3, <3>4
  <2>2. CASE ~(writer = "free" /\ waitingWriters = 0)
    BY <1>a, <1>1, <2>2 DEF AcquireRead
  <2>3. QED
    BY <2>1, <2>2
<1>2. ASSUME NEW t \in Sharers, GiveUpRead(t) PROVE CountsTrue' /\ Exclusive'
  BY <1>a, <1>2 DEF GiveUpRead
<1>3. ASSUME NEW t \in Sharers, ReleaseRead(t) PROVE CountsTrue' /\ Exclusive'
  <2>1. /\ t \in sharing /\ sharing' = sharing \ {t} /\ readers' = readers - 1
        /\ UNCHANGED <<waiting, alone, writer, waitingWriters>>
    BY <1>a, <1>3 DEF ReleaseRead
  <2>2. Cardinality(sharing \ {t}) = readers - 1
    BY <1>a, <2>1
  <2>3. QED
    BY <1>a, <2>1, <2>2
<1>4. ASSUME NEW t \in Requests, Request(t) PROVE CountsTrue' /\ Exclusive'
  <2>1. UNCHANGED <<sharing, waiting, alone>>
    BY <1>a, <1>4
  <2>2. UNCHANGED <<readers, writer, waitingWriters>>
    BY <1>4 DEF Request, TakePlace, GiveUpPlace, LeavePlace
  <2>3. QED
    BY <1>a, <2>1, <2>2
<1>5. ASSUME NEW t \in Writers, AcquireWrite(t) PROVE CountsTrue' /\ Exclusive'
  <2>1. CASE writer = "free" /\ readers = 0
    <3>1. /\ alone' = alone \cup {t} /\ waiting' = waiting \ {t}
          /\ writer' = "held" /\ waitingWriters' = counted(t) - 1
          /\ UNCHANGED <<sharing, readers>>
      BY <1>a, <1>5, <2>1 DEF AcquireWrite
    <3>2. Cardinality(waiting') = counted(t) - 1
      <4>1. CASE t \in waiting
        BY <1>a, <1>5, <3>1, <4>1 DEF counted
      <4>2. CASE t \notin waiting
        <5>1. waiting' = waiting
          BY <3>1, <4>2
        <5>2. counted(t) = waitingWriters + 1
          BY <1>a, <1>5, <4>2 DEF counted
        <5>3. QED
          BY <1>a, <5>1, <5>2
      <4>3. QED
        BY <4>1, <4>2
    <3>3. alone = {} /\ sharing = {}
      BY <1>a, <2>1
    <3>4. QED
      BY <1>a, <3>1, <3>2, <3>3
  <2>2. CASE ~(writer = "free" /\ readers = 0)
    <3>1. /\ alone' = alone /\ waiting' = waiting \cup {t}
          /\ waitingWriters' = counted(t)
          /\ UNCHANGED <<sharing, readers, writer>>
      BY <1>a, <1>5, <2>2 DEF AcquireWrite
    <3>2. Cardinality(waiting') = counted(t)
      <4>1. CASE t \in waiting
        <5>1. waiting' = waiting
          BY <3>1, <4>1
        <5>2. counted(t) = waitingWriters
          BY <1>a, <1>5, <4>1 DEF counted
        <5>3. QED
          BY <1>a, <5>1, <5>2
      <4>2. CASE t \notin waiting
        BY <1>a, <1>5, <3>1, <4>2 DEF counted
      <4>3. QED
        BY <4>1, <4>2
    <3>3. QED
      BY <1>a, <3>1, <3>2
  <2>3. QED
    BY <2>1, <2>2
<1>6. ASSUME NEW t \in Writers, GiveUpWrite(t) PROVE CountsTrue' /\ Exclusive'
  BY <1>a, <1>6 DEF GiveUpWrite
<1>7. ASSUME NEW t \in Writers, ReleaseWrite(t) PROVE CountsTrue' /\ Exclusive'
  BY <1>a, <1>7 DEF ReleaseWrite
<1>8. ASSUME NEW t \in Threads, Cancel(t) PROVE CountsTrue' /\ Exclusive'
  BY <1>a, <1>8 DEF Cancel
<1>9. CASE UNCHANGED vars
  BY <1>a, <1>9 DEF vars, sharing, waiting, alone
<1>10. QED
  BY <1>1, <1>2, <1>3, <1>4, <1>5, <1>6, <1>7, <1>8, <1>9
  DEF Next, Read, Write

(* The places hold the requests that have taken them.                      *)
LEMMA PlacesPreserved == IInv /\ [Next]_vars => OneRequestPerClient'
<1> SUFFICES ASSUME IInv, [Next]_vars PROVE OneRequestPerClient'
  OBVIOUS
<1> USE DEF OneRequestPerClient
<1>a. TypeOK /\ OneRequestPerClient
  BY DEF IInv
<1> USE DEF TypeOK
<1>1. ASSUME NEW t \in Sharers, AcquireRead(t) PROVE OneRequestPerClient'
  BY <1>a, <1>1 DEF AcquireRead, Goto, Sleep, Woken
<1>2. ASSUME NEW t \in Sharers, GiveUpRead(t) PROVE OneRequestPerClient'
  BY <1>a, <1>2 DEF GiveUpRead, Goto
<1>3. ASSUME NEW t \in Sharers, ReleaseRead(t) PROVE OneRequestPerClient'
  BY <1>a, <1>3 DEF ReleaseRead, Goto, Signal
<1>4. ASSUME NEW t \in Requests, Request(t) PROVE OneRequestPerClient'
  BY <1>a, <1>4 DEF Request, TakePlace, GiveUpPlace, LeavePlace, Goto
<1>5. ASSUME NEW t \in Writers, AcquireWrite(t) PROVE OneRequestPerClient'
  BY <1>a, <1>5 DEF AcquireWrite, Goto, Sleep, Woken
<1>6. ASSUME NEW t \in Writers, GiveUpWrite(t) PROVE OneRequestPerClient'
  BY <1>a, <1>6 DEF GiveUpWrite, Goto, Signal
<1>7. ASSUME NEW t \in Writers, ReleaseWrite(t) PROVE OneRequestPerClient'
  BY <1>a, <1>7 DEF ReleaseWrite, Goto, Signal
<1>8. ASSUME NEW t \in Threads, Cancel(t) PROVE OneRequestPerClient'
  BY <1>a, <1>8 DEF Cancel
<1>9. CASE UNCHANGED vars
  BY <1>a, <1>9 DEF vars
<1>10. QED
  BY <1>1, <1>2, <1>3, <1>4, <1>5, <1>6, <1>7, <1>8, <1>9
  DEF Next, Read, Write

(* Whoever sleeps on an open channel still has something to wait for.      *)
LEMMA SleepPreserved == IInv /\ [Next]_vars => NoSleepThrough'
<1> SUFFICES ASSUME IInv, [Next]_vars PROVE NoSleepThrough'
  OBVIOUS
<1> USE DEF NoSleepThrough
<1>a. TypeOK /\ NoSleepThrough /\ readers \in Nat /\ waitingWriters \in Nat
  BY DEF IInv, TypeOK
<1> USE DEF TypeOK
<1>1. ASSUME NEW t \in Sharers, AcquireRead(t) PROVE NoSleepThrough'
  BY <1>a, <1>1 DEF AcquireRead, Goto, Sleep, Woken
<1>2. ASSUME NEW t \in Sharers, GiveUpRead(t) PROVE NoSleepThrough'
  BY <1>a, <1>2 DEF GiveUpRead, Goto
<1>3. ASSUME NEW t \in Sharers, ReleaseRead(t) PROVE NoSleepThrough'
  BY <1>a, <1>3 DEF ReleaseRead, Goto, Signal
<1>4. ASSUME NEW t \in Requests, Request(t) PROVE NoSleepThrough'
  BY <1>a, <1>4 DEF Request, TakePlace, GiveUpPlace, LeavePlace, Goto
<1>5. ASSUME NEW t \in Writers, AcquireWrite(t) PROVE NoSleepThrough'
  <2>1. CASE writer = "free" /\ readers = 0
    <3>1. writer' = "held"
      BY <1>5, <2>1 DEF AcquireWrite
    <3>2. QED
      BY <3>1
  <2>2. CASE writer # "free" \/ readers # 0
    <3>1. UNCHANGED <<readers, writer>> /\ Sleep(t) /\ waitingWriters' = counted(t)
      BY <1>5, <2>2 DEF AcquireWrite
    <3>2. waitingWriters > 0 => waitingWriters' > 0
      BY <1>a, <3>1 DEF counted
    <3>3. writer' = "held" \/ readers' > 0
      BY <1>a, <2>2, <3>1
    <3>4. QED
      BY <1>a, <3>1, <3>2, <3>3 DEF Sleep, Goto
  <2>3. QED
    BY <2>1, <2>2
<1>6. ASSUME NEW t \in Writers, GiveUpWrite(t) PROVE NoSleepThrough'
  BY <1>a, <1>6 DEF GiveUpWrite, Goto, Signal
<1>7. ASSUME NEW t \in Writers, ReleaseWrite(t) PROVE NoSleepThrough'
  BY <1>a, <1>7 DEF ReleaseWrite, Goto, Signal
<1>8. ASSUME NEW t \in Threads, Cancel(t) PROVE NoSleepThrough'
  BY <1>a, <1>8 DEF Cancel
<1>9. CASE UNCHANGED vars
  BY <1>a, <1>9 DEF vars
<1>10. QED
  BY <1>1, <1>2, <1>3, <1>4, <1>5, <1>6, <1>7, <1>8, <1>9
  DEF Next, Read, Write

(* Type correctness is preserved: the counts stay natural numbers.         *)
LEMMA TypePreserved == IInv /\ [Next]_vars => TypeOK'
<1> SUFFICES ASSUME IInv, [Next]_vars PROVE TypeOK'
  OBVIOUS
<1>a. TypeOK
  BY DEF IInv
<1>b. readers' \in Nat /\ waitingWriters' \in Nat
  <2>1. CountsTrue'
    BY CountsPreserved
  <2>2. IsFiniteSet(sharing') /\ IsFiniteSet(waiting')
    <3>1. IsFiniteSet(Sharers) /\ IsFiniteSet(Writers)
      BY FS_Union
    <3>2. sharing' \subseteq Sharers /\ waiting' \subseteq Writers
      BY DEF sharing, waiting
    <3>3. QED
      BY <3>1, <3>2, FS_Subset
  <2>3. QED
    BY <2>1, <2>2, FS_CardinalityType DEF CountsTrue
<1> USE DEF TypeOK
<1>1. ASSUME NEW t \in Sharers, AcquireRead(t) PROVE TypeOK'
  BY <1>a, <1>b, <1>1 DEF AcquireRead, Goto, Sleep, Woken
<1>2. ASSUME NEW t \in Sharers, GiveUpRead(t) PROVE TypeOK'
  BY <1>a, <1>b, <1>2 DEF GiveUpRead, Goto
<1>3. ASSUME NEW t \in Sharers, ReleaseRead(t) PROVE TypeOK'
  BY <1>a, <1>b, <1>3 DEF ReleaseRead, Goto, Signal
<1>4. ASSUME NEW t \in Requests, Request(t) PROVE TypeOK'
  BY <1>a, <1>b, <1>4 DEF Request, TakePlace, GiveUpPlace, LeavePlace, Goto
<1>5. ASSUME NEW t \in Writers, AcquireWrite(t) PROVE TypeOK'
  BY <1>a, <1>b, <1>5 DEF AcquireWrite, Goto, Sleep, Woken
<1>6. ASSUME NEW t \in Writers, GiveUpWrite(t) PROVE TypeOK'
  BY <1>a, <1>b, <1>6 DEF GiveUpWrite, Goto, Signal
<1>7. ASSUME NEW t \in Writers, ReleaseWrite(t) PROVE TypeOK'
  BY <1>a, <1>b, <1>7 DEF ReleaseWrite, Goto, Signal
<1>8. ASSUME NEW t \in Threads, Cancel(t) PROVE TypeOK'
  BY <1>a, <1>b, <1>8 DEF Cancel
<1>9. CASE UNCHANGED vars
  BY <1>a, <1>9 DEF vars
<1>10. QED
  BY <1>1, <1>2, <1>3, <1>4, <1>5, <1>6, <1>7, <1>8, <1>9
  DEF Next, Read, Write

(* The inductive invariant holds in every reachable state.                 *)
THEOREM Invariance == Spec => []IInv
<1>1. IInv /\ [Next]_vars => IInv'
  BY TypePreserved, CountsPreserved, SleepPreserved, PlacesPreserved DEF IInv
<1>2. QED
  BY <1>1, InitEstablishes, PTL DEF Spec

(* The fields of the gate count the threads they stand for.                *)
THEOREM CountsAreTrue == Spec => []CountsTrue
<1>1. IInv => CountsTrue
  BY DEF IInv
<1>2. QED
  BY <1>1, Invariance, PTL

(* No thread sleeps through the release or the cancellation that lets it in.*)
THEOREM NobodySleepsThrough == Spec => []NoSleepThrough
<1>1. IInv => NoSleepThrough
  BY DEF IInv
<1>2. QED
  BY <1>1, Invariance, PTL

(* A client's byte counters belong to one request at a time.               *)
THEOREM OneInPlace == Spec => []OneRequestPerClient
<1>1. IInv => OneRequestPerClient
  BY DEF IInv
<1>2. QED
  BY <1>1, Invariance, PTL

(* The counts, the places and the threads agree (proxyGate,                 *)
(* beginTrackedRequest).                                                   *)
THEOREM GateIsTrue == Spec => []GateTrue
<1>1. IInv => GateTrue
  BY DEF IInv, GateTrue
<1>2. QED
  BY <1>1, Invariance, PTL

(* The first state of the gate is the first state of the lock.             *)
LEMMA InitMaps == Init => Lock!Init
BY DEF Init, Lock!Init, sharing, alone

held == <<sharing, alone>>

(* Every step takes the lock, gives it back or leaves it alone.            *)
LEMMA StepMaps == IInv /\ [Next]_vars => [Lock!Next]_held
<1> SUFFICES ASSUME IInv, [Next]_vars PROVE [Lock!Next]_held
  OBVIOUS
<1>a. TypeOK /\ CountsTrue /\ Exclusive
  BY DEF IInv
<1> USE Moves, CountFacts DEF CountsTrue, Exclusive
<1>1. ASSUME NEW t \in Sharers, AcquireRead(t) PROVE Lock!Share(t) \/ held' = held
  <2>1. CASE writer = "free" /\ waitingWriters = 0
    <3>1. alone = {} /\ sharing' = sharing \cup {t} /\ alone' = alone
      BY <1>a, <1>1, <2>1
    <3>2. QED
      BY <3>1 DEF Lock!Share
  <2>2. CASE ~(writer = "free" /\ waitingWriters = 0)
    BY <1>a, <1>1, <2>2 DEF held
  <2>3. QED
    BY <2>1, <2>2
<1>2. ASSUME NEW t \in Sharers, GiveUpRead(t) PROVE held' = held
  BY <1>a, <1>2 DEF held
<1>3. ASSUME NEW t \in Sharers, ReleaseRead(t) PROVE Lock!Unshare(t)
  BY <1>a, <1>3 DEF Lock!Unshare
<1>4. ASSUME NEW t \in Requests, Request(t) PROVE held' = held
  BY <1>a, <1>4 DEF held
<1>5. ASSUME NEW t \in Writers, AcquireWrite(t) PROVE Lock!Take(t) \/ held' = held
  <2>1. CASE writer = "free" /\ readers = 0
    <3>1. sharing = {} /\ alone = {} /\ sharing' = sharing /\ alone' = alone \cup {t}
      BY <1>a, <1>5, <2>1
    <3>2. QED
      BY <3>1 DEF Lock!Take
  <2>2. CASE ~(writer = "free" /\ readers = 0)
    BY <1>a, <1>5, <2>2 DEF held
  <2>3. QED
    BY <2>1, <2>2
<1>6. ASSUME NEW t \in Writers, GiveUpWrite(t) PROVE held' = held
  BY <1>a, <1>6 DEF held
<1>7. ASSUME NEW t \in Writers, ReleaseWrite(t) PROVE Lock!Drop(t)
  <2>1. t \in alone /\ alone' = alone \ {t} /\ sharing' = sharing
    BY <1>a, <1>7
  <2>2. alone = {t}
    BY <1>a, <2>1
  <2>3. QED
    BY <2>1, <2>2 DEF Lock!Drop
<1>8. ASSUME NEW t \in Threads, Cancel(t) PROVE held' = held
  BY <1>a, <1>8 DEF held
<1>9. CASE UNCHANGED vars
  BY <1>9 DEF vars, held, sharing, alone
<1>10. Lock!Next \/ held' = held
  BY <1>1, <1>2, <1>3, <1>4, <1>5, <1>6, <1>7, <1>8, <1>9
  DEF Next, Read, Write, Lock!Next
<1>11. QED
  BY <1>10

(* The gate implements the shared lock: whoever is alone really is.        *)
THEOREM Refinement == Spec => ImplementsLock
<1>1. Init /\ [][Next]_vars /\ []IInv => Lock!Spec
  BY InitMaps, StepMaps, PTL DEF Lock!Spec, held
<1>2. QED
  BY <1>1, Invariance, PTL DEF Spec, ImplementsLock
=============================================================================
