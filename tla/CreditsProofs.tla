---------------------------- MODULE CreditsProofs ----------------------------
(***************************************************************************)
(* Theorems about Credits, for every window, chunk size, body and mix of   *)
(* producers.  IInv strengthens the three invariants of the model run with *)
(* what the producer knows about its own request between its steps.        *)
(***************************************************************************)
EXTENDS Credits, TLAPS

(* What is asked for and granted never exceeds what the source holds, so   *)
(* writing it cannot drive `left` below zero.                              *)
GrantFitsSource ==
  /\ pc \in {"reserve", "parked", "granted"} /\ kind # "request" => need <= left
  /\ pc \in {"next", "reserve", "parked"} => grant = 0
  /\ pc = "granted" => grant <= need
  /\ pc = "write" => grant <= left

IInv ==
  /\ TypeOK
  /\ Conservation
  /\ NoLostWakeup
  /\ GrantFitsSource
  /\ WindowRespected

USE WindowAssumption, ChunkSizeAssumption, BodyAssumption, KindsAssumption
USE DEF Outstanding, Room, Least

(* The initial state satisfies the inductive invariant.                    *)
LEMMA InitEstablishes == Init => IInv
<1> SUFFICES ASSUME Init PROVE IInv
  OBVIOUS
<1>1. TypeOK
  BY DEF Init, TypeOK
<1>2. Conservation /\ WindowRespected
  BY DEF Init, Conservation, WindowRespected
<1>3. NoLostWakeup /\ GrantFitsSource
  BY DEF Init, NoLostWakeup, GrantFitsSource
<1>4. QED
  BY <1>1, <1>2, <1>3 DEF IInv

(* Every step of the goroutine, the client or the dispatcher preserves the *)
(* inductive invariant.                                                    *)
LEMMA StepPreserves == IInv /\ [Next]_vars => IInv'
<1> SUFFICES ASSUME IInv, [Next]_vars PROVE IInv'
  OBVIOUS
<1> USE DEF IInv, TypeOK, Conservation, NoLostWakeup, GrantFitsSource,
            WindowRespected, goVars, jsVars
<1>1. CASE NextChunk
  BY <1>1 DEF NextChunk
<1>2. CASE reserve
  <2>1. CASE Outstanding < Window
    <3>1. /\ grant' = Least(need, Room) /\ sent' = sent + grant'
          /\ pc' = "granted" /\ kind # "ws"
          /\ UNCHANGED <<kind, left, need, acked, wake, ctx, wire, queue, acks>>
      BY <1>2, <2>1 DEF reserve
    <3>2. grant' \in Nat /\ grant' <= need /\ grant' <= Room
      BY <2>1, <3>1
    <3>3. grant = 0
      BY <1>2 DEF reserve
    <3>4. sent' \in Nat /\ Outstanding' = Outstanding + grant'
      BY <3>1, <3>2
    <3>5. TypeOK'
      BY <3>1, <3>2, <3>4
    <3>6. Conservation' /\ WindowRespected'
      BY <3>1, <3>2, <3>3, <3>4
    <3>7. NoLostWakeup' /\ GrantFitsSource'
      BY <3>1, <3>2, <1>2 DEF reserve
    <3>8. QED
      BY <3>5, <3>6, <3>7
  <2>2. CASE ~(Outstanding < Window)
    BY <1>2, <2>2 DEF reserve
  <2>3. QED
    BY <2>1, <2>2
<1>3. CASE reserveWhole
  <2>1. CASE Outstanding <= Window /\ need <= Room
    BY <1>3, <2>1 DEF reserveWhole
  <2>2. CASE ~(Outstanding <= Window /\ need <= Room)
    BY <1>3, <2>2 DEF reserveWhole
  <2>3. QED
    BY <2>1, <2>2
<1>4. CASE Wake
  BY <1>4 DEF Wake
<1>5. CASE ParkedCancel
  BY <1>5 DEF ParkedCancel
<1>6. CASE Finish
  BY <1>6 DEF Finish
<1>7. CASE UseGrant
  BY <1>7 DEF UseGrant
<1>8. CASE ReadBody
  BY <1>8 DEF ReadBody, ack
<1>9. CASE WriteChunk
  BY <1>9 DEF WriteChunk
<1>10. CASE Deliver
  BY <1>10 DEF Deliver
<1>11. CASE Pull
  BY <1>11 DEF Pull
<1>12. CASE ReceiveAck
  BY <1>12 DEF ReceiveAck, ack
<1>13. CASE Cancel
  BY <1>13 DEF Cancel
<1>14. CASE UNCHANGED vars
  BY <1>14 DEF vars
<1>15. QED
  BY <1>1, <1>2, <1>3, <1>4, <1>5, <1>6, <1>7, <1>8, <1>9, <1>10, <1>11,
     <1>12, <1>13, <1>14 DEF Next, Producer

(* The inductive invariant holds in every reachable state.                 *)
THEOREM Invariance == Spec => []IInv
BY InitEstablishes, StepPreserves, PTL DEF Spec

(* Type correctness, in particular that `left` never goes below zero.      *)
THEOREM TypeCorrect == Spec => []TypeOK
<1>1. IInv => TypeOK
  BY DEF IInv
<1>2. QED
  BY <1>1, Invariance, PTL

(* Every unit of credit in use is reserved, on the wire, queued, or in an  *)
(* acknowledgement on its way back (credits.ack never has to clamp).       *)
THEOREM CreditConserved == Spec => []Conservation
<1>1. IInv => Conservation
  BY DEF IInv
<1>2. QED
  BY <1>1, Invariance, PTL

(* A producer is parked on an open wake channel only while the window has  *)
(* no room for it.                                                         *)
THEOREM WakeupNotLost == Spec => []NoLostWakeup
<1>1. IInv => NoLostWakeup
  BY DEF IInv
<1>2. QED
  BY <1>1, Invariance, PTL

(* The window bounds what is outstanding.                                  *)
THEOREM WindowBound == Spec => []WindowRespected
<1>1. IInv => WindowRespected
  BY DEF IInv
<1>2. QED
  BY <1>1, Invariance, PTL

(* The window's books: every unit of credit is accounted for, and sent -    *)
(* acked stays between 0 and the window (credits in main.go).              *)
THEOREM Accounts == Spec => []CreditAccounted
<1>1. IInv => CreditAccounted
  BY DEF IInv, CreditAccounted
<1>2. QED
  BY <1>1, Invariance, PTL

(* The first state of Credits is one of the bounded channel's.             *)
LEMMA InitMaps == Init => Channel!Init
BY DEF Init, unread, Channel!Init

(* Every step puts into the channel, gets from it, or leaves it alone.     *)
LEMMA StepMaps == IInv /\ [Next]_vars => [Channel!Next]_unread
<1> SUFFICES ASSUME IInv, [Next]_vars
             PROVE  [Channel!Next]_unread
  OBVIOUS
<1> USE DEF goVars, jsVars
<1>1. wire \in Nat /\ queue \in Nat /\ unread \in Nat /\ grant \in Nat
  BY DEF IInv, TypeOK, unread
<1>2. CASE WriteChunk
  <2>1. unread' = unread + grant
    BY <1>1, <1>2 DEF WriteChunk, unread
  <2>2. CASE grant = 0
    <3>1. unread' = unread
      BY <1>1, <2>1, <2>2
    <3>2. QED
      BY <3>1
  <2>3. CASE grant > 0
    <3>1. unread + grant <= Window
      BY DEF IInv, TypeOK, Conservation, WindowRespected, unread
    <3>2. grant \in 1 .. (Window - unread)
      BY <1>1, <2>3, <3>1
    <3>3. Channel!Put
      BY <2>1, <3>2 DEF Channel!Put
    <3>4. QED
      BY <3>3 DEF Channel!Next
  <2>4. QED
    BY <1>1, <2>2, <2>3
<1>3. CASE Pull
  <2>1. PICK n \in 1 .. queue : queue' = queue - n /\ wire' = wire
    BY <1>3 DEF Pull
  <2>2. n \in 1 .. unread /\ unread' = unread - n
    BY <1>1, <2>1 DEF unread
  <2>3. Channel!Get
    BY <2>2 DEF Channel!Get
  <2>4. QED
    BY <2>3 DEF Channel!Next
<1>4. CASE Deliver
  <2>1. PICK n \in 1 .. wire : wire' = wire - n /\ queue' = queue + n
    BY <1>4 DEF Deliver
  <2>2. unread' = unread
    BY <1>1, <2>1 DEF unread
  <2>3. QED
    BY <2>2
<1>5. CASE ~(WriteChunk \/ Pull \/ Deliver)
  <2>1. wire' = wire /\ queue' = queue
    BY <1>5 DEF Next, Producer, NextChunk, reserve, reserveWhole, Wake, ParkedCancel,
                Finish, UseGrant, ReadBody, ReceiveAck, Cancel, vars
  <2>2. unread' = unread
    BY <2>1 DEF unread
  <2>3. QED
    BY <2>2
<1>6. QED
  BY <1>2, <1>3, <1>4, <1>5

(* The client never has to hold more than one window of unread data: the   *)
(* detailed flow control implements the bounded channel.                   *)
THEOREM Refinement == Spec => ImplementsChannel
<1>1. Init /\ [][Next]_vars /\ []IInv => Channel!Spec
  BY InitMaps, StepMaps, PTL DEF Channel!Spec
<1>2. QED
  BY <1>1, Invariance, PTL DEF Spec, ImplementsChannel
=============================================================================
