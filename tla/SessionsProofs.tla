--------------------------- MODULE SessionsProofs ---------------------------
(***************************************************************************)
(* Theorems about Sessions, for any finite set of callers.                 *)
(***************************************************************************)
EXTENDS Sessions, FiniteSetTheorems, TLAPS

(* Where a caller is says what was asked and answered for it, whether its  *)
(* destroy was sent and whether Go has its session.                        *)
Life(c) ==
  /\ at[c] = "start" =>
       /\ request[c] = "none" /\ answer[c] = "none" /\ scope[c] = "open"
       /\ c \notin destroySent /\ c \notin live
  /\ at[c] = "creating" =>
       /\ request[c] = "create" <=> answer[c] = "none"
       /\ c \notin destroySent
       /\ c \in live => answer[c] = "ok"
       /\ (answer[c] = "ok" /\ Reachable) => c \in live
  /\ at[c] = "held" =>
       /\ answer[c] # "none" /\ request[c] # "create"
       /\ scope[c] = "closed" => c \in destroySent
       /\ c \in destroySent => scope[c] = "closed" \/ layer # "open"
       /\ c \notin destroySent => c \in activeSessions \cup snapshot
       /\ (c \notin destroySent /\ Reachable) => c \in live
  /\ at[c] = "failed" =>
       answer[c] # "none" /\ request[c] # "create" /\ c \in destroySent

(* The destroy of a session is sent at most once, and while its session is *)
(* there it has not been answered.                                         *)
Destroying(c) ==
  /\ request[c] = "destroy" => c \in destroySent
  /\ destroys[c] <= 1 /\ (c \notin destroySent => destroys[c] = 0)
  /\ c \in live => Reachable /\ (c \in destroySent => request[c] = "destroy")

(* Who is in the books of the layer, and who may use a session.            *)
Booked(c) ==
  /\ c \in sessionActive <=> at[c] = "held"
  /\ c \in activeSessions \cup snapshot => at[c] = "held"
  /\ used[c] # "none" => at[c] = "held"
  /\ used[c] = "unknown" => scope[c] = "closed" \/ layer # "open"

PerCaller == \A c \in Callers : Life(c) /\ Destroying(c) /\ Booked(c)

(* The sessions the gauge stands for.                                      *)
Counted == {c \in sessionActive : c \notin destroySent \/ request[c] = "destroy"}

Kept == TypeOK /\ PerCaller /\ (layer = "open" => snapshot = {})

IInv == Kept /\ gauge = Cardinality(Counted)

(* Every step keeps the callers' lives and the layer's books.              *)
LEMMA StepsKeep ==
  ASSUME Kept, Next
  PROVE  Kept'
<1> USE DEF Kept, TypeOK, PerCaller, Life, Destroying, Booked, Reachable,
            fibre, calls, book, closing
<1>1. ASSUME NEW c \in Callers, Create(c) PROVE Kept'
  BY <1>1 DEF Create
<1>2. ASSUME NEW c \in Callers, Interrupt(c) PROVE Kept'
  BY <1>2 DEF Interrupt
<1>3. ASSUME NEW c \in Callers, CloseScope(c) PROVE Kept'
  BY <1>3 DEF CloseScope, DestroySession, Leaves
<1>4. ASSUME NEW c \in Callers, Use(c) PROVE Kept'
  BY <1>4 DEF Use
<1>5. ASSUME NEW c \in Callers, CreateFailed(c) PROVE Kept'
  BY <1>5 DEF CreateFailed, DestroySession, Leaves
<1>6. ASSUME NEW c \in Callers, Created(c) PROVE Kept'
  BY <1>6 DEF Created
<1>7. ASSUME NEW c \in Callers, GoCreate(c) PROVE Kept'
  BY <1>7 DEF GoCreate
<1>8. ASSUME NEW c \in Callers, GoDestroy(c) PROVE Kept'
  BY <1>8 DEF GoDestroy, Leaves
<1>9. ASSUME NEW c \in Callers, GoUse(c) PROVE Kept'
  BY <1>9 DEF GoUse
<1>10. ASSUME NEW c \in Callers, LayerDestroys(c) PROVE Kept'
  BY <1>10 DEF LayerDestroys, DestroySession, Leaves
<1>11. CASE CloseLayer
  BY <1>11 DEF CloseLayer
<1>12. CASE LayerWaited
  BY <1>12 DEF LayerWaited
<1>13. CASE LayerDestroyed
  BY <1>13 DEF LayerDestroyed
<1>14. CASE ReleaseBridge
  BY <1>14 DEF ReleaseBridge
<1>15. CASE Die
  BY <1>15 DEF Die
<1>16. ASSUME NEW c \in Callers, InterruptUnsent(c) PROVE Kept'
  BY <1>16 DEF InterruptUnsent
<1>17. QED
  BY <1>1, <1>2, <1>3, <1>4, <1>5, <1>6, <1>7, <1>8, <1>9, <1>10, <1>11, <1>12, <1>13, <1>14, <1>15,
     <1>16
  DEF Next, Runs, Go, LayerStep

(* The set the gauge stands for is finite, so the gauge counts one more or  *)
(* one less exactly when a session joins or leaves it.                     *)
LEMMA CountedSize ==
  ASSUME TypeOK
  PROVE  /\ IsFiniteSet(Counted)
         /\ \A c : /\ Cardinality(Counted \cup {c}) =
                      IF c \in Counted THEN Cardinality(Counted) ELSE Cardinality(Counted) + 1
                  /\ Cardinality(Counted \ {c}) =
                      IF c \in Counted THEN Cardinality(Counted) - 1 ELSE Cardinality(Counted)
<1>1. IsFiniteSet(Counted)
  BY CallersAssumption, FS_Subset DEF TypeOK, Counted
<1>2. QED
  BY <1>1, FS_AddElement, FS_RemoveElement

(* destroySession leaves the gauge to Go where Go can be asked, and else    *)
(* counts the session out itself.                                          *)
LEMMA DestroyCounts ==
  ASSUME IInv, NEW c \in Callers, DestroySession(c), sessionActive' = sessionActive
  PROVE  gauge' = Cardinality(Counted')
<1> USE DEF IInv, Kept, TypeOK, PerCaller, Destroying, DestroySession
<1>1. CASE c \in destroySent
  <2>1. Counted' = Counted
    BY <1>1 DEF Counted
  <2>2. QED
    BY <1>1, <2>1
<1>2. CASE c \notin destroySent /\ Reachable
  <2>1. Counted' = Counted
    BY <1>2 DEF Counted
  <2>2. QED
    BY <1>2, <2>1
<1>3. CASE c \notin destroySent /\ ~Reachable
  <2>1. Counted' = Counted \ {c}
    BY <1>3 DEF Counted
  <2>2. c \in Counted <=> c \in sessionActive
    BY <1>3 DEF Counted
  <2>3. gauge' = IF c \in Counted THEN gauge - 1 ELSE gauge
    BY <1>3, <2>2 DEF Leaves
  <2>4. QED
    BY <2>1, <2>3, CountedSize
<1>4. QED
  BY <1>1, <1>2, <1>3

(* Every step keeps the gauge true.                                        *)
LEMMA GaugeKept ==
  ASSUME IInv, Next
  PROVE  gauge' = Cardinality(Counted')
<1> USE DEF IInv, Kept, TypeOK, PerCaller, Life, Destroying, Booked, fibre, calls, book, closing
<1>1. ASSUME NEW c \in Callers, Create(c) PROVE gauge' = Cardinality(Counted')
  <2>1. Counted' = Counted
    BY <1>1 DEF Create, Counted
  <2>2. QED
    BY <1>1, <2>1 DEF Create
<1>2. ASSUME NEW c \in Callers, Interrupt(c) PROVE gauge' = Cardinality(Counted')
  <2>1. Counted' = Counted
    BY <1>2 DEF Interrupt, Counted
  <2>2. QED
    BY <1>2, <2>1 DEF Interrupt
<1>3. ASSUME NEW c \in Callers, CloseScope(c) PROVE gauge' = Cardinality(Counted')
  <2>1. CASE at[c] = "held"
    BY <1>3, <2>1, DestroyCounts DEF CloseScope
  <2>2. CASE at[c] # "held"
    <3>1. Counted' = Counted
      BY <1>3, <2>2 DEF CloseScope, Counted
    <3>2. QED
      BY <1>3, <2>2, <3>1 DEF CloseScope
  <2>3. QED
    BY <2>1, <2>2
<1>4. ASSUME NEW c \in Callers, Use(c) PROVE gauge' = Cardinality(Counted')
  <2>1. Counted' = Counted
    BY <1>4 DEF Use, Counted
  <2>2. QED
    BY <1>4, <2>1 DEF Use
<1>5. ASSUME NEW c \in Callers, CreateFailed(c) PROVE gauge' = Cardinality(Counted')
  BY <1>5, DestroyCounts DEF CreateFailed
<1>6. ASSUME NEW c \in Callers, Created(c) PROVE gauge' = Cardinality(Counted')
  <2>1. c \notin Counted /\ request[c] # "destroy"
    BY <1>6 DEF Created, Counted
  <2>2. CASE scope[c] = "open" \/ Reachable
    <3>1. Counted' = Counted \cup {c}
      BY <1>6, <2>1, <2>2 DEF Created, Counted
    <3>2. QED
      BY <1>6, <2>1, <2>2, <3>1, CountedSize DEF Created
  <2>3. CASE scope[c] # "open" /\ ~Reachable
    <3>1. Counted' = Counted
      BY <1>6, <2>1, <2>3 DEF Created, Counted
    <3>2. QED
      BY <1>6, <2>3, <3>1 DEF Created
  <2>4. QED
    BY <2>2, <2>3
<1>7. ASSUME NEW c \in Callers, GoCreate(c) PROVE gauge' = Cardinality(Counted')
  <2>1. Counted' = Counted
    BY <1>7 DEF GoCreate, Counted
  <2>2. QED
    BY <1>7, <2>1 DEF GoCreate
<1>8. ASSUME NEW c \in Callers, GoDestroy(c) PROVE gauge' = Cardinality(Counted')
  <2>1. Counted' = Counted \ {c}
    BY <1>8 DEF GoDestroy, Counted
  <2>2. c \in Counted <=> c \in sessionActive
    BY <1>8 DEF GoDestroy, Counted
  <2>3. gauge' = IF c \in Counted THEN gauge - 1 ELSE gauge
    BY <1>8, <2>2 DEF GoDestroy, Leaves
  <2>4. QED
    BY <2>1, <2>3, CountedSize
<1>9. ASSUME NEW c \in Callers, GoUse(c) PROVE gauge' = Cardinality(Counted')
  <2>1. Counted' = Counted
    BY <1>9 DEF GoUse, Counted
  <2>2. QED
    BY <1>9, <2>1 DEF GoUse
<1>10. ASSUME NEW c \in Callers, LayerDestroys(c) PROVE gauge' = Cardinality(Counted')
  BY <1>10, DestroyCounts DEF LayerDestroys
<1>11. CASE CloseLayer
  <2>1. Counted' = Counted
    BY <1>11 DEF CloseLayer, Counted
  <2>2. QED
    BY <1>11, <2>1 DEF CloseLayer
<1>12. CASE LayerWaited
  <2>1. Counted' = Counted
    BY <1>12 DEF LayerWaited, Counted
  <2>2. QED
    BY <1>12, <2>1 DEF LayerWaited
<1>13. CASE LayerDestroyed
  <2>1. Counted' = Counted
    BY <1>13 DEF LayerDestroyed, Counted
  <2>2. QED
    BY <1>13, <2>1 DEF LayerDestroyed
<1>14. CASE ReleaseBridge
  <2>1. Counted' = Counted
    BY <1>14 DEF ReleaseBridge, Counted
  <2>2. QED
    BY <1>14, <2>1 DEF ReleaseBridge
<1>15. CASE Die
  <2> DEFINE gone == {c \in sessionActive : request[c] = "destroy"}
  <2>1. Counted' = Counted \ gone
    BY <1>15 DEF Die, Counted
  <2>2. gone \subseteq Counted
    BY DEF Counted
  <2>3. IsFiniteSet(Counted)
    BY CountedSize
  <2>4. Counted = Counted' \cup gone /\ Counted' \cap gone = {} /\ Counted' \subseteq Counted
    BY <2>1, <2>2
  <2>5. Cardinality(Counted) = Cardinality(Counted') + Cardinality(gone)
    <3>1. IsFiniteSet(Counted') /\ IsFiniteSet(gone)
      BY <2>2, <2>3, <2>4, FS_Subset
    <3>2. Cardinality(Counted' \cup gone)
            = Cardinality(Counted') + Cardinality(gone) - Cardinality(Counted' \cap gone)
      BY <3>1, FS_Union
    <3>3. Cardinality(Counted' \cap gone) = 0
      BY <2>4, FS_EmptySet
    <3>4. Cardinality(Counted') \in Nat /\ Cardinality(gone) \in Nat
      BY <3>1, FS_CardinalityType
    <3>5. QED
      BY <2>4, <3>2, <3>3, <3>4
  <2>6. Cardinality(Counted') \in Nat /\ Cardinality(gone) \in Nat
    BY <2>2, <2>3, <2>4, FS_Subset, FS_CardinalityType
  <2>7. gauge' = gauge - Cardinality(gone)
    BY <1>15 DEF Die
  <2>8. QED
    BY <2>5, <2>6, <2>7
<1>16. ASSUME NEW c \in Callers, InterruptUnsent(c) PROVE gauge' = Cardinality(Counted')
  <2>1. Counted' = Counted
    BY <1>16 DEF InterruptUnsent, Counted
  <2>2. QED
    BY <1>16, <2>1 DEF InterruptUnsent
<1>17. QED
  BY <1>1, <1>2, <1>3, <1>4, <1>5, <1>6, <1>7, <1>8, <1>9, <1>10, <1>11, <1>12, <1>13, <1>14, <1>15,
     <1>16
  DEF Next, Runs, Go, LayerStep

(* IInv is an invariant.                                                   *)
THEOREM Invariance == Spec => []IInv
<1>1. Init => IInv
  <2>1. Init => Kept
    <3> SUFFICES ASSUME Init PROVE Kept
      OBVIOUS
    <3>1. TypeOK
      <4>1. /\ at \in [Callers -> {"start", "creating", "held", "failed"}]
            /\ scope \in [Callers -> {"open", "closed"}]
            /\ request \in [Callers -> {"none", "create", "destroy"}]
            /\ answer \in [Callers -> {"none", "ok", "error"}]
            /\ used \in [Callers -> {"none", "asked", "served", "unknown"}]
            /\ destroys \in [Callers -> Nat]
        BY DEF Init
      <4>2. dead \in BOOLEAN
        BY DEF Init
      <4>3. QED
        BY <4>1, <4>2 DEF Init, TypeOK
    <3>2. PerCaller
      BY DEF Init, PerCaller, Life, Destroying, Booked, Reachable
    <3>3. QED
      BY <3>1, <3>2 DEF Init, Kept
  <2>2. Init => Counted = {}
    BY DEF Init, Counted
  <2>3. QED
    BY <2>1, <2>2, FS_EmptySet DEF Init, IInv
<1>2. ASSUME IInv, [Next]_vars PROVE IInv'
  <2>1. CASE Next
    BY <1>2, <2>1, StepsKeep, GaugeKept DEF IInv
  <2>2. CASE UNCHANGED vars
    BY <1>2, <2>2
    DEF IInv, Kept, TypeOK, PerCaller, Life, Destroying, Booked, Counted, Reachable,
        vars, fibre, calls, book, closing
  <2>3. QED
    BY <1>2, <2>1, <2>2
<1>3. QED
  BY <1>1, <1>2, PTL DEF Spec

(* No session is left in Go without somebody who will destroy it, and none  *)
(* is destroyed under its caller.                                          *)
THEOREM NobodyOrphaned == Spec => []NoOrphan
<1>1. IInv => NoOrphan
  BY DEF IInv, Kept, NoOrphan, Settled, TypeOK, PerCaller, Life, Destroying, Booked
<1>2. QED
  BY <1>1, Invariance, PTL

(* The destroy of a session is sent once, and not before its create has     *)
(* been answered, unless that was never sent.                              *)
THEOREM DestroyedOnce == Spec => []DestroyOnce
<1>1. IInv => DestroyOnce
  BY DEF IInv, Kept, DestroyOnce, TypeOK, PerCaller, Life, Destroying, Booked
<1>2. QED
  BY <1>1, Invariance, PTL

(* The gauge of sessions is exact.                                         *)
THEOREM GaugeIsExact == Spec => []GaugeExact
<1>1. IInv => GaugeExact
  BY DEF IInv, GaugeExact, Counted
<1>2. QED
  BY <1>1, Invariance, PTL
=============================================================================
