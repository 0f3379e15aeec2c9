--------------------------- MODULE BandwidthProofs ---------------------------
(***************************************************************************)
(* Theorems about Bandwidth, for any sets of operations, sessions and      *)
(* amounts of traffic.  A request's delta is its own because, while it is  *)
(* in its place, its client's tracker shows its first snapshot and what it *)
(* moved itself: nobody else is in the place, and a reset needs the gate   *)
(* alone.  The totals balance because a session is retired once, after its *)
(* last request has left the table; the sums over sessions need facts      *)
(* about the community modules' fold, which are proved first.              *)
(***************************************************************************)
EXTENDS Bandwidth, FiniteSetTheorems, WellFoundedInduction, TLAPS

-----------------------------------------------------------------------------
(* Sums over finite sets.                                                  *)

(* The order of the naturals as a set of pairs, the form the library's     *)
(* facts about well-founded relations take.                                *)
Less == {ss \in Nat \X Nat : ss[1] < ss[2]}

(* Every set of naturals that is not empty has a least element.            *)
LEMMA LessWellFounded == IsWellFoundedOn(Less, Nat)
<1>1. OpToRel(<, Nat) = Less
  BY Zenon DEF OpToRel, Less
<1>2. IsWellFoundedOn(OpToRel(<, Nat), Nat)
  BY Zenon, NatLessThanWellFounded
<1>3. QED
  BY Zenon, <1>1, <1>2

(* A set that holds zero and the successor of whatever it holds has every  *)
(* natural: induction, over a set where the library has it over an         *)
(* operator.                                                               *)
LEMMA Counting ==
  ASSUME NEW A, 0 \in A, \A n \in Nat : n \in A => n + 1 \in A
  PROVE  Nat \subseteq A
<1> DEFINE B == Nat \ A
<1>1. SUFFICES ASSUME B # {} PROVE FALSE
  BY Zenon
<1>2. PICK n \in B : \A m \in B : ~ (<<m, n>> \in Less)
  BY <1>1, LessWellFounded, WFMin
<1>3. n \in Nat /\ n # 0
  OBVIOUS
<1>4. n - 1 \in Nat /\ n - 1 < n
  BY <1>3
<1>5. <<n - 1, n>> \in Less
  BY <1>3, <1>4 DEF Less
<1>6. n - 1 \in A
  BY <1>2, <1>4, <1>5
<1>7. (n - 1) + 1 \in A
  BY <1>4, <1>6
<1>8. QED
  BY <1>3, <1>7

(* One step of the community modules' sum over a set s: the value f has at *)
(* an element taken from s, and what g says of the rest.                   *)
SumStep(f, g, s) ==
  IF s = {} THEN 0 ELSE f[CHOOSE x \in s : TRUE] + g[s \ {CHOOSE x \in s : TRUE}]

(* g is the function the fold of SumFunctionOnSet(f, S) names: it sums f   *)
(* over every part of S.                                                   *)
Sums(f, S, g) == g = [s \in SUBSET S |-> SumStep(f, g, s)]

(* The element the fold takes from s.                                      *)
Pick(s) == CHOOSE x \in s : TRUE

(* What is left of a part of a finite set without the element taken from   *)
(* it is a smaller part.                                                   *)
LEMMA Picked ==
  ASSUME NEW S, IsFiniteSet(S), NEW s \in SUBSET S, s # {}
  PROVE  /\ Pick(s) \in s /\ s \ {Pick(s)} \in SUBSET S
         /\ Cardinality(s) \in Nat /\ Cardinality(s) # 0
         /\ Cardinality(s \ {Pick(s)}) = Cardinality(s) - 1
<1>1. Pick(s) \in s
  BY DEF Pick
<1>2. IsFiniteSet(s)
  BY FS_Subset
<1>3. QED
  BY <1>1, <1>2, FS_RemoveElement, FS_EmptySet, FS_CardinalityType

(* The recursive function the fold chooses does exist, over any finite     *)
(* set: by the size of the parts it has been built for.                    *)
LEMMA SumExists ==
  ASSUME NEW f, NEW S, IsFiniteSet(S)
  PROVE  \E g : g = [s \in SUBSET S |-> SumStep(f, g, s)]
<1> DEFINE Good(g, n) == \A s \in SUBSET S : Cardinality(s) <= n => g[s] = SumStep(f, g, s)
           A == {n \in Nat : \E g : Good(g, n)}
<1>1. 0 \in A
  <2> DEFINE g == [s \in SUBSET S |-> 0]
  <2>1. ASSUME NEW s \in SUBSET S, Cardinality(s) <= 0 PROVE s = {}
    <3>1. SUFFICES ASSUME s # {} PROVE FALSE
      OBVIOUS
    <3>2. Cardinality(s) \in Nat /\ Cardinality(s) # 0
      BY <3>1, Picked
    <3>3. QED
      BY <2>1, <3>2
  <2>2. Good(g, 0)
    BY <2>1 DEF SumStep
  <2>3. QED
    BY <2>2
<1>2. ASSUME NEW n \in Nat, n \in A PROVE n + 1 \in A
  <2>1. PICK g : Good(g, n)
    BY <1>2
  <2> DEFINE h == [s \in SUBSET S |-> SumStep(f, g, s)]
  <2>2. ASSUME NEW s \in SUBSET S, Cardinality(s) <= n PROVE h[s] = g[s]
    BY <2>1, <2>2
  <2>3. ASSUME NEW s \in SUBSET S, Cardinality(s) <= n + 1 PROVE h[s] = SumStep(f, h, s)
    <3>1. CASE s = {}
      BY <3>1 DEF SumStep
    <3>2. CASE s # {}
      <4>1. s \ {Pick(s)} \in SUBSET S /\ Cardinality(s \ {Pick(s)}) <= n
        BY <2>3, <3>2, Picked
      <4>2. h[s \ {Pick(s)}] = g[s \ {Pick(s)}]
        BY <2>2, <4>1
      <4>3. h[s] = f[Pick(s)] + g[s \ {Pick(s)}]
        BY <3>2 DEF SumStep, Pick
      <4>4. SumStep(f, h, s) = f[Pick(s)] + h[s \ {Pick(s)}]
        BY <3>2 DEF SumStep, Pick
      <4>5. QED
        BY <4>2, <4>3, <4>4
    <3>3. QED
      BY <3>1, <3>2
  <2>4. Good(h, n + 1)
    BY <2>3
  <2> HIDE DEF h
  <2>5. n + 1 \in Nat /\ \E k : Good(k, n + 1)
    BY <2>4
  <2>6. QED
    BY <2>5
<1>3. Cardinality(S) \in A
  <2> HIDE DEF A
  <2>1. Nat \subseteq A
    BY <1>1, <1>2, Counting
  <2>2. QED
    BY <2>1, FS_CardinalityType
<1>4. PICK g : Good(g, Cardinality(S))
  BY <1>3
<1> DEFINE h == [s \in SUBSET S |-> g[s]]
<1>5. ASSUME NEW s \in SUBSET S PROVE h[s] = SumStep(f, h, s)
  <2>1. Cardinality(s) <= Cardinality(S)
    BY FS_Subset
  <2>2. g[s] = SumStep(f, g, s)
    BY <1>4, <2>1
  <2>3. SumStep(f, h, s) = SumStep(f, g, s)
    <3>1. CASE s = {}
      BY <3>1 DEF SumStep
    <3>2. CASE s # {}
      BY <3>2, Picked DEF SumStep, Pick
    <3>3. QED
      BY <3>1, <3>2
  <2>4. QED
    BY <2>2, <2>3
<1>6. h = [s \in SUBSET S |-> SumStep(f, h, s)]
  <2> DEFINE k == [s \in SUBSET S |-> SumStep(f, h, s)]
  <2>1. \A s \in SUBSET S : h[s] = k[s]
    BY <1>5
  <2>2. h = k
    BY <2>1, Zenon
  <2>3. QED
    BY <2>2
<1>7. QED
  BY <1>6

(* So a sum over S is the value at S of a function that satisfies the      *)
(* fold's own equation.                                                    *)
LEMMA SumUnfolds ==
  ASSUME NEW f, NEW S, IsFiniteSet(S)
  PROVE  \E g : /\ Sums(f, S, g)
                /\ SumFunctionOnSet(f, S) = g[S]
<1> DEFINE iter == CHOOSE g : g = [s \in SUBSET S |-> SumStep(f, g, s)]
<1>1. SumFunctionOnSet(f, S) = iter[S]
  BY Zenon DEF SumFunctionOnSet, FoldFunctionOnSet, MapThenFoldSet, SumStep
<1>2. iter = [s \in SUBSET S |-> SumStep(f, iter, s)]
  BY SumExists, Zenon
<1>3. QED
  BY <1>1, <1>2 DEF Sums

(* To hold of every part of a finite set, it is enough to hold of a part   *)
(* whenever it holds of that part with any one element less.               *)
LEMMA SubsetInduction ==
  ASSUME NEW S, IsFiniteSet(S), NEW A,
         \A T \in SUBSET S : (\A x \in T : T \ {x} \in A) => T \in A
  PROVE  SUBSET S \subseteq A
<1> DEFINE B == {n \in Nat : \A T \in SUBSET S : Cardinality(T) <= n => T \in A}
<1>1. ASSUME NEW T \in SUBSET S PROVE IsFiniteSet(T) /\ Cardinality(T) \in Nat
  BY FS_Subset, FS_CardinalityType
<1>2. 0 \in B
  <2>1. ASSUME NEW T \in SUBSET S, Cardinality(T) <= 0 PROVE T \in A
    <3>1. T = {}
      BY <1>1, <2>1, FS_EmptySet
    <3>2. QED
      BY <3>1
  <2>2. QED
    BY <2>1
<1>3. ASSUME NEW n \in Nat, n \in B PROVE n + 1 \in B
  <2>1. ASSUME NEW T \in SUBSET S, Cardinality(T) <= n + 1 PROVE T \in A
    <3>1. ASSUME NEW x \in T PROVE T \ {x} \in A
      <4>1. Cardinality(T \ {x}) = Cardinality(T) - 1
        BY <1>1, FS_RemoveElement
      <4>2. Cardinality(T \ {x}) <= n
        BY <1>1, <2>1, <4>1
      <4>3. QED
        BY <1>3, <4>2
    <3>2. QED
      BY <3>1
  <2>2. QED
    BY <2>1
<1>4. Nat \subseteq B
  <2> HIDE DEF B
  <2> QED
    BY <1>2, <1>3, Counting
<1>5. QED
  BY <1>1, <1>4

(* Sums over two sets, one in the other, agree on the parts of the         *)
(* smaller.                                                                *)
LEMMA SumUnique ==
  ASSUME NEW f, NEW S, IsFiniteSet(S), NEW g, Sums(f, S, g),
         NEW T \in SUBSET S, NEW h, Sums(f, T, h)
  PROVE  \A s \in SUBSET T : g[s] = h[s]
<1> DEFINE A == {s \in SUBSET T : g[s] = h[s]}
<1>1. IsFiniteSet(T)
  BY FS_Subset
<1>2. ASSUME NEW s \in SUBSET T, \A x \in s : s \ {x} \in A PROVE g[s] = h[s]
  <2>1. CASE s = {}
    BY <2>1 DEF SumStep, Sums
  <2>2. CASE s # {}
    <3>1. Pick(s) \in s
      BY <2>2 DEF Pick
    <3>2. g[s \ {Pick(s)}] = h[s \ {Pick(s)}]
      BY <1>2, <3>1
    <3>3. SumStep(f, g, s) = SumStep(f, h, s)
      BY <2>2, <3>2 DEF SumStep, Pick
    <3>4. g[s] = SumStep(f, g, s) /\ h[s] = SumStep(f, h, s)
      BY DEF Sums
    <3>5. QED
      BY <3>3, <3>4
  <2>3. QED
    BY <2>1, <2>2
<1>3. SUBSET T \subseteq A
  <2>1. ASSUME NEW s \in SUBSET T, \A x \in s : s \ {x} \in A PROVE s \in A
    BY <1>2, <2>1
  <2> HIDE DEF A
  <2>2. QED
    BY <1>1, <2>1, SubsetInduction
<1>4. QED
  BY <1>3

(* The sum over nothing is zero.                                           *)
LEMMA SumOfNothing ==
  ASSUME NEW f
  PROVE  SumFunctionOnSet(f, {}) = 0
<1>1. PICK g : Sums(f, {}, g) /\ SumFunctionOnSet(f, {}) = g[{}]
  BY FS_EmptySet, SumUnfolds
<1>2. g[{}] = SumStep(f, g, {})
  BY <1>1 DEF Sums
<1>3. QED
  BY <1>1, <1>2 DEF SumStep

(* A sum is the value at the element the fold takes and the sum over the   *)
(* rest.                                                                   *)
LEMMA SumPicks ==
  ASSUME NEW f, NEW S, IsFiniteSet(S), S # {}
  PROVE  SumFunctionOnSet(f, S) = f[Pick(S)] + SumFunctionOnSet(f, S \ {Pick(S)})
<1> DEFINE T == S \ {Pick(S)}
<1>1. T \in SUBSET S /\ IsFiniteSet(T)
  BY FS_Subset
<1>2. PICK g : Sums(f, S, g) /\ SumFunctionOnSet(f, S) = g[S]
  BY SumUnfolds
<1>3. PICK h : Sums(f, T, h) /\ SumFunctionOnSet(f, T) = h[T]
  BY <1>1, SumUnfolds
<1>4. g[T] = h[T]
  BY <1>1, <1>2, <1>3, SumUnique
<1>5. g[S] = f[Pick(S)] + g[T]
  BY <1>2 DEF Sums, SumStep, Pick
<1>6. QED
  BY <1>2, <1>3, <1>4, <1>5

(* A sum of integers is an integer.                                        *)
LEMMA SumIsInteger ==
  ASSUME NEW S, IsFiniteSet(S), NEW f, \A x \in S : f[x] \in Int
  PROVE  SumFunctionOnSet(f, S) \in Int
<1> DEFINE A == {T \in SUBSET S : SumFunctionOnSet(f, T) \in Int}
<1>1. ASSUME NEW T \in SUBSET S, \A x \in T : T \ {x} \in A PROVE T \in A
  <2>1. CASE T = {}
    BY <2>1, SumOfNothing
  <2>2. CASE T # {}
    <3>1. Pick(T) \in T /\ IsFiniteSet(T)
      BY <2>2, FS_Subset DEF Pick
    <3>2. SumFunctionOnSet(f, T) = f[Pick(T)] + SumFunctionOnSet(f, T \ {Pick(T)})
      BY <2>2, <3>1, SumPicks
    <3>3. SumFunctionOnSet(f, T \ {Pick(T)}) \in Int /\ f[Pick(T)] \in Int
      BY <1>1, <3>1
    <3>4. QED
      BY <3>2, <3>3
  <2>3. QED
    BY <2>1, <2>2
<1>2. SUBSET S \subseteq A
  <2> HIDE DEF A
  <2> QED
    BY <1>1, SubsetInduction
<1>3. QED
  BY <1>2

(* A sum may be taken apart at any element, not just at the one the fold   *)
(* chooses: no order shows.                                                *)
LEMMA SumRemoves ==
  ASSUME NEW S, IsFiniteSet(S), NEW f, \A x \in S : f[x] \in Int, NEW y \in S
  PROVE  SumFunctionOnSet(f, S) = f[y] + SumFunctionOnSet(f, S \ {y})
<1> DEFINE Total(T) == SumFunctionOnSet(f, T)
           A == {T \in SUBSET S : \A x \in T : Total(T) = f[x] + Total(T \ {x})}
<1>0. ASSUME NEW T \in SUBSET S PROVE Total(T) \in Int /\ IsFiniteSet(T)
  BY SumIsInteger, FS_Subset
<1> HIDE DEF Total
<1>1. ASSUME NEW T \in SUBSET S, \A x \in T : T \ {x} \in A, NEW x \in T
      PROVE  Total(T) = f[x] + Total(T \ {x})
  <2> DEFINE p == Pick(T)
  <2>1. p \in T
    BY DEF Pick
  <2>2. Total(T) = f[p] + Total(T \ {p})
    BY <1>0, <2>1, SumPicks DEF Total
  <2>3. CASE p = x
    BY <2>2, <2>3
  <2>4. CASE p # x
    <3> DEFINE U == T \ {p, x}
    <3>1. U = (T \ {p}) \ {x} /\ U = (T \ {x}) \ {p} /\ U \in SUBSET S
      OBVIOUS
    <3> HIDE DEF U, p
    <3>2. Total(T \ {p}) = f[x] + Total(U)
      BY <1>1, <2>1, <2>4, <3>1
    <3>3. Total(T \ {x}) = f[p] + Total(U)
      BY <1>1, <2>1, <2>4, <3>1
    <3>4. f[p] \in Int /\ f[x] \in Int /\ Total(U) \in Int
      BY <1>0, <2>1, <3>1
    <3>5. f[p] + (f[x] + Total(U)) = f[x] + (f[p] + Total(U))
      BY <3>4
    <3>6. QED
      BY <2>2, <3>2, <3>3, <3>5
  <2>5. QED
    BY <2>3, <2>4
<1>2. SUBSET S \subseteq A
  <2>1. ASSUME NEW T \in SUBSET S, \A x \in T : T \ {x} \in A PROVE T \in A
    BY <1>1, <2>1
  <2> HIDE DEF A
  <2>2. QED
    BY <2>1, SubsetInduction
<1>3. QED
  BY <1>2 DEF Total

(* Functions that agree on a set have the same sum over it.                *)
LEMMA SumAgrees ==
  ASSUME NEW S, IsFiniteSet(S), NEW f, NEW g, \A x \in S : f[x] = g[x]
  PROVE  SumFunctionOnSet(f, S) = SumFunctionOnSet(g, S)
<1> DEFINE A == {T \in SUBSET S : SumFunctionOnSet(f, T) = SumFunctionOnSet(g, T)}
<1>1. ASSUME NEW T \in SUBSET S, \A x \in T : T \ {x} \in A PROVE T \in A
  <2>1. CASE T = {}
    BY <2>1, SumOfNothing
  <2>2. CASE T # {}
    <3>1. Pick(T) \in T /\ IsFiniteSet(T)
      BY <2>2, FS_Subset DEF Pick
    <3>2. SumFunctionOnSet(f, T \ {Pick(T)}) = SumFunctionOnSet(g, T \ {Pick(T)})
      BY <1>1, <3>1
    <3>3. QED
      BY <2>2, <3>1, <3>2, SumPicks
  <2>3. QED
    BY <2>1, <2>2
<1>2. SUBSET S \subseteq A
  <2> HIDE DEF A
  <2> QED
    BY <1>1, SubsetInduction
<1>3. QED
  BY <1>2

(* When one value changes, the sum changes by as much.                     *)
LEMMA SumChanges ==
  ASSUME NEW S, IsFiniteSet(S), NEW f, \A x \in S : f[x] \in Int,
         NEW g, \A x \in S : g[x] \in Int,
         NEW y \in S, \A x \in S \ {y} : g[x] = f[x]
  PROVE  SumFunctionOnSet(g, S) = SumFunctionOnSet(f, S) + (g[y] - f[y])
<1> DEFINE T == S \ {y}
<1>1. IsFiniteSet(T)
  BY FS_Subset
<1>2. SumFunctionOnSet(f, S) = f[y] + SumFunctionOnSet(f, T)
  BY SumRemoves
<1>3. SumFunctionOnSet(g, S) = g[y] + SumFunctionOnSet(g, T)
  BY SumRemoves
<1>4. SumFunctionOnSet(f, T) = SumFunctionOnSet(g, T)
  BY <1>1, SumAgrees
<1>5. SumFunctionOnSet(f, T) \in Int
  BY <1>1, SumIsInteger
<1>6. QED
  BY <1>2, <1>3, <1>4, <1>5

(* A sum of naturals over a part is at most the sum over the whole.        *)
LEMMA SumOfPart ==
  ASSUME NEW S, IsFiniteSet(S), NEW f, \A x \in S : f[x] \in Nat, NEW U \in SUBSET S
  PROVE  SumFunctionOnSet(f, U) <= SumFunctionOnSet(f, S)
<1> DEFINE A == {T \in SUBSET S : U \subseteq T => SumFunctionOnSet(f, U) <= SumFunctionOnSet(f, T)}
<1>0. ASSUME NEW T \in SUBSET S PROVE IsFiniteSet(T) /\ SumFunctionOnSet(f, T) \in Int
  BY SumIsInteger, FS_Subset
<1>1. ASSUME NEW T \in SUBSET S, \A x \in T : T \ {x} \in A, U \subseteq T
      PROVE  SumFunctionOnSet(f, U) <= SumFunctionOnSet(f, T)
  <2>1. CASE U = T
    BY <1>0, <2>1
  <2>2. CASE U # T
    <3>1. PICK x \in T : x \notin U
      BY <1>1, <2>2
    <3>2. SumFunctionOnSet(f, U) <= SumFunctionOnSet(f, T \ {x})
      BY <1>1, <3>1
    <3>3. SumFunctionOnSet(f, T) = f[x] + SumFunctionOnSet(f, T \ {x})
      BY <1>0, SumRemoves
    <3>4. f[x] \in Nat /\ SumFunctionOnSet(f, T \ {x}) \in Int /\ SumFunctionOnSet(f, U) \in Int
      BY <1>0
    <3>5. QED
      BY <3>2, <3>3, <3>4
  <2>3. QED
    BY <2>1, <2>2
<1>2. SUBSET S \subseteq A
  <2>1. ASSUME NEW T \in SUBSET S, \A x \in T : T \ {x} \in A PROVE T \in A
    BY <1>1, <2>1
  <2> HIDE DEF A
  <2>2. QED
    BY <2>1, SubsetInduction
<1>3. QED
  BY <1>2

(* A sum of zeros is zero.                                                 *)
LEMMA SumOfZeros ==
  ASSUME NEW S, IsFiniteSet(S), NEW f, \A x \in S : f[x] = 0
  PROVE  SumFunctionOnSet(f, S) = 0
<1> DEFINE A == {T \in SUBSET S : SumFunctionOnSet(f, T) = 0}
<1>1. ASSUME NEW T \in SUBSET S, \A x \in T : T \ {x} \in A PROVE T \in A
  <2>1. CASE T = {}
    BY <2>1, SumOfNothing
  <2>2. CASE T # {}
    <3>1. Pick(T) \in T /\ IsFiniteSet(T)
      BY <2>2, FS_Subset DEF Pick
    <3>2. SumFunctionOnSet(f, T) = f[Pick(T)] + SumFunctionOnSet(f, T \ {Pick(T)})
      BY <2>2, <3>1, SumPicks
    <3>3. QED
      BY <1>1, <3>1, <3>2
  <2>3. QED
    BY <2>1, <2>2
<1>2. SUBSET S \subseteq A
  <2> HIDE DEF A
  <2> QED
    BY <1>1, SubsetInduction
<1>3. QED
  BY <1>2

-----------------------------------------------------------------------------
(* The delta of a request.                                                 *)

(* The types the argument needs.                                           *)
Types ==
  /\ target \in Targets
  /\ pc = [p \in Ops |-> pc[p]]
  /\ tracker \in [Sessions -> [Clients -> Int]]
  /\ before \in [Requests -> Int] /\ delta \in [Requests -> Int]
  /\ own \in [Requests -> Nat]

(* Two requests are never in the same place.                               *)
OneInPlace ==
  \A q, r \in Requests :
    /\ q # r /\ target[q] = target[r] /\ ClientOf[q] = ClientOf[r]
    /\ pc[q] \in InPlace
    => pc[r] \notin InPlace

(* A request has moved nothing before it has its place; from then on the   *)
(* tracker of its client shows what it found and what it moved.            *)
TrackerIsOwn ==
  \A r \in Requests :
    /\ pc[r] \in {"idle", "started", "gated"} => own[r] = 0
    /\ pc[r] = "placed" => tracker[target[r]][ClientOf[r]] = before[r] + own[r]

IInv == Types /\ OneInPlace /\ TrackerIsOwn /\ DeltaExact

USE TargetAssumption, ClientAssumption

(* The initial state satisfies the inductive invariant.                    *)
LEMMA InitEstablishes == Init => IInv
<1> SUFFICES ASSUME Init PROVE IInv
  OBVIOUS
<1>1. Types
  BY DEF Init, Types, Ops
<1>2. OneInPlace /\ TrackerIsOwn /\ DeltaExact
  BY DEF Init, OneInPlace, TrackerIsOwn, DeltaExact, InPlace, Inside, Ops
<1>3. QED
  BY <1>1, <1>2 DEF IInv

(* A step that moves one operation, to where no request counts its bytes,  *)
(* and touches neither the trackers nor a request's variables.             *)
LEMMA Bystander ==
  ASSUME IInv, NEW p \in Ops, NEW to, Goto(p, to),
         to \notin InPlace,
         to \in {"idle", "started", "gated"} => p \in Requests /\ own[p] = 0,
         UNCHANGED <<tracker, reqVars>>
  PROVE  IInv'
<1> USE DEF IInv, Goto, reqVars
<1>1. Types'
  BY DEF Types
<1>2. OneInPlace'
  BY DEF OneInPlace, Types, Ops
<1>3. TrackerIsOwn'
  BY DEF TrackerIsOwn, Types, Ops, InPlace, Inside
<1>4. DeltaExact'
  BY DEF DeltaExact, Types, Ops, InPlace, Inside
<1>5. QED
  BY <1>1, <1>2, <1>3, <1>4

(* A request that stays in its place, past the end of its body, or leaves. *)
LEMMA Leaving ==
  ASSUME IInv, NEW r \in Requests, NEW to, Goto(r, to),
         to \in InPlace => pc[r] \in InPlace \/ target[r] \in Ephemeral,
         to \in {"failed", "finish", "leaving", "over"},
         \A q \in Requests \ {r} :
            own'[q] = own[q] /\ before'[q] = before[q] /\ delta'[q] = delta[q],
         before' \in [Requests -> Int], delta' \in [Requests -> Int],
         own' \in [Requests -> Nat], UNCHANGED tracker
  PROVE  IInv'
<1> USE DEF IInv, Goto
<1>1. Types'
  BY DEF Types
<1>2. OneInPlace'
  BY DEF OneInPlace, Types, Ops
<1>3. TrackerIsOwn'
  BY DEF TrackerIsOwn, Types, Ops
<1>4. DeltaExact'
  BY DEF DeltaExact, Types, Ops
<1>5. QED
  BY <1>1, <1>2, <1>3, <1>4

(* A request that enters its place finds nobody there, and starts from     *)
(* what it finds on the tracker.                                           *)
LEMMA TakePlacePreserves ==
  ASSUME IInv, NEW r \in Requests, TakePlace(r)
  PROVE  IInv'
<1> USE DEF IInv, TakePlace, Goto
<1>1. target[r] \in Sessions /\ ClientOf[r] \in Clients
  BY DEF Types, Ops
<1>2. Types'
  <2>1. tracker[target[r]][ClientOf[r]] \in Int
    BY <1>1 DEF Types
  <2>2. before' \in [Requests -> Int]
    BY <2>1, Zenon DEF Types
  <2>3. target' \in Targets /\ pc' = [p \in Ops |-> pc'[p]]
    BY DEF Types
  <2>4. UNCHANGED <<tracker, delta, own>>
    BY Zenon
  <2>5. QED
    BY <2>2, <2>3, <2>4, Zenon DEF Types
<1>3. OneInPlace'
  BY DEF OneInPlace, Types, Ops
<1>4. TrackerIsOwn'
  BY <1>1 DEF TrackerIsOwn, Types, Ops
<1>5. DeltaExact'
  BY DEF DeltaExact, Types, Ops
<1>6. QED
  BY <1>2, <1>3, <1>4, <1>5

(* A byte is counted on the tracker of the one request in the place.       *)
LEMMA TransferPreserves ==
  ASSUME IInv, NEW r \in Requests, Transfer(r)
  PROVE  IInv'
<1> USE DEF IInv, Transfer
<1>1. target[r] \in Sessions /\ ClientOf[r] \in Clients
  BY DEF Types, Ops
<1>2. Types'
  BY <1>1 DEF Types
<1>3. OneInPlace' /\ DeltaExact'
  BY DEF OneInPlace, DeltaExact, Types
<1>4. ASSUME NEW q \in Requests, pc[q] = "placed"
      PROVE  tracker'[target[q]][ClientOf[q]] = before[q] + own'[q]
  <2>1. target[q] \in Sessions /\ ClientOf[q] \in Clients
    BY DEF Types, Ops
  <2>2. CASE q = r
    <3>1. tracker[target[r]][ClientOf[r]] = before[r] + own[r]
      BY DEF TrackerIsOwn
    <3>2. tracker'[target[r]][ClientOf[r]] = tracker[target[r]][ClientOf[r]] + 1
      BY <1>1 DEF Types
    <3>3. own'[r] = own[r] + 1 /\ own[r] \in Int /\ before[r] \in Int
      BY DEF Types
    <3>4. QED
      BY <2>2, <3>1, <3>2, <3>3
  <2>3. CASE q # r
    <3>1. target[q] # target[r] \/ ClientOf[q] # ClientOf[r]
      BY <1>4, <2>3 DEF OneInPlace, InPlace, Inside
    <3>2. tracker'[target[q]][ClientOf[q]] = tracker[target[q]][ClientOf[q]]
      BY <1>1, <2>1, <3>1 DEF Types
    <3>3. QED
      BY <1>4, <2>3, <3>2 DEF TrackerIsOwn, Types
  <2>4. QED
    BY <2>2, <2>3
<1>5. TrackerIsOwn'
  BY <1>4 DEF TrackerIsOwn, Types
<1>6. QED
  BY <1>2, <1>3, <1>5

(* The second snapshot is the first and what the request moved.            *)
LEMMA EndBodyPreserves ==
  ASSUME IInv, NEW r \in Requests, EndBody(r)
  PROVE  IInv'
<1> USE DEF IInv, EndBody, Goto
<1>1. target[r] \in Sessions /\ ClientOf[r] \in Clients
  BY DEF Types, Ops
<1>2. bandwidthDelta(before[r], tracker[target[r]][ClientOf[r]]) = own[r]
  <2>1. tracker[target[r]][ClientOf[r]] = before[r] + own[r]
    BY DEF TrackerIsOwn
  <2>2. own[r] \in Nat /\ before[r] \in Int
    BY DEF Types
  <2>3. QED
    BY <2>1, <2>2 DEF bandwidthDelta
<1>3. Types'
  BY <1>2 DEF Types
<1>4. OneInPlace'
  BY DEF OneInPlace, Types, Ops, InPlace, Inside
<1>5. TrackerIsOwn'
  BY DEF TrackerIsOwn, Types, Ops
<1>6. DeltaExact'
  BY <1>2 DEF DeltaExact, Types, Ops
<1>7. QED
  BY <1>3, <1>4, <1>5, <1>6

(* A reset has the gate alone: no request is in a place of the session.    *)
LEMMA ResetSessionPreserves ==
  ASSUME IInv, NEW x \in Resets, ResetSession(x)
  PROVE  IInv'
<1> USE DEF IInv, Goto
<1>1. PICK s \in Sessions :
         /\ MayBeAlone(s)
         /\ tracker' = [tracker EXCEPT ![s] = [c \in Clients |-> 0]]
  BY DEF ResetSession
<1>2. Goto(x, "next") /\ UNCHANGED reqVars
  BY DEF ResetSession
<1>3. Types'
  <2>1. [c \in Clients |-> 0] \in [Clients -> Int]
    OBVIOUS
  <2>2. tracker' \in [Sessions -> [Clients -> Int]]
    BY <1>1, <2>1 DEF Types
  <2>3. QED
    BY <1>2, <2>2 DEF Types, reqVars
<1>4. OneInPlace' /\ DeltaExact'
  BY <1>2 DEF OneInPlace, DeltaExact, Types, Ops, reqVars, InPlace, Inside
<1>5. ASSUME NEW q \in Requests, pc'[q] = "placed"
      PROVE  tracker'[target[q]][ClientOf[q]] = tracker[target[q]][ClientOf[q]]
  <2>1. pc[q] = "placed"
    BY <1>2, <1>5 DEF Types, Ops
  <2>2. target[q] # s
    BY <1>1, <2>1 DEF MayBeAlone, Inside
  <2>3. QED
    BY <1>1, <2>2 DEF Types, Ops
<1>6. TrackerIsOwn'
  BY <1>2, <1>5 DEF TrackerIsOwn, Types, Ops, reqVars
<1>7. QED
  BY <1>3, <1>4, <1>6

(* The other steps of a request.                                           *)
LEMMA RequestPreserves ==
  ASSUME IInv, NEW r \in Requests, RequestSteps(r)
  PROVE  IInv'
<1>1. r \in Ops
  BY DEF Ops
<1>2. CASE Start(r)
  BY <1>1, <1>2, Bystander DEF Start, IInv, TrackerIsOwn, InPlace, Inside
<1>3. CASE AcquireRead(r)
  BY <1>1, <1>3, Bystander DEF AcquireRead, IInv, TrackerIsOwn, InPlace, Inside
<1>4. CASE Fail(r)
  <2>1. CASE pc[r] = "placed"
    BY <1>4, <2>1, Leaving DEF Fail, reqVars, IInv, Types, InPlace, Inside
  <2>2. CASE pc[r] # "placed"
    BY <1>1, <1>4, <2>2, Bystander DEF Fail, InPlace, Inside
  <2>3. QED
    BY <2>1, <2>2
<1>5. CASE RetireEphemeral(r)
  BY <1>5, Leaving DEF RetireEphemeral, reqVars, IInv, Types
<1>6. CASE Finish(r)
  <2>1. CASE pc[r] = "refused"
    BY <1>6, <2>1, Leaving DEF Finish, IInv, Types, InPlace, Inside
  <2>2. CASE pc[r] # "refused"
    BY <1>6, <2>2, Leaving DEF Finish, IInv, Types, InPlace, Inside
  <2>3. QED
    BY <2>1, <2>2
<1>7. CASE Leave(r)
  BY <1>1, <1>7, Bystander DEF Leave, InPlace, Inside
<1>8. QED
  BY <1>2, <1>3, <1>4, <1>5, <1>6, <1>7, TakePlacePreserves, TransferPreserves,
     EndBodyPreserves DEF RequestSteps

(* A step that leaves requests and trackers alone.                         *)
LEMMA Unrelated ==
  ASSUME IInv, UNCHANGED <<target, pc, tracker, reqVars>>
  PROVE  IInv'
BY DEF IInv, Types, OneInPlace, TrackerIsOwn, DeltaExact, reqVars

(* Every step preserves the inductive invariant.                           *)
LEMMA StepPreserves == IInv /\ [Next]_vars => IInv'
<1> SUFFICES ASSUME IInv, [Next]_vars PROVE IInv'
  OBVIOUS
<1> USE DEF InPlace, Inside
<1>1. ASSUME NEW g \in Gets, GetSteps(g) PROVE IInv'
  <2>1. g \in Ops
    BY DEF Ops
  <2>2. CASE GetBegin(g)
    BY <2>1, <2>2, Bystander DEF GetBegin
  <2>3. CASE GetLook(g)
    BY <2>1, <2>3, Bystander DEF GetLook
  <2>4. CASE GetSession(g)
    BY <2>4, Unrelated DEF GetSession
  <2>5. CASE GetEnd(g)
    BY <2>1, <2>5, Bystander DEF GetEnd, GetLeave
  <2>6. CASE GetGiveUp(g)
    BY <2>1, <2>6, Bystander DEF GetGiveUp, GetLeave
  <2>7. QED
    BY <1>1, <2>2, <2>3, <2>4, <2>5, <2>6 DEF GetSteps
<1>2. ASSUME NEW x \in Resets, ResetSteps(x) PROVE IInv'
  <2>1. x \in Ops
    BY DEF Ops
  <2>2. CASE ResetBegin(x)
    BY <2>1, <2>2, Bystander DEF ResetBegin
  <2>3. CASE ResetQueue(x)
    BY <2>1, <2>3, Bystander DEF ResetQueue
  <2>4. CASE ResetSession(x)
    BY <2>4, ResetSessionPreserves
  <2>5. CASE ResetGiveUp(x)
    BY <2>1, <2>5, Bystander DEF ResetGiveUp
  <2>6. CASE ResetEnd(x)
    BY <2>1, <2>6, Bystander DEF ResetEnd
  <2>7. QED
    BY <1>2, <2>2, <2>3, <2>4, <2>5, <2>6 DEF ResetSteps
<1>3. ASSUME NEW d \in Destroys, DestroySteps(d) PROVE IInv'
  <2>1. d \in Ops
    BY DEF Ops
  <2>2. CASE DestroyRemove(d)
    BY <2>1, <2>2, Bystander DEF DestroyRemove
  <2>3. CASE DestroyAwait(d)
    BY <2>1, <2>3, Bystander DEF DestroyAwait
  <2>4. CASE DestroyRetire(d)
    BY <2>1, <2>4, Bystander DEF DestroyRetire
  <2>5. CASE DestroyClose(d)
    BY <2>1, <2>5, Bystander DEF DestroyClose
  <2>6. QED
    BY <1>3, <2>2, <2>3, <2>4, <2>5 DEF DestroySteps
<1>4. CASE UNCHANGED vars
  BY <1>4, Unrelated DEF vars
<1>5. QED
  BY <1>1, <1>2, <1>3, <1>4, RequestPreserves DEF Next

(* The delta in a request's end frame is exactly the bytes it moved, with  *)
(* any number of requests, resets, reads and destroys around it.           *)
THEOREM DeltasAreExact == Spec => []DeltaExact
<1>1. IInv => DeltaExact
  BY DEF IInv
<1>2. QED
  BY <1>1, InitEstablishes, StepPreserves, PTL DEF Spec

-----------------------------------------------------------------------------
(* The books.                                                              *)

(* What the trackers of each session show.                                 *)
Shown == [s \in Sessions |-> Sum(s)]

(* Where the operations of each kind can be.                               *)
KindsOfPc ==
  /\ \A r \in Requests :
       pc[r] \in {"idle", "started", "gated", "placed", "ended", "failed", "refused",
                  "finish", "leaving", "over"}
  /\ \A g \in Gets : pc[g] \in {"idle", "wanting", "reading", "over"}
  /\ \A d \in Destroys : pc[d] \in {"idle", "waiting", "retiring", "queued", "over"}

(* A session a destroy has taken out of the store stays out, and no second *)
(* destroy has it.                                                         *)
DestroyedOnce ==
  /\ \A d \in Destroys : pc[d] # "idle" => target[d] \notin store
  /\ \A d, e \in Destroys :
       pc[d] # "idle" /\ pc[e] # "idle" /\ target[d] = target[e] => d = e

(* A destroy that waits has every operation of its session in its list;    *)
(* one that has waited finds none left in the table (session.go:           *)
(* destroySession, pending.waitForSession).                                *)
NoneLeft ==
  \A d \in Destroys, r \in Requests :
    target[r] = target[d] =>
      /\ pc[d] = "waiting" /\ InTable(r) => r \in waits[d]
      /\ pc[d] \in {"retiring", "queued", "over"} => ~InTable(r)

(* A session's totals are retired by the destroy that took it, or at the   *)
(* end of the session-less request it was made for.                        *)
ClosedBy ==
  \A s \in closed :
    \/ \E d \in Destroys : target[d] = s /\ pc[d] \in {"queued", "over"}
    \/ s \in Ephemeral /\ \E r \in Requests : target[r] = s /\ pc[r] \in {"finish", "leaving", "over"}

(* Who retires a session, and what is over by then.                        *)
Settled == KindsOfPc /\ DestroyedOnce /\ NoneLeft /\ ClosedBy

USE OpsAssumption

(* What an operation is for: a request or a destroy has a session, a       *)
(* destroy a stored one, and nobody else has the session of a session-less *)
(* request.                                                                *)
LEMMA TargetTypes ==
  ASSUME target \in Targets
  PROVE  /\ \A p \in Ops : target[p] \in Sessions \cup {Process}
         /\ \A r \in Requests : target[r] \in Sessions /\ ClientOf[r] \in Clients
         /\ \A d \in Destroys : target[d] \in Sessions \ Ephemeral
         /\ \A q, r \in Requests : target[q] = target[r] /\ target[q] \in Ephemeral => q = r
BY DEF Ops

(* An operation is of one kind.                                            *)
LEMMA OpsDiffer ==
  /\ \A r \in Requests : r \in Ops /\ r \notin Gets /\ r \notin Resets /\ r \notin Destroys
  /\ \A g \in Gets : g \in Ops /\ g \notin Requests /\ g \notin Resets /\ g \notin Destroys
  /\ \A x \in Resets : x \in Ops /\ x \notin Requests /\ x \notin Gets /\ x \notin Destroys
  /\ \A d \in Destroys : d \in Ops /\ d \notin Requests /\ d \notin Gets /\ d \notin Resets
BY DEF Ops

(* An operation that is not a destroy goes on, from where it may to where  *)
(* it may.                                                                 *)
LEMMA OthersGoOn ==
  ASSUME TypeOK, Settled, NEW p \in Ops, p \notin Destroys, NEW to, Goto(p, to),
         UNCHANGED <<store, waits, closed>>,
         p \in Gets => to \in {"wanting", "reading", "over"},
         p \in Requests =>
           /\ to \in {"started", "gated", "placed", "ended", "failed", "refused",
                      "finish", "leaving", "over"}
           /\ pc[p] = "idle" => target[p] \in store \cup Ephemeral
           /\ pc[p] \in {"finish", "leaving", "over"} => to \in {"leaving", "over"}
           /\ pc[p] = "over" => to = "over"
  PROVE  Settled'
<1> USE DEF Goto
<1>1. \A q \in Ops : pc'[q] = IF q = p THEN to ELSE pc[q]
  BY DEF TypeOK
<1>2. KindsOfPc'
  BY <1>1, OpsDiffer DEF Settled, KindsOfPc
<1>3. DestroyedOnce'
  BY <1>1, OpsDiffer DEF Settled, DestroyedOnce
<1>4. NoneLeft'
  <2> SUFFICES ASSUME NEW d \in Destroys, NEW r \in Requests, target[r] = target[d]
               PROVE  /\ pc'[d] = "waiting" /\ InTable(r)' => r \in waits[d]
                      /\ pc'[d] \in {"retiring", "queued", "over"} => ~InTable(r)'
    BY DEF NoneLeft
  <2>1. pc'[d] = pc[d]
    BY <1>1, OpsDiffer
  <2>2. /\ pc[d] = "waiting" /\ InTable(r) => r \in waits[d]
        /\ pc[d] \in {"retiring", "queued", "over"} => ~InTable(r)
    BY DEF Settled, NoneLeft
  <2>3. pc[d] # "idle" => target[r] \notin store \cup Ephemeral
    BY TargetTypes DEF TypeOK, Settled, DestroyedOnce
  <2>4. InTable(r)' /\ pc[d] # "idle" => InTable(r)
    BY <1>1, <2>3, OpsDiffer DEF InTable
  <2>5. QED
    BY <2>1, <2>2, <2>4
<1>5. ClosedBy'
  BY <1>1, OpsDiffer DEF Settled, ClosedBy
<1>6. QED
  BY <1>2, <1>3, <1>4, <1>5 DEF Settled

(* A destroy takes its session from the store and lists the operations     *)
(* that are in the table.                                                  *)
LEMMA DestroyRemoveSettles ==
  ASSUME TypeOK, Settled, NEW d \in Destroys, DestroyRemove(d)
  PROVE  Settled'
<1> USE DEF DestroyRemove, Goto, bookVars
<1>1. \A q \in Ops : pc'[q] = IF q = d THEN "waiting" ELSE pc[q]
  BY DEF TypeOK
<1>2. waits'[d] = {p \in Ops \ {d} : target[p] = target[d] /\ InTable(p)}
  BY DEF TypeOK
<1>3. \A e \in Destroys \ {d} : waits'[e] = waits[e]
  BY DEF TypeOK
<1>4. \A e \in Destroys : target[e] = target[d] => pc[e] = "idle"
  BY DEF Settled, DestroyedOnce
<1>5. KindsOfPc'
  BY <1>1, OpsDiffer DEF Settled, KindsOfPc
<1>6. DestroyedOnce'
  BY <1>1, <1>4, OpsDiffer DEF Settled, DestroyedOnce
<1>7. NoneLeft'
  BY <1>1, <1>2, <1>3, OpsDiffer DEF Settled, NoneLeft, InTable
<1>8. ClosedBy'
  BY <1>1, OpsDiffer DEF Settled, ClosedBy
<1>9. QED
  BY <1>5, <1>6, <1>7, <1>8 DEF Settled

(* It goes on when those it listed have left the table.                    *)
LEMMA DestroyAwaitSettles ==
  ASSUME TypeOK, Settled, NEW d \in Destroys, DestroyAwait(d)
  PROVE  Settled'
<1> USE DEF DestroyAwait, Goto, walkVars, bookVars
<1>1. \A q \in Ops : pc'[q] = IF q = d THEN "retiring" ELSE pc[q]
  BY DEF TypeOK
<1>2. KindsOfPc' /\ DestroyedOnce'
  BY <1>1, OpsDiffer DEF Settled, KindsOfPc, DestroyedOnce
<1>3. ASSUME NEW r \in Requests, target[r] = target[d] PROVE ~InTable(r)
  BY <1>3 DEF Settled, NoneLeft, InTable
<1>4. NoneLeft'
  BY <1>1, <1>3, OpsDiffer DEF Settled, NoneLeft, InTable
<1>5. ClosedBy'
  BY <1>1, OpsDiffer DEF Settled, ClosedBy
<1>6. QED
  BY <1>2, <1>4, <1>5 DEF Settled

(* It retires the session's totals.                                        *)
LEMMA DestroyRetireSettles ==
  ASSUME TypeOK, Settled, NEW d \in Destroys, DestroyRetire(d)
  PROVE  Settled'
<1> USE DEF DestroyRetire, Goto, retireSession, walkVars
<1>1. PICK to \in {"over", "queued"} : \A q \in Ops : pc'[q] = IF q = d THEN to ELSE pc[q]
  BY DEF TypeOK
<1>2. KindsOfPc' /\ DestroyedOnce'
  BY <1>1, OpsDiffer DEF Settled, KindsOfPc, DestroyedOnce
<1>3. NoneLeft'
  BY <1>1, OpsDiffer DEF Settled, NoneLeft, InTable
<1>4. ClosedBy'
  BY <1>1, OpsDiffer DEF Settled, ClosedBy
<1>5. QED
  BY <1>2, <1>3, <1>4 DEF Settled

(* It closes the session and is over.                                      *)
LEMMA DestroyCloseSettles ==
  ASSUME TypeOK, Settled, NEW d \in Destroys, DestroyClose(d)
  PROVE  Settled'
<1> USE DEF DestroyClose, Goto, walkVars, bookVars
<1>1. \A q \in Ops : pc'[q] = IF q = d THEN "over" ELSE pc[q]
  BY DEF TypeOK
<1>2. KindsOfPc' /\ DestroyedOnce'
  BY <1>1, OpsDiffer DEF Settled, KindsOfPc, DestroyedOnce
<1>3. NoneLeft'
  BY <1>1, OpsDiffer DEF Settled, NoneLeft, InTable
<1>4. ClosedBy'
  BY <1>1, OpsDiffer DEF Settled, ClosedBy
<1>5. QED
  BY <1>2, <1>3, <1>4 DEF Settled

(* A session-less request retires the totals of its own session.           *)
LEMMA RetireEphemeralSettles ==
  ASSUME TypeOK, Settled, NEW r \in Requests, RetireEphemeral(r)
  PROVE  Settled'
<1> USE DEF RetireEphemeral, Goto, retireSession, walkVars
<1>1. \A q \in Ops : pc'[q] = IF q = r THEN "finish" ELSE pc[q]
  BY DEF TypeOK
<1>2. KindsOfPc' /\ DestroyedOnce'
  BY <1>1, OpsDiffer DEF Settled, KindsOfPc, DestroyedOnce
<1>3. NoneLeft'
  BY <1>1, OpsDiffer, TargetTypes DEF Settled, NoneLeft, InTable, TypeOK
<1>4. ClosedBy'
  BY <1>1, OpsDiffer DEF Settled, ClosedBy
<1>5. QED
  BY <1>2, <1>3, <1>4 DEF Settled

(* The steps of a request keep Settled.                                    *)
LEMMA RequestSettles ==
  ASSUME TypeOK, Settled, NEW r \in Requests, RequestSteps(r)
  PROVE  Settled'
<1> USE DEF walkVars, bookVars
<1>1. r \in Ops /\ r \notin Destroys /\ r \notin Gets
  BY OpsDiffer
<1>2. CASE Start(r)
  BY <1>1, <1>2, OthersGoOn DEF Start
<1>3. CASE AcquireRead(r)
  BY <1>1, <1>3, OthersGoOn DEF AcquireRead
<1>4. CASE TakePlace(r)
  BY <1>1, <1>4, OthersGoOn DEF TakePlace
<1>5. CASE Transfer(r)
  BY <1>5 DEF Transfer, Settled, KindsOfPc, DestroyedOnce, NoneLeft, ClosedBy, InTable
<1>6. CASE EndBody(r)
  BY <1>1, <1>6, OthersGoOn DEF EndBody
<1>7. CASE Fail(r)
  BY <1>1, <1>7, OthersGoOn DEF Fail
<1>8. CASE RetireEphemeral(r)
  BY <1>8, RetireEphemeralSettles
<1>9. CASE Finish(r)
  BY <1>1, <1>9, OthersGoOn DEF Finish
<1>10. CASE Leave(r)
  BY <1>1, <1>10, OthersGoOn DEF Leave
<1>11. QED
  BY <1>2, <1>3, <1>4, <1>5, <1>6, <1>7, <1>8, <1>9, <1>10 DEF RequestSteps

(* The steps of a bandwidth.get keep Settled.                              *)
LEMMA ReaderSettles ==
  ASSUME TypeOK, Settled, NEW g \in Gets, GetSteps(g)
  PROVE  Settled'
<1> USE DEF bookVars
<1>1. g \in Ops /\ g \notin Destroys /\ g \notin Requests
  BY OpsDiffer
<1>2. CASE GetBegin(g)
  BY <1>1, <1>2, OthersGoOn DEF GetBegin, walkVars
<1>3. CASE GetLook(g)
  BY <1>1, <1>3, OthersGoOn DEF GetLook
<1>4. CASE GetSession(g)
  BY <1>4 DEF GetSession, Settled, KindsOfPc, DestroyedOnce, NoneLeft, ClosedBy, InTable
<1>5. CASE GetEnd(g)
  BY <1>1, <1>5, OthersGoOn DEF GetEnd, GetLeave
<1>6. CASE GetGiveUp(g)
  BY <1>1, <1>6, OthersGoOn DEF GetGiveUp, GetLeave
<1>7. QED
  BY <1>2, <1>3, <1>4, <1>5, <1>6 DEF GetSteps

(* The steps of a bandwidth.reset keep Settled.                            *)
LEMMA ResetSettles ==
  ASSUME TypeOK, Settled, NEW x \in Resets, ResetSteps(x)
  PROVE  Settled'
<1> USE DEF bookVars
<1>1. x \in Ops /\ x \notin Destroys /\ x \notin Requests /\ x \notin Gets
  BY OpsDiffer
<1>2. CASE ResetBegin(x)
  BY <1>1, <1>2, OthersGoOn DEF ResetBegin
<1>3. CASE ResetQueue(x)
  BY <1>1, <1>3, OthersGoOn DEF ResetQueue
<1>4. CASE ResetSession(x)
  BY <1>1, <1>4, OthersGoOn DEF ResetSession
<1>5. CASE ResetGiveUp(x)
  BY <1>1, <1>5, OthersGoOn DEF ResetGiveUp, walkVars
<1>6. CASE ResetEnd(x)
  BY <1>1, <1>6, OthersGoOn DEF ResetEnd, walkVars
<1>7. QED
  BY <1>2, <1>3, <1>4, <1>5, <1>6 DEF ResetSteps

(* Every step keeps Settled.                                               *)
LEMMA StepSettles == TypeOK /\ Settled /\ [Next]_vars => Settled'
<1> SUFFICES ASSUME TypeOK, Settled, [Next]_vars PROVE Settled'
  OBVIOUS
<1>1. ASSUME NEW d \in Destroys, DestroySteps(d) PROVE Settled'
  BY <1>1, DestroyRemoveSettles, DestroyAwaitSettles, DestroyRetireSettles, DestroyCloseSettles
     DEF DestroySteps
<1>2. CASE UNCHANGED vars
  BY <1>2 DEF vars, walkVars, bookVars, Settled, KindsOfPc, DestroyedOnce, NoneLeft, ClosedBy, InTable
<1>3. QED
  BY <1>1, <1>2, RequestSettles, ReaderSettles, ResetSettles DEF Next

(* The initial state is well typed.                                        *)
LEMMA InitTyped == Init => TypeOK
BY SessionsAssumption DEF Init, TypeOK, Ops

(* What a session's trackers show together is a natural.                   *)
LEMMA SumTyped == TypeOK => \A s \in Sessions : Sum(s) \in Nat
BY DEF TypeOK, Sum, Clients

(* The steps of a request keep the types.                                  *)
LEMMA RequestTyped ==
  ASSUME TypeOK, Settled, NEW r \in Requests, RequestSteps(r)
  PROVE  TypeOK'
<1> USE DEF TypeOK, Goto, walkVars, getVars, reqVars, bookVars
<1>1. r \in Ops
  BY OpsDiffer
<1>2. CASE Start(r)
  BY <1>1, <1>2, TargetTypes, BytesAssumption DEF Start
<1>3. CASE AcquireRead(r)
  BY <1>1, <1>3, TargetTypes, BytesAssumption DEF AcquireRead
<1>4. CASE TakePlace(r)
  BY <1>1, <1>4, TargetTypes, BytesAssumption DEF TakePlace
<1>5. CASE Transfer(r)
  BY <1>1, <1>5, TargetTypes, BytesAssumption DEF Transfer
<1>6. CASE EndBody(r)
  <2>1. bandwidthDelta(before[r], tracker[target[r]][ClientOf[r]]) \in Nat
    BY TargetTypes DEF bandwidthDelta
  <2>2. QED
    BY <1>1, <1>6, <2>1 DEF EndBody
<1>7. CASE Fail(r)
  BY <1>1, <1>7, TargetTypes, BytesAssumption DEF Fail
<1>8. CASE RetireEphemeral(r)
  <2>1. retired' \in Nat
    BY <1>8, SumTyped, TargetTypes DEF RetireEphemeral, retireSession
  <2>2. closed' \subseteq Sessions \ store
    BY <1>8, TargetTypes DEF RetireEphemeral, retireSession
  <2>3. QED
    BY <1>1, <1>8, <2>1, <2>2 DEF RetireEphemeral
<1>9. CASE Finish(r)
  BY <1>1, <1>9, TargetTypes, BytesAssumption DEF Finish
<1>10. CASE Leave(r)
  BY <1>1, <1>10, TargetTypes, BytesAssumption DEF Leave
<1>11. QED
  BY <1>2, <1>3, <1>4, <1>5, <1>6, <1>7, <1>8, <1>9, <1>10 DEF RequestSteps

(* The steps of a bandwidth.get keep the types.                            *)
LEMMA GetTyped ==
  ASSUME TypeOK, Settled, NEW g \in Gets, GetSteps(g)
  PROVE  TypeOK'
<1> USE DEF TypeOK, Goto, walkVars, getVars, reqVars, bookVars
<1>1. g \in Ops
  BY OpsDiffer
<1>2. CASE GetBegin(g)
  BY <1>1, <1>2, TargetTypes, BytesAssumption DEF GetBegin
<1>3. CASE GetLook(g)
  <2>1. todo' \in [Gets \cup Resets -> SUBSET Sessions] /\ mu' \in Gets \cup {Nobody}
    BY <1>3 DEF GetLook
  <2>2. sum' \in [Gets -> Nat] /\ base' \in [Gets -> Nat]
    BY <1>3 DEF GetLook
  <2>3. QED
    BY <1>1, <1>3, <2>1, <2>2 DEF GetLook
<1>4. CASE GetSession(g)
  <2>1. PICK s \in todo[g] : /\ sum' = [sum EXCEPT ![g] = @ + Sum(s)]
                             /\ todo' = [todo EXCEPT ![g] = @ \ {s}]
    BY <1>4 DEF GetSession
  <2>2. Sum(s) \in Nat
    BY SumTyped
  <2>3. sum' \in [Gets -> Nat] /\ todo' \in [Gets \cup Resets -> SUBSET Sessions]
    BY <2>1, <2>2
  <2>4. QED
    BY <1>4, <2>3 DEF GetSession
<1>5. CASE GetEnd(g)
  <2>1. sum' \in [Gets -> Nat] /\ base' \in [Gets -> Nat]
    BY <1>5 DEF GetEnd, GetLeave
  <2>2. todo' \in [Gets \cup Resets -> SUBSET Sessions] /\ mu' \in Gets \cup {Nobody}
    BY <1>5 DEF GetEnd, GetLeave, Unlock
  <2>3. QED
    BY <1>1, <1>5, <2>1, <2>2 DEF GetEnd, GetLeave
<1>6. CASE GetGiveUp(g)
  <2>1. sum' \in [Gets -> Nat] /\ base' \in [Gets -> Nat]
    BY <1>6 DEF GetGiveUp, GetLeave
  <2>2. todo' \in [Gets \cup Resets -> SUBSET Sessions] /\ mu' \in Gets \cup {Nobody}
    BY <1>6 DEF GetGiveUp, GetLeave, Unlock
  <2>3. QED
    BY <1>1, <1>6, <2>1, <2>2 DEF GetGiveUp, GetLeave
<1>7. QED
  BY <1>2, <1>3, <1>4, <1>5, <1>6 DEF GetSteps

(* The steps of a bandwidth.reset keep the types.                          *)
LEMMA ResetTyped ==
  ASSUME TypeOK, Settled, NEW x \in Resets, ResetSteps(x)
  PROVE  TypeOK'
<1> USE DEF TypeOK, Goto, walkVars, getVars, reqVars, bookVars
<1>1. x \in Ops
  BY OpsDiffer
<1>2. CASE ResetBegin(x)
  BY <1>1, <1>2, TargetTypes, BytesAssumption DEF ResetBegin
<1>3. CASE ResetQueue(x)
  BY <1>1, <1>3, TargetTypes, BytesAssumption DEF ResetQueue
<1>4. CASE ResetSession(x)
  <2>1. PICK s \in Sessions :
          /\ tracker' = [tracker EXCEPT ![s] = [c \in Clients |-> 0]]
          /\ erased' = erased + (IF s \in closed THEN 0 ELSE Sum(s))
          /\ todo' = [todo EXCEPT ![x] = @ \ {s}]
    BY <1>4 DEF ResetSession
  <2>2. Sum(s) \in Nat /\ [c \in Clients |-> 0] \in [Clients -> Nat]
    BY SumTyped
  <2>3. /\ tracker' \in [Sessions -> [Clients -> Nat]] /\ erased' \in Nat
        /\ todo' \in [Gets \cup Resets -> SUBSET Sessions]
    BY <2>1, <2>2
  <2>4. QED
    BY <1>1, <1>4, <2>3 DEF ResetSession
<1>5. CASE ResetGiveUp(x)
  BY <1>1, <1>5, TargetTypes, BytesAssumption DEF ResetGiveUp
<1>6. CASE ResetEnd(x)
  BY <1>1, <1>6, TargetTypes, BytesAssumption DEF ResetEnd
<1>7. QED
  BY <1>2, <1>3, <1>4, <1>5, <1>6 DEF ResetSteps

(* The steps of a destroy keep the types; that a session it retires is out *)
(* of the store needs DestroyedOnce.                                       *)
LEMMA DestroyTyped ==
  ASSUME TypeOK, Settled, NEW d \in Destroys, DestroySteps(d)
  PROVE  TypeOK'
<1> USE DEF TypeOK, Goto, walkVars, getVars, reqVars, bookVars
<1>1. d \in Ops
  BY OpsDiffer
<1>2. CASE DestroyRemove(d)
  BY <1>1, <1>2, TargetTypes, BytesAssumption DEF DestroyRemove
<1>3. CASE DestroyAwait(d)
  BY <1>1, <1>3, TargetTypes, BytesAssumption DEF DestroyAwait
<1>4. CASE DestroyRetire(d)
  <2>1. retired' \in Nat
    BY <1>4, SumTyped, TargetTypes DEF DestroyRetire, retireSession
  <2>2. closed' \subseteq Sessions \ store
    BY <1>4, TargetTypes DEF DestroyRetire, retireSession, Settled, DestroyedOnce
  <2>3. QED
    BY <1>1, <1>4, <2>1, <2>2 DEF DestroyRetire
<1>5. CASE DestroyClose(d)
  BY <1>1, <1>5, TargetTypes, BytesAssumption DEF DestroyClose
<1>6. QED
  BY <1>2, <1>3, <1>4, <1>5 DEF DestroySteps

(* Every step keeps the types.                                             *)
LEMMA StepTyped == TypeOK /\ Settled /\ [Next]_vars => TypeOK'
<1> SUFFICES ASSUME TypeOK, Settled, [Next]_vars PROVE TypeOK'
  OBVIOUS
<1>1. CASE UNCHANGED vars
  BY <1>1 DEF vars, walkVars, getVars, reqVars, bookVars, TypeOK
<1>2. QED
  BY <1>1, RequestTyped, GetTyped, ResetTyped, DestroyTyped DEF Next

(* What a get has added up, with what resets had erased before it looked   *)
(* and what the sessions it has yet to visit show now, is never more than  *)
(* all the bytes counted. One that is not reading has added up nothing.    *)
GetsAreBehind ==
  \A g \in Gets :
    /\ pc[g] = "reading" => sum[g] + base[g] + SumFunctionOnSet(Shown, todo[g]) <= counted
    /\ pc[g] # "reading" => sum[g] = 0 /\ base[g] = 0

(* The books: no byte is lost, and no get is ahead of them.                *)
Balanced == NoByteLost /\ GetsAreBehind

(* What sessions show, and its sums, are naturals.                         *)
LEMMA ShownTypes ==
  ASSUME TypeOK
  PROVE  /\ \A s \in Sessions : Shown[s] \in Nat /\ Shown[s] = Sum(s)
         /\ \A T \in SUBSET Sessions : IsFiniteSet(T) /\ SumFunctionOnSet(Shown, T) \in Nat
<1>1. \A s \in Sessions : Shown[s] \in Nat /\ Shown[s] = Sum(s)
  BY SumTyped DEF Shown
<1>2. ASSUME NEW T \in SUBSET Sessions
      PROVE  IsFiniteSet(T) /\ SumFunctionOnSet(Shown, T) \in Nat
  <2>1. IsFiniteSet(T)
    BY SessionsAssumption, FS_Subset
  <2>2. SumFunctionOnSet(Shown, T) \in Int
    BY <1>1, <2>1, SumIsInteger
  <2>3. SumFunctionOnSet(Shown, {}) <= SumFunctionOnSet(Shown, T)
    BY <1>1, <2>1, SumOfPart
  <2>4. QED
    BY <2>1, <2>2, <2>3, SumOfNothing
<1>3. QED
  BY <1>1, <1>2

(* What sessions show changes with the trackers alone.                     *)
LEMMA ShownStays ==
  ASSUME tracker' = tracker
  PROVE  Shown' = Shown
BY DEF Shown, Sum

(* When the trackers of one session change, so does every sum that has it, *)
(* by as much.                                                             *)
LEMMA ShownChanges ==
  ASSUME TypeOK, TypeOK', NEW s \in Sessions,
         \A q \in Sessions \ {s} : tracker'[q] = tracker[q],
         NEW T \in SUBSET Sessions
  PROVE  SumFunctionOnSet(Shown', T)
           = SumFunctionOnSet(Shown, T) + (IF s \in T THEN Sum(s)' - Sum(s) ELSE 0)
<1>1. IsFiniteSet(T) /\ SumFunctionOnSet(Shown, T) \in Nat
  BY ShownTypes
<1>2. \A q \in Sessions : Shown[q] \in Nat /\ Shown[q] = Sum(q)
  BY ShownTypes
<1>3. \A q \in Sessions : Shown'[q] \in Nat /\ Shown'[q] = Sum(q)'
  BY SumTyped DEF Shown, Sum, TypeOK, Clients
<1>4. \A q \in Sessions \ {s} : Shown'[q] = Shown[q]
  BY DEF Shown, Sum
<1>5. CASE s \in T
  <2>1. SumFunctionOnSet(Shown', T) = SumFunctionOnSet(Shown, T) + (Shown'[s] - Shown[s])
    BY <1>1, <1>2, <1>3, <1>4, <1>5, SumChanges
  <2>2. QED
    BY <1>2, <1>3, <1>5, <2>1
<1>6. CASE s \notin T
  <2>1. SumFunctionOnSet(Shown', T) = SumFunctionOnSet(Shown, T)
    BY <1>1, <1>4, <1>6, SumAgrees
  <2>2. QED
    BY <1>1, <1>6, <2>1
<1>7. QED
  BY <1>5, <1>6

(* A step that touches neither the books nor a get's.                      *)
LEMMA QuietBalances ==
  ASSUME Balanced, UNCHANGED <<tracker, retired, closed, counted, erased>>,
         \A g \in Gets : /\ pc'[g] = pc[g] /\ todo'[g] = todo[g]
                         /\ sum'[g] = sum[g] /\ base'[g] = base[g]
  PROVE  Balanced'
<1>1. Shown' = Shown
  BY ShownStays
<1>2. NoByteLost'
  BY <1>1 DEF Balanced, NoByteLost, Shown
<1>3. GetsAreBehind'
  BY <1>1 DEF Balanced, GetsAreBehind
<1>4. QED
  BY <1>2, <1>3 DEF Balanced

(* The totals of a session that is not retired go from its trackers to the *)
(* retired total: the sum over the open sessions loses what the total      *)
(* gains.                                                                  *)
LEMMA RetireBalances ==
  ASSUME TypeOK, Balanced, NEW s \in Sessions, s \notin closed, retireSession(s),
         UNCHANGED <<tracker, counted, erased>>,
         \A g \in Gets : /\ pc'[g] = pc[g] /\ todo'[g] = todo[g]
                         /\ sum'[g] = sum[g] /\ base'[g] = base[g]
  PROVE  Balanced'
<1>1. Shown' = Shown
  BY ShownStays
<1>2. GetsAreBehind'
  BY <1>1 DEF Balanced, GetsAreBehind
<1>3. Sessions \ closed' = (Sessions \ closed) \ {s}
  BY DEF retireSession
<1>4. SumFunctionOnSet(Shown, Sessions \ closed)
        = Sum(s) + SumFunctionOnSet(Shown, (Sessions \ closed) \ {s})
  <2>1. IsFiniteSet(Sessions \ closed) /\ \A q \in Sessions \ closed : Shown[q] \in Int
    BY ShownTypes
  <2>2. SumFunctionOnSet(Shown, Sessions \ closed)
          = Shown[s] + SumFunctionOnSet(Shown, (Sessions \ closed) \ {s})
    BY <2>1, SumRemoves
  <2>3. QED
    BY <2>2, ShownTypes
<1>5. /\ SumFunctionOnSet(Shown, (Sessions \ closed) \ {s}) \in Nat
      /\ Sum(s) \in Nat /\ retired \in Nat /\ erased \in Nat
  BY ShownTypes, SumTyped DEF TypeOK
<1>6. retired + SumFunctionOnSet(Shown, Sessions \ closed) + erased = counted
  BY DEF Balanced, NoByteLost, Shown
<1>7. retired' + SumFunctionOnSet(Shown', Sessions \ closed') + erased' = counted'
  <2>1. SumFunctionOnSet(Shown', Sessions \ closed') = SumFunctionOnSet(Shown, (Sessions \ closed) \ {s})
    BY <1>1, <1>3
  <2>2. retired' = retired + Sum(s) /\ erased' = erased /\ counted' = counted
    BY DEF retireSession
  <2>3. QED
    BY <1>4, <1>5, <1>6, <2>1, <2>2
<1>8. NoByteLost'
  BY <1>7 DEF NoByteLost, Shown
<1>9. QED
  BY <1>2, <1>8 DEF Balanced

(* A byte moved is counted on the tracker of an open session: a request in *)
(* its place is in the table, so nobody has retired its session.           *)
LEMMA TransferBalances ==
  ASSUME TypeOK, TypeOK', Settled, Balanced, NEW r \in Requests, Transfer(r)
  PROVE  Balanced'
<1> USE DEF Transfer
<1> DEFINE s == target[r]
<1>1. s \in Sessions /\ ClientOf[r] \in Clients
  BY TargetTypes DEF TypeOK
<1>2. s \notin closed
  <2>1. SUFFICES ASSUME s \in closed PROVE FALSE
    OBVIOUS
  <2>2. ASSUME NEW d \in Destroys, target[d] = s, pc[d] \in {"queued", "over"} PROVE FALSE
    BY <2>2 DEF Settled, NoneLeft, InTable
  <2>3. ASSUME NEW q \in Requests, target[q] = s, s \in Ephemeral,
               pc[q] \in {"finish", "leaving", "over"}
        PROVE  FALSE
    <3>1. q = r
      BY <2>3, TargetTypes DEF TypeOK
    <3>2. QED
      BY <2>3, <3>1
  <2>4. QED
    BY <2>1, <2>2, <2>3 DEF Settled, ClosedBy
<1>3. Sum(s)' = Sum(s) + 1 /\ Sum(s) \in Nat
  <2>1. \A c \in Clients : tracker[s][c] \in Nat
    BY <1>1 DEF TypeOK
  <2>2. \A c \in Clients : tracker'[s][c] = IF c = ClientOf[r] THEN tracker[s][c] + 1 ELSE tracker[s][c]
    BY <1>1 DEF TypeOK
  <2>3. CASE ClientOf[r] = "client"
    BY <2>1, <2>2, <2>3 DEF Sum, Clients
  <2>4. CASE ClientOf[r] = "redirect"
    BY <2>1, <2>2, <2>4 DEF Sum, Clients
  <2>5. QED
    BY <1>1, <2>3, <2>4 DEF Clients
<1>4. \A q \in Sessions \ {s} : tracker'[q] = tracker[q]
  BY DEF TypeOK
<1>5. ASSUME NEW T \in SUBSET Sessions
      PROVE  /\ SumFunctionOnSet(Shown', T) = SumFunctionOnSet(Shown, T) + (IF s \in T THEN 1 ELSE 0)
             /\ SumFunctionOnSet(Shown, T) \in Nat
  BY <1>1, <1>3, <1>4, ShownChanges, ShownTypes
<1>6. retired + SumFunctionOnSet(Shown, Sessions \ closed) + erased = counted
  BY DEF Balanced, NoByteLost, Shown
<1>7. retired' + SumFunctionOnSet(Shown', Sessions \ closed') + erased' = counted'
  <2>1. /\ SumFunctionOnSet(Shown', Sessions \ closed) = SumFunctionOnSet(Shown, Sessions \ closed) + 1
        /\ SumFunctionOnSet(Shown, Sessions \ closed) \in Nat
    BY <1>1, <1>2, <1>5
  <2>2. retired \in Nat /\ erased \in Nat
    BY DEF TypeOK
  <2>3. closed' = closed /\ retired' = retired /\ erased' = erased /\ counted' = counted + 1
    OBVIOUS
  <2>4. QED
    BY <1>6, <2>1, <2>2, <2>3
<1>8. ASSUME NEW g \in Gets, pc[g] = "reading"
      PROVE  sum[g] + base[g] + SumFunctionOnSet(Shown', todo[g]) <= counted + 1
  <2>1. sum[g] + base[g] + SumFunctionOnSet(Shown, todo[g]) <= counted
    BY <1>8 DEF Balanced, GetsAreBehind
  <2>2. todo[g] \in SUBSET Sessions /\ sum[g] \in Nat /\ base[g] \in Nat /\ counted \in Nat
    BY DEF TypeOK
  <2>3. QED
    BY <1>5, <2>1, <2>2
<1>9. GetsAreBehind'
  BY <1>8 DEF Balanced, GetsAreBehind, walkVars, getVars
<1>10. NoByteLost'
  BY <1>7 DEF NoByteLost, Shown
<1>11. QED
  BY <1>9, <1>10 DEF Balanced

(* What a reset takes from an open session's trackers is erased; what it   *)
(* takes from a retired one's is in the retired total already.             *)
LEMMA ResetSessionBalances ==
  ASSUME TypeOK, TypeOK', Balanced, NEW x \in Resets, ResetSession(x)
  PROVE  Balanced'
<1> USE DEF ResetSession, Goto
<1>1. PICK s \in Sessions :
         /\ tracker' = [tracker EXCEPT ![s] = [c \in Clients |-> 0]]
         /\ erased' = erased + (IF s \in closed THEN 0 ELSE Sum(s))
         /\ todo' = [todo EXCEPT ![x] = @ \ {s}]
  OBVIOUS
<1>2. Sum(s)' = 0 /\ Sum(s) \in Nat
  BY <1>1, SumTyped DEF TypeOK, Sum, Clients
<1>3. \A q \in Sessions \ {s} : tracker'[q] = tracker[q]
  BY <1>1 DEF TypeOK
<1>4. ASSUME NEW T \in SUBSET Sessions
      PROVE  /\ SumFunctionOnSet(Shown', T) = SumFunctionOnSet(Shown, T) - (IF s \in T THEN Sum(s) ELSE 0)
             /\ SumFunctionOnSet(Shown, T) \in Nat
  BY <1>2, <1>3, ShownChanges, ShownTypes
<1>5. retired + SumFunctionOnSet(Shown, Sessions \ closed) + erased = counted
  BY DEF Balanced, NoByteLost, Shown
<1>6. retired' + SumFunctionOnSet(Shown', Sessions \ closed') + erased' = counted'
  <2>1. /\ SumFunctionOnSet(Shown', Sessions \ closed)
             = SumFunctionOnSet(Shown, Sessions \ closed) - (IF s \in closed THEN 0 ELSE Sum(s))
        /\ SumFunctionOnSet(Shown, Sessions \ closed) \in Nat
    BY <1>2, <1>4
  <2>2. retired \in Nat /\ erased \in Nat
    BY DEF TypeOK
  <2>3. closed' = closed /\ retired' = retired /\ counted' = counted
    OBVIOUS
  <2>4. QED
    BY <1>1, <1>2, <1>5, <2>1, <2>2, <2>3
<1>7. ASSUME NEW g \in Gets
      PROVE  pc'[g] = pc[g] /\ todo'[g] = todo[g] /\ sum'[g] = sum[g] /\ base'[g] = base[g]
  BY <1>1, OpsDiffer DEF TypeOK, getVars
<1>8. ASSUME NEW g \in Gets, pc[g] = "reading"
      PROVE  sum[g] + base[g] + SumFunctionOnSet(Shown', todo[g]) <= counted
  <2>1. sum[g] + base[g] + SumFunctionOnSet(Shown, todo[g]) <= counted
    BY <1>8 DEF Balanced, GetsAreBehind
  <2>2. todo[g] \in SUBSET Sessions /\ sum[g] \in Nat /\ base[g] \in Nat /\ counted \in Nat
    BY DEF TypeOK
  <2>3. QED
    BY <1>2, <1>4, <2>1, <2>2
<1>9. GetsAreBehind'
  BY <1>7, <1>8 DEF Balanced, GetsAreBehind
<1>10. NoByteLost'
  BY <1>6 DEF NoByteLost, Shown
<1>11. QED
  BY <1>9, <1>10 DEF Balanced

(* At its end a reset erases the retired total.                            *)
LEMMA ResetEndBalances ==
  ASSUME TypeOK, Balanced, NEW x \in Resets, ResetEnd(x)
  PROVE  Balanced'
<1> USE DEF ResetEnd, Goto, getVars, walkVars
<1>1. Shown' = Shown
  BY ShownStays
<1>2. \A g \in Gets : pc'[g] = pc[g]
  BY OpsDiffer DEF TypeOK
<1>3. retired + SumFunctionOnSet(Shown, Sessions \ closed) + erased = counted
  BY DEF Balanced, NoByteLost, Shown
<1>4. SumFunctionOnSet(Shown, Sessions \ closed) \in Nat /\ retired \in Nat /\ erased \in Nat
  BY ShownTypes DEF TypeOK
<1>5. retired' + SumFunctionOnSet(Shown', Sessions \ closed') + erased' = counted'
  BY <1>1, <1>3, <1>4
<1>6. NoByteLost'
  BY <1>5 DEF NoByteLost, Shown
<1>7. GetsAreBehind'
  BY <1>1, <1>2 DEF Balanced, GetsAreBehind
<1>8. QED
  BY <1>6, <1>7 DEF Balanced

(* A get starts from the retired total and a part of the open sessions,    *)
(* and with every session moves to its sum what that session shows.        *)
LEMMA GetBalances ==
  ASSUME TypeOK, Balanced, NEW g \in Gets, GetSteps(g)
  PROVE  Balanced'
<1>0. UNCHANGED <<tracker, retired, closed, counted, erased>>
  BY DEF GetSteps, GetBegin, GetLook, GetSession, GetEnd, GetGiveUp, bookVars
<1>1. Shown' = Shown
  BY <1>0, ShownStays
<1>2. NoByteLost'
  BY <1>0, <1>1 DEF Balanced, NoByteLost, Shown
<1>3. retired + SumFunctionOnSet(Shown, Sessions \ closed) + erased = counted
  BY DEF Balanced, NoByteLost, Shown
<1>4. ASSUME NEW T \in SUBSET (Sessions \ closed)
      PROVE  /\ SumFunctionOnSet(Shown, T) \in Nat
             /\ SumFunctionOnSet(Shown, T) <= SumFunctionOnSet(Shown, Sessions \ closed)
  <2>1. IsFiniteSet(Sessions \ closed) /\ \A q \in Sessions \ closed : Shown[q] \in Nat
    BY ShownTypes
  <2>2. QED
    BY <2>1, SumOfPart, ShownTypes
<1>5. ASSUME NEW f \in Gets, f # g
      PROVE  pc'[f] = pc[f] /\ todo'[f] = todo[f] /\ sum'[f] = sum[f] /\ base'[f] = base[f]
  <2> USE DEF Goto, TypeOK, getVars, walkVars
  <2>1. CASE GetBegin(g)
    BY <1>5, <2>1 DEF GetBegin
  <2>2. CASE GetLook(g)
    BY <1>5, <2>2 DEF GetLook
  <2>3. CASE GetSession(g)
    BY <1>5, <2>3 DEF GetSession
  <2>4. CASE GetLeave(g)
    BY <1>5, <2>4 DEF GetLeave
  <2>5. QED
    BY <2>1, <2>2, <2>3, <2>4 DEF GetSteps, GetEnd, GetGiveUp
<1>6. ASSUME pc'[g] = "reading"
      PROVE  sum'[g] + base'[g] + SumFunctionOnSet(Shown, todo'[g]) <= counted
  <2>1. CASE GetLook(g)
    <3>1. /\ todo'[g] \in SUBSET (Sessions \ closed) /\ base'[g] = erased
          /\ sum'[g] = retired \/ sum'[g] = 0
      BY <2>1 DEF GetLook, TypeOK, Balanced, GetsAreBehind
    <3>2. retired \in Nat /\ erased \in Nat
      BY DEF TypeOK
    <3>3. QED
      <4>1. /\ SumFunctionOnSet(Shown, todo'[g]) \in Nat
            /\ SumFunctionOnSet(Shown, todo'[g]) <= SumFunctionOnSet(Shown, Sessions \ closed)
            /\ SumFunctionOnSet(Shown, Sessions \ closed) \in Nat
        BY <1>4, <3>1
      <4>2. QED
        BY <1>3, <3>1, <3>2, <4>1
  <2>2. CASE GetSession(g)
    <3>1. PICK s \in todo[g] : sum'[g] = sum[g] + Sum(s) /\ todo'[g] = todo[g] \ {s}
      BY <2>2 DEF GetSession, TypeOK
    <3>2. base'[g] = base[g] /\ pc[g] = "reading"
      BY <2>2 DEF GetSession
    <3>3. SumFunctionOnSet(Shown, todo[g]) = Sum(s) + SumFunctionOnSet(Shown, todo[g] \ {s})
      <4>1. todo[g] \in SUBSET Sessions
        BY DEF TypeOK
      <4>2. SumFunctionOnSet(Shown, todo[g]) = Shown[s] + SumFunctionOnSet(Shown, todo[g] \ {s})
        BY <4>1, SumRemoves, ShownTypes
      <4>3. QED
        BY <4>1, <4>2, ShownTypes
    <3>4. sum[g] + base[g] + SumFunctionOnSet(Shown, todo[g]) <= counted
      BY <3>2 DEF Balanced, GetsAreBehind
    <3>5. /\ SumFunctionOnSet(Shown, todo[g] \ {s}) \in Nat /\ Sum(s) \in Nat
          /\ sum[g] \in Nat /\ base[g] \in Nat /\ counted \in Nat
      <4>1. todo[g] \in SUBSET Sessions
        BY DEF TypeOK
      <4>2. QED
        BY <4>1, ShownTypes, SumTyped DEF TypeOK
    <3>6. QED
      BY <3>1, <3>2, <3>3, <3>4, <3>5
  <2>3. CASE ~(GetLook(g) \/ GetSession(g))
    BY <1>6, <2>3, OpsDiffer DEF GetSteps, GetBegin, GetEnd, GetGiveUp, GetLeave, Goto, TypeOK
  <2>4. QED
    BY <2>1, <2>2, <2>3
<1>7. ASSUME pc'[g] # "reading" PROVE sum'[g] = 0 /\ base'[g] = 0
  BY <1>7, OpsDiffer DEF GetSteps, GetBegin, GetLook, GetSession, GetEnd, GetGiveUp, GetLeave, Goto,
     TypeOK, getVars, Balanced, GetsAreBehind
<1>8. GetsAreBehind'
  BY <1>0, <1>1, <1>5, <1>6, <1>7 DEF Balanced, GetsAreBehind
<1>9. QED
  BY <1>2, <1>8 DEF Balanced

(* The steps of a request keep the books.                                  *)
LEMMA RequestBalances ==
  ASSUME TypeOK, TypeOK', Settled, Balanced, NEW r \in Requests, RequestSteps(r)
  PROVE  Balanced'
<1> USE DEF walkVars, getVars, bookVars
<1>1. \A to : Goto(r, to) => \A g \in Gets : pc'[g] = pc[g]
  BY OpsDiffer DEF Goto, TypeOK
<1>2. CASE RetireEphemeral(r)
  <2> DEFINE s == target[r]
  <2>1. s \in Sessions
    BY TargetTypes DEF TypeOK
  <2>2. s \notin closed
    <3>1. \A d \in Destroys : target[d] # s
      BY <1>2, TargetTypes DEF TypeOK, RetireEphemeral
    <3>2. \A q \in Requests : target[q] = s => q = r
      BY <1>2, TargetTypes DEF TypeOK, RetireEphemeral
    <3>3. QED
      BY <1>2, <3>1, <3>2 DEF Settled, ClosedBy, RetireEphemeral
  <2>3. QED
    BY <1>1, <1>2, <2>1, <2>2, RetireBalances DEF RetireEphemeral
<1>3. CASE Transfer(r)
  BY <1>3, TransferBalances
<1>4. CASE Start(r) \/ AcquireRead(r) \/ TakePlace(r) \/ EndBody(r)
  BY <1>1, <1>4, QuietBalances DEF Start, AcquireRead, TakePlace, EndBody
<1>5. CASE Fail(r) \/ Finish(r) \/ Leave(r)
  BY <1>1, <1>5, QuietBalances DEF Fail, Finish, Leave
<1>6. QED
  BY <1>2, <1>3, <1>4, <1>5 DEF RequestSteps

(* The steps of a reset keep the books.                                    *)
LEMMA ResetBalances ==
  ASSUME TypeOK, TypeOK', Settled, Balanced, NEW x \in Resets, ResetSteps(x)
  PROVE  Balanced'
<1> USE DEF walkVars, getVars, bookVars
<1>1. \A to : Goto(x, to) => \A g \in Gets : pc'[g] = pc[g]
  BY OpsDiffer DEF Goto, TypeOK
<1>2. CASE ResetBegin(x)
  <2>1. \A g \in Gets : todo'[g] = todo[g]
    BY <1>2, OpsDiffer DEF ResetBegin, TypeOK
  <2>2. QED
    BY <1>1, <1>2, <2>1, QuietBalances DEF ResetBegin
<1>3. CASE ResetQueue(x) \/ ResetGiveUp(x)
  BY <1>1, <1>3, QuietBalances DEF ResetQueue, ResetGiveUp
<1>4. QED
  BY <1>2, <1>3, ResetSessionBalances, ResetEndBalances DEF ResetSteps

(* The steps of a destroy keep the books: a session is retired once.       *)
LEMMA DestroyBalances ==
  ASSUME TypeOK, TypeOK', Settled, Balanced, NEW d \in Destroys, DestroySteps(d)
  PROVE  Balanced'
<1> USE DEF walkVars, getVars, bookVars
<1>1. \A to : Goto(d, to) => \A g \in Gets : pc'[g] = pc[g]
  BY OpsDiffer DEF Goto, TypeOK
<1>2. CASE DestroyRetire(d)
  <2> DEFINE s == target[d]
  <2>1. s \in Sessions \ Ephemeral
    BY TargetTypes DEF TypeOK
  <2>2. s \notin closed
    BY <1>2, <2>1 DEF Settled, ClosedBy, DestroyedOnce, DestroyRetire
  <2>3. QED
    BY <1>1, <1>2, <2>1, <2>2, RetireBalances DEF DestroyRetire
<1>3. CASE DestroyRemove(d) \/ DestroyAwait(d) \/ DestroyClose(d)
  BY <1>1, <1>3, QuietBalances DEF DestroyRemove, DestroyAwait, DestroyClose
<1>4. QED
  BY <1>2, <1>3 DEF DestroySteps

(* Every step keeps the books.                                             *)
LEMMA StepBalances ==
  TypeOK /\ TypeOK' /\ Settled /\ Balanced /\ [Next]_vars => Balanced'
<1> SUFFICES ASSUME TypeOK, TypeOK', Settled, Balanced, [Next]_vars PROVE Balanced'
  OBVIOUS
<1>1. CASE UNCHANGED vars
  BY <1>1, QuietBalances DEF vars, walkVars, getVars, bookVars
<1>2. QED
  BY <1>1, RequestBalances, GetBalances, ResetBalances, DestroyBalances DEF Next

(* At first nothing is counted and nobody has begun.                       *)
LEMMA InitSettles == Init => Settled /\ Balanced
<1> SUFFICES ASSUME Init PROVE Settled /\ Balanced
  OBVIOUS
<1>1. \A p \in Ops : pc[p] = "idle"
  BY DEF Init
<1>2. Settled
  <2>1. KindsOfPc
    BY <1>1, OpsDiffer DEF KindsOfPc
  <2>2. DestroyedOnce /\ NoneLeft
    BY <1>1, OpsDiffer DEF DestroyedOnce, NoneLeft
  <2>3. ClosedBy
    BY DEF Init, ClosedBy
  <2>4. QED
    BY <2>1, <2>2, <2>3 DEF Settled
<1>3. SumFunctionOnSet(Shown, Sessions) = 0
  <2>1. \A s \in Sessions : Shown[s] = 0
    BY DEF Init, Shown, Sum, Clients
  <2>2. QED
    BY <2>1, SessionsAssumption, SumOfZeros
<1>4. NoByteLost
  <2>1. Sessions \ closed = Sessions /\ retired = 0 /\ erased = 0 /\ counted = 0
    BY DEF Init
  <2>2. SumFunctionOnSet(Shown, Sessions \ closed) = 0
    BY <1>3, <2>1
  <2>3. retired + SumFunctionOnSet(Shown, Sessions \ closed) + erased = counted
    BY <2>1, <2>2
  <2>4. QED
    BY <2>3 DEF NoByteLost, Shown
<1>5. GetsAreBehind
  BY <1>1, OpsDiffer DEF Init, GetsAreBehind
<1>6. QED
  BY <1>2, <1>4, <1>5 DEF Balanced

(* Types, who retires a session and the books, in every state: the         *)
(* invariant BooksAlwaysBalance rests on.                                  *)
THEOREM BooksInvariance == Spec => [](TypeOK /\ Settled /\ Balanced)
<1>1. Init => TypeOK /\ Settled /\ Balanced
  BY InitTyped, InitSettles
<1>2. TypeOK /\ Settled /\ Balanced /\ [Next]_vars => (TypeOK /\ Settled /\ Balanced)'
  BY StepTyped, StepSettles, StepBalances
<1>3. QED
  BY <1>1, <1>2, PTL DEF Spec

(* No byte is lost from the totals or counted twice, and no bandwidth.get  *)
(* reports more than was moved, with any number of requests, gets, resets  *)
(* and destroys in any order.                                              *)
THEOREM BooksAlwaysBalance == Spec => []BooksBalance
<1>1. TypeOK /\ Balanced => BooksBalance
  <2> SUFFICES ASSUME TypeOK, Balanced PROVE NeverOvercounts
    BY DEF BooksBalance, Balanced
  <2>1. ASSUME NEW g \in Gets PROVE sum[g] + base[g] <= counted
    <3>1. sum[g] \in Nat /\ base[g] \in Nat /\ counted \in Nat
      BY DEF TypeOK
    <3>2. CASE pc[g] = "reading"
      <4>1. sum[g] + base[g] + SumFunctionOnSet(Shown, todo[g]) <= counted
        BY <3>2 DEF Balanced, GetsAreBehind
      <4>2. SumFunctionOnSet(Shown, todo[g]) \in Nat
        BY ShownTypes DEF TypeOK
      <4>3. QED
        BY <3>1, <4>1, <4>2
    <3>3. CASE pc[g] # "reading"
      BY <3>1, <3>3 DEF Balanced, GetsAreBehind
    <3>4. QED
      BY <3>2, <3>3
  <2>2. QED
    BY <2>1 DEF NeverOvercounts
<1>2. QED
  BY <1>1, BooksInvariance, PTL
=============================================================================
