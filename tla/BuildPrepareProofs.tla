-------------------------- MODULE BuildPrepareProofs --------------------------
(***************************************************************************)
(* What zmm_bg_prepare finds and counts, for every graph and every disk;   *)
(* and what that means for a session of builds.                            *)
(***************************************************************************)
EXTENDS BuildPrepare, FiniteSetTheorems, SequenceTheorems, TLAPS

-----------------------------------------------------------------------------
(* Loops.                                                                  *)

(* The ends of the runs of a loop from s.                                  *)
IsRun(body, r, n) ==
  /\ n \in Nat /\ r \in [Nat -> DOMAIN body]
  /\ body[r[n]] = r[n]
  /\ \A i \in Nat : i < n => body[r[i]] # r[i] /\ r[i + 1] = body[r[i]]

EndsOf(body, s) ==
  {t \in DOMAIN body :
     \E n \in Nat : \E r \in [Nat -> DOMAIN body] :
       IsRun(body, r, n) /\ r[0] = s /\ r[n] = t}

(* A state that the body leaves as it is is where the loop ends.           *)
LEMMA EndsWhereSettled ==
  ASSUME NEW body, NEW s \in DOMAIN body, body[s] = s
  PROVE  EndsOf(body, s) = {s}
<1>1. ASSUME NEW t \in EndsOf(body, s) PROVE t = s
  <2>1. PICK n \in Nat, r \in [Nat -> DOMAIN body] :
          IsRun(body, r, n) /\ r[0] = s /\ r[n] = t
    BY <1>1 DEF EndsOf
  <2>2. ~(0 < n)
    BY <2>1 DEF IsRun
  <2> QED BY <2>1, <2>2
<1>2. s \in EndsOf(body, s)
  <2> DEFINE r == [i \in Nat |-> s]
  <2>1. IsRun(body, r, 0) /\ r[0] = s
    BY DEF IsRun
  <2> QED BY <2>1 DEF EndsOf
<1> QED BY <1>1, <1>2

(* Elsewhere it ends where it ends after one turn.                         *)
LEMMA EndsAfterOneTurn ==
  ASSUME NEW body, NEW s \in DOMAIN body, body[s] \in DOMAIN body, body[s] # s
  PROVE  EndsOf(body, s) = EndsOf(body, body[s])
<1>1. ASSUME NEW t \in EndsOf(body, s) PROVE t \in EndsOf(body, body[s])
  <2>1. PICK n \in Nat, r \in [Nat -> DOMAIN body] :
          IsRun(body, r, n) /\ r[0] = s /\ r[n] = t
    BY <1>1 DEF EndsOf
  <2> DEFINE q == [i \in Nat |-> r[i + 1]]
  <2>2. n # 0
    BY <2>1 DEF IsRun
  <2>3. n - 1 \in Nat /\ q \in [Nat -> DOMAIN body]
    BY <2>2
  <2>4. r[0 + 1] = body[s]
    BY <2>1, <2>2 DEF IsRun
  <2>5. q[0] = body[s] /\ q[n - 1] = t
    BY <2>1, <2>3, <2>4
  <2>6. IsRun(body, q, n - 1)
    <3>1. body[q[n - 1]] = q[n - 1]
      BY <2>1, <2>3 DEF IsRun
    <3>2. ASSUME NEW i \in Nat, i < n - 1
          PROVE  body[q[i]] # q[i] /\ q[i + 1] = body[q[i]]
      <4>1. i + 1 < n /\ i + 1 \in Nat
        BY <3>2
      <4>2. body[r[i + 1]] # r[i + 1] /\ r[(i + 1) + 1] = body[r[i + 1]]
        BY <4>1, <2>1 DEF IsRun
      <4> QED BY <4>1, <4>2
    <3> HIDE DEF q
    <3> QED BY <2>3, <3>1, <3>2 DEF IsRun
  <2> HIDE DEF q
  <2> QED BY <2>1, <2>3, <2>5, <2>6 DEF EndsOf
<1>2. ASSUME NEW t \in EndsOf(body, body[s]) PROVE t \in EndsOf(body, s)
  <2>1. PICK n \in Nat, r \in [Nat -> DOMAIN body] :
          IsRun(body, r, n) /\ r[0] = body[s] /\ r[n] = t
    BY <1>2 DEF EndsOf
  <2> DEFINE q == [i \in Nat |-> IF i = 0 THEN s ELSE r[i - 1]]
  <2>2. n + 1 \in Nat /\ q \in [Nat -> DOMAIN body]
    OBVIOUS
  <2>3. q[0] = s /\ q[n + 1] = t /\ q[1] = body[s]
    BY <2>1, <2>2
  <2>4. ASSUME NEW i \in Nat PROVE q[i + 1] = r[i]
    OBVIOUS
  <2> HIDE DEF q
  <2>5. IsRun(body, q, n + 1)
    <3>1. body[q[n + 1]] = q[n + 1]
      BY <2>1, <2>4 DEF IsRun
    <3>2. ASSUME NEW i \in Nat, i < n + 1
          PROVE  body[q[i]] # q[i] /\ q[i + 1] = body[q[i]]
      <4>1. CASE i = 0
        BY <4>1, <2>3
      <4>2. CASE i # 0
        <5>1. i - 1 \in Nat /\ i - 1 < n /\ (i - 1) + 1 = i
          BY <3>2, <4>2
        <5>2. q[i] = r[i - 1] /\ q[i + 1] = r[i]
          BY <5>1, <2>4
        <5>3. body[r[i - 1]] # r[i - 1] /\ r[(i - 1) + 1] = body[r[i - 1]]
          BY <5>1, <2>1 DEF IsRun
        <5> QED BY <5>1, <5>2, <5>3
      <4> QED BY <4>1, <4>2
    <3> QED BY <2>2, <3>1, <3>2 DEF IsRun
  <2> QED BY <2>1, <2>2, <2>3, <2>5 DEF EndsOf
<1> QED BY <1>1, <1>2

(* So there is a function as Loop describes it, and Loop is one.           *)
LEMMA LoopTurns ==
  ASSUME NEW S, NEW body \in [S -> S]
  PROVE  \A s \in S :
           Loop(body)[s] = IF body[s] = s THEN s ELSE Loop(body)[body[s]]
<1> DEFINE Turn(f) ==
      [s \in DOMAIN body |->
         LET next == body[s] IN IF next = s THEN s ELSE f[next]]
           F == [s \in DOMAIN body |-> CHOOSE t : t \in EndsOf(body, s)]
<1>1. F = Turn(F)
  <2>1. ASSUME NEW s \in S PROVE F[s] = Turn(F)[s]
    <3>1. CASE body[s] = s
      BY <3>1, EndsWhereSettled
    <3>2. CASE body[s] # s
      <4>1. body[s] \in S /\ DOMAIN body = S
        OBVIOUS
      <4>2. EndsOf(body, s) = EndsOf(body, body[s])
        BY <3>2, <4>1, EndsAfterOneTurn
      <4> QED BY <3>2, <4>1, <4>2
    <3> QED BY <3>1, <3>2
  <2> QED BY <2>1
<1>2. Loop(body) = CHOOSE f : f = Turn(f)
  BY DEF Loop
<1>3. Loop(body) = Turn(Loop(body))
  BY <1>1, <1>2
<1> QED BY <1>3

(* A loop that keeps an invariant I, and whose turns bring it down in some   *)
(* well-founded order, ends in I.                                            *)
Keeps(body, I) == \A s \in I : body[s] \in I

EndsIn(body, I) ==
  \A s \in I : Loop(body)[s] \in I /\ body[Loop(body)[s]] = Loop(body)[s]

ComesDown(body, I, m, R) ==
  \A s \in I : body[s] # s => <<m[body[s]], m[s]>> \in R

LEMMA LoopEnds ==
  ASSUME NEW S, NEW body, body \in [S -> S],
         NEW I, I \subseteq S, Keeps(body, I),
         NEW U, NEW R, IsWellFoundedOn(R, U), NEW m, m \in [I -> U],
         ComesDown(body, I, m, R)
  PROVE  EndsIn(body, I)
<1> USE DEF Keeps, ComesDown
<1> DEFINE Good(s) == Loop(body)[s] \in I /\ body[Loop(body)[s]] = Loop(body)[s]
           Bad == {s \in I : ~Good(s)}
<1> SUFFICES ASSUME Bad # {} PROVE FALSE
  BY DEF EndsIn
<1>1. {m[s] : s \in Bad} \subseteq U /\ {m[s] : s \in Bad} # {}
  OBVIOUS
<1>2. PICK x \in {m[s] : s \in Bad} :
        \A y \in {m[s] : s \in Bad} : <<y, x>> \notin R
  BY <1>1, WFMin
<1>3. PICK s \in Bad : x = m[s]
  BY <1>2
<1>4. Loop(body)[s] = IF body[s] = s THEN s ELSE Loop(body)[body[s]]
  BY <1>3, LoopTurns
<1>5. body[s] # s
  BY <1>3, <1>4
<1>6. body[s] \in I /\ body[s] \notin Bad
  BY <1>2, <1>3, <1>5
<1> QED BY <1>3, <1>4, <1>5, <1>6

(* A search comes to a new node, or its stack becomes shorter.              *)
SearchOrder(N) ==
  LexPairOrdering(StrictSubsetOrdering(N), OpToRel(<, Nat), FiniteSubsetsOf(N), Nat)

LEMMA SearchOrderWellFounded ==
  ASSUME NEW N
  PROVE  IsWellFoundedOn(SearchOrder(N), FiniteSubsetsOf(N) \X Nat)
<1>1. IsWellFoundedOn(StrictSubsetOrdering(N), FiniteSubsetsOf(N))
  BY FS_StrictSubsetOrderingWellFounded
<1>2. IsWellFoundedOn(OpToRel(<, Nat), Nat)
  BY NatLessThanWellFounded
<1> QED BY <1>1, <1>2, WFLexPairOrdering DEF SearchOrder

LEMMA SearchOrderHolds ==
  ASSUME NEW N, NEW A \in FiniteSubsetsOf(N), NEW B \in FiniteSubsetsOf(N),
         NEW k \in Nat, NEW l \in Nat,
         (A \subseteq B /\ A # B) \/ (A = B /\ k < l)
  PROVE  << <<A, k>>, <<B, l>> >> \in SearchOrder(N)
<1>1. A \in SUBSET N /\ B \in SUBSET N
  BY DEF FiniteSubsetsOf
<1>2. CASE A \subseteq B /\ A # B
  <2>1. <<A, B>> \in StrictSubsetOrdering(N)
    BY <1>1, <1>2 DEF StrictSubsetOrdering
  <2> QED BY <2>1 DEF SearchOrder, LexPairOrdering
<1>3. CASE A = B /\ k < l
  <2>1. <<k, l>> \in OpToRel(<, Nat)
    BY <1>3 DEF OpToRel
  <2> QED BY <1>3, <2>1 DEF SearchOrder, LexPairOrdering
<1> QED BY <1>2, <1>3

(* A search ends: each turn comes to a new node of finitely many, or makes   *)
(* the stack shorter.                                                        *)
Advances(body, I, seen, left) ==
  \A s \in I : body[s] # s =>
    \/ seen[s] \subseteq seen[body[s]] /\ seen[s] # seen[body[s]]
    \/ seen[s] = seen[body[s]] /\ left[body[s]] < left[s]

LEMMA SearchEnds ==
  ASSUME NEW S, NEW body, body \in [S -> S],
         NEW I, I \subseteq S, Keeps(body, I),
         NEW N, IsFiniteSet(N),
         NEW seen, seen \in [I -> SUBSET N], NEW left, left \in [I -> Nat],
         Advances(body, I, seen, left)
  PROVE  EndsIn(body, I)
<1> DEFINE U == FiniteSubsetsOf(N) \X Nat
           R == SearchOrder(N)
           m == [s \in I |-> <<N \ seen[s], left[s]>>]
<1>1. IsWellFoundedOn(R, U)
  BY SearchOrderWellFounded
<1>2. ASSUME NEW s \in I
      PROVE  /\ m[s] = <<N \ seen[s], left[s]>> /\ m[s] \in U
             /\ N \ seen[s] \in FiniteSubsetsOf(N) /\ left[s] \in Nat
             /\ seen[s] \in SUBSET N
  BY FS_FiniteSubsetsOfFinite
<1>3. ASSUME NEW s \in I, body[s] # s PROVE <<m[body[s]], m[s]>> \in R
  <2>1. body[s] \in I
    BY DEF Keeps
  <2> HIDE DEF m
  <2>2. /\ m[s] = <<N \ seen[s], left[s]>>
        /\ N \ seen[s] \in FiniteSubsetsOf(N) /\ left[s] \in Nat
        /\ seen[s] \in SUBSET N
    BY <1>2
  <2>3. /\ m[body[s]] = <<N \ seen[body[s]], left[body[s]]>>
        /\ N \ seen[body[s]] \in FiniteSubsetsOf(N) /\ left[body[s]] \in Nat
        /\ seen[body[s]] \in SUBSET N
    BY <1>2, <2>1
  <2>4. \/ N \ seen[body[s]] \subseteq N \ seen[s] /\ N \ seen[body[s]] # N \ seen[s]
        \/ N \ seen[body[s]] = N \ seen[s] /\ left[body[s]] < left[s]
    BY <1>3, <2>2, <2>3 DEF Advances
  <2>5. << <<N \ seen[body[s]], left[body[s]]>>, <<N \ seen[s], left[s]>> >> \in SearchOrder(N)
    BY <2>2, <2>3, <2>4, SearchOrderHolds
  <2> QED BY <2>2, <2>3, <2>5
<1>4. m \in [I -> U]
  BY <1>2
<1>5. ComesDown(body, I, m, R)
  BY <1>3 DEF ComesDown
<1> HIDE DEF m, R, U
<1> QED BY <1>1, <1>4, <1>5, LoopEnds

-----------------------------------------------------------------------------
(* Stacks, top last.                                                        *)

Top(s) == s[Len(s)]
Rest(s) == SubSeq(s, 1, Len(s) - 1)

LEMMA StackPop ==
  ASSUME NEW S, NEW s \in Seq(S), s # <<>>
  PROVE  /\ Rest(s) \in Seq(S) /\ Top(s) \in S
         /\ Len(s) \in Nat \ {0} /\ Len(Rest(s)) = Len(s) - 1
         /\ \A i \in 1 .. Len(s) - 1 : Rest(s)[i] = s[i]
         /\ Range(s) = Range(Rest(s)) \cup {Top(s)}
<1>1. Len(s) \in Nat /\ Len(s) # 0 /\ DOMAIN s = 1 .. Len(s) /\ s \in [1 .. Len(s) -> S]
  BY EmptySeq, LenProperties
<1>2. /\ Rest(s) \in Seq(S) /\ Len(Rest(s)) = Len(s) - 1
      /\ \A i \in 1 .. Len(s) - 1 : Rest(s)[i] = s[i]
  BY <1>1, SubSeqProperties DEF Rest
<1>3. DOMAIN Rest(s) = 1 .. Len(s) - 1
  BY <1>2, LenProperties
<1>4. 1 .. Len(s) = (1 .. Len(s) - 1) \cup {Len(s)}
  BY <1>1
<1>5. Range(s) = Range(Rest(s)) \cup {Top(s)}
  BY <1>1, <1>2, <1>3, <1>4 DEF Range, Top
<1> QED BY <1>1, <1>2, <1>5 DEF Top

LEMMA StackPush ==
  ASSUME NEW S, NEW s \in Seq(S), NEW t \in Seq(S)
  PROVE  /\ s \o t \in Seq(S) /\ Len(s \o t) = Len(s) + Len(t)
         /\ Len(s) \in Nat /\ Len(t) \in Nat
         /\ \A i \in 1 .. Len(s) : (s \o t)[i] = s[i]
         /\ \A i \in 1 .. Len(t) : (s \o t)[Len(s) + i] = t[i]
         /\ Range(s \o t) = Range(s) \cup Range(t)
<1> DEFINE st == s \o t
<1>1. /\ Len(s) \in Nat /\ DOMAIN s = 1 .. Len(s)
      /\ Len(t) \in Nat /\ DOMAIN t = 1 .. Len(t)
  BY LenProperties
<1>2. /\ st \in Seq(S) /\ Len(st) = Len(s) + Len(t)
      /\ \A i \in 1 .. Len(s) + Len(t) :
           st[i] = IF i <= Len(s) THEN s[i] ELSE t[i - Len(s)]
  BY ConcatProperties
<1>3. DOMAIN st = 1 .. Len(s) + Len(t)
  BY <1>2, LenProperties
<1>4. \A i \in 1 .. Len(s) : st[i] = s[i]
  BY <1>1, <1>2
<1>5. \A i \in 1 .. Len(t) : st[Len(s) + i] = t[i]
  BY <1>1, <1>2
<1>6. Range(s) \cup Range(t) \subseteq Range(st)
  <2>1. ASSUME NEW i \in 1 .. Len(s) PROVE s[i] \in Range(st)
    <3>1. i \in DOMAIN st /\ st[i] = s[i]
      BY <1>1, <1>3, <1>4
    <3> HIDE DEF st
    <3> QED BY <3>1 DEF Range
  <2>2. ASSUME NEW i \in 1 .. Len(t) PROVE t[i] \in Range(st)
    <3>1. Len(s) + i \in DOMAIN st /\ st[Len(s) + i] = t[i]
      BY <1>1, <1>3, <1>5
    <3> HIDE DEF st
    <3> QED BY <3>1 DEF Range
  <2> QED BY <1>1, <2>1, <2>2 DEF Range
<1>7. Range(st) \subseteq Range(s) \cup Range(t)
  <2> SUFFICES ASSUME NEW i \in 1 .. Len(s) + Len(t)
               PROVE  st[i] \in Range(s) \cup Range(t)
    BY <1>3 DEF Range
  <2>1. CASE i <= Len(s)
    BY <1>1, <1>2, <2>1 DEF Range
  <2>2. CASE ~(i <= Len(s))
    <3>1. i - Len(s) \in 1 .. Len(t)
      BY <1>1, <2>2
    <3> QED BY <1>1, <1>2, <2>2, <3>1 DEF Range
  <2> QED BY <2>1, <2>2
<1> QED BY <1>1, <1>2, <1>4, <1>5, <1>6, <1>7

LEMMA ReversedProperties ==
  ASSUME NEW S, NEW s \in Seq(S)
  PROVE  Reversed(s) \in Seq(S) /\ Range(Reversed(s)) = Range(s) /\ Len(Reversed(s)) = Len(s)
<1>1. Len(s) \in Nat /\ DOMAIN s = 1 .. Len(s) /\ s \in [1 .. Len(s) -> S]
  BY LenProperties
<1>2. \A i \in 1 .. Len(s) : Len(s) + 1 - i \in 1 .. Len(s) /\ Len(s) + 1 - (Len(s) + 1 - i) = i
  BY <1>1
<1>3. Reversed(s) \in [1 .. Len(s) -> S]
  BY <1>1, <1>2 DEF Reversed
<1>4. Reversed(s) \in Seq(S)
  BY <1>1, <1>3, SeqDef
<1>5. Range(Reversed(s)) = Range(s)
  BY <1>1, <1>2, <1>3 DEF Range, Reversed
<1>6. Len(Reversed(s)) = Len(s)
  BY <1>1, <1>3, <1>4, LenProperties
<1> QED BY <1>4, <1>5, <1>6

(* What a node waits for is among the nodes, and is what waits_on lists.    *)
LEMMA InputsInGraph ==
  ASSUME NEW g, GraphClosed(g), NEW t \in Ids(g)
  PROVE  /\ g.nodes[t].waitsOn \in Seq(Ids(g))
         /\ Inputs(g, t) = Range(g.nodes[t].waitsOn)
         /\ Inputs(g, t) \subseteq Ids(g)
<1>1. g.nodes[t] \in NodeOver(Ids(g), DOMAIN g.nodeMap)
  BY DEF GraphClosed
<1>2. g.nodes[t].waitsOn \in Seq(Ids(g))
  BY <1>1 DEF NodeOver
<1>3. Inputs(g, t) = Range(g.nodes[t].waitsOn)
  BY DEF Inputs, Range
<1>4. Range(g.nodes[t].waitsOn) \subseteq Ids(g)
  BY <1>2, LenProperties DEF Range
<1> QED BY <1>2, <1>3, <1>4

LEMMA IdsFinite ==
  ASSUME NEW g, GraphClosed(g)
  PROVE  IsFiniteSet(Ids(g)) /\ FiniteSubsetsOf(Ids(g)) = SUBSET Ids(g)
<1>1. g.size \in Nat
  BY DEF GraphClosed
<1>2. IsFiniteSet(Ids(g))
  BY <1>1, FS_Interval DEF Ids
<1> QED BY <1>2, FS_FiniteSubsetsOfFinite

-----------------------------------------------------------------------------
(* Closures.                                                                *)

IsClosed(g, T) == \A t \in T : Inputs(g, t) \subseteq T

(* The closure of S is the least set with S that is closed.                 *)
LEMMA ClosureLeast ==
  ASSUME NEW g, GraphClosed(g), NEW S \in SUBSET Ids(g)
  PROVE  /\ S \subseteq Closure(g, S) /\ Closure(g, S) \subseteq Ids(g)
         /\ IsClosed(g, Closure(g, S))
         /\ \A T : S \subseteq T /\ IsClosed(g, T) => Closure(g, S) \subseteq T
<1> DEFINE N == Ids(g)
           body == AddInputs(g)
           Within(T) == \A C : S \subseteq C /\ IsClosed(g, C) => T \subseteq C
           I == {T \in SUBSET N : S \subseteq T /\ Within(T)}
           m == [T \in I |-> N \ T]
           R == StrictSubsetOrdering(N)
           U == FiniteSubsetsOf(N)
<1>1. body \in [SUBSET N -> SUBSET N]
  BY InputsInGraph DEF AddInputs
<1>2. \A T \in SUBSET N : body[T] = T \cup UNION {Inputs(g, t) : t \in T}
  BY DEF AddInputs
<1>3. ASSUME NEW T \in I PROVE body[T] \in I
  <2>1. body[T] \in SUBSET N /\ S \subseteq body[T]
    BY <1>1, <1>2
  <2>2. ASSUME NEW C, S \subseteq C, IsClosed(g, C) PROVE body[T] \subseteq C
    <3>1. T \subseteq C
      BY <2>2
    <3> QED BY <1>2, <2>2, <3>1 DEF IsClosed
  <2> HIDE DEF body
  <2> QED BY <2>1, <2>2
<1>4. U = SUBSET N /\ IsWellFoundedOn(R, U) /\ m \in [I -> U]
  BY IdsFinite, FS_StrictSubsetOrderingWellFounded
<1>5. ASSUME NEW T \in I, body[T] # T PROVE <<m[body[T]], m[T]>> \in R
  <2>1. body[T] \in I /\ T \subseteq body[T]
    BY <1>2, <1>3
  <2>2. m[body[T]] = N \ body[T] /\ m[T] = N \ T
    BY <2>1
  <2>3. N \ body[T] \subseteq N \ T /\ N \ body[T] # N \ T
    BY <1>5, <2>1
  <2> HIDE DEF body, m
  <2> QED BY <2>2, <2>3 DEF StrictSubsetOrdering
<1>6. S \in I /\ I \subseteq SUBSET N
  OBVIOUS
<1> HIDE DEF body, m, I, R, U
<1>7. EndsIn(body, I)
  <2>1. Keeps(body, I)
    BY <1>3 DEF Keeps
  <2>2. ComesDown(body, I, m, R)
    BY <1>5 DEF ComesDown
  <2> QED BY <1>1, <1>4, <1>6, <2>1, <2>2, LoopEnds
<1>8. Closure(g, S) \in I /\ body[Closure(g, S)] = Closure(g, S)
  BY <1>6, <1>7 DEF Closure, body, EndsIn
<1>9. Closure(g, S) \in SUBSET N /\ S \subseteq Closure(g, S) /\ Within(Closure(g, S))
  BY <1>8 DEF I
<1>10. IsClosed(g, Closure(g, S))
  BY <1>2, <1>8, <1>9 DEF IsClosed
<1> QED BY <1>9, <1>10

(* What the closure of S has is closed under closures.                      *)
LEMMA ClosureMember ==
  ASSUME NEW g, GraphClosed(g), NEW S \in SUBSET Ids(g), NEW n \in Closure(g, S)
  PROVE  /\ n \in Ids(g) /\ Inputs(g, n) \subseteq Closure(g, S)
         /\ Closure(g, Inputs(g, n)) \subseteq Closure(g, S)
         /\ Closure(g, {n}) \subseteq Closure(g, S)
<1>1. n \in Ids(g) /\ IsClosed(g, Closure(g, S))
  BY ClosureLeast
<1>2. Inputs(g, n) \subseteq Closure(g, S)
  BY <1>1 DEF IsClosed
<1>3. Inputs(g, n) \in SUBSET Ids(g)
  BY <1>1, InputsInGraph
<1> QED BY <1>1, <1>2, <1>3, ClosureLeast

(* A node's own closure is itself and the closure of its inputs.            *)
LEMMA ClosureOfNode ==
  ASSUME NEW g, GraphClosed(g), NEW n \in Ids(g)
  PROVE  /\ n \in Closure(g, {n})
         /\ Closure(g, {n}) = {n} \cup Closure(g, Inputs(g, n))
<1>1. Inputs(g, n) \in SUBSET Ids(g) /\ {n} \in SUBSET Ids(g)
  BY InputsInGraph
<1>2. n \in Closure(g, {n})
  BY <1>1, ClosureLeast
<1>3. Closure(g, Inputs(g, n)) \subseteq Closure(g, {n})
  BY <1>1, <1>2, ClosureMember
<1>4. IsClosed(g, {n} \cup Closure(g, Inputs(g, n)))
  BY <1>1, ClosureLeast DEF IsClosed
<1>5. Closure(g, {n}) \subseteq {n} \cup Closure(g, Inputs(g, n))
  BY <1>1, <1>4, ClosureLeast
<1> QED BY <1>2, <1>3, <1>5

(* Without cycles, whatever is not empty has a node none of whose inputs it  *)
(* has.                                                                      *)
LEMMA LowestNode ==
  ASSUME NEW g, GraphClosed(g), Acyclic(g), NEW A \in SUBSET Ids(g), A # {}
  PROVE  \E n \in A : Inputs(g, n) \cap A = {}
<1> DEFINE N == Ids(g)
           Below(n) == Closure(g, Inputs(g, n))
           R == StrictSubsetOrdering(N)
           U == FiniteSubsetsOf(N)
<1>1. \A n \in N : Inputs(g, n) \in SUBSET N /\ Below(n) \in U
  BY InputsInGraph, ClosureLeast, IdsFinite
<1>2. {Below(n) : n \in A} \subseteq U /\ {Below(n) : n \in A} # {}
  BY <1>1
<1>3. IsWellFoundedOn(R, U)
  BY FS_StrictSubsetOrderingWellFounded
<1>4. PICK x \in {Below(n) : n \in A} : \A y \in {Below(n) : n \in A} : <<y, x>> \notin R
  BY <1>2, <1>3, WFMin
<1>5. PICK n \in A : x = Below(n)
  BY <1>4
<1>6. ASSUME NEW d \in Inputs(g, n), d \in A PROVE FALSE
  <2>1. d \in Below(n) /\ d \in N
    BY <1>1, ClosureLeast
  <2>2. Below(d) \subseteq Below(n)
    BY <1>1, <2>1, ClosureMember
  <2>3. d \notin Below(d)
    BY <2>1 DEF Acyclic
  <2>4. Below(d) \in SUBSET N /\ Below(n) \in SUBSET N
    BY <1>1, <2>1 DEF FiniteSubsetsOf
  <2>5. <<Below(d), Below(n)>> \in R
    BY <2>1, <2>2, <2>3, <2>4 DEF StrictSubsetOrdering
  <2> QED BY <1>4, <1>5, <1>6, <2>5
<1> QED BY <1>5, <1>6

-----------------------------------------------------------------------------
(* plan_subgraph.                                                           *)

LEMMA VisitTurn ==
  ASSUME NEW g, GraphClosed(g), NEW s \in PlanState(g)
  PROVE  /\ s.stack \in Seq(Ids(g)) /\ s.inSub \in SUBSET Ids(g)
         /\ s.stack = <<>> => Visit(g)[s] = s
         /\ s.stack # <<>> /\ Top(s.stack) \in s.inSub =>
              Visit(g)[s] = [stack |-> Rest(s.stack), inSub |-> s.inSub]
         /\ s.stack # <<>> /\ Top(s.stack) \notin s.inSub =>
              Visit(g)[s] = [stack |-> Rest(s.stack) \o g.nodes[Top(s.stack)].waitsOn,
                             inSub |-> s.inSub \cup {Top(s.stack)}]
         /\ Visit(g)[s] \in PlanState(g)
<1>1. /\ s.stack \in Seq(Ids(g)) /\ s.inSub \in SUBSET Ids(g)
      /\ s = [stack |-> s.stack, inSub |-> s.inSub]
  BY DEF PlanState
<1>2. s.stack # <<>> => Top(s.stack) \in Ids(g) /\ Rest(s.stack) \in Seq(Ids(g))
  BY <1>1, StackPop
<1>3. /\ s.stack = <<>> => Visit(g)[s] = s
      /\ s.stack # <<>> /\ Top(s.stack) \in s.inSub =>
           Visit(g)[s] = [stack |-> Rest(s.stack), inSub |-> s.inSub]
      /\ s.stack # <<>> /\ Top(s.stack) \notin s.inSub =>
           Visit(g)[s] = [stack |-> Rest(s.stack) \o g.nodes[Top(s.stack)].waitsOn,
                          inSub |-> s.inSub \cup {Top(s.stack)}]
  BY <1>1 DEF Visit, Top, Rest
<1>4. s.stack # <<>> =>
        Rest(s.stack) \o g.nodes[Top(s.stack)].waitsOn \in Seq(Ids(g))
  BY <1>2, InputsInGraph, StackPush
<1>5. Visit(g)[s] \in PlanState(g)
  <2>1. CASE s.stack = <<>>
    BY <1>3, <2>1
  <2>2. CASE s.stack # <<>> /\ Top(s.stack) \in s.inSub
    BY <1>1, <1>2, <1>3, <2>2 DEF PlanState
  <2>3. CASE s.stack # <<>> /\ Top(s.stack) \notin s.inSub
    <3> DEFINE stack == Rest(s.stack) \o g.nodes[Top(s.stack)].waitsOn
    <3>1. /\ Visit(g)[s] = [stack |-> stack, inSub |-> s.inSub \cup {Top(s.stack)}]
          /\ stack \in Seq(Ids(g))
      BY <1>3, <1>4, <2>3
    <3> HIDE DEF stack
    <3> QED BY <1>1, <1>2, <2>3, <3>1 DEF PlanState
  <2> QED BY <2>1, <2>2, <2>3
<1> QED BY <1>1, <1>3, <1>5

(* The search from a stack of nodes finds them and all they wait for.       *)
LEMMA SearchFindsClosure ==
  ASSUME NEW g, GraphClosed(g), NEW starts \in Seq(Ids(g))
  PROVE  Loop(Visit(g))[[stack |-> starts, inSub |-> {}]].inSub
           = Closure(g, Range(starts))
<1> DEFINE N == Ids(g)
           body == Visit(g)
           S == PlanState(g)
           begin == [stack |-> starts, inSub |-> {}]
           C == Closure(g, Range(starts))
           Found(s) == s.inSub \cup Range(s.stack)
           Inv(s) == /\ Range(starts) \subseteq Found(s) /\ Found(s) \subseteq C
                     /\ \A t \in s.inSub : Inputs(g, t) \subseteq Found(s)
           I == {s \in S : Inv(s)}
           seen == [s \in I |-> s.inSub]
           left == [s \in I |-> Len(s.stack)]
<1>1. body \in [S -> S]
  <2>1. \A s \in S : body[s] \in S
    BY VisitTurn
  <2> QED BY <2>1 DEF Visit
<1>2. Range(starts) \in SUBSET N
  BY LenProperties DEF Range
<1>3. begin \in I
  BY <1>2, ClosureLeast DEF PlanState
<1>4. ASSUME NEW s \in I, s.stack # <<>>
      PROVE  /\ body[s] \in I
             /\ \/ s.inSub \subseteq body[s].inSub /\ s.inSub # body[s].inSub
                \/ s.inSub = body[s].inSub /\ Len(body[s].stack) < Len(s.stack)
  <2> DEFINE id == Top(s.stack)
  <2>1. /\ s \in S /\ Inv(s) /\ s.stack \in Seq(N) /\ s.inSub \in SUBSET N
        /\ body[s] \in S
    BY VisitTurn
  <2>2. /\ Rest(s.stack) \in Seq(N) /\ id \in N
        /\ Len(s.stack) \in Nat \ {0} /\ Len(Rest(s.stack)) = Len(s.stack) - 1
        /\ Range(s.stack) = Range(Rest(s.stack)) \cup {id}
    BY <1>4, <2>1, StackPop
  <2>3. CASE id \in s.inSub
    <3>1. body[s] = [stack |-> Rest(s.stack), inSub |-> s.inSub]
      BY <1>4, <2>1, <2>3, VisitTurn
    <3> HIDE DEF body
    <3>2. body[s].stack = Rest(s.stack) /\ body[s].inSub = s.inSub
      BY <3>1
    <3>3. Found(body[s]) = Found(s)
      BY <2>2, <2>3, <3>2
    <3>4. Inv(body[s])
      BY <2>1, <3>2, <3>3
    <3> QED BY <2>1, <2>2, <3>2, <3>4
  <2>4. CASE id \notin s.inSub
    <3> DEFINE w == g.nodes[id].waitsOn
    <3>1. body[s] = [stack |-> Rest(s.stack) \o w, inSub |-> s.inSub \cup {id}]
      BY <1>4, <2>1, <2>4, VisitTurn
    <3> HIDE DEF body
    <3>2. body[s].stack = Rest(s.stack) \o w /\ body[s].inSub = s.inSub \cup {id}
      <4> DEFINE stack == Rest(s.stack) \o w
      <4>1. body[s] = [stack |-> stack, inSub |-> s.inSub \cup {id}]
        BY <3>1
      <4> HIDE DEF stack
      <4>2. body[s].stack = stack /\ body[s].inSub = s.inSub \cup {id}
        BY <4>1
      <4> QED BY <4>2 DEF stack
    <3>3. w \in Seq(N) /\ Inputs(g, id) = Range(w)
      BY <2>2, InputsInGraph
    <3>4. Range(Rest(s.stack) \o w) = Range(Rest(s.stack)) \cup Range(w)
      BY <2>2, <3>3, StackPush
    <3>5. Found(body[s]) = Found(s) \cup Inputs(g, id)
      BY <2>2, <3>2, <3>3, <3>4
    <3>6. Inputs(g, id) \subseteq C
      <4>1. id \in C
        BY <2>1, <2>2
      <4> QED BY <1>2, <4>1, ClosureMember
    <3>7. Inv(body[s])
      BY <2>1, <3>2, <3>5, <3>6
    <3> QED BY <2>1, <2>4, <3>2, <3>7
  <2> QED BY <2>3, <2>4
<1>5. ASSUME NEW s \in I, s.stack = <<>> PROVE body[s] = s
  BY <1>5, VisitTurn
<1>6. Keeps(body, I)
  BY <1>4, <1>5 DEF Keeps
<1>7. /\ seen \in [I -> SUBSET N] /\ left \in [I -> Nat]
      /\ \A s \in I : seen[s] = s.inSub /\ left[s] = Len(s.stack)
  BY LenProperties, VisitTurn
<1>8. Advances(body, I, seen, left)
  <2> HIDE DEF body, I, seen, left
  <2> QED BY <1>4, <1>5, <1>6, <1>7 DEF Advances, Keeps
<1>9. I \subseteq S /\ IsFiniteSet(N)
  BY IdsFinite
<1>10. EndsIn(body, I)
  <2> HIDE DEF body, I, S, seen, left
  <2> QED BY <1>1, <1>6, <1>7, <1>8, <1>9, SearchEnds
<1> DEFINE t == Loop(body)[begin]
<1>11. t \in I /\ body[t] = t
  <2> HIDE DEF body, I
  <2> QED BY <1>3, <1>10 DEF EndsIn
<1>12. t.stack = <<>>
  <2> HIDE DEF t, I
  <2>1. ~(Len(t.stack) < Len(t.stack))
    <3>1. left[t] = Len(t.stack) /\ left[t] \in Nat
      BY <1>7, <1>11
    <3> QED BY <3>1
  <2> HIDE DEF body
  <2> QED BY <1>4, <1>11, <2>1
<1>13. Inv(t)
  <2> HIDE DEF t, body
  <2> QED BY <1>11
<1>14. Range(t.stack) = {}
  <2> HIDE DEF t
  <2> QED BY <1>12 DEF Range
<1> HIDE DEF t
<1>15. Range(starts) \subseteq t.inSub /\ IsClosed(g, t.inSub) /\ t.inSub \subseteq C
  BY <1>13, <1>14 DEF IsClosed
<1>16. C \subseteq t.inSub
  BY <1>2, <1>15, ClosureLeast
<1> QED BY <1>15, <1>16 DEF t

-----------------------------------------------------------------------------
(* eval_node_dirty.                                                         *)

Item(g) == [op : {"call", "return", "skip"}, id : Ids(g)]

(* Between visiting a node and its return: the calls for its inputs, above it.*)
Opened(g, stack, id) ==
  Append(Rest(stack), [op |-> "return", id |-> id])
    \o Calls(Reversed(g.nodes[id].waitsOn))

IsOpened(g, stack, id, new) ==
  /\ new \in Seq(Item(g)) /\ Len(new) \in Nat /\ Len(new) >= Len(stack)
  /\ \A i \in 1 .. Len(stack) - 1 : new[i] = stack[i]
  /\ new[Len(stack)] = [op |-> "return", id |-> id]
  /\ \A i \in Len(stack) + 1 .. Len(new) : \E d \in Inputs(g, id) : new[i] = Call(d)
  /\ \A d \in Inputs(g, id) : \E i \in Len(stack) + 1 .. Len(new) : new[i] = Call(d)

LEMMA OpenedStack ==
  ASSUME NEW g, GraphClosed(g), NEW stack \in Seq(Item(g)), stack # <<>>,
         NEW id \in Ids(g)
  PROVE  IsOpened(g, stack, id, Opened(g, stack, id))
<1> DEFINE L == Len(stack)
           w == g.nodes[id].waitsOn
           item == [op |-> "return", id |-> id]
           a == Append(Rest(stack), item)
           r == Reversed(w)
           b == Calls(r)
<1>1. /\ Rest(stack) \in Seq(Item(g)) /\ L \in Nat \ {0} /\ Len(Rest(stack)) = L - 1
      /\ \A i \in 1 .. L - 1 : Rest(stack)[i] = stack[i]
  BY StackPop
<1>2. item \in Item(g)
  BY DEF Item
<1>3. /\ a \in Seq(Item(g)) /\ Len(a) = L
      /\ \A i \in 1 .. L - 1 : a[i] = stack[i]
      /\ a[L] = item
  <2> DEFINE rest == Rest(stack)
  <2> HIDE DEF item, rest
  <2>1. /\ Append(rest, item) \in Seq(Item(g)) /\ Len(Append(rest, item)) = Len(rest) + 1
        /\ \A i \in 1 .. Len(rest) : Append(rest, item)[i] = rest[i]
        /\ Append(rest, item)[Len(rest) + 1] = item
    BY <1>1, <1>2, AppendProperties DEF rest
  <2> QED BY <1>1, <2>1 DEF rest
<1>4. /\ w \in Seq(Ids(g)) /\ Inputs(g, id) = Range(w)
      /\ r \in Seq(Ids(g)) /\ Range(r) = Inputs(g, id)
  BY InputsInGraph, ReversedProperties
<1>5. /\ b \in Seq(Item(g)) /\ Len(b) = Len(r) /\ Len(r) \in Nat
      /\ \A i \in 1 .. Len(b) : b[i] = Call(r[i])
      /\ DOMAIN r = 1 .. Len(r)
  <2> HIDE DEF r
  <2>1. Len(r) \in Nat /\ DOMAIN r = 1 .. Len(r) /\ r \in [1 .. Len(r) -> Ids(g)]
    BY <1>4, LenProperties
  <2>2. b \in [1 .. Len(r) -> Item(g)]
    BY <2>1 DEF Calls, Call, Item
  <2>3. b \in Seq(Item(g))
    BY <2>1, <2>2, SeqDef
  <2>4. Len(b) = Len(r)
    BY <2>1, <2>2, <2>3, LenProperties
  <2>5. \A i \in 1 .. Len(b) : b[i] = Call(r[i])
    BY <2>1, <2>4 DEF Calls
  <2> QED BY <2>1, <2>3, <2>4, <2>5
<1> DEFINE new == a \o b
<1> HIDE DEF a, b, r, w, item
<1>6. /\ new \in Seq(Item(g)) /\ Len(new) = L + Len(b) /\ Len(b) \in Nat
      /\ \A i \in 1 .. L : new[i] = a[i]
      /\ \A i \in 1 .. Len(b) : new[L + i] = b[i]
  <2>1. a \in Seq(Item(g)) /\ b \in Seq(Item(g)) /\ Len(a) = L
    BY <1>3, <1>5
  <2> HIDE DEF L
  <2>2. a \o b \in Seq(Item(g)) /\ Len(a \o b) = Len(a) + Len(b) /\ Len(b) \in Nat
    BY <2>1, StackPush
  <2>3. \A i \in 1 .. Len(a) : (a \o b)[i] = a[i]
    BY <2>1, StackPush
  <2>4. \A i \in 1 .. Len(b) : (a \o b)[Len(a) + i] = b[i]
    BY <2>1, StackPush
  <2> QED BY <2>1, <2>2, <2>3, <2>4
<1> HIDE DEF new
<1>7. ASSUME NEW i \in L + 1 .. Len(new)
      PROVE  \E d \in Inputs(g, id) : new[i] = Call(d)
  <2>1. i - L \in 1 .. Len(b) /\ L + (i - L) = i
    BY <1>1, <1>6
  <2>2. new[i] = Call(r[i - L]) /\ r[i - L] \in Range(r)
    BY <1>5, <1>6, <2>1 DEF Range
  <2> QED BY <1>4, <2>2
<1>8. ASSUME NEW d \in Inputs(g, id)
      PROVE  \E i \in L + 1 .. Len(new) : new[i] = Call(d)
  <2>1. PICK k \in 1 .. Len(r) : r[k] = d
    BY <1>4, <1>5 DEF Range
  <2>2. L + k \in L + 1 .. Len(new) /\ new[L + k] = Call(d)
    BY <1>1, <1>5, <1>6, <2>1
  <2> QED BY <2>2
<1>9. \A i \in 1 .. L - 1 : new[i] = stack[i]
  BY <1>1, <1>3, <1>6
<1>10. new[L] = item
  BY <1>1, <1>3, <1>6
<1>11. new = Opened(g, stack, id)
  BY DEF Opened, new, a, b, r, w, item
<1>12. new[L] = [op |-> "return", id |-> id] /\ Len(new) \in Nat /\ Len(new) >= L
  BY <1>1, <1>6, <1>10 DEF item
<1> HIDE DEF L
<1>13. L = Len(stack)
  BY DEF L
<1> QED BY <1>6, <1>7, <1>8, <1>9, <1>11, <1>12, <1>13 DEF IsOpened

(* A turn, from s to t: a node returns, is passed over, or is visited.      *)
Returned(g, dsk, s, t) ==
  LET id == Top(s.stack).id IN
  /\ Top(s.stack).op = "return"
  /\ t.stack = Rest(s.stack) /\ t.visited = s.visited
  /\ t.dirty = IF Verdict(g.nodes[id], dsk, Inputs(g, id) \cap s.dirty # {})
               THEN s.dirty \cup {id} ELSE s.dirty

PassedOver(s, t) ==
  /\ Top(s.stack).op # "return"
  /\ Top(s.stack).op = "skip" \/ Top(s.stack).id \in s.visited
  /\ t.stack = Rest(s.stack) /\ t.visited = s.visited /\ t.dirty = s.dirty

Visited(g, s, t) ==
  LET id == Top(s.stack).id IN
  /\ Top(s.stack).op = "call" /\ id \notin s.visited
  /\ t.stack = Opened(g, s.stack, id)
  /\ t.visited = s.visited \cup {id} /\ t.dirty = s.dirty

EvalTurnOf(g, dsk, s, t) ==
  IF s.stack = <<>> THEN t = s
  ELSE Returned(g, dsk, s, t) \/ PassedOver(s, t) \/ Visited(g, s, t)

LEMMA EvalTurn ==
  ASSUME NEW g, GraphClosed(g), NEW dsk, NEW s \in EvalState(g)
  PROVE  /\ s.stack \in Seq(Item(g)) /\ s.visited \in SUBSET Ids(g) /\ s.dirty \in SUBSET Ids(g)
         /\ EvalNode(g, dsk)[s] \in EvalState(g)
         /\ EvalTurnOf(g, dsk, s, EvalNode(g, dsk)[s])
<1> DEFINE t == EvalNode(g, dsk)[s]
           top == Top(s.stack)
           rest == Rest(s.stack)
           verdict == Verdict(g.nodes[top.id], dsk, Inputs(g, top.id) \cap s.dirty # {})
           dirt == IF verdict THEN s.dirty \cup {top.id} ELSE s.dirty
           open == Opened(g, s.stack, top.id)
<1>1. /\ s.stack \in Seq(Item(g)) /\ s.visited \in SUBSET Ids(g) /\ s.dirty \in SUBSET Ids(g)
      /\ s = [stack |-> s.stack, visited |-> s.visited, dirty |-> s.dirty]
  BY DEF EvalState, Item
<1>2. s.stack # <<>> => rest \in Seq(Item(g)) /\ top \in Item(g)
  BY <1>1, StackPop
<1>3. s.stack # <<>> => top.id \in Ids(g) /\ [top EXCEPT !.op = "return"] = [op |-> "return", id |-> top.id]
  BY <1>2 DEF Item
<1>4. s.stack # <<>> => open \in Seq(Item(g))
  BY <1>1, <1>3, OpenedStack DEF IsOpened
<1>5. s.stack = <<>> => t = s
  BY DEF EvalNode
<1>6. s.stack # <<>> /\ top.op = "return" =>
        t = [stack |-> rest, visited |-> s.visited, dirty |-> dirt]
  <2> SUFFICES ASSUME s.stack # <<>>, top.op = "return"
               PROVE  t = [stack |-> rest, visited |-> s.visited, dirty |-> dirt]
    OBVIOUS
  <2>1. t = [s EXCEPT !.stack = rest, !.dirty = dirt]
    BY DEF EvalNode, Top, Rest
  <2> HIDE DEF rest, dirt, t
  <2> QED BY <1>1, <2>1
<1>7. s.stack # <<>> /\ top.op # "return" /\ (top.op = "skip" \/ top.id \in s.visited) =>
        t = [stack |-> rest, visited |-> s.visited, dirty |-> s.dirty]
  <2> SUFFICES ASSUME s.stack # <<>>, top.op # "return", top.op = "skip" \/ top.id \in s.visited
               PROVE  t = [stack |-> rest, visited |-> s.visited, dirty |-> s.dirty]
    OBVIOUS
  <2>1. t = [s EXCEPT !.stack = rest]
    BY DEF EvalNode, Top, Rest
  <2> HIDE DEF rest, t
  <2> QED BY <1>1, <2>1
<1>8. s.stack # <<>> /\ top.op # "return" /\ ~(top.op = "skip" \/ top.id \in s.visited) =>
        t = [stack |-> open, visited |-> s.visited \cup {top.id}, dirty |-> s.dirty]
  <2> SUFFICES ASSUME s.stack # <<>>, top.op # "return", ~(top.op = "skip" \/ top.id \in s.visited)
               PROVE  t = [stack |-> open, visited |-> s.visited \cup {top.id}, dirty |-> s.dirty]
    OBVIOUS
  <2>1. t = [s EXCEPT !.stack = open, !.visited = s.visited \cup {top.id}]
    BY <1>3 DEF EvalNode, Top, Rest, Opened
  <2> HIDE DEF open, t, top
  <2> QED BY <1>1, <2>1
<1>9. t \in EvalState(g)
  <2>1. Item(g) = [op : {"call", "return", "skip"}, id : Ids(g)]
    BY DEF Item
  <2>2. s.stack # <<>> => dirt \in SUBSET Ids(g) /\ s.visited \cup {top.id} \in SUBSET Ids(g)
    BY <1>1, <1>3
  <2> HIDE DEF t, dirt, open, top, rest
  <2>3. ASSUME NEW stack \in Seq(Item(g)), NEW visited \in SUBSET Ids(g), NEW dirty \in SUBSET Ids(g)
        PROVE  [stack |-> stack, visited |-> visited, dirty |-> dirty] \in EvalState(g)
    BY <2>1 DEF EvalState
  <2> QED BY <1>1, <1>2, <1>4, <1>5, <1>6, <1>7, <1>8, <2>2, <2>3
<1> HIDE DEF t, dirt, open, rest, top
<1>10. s.stack # <<>> => top.op \in {"call", "return", "skip"}
  <2> QED BY <1>2 DEF Item
<1>11. EvalTurnOf(g, dsk, s, t)
  <2>1. CASE s.stack = <<>>
    BY <1>5, <2>1 DEF EvalTurnOf
  <2>2. CASE s.stack # <<>> /\ top.op = "return"
    <3>1. t.stack = rest /\ t.visited = s.visited /\ t.dirty = dirt
      BY <1>6, <2>2
    <3>2. Returned(g, dsk, s, t)
      BY <2>2, <3>1 DEF Returned, rest, dirt, top
    <3> QED BY <2>2, <3>2 DEF EvalTurnOf
  <2>3. CASE s.stack # <<>> /\ top.op # "return" /\ (top.op = "skip" \/ top.id \in s.visited)
    <3>1. t.stack = rest /\ t.visited = s.visited /\ t.dirty = s.dirty
      BY <1>7, <2>3
    <3>2. PassedOver(s, t)
      BY <2>3, <3>1 DEF PassedOver, rest, top
    <3> QED BY <2>3, <3>2 DEF EvalTurnOf
  <2>4. CASE s.stack # <<>> /\ top.op # "return" /\ ~(top.op = "skip" \/ top.id \in s.visited)
    <3>1. t.stack = open /\ t.visited = s.visited \cup {top.id} /\ t.dirty = s.dirty
      BY <1>8, <2>4
    <3>2. Visited(g, s, t)
      BY <1>10, <2>4, <3>1 DEF Visited, open, top
    <3> QED BY <2>4, <3>2 DEF EvalTurnOf
  <2> QED BY <2>1, <2>2, <2>3, <2>4
<1> QED BY <1>1, <1>9, <1>11 DEF t

(* Where DirtyIn begins: a turn for each node, those of the subgraph first to*)
(* be called.                                                               *)
EvalBegin(g, inSub) ==
  [stack   |-> [i \in 1 .. g.size |-> IF g.size - i \in inSub THEN Call(g.size - i)
                                     ELSE [op |-> "skip", id |-> g.size - i]],
   visited |-> {}, dirty |-> {}]

LEMMA EvalBegins ==
  ASSUME NEW g, GraphClosed(g), NEW inSub
  PROVE  LET b == EvalBegin(g, inSub) IN
         /\ b \in EvalState(g) /\ b.visited = {} /\ b.dirty = {}
         /\ Len(b.stack) = g.size /\ g.size \in Nat
         /\ \A i \in 1 .. g.size :
              b.stack[i] = IF g.size - i \in inSub THEN Call(g.size - i)
                           ELSE [op |-> "skip", id |-> g.size - i]
<1> DEFINE stack == [i \in 1 .. g.size |-> IF g.size - i \in inSub THEN Call(g.size - i)
                                          ELSE [op |-> "skip", id |-> g.size - i]]
<1>1. g.size \in Nat
  BY DEF GraphClosed
<1>2. \A i \in 1 .. g.size : g.size - i \in Ids(g)
  BY <1>1 DEF Ids
<1>3. stack \in [1 .. g.size -> Item(g)]
  BY <1>2 DEF Item, Call
<1>4. stack \in Seq(Item(g))
  BY <1>1, <1>3, SeqDef
<1>5. Len(stack) = g.size
  BY <1>1, <1>3, <1>4, LenProperties
<1>6. \A i \in 1 .. g.size : stack[i] = IF g.size - i \in inSub THEN Call(g.size - i)
                                        ELSE [op |-> "skip", id |-> g.size - i]
  OBVIOUS
<1>7. EvalBegin(g, inSub) = [stack |-> stack, visited |-> {}, dirty |-> {}]
  BY DEF EvalBegin
<1> HIDE DEF stack
<1>8. Seq(Item(g)) = Seq([op : {"call", "return", "skip"}, id : Ids(g)])
  BY DEF Item
<1>9. EvalBegin(g, inSub) \in EvalState(g)
  BY <1>4, <1>7, <1>8 DEF EvalState
<1> QED BY <1>1, <1>5, <1>6, <1>7, <1>9

(* The evaluation ends, with an empty stack, in whatever it keeps.          *)
LEMMA EvalEnds ==
  ASSUME NEW g, GraphClosed(g), NEW dsk, NEW I, I \subseteq EvalState(g),
         Keeps(EvalNode(g, dsk), I)
  PROVE  \A s \in I : LET t == Loop(EvalNode(g, dsk))[s] IN t \in I /\ t.stack = <<>>
<1> DEFINE body == EvalNode(g, dsk)
           N == Ids(g)
           S == EvalState(g)
           seen == [s \in I |-> s.visited]
           left == [s \in I |-> Len(s.stack)]
<1>1. body \in [S -> S]
  <2>1. \A s \in S : body[s] \in S
    BY EvalTurn
  <2> QED BY <2>1 DEF EvalNode
<1>2. \A s \in I : s.stack \in Seq(Item(g)) /\ s.visited \in SUBSET N
  BY EvalTurn
<1>3. /\ seen \in [I -> SUBSET N] /\ left \in [I -> Nat]
      /\ \A s \in I : seen[s] = s.visited /\ left[s] = Len(s.stack)
  BY <1>2, LenProperties
<1>4. \A s \in I : body[s] \in I
  BY DEF Keeps
<1>5. ASSUME NEW s \in I, s.stack # <<>>
      PROVE  \/ s.visited \subseteq body[s].visited /\ s.visited # body[s].visited
             \/ s.visited = body[s].visited /\ Len(body[s].stack) < Len(s.stack)
  <2>1. s.stack \in Seq(Item(g)) /\ s \in S
    BY <1>2
  <2>2. Len(s.stack) \in Nat \ {0} /\ Len(Rest(s.stack)) = Len(s.stack) - 1
    BY <1>5, <2>1, StackPop
  <2>3. Returned(g, dsk, s, body[s]) \/ PassedOver(s, body[s]) \/ Visited(g, s, body[s])
    BY <1>5, <2>1, EvalTurn DEF EvalTurnOf
  <2> HIDE DEF body
  <2>4. CASE Returned(g, dsk, s, body[s]) \/ PassedOver(s, body[s])
    BY <2>2, <2>4 DEF Returned, PassedOver
  <2>5. CASE Visited(g, s, body[s])
    BY <2>5 DEF Visited
  <2> QED BY <2>3, <2>4, <2>5
<1>6. \A s \in I : s.stack = <<>> => body[s] = s
  BY EvalTurn DEF EvalTurnOf
<1>7. Advances(body, I, seen, left)
  <2> HIDE DEF body, seen, left
  <2> QED BY <1>3, <1>4, <1>5, <1>6 DEF Advances
<1>8. EndsIn(body, I)
  <2>1. IsFiniteSet(N) /\ Keeps(body, I) /\ I \subseteq S
    BY IdsFinite
  <2> HIDE DEF body, S, seen, left, N
  <2> QED BY <1>1, <1>3, <1>7, <2>1, SearchEnds
<1> SUFFICES ASSUME NEW s \in I
             PROVE  LET t == Loop(body)[s] IN t \in I /\ t.stack = <<>>
  OBVIOUS
<1> DEFINE t == Loop(body)[s]
<1> HIDE DEF body
<1>9. t \in I /\ body[t] = t
  BY <1>8 DEF EndsIn
<1> HIDE DEF t
<1>10. left[t] = Len(t.stack) /\ left[t] \in Nat
  BY <1>3, <1>9
<1>11. ~(Len(t.stack) < Len(t.stack))
  BY <1>10
<1>12. t.stack = <<>>
  BY <1>5, <1>9, <1>11
<1> QED BY <1>9, <1>12 DEF t

(* What is found dirty is in the subgraph.                                  *)
EvalWithin(inSub, s) ==
  /\ s.dirty \subseteq inSub /\ s.visited \subseteq inSub
  /\ \A i \in 1 .. Len(s.stack) : s.stack[i].op # "skip" => s.stack[i].id \in inSub

LEMMA EvalStaysWithin ==
  ASSUME NEW g, GraphClosed(g), NEW dsk,
         NEW inSub, inSub \subseteq Ids(g), IsClosed(g, inSub),
         NEW s \in EvalState(g), EvalWithin(inSub, s)
  PROVE  EvalWithin(inSub, EvalNode(g, dsk)[s])
<1> DEFINE t == EvalNode(g, dsk)[s]
           id == Top(s.stack).id
<1>1. /\ s.stack \in Seq(Item(g)) /\ t \in EvalState(g) /\ EvalTurnOf(g, dsk, s, t)
  BY EvalTurn
<1> HIDE DEF t
<1>2. CASE s.stack = <<>>
  BY <1>1, <1>2 DEF EvalTurnOf, t
<1>3. CASE s.stack # <<>>
  <2>1. /\ Len(s.stack) \in Nat \ {0} /\ Len(Rest(s.stack)) = Len(s.stack) - 1
        /\ \A i \in 1 .. Len(s.stack) - 1 : Rest(s.stack)[i] = s.stack[i]
        /\ Top(s.stack) \in Item(g)
    BY <1>1, <1>3, StackPop
  <2>2. /\ Top(s.stack).op # "skip" => id \in inSub
        /\ id \in Ids(g)
    BY <2>1 DEF EvalWithin, Top, Item
  <2>3. CASE Returned(g, dsk, s, t) \/ PassedOver(s, t)
    <3>1. \A i \in 1 .. Len(t.stack) : i \in 1 .. Len(s.stack) /\ t.stack[i] = s.stack[i]
      BY <2>1, <2>3 DEF Returned, PassedOver
    <3> QED BY <2>2, <2>3, <3>1 DEF Returned, PassedOver, EvalWithin, t
  <2>4. CASE Visited(g, s, t)
    <3>1. IsOpened(g, s.stack, id, t.stack)
      BY <1>1, <1>3, <2>2, <2>4, OpenedStack DEF Visited
    <3> USE DEF IsOpened
    <3>2. Inputs(g, id) \subseteq inSub /\ id \in inSub
      BY <2>2, <2>4 DEF Visited, IsClosed
    <3>3. ASSUME NEW i \in 1 .. Len(t.stack), t.stack[i].op # "skip"
          PROVE  t.stack[i].id \in inSub
      <4>1. CASE i \in 1 .. Len(s.stack) - 1
        BY <2>1, <3>1, <3>3, <4>1 DEF EvalWithin
      <4>2. CASE i = Len(s.stack)
        BY <3>1, <3>2, <4>2
      <4>3. CASE i \in Len(s.stack) + 1 .. Len(t.stack)
        <5>1. PICK d \in Inputs(g, id) : t.stack[i] = Call(d)
          BY <3>1, <4>3
        <5> QED BY <3>2, <5>1 DEF Call
      <4> QED BY <2>1, <3>1, <4>1, <4>2, <4>3
    <3> QED BY <2>4, <3>2, <3>3 DEF Visited, EvalWithin, t
  <2> QED BY <1>1, <1>3, <2>3, <2>4 DEF EvalTurnOf
<1> QED BY <1>2, <1>3

LEMMA DirtyWithin ==
  ASSUME NEW g, GraphClosed(g), NEW dsk,
         NEW inSub, inSub \subseteq Ids(g), IsClosed(g, inSub)
  PROVE  DirtyIn(g, dsk, inSub) \subseteq inSub
<1> DEFINE I == {s \in EvalState(g) : EvalWithin(inSub, s)}
           end == Loop(EvalNode(g, dsk))[EvalBegin(g, inSub)]
<1>1. EvalBegin(g, inSub) \in I
  <2> DEFINE b == EvalBegin(g, inSub)
  <2>1. /\ b \in EvalState(g) /\ b.visited = {} /\ b.dirty = {}
        /\ Len(b.stack) = g.size
    BY EvalBegins
  <2>2. \A i \in 1 .. g.size :
          b.stack[i] = IF g.size - i \in inSub THEN Call(g.size - i)
                       ELSE [op |-> "skip", id |-> g.size - i]
    BY EvalBegins
  <2> HIDE DEF b
  <2>3. ASSUME NEW i \in 1 .. Len(b.stack), b.stack[i].op # "skip"
        PROVE  b.stack[i].id \in inSub
    <3>1. i \in 1 .. g.size
      BY <2>1
    <3>2. CASE g.size - i \in inSub
      <4>1. b.stack[i] = Call(g.size - i)
        BY <2>2, <3>1, <3>2
      <4> QED BY <3>2, <4>1 DEF Call
    <3>3. CASE g.size - i \notin inSub
      <4>1. b.stack[i] = [op |-> "skip", id |-> g.size - i]
        BY <2>2, <3>1, <3>3
      <4> QED BY <2>3, <4>1
    <3> QED BY <3>2, <3>3
  <2> QED BY <2>1, <2>3 DEF EvalWithin, b
<1>2. \A s \in I : EvalNode(g, dsk)[s] \in I
  BY EvalTurn, EvalStaysWithin
<1>3. I \subseteq EvalState(g) /\ Keeps(EvalNode(g, dsk), I)
  BY <1>2 DEF Keeps
<1>4. end \in I
  <2> HIDE DEF I
  <2> QED BY <1>1, <1>3, EvalEnds
<1>5. DirtyIn(g, dsk, inSub) = end.dirty
  BY DEF DirtyIn, EvalBegin
<1> HIDE DEF end
<1> QED BY <1>4, <1>5 DEF EvalWithin

(* The search without cycles.  A node that is open, its return on the stack, *)
(* waits for what is above it; one that has returned has its verdict, and so *)
(* do its inputs.                                                           *)
On(stack) ==
  {stack[i].id : i \in {j \in 1 .. Len(stack) : stack[j].op = "return"}}

Settled(s) == s.visited \ On(s.stack)

OpenOnce(g, s) ==
  /\ On(s.stack) \subseteq s.visited /\ s.dirty \subseteq Settled(s)
  /\ \A i, j \in 1 .. Len(s.stack) :
       s.stack[i].op = "return" /\ s.stack[j].op = "return"
         /\ s.stack[i].id = s.stack[j].id => i = j

(* What is above an open node is something it waits for, directly or not.   *)
AboveIsBelow(g, s) ==
  \A i, j \in 1 .. Len(s.stack) :
    s.stack[i].op = "return" /\ i < j =>
      /\ s.stack[j].op # "skip"
      /\ s.stack[j].id \in Closure(g, Inputs(g, s.stack[i].id))

InputsAbove(g, s) ==
  \A i \in 1 .. Len(s.stack) :
    s.stack[i].op = "return" =>
      \A d \in Inputs(g, s.stack[i].id) :
        \/ d \in Settled(s)
        \/ \E j \in 1 .. Len(s.stack) : i < j /\ s.stack[j].id = d

JustDirty(g, dsk, dirty, n) ==
  n \in dirty <=> OwnReason(g.nodes[n], dsk) \/ Inputs(g, n) \cap dirty # {}

SettledRight(g, dsk, s) ==
  \A n \in Settled(s) :
    Inputs(g, n) \subseteq Settled(s) /\ JustDirty(g, dsk, s.dirty, n)

AllToCome(inSub, s) ==
  \A n \in inSub :
    n \in s.visited
    \/ \E i \in 1 .. Len(s.stack) : s.stack[i].op = "call" /\ s.stack[i].id = n

EvalInv(g, dsk, inSub, s) ==
  /\ EvalWithin(inSub, s) /\ OpenOnce(g, s) /\ AboveIsBelow(g, s)
  /\ InputsAbove(g, s) /\ SettledRight(g, dsk, s) /\ AllToCome(inSub, s)

LEMMA OnBelow ==
  ASSUME NEW a, NEW b, Len(a) \in Nat \ {0}, Len(b) = Len(a) - 1,
         \A i \in 1 .. Len(a) - 1 : b[i] = a[i]
  PROVE  /\ a[Len(a)].op = "return" => On(a) = On(b) \cup {a[Len(a)].id}
         /\ a[Len(a)].op # "return" => On(a) = On(b)
<1>1. On(b) \subseteq On(a)
  <2> SUFFICES ASSUME NEW i \in 1 .. Len(b), b[i].op = "return" PROVE b[i].id \in On(a)
    BY DEF On
  <2>1. i \in 1 .. Len(a) - 1 /\ i \in 1 .. Len(a)
    OBVIOUS
  <2>2. b[i] = a[i]
    BY <2>1
  <2> QED BY <2>1, <2>2 DEF On
<1>2. ASSUME NEW i \in 1 .. Len(a), a[i].op = "return", i # Len(a) PROVE a[i].id \in On(b)
  <2>1. i \in 1 .. Len(a) - 1 /\ i \in 1 .. Len(b)
    BY <1>2
  <2>2. b[i] = a[i]
    BY <2>1
  <2> QED BY <1>2, <2>1, <2>2 DEF On
<1>3. Len(a) \in 1 .. Len(a)
  OBVIOUS
<1>4. a[Len(a)].op = "return" => a[Len(a)].id \in On(a)
  BY <1>3 DEF On
<1>5. \A x \in On(a) : \E i \in 1 .. Len(a) : a[i].op = "return" /\ x = a[i].id
  BY DEF On
<1> QED BY <1>1, <1>2, <1>4, <1>5

(* A node returns: its inputs have returned before.                         *)
LEMMA EvalReturns ==
  ASSUME NEW g, NEW dsk, NEW inSub, NEW s, NEW t, EvalInv(g, dsk, inSub, s),
         Len(s.stack) \in Nat \ {0}, Len(t.stack) = Len(s.stack) - 1,
         \A i \in 1 .. Len(s.stack) - 1 : t.stack[i] = s.stack[i],
         Top(s.stack) = s.stack[Len(s.stack)],
         Returned(g, dsk, s, t)
  PROVE  /\ OpenOnce(g, t) /\ AboveIsBelow(g, t) /\ InputsAbove(g, t)
         /\ SettledRight(g, dsk, t) /\ AllToCome(inSub, t)
<1> DEFINE L == Len(s.stack)
           n == s.stack[L].id
<1>1. /\ L \in Nat \ {0} /\ Len(t.stack) = L - 1 /\ s.stack[L].op = "return"
      /\ \A i \in 1 .. L - 1 : t.stack[i] = s.stack[i]
      /\ t.visited = s.visited
  BY DEF Returned
<1>2. t.dirty = IF Verdict(g.nodes[n], dsk, Inputs(g, n) \cap s.dirty # {})
                THEN s.dirty \cup {n} ELSE s.dirty
  BY DEF Returned
<1>3. \A i \in 1 .. L - 1 : i \in 1 .. L /\ i # L
  BY <1>1
<1>4. On(s.stack) = On(t.stack) \cup {n}
  BY <1>1, OnBelow
<1>5. n \notin On(t.stack) /\ n \in On(s.stack)
  <2>1. ASSUME NEW i \in 1 .. L - 1, t.stack[i].op = "return" PROVE t.stack[i].id # n
    <3>1. i \in 1 .. L /\ L \in 1 .. L /\ i # L /\ s.stack[i] = t.stack[i]
      BY <1>1
    <3> QED BY <1>1, <2>1, <3>1 DEF EvalInv, OpenOnce
  <2> QED BY <1>1, <1>4, <2>1 DEF On
<1>6. Settled(t) = Settled(s) \cup {n} /\ n \notin Settled(s) /\ n \in s.visited /\ n \notin s.dirty
  BY <1>1, <1>4, <1>5 DEF EvalInv, OpenOnce, Settled
<1>7. OpenOnce(g, t)
  <2>1. On(t.stack) \subseteq t.visited
    BY <1>1, <1>4 DEF EvalInv, OpenOnce
  <2>2. t.dirty \subseteq Settled(t)
    BY <1>2, <1>6 DEF EvalInv, OpenOnce
  <2> QED BY <1>1, <1>3, <2>1, <2>2 DEF EvalInv, OpenOnce
<1>8. AboveIsBelow(g, t)
  BY <1>1, <1>3 DEF EvalInv, AboveIsBelow
<1>9. InputsAbove(g, t)
  <2> SUFFICES ASSUME NEW i \in 1 .. L - 1, t.stack[i].op = "return",
                      NEW d \in Inputs(g, t.stack[i].id), d \notin Settled(t)
               PROVE  \E j \in 1 .. L - 1 : i < j /\ t.stack[j].id = d
    BY <1>1 DEF InputsAbove
  <2>1. PICK j \in 1 .. L : i < j /\ s.stack[j].id = d
    BY <1>1, <1>3, <1>6 DEF EvalInv, InputsAbove
  <2>2. j # L
    BY <1>6, <2>1
  <2> QED BY <1>1, <2>1, <2>2
<1>10. SettledRight(g, dsk, t)
  <2>1. Inputs(g, n) \subseteq Settled(s)
    BY <1>1 DEF EvalInv, InputsAbove
  <2>2. JustDirty(g, dsk, t.dirty, n)
    <3>1. Inputs(g, n) \cap t.dirty = Inputs(g, n) \cap s.dirty
      BY <1>2, <1>6, <2>1
    <3>2. n \in t.dirty <=> Verdict(g.nodes[n], dsk, Inputs(g, n) \cap s.dirty # {})
      BY <1>2, <1>6
    <3> QED BY <3>1, <3>2 DEF JustDirty, Verdict, OwnReason
  <2>3. ASSUME NEW m \in Settled(s)
        PROVE  Inputs(g, m) \subseteq Settled(t) /\ JustDirty(g, dsk, t.dirty, m)
    <3>1. Inputs(g, m) \subseteq Settled(s) /\ JustDirty(g, dsk, s.dirty, m)
      BY DEF EvalInv, SettledRight
    <3>2. m # n /\ n \notin Inputs(g, m)
      BY <1>6, <3>1
    <3>3. (m \in t.dirty <=> m \in s.dirty) /\ Inputs(g, m) \cap t.dirty = Inputs(g, m) \cap s.dirty
      BY <1>2, <3>2
    <3> QED BY <1>6, <3>1, <3>3 DEF JustDirty
  <2> QED BY <1>6, <2>1, <2>2, <2>3 DEF SettledRight
<1>11. AllToCome(inSub, t)
  <2> SUFFICES ASSUME NEW m \in inSub, m \notin t.visited
               PROVE  \E i \in 1 .. L - 1 : t.stack[i].op = "call" /\ t.stack[i].id = m
    BY <1>1 DEF AllToCome
  <2>1. PICK i \in 1 .. L : s.stack[i].op = "call" /\ s.stack[i].id = m
    BY <1>1 DEF EvalInv, AllToCome
  <2>2. i # L
    BY <1>1, <2>1
  <2> QED BY <1>1, <2>1, <2>2
<1> QED BY <1>7, <1>8, <1>9, <1>10, <1>11

(* A node is passed over: it is not of the subgraph, or has returned, or, if *)
(* it is open, it is asked for below by none but nodes below itself.        *)
LEMMA EvalPasses ==
  ASSUME NEW g, GraphClosed(g), Acyclic(g), NEW dsk, NEW inSub, inSub \subseteq Ids(g),
         NEW s, NEW t, EvalInv(g, dsk, inSub, s),
         Len(s.stack) \in Nat \ {0}, Len(t.stack) = Len(s.stack) - 1,
         \A i \in 1 .. Len(s.stack) - 1 : t.stack[i] = s.stack[i],
         Top(s.stack) = s.stack[Len(s.stack)],
         PassedOver(s, t)
  PROVE  /\ OpenOnce(g, t) /\ AboveIsBelow(g, t) /\ InputsAbove(g, t)
         /\ SettledRight(g, dsk, t) /\ AllToCome(inSub, t)
<1> DEFINE L == Len(s.stack)
           n == s.stack[L].id
<1>1. /\ L \in Nat \ {0} /\ Len(t.stack) = L - 1 /\ s.stack[L].op # "return"
      /\ \A i \in 1 .. L - 1 : t.stack[i] = s.stack[i]
      /\ t.visited = s.visited /\ t.dirty = s.dirty
      /\ s.stack[L].op = "skip" \/ n \in s.visited
  BY DEF PassedOver
<1>2. \A i \in 1 .. L - 1 : i \in 1 .. L /\ i # L
  BY <1>1
<1>3. On(s.stack) = On(t.stack)
  BY <1>1, OnBelow
<1>4. Settled(t) = Settled(s)
  BY <1>1, <1>3 DEF Settled
<1>5. OpenOnce(g, t)
  <2>1. On(t.stack) \subseteq t.visited /\ t.dirty \subseteq Settled(t)
    BY <1>1, <1>3, <1>4 DEF EvalInv, OpenOnce
  <2> QED BY <1>1, <1>2, <2>1 DEF EvalInv, OpenOnce
<1>6. AboveIsBelow(g, t)
  BY <1>1, <1>2 DEF EvalInv, AboveIsBelow
<1>7. InputsAbove(g, t)
  <2> SUFFICES ASSUME NEW i \in 1 .. L - 1, t.stack[i].op = "return",
                      NEW d \in Inputs(g, t.stack[i].id), d \notin Settled(t)
               PROVE  \E j \in 1 .. L - 1 : i < j /\ t.stack[j].id = d
    BY <1>1 DEF InputsAbove
  <2> DEFINE m == s.stack[i].id
  <2>1. PICK j \in 1 .. L : i < j /\ s.stack[j].id = d
    BY <1>1, <1>2, <1>4 DEF EvalInv, InputsAbove
  <2>2. CASE j # L
    BY <1>1, <2>1, <2>2
  <2>3. CASE j = L
    <3>1. s.stack[L].op # "skip" /\ d = n
      BY <1>1, <1>2, <2>1, <2>3 DEF EvalInv, AboveIsBelow
    <3>2. n \in On(s.stack)
      BY <1>1, <1>4, <3>1 DEF Settled
    <3>3. PICK k \in 1 .. L : s.stack[k].op = "return" /\ s.stack[k].id = n
      BY <3>2 DEF On
    <3>4. n \in inSub /\ m \in inSub /\ n \in Inputs(g, m)
      BY <1>1, <1>2, <3>1 DEF EvalInv, EvalWithin
    <3>5. Inputs(g, n) \subseteq Ids(g) /\ Inputs(g, m) \subseteq Ids(g)
      BY <3>4, InputsInGraph
    <3>6. k # i
      <4> SUFFICES ASSUME m = n PROVE FALSE
        BY <3>3
      <4>1. n \in Closure(g, Inputs(g, n))
        BY <3>4, <3>5, ClosureLeast
      <4> QED BY <3>4, <4>1 DEF Acyclic
    <3>7. ~(k < i)
      <4> SUFFICES ASSUME k < i PROVE FALSE
        OBVIOUS
      <4>1. m \in Closure(g, Inputs(g, n))
        BY <1>2, <3>3 DEF EvalInv, AboveIsBelow
      <4>2. n \in Closure(g, Inputs(g, n))
        BY <3>4, <3>5, <4>1, ClosureMember
      <4> QED BY <3>4, <4>2 DEF Acyclic
    <3>8. k # L
      BY <1>1, <3>3
    <3> QED BY <1>1, <3>1, <3>3, <3>6, <3>7, <3>8
  <2> QED BY <2>2, <2>3
<1>8. SettledRight(g, dsk, t)
  BY <1>1, <1>4 DEF EvalInv, SettledRight
<1>9. AllToCome(inSub, t)
  <2> SUFFICES ASSUME NEW m \in inSub, m \notin t.visited
               PROVE  \E i \in 1 .. L - 1 : t.stack[i].op = "call" /\ t.stack[i].id = m
    BY <1>1 DEF AllToCome
  <2>1. PICK i \in 1 .. L : s.stack[i].op = "call" /\ s.stack[i].id = m
    BY <1>1 DEF EvalInv, AllToCome
  <2>2. i # L
    BY <1>1, <2>1
  <2> QED BY <1>1, <2>1, <2>2
<1> QED BY <1>5, <1>6, <1>7, <1>8, <1>9

(* A node is visited: it is open, with calls for all its inputs above it.    *)
LEMMA EvalVisits ==
  ASSUME NEW g, GraphClosed(g), NEW dsk, NEW inSub, inSub \subseteq Ids(g),
         NEW s, NEW t, EvalInv(g, dsk, inSub, s),
         Len(s.stack) \in Nat \ {0}, Top(s.stack) = s.stack[Len(s.stack)],
         Visited(g, s, t), IsOpened(g, s.stack, Top(s.stack).id, t.stack)
  PROVE  /\ OpenOnce(g, t) /\ AboveIsBelow(g, t) /\ InputsAbove(g, t)
         /\ SettledRight(g, dsk, t) /\ AllToCome(inSub, t)
<1> DEFINE L == Len(s.stack)
           M == Len(t.stack)
           n == s.stack[L].id
<1>1. /\ L \in Nat \ {0} /\ M \in Nat /\ M >= L
      /\ s.stack[L].op = "call" /\ n \notin s.visited
      /\ \A i \in 1 .. L - 1 : t.stack[i] = s.stack[i]
      /\ t.visited = s.visited \cup {n} /\ t.dirty = s.dirty
  BY DEF Visited, IsOpened
<1>2. t.stack[L].op = "return" /\ t.stack[L].id = n
  BY DEF IsOpened
<1>3. ASSUME NEW i \in L + 1 .. M
      PROVE  t.stack[i].op = "call" /\ t.stack[i].id \in Inputs(g, n)
  <2>1. PICK d \in Inputs(g, n) : t.stack[i] = Call(d)
    BY DEF IsOpened
  <2> QED BY <2>1 DEF Call
<1>4. ASSUME NEW d \in Inputs(g, n)
      PROVE  \E i \in L + 1 .. M : t.stack[i].id = d
  <2>1. PICK i \in L + 1 .. M : t.stack[i] = Call(d)
    BY DEF IsOpened
  <2> QED BY <2>1 DEF Call
<1>5. n \in inSub /\ n \in Ids(g)
  BY <1>1 DEF EvalInv, EvalWithin
<1> HIDE DEF n, L, M
<1>6. \A i \in 1 .. M : i \in 1 .. L - 1 \/ i = L \/ i \in L + 1 .. M
  BY <1>1
<1>7. /\ L \in 1 .. M /\ L \in 1 .. L
      /\ \A i \in 1 .. L - 1 : i \in 1 .. M /\ i \in 1 .. L /\ i < L
      /\ \A i \in L + 1 .. M : i \in 1 .. M /\ L < i
  BY <1>1
<1>8. ASSUME NEW i \in 1 .. M, t.stack[i].op = "return"
      PROVE  \/ i = L
             \/ i \in 1 .. L - 1 /\ s.stack[i].op = "return" /\ t.stack[i] = s.stack[i]
  <2>1. CASE i \in 1 .. L - 1
    <3>1. t.stack[i] = s.stack[i]
      BY <1>1, <2>1
    <3> QED BY <1>8, <2>1, <3>1
  <2>2. i \notin L + 1 .. M
    <3>1. \A k \in L + 1 .. M : t.stack[k].op = "call"
      BY <1>3
    <3> QED BY <1>8, <3>1
  <2>3. i \in 1 .. L - 1 \/ i = L
    BY <1>6, <2>2
  <2> QED BY <2>1, <2>3
<1>9. On(t.stack) = On(s.stack) \cup {n}
  <2>1. On(t.stack) \subseteq On(s.stack) \cup {n}
    <3> SUFFICES ASSUME NEW i \in 1 .. M, t.stack[i].op = "return"
                 PROVE  t.stack[i].id \in On(s.stack) \cup {n}
      BY DEF On, M
    <3> QED BY <1>2, <1>7, <1>8 DEF On, L
  <2>2. On(s.stack) \subseteq On(t.stack)
    <3> SUFFICES ASSUME NEW i \in 1 .. L, s.stack[i].op = "return"
                 PROVE  s.stack[i].id \in On(t.stack)
      BY DEF On, L
    <3>1. i \in 1 .. L - 1
      BY <1>1
    <3> QED BY <1>1, <1>7, <3>1 DEF On, M
  <2>3. n \in On(t.stack)
    BY <1>2, <1>7 DEF On, M
  <2> QED BY <2>1, <2>2, <2>3
<1>10. Settled(t) = Settled(s)
  BY <1>1, <1>9 DEF Settled
<1>11. /\ On(s.stack) \subseteq s.visited /\ On(s.stack) \cap s.dirty = {}
       /\ n \notin On(s.stack) /\ s.dirty \subseteq s.visited
  BY <1>1 DEF EvalInv, OpenOnce, Settled
<1>12. OpenOnce(g, t)
  <2>1. On(t.stack) \subseteq t.visited /\ t.dirty \subseteq Settled(t)
    BY <1>1, <1>9, <1>10, <1>11 DEF EvalInv, OpenOnce
  <2>2. ASSUME NEW i \in 1 .. L - 1, t.stack[i].op = "return" PROVE t.stack[i].id # n
    BY <1>1, <1>7, <1>11, <2>2 DEF On, L
  <2>3. ASSUME NEW i \in 1 .. M, NEW j \in 1 .. M, t.stack[i].op = "return",
               t.stack[j].op = "return", t.stack[i].id = t.stack[j].id
        PROVE  i = j
    <3>1. CASE i \in 1 .. L - 1 /\ j \in 1 .. L - 1
      BY <1>1, <1>7, <2>3, <3>1 DEF EvalInv, OpenOnce, L
    <3>2. CASE i = L \/ j = L
      BY <1>2, <1>8, <2>2, <2>3, <3>2
    <3> QED BY <1>8, <2>3, <3>1, <3>2
  <2> QED BY <2>1, <2>3 DEF OpenOnce, M
<1>13. Inputs(g, n) \subseteq Closure(g, Inputs(g, n)) /\ Inputs(g, n) \subseteq Ids(g)
  BY <1>5, InputsInGraph, ClosureLeast
<1>14. AboveIsBelow(g, t)
  <2> SUFFICES ASSUME NEW i \in 1 .. M, NEW j \in 1 .. M, t.stack[i].op = "return", i < j
               PROVE  /\ t.stack[j].op # "skip"
                      /\ t.stack[j].id \in Closure(g, Inputs(g, t.stack[i].id))
    BY DEF AboveIsBelow, M
  <2>1. CASE i = L
    <3>1. j \in L + 1 .. M
      BY <1>1, <2>1
    <3> QED BY <1>2, <1>3, <1>13, <2>1, <3>1
  <2>2. CASE i \in 1 .. L - 1
    <3> DEFINE m == s.stack[i].id
    <3>1. s.stack[i].op = "return" /\ t.stack[i] = s.stack[i]
      BY <1>1, <2>2
    <3>2. n \in Closure(g, Inputs(g, m))
      BY <1>7, <2>2, <3>1 DEF EvalInv, AboveIsBelow, L, n
    <3>3. CASE j \in 1 .. L - 1
      BY <1>1, <1>7, <2>2, <3>1, <3>3 DEF EvalInv, AboveIsBelow, L
    <3>4. CASE j = L
      BY <1>2, <3>1, <3>2, <3>4
    <3>5. CASE j \in L + 1 .. M
      <4>1. m \in Ids(g)
        BY <1>7, <2>2, <3>1 DEF EvalInv, EvalWithin, L
      <4>2. Inputs(g, n) \subseteq Closure(g, Inputs(g, m))
        BY <3>2, <4>1, InputsInGraph, ClosureMember
      <4> QED BY <1>3, <3>1, <3>5, <4>2
    <3> QED BY <1>6, <3>3, <3>4, <3>5
  <2> QED BY <1>8, <2>1, <2>2
<1>15. InputsAbove(g, t)
  <2> SUFFICES ASSUME NEW i \in 1 .. M, t.stack[i].op = "return",
                      NEW d \in Inputs(g, t.stack[i].id), d \notin Settled(t)
               PROVE  \E j \in 1 .. M : i < j /\ t.stack[j].id = d
    BY DEF InputsAbove, M
  <2>1. CASE i = L
    BY <1>2, <1>4, <1>7, <2>1
  <2>2. CASE i \in 1 .. L - 1
    <3>1. s.stack[i].op = "return" /\ t.stack[i] = s.stack[i]
      BY <1>1, <2>2
    <3>2. PICK j \in 1 .. L : i < j /\ s.stack[j].id = d
      BY <1>7, <1>10, <2>2, <3>1 DEF EvalInv, InputsAbove, L
    <3>3. CASE j = L
      BY <1>2, <1>7, <3>2, <3>3 DEF n
    <3>4. CASE j # L
      <4>1. j \in 1 .. L - 1
        BY <1>1, <3>4
      <4> QED BY <1>1, <1>7, <3>2, <4>1
    <3> QED BY <3>3, <3>4
  <2> QED BY <1>8, <2>1, <2>2
<1>16. SettledRight(g, dsk, t)
  BY <1>1, <1>10 DEF EvalInv, SettledRight
<1>17. AllToCome(inSub, t)
  <2> SUFFICES ASSUME NEW m \in inSub, m \notin t.visited
               PROVE  \E i \in 1 .. M : t.stack[i].op = "call" /\ t.stack[i].id = m
    BY DEF AllToCome, M
  <2>1. PICK i \in 1 .. L : s.stack[i].op = "call" /\ s.stack[i].id = m
    BY <1>1 DEF EvalInv, AllToCome, L
  <2>2. i \in 1 .. L - 1
    BY <1>1, <2>1 DEF n
  <2> QED BY <1>1, <1>7, <2>1, <2>2
<1> QED BY <1>12, <1>14, <1>15, <1>16, <1>17

LEMMA EvalKeepsInv ==
  ASSUME NEW g, GraphClosed(g), Acyclic(g), NEW dsk,
         NEW inSub, inSub \subseteq Ids(g), IsClosed(g, inSub),
         NEW s \in EvalState(g), EvalInv(g, dsk, inSub, s)
  PROVE  EvalInv(g, dsk, inSub, EvalNode(g, dsk)[s])
<1> DEFINE t == EvalNode(g, dsk)[s]
           id == Top(s.stack).id
<1>1. /\ s.stack \in Seq(Item(g)) /\ t \in EvalState(g) /\ EvalTurnOf(g, dsk, s, t)
  BY EvalTurn
<1>2. EvalWithin(inSub, t)
  BY EvalStaysWithin DEF EvalInv
<1> HIDE DEF t
<1>3. CASE s.stack = <<>>
  BY <1>1, <1>3 DEF EvalTurnOf, t
<1>4. CASE s.stack # <<>>
  <2>1. /\ Len(s.stack) \in Nat \ {0} /\ Len(Rest(s.stack)) = Len(s.stack) - 1
        /\ Top(s.stack) = s.stack[Len(s.stack)] /\ Top(s.stack) \in Item(g)
    BY <1>1, <1>4, StackPop DEF Top
  <2>2. \A i \in 1 .. Len(s.stack) - 1 : Rest(s.stack)[i] = s.stack[i]
    BY <1>1, <1>4, StackPop
  <2>3. CASE Returned(g, dsk, s, t)
    <3>1. t.stack = Rest(s.stack)
      BY <2>3 DEF Returned
    <3> QED BY <1>2, <2>1, <2>2, <2>3, <3>1, EvalReturns DEF EvalInv, t
  <2>4. CASE PassedOver(s, t)
    <3>1. t.stack = Rest(s.stack)
      BY <2>4 DEF PassedOver
    <3> QED BY <1>2, <2>1, <2>2, <2>4, <3>1, EvalPasses DEF EvalInv, t
  <2>5. CASE Visited(g, s, t)
    <3>1. id \in Ids(g)
      BY <2>1 DEF Item
    <3>2. IsOpened(g, s.stack, id, t.stack)
      BY <1>1, <1>4, <2>5, <3>1, OpenedStack DEF Visited
    <3> QED BY <1>2, <2>1, <2>5, <3>2, EvalVisits DEF EvalInv, t
  <2> QED BY <1>1, <1>4, <2>3, <2>4, <2>5 DEF EvalTurnOf
<1> QED BY <1>3, <1>4

(* Where the evaluation begins, nothing is open and all is to come.         *)
LEMMA EvalBeginsRight ==
  ASSUME NEW g, GraphClosed(g), NEW dsk, NEW inSub, inSub \subseteq Ids(g)
  PROVE  EvalInv(g, dsk, inSub, EvalBegin(g, inSub))
<1> DEFINE b == EvalBegin(g, inSub)
<1>1. /\ b.visited = {} /\ b.dirty = {} /\ Len(b.stack) = g.size /\ g.size \in Nat
  BY EvalBegins
<1>2. \A i \in 1 .. g.size :
        b.stack[i] = IF g.size - i \in inSub THEN Call(g.size - i)
                     ELSE [op |-> "skip", id |-> g.size - i]
  BY EvalBegins
<1> HIDE DEF b
<1>3. ASSUME NEW i \in 1 .. Len(b.stack)
      PROVE  /\ b.stack[i].op # "return" /\ b.stack[i].id = g.size - i
             /\ b.stack[i].op = "call" <=> g.size - i \in inSub
             /\ b.stack[i].op # "skip" <=> g.size - i \in inSub
  <2>1. i \in 1 .. g.size
    BY <1>1
  <2>2. CASE g.size - i \in inSub
    <3>1. b.stack[i] = Call(g.size - i)
      BY <1>2, <2>1, <2>2
    <3> QED BY <2>2, <3>1 DEF Call
  <2>3. CASE g.size - i \notin inSub
    <3>1. b.stack[i] = [op |-> "skip", id |-> g.size - i]
      BY <1>2, <2>1, <2>3
    <3> QED BY <2>3, <3>1
  <2> QED BY <2>2, <2>3
<1>4. On(b.stack) = {}
  BY <1>3 DEF On
<1>5. EvalWithin(inSub, b) /\ OpenOnce(g, b) /\ AboveIsBelow(g, b) /\ InputsAbove(g, b)
  BY <1>1, <1>3, <1>4 DEF EvalWithin, OpenOnce, AboveIsBelow, InputsAbove, Settled
<1>6. SettledRight(g, dsk, b)
  BY <1>1 DEF SettledRight, Settled
<1>7. AllToCome(inSub, b)
  <2> SUFFICES ASSUME NEW n \in inSub
               PROVE  \E i \in 1 .. Len(b.stack) : b.stack[i].op = "call" /\ b.stack[i].id = n
    BY DEF AllToCome
  <2>1. n \in Nat /\ n < g.size
    BY <1>1 DEF Ids
  <2>2. g.size - n \in 1 .. Len(b.stack) /\ g.size - (g.size - n) = n
    BY <1>1, <2>1
  <2> QED BY <1>3, <2>2
<1> QED BY <1>5, <1>6, <1>7 DEF EvalInv, b

(* Without cycles a node is dirty when it has a reason of its own or an     *)
(* input is dirty, whatever the order of the visits.                        *)
LEMMA DirtyIsJust ==
  ASSUME NEW g, GraphClosed(g), Acyclic(g), NEW dsk,
         NEW inSub, inSub \subseteq Ids(g), IsClosed(g, inSub)
  PROVE  \A n \in inSub : JustDirty(g, dsk, DirtyIn(g, dsk, inSub), n)
<1> DEFINE I == {s \in EvalState(g) : EvalInv(g, dsk, inSub, s)}
           end == Loop(EvalNode(g, dsk))[EvalBegin(g, inSub)]
<1>1. EvalBegin(g, inSub) \in I
  BY EvalBegins, EvalBeginsRight
<1>2. \A s \in I : EvalNode(g, dsk)[s] \in I
  BY EvalTurn, EvalKeepsInv
<1>3. I \subseteq EvalState(g) /\ Keeps(EvalNode(g, dsk), I)
  BY <1>2 DEF Keeps
<1>4. end \in I /\ end.stack = <<>>
  <2> HIDE DEF I
  <2> QED BY <1>1, <1>3, EvalEnds
<1>5. DirtyIn(g, dsk, inSub) = end.dirty
  BY DEF DirtyIn, EvalBegin
<1> HIDE DEF end
<1>6. EvalInv(g, dsk, inSub, end)
  BY <1>4
<1>7. Len(end.stack) = 0
  BY <1>4
<1>8. Settled(end) = inSub
  <2>1. On(end.stack) = {} /\ end.visited \subseteq inSub
    BY <1>6, <1>7 DEF On, EvalInv, EvalWithin
  <2>2. inSub \subseteq end.visited
    BY <1>6, <1>7 DEF EvalInv, AllToCome
  <2> QED BY <2>1, <2>2 DEF Settled
<1> QED BY <1>5, <1>6, <1>8 DEF EvalInv, SettledRight

(* A closed subgraph with such a set of dirty nodes: it is dirty what has a  *)
(* reason, or waits for something that has.                                 *)
LEMMA JustIsByReason ==
  ASSUME NEW g, GraphClosed(g), Acyclic(g), NEW dsk,
         NEW inSub, inSub \subseteq Ids(g), IsClosed(g, inSub),
         NEW dirty, dirty \subseteq inSub, \A n \in inSub : JustDirty(g, dsk, dirty, n)
  PROVE  dirty = DirtyByReason(g, dsk, inSub)
<1> DEFINE Reason(t) == \E m \in Closure(g, {t}) : OwnReason(g.nodes[m], dsk)
<1>1. \A n \in inSub : n \in Ids(g) /\ {n} \in SUBSET Ids(g) /\ Inputs(g, n) \subseteq inSub
  BY DEF IsClosed
<1>2. ASSUME NEW n \in dirty PROVE Reason(n)
  <2> DEFINE A == {t \in dirty : ~Reason(t)}
  <2> SUFFICES ASSUME A # {} PROVE FALSE
    OBVIOUS
  <2>1. A \in SUBSET Ids(g)
    BY <1>1
  <2>2. PICK t \in A : Inputs(g, t) \cap A = {}
    BY <2>1, LowestNode
  <2>3. t \in Ids(g) /\ t \in inSub /\ {t} \in SUBSET Ids(g) /\ ~Reason(t)
    BY <1>1, <2>2
  <2>4. t \in Closure(g, {t})
    BY <2>3, ClosureOfNode
  <2>5. PICK d \in Inputs(g, t) : d \in dirty
    BY <2>2, <2>3, <2>4 DEF JustDirty
  <2>6. Reason(d)
    BY <2>2, <2>5
  <2>7. d \in Closure(g, {t})
    BY <2>3, <2>4, <2>5, ClosureMember
  <2>8. Closure(g, {d}) \subseteq Closure(g, {t})
    BY <2>3, <2>7, ClosureMember
  <2> QED BY <2>3, <2>6, <2>8
<1>3. ASSUME NEW t \in inSub, Reason(t) PROVE t \in dirty
  <2> DEFINE Clean == inSub \ dirty
  <2> SUFFICES ASSUME t \in Clean PROVE FALSE
    OBVIOUS
  <2>1. IsClosed(g, Clean)
    BY <1>1 DEF IsClosed, JustDirty
  <2>2. Closure(g, {t}) \subseteq Clean
    BY <1>1, <2>1, ClosureLeast
  <2>3. PICK m \in Clean : OwnReason(g.nodes[m], dsk)
    BY <1>3, <2>2
  <2> QED BY <2>3 DEF JustDirty
<1> QED BY <1>2, <1>3 DEF DirtyByReason

(* eval_node_dirty is exact on a graph without cycles.                      *)
THEOREM DirtyExact ==
  ASSUME NEW g, GraphClosed(g), Acyclic(g), NEW dsk,
         NEW inSub, inSub \subseteq Ids(g), IsClosed(g, inSub)
  PROVE  DirtyIn(g, dsk, inSub) = DirtyByReason(g, dsk, inSub)
BY DirtyWithin, DirtyIsJust, JustIsByReason

-----------------------------------------------------------------------------
(* zmm_bg_prepare.                                                          *)

(* All targets known, the searches start from the targets' nodes.           *)
THEOREM SubgraphIsClosure ==
  ASSUME NEW g, GraphClosed(g), NEW P, NEW targets \in Seq(P), AllKnown(g, targets)
  PROVE  LET N == {g.nodeMap[targets[k]] : k \in DOMAIN targets} IN
         /\ N \in SUBSET Ids(g) /\ Subgraph(g, targets) = Closure(g, N)
<1> DEFINE L == Len(targets)
           N == {g.nodeMap[targets[k]] : k \in DOMAIN targets}
           starts == [k \in 1 .. L |-> g.nodeMap[targets[k]]]
           K == Known(g, targets)
<1>1. L \in Nat /\ DOMAIN targets = 1 .. L
  BY LenProperties, Zenon
<1>2. K \subseteq 1 .. L /\ Cardinality(K) = L
  BY <1>1, Zenon DEF AllKnown, Known
<1>3. K = 1 .. L
  <2>1. IsFiniteSet(1 .. L) /\ Cardinality(1 .. L) = L
    BY <1>1, FS_Interval
  <2> HIDE DEF K, L
  <2> QED BY <1>2, <2>1, FS_Subset
<1>4. \A k \in 1 .. L : targets[k] \in DOMAIN g.nodeMap
  <2> SUFFICES ASSUME NEW k \in 1 .. L PROVE targets[k] \in DOMAIN g.nodeMap
    OBVIOUS
  <2>1. k \in K /\ k \in 1 .. k
    BY <1>1, <1>3
  <2> QED BY <2>1 DEF Known
<1>5. g.nodeMap \in [DOMAIN g.nodeMap -> Ids(g)]
  BY DEF GraphClosed
<1>6. starts \in [1 .. L -> Ids(g)]
  BY <1>4, <1>5
<1>7. starts \in Seq(Ids(g))
  BY <1>1, <1>6, SeqDef
<1>8. Range(starts) = N
  BY <1>1, <1>6 DEF Range
<1>9. Reversed(starts) \in Seq(Ids(g)) /\ Range(Reversed(starts)) = N
  <2> HIDE DEF starts, N
  <2> QED BY <1>7, <1>8, ReversedProperties
<1>10. Subgraph(g, targets) = Loop(Visit(g))[[stack |-> Reversed(starts), inSub |-> {}]].inSub
  BY <1>2 DEF Subgraph
<1>11. N \in SUBSET Ids(g)
  BY <1>1, <1>4, <1>5
<1> HIDE DEF starts, N
<1>12. Subgraph(g, targets) = Closure(g, N)
  BY <1>9, <1>10, SearchFindsClosure
<1> QED BY <1>11, <1>12 DEF N

(* The entries of waits_on that are dirty are as many as the dependents     *)
(* entries of dirty nodes that name the node.                               *)
THEOREM CountsMirror ==
  ASSUME NEW g, GraphClosed(g), EdgesMirrored(g), NEW t \in Ids(g),
         NEW dirty, dirty \subseteq Ids(g), NEW p, p.dirty = dirty,
         \A d \in Ids(g) : p.dependents[d] = g.nodes[d].dependents
  PROVE  CountPending(g, t, dirty) = Cardinality(SlotsTo(p, t))
<1> DEFINE w == g.nodes[t].waitsOn
           dep(d) == g.nodes[d].dependents
           X(d) == {i \in DOMAIN w : w[i] = d}
           Y(d) == {k \in DOMAIN dep(d) : dep(d)[k] = t}
           f == [d \in dirty |-> CHOOSE h : h \in Bijection(X(d), Y(d))]
           A == {i \in DOMAIN w : w[i] \in dirty}
           B == SlotsTo(p, t)
           F == [i \in A |-> <<w[i], f[w[i]][i]>>]
<1>1. /\ w \in Seq(Ids(g)) /\ \A d \in dirty : dep(d) \in Seq(Ids(g))
  BY DEF GraphClosed, NodeOver
<1>2. /\ Len(w) \in Nat /\ DOMAIN w = 1 .. Len(w)
      /\ \A d \in dirty : Len(dep(d)) \in Nat /\ DOMAIN dep(d) = 1 .. Len(dep(d))
  BY <1>1, LenProperties
<1>3. IsFiniteSet(DOMAIN w)
  <2> HIDE DEF w
  <2> QED BY <1>2, FS_Interval
<1>4. IsFiniteSet(A)
  BY <1>3, FS_Subset
<1>5. ASSUME NEW d \in dirty PROVE f[d] \in Bijection(X(d), Y(d))
  <2>1. Cardinality(X(d)) = Cardinality(Y(d))
    BY DEF EdgesMirrored, Times
  <2>2. IsFiniteSet(X(d))
    BY <1>3, FS_Subset
  <2>3. IsFiniteSet(DOMAIN dep(d))
    <3>1. Len(dep(d)) \in Nat /\ DOMAIN dep(d) = 1 .. Len(dep(d))
      BY <1>2
    <3>2. IsFiniteSet(1 .. Len(dep(d)))
      <4> HIDE DEF dep
      <4> QED BY <3>1, FS_Interval
    <3> QED BY <3>1, <3>2
  <2>4. IsFiniteSet(Y(d))
    BY <2>3, FS_Subset
  <2>5. ExistsBijection(X(d), Y(d))
    <3> HIDE DEF X, Y
    <3> QED BY <2>1, <2>2, <2>4, FS_SameCardinalityBij
  <2>6. Bijection(X(d), Y(d)) # {}
    BY <2>5 DEF ExistsBijection
  <2> HIDE DEF X, Y
  <2>7. (CHOOSE h : h \in Bijection(X(d), Y(d))) \in Bijection(X(d), Y(d))
    BY <2>6
  <2> QED BY <2>7
<1> HIDE DEF f
<1>6. ASSUME NEW d \in dirty
      PROVE  /\ f[d] \in [X(d) -> Y(d)]
             /\ \A i, j \in X(d) : f[d][i] = f[d][j] => i = j
             /\ \A k \in Y(d) : \E i \in X(d) : f[d][i] = k
  <2> HIDE DEF X, Y
  <2> QED BY <1>5 DEF Bijection, Injection, Surjection, IsInjective
<1>7. \A d \in dirty : p.dependents[d] = dep(d)
  OBVIOUS
<1>8. B = {s \in UNION {{<<d, i>> : i \in 1 .. Len(dep(d))} : d \in dirty} : dep(s[1])[s[2]] = t}
  BY <1>7 DEF SlotsTo, Slots, Target
<1>9. ASSUME NEW d \in dirty, NEW k \in Y(d) PROVE <<d, k>> \in B
  BY <1>2, <1>8
<1>10. ASSUME NEW s \in B PROVE \E d \in dirty : \E k \in Y(d) : s = <<d, k>>
  BY <1>2, <1>8
<1> HIDE DEF B
<1>11. \A i \in A : w[i] \in dirty /\ i \in X(w[i])
  OBVIOUS
<1>12. F \in [A -> B]
  <2>1. ASSUME NEW i \in A PROVE <<w[i], f[w[i]][i]>> \in B
    <3>1. f[w[i]][i] \in Y(w[i])
      <4> HIDE DEF X, Y, A, w
      <4> QED BY <1>6, <1>11
    <3> QED BY <1>9, <1>11, <3>1
  <2> QED BY <2>1
<1>13. \A i, j \in A : F[i] = F[j] => i = j
  <2> SUFFICES ASSUME NEW i \in A, NEW j \in A, F[i] = F[j] PROVE i = j
    OBVIOUS
  <2>1. w[i] = w[j] /\ f[w[i]][i] = f[w[j]][j]
    OBVIOUS
  <2> HIDE DEF X, A, w
  <2>2. w[i] \in dirty /\ i \in X(w[i]) /\ j \in X(w[i])
    BY <1>11, <2>1, Zenon
  <2>3. f[w[i]][i] = f[w[i]][j]
    BY <2>1, Zenon
  <2>4. PICK S, h : S = X(w[i]) /\ h = f[w[i]]
    OBVIOUS
  <2>5. i \in S /\ j \in S /\ h[i] = h[j]
    BY <2>2, <2>3, <2>4, Zenon
  <2>6. \A k, l \in S : h[k] = h[l] => k = l
    BY <1>6, <2>2, <2>4, Zenon
  <2> HIDE DEF F
  <2> QED BY <2>5, <2>6, ZenonT(30)
<1>14. \A s \in B : \E i \in A : F[i] = s
  <2> SUFFICES ASSUME NEW s \in B PROVE \E i \in A : F[i] = s
    OBVIOUS
  <2>1. PICK d \in dirty : \E k \in Y(d) : s = <<d, k>>
    BY <1>10
  <2>2. PICK k \in Y(d) : s = <<d, k>>
    BY <2>1
  <2>3. PICK i \in X(d) : f[d][i] = k
    BY <1>6
  <2>4. i \in A /\ w[i] = d
    BY <2>3
  <2> QED BY <2>2, <2>3, <2>4
<1>15. F \in Bijection(A, B)
  <2> HIDE DEF F, A
  <2> QED BY <1>12, <1>13, <1>14 DEF Bijection, Injection, Surjection, IsInjective
<1>16. Cardinality(B) = Cardinality(A)
  <2>1. ExistsBijection(A, B)
    <3> HIDE DEF A, F
    <3> QED BY <1>15 DEF ExistsBijection
  <2> HIDE DEF A
  <2> QED BY <1>4, <2>1, FS_Bijection
<1> QED BY <1>16 DEF CountPending, B
=============================================================================
