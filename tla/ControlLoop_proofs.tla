-------------------------- MODULE ControlLoop_proofs --------------------------
(***************************************************************************)
(* Proofs about the selector, and about sequences of its decisions, for    *)
(* every table of policies, every inventory, context and resources.        *)
(* They rest on two facts: the sort key orders the evaluations strictly,   *)
(* so a best one exists however many there are; and two evaluations no     *)
(* other is better than have the same identity, so it does not matter      *)
(* which of them min() meets first.                                        *)
(***************************************************************************)
EXTENDS ControlLoop, SequenceTheorems, WellFoundedInduction, TLAPS

-----------------------------------------------------------------------------
(* Places.                                                                 *)

\* A set of natural numbers has a least one.
LEMMA LeastNumber ==
  ASSUME NEW T, T \subseteq Nat, T # {}
  PROVE  \E x \in T : \A y \in T : x <= y
<1> DEFINE Below == {ss \in Nat \X Nat : ss[1] < ss[2]}
<1>1. IsWellFoundedOn(Below, Nat)
  BY NatLessThanWellFounded DEF OpToRel
<1>2. \E x \in T : \A y \in T : ~(<<y, x>> \in Below)
  <2> HIDE DEF Below
  <2> QED
    BY <1>1, WFMin
<1>3. PICK x \in T : \A y \in T : ~(<<y, x>> \in Below)
  BY <1>2
<1>4. ASSUME NEW y \in T PROVE x <= y
  <2>1. x \in Nat /\ y \in Nat
    OBVIOUS
  <2>2. ~(y < x)
    BY <1>3, <2>1
  <2> QED
    BY <2>1, <2>2
<1> QED
  BY <1>4

\* A set of places has a greatest one.
LEMMA GreatestPlace ==
  ASSUME NEW n \in Nat, NEW P, P \subseteq 1..n, P # {}
  PROVE  \E i \in P : \A j \in P : i >= j
<1> DEFINE T == {n - i : i \in P}
<1>1. T \subseteq Nat /\ T # {}
  <2>1. \A i \in P : n - i \in Nat
    OBVIOUS
  <2>2. PICK i \in P : TRUE
    OBVIOUS
  <2>3. n - i \in T
    BY <2>2
  <2> QED
    BY <2>1, <2>3
<1>2. \E x \in T : \A y \in T : x <= y
  <2> HIDE DEF T
  <2> QED
    BY <1>1, LeastNumber
<1>3. PICK i \in P : \A j \in P : n - i <= n - j
  BY <1>2
<1>4. ASSUME NEW j \in P PROVE i >= j
  <2>1. i \in Nat /\ j \in Nat
    OBVIOUS
  <2> QED
    BY <1>3, <2>1
<1> QED
  BY <1>4

-----------------------------------------------------------------------------
(* The sort key.                                                           *)

Rankable(e) == e.priority \in Int /\ Identity(e.model) \in Nat \X Nat

\* The key orders what it ranks strictly.
LEMMA BetterIsStrict ==
  ASSUME NEW current, NEW a, Rankable(a), NEW b, Rankable(b), NEW c, Rankable(c)
  PROVE  /\ ~Better(a, a, current)
         /\ Better(a, b, current) /\ Better(b, c, current) => Better(a, c, current)
<1> DEFINE A == SameModel(current, a.model)
           B == SameModel(current, b.model)
           C == SameModel(current, c.model)
<1>1. /\ Identity(a.model)[1] \in Nat /\ Identity(a.model)[2] \in Nat
      /\ Identity(b.model)[1] \in Nat /\ Identity(b.model)[2] \in Nat
      /\ Identity(c.model)[1] \in Nat /\ Identity(c.model)[2] \in Nat
  BY DEF Rankable
<1>2. A \in BOOLEAN /\ B \in BOOLEAN /\ C \in BOOLEAN
  BY DEF SameModel
<1> HIDE DEF A, B, C
<1> QED
  BY <1>1, <1>2 DEF Rankable, Better, PairLess, A, B, C

\* Nothing but an identity stands between two evaluations neither of which is better.
LEMMA BetterIsTotal ==
  ASSUME NEW current, NEW a, Rankable(a), NEW b, Rankable(b),
         ~Better(a, b, current), ~Better(b, a, current)
  PROVE  Identity(a.model) = Identity(b.model)
<1>1. /\ Identity(a.model) \in Nat \X Nat
      /\ Identity(b.model) \in Nat \X Nat
  BY DEF Rankable
<1>2. SameModel(current, a.model) \in BOOLEAN /\ SameModel(current, b.model) \in BOOLEAN
  BY DEF SameModel
<1>3. ~PairLess(Identity(a.model), Identity(b.model))
      /\ ~PairLess(Identity(b.model), Identity(a.model))
  BY <1>2 DEF Rankable, Better
<1> QED
  BY <1>1, <1>3 DEF PairLess

\* Among any evaluations in places up to n there is a best one: the best of those
\* before a place, or the one at that place.
LEMMA BestExists ==
  ASSUME NEW current, NEW n \in Nat, NEW E, E # {},
         \A e \in E : Rankable(e) /\ e.place \in 1..n,
         \A e, f \in E : e.place = f.place => e = f
  PROVE  \E e \in E : \A f \in E : ~Better(f, e, current)
<1> DEFINE UpTo(k) == {e \in E : e.place <= k}
           Worst == {k \in Nat : /\ UpTo(k) # {}
                                 /\ \A e \in UpTo(k) : \E f \in UpTo(k) : Better(f, e, current)}
<1>0. \A e \in E : e.place \in Nat /\ e.place >= 1 /\ e.place <= n
  OBVIOUS
<1>1. UpTo(n) = E
  BY <1>0
<1>2. ASSUME Worst # {} PROVE FALSE
  <2>1. PICK k \in Worst : \A j \in Worst : k <= j
    <3> HIDE DEF Worst
    <3>1. Worst \subseteq Nat
      BY DEF Worst
    <3> QED
      BY <1>2, <3>1, LeastNumber
  <2>2. k \in Nat /\ UpTo(k) # {} /\ k # 0
    BY <1>0, <2>1
  <2>3. k - 1 \in Nat /\ k - 1 \notin Worst
    BY <2>1, <2>2
  <2>4. \A e \in UpTo(k) : e \in UpTo(k - 1) \/ e.place = k
    BY <1>0, <2>2
  <2>5. UpTo(k - 1) \subseteq UpTo(k)
    BY <1>0, <2>2
  <2>6. CASE UpTo(k - 1) = {}
    <3>1. PICK e \in UpTo(k) : TRUE
      BY <2>2
    <3>2. \A f \in UpTo(k) : f = e
      BY <2>4, <2>6, <3>1
    <3>3. PICK f \in UpTo(k) : Better(f, e, current)
      BY <2>1, <3>1
    <3> QED
      BY <3>1, <3>2, <3>3, BetterIsStrict
  <2>7. CASE UpTo(k - 1) # {}
    <3>1. PICK b \in UpTo(k - 1) : \A f \in UpTo(k - 1) : ~Better(f, b, current)
      BY <2>3, <2>7
    <3>2. PICK g \in UpTo(k) : Better(g, b, current)
      BY <2>1, <2>5, <3>1
    <3>3. g.place = k
      BY <2>4, <3>1, <3>2
    <3>4. PICK f \in UpTo(k) : Better(f, g, current)
      BY <2>1, <3>2
    <3>5. f \in UpTo(k - 1) \/ f = g
      BY <2>4, <3>2, <3>3, <3>4
    <3>6. b \in E /\ g \in E /\ f \in E
      BY <3>1, <3>2, <3>4
    <3>7. ~Better(g, g, current) /\ Better(f, b, current)
      BY <3>2, <3>4, <3>6, BetterIsStrict
    <3> QED
      BY <3>1, <3>4, <3>5, <3>7
  <2> QED
    BY <2>6, <2>7
<1> QED
  BY <1>1, <1>2

\* min(): nothing where nothing is feasible, else the model of a feasible evaluation
\* that no feasible one is better than.
LEMMA RankIsBest ==
  ASSUME NEW current, NEW n \in Nat, NEW E,
         \A e \in E : Rankable(e) /\ e.place \in 1..n,
         \A e, f \in E : e.place = f.place => e = f
  PROVE  \/ /\ Rank(E, current) = Nil
            /\ \A e \in E : ~e.feasible
         \/ \E e \in E : /\ e.feasible
                         /\ Rank(E, current) = e.model
                         /\ \A f \in E : f.feasible => ~Better(f, e, current)
<1> DEFINE feasible == {e \in E : e.feasible}
           best == {e \in feasible : \A f \in feasible : ~Better(f, e, current)}
           first == CHOOSE e \in best : \A f \in best : e.place <= f.place
<1>1. Rank(E, current) = IF feasible = {} THEN Nil ELSE first.model
  BY DEF Rank
<1>2. CASE feasible = {}
  BY <1>1, <1>2
<1>3. CASE feasible # {}
  <2>1. feasible \subseteq E
    OBVIOUS
  <2>2. best # {} /\ best \subseteq E
    <3>1. \E e \in feasible : \A f \in feasible : ~Better(f, e, current)
      <4> HIDE DEF feasible
      <4> QED
        BY <1>3, <2>1, BestExists
    <3> QED
      BY <3>1
  <2>3. first \in best
    <3> DEFINE Places == {e.place : e \in best}
    <3>1. Places \subseteq Nat /\ Places # {}
      <4> HIDE DEF best
      <4> QED
        BY <2>2
    <3>2. \E x \in Places : \A y \in Places : x <= y
      <4> HIDE DEF Places
      <4> QED
        BY <3>1, LeastNumber
    <3>3. \E e \in best : \A f \in best : e.place <= f.place
      <4> HIDE DEF best
      <4> QED
        BY <3>2
    <3> HIDE DEF best
    <3> QED
      BY <3>3
  <2> QED
    BY <1>1, <1>3, <2>1, <2>3
<1> QED
  BY <1>2, <1>3

-----------------------------------------------------------------------------
(* One selection.                                                          *)

\* available.get(): a model of the inventory with the identity asked for, and
\* nothing only where there is none.
LEMMA AvailableIsOffered ==
  ASSUME NEW m, IsInventory(m), NEW x
  PROVE  \/ /\ Available(m, x) = Nil
            /\ \A y \in ToSet(m) : Identity(y) # Identity(x)
         \/ /\ Available(m, x) # Nil
            /\ Available(m, x) \in ToSet(m)
            /\ Identity(Available(m, x)) = Identity(x)
<1> DEFINE places == {i \in DOMAIN m : Identity(m[i]) = Identity(x)}
           last == CHOOSE i \in places : \A j \in places : i >= j
<1>1. DOMAIN m = 1..Len(m) /\ Len(m) \in Nat
  BY LenProperties DEF IsInventory
<1>2. Available(m, x) = IF places = {} THEN Nil ELSE m[last]
  BY DEF Available
<1>3. CASE places = {}
  BY <1>2, <1>3 DEF ToSet
<1>4. CASE places # {}
  <2>1. last \in places
    <3>1. \E i \in places : \A j \in places : i >= j
      <4>1. places \subseteq 1..Len(m)
        BY <1>1
      <4> HIDE DEF places
      <4> QED
        BY <1>1, <1>4, <4>1, GreatestPlace
    <3> HIDE DEF places
    <3> QED
      BY <3>1
  <2> QED
    BY <1>2, <1>4, <2>1 DEF ToSet, IsInventory
<1> QED
  BY <1>3, <1>4

\* What _evaluate_policy() decides of a policy.
Admits(x, m, res, ctx) ==
  /\ Available(m, x.model) # Nil
  /\ \A i \in DOMAIN x.constraints : Satisfied(x.constraints[i], ctx, res)

\* The evaluation of the policy x, but for its place.
Scored(x, m, res, ctx) == Evaluate(1, x, Available(m, x.model), ctx, res)

\* The best policy: one that is feasible, and than which no feasible one is better.
IsBest(x, p, m, cur, res, ctx) ==
  /\ x \in ToSet(p)
  /\ Admits(x, m, res, ctx)
  /\ \A y \in ToSet(p) : Admits(y, m, res, ctx) =>
       ~Better(Scored(y, m, res, ctx), Scored(x, m, res, ctx), cur)

\* An evaluation has the priority and the identity of its policy.
LEMMA ScoredIsRankable ==
  ASSUME NEW p, IsTable(p), NEW m, IsInventory(m), NEW res, NEW ctx, NEW x \in ToSet(p)
  PROVE  LET e == Scored(x, m, res, ctx)
         IN  /\ Rankable(e)
             /\ e.priority = x.priority
             /\ Identity(e.model) = Identity(x.model)
             /\ e.feasible = Admits(x, m, res, ctx)
             /\ e.feasible => e.model = Available(m, x.model)
<1> DEFINE e == Scored(x, m, res, ctx)
           a == Available(m, x.model)
<1>1. /\ e.model = IF a = Nil THEN x.model ELSE a
      /\ e.priority = x.priority
      /\ e.feasible = Admits(x, m, res, ctx)
  BY DEF Scored, Evaluate, Admits
<1>2. Identity(e.model) = Identity(x.model)
  BY <1>1, AvailableIsOffered
<1>3. x.priority \in Int /\ Identity(x.model) \in Nat \X Nat
  BY DEF IsTable
<1>4. e.feasible => e.model = a
  BY <1>1 DEF Admits
<1> HIDE DEF e
<1>5. Rankable(e)
  BY <1>1, <1>2, <1>3 DEF Rankable
<1> QED
  BY <1>1, <1>2, <1>4, <1>5 DEF e

\* select() answers with the runtime's reference to the model of a best policy, and
\* with nothing only where no policy is feasible.
LEMMA SelectIsBest ==
  ASSUME NEW p, IsTable(p), NEW m, IsInventory(m), NEW cur, NEW res, NEW ctx
  PROVE  LET selected == Select(p, m, cur, res, ctx).selected
         IN  \/ /\ selected = Nil
                /\ \A x \in ToSet(p) : ~Admits(x, m, res, ctx)
             \/ \E x \in ToSet(p) : /\ IsBest(x, p, m, cur, res, ctx)
                                    /\ selected = Available(m, x.model)
<1> DEFINE ev(i) == Evaluate(i, p[i], Available(m, p[i].model), ctx, res)
           E == {ev(i) : i \in DOMAIN p}
           selected == Select(p, m, cur, res, ctx).selected
<1>1. selected = Rank(E, cur)
  BY DEF Select
<1>2. DOMAIN p = 1..Len(p) /\ Len(p) \in Nat
  BY LenProperties DEF IsTable
<1>3. ASSUME NEW i \in DOMAIN p
      PROVE  /\ ev(i).place = i
             /\ ev(i).model = Scored(p[i], m, res, ctx).model
             /\ ev(i).priority = Scored(p[i], m, res, ctx).priority
             /\ ev(i).feasible = Scored(p[i], m, res, ctx).feasible
  BY DEF Evaluate, Scored
<1>4. \A i \in DOMAIN p : p[i] \in ToSet(p)
  BY DEF ToSet
<1>5. \A x \in ToSet(p) : \E i \in DOMAIN p : p[i] = x
  BY DEF ToSet
<1> HIDE DEF ev
<1>6. ASSUME NEW i \in DOMAIN p
      PROVE  /\ Rankable(ev(i))
             /\ ev(i).feasible = Admits(p[i], m, res, ctx)
             /\ ev(i).feasible => ev(i).model = Available(m, p[i].model)
  <2>1. Rankable(ev(i)) = Rankable(Scored(p[i], m, res, ctx))
    BY <1>3 DEF Rankable
  <2> QED
    BY <1>3, <1>4, <2>1, ScoredIsRankable
<1>7. /\ \A e \in E : Rankable(e) /\ e.place \in 1..Len(p)
      /\ \A e, f \in E : e.place = f.place => e = f
  BY <1>2, <1>3, <1>6
<1>8. \/ /\ Rank(E, cur) = Nil
         /\ \A e \in E : ~e.feasible
      \/ \E e \in E : /\ e.feasible
                      /\ Rank(E, cur) = e.model
                      /\ \A f \in E : f.feasible => ~Better(f, e, cur)
  <2> HIDE DEF E
  <2> QED
    BY <1>2, <1>7, RankIsBest
<1> HIDE DEF selected
<1>9. CASE Rank(E, cur) = Nil /\ \A e \in E : ~e.feasible
  <2>1. \A i \in DOMAIN p : ~Admits(p[i], m, res, ctx)
    BY <1>6, <1>9
  <2> QED
    BY <1>1, <1>5, <1>9, <2>1 DEF selected
<1>10. ASSUME NEW i \in DOMAIN p, ev(i).feasible, Rank(E, cur) = ev(i).model,
              \A f \in E : f.feasible => ~Better(f, ev(i), cur)
       PROVE  IsBest(p[i], p, m, cur, res, ctx) /\ selected = Available(m, p[i].model)
  <2>1. ASSUME NEW j \in DOMAIN p, Admits(p[j], m, res, ctx)
        PROVE  ~Better(Scored(p[j], m, res, ctx), Scored(p[i], m, res, ctx), cur)
    <3>1. ~Better(ev(j), ev(i), cur)
      BY <1>6, <1>10, <2>1
    <3> QED
      BY <1>3, <3>1 DEF Better
  <2>2. Admits(p[i], m, res, ctx)
    BY <1>6, <1>10
  <2>3. selected = Available(m, p[i].model)
    BY <1>1, <1>6, <1>10 DEF selected
  <2> QED
    BY <1>4, <1>5, <2>1, <2>2, <2>3 DEF IsBest
<1> QED
  BY <1>4, <1>8, <1>9, <1>10 DEF selected

-----------------------------------------------------------------------------
(* The selection depends on which policies and models there are only.      *)

\* With the same policies and models there is the same selection, if no two policies
\* and no two models share an identity.
LEMMA SameContentSameSelection ==
  ASSUME NEW p, IsTable(p), ValidPolicies(p), NEW q, IsTable(q), ToSet(q) = ToSet(p),
         NEW m, IsInventory(m), NEW n, IsInventory(n),
         \A x \in ToSet(p) : Available(n, x.model) = Available(m, x.model),
         NEW cur, NEW res, NEW ctx
  PROVE  Select(q, n, cur, res, ctx).selected = Select(p, m, cur, res, ctx).selected
<1>1. ASSUME NEW x \in ToSet(p)
      PROVE  /\ Admits(x, n, res, ctx) = Admits(x, m, res, ctx)
             /\ Scored(x, n, res, ctx) = Scored(x, m, res, ctx)
  BY DEF Admits, Scored
<1>2. ASSUME NEW x, IsBest(x, p, m, cur, res, ctx), NEW y, IsBest(y, q, n, cur, res, ctx)
      PROVE  x = y
  <2>1. x \in ToSet(p) /\ y \in ToSet(p)
    BY <1>2 DEF IsBest
  <2>2. /\ ~Better(Scored(y, m, res, ctx), Scored(x, m, res, ctx), cur)
        /\ ~Better(Scored(x, m, res, ctx), Scored(y, m, res, ctx), cur)
    BY <1>1, <1>2, <2>1 DEF IsBest
  <2>3. Identity(x.model) = Identity(y.model)
    BY <2>1, <2>2, ScoredIsRankable, BetterIsTotal
  <2> QED
    BY <2>1, <2>3 DEF ValidPolicies, ToSet
<1>3. \A x : IsBest(x, p, m, cur, res, ctx) => x \in ToSet(p) /\ Admits(x, m, res, ctx)
  BY DEF IsBest
<1>4. \A x : IsBest(x, q, n, cur, res, ctx) => x \in ToSet(p) /\ Admits(x, m, res, ctx)
  BY <1>1 DEF IsBest
<1>5. LET selected == Select(p, m, cur, res, ctx).selected
      IN  \/ /\ selected = Nil
             /\ \A x \in ToSet(p) : ~Admits(x, m, res, ctx)
          \/ \E x \in ToSet(p) : /\ IsBest(x, p, m, cur, res, ctx)
                                 /\ selected = Available(m, x.model)
  BY SelectIsBest
<1>6. LET selected == Select(q, n, cur, res, ctx).selected
      IN  \/ /\ selected = Nil
             /\ \A x \in ToSet(p) : ~Admits(x, m, res, ctx)
          \/ \E x \in ToSet(p) : /\ IsBest(x, q, n, cur, res, ctx)
                                 /\ selected = Available(m, x.model)
  BY <1>1, SelectIsBest
<1> QED
  BY <1>2, <1>3, <1>4, <1>5, <1>6

\* Where no two models share an identity, their order is no matter to available.get().
LEMMA SameModelsSameAvailable ==
  ASSUME NEW m, IsInventory(m), NEW n, IsInventory(n), ToSet(n) = ToSet(m),
         \A i, j \in DOMAIN m : Identity(m[i]) = Identity(m[j]) => i = j,
         NEW x
  PROVE  Available(n, x) = Available(m, x)
<1>1. \A a, b \in ToSet(m) : Identity(a) = Identity(b) => a = b
  BY DEF ToSet
<1> QED
  BY <1>1, AvailableIsOffered

\* A permutation of the places leaves the same things in the sequence.
LEMMA SwapKeepsContent ==
  ASSUME NEW s, s \in Seq(ToSet(s))
  PROVE  SwapFirst(s) \in Seq(ToSet(s)) /\ ToSet(SwapFirst(s)) = ToSet(s)
<1> DEFINE S == ToSet(s)
           two == <<s[2], s[1]>>
           rest == SubSeq(s, 3, Len(s))
<1>1. CASE Len(s) < 2
  BY <1>1 DEF SwapFirst
<1>2. CASE ~(Len(s) < 2)
  <2>1. DOMAIN s = 1..Len(s) /\ Len(s) \in Nat /\ \A i \in 1..Len(s) : s[i] \in S
    BY LenProperties DEF ToSet
  <2>2. 1 \in DOMAIN s /\ 2 \in DOMAIN s
    BY <1>2, <2>1
  <2>3. two \in Seq(S) /\ Len(two) = 2 /\ two[1] = s[2] /\ two[2] = s[1]
    BY <2>1, <2>2
  <2>4. /\ rest \in Seq(S)
        /\ Len(rest) = Len(s) - 2
        /\ \A i \in 1..(Len(s) - 2) : rest[i] = s[i + 2]
    <3>1. \A i \in 3..Len(s) : s[i] \in S
      BY <2>1
    <3> QED
      BY <1>2, <2>1, <3>1, SubSeqProperties
  <2> HIDE DEF two, rest, S
  <2>5. /\ two \o rest \in Seq(S)
        /\ Len(two \o rest) = Len(s)
        /\ \A i \in 1..Len(s) :
             (two \o rest)[i] = IF i <= 2 THEN two[i] ELSE rest[i - 2]
    <3>1. 2 + Len(rest) = Len(s)
      BY <1>2, <2>1, <2>4
    <3>2. two \in Seq(S) /\ rest \in Seq(S)
      BY <2>3, <2>4
    <3>3. /\ two \o rest \in Seq(S)
          /\ Len(two \o rest) = Len(two) + Len(rest)
          /\ \A i \in 1..(Len(two) + Len(rest)) :
               (two \o rest)[i] = IF i <= Len(two) THEN two[i] ELSE rest[i - Len(two)]
      BY <3>2, ConcatProperties
    <3>4. Len(two) = 2
      BY <2>3
    <3> QED
      BY <3>1, <3>3, <3>4
  <2>6. DOMAIN (two \o rest) = DOMAIN s
    BY <2>1, <2>5, LenProperties
  <2> DEFINE t == two \o rest
             pi(i) == IF i = 1 THEN 2 ELSE IF i = 2 THEN 1 ELSE i
  <2>7. ASSUME NEW i \in DOMAIN s PROVE pi(i) \in DOMAIN s /\ t[i] = s[pi(i)] /\ t[pi(i)] = s[i]
    <3>0. i \in Nat /\ i >= 1 /\ i <= Len(s)
      BY <2>1
    <3>1. CASE i > 2
      BY <2>1, <2>4, <2>5, <3>1
    <3>2. CASE i <= 2
      BY <2>1, <2>2, <2>3, <2>5, <3>2
    <3> HIDE DEF t, pi
    <3> QED
      BY <3>0, <3>1, <3>2
  <2> HIDE DEF t, pi
  <2>8. ToSet(t) = S
    BY <2>6, <2>7 DEF ToSet, S, t
  <2> QED
    BY <1>2, <2>5, <2>8 DEF SwapFirst, t, two, rest, S
<1> QED
  BY <1>1, <1>2

LEMMA RotationKeepsContent ==
  ASSUME NEW s, s \in Seq(ToSet(s))
  PROVE  Rotate(s) \in Seq(ToSet(s)) /\ ToSet(Rotate(s)) = ToSet(s)
<1> DEFINE S == ToSet(s)
<1>1. CASE s = <<>>
  BY <1>1 DEF Rotate
<1>2. CASE s # <<>>
  <2>1. DOMAIN s = 1..Len(s) /\ Len(s) \in Nat /\ \A i \in 1..Len(s) : s[i] \in S
    BY LenProperties DEF ToSet
  <2>2. /\ Head(s) \in S /\ Head(s) = s[1] /\ 1 \in DOMAIN s
        /\ Tail(s) \in Seq(S) /\ Len(Tail(s)) = Len(s) - 1
        /\ \A i \in 1..(Len(s) - 1) : Tail(s)[i] = s[i + 1]
    <3> HIDE DEF S
    <3> QED
      BY <1>2, <2>1, HeadTailProperties, EmptySeq DEF S
  <2> DEFINE one == <<Head(s)>>
  <2>3. one \in Seq(S) /\ Len(one) = 1 /\ one[1] = s[1]
    BY <2>2
  <2> HIDE DEF one, S
  <2>4. /\ Tail(s) \o one \in Seq(S)
        /\ Len(Tail(s) \o one) = Len(s)
        /\ \A i \in 1..Len(s) :
             (Tail(s) \o one)[i] = IF i <= Len(s) - 1 THEN Tail(s)[i] ELSE one[i - (Len(s) - 1)]
    <3>1. Len(Tail(s)) = Len(s) - 1 /\ Len(one) = 1 /\ Len(Tail(s)) + Len(one) = Len(s)
      BY <2>1, <2>2, <2>3
    <3>2. Tail(s) \in Seq(S) /\ one \in Seq(S)
      BY <2>2, <2>3
    <3>3. /\ Tail(s) \o one \in Seq(S)
          /\ Len(Tail(s) \o one) = Len(Tail(s)) + Len(one)
          /\ \A i \in 1..(Len(Tail(s)) + Len(one)) :
               (Tail(s) \o one)[i] = IF i <= Len(Tail(s)) THEN Tail(s)[i]
                                     ELSE one[i - Len(Tail(s))]
      BY <3>2, ConcatProperties
    <3> QED
      BY <3>1, <3>3
  <2> DEFINE t == Tail(s) \o one
  <2>5. DOMAIN t = DOMAIN s
    BY <2>1, <2>4, LenProperties
  <2>6. ASSUME NEW i \in DOMAIN s
        PROVE  \E j \in DOMAIN s : t[i] = s[j]
    <3>0. i \in Nat /\ i >= 1 /\ i <= Len(s) /\ Len(s) \in Nat
      BY <2>1
    <3>1. CASE i < Len(s)
      BY <2>1, <2>2, <2>4, <3>1
    <3>2. CASE i = Len(s)
      BY <2>1, <2>2, <2>3, <2>4, <3>2
    <3> HIDE DEF t
    <3> QED
      BY <3>0, <3>1, <3>2
  <2>7. ASSUME NEW i \in DOMAIN s
        PROVE  \E j \in DOMAIN s : t[j] = s[i]
    <3>0. i \in Nat /\ i >= 1
      BY <2>1
    <3>1. CASE i > 1
      <4>1. i - 1 \in DOMAIN s /\ t[i - 1] = s[i]
        BY <2>1, <2>2, <2>4, <3>1
      <4> QED
        BY <4>1
    <3>2. CASE i = 1
      <4>1. Len(s) \in DOMAIN s /\ t[Len(s)] = s[1]
        BY <2>1, <2>2, <2>3, <2>4
      <4> QED
        BY <3>2, <4>1
    <3> HIDE DEF t
    <3> QED
      BY <3>0, <3>1, <3>2
  <2> HIDE DEF t
  <2>8. ToSet(t) = S
    BY <2>5, <2>6, <2>7 DEF ToSet, S
  <2> QED
    BY <1>2, <2>4, <2>8 DEF Rotate, t, one, S
<1> QED
  BY <1>1, <1>2

-----------------------------------------------------------------------------
(* The theorems.                                                           *)

\* Policies and inventory stay what they were configured to be.
Configured ==
  /\ policies \in PolicyTables /\ models \in Inventories
  /\ context \in Contexts /\ resources \in ResourceStates

LEMMA StaysConfigured == Configured /\ [Next]_vars => Configured'
  BY DEF Configured, Next, Observe, UpdateResources, Reconcile, vars

\* The configuration the selector was made for (selector.py 45-60) is its own for good,
\* and what it is given are contexts and resources.
THEOREM Invariance == Spec => []Configured
<1>1. Init => Configured
  BY DEF Init, Configured
<1> QED
  BY <1>1, StaysConfigured, PTL DEF Spec

LEMMA ConfiguredIsValid ==
  Configured => ValidPolicies(policies) /\ IsTable(policies) /\ IsInventory(models)
  BY PolicyTablesAreValid, InventoriesAreModels DEF Configured

\* Feasible says of a policy what the evaluation computes.
LEMMA FeasibleIsAdmitted ==
  ASSUME Configured, NEW x
  PROVE  Feasible(x) = Admits(x, models, resources, context)
<1>1. Available(models, x.model) # Nil <=>
        \E i \in DOMAIN models : Identity(models[i]) = Identity(x.model)
  BY ConfiguredIsValid, AvailableIsOffered DEF ToSet
<1>2. (\A c \in ToSet(x.constraints) : Satisfied(c, context, resources)) <=>
        \A i \in DOMAIN x.constraints : Satisfied(x.constraints[i], context, resources)
  BY DEF ToSet
<1>3. Feasible(x) \in BOOLEAN /\ Admits(x, models, resources, context) \in BOOLEAN
  BY DEF Feasible, Admits
<1> QED
  BY <1>1, <1>2, <1>3 DEF Feasible, Admits

\* The policy of a model is the only one with its identity.
LEMMA PolicyOfIdentity ==
  ASSUME Configured, NEW x \in ToSet(policies), NEW model, Identity(model) = Identity(x.model)
  PROVE  PolicyOf(model) = x
<1>1. \A y \in ToSet(policies) : Identity(y.model) = Identity(x.model) => y = x
  BY ConfiguredIsValid DEF ValidPolicies, ToSet
<1> QED
  BY <1>1 DEF PolicyOf

\* What a decision is, in the terms of the properties.
LEMMA DecisionIsBest ==
  ASSUME Configured
  PROVE  \/ /\ Decision.selected = Nil
            /\ \A x \in ToSet(policies) : ~Feasible(x)
         \/ /\ Decision.selected # Nil /\ Decision.selected \in ToSet(models)
            /\ Feasible(PolicyOf(Decision.selected))
            /\ PolicyOf(Decision.selected) \in ToSet(policies)
            /\ Identity(PolicyOf(Decision.selected).model) = Identity(Decision.selected)
            /\ IsBest(PolicyOf(Decision.selected), policies, models, active, resources, context)
<1>1. CASE Decision.selected = Nil /\ \A x \in ToSet(policies) : ~Admits(x, models, resources, context)
  BY <1>1, FeasibleIsAdmitted
<1>2. ASSUME NEW x \in ToSet(policies), IsBest(x, policies, models, active, resources, context),
             Decision.selected = Available(models, x.model)
      PROVE  /\ Decision.selected # Nil /\ Decision.selected \in ToSet(models)
             /\ Identity(x.model) = Identity(Decision.selected)
             /\ PolicyOf(Decision.selected) = x
             /\ Feasible(x)
  <2>1. Admits(x, models, resources, context)
    BY <1>2 DEF IsBest
  <2>2. /\ Decision.selected # Nil /\ Decision.selected \in ToSet(models)
        /\ Identity(x.model) = Identity(Decision.selected)
    BY <1>2, <2>1, ConfiguredIsValid, AvailableIsOffered DEF Admits
  <2> QED
    BY <2>1, <2>2, PolicyOfIdentity, FeasibleIsAdmitted
<1>3. \/ /\ Decision.selected = Nil
         /\ \A x \in ToSet(policies) : ~Admits(x, models, resources, context)
      \/ \E x \in ToSet(policies) : /\ IsBest(x, policies, models, active, resources, context)
                                    /\ Decision.selected = Available(models, x.model)
  BY ConfiguredIsValid, SelectIsBest DEF Decision
<1> QED
  BY <1>1, <1>2, <1>3

\* A policy no feasible one is better than has the highest priority, and keeps the
\* current model on a tie.
LEMMA BestHasPriority ==
  ASSUME Configured, NEW x \in ToSet(policies),
         IsBest(x, policies, models, active, resources, context),
         NEW y \in ToSet(policies), Feasible(y)
  PROVE  /\ y.priority <= x.priority
         /\ SameModel(active, y.model) /\ ~SameModel(active, x.model) => y.priority < x.priority
<1> DEFINE a == Scored(y, models, resources, context)
           b == Scored(x, models, resources, context)
<1>1. ~Better(a, b, active)
  BY FeasibleIsAdmitted DEF IsBest
<1>2. /\ a.priority = y.priority /\ Identity(a.model) = Identity(y.model)
      /\ b.priority = x.priority /\ Identity(b.model) = Identity(x.model)
  BY ConfiguredIsValid, ScoredIsRankable
<1>3. x.priority \in Int /\ y.priority \in Int
  BY ConfiguredIsValid DEF IsTable
<1> HIDE DEF a, b
<1> QED
  BY <1>1, <1>2, <1>3 DEF Better, SameModel

\* selector.py 62-139: whatever is configured, offered and observed, the selected
\* model is the runtime's own reference to a feasible model of the highest priority,
\* and nothing is selected only when nothing is feasible.
THEOREM SelectionIsBest == Spec => []SelectsBestFeasible
<1>1. Configured => SelectsBestFeasible
  BY DecisionIsBest, BestHasPriority DEF SelectsBestFeasible
<1> QED
  BY <1>1, Invariance, PTL

\* The laws of a scalar and an expectation.
LEMMA LawsOfComparison ==
  ASSUME NEW a, IsScalar(a), NEW e, IsExpected(e)
  PROVE  Lawful(a, e)
<1>1. CASE e.kind = "coll"
  <2>1. a.kind # "coll" /\ a # e
    BY <1>1 DEF IsScalar
  <2> QED
    BY <1>1, <2>1 DEF Lawful, Compare, PyEqual, Less, AtLeast, Orderable
<1>2. CASE e.kind # "coll"
  <2>1. /\ a.kind \in {"num", "str", "nan"} /\ e.kind \in {"num", "str", "nan"}
        /\ a.v \in Int /\ e.v \in Int
        /\ a = e <=> a.kind = e.kind /\ a.v = e.v
    BY <1>2 DEF IsScalar, IsExpected
  <2> QED
    BY <1>2, <2>1 DEF Lawful, Compare, PyEqual, Less, AtLeast, Orderable
<1> QED
  BY <1>1, <1>2

\* selector.py 169-178: whatever scalars a context and a runtime give, and whatever the
\* policies expect, the operators agree with one another as Python's do.
THEOREM ComparisonsAreLawful == Spec => []ComparisonsObeyTheirLaws
<1>1. ASSUME Configured PROVE ComparisonsObeyTheirLaws
  <2>1. ASSUME NEW a \in Given PROVE IsScalar(a)
    BY <1>1, <2>1, ValuesAreScalars DEF Configured, Given
  <2>2. ASSUME NEW e \in Expected PROVE IsExpected(e)
    <3>1. CASE e \in UNION {{c.expected : c \in ToSet(p.constraints)} : p \in ToSet(policies)}
      BY <1>1, <3>1, ConfiguredIsValid DEF IsTable
    <3>2. CASE e \in Given
      BY <2>1, <3>2 DEF IsExpected
    <3>3. CASE e = Coll(Given)
      BY <3>3 DEF IsExpected, Coll
    <3> QED
      BY <2>2, <3>1, <3>2, <3>3 DEF Expected
  <2>3. ASSUME NEW a \in Given PROVE Compare(a, "in", Coll(Given))
    BY <2>3 DEF Compare, Coll, IsIn
  <2> QED
    BY <2>1, <2>2, <2>3, LawsOfComparison DEF ComparisonsObeyTheirLaws
<1> QED
  BY <1>1, Invariance, PTL

\* selector.py 112-127: neither another order of the policies nor, without duplicate
\* entries, another order of the inventory changes a selection.
THEOREM OrderDecidesNothing == Spec => []OrderIsNoTieBreak
<1>1. ASSUME Configured PROVE OrderIsNoTieBreak
  <2> DEFINE selected(p, m) == Select(p, m, active, resources, context).selected
  <2>1. /\ ValidPolicies(policies) /\ IsTable(policies) /\ IsInventory(models)
        /\ policies \in Seq(ToSet(policies)) /\ models \in Seq(ToSet(models))
    BY <1>1, ConfiguredIsValid DEF IsTable, IsInventory
  <2>2. ASSUME NEW q, q \in Seq(ToSet(policies)), ToSet(q) = ToSet(policies)
        PROVE  selected(q, models) = Decision.selected
    <3>1. IsTable(q)
      BY <2>1, <2>2 DEF IsTable
    <3> QED
      BY <2>1, <2>2, <3>1, SameContentSameSelection DEF Decision
  <2>3. ASSUME NEW n, n \in Seq(ToSet(models)), ToSet(n) = ToSet(models),
               \A i, j \in DOMAIN models : Identity(models[i]) = Identity(models[j]) => i = j
        PROVE  selected(policies, n) = Decision.selected
    <3>1. IsInventory(n)
      BY <2>1, <2>3 DEF IsInventory
    <3>2. \A x \in ToSet(policies) : Available(n, x.model) = Available(models, x.model)
      BY <2>1, <2>3, <3>1, SameModelsSameAvailable
    <3> QED
      BY <2>1, <3>1, <3>2, SameContentSameSelection DEF Decision
  <2> HIDE DEF selected
  <2>4. /\ selected(SwapFirst(policies), models) = Decision.selected
        /\ selected(Rotate(policies), models) = Decision.selected
    BY <2>1, <2>2, SwapKeepsContent, RotationKeepsContent
  <2>5. (\A i, j \in DOMAIN models : Identity(models[i]) = Identity(models[j]) => i = j)
        => /\ selected(policies, SwapFirst(models)) = Decision.selected
           /\ selected(policies, Rotate(models)) = Decision.selected
    BY <2>1, <2>3, SwapKeepsContent, RotationKeepsContent
  <2> QED
    BY <2>4, <2>5 DEF OrderIsNoTieBreak, selected
<1> QED
  BY <1>1, Invariance, PTL

\* engine.py 47, selector.py 121: a feasible active model is only ever replaced by one
\* of a strictly higher priority.
THEOREM TiesKeepTheCurrent == Spec => OnlyHigherPriorityDisplaces
<1> DEFINE Displaces ==
      (/\ active' # active /\ active # Nil
       /\ \E p \in ToSet(policies) : Identity(p.model) = Identity(active)
       /\ Feasible(PolicyOf(active)))
      => PolicyOf(active').priority > PolicyOf(active).priority
<1>1. ASSUME Configured, Next, active' # active, active # Nil,
             NEW y \in ToSet(policies), Identity(y.model) = Identity(active),
             Feasible(PolicyOf(active))
      PROVE  PolicyOf(active').priority > PolicyOf(active).priority
  <2> DEFINE s == Decision.selected
             x == PolicyOf(s)
  <2>1. Reconcile /\ active' = s /\ s # Nil /\ ~SameModel(active, s)
    BY <1>1 DEF Next, Observe, UpdateResources, Reconcile
  <2>2. PolicyOf(active) = y
    BY <1>1, PolicyOfIdentity
  <2>3. /\ x \in ToSet(policies) /\ Identity(x.model) = Identity(s)
        /\ IsBest(x, policies, models, active, resources, context)
    BY <1>1, <2>1, DecisionIsBest
  <2>4. SameModel(active, y.model) /\ ~SameModel(active, x.model)
    BY <1>1, <2>1, <2>3 DEF SameModel
  <2>5. y.priority < x.priority
    <3> HIDE DEF x
    <3> QED
      BY <1>1, <2>2, <2>3, <2>4, BestHasPriority
  <2>6. PolicyOf(active') = x
    <3>1. policies' = policies
      BY <2>1 DEF Reconcile
    <3> QED
      BY <2>1, <3>1 DEF PolicyOf
  <2>7. x.priority \in Int /\ y.priority \in Int
    BY <1>1, <2>3, ConfiguredIsValid DEF IsTable
  <2> QED
    BY <2>2, <2>5, <2>6, <2>7
<1>2. Configured /\ [Next]_vars => [Displaces]_vars
  BY <1>1
<1> QED
  BY <1>2, Invariance, PTL DEF Spec, OnlyHigherPriorityDisplaces

\* selector.py 142-157: a missing key of one namespace never falls back to the other,
\* and taking a key away makes no policy feasible.
THEOREM NamespacesDecideApart == Spec => NamespacesStayApart
<1>1. ASSUME Configured, Next PROVE policies' = policies /\ models' = models
  BY <1>1 DEF Next, Observe, UpdateResources, Reconcile
<1>2. ASSUME Configured, Next PROVE ResourcesAreNoFallback
  <2> SUFFICES ASSUME \A p \in ToSet(policies) : \A c \in ToSet(p.constraints) : c.source = "context",
                      context' = context, active' = active
               PROVE  Decision'.selected = Decision.selected
    BY DEF ResourcesAreNoFallback
  <2>1. ASSUME NEW i \in DOMAIN policies, NEW j \in DOMAIN policies[i].constraints
        PROVE  Satisfied(policies[i].constraints[j], context, resources') =
               Satisfied(policies[i].constraints[j], context, resources)
    BY DEF Satisfied, ToSet
  <2>2. ASSUME NEW i \in DOMAIN policies
        PROVE  Evaluate(i, policies[i], Available(models, policies[i].model), context, resources') =
               Evaluate(i, policies[i], Available(models, policies[i].model), context, resources)
    BY <2>1 DEF Evaluate
  <2>3. Select(policies, models, active, resources', context).selected =
        Select(policies, models, active, resources, context).selected
    BY <2>2 DEF Select
  <2> QED
    BY <1>1, <1>2, <2>3 DEF Decision
<1>3. ASSUME Configured, Next PROVE LosingAKeyOnlyExcludes
  <2> SUFFICES ASSUME DOMAIN context' \subseteq DOMAIN context, resources' = resources,
                      \A k \in DOMAIN context' : context'[k] = context[k],
                      NEW p \in ToSet(policies), Feasible(p)'
               PROVE  Feasible(p)
    BY DEF LosingAKeyOnlyExcludes
  <2>1. ASSUME NEW c, Satisfied(c, context', resources')
        PROVE  Satisfied(c, context, resources)
    BY <2>1 DEF Satisfied
  <2> QED
    BY <1>1, <1>3, <2>1 DEF Feasible
<1>4. Configured /\ [Next]_vars => [ResourcesAreNoFallback /\ LosingAKeyOnlyExcludes]_vars
  BY <1>2, <1>3
<1> QED
  BY <1>4, Invariance, PTL DEF Spec, NamespacesStayApart
=============================================================================
