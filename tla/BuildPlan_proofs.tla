-------------------------- MODULE BuildPlan_proofs --------------------------
(* Whatever is asked for and whatever the owner does meanwhile, nothing      *)
(* protected moves and every request is answered once: for every file        *)
(* system, home folder and policy.                                           *)
EXTENDS BuildPlan, SequenceTheorems, FiniteSetTheorems, WellFoundedInduction, TLAPS

(* What each step leaves behind for the next.                                *)
Stages ==
  /\ pc \in {"normalize", "stat", "shadow", "commit"}
  /\ pc = "normalize" \/ rest = <<>>
  /\ pc \in {"shadow", "commit"} => normed = {}
  /\ pc = "commit" => staged = {}
  /\ pc = "normalize" => staged = {}
  /\ pc \in {"normalize", "stat"} => items = {}
  /\ rest \in Seq(Raw)

(* What is not refused has passed the policy.                                *)
Classified ==
  \A i \in staged \cup items : Movable(i) => ~classify(i.path, i.norm)

(* One of each normalised path, and no item below one that moves.            *)
Single ==
  /\ \A e, f \in normed : e.norm = f.norm => e = f
  /\ \A e \in normed, i \in staged : e.norm # i.norm
  /\ \A i, k \in staged : i.norm = k.norm => i = k
  /\ \A i \in items, k \in staged : i.norm # k.norm /\ ~is_strict_ancestor(k.norm, i.norm)
  /\ \A i, k \in items : i.norm = k.norm => i = k
  /\ \A i, k \in items : Movable(k) => ~is_strict_ancestor(k.norm, i.norm)

(* Where the answer to a request is.                                         *)
Answered(r) ==
  \/ \E n \in DOMAIN rest : rest[n] = r
  \/ \E e \in normed \cup staged \cup items : e.norm = normalize(r)
  \/ \E i \in items : Movable(i) /\ is_strict_ancestor(i.norm, normalize(r))

IInv == Stages /\ Classified /\ Single /\ \A r \in Asked : Answered(r)

-----------------------------------------------------------------------------
(* Induction on numbers and on finite sets                                   *)

(* Among numbers one is least.                                               *)
LEMMA LeastExists ==
  ASSUME NEW S \in SUBSET Nat, S # {} PROVE \E n \in S : \A m \in S : n <= m
<1>1. \E n \in S : \A m \in S : <<m, n>> \notin OpToRel(<, Nat)
  BY NatLessThanWellFounded, WFMin
<1>2. PICK n \in S : \A m \in S : <<m, n>> \notin OpToRel(<, Nat)
  BY <1>1
<1>3. ASSUME NEW m \in S PROVE n <= m
  <2>1. <<m, n>> \notin {p \in Nat \X Nat : p[1] < p[2]}
    BY <1>2 DEF OpToRel
  <2>2. m \in Nat /\ n \in Nat /\ ~(m < n)
    BY <2>1
  <2> QED
    BY <2>2
<1> QED
  BY <1>3

(* Induction on finite sets: among any of them one is smallest.              *)
LEMMA SmallestExists ==
  ASSUME NEW X, X # {}, \A s \in X : IsFiniteSet(s)
  PROVE  \E s \in X : \A t \in X : Cardinality(s) <= Cardinality(t)
<1> DEFINE sizes == {Cardinality(s) : s \in X}
<1>1. sizes \in SUBSET Nat /\ sizes # {}
  BY FS_CardinalityType
<1>2. PICK n \in sizes : \A m \in sizes : n <= m
  <2> HIDE DEF sizes
  <2> QED
    BY <1>1, LeastExists
<1> QED
  BY <1>2

LEMMA SmallerWithout ==
  ASSUME NEW s, IsFiniteSet(s), NEW x \in s
  PROVE  IsFiniteSet(s \ {x}) /\ Cardinality(s \ {x}) < Cardinality(s)
<1>1. Cardinality(s) \in Nat /\ Cardinality(s \ {x}) \in Nat /\ IsFiniteSet(s \ {x}) /\ Cardinality(s \ {x}) = Cardinality(s) - 1
  BY FS_RemoveElement, FS_CardinalityType
<1> QED BY <1>1

-----------------------------------------------------------------------------
(* What MapThenSumSet computes                                               *)

(* The element MapThenSumSet takes off first.                                *)
Chosen(s) == CHOOSE x \in s : TRUE

(* The function the sum is defined by.                                       *)
Sums(g, T) ==
  g = [s \in SUBSET T |-> IF s = {} THEN 0 ELSE Weight(Chosen(s)) + g[s \ {Chosen(s)}]]

SumOf(T) == CHOOSE g : Sums(g, T)

LEMMA BytesAreSums == ASSUME NEW T PROVE Bytes(T) = SumOf(T)[T]
  BY DEF Bytes, MapThenSumSet, MapThenFoldSet, SumOf, Sums, Chosen

LEMMA ChosenIn == ASSUME NEW s, s # {} PROVE Chosen(s) \in s
  BY DEF Chosen

LEMMA SumsExist == ASSUME NEW T, IsFiniteSet(T) PROVE \E g : Sums(g, T)
<1> DEFINE Dom(n) == {s \in SUBSET T : Cardinality(s) <= n}
           Part(g, n) == g = [s \in Dom(n) |-> IF s = {} THEN 0 ELSE Weight(Chosen(s)) + g[s \ {Chosen(s)}]]
           Bad == {n \in Nat : ~\E g : Part(g, n)}
<1>0. \A s \in SUBSET T : IsFiniteSet(s) /\ Cardinality(s) \in Nat /\ Cardinality(s) <= Cardinality(T)
  BY FS_Subset, FS_CardinalityType
<1>1. ASSUME NEW n \in Bad, \A m \in Bad : n <= m PROVE FALSE
  <2>1. CASE n = 0
    <3> DEFINE g == [s \in Dom(0) |-> 0]
    <3>1. \A s \in Dom(0) : s = {}
      BY <1>0, FS_EmptySet
    <3>2. g = [s \in Dom(0) |-> IF s = {} THEN 0 ELSE Weight(Chosen(s)) + g[s \ {Chosen(s)}]]
      <4> HIDE DEF Dom
      <4> QED
        BY <3>1
    <3>3. Part(g, 0)
      BY <3>2
    <3> HIDE DEF Part, g
    <3> QED
      BY <2>1, <3>3, <1>1
  <2>2. CASE n # 0
    <3>1. n - 1 \in Nat /\ n - 1 \notin Bad
      <4> HIDE DEF Part
      <4>1. n \in Nat
        OBVIOUS
      <4> HIDE DEF Bad
      <4> QED
        BY <2>2, <1>1, <4>1
    <3>2. PICK h : Part(h, n - 1)
      BY <3>1
    <3> DEFINE g == [s \in Dom(n) |-> IF s = {} THEN 0 ELSE Weight(Chosen(s)) + h[s \ {Chosen(s)}]]
    <3>3. ASSUME NEW s \in Dom(n), s # {} PROVE s \ {Chosen(s)} \in Dom(n - 1)
      <4>1. s \in SUBSET T /\ Cardinality(s) <= n
        OBVIOUS
      <4>2. Cardinality(s \ {Chosen(s)}) < Cardinality(s)
        BY <1>0, <4>1, <3>3, ChosenIn, SmallerWithout
      <4>3. Cardinality(s \ {Chosen(s)}) \in Nat /\ Cardinality(s) \in Nat
        BY <1>0
      <4>4. Cardinality(s \ {Chosen(s)}) <= n - 1
        BY <4>1, <4>2, <4>3
      <4> QED
        BY <4>1, <4>4
    <3>4. ASSUME NEW s \in Dom(n - 1) PROVE s \in Dom(n) /\ g[s] = h[s]
      <4>1. Cardinality(s) \in Nat /\ Cardinality(s) <= n - 1 /\ s \in SUBSET T
        BY <1>0
      <4>2. s \in Dom(n)
        BY <4>1
      <4>3. h[s] = IF s = {} THEN 0 ELSE Weight(Chosen(s)) + h[s \ {Chosen(s)}]
        <5> HIDE DEF Dom
        <5> QED BY <3>2
      <4> HIDE DEF Dom
      <4> QED
        BY <4>2, <4>3
    <3>5. Part(g, n)
      <4> HIDE DEF Dom
      <4>1. \A s \in Dom(n) : s # {} => h[s \ {Chosen(s)}] = g[s \ {Chosen(s)}]
        <5> HIDE DEF g
        <5> QED BY <3>3, <3>4
      <4> DEFINE k == [s \in Dom(n) |-> IF s = {} THEN 0 ELSE Weight(Chosen(s)) + g[s \ {Chosen(s)}]]
      <4>2. \A s \in Dom(n) : g[s] = k[s]
        BY <4>1
      <4>3. g = k
        BY <4>2
      <4> QED
        BY <4>3
    <3> HIDE DEF Part, g
    <3> QED
      BY <3>5, <1>1
  <2> QED
    BY <2>1, <2>2
<1>2. Bad = {}
  <2> HIDE DEF Part
  <2>1. Bad \in SUBSET Nat
    OBVIOUS
  <2> HIDE DEF Bad
  <2> QED
    BY <1>1, <2>1, LeastExists
<1>3. Cardinality(T) \in Nat
  BY FS_CardinalityType
<1>4. PICK g : Part(g, Cardinality(T))
  BY <1>2, <1>3
<1>5. Dom(Cardinality(T)) = SUBSET T
  BY <1>0
<1>6. Sums(g, T)
  <2> HIDE DEF Dom
  <2> QED
    BY <1>4, <1>5 DEF Sums
<1> QED
  BY <1>6

LEMMA SumsAgree ==
  ASSUME NEW T, IsFiniteSet(T), NEW R \in SUBSET T, NEW g, NEW h, Sums(g, T), Sums(h, R)
  PROVE  g[R] = h[R]
<1> DEFINE Bad == {s \in SUBSET R : g[s] # h[s]}
<1>1. \A s \in Bad : IsFiniteSet(s)
  BY FS_Subset
<1>2. ASSUME NEW s \in Bad, \A t \in Bad : Cardinality(s) <= Cardinality(t) PROVE FALSE
  <2>1. s # {} /\ g[s] = Weight(Chosen(s)) + g[s \ {Chosen(s)}]
              /\ h[s] = Weight(Chosen(s)) + h[s \ {Chosen(s)}]
    BY DEF Sums
  <2>2. s \ {Chosen(s)} \in Bad
    BY <2>1
  <2>3. Cardinality(s \ {Chosen(s)}) < Cardinality(s)
    BY <1>1, <2>1, ChosenIn, SmallerWithout
  <2>4. Cardinality(s \ {Chosen(s)}) \in Nat /\ Cardinality(s) \in Nat
    BY <1>1, <2>2, FS_CardinalityType
  <2> HIDE DEF Bad
  <2> QED
    BY <1>2, <2>2, <2>3, <2>4
<1>3. Bad = {}
  <2> HIDE DEF Bad
  <2> QED
    BY <1>1, <1>2, SmallestExists
<1> QED
  BY <1>3

LEMMA BytesUnfold ==
  ASSUME NEW S, IsFiniteSet(S)
  PROVE  /\ S = {} => Bytes(S) = 0
         /\ S # {} => Bytes(S) = Weight(Chosen(S)) + Bytes(S \ {Chosen(S)})
<1>1. Sums(SumOf(S), S)
  BY SumsExist DEF SumOf
<1>2. ASSUME S # {} PROVE Bytes(S \ {Chosen(S)}) = SumOf(S)[S \ {Chosen(S)}]
  <2> DEFINE R == S \ {Chosen(S)}
  <2>1. R \in SUBSET S /\ IsFiniteSet(R)
    BY FS_Subset
  <2> HIDE DEF R
  <2>2. Sums(SumOf(R), R)
    BY <2>1, SumsExist DEF SumOf
  <2>3. SumOf(S)[R] = SumOf(R)[R]
    BY <1>1, <2>1, <2>2, SumsAgree
  <2> QED
    BY <2>3, BytesAreSums DEF R
<1>3. SumOf(S)[S] = IF S = {} THEN 0 ELSE Weight(Chosen(S)) + SumOf(S)[S \ {Chosen(S)}]
  BY <1>1 DEF Sums
<1> QED
  BY <1>2, <1>3, BytesAreSums

LEMMA BytesType ==
  ASSUME NEW S \in SUBSET Node, IsFiniteSet(S) PROVE Bytes(S) \in Nat
<1> DEFINE Bad == {s \in SUBSET S : Bytes(s) \notin Nat}
<1>1. \A s \in Bad : IsFiniteSet(s)
  BY FS_Subset
<1>2. ASSUME NEW s \in Bad, \A t \in Bad : Cardinality(s) <= Cardinality(t) PROVE FALSE
  <2>0. IsFiniteSet(s) /\ Bytes(s) \notin Nat
    BY <1>1
  <2>1. s # {} /\ Bytes(s) = Weight(Chosen(s)) + Bytes(s \ {Chosen(s)})
    BY <2>0, BytesUnfold
  <2>2. Chosen(s) \in s /\ Weight(Chosen(s)) \in Nat
    BY <2>1, ChosenIn, PathAssumption DEF Weight
  <2>3. s \ {Chosen(s)} \in Bad
    BY <2>1, <2>2
  <2>4. Cardinality(s \ {Chosen(s)}) < Cardinality(s)
    BY <1>1, <2>2, SmallerWithout
  <2>5. Cardinality(s \ {Chosen(s)}) \in Nat /\ Cardinality(s) \in Nat
    BY <1>1, <2>3, FS_CardinalityType
  <2> HIDE DEF Bad
  <2> QED
    BY <1>2, <2>3, <2>4, <2>5
<1>3. Bad = {}
  <2> HIDE DEF Bad
  <2> QED
    BY <1>1, <1>2, SmallestExists
<1> QED
  BY <1>3

LEMMA BytesSplit ==
  ASSUME NEW S \in SUBSET Node, IsFiniteSet(S), NEW x \in S
  PROVE  Bytes(S) = Weight(x) + Bytes(S \ {x})
<1> DEFINE Bad == {s \in SUBSET S : \E y \in s : Bytes(s) # Weight(y) + Bytes(s \ {y})}
<1>1. \A s \in SUBSET S : IsFiniteSet(s) /\ Bytes(s) \in Nat
  BY FS_Subset, BytesType
<1>2. ASSUME NEW s \in Bad, \A t \in Bad : Cardinality(s) <= Cardinality(t) PROVE FALSE
  <2>0. s \in SUBSET S
    OBVIOUS
  <2>1. PICK y \in s : Bytes(s) # Weight(y) + Bytes(s \ {y})
    OBVIOUS
  <2> DEFINE c == Chosen(s)
  <2>2. c \in s /\ Bytes(s) = Weight(c) + Bytes(s \ {c}) /\ IsFiniteSet(s)
    BY <1>1, <2>1, BytesUnfold, ChosenIn
  <2>3. c # y
    BY <2>1, <2>2
  <2> HIDE DEF c
  <2>4. ASSUME NEW d \in s, NEW e \in s, d # e PROVE Bytes(s \ {d}) = Weight(e) + Bytes((s \ {d}) \ {e})
    <3>1. Cardinality(s \ {d}) < Cardinality(s) /\ Cardinality(s \ {d}) \in Nat /\ Cardinality(s) \in Nat
      BY <2>2, SmallerWithout, FS_CardinalityType
    <3>2. s \ {d} \notin Bad
      <4> HIDE DEF Bad
      <4> QED
        BY <1>2, <3>1
    <3> QED
      BY <2>0, <2>4, <3>2
  <2>5. (s \ {c}) \ {y} = (s \ {y}) \ {c}
    OBVIOUS
  <2>6. Bytes(s \ {c}) = Weight(y) + Bytes((s \ {c}) \ {y}) /\ Bytes(s \ {y}) = Weight(c) + Bytes((s \ {c}) \ {y})
    BY <2>2, <2>3, <2>4, <2>5
  <2>7. Weight(y) \in Nat /\ Weight(c) \in Nat /\ Bytes((s \ {c}) \ {y}) \in Nat
    <3>1. y \in Node /\ c \in Node
      BY <2>0, <2>2
    <3>2. (s \ {c}) \ {y} \in SUBSET S
      BY <2>0
    <3> QED
      BY <1>1, <3>1, <3>2, PathAssumption DEF Weight
  <2> QED
    BY <2>1, <2>2, <2>6, <2>7
<1>3. Bad = {}
  <2>1. \A s \in Bad : IsFiniteSet(s)
    BY <1>1
  <2> HIDE DEF Bad
  <2> QED
    BY <2>1, <1>2, SmallestExists
<1> QED
  BY <1>3

(* The bytes of places apart add up.                                         *)
LEMMA BytesAdd ==
  ASSUME NEW S \in SUBSET Node, IsFiniteSet(S), NEW R \in SUBSET S
  PROVE  Bytes(S) = Bytes(S \ R) + Bytes(R)
<1> DEFINE Bad == {r \in SUBSET S : Bytes(S) # Bytes(S \ r) + Bytes(r)}
<1>1. \A s \in SUBSET S : IsFiniteSet(s) /\ Bytes(s) \in Nat
  BY FS_Subset, BytesType
<1>2. ASSUME NEW r \in Bad, \A t \in Bad : Cardinality(r) <= Cardinality(t) PROVE FALSE
  <2>1. r \in SUBSET S /\ Bytes(S) # Bytes(S \ r) + Bytes(r)
    OBVIOUS
  <2>2. r # {}
    <3> SUFFICES ASSUME r = {} PROVE FALSE
      OBVIOUS
    <3>1. S \ r = S /\ Bytes(r) = 0
      BY <1>1, BytesUnfold
    <3> QED
      BY <1>1, <2>1, <3>1
  <2>3. PICK y \in r : TRUE
    BY <2>2
  <2> DEFINE q == r \ {y}
  <2>4. q \in SUBSET S /\ y \in S \ q /\ (S \ q) \ {y} = S \ r /\ S \ r \in SUBSET S /\ S \ q \in SUBSET S
    BY <2>1
  <2>5. Bytes(r) = Weight(y) + Bytes(q)
    BY <1>1, <2>1, BytesSplit
  <2>6. Bytes(S \ q) = Weight(y) + Bytes(S \ r)
    <3> HIDE DEF q
    <3> QED
      BY <1>1, <2>4, BytesSplit
  <2>7. Cardinality(q) < Cardinality(r) /\ Cardinality(q) \in Nat /\ Cardinality(r) \in Nat
    BY <1>1, <2>1, SmallerWithout, FS_CardinalityType
  <2> HIDE DEF q
  <2>8. q \notin Bad
    <3> HIDE DEF Bad
    <3> QED
      BY <1>2, <2>7
  <2>9. Bytes(S) = Bytes(S \ q) + Bytes(q)
    BY <2>4, <2>8
  <2>10. Weight(y) \in Nat
    BY <2>1, PathAssumption DEF Weight
  <2>11. Bytes(q) \in Nat /\ Bytes(S \ r) \in Nat
    BY <1>1, <2>4
  <2> QED
    BY <2>1, <2>5, <2>6, <2>9, <2>10, <2>11
<1>3. Bad = {}
  <2>1. \A s \in Bad : IsFiniteSet(s)
    BY <1>1
  <2> HIDE DEF Bad
  <2> QED
    BY <2>1, <1>2, SmallestExists
<1> QED
  BY <1>3

-----------------------------------------------------------------------------

USE PathAssumption, SafetyAssumption

LEMMA Irreflexive == ASSUME NEW p \in Seq(STRING) PROVE ~is_strict_ancestor(p, p)
  BY SubSeqProperties DEF is_strict_ancestor

(* A folder that has a primary folder of the home folder below it is the     *)
(* home folder or above it.                                                  *)
LEMMA AboveAppended ==
  ASSUME NEW p, NEW name \in STRING, is_strict_ancestor(p, Append(home, name))
  PROVE  p = home \/ is_strict_ancestor(p, home)
<1>1. PICK n \in 0..Len(home) : p = SubSeq(Append(home, name), 1, n)
  BY DEF is_strict_ancestor
<1>2. p = SubSeq(home, 1, n)
  BY <1>1
<1>3. CASE n = Len(home)
  BY <1>2, <1>3
<1>4. CASE n < Len(home)
  <2>1. n \in 0..(Len(home) - 1)
    BY <1>4
  <2> QED
    BY <1>2, <2>1 DEF is_strict_ancestor
<1> QED
  BY <1>3, <1>4

(* What the policy lets pass is no critical folder and has none below it.    *)
LEMMA PolicyProtects ==
  ASSUME NEW path, NEW norm, ~classify(path, norm), NEW q \in Critical
  PROVE  q # norm /\ ~is_strict_ancestor(norm, q)
<1>1. CASE q \in SYSTEM_BLOCKLIST
  BY <1>1 DEF classify
<1>2. CASE q = home
  BY <1>2 DEF classify
<1>3. CASE q \in PrimaryFolder
  <2>1. PICK name \in PRIMARY_USER_FOLDERS : q = Append(home, name)
    BY <1>3 DEF PrimaryFolder
  <2>2. is_strict_ancestor(norm, q) => norm = home \/ is_strict_ancestor(norm, home)
    BY <2>1, AboveAppended
  <2> QED
    BY <1>3, <2>2 DEF classify
<1> QED
  BY <1>1, <1>2, <1>3 DEF Critical

-----------------------------------------------------------------------------

LEMMA InitHolds == Init => IInv
<1> SUFFICES ASSUME Init PROVE IInv
  OBVIOUS
<1>1. requests \in Seq(Raw) /\ rest = requests
  BY DEF Init
<1>2. Stages
  BY <1>1 DEF Init, Stages
<1> QED
  BY <1>1, <1>2 DEF Init, IInv, Classified, Single, Answered, Asked

LEMMA StageStep == IInv /\ [Next]_vars => Stages'
<1> SUFFICES ASSUME IInv, [Next]_vars PROVE Stages'
  OBVIOUS
<1> USE DEF IInv, Stages, Goto
<1>1. CASE Normalize
  BY <1>1, HeadTailProperties DEF Normalize
<1>2. CASE Normalized \/ Stated \/ Shadowing
  BY <1>2 DEF Normalized, Stated, Shadowing
<1>3. CASE Stat
  BY <1>3 DEF Stat
<1>4. CASE Shadow
  BY <1>4 DEF Shadow
<1>5. CASE CommitItem \/ Disturb \/ UNCHANGED vars
  BY <1>5 DEF CommitItem, Disturb, vars
<1> QED
  BY <1>1, <1>2, <1>3, <1>4, <1>5 DEF Next

LEMMA ClassifiedStep == IInv /\ [Next]_vars => Classified'
<1> SUFFICES ASSUME IInv, [Next]_vars PROVE Classified'
  OBVIOUS
<1> USE DEF IInv, Classified, Movable
<1>1. CASE Stat
  <2>1. PICK e \in normed : staged' = staged \cup {stat_and_classify(e)}
    BY <1>1 DEF Stat, Foremost
  <2>2. LET i == stat_and_classify(e) IN ~i.protected => ~classify(i.path, i.norm)
    BY DEF stat_and_classify
  <2>3. UNCHANGED items
    BY <1>1 DEF Stat
  <2> QED
    BY <2>1, <2>2, <2>3
<1>2. CASE Shadow
  BY <1>2 DEF Shadow, Foremost
<1>3. CASE ~Stat /\ ~Shadow
  BY <1>3 DEF Next, Normalize, Normalized, Stated, Shadowing, Goto, CommitItem, Disturb, vars
<1> QED
  BY <1>1, <1>2, <1>3

LEMMA SingleStep == IInv /\ [Next]_vars => Single'
<1> SUFFICES ASSUME IInv, [Next]_vars PROVE Single'
  OBVIOUS
<1> USE DEF IInv, Stages, Single, Movable
<1>1. CASE Normalize
  <2>1. UNCHANGED <<staged, items>> /\ staged = {} /\ items = {}
    BY <1>1 DEF Normalize
  <2>2. \/ UNCHANGED normed
        \/ \E e : normed' = normed \cup {e} /\ \A f \in normed : f.norm # e.norm
    <3>1. \/ UNCHANGED normed
          \/ /\ ~\E e \in normed : e.norm = normalize(Head(rest))
             /\ normed' = normed \cup {[path |-> Head(rest), norm |-> normalize(Head(rest))]}
      BY <1>1 DEF Normalize
    <3> DEFINE new == [path |-> Head(rest), norm |-> normalize(Head(rest))]
    <3>2. new.norm = normalize(Head(rest))
      OBVIOUS
    <3> HIDE DEF new
    <3>3. CASE normed' = normed \cup {new} /\ ~\E e \in normed : e.norm = new.norm
      BY <3>3
    <3> QED
      BY <3>1, <3>2, <3>3 DEF new
  <2> QED
    BY <2>1, <2>2
<1>2. CASE Stat
  <2>1. PICK e \in normed : /\ normed' = normed \ {e}
                            /\ staged' = staged \cup {stat_and_classify(e)}
    BY <1>2 DEF Stat, Foremost
  <2>2. stat_and_classify(e).norm = e.norm
    BY DEF stat_and_classify
  <2>3. UNCHANGED items /\ items = {}
    BY <1>2 DEF Stat
  <2> QED
    BY <2>1, <2>2, <2>3
<1>3. CASE Shadow
  <2>1. PICK i \in staged :
          /\ \A d \in staged : ~is_strict_ancestor(d.norm, i.norm)
          /\ staged' = staged \ {i}
          /\ \/ items' = items
             \/ ~Shadowed(i) /\ items' = items \cup {i}
    BY <1>3 DEF Shadow, Foremost
  <2>2. UNCHANGED normed
    BY <1>3 DEF Shadow
  <2> QED
    BY <2>1, <2>2 DEF Shadowed
<1>4. CASE ~Normalize /\ ~Stat /\ ~Shadow
  BY <1>4 DEF Next, Normalized, Stated, Shadowing, Goto, CommitItem, Disturb, vars
<1> QED
  BY <1>1, <1>2, <1>3, <1>4

LEMMA AnsweredStep == IInv /\ [Next]_vars => \A r \in Asked' : Answered(r)'
<1> SUFFICES ASSUME IInv, [Next]_vars, NEW r \in Asked' PROVE Answered(r)'
  OBVIOUS
<1>0. Answered(r)
  BY DEF IInv, Asked, Next, Normalize, Normalized, Stat, Stated, Shadow, Shadowing, Goto,
         CommitItem, Disturb, vars
<1> USE DEF Answered
<1>1. CASE Normalize
  <2>1. rest \in Seq(Raw) /\ rest # <<>> /\ rest' = Tail(rest)
    BY <1>1 DEF Normalize, IInv, Stages
  <2>2. UNCHANGED <<staged, items>> /\ normed \subseteq normed'
    BY <1>1 DEF Normalize
  <2>3. \E e \in normed' : e.norm = normalize(Head(rest))
    <3> DEFINE new == [path |-> Head(rest), norm |-> normalize(Head(rest))]
    <3>1. \/ normed' = normed /\ \E e \in normed : e.norm = normalize(Head(rest))
          \/ new \in normed'
      BY <1>1 DEF Normalize
    <3>2. new.norm = normalize(Head(rest))
      OBVIOUS
    <3> HIDE DEF new
    <3> QED
      BY <3>1, <3>2
  <2>4. ASSUME NEW n \in DOMAIN rest, rest[n] = r, n # 1
        PROVE  \E k \in DOMAIN rest' : rest'[k] = r
    <3>1. n - 1 \in DOMAIN rest' /\ rest'[n - 1] = rest[n]
      BY <2>1, <2>4, HeadTailProperties
    <3> QED
      BY <2>4, <3>1
  <2>5. rest[1] = Head(rest)
    BY <2>1
  <2> QED
    BY <1>0, <2>2, <2>3, <2>4, <2>5
<1>2. CASE Stat
  <2>1. PICK e \in normed : /\ normed' = normed \ {e}
                            /\ staged' = staged \cup {stat_and_classify(e)}
    BY <1>2 DEF Stat, Foremost
  <2>2. stat_and_classify(e).norm = e.norm
    BY DEF stat_and_classify
  <2>3. UNCHANGED <<items, rest>>
    BY <1>2 DEF Stat
  <2> QED
    BY <1>0, <2>1, <2>2, <2>3
<1>3. CASE Shadow
  <2>1. PICK i \in staged :
          /\ staged' = staged \ {i}
          /\ \/ Shadowed(i) /\ items' = items
             \/ items' = items \cup {i}
    BY <1>3 DEF Shadow, Foremost
  <2>2. UNCHANGED <<normed, rest>>
    BY <1>3 DEF Shadow
  <2> QED
    BY <1>0, <2>1, <2>2 DEF Shadowed
<1>4. CASE ~Normalize /\ ~Stat /\ ~Shadow
  <2>1. UNCHANGED <<rest, normed, staged, items>>
    BY <1>4 DEF Next, Normalized, Stated, Shadowing, Goto, CommitItem, Disturb, vars
  <2> QED
    BY <1>0, <2>1
<1> QED
  BY <1>1, <1>2, <1>3, <1>4

LEMMA IInvStep == IInv /\ [Next]_vars => IInv'
  BY StageStep, ClassifiedStep, SingleStep, AnsweredStep DEF IInv

-----------------------------------------------------------------------------

(* Nothing that plan.rs lets move is a critical folder or has one below it.  *)
THEOREM NothingCriticalMoves == Spec => []MovableIsSafe
<1>1. IInv => MovableIsSafe
  BY PolicyProtects DEF IInv, Classified, MovableIsSafe
<1> QED
  BY <1>1, InitHolds, IInvStep, PTL DEF Spec

(* Every requested path is listed, or below exactly what moves it, and no    *)
(* item lies below another that moves (plan.rs:50-66).                       *)
THEOREM RequestsAreAnswered == Spec => []EveryRequestAnswered
<1>1. IInv => EveryRequestAnswered
  <2> SUFFICES ASSUME IInv PROVE EveryRequestAnswered
    OBVIOUS
  <2>1. pc = "commit" => rest = <<>> /\ normed = {} /\ staged = {}
    BY DEF IInv, Stages
  <2>2. pc = "commit" =>
          \A r \in Asked : \E i \in items : \/ i.norm = normalize(r)
                                            \/ Movable(i) /\ is_strict_ancestor(i.norm, normalize(r))
    BY <2>1 DEF IInv, Answered
  <2> QED
    BY <2>2 DEF IInv, Single, EveryRequestAnswered
<1> QED
  BY <1>1, InitHolds, IInvStep, PTL DEF Spec

-----------------------------------------------------------------------------
(* What is moved                                                             *)

FoundAmong(path, places) ==
  /\ \A n \in 1..(Len(path) - 1) :
       /\ normalize(SubSeq(path, 1, n)) \in places
       /\ Kind[normalize(SubSeq(path, 1, n))] = "Directory"
  /\ normalize(path) \in places

Moving == {i \in items : Movable(i)}

(* The places that go with the items of a set.                               *)
Covered(S) == {x \in before : \E i \in S : x \in Below(i.norm)}

(* The items are of paths that were asked for.                               *)
OfRequests ==
  /\ requests \in Seq(Raw)
  /\ \A n \in DOMAIN rest : rest[n] \in Asked
  /\ \A e \in normed \cup staged \cup items : e.path \in Asked /\ e.norm = normalize(e.path)

(* An item moves when the policy lets it and it was there.                   *)
Looked ==
  /\ before \in Start
  /\ ~disturbed => \A i \in staged \cup items :
       Movable(i) <=> ~classify(i.path, i.norm) /\ FoundAmong(i.path, before)

(* The items visited so far are gone, and nothing else is.                   *)
Progress ==
  /\ todo \subseteq Moving
  /\ pc # "commit" => todo = {} /\ failed = {}
  /\ ~disturbed /\ pc # "commit" => there = before
  /\ ~disturbed /\ pc = "commit" /\ (\A r \in Asked : Refused(r) \/ Direct(r)) =>
       /\ there = {x \in before : \A i \in Moving \ todo : x \notin Below(i.norm)}
       /\ failed = {}

MInv == IInv /\ OfRequests /\ Looked

(* What is above a folder on the way to a place is above the place.          *)
LEMMA AboveTheWay ==
  ASSUME NEW d \in Seq(STRING), NEW k \in 0..(Len(d) - 1), NEW a,
         a = SubSeq(d, 1, k) \/ is_strict_ancestor(a, SubSeq(d, 1, k))
  PROVE  is_strict_ancestor(a, d)
<1>1. CASE a = SubSeq(d, 1, k)
  BY <1>1 DEF is_strict_ancestor
<1>2. CASE is_strict_ancestor(a, SubSeq(d, 1, k))
  <2>1. Len(SubSeq(d, 1, k)) = k
    BY SubSeqProperties
  <2>2. PICK n \in 0..(k - 1) : a = SubSeq(SubSeq(d, 1, k), 1, n)
    BY <1>2, <2>1 DEF is_strict_ancestor
  <2>3. a = SubSeq(d, 1, n)
    BY <2>2
  <2>4. n \in 0..(Len(d) - 1)
    BY <2>2
  <2> QED
    BY <2>3, <2>4 DEF is_strict_ancestor
<1> QED
  BY <1>1, <1>2

LEMMA Transitive ==
  ASSUME NEW a, NEW b, NEW d \in Seq(STRING), is_strict_ancestor(a, b), is_strict_ancestor(b, d)
  PROVE  is_strict_ancestor(a, d)
<1>1. PICK k \in 0..(Len(d) - 1) : b = SubSeq(d, 1, k)
  BY DEF is_strict_ancestor
<1> QED
  BY <1>1, AboveTheWay

(* A direct path of something that was there to begin with is found.         *)
LEMMA DirectIsFound ==
  ASSUME NEW r, Direct(r), NEW places \in Start, normalize(r) \in places
  PROVE  FoundAmong(r, places)
<1>1. normalize(r) \in Node
  OBVIOUS
<1>2. ASSUME NEW n \in 1..(Len(r) - 1)
      PROVE  /\ normalize(SubSeq(r, 1, n)) \in places
             /\ Kind[normalize(SubSeq(r, 1, n))] = "Directory"
  <2>1. PICK k \in 1..(Len(normalize(r)) - 1) : normalize(SubSeq(r, 1, n)) = SubSeq(normalize(r), 1, k)
    BY DEF Direct
  <2>2. PICK x \in Node : x = normalize(r)
    BY <1>1
  <2>3. SubSeq(x, 1, k) \in places /\ Kind[SubSeq(x, 1, k)] = "Directory"
    BY <2>1, <2>2, TreeAssumption
  <2> QED
    BY <2>1, <2>2, <2>3
<1> QED
  BY <1>2 DEF FoundAmong

(* Nothing is there below a place that is not.                               *)
LEMMA NothingBelow ==
  ASSUME NEW norm, norm # <<>>, NEW places \in Start, norm \notin places, NEW x \in places
  PROVE  x \notin Below(norm)
<1> SUFFICES ASSUME x \in Below(norm) PROVE FALSE
  OBVIOUS
<1>1. x \in Node /\ x \in Seq(STRING)
  OBVIOUS
<1>2. is_strict_ancestor(norm, x)
  BY DEF Below
<1>3. PICK k \in 0..(Len(x) - 1) : norm = SubSeq(x, 1, k)
  BY <1>2 DEF is_strict_ancestor
<1>4. k # 0
  BY <1>1, <1>3
<1>5. k \in 1..(Len(x) - 1)
  BY <1>3, <1>4
<1> QED
  BY <1>1, <1>3, <1>5, TreeAssumption

(* The policy refuses a path of nothing.                                     *)
LEMMA NothingIsRefused == ASSUME NEW path PROVE classify(path, <<>>)
<1>1. CASE home = <<>>
  BY <1>1 DEF classify
<1>2. CASE home # <<>>
  <2>1. SubSeq(home, 1, 0) = <<>> /\ 0 \in 0..(Len(home) - 1)
    BY <1>2
  <2> QED
    BY <2>1 DEF classify, is_strict_ancestor
<1> QED
  BY <1>1, <1>2

LEMMA MInitHolds == Init => MInv /\ Progress
<1> SUFFICES ASSUME Init PROVE MInv /\ Progress
  OBVIOUS
<1>1. requests \in Seq(Raw)
  BY DEF Init
<1> QED
  BY <1>1, InitHolds DEF Init, MInv, OfRequests, Looked, Progress, Asked, Moving

LEMMA OfRequestsStep == MInv /\ [Next]_vars => OfRequests'
<1> SUFFICES ASSUME MInv, [Next]_vars PROVE OfRequests'
  OBVIOUS
<1>0. requests' = requests /\ Asked' = Asked
  BY DEF Asked, Next, Normalize, Normalized, Stat, Stated, Shadow, Shadowing, Goto, CommitItem,
         Disturb, vars
<1> USE DEF MInv, OfRequests
<1>1. CASE Normalize
  <2>1. rest \in Seq(Raw) /\ rest # <<>> /\ rest' = Tail(rest)
    BY <1>1 DEF Normalize, IInv, Stages
  <2>2. Head(rest) \in Asked
    BY <2>1
  <2>3. UNCHANGED <<staged, items>>
    BY <1>1 DEF Normalize
  <2>4. \A e \in normed' : e.path \in Asked /\ e.norm = normalize(e.path)
    <3> DEFINE new == [path |-> Head(rest), norm |-> normalize(Head(rest))]
    <3>1. new.path = Head(rest) /\ new.norm = normalize(Head(rest))
      OBVIOUS
    <3>2. normed' = normed \/ normed' = normed \cup {new}
      BY <1>1 DEF Normalize
    <3> HIDE DEF new
    <3>3. new.path \in Asked /\ new.norm = normalize(new.path)
      BY <2>2, <3>1
    <3> QED
      BY <3>2, <3>3
  <2>5. \A n \in DOMAIN rest' : rest'[n] \in Asked
    BY <2>1, HeadTailProperties
  <2> QED
    BY <1>0, <2>3, <2>4, <2>5
<1>2. CASE Stat
  <2>1. PICK e \in normed : /\ normed' = normed \ {e}
                            /\ staged' = staged \cup {stat_and_classify(e)}
    BY <1>2 DEF Stat, Foremost
  <2>2. stat_and_classify(e).norm = e.norm /\ stat_and_classify(e).path = e.path
    BY DEF stat_and_classify
  <2>3. UNCHANGED <<items, rest>>
    BY <1>2 DEF Stat
  <2> QED
    BY <1>0, <2>1, <2>2, <2>3
<1>3. CASE Shadow
  <2>1. PICK i \in staged : staged' = staged \ {i} /\ (items' = items \/ items' = items \cup {i})
    BY <1>3 DEF Shadow, Foremost
  <2>2. UNCHANGED <<normed, rest>>
    BY <1>3 DEF Shadow
  <2> QED
    BY <1>0, <2>1, <2>2
<1>4. CASE ~Normalize /\ ~Stat /\ ~Shadow
  <2>1. UNCHANGED <<rest, normed, staged, items>>
    BY <1>4 DEF Next, Normalized, Stated, Shadowing, Goto, CommitItem, Disturb, vars
  <2> QED
    BY <1>0, <2>1
<1> QED
  BY <1>1, <1>2, <1>3, <1>4

LEMMA LookedStep == MInv /\ Progress /\ [Next]_vars => Looked'
<1> SUFFICES ASSUME MInv, Progress, [Next]_vars PROVE Looked'
  OBVIOUS
<1>0. before' = before /\ (~disturbed' => ~disturbed)
  BY DEF Next, Normalize, Normalized, Stat, Stated, Shadow, Shadowing, Goto, CommitItem, Disturb, vars
<1> USE DEF MInv, Looked, Movable
<1>1. CASE Stat
  <2>1. PICK e \in normed : staged' = staged \cup {stat_and_classify(e)}
    BY <1>1 DEF Stat, Foremost
  <2>2. UNCHANGED <<items, disturbed>>
    BY <1>1 DEF Stat
  <2> DEFINE i == stat_and_classify(e)
  <2>3. i.path = e.path /\ i.norm = e.norm /\ (i.protected <=> classify(e.path, e.norm) \/ ~Found(e.path))
    BY DEF stat_and_classify
  <2>4. ~disturbed => there = before
    BY <1>1 DEF Progress, Stat
  <2>5. ~disturbed => (Found(e.path) <=> FoundAmong(e.path, before))
    BY <2>4 DEF Found, FoundAmong
  <2> HIDE DEF i
  <2>6. ~disturbed => (Movable(i) <=> ~classify(i.path, i.norm) /\ FoundAmong(i.path, before))
    BY <2>3, <2>5
  <2>7. staged' = staged \cup {i}
    BY <2>1 DEF i
  <2> QED
    BY <1>0, <2>2, <2>6, <2>7 DEF FoundAmong
<1>2. CASE Shadow
  <2>1. PICK i \in staged : staged' = staged \ {i} /\ (items' = items \/ items' = items \cup {i})
    BY <1>2 DEF Shadow, Foremost
  <2> QED
    BY <1>0, <2>1 DEF FoundAmong
<1>3. CASE ~Stat /\ ~Shadow
  <2>1. UNCHANGED <<staged, items>>
    BY <1>3 DEF Next, Normalize, Normalized, Stated, Shadowing, Goto, CommitItem, Disturb, vars
  <2> QED
    BY <1>0, <2>1 DEF FoundAmong
<1> QED
  BY <1>1, <1>2, <1>3

(* An item to be visited is still found: what was moved before it is neither *)
(* it nor a folder it is in.                                                 *)
LEMMA StillFound ==
  ASSUME MInv, Progress, pc = "commit", ~disturbed, NEW i \in todo,
         \A r \in Asked : Refused(r) \/ Direct(r)
  PROVE  Found(i.path)
<1>1. /\ i \in items /\ Movable(i)
      /\ i.path \in Asked /\ i.norm = normalize(i.path)
      /\ ~classify(i.path, i.norm) /\ FoundAmong(i.path, before)
  BY DEF MInv, OfRequests, Looked, Progress, Moving
<1>2. Direct(i.path)
  BY <1>1 DEF Refused
<1>3. before \in Start /\ i.norm \in before /\ i.norm \in Seq(STRING)
  BY <1>1 DEF MInv, Looked, FoundAmong
<1>4. ASSUME NEW j \in Moving \ todo
      PROVE  i.norm # j.norm /\ ~is_strict_ancestor(j.norm, i.norm)
  BY <1>1 DEF MInv, IInv, Single, Moving
<1>5. i.norm \in there
  BY <1>3, <1>4 DEF Progress, Below
<1>6. ASSUME NEW n \in 1..(Len(i.path) - 1)
      PROVE  normalize(SubSeq(i.path, 1, n)) \in there
  <2>1. PICK k \in 1..(Len(i.norm) - 1) : normalize(SubSeq(i.path, 1, n)) = SubSeq(i.norm, 1, k)
    BY <1>1, <1>2 DEF Direct
  <2>2. ASSUME NEW j \in Moving \ todo PROVE SubSeq(i.norm, 1, k) \notin Below(j.norm)
    <3>0. k \in 0..(Len(i.norm) - 1)
      BY <2>1
    <3>1. SubSeq(i.norm, 1, k) # j.norm /\ ~is_strict_ancestor(j.norm, SubSeq(i.norm, 1, k))
      BY <1>3, <1>4, <3>0, AboveTheWay
    <3> QED
      BY <3>1 DEF Below
  <2>3. normalize(SubSeq(i.path, 1, n)) \in before
    BY <1>1 DEF FoundAmong
  <2> QED
    BY <2>1, <2>2, <2>3 DEF Progress
<1> QED
  BY <1>1, <1>5, <1>6 DEF Found, FoundAmong

LEMMA ProgressStep == MInv /\ Progress /\ [Next]_vars => Progress'
<1> SUFFICES ASSUME MInv, Progress, [Next]_vars PROVE Progress'
  OBVIOUS
<1>0. Asked' = Asked
  BY DEF Asked, Next, Normalize, Normalized, Stat, Stated, Shadow, Shadowing, Goto, CommitItem,
         Disturb, vars
<1>1. CASE Normalize \/ Stat \/ Shadow \/ Normalized \/ Stated
  <2>1. /\ pc # "commit" /\ pc' # "commit"
        /\ UNCHANGED <<there, before, todo, failed, disturbed>>
    BY <1>1 DEF Normalize, Stat, Shadow, Normalized, Stated, Goto
  <2> QED
    BY <2>1 DEF Progress
<1>2. CASE Shadowing
  <2>1. /\ pc # "commit" /\ pc' = "commit" /\ todo' = Moving
        /\ UNCHANGED <<there, before, items, failed, disturbed>>
    BY <1>2 DEF Shadowing, Goto, Moving
  <2>2. Moving' = Moving
    BY <2>1 DEF Moving
  <2> QED
    BY <2>1, <2>2 DEF Progress
<1>3. CASE CommitItem
  <2>1. PICK i \in todo :
          /\ todo' = todo \ {i}
          /\ \/ Found(i.path) /\ there' = there \ Below(i.norm) /\ UNCHANGED failed
             \/ ~Found(i.path) /\ failed' = failed \cup {i} /\ UNCHANGED there
    BY <1>3 DEF CommitItem
  <2>2. pc = "commit" /\ UNCHANGED <<pc, items, before, disturbed>>
    BY <1>3 DEF CommitItem
  <2>3. Moving' = Moving /\ i \in Moving
    BY <2>2 DEF Moving, Progress
  <2>4. Moving \ todo' = (Moving \ todo) \cup {i}
    BY <2>1, <2>3
  <2>5. todo' \subseteq Moving'
    BY <2>1, <2>3 DEF Progress
  <2>6. ~disturbed /\ (\A r \in Asked : Refused(r) \/ Direct(r)) => failed' = {}
    BY <2>1, <2>2, StillFound DEF Progress
  <2>7. ~disturbed /\ (\A r \in Asked : Refused(r) \/ Direct(r)) =>
          there' = {x \in before : \A j \in Moving \ todo' : x \notin Below(j.norm)}
    <3> SUFFICES ASSUME ~disturbed, \A r \in Asked : Refused(r) \/ Direct(r)
                 PROVE  there' = {x \in before : \A j \in Moving \ todo' : x \notin Below(j.norm)}
      OBVIOUS
    <3>1. there = {x \in before : \A j \in Moving \ todo : x \notin Below(j.norm)}
      BY <2>2 DEF Progress
    <3>2. there' = there \ Below(i.norm)
      BY <2>1, <2>2, StillFound
    <3> QED
      BY <2>4, <3>1, <3>2
  <2> QED
    BY <1>0, <2>2, <2>3, <2>5, <2>6, <2>7 DEF Progress
<1>4. CASE Disturb
  BY <1>4 DEF Disturb, Progress, Moving
<1>5. CASE UNCHANGED vars
  BY <1>5, <1>0 DEF vars, Progress, Moving
<1> QED
  BY <1>1, <1>2, <1>3, <1>4, <1>5 DEF Next

(* The places asked for and allowed to go are those of the items that move.  *)
LEMMA CoveredIsAsked ==
  ASSUME MInv, Undisturbed PROVE before \cap ToGo = Covered(Moving)
<1>1. ASSUME NEW i \in Moving PROVE Below(i.norm) \subseteq ToGo
  <2>1. i.path \in Asked /\ i.norm = normalize(i.path) /\ ~classify(i.path, i.norm)
    BY DEF MInv, OfRequests, Looked, Undisturbed, Moving
  <2> QED
    BY <2>1 DEF ToGo, Refused
<1>2. ASSUME NEW r \in Asked, ~Refused(r), NEW x \in before, x \in Below(normalize(r))
      PROVE  \E i \in Moving : x \in Below(i.norm)
  <2>1. PICK i \in items : \/ i.norm = normalize(r)
                           \/ Movable(i) /\ is_strict_ancestor(i.norm, normalize(r))
    BY <1>2 DEF MInv, IInv, Answered, Stages, Undisturbed
  <2>2. before \in Start /\ x \in Node /\ x \in Seq(STRING)
    BY DEF MInv, Looked
  <2>3. CASE i.norm = normalize(r)
    <3>1. ~classify(i.path, i.norm)
      <4>1. normalize(i.path) = normalize(r) /\ i.path \in Raw /\ r \in Raw
        BY <1>2, <2>3 DEF MInv, OfRequests, Asked
      <4>2. (i.path # <<>> /\ i.path[1] = "/") <=> (r # <<>> /\ r[1] = "/")
        BY <4>1, TreeAssumption
      <4> QED
        BY <1>2, <2>3, <4>2 DEF Refused, classify
    <3>2. normalize(r) # <<>>
      BY <1>2, NothingIsRefused DEF Refused
    <3>3. normalize(r) \in before
      BY <2>2, <3>2, <1>2, NothingBelow
    <3>4. i.norm = normalize(i.path) /\ i.path \in Asked
      BY DEF MInv, OfRequests
    <3>5. Direct(i.path)
      BY <3>1, <3>4 DEF Undisturbed, Refused
    <3>6. FoundAmong(i.path, before)
      BY <2>2, <2>3, <3>3, <3>4, <3>5, DirectIsFound
    <3>7. Movable(i)
      BY <3>1, <3>6 DEF MInv, Looked, Undisturbed
    <3> QED
      BY <1>2, <2>3, <3>7 DEF Moving
  <2>4. CASE Movable(i) /\ is_strict_ancestor(i.norm, normalize(r))
    <3>1. x = normalize(r) \/ is_strict_ancestor(normalize(r), x)
      BY <1>2 DEF Below
    <3>2. is_strict_ancestor(i.norm, x)
      BY <2>2, <2>4, <3>1, Transitive
    <3> QED
      BY <2>2, <2>4, <3>2 DEF Moving, Below
  <2> QED
    BY <2>1, <2>3, <2>4
<1>3. ASSUME NEW x \in before PROVE x \in ToGo <=> \E i \in Moving : x \in Below(i.norm)
  <2>1. ASSUME x \in ToGo PROVE \E i \in Moving : x \in Below(i.norm)
    <3>1. PICK r \in Asked : ~Refused(r) /\ x \in Below(normalize(r))
      BY <2>1 DEF ToGo
    <3> QED
      BY <1>2, <3>1
  <2> QED
    BY <1>1, <2>1
<1> QED
  BY <1>3 DEF Covered

(* While the owner keeps away and the paths asked for make no detours, a     *)
(* commit takes what was asked for and may go, nothing else, and fails at    *)
(* nothing (graveyard.rs:58).                                                *)
THEOREM TakesTheRequests == Spec => []TakesWhatWasAsked
<1>1. MInv /\ Progress /\ [Next]_vars => MInv' /\ Progress'
  BY IInvStep, OfRequestsStep, LookedStep, ProgressStep DEF MInv
<1>2. MInv /\ Progress => TakesWhatWasAsked
  <2> SUFFICES ASSUME MInv, Progress, Undisturbed PROVE there = before \ ToGo /\ failed = {}
    BY DEF TakesWhatWasAsked
  <2>1. failed = {} /\ there = {x \in before : \A i \in Moving : x \notin Below(i.norm)}
    BY DEF Undisturbed, Progress
  <2>2. Covered(Moving) = before \cap ToGo
    BY CoveredIsAsked
  <2> QED
    BY <2>1, <2>2 DEF Covered
<1> QED
  BY <1>1, <1>2, MInitHolds, PTL DEF Spec

-----------------------------------------------------------------------------
(* The bytes of what is moved                                                *)

(* Each item has the bytes of the places it will take, and the plan has the  *)
(* bytes of all of them: no two items take one place.                        *)
Counted ==
  ~disturbed =>
    /\ \A i \in staged \cup items : i.bytes = IF Movable(i) THEN Bytes(Below(i.norm) \cap before) ELSE 0
    /\ total_bytes = Bytes(Covered(Moving))

(* Of two folders a place is in, one is in the other.                        *)
LEMMA Nested ==
  ASSUME NEW a, NEW b, NEW x \in Node, x \in Below(a), x \in Below(b)
  PROVE  a = b \/ is_strict_ancestor(a, b) \/ is_strict_ancestor(b, a)
<1>0. x \in Seq(STRING)
  OBVIOUS
<1>1. (x = a \/ is_strict_ancestor(a, x)) /\ (x = b \/ is_strict_ancestor(b, x))
  BY DEF Below
<1>2. CASE x = a \/ x = b
  BY <1>1, <1>2
<1>3. CASE x # a /\ x # b
  <2>1. PICK n \in 0..(Len(x) - 1) : a = SubSeq(x, 1, n)
    BY <1>1, <1>3 DEF is_strict_ancestor
  <2>2. PICK m \in 0..(Len(x) - 1) : b = SubSeq(x, 1, m)
    BY <1>1, <1>3 DEF is_strict_ancestor
  <2>3. Len(a) = n /\ Len(b) = m
    BY <1>0, <2>1, <2>2, SubSeqProperties
  <2>4. CASE n = m
    BY <2>1, <2>2, <2>4
  <2>5. CASE n < m
    <3>1. a = SubSeq(b, 1, n) /\ n \in 0..(Len(b) - 1)
      BY <1>0, <2>1, <2>2, <2>3, <2>5
    <3> QED
      BY <3>1 DEF is_strict_ancestor
  <2>6. CASE m < n
    <3>1. b = SubSeq(a, 1, m) /\ m \in 0..(Len(a) - 1)
      BY <1>0, <2>1, <2>2, <2>3, <2>6
    <3> QED
      BY <3>1 DEF is_strict_ancestor
  <2> QED
    BY <2>4, <2>5, <2>6
<1> QED
  BY <1>2, <1>3

LEMMA CountedStep == MInv /\ Progress /\ Counted /\ [Next]_vars => Counted'
<1> SUFFICES ASSUME MInv, Progress, Counted, [Next]_vars, ~disturbed' PROVE Counted'
  BY DEF Counted
<1>0. /\ before' = before /\ ~disturbed
      /\ before \in Start /\ IsFiniteSet(before) /\ before \in SUBSET Node
  BY DEF MInv, Looked, Next, Normalize, Normalized, Stat, Stated, Shadow, Shadowing, Goto, CommitItem,
         Disturb, vars
<1>1. CASE Stat
  <2>1. PICK e \in normed : staged' = staged \cup {stat_and_classify(e)}
    BY <1>1 DEF Stat, Foremost
  <2>2. UNCHANGED <<items, total_bytes>> /\ there = before
    BY <1>0, <1>1 DEF Stat, Progress
  <2> DEFINE i == stat_and_classify(e)
  <2>3. i.norm = e.norm /\ i.bytes = IF i.protected THEN 0 ELSE Bytes(Below(e.norm) \cap there)
    BY DEF stat_and_classify, sum_subtree
  <2>4. staged' = staged \cup {i}
    BY <2>1
  <2> HIDE DEF i
  <2>5. i.bytes = IF Movable(i) THEN Bytes(Below(i.norm) \cap before) ELSE 0
    BY <2>2, <2>3 DEF Movable
  <2>6. Covered(Moving)' = Covered(Moving)
    BY <1>0, <2>2 DEF Covered, Moving
  <2>7. \A j \in staged' \cup items' : j.bytes = IF Movable(j) THEN Bytes(Below(j.norm) \cap before') ELSE 0
    BY <1>0, <2>2, <2>4, <2>5 DEF Counted
  <2> QED
    BY <1>0, <2>2, <2>6, <2>7 DEF Counted, Bytes
<1>2. CASE Shadow
  <2>1. PICK i \in Foremost(staged) :
          /\ staged' = staged \ {i}
          /\ \/ Shadowed(i) /\ UNCHANGED <<items, total_bytes>>
             \/ /\ ~Shadowed(i)
                /\ items' = items \cup {i} /\ total_bytes' = total_bytes + i.bytes
    BY <1>2 DEF Shadow
  <2>2. i \in staged /\ staged' \cup items' \subseteq staged \cup items
    BY <2>1 DEF Foremost
  <2>3. \A j \in staged' \cup items' : j.bytes = IF Movable(j) THEN Bytes(Below(j.norm) \cap before') ELSE 0
    BY <1>0, <2>2 DEF Counted
  <2>4. CASE UNCHANGED <<items, total_bytes>>
    <3>1. Covered(Moving)' = Covered(Moving)
      BY <1>0, <2>4 DEF Covered, Moving
    <3> QED
      BY <1>0, <2>3, <2>4, <3>1 DEF Counted
  <2>5. CASE ~Shadowed(i) /\ items' = items \cup {i} /\ total_bytes' = total_bytes + i.bytes /\ Movable(i)
    <3> DEFINE R == Below(i.norm) \cap before
               C == Covered(Moving)
               D == Covered(Moving)'
    <3>1. D = C \cup R
      BY <1>0, <2>5 DEF Covered, Moving
    <3>2. ASSUME NEW x \in C, x \in R PROVE FALSE
      <4>1. PICK k \in Moving : x \in Below(k.norm)
        BY DEF Covered
      <4>2. k \in items /\ Movable(k) /\ x \in Node /\ x \in Below(i.norm)
        BY <1>0, <3>2 DEF Moving, Covered
      <4>3. k.norm = i.norm \/ is_strict_ancestor(k.norm, i.norm) \/ is_strict_ancestor(i.norm, k.norm)
        BY <4>1, <4>2, Nested
      <4>4. k.norm # i.norm /\ ~is_strict_ancestor(i.norm, k.norm)
        BY <2>2, <4>2 DEF MInv, IInv, Single
      <4>5. ~is_strict_ancestor(k.norm, i.norm)
        BY <2>5, <4>2 DEF Shadowed
      <4> QED
        BY <4>3, <4>4, <4>5
    <3>3. C \subseteq before /\ R \subseteq before
      BY DEF Covered
    <3> HIDE DEF C, D, R
    <3>4. D \in SUBSET Node /\ IsFiniteSet(D) /\ R \in SUBSET D /\ D \ R = C
      BY <1>0, <3>1, <3>2, <3>3, FS_Subset
    <3>5. Bytes(D) = Bytes(C) + Bytes(R)
      BY <3>4, BytesAdd
    <3>6. i.bytes = Bytes(R) /\ total_bytes = Bytes(C)
      BY <1>0, <2>2, <2>5 DEF Counted, C, R
    <3>7. total_bytes' = Bytes(D)
      BY <2>5, <3>5, <3>6
    <3> QED
      BY <2>3, <3>7 DEF Counted, D
  <2>6. CASE items' = items \cup {i} /\ total_bytes' = total_bytes + i.bytes /\ ~Movable(i)
    <3>1. Covered(Moving)' = Covered(Moving)
      BY <1>0, <2>6 DEF Covered, Moving, Movable
    <3>2. i.bytes = 0 /\ total_bytes = Bytes(Covered(Moving))
      BY <1>0, <2>2, <2>6 DEF Counted
    <3>3. Covered(Moving) \in SUBSET Node /\ IsFiniteSet(Covered(Moving))
      BY <1>0, FS_Subset DEF Covered
    <3>4. Bytes(Covered(Moving)) \in Nat
      BY <3>3, BytesType
    <3>5. total_bytes' = Bytes(Covered(Moving)')
      BY <2>6, <3>1, <3>2, <3>4
    <3> QED
      BY <2>3, <3>5 DEF Counted
  <2> QED
    BY <2>1, <2>4, <2>5, <2>6
<1>3. CASE ~Stat /\ ~Shadow
  <2>1. UNCHANGED <<staged, items, total_bytes>>
    BY <1>3 DEF Next, Normalize, Normalized, Stated, Shadowing, Goto, CommitItem, Disturb, vars
  <2>2. Covered(Moving)' = Covered(Moving)
    BY <1>0, <2>1 DEF Covered, Moving
  <2> QED
    BY <1>0, <2>1, <2>2 DEF Counted
<1> QED
  BY <1>1, <1>2, <1>3

(* And the bytes the preview promises are the bytes of what it takes         *)
(* (plan.rs:6): an item below another one is counted once, and one that      *)
(* stays is not counted.                                                     *)
THEOREM MovesTheRequests == Spec => []MovesWhatWasAsked
<1>1. Init => MInv /\ Progress /\ Counted
  <2> SUFFICES ASSUME Init PROVE Counted
    BY MInitHolds
  <2>1. staged = {} /\ items = {} /\ total_bytes = 0 /\ Covered(Moving) = {}
    BY DEF Init, Covered, Moving
  <2>2. Bytes({}) = 0
    BY FS_EmptySet, BytesUnfold
  <2> QED
    BY <2>1, <2>2 DEF Counted
<1>2. MInv /\ Progress /\ Counted /\ [Next]_vars => (MInv /\ Progress /\ Counted)'
  BY IInvStep, OfRequestsStep, LookedStep, ProgressStep, CountedStep DEF MInv
<1>3. MInv /\ Counted => (Undisturbed => total_bytes = Bytes(before \cap ToGo))
  BY CoveredIsAsked DEF Counted, Undisturbed
<1>4. Spec => [](MInv /\ Counted)
  BY <1>1, <1>2, PTL DEF Spec
<1>5. MInv /\ Counted /\ TakesWhatWasAsked => MovesWhatWasAsked
  BY <1>3 DEF MovesWhatWasAsked
<1> QED
  BY <1>4, <1>5, TakesTheRequests, PTL
=============================================================================
