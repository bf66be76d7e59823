------------------------------ MODULE Scans_proofs ------------------------------
(* The scans.  What the screens show of a machine, for any disk, any volumes *)
(* and processes, is in Screens; how the scans run and are cancelled, for    *)
(* any number of handles, files and edits, is in Streams.  The two share no  *)
(* state: the first part below is about the one, the second about the other. *)
EXTENDS Streams, Screens, FiniteSetTheorems, FunctionTheorems, SequenceTheorems,
        WellFoundedInduction, TLAPS
-----------------------------------------------------------------------------
(* Sorting                                                                   *)

(* A finite set has an enumeration, which SetToSeq chooses.                  *)
LEMMA Enumerated ==
  ASSUME NEW S, IsFiniteSet(S)
  PROVE  /\ Cardinality(S) \in Nat
         /\ SetToSeq(S) \in [1..Cardinality(S) -> S]
         /\ \A i, j \in 1..Cardinality(S) : SetToSeq(S)[i] = SetToSeq(S)[j] => i = j
         /\ \A x \in S : \E i \in 1..Cardinality(S) : SetToSeq(S)[i] = x
<1> DEFINE n == Cardinality(S)
           e == SetToSeq(S)
<1>1. n \in Nat /\ ExistsBijection(1..n, S)
  BY FS_CardinalityType
<1>2. PICK f : f \in Bijection(1..n, S)
  BY <1>1 DEF ExistsBijection
<1>3. f \in [1..n -> S] /\ \A i, j \in 1..n : f[i] = f[j] => i = j
  BY <1>2, Fun_BijectionProperties
<1>4. f \in [1..n -> S] /\ IsInjective(f)
  BY <1>3 DEF IsInjective
<1>5. e \in [1..n -> S] /\ IsInjective(e)
  BY <1>4 DEF SetToSeq
<1>6. \A i, j \in 1..n : e[i] = e[j] => i = j
  <2> HIDE DEF e
  <2> QED
    BY <1>5 DEF IsInjective
<1>7. e \in Injection(1..n, S)
  BY <1>5, <1>6, Fun_IsInj
<1>8. Cardinality(1..n) = n
  <2>1. 1 \in Int /\ n \in Int /\ n >= 0
    BY <1>1
  <2>2. Cardinality(1..n) = IF 1 > n THEN 0 ELSE n - 1 + 1
    BY <2>1, FS_Interval
  <2> QED
    BY <2>1, <2>2
<1>9. e \in Surjection(1..n, S)
  BY <1>7, <1>8, FS_Injection
<1> QED
  BY <1>1, <1>5, <1>6, <1>9, Fun_SurjectionProperties

LEMMA SmallerWithout ==
  ASSUME NEW s, IsFiniteSet(s), NEW x \in s
  PROVE  IsFiniteSet(s \ {x}) /\ Cardinality(s \ {x}) < Cardinality(s)
<1>1. Cardinality(s) \in Nat /\ Cardinality(s \ {x}) \in Nat /\ IsFiniteSet(s \ {x}) /\ Cardinality(s \ {x}) = Cardinality(s) - 1
  BY FS_RemoveElement, FS_CardinalityType
<1> QED BY <1>1

(* Of a total order on the first n positions: what is ahead of a position.   *)
Behind(n, R, k) == {m \in 1..n : <<m, k>> \in R}

LEMMA Ranks ==
  ASSUME NEW n \in Nat, NEW R,
         \A a \in 1..n : <<a, a>> \notin R,
         \A a, b, c \in 1..n : <<a, b>> \in R /\ <<b, c>> \in R => <<a, c>> \in R,
         \A a, b \in 1..n : a # b => <<a, b>> \in R \/ <<b, a>> \in R
  PROVE  /\ \A k \in 1..n : Cardinality(Behind(n, R, k)) \in Nat
         /\ \A k, l \in 1..n : <<k, l>> \in R => Cardinality(Behind(n, R, k)) < Cardinality(Behind(n, R, l))
         /\ \A i \in 1..n : \E k \in 1..n : Cardinality(Behind(n, R, k)) = i - 1
<1>1. IsFiniteSet(1..n) /\ Cardinality(1..n) = n
  <2>1. 1 \in Int /\ n \in Int /\ n >= 0
    OBVIOUS
  <2>2. IsFiniteSet(1..n) /\ Cardinality(1..n) = IF 1 > n THEN 0 ELSE n - 1 + 1
    BY <2>1, FS_Interval
  <2> QED
    BY <2>1, <2>2
<1>2. \A k \in 1..n : IsFiniteSet(Behind(n, R, k)) /\ Cardinality(Behind(n, R, k)) \in Nat
  <2> SUFFICES ASSUME NEW k \in 1..n PROVE IsFiniteSet(Behind(n, R, k)) /\ Cardinality(Behind(n, R, k)) \in Nat
    OBVIOUS
  <2>1. Behind(n, R, k) \in SUBSET (1..n)
    BY DEF Behind
  <2> QED
    BY <2>1, <1>1, FS_Subset, FS_CardinalityType
<1>3. ASSUME NEW k \in 1..n, NEW l \in 1..n, <<k, l>> \in R
      PROVE  Cardinality(Behind(n, R, k)) < Cardinality(Behind(n, R, l))
  <2>1. k \in Behind(n, R, l)
    BY <1>3 DEF Behind
  <2>2. Behind(n, R, k) \in SUBSET (Behind(n, R, l) \ {k})
    BY <1>3 DEF Behind
  <2>3. IsFiniteSet(Behind(n, R, l) \ {k}) /\ Cardinality(Behind(n, R, l) \ {k}) < Cardinality(Behind(n, R, l))
    BY <2>1, <1>2, SmallerWithout
  <2>4. Cardinality(Behind(n, R, k)) <= Cardinality(Behind(n, R, l) \ {k})
    BY <2>2, <2>3, FS_Subset
  <2>5. /\ Cardinality(Behind(n, R, k)) \in Nat /\ Cardinality(Behind(n, R, l)) \in Nat
        /\ Cardinality(Behind(n, R, l) \ {k}) \in Nat
    BY <1>2, <2>3, FS_CardinalityType
  <2> QED
    BY <2>3, <2>4, <2>5
<1> DEFINE f == [k \in 1..n |-> Cardinality(Behind(n, R, k)) + 1]
<1>4. ASSUME NEW k \in 1..n PROVE f[k] \in 1..n
  <2>1. Behind(n, R, k) \in SUBSET ((1..n) \ {k})
    BY DEF Behind
  <2>2. IsFiniteSet((1..n) \ {k}) /\ Cardinality((1..n) \ {k}) < n
    <3>1. \A s : IsFiniteSet(s) /\ k \in s => IsFiniteSet(s \ {k}) /\ Cardinality(s \ {k}) < Cardinality(s)
      BY SmallerWithout
    <3> QED
      BY <3>1, <1>1
  <2>3. Cardinality(Behind(n, R, k)) <= Cardinality((1..n) \ {k}) /\ Cardinality((1..n) \ {k}) \in Nat
    BY <2>1, <2>2, FS_Subset, FS_CardinalityType
  <2>4. Cardinality(Behind(n, R, k)) \in Nat
    BY <1>2
  <2> QED
    BY <2>2, <2>3, <2>4
<1>5. f \in [1..n -> 1..n]
  BY <1>4
<1>6. ASSUME NEW k \in 1..n, NEW l \in 1..n, f[k] = f[l] PROVE k = l
  <2>1. /\ Cardinality(Behind(n, R, k)) \in Nat /\ Cardinality(Behind(n, R, l)) \in Nat
        /\ Cardinality(Behind(n, R, k)) = Cardinality(Behind(n, R, l))
    BY <1>2, <1>6
  <2>2. ~(Cardinality(Behind(n, R, k)) < Cardinality(Behind(n, R, l)))
    BY <2>1
  <2>3. ~(Cardinality(Behind(n, R, l)) < Cardinality(Behind(n, R, k)))
    BY <2>1
  <2>4. <<k, l>> \notin R /\ <<l, k>> \notin R
    BY <2>2, <2>3, <1>3
  <2> QED
    BY <2>4
<1>7. f \in Injection(1..n, 1..n)
  <2> HIDE DEF f
  <2> QED
    BY <1>5, <1>6, Fun_IsInj
<1>8. f \in Surjection(1..n, 1..n)
  BY <1>7, <1>1, FS_Injection
<1>9. ASSUME NEW i \in 1..n PROVE \E k \in 1..n : Cardinality(Behind(n, R, k)) = i - 1
  <2>1. PICK k \in 1..n : f[k] = i
    <3> HIDE DEF f
    <3>1. \A g \in Surjection(1..n, 1..n) : \A t \in 1..n : \E s \in 1..n : g[s] = t
      BY Fun_SurjectionProperties
    <3> QED
      BY <1>8, <3>1
  <2>2. Cardinality(Behind(n, R, k)) + 1 = i /\ Cardinality(Behind(n, R, k)) \in Nat
    BY <2>1, <1>2
  <2> QED
    BY <2>2
<1> QED
  BY <1>2, <1>3, <1>9

(* A strict order that may leave two things open, but no third then tells    *)
(* them apart: what a comparison by keys is.                                 *)
IsOrder(B, S) ==
  \A x, y \in S : <<x, y>> \in B =>
    <<y, x>> \notin B /\ \A z \in S : <<x, z>> \in B \/ <<z, y>> \in B

(* A sorted list has each member once, and none before a better one.         *)
LEMMA SortingOf ==
  ASSUME NEW N \in Nat, NEW S, NEW e \in [1..N -> S], \A i, j \in 1..N : e[i] = e[j] => i = j,
         \A x \in S : \E i \in 1..N : e[i] = x, NEW B, IsOrder(B, S)
  PROVE  /\ sort_by(e, B) \in [1..N -> S]
         /\ \A i, j \in 1..N : sort_by(e, B)[i] = sort_by(e, B)[j] => i = j
         /\ \A x \in S : \E i \in 1..N : sort_by(e, B)[i] = x
         /\ \A i, j \in 1..N : i < j => <<sort_by(e, B)[j], sort_by(e, B)[i]>> \notin B
<1> DEFINE n == N
           s == sort_by(e, B)
           R == {p \in (1..n) \X (1..n) : Ahead(e, B, p[1], p[2])}
           Slot(i) == CHOOSE k \in 1..n : Cardinality(AheadOf(e, B, k)) = i - 1
<1>1. /\ n \in Nat /\ e \in [1..n -> S] /\ DOMAIN e = 1..n
      /\ \A i, j \in 1..n : e[i] = e[j] => i = j
      /\ \A x \in S : \E i \in 1..n : e[i] = x
  OBVIOUS
<1> HIDE DEF n
<1>2. \A a, b \in 1..n :
        <<a, b>> \in R <=> (<<e[a], e[b]>> \in B \/ (a < b /\ <<e[b], e[a]>> \notin B))
  BY DEF Ahead
<1>3. \A a \in 1..n : e[a] \in S /\ a \in Nat
  BY <1>1
<1> HIDE DEF R
<1>4. \A x, y \in S : <<x, y>> \in B => <<y, x>> \notin B
  BY DEF IsOrder
<1>5. \A x, y, z \in S : <<x, y>> \in B => <<x, z>> \in B \/ <<z, y>> \in B
  BY DEF IsOrder
<1>6. ASSUME NEW a \in 1..n PROVE <<a, a>> \notin R
  <2>1. e[a] \in S /\ a \in Nat
    BY <1>3
  <2>2. <<e[a], e[a]>> \notin B /\ ~(a < a)
    BY <2>1, <1>4
  <2> QED
    BY <2>2, <1>2
<1>7. ASSUME NEW a \in 1..n, NEW b \in 1..n, NEW c \in 1..n, <<a, b>> \in R, <<b, c>> \in R
      PROVE  <<a, c>> \in R
  <2>1. a \in Nat /\ b \in Nat /\ c \in Nat /\ e[a] \in S /\ e[b] \in S /\ e[c] \in S
    BY <1>3
  <2>2. <<e[a], e[b]>> \in B \/ (a < b /\ <<e[b], e[a]>> \notin B)
    BY <1>2, <1>7
  <2>3. <<e[b], e[c]>> \in B \/ (b < c /\ <<e[c], e[b]>> \notin B)
    BY <1>2, <1>7
  <2>4. <<e[a], e[c]>> \in B \/ (a < c /\ <<e[c], e[a]>> \notin B)
    BY <2>1, <2>2, <2>3, <1>4, <1>5
  <2> QED
    BY <1>2, <2>4
<1>8. ASSUME NEW a \in 1..n, NEW b \in 1..n, a # b PROVE <<a, b>> \in R \/ <<b, a>> \in R
  <2>1. a \in Nat /\ b \in Nat /\ e[a] \in S /\ e[b] \in S /\ (a < b \/ b < a)
    BY <1>3, <1>8
  <2> QED
    BY <2>1, <1>2
<1>9. /\ \A k \in 1..n : Cardinality(Behind(n, R, k)) \in Nat
      /\ \A k, l \in 1..n : <<k, l>> \in R => Cardinality(Behind(n, R, k)) < Cardinality(Behind(n, R, l))
      /\ \A i \in 1..n : \E k \in 1..n : Cardinality(Behind(n, R, k)) = i - 1
  BY <1>1, <1>6, <1>7, <1>8, Ranks
<1>10. \A k \in 1..n : AheadOf(e, B, k) = Behind(n, R, k)
  BY <1>1 DEF AheadOf, Behind, R
<1>11. \A i \in 1..n : Slot(i) \in 1..n /\ Cardinality(Behind(n, R, Slot(i))) = i - 1
  BY <1>9, <1>10
<1>12. s = [i \in 1..n |-> e[Slot(i)]]
  BY <1>1 DEF sort_by
<1> HIDE DEF Slot, s
<1>13. s \in [1..n -> S]
  BY <1>3, <1>11, <1>12
<1>14. ASSUME NEW i \in 1..n, NEW j \in 1..n, s[i] = s[j] PROVE i = j
  <2>1. Slot(i) = Slot(j)
    BY <1>1, <1>11, <1>12, <1>14
  <2>2. i - 1 = j - 1 /\ i \in Int /\ j \in Int
    BY <2>1, <1>11
  <2> QED
    BY <2>2
<1>15. ASSUME NEW x \in S PROVE \E i \in 1..n : s[i] = x
  <2>1. PICK k \in 1..n : e[k] = x
    BY <1>1
  <2> DEFINE i == Cardinality(Behind(n, R, k)) + 1
  <2>2. Behind(n, R, k) \in SUBSET ((1..n) \ {k}) /\ IsFiniteSet(1..n) /\ Cardinality(1..n) = n
    <3>1. 1 \in Int /\ n \in Int /\ n >= 0
      BY <1>1
    <3>2. IsFiniteSet(1..n) /\ Cardinality(1..n) = IF 1 > n THEN 0 ELSE n - 1 + 1
      BY <3>1, FS_Interval
    <3> QED
      BY <3>1, <3>2, <1>6 DEF Behind
  <2>3. IsFiniteSet((1..n) \ {k}) /\ Cardinality((1..n) \ {k}) < n
    <3> DEFINE A == 1..n
    <3>1. IsFiniteSet(A) /\ Cardinality(A) = n /\ k \in A
      BY <2>1, <2>2
    <3> HIDE DEF A
    <3>2. IsFiniteSet(A \ {k}) /\ Cardinality(A \ {k}) < Cardinality(A)
      BY <3>1, SmallerWithout
    <3> QED
      BY <3>1, <3>2 DEF A
  <2>4. Cardinality(Behind(n, R, k)) <= Cardinality((1..n) \ {k}) /\ Cardinality((1..n) \ {k}) \in Nat
    BY <2>2, <2>3, FS_Subset, FS_CardinalityType
  <2>5. Cardinality(Behind(n, R, k)) \in Nat
    BY <1>9
  <2>6. i \in 1..n /\ i - 1 = Cardinality(Behind(n, R, k))
    BY <1>1, <2>3, <2>4, <2>5
  <2>7. Slot(i) = k
    <3>1. Slot(i) \in 1..n /\ Cardinality(Behind(n, R, Slot(i))) = Cardinality(Behind(n, R, k))
      BY <1>11, <2>6
    <3>2. ~(Cardinality(Behind(n, R, k)) < Cardinality(Behind(n, R, k)))
      BY <2>5
    <3> QED
      BY <3>1, <3>2, <1>8, <1>9
  <2> QED
    BY <2>1, <2>6, <2>7, <1>12
<1>16. ASSUME NEW i \in 1..n, NEW j \in 1..n, i < j PROVE <<s[j], s[i]>> \notin B
  <2>1. Slot(i) \in 1..n /\ Slot(j) \in 1..n
    BY <1>11
  <2>2. <<Slot(j), Slot(i)>> \notin R
    <3>1. ~(j - 1 < i - 1)
      BY <1>16
    <3>2. Cardinality(Behind(n, R, Slot(i))) = i - 1 /\ Cardinality(Behind(n, R, Slot(j))) = j - 1
      BY <1>11
    <3>3. ~(Cardinality(Behind(n, R, Slot(j))) < Cardinality(Behind(n, R, Slot(i))))
      BY <3>1, <3>2
    <3> QED
      BY <1>9, <2>1, <3>3
  <2> QED
    BY <2>1, <2>2, <1>2, <1>12
<1> QED
  BY <1>13, <1>14, <1>15, <1>16 DEF n, s

(* So has a sorted set.                                                      *)
LEMMA Sorting ==
  ASSUME NEW S, IsFiniteSet(S), NEW B, IsOrder(B, S)
  PROVE  /\ Cardinality(S) \in Nat
         /\ SortedBy(S, B) \in [1..Cardinality(S) -> S]
         /\ \A i, j \in 1..Cardinality(S) : SortedBy(S, B)[i] = SortedBy(S, B)[j] => i = j
         /\ \A x \in S : \E i \in 1..Cardinality(S) : SortedBy(S, B)[i] = x
         /\ \A i, j \in 1..Cardinality(S) : i < j => <<SortedBy(S, B)[j], SortedBy(S, B)[i]>> \notin B
<1> DEFINE n == Cardinality(S)
           e == SetToSeq(S)
<1>1. n \in Nat /\ e \in [1..n -> S]
  BY Enumerated
<1>2. \A i, j \in 1..n : e[i] = e[j] => i = j
  BY Enumerated
<1>3. \A x \in S : \E i \in 1..n : e[i] = x
  BY Enumerated
<1> HIDE DEF n, e
<1>4. /\ sort_by(e, B) \in [1..n -> S]
      /\ \A i, j \in 1..n : sort_by(e, B)[i] = sort_by(e, B)[j] => i = j
      /\ \A x \in S : \E i \in 1..n : sort_by(e, B)[i] = x
      /\ \A i, j \in 1..n : i < j => <<sort_by(e, B)[j], sort_by(e, B)[i]>> \notin B
  BY <1>1, <1>2, <1>3, SortingOf
<1>5. SortedBy(S, B) = sort_by(e, B)
  BY DEF SortedBy, e
<1> QED
  BY <1>1, <1>4, <1>5 DEF n

-----------------------------------------------------------------------------
(* The machine                                                               *)

(* Everything is finite, nothing lies below a file or a link, and no two     *)
(* processes share a pid.                                                    *)
MachineInv ==
  /\ MachineTypeOK
  /\ IsFiniteSet(disk) /\ IsFiniteSet(mounts) /\ IsFiniteSet(procs)
  /\ \A p, q \in disk : AtOrBelow(p, q) => p = q
  /\ \A p, q \in procs : p.pid = q.pid => p = q

LEMMA MachineInitHolds == MachineInit => MachineInv
BY FS_EmptySet DEF MachineInit, MachineInv, MachineTypeOK

LEMMA MachineStep == MachineInv /\ [MachineNext]_machine => MachineInv'
<1> SUFFICES ASSUME MachineInv, [MachineNext]_machine PROVE MachineInv'
  OBVIOUS
<1> USE DEF MachineInv, MachineTypeOK
<1>1. ASSUME NEW p \in Entries[os], Appear(p) PROVE MachineInv'
  <2>1. IsFiniteSet(disk')
    BY <1>1, FS_AddElement DEF Appear
  <2>2. \A q, s \in disk' : AtOrBelow(q, s) => q = s
    BY <1>1 DEF Appear
  <2> QED
    BY <1>1, <2>1, <2>2 DEF Appear
<1>2. ASSUME disk' \in SUBSET disk, UNCHANGED <<os, mounts, procs>> PROVE MachineInv'
  <2>1. IsFiniteSet(disk')
    BY <1>2, FS_Subset
  <2> QED
    BY <1>2, <2>1
<1>3. ASSUME NEW p \in Entries[os], Vanish(p) PROVE MachineInv'
  BY <1>2, <1>3 DEF Vanish
<1>4. ASSUME NEW r, Clean(r) PROVE MachineInv'
  BY <1>2, <1>4 DEF Clean
<1>5. ASSUME NEW v \in Mounts[os], Mount(v) PROVE MachineInv'
  <2>1. IsFiniteSet(mounts')
    BY <1>5, FS_AddElement DEF Mount
  <2> QED
    BY <1>5, <2>1 DEF Mount
<1>6. ASSUME NEW v, Unmount(v) PROVE MachineInv'
  <2>1. IsFiniteSet(mounts')
    BY <1>6, FS_RemoveElement DEF Unmount
  <2> QED
    BY <1>6, <2>1 DEF Unmount
<1>7. ASSUME NEW p \in Procs, Start(p) PROVE MachineInv'
  <2>1. IsFiniteSet(procs')
    BY <1>7, FS_AddElement DEF Start
  <2>2. \A q, s \in procs' : q.pid = s.pid => q = s
    BY <1>7 DEF Start
  <2> QED
    BY <1>7, <2>1, <2>2 DEF Start
<1>8. ASSUME NEW p, kill_process(p) PROVE MachineInv'
  <2>1. IsFiniteSet(procs')
    BY <1>8, FS_RemoveElement DEF kill_process
  <2> QED
    BY <1>8, <2>1 DEF kill_process
<1>9. CASE UNCHANGED machine
  BY <1>9 DEF machine
<1> QED
  BY <1>1, <1>3, <1>4, <1>5, <1>6, <1>7, <1>8, <1>9 DEF MachineNext

LEMMA MachineInvariance == MachineSpec => []MachineInv
BY MachineInitHolds, MachineStep, PTL DEF MachineSpec

-----------------------------------------------------------------------------
(* Volumes                                                                   *)

(* Of finitely many things with a size each, one is the largest.             *)
LEMMA LargestExists ==
  ASSUME NEW S, IsFiniteSet(S), S # {}, NEW size \in [S -> Nat]
  PROVE  \E x \in S : \A y \in S : size[y] <= size[x]
<1> DEFINE B == {p \in S \X S : size[p[1]] > size[p[2]]}
           n == Cardinality(S)
           s == SortedBy(S, B)
<1>1. \A x, y \in S : <<x, y>> \in B <=> size[x] > size[y]
  OBVIOUS
<1> HIDE DEF B
<1>2. \A x \in S : size[x] \in Nat
  OBVIOUS
<1>3. IsOrder(B, S)
  BY <1>1, <1>2 DEF IsOrder
<1>4. /\ n \in Nat /\ s \in [1..n -> S]
      /\ \A x \in S : \E i \in 1..n : s[i] = x
      /\ \A i, j \in 1..n : i < j => <<s[j], s[i]>> \notin B
  BY <1>3, Sorting
<1> HIDE DEF s, n
<1>5. 1 \in 1..n /\ s[1] \in S
  BY <1>4
<1>6. ASSUME NEW y \in S PROVE size[y] <= size[s[1]]
  <2>1. PICK j \in 1..n : s[j] = y
    BY <1>4
  <2>2. CASE j = 1
    BY <2>1, <2>2, <1>2
  <2>3. CASE j # 1
    <3>1. 1 < j
      BY <2>3, <1>4
    <3>2. <<y, s[1]>> \notin B
      BY <3>1, <2>1, <1>4, <1>5
    <3> QED
      BY <3>2, <1>1, <1>2, <1>5
  <2> QED
    BY <2>2, <2>3
<1> QED
  BY <1>5, <1>6

Raws(vs) == \A v \in vs : v.total \in Nat /\ v.free \in Nat

LEMMA LargestIn ==
  ASSUME NEW vs, IsFiniteSet(vs), vs # {}, Raws(vs) PROVE Largest(vs) \in vs
<1> DEFINE size == [v \in vs |-> v.total]
<1>1. size \in [vs -> Nat]
  BY DEF Raws
<1>2. \E x \in vs : \A y \in vs : size[y] <= size[x]
  <2> HIDE DEF size
  <2> QED
    BY <1>1, LargestExists
<1>3. \E x \in vs : \A y \in vs : y.total <= x.total
  BY <1>2
<1> QED
  BY <1>3 DEF Largest

(* Exactly one of the volumes that are kept is the primary.                  *)
LEMMA PrimaryIsOne ==
  ASSUME NEW vs, IsFiniteSet(vs), vs # {}, Raws(vs), NEW platform
  PROVE  \E p \in vs : pick_primary(vs, platform) = {p}
<1> DEFINE at(m) == {v \in vs : v.mount = m}
           rooted == IF platform # "windows" THEN at("/")
                     ELSE IF at("C:\\") # {} THEN at("C:\\") ELSE at("C:/")
           fixed == {v \in vs : ~v.removable}
           first == CHOOSE v \in rooted : TRUE
           large == Largest(IF fixed # {} THEN fixed ELSE vs)
<1>1. pick_primary(vs, platform) = IF rooted # {} THEN {first} ELSE {large}
  BY DEF pick_primary
<1>2. rooted \subseteq vs
  OBVIOUS
<1>3. rooted # {} => first \in rooted
  <2> HIDE DEF rooted
  <2> QED
    OBVIOUS
<1>4. large \in vs
  <2>1. CASE fixed # {}
    <3>1. fixed \in SUBSET vs /\ IsFiniteSet(fixed) /\ Raws(fixed)
      BY FS_Subset DEF Raws
    <3> HIDE DEF fixed
    <3>2. Largest(fixed) \in fixed
      BY <2>1, <3>1, LargestIn
    <3> QED
      BY <2>1, <3>1, <3>2
  <2>2. CASE fixed = {}
    <3> HIDE DEF fixed
    <3> QED
      BY <2>2, LargestIn
  <2> QED
    BY <2>1, <2>2
<1> QED
  <2> HIDE DEF rooted, first, large
  <2> QED
    BY <1>1, <1>2, <1>3, <1>4

(* What is kept of the raw list: nothing of no size, no mount point twice.   *)
LEMMA KeptOnce ==
  ASSUME NEW raw, IsFiniteSet(raw), Raws(raw), NEW platform
  PROVE  /\ IsFiniteSet(Kept(raw, platform)) /\ Raws(Kept(raw, platform))
         /\ \A v \in Kept(raw, platform) : v.total > 0
         /\ \A v, w \in Kept(raw, platform) : v.mount = w.mount => v = w
<1> DEFINE vs == {v \in raw : v.total > 0 /\ ~is_pseudo(v, platform)}
           Pick(m) == CHOOSE w \in {u \in vs : u.mount = m} : \A u \in vs : u.mount = m => u.total <= w.total
           kept == Kept(raw, platform)
<1>1. kept = {v \in vs : v = Pick(v.mount)}
  BY DEF Kept, dedupe_by_mount
<1>2. vs \subseteq raw /\ \A v \in vs : v.total > 0
  OBVIOUS
<1> HIDE DEF vs, Pick, kept
<1>3. kept \in SUBSET raw /\ \A v \in kept : v.total > 0
  BY <1>1, <1>2
<1>4. \A v, w \in kept : v.mount = w.mount => v = w
  BY <1>1
<1>5. IsFiniteSet(kept) /\ Raws(kept)
  BY <1>3, FS_Subset DEF Raws
<1> QED
  BY <1>3, <1>4, <1>5 DEF kept

(* What the sidebar shows of volumes without a mount point twice.            *)
LEMMA SidebarIsWellFormed ==
  ASSUME NEW vs, IsFiniteSet(vs), Raws(vs), \A v \in vs : v.total > 0,
         \A v, w \in vs : v.mount = w.mount => v = w,
         NEW primary, vs # {} => \E p \in vs : primary = {p}
  PROVE  /\ WellFormed(Sidebar(vs, primary))
         /\ Sidebar(vs, primary) # <<>> => \E v \in ToSet(Sidebar(vs, primary)) : v.is_primary
<1> DEFINE all == {to_volume(v, primary) : v \in vs}
           before(v, w) == \/ v.is_primary /\ ~w.is_primary
                           \/ v.is_primary = w.is_primary /\ v.total_bytes > w.total_bytes
           B == {p \in all \X all : before(p[1], p[2])}
           n == Cardinality(all)
           s == SortedBy(all, B)
<1>1. ASSUME NEW v \in vs
      PROVE  /\ to_volume(v, primary).mount_point = v.mount
             /\ to_volume(v, primary).total_bytes \in Nat /\ to_volume(v, primary).total_bytes > 0
             /\ to_volume(v, primary).used_bytes + to_volume(v, primary).free_bytes = to_volume(v, primary).total_bytes
             /\ to_volume(v, primary).is_primary \in BOOLEAN
             /\ to_volume(v, primary).is_primary <=> v \in primary
  <2>1. v.total \in Nat /\ v.free \in Nat /\ v.total > 0
    BY DEF Raws
  <2> DEFINE u == to_volume(v, primary)
  <2>2. /\ u.mount_point = v.mount /\ u.total_bytes = v.total
        /\ u.used_bytes = IF v.free > v.total THEN 0 ELSE v.total - v.free
        /\ u.free_bytes = IF v.free > v.total THEN v.total ELSE v.free
        /\ u.is_primary = (v \in primary)
    BY DEF to_volume
  <2> HIDE DEF u
  <2>3. u.used_bytes + u.free_bytes = u.total_bytes
    BY <2>1, <2>2
  <2>4. u.is_primary \in BOOLEAN /\ (u.is_primary <=> v \in primary)
    <3>1. CASE v \in primary
      <4>1. u.is_primary = TRUE
        BY <2>2, <3>1
      <4> QED
        BY <3>1, <4>1
    <3>2. CASE v \notin primary
      <4>1. (v \in primary) = FALSE
        BY <3>2
      <4>2. u.is_primary = FALSE
        BY <2>2, <4>1
      <4> QED
        BY <3>2, <4>2
    <3> QED
      BY <3>1, <3>2
  <2> QED
    BY <2>1, <2>2, <2>3, <2>4 DEF u
<1>2. IsFiniteSet(all)
  <2> DEFINE f == [v \in vs |-> to_volume(v, primary)]
  <2>1. f \in [vs -> all] /\ \A x \in all : \E v \in vs : f[v] = x
    OBVIOUS
  <2> HIDE DEF f, all
  <2>2. f \in Surjection(vs, all)
    BY <2>1, Fun_IsSurj
  <2> QED
    BY <2>2, FS_Surjection
<1>3. \A x \in all : \E v \in vs : x = to_volume(v, primary)
  OBVIOUS
<1>4. \A v \in vs : to_volume(v, primary) \in all
  OBVIOUS
<1>5. /\ \A x \in all : /\ x.total_bytes \in Nat /\ x.total_bytes > 0 /\ x.is_primary \in BOOLEAN
                        /\ x.used_bytes + x.free_bytes = x.total_bytes
      /\ \A x, y \in all : x.mount_point = y.mount_point => x = y
      /\ \A x, y \in all : x.is_primary /\ y.is_primary => x = y
  <2> HIDE DEF all
  <2>1. \A x \in all : /\ x.total_bytes \in Nat /\ x.total_bytes > 0 /\ x.is_primary \in BOOLEAN
                       /\ x.used_bytes + x.free_bytes = x.total_bytes
    BY <1>1, <1>3
  <2>2. ASSUME NEW x \in all, NEW y \in all, x.mount_point = y.mount_point PROVE x = y
    BY <2>2, <1>1, <1>3
  <2>3. ASSUME NEW x \in all, NEW y \in all, x.is_primary, y.is_primary PROVE x = y
    <3>1. PICK v \in vs : x = to_volume(v, primary) /\ v \in primary
      BY <2>3, <1>1, <1>3
    <3>2. PICK w \in vs : y = to_volume(w, primary) /\ w \in primary
      BY <2>3, <1>1, <1>3
    <3>3. PICK p \in vs : primary = {p}
      BY <3>1
    <3> QED
      BY <3>1, <3>2, <3>3
  <2> QED
    BY <2>1, <2>2, <2>3
<1>6. all # {} => \E x \in all : x.is_primary
  <2>1. ASSUME all # {} PROVE \E x \in all : x.is_primary
    <3>1. vs # {}
      BY <2>1
    <3>2. PICK p \in vs : primary = {p}
      BY <3>1
    <3> HIDE DEF all
    <3>3. to_volume(p, primary) \in all /\ to_volume(p, primary).is_primary
      BY <1>1, <1>4, <3>2
    <3> QED
      BY <3>3
  <2> QED
    BY <2>1
<1> HIDE DEF all
<1>7. \A x, y \in all : <<x, y>> \in B <=> before(x, y)
  OBVIOUS
<1> HIDE DEF B
<1>8. IsOrder(B, all)
  BY <1>5, <1>7 DEF IsOrder
<1>9. /\ n \in Nat /\ s \in [1..n -> all]
      /\ \A i, j \in 1..n : s[i] = s[j] => i = j
      /\ \A x \in all : \E i \in 1..n : s[i] = x
      /\ \A i, j \in 1..n : i < j => <<s[j], s[i]>> \notin B
  BY <1>2, <1>8, Sorting
<1>10. Sidebar(vs, primary) = s
  BY DEF Sidebar, all, B
<1> HIDE DEF s, n
<1>11. s \in Seq(all) /\ DOMAIN s = 1..n /\ Len(s) = n
  BY <1>9
<1>12. s # <<>> => 1 \in 1..n
  BY <1>9, <1>11
<1>13. ASSUME s # <<>> PROVE s[1].is_primary
  <2>1. 1 \in 1..n /\ s[1] \in all
    BY <1>9, <1>12, <1>13
  <2>2. PICK x \in all : x.is_primary
    BY <1>6, <2>1
  <2>3. PICK k \in 1..n : s[k] = x
    BY <1>9
  <2>4. CASE k = 1
    BY <2>2, <2>3, <2>4
  <2>5. CASE k # 1
    <3>1. 1 < k
      BY <2>5, <1>9
    <3>2. ~before(x, s[1])
      BY <3>1, <2>1, <2>3, <1>7, <1>9
    <3> QED
      BY <3>2, <2>1, <2>2, <1>5
  <2> QED
    BY <2>4, <2>5
<1>14. ASSUME NEW i \in 1..n, s[i].is_primary PROVE i = 1
  <2>1. 1 \in 1..n /\ s # <<>>
    <3>1. i \in Nat /\ 1 <= i /\ i <= n
      BY <1>9
    <3> QED
      BY <3>1, <1>9, <1>11
  <2>2. s[i] = s[1]
    BY <2>1, <1>5, <1>9, <1>13, <1>14
  <2> QED
    BY <2>1, <2>2, <1>9
<1>15. \A i \in 1..n : s[i].used_bytes + s[i].free_bytes = s[i].total_bytes /\ s[i].total_bytes > 0
  BY <1>5, <1>9
<1>16. \A i, j \in 1..n : s[i].mount_point = s[j].mount_point => i = j
  BY <1>5, <1>9
<1>17. WellFormed(s)
  BY <1>11, <1>13, <1>14, <1>15, <1>16 DEF WellFormed
<1>18. s # <<>> => s[1] \in ToSet(s) /\ s[1].is_primary
  BY <1>11, <1>12, <1>13 DEF ToSet
<1> QED
  BY <1>10, <1>17, <1>18

LEMMA SomeVolume ==
  ASSUME NEW list, \E v \in list : v.is_primary, NEW path
  PROVE  volume_for_path(list, path) # {}
BY DEF volume_for_path

LEMMA PrimaryHolds ==
  ASSUME NEW raw, IsFiniteSet(raw), Raws(raw), NEW platform
  PROVE  /\ WellFormed(process(raw, platform))
         /\ process(raw, platform) # <<>> =>
              \A path : volume_for_path(ToSet(process(raw, platform)), path) # {}
<1> DEFINE vs == Kept(raw, platform)
<1>1. /\ IsFiniteSet(vs) /\ Raws(vs) /\ \A v \in vs : v.total > 0
      /\ \A v, w \in vs : v.mount = w.mount => v = w
  BY KeptOnce
<1> HIDE DEF vs
<1>2. vs # {} => \E p \in vs : pick_primary(vs, platform) = {p}
  BY <1>1, PrimaryIsOne
<1>3. process(raw, platform) = Sidebar(vs, pick_primary(vs, platform))
  BY DEF process, vs
<1>4. /\ WellFormed(process(raw, platform))
      /\ process(raw, platform) # <<>> => \E v \in ToSet(process(raw, platform)) : v.is_primary
  BY <1>1, <1>2, <1>3, SidebarIsWellFormed
<1> QED
  BY <1>4, SomeVolume

(* The sidebar's list is well formed and answers for every path              *)
(* (volumes/types.rs:51, process.rs:39, mod.rs:28).                          *)
THEOREM OneVolumeIsPrimary == MachineSpec => []OnePrimary
<1>1. MachineInv => OnePrimary
  <2> SUFFICES ASSUME MachineInv PROVE OnePrimary
    OBVIOUS
  <2>1. IsFiniteSet(mounts) /\ Raws(mounts)
    BY MachineAssumption DEF MachineInv, MachineTypeOK, Raws
  <2>2. /\ WellFormed(process(mounts, os))
        /\ process(mounts, os) # <<>> =>
             \A path : volume_for_path(ToSet(process(mounts, os)), path) # {}
    BY <2>1, PrimaryHolds
  <2> QED
    BY <2>2 DEF OnePrimary
<1> QED
  BY <1>1, MachineInvariance, PTL

-----------------------------------------------------------------------------
(* The malware report                                                        *)

(* What a path begins with, a longer one does.                               *)
LEMMA BelowConcat ==
  ASSUME NEW T, NEW p \in Seq(T), NEW q \in Seq(T), AtOrBelow(p, q), NEW r \in Seq(T)
  PROVE  AtOrBelow(p, q \o r)
<1>1. /\ q \o r \in Seq(T) /\ Len(q \o r) = Len(q) + Len(r)
      /\ \A i \in 1..Len(q) : (q \o r)[i] = q[i]
      /\ Len(p) \in Nat /\ Len(q) \in Nat /\ Len(r) \in Nat /\ Len(p) <= Len(q)
  BY ConcatProperties DEF AtOrBelow
<1>2. SubSeq(q \o r, 1, Len(p)) = SubSeq(q, 1, Len(p))
  BY <1>1
<1> QED
  BY <1>1, <1>2 DEF AtOrBelow

LEMMA BelowHome ==
  ASSUME NEW R, NEW r \in Seq(R), NEW s \in Seq(R)
  PROVE  AtOrBelow(home, H(r)) /\ AtOrBelow(home, H(r) \o s)
<1> DEFINE T == STRING \cup R
<1>1. home \in Seq(T) /\ r \in Seq(T) /\ s \in Seq(T)
  BY SafetyAssumption
<1> HIDE DEF T
<1>2. AtOrBelow(home, home)
  BY <1>1 DEF AtOrBelow
<1>3. home \o r \in Seq(T)
  BY <1>1, ConcatProperties
<1>4. AtOrBelow(home, home \o r)
  BY <1>1, <1>2, BelowConcat
<1>5. AtOrBelow(home, (home \o r) \o s)
  BY <1>1, <1>3, <1>4, BelowConcat
<1> QED
  BY <1>4, <1>5 DEF H

LEMMA HashRootsInHome == ASSUME NEW o \in Os PROVE \A r \in hash_roots(o) : AtOrBelow(home, r)
<1> DEFINE R == {"Downloads", "Desktop", "Library", "LaunchAgents", ".local", "share", "Trash", "files",
                 ".config", "autostart", "AppData", "Roaming", "Microsoft", "Windows", "Start Menu",
                 "Programs", "Startup"}
<1>1. /\ \A a \in R : <<a>> \in Seq(R)
      /\ \A a, b \in R : <<a, b>> \in Seq(R)
      /\ \A a, b, c, d \in R : <<a, b, c, d>> \in Seq(R)
      /\ \A a, b, c, d, e \in R : <<a, b, c, d, e>> \in Seq(R)
  <2> HIDE DEF R
  <2> QED
    OBVIOUS
<1>2. /\ "Downloads" \in R /\ "Desktop" \in R /\ "Library" \in R /\ "LaunchAgents" \in R
      /\ ".local" \in R /\ "share" \in R /\ "Trash" \in R /\ "files" \in R
      /\ ".config" \in R /\ "autostart" \in R /\ "AppData" \in R /\ "Roaming" \in R
      /\ "Microsoft" \in R /\ "Windows" \in R /\ "Start Menu" \in R /\ "Programs" \in R /\ "Startup" \in R
  OBVIOUS
<1> HIDE DEF R
<1>3. /\ <<"Downloads">> \in Seq(R) /\ <<"Desktop">> \in Seq(R) /\ <<"Library", "LaunchAgents">> \in Seq(R)
      /\ <<".local", "share", "Trash", "files">> \in Seq(R) /\ <<".config">> \in Seq(R)
      /\ <<"autostart">> \in Seq(R) /\ <<"AppData", "Roaming">> \in Seq(R)
      /\ <<"Microsoft", "Windows", "Start Menu", "Programs", "Startup">> \in Seq(R)
  <2>1. <<"Downloads">> \in Seq(R) /\ <<"Desktop">> \in Seq(R) /\ <<".config">> \in Seq(R)
        /\ <<"autostart">> \in Seq(R)
    BY <1>1, <1>2
  <2>2. <<"Library", "LaunchAgents">> \in Seq(R) /\ <<"AppData", "Roaming">> \in Seq(R)
    BY <1>1, <1>2
  <2>3. <<".local", "share", "Trash", "files">> \in Seq(R)
    BY <1>1, <1>2
  <2>4. <<"Microsoft", "Windows", "Start Menu", "Programs", "Startup">> \in Seq(R)
    BY <1>1, <1>2
  <2> QED
    BY <2>1, <2>2, <2>3, <2>4
<1>4. /\ AtOrBelow(home, H(<<"Downloads">>)) /\ AtOrBelow(home, H(<<"Desktop">>))
      /\ AtOrBelow(home, H(<<"Library", "LaunchAgents">>))
      /\ AtOrBelow(home, H(<<".local", "share", "Trash", "files">>))
  BY <1>3, BelowHome
<1>5. AtOrBelow(home, Config \o <<"autostart">>)
  BY <1>3, BelowHome DEF Config
<1>6. AtOrBelow(home, StartupFolder)
  BY <1>3, BelowHome DEF StartupFolder, RoamingData
<1> QED
  BY <1>4, <1>5, <1>6 DEF hash_roots, Os

(* The severity a source has.                                                *)
SeverityOf(source, o) ==
  CASE source = "Signature" -> "Critical"
    [] source = "WorldWritablePath" -> "Info"
    [] source = "SuspiciousDrop" -> IF o = "windows" THEN "Medium" ELSE "Info"
    [] OTHER -> "Medium"

Sources == {"Signature", "SuspiciousAutostart", "SuspiciousDrop", "RecentCacheBinary", "WorldWritablePath"}

Shaped(f, o) ==
  /\ f = [path |-> f.path, source |-> f.source, severity |-> f.severity]
  /\ f.source \in Sources /\ f.severity = SeverityOf(f.source, o)

(* What a sweep finds is one of these, and mild as the report promises.      *)
LEMMA AboutIs ==
  ASSUME NEW p, NEW verdicts, NEW f \in About(p, verdicts)
  PROVE  \E v \in verdicts : f = [path |-> p, source |-> v.source, severity |-> v.severity]
BY DEF About

LEMMA HashFinds ==
  ASSUME NEW o \in Os, NEW p, NEW f \in HashFile(o, p)
  PROVE  /\ f.path = p /\ Shaped(f, o) /\ f.source \in {"Signature", "SuspiciousDrop"}
         /\ is_noise_path(p) => f.source = "Signature"
<1> DEFINE drops == IF is_noise_path(p) THEN {} ELSE suspicious_drop(o, p)
<1>1. PICK v \in maybe_match_signature(p) \cup drops : f = [path |-> p, source |-> v.source, severity |-> v.severity]
  BY AboutIs DEF HashFile
<1>2. CASE v \in maybe_match_signature(p)
  <2>1. v = [source |-> "Signature", severity |-> "Critical"]
    BY <1>2 DEF maybe_match_signature, Verdict
  <2>2. f = [path |-> p, source |-> "Signature", severity |-> "Critical"]
    BY <1>1, <2>1
  <2> QED
    BY <2>2 DEF Shaped, SeverityOf, Sources
<1>3. CASE v \in drops
  <2>1. ~is_noise_path(p) /\ v \in suspicious_drop(o, p)
    BY <1>3
  <2>2. v = [source |-> "SuspiciousDrop", severity |-> IF o = "windows" THEN "Medium" ELSE "Info"]
    BY <2>1 DEF suspicious_drop, Verdict
  <2>3. f = [path |-> p, source |-> "SuspiciousDrop", severity |-> IF o = "windows" THEN "Medium" ELSE "Info"]
    BY <1>1, <2>2
  <2> QED
    BY <2>1, <2>3 DEF Shaped, SeverityOf, Sources
<1> QED
  BY <1>1, <1>2, <1>3

LEMMA CacheFinds ==
  ASSUME NEW o \in Os, NEW p, NEW f \in CacheFile(o, p)
  PROVE  /\ f.path = p /\ Shaped(f, o) /\ f.source = "RecentCacheBinary"
         /\ ~is_noise_path(p) /\ Recent(p)
<1>1. ~is_noise_path(p) /\ f \in About(p, recent_cache_binary(o, p))
  BY DEF CacheFile
<1>2. PICK v \in recent_cache_binary(o, p) : f = [path |-> p, source |-> v.source, severity |-> v.severity]
  BY <1>1, AboutIs
<1>3. v = [source |-> "RecentCacheBinary", severity |-> "Medium"] /\ Recent(p)
  BY DEF recent_cache_binary, Verdict
<1>4. f = [path |-> p, source |-> "RecentCacheBinary", severity |-> "Medium"]
  BY <1>2, <1>3
<1> QED
  BY <1>1, <1>3, <1>4 DEF Shaped, SeverityOf, Sources

LEMMA SweepFinds ==
  ASSUME NEW o \in Os, NEW places, NEW f \in sweep_world_writable(places, o) \cup sweep_autostart(places, o)
  PROVE  /\ Shaped(f, o) /\ f.source \in {"SuspiciousAutostart", "WorldWritablePath"}
         /\ is_noise_path(f.path) => f.source = "SuspiciousAutostart"
         /\ \E e \in Listed(places, Scope(world_writable_path_dirs(o)) \cup Scope(autostart_roots(o))) : f.path = e.path
<1>1. CASE f \in sweep_world_writable(places, o)
  <2>1. PICK e \in Listed(places, Scope(world_writable_path_dirs(o))) :
          ~is_noise_path(e.path) /\ f \in About(e.path, world_writable_binary(e.file))
    BY <1>1 DEF sweep_world_writable
  <2>2. PICK v \in world_writable_binary(e.file) : f = [path |-> e.path, source |-> v.source, severity |-> v.severity]
    BY <2>1, AboutIs
  <2>3. v = [source |-> "WorldWritablePath", severity |-> "Info"]
    BY DEF world_writable_binary, Verdict
  <2>4. f = [path |-> e.path, source |-> "WorldWritablePath", severity |-> "Info"]
    BY <2>2, <2>3
  <2>5. e \in Listed(places, Scope(world_writable_path_dirs(o)) \cup Scope(autostart_roots(o)))
    BY DEF Listed
  <2> QED
    BY <2>1, <2>4, <2>5 DEF Shaped, SeverityOf, Sources
<1>2. CASE f \in sweep_autostart(places, o)
  <2>1. PICK e \in Listed(places, Scope(autostart_roots(o))) : f \in About(e.path, suspicious_autostart(e.file))
    BY <1>2 DEF sweep_autostart
  <2>2. PICK v \in suspicious_autostart(e.file) : f = [path |-> e.path, source |-> v.source, severity |-> v.severity]
    BY <2>1, AboutIs
  <2>3. v = [source |-> "SuspiciousAutostart", severity |-> "Medium"]
    BY DEF suspicious_autostart, Verdict
  <2>4. f = [path |-> e.path, source |-> "SuspiciousAutostart", severity |-> "Medium"]
    BY <2>2, <2>3
  <2>5. e \in Listed(places, Scope(world_writable_path_dirs(o)) \cup Scope(autostart_roots(o)))
    BY DEF Listed
  <2> QED
    BY <2>4, <2>5 DEF Shaped, SeverityOf, Sources
<1> QED
  BY <1>1, <1>2

LEMMA FiniteImage ==
  ASSUME NEW S, IsFiniteSet(S), NEW f
  PROVE  IsFiniteSet({f[x] : x \in S})
<1> DEFINE T == {f[x] : x \in S}
           g == [x \in S |-> f[x]]
<1>1. g \in [S -> T] /\ \A t \in T : \E x \in S : g[x] = t
  OBVIOUS
<1>2. g \in Surjection(S, T)
  <2> HIDE DEF g, T
  <2> QED
    BY <1>1, Fun_IsSurj
<1> QED
  BY <1>2, FS_Surjection

(* Five members at most.                                                     *)
LEMMA FewAreFinite == \A a, b, c, d, e : IsFiniteSet({a, b, c, d, e})
<1> TAKE a, b, c, d, e
<1>1. IsFiniteSet({a}) /\ IsFiniteSet({a} \cup {b})
  BY FS_Singleton, FS_AddElement
<1>2. IsFiniteSet(({a} \cup {b}) \cup {c})
  BY <1>1, FS_AddElement
<1>3. IsFiniteSet((({a} \cup {b}) \cup {c}) \cup {d})
  BY <1>2, FS_AddElement
<1>4. IsFiniteSet(((({a} \cup {b}) \cup {c}) \cup {d}) \cup {e})
  BY <1>3, FS_AddElement
<1>5. {a, b, c, d, e} = ((({a} \cup {b}) \cup {c}) \cup {d}) \cup {e}
  OBVIOUS
<1> QED
  BY <1>4, <1>5

(* The folders that are listed.                                              *)
ListedDirs(o) == Scope(world_writable_path_dirs(o)) \cup Scope(autostart_roots(o))

LEMMA FewDirs == ASSUME NEW o \in Os PROVE IsFiniteSet(ListedDirs(o))
<1>1. IsFiniteSet(world_writable_path_dirs(o))
  BY FewAreFinite, FS_EmptySet DEF world_writable_path_dirs
<1>2. IsFiniteSet(autostart_roots(o))
  <2>1. \A a, b : IsFiniteSet({a}) /\ IsFiniteSet({a, b})
    <3> TAKE a, b
    <3>1. IsFiniteSet({a}) /\ IsFiniteSet({a} \cup {b}) /\ {a, b} = {a} \cup {b}
      BY FS_Singleton, FS_AddElement
    <3> QED
      BY <3>1
  <2>2. \/ autostart_roots(o) = {H(<<"Library", "LaunchAgents">>)}
        \/ autostart_roots(o) = {Config \o <<"autostart">>, Config \o <<"systemd", "user">>}
        \/ autostart_roots(o) = {StartupFolder}
    BY DEF autostart_roots, Os
  <2> QED
    BY <2>1, <2>2
<1>3. /\ Scope(world_writable_path_dirs(o)) \in SUBSET world_writable_path_dirs(o)
      /\ Scope(autostart_roots(o)) \in SUBSET autostart_roots(o)
  BY DEF Scope
<1>4. IsFiniteSet(Scope(world_writable_path_dirs(o))) /\ IsFiniteSet(Scope(autostart_roots(o)))
  BY <1>1, <1>2, <1>3, FS_Subset
<1> QED
  BY <1>4, FS_Union DEF ListedDirs

FoundBy(places, o) ==
  walk_roots(places, o) \cup sweep_world_writable(places, o) \cup sweep_autostart(places, o)

(* Everything found is a verdict of its source's severity; the noise filter  *)
(* lets two sources pass, and only a fresh file counts as one.               *)
LEMMA FoundIs ==
  ASSUME NEW o \in Os, NEW places, NEW f \in FoundBy(places, o)
  PROVE  /\ Shaped(f, o)
         /\ is_noise_path(f.path) => f.source \in {"Signature", "SuspiciousAutostart"}
         /\ f.source = "RecentCacheBinary" =>
              f.path \in places /\ Meta[f.path].type = "File" /\ Recent(f.path)
         /\ f.path \in places \/ \E e \in Listed(places, ListedDirs(o)) : f.path = e.path
<1>1. CASE f \in walk_roots(places, o)
  <2>1. \A roots : \A p \in Walk(places, roots) : p \in places /\ Meta[p].type = "File"
    BY DEF Walk, FilesBelow
  <2>2. \/ \E p \in Walk(places, Scope(hash_roots(o))) : f \in HashFile(o, p)
        \/ \E p \in Walk(places, Scope(cache_binary_roots(o)) \ Scope(hash_roots(o))) : f \in CacheFile(o, p)
    <3> DEFINE hash == Walk(places, Scope(hash_roots(o)))
               cache == Walk(places, Scope(cache_binary_roots(o)) \ Scope(hash_roots(o)))
               Hashed == {HashFile(o, p) : p \in hash}
               Cached == {CacheFile(o, p) : p \in cache}
    <3>1. f \in (UNION Hashed) \cup (UNION Cached)
      BY <1>1 DEF walk_roots
    <3> HIDE DEF Hashed, Cached
    <3>2. (\E S \in Hashed : f \in S) \/ (\E S \in Cached : f \in S)
      BY <3>1
    <3> HIDE DEF hash, cache
    <3>3. (\E p \in hash : f \in HashFile(o, p)) \/ (\E p \in cache : f \in CacheFile(o, p))
      BY <3>2 DEF Hashed, Cached
    <3> QED
      BY <3>3 DEF hash, cache
  <2> QED
    BY <2>1, <2>2, HashFinds, CacheFinds
<1>2. CASE f \in sweep_world_writable(places, o) \cup sweep_autostart(places, o)
  BY <1>2, SweepFinds DEF ListedDirs
<1> QED
  BY <1>1, <1>2 DEF FoundBy

LEMMA FoundIsFinite ==
  ASSUME NEW o \in Os, NEW places, IsFiniteSet(places)
  PROVE  IsFiniteSet(FoundBy(places, o))
<1> DEFINE D == ListedDirs(o)
           at == [x \in D \X places |-> x[1] \o <<x[2][Len(Real(places, x[1])) + 1]>>]
           P == places \cup {at[x] : x \in D \X places}
           made == [x \in P \X Sources |->
                      [path |-> x[1], source |-> x[2], severity |-> SeverityOf(x[2], o)]]
           K == {made[x] : x \in P \X Sources}
<1>1. IsFiniteSet(D \X places)
  BY FewDirs, FS_Product
<1> HIDE DEF D
<1>2. \A e \in Listed(places, D) : e.path \in {at[x] : x \in D \X places}
  <2> SUFFICES ASSUME NEW e \in Listed(places, D) PROVE e.path \in {at[x] : x \in D \X places}
    OBVIOUS
  <2>1. PICK d \in D : \E n \in Names(places, Real(places, d)) : e.path = d \o <<n>>
    <3> DEFINE In(d) == {m \in Names(places, Real(places, d)) : IsFile(places, Real(places, d) \o <<m>>)}
               Of(d) == {[path |-> d \o <<n>>, file |-> Real(places, d) \o <<n>>] : n \in In(d)}
    <3>1. PICK S \in {Of(d) : d \in D} : e \in S
      BY DEF Listed
    <3> HIDE DEF Of
    <3>2. PICK d \in D : e \in Of(d)
      BY <3>1
    <3>3. PICK n \in In(d) : e = [path |-> d \o <<n>>, file |-> Real(places, d) \o <<n>>]
      BY <3>2 DEF Of
    <3> QED
      BY <3>3
  <2>2. PICK n \in Names(places, Real(places, d)) : e.path = d \o <<n>>
    BY <2>1
  <2>3. PICK q \in places : n = q[Len(Real(places, d)) + 1]
    BY DEF Names
  <2>4. <<d, q>> \in D \X places /\ at[<<d, q>>] = d \o <<q[Len(Real(places, d)) + 1]>>
    OBVIOUS
  <2> HIDE DEF at
  <2> QED
    BY <2>2, <2>3, <2>4
<1>3. IsFiniteSet({at[x] : x \in D \X places})
  <2> HIDE DEF at
  <2> QED
    BY <1>1, FiniteImage
<1>4. IsFiniteSet(P)
  <2> HIDE DEF at
  <2> QED
    BY <1>3, FS_Union
<1>5. \A f \in FoundBy(places, o) : Shaped(f, o) /\ f.path \in P
  <2> HIDE DEF at
  <2> QED
    BY <1>2, FoundIs DEF D
<1> HIDE DEF P
<1>6. IsFiniteSet(Sources)
  BY FewAreFinite DEF Sources
<1>7. IsFiniteSet(P \X Sources)
  BY <1>4, <1>6, FS_Product
<1>8. IsFiniteSet(K)
  <2> HIDE DEF made
  <2> QED
    BY <1>7, FiniteImage
<1>9. FoundBy(places, o) \in SUBSET K
  <2> SUFFICES ASSUME NEW f \in FoundBy(places, o) PROVE f \in K
    OBVIOUS
  <2>1. /\ f.path \in P /\ f.source \in Sources
        /\ f = [path |-> f.path, source |-> f.source, severity |-> SeverityOf(f.source, o)]
    BY <1>5 DEF Shaped
  <2>2. <<f.path, f.source>> \in P \X Sources /\ made[<<f.path, f.source>>] = f
    BY <2>1
  <2> HIDE DEF made
  <2> QED
    BY <2>2
<1> QED
  BY <1>8, <1>9, FS_Subset

LEMMA WorseIsOrder ==
  ASSUME NEW o \in Os, NEW F, \A f \in F : Shaped(f, o)
  PROVE  IsOrder({p \in F \X F : Worse(p[1], p[2])}, F)
<1>1. \A f \in F : /\ f.severity \in {"Critical", "Medium", "Info"}
                   /\ f.source \in Sources
  BY DEF Shaped, SeverityOf, Sources
<1>2. \A f, g \in F : /\ severity_rank(f.severity) \in Nat /\ source_rank(f.source) \in Nat
                      /\ severity_rank(f.severity) = severity_rank(g.severity) => f.severity = g.severity
  <2>1. \A f \in F : severity_rank(f.severity) \in Nat /\ source_rank(f.source) \in Nat
    BY <1>1 DEF severity_rank, source_rank, Sources
  <2>2. \A f, g \in F : severity_rank(f.severity) = severity_rank(g.severity) => f.severity = g.severity
    BY <1>1 DEF severity_rank
  <2> QED
    BY <2>1, <2>2
<1>3. \A x, y \in F : Worse(x, y) =>
        ~Worse(y, x) /\ \A z \in F : Worse(x, z) \/ Worse(z, y)
  <2> SUFFICES ASSUME NEW x \in F, NEW y \in F, Worse(x, y)
               PROVE  ~Worse(y, x) /\ \A z \in F : Worse(x, z) \/ Worse(z, y)
    OBVIOUS
  <2>1. ~Worse(y, x)
    BY <1>2 DEF Worse
  <2>2. ASSUME NEW z \in F PROVE Worse(x, z) \/ Worse(z, y)
    BY <1>2 DEF Worse
  <2> QED
    BY <2>1, <2>2
<1> QED
  BY <1>3 DEF IsOrder

(* The finalized report of what was found.                                   *)
LEMMA FinalizedIsJustified ==
  ASSUME NEW o \in Os, NEW F, IsFiniteSet(F), \A f \in F : Shaped(f, o)
  PROVE  LET final == finalize(F) IN
         /\ Ordered(final.findings) /\ ToSet(final.findings) = F
         /\ final.critical_count + final.medium_count + final.info_count = Len(final.findings)
         /\ final.has_signature_hit <=> final.critical_count > 0
<1> DEFINE n == Cardinality(F)
           B == {p \in F \X F : Worse(p[1], p[2])}
           s == SortedBy(F, B)
           Rated(sev) == {f \in F : f.severity = sev}
<1>1. /\ n \in Nat /\ s \in [1..n -> F]
      /\ \A i, j \in 1..n : s[i] = s[j] => i = j
      /\ \A x \in F : \E i \in 1..n : s[i] = x
      /\ \A i, j \in 1..n : i < j => <<s[j], s[i]>> \notin B
  <2>1. IsOrder(B, F)
    BY WorseIsOrder
  <2> HIDE DEF B
  <2> QED
    BY <2>1, Sorting
<1>2. /\ finalize(F).findings = s
      /\ finalize(F).critical_count = Cardinality(Rated("Critical"))
      /\ finalize(F).medium_count = Cardinality(Rated("Medium"))
      /\ finalize(F).info_count = Cardinality(Rated("Info"))
      /\ finalize(F).has_signature_hit <=> \E f \in F : f.source = "Signature"
  BY DEF finalize
<1>3. \A f \in F : /\ f.severity \in {"Critical", "Medium", "Info"}
                   /\ f.severity = "Critical" <=> f.source = "Signature"
                   /\ severity_rank(f.severity) \in Nat
  BY DEF Shaped, SeverityOf, Sources, severity_rank
<1>4. \A f, g \in F : f.path = g.path /\ f.source = g.source => f = g
  BY DEF Shaped
<1>5. \A i, j \in 1..n : i < j => ~Worse(s[j], s[i])
  <2> HIDE DEF s
  <2> QED
    BY <1>1 DEF B
<1> HIDE DEF s, n
<1>6. DOMAIN s = 1..n /\ Len(s) = n /\ \A i \in 1..n : s[i] \in F
  <2>1. s \in Seq(F)
    BY <1>1
  <2> QED
    BY <1>1, <2>1
<1>7. ToSet(s) = F
  BY <1>1, <1>6 DEF ToSet
<1>8. Ordered(s)
  <2> SUFFICES ASSUME NEW i \in 1..n, NEW j \in 1..n, i < j
               PROVE  /\ severity_rank(s[i].severity) >= severity_rank(s[j].severity)
                      /\ <<s[i].path, s[i].source>> # <<s[j].path, s[j].source>>
    BY <1>6 DEF Ordered
  <2>1. /\ s[i] \in F /\ s[j] \in F /\ s[i] # s[j]
        /\ i \in Nat /\ j \in Nat
    BY <1>1, <1>6
  <2>2. severity_rank(s[i].severity) >= severity_rank(s[j].severity)
    BY <1>3, <1>5, <2>1 DEF Worse
  <2>3. ~(s[i].path = s[j].path /\ s[i].source = s[j].source)
    BY <1>4, <2>1
  <2> QED
    BY <2>2, <2>3
<1> DEFINE c == Rated("Critical")
           m == Rated("Medium")
           f0 == Rated("Info")
<1>9. /\ IsFiniteSet(c) /\ IsFiniteSet(m) /\ IsFiniteSet(f0)
      /\ Cardinality(c) \in Nat /\ Cardinality(m) \in Nat /\ Cardinality(f0) \in Nat
  <2>1. c \in SUBSET F /\ m \in SUBSET F /\ f0 \in SUBSET F
    OBVIOUS
  <2> HIDE DEF c, m, f0
  <2> QED
    BY <2>1, FS_Subset, FS_CardinalityType
<1>10. F = (c \cup m) \cup f0 /\ c \cap m = {} /\ (c \cup m) \cap f0 = {}
  <2>1. F = (c \cup m) \cup f0
    BY <1>3
  <2> QED
    BY <2>1
<1>11. (\E f \in F : f.source = "Signature") <=> c # {}
  BY <1>3
<1> HIDE DEF c, m, f0
<1>12. Cardinality(c) + Cardinality(m) + Cardinality(f0) = n
  <2>1. Cardinality(c \cup m) = Cardinality(c) + Cardinality(m) /\ IsFiniteSet(c \cup m)
    <3>1. Cardinality(c \cup m) = Cardinality(c) + Cardinality(m) - Cardinality(c \cap m) /\ IsFiniteSet(c \cup m)
      BY <1>9, FS_Union
    <3> QED
      BY <1>9, <1>10, <3>1, FS_EmptySet
  <2>2. Cardinality((c \cup m) \cup f0) = Cardinality(c \cup m) + Cardinality(f0) - Cardinality((c \cup m) \cap f0)
    BY <1>9, <2>1, FS_Union
  <2>3. Cardinality({}) = 0
    BY FS_EmptySet
  <2>4. Cardinality((c \cup m) \cap f0) = 0
    BY <1>10, <2>3
  <2>5. n = Cardinality((c \cup m) \cup f0)
    BY <1>10 DEF n
  <2> QED
    BY <1>9, <2>1, <2>2, <2>4, <2>5
<1>13. c # {} <=> Cardinality(c) > 0
  <2>1. Cardinality(c) = 0 <=> c = {}
    BY <1>9, FS_EmptySet
  <2> QED
    BY <1>9, <2>1
<1> QED
  BY <1>2, <1>6, <1>7, <1>8, <1>11, <1>12, <1>13 DEF c, m, f0

(* A file has no link in its path: nothing is below a link.                  *)
LEMMA FilesAreReal ==
  ASSUME MachineInv, NEW p \in disk, Meta[p].type = "File"
  PROVE  Real(disk, p) = p
<1>1. {l \in disk : AtOrBelow(l, p) /\ Meta[l].type = "Symlink"} = {}
  BY DEF MachineInv
<1> QED
  BY <1>1 DEF Real

(* The report of the malware scan: the worst first, counted in full, a test  *)
(* signature always there, nothing raised without its reason                 *)
(* (malware/scan.rs:180, 243, 500, heuristics.rs:244).                       *)
THEOREM ReportIsJustified == MachineSpec => []FindingsAreJustified
<1>1. MachineInv => FindingsAreJustified
  <2> SUFFICES ASSUME MachineInv PROVE FindingsAreJustified
    OBVIOUS
  <2> DEFINE F == FoundBy(disk, os)
  <2>1. os \in Os /\ IsFiniteSet(disk) /\ disk \subseteq DOMAIN Meta
    BY MachineAssumption DEF MachineInv, MachineTypeOK
  <2>2. IsFiniteSet(F) /\ \A f \in F : Shaped(f, os)
    BY <2>1, FoundIsFinite, FoundIs
  <2>3. scan_malware(disk, os) = finalize(F)
    BY DEF scan_malware, FoundBy
  <2>4. ASSUME NEW f \in F PROVE Mild(f)
    <3>1. is_noise_path(f.path) => f.source \in {"Signature", "SuspiciousAutostart"}
      BY <2>1, FoundIs
    <3>2. f.source = "RecentCacheBinary" => Meta[Real(disk, f.path)].mtime \in (Now - Window)..Now
      <4> SUFFICES ASSUME f.source = "RecentCacheBinary" PROVE Meta[Real(disk, f.path)].mtime \in (Now - Window)..Now
        OBVIOUS
      <4>1. f.path \in disk /\ Meta[f.path].type = "File" /\ Recent(f.path)
        BY <2>1, FoundIs
      <4>2. Real(disk, f.path) = f.path
        BY <4>1, FilesAreReal
      <4>3. Meta[f.path].mtime \in Nat /\ Now \in Nat /\ Window \in Nat
        BY <2>1, <4>1, FilesAssumption, MalwareAssumption
      <4> QED
        BY <4>1, <4>2, <4>3 DEF Recent
    <3> QED
      BY <3>1, <3>2 DEF Mild
  <2>5. ASSUME NEW r \in hash_roots(os), NEW p \in FilesBelow(disk, r), Is(p, "eicar"), Meta[p].len <= MaxHash
        PROVE  \E f \in F : f.path = p /\ f.severity = "Critical"
    <3> DEFINE f == [path |-> p, source |-> "Signature", severity |-> "Critical"]
    <3>1. r \in Scope(hash_roots(os))
      BY <2>1, HashRootsInHome DEF Scope
    <3>2. p \in Walk(disk, Scope(hash_roots(os)))
      BY <3>1 DEF Walk
    <3>3. f \in HashFile(os, p)
      <4>1. [source |-> "Signature", severity |-> "Critical"] \in maybe_match_signature(p)
        BY <2>5 DEF maybe_match_signature, Verdict
      <4> QED
        BY <4>1 DEF HashFile, About
    <3>4. f \in walk_roots(disk, os)
      <4> HIDE DEF f
      <4> QED
        BY <3>2, <3>3 DEF walk_roots
    <3>5. f \in F /\ f.path = p /\ f.severity = "Critical"
      BY <3>4 DEF FoundBy
    <3> QED
      BY <3>5
  <2> HIDE DEF F
  <2>6. /\ Ordered(finalize(F).findings) /\ ToSet(finalize(F).findings) = F
        /\ finalize(F).critical_count + finalize(F).medium_count + finalize(F).info_count = Len(finalize(F).findings)
        /\ finalize(F).has_signature_hit <=> finalize(F).critical_count > 0
    BY <2>1, <2>2, FinalizedIsJustified
  <2> QED
    BY <2>3, <2>4, <2>5, <2>6 DEF FindingsAreJustified, ReportJustified, Justified
<1> QED
  BY <1>1, MachineInvariance, PTL

-----------------------------------------------------------------------------
(* Induction on numbers and on finite sets, and folds                        *)

(* Among numbers one is least.                                               *)
LEMMA LeastExists ==
  ASSUME NEW S \in SUBSET Nat, S # {} PROVE \E n \in S : \A m \in S : n <= m
<1>1. \E n \in S : \A m \in S : <<m, n>> \notin OpToRel(<, Nat)
  BY NatLessThanWellFounded, WFMin
<1>2. PICK n \in S : \A m \in S : <<m, n>> \notin OpToRel(<, Nat)
  BY <1>1
<1>3. ASSUME NEW m \in S PROVE n <= m
  <2>1. <<m, n>> \notin {p \in Nat \X Nat : p[1] < p[2]}
    BY <1>2 DEF OpToRel
  <2>2. m \in Nat /\ n \in Nat /\ ~(m < n)
    BY <2>1
  <2> QED
    BY <2>2
<1> QED
  BY <1>3

(* What a fold computes, as a function of the sets it has left.              *)
Folds(g, T, base, step, pick) ==
  \A s \in SUBSET T : g[s] = IF s = {} THEN base ELSE step[<<pick[s], g[s \ {pick[s]}]>>]

(* A fold over a finite set is defined: the function MapThenFoldSet chooses  *)
(* exists, whatever element is taken off first and whatever is done with it. *)
LEMMA FoldExists ==
  ASSUME NEW T, IsFiniteSet(T), NEW V, NEW base \in V, NEW step \in [T \X V -> V],
         NEW pick, \A s \in SUBSET T : s # {} => pick[s] \in s
  PROVE  \E g \in [SUBSET T -> V] : Folds(g, T, base, step, pick)
<1> DEFINE Dom(n) == {s \in SUBSET T : Cardinality(s) <= n}
           Part(g, n) == /\ g \in [Dom(n) -> V]
                         /\ \A s \in Dom(n) : g[s] = IF s = {} THEN base ELSE step[<<pick[s], g[s \ {pick[s]}]>>]
           Bad == {n \in Nat : ~\E g : Part(g, n)}
<1>1. \A s \in SUBSET T : IsFiniteSet(s) /\ Cardinality(s) \in Nat /\ Cardinality(s) <= Cardinality(T)
  BY FS_Subset, FS_CardinalityType
<1>2. ASSUME NEW n \in Bad, \A m \in Bad : n <= m PROVE FALSE
  <2>1. CASE n = 0
    <3> DEFINE g == [s \in Dom(0) |-> base]
    <3>1. \A s \in Dom(0) : s = {}
      BY <1>1, FS_EmptySet
    <3>2. Part(g, 0)
      <4> HIDE DEF Dom
      <4> QED
        BY <3>1
    <3> HIDE DEF Part, g
    <3> QED
      BY <2>1, <3>2, <1>2
  <2>2. CASE n # 0
    <3>1. n - 1 \in Nat /\ n - 1 \notin Bad
      <4> HIDE DEF Part
      <4>1. n \in Nat
        OBVIOUS
      <4> HIDE DEF Bad
      <4> QED
        BY <2>2, <1>2, <4>1
    <3>2. PICK h : Part(h, n - 1)
      BY <3>1
    <3> DEFINE g == [s \in Dom(n) |-> IF s = {} THEN base ELSE step[<<pick[s], h[s \ {pick[s]}]>>]]
    <3>3. ASSUME NEW s \in Dom(n), s # {} PROVE s \ {pick[s]} \in Dom(n - 1)
      <4>1. s \in SUBSET T /\ Cardinality(s) <= n /\ pick[s] \in s
        BY <3>3
      <4>2. /\ Cardinality(s \ {pick[s]}) = Cardinality(s) - 1
            /\ Cardinality(s \ {pick[s]}) \in Nat /\ Cardinality(s) \in Nat
        BY <1>1, <4>1, FS_RemoveElement
      <4>3. Cardinality(s \ {pick[s]}) <= n - 1
        BY <4>1, <4>2
      <4> QED
        BY <4>1, <4>3
    <3>4. ASSUME NEW s \in Dom(n) PROVE g[s] \in V
      <4>1. s # {} => pick[s] \in T /\ h[s \ {pick[s]}] \in V
        <5> HIDE DEF Dom
        <5>1. s # {} => h[s \ {pick[s]}] \in V
          BY <3>2, <3>3
        <5>2. s # {} => pick[s] \in T
          BY DEF Dom
        <5> QED
          BY <5>1, <5>2
      <4> HIDE DEF Dom
      <4> QED
        BY <4>1
    <3>5. ASSUME NEW s \in Dom(n - 1) PROVE s \in Dom(n) /\ g[s] = h[s]
      <4>1. Cardinality(s) \in Nat /\ Cardinality(s) <= n - 1 /\ s \in SUBSET T
        BY <1>1
      <4>2. s \in Dom(n)
        BY <4>1
      <4>3. h[s] = IF s = {} THEN base ELSE step[<<pick[s], h[s \ {pick[s]}]>>]
        <5> HIDE DEF Dom
        <5> QED
          BY <3>2
      <4> HIDE DEF Dom
      <4> QED
        BY <4>2, <4>3
    <3>6. Part(g, n)
      <4> HIDE DEF Dom
      <4>1. \A s \in Dom(n) : s # {} => h[s \ {pick[s]}] = g[s \ {pick[s]}]
        <5> HIDE DEF g
        <5> QED
          BY <3>3, <3>5
      <4>2. g \in [Dom(n) -> V]
        BY <3>4
      <4> QED
        BY <4>1, <4>2
    <3> HIDE DEF Part, g
    <3> QED
      BY <3>6, <1>2
  <2> QED
    BY <2>1, <2>2
<1>3. Bad = {}
  <2> HIDE DEF Part
  <2>1. Bad \in SUBSET Nat
    OBVIOUS
  <2> HIDE DEF Bad
  <2> QED
    BY <1>2, <2>1, LeastExists
<1>4. Cardinality(T) \in Nat
  BY FS_CardinalityType
<1>5. PICK g : Part(g, Cardinality(T))
  BY <1>3, <1>4
<1>6. Dom(Cardinality(T)) = SUBSET T
  BY <1>1
<1> HIDE DEF Dom
<1> QED
  BY <1>5, <1>6 DEF Folds

(* Induction on finite sets: among any of them one is smallest.              *)
LEMMA SmallestExists ==
  ASSUME NEW X, X # {}, \A s \in X : IsFiniteSet(s)
  PROVE  \E s \in X : \A t \in X : Cardinality(s) <= Cardinality(t)
<1> DEFINE sizes == {Cardinality(s) : s \in X}
<1>1. sizes \in SUBSET Nat /\ sizes # {}
  BY FS_CardinalityType
<1>2. PICK n \in sizes : \A m \in sizes : n <= m
  <2> HIDE DEF sizes
  <2> QED
    BY <1>1, LeastExists
<1> QED
  BY <1>2

(* The greatest of some of the first numbers.                                *)
LEMMA MaxOf ==
  ASSUME NEW N \in Nat, NEW s \in SUBSET (1..N), s # {} PROVE Max(s) \in s /\ \A n \in s : Max(s) >= n
<1> DEFINE r == {N - n : n \in s}
<1>1. \A n \in s : n \in Nat /\ N - n \in Nat
  OBVIOUS
<1>2. r \in SUBSET Nat /\ r # {}
  BY <1>1
<1>3. PICK m \in r : \A n \in r : m <= n
  <2> HIDE DEF r
  <2> QED
    BY <1>2, LeastExists
<1>4. N - m \in s /\ \A n \in s : N - m >= n
  <2>1. PICK k \in s : m = N - k
    BY <1>3
  <2>2. \A n \in s : m <= N - n
    BY <1>3
  <2> QED
    BY <2>1, <2>2
<1> QED
  BY <1>4 DEF Max

-----------------------------------------------------------------------------
(* Bounded heaps                                                             *)

(* A strict order that leaves nothing open.                                  *)
IsStrict(B, X) ==
  /\ \A x, y \in X : <<x, y>> \in B => <<y, x>> \notin B
  /\ \A x, y, z \in X : <<x, y>> \in B /\ <<y, z>> \in B => <<x, z>> \in B
  /\ \A x, y \in X : x # y => <<x, y>> \in B \/ <<y, x>> \in B

LEMMA StrictIsOrder == ASSUME NEW B, NEW X, IsStrict(B, X), NEW Y \in SUBSET X PROVE IsOrder(B, Y)
<1> SUFFICES ASSUME NEW x \in Y, NEW y \in Y, <<x, y>> \in B
             PROVE  <<y, x>> \notin B /\ \A z \in Y : <<x, z>> \in B \/ <<z, y>> \in B
  BY DEF IsOrder
<1>1. <<y, x>> \notin B
  BY DEF IsStrict
<1>2. ASSUME NEW z \in Y, <<x, z>> \notin B PROVE <<z, y>> \in B
  <2>1. CASE z = x
    BY <2>1
  <2>2. CASE z # x
    <3>1. <<z, x>> \in B
      BY <1>2, <2>2 DEF IsStrict
    <3> QED
      BY <3>1 DEF IsStrict
  <2> QED
    BY <2>1, <2>2
<1> QED
  BY <1>1, <1>2

(* The last of what is kept.                                                 *)
LEMMA LastIsLast ==
  ASSUME NEW B, NEW X, IsStrict(B, X), NEW K \in SUBSET X, IsFiniteSet(K), K # {}
  PROVE  LastOf(K, B) \in K /\ \A q \in K \ {LastOf(K, B)} : <<q, LastOf(K, B)>> \in B
<1> DEFINE n == Cardinality(K)
           s == SortedBy(K, B)
<1>1. /\ n \in Nat /\ s \in [1..n -> K]
      /\ \A x \in K : \E i \in 1..n : s[i] = x
      /\ \A i, j \in 1..n : i < j => <<s[j], s[i]>> \notin B
  BY StrictIsOrder, Sorting
<1> HIDE DEF s, n
<1>2. n \in 1..n /\ s[n] \in K
  <2>1. 1..n # {}
    BY <1>1
  <2> QED
    BY <1>1, <2>1
<1>3. ASSUME NEW q \in K \ {s[n]} PROVE <<q, s[n]>> \in B
  <2>1. PICK i \in 1..n : s[i] = q
    BY <1>1
  <2>2. i < n
    BY <2>1, <1>1
  <2>3. <<s[n], q>> \notin B
    BY <1>1, <1>2, <2>1, <2>2
  <2> QED
    BY <1>2, <2>3 DEF IsStrict
<1> QED
  BY <1>2, <1>3 DEF LastOf

Heaps(g, order, before) ==
  g = [s \in SUBSET DOMAIN order |->
         IF s = {} THEN {} ELSE offer(g[s \ {Max(s)}], order[Max(s)], before)]

Heap(order, before) == CHOOSE g : Heaps(g, order, before)

LEMMA TopNIsFold ==
  ASSUME NEW order, NEW before PROVE TopN(order, before) = Heap(order, before)[DOMAIN order]
BY DEF TopN, FoldLeft, MapThenFoldSet, Heap, Heaps

LEMMA OfferTyped ==
  ASSUME NEW X, NEW K \in SUBSET X, NEW x \in X, NEW B PROVE offer(K, x, B) \in SUBSET X
BY DEF offer, Offered

(* What is offered, one by one.                                              *)
Lists(N, X) == [1..N -> X]

LEMMA HeapSteps ==
  ASSUME NEW N \in Nat, NEW X, NEW order \in Lists(N, X), NEW before
  PROVE  /\ Heap(order, before)[1..0] = {}
         /\ \A k \in 1..N :
              Heap(order, before)[1..k] = offer(Heap(order, before)[1..(k-1)], order[k], before)
<1> USE DEF Lists
<1> DEFINE T == DOMAIN order
           V == SUBSET X
           step == [p \in T \X V |-> offer(p[2], order[p[1]], before)]
           pick == [s \in SUBSET T |-> Max(s)]
<1>1. T = 1..N /\ IsFiniteSet(T)
  <2>1. 1 \in Int /\ N \in Int /\ T = 1..N
    OBVIOUS
  <2> QED
    BY <2>1, FS_Interval
<1>2. step \in [T \X V -> V]
  BY OfferTyped
<1>3. \A s \in SUBSET T : s # {} => pick[s] \in s /\ pick[s] = Max(s)
  BY <1>1, MaxOf
<1>4. {} \in V
  OBVIOUS
<1>5. PICK g \in [SUBSET T -> V] : Folds(g, T, {}, step, pick)
  <2> HIDE DEF T, V, step, pick
  <2> QED
    BY <1>1, <1>2, <1>3, <1>4, FoldExists
<1>6. \A s \in SUBSET T : s # {} => step[<<pick[s], g[s \ {pick[s]}]>>] = offer(g[s \ {Max(s)}], order[Max(s)], before)
  <2> SUFFICES ASSUME NEW s \in SUBSET T, s # {}
               PROVE  step[<<pick[s], g[s \ {pick[s]}]>>] = offer(g[s \ {Max(s)}], order[Max(s)], before)
    OBVIOUS
  <2>1. pick[s] = Max(s) /\ Max(s) \in T /\ g[s \ {Max(s)}] \in V
    BY <1>3, <1>5
  <2> QED
    BY <2>1
<1>7. Heaps(g, order, before)
  <2> HIDE DEF step, pick
  <2> QED
    BY <1>5, <1>6 DEF Heaps, Folds
<1>8. Heaps(Heap(order, before), order, before)
  BY <1>7 DEF Heap
<1>9. 1..0 = {}
  OBVIOUS
<1>10. Heap(order, before)[1..0] = {}
  BY <1>8, <1>9 DEF Heaps
<1>11. ASSUME NEW k \in 1..N
       PROVE  Heap(order, before)[1..k] = offer(Heap(order, before)[1..(k-1)], order[k], before)
  <2>1. 1..k \in SUBSET T /\ 1..k # {} /\ k \in 1..k
    <3>1. k \in Nat /\ k >= 1 /\ k <= N
      OBVIOUS
    <3>2. k \in 1..k /\ \A n \in 1..k : n \in 1..N
      BY <3>1
    <3> QED
      BY <1>1, <3>2
  <2>2. Max(1..k) \in 1..k /\ \A n \in 1..k : Max(1..k) >= n
    BY <1>1, <2>1, MaxOf
  <2>3. Max(1..k) = k /\ (1..k) \ {k} = 1..(k-1)
    BY <2>1, <2>2
  <2> QED
    BY <1>8, <2>1, <2>3 DEF Heaps
<1> QED
  BY <1>10, <1>11

(* What the heap holds of the first k of what is offered.                    *)
First(order, k) == {order[i] : i \in 1..k}

Best(K, order, k, B) ==
  /\ K \in SUBSET First(order, k) /\ IsFiniteSet(K)
  /\ Cardinality(K) = IF k < Cap THEN k ELSE Cap
  /\ k <= Cap => K = First(order, k)
  /\ \A x \in K, y \in First(order, k) \ K : <<x, y>> \in B

(* Nothing is offered twice.                                                 *)
Once(order, N) == \A i, j \in 1..N : order[i] = order[j] => i = j

LEMMA OfferKeepsBest ==
  ASSUME NEW N \in Nat, NEW X, NEW order \in Lists(N, X), Once(order, N),
         NEW B, IsStrict(B, First(order, N)), NEW k \in 1..N,
         NEW K, Best(K, order, k - 1, B)
  PROVE  Best(offer(K, order[k], B), order, k, B)
<1> USE DEF Lists, Once
<1> DEFINE x == order[k]
           old == First(order, k - 1)
           all == First(order, k)
           m == LastOf(K, B)
           K2 == offer(K, x, B)
<1>1. /\ k \in Nat /\ k - 1 \in Nat /\ Cap \in Nat
      /\ 1..k \in SUBSET (1..N) /\ 1..k = (1..(k-1)) \cup {k} /\ k \notin 1..(k-1)
  BY ReportsAssumption
<1>2. all = old \cup {x} /\ x \notin old /\ all \in SUBSET First(order, N)
  <2>1. all = old \cup {x}
    BY <1>1 DEF First
  <2>2. x \notin old
    BY <1>1 DEF First
  <2>3. all \in SUBSET First(order, N)
    BY <1>1 DEF First
  <2> QED
    BY <2>1, <2>2, <2>3
<1>3. /\ K \in SUBSET old /\ IsFiniteSet(K) /\ Cardinality(K) \in Nat
      /\ Cardinality(K) = IF k - 1 < Cap THEN k - 1 ELSE Cap
      /\ k - 1 <= Cap => K = old
      /\ \A a \in K, b \in old \ K : <<a, b>> \in B
  BY FS_CardinalityType DEF Best
<1>4. /\ \A a, b \in all : <<a, b>> \in B => <<b, a>> \notin B
      /\ \A a, b, c \in all : <<a, b>> \in B /\ <<b, c>> \in B => <<a, c>> \in B
      /\ \A a, b \in all : a # b => <<a, b>> \in B \/ <<b, a>> \in B
  BY <1>2 DEF IsStrict
<1> SUFFICES /\ K2 \in SUBSET all /\ IsFiniteSet(K2)
             /\ Cardinality(K2) = IF k < Cap THEN k ELSE Cap
             /\ k <= Cap => K2 = all
             /\ \A a \in K2, b \in all \ K2 : <<a, b>> \in B
  BY DEF Best
<1> HIDE DEF old, all, x
<1>5. CASE Cardinality(K) < Cap
  <2>1. k - 1 < Cap /\ K = old /\ K2 = K \cup {x}
    BY <1>1, <1>3, <1>5 DEF offer
  <2>2. IsFiniteSet(K \cup {x}) /\ Cardinality(K \cup {x}) = Cardinality(K) + 1
    BY <1>2, <1>3, <2>1, FS_AddElement
  <2>3. Cardinality(K2) = k /\ k <= Cap
    BY <1>1, <1>3, <2>1, <2>2
  <2>4. K2 = all
    BY <1>2, <2>1
  <2>5. k = IF k < Cap THEN k ELSE Cap
    BY <1>1, <2>3
  <2> QED
    BY <2>1, <2>2, <2>3, <2>4, <2>5
<1>6. CASE Cardinality(K) = Cap
  <2>1. k - 1 >= Cap /\ ~(k <= Cap) /\ ~(k < Cap) /\ ~(Cardinality(K) < Cap)
    BY <1>1, <1>3, <1>6
  <2>2. CASE Cap = 0
    <3>1. K = {} /\ K2 = K
      BY <1>3, <1>6, <2>1, <2>2, FS_EmptySet DEF offer
    <3> QED
      BY <1>3, <1>6, <2>1, <3>1
  <2>3. CASE Cap # 0
    <3>1. K # {}
      BY <1>3, <1>6, <2>3, FS_EmptySet
    <3>2. K \in SUBSET all /\ IsStrict(B, all)
      BY <1>2, <1>3, <1>4 DEF IsStrict
    <3>3. m \in K /\ \A q \in K \ {m} : <<q, m>> \in B
      BY <1>3, <3>1, <3>2, LastIsLast
    <3> HIDE DEF m
    <3>4. K2 = IF <<x, m>> \in B THEN (K \ {m}) \cup {x} ELSE K
      BY <2>1, <2>3 DEF offer, Offered, m
    <3>5. x \in all /\ x \notin K /\ m \in all /\ m # x
      BY <1>2, <1>3, <3>2, <3>3
    <3>6. CASE <<x, m>> \in B
      <4>1. K2 = (K \ {m}) \cup {x}
        BY <3>4, <3>6
      <4>2. IsFiniteSet(K \ {m}) /\ Cardinality(K \ {m}) = Cardinality(K) - 1
        BY <1>3, <3>3, FS_RemoveElement
      <4>3. IsFiniteSet(K2) /\ Cardinality(K2) = Cardinality(K \ {m}) + 1
        <5>1. /\ IsFiniteSet((K \ {m}) \cup {x})
              /\ Cardinality((K \ {m}) \cup {x}) = IF x \in K \ {m} THEN Cardinality(K \ {m}) ELSE Cardinality(K \ {m}) + 1
          BY <4>2, FS_AddElement
        <5> QED
          BY <3>5, <4>1, <5>1
      <4>4. Cardinality(K2) = Cap
        BY <1>1, <1>6, <4>2, <4>3
      <4>5. ASSUME NEW a \in K2, NEW b \in all \ K2 PROVE <<a, b>> \in B
        <5>1. a \in all /\ (a = x \/ (a \in K /\ <<a, m>> \in B))
          BY <3>2, <3>3, <3>5, <4>1
        <5>2. <<a, m>> \in B
          BY <3>6, <5>1
        <5>3. b = m \/ b \in old \ K
          BY <1>2, <4>1
        <5>4. b \in old \ K => <<m, b>> \in B
          BY <1>3, <3>3
        <5> QED
          BY <1>4, <3>5, <5>1, <5>2, <5>3, <5>4
      <4>6. K2 \in SUBSET all
        BY <3>2, <3>5, <4>1
      <4> HIDE DEF K2
      <4> QED
        BY <2>1, <4>3, <4>4, <4>5, <4>6
    <3>7. CASE <<x, m>> \notin B
      <4>1. K2 = K /\ <<m, x>> \in B
        BY <1>4, <3>4, <3>5, <3>7
      <4>2. ASSUME NEW a \in K, NEW b \in all \ K PROVE <<a, b>> \in B
        <5>1. a \in all /\ (a = m \/ <<a, m>> \in B)
          BY <3>2, <3>3
        <5>2. b = x \/ b \in old \ K
          BY <1>2
        <5>3. <<a, x>> \in B
          BY <1>4, <3>5, <4>1, <5>1
        <5> QED
          BY <1>3, <5>2, <5>3
      <4> HIDE DEF K2
      <4> QED
        BY <1>3, <1>6, <2>1, <3>2, <4>1, <4>2
    <3> QED
      BY <3>6, <3>7
  <2> QED
    BY <2>2, <2>3
<1> QED
  BY <1>1, <1>3, <1>5, <1>6

(* Whatever comes in whatever order, the heap holds the best of it.          *)
LEMMA TopNKeepsBest ==
  ASSUME NEW N \in Nat, NEW X, NEW order \in Lists(N, X), Once(order, N),
         NEW B, IsStrict(B, First(order, N))
  PROVE  Best(TopN(order, B), order, N, B)
<1> DEFINE At(k) == Heap(order, B)[1..k]
           Bad == {k \in 0..N : ~Best(At(k), order, k, B)}
<1>1. /\ Heap(order, B)[1..0] = {}
      /\ \A k \in 1..N : Heap(order, B)[1..k] = offer(Heap(order, B)[1..(k-1)], order[k], B)
  BY HeapSteps
<1>2. Bad \in SUBSET Nat
  OBVIOUS
<1>3. ASSUME NEW k \in Bad, \A n \in Bad : k <= n PROVE FALSE
  <2>1. k \in 0..N /\ ~Best(At(k), order, k, B) /\ N \in Nat
    OBVIOUS
  <2>2. CASE k = 0
    <3>1. At(0) = {} /\ 1..0 = {}
      BY <1>1
    <3>2. IsFiniteSet({}) /\ Cardinality({}) = 0 /\ Cap \in Nat
      BY FS_EmptySet, ReportsAssumption
    <3>3. Best({}, order, 0, B)
      <4>1. First(order, 0) = {}
        BY <3>1 DEF First
      <4> QED
        BY <3>2, <4>1 DEF Best
    <3> QED
      BY <2>1, <2>2, <3>1, <3>3
  <2>3. CASE k # 0
    <3>1. k \in 1..N /\ k - 1 \in 0..N /\ ~(k <= k - 1)
      BY <2>1, <2>3
    <3>2. Best(At(k - 1), order, k - 1, B)
      <4>1. k - 1 \notin Bad
        <5> HIDE DEF Bad
        <5> QED
          BY <1>3, <3>1
      <4> HIDE DEF At
      <4> QED
        BY <3>1, <4>1
    <3>3. At(k) = offer(At(k - 1), order[k], B)
      BY <1>1, <3>1
    <3> HIDE DEF At
    <3>4. Best(At(k), order, k, B)
      BY <3>1, <3>2, <3>3, OfferKeepsBest
    <3> QED
      BY <2>1, <3>4
  <2> QED
    BY <2>2, <2>3
<1>4. Bad = {}
  <2> HIDE DEF Bad
  <2> QED
    BY <1>2, <1>3, LeastExists
<1>5. TopN(order, B) = At(N)
  <2>1. DOMAIN order = 1..N
    BY DEF Lists
  <2> QED
    BY <2>1, TopNIsFold
<1>6. N \in 0..N
  OBVIOUS
<1> HIDE DEF At
<1> QED
  BY <1>4, <1>5, <1>6

-----------------------------------------------------------------------------
(* The bytes of a set of files                                               *)

(* The element MapThenSumSet takes off first, and the function it sums by.   *)
Picked(s) == CHOOSE x \in s : TRUE

Adds(g, T) ==
  g = [s \in SUBSET T |-> IF s = {} THEN 0 ELSE allocated_bytes(Picked(s)) + g[s \ {Picked(s)}]]

Adding(T) == CHOOSE g : Adds(g, T)

LEMMA BytesAreAdded == ASSUME NEW T PROVE BytesOf(T) = Adding(T)[T]
BY DEF BytesOf, MapThenSumSet, MapThenFoldSet, Adding, Adds, Picked

LEMMA AllocatedType == ASSUME NEW p \in DOMAIN Meta PROVE allocated_bytes(p) \in Nat
<1>1. Meta[p].blocks \in Nat /\ Meta[p].len \in Nat /\ Block \in Nat
  BY FilesAssumption
<1>2. Meta[p].blocks * Block \in Nat
  BY <1>1
<1> QED
  BY <1>1, <1>2 DEF allocated_bytes

LEMMA AddingSteps ==
  ASSUME NEW T \in SUBSET DOMAIN Meta, IsFiniteSet(T)
  PROVE  Adds(Adding(T), T)
<1> DEFINE step == [p \in T \X Nat |-> allocated_bytes(p[1]) + p[2]]
           pick == [s \in SUBSET T |-> Picked(s)]
<1>1. step \in [T \X Nat -> Nat]
  <2>1. \A x \in T, n \in Nat : allocated_bytes(x) + n \in Nat
    BY AllocatedType
  <2> QED
    BY <2>1
<1>2. \A s \in SUBSET T : s # {} => pick[s] \in s /\ pick[s] = Picked(s)
  BY DEF Picked
<1>3. PICK g \in [SUBSET T -> Nat] : Folds(g, T, 0, step, pick)
  <2>1. 0 \in Nat
    OBVIOUS
  <2> HIDE DEF step, pick
  <2> QED
    BY <1>1, <1>2, <2>1, FoldExists
<1>4. \A s \in SUBSET T : s # {} =>
        step[<<pick[s], g[s \ {pick[s]}]>>] = allocated_bytes(Picked(s)) + g[s \ {Picked(s)}]
  <2> SUFFICES ASSUME NEW s \in SUBSET T, s # {}
               PROVE  step[<<pick[s], g[s \ {pick[s]}]>>] = allocated_bytes(Picked(s)) + g[s \ {Picked(s)}]
    OBVIOUS
  <2>1. pick[s] = Picked(s) /\ Picked(s) \in T /\ g[s \ {Picked(s)}] \in Nat
    BY <1>2, <1>3
  <2> QED
    BY <2>1
<1>5. Adds(g, T)
  <2> HIDE DEF step, pick
  <2> QED
    BY <1>3, <1>4 DEF Adds, Folds
<1> QED
  BY <1>5 DEF Adding

(* The sum is a number, and of equal files a product.                        *)
LEMMA BytesAre ==
  ASSUME NEW T \in SUBSET DOMAIN Meta, IsFiniteSet(T)
  PROVE  /\ BytesOf(T) \in Nat
         /\ \A w \in Nat : (\A x \in T : allocated_bytes(x) = w) => BytesOf(T) = Cardinality(T) * w
<1> DEFINE g == Adding(T)
           EachIs(s, w) == (\A x \in s : allocated_bytes(x) = w) => g[s] = Cardinality(s) * w
           Bad == {s \in SUBSET T : ~(g[s] \in Nat /\ \A w \in Nat : EachIs(s, w))}
<1>1. \A s \in SUBSET T : /\ IsFiniteSet(s) /\ Cardinality(s) \in Nat
                          /\ g[s] = IF s = {} THEN 0 ELSE allocated_bytes(Picked(s)) + g[s \ {Picked(s)}]
  BY FS_Subset, FS_CardinalityType, AddingSteps DEF Adds
<1> HIDE DEF g
<1>2. ASSUME NEW s \in Bad, \A t \in Bad : Cardinality(s) <= Cardinality(t) PROVE FALSE
  <2>1. s \in SUBSET T /\ ~(g[s] \in Nat /\ \A w \in Nat : EachIs(s, w))
    OBVIOUS
  <2>2. CASE s = {}
    <3>1. g[s] = 0 /\ Cardinality(s) = 0
      BY <1>1, <2>2, FS_EmptySet
    <3>2. \A w \in Nat : EachIs(s, w)
      BY <3>1
    <3> QED
      BY <2>1, <3>1, <3>2
  <2>3. CASE s # {}
    <3> DEFINE x == Picked(s)
               r == s \ {x}
    <3>1. x \in s /\ r \in SUBSET T /\ g[s] = allocated_bytes(x) + g[r]
      BY <1>1, <2>1, <2>3 DEF Picked
    <3>2. Cardinality(r) = Cardinality(s) - 1 /\ Cardinality(r) \in Nat /\ Cardinality(s) \in Nat
      BY <1>1, <2>1, <3>1, FS_RemoveElement
    <3>3. r \notin Bad
      <4>1. Cardinality(r) < Cardinality(s)
        BY <3>2
      <4> HIDE DEF Bad, r
      <4> QED
        BY <1>2, <3>2, <4>1
    <3>4. g[r] \in Nat /\ \A w \in Nat : EachIs(r, w)
      <4> HIDE DEF r, EachIs
      <4> QED
        BY <3>1, <3>3
    <3>5. g[s] \in Nat
      <4>1. allocated_bytes(x) \in Nat
        BY <2>1, <3>1, AllocatedType
      <4> QED
        BY <3>1, <3>4, <4>1
    <3>6. ASSUME NEW w \in Nat, \A y \in s : allocated_bytes(y) = w PROVE g[s] = Cardinality(s) * w
      <4>1. g[r] = Cardinality(r) * w /\ allocated_bytes(x) = w
        BY <3>1, <3>4, <3>6
      <4>2. g[s] = w + (Cardinality(s) - 1) * w
        BY <3>1, <3>2, <4>1
      <4>3. \A n \in Nat : w + (n - 1) * w = n * w
        OBVIOUS
      <4> QED
        BY <3>2, <4>2, <4>3
    <3> QED
      BY <2>1, <3>5, <3>6
  <2> QED
    BY <2>2, <2>3
<1>3. Bad = {}
  <2>1. \A s \in Bad : IsFiniteSet(s)
    BY <1>1
  <2> HIDE DEF Bad
  <2> QED
    BY <1>2, <2>1, SmallestExists
<1>4. g[T] \in Nat /\ \A w \in Nat : EachIs(T, w)
  <2> HIDE DEF EachIs
  <2> QED
    BY <1>3
<1> QED
  BY <1>4, BytesAreAdded DEF g

-----------------------------------------------------------------------------
(* What the reports keep                                                     *)

LEMMA OfferedOnce ==
  ASSUME NEW N \in Nat, NEW X, NEW order \in Lists(N, X), Once(order, N)
  PROVE  /\ ToSet(order) = First(order, N) /\ ToSet(order) \in SUBSET X
         /\ IsFiniteSet(ToSet(order)) /\ Cardinality(ToSet(order)) = N
<1> DEFINE S == ToSet(order)
<1>1. S = First(order, N) /\ S \in SUBSET X /\ order \in [1..N -> S]
  BY DEF ToSet, First, Lists
<1>2. \A x \in S : \E i \in 1..N : order[i] = x
  BY DEF ToSet, Lists
<1> HIDE DEF S
<1>3. order \in Surjection(1..N, S)
  BY <1>1, <1>2, Fun_IsSurj
<1>4. order \in Injection(1..N, S)
  BY <1>1, Fun_IsInj DEF Once
<1>5. IsFiniteSet(1..N) /\ Cardinality(1..N) = N
  <2>1. 1 \in Int /\ N \in Int /\ N >= 0
    OBVIOUS
  <2>2. IsFiniteSet(1..N) /\ Cardinality(1..N) = IF 1 > N THEN 0 ELSE N - 1 + 1
    BY <2>1, FS_Interval
  <2> QED
    BY <2>1, <2>2
<1>6. IsFiniteSet(S) /\ Cardinality(S) = Cardinality(1..N)
  BY <1>3, <1>4, <1>5, FS_Surjection
<1> QED
  BY <1>1, <1>5, <1>6 DEF S

(* KeepsBest with the order as a set of pairs.                               *)
KeepsFirst(kept, all, B) ==
  /\ kept \subseteq all
  /\ Cardinality(kept) = IF Cardinality(all) < Cap THEN Cardinality(all) ELSE Cap
  /\ \A k \in kept, l \in all \ kept : <<l, k>> \notin B

LEMMA HeapKeepsFirst ==
  ASSUME NEW N \in Nat, NEW X, NEW order \in Lists(N, X), Once(order, N),
         NEW B, IsStrict(B, ToSet(order))
  PROVE  KeepsFirst(TopN(order, B), ToSet(order), B)
<1>1. ToSet(order) = First(order, N) /\ Cardinality(ToSet(order)) = N
  BY OfferedOnce
<1>2. Best(TopN(order, B), order, N, B)
  BY <1>1, TopNKeepsBest
<1> DEFINE K == TopN(order, B)
           S == ToSet(order)
<1>3. K \in SUBSET S /\ Cardinality(K) = IF N < Cap THEN N ELSE Cap
  BY <1>1, <1>2 DEF Best
<1>4. \A x \in K, y \in S \ K : <<x, y>> \in B
  BY <1>1, <1>2 DEF Best
<1>5. \A x \in K, y \in S \ K : <<y, x>> \notin B
  <2> HIDE DEF K, S
  <2> QED
    BY <1>3, <1>4 DEF IsStrict, S
<1> QED
  BY <1>1, <1>3, <1>5 DEF KeepsFirst

LEMMA OrdersAre ==
  ASSUME NEW all, NEW order \in Orders(all)
  PROVE  Cap + 1 \in Nat /\ order \in Lists(Cap + 1, all) /\ Once(order, Cap + 1)
<1>1. PICK S \in kSubset(Cap + 1, all) : order \in SetToSeqs(S)
  BY DEF Orders
<1>2. S \in SUBSET all /\ Cardinality(S) = Cap + 1
  BY DEF kSubset
<1>3. order \in [1..(Cap + 1) -> S] /\ \A i, j \in 1..(Cap + 1) : i # j => order[i] # order[j]
  BY <1>1, <1>2 DEF SetToSeqs
<1>4. order \in [1..(Cap + 1) -> all]
  BY <1>2, <1>3
<1>5. Cap + 1 \in Nat
  BY ReportsAssumption
<1> QED
  BY <1>3, <1>4, <1>5 DEF Lists, Once

LEMMA TakesFirst ==
  ASSUME NEW rows, IsFiniteSet(rows), NEW B, IsOrder(B, rows)
  PROVE  KeepsFirst(take_top(SortedBy(rows, B)), rows, B)
<1> DEFINE n == Cardinality(rows)
           s == SortedBy(rows, B)
           m == IF n < Cap THEN n ELSE Cap
           t == SubSeq(s, 1, m)
<1>1. /\ n \in Nat /\ s \in [1..n -> rows]
      /\ \A i, j \in 1..n : s[i] = s[j] => i = j
      /\ \A x \in rows : \E i \in 1..n : s[i] = x
      /\ \A i, j \in 1..n : i < j => <<s[j], s[i]>> \notin B
  BY Sorting
<1> HIDE DEF s, n
<1>2. s \in Seq(rows) /\ Len(s) = n /\ Cap \in Nat
  BY <1>1, ReportsAssumption
<1>3. m \in Nat /\ m <= n /\ \A i \in 1..m : i \in 1..n
  BY <1>1, <1>2
<1>4. take_top(s) = ToSet(t)
  BY <1>2 DEF take_top
<1> HIDE DEF m
<1>5. t \in [1..m -> rows] /\ \A i \in 1..m : t[i] = s[i]
  <2>1. \A i \in 1..m : s[i] \in rows
    BY <1>1, <1>3
  <2>2. /\ t \in Seq(rows) /\ Len(t) = IF 1 <= m THEN m - 1 + 1 ELSE 0
        /\ \A i \in 1..(m - 1 + 1) : t[i] = s[1 + i - 1]
    <3>1. 1 \in Int /\ m \in Int
      BY <1>3
    <3> QED
      BY <2>1, <3>1, SubSeqProperties
  <2>3. m - 1 + 1 = m /\ \A i \in 1..m : 1 + i - 1 = i
    BY <1>3
  <2>4. Len(t) = m /\ \A i \in 1..m : t[i] = s[i]
    BY <1>3, <2>2, <2>3
  <2> HIDE DEF t
  <2> QED
    BY <2>2, <2>4
<1> HIDE DEF t
<1>6. t \in Lists(m, rows) /\ Once(t, m)
  BY <1>1, <1>3, <1>5 DEF Lists, Once
<1>7. ToSet(t) \in SUBSET rows /\ Cardinality(ToSet(t)) = m /\ ToSet(t) = First(t, m)
  BY <1>3, <1>6, OfferedOnce
<1>8. ASSUME NEW k \in ToSet(t), NEW l \in rows \ ToSet(t) PROVE <<l, k>> \notin B
  <2>1. PICK i \in 1..m : k = s[i]
    BY <1>5, <1>7 DEF First
  <2>2. PICK j \in 1..n : l = s[j]
    BY <1>1
  <2>3. j \notin 1..m
    BY <1>5, <1>7, <2>2 DEF First
  <2>4. i \in 1..n /\ i < j
    BY <1>1, <1>3, <2>1, <2>2, <2>3
  <2> QED
    BY <1>1, <2>1, <2>2, <2>4
<1> QED
  BY <1>4, <1>7, <1>8 DEF KeepsFirst, m, n, s

LEMMA PathsAreRanked ==
  /\ \A p \in DOMAIN Meta : p \in DOMAIN Alpha
  /\ \A p \in DOMAIN Meta : p \in Seq(STRING) /\ Len(p) \in Nat
<1> SUFFICES ASSUME NEW p \in DOMAIN Meta PROVE p \in DOMAIN Alpha /\ p \in Seq(STRING) /\ Len(p) \in Nat
  OBVIOUS
<1>1. p \in Seq(STRING) /\ p # <<>>
  BY FilesAssumption
<1>2. Len(p) \in 1..Len(p) /\ SubSeq(p, 1, Len(p)) = p
  BY <1>1
<1>3. \A n \in 1..Len(p) : SubSeq(p, 1, n) \in DOMAIN Alpha
  BY ReportsAssumption
<1>4. SubSeq(p, 1, Len(p)) \in DOMAIN Alpha
  BY <1>2, <1>3
<1>5. p \in DOMAIN Alpha
  BY <1>2, <1>4
<1> QED
  BY <1>1, <1>5

LEMMA LargerIsStrict ==
  ASSUME NEW X \in SUBSET DOMAIN Meta PROVE IsStrict(LargerOf(X), X)
<1>1. \A p \in X : allocated_bytes(p) \in Nat /\ Alpha[p] \in Nat
  BY AllocatedType, PathsAreRanked, ReportsAssumption
<1>2. \A p, q \in X : Alpha[p] = Alpha[q] => p = q
  BY PathsAreRanked, ReportsAssumption
<1>3. \A p, q \in X : <<p, q>> \in LargerOf(X) <=>
        \/ allocated_bytes(p) > allocated_bytes(q)
        \/ allocated_bytes(p) = allocated_bytes(q) /\ Alpha[p] < Alpha[q]
  BY DEF LargerOf, Larger
<1>4. \A x, y \in X : <<x, y>> \in LargerOf(X) => <<y, x>> \notin LargerOf(X)
  BY <1>1, <1>3
<1>5. \A x, y, z \in X : <<x, y>> \in LargerOf(X) /\ <<y, z>> \in LargerOf(X) => <<x, z>> \in LargerOf(X)
  BY <1>1, <1>3
<1>6. \A x, y \in X : x # y => <<x, y>> \in LargerOf(X) \/ <<y, x>> \in LargerOf(X)
  BY <1>1, <1>2, <1>3
<1> QED
  BY <1>4, <1>5, <1>6 DEF IsStrict

LEMMA BiggerIsStrict ==
  ASSUME NEW places \in SUBSET DOMAIN Meta, IsFiniteSet(places), NEW X \in SUBSET DOMAIN Alpha
  PROVE  IsStrict(BiggerOf(places, X), X)
<1> DEFINE b(x) == BytesOf(FilesBelow(places, x))
           c(x) == Cardinality(FilesBelow(places, x))
<1>1. \A x \in X : b(x) \in Nat /\ c(x) \in Nat /\ Alpha[x] \in Nat
  <2> SUFFICES ASSUME NEW x \in X PROVE b(x) \in Nat /\ c(x) \in Nat /\ Alpha[x] \in Nat
    OBVIOUS
  <2>1. FilesBelow(places, x) \in SUBSET places
    BY DEF FilesBelow
  <2>2. IsFiniteSet(FilesBelow(places, x)) /\ FilesBelow(places, x) \in SUBSET DOMAIN Meta
    BY <2>1, FS_Subset
  <2> QED
    BY <2>2, BytesAre, FS_CardinalityType, ReportsAssumption
<1>2. \A x, y \in X : Alpha[x] = Alpha[y] => x = y
  BY ReportsAssumption
<1>3. \A x, y \in X : <<x, y>> \in BiggerOf(places, X) <=>
        \/ b(x) > b(y)
        \/ b(x) = b(y) /\ c(x) > c(y)
        \/ b(x) = b(y) /\ c(x) = c(y) /\ Alpha[x] > Alpha[y]
  BY DEF BiggerOf, Bigger
<1> HIDE DEF b, c
<1>4. \A x, y \in X : <<x, y>> \in BiggerOf(places, X) => <<y, x>> \notin BiggerOf(places, X)
  BY <1>1, <1>3
<1>5. \A x, y, z \in X : <<x, y>> \in BiggerOf(places, X) /\ <<y, z>> \in BiggerOf(places, X) =>
        <<x, z>> \in BiggerOf(places, X)
  BY <1>1, <1>3
<1>6. \A x, y \in X : x # y => <<x, y>> \in BiggerOf(places, X) \/ <<y, x>> \in BiggerOf(places, X)
  BY <1>1, <1>2, <1>3
<1> QED
  BY <1>4, <1>5, <1>6 DEF IsStrict

LEMMA MemoryIsOrder ==
  ASSUME NEW rows \in SUBSET Procs PROVE IsOrder({p \in rows \X rows : MoreMemory(p[1], p[2])}, rows)
<1> DEFINE B == {p \in rows \X rows : MoreMemory(p[1], p[2])}
<1>1. \A x, y \in rows : <<x, y>> \in B <=> (x.memory > y.memory \/ (x.memory = y.memory /\ x.pid < y.pid))
  BY DEF MoreMemory
<1>2. \A x \in rows : x.memory \in Nat /\ x.pid \in Nat
  BY MachineAssumption
<1> HIDE DEF B
<1>3. IsOrder(B, rows)
  BY <1>1, <1>2 DEF IsOrder
<1> QED
  BY <1>3 DEF B

LEMMA CpuIsOrder ==
  ASSUME NEW rows \in SUBSET Procs PROVE IsOrder({p \in rows \X rows : Busier(p[1], p[2])}, rows)
<1> DEFINE B == {p \in rows \X rows : Busier(p[1], p[2])}
           none(x) == x.cpu = NaN
<1>1. \A x, y \in rows : <<x, y>> \in B <=>
        \/ none(y) /\ ~none(x)
        \/ none(x) /\ none(y) /\ x.pid < y.pid
        \/ ~none(x) /\ ~none(y) /\ (x.cpu > y.cpu \/ (x.cpu = y.cpu /\ x.pid < y.pid))
  BY DEF Busier
<1>2. \A x \in rows : x.pid \in Nat /\ (~none(x) => x.cpu \in Nat)
  BY MachineAssumption
<1> HIDE DEF B, none
<1>3. IsOrder(B, rows)
  BY <1>1, <1>2 DEF IsOrder
<1> QED
  BY <1>3 DEF B

(* A bucket is cut to the first Cap of it, by the order of their names.      *)
LEMMA BucketIsCut ==
  ASSUME NEW S \in SUBSET DOMAIN Alpha, IsFiniteSet(S)
  PROVE  IsFiniteSet(cap_bucket(S)) /\ Cardinality(cap_bucket(S)) <= Cap
<1> DEFINE before(p) == {q \in S : Alpha[q] < Alpha[p]}
           K == cap_bucket(S)
           rank == [p \in K |-> Cardinality(before(p))]
<1>1. \A p \in S : Alpha[p] \in Nat /\ \A q \in S : Alpha[p] = Alpha[q] => p = q
  BY ReportsAssumption
<1>2. \A p \in S : IsFiniteSet(before(p)) /\ Cardinality(before(p)) \in Nat
  <2> SUFFICES ASSUME NEW p \in S PROVE IsFiniteSet(before(p)) /\ Cardinality(before(p)) \in Nat
    OBVIOUS
  <2>1. before(p) \in SUBSET S
    OBVIOUS
  <2> QED
    BY <2>1, FS_Subset, FS_CardinalityType
<1>3. ASSUME NEW p \in S, NEW q \in S, Alpha[p] < Alpha[q]
      PROVE  Cardinality(before(p)) < Cardinality(before(q))
  <2>1. p \in before(q) /\ before(p) \in SUBSET (before(q) \ {p})
    BY <1>1, <1>3
  <2>2. IsFiniteSet(before(q) \ {p}) /\ Cardinality(before(q) \ {p}) < Cardinality(before(q))
    BY <1>2, <2>1, SmallerWithout
  <2>3. Cardinality(before(p)) <= Cardinality(before(q) \ {p}) /\ Cardinality(before(q) \ {p}) \in Nat
    BY <2>1, <2>2, FS_Subset, FS_CardinalityType
  <2>4. Cardinality(before(p)) \in Nat /\ Cardinality(before(q)) \in Nat
    BY <1>2
  <2> QED
    BY <2>2, <2>3, <2>4
<1>4. Cap \in Nat /\ \A p \in K : p \in S /\ Cardinality(before(p)) < Cap
  BY ReportsAssumption DEF cap_bucket
<1> HIDE DEF before, K
<1>5. rank \in [K -> 0..(Cap - 1)]
  <2>1. \A p \in K : Cardinality(before(p)) \in 0..(Cap - 1)
    BY <1>2, <1>4
  <2> QED
    BY <2>1
<1>6. ASSUME NEW p \in K, NEW q \in K, rank[p] = rank[q] PROVE p = q
  <2>1. /\ Cardinality(before(p)) = Cardinality(before(q))
        /\ Cardinality(before(p)) \in Nat /\ p \in S /\ q \in S
        /\ Alpha[p] \in Nat /\ Alpha[q] \in Nat
    BY <1>1, <1>2, <1>4, <1>6
  <2>2. ~(Alpha[p] < Alpha[q]) /\ ~(Alpha[q] < Alpha[p])
    BY <1>3, <2>1
  <2>3. Alpha[p] = Alpha[q]
    BY <2>1, <2>2
  <2> QED
    BY <1>1, <2>1, <2>3
<1>7. rank \in Injection(K, 0..(Cap - 1))
  <2> HIDE DEF rank
  <2> QED
    BY <1>5, <1>6, Fun_IsInj
<1>8. IsFiniteSet(0..(Cap - 1)) /\ Cardinality(0..(Cap - 1)) = Cap
  <2>1. 0 \in Int /\ Cap - 1 \in Int /\ Cap >= 0
    BY <1>4
  <2>2. IsFiniteSet(0..(Cap - 1)) /\ Cardinality(0..(Cap - 1)) = IF 0 > Cap - 1 THEN 0 ELSE Cap - 1 - 0 + 1
    BY <2>1, FS_Interval
  <2> QED
    BY <1>4, <2>1, <2>2
<1>9. IsFiniteSet(K) /\ Cardinality(K) <= Cap
  BY <1>7, <1>8, FS_Injection
<1> QED
  BY <1>9 DEF K

(* One name of each inode is a candidate.                                    *)
NameOf(S, inode) == CHOOSE q \in S : Meta[q].inode = inode

LEMMA CandidatesAre ==
  ASSUME NEW places, NEW o, NEW top
  PROVE  /\ collect_candidates(places, o, top) \in SUBSET places
         /\ o # "windows" => \A p \in collect_candidates(places, o, top) :
                               p = NameOf(Sized(places, top), Meta[p].inode)
BY DEF collect_candidates, NameOf, Sized, Visited, FilesBelow

(* What is left of a size after the first pass is one bucket, cut.           *)
LEMMA SizedAreCut ==
  ASSUME NEW all, NEW p
  PROVE  {q \in size_candidates(all) : SameSize(p, q)} \in SUBSET cap_bucket({q \in all : SameSize(p, q)})
<1> DEFINE bucket(x) == {q \in all : SameSize(x, q)}
<1>1. ASSUME NEW q \in size_candidates(all), SameSize(p, q)
      PROVE  q \in cap_bucket(bucket(p))
  <2>1. PICK x \in all : q \in cap_bucket(bucket(x))
    BY DEF size_candidates
  <2>2. q \in bucket(x)
    BY <2>1 DEF cap_bucket
  <2>3. SameSize(x, q)
    BY <2>2
  <2>4. bucket(x) = bucket(p)
    BY <1>1, <2>3 DEF SameSize
  <2> QED
    BY <2>1, <2>4
<1> QED
  BY <1>1

LEMMA SizedAreCandidates ==
  ASSUME NEW all PROVE size_candidates(all) \in SUBSET all
BY DEF size_candidates, cap_bucket

(* A group of duplicates: at most Cap files of a size, no two of them names  *)
(* of one inode; and of one size, all but any of them is what it wastes.     *)
LEMMA GroupsAreDuplicates ==
  ASSUME NEW places \in SUBSET DOMAIN Meta, IsFiniteSet(places), NEW o, NEW top,
         NEW g \in duplicate_groups(places, o, top)
  PROVE  /\ \A p \in g : Cardinality({q \in g : SameSize(p, q)}) <= Cap
         /\ o # "windows" => Cardinality({Meta[p].inode : p \in g}) = Cardinality(g)
         /\ (\A p, q \in g : SameSize(p, q)) => \A p \in g : BytesOf(g \ {p}) = Wasted(g)
<1> DEFINE all == collect_candidates(places, o, top)
           sized == size_candidates(all)
<1>1. Cardinality(g) >= 2 /\ g \in SUBSET sized
  <2>1. g \in SUBSET candidates_for_full(sized) /\ Cardinality(g) >= 2
    BY DEF duplicate_groups, full_groups
  <2> QED
    BY <2>1 DEF candidates_for_full
<1>2. o # "windows" => \A p \in all : p = NameOf(Sized(places, top), Meta[p].inode)
  BY CandidatesAre
<1>3. all \in SUBSET places /\ g \in SUBSET all
  BY <1>1, CandidatesAre, SizedAreCandidates
<1> HIDE DEF all
<1>4. IsFiniteSet(all) /\ IsFiniteSet(g) /\ Cardinality(g) \in Nat
  BY <1>3, FS_Subset, FS_CardinalityType
<1>5. ASSUME NEW p \in g PROVE Cardinality({q \in g : SameSize(p, q)}) <= Cap
  <2> DEFINE bucket == {q \in all : SameSize(p, q)}
             same   == {q \in g : SameSize(p, q)}
  <2>1. same \in SUBSET {q \in sized : SameSize(p, q)}
    BY <1>1
  <2>2. same \in SUBSET cap_bucket(bucket)
    BY <2>1, SizedAreCut DEF all
  <2>3. bucket \in SUBSET all /\ bucket \in SUBSET DOMAIN Alpha /\ IsFiniteSet(bucket)
    <3>1. bucket \in SUBSET all
      OBVIOUS
    <3> HIDE DEF bucket
    <3>2. bucket \in SUBSET DOMAIN Meta
      BY <1>3, <3>1
    <3> QED
      BY <1>4, <3>1, <3>2, FS_Subset, PathsAreRanked
  <2> HIDE DEF bucket, same
  <2>4. IsFiniteSet(cap_bucket(bucket)) /\ Cardinality(cap_bucket(bucket)) <= Cap
    BY <2>3, BucketIsCut
  <2>5. /\ Cardinality(same) <= Cardinality(cap_bucket(bucket))
        /\ Cardinality(same) \in Nat /\ Cardinality(cap_bucket(bucket)) \in Nat
    BY <2>2, <2>4, FS_Subset, FS_CardinalityType
  <2>6. Cardinality(same) <= Cap
    BY <2>4, <2>5, ReportsAssumption
  <2> QED
    BY <2>6 DEF same
<1>6. ASSUME o # "windows" PROVE Cardinality({Meta[p].inode : p \in g}) = Cardinality(g)
  <2> DEFINE I == {Meta[p].inode : p \in g}
             f == [p \in g |-> Meta[p].inode]
  <2>1. \A p \in g : p = NameOf(Sized(places, top), Meta[p].inode)
    BY <1>2, <1>3, <1>6
  <2>2. f \in [g -> I] /\ (\A i \in I : \E p \in g : f[p] = i) /\ \A p \in g : f[p] = Meta[p].inode
    OBVIOUS
  <2> HIDE DEF I, f
  <2>3. \A p, q \in g : f[p] = f[q] => p = q
    BY <2>1, <2>2
  <2>4. f \in Surjection(g, I) /\ f \in Injection(g, I)
    BY <2>2, <2>3, Fun_IsSurj, Fun_IsInj
  <2>5. Cardinality(I) = Cardinality(g)
    BY <1>4, <2>4, FS_Surjection
  <2> QED
    BY <2>5 DEF I
<1>7. ASSUME \A p, q \in g : SameSize(p, q), NEW p \in g PROVE BytesOf(g \ {p}) = Wasted(g)
  <2> DEFINE w == allocated_bytes(p)
             first == CHOOSE x \in g : \A y \in g : Alpha[x] <= Alpha[y]
  <2>1. first \in g
    <3>1. g \in SUBSET DOMAIN Alpha
      BY <1>3, PathsAreRanked
    <3>2. {Alpha[x] : x \in g} \in SUBSET Nat /\ {Alpha[x] : x \in g} # {}
      BY <3>1, ReportsAssumption
    <3>3. \E n \in {Alpha[x] : x \in g} : \A m \in {Alpha[x] : x \in g} : n <= m
      BY <3>2, LeastExists
    <3> QED
      BY <3>3
  <2>2. bytes_each(g) = w
    BY <1>7, <2>1 DEF bytes_each, SameSize
  <2> HIDE DEF first
  <2>3. g \ {p} \in SUBSET DOMAIN Meta /\ IsFiniteSet(g \ {p}) /\ Cardinality(g \ {p}) = Cardinality(g) - 1
    BY <1>3, <1>4, FS_RemoveElement
  <2>4. w \in Nat /\ \A x \in g \ {p} : allocated_bytes(x) = w
    <3>1. p \in DOMAIN Meta
      BY <1>3
    <3> QED
      BY <1>7, <3>1, AllocatedType DEF SameSize
  <2> HIDE DEF w
  <2>5. BytesOf(g \ {p}) = Cardinality(g \ {p}) * w
    BY <2>3, <2>4, BytesAre
  <2> QED
    BY <2>2, <2>3, <2>5 DEF Wasted
<1> QED
  BY <1>5, <1>6, <1>7

LEMMA FoldersAreRanked ==
  ASSUME NEW places \in SUBSET DOMAIN Meta PROVE Folders(places, home) \in SUBSET DOMAIN Alpha
<1> SUFFICES ASSUME NEW f \in Folders(places, home) PROVE f \in DOMAIN Alpha
  OBVIOUS
<1> DEFINE Within(p) == {SubSeq(p, 1, n) : n \in (Len(home) + 1)..(Len(p) - 1)}
           All == {Within(p) : p \in FilesBelow(places, home)}
<1>1. PICK S \in All : f \in S
  BY DEF Folders
<1> HIDE DEF Within
<1>2. PICK p \in FilesBelow(places, home) : f \in Within(p)
  BY <1>1
<1>3. PICK n \in (Len(home) + 1)..(Len(p) - 1) : f = SubSeq(p, 1, n)
  BY <1>2 DEF Within
<1>4. p \in DOMAIN Meta /\ Len(p) \in Nat /\ Len(home) \in Nat
  <2>1. p \in DOMAIN Meta
    BY DEF FilesBelow
  <2>2. home \in Seq(STRING)
    BY SafetyAssumption
  <2> QED
    BY <2>1, <2>2, PathsAreRanked
<1>5. n \in 1..Len(p)
  BY <1>4
<1>6. \A m \in 1..Len(p) : SubSeq(p, 1, m) \in DOMAIN Alpha
  BY <1>4, ReportsAssumption
<1> QED
  BY <1>3, <1>5, <1>6

(* What is left out of a list is no larger than what is in it, and a group   *)
(* of duplicates of one size wastes what it says (largeold/pipeline.rs:127,  *)
(* treemap/tree.rs:134, activity/sample.rs:105, dupes/pipeline.rs:227).      *)
THEOREM TheLargestAreKept == MachineSpec => []ListsKeepTheLargest
<1>1. MachineInv => ListsKeepTheLargest
  <2> SUFFICES ASSUME MachineInv PROVE ListsKeepTheLargest
    OBVIOUS
  <2>1. /\ os \in Os /\ IsFiniteSet(disk) /\ disk \in SUBSET DOMAIN Meta
        /\ IsFiniteSet(procs) /\ procs \in SUBSET Procs
    BY MachineAssumption DEF MachineInv, MachineTypeOK
  <2>2. Cap + 1 \in Nat
    BY ReportsAssumption
  <2>3. ASSUME NEW order \in Orders(Matched(disk, home, Now))
        PROVE  KeepsFirst(large_old_rows(order), ToSet(order), LargerOf(ToSet(order)))
    <3>1. order \in Lists(Cap + 1, Matched(disk, home, Now)) /\ Once(order, Cap + 1)
      BY OrdersAre
    <3>2. Matched(disk, home, Now) \in SUBSET DOMAIN Meta
      BY <2>1 DEF Matched, Sized, Visited, FilesBelow
    <3>3. ToSet(order) \in SUBSET DOMAIN Meta
      BY <2>2, <3>1, <3>2, OfferedOnce
    <3>4. IsStrict(LargerOf(ToSet(order)), ToSet(order))
      BY <3>3, LargerIsStrict
    <3> QED
      BY <2>2, <3>1, <3>4, HeapKeepsFirst DEF large_old_rows
  <2>4. ASSUME NEW order \in Orders(Forks)
        PROVE  KeepsFirst(biggest_folders(disk, order), ToSet(order), BiggerOf(disk, ToSet(order)))
    <3>1. order \in Lists(Cap + 1, Forks) /\ Once(order, Cap + 1)
      BY OrdersAre
    <3>2. Forks \in SUBSET DOMAIN Alpha
      BY <2>1, FoldersAreRanked DEF Forks
    <3>3. ToSet(order) \in SUBSET DOMAIN Alpha
      BY <2>2, <3>1, <3>2, OfferedOnce
    <3>4. IsStrict(BiggerOf(disk, ToSet(order)), ToSet(order))
      BY <2>1, <3>3, BiggerIsStrict
    <3> QED
      BY <2>2, <3>1, <3>4, HeapKeepsFirst DEF biggest_folders
  <2>5. KeepsFirst(take_top(sort_by_memory(procs)), procs, {p \in procs \X procs : MoreMemory(p[1], p[2])})
    BY <2>1, MemoryIsOrder, TakesFirst DEF sort_by_memory
  <2>6. KeepsFirst(take_top(sort_by_cpu(procs)), procs, {p \in procs \X procs : Busier(p[1], p[2])})
    BY <2>1, CpuIsOrder, TakesFirst DEF sort_by_cpu
  <2>7. \A order \in Orders(Matched(disk, home, Now)) :
          KeepsBest(large_old_rows(order), ToSet(order), LAMBDA k, l : Larger(l, k))
    BY <2>3 DEF KeepsFirst, KeepsBest, LargerOf
  <2>8. \A order \in Orders(Forks) :
          KeepsBest(biggest_folders(disk, order), ToSet(order), LAMBDA k, l : Bigger(disk, l, k))
    BY <2>4 DEF KeepsFirst, KeepsBest, BiggerOf
  <2>9. KeepsBest(take_top(sort_by_memory(procs)), procs, LAMBDA k, l : l.memory > k.memory)
    BY <2>5 DEF KeepsFirst, KeepsBest, MoreMemory
  <2>10. KeepsBest(take_top(sort_by_cpu(procs)), procs,
                   LAMBDA k, l : l.cpu # NaN /\ (k.cpu = NaN \/ l.cpu > k.cpu))
    BY <2>6 DEF KeepsFirst, KeepsBest, Busier
  <2>11. \A g \in duplicate_groups(disk, os, home) : DuplicatesAddUp(g)
    BY <2>1, GroupsAreDuplicates DEF DuplicatesAddUp
  <2> QED
    BY <2>7, <2>8, <2>9, <2>10, <2>11 DEF ListsKeepTheLargest
<1> QED
  BY <1>1, MachineInvariance, PTL

-----------------------------------------------------------------------------
(* The treemap                                                               *)

(* Fractions: in lowest terms, so that equal ones are the same, they add,    *)
(* multiply and divide as numbers do.                                        *)

(* g divides a and b, and is made of multiples of them.                      *)
IsGcd(g, a, b) ==
  /\ \E x, y \in Nat : a = g * x /\ b = g * y
  /\ \E u, v \in Int : g = a * u + b * v

LEMMA Multiples == \A g, h \in Nat, k, l \in Int : g = h * k /\ h = g * l => g = h
<1> SUFFICES ASSUME NEW g \in Nat, NEW h \in Nat, NEW k \in Int, NEW l \in Int, g = h * k, h = g * l, g # h PROVE FALSE
  OBVIOUS
<1>1. g > 0 /\ h > 0
  OBVIOUS
<1>2. k >= 1 /\ l >= 1
  BY <1>1
<1>3. h * k >= h /\ g * l >= g
  BY <1>1, <1>2
<1> QED
  BY <1>3

LEMMA GcdIsOne ==
  ASSUME NEW a \in Nat, NEW b \in Nat, NEW g \in Nat, NEW h \in Nat, IsGcd(g, a, b), IsGcd(h, a, b)
  PROVE  g = h
<1>1. ASSUME NEW i \in Nat, NEW j \in Nat, IsGcd(i, a, b), IsGcd(j, a, b) PROVE \E k \in Int : i = j * k
  <2>1. PICK u \in Int, v \in Int : i = a * u + b * v
    BY <1>1 DEF IsGcd
  <2>2. PICK x \in Nat, y \in Nat : a = j * x /\ b = j * y
    BY <1>1 DEF IsGcd
  <2>3. i = j * (x * u + y * v)
    BY <2>1, <2>2
  <2>4. x * u + y * v \in Int
    OBVIOUS
  <2> QED
    BY <2>3, <2>4
<1> QED
  BY <1>1, Multiples

LEMMA GcdSteps ==
  ASSUME NEW a \in Nat, NEW b \in Nat
  PROVE  /\ b = 0 => IsGcd(a, a, b)
         /\ b # 0 => a % b \in 0..(b - 1) /\ \A g \in Nat : IsGcd(g, b, a % b) => IsGcd(g, a, b)
<1>1. CASE b = 0
  <2>1. a = a * 1 /\ b = a * 0 /\ a = a * 1 + b * 0
    BY <1>1
  <2> QED
    BY <1>1, <2>1 DEF IsGcd
<1>2. CASE b # 0
  <2>1. PICK q \in Nat, r \in 0..(b-1) : a = b * q + r /\ r = a % b
    <3>1. a \div b \in Nat /\ a % b \in 0..(b-1) /\ a = b * (a \div b) + (a % b)
      BY <1>2
    <3> QED
      BY <3>1
  <2>2. ASSUME NEW g \in Nat, IsGcd(g, b, r) PROVE IsGcd(g, a, b)
    <3>1. PICK x \in Nat, y \in Nat : b = g * x /\ r = g * y
      BY <2>2 DEF IsGcd
    <3>2. PICK u \in Int, v \in Int : g = b * u + r * v
      BY <2>2 DEF IsGcd
    <3>3. a = g * (x * q + y) /\ x * q + y \in Nat
      <4>1. \A i, j, k, l \in Nat : (i * j) * k + i * l = i * (j * k + l) /\ j * k + l \in Nat
        OBVIOUS
      <4>2. a = (g * x) * q + g * y /\ q \in Nat
        BY <2>1, <3>1
      <4> QED
        BY <3>1, <4>1, <4>2
    <3>4. g = a * v + b * (u - q * v) /\ u - q * v \in Int
      <4>1. r = a - b * q
        BY <2>1
      <4>2. g = b * u + (a - b * q) * v
        BY <3>2, <4>1
      <4> QED
        BY <4>2
    <3> QED
      BY <3>1, <3>3, <3>4 DEF IsGcd
  <2> QED
    BY <1>2, <2>1, <2>2
<1> QED
  BY <1>1, <1>2

LEMMA GcdExists == \A a, b \in Nat : \E g \in Nat : IsGcd(g, a, b)
<1> DEFINE Bad == {b \in Nat : \E a \in Nat : \A g \in Nat : ~IsGcd(g, a, b)}
<1>1. ASSUME NEW b \in Bad, \A c \in Bad : b <= c PROVE FALSE
  <2>1. PICK a \in Nat : \A g \in Nat : ~IsGcd(g, a, b)
    OBVIOUS
  <2>2. b # 0 /\ a % b \in 0..(b-1)
    BY <2>1, GcdSteps
  <2>3. \A g \in Nat : ~IsGcd(g, b, a % b)
    BY <2>1, <2>2, GcdSteps
  <2>4. a % b \in Bad /\ b \in Nat
    BY <2>2, <2>3
  <2> HIDE DEF Bad
  <2> QED
    BY <2>2, <2>4, <1>1
<1>2. Bad \in SUBSET Nat
  OBVIOUS
<1>3. Bad = {}
  <2> HIDE DEF Bad
  <2> QED
    BY <1>1, <1>2, LeastExists
<1> QED
  BY <1>3

(* Euclid's algorithm ends and finds it.                                     *)
LEMMA GcdIs == ASSUME NEW a \in Nat, NEW b \in Nat PROVE gcd[<<a, b>>] \in Nat /\ IsGcd(gcd[<<a, b>>], a, b)
<1> DEFINE g == [p \in Nat \X Nat |-> CHOOSE k \in Nat : IsGcd(k, p[1], p[2])]
<1>1. \A m, n \in Nat : g[<<m, n>>] \in Nat /\ IsGcd(g[<<m, n>>], m, n)
  BY GcdExists
<1>2. \A m, n \in Nat : g[<<m, n>>] = IF n = 0 THEN m ELSE g[<<n, m % n>>]
  <2> SUFFICES ASSUME NEW m \in Nat, NEW n \in Nat PROVE g[<<m, n>>] = IF n = 0 THEN m ELSE g[<<n, m % n>>]
    OBVIOUS
  <2> HIDE DEF g
  <2>1. CASE n = 0
    <3>1. IsGcd(m, m, n)
      BY <2>1, GcdSteps
    <3> QED
      BY <2>1, <3>1, <1>1, GcdIsOne
  <2>2. CASE n # 0
    <3>1. m % n \in Nat
      BY <2>2
    <3>2. IsGcd(g[<<n, m % n>>], m, n) /\ g[<<n, m % n>>] \in Nat
      BY <2>2, <3>1, <1>1, GcdSteps
    <3> QED
      BY <2>2, <3>2, <1>1, GcdIsOne
  <2> QED
    BY <2>1, <2>2
<1>3. g = [p \in Nat \X Nat |-> IF p[2] = 0 THEN p[1] ELSE g[<<p[2], p[1] % p[2]>>]]
  <2>1. \A p \in Nat \X Nat : g[p] = IF p[2] = 0 THEN p[1] ELSE g[<<p[2], p[1] % p[2]>>]
    <3> HIDE DEF g
    <3> QED
      BY <1>2
  <2> QED
    BY <2>1
<1> HIDE DEF g
<1>4. gcd = [p \in Nat \X Nat |-> IF p[2] = 0 THEN p[1] ELSE gcd[<<p[2], p[1] % p[2]>>]]
  BY <1>3 DEF gcd
<1>5. \A m, n \in Nat : gcd[<<m, n>>] = IF n = 0 THEN m ELSE gcd[<<n, m % n>>]
  BY <1>4
<1> DEFINE Bad == {n \in Nat : \E m \in Nat : ~(gcd[<<m, n>>] \in Nat /\ IsGcd(gcd[<<m, n>>], m, n))}
<1>6. ASSUME NEW n \in Bad, \A k \in Bad : n <= k PROVE FALSE
  <2>1. PICK m \in Nat : ~(gcd[<<m, n>>] \in Nat /\ IsGcd(gcd[<<m, n>>], m, n))
    OBVIOUS
  <2>2. n # 0
    BY <2>1, <1>5, GcdSteps
  <2>3. m % n \in 0..(n-1)
    BY <2>2
  <2>4. ~(gcd[<<n, m % n>>] \in Nat /\ IsGcd(gcd[<<n, m % n>>], n, m % n))
    BY <2>1, <2>2, <2>3, <1>5, GcdSteps
  <2>5. m % n \in Bad /\ n \in Nat
    BY <2>3, <2>4
  <2> HIDE DEF Bad
  <2> QED
    BY <2>3, <2>5, <1>6
<1>7. Bad \in SUBSET Nat
  OBVIOUS
<1>8. Bad = {}
  <2> HIDE DEF Bad
  <2> QED
    BY <1>6, <1>7, LeastExists
<1> QED
  BY <1>8

(* The fractions in lowest terms, of which each number has one.              *)
Pos == Nat \ {0}

Coprime(a, b) == \E u, v \in Int : a * u + b * v = 1

Reduced == {p \in Nat \X Pos : Coprime(p[1], p[2])}

LEMMA FracIs ==
  ASSUME NEW n \in Nat, NEW d \in Pos
  PROVE  Frac(n, d) \in Reduced /\ Frac(n, d)[1] * d = n * Frac(n, d)[2]
<1> USE DEF Pos
<1>1. CASE n = 0
  <2>1. Frac(n, d) = <<0, 1>> /\ 0 * 0 + 1 * 1 = 1
    BY <1>1 DEF Frac
  <2>2. <<0, 1>> \in Reduced
    <3>1. Coprime(0, 1)
      BY <2>1 DEF Coprime
    <3> QED
      BY <3>1 DEF Reduced
  <2> QED
    BY <1>1, <2>1, <2>2
<1>2. CASE n # 0
  <2> DEFINE g == gcd[<<n, d>>]
  <2>1. g \in Nat /\ IsGcd(g, n, d)
    BY GcdIs
  <2>2. PICK x \in Nat, y \in Nat : n = g * x /\ d = g * y
    BY <2>1 DEF IsGcd
  <2>3. PICK u \in Int, v \in Int : g = n * u + d * v
    BY <2>1 DEF IsGcd
  <2>4. g > 0 /\ y > 0
    BY <2>1, <2>2
  <2>5. Frac(n, d) = <<n \div g, d \div g>>
    BY <1>2 DEF Frac
  <2> HIDE DEF g
  <2>6. (g * x) \div g = x /\ (g * y) \div g = y
    BY <2>1, <2>4
  <2>7. Frac(n, d) = <<x, y>>
    BY <2>2, <2>5, <2>6
  <2>8. g * (x * u + y * v) = g * 1
    <3>1. (g * x) * u + (g * y) * v = g * (x * u + y * v)
      BY <2>1
    <3> QED
      BY <2>1, <2>2, <2>3, <3>1
  <2>9. x * u + y * v = 1
    <3>1. \A i, j \in Int : i > 0 /\ i * j = i * 1 => j = 1
      OBVIOUS
    <3> QED
      BY <2>1, <2>4, <2>8, <3>1
  <2>10. x * (g * y) = (g * x) * y
    BY <2>1
  <2>11. <<x, y>> \in Reduced
    <3>1. Coprime(x, y)
      BY <2>9 DEF Coprime
    <3> QED
      BY <2>4, <3>1 DEF Reduced
  <2>12. Frac(n, d)[1] = x /\ Frac(n, d)[2] = y
    BY <2>7
  <2> QED
    BY <2>2, <2>7, <2>10, <2>11, <2>12
<1> QED
  BY <1>1, <1>2

LEMMA ReducedIs ==
  ASSUME NEW p \in Reduced
  PROVE  p = <<p[1], p[2]>> /\ p[1] \in Nat /\ p[2] \in Nat /\ p[2] > 0 /\ p[2] \in Pos
BY DEF Reduced, Pos

LEMMA ReducedAlone ==
  ASSUME NEW p \in Reduced, NEW q \in Reduced, p[1] * q[2] = q[1] * p[2]
  PROVE  p = q
<1>1. ASSUME NEW a \in Reduced, NEW b \in Reduced, a[1] * b[2] = b[1] * a[2]
      PROVE  \E k \in Int : b[2] = a[2] * k
  <2>1. PICK u \in Int, v \in Int : a[1] * u + a[2] * v = 1
    BY DEF Reduced, Coprime
  <2> DEFINE i == a[1]
             j == a[2]
             k == b[1]
             l == b[2]
  <2>2. i \in Int /\ j \in Int /\ k \in Int /\ l \in Int
    BY ReducedIs
  <2>3. i * u + j * v = 1 /\ i * l = k * j
    BY <2>1, <1>1
  <2> HIDE DEF i, j, k, l
  <2>4. l = l * (i * u + j * v)
    BY <2>2, <2>3
  <2>5. l * (i * u + j * v) = (i * l) * u + l * (j * v)
    BY <2>2
  <2>6. (k * j) * u + l * (j * v) = j * (k * u + l * v)
    BY <2>2
  <2>7. l = j * (k * u + l * v) /\ k * u + l * v \in Int
    BY <2>2, <2>3, <2>4, <2>5, <2>6
  <2> QED
    BY <2>7 DEF j, l
<1>2. PICK k \in Int : q[2] = p[2] * k
  BY <1>1
<1>3. PICK l \in Int : p[2] = q[2] * l
  BY <1>1
<1>4. p[2] = q[2]
  BY <1>2, <1>3, Multiples, ReducedIs
<1>5. p[1] = q[1]
  <2>1. \A i, j, z \in Nat : z > 0 /\ i * z = j * z => i = j
    OBVIOUS
  <2> QED
    BY <1>4, <2>1, ReducedIs
<1> QED
  BY <1>4, <1>5, ReducedIs

(* Equal numbers have equal fractions, and a fraction is that of its parts.  *)
LEMMA FracSame ==
  ASSUME NEW n \in Nat, NEW d \in Pos, NEW m \in Nat, NEW e \in Pos
  PROVE  Frac(n, d) = Frac(m, e) <=> n * e = m * d
<1> DEFINE p == Frac(n, d)
           q == Frac(m, e)
<1>1. p \in Reduced /\ q \in Reduced /\ p[1] * d = n * p[2] /\ q[1] * e = m * q[2]
  BY FracIs
<1>2. p[1] \in Nat /\ p[2] \in Nat /\ p[2] > 0 /\ q[1] \in Nat /\ q[2] \in Nat /\ q[2] > 0
  BY <1>1, ReducedIs
<1> HIDE DEF p, q
<1>3. ASSUME n * e = m * d PROVE p[1] * q[2] = q[1] * p[2]
  <2>1. d > 0 /\ e > 0 /\ d \in Nat /\ e \in Nat
    BY DEF Pos
  <2>2. (p[1] * d) * (e * q[2]) = (n * p[2]) * (e * q[2])
    BY <1>1
  <2>3. (q[1] * e) * (d * p[2]) = (m * q[2]) * (d * p[2])
    BY <1>1
  <2>4. (n * p[2]) * (e * q[2]) = (n * e) * (p[2] * q[2]) /\ (m * q[2]) * (d * p[2]) = (m * d) * (p[2] * q[2])
    BY <1>2, <2>1
  <2>5. (p[1] * d) * (e * q[2]) = (q[1] * e) * (d * p[2])
    BY <1>3, <2>2, <2>3, <2>4
  <2>6. (p[1] * d) * (e * q[2]) = (p[1] * q[2]) * (d * e) /\ (q[1] * e) * (d * p[2]) = (q[1] * p[2]) * (d * e)
    BY <1>2, <2>1
  <2>7. \A i, j, k \in Nat : k > 0 /\ i * k = j * k => i = j
    OBVIOUS
  <2>8. p[1] * q[2] \in Nat /\ q[1] * p[2] \in Nat /\ d * e \in Nat /\ d * e > 0
    BY <1>2, <2>1
  <2> QED
    BY <2>5, <2>6, <2>7, <2>8
<1>4. ASSUME p = q PROVE n * e = m * d
  <2>1. d > 0 /\ e > 0 /\ d \in Nat /\ e \in Nat
    BY DEF Pos
  <2> DEFINE a == p[1]
             b == p[2]
  <2>2. a * d = n * b /\ a * e = m * b /\ a \in Nat /\ b \in Nat /\ b > 0
    BY <1>1, <1>2, <1>4
  <2> HIDE DEF a, b
  <2>3. (n * b) * e = (a * d) * e /\ (m * b) * d = (a * e) * d
    BY <2>2
  <2>4. (a * d) * e = (a * e) * d /\ (n * b) * e = (n * e) * b /\ (m * b) * d = (m * d) * b
    BY <2>1, <2>2
  <2>5. \A i, j, k \in Nat : k > 0 /\ i * k = j * k => i = j
    OBVIOUS
  <2>6. n * e \in Nat /\ m * d \in Nat
    BY <2>1
  <2> QED
    BY <2>2, <2>3, <2>4, <2>5, <2>6
<1> QED
  BY <1>1, <1>3, <1>4, ReducedAlone DEF p, q

LEMMA FracOf == ASSUME NEW p \in Reduced PROVE p = Frac(p[1], p[2])
<1>1. p[1] \in Nat /\ p[2] \in Pos /\ p[2] \in Nat
  BY ReducedIs
<1>2. Frac(p[1], p[2]) \in Reduced /\ Frac(p[1], p[2])[1] * p[2] = p[1] * Frac(p[1], p[2])[2]
  BY <1>1, FracIs
<1> QED
  BY <1>2, ReducedAlone

LEMMA Cancel == \A i, j, k \in Nat : k > 0 => (i * k = j * k <=> i = j) /\ (i * k <= j * k <=> i <= j)
OBVIOUS

LEMMA Products == \A i, j \in Pos : i * j \in Pos /\ i \in Nat /\ i > 0
BY DEF Pos

(* How fractions are computed with, whatever they are written as.            *)
LEMMA FracOps ==
  ASSUME NEW n \in Nat, NEW d \in Pos, NEW m \in Nat, NEW e \in Pos
  PROVE  /\ Plus(Frac(n, d), Frac(m, e)) = Frac(n * e + m * d, d * e)
         /\ Times(Frac(n, d), Frac(m, e)) = Frac(n * m, d * e)
         /\ Leq(Frac(n, d), Frac(m, e)) <=> n * e <= m * d
         /\ m # 0 => Over(Frac(n, d), Frac(m, e)) = Frac(n * e, d * m)
         /\ m * d <= n * e => Minus(Frac(n, d), Frac(m, e)) = Frac(n * e - m * d, d * e)
<1> DEFINE p == Frac(n, d)
           q == Frac(m, e)
           a == p[1]
           b == p[2]
           x == q[1]
           y == q[2]
<1>1. p \in Reduced /\ q \in Reduced /\ a * d = n * b /\ x * e = m * y
  BY FracIs
<1>2. a \in Nat /\ b \in Pos /\ x \in Nat /\ y \in Pos
  BY <1>1, ReducedIs
<1>3. /\ Plus(p, q) = Frac(a * y + x * b, b * y) /\ Times(p, q) = Frac(a * x, b * y)
      /\ (Leq(p, q) <=> a * y <= x * b) /\ Over(p, q) = Frac(a * y, b * x)
      /\ Minus(p, q) = IF a * y <= x * b THEN <<0, 1>> ELSE Frac(a * y - x * b, b * y)
  BY DEF Plus, Times, Leq, Over, Minus
<1> HIDE DEF a, b, x, y
<1>4. d \in Nat /\ e \in Nat /\ b \in Nat /\ y \in Nat /\ b * y \in Pos /\ d * e \in Pos /\ d > 0 /\ e > 0 /\ b > 0 /\ y > 0
  BY <1>2, Products
<1>5. (a * y) * (d * e) = (n * e) * (b * y) /\ (x * b) * (d * e) = (m * d) * (b * y)
  <2>1. (a * y) * (d * e) = (a * d) * (y * e) /\ (n * b) * (y * e) = (n * e) * (b * y)
    BY <1>2, <1>4
  <2>2. (x * b) * (d * e) = (x * e) * (b * d) /\ (m * y) * (b * d) = (m * d) * (b * y)
    BY <1>2, <1>4
  <2> QED
    BY <1>1, <2>1, <2>2
<1>6. Plus(p, q) = Frac(n * e + m * d, d * e)
  <2>1. (a * y + x * b) * (d * e) = (n * e + m * d) * (b * y)
    <3>1. \A i, j, k \in Nat : (i + j) * k = i * k + j * k
      OBVIOUS
    <3>2. a * y \in Nat /\ x * b \in Nat /\ d * e \in Nat /\ n * e \in Nat /\ m * d \in Nat /\ b * y \in Nat
      BY <1>2, <1>4
    <3>3. (a * y + x * b) * (d * e) = (a * y) * (d * e) + (x * b) * (d * e)
      BY <3>1, <3>2
    <3>4. (n * e + m * d) * (b * y) = (n * e) * (b * y) + (m * d) * (b * y)
      BY <3>1, <3>2
    <3> QED
      BY <1>5, <3>3, <3>4
  <2>2. a * y + x * b \in Nat /\ n * e + m * d \in Nat
    BY <1>2, <1>4
  <2> QED
    BY <1>3, <1>4, <2>1, <2>2, FracSame
<1>7. Times(p, q) = Frac(n * m, d * e)
  <2>1. (a * x) * (d * e) = (a * d) * (x * e) /\ (n * b) * (m * y) = (n * m) * (b * y)
    BY <1>2, <1>4
  <2>2. a * x \in Nat /\ n * m \in Nat
    BY <1>2
  <2> QED
    BY <1>1, <1>3, <1>4, <2>1, <2>2, FracSame
<1>8. a * y <= x * b <=> n * e <= m * d
  <2>1. a * y \in Nat /\ x * b \in Nat /\ d * e \in Nat /\ n * e \in Nat /\ m * d \in Nat /\ b * y \in Nat /\ d * e > 0 /\ b * y > 0
    BY <1>2, <1>4
  <2>2. a * y <= x * b <=> (a * y) * (d * e) <= (x * b) * (d * e)
    BY <2>1, Cancel
  <2>3. n * e <= m * d <=> (n * e) * (b * y) <= (m * d) * (b * y)
    BY <2>1, Cancel
  <2> QED
    BY <1>5, <2>2, <2>3
<1>9. ASSUME m # 0 PROVE Over(p, q) = Frac(n * e, d * m)
  <2>1. m > 0 /\ x > 0
    <3>1. x * e > 0
      BY <1>1, <1>4, <1>9
    <3> QED
      BY <1>2, <1>4, <1>9, <3>1
  <2>2. x \in Pos /\ m \in Pos
    BY <1>2, <1>9, <2>1 DEF Pos
  <2>3. b * x \in Pos /\ d * m \in Pos /\ a * y \in Nat /\ n * e \in Nat
    BY <2>2, <1>2, <1>4, Products
  <2>4. (a * y) * (d * m) = (n * e) * (b * x)
    <3>1. (a * y) * (d * m) = (a * d) * (m * y) /\ (n * b) * (x * e) = (n * e) * (b * x)
      BY <1>2, <1>4
    <3> QED
      BY <1>1, <3>1
  <2>5. Frac(a * y, b * x) = Frac(n * e, d * m)
    BY <2>3, <2>4, FracSame
  <2> QED
    BY <1>3, <2>5
<1>10. ASSUME m * d <= n * e PROVE Minus(p, q) = Frac(n * e - m * d, d * e)
  <2>1. CASE a * y <= x * b
    <3>1. n * e = m * d
      <4>1. n * e <= m * d /\ n * e \in Nat /\ m * d \in Nat
        BY <1>4, <1>8, <2>1
      <4> QED
        BY <4>1, <1>10
    <3>2. n * e - m * d = 0
      BY <3>1, <1>4
    <3>3. Frac(0, d * e) = <<0, 1>>
      BY DEF Frac
    <3> QED
      BY <2>1, <3>2, <3>3, <1>3
  <2>2. CASE ~(a * y <= x * b)
    <3>1. a * y \in Nat /\ x * b \in Nat /\ d * e \in Nat /\ n * e \in Nat /\ m * d \in Nat /\ b * y \in Nat
      BY <1>2, <1>4
    <3>2. a * y - x * b \in Nat /\ n * e - m * d \in Nat
      BY <2>2, <3>1, <1>10
    <3>3. \A i, j, k \in Nat : (i - j) * k = i * k - j * k
      OBVIOUS
    <3>4. (a * y - x * b) * (d * e) = (n * e - m * d) * (b * y)
      BY <1>5, <3>1, <3>3
    <3> QED
      BY <2>2, <3>2, <3>4, <1>3, <1>4, FracSame
  <2> QED
    BY <2>1, <2>2
<1>11. Leq(p, q) <=> n * e <= m * d
  BY <1>3, <1>8
<1> HIDE DEF p, q
<1>12. /\ m # 0 => Over(p, q) = Frac(n * e, d * m)
       /\ m * d <= n * e => Minus(p, q) = Frac(n * e - m * d, d * e)
  BY <1>9, <1>10
<1> QED
  BY <1>6, <1>7, <1>11, <1>12 DEF p, q

(* Over one denominator the sums and the order are those of the numbers.     *)
LEMMA OverOne ==
  ASSUME NEW n \in Nat, NEW m \in Nat, NEW d \in Pos
  PROVE  /\ Plus(Frac(n, d), Frac(m, d)) = Frac(n + m, d)
         /\ Leq(Frac(n, d), Frac(m, d)) <=> n <= m
         /\ m <= n => Minus(Frac(n, d), Frac(m, d)) = Frac(n - m, d)
         /\ Frac(n, d) = Frac(m, d) <=> n = m
<1>1. d \in Nat /\ d > 0 /\ d * d \in Pos
  BY Products
<1>2. Plus(Frac(n, d), Frac(m, d)) = Frac(n + m, d)
  <2>1. n * d + m * d \in Nat /\ n + m \in Nat
    BY <1>1
  <2>2. (n * d + m * d) * d = (n + m) * (d * d)
    BY <1>1
  <2>3. Frac(n * d + m * d, d * d) = Frac(n + m, d)
    BY <1>1, <2>1, <2>2, FracSame
  <2> QED
    BY <2>3, FracOps
<1>3. (n * d <= m * d <=> n <= m) /\ (m * d <= n * d <=> m <= n) /\ (n * d = m * d <=> n = m)
  BY <1>1
<1>4. Leq(Frac(n, d), Frac(m, d)) <=> n <= m
  <2>1. Leq(Frac(n, d), Frac(m, d)) <=> n * d <= m * d
    BY FracOps
  <2> QED
    BY <1>3, <2>1
<1>5. ASSUME m <= n PROVE Minus(Frac(n, d), Frac(m, d)) = Frac(n - m, d)
  <2>1. n * d - m * d \in Nat /\ n - m \in Nat
    <3>1. n * d \in Int /\ m * d \in Int /\ m * d <= n * d /\ n - m \in Nat
      BY <1>1, <1>3, <1>5
    <3> QED
      BY <3>1
  <2>2. (n * d - m * d) * d = (n - m) * (d * d)
    BY <1>1
  <2>3. Frac(n * d - m * d, d * d) = Frac(n - m, d)
    BY <1>1, <2>1, <2>2, FracSame
  <2>4. m * d <= n * d => Minus(Frac(n, d), Frac(m, d)) = Frac(n * d - m * d, d * d)
    BY FracOps
  <2> QED
    BY <2>3, <2>4, <1>3, <1>5
<1>6. Frac(n, d) = Frac(m, d) <=> n = m
  <2>1. Frac(n, d) = Frac(m, d) <=> n * d = m * d
    BY FracSame
  <2> QED
    BY <1>3, <2>1
<1> QED
  BY <1>2, <1>4, <1>5, <1>6

LEMMA OneDenominator ==
  ASSUME NEW a \in Reduced, NEW b \in Reduced, NEW c \in Reduced
  PROVE  \E n, m, k \in Nat, d \in Pos : a = Frac(n, d) /\ b = Frac(m, d) /\ c = Frac(k, d)
<1>1. ASSUME NEW p \in Reduced, NEW e \in Pos PROVE p[1] * e \in Nat /\ p[2] * e \in Pos /\ p = Frac(p[1] * e, p[2] * e)
  <2> DEFINE x == p[1]
             y == p[2]
  <2>1. x \in Nat /\ y \in Pos /\ y \in Nat /\ e \in Nat
    BY ReducedIs, Products
  <2>2. p = Frac(x, y)
    BY FracOf
  <2> HIDE DEF x, y
  <2>3. x * e \in Nat /\ y * e \in Pos /\ x * (y * e) = (x * e) * y
    BY <2>1, Products
  <2>4. Frac(x, y) = Frac(x * e, y * e)
    BY <2>1, <2>3, FracSame
  <2> QED
    BY <2>2, <2>3, <2>4 DEF x, y
<1> DEFINE x == a[2]
           y == b[2]
           z == c[2]
<1>2. x \in Pos /\ y \in Pos /\ z \in Pos /\ x \in Nat /\ y \in Nat /\ z \in Nat
  BY ReducedIs
<1>3. /\ a[1] * (y * z) \in Nat /\ a = Frac(a[1] * (y * z), x * (y * z)) /\ x * (y * z) \in Pos
      /\ b[1] * (x * z) \in Nat /\ b = Frac(b[1] * (x * z), y * (x * z))
      /\ c[1] * (x * y) \in Nat /\ c = Frac(c[1] * (x * y), z * (x * y))
  <2>1. y * z \in Pos /\ x * z \in Pos /\ x * y \in Pos
    BY <1>2, Products
  <2> QED
    BY <1>1, <2>1
<1> HIDE DEF x, y, z
<1>4. y * (x * z) = x * (y * z) /\ z * (x * y) = x * (y * z)
  BY <1>2
<1> QED
  BY <1>3, <1>4

Zero == <<0, 1>>

LEMMA ZeroIs ==
  /\ Zero \in Reduced
  /\ \A d \in Pos : Frac(0, d) = Zero
  /\ \A n \in Nat, d \in Pos : Frac(n, d) = Zero <=> n = 0
  /\ \A a \in Reduced : a[1] = 0 <=> a = Zero
<1>1. \A d : Frac(0, d) = Zero
  BY DEF Frac, Zero
<1>2. 0 \in Nat /\ 1 \in Pos
  BY DEF Pos
<1>3. Zero \in Reduced
  BY <1>1, <1>2, FracIs
<1>4. ASSUME NEW n \in Nat, NEW d \in Pos PROVE Frac(n, d) = Zero <=> n = 0
  BY <1>1, <1>2, OverOne
<1>5. ASSUME NEW a \in Reduced PROVE a[1] = 0 <=> a = Zero
  BY <1>1, FracOf DEF Zero
<1> QED
  BY <1>1, <1>3, <1>4, <1>5

(* Sums and differences.                                                     *)
LEMMA Additive ==
  ASSUME NEW a \in Reduced, NEW b \in Reduced, NEW c \in Reduced
  PROVE  /\ Plus(a, b) \in Reduced
         /\ Plus(a, b) = Plus(b, a)
         /\ Plus(a, Plus(b, c)) = Plus(Plus(a, b), c)
         /\ Leq(a, a) /\ Leq(a, Plus(a, b))
         /\ Leq(a, b) \/ Leq(b, a)
         /\ Leq(a, b) /\ Leq(b, c) => Leq(a, c)
         /\ Leq(a, b) => Leq(Plus(c, a), Plus(c, b))
         /\ Leq(Zero, a) /\ Plus(a, Zero) = a
         /\ Leq(b, a) => Minus(a, b) \in Reduced /\ Plus(b, Minus(a, b)) = a
         /\ Plus(a, b) = Plus(a, c) => b = c
<1>1. PICK n \in Nat, m \in Nat, k \in Nat, d \in Pos : a = Frac(n, d) /\ b = Frac(m, d) /\ c = Frac(k, d)
  BY OneDenominator
<1>2. \A i, j \in Nat : /\ Frac(i, d) \in Reduced /\ Plus(Frac(i, d), Frac(j, d)) = Frac(i + j, d)
                        /\ (Leq(Frac(i, d), Frac(j, d)) <=> i <= j)
                        /\ (j <= i => Minus(Frac(i, d), Frac(j, d)) = Frac(i - j, d))
                        /\ (Frac(i, d) = Frac(j, d) => i = j)
  BY OverOne, FracIs
<1>3. Zero = Frac(0, d)
  BY ZeroIs
<1>4. n + m \in Nat /\ m + k \in Nat /\ k + n \in Nat /\ k + m \in Nat /\ n + k \in Nat /\ 0 \in Nat
  OBVIOUS
<1>5. m <= n => n - m \in Nat /\ m + (n - m) = n
  OBVIOUS
<1>6. /\ Plus(a, b) = Frac(n + m, d) /\ Plus(b, a) = Frac(m + n, d) /\ Plus(b, c) = Frac(m + k, d)
      /\ Plus(c, a) = Frac(k + n, d) /\ Plus(c, b) = Frac(k + m, d) /\ Plus(a, c) = Frac(n + k, d)
  BY <1>1, <1>2
<1>7. Plus(a, Plus(b, c)) = Frac(n + (m + k), d) /\ Plus(Plus(a, b), c) = Frac((n + m) + k, d) /\ Plus(a, Zero) = Frac(n + 0, d)
  BY <1>1, <1>2, <1>3, <1>4, <1>6
<1>8. /\ Leq(a, a) /\ (Leq(a, Plus(a, b)) <=> n <= n + m) /\ (Leq(a, b) <=> n <= m) /\ (Leq(b, a) <=> m <= n) /\ (Leq(b, c) <=> m <= k)
      /\ (Leq(a, c) <=> n <= k) /\ (Leq(Plus(c, a), Plus(c, b)) <=> k + n <= k + m) /\ (Leq(Zero, a) <=> 0 <= n)
  <2>1. /\ \A i, j \in Nat : Leq(Frac(i, d), Frac(j, d)) <=> i <= j
        /\ Leq(Frac(n, d), Frac(n, d)) <=> n <= n
    BY OverOne
  <2>2. /\ (Leq(Frac(n, d), Frac(n + m, d)) <=> n <= n + m) /\ (Leq(Frac(0, d), Frac(n, d)) <=> 0 <= n)
        /\ (Leq(Frac(k + n, d), Frac(k + m, d)) <=> k + n <= k + m)
    BY <1>4, <2>1
  <2>3. (Leq(a, b) <=> n <= m) /\ (Leq(b, a) <=> m <= n) /\ (Leq(b, c) <=> m <= k) /\ (Leq(a, c) <=> n <= k)
    BY <1>1, <2>1
  <2>4. Leq(a, a)
    BY <1>1, <2>1
  <2>5. (Leq(a, Plus(a, b)) <=> n <= n + m) /\ (Leq(Zero, a) <=> 0 <= n) /\ (Leq(Plus(c, a), Plus(c, b)) <=> k + n <= k + m)
    BY <1>1, <1>3, <1>6, <2>2
  <2> QED
    BY <2>3, <2>4, <2>5
<1>9. Leq(b, a) => Minus(a, b) \in Reduced /\ Plus(b, Minus(a, b)) = a
  <2>1. m <= n => Minus(a, b) = Frac(n - m, d) /\ Plus(b, Frac(n - m, d)) = Frac(m + (n - m), d) /\ Frac(n - m, d) \in Reduced
    BY <1>1, <1>2, <1>5
  <2> QED
    BY <1>1, <1>5, <1>8, <2>1
<1>10. Plus(a, b) = Plus(a, c) => b = c
  <2>1. Plus(a, b) = Plus(a, c) => n + m = n + k
    BY <1>2, <1>4, <1>6
  <2> QED
    BY <1>1, <2>1
<1>11. n + m = m + n /\ n + (m + k) = (n + m) + k /\ n + 0 = n /\ n <= n + m /\ 0 <= n
  OBVIOUS
<1>12. Plus(a, b) \in Reduced
  BY <1>2, <1>4, <1>6
<1>13. Plus(a, b) = Plus(b, a) /\ Plus(a, Plus(b, c)) = Plus(Plus(a, b), c) /\ Plus(a, Zero) = a
  BY <1>1, <1>6, <1>7, <1>11
<1> QED
  BY <1>8, <1>9, <1>10, <1>11, <1>12, <1>13

(* Products and quotients.                                                   *)
LEMMA Multiplicative ==
  ASSUME NEW a \in Reduced, NEW b \in Reduced, NEW c \in Reduced
  PROVE  /\ Times(a, b) \in Reduced /\ Times(a, b) = Times(b, a)
         /\ Times(Plus(a, b), c) = Plus(Times(a, c), Times(b, c))
         /\ Times(Zero, a) = Zero
<1>1. PICK n \in Nat, m \in Nat, k \in Nat, d \in Pos : a = Frac(n, d) /\ b = Frac(m, d) /\ c = Frac(k, d)
  BY OneDenominator
<1>2. n + m \in Nat /\ d * d \in Pos /\ n * m \in Nat /\ n * k \in Nat /\ m * k \in Nat /\ 0 \in Nat /\ n * m = m * n /\ 0 * n = 0
  BY Products
<1>3. Times(a, b) = Frac(n * m, d * d) /\ Times(b, a) = Frac(m * n, d * d) /\ Times(a, c) = Frac(n * k, d * d) /\ Times(b, c) = Frac(m * k, d * d)
  BY <1>1, FracOps
<1>4. Times(a, b) \in Reduced
  BY <1>2, <1>3, FracIs
<1>5. Times(Plus(a, b), c) = Frac((n + m) * k, d * d)
  <2>1. Plus(a, b) = Frac(n + m, d)
    BY <1>1, OverOne
  <2> QED
    BY <1>1, <1>2, <2>1, FracOps
<1>6. Plus(Times(a, c), Times(b, c)) = Frac(n * k + m * k, d * d)
  BY <1>2, <1>3, OverOne
<1>7. (n + m) * k = n * k + m * k
  OBVIOUS
<1>8. Times(Zero, a) = Zero
  <2>1. Zero = Frac(0, d) /\ Zero = Frac(0, d * d)
    BY <1>2, ZeroIs
  <2>2. Times(Frac(0, d), Frac(n, d)) = Frac(0 * n, d * d)
    BY <1>2, FracOps
  <2> QED
    BY <1>1, <1>2, <2>1, <2>2
<1> QED
  BY <1>2, <1>3, <1>4, <1>5, <1>6, <1>7, <1>8

LEMMA Quotients ==
  ASSUME NEW a \in Reduced, NEW b \in Reduced, NEW c \in Reduced, c # Zero
  PROVE  /\ Over(a, c) \in Reduced /\ Times(c, Over(a, c)) = a
         /\ Plus(Over(a, c), Over(b, c)) = Over(Plus(a, b), c)
         /\ Leq(a, b) => Leq(Over(a, c), Over(b, c))
         /\ Leq(a, Times(c, b)) => Leq(Over(a, c), b)
         /\ a # Zero => Over(a, c) # Zero /\ Over(a, Over(a, c)) = c
<1>1. PICK n \in Nat, m \in Nat, k \in Nat, d \in Pos : a = Frac(n, d) /\ b = Frac(m, d) /\ c = Frac(k, d)
  BY OneDenominator
<1>2. k # 0 /\ k \in Pos /\ d \in Nat /\ d > 0 /\ k > 0
  BY <1>1, ZeroIs, Products DEF Pos
<1>3. /\ d * k \in Pos /\ d * d \in Pos /\ n * d \in Nat /\ m * d \in Nat /\ n + m \in Nat /\ k * m \in Nat /\ k * (n * d) \in Nat
      /\ d * (d * k) \in Pos
  BY <1>2, Products
<1>4. Over(a, c) = Frac(n * d, d * k) /\ Over(b, c) = Frac(m * d, d * k) /\ Over(a, c) \in Reduced
  <2>1. Over(a, c) = Frac(n * d, d * k) /\ Over(b, c) = Frac(m * d, d * k)
    BY <1>1, <1>2, FracOps
  <2> QED
    BY <2>1, <1>3, FracIs
<1>5. Times(c, Over(a, c)) = a
  <2>1. Times(Frac(k, d), Frac(n * d, d * k)) = Frac(k * (n * d), d * (d * k))
    BY <1>3, FracOps
  <2>2. (k * (n * d)) * d = n * (d * (d * k))
    BY <1>2
  <2>3. Frac(k * (n * d), d * (d * k)) = Frac(n, d)
    BY <1>3, <2>2, FracSame
  <2> QED
    BY <1>1, <1>4, <2>1, <2>3
<1>6. Plus(Over(a, c), Over(b, c)) = Over(Plus(a, b), c)
  <2>1. Plus(Over(a, c), Over(b, c)) = Frac(n * d + m * d, d * k)
    BY <1>3, <1>4, OverOne
  <2>2. Plus(a, b) = Frac(n + m, d)
    BY <1>1, OverOne
  <2>3. Over(Frac(n + m, d), Frac(k, d)) = Frac((n + m) * d, d * k)
    BY <1>2, <1>3, FracOps
  <2>4. (n + m) * d = n * d + m * d
    BY <1>2
  <2> QED
    BY <1>1, <2>1, <2>2, <2>3, <2>4
<1>7. Leq(a, b) => Leq(Over(a, c), Over(b, c))
  <2>1. Leq(a, b) <=> n <= m
    BY <1>1, OverOne
  <2>2. Leq(Over(a, c), Over(b, c)) <=> n * d <= m * d
    <3>1. Leq(Frac(n * d, d * k), Frac(m * d, d * k)) <=> n * d <= m * d
      BY <1>3, OverOne
    <3> QED
      BY <1>4, <3>1
  <2>3. n <= m => n * d <= m * d
    BY <1>2
  <2> QED
    BY <2>1, <2>2, <2>3
<1>8. Leq(a, Times(c, b)) => Leq(Over(a, c), b)
  <2>1. Times(c, b) = Frac(k * m, d * d)
    BY <1>1, FracOps
  <2>2. Leq(a, Times(c, b)) <=> n * (d * d) <= (k * m) * d
    <3>1. Leq(Frac(n, d), Frac(k * m, d * d)) <=> n * (d * d) <= (k * m) * d
      BY <1>3, FracOps
    <3> QED
      BY <1>1, <2>1, <3>1
  <2>3. Leq(Over(a, c), b) <=> (n * d) * d <= m * (d * k)
    <3>1. Leq(Frac(n * d, d * k), Frac(m, d)) <=> (n * d) * d <= m * (d * k)
      BY <1>3, FracOps
    <3> QED
      BY <1>1, <1>4, <3>1
  <2>4. n * (d * d) = (n * d) * d /\ (k * m) * d = m * (d * k)
    BY <1>2
  <2> QED
    BY <2>2, <2>3, <2>4
<1>9. ASSUME a # Zero PROVE Over(a, c) # Zero /\ Over(a, Over(a, c)) = c
  <2>1. n # 0 /\ n \in Pos
    BY <1>1, <1>9, ZeroIs DEF Pos
  <2>2. n * d \in Pos /\ n * d # 0 /\ d * (n * d) \in Pos /\ n * (d * k) \in Nat
    BY <2>1, <1>2, Products
  <2>3. Over(a, c) # Zero
    BY <1>3, <1>4, <2>2, ZeroIs
  <2>4. Over(Frac(n, d), Frac(n * d, d * k)) = Frac(n * (d * k), d * (n * d))
    BY <1>3, <2>2, FracOps
  <2>5. (n * (d * k)) * d = k * (d * (n * d))
    BY <1>2
  <2>6. Frac(n * (d * k), d * (n * d)) = Frac(k, d)
    BY <2>2, <2>5, FracSame
  <2> QED
    BY <1>1, <1>4, <2>3, <2>4, <2>6
<1> QED
  BY <1>4, <1>5, <1>6, <1>7, <1>8, <1>9

(* Sums over a set of positions, of numbers and of fractions.                *)

(* Sums of numbers, as SumOf forms them.                                     *)
Sums(g, w, T) ==
  g = [s \in SUBSET T |-> IF s = {} THEN 0 ELSE w[Picked(s)] + g[s \ {Picked(s)}]]

Summing(w, T) == CHOOSE g : Sums(g, w, T)

SumIn(w, T) == Summing(w, T)[T]

Counts(w, T) == IsFiniteSet(T) /\ \A x \in T : w[x] \in Nat

LEMMA SumOfIs == ASSUME NEW w PROVE SumOf(w) = SumIn(w, DOMAIN w)
BY DEF SumOf, FoldSeq, FoldFunction, FoldFunctionOnSet, MapThenFoldSet, SumIn, Summing, Sums, Picked

LEMMA SummingSteps ==
  ASSUME NEW T, NEW w, Counts(w, T)
  PROVE  Sums(Summing(w, T), w, T) /\ \A s \in SUBSET T : Summing(w, T)[s] \in Nat
<1> DEFINE step == [p \in T \X Nat |-> w[p[1]] + p[2]]
           pick == [s \in SUBSET T |-> Picked(s)]
<1>1. step \in [T \X Nat -> Nat]
  BY DEF Counts
<1>2. \A s \in SUBSET T : s # {} => pick[s] \in s /\ pick[s] = Picked(s)
  BY DEF Picked
<1>3. PICK g \in [SUBSET T -> Nat] : Folds(g, T, 0, step, pick)
  <2>1. 0 \in Nat /\ IsFiniteSet(T)
    BY DEF Counts
  <2> HIDE DEF step, pick
  <2> QED
    BY <1>1, <1>2, <2>1, FoldExists
<1>4. \A s \in SUBSET T : s # {} => step[<<pick[s], g[s \ {pick[s]}]>>] = w[Picked(s)] + g[s \ {Picked(s)}]
  <2> SUFFICES ASSUME NEW s \in SUBSET T, s # {}
               PROVE  step[<<pick[s], g[s \ {pick[s]}]>>] = w[Picked(s)] + g[s \ {Picked(s)}]
    OBVIOUS
  <2>1. pick[s] = Picked(s) /\ Picked(s) \in T /\ g[s \ {Picked(s)}] \in Nat
    BY <1>2, <1>3
  <2> QED
    BY <2>1
<1>5. Sums(g, w, T)
  <2> HIDE DEF step, pick
  <2> QED
    BY <1>3, <1>4 DEF Sums, Folds
<1>6. Sums(Summing(w, T), w, T)
  BY <1>5 DEF Summing
<1> DEFINE h == Summing(w, T)
           Bad == {s \in SUBSET T : h[s] \notin Nat}
<1>7. \A s \in SUBSET T : h[s] = IF s = {} THEN 0 ELSE w[Picked(s)] + h[s \ {Picked(s)}]
  BY <1>6 DEF Sums
<1> HIDE DEF h
<1>8. \A s \in SUBSET T : IsFiniteSet(s)
  BY FS_Subset DEF Counts
<1>9. ASSUME NEW s \in Bad, \A t \in Bad : Cardinality(s) <= Cardinality(t) PROVE FALSE
  <2>1. s \in SUBSET T /\ h[s] \notin Nat
    OBVIOUS
  <2> HIDE DEF Bad
  <2>2. h[s] = IF s = {} THEN 0 ELSE w[Picked(s)] + h[s \ {Picked(s)}]
    BY <1>7, <2>1
  <2>3. s # {}
    BY <2>2, <2>1
  <2>4. Picked(s) \in s /\ w[Picked(s)] \in Nat
    BY <2>1, <2>3 DEF Picked, Counts
  <2> DEFINE r == s \ {Picked(s)}
  <2>5. Cardinality(r) < Cardinality(s) /\ Cardinality(r) \in Nat /\ Cardinality(s) \in Nat
    BY <1>8, <2>1, <2>4, SmallerWithout, FS_CardinalityType
  <2>6. r \in SUBSET T /\ r \notin Bad
    <3>1. r \in SUBSET T
      BY <2>1
    <3> HIDE DEF Bad, r
    <3> QED
      BY <1>9, <2>5, <3>1
  <2>7. h[r] \in Nat
    BY <2>6 DEF Bad
  <2> HIDE DEF r
  <2>8. h[s] = w[Picked(s)] + h[r]
    BY <2>2, <2>3 DEF r
  <2> QED
    BY <2>1, <2>4, <2>7, <2>8
<1>10. Bad = {}
  <2>1. \A s \in Bad : IsFiniteSet(s)
    BY <1>8
  <2> HIDE DEF Bad
  <2> QED
    BY <1>9, <2>1, SmallestExists
<1> QED
  BY <1>6, <1>10 DEF h

(* A sum depends on what is summed and on nothing else.                      *)
LEMMA SumsAgree ==
  ASSUME NEW g, NEW w, NEW T, Sums(g, w, T), NEW h, NEW v, NEW U, Sums(h, v, U),
         NEW S \in SUBSET T, S \in SUBSET U, IsFiniteSet(S), \A x \in S : w[x] = v[x]
  PROVE  g[S] = h[S]
<1> DEFINE Bad == {s \in SUBSET S : g[s] # h[s]}
<1>1. \A s \in SUBSET S : /\ g[s] = IF s = {} THEN 0 ELSE w[Picked(s)] + g[s \ {Picked(s)}]
                          /\ h[s] = IF s = {} THEN 0 ELSE v[Picked(s)] + h[s \ {Picked(s)}]
  <2>1. \A s \in SUBSET T : g[s] = IF s = {} THEN 0 ELSE w[Picked(s)] + g[s \ {Picked(s)}]
    BY DEF Sums
  <2>2. \A s \in SUBSET U : h[s] = IF s = {} THEN 0 ELSE v[Picked(s)] + h[s \ {Picked(s)}]
    BY DEF Sums
  <2> QED
    BY <2>1, <2>2
<1>2. \A s \in SUBSET S : IsFiniteSet(s)
  BY FS_Subset
<1>3. ASSUME NEW s \in Bad, \A t \in Bad : Cardinality(s) <= Cardinality(t) PROVE FALSE
  <2>1. s \in SUBSET S /\ g[s] # h[s] /\ s # {}
    BY <1>1
  <2>2. Picked(s) \in s /\ w[Picked(s)] = v[Picked(s)]
    BY <2>1 DEF Picked
  <2> DEFINE r == s \ {Picked(s)}
  <2>3. Cardinality(r) < Cardinality(s) /\ Cardinality(r) \in Nat /\ Cardinality(s) \in Nat
    BY <1>2, <2>1, <2>2, SmallerWithout, FS_CardinalityType
  <2>4. r \in SUBSET S /\ r \notin Bad
    <3>1. r \in SUBSET S
      BY <2>1
    <3> HIDE DEF Bad, r
    <3> QED
      BY <1>3, <2>3, <3>1
  <2>5. g[r] = h[r]
    BY <2>4
  <2> QED
    BY <1>1, <2>1, <2>2, <2>5
<1>4. Bad = {}
  <2>1. \A s \in Bad : IsFiniteSet(s)
    BY <1>2
  <2> HIDE DEF Bad
  <2> QED
    BY <1>3, <2>1, SmallestExists
<1> QED
  BY <1>4

LEMMA SumInIs ==
  ASSUME NEW w, NEW T, Counts(w, T)
  PROVE  /\ SumIn(w, T) \in Nat
         /\ SumIn(w, {}) = 0
         /\ T # {} => Picked(T) \in T /\ SumIn(w, T) = w[Picked(T)] + SumIn(w, T \ {Picked(T)})
         /\ \A v : (\A x \in T : w[x] = v[x]) => SumIn(w, T) = SumIn(v, T)
<1>1. Sums(Summing(w, T), w, T) /\ \A s \in SUBSET T : Summing(w, T)[s] \in Nat
  BY SummingSteps
<1>2. Counts(w, {})
  BY FS_EmptySet DEF Counts
<1>3. Sums(Summing(w, {}), w, {})
  BY <1>2, SummingSteps
<1>4. SumIn(w, {}) = 0
  BY <1>3 DEF SumIn, Sums
<1>5. ASSUME T # {} PROVE Picked(T) \in T /\ SumIn(w, T) = w[Picked(T)] + SumIn(w, T \ {Picked(T)})
  <2> DEFINE r == T \ {Picked(T)}
  <2>1. Picked(T) \in T
    BY <1>5 DEF Picked
  <2>2. Counts(w, r)
    BY FS_Subset DEF Counts
  <2>3. Sums(Summing(w, r), w, r) /\ IsFiniteSet(r) /\ r \in SUBSET T
    BY <2>2, SummingSteps DEF Counts
  <2>4. Summing(w, T)[r] = Summing(w, r)[r]
    <3> HIDE DEF r
    <3> QED
      BY <1>1, <2>3, SumsAgree
  <2>5. Summing(w, T)[T] = w[Picked(T)] + Summing(w, T)[r]
    BY <1>1, <1>5 DEF Sums
  <2> QED
    BY <2>1, <2>4, <2>5 DEF SumIn
<1>6. ASSUME NEW v, \A x \in T : w[x] = v[x] PROVE SumIn(w, T) = SumIn(v, T)
  <2>1. Counts(v, T) /\ IsFiniteSet(T)
    BY <1>6 DEF Counts
  <2>2. Sums(Summing(v, T), v, T)
    BY <2>1, SummingSteps
  <2> QED
    BY <1>1, <1>6, <2>1, <2>2, SumsAgree DEF SumIn
<1> QED
  BY <1>1, <1>4, <1>5, <1>6 DEF SumIn

(* Whatever is taken off first.                                              *)
LEMMA SumWithout ==
  ASSUME NEW w, NEW T, Counts(w, T), NEW i \in T
  PROVE  SumIn(w, T) = w[i] + SumIn(w, T \ {i})
<1> DEFINE Fine(s) == \A j \in s : SumIn(w, s) = w[j] + SumIn(w, s \ {j})
           Bad == {s \in SUBSET T : ~Fine(s)}
<1>1. \A s \in SUBSET T : IsFiniteSet(s) /\ Counts(w, s)
  BY FS_Subset DEF Counts
<1>2. ASSUME NEW s \in Bad, \A t \in Bad : Cardinality(s) <= Cardinality(t) PROVE FALSE
  <2>1. s \in SUBSET T /\ ~Fine(s)
    OBVIOUS
  <2>2. PICK j \in s : SumIn(w, s) # w[j] + SumIn(w, s \ {j})
    BY <2>1
  <2> DEFINE p == Picked(s)
  <2>3. p \in s /\ SumIn(w, s) = w[p] + SumIn(w, s \ {p})
    BY <1>1, <2>1, <2>2, SumInIs
  <2> HIDE DEF p
  <2>4. ASSUME NEW k \in s PROVE Fine(s \ {k}) /\ w[k] \in Nat /\ \A l \in s : SumIn(w, (s \ {k}) \ {l}) \in Nat
    <3>1. Cardinality(s \ {k}) < Cardinality(s) /\ Cardinality(s \ {k}) \in Nat /\ Cardinality(s) \in Nat
      BY <1>1, <2>1, SmallerWithout, FS_CardinalityType
    <3>2. s \ {k} \in SUBSET T
      BY <2>1
    <3>3. s \ {k} \notin Bad
      <4> HIDE DEF Bad
      <4> QED
        BY <1>2, <3>1
    <3>4. w[k] \in Nat
      BY <2>1 DEF Counts
    <3>5. \A l \in s : SumIn(w, (s \ {k}) \ {l}) \in Nat
      BY <1>1, <2>1, SumInIs
    <3> HIDE DEF Fine
    <3> QED
      BY <3>2, <3>3, <3>4, <3>5
  <2>5. p # j
    BY <2>2, <2>3
  <2>6. /\ SumIn(w, s \ {p}) = w[j] + SumIn(w, (s \ {p}) \ {j})
        /\ SumIn(w, s \ {j}) = w[p] + SumIn(w, (s \ {j}) \ {p})
        /\ w[p] \in Nat /\ w[j] \in Nat /\ SumIn(w, (s \ {p}) \ {j}) \in Nat
    BY <2>3, <2>4, <2>5
  <2>7. (s \ {p}) \ {j} = (s \ {j}) \ {p}
    OBVIOUS
  <2> DEFINE x == w[p]
             y == w[j]
             z == SumIn(w, (s \ {p}) \ {j})
  <2>8. x \in Nat /\ y \in Nat /\ z \in Nat /\ SumIn(w, s) = x + (y + z) /\ SumIn(w, s) # y + (x + z)
    BY <2>2, <2>3, <2>6, <2>7
  <2> HIDE DEF x, y, z
  <2> QED
    BY <2>8
<1>3. Bad = {}
  <2>1. \A s \in Bad : IsFiniteSet(s)
    BY <1>1
  <2> HIDE DEF Bad
  <2> QED
    BY <1>2, <2>1, SmallestExists
<1>4. T \in SUBSET T
  OBVIOUS
<1>5. Fine(T)
  <2> HIDE DEF Fine
  <2> QED
    BY <1>3, <1>4
<1> QED
  BY <1>5

(* Of two parts.                                                             *)
LEMMA SumOfParts ==
  ASSUME NEW w, NEW A, NEW B, A \cap B = {}, Counts(w, A), Counts(w, B)
  PROVE  SumIn(w, A \cup B) = SumIn(w, A) + SumIn(w, B)
<1> DEFINE Fine(s) == SumIn(w, A \cup s) = SumIn(w, A) + SumIn(w, s)
           Bad == {s \in SUBSET B : ~Fine(s)}
<1>1. \A s \in SUBSET B : IsFiniteSet(s) /\ Counts(w, s) /\ Counts(w, A \cup s)
  BY FS_Subset, FS_Union DEF Counts
<1>2. ASSUME NEW s \in Bad, \A t \in Bad : Cardinality(s) <= Cardinality(t) PROVE FALSE
  <2>1. s \in SUBSET B /\ ~Fine(s) /\ SumIn(w, A) \in Nat
    BY SumInIs
  <2>2. s # {}
    <3>1. SumIn(w, {}) = 0 /\ A \cup {} = A
      BY SumInIs
    <3> QED
      BY <2>1, <3>1
  <2>3. PICK i \in s : TRUE
    BY <2>2
  <2>4. Cardinality(s \ {i}) < Cardinality(s) /\ Cardinality(s \ {i}) \in Nat /\ Cardinality(s) \in Nat
    BY <1>1, <2>1, SmallerWithout, FS_CardinalityType
  <2>5. s \ {i} \in SUBSET B
    BY <2>1
  <2>6. Fine(s \ {i})
    <3>1. s \ {i} \notin Bad
      <4> HIDE DEF Bad
      <4> QED
        BY <1>2, <2>4
    <3> HIDE DEF Fine
    <3> QED
      BY <2>5, <3>1
  <2>7. SumIn(w, s) = w[i] + SumIn(w, s \ {i}) /\ w[i] \in Nat /\ SumIn(w, s \ {i}) \in Nat
    <3>1. Counts(w, s) /\ Counts(w, s \ {i})
      BY <1>1, <2>1, <2>5
    <3>2. SumIn(w, s \ {i}) \in Nat
      BY <3>1, SumInIs
    <3> QED
      BY <3>1, <3>2, SumWithout DEF Counts
  <2>8. SumIn(w, A \cup s) = w[i] + SumIn(w, A \cup (s \ {i}))
    <3>1. Counts(w, A \cup s) /\ i \in A \cup s /\ (A \cup s) \ {i} = A \cup (s \ {i})
      BY <1>1, <2>1
    <3> QED
      BY <3>1, SumWithout
  <2> QED
    BY <2>1, <2>6, <2>7, <2>8
<1>3. Bad = {}
  <2>1. \A s \in Bad : IsFiniteSet(s)
    BY <1>1
  <2> HIDE DEF Bad
  <2> QED
    BY <1>2, <2>1, SmallestExists
<1>4. Fine(B)
  <2> HIDE DEF Fine
  <2> QED
    BY <1>3
<1> QED
  BY <1>4

LEMMA FirstIs ==
  ASSUME NEW K \in Nat, NEW X, NEW row \in Lists(K, X), Once(row, K)
  PROVE  /\ First(row, 0) = {}
         /\ \A n \in 1..K : /\ n - 1 \in 0..K /\ row[n] \notin First(row, n - 1) /\ row[n] \in X
                            /\ First(row, n) = First(row, n - 1) \cup {row[n]}
         /\ \A n \in 0..K : IsFiniteSet(First(row, n)) /\ First(row, n) \in SUBSET X
<1> USE DEF Lists
<1>1. First(row, 0) = {}
  BY DEF First
<1>2. ASSUME NEW n \in 1..K 
      PROVE  /\ n - 1 \in 0..K /\ row[n] \notin First(row, n - 1) /\ row[n] \in X
             /\ First(row, n) = First(row, n - 1) \cup {row[n]}
  <2>1. n \in Nat /\ n >= 1 /\ n <= K /\ n - 1 \in 0..K /\ row[n] \in X
    OBVIOUS
  <2>2. \A i \in 1..n : i \in 1..(n-1) \/ i = n
    OBVIOUS
  <2>3. \A i \in 1..(n-1) : i \in 1..n /\ i # n /\ i \in 1..K
    BY <2>1
  <2>4. n \in 1..n
    BY <2>1
  <2>5. row[n] \notin First(row, n - 1)
    BY <2>3 DEF First, Once
  <2>6. First(row, n) = First(row, n - 1) \cup {row[n]}
    BY <2>2, <2>3, <2>4 DEF First
  <2> QED
    BY <2>1, <2>5, <2>6
<1>3. ASSUME NEW n \in 0..K PROVE IsFiniteSet(First(row, n)) /\ First(row, n) \in SUBSET X
  <2>1. IsFiniteSet(1..n)
    <3>1. 1 \in Int /\ n \in Int
      OBVIOUS
    <3> QED
      BY <3>1, FS_Interval
  <2>2. IsFiniteSet(First(row, n))
    BY <2>1, FiniteImage DEF First
  <2>3. \A i \in 1..n : i \in 1..K
    OBVIOUS
  <2> QED
    BY <2>2, <2>3 DEF First
<1> QED
  BY <1>1, <1>2, <1>3

(* What a list weighs, item by item.                                        *)
Along(w, row, K) == [m \in 1..K |-> w[row[m]]]

(* The sums of the first of a list: how they grow, and what they are sums of. *)
LEMMA FirstSums ==
  ASSUME NEW K \in Nat, NEW X, NEW row \in Lists(K, X), Once(row, K), NEW w, \A x \in X : w[x] \in Nat
  PROVE  /\ SumIn(w, First(row, 0)) = 0
         /\ \A n \in 0..K : SumIn(w, First(row, n)) \in Nat
         /\ \A n \in 1..K : SumIn(w, First(row, n)) = SumIn(w, First(row, n - 1)) + w[row[n]]
         /\ \A n \in 0..K : Counts(Along(w, row, K), 1..n)
         /\ \A n \in 0..K : SumIn(Along(w, row, K), 1..n) = SumIn(w, First(row, n))
<1> DEFINE v == Along(w, row, K)
<1> USE DEF Along
<1>1. \A n \in 0..K : Counts(w, First(row, n))
  BY FirstIs DEF Counts
<1>2. \A n \in 0..K : SumIn(w, First(row, n)) \in Nat
  BY <1>1, SumInIs
<1>3. SumIn(w, First(row, 0)) = 0
  <2>1. 0 \in 0..K /\ First(row, 0) = {}
    BY FirstIs
  <2> QED
    BY <1>1, <2>1, SumInIs
<1>4. ASSUME NEW n \in 1..K PROVE SumIn(w, First(row, n)) = SumIn(w, First(row, n - 1)) + w[row[n]]
  <2>1. /\ n - 1 \in 0..K /\ n \in 0..K /\ row[n] \in First(row, n) /\ First(row, n) \ {row[n]} = First(row, n - 1)
        /\ row[n] \in X
    BY FirstIs
  <2>2. SumIn(w, First(row, n)) = w[row[n]] + SumIn(w, First(row, n - 1))
    BY <1>1, <2>1, SumWithout
  <2>3. w[row[n]] \in Nat /\ SumIn(w, First(row, n - 1)) \in Nat
    BY <1>2, <2>1
  <2> QED
    BY <2>2, <2>3
<1>5. ASSUME NEW n \in 0..K PROVE Counts(v, 1..n)
  <2>1. IsFiniteSet(1..n)
    <3>1. 1 \in Int /\ n \in Int
      OBVIOUS
    <3> QED
      BY <3>1, FS_Interval
  <2>2. \A m \in 1..n : v[m] \in Nat
    <3>1. \A m \in 1..n : m \in 1..K
      OBVIOUS
    <3> QED
      BY <3>1 DEF Lists
  <2> QED
    BY <2>1, <2>2 DEF Counts
<1> DEFINE Bad == {n \in 0..K : SumIn(v, 1..n) # SumIn(w, First(row, n))}
<1>6. ASSUME NEW n \in Bad, \A m \in Bad : n <= m PROVE FALSE
  <2>1. n \in 0..K /\ SumIn(v, 1..n) # SumIn(w, First(row, n)) /\ n \in Nat
    OBVIOUS
  <2>2. n # 0
    <3>1. 1..0 = {} /\ Counts(v, 1..n)
      BY <1>5
    <3>2. SumIn(v, {}) = 0
      BY <3>1, SumInIs
    <3> QED
      BY <1>3, <2>1, <3>1, <3>2
  <2>3. n \in 1..K /\ n - 1 \in 0..K /\ ~(n <= n - 1) /\ n \in 1..n /\ (1..n) \ {n} = 1..(n-1)
    BY <2>1, <2>2
  <2>4. n - 1 \notin Bad
    <3> HIDE DEF Bad
    <3> QED
      BY <1>6, <2>3
  <2>5. SumIn(v, 1..n) = v[n] + SumIn(v, 1..(n-1))
    BY <1>5, <2>1, <2>3, SumWithout
  <2>6. v[n] = w[row[n]] /\ w[row[n]] \in Nat /\ SumIn(v, 1..(n-1)) = SumIn(w, First(row, n - 1)) /\ SumIn(w, First(row, n - 1)) \in Nat
    <3>1. row[n] \in X
      BY <2>3, FirstIs
    <3> HIDE DEF v
    <3>2. SumIn(v, 1..(n-1)) = SumIn(w, First(row, n - 1))
      BY <2>3, <2>4
    <3> QED
      BY <1>2, <2>3, <3>1, <3>2 DEF v
  <2>7. SumIn(w, First(row, n)) = SumIn(w, First(row, n - 1)) + w[row[n]]
    BY <1>4, <2>3
  <2> HIDE DEF v
  <2> QED
    BY <2>1, <2>5, <2>6, <2>7
<1>7. Bad = {}
  <2>1. Bad \in SUBSET Nat
    OBVIOUS
  <2> HIDE DEF Bad
  <2> QED
    BY <1>6, <2>1, LeastExists
<1>8. \A n \in 0..K : SumIn(v, 1..n) = SumIn(w, First(row, n))
  <2> HIDE DEF v
  <2> QED
    BY <1>7
<1> QED
  BY <1>2, <1>3, <1>4, <1>5, <1>8

(* The areas of tiles are the shares their weights have.                     *)
Totals(g, fr, T) ==
  g = [s \in SUBSET T |-> IF s = {} THEN <<0, 1>> ELSE Plus(fr[Picked(s)], g[s \ {Picked(s)}])]

Totalling(fr, T) == CHOOSE g : Totals(g, fr, T)

LEMMA TotalIsFold == ASSUME NEW fr PROVE Total(fr) = Totalling(fr, DOMAIN fr)[DOMAIN fr]
BY DEF Total, FoldSeq, FoldFunction, FoldFunctionOnSet, MapThenFoldSet, Totalling, Totals, Picked

LEMMA TotalIs ==
  ASSUME NEW fr, NEW v, NEW W \in Pos, Counts(v, DOMAIN fr), \A x \in DOMAIN fr : fr[x] = Frac(v[x], W)
  PROVE  Total(fr) = Frac(SumIn(v, DOMAIN fr), W)
<1> DEFINE T == DOMAIN fr
           Share(s) == Frac(SumIn(v, s), W)
           g == [s \in SUBSET T |-> Share(s)]
<1>1. \A s \in SUBSET T : IsFiniteSet(s) /\ Counts(v, s)
  BY FS_Subset DEF Counts
<1>2. Share({}) = <<0, 1>>
  <2>1. SumIn(v, {}) = 0
    BY SumInIs
  <2> QED
    BY <2>1, ZeroIs DEF Zero
<1>3. ASSUME NEW s \in SUBSET T, s # {} 
      PROVE  Picked(s) \in s /\ s \ {Picked(s)} \in SUBSET T /\ Share(s) = Plus(fr[Picked(s)], Share(s \ {Picked(s)}))
  <2> DEFINE p == Picked(s)
             r == s \ {p}
  <2>1. Counts(v, s) /\ Counts(v, r) /\ r \in SUBSET T
    <3>1. r \in SUBSET T
      OBVIOUS
    <3> HIDE DEF r
    <3> QED
      BY <1>1, <3>1
  <2>2. p \in s /\ SumIn(v, s) = v[p] + SumIn(v, r)
    BY <1>3, <2>1, SumInIs
  <2>3. v[p] \in Nat /\ SumIn(v, r) \in Nat /\ fr[p] = Frac(v[p], W)
    <3>1. SumIn(v, r) \in Nat
      <4> HIDE DEF r
      <4> QED
        BY <2>1, SumInIs
    <3>2. p \in T
      BY <2>2
    <3> QED
      BY <3>1, <3>2 DEF Counts
  <2> HIDE DEF p, r
  <2>4. Plus(Frac(v[p], W), Frac(SumIn(v, r), W)) = Frac(v[p] + SumIn(v, r), W)
    BY <2>3, OverOne
  <2> QED
    BY <2>1, <2>2, <2>3, <2>4 DEF p, r
<1>4. Totals(g, fr, T)
  <2> HIDE DEF Share
  <2> QED
    BY <1>2, <1>3 DEF Totals
<1>5. Totals(Totalling(fr, T), fr, T)
  <2> HIDE DEF g, T
  <2> QED
    BY <1>4 DEF Totalling
<1> DEFINE h == Totalling(fr, T)
           Bad == {s \in SUBSET T : h[s] # Share(s)}
<1>6. \A s \in SUBSET T : h[s] = IF s = {} THEN <<0, 1>> ELSE Plus(fr[Picked(s)], h[s \ {Picked(s)}])
  BY <1>5 DEF Totals
<1> HIDE DEF h, Share, g
<1>7. ASSUME NEW s \in Bad, \A t \in Bad : Cardinality(s) <= Cardinality(t) PROVE FALSE
  <2>1. s \in SUBSET T /\ h[s] # Share(s)
    OBVIOUS
  <2>2. s # {}
    BY <1>2, <1>6, <2>1
  <2> DEFINE r == s \ {Picked(s)}
  <2>3. Picked(s) \in s /\ r \in SUBSET T /\ Share(s) = Plus(fr[Picked(s)], Share(r)) /\ h[s] = Plus(fr[Picked(s)], h[r])
    BY <1>3, <1>6, <2>1, <2>2
  <2>4. Cardinality(r) < Cardinality(s) /\ Cardinality(r) \in Nat /\ Cardinality(s) \in Nat
    BY <1>1, <2>1, <2>3, SmallerWithout, FS_CardinalityType
  <2>5. r \notin Bad
    <3> HIDE DEF Bad, r
    <3> QED
      BY <1>7, <2>4
  <2>6. h[r] = Share(r)
    <3> HIDE DEF r
    <3> QED
      BY <2>3, <2>5
  <2> QED
    BY <2>1, <2>3, <2>6
<1>8. Bad = {}
  <2>1. \A s \in Bad : IsFiniteSet(s)
    BY <1>1
  <2> HIDE DEF Bad
  <2> QED
    BY <1>7, <2>1, SmallestExists
<1>9. h[T] = Share(T)
  BY <1>8
<1> QED
  BY <1>9, TotalIsFold DEF h, Share

(* Rectangles, and what a row takes of one.                                  *)

LEMMA LeqAlone ==
  ASSUME NEW a \in Reduced, NEW b \in Reduced, Leq(a, b), Leq(b, a) PROVE a = b
<1>1. PICK n \in Nat, m \in Nat, k \in Nat, d \in Pos : a = Frac(n, d) /\ b = Frac(m, d) /\ b = Frac(k, d)
  BY OneDenominator
<1>2. (Leq(Frac(n, d), Frac(m, d)) <=> n <= m) /\ (Leq(Frac(m, d), Frac(n, d)) <=> m <= n)
  BY OverOne
<1>3. n <= m /\ m <= n
  BY <1>1, <1>2
<1>4. n = m
  BY <1>3
<1> QED
  BY <1>1, <1>4

(* Rectangles.                                                               *)
Rects == [x : Reduced, y : Reduced, w : Reduced, h : Reduced]

Lies(r, s) ==
  /\ Leq(s.x, r.x) /\ Leq(Plus(r.x, r.w), Plus(s.x, s.w))
  /\ Leq(s.y, r.y) /\ Leq(Plus(r.y, r.h), Plus(s.y, s.h))

AreaOf(r) == Times(r.w, r.h)

LEMMA WithinIs ==
  ASSUME NEW r \in Rects, NEW s \in Rects, NEW t \in Rects
  PROVE  /\ Lies(r, s) /\ Lies(s, t) => Lies(r, t)
         /\ Apart(r, s) /\ Lies(t, s) => Apart(r, t) /\ Apart(t, r)
<1>1. /\ {r.x, r.y, r.w, r.h, s.x, s.y, s.w, s.h, t.x, t.y, t.w, t.h} \subseteq Reduced
      /\ {Plus(r.x, r.w), Plus(r.y, r.h), Plus(s.x, s.w), Plus(s.y, s.h), Plus(t.x, t.w), Plus(t.y, t.h)} \subseteq Reduced
  <2>1. {r.x, r.y, r.w, r.h} \subseteq Reduced /\ {s.x, s.y, s.w, s.h} \subseteq Reduced /\ {t.x, t.y, t.w, t.h} \subseteq Reduced
    BY DEF Rects
  <2>2. \A a, b \in Reduced : Plus(a, b) \in Reduced
    BY Additive
  <2> QED
    BY <2>1, <2>2
<1>2. \A a, b, c \in Reduced : Leq(a, b) /\ Leq(b, c) => Leq(a, c)
  BY Additive
<1>3. Lies(r, s) /\ Lies(s, t) => Lies(r, t)
  BY <1>1, <1>2 DEF Lies
<1>4. Apart(r, s) /\ Lies(t, s) => Apart(r, t)
  BY <1>1, <1>2 DEF Lies, Apart
<1>5. Apart(r, t) => Apart(t, r)
  BY DEF Apart
<1> QED
  BY <1>3, <1>4, <1>5

LEMMA SideIs ==
  ASSUME NEW r \in Rects
  PROVE  /\ shortest_side(r) = IF Leq(r.h, r.w) THEN r.h ELSE r.w
         /\ AreaOf(r) \in Reduced /\ shortest_side(r) \in Reduced
         /\ AreaOf(r) # Zero => shortest_side(r) # Zero
<1>1. r.w \in Reduced /\ r.h \in Reduced
  BY DEF Rects
<1>2. shortest_side(r) = IF Leq(r.h, r.w) THEN r.h ELSE r.w
  <2>1. (Leq(r.h, r.w) \/ Leq(r.w, r.h)) /\ (Leq(r.h, r.w) /\ Leq(r.w, r.h) => r.w = r.h)
    BY <1>1, Additive, LeqAlone
  <2> QED
    BY <2>1 DEF shortest_side
<1>3. AreaOf(r) \in Reduced
  BY <1>1, Multiplicative DEF AreaOf
<1>4. Times(r.w, r.h) = Times(r.h, r.w) /\ Times(Zero, r.w) = Zero /\ Times(Zero, r.h) = Zero
  BY <1>1, Multiplicative
<1> QED
  BY <1>1, <1>2, <1>3, <1>4 DEF AreaOf

(* A row leaves a rectangle of what it does not take.                        *)
LEMMA ShrunkIs ==
  ASSUME NEW free \in Rects, NEW thick \in Reduced, Leq(thick, IF Leq(free.h, free.w) THEN free.w ELSE free.h)
  PROVE  /\ Shrunk(free, thick) \in Rects /\ Lies(Shrunk(free, thick), free)
         /\ Plus(Times(thick, shortest_side(free)), AreaOf(Shrunk(free, thick))) = AreaOf(free)
<1> DEFINE r == Shrunk(free, thick)
<1>1. free.w \in Reduced /\ free.h \in Reduced /\ free.x \in Reduced /\ free.y \in Reduced /\ free \in [x : Reduced, y : Reduced, w : Reduced, h : Reduced]
  BY DEF Rects
<1>2. \A a, b, c \in Reduced : /\ Plus(a, b) \in Reduced /\ Plus(a, b) = Plus(b, a) /\ Leq(a, a) /\ Leq(a, Plus(a, b))
                               /\ Plus(a, Plus(b, c)) = Plus(Plus(a, b), c)
                               /\ Leq(b, a) => Minus(a, b) \in Reduced /\ Plus(b, Minus(a, b)) = a
  BY Additive
<1>3. \A a, b, c \in Reduced : Times(a, b) = Times(b, a) /\ Times(Plus(a, b), c) = Plus(Times(a, c), Times(b, c))
  BY Multiplicative
<1>4. shortest_side(free) = IF Leq(free.h, free.w) THEN free.h ELSE free.w
  BY SideIs
<1>5. CASE Leq(free.h, free.w)
  <2> DEFINE v == Minus(free.w, thick)
             z == Plus(free.x, thick)
  <2>1. v \in Reduced /\ Plus(thick, v) = free.w /\ z \in Reduced
    BY <1>1, <1>2, <1>5
  <2>2. r = [x |-> z, y |-> free.y, w |-> v, h |-> free.h]
    BY <1>1, <1>5 DEF Shrunk
  <2>3. Plus(z, v) = Plus(free.x, free.w)
    BY <1>1, <1>2, <2>1
  <2>4. Leq(free.x, z)
    BY <1>1, <1>2
  <2> HIDE DEF v, z
  <2>5. r \in Rects
    BY <1>1, <2>1, <2>2 DEF Rects
  <2>6. Plus(free.y, free.h) \in Reduced /\ Plus(free.x, free.w) \in Reduced
    BY <1>1, <1>2
  <2>7. Lies(r, free)
    BY <1>1, <1>2, <2>2, <2>3, <2>4, <2>6 DEF Lies
  <2>8. Plus(Times(thick, free.h), Times(v, free.h)) = Times(free.w, free.h)
    BY <1>1, <1>3, <2>1
  <2> QED
    BY <1>4, <1>5, <2>2, <2>5, <2>7, <2>8 DEF AreaOf
<1>6. CASE ~Leq(free.h, free.w)
  <2> DEFINE v == Minus(free.h, thick)
             z == Plus(free.y, thick)
  <2>1. v \in Reduced /\ Plus(thick, v) = free.h /\ z \in Reduced
    BY <1>1, <1>2, <1>6
  <2>2. r = [x |-> free.x, y |-> z, w |-> free.w, h |-> v]
    BY <1>1, <1>6 DEF Shrunk
  <2>3. Plus(z, v) = Plus(free.y, free.h)
    BY <1>1, <1>2, <2>1
  <2>4. Leq(free.y, z)
    BY <1>1, <1>2
  <2> HIDE DEF v, z
  <2>5. r \in Rects
    BY <1>1, <2>1, <2>2 DEF Rects
  <2>6. Plus(free.y, free.h) \in Reduced /\ Plus(free.x, free.w) \in Reduced
    BY <1>1, <1>2
  <2>7. Lies(r, free)
    BY <1>1, <1>2, <2>2, <2>3, <2>4, <2>6 DEF Lies
  <2>8. Plus(Times(thick, free.w), Times(v, free.w)) = Times(free.w, free.h)
    <3>1. Times(free.w, free.h) = Times(free.h, free.w)
      BY <1>1, <1>3
    <3>2. Times(Plus(thick, v), free.w) = Plus(Times(thick, free.w), Times(v, free.w))
      BY <1>1, <1>3, <2>1
    <3> QED
      BY <2>1, <3>1, <3>2
  <2>9. Times(free.w, v) = Times(v, free.w)
    BY <1>1, <1>3, <2>1
  <2> QED
    BY <1>4, <1>6, <2>2, <2>5, <2>7, <2>8, <2>9 DEF AreaOf
<1> QED
  BY <1>5, <1>6

(* A tile of the row lies within what was free, beside what is left of it.   *)
LEMMA TileIs ==
  ASSUME NEW free \in Rects, NEW thick \in Reduced, Leq(thick, IF Leq(free.h, free.w) THEN free.w ELSE free.h),
         NEW off \in Reduced, NEW len \in Reduced, Leq(Plus(off, len), shortest_side(free))
  PROVE  /\ TileIn(free, thick, off, len) \in Rects /\ Lies(TileIn(free, thick, off, len), free)
         /\ AreaOf(TileIn(free, thick, off, len)) = Times(thick, len)
         /\ Apart(TileIn(free, thick, off, len), Shrunk(free, thick))
<1> DEFINE r == TileIn(free, thick, off, len)
<1>1. free.w \in Reduced /\ free.h \in Reduced /\ free.x \in Reduced /\ free.y \in Reduced /\ free \in [x : Reduced, y : Reduced, w : Reduced, h : Reduced]
  BY DEF Rects
<1>2. \A a, b, c \in Reduced : /\ Plus(a, b) \in Reduced /\ Leq(a, a) /\ Leq(a, Plus(a, b))
                               /\ Plus(a, Plus(b, c)) = Plus(Plus(a, b), c)
                               /\ Leq(a, b) => Leq(Plus(c, a), Plus(c, b))
  BY Additive
<1>3. Times(thick, len) = Times(len, thick)
  BY Multiplicative
<1>4. shortest_side(free) = IF Leq(free.h, free.w) THEN free.h ELSE free.w
  BY SideIs
<1>5. CASE Leq(free.h, free.w)
  <2> DEFINE z == Plus(free.y, off)
  <2>1. r = [x |-> free.x, y |-> z, w |-> thick, h |-> len]
    BY <1>5 DEF TileIn
  <2>2. z \in Reduced /\ Leq(free.y, z)
    BY <1>1, <1>2
  <2>3. Plus(z, len) = Plus(free.y, Plus(off, len))
    BY <1>1, <1>2
  <2> HIDE DEF z
  <2>4. r \in Rects
    BY <1>1, <2>1, <2>2 DEF Rects
  <2>5. Leq(Plus(off, len), free.h) /\ Plus(off, len) \in Reduced /\ Leq(thick, free.w)
    BY <1>2, <1>4, <1>5
  <2>6. Leq(Plus(z, len), Plus(free.y, free.h)) /\ Leq(Plus(free.x, thick), Plus(free.x, free.w)) /\ Leq(free.x, free.x)
    BY <1>1, <1>2, <2>3, <2>5
  <2>7. Lies(r, free)
    BY <2>1, <2>2, <2>6 DEF Lies
  <2>8. Shrunk(free, thick).x = Plus(free.x, thick)
    BY <1>1, <1>5 DEF Shrunk
  <2>9. Leq(Plus(free.x, thick), Plus(free.x, thick))
    BY <1>1, <1>2
  <2> QED
    BY <2>1, <2>4, <2>7, <2>8, <2>9 DEF AreaOf, Apart
<1>6. CASE ~Leq(free.h, free.w)
  <2> DEFINE z == Plus(free.x, off)
  <2>1. r = [x |-> z, y |-> free.y, w |-> len, h |-> thick]
    BY <1>6 DEF TileIn
  <2>2. z \in Reduced /\ Leq(free.x, z)
    BY <1>1, <1>2
  <2>3. Plus(z, len) = Plus(free.x, Plus(off, len))
    BY <1>1, <1>2
  <2> HIDE DEF z
  <2>4. r \in Rects
    BY <1>1, <2>1, <2>2 DEF Rects
  <2>5. Leq(Plus(off, len), free.w) /\ Plus(off, len) \in Reduced /\ Leq(thick, free.h)
    BY <1>2, <1>4, <1>6
  <2>6. Leq(Plus(z, len), Plus(free.x, free.w)) /\ Leq(Plus(free.y, thick), Plus(free.y, free.h)) /\ Leq(free.y, free.y)
    BY <1>1, <1>2, <2>3, <2>5
  <2>7. Lies(r, free)
    BY <2>1, <2>2, <2>6 DEF Lies
  <2>8. Shrunk(free, thick).y = Plus(free.y, thick)
    BY <1>1, <1>6 DEF Shrunk
  <2>9. Leq(Plus(free.y, thick), Plus(free.y, thick))
    BY <1>1, <1>2
  <2> QED
    BY <1>3, <2>1, <2>4, <2>7, <2>8, <2>9 DEF AreaOf, Apart
<1> QED
  BY <1>5, <1>6

(* Tiles one behind the other in a row are apart.                            *)
LEMMA TilesApart ==
  ASSUME NEW free \in Rects, NEW thick \in Reduced,
         NEW off \in Reduced, NEW len \in Reduced, NEW next \in Reduced, NEW other \in Reduced, Leq(Plus(off, len), next)
  PROVE  /\ Apart(TileIn(free, thick, off, len), TileIn(free, thick, next, other))
         /\ Apart(TileIn(free, thick, next, other), TileIn(free, thick, off, len))
<1>1. free.x \in Reduced /\ free.y \in Reduced
  BY DEF Rects
<1>2. ASSUME NEW z \in Reduced PROVE Leq(Plus(Plus(z, off), len), Plus(z, next))
  <2>1. Plus(Plus(z, off), len) = Plus(z, Plus(off, len)) /\ Plus(off, len) \in Reduced
    BY Additive
  <2> QED
    BY <2>1, Additive
<1>3. CASE Leq(free.h, free.w)
  BY <1>1, <1>2, <1>3 DEF TileIn, Apart
<1>4. CASE ~Leq(free.h, free.w)
  BY <1>1, <1>2, <1>4 DEF TileIn, Apart
<1> QED
  BY <1>3, <1>4

(* The row the layout places.                                                *)

(* The area each is due.                                                     *)
Shares(weights, W, N) == [i \in 1..N |-> Frac(weights[i], W)]

(* What the tiles of a row add up to.                                        *)
LEMMA RowTotals ==
  ASSUME NEW N \in Nat, NEW weights \in Lists(N, Pos), NEW W \in Pos,
         NEW area, area = Shares(weights, W, N),
         NEW K \in Nat, NEW row \in Lists(K, 1..N), Once(row, K)
  PROVE  \A n \in 0..K : Total(SubSeq(Areas(row, area), 1, n)) = Frac(SumIn(weights, First(row, n)), W)
<1> DEFINE v == Along(weights, row, K)
           areas == Areas(row, area)
<1>1. areas = [n \in 1..K |-> Frac(v[n], W)]
  BY DEF Areas, Lists, Along, Shares
<1> SUFFICES ASSUME NEW n \in 0..K PROVE Total(SubSeq(areas, 1, n)) = Frac(SumIn(weights, First(row, n)), W)
  OBVIOUS
<1>2. SubSeq(areas, 1, n) = [m \in 1..n |-> areas[m]]
  <2>1. n \in Nat /\ n <= K /\ areas = [m \in 1..K |-> areas[m]]
    BY <1>1
  <2> HIDE DEF areas
  <2>2. areas \in Seq({areas[m] : m \in 1..K}) /\ Len(areas) = K
    BY <2>1
  <2> QED
    BY <2>1, <2>2
<1>3. \A m \in 1..n : m \in 1..K
  OBVIOUS
<1>4. \A i \in 1..N : weights[i] \in Nat
  BY DEF Pos, Lists
<1>5. Counts(v, 1..n) /\ SumIn(v, 1..n) = SumIn(weights, First(row, n))
  <2>1. /\ \A m \in 0..K : Counts(Along(weights, row, K), 1..m)
        /\ \A m \in 0..K : SumIn(Along(weights, row, K), 1..m) = SumIn(weights, First(row, m))
    BY <1>4, FirstSums
  <2> QED
    BY <2>1
<1> DEFINE fr == SubSeq(areas, 1, n)
<1>6. DOMAIN fr = 1..n /\ \A m \in 1..n : fr[m] = Frac(v[m], W)
  BY <1>1, <1>2, <1>3
<1> HIDE DEF fr, v
<1>7. Total(fr) = Frac(SumIn(v, 1..n), W)
  BY <1>5, <1>6, TotalIs
<1> QED
  BY <1>5, <1>7 DEF fr

LEMMA FirstGrows ==
  ASSUME NEW K \in Nat, NEW X, NEW row \in Lists(K, X), Once(row, K), NEW w, \A x \in X : w[x] \in Nat
  PROVE  \A n, m \in 0..K : n <= m => SumIn(w, First(row, n)) <= SumIn(w, First(row, m))
<1> SUFFICES ASSUME NEW n \in 0..K
             PROVE  \A m \in 0..K : n <= m => SumIn(w, First(row, n)) <= SumIn(w, First(row, m))
  OBVIOUS
<1> DEFINE P(m) == SumIn(w, First(row, m))
           Bad == {m \in 0..K : n <= m /\ ~(P(n) <= P(m))}
<1>1. /\ \A m \in 0..K : P(m) \in Nat
      /\ \A m \in 1..K : P(m) = P(m - 1) + w[row[m]] /\ w[row[m]] \in Nat
  <2>1. \A m \in 1..K : row[m] \in X
    BY FirstIs
  <2>2. \A m \in 0..K : SumIn(w, First(row, m)) \in Nat
    BY FirstSums
  <2>3. \A m \in 1..K : SumIn(w, First(row, m)) = SumIn(w, First(row, m - 1)) + w[row[m]]
    BY FirstSums
  <2> QED
    BY <2>1, <2>2, <2>3
<1> HIDE DEF P
<1>2. ASSUME NEW k \in Bad, \A m \in Bad : k <= m PROVE FALSE
  <2>1. k \in 0..K /\ n <= k /\ ~(P(n) <= P(k)) /\ k \in Nat /\ n \in Nat /\ P(n) \in Nat /\ P(k) \in Nat
    BY <1>1
  <2>2. k # n
    BY <2>1
  <2>3. k \in 1..K /\ k - 1 \in 0..K /\ n <= k - 1 /\ ~(k <= k - 1)
    BY <2>1, <2>2
  <2>4. k - 1 \notin Bad
    <3> HIDE DEF Bad
    <3> QED
      BY <1>2, <2>3
  <2>5. P(n) <= P(k - 1) /\ P(k - 1) \in Nat
    BY <1>1, <2>3, <2>4
  <2>6. P(k) = P(k - 1) + w[row[k]] /\ w[row[k]] \in Nat
    BY <1>1, <2>3
  <2> QED
    BY <2>1, <2>5, <2>6
<1>3. Bad = {}
  <2>1. Bad \in SUBSET Nat
    OBVIOUS
  <2> HIDE DEF Bad
  <2> QED
    BY <1>2, <2>1, LeastExists
<1> QED
  BY <1>3 DEF P

LEMMA RowSums ==
  ASSUME NEW N \in Nat, NEW weights \in Lists(N, Pos), NEW K \in Nat, NEW row \in Lists(K, 1..N), Once(row, K)
  PROVE  /\ \A n \in 0..K : SumIn(weights, First(row, n)) \in Nat
         /\ \A n, m \in 0..K : n <= m => SumIn(weights, First(row, n)) <= SumIn(weights, First(row, m))
         /\ \A n \in 1..K : SumIn(weights, First(row, n)) = SumIn(weights, First(row, n - 1)) + weights[row[n]]
<1> DEFINE X == 1..N
<1>1. row \in Lists(K, X) /\ \A i \in X : weights[i] \in Nat
  BY DEF Pos, Lists
<1> HIDE DEF X
<1>2. \A n \in 0..K : SumIn(weights, First(row, n)) \in Nat
  BY <1>1, FirstSums
<1>3. \A n, m \in 0..K : n <= m => SumIn(weights, First(row, n)) <= SumIn(weights, First(row, m))
  BY <1>1, FirstGrows
<1>4. ASSUME NEW n \in 1..K PROVE SumIn(weights, First(row, n)) = SumIn(weights, First(row, n - 1)) + weights[row[n]]
  BY <1>1, FirstSums
<1> QED
  BY <1>2, <1>3, <1>4

(* The row takes its share of what was free, a tile of its own size per item. *)
LEMMA RowIs ==
  ASSUME NEW N \in Nat, NEW weights \in Lists(N, Pos), NEW W \in Pos,
         NEW area, area = Shares(weights, W, N),
         NEW K \in Pos, NEW row \in Lists(K, 1..N), Once(row, K),
         NEW free \in Rects, NEW R \in Nat, AreaOf(free) = Frac(R, W), SumIn(weights, First(row, K)) <= R,
         NEW thick, thick = Over(Total(Areas(row, area)), shortest_side(free)),
         NEW tiles, tiles = TilesOf(free, thick, Areas(row, area))
  PROVE  /\ tiles \in [1..K -> Rects]
         /\ \A n \in 1..K : /\ Lies(tiles[n], free) /\ Apart(tiles[n], Shrunk(free, thick))
                            /\ AreaOf(tiles[n]) = area[row[n]]
         /\ \A n, m \in 1..K : n # m => Apart(tiles[n], tiles[m])
         /\ Shrunk(free, thick) \in Rects /\ Lies(Shrunk(free, thick), free)
         /\ AreaOf(Shrunk(free, thick)) = Frac(R - SumIn(weights, First(row, K)), W)
<1> DEFINE P(n) == SumIn(weights, First(row, n))
           F(n) == Frac(P(n), W)
           areas == Areas(row, area)
           side == shortest_side(free)
           long == IF Leq(free.h, free.w) THEN free.w ELSE free.h
           off(n) == Over(Total(SubSeq(areas, 1, n - 1)), thick)
           len(n) == Over(areas[n], thick)
<1>1. K \in Nat /\ K > 0 /\ 0 \in 0..K /\ K \in 0..K /\ K \in 1..K /\ K - 1 \in 0..K
  BY DEF Pos
<1>2. /\ \A n \in 0..K : P(n) \in Nat
      /\ \A n, m \in 0..K : n <= m => P(n) <= P(m)
      /\ \A n \in 1..K : P(n) = P(n - 1) + weights[row[n]] /\ weights[row[n]] \in Pos /\ weights[row[n]] \in Nat /\ row[n] \in 1..N
  <2>1. \A n \in 1..K : row[n] \in 1..N /\ weights[row[n]] \in Pos /\ weights[row[n]] \in Nat
    BY DEF Pos, Lists
  <2>2. \A n \in 0..K : P(n) \in Nat
    BY <1>1, RowSums
  <2>3. \A n \in 1..K : P(n) = P(n - 1) + weights[row[n]]
    BY <1>1, RowSums
  <2>4. \A n, m \in 0..K : n <= m => P(n) <= P(m)
    BY <1>1, RowSums
  <2> HIDE DEF P
  <2> QED
    BY <2>1, <2>2, <2>3, <2>4
<1>3. \A n \in 0..K : Total(SubSeq(areas, 1, n)) = F(n)
  BY <1>1, RowTotals
<1>4. Total(areas) = F(K)
  <2>1. areas = [n \in 1..K |-> area[row[n]]]
    BY DEF Areas, Lists
  <2>2. SubSeq(areas, 1, K) = areas
    <3>1. areas = [n \in 1..K |-> areas[n]]
      BY <2>1
    <3> HIDE DEF areas
    <3>2. areas \in Seq({areas[n] : n \in 1..K}) /\ Len(areas) = K
      BY <1>1, <3>1
    <3> QED
      BY <1>1, <3>1, <3>2
  <2> HIDE DEF F, areas
  <2> QED
    BY <1>1, <1>3, <2>2
<1>5. \A n \in 1..K : areas[n] = Frac(weights[row[n]], W) /\ area[row[n]] = areas[n] /\ areas[n] \in Reduced
  BY <1>2, FracIs DEF Areas, Lists, Shares
<1>6. DOMAIN areas = 1..K
  BY DEF Areas, Lists
<1> HIDE DEF P, areas
<1>7. \A n \in 0..K : F(n) \in Reduced
  BY <1>2, FracIs
<1>8. P(K) > 0
  <2>1. P(K) = P(K - 1) + weights[row[K]] /\ P(K - 1) \in Nat /\ weights[row[K]] > 0 /\ weights[row[K]] \in Nat
    BY <1>1, <1>2 DEF Pos
  <2> QED
    BY <2>1
<1>9. F(K) # Zero
  BY <1>1, <1>2, <1>8, ZeroIs
<1>10. AreaOf(free) # Zero /\ R # 0
  <2>1. R # 0
    BY <1>1, <1>2, <1>8 DEF P
  <2> QED
    BY <2>1, ZeroIs
<1>11. side \in Reduced /\ side # Zero /\ long \in Reduced /\ AreaOf(free) = Times(side, long)
  <2>1. free.w \in Reduced /\ free.h \in Reduced
    BY DEF Rects
  <2>2. Times(free.w, free.h) = Times(free.h, free.w)
    BY <2>1, Multiplicative
  <2>3. side = (IF Leq(free.h, free.w) THEN free.h ELSE free.w) /\ side \in Reduced /\ side # Zero
    BY <1>10, SideIs
  <2> QED
    BY <2>1, <2>2, <2>3 DEF AreaOf
<1> HIDE DEF side, long, F
<1>12. thick = Over(F(K), side)
  BY <1>4 DEF side, areas
<1>13. thick \in Reduced /\ thick # Zero /\ Over(F(K), thick) = side /\ Times(side, thick) = F(K)
  BY <1>1, <1>7, <1>9, <1>11, <1>12, Quotients
<1>14. Leq(thick, long)
  <2>1. Leq(F(K), AreaOf(free))
    <3>1. Leq(Frac(P(K), W), Frac(R, W)) <=> P(K) <= R
      BY <1>1, <1>2, OverOne
    <3> QED
      BY <3>1 DEF F, P
  <2>2. Leq(F(K), Times(side, long))
    BY <1>11, <2>1
  <2> QED
    BY <1>1, <1>7, <1>11, <1>12, <2>2, Quotients
<1>15. ASSUME NEW n \in 1..K
       PROVE  /\ n \in 0..K /\ n - 1 \in 0..K /\ off(n) \in Reduced /\ len(n) \in Reduced
              /\ off(n) = Over(F(n - 1), thick)
              /\ Plus(off(n), len(n)) = Over(F(n), thick) /\ Leq(Plus(off(n), len(n)), side)
              /\ Times(thick, len(n)) = area[row[n]]
  <2>1. n \in 0..K /\ n - 1 \in 0..K /\ n <= K
    BY <1>1
  <2>2. off(n) = Over(F(n - 1), thick)
    BY <1>3, <2>1
  <2>3. areas[n] = Frac(weights[row[n]], W) /\ area[row[n]] = areas[n] /\ areas[n] \in Reduced
    BY <1>5
  <2>4. Plus(F(n - 1), areas[n]) = F(n)
    <3>1. Plus(Frac(P(n - 1), W), Frac(weights[row[n]], W)) = Frac(P(n - 1) + weights[row[n]], W)
      <4>1. P(n - 1) \in Nat /\ weights[row[n]] \in Nat
        BY <1>2, <2>1
      <4>2. \A i, j \in Nat : Plus(Frac(i, W), Frac(j, W)) = Frac(i + j, W)
        BY OverOne
      <4> QED
        BY <4>1, <4>2
    <3> QED
      BY <1>2, <2>3, <3>1 DEF F
  <2>5. /\ off(n) \in Reduced /\ len(n) \in Reduced /\ Times(thick, len(n)) = area[row[n]]
        /\ Plus(off(n), len(n)) = Over(Plus(F(n - 1), areas[n]), thick)
    <3>1. F(n - 1) \in Reduced
      BY <1>7, <2>1
    <3> QED
      BY <1>13, <2>2, <2>3, <3>1, Quotients
  <2>6. Leq(F(n), F(K))
    <3>1. P(n) \in Nat /\ P(K) \in Nat /\ P(n) <= P(K)
      BY <1>1, <1>2, <2>1
    <3>2. Leq(Frac(P(n), W), Frac(P(K), W)) <=> P(n) <= P(K)
      BY <3>1, OverOne
    <3> QED
      BY <3>1, <3>2 DEF F
  <2>7. Leq(Over(F(n), thick), Over(F(K), thick))
    BY <1>1, <1>7, <1>13, <2>1, <2>6, Quotients
  <2> QED
    BY <1>13, <2>1, <2>2, <2>4, <2>5, <2>7
<1>16. \A n \in 1..K : tiles[n] = TileIn(free, thick, off(n), len(n))
  BY <1>6 DEF TilesOf, areas
<1>17. tiles = [n \in 1..K |-> tiles[n]]
  BY <1>6 DEF TilesOf, areas
<1> HIDE DEF off, len
<1>18. ASSUME NEW n \in 1..K
       PROVE  /\ tiles[n] \in Rects /\ Lies(tiles[n], free) /\ Apart(tiles[n], Shrunk(free, thick))
              /\ AreaOf(tiles[n]) = area[row[n]]
  BY <1>13, <1>14, <1>15, <1>16, TileIs DEF side, long
<1>19. ASSUME NEW n \in 1..K, NEW m \in 1..K, n < m PROVE Apart(tiles[n], tiles[m]) /\ Apart(tiles[m], tiles[n])
  <2>1. n \in 0..K /\ m - 1 \in 0..K /\ n <= m - 1
    BY <1>1, <1>19
  <2>2. Leq(F(n), F(m - 1))
    <3>1. P(n) \in Nat /\ P(m - 1) \in Nat /\ P(n) <= P(m - 1)
      BY <1>2, <2>1
    <3>2. Leq(Frac(P(n), W), Frac(P(m - 1), W)) <=> P(n) <= P(m - 1)
      BY <3>1, OverOne
    <3> QED
      BY <3>1, <3>2 DEF F
  <2>3. Leq(Over(F(n), thick), Over(F(m - 1), thick))
    <3>1. F(n) \in Reduced /\ F(m - 1) \in Reduced
      BY <1>7, <2>1
    <3> QED
      BY <1>13, <2>2, <3>1, Quotients
  <2>4. Leq(Plus(off(n), len(n)), off(m))
    BY <1>15, <2>3
  <2> QED
    BY <1>13, <1>15, <1>16, <2>4, TilesApart
<1>20. ASSUME NEW n \in 1..K, NEW m \in 1..K, n # m PROVE Apart(tiles[n], tiles[m])
  <2>1. n < m \/ m < n
    BY <1>1, <1>20
  <2> QED
    BY <1>19, <2>1
<1> DEFINE r == Shrunk(free, thick)
<1>21. r \in Rects /\ Lies(r, free) /\ Plus(Times(thick, side), AreaOf(r)) = AreaOf(free)
  BY <1>13, <1>14, ShrunkIs DEF side, long
<1>22. AreaOf(r) = Frac(R - P(K), W)
  <2>1. P(K) \in Nat /\ R - P(K) \in Nat /\ P(K) + (R - P(K)) = R
    <3>1. P(K) \in Nat /\ P(K) <= R
      BY <1>1, <1>2 DEF P
    <3> QED
      BY <3>1
  <2>2. Frac(R - P(K), W) \in Reduced /\ Plus(F(K), Frac(R - P(K), W)) = AreaOf(free)
    <3>1. Plus(Frac(P(K), W), Frac(R - P(K), W)) = Frac(P(K) + (R - P(K)), W)
      BY <2>1, OverOne
    <3> QED
      BY <2>1, <3>1, FracIs DEF F
  <2>3. Times(thick, side) = F(K)
    <3>1. Times(thick, side) = Times(side, thick)
      BY <1>11, <1>13, Multiplicative
    <3> QED
      BY <1>13, <3>1
  <2>4. AreaOf(r) \in Reduced /\ F(K) \in Reduced
    BY <1>1, <1>7, <1>21, SideIs
  <2> HIDE DEF r
  <2> QED
    BY <1>21, <2>2, <2>3, <2>4, Additive
<1>23. tiles \in [1..K -> Rects]
  BY <1>17, <1>18
<1> QED
  BY <1>18, <1>20, <1>21, <1>22, <1>23 DEF P

(* The items, offered one after the other.                                   *)

(* What is placed lies in the square, apart from all else and of its size.   *)
PlacedWell(out, free, D, weights, W) ==
  \A i \in D : /\ Lies(out[i], Unit) /\ Apart(out[i], free) /\ AreaOf(out[i]) = Frac(weights[i], W)
               /\ \A j \in D : i # j => Apart(out[i], out[j])

(* In the middle of it: of what was offered all is placed or in the row, and *)
(* what is free is as large as what is not placed.                           *)
Packing(st, S, N, weights, W) ==
  /\ st = [free |-> st.free, row |-> st.row, out |-> st.out]
  /\ st.free \in Rects /\ Lies(st.free, Unit) /\ st.out \in Lists(N, Rects)
  /\ \E K \in Nat : st.row \in Lists(K, 1..N) /\ Once(st.row, K)
  /\ ToSet(st.row) \subseteq S
  /\ PlacedWell(st.out, st.free, S \ ToSet(st.row), weights, W)
  /\ AreaOf(st.free) = Frac(SumIn(weights, (1..N) \ (S \ ToSet(st.row))), W)

LEMMA UnitIs == Unit \in Rects /\ Lies(Unit, Unit) /\ \A W \in Pos : AreaOf(Unit) = Frac(W, W)
<1>1. <<1, 1>> \in Reduced
  <2>1. 1 * 1 + 1 * 0 = 1
    OBVIOUS
  <2>2. Coprime(1, 1)
    BY <2>1 DEF Coprime
  <2> QED
    BY <2>2 DEF Reduced, Pos
<1>2. <<1, 1>> = Frac(1, 1)
  BY <1>1, FracOf
<1>3. Unit \in Rects
  BY <1>1, ZeroIs DEF Unit, Rects, Zero
<1>4. \A a \in Reduced : Leq(a, a)
  BY Additive
<1>5. Lies(Unit, Unit)
  <2>1. \A a, b \in Reduced : Plus(a, b) \in Reduced
    BY Additive
  <2> QED
    BY <1>3, <1>4, <2>1 DEF Lies, Rects
<1>6. ASSUME NEW W \in Pos PROVE AreaOf(Unit) = Frac(W, W)
  <2>1. 1 \in Pos /\ 1 \in Nat /\ W \in Nat /\ 1 * 1 = 1 /\ 1 * W = W * 1
    BY DEF Pos
  <2>2. Times(Frac(1, 1), Frac(1, 1)) = Frac(1 * 1, 1 * 1)
    BY <2>1, FracOps
  <2>3. Frac(1, 1) = Frac(W, W)
    BY <2>1, FracSame
  <2> QED
    BY <1>2, <2>1, <2>2, <2>3 DEF AreaOf, Unit
<1> QED
  BY <1>3, <1>5, <1>6

LEMMA FewCount ==
  ASSUME NEW N \in Nat, NEW weights \in Lists(N, Pos), NEW s \in SUBSET (1..N)
  PROVE  /\ Counts(weights, s) /\ SumIn(weights, s) \in Nat
         /\ \A i \in s : SumIn(weights, s) # 0
<1>1. IsFiniteSet(1..N)
  <2>1. 1 \in Int /\ N \in Int
    OBVIOUS
  <2> QED
    BY <2>1, FS_Interval
<1>2. Counts(weights, s)
  BY <1>1, FS_Subset DEF Counts, Lists, Pos
<1>3. SumIn(weights, s) \in Nat
  BY <1>2, SumInIs
<1>4. ASSUME NEW i \in s PROVE SumIn(weights, s) # 0
  <2>1. SumIn(weights, s) = weights[i] + SumIn(weights, s \ {i})
    BY <1>2, SumWithout
  <2>2. Counts(weights, s \ {i})
    BY <1>1, FS_Subset DEF Counts, Lists, Pos
  <2>3. SumIn(weights, s \ {i}) \in Nat
    BY <2>2, SumInIs
  <2>4. weights[i] \in Nat /\ weights[i] > 0
    BY DEF Lists, Pos
  <2> QED
    BY <2>1, <2>3, <2>4
<1> QED
  BY <1>2, <1>3, <1>4

(* A row that is placed is placed well.                                      *)
LEMMA PlaceRowHolds ==
  ASSUME NEW N \in Nat, NEW weights \in Lists(N, Pos), NEW W \in Pos,
         NEW area, area = Shares(weights, W, N),
         NEW S \in SUBSET (1..N), NEW st, Packing(st, S, N, weights, W), st.row # <<>>
  PROVE  Packing(place_row(st, area), S, N, weights, W) /\ place_row(st, area).row = <<>>
<1> DEFINE row == st.row
           free == st.free
           thick == Over(Total(Areas(row, area)), shortest_side(free))
           tiles == TilesOf(free, thick, Areas(row, area))
           rest == Shrunk(free, thick)
           D == S \ ToSet(row)
           R == SumIn(weights, (1..N) \ D)
           new == place_row(st, area)
<1>1. PICK K \in Nat : row \in Lists(K, 1..N) /\ Once(row, K)
  BY DEF Packing
<1>2. K \in Pos
  <2>1. K # 0
    <3>1. ASSUME K = 0 PROVE row = <<>>
      BY <1>1, <3>1 DEF Lists
    <3> QED
      BY <3>1
  <2> QED
    BY <2>1 DEF Pos
<1>3. ToSet(row) = First(row, K) /\ DOMAIN row = 1..K /\ \A n \in 1..K : row[n] \in ToSet(row) /\ row[n] \in 1..N
  BY <1>1 DEF ToSet, First, Lists
<1>4. /\ free \in Rects /\ Lies(free, Unit) /\ st.out \in Lists(N, Rects) /\ ToSet(row) \subseteq S
      /\ PlacedWell(st.out, free, D, weights, W) /\ AreaOf(free) = Frac(R, W)
  BY DEF Packing
<1>5. /\ R \in Nat /\ SumIn(weights, ToSet(row)) \in Nat /\ SumIn(weights, (1..N) \ S) \in Nat
      /\ R = SumIn(weights, ToSet(row)) + SumIn(weights, (1..N) \ S)
  <2>1. Counts(weights, ToSet(row)) /\ Counts(weights, (1..N) \ S) /\ SumIn(weights, ToSet(row)) \in Nat /\ SumIn(weights, (1..N) \ S) \in Nat
    BY <1>4, FewCount
  <2>2. (1..N) \ D = ToSet(row) \cup ((1..N) \ S) /\ ToSet(row) \cap ((1..N) \ S) = {}
    BY <1>4
  <2>3. SumIn(weights, ToSet(row) \cup ((1..N) \ S)) = SumIn(weights, ToSet(row)) + SumIn(weights, (1..N) \ S)
    BY <2>1, <2>2, SumOfParts
  <2>4. R = SumIn(weights, ToSet(row) \cup ((1..N) \ S))
    BY <2>2
  <2>5. R \in Nat
    <3>1. (1..N) \ D \in SUBSET (1..N)
      OBVIOUS
    <3> HIDE DEF D
    <3> QED
      BY <3>1, FewCount
  <2> HIDE DEF R
  <2> QED
    BY <2>1, <2>3, <2>4, <2>5
<1> DEFINE P == SumIn(weights, ToSet(row))
           Q == SumIn(weights, (1..N) \ S)
<1>6. P <= R /\ R - P = Q
  <2> HIDE DEF P, Q, R
  <2> QED
    BY <1>5 DEF P, Q
<1> HIDE DEF D, R
<1>7. /\ tiles \in [1..K -> Rects]
      /\ \A n \in 1..K : Lies(tiles[n], free) /\ Apart(tiles[n], rest) /\ AreaOf(tiles[n]) = area[row[n]]
      /\ \A n, m \in 1..K : n # m => Apart(tiles[n], tiles[m])
      /\ rest \in Rects /\ Lies(rest, free) /\ AreaOf(rest) = Frac(R - P, W)
  <2> HIDE DEF row, free, thick, tiles, rest, P
  <2>1. SumIn(weights, First(row, K)) = P /\ SumIn(weights, First(row, K)) <= R
    BY <1>3, <1>6 DEF P
  <2>2. thick = Over(Total(Areas(row, area)), shortest_side(free)) /\ tiles = TilesOf(free, thick, Areas(row, area))
    BY DEF thick, tiles
  <2>3. R \in Nat /\ free \in Rects /\ AreaOf(free) = Frac(R, W)
    BY <1>4, <1>5
  <2>4. /\ tiles \in [1..K -> Rects]
        /\ \A n \in 1..K : Lies(tiles[n], free) /\ Apart(tiles[n], Shrunk(free, thick)) /\ AreaOf(tiles[n]) = area[row[n]]
        /\ \A n, m \in 1..K : n # m => Apart(tiles[n], tiles[m])
        /\ Shrunk(free, thick) \in Rects /\ Lies(Shrunk(free, thick), free)
        /\ AreaOf(Shrunk(free, thick)) = Frac(R - SumIn(weights, First(row, K)), W)
    BY <1>1, <1>2, <2>1, <2>2, <2>3, RowIs
  <2> QED
    BY <2>1, <2>4 DEF rest
<1> DEFINE at(i) == CHOOSE n \in DOMAIN row : row[n] = i
<1>8. new = [free |-> rest, row |-> <<>>, out |-> [i \in 1..N |-> IF i \in ToSet(row) THEN tiles[at(i)] ELSE st.out[i]]]
  <2>1. new = [free |-> rest, row |-> <<>>, out |-> [i \in DOMAIN st.out |-> IF i \in ToSet(row) THEN tiles[at(i)] ELSE st.out[i]]]
    <3> HIDE DEF thick, tiles, at
    <3>1. new = PlaceAlong(st, thick, tiles)
      BY DEF place_row, PlaceThick, thick, tiles
    <3> QED
      BY <3>1 DEF PlaceAlong, at
  <2>2. DOMAIN st.out = 1..N
    BY <1>4 DEF Lists
  <2> QED
    BY <2>1, <2>2
<1>9. ASSUME NEW i \in ToSet(row)
      PROVE  at(i) \in 1..K /\ row[at(i)] = i /\ i \in 1..N /\ new.out[i] = tiles[at(i)]
  <2>1. \E n \in DOMAIN row : row[n] = i
    BY DEF ToSet
  <2>2. at(i) \in 1..K /\ row[at(i)] = i
    BY <1>3, <2>1
  <2>3. i \in 1..N
    BY <1>4
  <2> HIDE DEF at, tiles, rest, new, row
  <2> QED
    BY <1>8, <2>2, <2>3
<1>10. \A i \in D : i \in 1..N /\ i \notin ToSet(row) /\ new.out[i] = st.out[i]
  <2> HIDE DEF at, tiles, rest, new, row
  <2> QED
    BY <1>8 DEF D
<1> HIDE DEF at, tiles, rest, new, free, row, thick, P, Q
<1>11. new.free = rest /\ new.row = <<>> /\ new = [free |-> new.free, row |-> new.row, out |-> new.out]
  BY <1>8
<1>12. new.out \in Lists(N, Rects)
  <2>1. \A i \in 1..N : i \in ToSet(row) => tiles[at(i)] \in Rects
    BY <1>7, <1>9
  <2>2. \A i \in 1..N : st.out[i] \in Rects
    BY <1>4 DEF Lists
  <2> QED
    BY <1>8, <2>1, <2>2 DEF Lists
<1>13. ToSet(new.row) = {} /\ new.row \in Lists(0, 1..N) /\ Once(new.row, 0)
  BY <1>11 DEF ToSet, Lists, Once
<1>14. Lies(rest, Unit)
  BY <1>4, <1>7, UnitIs, WithinIs
<1>15. ASSUME NEW i \in D
       PROVE  /\ st.out[i] \in Rects /\ Lies(st.out[i], Unit) /\ Apart(st.out[i], free)
              /\ AreaOf(st.out[i]) = Frac(weights[i], W)
              /\ \A j \in D : i # j => Apart(st.out[i], st.out[j])
  BY <1>4, <1>10 DEF PlacedWell, Lists
<1>16. ASSUME NEW i \in ToSet(row)
       PROVE  /\ new.out[i] \in Rects /\ Lies(new.out[i], Unit) /\ Apart(new.out[i], rest)
              /\ AreaOf(new.out[i]) = Frac(weights[i], W)
              /\ \A j \in ToSet(row) : i # j => Apart(new.out[i], new.out[j])
              /\ \A j \in D : Apart(new.out[i], new.out[j]) /\ Apart(new.out[j], new.out[i])
  <2>1. /\ at(i) \in 1..K /\ row[at(i)] = i /\ i \in 1..N /\ new.out[i] = tiles[at(i)] /\ tiles[at(i)] \in Rects
        /\ Lies(tiles[at(i)], free)
    BY <1>7, <1>9
  <2>2. Lies(new.out[i], Unit)
    BY <1>4, <2>1, UnitIs, WithinIs
  <2>3. AreaOf(new.out[i]) = Frac(weights[i], W)
    BY <1>7, <2>1 DEF Shares
  <2>4. ASSUME NEW j \in ToSet(row), i # j PROVE Apart(new.out[i], new.out[j])
    <3>1. at(j) \in 1..K /\ row[at(j)] = j /\ new.out[j] = tiles[at(j)]
      BY <1>9
    <3>2. at(i) # at(j)
      BY <2>1, <2>4, <3>1
    <3> QED
      BY <1>7, <2>1, <3>1, <3>2
  <2>5. ASSUME NEW j \in D PROVE Apart(new.out[i], new.out[j]) /\ Apart(new.out[j], new.out[i])
    <3>1. new.out[j] = st.out[j] /\ st.out[j] \in Rects /\ Apart(st.out[j], free)
      BY <1>10, <1>15
    <3> QED
      BY <1>4, <2>1, <3>1, WithinIs
  <2> QED
    BY <1>7, <2>1, <2>2, <2>3, <2>4, <2>5
<1>17. ASSUME NEW i \in D PROVE Apart(new.out[i], rest)
  BY <1>4, <1>7, <1>10, <1>15, WithinIs
<1>18. PlacedWell(new.out, rest, S, weights, W)
  <2>1. \A i \in S : i \in D \/ i \in ToSet(row)
    BY DEF D
  <2>2. ASSUME NEW i \in D
        PROVE  /\ Lies(new.out[i], Unit) /\ Apart(new.out[i], rest) /\ AreaOf(new.out[i]) = Frac(weights[i], W)
               /\ \A j \in S : i # j => Apart(new.out[i], new.out[j])
    BY <1>10, <1>15, <1>16, <1>17, <2>1
  <2>3. ASSUME NEW i \in ToSet(row)
        PROVE  /\ Lies(new.out[i], Unit) /\ Apart(new.out[i], rest) /\ AreaOf(new.out[i]) = Frac(weights[i], W)
               /\ \A j \in S : i # j => Apart(new.out[i], new.out[j])
    BY <1>16, <2>1
  <2> QED
    BY <2>1, <2>2, <2>3 DEF PlacedWell
<1>19. S \ ToSet(new.row) = S /\ ToSet(new.row) \subseteq S /\ 0 \in Nat
  BY <1>13
<1>20. AreaOf(rest) = Frac(SumIn(weights, (1..N) \ S), W)
  BY <1>6, <1>7 DEF Q
<1>21. Packing(new, S, N, weights, W)
  BY <1>7, <1>11, <1>12, <1>13, <1>14, <1>18, <1>19, <1>20 DEF Packing
<1> QED
  BY <1>11, <1>21 DEF new

(* While something is left to place there is room for it.                    *)
LEMMA RoomIsLeft ==
  ASSUME NEW N \in Nat, NEW weights \in Lists(N, Pos), NEW W \in Pos, NEW S \in SUBSET (1..N), NEW st,
         Packing(st, S, N, weights, W), NEW i \in (1..N) \ S
  PROVE  shortest_side(st.free)[1] # 0
<1> DEFINE T == (1..N) \ (S \ ToSet(st.row))
<1>1. i \in T /\ T \in SUBSET (1..N)
  OBVIOUS
<1>2. st.free \in Rects /\ AreaOf(st.free) = Frac(SumIn(weights, T), W)
  BY DEF Packing
<1> HIDE DEF T
<1>3. SumIn(weights, T) \in Nat /\ SumIn(weights, T) # 0
  BY <1>1, FewCount
<1>4. AreaOf(st.free) # Zero
  BY <1>2, <1>3, ZeroIs
<1>5. shortest_side(st.free) \in Reduced /\ shortest_side(st.free) # Zero
  BY <1>2, <1>4, SideIs
<1> QED
  BY <1>5, ZeroIs

LEMMA AppendHolds ==
  ASSUME NEW N \in Nat, NEW weights, NEW W, NEW S \in SUBSET (1..N), NEW st,
         Packing(st, S, N, weights, W), NEW i \in (1..N) \ S
  PROVE  Packing([st EXCEPT !.row = Append(@, i)], S \cup {i}, N, weights, W)
<1> DEFINE row == st.row
           new == Append(row, i)
           next == [st EXCEPT !.row = new]
<1>1. PICK K \in Nat : row \in Lists(K, 1..N) /\ Once(row, K)
  BY DEF Packing
<1>2. row \in [1..K -> 1..N] /\ row \in Seq(1..N) /\ Len(row) = K
  BY <1>1 DEF Lists
<1>3. new = [n \in 1..(K+1) |-> IF n = K + 1 THEN i ELSE row[n]]
  BY <1>2
<1>4. i \notin ToSet(row) /\ ToSet(row) \subseteq S
  BY DEF Packing
<1>5. \A n \in 1..(K+1) : n = K + 1 \/ n \in 1..K
  OBVIOUS
<1>6. \A n \in 1..K : n \in 1..(K+1) /\ n # K + 1 /\ row[n] \in ToSet(row)
  BY <1>2 DEF ToSet
<1>7. K + 1 \in Nat /\ K + 1 \in 1..(K+1)
  OBVIOUS
<1> HIDE DEF new, row
<1>8. new \in Lists(K + 1, 1..N)
  BY <1>2, <1>3, <1>5 DEF Lists
<1>9. Once(new, K + 1)
  BY <1>1, <1>3, <1>4, <1>5, <1>6 DEF Once
<1>10. ToSet(new) = ToSet(row) \cup {i}
  <2>1. DOMAIN new = 1..(K+1) /\ DOMAIN row = 1..K
    BY <1>2, <1>3
  <2>2. \A n \in 1..(K+1) : new[n] = i \/ (n \in 1..K /\ new[n] = row[n])
    BY <1>3, <1>5
  <2>3. new[K + 1] = i /\ \A n \in 1..K : new[n] = row[n] /\ n \in 1..(K+1)
    BY <1>3, <1>6, <1>7
  <2>4. \A x \in ToSet(new) : x \in ToSet(row) \cup {i}
    BY <2>1, <2>2 DEF ToSet
  <2>5. i \in ToSet(new)
    BY <1>7, <2>1, <2>3 DEF ToSet
  <2>6. \A x \in ToSet(row) : x \in ToSet(new)
    BY <2>1, <2>3 DEF ToSet
  <2> QED
    BY <2>4, <2>5, <2>6
<1>11. (S \cup {i}) \ ToSet(new) = S \ ToSet(row) /\ ToSet(new) \subseteq S \cup {i}
  BY <1>4, <1>10
<1>12. next = [free |-> st.free, row |-> new, out |-> st.out]
  BY DEF Packing, row
<1>13. next.free = st.free /\ next.row = new /\ next.out = st.out /\ next = [free |-> next.free, row |-> next.row, out |-> next.out]
  BY <1>12
<1> HIDE DEF next
<1>14. /\ st.free \in Rects /\ Lies(st.free, Unit) /\ st.out \in Lists(N, Rects)
       /\ PlacedWell(st.out, st.free, S \ ToSet(row), weights, W)
       /\ AreaOf(st.free) = Frac(SumIn(weights, (1..N) \ (S \ ToSet(row))), W)
  BY DEF Packing, row
<1>15. Packing(next, S \cup {i}, N, weights, W)
  BY <1>7, <1>8, <1>9, <1>11, <1>13, <1>14 DEF Packing
<1> QED
  BY <1>15 DEF next, new, row

LEMMA OfferHolds ==
  ASSUME NEW N \in Nat, NEW weights \in Lists(N, Pos), NEW W \in Pos,
         NEW area, area = Shares(weights, W, N),
         NEW S \in SUBSET (1..N), NEW st, Packing(st, S, N, weights, W), NEW i \in (1..N) \ S
  PROVE  Packing(Offer(st, i, area), S \cup {i}, N, weights, W)
<1>1. shortest_side(st.free)[1] # 0
  BY RoomIsLeft
<1>2. area[i][1] # 0
  <2>1. area[i] = Frac(weights[i], W) /\ weights[i] \in Nat /\ weights[i] # 0
    BY DEF Shares, Lists, Pos
  <2>2. area[i] \in Reduced /\ area[i] # Zero
    BY <2>1, FracIs, ZeroIs
  <2> QED
    BY <2>2, ZeroIs
<1>3. CASE Fits(st.row, i, area, shortest_side(st.free))
  <2>1. Offer(st, i, area) = [st EXCEPT !.row = Append(@, i)]
    BY <1>1, <1>2, <1>3 DEF Offer
  <2> QED
    BY <2>1, AppendHolds
<1>4. CASE ~Fits(st.row, i, area, shortest_side(st.free))
  <2> DEFINE new == place_row(st, area)
  <2>1. Offer(st, i, area) = Begin(new, i)
    BY <1>1, <1>2, <1>4 DEF Offer
  <2>2. st.row # <<>>
    BY <1>4 DEF Fits
  <2>3. Packing(new, S, N, weights, W) /\ new.row = <<>>
    BY <2>2, PlaceRowHolds
  <2> HIDE DEF new
  <2>4. shortest_side(new.free)[1] # 0
    BY <2>3, RoomIsLeft
  <2>5. Begin(new, i) = [new EXCEPT !.row = Append(@, i)]
    <3>1. Append(<<>>, i) = <<i>>
      OBVIOUS
    <3> QED
      BY <2>3, <2>4, <3>1 DEF Begin
  <2>6. Packing([new EXCEPT !.row = Append(@, i)], S \cup {i}, N, weights, W)
    BY <2>3, AppendHolds
  <2> QED
    BY <2>1, <2>5, <2>6
<1> QED
  BY <1>3, <1>4

(* The fold: what is offered, one by one.                                    *)
Offers(g, order, area, base) ==
  g = [s \in SUBSET DOMAIN order |-> IF s = {} THEN base ELSE Offer(g[s \ {Max(s)}], order[Max(s)], area)]

Offering(order, area, base) == CHOOSE g : Offers(g, order, area, base)

LEMMA PackedIsFold ==
  ASSUME NEW weights, NEW area
  PROVE  Packed(weights, area) =
           place_rest(Offering(Sorted(weights), area, Unplaced(weights))[DOMAIN Sorted(weights)], area)
BY DEF Packed, FoldLeft, MapThenFoldSet, Offering, Offers

LEMMA OfferingExists ==
  ASSUME NEW N \in Nat, NEW X, NEW order \in Lists(N, X), NEW area, NEW base
  PROVE  Offers(Offering(order, area, base), order, area, base)
<1> DEFINE T == DOMAIN order
           Dom(n) == {s \in SUBSET T : Cardinality(s) <= n}
           At(h, s) == IF s = {} THEN base ELSE Offer(h[s \ {Max(s)}], order[Max(s)], area)
           Part(g, n) == g = [s \in Dom(n) |-> At(g, s)]
           Bad == {n \in Nat : ~\E g : Part(g, n)}
<1>1. T = 1..N /\ IsFiniteSet(T)
  <2>1. 1 \in Int /\ N \in Int /\ T = 1..N
    BY DEF Lists
  <2> QED
    BY <2>1, FS_Interval
<1>2. \A s \in SUBSET T : /\ IsFiniteSet(s) /\ Cardinality(s) \in Nat /\ Cardinality(s) <= Cardinality(T)
                          /\ s # {} => Max(s) \in s
  BY <1>1, FS_Subset, FS_CardinalityType, MaxOf
<1>3. ASSUME NEW n \in Nat, n # 0, NEW s \in Dom(n), s # {} PROVE s \ {Max(s)} \in Dom(n - 1)
  <2>1. s \in SUBSET T /\ Cardinality(s) <= n /\ Max(s) \in s
    BY <1>2, <1>3
  <2>2. Cardinality(s \ {Max(s)}) = Cardinality(s) - 1 /\ Cardinality(s) \in Nat
    BY <1>2, <2>1, FS_RemoveElement
  <2>3. Cardinality(s \ {Max(s)}) <= n - 1
    BY <2>1, <2>2
  <2> QED
    BY <2>1, <2>3
<1>4. ASSUME NEW n \in Nat, NEW s \in Dom(n - 1) PROVE s \in Dom(n)
  BY <1>2
<1>5. \A s \in Dom(0) : s = {}
  BY <1>2, FS_EmptySet
<1>6. Dom(Cardinality(T)) = SUBSET T /\ Cardinality(T) \in Nat
  BY <1>1, <1>2, FS_CardinalityType
<1> HIDE DEF Dom, T
<1>7. ASSUME NEW n \in Bad, \A m \in Bad : n <= m PROVE FALSE
  <2>1. n \in Nat /\ ~\E g : Part(g, n)
    OBVIOUS
  <2>2. CASE n = 0
    <3> DEFINE g == [s \in Dom(0) |-> base]
    <3>1. g = [s \in Dom(0) |-> At(g, s)]
      BY <1>5
    <3> QED
      BY <2>1, <2>2, <3>1
  <2>3. CASE n # 0
    <3>1. n - 1 \in Nat /\ n - 1 \notin Bad
      <4> HIDE DEF Bad
      <4> QED
        BY <2>1, <2>3, <1>7
    <3>2. PICK h : Part(h, n - 1)
      BY <3>1
    <3> DEFINE g == [s \in Dom(n) |-> At(h, s)]
    <3>3. \A s \in Dom(n - 1) : g[s] = h[s]
      <4> HIDE DEF At
      <4> QED
        BY <2>1, <1>4, <3>2
    <3>4. \A s \in Dom(n) : At(h, s) = At(g, s)
      <4> HIDE DEF g
      <4> QED
        BY <1>3, <2>1, <2>3, <3>3
    <3>5. g = [s \in Dom(n) |-> At(g, s)]
      <4> HIDE DEF At
      <4> QED
        BY <3>4
    <3> HIDE DEF g
    <3> QED
      BY <2>1, <3>5
  <2> QED
    BY <2>2, <2>3
<1>8. Bad = {}
  <2> HIDE DEF Part
  <2>1. Bad \in SUBSET Nat
    OBVIOUS
  <2> HIDE DEF Bad
  <2> QED
    BY <1>7, <2>1, LeastExists
<1>9. PICK g : Part(g, Cardinality(T))
  BY <1>6, <1>8
<1>10. Offers(g, order, area, base)
  BY <1>6, <1>9 DEF Offers, T
<1> QED
  BY <1>10 DEF Offering

LEMMA OfferingSteps ==
  ASSUME NEW N \in Nat, NEW X, NEW order \in Lists(N, X), NEW area, NEW base
  PROVE  /\ Offering(order, area, base)[1..0] = base
         /\ \A k \in 1..N :
              Offering(order, area, base)[1..k] = Offer(Offering(order, area, base)[1..(k-1)], order[k], area)
<1> DEFINE g == Offering(order, area, base)
<1>1. DOMAIN order = 1..N
  BY DEF Lists
<1>2. \A s \in SUBSET (1..N) : g[s] = IF s = {} THEN base ELSE Offer(g[s \ {Max(s)}], order[Max(s)], area)
  <2>1. Offers(g, order, area, base)
    BY OfferingExists
  <2> HIDE DEF g
  <2> QED
    BY <1>1, <2>1 DEF Offers
<1> HIDE DEF g
<1>3. 1..0 = {}
  OBVIOUS
<1>4. g[1..0] = base
  BY <1>2, <1>3
<1>5. ASSUME NEW k \in 1..N PROVE g[1..k] = Offer(g[1..(k-1)], order[k], area)
  <2>1. 1..k \in SUBSET (1..N) /\ 1..k # {} /\ k \in 1..k
    <3>1. k \in Nat /\ k >= 1 /\ k <= N
      OBVIOUS
    <3>2. k \in 1..k /\ \A n \in 1..k : n \in 1..N
      BY <3>1
    <3> QED
      BY <3>2
  <2>2. Max(1..k) \in 1..k /\ \A n \in 1..k : Max(1..k) >= n
    BY <2>1, MaxOf
  <2>3. Max(1..k) = k /\ (1..k) \ {k} = 1..(k-1)
    BY <2>1, <2>2
  <2> QED
    BY <1>2, <2>1, <2>3
<1> QED
  BY <1>4, <1>5 DEF g

(* Each item is offered once.                                                *)
LEMMA SortedIs ==
  ASSUME NEW N \in Nat, NEW weights \in Lists(N, Pos)
  PROVE  /\ Sorted(weights) \in Lists(N, 1..N) /\ Once(Sorted(weights), N)
         /\ First(Sorted(weights), N) = 1..N
<1> DEFINE S == 1..N
           e == [i \in DOMAIN weights |-> i]
           B == {p \in (DOMAIN weights) \X (DOMAIN weights) : weights[p[1]] > weights[p[2]]}
           s == sort_by(e, B)
<1>1. DOMAIN weights = S /\ \A i \in S : weights[i] \in Nat
  BY DEF Lists, Pos
<1>2. e \in Lists(N, S) /\ Once(e, N) /\ First(e, N) = S
  BY <1>1 DEF Lists, Once, First
<1>3. IsOrder(B, S)
  <2>1. \A x, y \in S : <<x, y>> \in B <=> weights[x] > weights[y]
    BY <1>1
  <2> HIDE DEF B, S
  <2> QED
    BY <1>1, <2>1 DEF IsOrder
<1>4. Sorted(weights) = s
  BY DEF Sorted
<1> HIDE DEF e, B
<1>5. s \in Lists(N, S) /\ Once(s, N) /\ First(s, N) = S
  <2> HIDE DEF S
  <2>1. e \in [1..N -> S] /\ (\A i, j \in 1..N : e[i] = e[j] => i = j) /\ \A x \in S : \E i \in 1..N : e[i] = x
    BY <1>2 DEF Lists, Once, First
  <2>2. s \in [1..N -> S] /\ (\A i, j \in 1..N : s[i] = s[j] => i = j) /\ \A x \in S : \E i \in 1..N : s[i] = x
    <3>1. /\ sort_by(e, B) \in [1..N -> S]
          /\ \A i, j \in 1..N : sort_by(e, B)[i] = sort_by(e, B)[j] => i = j
          /\ \A x \in S : \E i \in 1..N : sort_by(e, B)[i] = x
          /\ \A i, j \in 1..N : i < j => <<sort_by(e, B)[j], sort_by(e, B)[i]>> \notin B
      BY <1>3, <2>1, SortingOf
    <3> QED
      BY <3>1
  <2> HIDE DEF s
  <2> QED
    BY <2>2 DEF Lists, Once, First
<1> QED
  BY <1>4, <1>5

(* Every tile lies in the square, apart from the others and of its size.     *)
LEMMA PackedIs ==
  ASSUME NEW N \in Nat, NEW weights \in Lists(N, Pos), NEW W \in Pos, W = SumIn(weights, 1..N),
         NEW area, area = Shares(weights, W, N), NEW out, out = Packed(weights, area)
  PROVE  \E free : out \in Lists(N, Rects) /\ PlacedWell(out, free, 1..N, weights, W)
<1> DEFINE order == Sorted(weights)
           base == Unplaced(weights)
           At(k) == Offering(order, area, base)[1..k]
           Past(k) == First(order, k)
           Fine(k) == Packing(At(k), Past(k), N, weights, W)
           Bad == {k \in 0..N : ~Fine(k)}
<1>1. order \in Lists(N, 1..N) /\ Once(order, N) /\ First(order, N) = 1..N
  BY SortedIs
<1>2. DOMAIN order = 1..N
  BY <1>1 DEF Lists
<1> HIDE DEF order
<1>3. At(0) = base /\ \A k \in 1..N : At(k) = Offer(At(k - 1), order[k], area)
  BY <1>1, OfferingSteps
<1>4. /\ Past(0) = {}
      /\ \A k \in 1..N : /\ k - 1 \in 0..N /\ order[k] \notin Past(k - 1) /\ order[k] \in 1..N
                         /\ Past(k) = Past(k - 1) \cup {order[k]}
      /\ \A k \in 0..N : Past(k) \in SUBSET (1..N)
  BY <1>1, FirstIs
<1>5. Packing(base, {}, N, weights, W)
  <2>1. Unit \in Rects /\ Lies(Unit, Unit) /\ AreaOf(Unit) = Frac(W, W)
    BY UnitIs
  <2>2. [Unit EXCEPT !.w = <<0, 1>>, !.h = <<0, 1>>] \in Rects
    BY <2>1, ZeroIs DEF Rects, Zero
  <2>3. base = [free |-> Unit, row |-> <<>>, out |-> [i \in 1..N |-> [Unit EXCEPT !.w = <<0, 1>>, !.h = <<0, 1>>]]]
    <3>1. DOMAIN weights = 1..N
      BY DEF Lists
    <3> QED
      BY <3>1 DEF Unplaced
  <2>4. base.free = Unit /\ base.row = <<>> /\ base.out \in Lists(N, Rects) /\ base = [free |-> base.free, row |-> base.row, out |-> base.out]
    <3>1. base.out = [i \in 1..N |-> [Unit EXCEPT !.w = <<0, 1>>, !.h = <<0, 1>>]]
      BY <2>3
    <3>2. base.out \in Lists(N, Rects)
      BY <2>2, <3>1 DEF Lists
    <3> QED
      BY <2>3, <3>2
  <2> HIDE DEF base
  <2>5. ToSet(base.row) = {} /\ base.row \in Lists(0, 1..N) /\ Once(base.row, 0) /\ 0 \in Nat
    BY <2>4 DEF ToSet, Lists, Once
  <2>6. (1..N) \ ({} \ {}) = 1..N /\ {} \ {} = {}
    OBVIOUS
  <2>7. PlacedWell(base.out, base.free, {}, weights, W)
    BY DEF PlacedWell
  <2> QED
    BY <2>1, <2>4, <2>5, <2>6, <2>7 DEF Packing
<1> HIDE DEF At, Past, base
<1>6. ASSUME NEW k \in Bad, \A m \in Bad : k <= m PROVE FALSE
  <2>1. k \in 0..N /\ ~Fine(k) /\ k \in Nat
    OBVIOUS
  <2>2. k # 0
    BY <1>3, <1>4, <1>5, <2>1
  <2>3. k \in 1..N /\ k - 1 \in 0..N /\ ~(k <= k - 1)
    BY <2>1, <2>2
  <2>4. Fine(k - 1)
    <3>1. k - 1 \notin Bad
      <4> HIDE DEF Bad
      <4> QED
        BY <1>6, <2>3
    <3> HIDE DEF Fine
    <3> QED
      BY <2>3, <3>1
  <2>5. order[k] \in (1..N) \ Past(k - 1) /\ Past(k - 1) \in SUBSET (1..N)
    BY <1>4, <2>3
  <2>6. Packing(Offer(At(k - 1), order[k], area), Past(k - 1) \cup {order[k]}, N, weights, W)
    BY <2>4, <2>5, OfferHolds
  <2> QED
    BY <1>3, <1>4, <2>1, <2>3, <2>6
<1>7. Bad = {}
  <2>1. Bad \in SUBSET Nat
    OBVIOUS
  <2> HIDE DEF Bad
  <2> QED
    BY <1>6, <2>1, LeastExists
<1>8. Packing(At(N), 1..N, N, weights, W)
  <2>1. Fine(N)
    <3>1. N \in 0..N
      OBVIOUS
    <3> HIDE DEF Fine
    <3> QED
      BY <1>7, <3>1
  <2> QED
    BY <1>1, <2>1 DEF Past
<1>9. out = place_rest(At(N), area)
  BY <1>2, PackedIsFold DEF At, order, base
<1> DEFINE st == At(N)
<1>10. CASE st.row = <<>>
  <2>1. out = st.out
    BY <1>9, <1>10 DEF place_rest
  <2>2. ToSet(st.row) = {} /\ (1..N) \ {} = 1..N
    BY <1>10 DEF ToSet
  <2>3. st.out \in Lists(N, Rects) /\ PlacedWell(st.out, st.free, (1..N) \ ToSet(st.row), weights, W)
    BY <1>8 DEF Packing
  <2> QED
    BY <2>1, <2>2, <2>3
<1>11. CASE st.row # <<>>
  <2> DEFINE new == place_row(st, area)
  <2>1. out = new.out
    BY <1>9, <1>11 DEF place_rest
  <2>2. 1..N \in SUBSET (1..N)
    OBVIOUS
  <2>3. Packing(new, 1..N, N, weights, W) /\ new.row = <<>>
    <3> HIDE DEF new, st
    <3>1. Packing(st, 1..N, N, weights, W)
      BY <1>8 DEF st
    <3> QED
      BY <1>11, <2>2, <3>1, PlaceRowHolds DEF new
  <2> HIDE DEF new
  <2>4. ToSet(new.row) = {} /\ (1..N) \ {} = 1..N
    BY <2>3 DEF ToSet
  <2>5. new.out \in Lists(N, Rects) /\ PlacedWell(new.out, new.free, (1..N) \ ToSet(new.row), weights, W)
    BY <2>3 DEF Packing
  <2> QED
    BY <2>1, <2>4, <2>5
<1> QED
  BY <1>10, <1>11

LEMMA SquarifyIs ==
  ASSUME NEW N \in Nat, NEW weights \in Lists(N, Pos)
  PROVE  /\ squarify(weights) \in Lists(N, Rects)
         /\ \A i \in 1..N : /\ Lies(squarify(weights)[i], Unit)
                            /\ AreaOf(squarify(weights)[i]) = Frac(weights[i], SumOf(weights))
                            /\ \A j \in 1..N : i # j => Apart(squarify(weights)[i], squarify(weights)[j])
<1> DEFINE W == SumOf(weights)
           area == [i \in DOMAIN weights |-> Frac(weights[i], SumOf(weights))]
           out == squarify(weights)
<1>1. DOMAIN weights = 1..N /\ W = SumIn(weights, 1..N) /\ W \in Nat
  <2>1. DOMAIN weights = 1..N /\ 1..N \in SUBSET (1..N)
    BY DEF Lists
  <2> QED
    BY <2>1, SumOfIs, FewCount
<1>2. CASE W = 0
  <2>1. 1..N = {}
    <3>1. ASSUME NEW i \in 1..N PROVE FALSE
      <4>1. 1..N \in SUBSET (1..N)
        OBVIOUS
      <4> QED
        BY <1>1, <1>2, <4>1, FewCount
    <3> QED
      BY <3>1
  <2>2. out = [i \in 1..N |-> [Unit EXCEPT !.w = <<0, 1>>, !.h = <<0, 1>>]]
    BY <1>1, <1>2 DEF squarify, Unplaced
  <2>3. out \in Lists(N, Rects)
    BY <2>1, <2>2 DEF Lists
  <2> QED
    BY <2>1, <2>3
<1>3. CASE W # 0
  <2>1. W \in Pos
    BY <1>1, <1>3 DEF Pos
  <2>2. out = Packed(weights, area)
    BY <1>3 DEF squarify
  <2>3. area = Shares(weights, W, N)
    BY <1>1 DEF Shares
  <2> HIDE DEF W, out, area
  <2>4. PICK free : out \in Lists(N, Rects) /\ PlacedWell(out, free, 1..N, weights, W)
    BY <1>1, <2>1, <2>2, <2>3, PackedIs
  <2> QED
    BY <2>4 DEF PlacedWell, W, out
<1> QED
  BY <1>2, <1>3

(* The slots of a folder, and its tiles.                                     *)

LEMMA LengthOf == ASSUME NEW T, NEW s \in Seq(T), NEW n \in Nat, DOMAIN s = 1..n PROVE Len(s) = n
<1>1. DOMAIN s = 1..Len(s) /\ Len(s) \in Nat
  OBVIOUS
<1>2. 1..n = 1..Len(s)
  BY <1>1
<1>3. (n = 0 \/ n \in 1..n) /\ (Len(s) = 0 \/ Len(s) \in 1..Len(s))
  BY <1>1
<1> QED
  BY <1>1, <1>2, <1>3

(* Tiles that are squarified after their bytes account for all of them.      *)
LEMMA SquarifiedTiles ==
  ASSUME NEW n \in Nat, NEW slots, DOMAIN slots = 1..n, n <= MaxLaidOut + 1,
         Bytes(slots) \in Lists(n, Pos)
  PROVE  Tiles(TilesFor(slots), SumOf(Bytes(slots)))
<1> DEFINE weights == Bytes(slots)
           rects == squarify(weights)
           tiles == TilesFor(slots)
           tree == SumOf(weights)
<1>1. rects \in Lists(n, Rects)
  BY SquarifyIs
<1>2. \A i \in 1..n : Lies(rects[i], Unit)
  BY SquarifyIs
<1>3. \A i \in 1..n : AreaOf(rects[i]) = Frac(weights[i], tree)
  BY SquarifyIs
<1>4. \A i, j \in 1..n : i # j => Apart(rects[i], rects[j])
  BY SquarifyIs
<1>5. tiles = [i \in 1..n |-> [name |-> slots[i].name, bytes |-> slots[i].bytes, rect |-> rects[i]]]
  BY DEF TilesFor, Placed
<1>6. weights = [i \in 1..n |-> slots[i].bytes]
  BY DEF Bytes
<1> HIDE DEF tiles, rects
<1>7. DOMAIN tiles = 1..n /\ \A i \in 1..n : tiles[i].rect = rects[i] /\ tiles[i].bytes = weights[i]
  BY <1>5, <1>6
<1>8. Len(tiles) = n
  <2> DEFINE T == {tiles[i] : i \in 1..n}
  <2>1. tiles \in [1..n -> T]
    BY <1>5, <1>7
  <2>2. tiles \in Seq(T)
    BY <2>1
  <2> QED
    BY <1>7, <2>2, LengthOf
<1>9. Bytes(tiles) = weights
  <2>1. Bytes(tiles) = [i \in 1..n |-> tiles[i].bytes]
    BY <1>7 DEF Bytes
  <2>2. weights = [i \in 1..n |-> weights[i]]
    BY <1>6
  <2> HIDE DEF weights
  <2> QED
    BY <1>7, <2>1, <2>2
<1>10. \A i \in 1..n : Inside(rects[i])
  <2>1. Plus(Zero, <<1, 1>>) = <<1, 1>>
    <3>1. Unit.w = <<1, 1>> /\ Unit.w \in Reduced
      BY UnitIs DEF Unit, Rects
    <3>2. <<1, 1>> \in Reduced /\ Zero \in Reduced
      BY <3>1, ZeroIs
    <3> DEFINE one == <<1, 1>>
    <3> HIDE DEF one
    <3>3. Plus(one, Zero) = one /\ Plus(one, Zero) = Plus(Zero, one)
      BY <3>2, Additive DEF one
    <3> QED
      BY <3>3 DEF one
  <2>2. Unit.x = Zero /\ Unit.y = Zero /\ Unit.w = <<1, 1>> /\ Unit.h = <<1, 1>>
    BY DEF Unit, Zero
  <2>3. Plus(Unit.x, Unit.w) = <<1, 1>> /\ Plus(Unit.y, Unit.h) = <<1, 1>>
    BY <2>1, <2>2
  <2> QED
    BY <1>2, <2>3 DEF Lies, Inside
<1> HIDE DEF weights
<1>11. \A i \in 1..n : Inside(tiles[i].rect) /\ Times(tiles[i].rect.w, tiles[i].rect.h) = Frac(tiles[i].bytes, tree)
  BY <1>3, <1>7, <1>10 DEF AreaOf
<1>12. \A i, j \in 1..n : i # j => Apart(tiles[i].rect, tiles[j].rect)
  BY <1>4, <1>7
<1> QED
  BY <1>7, <1>8, <1>9, <1>11, <1>12 DEF Tiles, weights, tiles

LEMMA PrefixIs ==
  ASSUME NEW c \in Nat, NEW L \in SUBSET (1..c), \A i \in L : \A j \in 1..c : j <= i => j \in L
  PROVE  Cardinality(L) \in 0..c /\ L = 1..Cardinality(L)
<1> DEFINE Out == {k \in 1..(c + 1) : k \notin L}
<1>1. c + 1 \in Out /\ Out \in SUBSET Nat
  OBVIOUS
<1>2. PICK k \in Out : \A m \in Out : k <= m
  BY <1>1, LeastExists
<1>3. k \in 1..(c + 1) /\ k \notin L /\ k - 1 \in Nat /\ k - 1 \in 0..c
  BY <1>2
<1>4. L = 1..(k - 1)
  <2>1. ASSUME NEW i \in 1..(k - 1) PROVE i \in L
    <3>1. i \in 1..(c + 1) /\ ~(k <= i)
      BY <1>3
    <3> QED
      BY <1>2, <3>1
  <2>2. ASSUME NEW i \in L PROVE i \in 1..(k - 1)
    <3>1. i \in 1..c
      OBVIOUS
    <3>2. ~(k <= i)
      <4>1. ASSUME k <= i PROVE k \in 1..c
        BY <1>3, <3>1, <4>1
      <4> QED
        BY <1>3, <4>1
    <3> QED
      BY <1>3, <3>1, <3>2
  <2> QED
    BY <2>1, <2>2
<1>5. Cardinality(1..(k - 1)) = k - 1
  <2>1. Cardinality(1..(k - 1)) = IF 1 > k - 1 THEN 0 ELSE (k - 1) - 1 + 1
    BY <1>3, FS_Interval
  <2> QED
    BY <1>3, <2>1
<1> QED
  BY <1>3, <1>4, <1>5

LEMMA ProductsGrow == ASSUME NEW a \in Nat, NEW b \in Nat, NEW f \in Nat, a <= b PROVE a * f <= b * f
<1> DEFINE d == b - a
<1>1. d \in Nat /\ b = a + d
  OBVIOUS
<1> HIDE DEF d
<1>2. (a + d) * f = a * f + d * f /\ a * f \in Nat /\ d * f \in Nat
  BY <1>1
<1> QED
  BY <1>1, <1>2

(* Two parts of the numbers up to c.                                         *)
LEMMA Halves ==
  ASSUME NEW c \in Nat, NEW v \in Nat, v <= c
  PROVE  /\ 1..v \in SUBSET (1..c) /\ (v + 1)..c \in SUBSET (1..c)
         /\ IsFiniteSet(1..v) /\ IsFiniteSet((v + 1)..c)
         /\ (1..v) \cap ((v + 1)..c) = {} /\ 1..c = (1..v) \cup ((v + 1)..c)
         /\ c - v \in Nat /\ (\A m \in 1..(c - v) : m + v \in (v + 1)..c)
         /\ (v + 1)..c = {m + v : m \in 1..(c - v)}
         /\ 1..(v + 1) \ {v + 1} = 1..v /\ v + 1 \in 1..(v + 1) /\ IsFiniteSet(1..(v + 1))
<1>1. 1..v \in SUBSET (1..c) /\ (v + 1)..c \in SUBSET (1..c)
  OBVIOUS
<1>2. IsFiniteSet(1..v) /\ IsFiniteSet((v + 1)..c) /\ IsFiniteSet(1..(v + 1))
  <2>1. 1 \in Int /\ v \in Int /\ v + 1 \in Int /\ c \in Int
    OBVIOUS
  <2> QED
    BY <2>1, FS_Interval
<1>3. (1..v) \cap ((v + 1)..c) = {}
  OBVIOUS
<1>4. 1..c = (1..v) \cup ((v + 1)..c)
  OBVIOUS
<1>5. c - v \in Nat /\ (\A m \in 1..(c - v) : m + v \in (v + 1)..c)
  OBVIOUS
<1>6. (v + 1)..c = {m + v : m \in 1..(c - v)}
  <2>1. \A x \in (v + 1)..c : x - v \in 1..(c - v) /\ x = (x - v) + v
    OBVIOUS
  <2> QED
    BY <1>5, <2>1
<1>7. 1..(v + 1) \ {v + 1} = 1..v /\ v + 1 \in 1..(v + 1)
  OBVIOUS
<1> QED
  BY <1>1, <1>2, <1>3, <1>4, <1>5, <1>6, <1>7

(* A last part of a list.                                                    *)
LEMMA LastPart ==
  ASSUME NEW c \in Nat, NEW v \in Nat, v <= c, NEW S, NEW b \in Lists(c, S)
  PROVE  SubSeq(b, v + 1, c) = [m \in 1..(c - v) |-> b[m + v]]
<1> DEFINE t == SubSeq(b, v + 1, c)
           K == c - v
<1>1. v + 1 \in Int /\ c \in Int /\ \A i \in (v + 1)..c : b[i] \in S
  <2>1. (v + 1)..c \in SUBSET (1..c)
    BY Halves
  <2> QED
    BY <2>1 DEF Lists
<1>2. /\ t \in Seq(S) /\ Len(t) = (IF v + 1 <= c THEN c - (v + 1) + 1 ELSE 0)
      /\ \A i \in 1..(c - (v + 1) + 1) : t[i] = b[(v + 1) + i - 1]
  <2> DEFINE w == v + 1
  <2>1. w \in Int /\ \A i \in w..c : b[i] \in S
    BY <1>1
  <2> HIDE DEF w
  <2>2. /\ SubSeq(b, w, c) \in Seq(S) /\ Len(SubSeq(b, w, c)) = (IF w <= c THEN c - w + 1 ELSE 0)
        /\ \A i \in 1..(c - w + 1) : SubSeq(b, w, c)[i] = b[w + i - 1]
    BY <2>1, SubSeqProperties
  <2> QED
    BY <2>2 DEF w
<1>3. c - (v + 1) + 1 = K /\ (IF v + 1 <= c THEN c - (v + 1) + 1 ELSE 0) = K /\ K \in Nat
  OBVIOUS
<1>4. \A i \in 1..K : (v + 1) + i - 1 = i + v
  OBVIOUS
<1> HIDE DEF t, K
<1>5. t \in Seq(S) /\ Len(t) = K /\ \A i \in 1..K : t[i] = b[i + v]
  BY <1>2, <1>3, <1>4
<1>6. t = [i \in 1..Len(t) |-> t[i]]
  BY <1>5
<1>7. t = [i \in 1..K |-> t[i]]
  BY <1>5, <1>6
<1>8. t = [i \in 1..K |-> b[i + v]]
  BY <1>5, <1>7
<1> QED
  BY <1>8 DEF t, K

(* A first part.                                                             *)
LEMMA FirstPart ==
  ASSUME NEW c \in Nat, NEW v \in Nat, v <= c, NEW S, NEW list \in Lists(c, S)
  PROVE  SubSeq(list, 1, v) \in Seq(S) /\ Len(SubSeq(list, 1, v)) = v /\ \A i \in 1..v : SubSeq(list, 1, v)[i] = list[i]
<1> DEFINE own == SubSeq(list, 1, v)
<1>1. \A i \in 1..v : list[i] \in S
  BY Halves DEF Lists
<1>2. 1 \in Int /\ v \in Int
  OBVIOUS
<1>3. /\ own \in Seq(S) /\ Len(own) = (IF 1 <= v THEN v - 1 + 1 ELSE 0)
      /\ \A i \in 1..(v - 1 + 1) : own[i] = list[1 + i - 1]
  <2> DEFINE o == 1
  <2>1. o \in Int /\ \A i \in o..v : list[i] \in S
    BY <1>1
  <2> HIDE DEF o
  <2>2. /\ SubSeq(list, o, v) \in Seq(S) /\ Len(SubSeq(list, o, v)) = (IF o <= v THEN v - o + 1 ELSE 0)
        /\ \A i \in 1..(v - o + 1) : SubSeq(list, o, v)[i] = list[o + i - 1]
    BY <1>2, <2>1, SubSeqProperties
  <2> QED
    BY <2>2 DEF o
<1>4. v - 1 + 1 = v /\ (IF 1 <= v THEN v - 1 + 1 ELSE 0) = v /\ \A i \in 1..v : 1 + i - 1 = i
  OBVIOUS
<1> HIDE DEF own
<1>5. own \in Seq(S) /\ Len(own) = v /\ \A i \in 1..v : own[i] = list[i]
  BY <1>3, <1>4
<1> QED
  BY <1>5 DEF own

(* A beginning of the numbers is counted by its last.                        *)
LEMMA Single == ASSUME NEW T, NEW n \in T PROVE <<n>> \in Seq(T) /\ Len(<<n>>) = 1 /\ <<n>>[1] = n
  OBVIOUS

(* One more at the end.                                                      *)
LEMMA OneMore ==
  ASSUME NEW S, NEW s \in Seq(S), NEW v \in Nat, Len(s) = v, NEW x
  PROVE  /\ DOMAIN (s \o <<x>>) = 1..(v + 1) /\ (s \o <<x>>)[v + 1] = x
         /\ \A i \in 1..v : (s \o <<x>>)[i] = s[i]
<1> DEFINE U == S \cup {x}
           r == <<x>>
           q == s \o r
<1>1. s \in Seq(U)
  <2>1. S \subseteq U
    OBVIOUS
  <2> HIDE DEF U
  <2> QED
    BY <2>1, SeqMonotonic
<1>2. r \in Seq(U) /\ Len(r) = 1 /\ r[1] = x
  <2>1. x \in U
    OBVIOUS
  <2> HIDE DEF U
  <2> QED
    BY <2>1, Single
<1> HIDE DEF U, r
<1>3. q \in Seq(U) /\ Len(q) = Len(s) + Len(r) /\ \A i \in 1..(Len(s) + Len(r)) : q[i] = IF i <= Len(s) THEN s[i] ELSE r[i - Len(s)]
  BY <1>1, <1>2, ConcatProperties
<1> HIDE DEF q
<1>4. Len(q) = v + 1 /\ \A i \in 1..(v + 1) : q[i] = IF i <= v THEN s[i] ELSE r[i - v]
  BY <1>2, <1>3
<1>5. DOMAIN q = 1..(v + 1)
  BY <1>3, <1>4
<1>6. v + 1 \in 1..(v + 1) /\ ~(v + 1 <= v) /\ (v + 1) - v = 1 /\ \A i \in 1..v : i \in 1..(v + 1) /\ i <= v
  OBVIOUS
<1>7. q[v + 1] = x /\ \A i \in 1..v : q[i] = s[i]
  BY <1>2, <1>4, <1>6
<1> QED
  BY <1>5, <1>7 DEF q, r

(* The children that get a tile of their own are the first of them, no more  *)
(* than the budget.                                                          *)
LEMMA LaidFirst ==
  ASSUME NEW c \in Nat, NEW S, NEW list \in Lists(c, S), \A i \in 1..c : list[i].bytes \in Nat,
         \A i, j \in 1..c : i < j => list[j].bytes <= list[i].bytes, NEW tree \in Nat
  PROVE  \E v \in Nat : /\ v = Cardinality({i \in DOMAIN list : Laid(i, list[i], tree)})
                        /\ v <= c /\ v <= MaxLaidOut /\ \A i \in 1..v : list[i].bytes \in Pos
<1> DEFINE b(i) == list[i].bytes
           L == {i \in DOMAIN list : Laid(i, list[i], tree)}
           v == Cardinality(L)
<1>1. DOMAIN list = 1..c /\ MaxLaidOut \in Nat /\ Fraction \in Nat /\ \A i \in 1..c : b(i) \in Nat
  BY LayoutAssumption DEF Lists
<1>2. \A i \in 1..c : Laid(i, list[i], tree) <=> i <= MaxLaidOut /\ b(i) >= 1 /\ b(i) * Fraction >= tree
  BY DEF Laid
<1>3. \A i \in L : \A j \in 1..c : j <= i => j \in L
  <2> SUFFICES ASSUME NEW i \in L, NEW j \in 1..c, j <= i PROVE j \in L
    OBVIOUS
  <2>1. i \in 1..c /\ i <= MaxLaidOut /\ b(i) >= 1 /\ b(i) * Fraction >= tree
    BY <1>1, <1>2
  <2>2. b(i) <= b(j)
    BY <1>1, <2>1
  <2>3. b(i) * Fraction <= b(j) * Fraction
    <3> DEFINE x == b(i)
               y == b(j)
    <3>1. x \in Nat /\ y \in Nat /\ x <= y
      BY <1>1, <2>1, <2>2
    <3> HIDE DEF x, y
    <3>2. x * Fraction <= y * Fraction
      BY <1>1, <3>1, ProductsGrow
    <3> QED
      BY <3>2 DEF x, y
  <2> DEFINE x == b(i) * Fraction
             y == b(j) * Fraction
  <2>4. x \in Nat /\ y \in Nat
    BY <1>1, <2>1
  <2>5. y >= tree
    <3>1. x <= y /\ x >= tree
      BY <2>1, <2>3
    <3> HIDE DEF x, y
    <3> QED
      BY <2>4, <3>1
  <2>6. b(j) >= 1 /\ j <= MaxLaidOut
    BY <1>1, <2>1, <2>2
  <2> QED
    BY <1>1, <1>2, <2>5, <2>6
<1>4. v \in Nat /\ v <= c /\ L = 1..v
  <2>1. L \in SUBSET (1..c)
    BY <1>1
  <2> HIDE DEF L
  <2>2. v \in 0..c /\ L = 1..v
    BY <1>3, <2>1, PrefixIs
  <2> HIDE DEF v
  <2> QED
    BY <2>2
<1>5. \A i \in 1..v : i \in 1..c /\ Laid(i, list[i], tree)
  BY <1>1, <1>4
<1>6. \A i \in 1..v : i \in 1..c /\ i <= MaxLaidOut /\ list[i].bytes \in Pos
  BY <1>1, <1>2, <1>5 DEF Pos
<1>7. v = Cardinality({i \in DOMAIN list : Laid(i, list[i], tree)})
  OBVIOUS
<1> HIDE DEF v
<1>8. v <= MaxLaidOut
  <2>1. v # 0 => v \in 1..v
    BY <1>4
  <2> QED
    BY <1>1, <1>4, <1>6, <2>1
<1> QED
  BY <1>4, <1>6, <1>7, <1>8

(* The slots hold all of the bytes.                                          *)
LEMMA SlotsAre ==
  ASSUME NEW c \in Nat, NEW S, NEW list \in Lists(c, S), \A i \in 1..c : list[i].bytes \in Nat,
         NEW tree \in Nat, SumIn(Bytes(list), 1..c) = tree,
         NEW v \in Nat, v <= c, v <= MaxLaidOut, \A i \in 1..v : list[i].bytes \in Pos
  PROVE  \E n \in Nat : /\ n <= MaxLaidOut + 1 /\ DOMAIN Slots(list, v) = 1..n
                        /\ Bytes(Slots(list, v)) \in Lists(n, Pos)
                        /\ SumOf(Bytes(Slots(list, v))) = tree
<1> DEFINE b == Bytes(list)
           rest == SumOf(SubSeq(b, v + 1, c))
<1>1. DOMAIN list = 1..c /\ list \in Seq(S) /\ Len(list) = c
  <2>1. list \in [1..c -> S]
    BY DEF Lists
  <2>2. DOMAIN list = 1..c /\ list \in Seq(S)
    BY <2>1
  <2> QED
    BY <2>2, LengthOf
<1>2. b \in Lists(c, Nat) /\ (\A i \in 1..c : b[i] = list[i].bytes /\ b[i] \in Nat) /\ MaxLaidOut \in Nat
  BY <1>1, LayoutAssumption DEF Bytes, Lists
<1>3. \A i \in 1..v : i \in 1..c /\ b[i] = list[i].bytes /\ b[i] \in Pos
  BY <1>2, Halves
<1> HIDE DEF b
<1>4. Counts(b, 1..v) /\ Counts(b, (v + 1)..c)
  <2>1. IsFiniteSet(1..v) /\ IsFiniteSet((v + 1)..c) /\ 1..v \in SUBSET (1..c) /\ (v + 1)..c \in SUBSET (1..c)
    BY Halves
  <2> QED
    BY <1>2, <2>1 DEF Counts
<1>5. rest = SumIn(b, (v + 1)..c) /\ rest \in Nat
  <2> DEFINE K == c - v
             row == [m \in 1..K |-> m + v]
  <2>1. K \in Nat /\ (\A m \in 1..K : m + v \in 1..c) /\ (v + 1)..c = {m + v : m \in 1..K}
    <3>1. K \in Nat /\ (\A m \in 1..K : m + v \in (v + 1)..c) /\ (v + 1)..c \in SUBSET (1..c)
      BY Halves
    <3>2. (v + 1)..c = {m + v : m \in 1..K}
      BY Halves
    <3> QED
      BY <3>1, <3>2
  <2>2. \A m, k \in 1..K : m + v = k + v => m = k
    OBVIOUS
  <2>3. SubSeq(b, v + 1, c) = [m \in 1..K |-> b[m + v]]
    <3>1. b \in Lists(c, Nat)
      BY <1>2
    <3>2. SubSeq(b, v + 1, c) = [m \in 1..(c - v) |-> b[m + v]]
      BY ONLY c \in Nat, v \in Nat, v <= c, <3>1, LastPart
    <3> QED
      BY <3>2
  <2> HIDE DEF K
  <2>4. row \in Lists(K, 1..c) /\ Once(row, K) /\ First(row, K) = (v + 1)..c
    BY <2>1, <2>2 DEF Lists, Once, First
  <2>5. SubSeq(b, v + 1, c) = Along(b, row, K)
    BY <2>3 DEF Along
  <2>6. K \in 0..K /\ \A x \in 1..c : b[x] \in Nat
    BY <1>2, <2>1
  <2> HIDE DEF row
  <2>7. SumIn(Along(b, row, K), 1..K) = SumIn(b, First(row, K))
    BY <2>1, <2>4, <2>6, FirstSums
  <2>8. SumIn(b, First(row, K)) \in Nat
    BY <2>1, <2>4, <2>6, FirstSums
  <2>9. DOMAIN Along(b, row, K) = 1..K
    BY DEF Along
  <2>10. SumOf(Along(b, row, K)) = SumIn(Along(b, row, K), 1..K)
    BY <2>9, SumOfIs
  <2> QED
    BY <2>4, <2>5, <2>7, <2>8, <2>10
<1> HIDE DEF rest
<1>6. SumIn(b, 1..v) \in Nat /\ tree = SumIn(b, 1..v) + rest
  <2>1. (1..v) \cap ((v + 1)..c) = {} /\ 1..c = (1..v) \cup ((v + 1)..c)
    BY Halves
  <2>2. SumIn(b, (1..v) \cup ((v + 1)..c)) = SumIn(b, 1..v) + SumIn(b, (v + 1)..c)
    BY <1>4, <2>1, SumOfParts
  <2>3. SumIn(b, 1..v) \in Nat
    BY <1>4, SumInIs
  <2> QED
    BY <1>5, <2>1, <2>2, <2>3 DEF b
<1> DEFINE own == SubSeq(list, 1, v)
           other == [name |-> "__other__", bytes |-> rest]
           slots == Slots(list, v)
           weights == Bytes(slots)
<1>7. own \in Seq(S) /\ Len(own) = v /\ \A i \in 1..v : own[i] = list[i]
  BY FirstPart
<1>8. slots = own \o (IF rest > 0 THEN <<other>> ELSE <<>>)
  BY <1>1 DEF Slots, b, rest
<1>9. other.bytes = rest
  OBVIOUS
<1> HIDE DEF own, slots, other
<1>10. CASE rest > 0
  <2>1. slots = own \o <<other>>
    BY <1>8, <1>10
  <2>2. DOMAIN slots = 1..(v+1) /\ slots[v+1] = other /\ \A i \in 1..v : slots[i] = own[i]
    <3>1. DOMAIN (own \o <<other>>) = 1..(v+1) /\ (own \o <<other>>)[v+1] = other
      BY <1>7, OneMore
    <3>2. \A i \in 1..v : (own \o <<other>>)[i] = own[i]
      BY <1>7, OneMore
    <3> QED
      BY <2>1, <3>1, <3>2
  <2>3. v + 1 \in 1..(v+1) /\ 1..(v+1) \ {v+1} = 1..v /\ IsFiniteSet(1..(v+1))
    BY Halves
  <2>4. weights = [i \in 1..(v+1) |-> slots[i].bytes]
    BY <2>2 DEF Bytes
  <2>5. \A i \in 1..v : i \in 1..(v+1)
    BY <2>3
  <2>6. \A i \in 1..v : weights[i] = b[i]
    BY <1>2, <1>3, <1>7, <2>2, <2>4, <2>5
  <2>7. weights[v+1] = rest
    BY <1>9, <2>2, <2>3, <2>4
  <2>8. \A i \in 1..(v+1) : i \in 1..v \/ i = v + 1
    BY <2>3
  <2>9. rest \in Pos
    BY <1>5, <1>10 DEF Pos
  <2>10. \A i \in 1..(v+1) : weights[i] \in Pos
    <3> HIDE DEF weights
    <3> QED
      BY <1>3, <2>6, <2>7, <2>8, <2>9
  <2>11. weights \in Lists(v + 1, Pos) /\ DOMAIN weights = 1..(v+1)
    BY <2>4, <2>10 DEF Lists
  <2> HIDE DEF weights
  <2>12. Counts(weights, 1..(v+1))
    BY <2>3, <2>10 DEF Counts, Pos
  <2>13. SumIn(weights, 1..v) = SumIn(b, 1..v)
    <3>1. \A i \in 1..v : b[i] = weights[i]
      BY <2>6
    <3> QED
      BY <1>4, <3>1, SumInIs
  <2>14. SumIn(weights, 1..(v+1)) = weights[v+1] + SumIn(weights, 1..(v+1) \ {v+1})
    <3> DEFINE u == v + 1
    <3>1. u \in 1..u /\ Counts(weights, 1..u)
      BY <2>3, <2>12
    <3> HIDE DEF u
    <3>2. SumIn(weights, 1..u) = weights[u] + SumIn(weights, 1..u \ {u})
      BY <3>1, SumWithout
    <3> QED
      BY <3>2 DEF u
  <2>15. SumIn(weights, 1..(v+1)) = rest + SumIn(b, 1..v)
    BY <2>3, <2>7, <2>13, <2>14
  <2>16. SumOf(weights) = SumIn(weights, 1..(v+1))
    BY <2>11, SumOfIs
  <2>17. SumOf(weights) = tree
    <3> DEFINE a == SumIn(b, 1..v)
    <3>1. a \in Nat /\ rest \in Nat /\ tree = a + rest /\ SumOf(weights) = rest + a
      BY <1>5, <1>6, <2>15, <2>16
    <3> HIDE DEF a
    <3> QED
      BY <3>1
  <2>18. v + 1 \in Nat /\ v + 1 <= MaxLaidOut + 1
    BY <1>2
  <2> QED
    BY <2>2, <2>11, <2>17, <2>18 DEF weights, slots
<1>11. CASE ~(rest > 0)
  <2>1. rest = 0 /\ SumIn(b, 1..v) = tree
    <3> DEFINE a == SumIn(b, 1..v)
    <3>1. a \in Nat /\ rest \in Nat /\ tree = a + rest /\ ~(rest > 0)
      BY <1>5, <1>6, <1>11
    <3> HIDE DEF a
    <3>2. rest = 0 /\ a = tree
      BY <3>1
    <3> QED
      BY <3>2 DEF a
  <2>2. slots = own
    BY <1>7, <1>8, <1>11, ConcatEmptySeq
  <2>3. DOMAIN slots = 1..v
    BY <1>7, <2>2
  <2>4. weights = [i \in 1..v |-> slots[i].bytes]
    BY <2>3 DEF Bytes
  <2>5. \A i \in 1..v : weights[i] = b[i]
    BY <1>2, <1>3, <1>7, <2>2, <2>4
  <2>6. weights \in Lists(v, Pos) /\ DOMAIN weights = 1..v
    BY <1>3, <2>4, <2>5 DEF Lists
  <2> HIDE DEF weights
  <2>7. SumIn(weights, 1..v) = SumIn(b, 1..v)
    <3>1. \A i \in 1..v : b[i] = weights[i]
      BY <2>5
    <3> QED
      BY <1>4, <3>1, SumInIs
  <2>8. SumOf(weights) = tree
    BY <2>1, <2>6, <2>7, SumOfIs
  <2>9. v <= MaxLaidOut + 1
    BY <1>2
  <2> QED
    BY <2>3, <2>6, <2>8, <2>9 DEF weights, slots
<1> QED
  BY <1>10, <1>11

(* The bytes of a set of files are such a sum, and add up.                   *)
LEMMA BytesAddUp ==
  ASSUME NEW S \in SUBSET DOMAIN Meta, NEW T \in SUBSET DOMAIN Meta, IsFiniteSet(S), IsFiniteSet(T), S \cap T = {}
  PROVE  /\ BytesOf(S) \in Nat /\ BytesOf({}) = 0
         /\ BytesOf(S \cup T) = BytesOf(S) + BytesOf(T)
<1> DEFINE w == [p \in DOMAIN Meta |-> allocated_bytes(p)]
<1>1. ASSUME NEW U \in SUBSET DOMAIN Meta, IsFiniteSet(U) PROVE Counts(w, U) /\ BytesOf(U) = SumIn(w, U)
  <2>1. Counts(w, U)
    BY <1>1, AllocatedType DEF Counts
  <2>2. Adds(Adding(U), U)
    BY <1>1, AddingSteps
  <2>3. Sums(Adding(U), w, U)
    <3> DEFINE g == Adding(U)
    <3>1. \A s \in SUBSET U : s # {} => Picked(s) \in DOMAIN Meta
      BY DEF Picked
    <3>2. \A s \in SUBSET U : s # {} => allocated_bytes(Picked(s)) = w[Picked(s)]
      BY <3>1
    <3> HIDE DEF g, w
    <3>3. g = [s \in SUBSET U |-> IF s = {} THEN 0 ELSE allocated_bytes(Picked(s)) + g[s \ {Picked(s)}]]
      BY <2>2 DEF Adds, g
    <3>4. g = [s \in SUBSET U |-> IF s = {} THEN 0 ELSE w[Picked(s)] + g[s \ {Picked(s)}]]
      BY <3>2, <3>3
    <3> QED
      BY <3>4 DEF Sums, g
  <2> HIDE DEF w
  <2>4. Sums(Summing(w, U), w, U)
    BY <2>1, SummingSteps
  <2>5. Adding(U)[U] = Summing(w, U)[U]
    <3>1. U \in SUBSET U /\ \A x \in U : w[x] = w[x]
      OBVIOUS
    <3> QED
      BY <1>1, <2>3, <2>4, <3>1, SumsAgree
  <2> QED
    BY <2>1, <2>5, BytesAreAdded DEF SumIn
<1> HIDE DEF w
<1>2. IsFiniteSet({}) /\ IsFiniteSet(S \cup T)
  BY FS_EmptySet, FS_Union
<1>3. /\ Counts(w, S) /\ Counts(w, T) /\ Counts(w, {}) /\ BytesOf(S) = SumIn(w, S) /\ BytesOf(T) = SumIn(w, T)
      /\ BytesOf({}) = SumIn(w, {}) /\ BytesOf(S \cup T) = SumIn(w, S \cup T)
  BY <1>1, <1>2
<1>4. SumIn(w, S) \in Nat
  BY <1>3, SumInIs
<1>5. SumIn(w, {}) = 0
  BY <1>3, SumInIs
<1>6. SumIn(w, S \cup T) = SumIn(w, S) + SumIn(w, T)
  BY <1>3, SumOfParts
<1> QED
  BY <1>3, <1>4, <1>5, <1>6

(* Every file below a folder is below one of its children, and one only.     *)
LEMMA BelowChildren ==
  ASSUME NEW places \in SUBSET DOMAIN Meta
  PROVE  /\ \A p \in FilesBelow(places, home) :
              \E n \in Names(places, home) : p \in FilesBelow(places, home \o <<n>>)
         /\ \A n \in Names(places, home) : \A p \in FilesBelow(places, home \o <<n>>) :
              p \in FilesBelow(places, home) /\ p[Len(home) + 1] = n
<1> DEFINE l == Len(home)
<1>1. home \in Seq(STRING) /\ l \in Nat /\ \A p \in places : p \in Seq(STRING) /\ Len(p) \in Nat
  BY SafetyAssumption, FilesAssumption
<1>2. ASSUME NEW p \in places, NEW n \in STRING
      PROVE  AtOrBelow(home \o <<n>>, p) <=> l + 1 <= Len(p) /\ SubSeq(p, 1, l) = home /\ p[l + 1] = n
  <2> DEFINE q == home \o <<n>>
  <2>1. q \in Seq(STRING) /\ Len(q) = l + 1 /\ q[l + 1] = n /\ \A i \in 1..l : q[i] = home[i]
    <3> DEFINE r == <<n>>
    <3>1. r \in Seq(STRING)
      BY Single
    <3>2. Len(r) = 1 /\ r[1] = n
      BY Single
    <3> HIDE DEF r
    <3>3. q \in Seq(STRING) /\ Len(q) = l + 1 /\ \A i \in 1..(l+1) : q[i] = IF i <= l THEN home[i] ELSE r[i - l]
      BY <1>1, <3>1, <3>2, ConcatProperties DEF r
    <3>4. l + 1 \in 1..(l+1) /\ ~(l + 1 <= l) /\ (l + 1) - l = 1 /\ \A i \in 1..l : i \in 1..(l+1) /\ i <= l
      BY <1>1
    <3> QED
      BY <3>2, <3>3, <3>4
  <2> HIDE DEF q
  <2>2. p \in Seq(STRING) /\ Len(p) \in Nat
    BY <1>1
  <2>3. ASSUME l + 1 <= Len(p)
        PROVE  SubSeq(p, 1, l + 1) = q <=> SubSeq(p, 1, l) = home /\ p[l + 1] = n
    <3>1. SubSeq(p, 1, l + 1) = [i \in 1..(l+1) |-> p[i]] /\ SubSeq(p, 1, l) = [i \in 1..l |-> p[i]]
      BY <1>1, <2>2, <2>3
    <3>2. q = [i \in 1..(l+1) |-> q[i]] /\ home = [i \in 1..l |-> home[i]]
      BY <1>1, <2>1
    <3>3. \A i \in 1..(l+1) : i \in 1..l \/ i = l + 1
      BY <1>1
    <3>4. l + 1 \in 1..(l+1) /\ \A i \in 1..l : i \in 1..(l+1)
      BY <1>1
    <3>5. ASSUME SubSeq(p, 1, l + 1) = q PROVE SubSeq(p, 1, l) = home /\ p[l + 1] = n
      <4>1. \A i \in 1..(l+1) : p[i] = q[i]
        BY <3>1, <3>2, <3>5
      <4>2. \A i \in 1..l : p[i] = home[i]
        BY <2>1, <3>4, <4>1
      <4> QED
        BY <2>1, <3>1, <3>2, <3>4, <4>1, <4>2
    <3>6. ASSUME SubSeq(p, 1, l) = home, p[l + 1] = n PROVE SubSeq(p, 1, l + 1) = q
      <4>1. \A i \in 1..l : p[i] = home[i]
        BY <3>1, <3>2, <3>6
      <4>2. \A i \in 1..(l+1) : p[i] = q[i]
        BY <2>1, <3>3, <3>6, <4>1
      <4> QED
        BY <3>1, <3>2, <4>2
    <3> QED
      BY <3>5, <3>6
  <2>4. AtOrBelow(q, p) <=> l + 1 <= Len(p) /\ SubSeq(p, 1, l + 1) = q
    BY <2>1 DEF AtOrBelow
  <2> QED
    BY <2>3, <2>4 DEF q
<1>3. ASSUME NEW p \in places PROVE AtOrBelow(home, p) <=> l <= Len(p) /\ SubSeq(p, 1, l) = home
  BY DEF AtOrBelow
<1>4. ASSUME NEW p \in FilesBelow(places, home)
      PROVE  \E n \in Names(places, home) : p \in FilesBelow(places, home \o <<n>>)
  <2>1. p \in places /\ AtOrBelow(home, p) /\ Meta[p].type = "File" /\ p \in DOMAIN Meta
    BY DEF FilesBelow
  <2>2. p # home
    BY <2>1, LayoutAssumption
  <2>3. l <= Len(p) /\ SubSeq(p, 1, l) = home /\ p \in Seq(STRING) /\ Len(p) \in Nat
    BY <1>1, <1>3, <2>1
  <2>4. l # Len(p)
    <3>1. ASSUME l = Len(p) PROVE SubSeq(p, 1, l) = p
      <4>1. SubSeq(p, 1, l) = [i \in 1..l |-> p[i]] /\ p = [i \in 1..Len(p) |-> p[i]]
        BY <1>1, <2>3
      <4> QED
        BY <3>1, <4>1
    <3> QED
      BY <2>2, <2>3, <3>1
  <2>5. l + 1 <= Len(p) /\ p[l + 1] \in STRING
    <3>1. l + 1 \in 1..Len(p)
      BY <1>1, <2>3, <2>4
    <3> QED
      BY <2>3, <3>1
  <2>6. AtOrBelow(home \o <<p[l + 1]>>, p)
    BY <1>2, <2>1, <2>3, <2>5
  <2>7. p[l + 1] \in Names(places, home)
    BY <2>1, <2>2 DEF Names
  <2> QED
    BY <2>1, <2>6, <2>7 DEF FilesBelow
<1>5. ASSUME NEW n \in Names(places, home), NEW p \in FilesBelow(places, home \o <<n>>)
      PROVE  p \in FilesBelow(places, home) /\ p[l + 1] = n
  <2>1. p \in places /\ AtOrBelow(home \o <<n>>, p) /\ Meta[p].type = "File"
    BY DEF FilesBelow
  <2>2. n \in STRING
    <3>1. PICK q \in places : AtOrBelow(home, q) /\ q # home /\ n = q[l + 1]
      BY DEF Names
    <3>2. l <= Len(q) /\ SubSeq(q, 1, l) = home /\ q \in Seq(STRING) /\ Len(q) \in Nat
      BY <1>1, <1>3, <3>1
    <3>3. l # Len(q)
      <4>1. ASSUME l = Len(q) PROVE SubSeq(q, 1, l) = q
        <5>1. SubSeq(q, 1, l) = [i \in 1..l |-> q[i]] /\ q = [i \in 1..Len(q) |-> q[i]]
          BY <1>1, <3>2
        <5> QED
          BY <4>1, <5>1
      <4> QED
        BY <3>1, <3>2, <4>1
    <3>4. l + 1 \in 1..Len(q)
      BY <1>1, <3>2, <3>3
    <3> QED
      BY <3>1, <3>2, <3>4
  <2>3. l + 1 <= Len(p) /\ SubSeq(p, 1, l) = home /\ p[l + 1] = n
    BY <1>2, <2>1, <2>2
  <2>4. AtOrBelow(home, p)
    <3>1. l <= Len(p)
      BY <1>1, <2>1, <2>3
    <3> QED
      BY <1>3, <2>1, <2>3, <3>1
  <2> QED
    BY <2>1, <2>3, <2>4 DEF FilesBelow
<1> QED
  BY <1>4, <1>5

(* The children of the folder come heaviest first, and their bytes are its   *)
(* own.                                                                      *)
Children(places) ==
  {Child(FilesBelow(places, home \o <<n>>), n) :
     n \in {m \in Names(places, home) : FilesBelow(places, home \o <<m>>) # {}}}

LEMMA ChildrenAre ==
  ASSUME NEW places \in SUBSET DOMAIN Meta, IsFiniteSet(places),
         NEW c, c = Cardinality(Children(places)), NEW list, list = children(places, home)
  PROVE  /\ c \in Nat /\ list \in Lists(c, Children(places))
         /\ \A i \in 1..c : list[i].bytes \in Nat
         /\ \A i, j \in 1..c : i < j => list[j].bytes <= list[i].bytes
         /\ SumIn(Bytes(list), 1..c) = BytesOf(FilesBelow(places, home))
<1> DEFINE below(n) == FilesBelow(places, home \o <<n>>)
           l == Len(home)
           ns == {m \in Names(places, home) : below(m) # {}}
           all == Children(places)
           B == {p \in all \X all : p[1].bytes > p[2].bytes}
<1>1. all = {Child(below(n), n) : n \in ns}
  BY DEF Children
<1>2. IsFiniteSet(ns)
  <2> DEFINE Q == {q \in places : AtOrBelow(home, q) /\ q # home}
             f == [q \in places |-> q[l + 1]]
  <2>1. IsFiniteSet(Q)
    BY FS_Subset
  <2>2. IsFiniteSet({f[q] : q \in Q})
    <3> HIDE DEF f, Q
    <3> QED
      BY <2>1, FiniteImage
  <2>3. Names(places, home) = {f[q] : q \in Q}
    BY DEF Names
  <2>4. ns \in SUBSET Names(places, home)
    OBVIOUS
  <2> QED
    BY <2>2, <2>3, <2>4, FS_Subset
<1>3. IsFiniteSet(all)
  <2> DEFINE g == [n \in ns |-> Child(below(n), n)]
  <2>1. all = {g[n] : n \in ns}
    BY <1>1
  <2> HIDE DEF g, ns
  <2> QED
    BY <1>2, <2>1, FiniteImage
<1>4. \A n \in ns : below(n) \in SUBSET DOMAIN Meta /\ IsFiniteSet(below(n)) /\ n \in Names(places, home)
  BY FS_Subset DEF FilesBelow
<1>5. ASSUME NEW x \in all
      PROVE  x.name \in ns /\ x = Child(below(x.name), x.name) /\ x.bytes = BytesOf(below(x.name)) /\ x.bytes \in Nat
  <2>1. PICK n \in ns : x = Child(below(n), n)
    BY <1>1
  <2>2. x.name = n /\ x.bytes = BytesOf(below(n))
    BY <2>1 DEF Child
  <2>3. BytesOf(below(n)) \in Nat
    <3> DEFINE S == below(n)
    <3>1. S \in SUBSET DOMAIN Meta /\ IsFiniteSet(S)
      BY <1>4
    <3>2. {} \in SUBSET DOMAIN Meta /\ IsFiniteSet({}) /\ S \cap {} = {}
      BY FS_EmptySet
    <3> HIDE DEF S
    <3>3. BytesOf(S) \in Nat
      BY <3>1, <3>2, BytesAddUp
    <3> QED
      BY <3>3 DEF S
  <2> QED
    BY <2>1, <2>2, <2>3
<1> HIDE DEF all, ns, below
<1>6. IsOrder(B, all)
  <2>1. \A x, y \in all : <<x, y>> \in B <=> x.bytes > y.bytes
    OBVIOUS
  <2>2. \A x \in all : x.bytes \in Nat
    BY <1>5
  <2> HIDE DEF B
  <2> QED
    BY <2>1, <2>2 DEF IsOrder
<1>7. list = SortedBy(all, B) /\ c = Cardinality(all)
  BY DEF children, Children, all
<1>8. /\ c \in Nat /\ list \in Lists(c, all)
      /\ \A i, j \in 1..c : list[i] = list[j] => i = j
      /\ \A x \in all : \E i \in 1..c : list[i] = x
      /\ \A i, j \in 1..c : i < j => <<list[j], list[i]>> \notin B
  <2> HIDE DEF B
  <2> QED
    BY <1>3, <1>6, <1>7, Sorting DEF Lists
<1>9. \A i \in 1..c : list[i] \in all
  BY <1>8 DEF Lists
<1> DEFINE F(i) == below(list[i].name)
           b == Bytes(list)
           Part(k) == UNION {F(i) : i \in 1..k}
           Bad == {k \in 0..c : ~(BytesOf(Part(k)) = SumIn(b, 1..k))}
<1>10. \A i \in 1..c : b[i] = BytesOf(F(i)) /\ b[i] \in Nat /\ list[i].bytes \in Nat
  <2>1. DOMAIN list = 1..c
    BY <1>8 DEF Lists
  <2> QED
    BY <1>5, <1>9, <2>1 DEF Bytes
<1>11. \A i \in 1..c : F(i) \in SUBSET FilesBelow(places, home) /\ \A p \in F(i) : p[l + 1] = list[i].name
  BY <1>4, <1>5, <1>9, BelowChildren DEF below
<1>12. \A i, j \in 1..c : i # j => F(i) \cap F(j) = {}
  <2> SUFFICES ASSUME NEW i \in 1..c, NEW j \in 1..c, F(i) \cap F(j) # {} PROVE i = j
    OBVIOUS
  <2>1. list[i].name = list[j].name
    BY <1>11
  <2>2. list[i] = list[j]
    BY <1>5, <1>9, <2>1
  <2> QED
    BY <1>8, <2>2
<1>13. FilesBelow(places, home) \in SUBSET DOMAIN Meta /\ IsFiniteSet(FilesBelow(places, home))
  BY FS_Subset DEF FilesBelow
<1> HIDE DEF F, b
<1>14. \A k \in 0..c : Part(k) \in SUBSET FilesBelow(places, home) /\ Part(k) \in SUBSET DOMAIN Meta /\ IsFiniteSet(Part(k))
  <2> SUFFICES ASSUME NEW k \in 0..c
               PROVE  Part(k) \in SUBSET FilesBelow(places, home) /\ Part(k) \in SUBSET DOMAIN Meta /\ IsFiniteSet(Part(k))
    OBVIOUS
  <2>1. 1..k \in SUBSET (1..c)
    BY <1>8
  <2>2. Part(k) \in SUBSET FilesBelow(places, home)
    BY <1>11, <2>1
  <2> HIDE DEF Part
  <2> QED
    BY <1>13, <2>2, FS_Subset
<1>15. \A k \in 0..c : Counts(b, 1..k)
  <2>1. \A k \in 0..c : IsFiniteSet(1..k) /\ 1..k \in SUBSET (1..c)
    BY <1>8, FS_Interval
  <2> QED
    BY <1>10, <2>1 DEF Counts
<1>16. Bad = {}
  <2> SUFFICES ASSUME Bad # {} PROVE FALSE
    OBVIOUS
  <2>1. Bad \in SUBSET Nat
    BY <1>8
  <2>2. PICK k \in Bad : \A m \in Bad : k <= m
    BY <2>1, LeastExists
  <2>3. k \in 0..c /\ k \in Nat /\ ~(BytesOf(Part(k)) = SumIn(b, 1..k))
    BY <2>1, <2>2
  <2>4. k # 0
    <3>1. BytesOf({}) = 0
      <4>1. {} \in SUBSET DOMAIN Meta /\ IsFiniteSet({}) /\ {} \cap {} = {}
        BY FS_EmptySet
      <4> QED
        BY <4>1, BytesAddUp
    <3>2. SumIn(b, {}) = 0
      <4>1. 0 \in 0..c
        BY <1>8
      <4>2. Counts(b, 1..0)
        BY <1>15, <4>1
      <4> QED
        BY <4>2, SumInIs
    <3>3. 1..0 = {} /\ Part(0) = {}
      OBVIOUS
    <3> QED
      BY <2>3, <3>1, <3>2, <3>3
  <2>5. k - 1 \in 0..c /\ k \in 1..c /\ ~(k <= k - 1) /\ 1..k \ {k} = 1..(k - 1) /\ 1..k = 1..(k - 1) \cup {k} /\ k \in 1..k
    BY <1>8, <2>3, <2>4
  <2>6. BytesOf(Part(k - 1)) = SumIn(b, 1..(k - 1))
    <3>1. k - 1 \notin Bad
      BY <2>2, <2>3, <2>5
    <3> QED
      BY <2>5, <3>1
  <2>7. Part(k) = Part(k - 1) \cup F(k)
    BY <2>5
  <2>8. Part(k - 1) \cap F(k) = {}
    <3>1. \A i \in 1..(k - 1) : i \in 1..c /\ i # k
      BY <1>8, <2>3, <2>5
    <3>2. \A i \in 1..(k - 1) : F(i) \cap F(k) = {}
      BY <1>12, <2>5, <3>1
    <3> QED
      BY <3>2
  <2>9. F(k) \in SUBSET DOMAIN Meta /\ IsFiniteSet(F(k))
    BY <1>11, <1>13, <2>5, FS_Subset
  <2>10. Part(k - 1) \in SUBSET DOMAIN Meta /\ IsFiniteSet(Part(k - 1))
    BY <1>14, <2>5
  <2>11. BytesOf(Part(k - 1) \cup F(k)) = BytesOf(Part(k - 1)) + BytesOf(F(k))
    <3> HIDE DEF Part
    <3> QED
      BY <2>8, <2>9, <2>10, BytesAddUp
  <2>12. SumIn(b, 1..k) = b[k] + SumIn(b, 1..(k - 1))
    <3>1. Counts(b, 1..k)
      BY <1>15, <2>3
    <3>2. SumIn(b, 1..k) = b[k] + SumIn(b, 1..k \ {k})
      BY <2>5, <3>1, SumWithout
    <3> QED
      BY <2>5, <3>2
  <2>13. SumIn(b, 1..(k - 1)) \in Nat /\ b[k] = BytesOf(F(k)) /\ b[k] \in Nat
    <3>1. Counts(b, 1..(k - 1))
      BY <1>15, <2>5
    <3>2. SumIn(b, 1..(k - 1)) \in Nat
      BY <3>1, SumInIs
    <3> QED
      BY <1>10, <2>5, <3>2
  <2>14. BytesOf(Part(k)) = SumIn(b, 1..(k - 1)) + b[k]
    BY <2>6, <2>7, <2>11, <2>13
  <2> HIDE DEF Part, Bad
  <2> QED
    BY <2>3, <2>12, <2>13, <2>14
<1>17. Part(c) = FilesBelow(places, home)
  <2>1. ASSUME NEW p \in FilesBelow(places, home) PROVE p \in Part(c)
    <3>1. PICK n \in Names(places, home) : p \in below(n)
      BY BelowChildren DEF below
    <3>2. n \in ns
      BY <3>1 DEF ns
    <3>3. Child(below(n), n) \in all /\ Child(below(n), n).name = n
      BY <1>1, <3>2 DEF Child
    <3>4. PICK i \in 1..c : list[i] = Child(below(n), n)
      BY <1>8, <3>3
    <3>5. p \in F(i)
      BY <3>1, <3>3, <3>4 DEF F
    <3> QED
      BY <3>5
  <2>2. c \in 0..c
    BY <1>8
  <2>3. Part(c) \in SUBSET FilesBelow(places, home)
    BY <1>14, <2>2
  <2> HIDE DEF Part
  <2> QED
    BY <2>1, <2>3
<1>18. SumIn(b, 1..c) = BytesOf(FilesBelow(places, home))
  <2>1. c \in 0..c
    BY <1>8
  <2>2. BytesOf(Part(c)) = SumIn(b, 1..c)
    BY <1>16, <2>1
  <2> QED
    BY <1>17, <2>2
<1>19. \A i, j \in 1..c : i < j => list[j].bytes <= list[i].bytes
  <2>1. \A i, j \in 1..c : <<list[j], list[i]>> \in B <=> list[j].bytes > list[i].bytes
    BY <1>9
  <2>2. \A i \in 1..c : list[i].bytes \in Nat
    BY <1>10
  <2> HIDE DEF B
  <2>3. \A i, j \in 1..c : i < j => ~(list[j].bytes > list[i].bytes)
    BY <1>8, <2>1
  <2> SUFFICES ASSUME NEW i \in 1..c, NEW j \in 1..c, i < j PROVE list[j].bytes <= list[i].bytes
    OBVIOUS
  <2> DEFINE x == list[j].bytes
             y == list[i].bytes
  <2>4. x \in Nat /\ y \in Nat /\ ~(x > y)
    BY <2>2, <2>3
  <2> HIDE DEF x, y
  <2>5. x <= y
    BY <2>4
  <2> QED
    BY <2>5 DEF x, y
<1> QED
  BY <1>8, <1>10, <1>18, <1>19 DEF b, all

LEMMA TilesOfFolder ==
  ASSUME NEW places \in SUBSET DOMAIN Meta, IsFiniteSet(places), BytesOf(FilesBelow(places, home)) > 0
  PROVE  Tiles(lay_out_children(places, home), BytesOf(FilesBelow(places, home)))
<1> DEFINE tree == BytesOf(FilesBelow(places, home))
           list == children(places, home)
           c == Cardinality(Children(places))
<1>1. /\ c \in Nat /\ list \in Lists(c, Children(places))
      /\ \A i \in 1..c : list[i].bytes \in Nat
      /\ \A i, j \in 1..c : i < j => list[j].bytes <= list[i].bytes
      /\ SumIn(Bytes(list), 1..c) = tree
  BY ChildrenAre
<1>2. tree \in Nat /\ tree # 0
  <2> DEFINE S == FilesBelow(places, home)
  <2>1. S \in SUBSET DOMAIN Meta /\ IsFiniteSet(S)
    BY FS_Subset DEF FilesBelow
  <2>2. {} \in SUBSET DOMAIN Meta /\ IsFiniteSet({}) /\ S \cap {} = {}
    BY FS_EmptySet
  <2> HIDE DEF S
  <2>3. BytesOf(S) \in Nat
    BY <2>1, <2>2, BytesAddUp
  <2>4. BytesOf(S) > 0
    BY DEF S
  <2>5. BytesOf(S) # 0
    BY <2>3, <2>4
  <2> QED
    BY <2>3, <2>5 DEF S
<1>3. lay_out_children(places, home) = LayOut(list, tree)
  BY DEF lay_out_children
<1> HIDE DEF tree, list, c
<1>4. PICK v \in Nat : /\ v = Cardinality({i \in DOMAIN list : Laid(i, list[i], tree)})
                       /\ v <= c /\ v <= MaxLaidOut /\ \A i \in 1..v : list[i].bytes \in Pos
  BY <1>1, <1>2, LaidFirst
<1> DEFINE slots == Slots(list, v)
<1>5. PICK n \in Nat : /\ n <= MaxLaidOut + 1 /\ DOMAIN slots = 1..n
                       /\ Bytes(slots) \in Lists(n, Pos) /\ SumOf(Bytes(slots)) = tree
  <2> DEFINE S == Children(places)
  <2>1. list \in Lists(c, S) /\ tree \in Nat /\ SumIn(Bytes(list), 1..c) = tree /\ \A i \in 1..c : list[i].bytes \in Nat
    BY <1>1, <1>2
  <2>2. v \in Nat /\ v <= c /\ v <= MaxLaidOut /\ \A i \in 1..v : list[i].bytes \in Pos
    BY <1>4
  <2> HIDE DEF S
  <2>3. \E n \in Nat : /\ n <= MaxLaidOut + 1 /\ DOMAIN Slots(list, v) = 1..n
                       /\ Bytes(Slots(list, v)) \in Lists(n, Pos) /\ SumOf(Bytes(Slots(list, v))) = tree
    BY <1>1, <2>1, <2>2, SlotsAre
  <2> QED
    BY <2>3
<1>6. LayOut(list, tree) = TilesFor(slots)
  BY <1>2, <1>4 DEF LayOut
<1> HIDE DEF slots
<1>7. Tiles(TilesFor(slots), SumOf(Bytes(slots)))
  BY <1>5, SquarifiedTiles
<1> QED
  BY <1>3, <1>5, <1>6, <1>7 DEF tree

(* The contract of the treemap (layout.rs:55-61), for any folder, budget and *)
(* threshold: no more tiles than the budget and one; each inside the square  *)
(* and exactly as large as its share; no two overlapping; together all the   *)
(* bytes below the folder, so the children too small for a tile of their own *)
(* and those past the budget are in the one they share.                      *)
THEOREM TilesShareOut == MachineSpec => []TilesAccount
<1>1. MachineInv => TilesAccount
  <2> SUFFICES ASSUME MachineInv, BytesOf(FilesBelow(disk, home)) > 0
               PROVE  Tiles(lay_out_children(disk, home), BytesOf(FilesBelow(disk, home)))
    BY DEF TilesAccount
  <2>1. IsFiniteSet(disk) /\ disk \in SUBSET DOMAIN Meta
    BY MachineAssumption DEF MachineInv, MachineTypeOK
  <2> QED
    BY <2>1, TilesOfFolder
<1> QED
  BY <1>1, MachineInvariance, PTL

-----------------------------------------------------------------------------
(* The streams                                                               *)

(* The files nobody changed since the scan began, and those of them that     *)
(* have an equal one.                                                        *)
U(h) == File \ touched[h]
Alike(f, e) == Equal(content[f], content[e]) /\ Size[content[f]] = Size[content[e]]
Pairs(h) == {f \in U(h) : \E e \in U(h) \ {f} : Alike(f, e)}

KindOK(h) ==
  /\ kind[h] = "none" <=> pc[h] = "idle"
  /\ pc[h] = "pass" => kind[h] \in Scans /\ pass[h] \in 1..3
  /\ pc[h] \in {"check", "sample", "look", "doze", "asleep"} => kind[h] = "activity"

(* What was read of a file is what it holds still.                           *)
FreshOK(h) ==
  /\ pc[h] \in {"idle", "begin", "unspawned"} => \A p \in 1..3 : seen[h][p] = Unread
  /\ \A p \in 1..3 : \A f \in U(h) : seen[h][p][f] \in {Gone, content[f]}

(* How far a scan has come.                                                  *)
DupesCover(h) ==
  /\ \A f \in U(h) : (pass[h] = 1 /\ f \in todo[h]) \/ seen[h][1][f] = content[f]
  /\ pass[h] > 1 => \A f \in Pairs(h) : (pass[h] = 2 /\ f \in todo[h]) \/ seen[h][2][f] = content[f]
  /\ pass[h] > 2 => \A f \in Pairs(h) : f \in todo[h] \/ seen[h][3][f] = content[f]

LargeOldCover(h) == pass[h] = 1 /\ \A f \in U(h) : f \in todo[h] \/ seen[h][1][f] = content[f]

SweptBefore(h) == \A f \in U(h) : Sweep[f] < pass[h] => seen[h][Sweep[f]][f] = content[f]
MalwareCover(h) == \A f \in U(h) : Sweep[f] = pass[h] => f \in todo[h] \/ seen[h][pass[h]][f] = content[f]

CoverOK(h) ==
  pc[h] = "pass" =>
    /\ kind[h] = "dupes" /\ h \notin flag => DupesCover(h)
    /\ kind[h] = "largeold" => pass[h] = 1 /\ (h \notin flag => LargeOldCover(h))
    /\ kind[h] = "malware" => SweptBefore(h) /\ (h \notin flag => MalwareCover(h))

(* What a finished scan has reported.                                        *)
DupesDone(h) ==
  /\ \A g \in report[h] : Cardinality(g) >= 2 /\ \A f, e \in g \ touched[h] : Equal(content[f], content[e])
  /\ h \notin flag =>
       \A f, e \in U(h) :
         f # e /\ Alike(f, e) => \E g \in report[h] : {f, e} \subseteq g

HitsDone(h, files) ==
  /\ report[h] # {} => \A f \in files : content[f] \in Wanted => {f} \in report[h]
  /\ h \notin flag => \A f \in U(h) : {f} \in report[h] <=> content[f] \in Wanted

DoneOK(h) ==
  pc[h] = "done" =>
    /\ kind[h] = "dupes" => DupesDone(h)
    /\ kind[h] = "largeold" => HitsDone(h, U(h))
    /\ kind[h] = "malware" => HitsDone(h, {f \in U(h) : Sweep[f] < 3})

(* A sampler that slept against an order is on its way to obey it.           *)
NapOK(h) ==
  /\ stale[h] \in 0..1
  /\ stale[h] = 1 =>
       /\ kind[h] = "activity"
       /\ \/ pc[h] \in {"asleep", "check", "sample", "look", "done"}
          \/ pc[h] = "doze" /\ h \notin flag /\ nap[h] = interval[h]

IInv ==
  /\ TypeOK
  /\ ~root => content = Unread
  /\ \A h \in Handle : KindOK(h) /\ FreshOK(h) /\ CoverOK(h) /\ DoneOK(h) /\ NapOK(h)

USE StreamsAssumption

LEMMA InitHolds == Init => IInv
<1> SUFFICES ASSUME Init PROVE IInv
  OBVIOUS
<1>1. TypeOK
  BY DEF Init, TypeOK, Rows, Unread
<1>2. \A h \in Handle : KindOK(h) /\ FreshOK(h) /\ CoverOK(h) /\ DoneOK(h) /\ NapOK(h)
  <2>1. SUFFICES ASSUME NEW h \in Handle PROVE KindOK(h) /\ FreshOK(h) /\ CoverOK(h) /\ DoneOK(h) /\ NapOK(h)
    OBVIOUS
  <2>2. kind[h] = "none" /\ pc[h] = "idle" /\ stale[h] = 0
    BY DEF Init
  <2>3. \A p \in 1..3 : seen[h][p] = Unread
    BY DEF Init
  <2>4. FreshOK(h)
    BY <2>3 DEF FreshOK, Unread, U
  <2> QED
    BY <2>2, <2>4 DEF KindOK, CoverOK, DoneOK, NapOK
<1> QED
  BY <1>1, <1>2 DEF Init, IInv

(* A handle that a step does not act on, while files change under it and it  *)
(* may be cancelled.                                                         *)
Still(h) ==
  /\ kind'[h] = kind[h] /\ pc'[h] = pc[h] /\ pass'[h] = pass[h] /\ todo'[h] = todo[h]
  /\ seen'[h] = seen[h] /\ report'[h] = report[h]
  /\ h \in flag => h \in flag'
  /\ touched[h] \subseteq touched'[h]
  /\ \A f \in File \ touched'[h] : content'[f] = content[f]

LEMMA StillHolds ==
  ASSUME NEW h \in Handle, report[h] \subseteq Rows, Still(h),
         KindOK(h), FreshOK(h), CoverOK(h), DoneOK(h)
  PROVE KindOK(h)' /\ FreshOK(h)' /\ CoverOK(h)' /\ DoneOK(h)'
<1>1. U(h)' \subseteq U(h) /\ U(h)' = File \ touched'[h] /\ \A f \in U(h)' : content'[f] = content[f]
  BY DEF U, Still
<1>2. Pairs(h)' \subseteq Pairs(h) /\ Pairs(h)' \subseteq U(h)'
  BY <1>1 DEF Pairs, Alike, Equal
<1>3. KindOK(h)'
  BY DEF KindOK, Still
<1>4. FreshOK(h)'
  BY <1>1 DEF FreshOK, Still, Unread
<1>5. ASSUME DupesCover(h) PROVE DupesCover(h)'
  BY <1>1, <1>2, <1>5 DEF DupesCover, Still
<1>6. ASSUME LargeOldCover(h) PROVE LargeOldCover(h)'
  BY <1>1, <1>6 DEF LargeOldCover, Still
<1>7. ASSUME SweptBefore(h) PROVE SweptBefore(h)'
  BY <1>1, <1>7 DEF SweptBefore, Still
<1>8. ASSUME MalwareCover(h) PROVE MalwareCover(h)'
  BY <1>1, <1>8 DEF MalwareCover, Still
<1>9. CoverOK(h)'
  BY <1>5, <1>6, <1>7, <1>8 DEF CoverOK, Still
<1>10. ASSUME DupesDone(h) PROVE DupesDone(h)'
  <2>1. \A f \in File : f \notin touched'[h] => f \notin touched[h] /\ content'[f] = content[f]
    BY DEF Still
  <2> QED
    BY <1>1, <1>10, <2>1 DEF DupesDone, Still, Rows, Alike, Equal
<1>11. ASSUME HitsDone(h, U(h)) PROVE HitsDone(h, U(h))'
  BY <1>1, <1>11 DEF HitsDone, Still
<1>12. ASSUME HitsDone(h, {f \in U(h) : Sweep[f] < 3}) PROVE HitsDone(h, {f \in U(h) : Sweep[f] < 3})'
  BY <1>1, <1>12 DEF HitsDone, Still
<1>13. DoneOK(h)'
  BY <1>10, <1>11, <1>12 DEF DoneOK, Still
<1> QED
  BY <1>3, <1>4, <1>9, <1>13

(* The commands and the file system only do this to a sampler.               *)
LEMMA NapStays ==
  ASSUME NEW h \in Handle, NapOK(h), UNCHANGED <<kind, pc, interval, nap, stale, flag>> PROVE NapOK(h)'
  BY DEF NapOK

LEMMA ChangeHolds == ASSUME IInv, Edit \/ RemoveRoot PROVE IInv'
<1>1. UNCHANGED <<kind, pc, pass, todo, seen, report, listed, flag, interval, nap, ring, stale>>
  BY DEF Edit, RemoveRoot, Change, scan, sampler
<1>2. PICK c \in [File -> Content \cup {Gone}] : Change(c) /\ (~root' => c = Unread)
  <2>1. CASE Edit
    <3>1. PICK f \in File, d \in Content \cup {Gone} : root /\ Change([content EXCEPT ![f] = d]) /\ UNCHANGED root
      BY <2>1 DEF Edit
    <3>2. [content EXCEPT ![f] = d] \in [File -> Content \cup {Gone}]
      BY DEF IInv, TypeOK
    <3> QED
      BY <3>1, <3>2
  <2>2. CASE RemoveRoot
    BY <2>2 DEF RemoveRoot, Unread
  <2> QED
    BY <2>1, <2>2
<1>3. /\ content' = c /\ edits' = edits + 1 /\ edits < MaxEdits
      /\ touched' = [h \in Handle |-> touched[h] \cup {f \in File : c[f] # content[f]}]
  BY <1>2 DEF Change
<1>4. root' \in BOOLEAN
  BY DEF Edit, RemoveRoot, IInv, TypeOK
<1>5. TypeOK'
  BY <1>1, <1>3, <1>4 DEF IInv, TypeOK, Rows
<1>6. ASSUME NEW h \in Handle PROVE KindOK(h)' /\ FreshOK(h)' /\ CoverOK(h)' /\ DoneOK(h)' /\ NapOK(h)'
  <2>1. Still(h)
    BY <1>1, <1>3 DEF Still
  <2> QED
    BY <1>1, <2>1, StillHolds, NapStays DEF IInv, TypeOK
<1> QED
  BY <1>2, <1>3, <1>5, <1>6 DEF IInv

(* One handle acts: it is enough to look at that one.                        *)
LEMMA ActorHolds ==
  ASSUME IInv, TypeOK', UNCHANGED <<root, content>>, NEW h \in Handle,
         KindOK(h)' /\ FreshOK(h)' /\ CoverOK(h)' /\ DoneOK(h)' /\ NapOK(h)',
         \A g \in Handle \ {h} :
           /\ kind'[g] = kind[g] /\ pc'[g] = pc[g] /\ pass'[g] = pass[g] /\ todo'[g] = todo[g]
           /\ seen'[g] = seen[g] /\ report'[g] = report[g] /\ touched'[g] = touched[g]
           /\ interval'[g] = interval[g] /\ nap'[g] = nap[g] /\ stale'[g] = stale[g]
           /\ g \in flag' <=> g \in flag
  PROVE IInv'
<1>1. ASSUME NEW g \in Handle \ {h} PROVE KindOK(g)' /\ FreshOK(g)' /\ CoverOK(g)' /\ DoneOK(g)' /\ NapOK(g)'
  <2>1. Still(g)
    BY DEF Still
  <2>2. KindOK(g)' /\ FreshOK(g)' /\ CoverOK(g)' /\ DoneOK(g)'
    BY <2>1, StillHolds DEF IInv, TypeOK
  <2>3. NapOK(g)'
    BY DEF IInv, NapOK
  <2> QED
    BY <2>2, <2>3
<1> QED
  BY <1>1 DEF IInv

LEMMA StartHolds ==
  ASSUME IInv, NEW h \in Handle, NEW k \in Scans \cup {"activity"}, Register(h, k) \/ Unregistered(h, k)
  PROVE IInv'
<1>1. /\ kind[h] = "none" /\ kind' = [kind EXCEPT ![h] = k] /\ touched' = [touched EXCEPT ![h] = {}]
      /\ UNCHANGED <<root, content, edits, pass, todo, seen, report, flag, interval, nap, ring, stale>>
      /\ listed' \subseteq Handle
  BY DEF Register, Unregistered, fs, scan, sampler, IInv, TypeOK
<1>2. pc' = [pc EXCEPT ![h] = "begin"] \/ pc' = [pc EXCEPT ![h] = "unspawned"]
  BY DEF Register, Unregistered, Goto
<1>3. TypeOK'
  BY <1>1, <1>2 DEF IInv, TypeOK
<1>4. pc'[h] \in {"begin", "unspawned"} /\ kind'[h] = k /\ touched'[h] = {}
  BY <1>1, <1>2 DEF IInv, TypeOK
<1>5. pc[h] = "idle"
  BY <1>1 DEF IInv, KindOK
<1>6. KindOK(h)' /\ CoverOK(h)' /\ DoneOK(h)'
  BY <1>4 DEF KindOK, CoverOK, DoneOK, Scans
<1>7. FreshOK(h)'
  <2>1. \A p \in 1..3 : seen'[h][p] = Unread
    BY <1>1, <1>5 DEF IInv, FreshOK
  <2> QED
    BY <2>1 DEF FreshOK, Unread, U
<1>8. NapOK(h)'
  BY <1>1 DEF IInv, NapOK
<1>9. \A g \in Handle \ {h} : kind'[g] = kind[g] /\ pc'[g] = pc[g] /\ touched'[g] = touched[g]
  BY <1>1, <1>2 DEF IInv, TypeOK
<1> QED
  BY <1>1, <1>3, <1>6, <1>7, <1>8, <1>9, ActorHolds

(* A cancel of a scan, a forget, a notify.                                   *)
LEMMA RaiseHolds ==
  ASSUME IInv, NEW h \in Handle, kind[h] \in Scans, Raise(h), UNCHANGED sampler PROVE IInv'
<1>1. /\ flag' = flag \cup {h}
      /\ UNCHANGED <<root, content, edits, kind, pc, pass, todo, seen, report, listed, touched, interval, nap, ring, stale>>
  BY DEF Raise, fs, scan, sampler
<1>2. TypeOK'
  BY <1>1 DEF IInv, TypeOK
<1>3. Still(h)
  BY <1>1 DEF Still
<1>4. KindOK(h)' /\ FreshOK(h)' /\ CoverOK(h)' /\ DoneOK(h)'
  BY <1>3, StillHolds DEF IInv, TypeOK
<1>5. NapOK(h)'
  BY <1>1 DEF IInv, NapOK, Scans
<1> QED
  BY <1>1, <1>2, <1>4, <1>5, ActorHolds

LEMMA OrderHolds ==
  ASSUME IInv, NEW h \in Handle, cancel_activity(h) \/ set_activity_interval(h) PROVE IInv'
<1>1. /\ flag \subseteq flag' /\ flag' \subseteq flag \cup {h}
      /\ UNCHANGED <<root, content, edits, kind, pc, pass, todo, seen, report, listed, touched, nap>>
      /\ ring' = ring \cup {h} /\ stale' = [stale EXCEPT ![h] = 0]
  BY DEF cancel_activity, set_activity_interval, Raise, Order, fs, scan, sampler
<1>2. interval' = interval \/ \E n \in Naps : interval' = [interval EXCEPT ![h] = n]
  BY DEF cancel_activity, set_activity_interval
<1>3. TypeOK'
  <2>1. interval' \in [Handle -> Naps]
    BY <1>2 DEF IInv, TypeOK
  <2>2. stale' \in [Handle -> Nat] /\ flag' \subseteq Handle /\ ring' \subseteq Handle
    BY <1>1 DEF IInv, TypeOK
  <2> QED
    BY <1>1, <2>1, <2>2 DEF IInv, TypeOK
<1>4. Still(h)
  BY <1>1 DEF Still
<1>5. KindOK(h)' /\ FreshOK(h)' /\ CoverOK(h)' /\ DoneOK(h)'
  BY <1>4, StillHolds DEF IInv, TypeOK
<1>6. NapOK(h)' /\ \A g \in Handle \ {h} : stale'[g] = stale[g] /\ interval'[g] = interval[g]
  BY <1>1, <1>2 DEF IInv, TypeOK, NapOK
<1> QED
  BY <1>1, <1>3, <1>5, <1>6, ActorHolds

LEMMA DropHolds == ASSUME IInv, NEW h \in Handle, Drop(h) PROVE IInv'
<1>1. /\ listed' = listed \ {h}
      /\ UNCHANGED <<root, content, edits, kind, pc, pass, todo, seen, report, flag, touched, interval, nap, ring, stale>>
  BY DEF Drop, fs, scan, sampler
<1>2. TypeOK'
  BY <1>1 DEF IInv, TypeOK
<1>3. KindOK(h)' /\ FreshOK(h)' /\ CoverOK(h)' /\ DoneOK(h)'
  BY <1>1, StillHolds DEF IInv, TypeOK, Still
<1>4. NapOK(h)'
  BY <1>1 DEF IInv, NapOK
<1> QED
  BY <1>1, <1>2, <1>3, <1>4, ActorHolds

LEMMA NotifyHolds == ASSUME IInv, NEW h \in Handle, Notify(h) PROVE IInv'
<1>1. /\ ring' = ring \ {h} /\ pc' = IF pc[h] = "asleep" THEN [pc EXCEPT ![h] = "check"] ELSE pc
      /\ UNCHANGED <<root, content, edits, kind, pass, todo, seen, report, listed, flag, touched, interval, nap, stale>>
  BY DEF Notify, Goto, fs, scan
<1>2. TypeOK'
  BY <1>1 DEF IInv, TypeOK
<1>3. CASE pc[h] = "asleep"
  <2>1. pc'[h] = "check" /\ \A g \in Handle \ {h} : pc'[g] = pc[g]
    BY <1>1, <1>3 DEF IInv, TypeOK
  <2>2. U(h)' = U(h)
    BY <1>1 DEF U
  <2>3. KindOK(h)' /\ FreshOK(h)' /\ CoverOK(h)' /\ DoneOK(h)' /\ NapOK(h)'
    BY <1>1, <1>3, <2>1, <2>2 DEF IInv, KindOK, FreshOK, CoverOK, DoneOK, NapOK, Unread
  <2> QED
    BY <1>1, <1>2, <2>1, <2>3, ActorHolds
<1>4. CASE pc[h] # "asleep"
  <2>1. KindOK(h)' /\ FreshOK(h)' /\ CoverOK(h)' /\ DoneOK(h)'
    BY <1>1, <1>4, StillHolds DEF IInv, TypeOK, Still
  <2>2. NapOK(h)'
    BY <1>1, <1>4 DEF IInv, NapOK
  <2> QED
    BY <1>1, <1>2, <1>4, <2>1, <2>2, ActorHolds
<1> QED
  BY <1>3, <1>4
-----------------------------------------------------------------------------
(* The sampler's own steps.                                                  *)
LEMMA SamplerHolds == ASSUME IInv, NEW h \in Handle, run_activity_stream(h) PROVE IInv'
<1>1. /\ kind[h] = "activity"
      /\ UNCHANGED <<root, content, edits, kind, pass, todo, seen, report, listed, flag, touched, interval, ring>>
  BY DEF run_activity_stream, sleep_cancellable, ReadInterval, Step, fs, scan
<1>2. PICK to \in {"check", "sample", "look", "doze", "asleep", "done"} :
        /\ pc' = [pc EXCEPT ![h] = to]
        /\ \/ /\ to = IF pc[h] = "begin" THEN "check" ELSE to
              /\ pc[h] \in {"begin", "asleep"} => to = "check"
              /\ pc[h] = "check" => to = IF Cancelled(h) THEN "done" ELSE "sample"
              /\ pc[h] = "sample" => to = "look"
              /\ pc[h] \in {"begin", "asleep", "check", "sample"} /\ UNCHANGED <<nap, stale>>
           \/ /\ pc[h] = "look" /\ to = (IF Cancelled(h) THEN "done" ELSE "doze") /\ UNCHANGED stale
              /\ nap' = IF Cancelled(h) THEN nap ELSE [nap EXCEPT ![h] = interval[h]]
           \/ /\ pc[h] = "doze" /\ to = "asleep" /\ UNCHANGED nap
              /\ stale' = IF Obsolete(h) THEN [stale EXCEPT ![h] = stale[h] + 1] ELSE stale
  BY DEF run_activity_stream, sleep_cancellable, ReadInterval, Step, Goto
<1>3. pc'[h] = to /\ \A g \in Handle \ {h} : pc'[g] = pc[g] /\ nap'[g] = nap[g] /\ stale'[g] = stale[g]
  BY <1>2 DEF IInv, TypeOK
<1>4. nap' \in [Handle -> Naps] /\ stale' \in [Handle -> Nat]
  <2>1. nap' = nap \/ nap' = [nap EXCEPT ![h] = interval[h]]
    BY <1>2
  <2>2. stale' = stale \/ stale' = [stale EXCEPT ![h] = stale[h] + 1]
    BY <1>2
  <2>3. nap' \in [Handle -> Naps]
    BY <2>1 DEF IInv, TypeOK
  <2>4. stale' \in [Handle -> Nat]
    <3>1. stale \in [Handle -> Nat] /\ stale[h] + 1 \in Nat
      BY DEF IInv, TypeOK
    <3> QED
      BY <2>2, <3>1
  <2> QED
    BY <2>3, <2>4
<1>5. TypeOK'
  BY <1>1, <1>2, <1>4 DEF IInv, TypeOK
<1>6. KindOK(h)' /\ CoverOK(h)' /\ DoneOK(h)'
  BY <1>1, <1>3 DEF IInv, KindOK, CoverOK, DoneOK
<1>7. FreshOK(h)'
  BY <1>1, <1>3 DEF IInv, FreshOK, U, Unread
<1>8. NapOK(h)'
  BY <1>1, <1>2, <1>3 DEF IInv, TypeOK, NapOK, Obsolete, Cancelled
<1> QED
  BY <1>1, <1>3, <1>5, <1>6, <1>7, <1>8, ActorHolds

(* A scanning thread acts on its own handle, and only on what it scans.      *)
LEMMA WorkerHolds ==
  ASSUME IInv, NEW h \in Handle, kind[h] \in Scans, Worker(h), TypeOK',
         KindOK(h)' /\ FreshOK(h)' /\ CoverOK(h)' /\ DoneOK(h)',
         \A g \in Handle \ {h} : pc'[g] = pc[g] /\ pass'[g] = pass[g] /\ todo'[g] = todo[g]
                                 /\ seen'[g] = seen[g] /\ report'[g] = report[g]
  PROVE IInv'
<1>1. UNCHANGED <<root, content, edits, kind, listed, flag, touched, interval, nap, ring, stale>>
  BY DEF Worker, fs, sampler
<1>2. NapOK(h)'
  BY <1>1 DEF IInv, NapOK, Scans
<1> QED
  BY <1>1, <1>2, ActorHolds

LEMMA FinishHolds ==
  ASSUME IInv, NEW h \in Handle, NEW rows \in SUBSET Rows, kind[h] \in Scans, pc[h] \in {"begin", "pass"}, Worker(h), Finish(h, rows),
         kind[h] = "dupes" => DupesDone(h)', kind[h] = "largeold" => HitsDone(h, U(h))',
         kind[h] = "malware" => HitsDone(h, {f \in U(h) : Sweep[f] < 3})'
  PROVE IInv'
<1>1. /\ UNCHANGED <<root, content, edits, kind, listed, flag, touched, interval, nap, ring, stale, pass, todo, seen>>
      /\ report' = [report EXCEPT ![h] = rows] /\ pc' = [pc EXCEPT ![h] = "done"]
  BY DEF Worker, Finish, Goto, fs, sampler
<1>2. TypeOK'
  BY <1>1 DEF IInv, TypeOK, Rows
<1>3. pc'[h] = "done" /\ \A g \in Handle \ {h} : pc'[g] = pc[g] /\ report'[g] = report[g]
  BY <1>1 DEF IInv, TypeOK
<1>4. KindOK(h)' /\ CoverOK(h)' /\ DoneOK(h)'
  BY <1>1, <1>3 DEF IInv, KindOK, CoverOK, DoneOK, Scans
<1>5. FreshOK(h)'
  BY <1>1, <1>3 DEF IInv, FreshOK, U, Unread
<1> QED
  BY <1>1, <1>2, <1>3, <1>4, <1>5, WorkerHolds

(* A folder that is gone has no files, and an empty list of them is right.   *)
LEMMA EmptyHolds ==
  ASSUME IInv, NEW h \in Handle, kind[h] \in Scans, pc[h] \in {"begin", "pass"}, Worker(h), Finish(h, {}), ~root \/ h \in flag
  PROVE IInv'
<1>1. /\ UNCHANGED <<root, content, flag, touched>> /\ report'[h] = {}
  BY DEF Worker, Finish, fs, IInv, TypeOK
<1>2. h \notin flag => \A f \in File : content[f] = Gone
  BY DEF IInv, Unread
<1>3. DupesDone(h)' /\ HitsDone(h, U(h))' /\ HitsDone(h, {f \in U(h) : Sweep[f] < 3})'
  BY <1>1, <1>2 DEF DupesDone, HitsDone, U, Alike, Equal
<1> QED
  BY <1>3, FinishHolds

LEMMA EnterHolds ==
  ASSUME IInv, NEW h \in Handle, NEW p \in 1..3, NEW files \in SUBSET File, kind[h] \in Scans, Worker(h),
         EnterPass(h, p, files), CoverOK(h)'
  PROVE IInv'
<1>1. /\ UNCHANGED <<root, content, edits, kind, listed, flag, touched, interval, nap, ring, stale, seen, report>>
      /\ pass' = [pass EXCEPT ![h] = p] /\ todo' = [todo EXCEPT ![h] = files] /\ pc' = [pc EXCEPT ![h] = "pass"]
  BY DEF Worker, EnterPass, Goto, fs, sampler
<1>2. TypeOK'
  BY <1>1 DEF IInv, TypeOK
<1>3. pc'[h] = "pass" /\ pass'[h] = p
      /\ \A g \in Handle \ {h} : pc'[g] = pc[g] /\ pass'[g] = pass[g] /\ todo'[g] = todo[g]
  BY <1>1 DEF IInv, TypeOK
<1>4. KindOK(h)' /\ DoneOK(h)'
  BY <1>1, <1>3 DEF KindOK, DoneOK, Scans
<1>5. FreshOK(h)'
  BY <1>1, <1>3 DEF IInv, FreshOK, U
<1> QED
  BY <1>1, <1>2, <1>3, <1>4, <1>5, WorkerHolds

LEMMA VisitHolds == ASSUME IInv, NEW h \in Handle, kind[h] \in Scans, Worker(h), Visit(h) PROVE IInv'
<1>1. /\ UNCHANGED <<root, content, edits, kind, listed, flag, touched, interval, nap, ring, stale, pc, pass, report>>
      /\ pc[h] = "pass"
  BY DEF Worker, Visit, fs, sampler
<1>2. pass[h] \in 1..3 /\ U(h)' = U(h) /\ Pairs(h)' = Pairs(h)
  BY <1>1 DEF IInv, KindOK, U, Pairs, Alike, Equal
<1>3. CASE Cancelled(h)
  <2>1. todo' = [todo EXCEPT ![h] = {}] /\ UNCHANGED seen
    BY <1>3 DEF Visit
  <2>2. TypeOK'
    BY <1>1, <2>1 DEF IInv, TypeOK
  <2>3. KindOK(h)' /\ DoneOK(h)'
    BY <1>1 DEF IInv, KindOK, DoneOK
  <2>4. FreshOK(h)'
    BY <1>1, <2>1 DEF IInv, FreshOK, U
  <2>5. CoverOK(h)'
    BY <1>1, <1>2, <1>3, <2>1 DEF IInv, CoverOK, Cancelled, SweptBefore
  <2>6. \A g \in Handle \ {h} : todo'[g] = todo[g]
    BY <2>1 DEF IInv, TypeOK
  <2> QED
    BY <1>1, <2>1, <2>2, <2>3, <2>4, <2>5, <2>6, WorkerHolds
<1>4. CASE ~Cancelled(h)
  <2>1. PICK f \in todo[h] : /\ todo' = [todo EXCEPT ![h] = todo[h] \ {f}]
                             /\ seen' = [seen EXCEPT ![h][pass[h]][f] = content[f]]
    BY <1>4 DEF Visit
  <2>2. f \in File /\ content[f] \in Content \cup {Gone}
    BY <2>1 DEF IInv, TypeOK
  <2>3. /\ todo'[h] = todo[h] \ {f} /\ seen'[h][pass[h]][f] = content[f]
        /\ \A p \in 1..3 : \A e \in File : p # pass[h] \/ e # f => seen'[h][p][e] = seen[h][p][e]
        /\ \A g \in Handle \ {h} : todo'[g] = todo[g] /\ seen'[g] = seen[g]
    BY <1>2, <2>1, <2>2 DEF IInv, TypeOK
  <2>4. TypeOK'
    <3>1. seen' \in [Handle -> [1..3 -> [File -> Content \cup {Gone}]]]
      BY <1>2, <2>1, <2>2 DEF IInv, TypeOK
    <3>2. todo' \in [Handle -> SUBSET File]
      BY <2>1 DEF IInv, TypeOK
    <3> QED
      BY <1>1, <3>1, <3>2 DEF IInv, TypeOK
  <2>5. KindOK(h)' /\ DoneOK(h)'
    BY <1>1 DEF IInv, KindOK, DoneOK
  <2>6. FreshOK(h)'
    BY <1>1, <1>2, <2>3 DEF IInv, FreshOK, U
  <2>7. U(h) \subseteq File /\ Pairs(h) \subseteq File
    BY DEF U, Pairs
  <2>8. ASSUME DupesCover(h) PROVE DupesCover(h)'
    BY <1>1, <1>2, <2>2, <2>3, <2>7, <2>8 DEF DupesCover
  <2>9. ASSUME LargeOldCover(h) PROVE LargeOldCover(h)'
    BY <1>1, <1>2, <2>2, <2>3, <2>7, <2>9 DEF LargeOldCover
  <2>10. ASSUME SweptBefore(h) PROVE SweptBefore(h)'
    BY <1>1, <1>2, <2>2, <2>3, <2>7, <2>10 DEF SweptBefore
  <2>11. ASSUME MalwareCover(h) PROVE MalwareCover(h)'
    BY <1>1, <1>2, <2>2, <2>3, <2>7, <2>11 DEF MalwareCover
  <2>12. CoverOK(h)'
    BY <1>1, <1>4, <2>8, <2>9, <2>10, <2>11 DEF IInv, CoverOK, Cancelled
  <2> QED
    BY <1>1, <2>3, <2>4, <2>5, <2>6, <2>12, WorkerHolds
<1> QED
  BY <1>3, <1>4

(* The first pass of a scan.                                                 *)
LEMMA PreflightHolds ==
  ASSUME IInv, NEW h \in Handle, kind[h] \in Scans, Worker(h),
         Preflight(h, IF kind[h] = "malware" THEN SweptBy(1) ELSE File)
  PROVE IInv'
<1> DEFINE files == IF kind[h] = "malware" THEN SweptBy(1) ELSE File
<1>1. CASE root
  <2>1. EnterPass(h, 1, files)
    BY <1>1 DEF Preflight
  <2>2. pass'[h] = 1 /\ todo'[h] = files /\ UNCHANGED <<kind, touched, content, flag>>
    BY <2>1 DEF EnterPass, Worker, IInv, TypeOK, fs
  <2>3. CoverOK(h)'
    BY <2>2 DEF CoverOK, DupesCover, LargeOldCover, SweptBefore, MalwareCover, U, SweptBy, Scans
  <2>4. files \in SUBSET File
    BY DEF SweptBy
  <2> QED
    BY <2>1, <2>3, <2>4, EnterHolds
<1>2. CASE ~root
  BY <1>2, EmptyHolds DEF Preflight
<1> QED
  BY <1>1, <1>2

LEMMA SizeCandidatesHold ==
  ASSUME IInv, NEW h \in Handle, DupesCover(h), pass[h] = 1, todo[h] = {} PROVE Pairs(h) \subseteq SizeCandidates(h)
<1>1. ASSUME NEW f \in Pairs(h) PROVE f \in SizeCandidates(h)
  <2>1. PICK e \in U(h) \ {f} : Alike(f, e)
    BY <1>1 DEF Pairs
  <2>2. f \in File /\ e \in File /\ seen[h][1][f] = content[f] /\ seen[h][1][e] = content[e]
    BY <1>1, <2>1 DEF Pairs, U, DupesCover
  <2> QED
    BY <2>1, <2>2 DEF SizeCandidates, Read, SizeOf, Alike, Equal
<1> QED
  BY <1>1

LEMMA CandidatesForFullHold ==
  ASSUME IInv, NEW h \in Handle, DupesCover(h), pass[h] = 2, todo[h] = {} PROVE Pairs(h) \subseteq CandidatesForFull(h)
<1>1. ASSUME NEW f \in Pairs(h) PROVE f \in CandidatesForFull(h)
  <2>1. PICK e \in U(h) \ {f} : Alike(f, e)
    BY <1>1 DEF Pairs
  <2>2. f \in U(h) /\ e \in Pairs(h) /\ f \in Pairs(h)
    BY <1>1, <2>1 DEF Pairs, Alike, Equal
  <2>3. f \in File /\ e \in File
    BY <2>2 DEF U, Pairs
  <2>4. /\ seen[h][1][f] = content[f] /\ seen[h][1][e] = content[e]
        /\ seen[h][2][f] = content[f] /\ seen[h][2][e] = content[e]
    BY <1>1, <2>1, <2>2 DEF DupesCover
  <2>5. content[f] \in Content /\ content[e] \in Content
    BY <2>1, <2>3 DEF IInv, TypeOK, Alike, Equal
  <2>6. HeadHash[content[f]] = HeadHash[content[e]] /\ Size[content[f]] = Size[content[e]]
        /\ content[f] # Gone /\ content[e] # Gone
    BY <2>1, <2>5 DEF Alike, Equal
  <2> QED
    BY <2>1, <2>3, <2>4, <2>6 DEF CandidatesForFull, Read, HeadOf, SizeOf
<1> QED
  BY <1>1

LEMMA GroupsHold ==
  ASSUME IInv, NEW h \in Handle, kind[h] = "dupes", pc[h] = "pass", pass[h] = 3, todo[h] = {}
  PROVE /\ Groups(h) \subseteq Rows
        /\ \A g \in Groups(h) : Cardinality(g) >= 2 /\ \A f, e \in g \ touched[h] : Equal(content[f], content[e])
        /\ h \notin flag =>
             \A f, e \in U(h) :
               f # e /\ Alike(f, e) => \E g \in Groups(h) : {f, e} \subseteq g
<1>1. \A g \in Groups(h) : g \subseteq File
  BY DEF Groups, FullBucket, Read
<1>2. ASSUME NEW g \in Groups(h), NEW f \in g \ touched[h], NEW e \in g \ touched[h] PROVE Equal(content[f], content[e])
  <2>1. PICK x \in Read(h, 3) : g = FullBucket(h, x)
    BY DEF Groups
  <2>2. f \in File /\ e \in File /\ seen[h][3][f] # Gone /\ seen[h][3][e] # Gone
        /\ FullHash[seen[h][3][f]] = FullHash[seen[h][3][e]]
    BY <2>1 DEF FullBucket, Read
  <2>3. f \in U(h) /\ e \in U(h)
    BY <2>2 DEF U
  <2> QED
    BY <2>2, <2>3 DEF IInv, FreshOK, Equal
<1>3. ASSUME h \notin flag, NEW f \in U(h), NEW e \in U(h), f # e, Alike(f, e)
      PROVE \E g \in Groups(h) : {f, e} \subseteq g
  <2>1. f \in Pairs(h) /\ e \in Pairs(h) /\ f \in File /\ e \in File
    BY <1>3 DEF Pairs, U, Alike, Equal
  <2>2. DupesCover(h)
    BY <1>3 DEF IInv, CoverOK
  <2>3. seen[h][3][f] = content[f] /\ seen[h][3][e] = content[e]
    BY <1>3, <2>1, <2>2 DEF DupesCover
  <2>4. {f, e} \subseteq FullBucket(h, f) /\ f \in Read(h, 3)
    BY <1>3, <2>1, <2>3 DEF FullBucket, Read, Alike, Equal
  <2>5. Cardinality(FullBucket(h, f)) >= 2
    <3>1. FullBucket(h, f) \subseteq File /\ IsFiniteSet(FullBucket(h, f))
      BY FS_Subset DEF FullBucket, Read
    <3>2. Cardinality({f, e}) = 2
      <4>1. Cardinality({f}) = 1 /\ IsFiniteSet({f})
        BY FS_Singleton
      <4>2. {f, e} = {f} \cup {e} /\ e \notin {f}
        BY <1>3
      <4>3. Cardinality({f} \cup {e}) = Cardinality({f}) + 1
        BY <4>1, <4>2, FS_AddElement
      <4> QED
        BY <4>1, <4>2, <4>3
    <3>3. Cardinality({f, e}) <= Cardinality(FullBucket(h, f))
      BY <2>4, <3>1, FS_Subset
    <3> QED
      BY <3>1, <3>2, <3>3, FS_CardinalityType
  <2> QED
    BY <2>4, <2>5 DEF Groups
<1>4. \A g \in Groups(h) : Cardinality(g) >= 2
  BY DEF Groups
<1>5. Groups(h) \subseteq Rows
  BY <1>1 DEF Rows
<1> QED
  BY <1>2, <1>3, <1>4, <1>5

LEMMA DupesHolds == ASSUME IInv, NEW h \in Handle, run_dupes_stream(h) PROVE IInv'
<1>1. kind[h] = "dupes" /\ kind[h] \in Scans /\ Worker(h)
  BY DEF run_dupes_stream, Scans
<1>2. CASE Preflight(h, File)
  BY <1>1, <1>2, PreflightHolds
<1>3. CASE Visit(h)
  BY <1>1, <1>3, VisitHolds
<1>4. CASE pc[h] = "pass" /\ todo[h] = {} /\ pass[h] = 3 /\ Finish(h, Groups(h))
  <2>1. UNCHANGED <<content, flag, touched>> /\ report'[h] = Groups(h)
    BY <1>1, <1>4 DEF Worker, Finish, fs, IInv, TypeOK
  <2>2. U(h)' = U(h)
    BY <2>1 DEF U
  <2>3. DupesDone(h)'
    BY <1>1, <1>4, <2>1, <2>2, GroupsHold DEF DupesDone, Alike, Equal
  <2> QED
    BY <1>1, <1>4, <2>3, GroupsHold, FinishHolds
<1>5. CASE pc[h] = "pass" /\ Cancelled(h) /\ Finish(h, {})
  BY <1>1, <1>5, EmptyHolds DEF Cancelled
<1>6. ASSUME pc[h] = "pass", todo[h] = {}, ~Cancelled(h), NEW p \in {2, 3}, pass[h] = p - 1,
             EnterPass(h, p, IF p = 2 THEN SizeCandidates(h) ELSE CandidatesForFull(h))
      PROVE IInv'
  <2> DEFINE files == IF p = 2 THEN SizeCandidates(h) ELSE CandidatesForFull(h)
  <2>1. files \in SUBSET File
    BY DEF SizeCandidates, CandidatesForFull, Read
  <2>2. DupesCover(h)
    BY <1>1, <1>6 DEF IInv, CoverOK, Cancelled
  <2>3. Pairs(h) \subseteq files
    BY <1>6, <2>2, SizeCandidatesHold, CandidatesForFullHold
  <2> HIDE DEF files
  <2>4. /\ UNCHANGED <<kind, content, flag, touched, seen>> /\ pass'[h] = p /\ todo'[h] = files
        /\ EnterPass(h, p, files)
    BY <1>1, <1>6 DEF Worker, EnterPass, fs, IInv, TypeOK, files
  <2>5. U(h)' = U(h) /\ Pairs(h)' = Pairs(h) /\ Pairs(h) \subseteq U(h)
    BY <2>4 DEF U, Pairs, Alike, Equal
  <2>6. DupesCover(h)'
    BY <1>6, <2>2, <2>3, <2>4, <2>5 DEF DupesCover
  <2>7. CoverOK(h)'
    BY <1>1, <2>4, <2>6 DEF CoverOK
  <2> QED
    BY <1>1, <2>1, <2>4, <2>7, EnterHolds
<1>7. CASE pc[h] = "pass" /\ todo[h] = {} /\ pass[h] = 1 /\ ~Cancelled(h) /\ EnterPass(h, 2, SizeCandidates(h))
  BY <1>6, <1>7
<1>8. CASE pc[h] = "pass" /\ todo[h] = {} /\ pass[h] = 2 /\ ~Cancelled(h) /\ EnterPass(h, 3, CandidatesForFull(h))
  BY <1>6, <1>8
<1>9. ASSUME find_duplicates_with_progress(h), pc[h] = "pass", todo[h] = {}, ~Visit(h) PROVE IInv'
  <2>1. pass[h] \in {1, 2, 3}
    BY <1>9 DEF IInv, KindOK
  <2>2. CASE pass[h] = 3
    BY <1>4, <1>9, <2>2 DEF find_duplicates_with_progress
  <2>3. CASE pass[h] \in {1, 2} /\ Cancelled(h)
    <3>1. pass[h] # 3 /\ pass[h] < 3 /\ Cancelled(h)
      BY <2>3
    <3>2. Finish(h, {})
      BY <1>9, <3>1, Zenon DEF find_duplicates_with_progress
    <3> QED
      BY <1>5, <1>9, <3>1, <3>2
  <2>4. CASE pass[h] = 1 /\ ~Cancelled(h)
    BY <1>7, <1>9, <2>4 DEF find_duplicates_with_progress
  <2>5. CASE pass[h] = 2 /\ ~Cancelled(h)
    BY <1>8, <1>9, <2>5 DEF find_duplicates_with_progress
  <2> QED
    BY <2>1, <2>2, <2>3, <2>4, <2>5
<1> QED
  BY <1>2, <1>3, <1>9 DEF run_dupes_stream, find_duplicates_with_progress

LEMMA HitsAreRows == ASSUME NEW h \in Handle, NEW P PROVE Hits(h, P) \in SUBSET Rows
  BY DEF Hits, Rows

LEMMA LargeOldHolds == ASSUME IInv, NEW h \in Handle, run_large_old_stream(h) PROVE IInv'
<1>1. kind[h] = "largeold" /\ kind[h] \in Scans /\ Worker(h)
  BY DEF run_large_old_stream, Scans
<1>2. CASE Preflight(h, File)
  BY <1>1, <1>2, PreflightHolds
<1>3. CASE Visit(h)
  BY <1>1, <1>3, VisitHolds
<1>4. CASE pc[h] = "pass" /\ Cancelled(h) /\ Finish(h, {})
  BY <1>1, <1>4, EmptyHolds DEF Cancelled
<1>5. CASE pc[h] = "pass" /\ todo[h] = {} /\ ~Cancelled(h) /\ Finish(h, Hits(h, {1}))
  <2>1. UNCHANGED <<content, flag, touched>> /\ report'[h] = Hits(h, {1})
    BY <1>1, <1>5 DEF Worker, Finish, fs, IInv, TypeOK
  <2>2. \A f \in U(h) : seen[h][1][f] = content[f]
    BY <1>1, <1>5 DEF IInv, CoverOK, LargeOldCover, Cancelled
  <2>3. \A f \in U(h) : {f} \in Hits(h, {1}) <=> content[f] \in Wanted
    BY <2>2 DEF Hits, U
  <2>4. U(h)' = U(h)
    BY <2>1 DEF U
  <2>5. HitsDone(h, U(h))'
    BY <2>1, <2>3, <2>4 DEF HitsDone
  <2> QED
    BY <1>1, <1>5, <2>5, HitsAreRows, FinishHolds
<1> QED
  BY <1>2, <1>3, <1>4, <1>5 DEF run_large_old_stream, large_old_walk

LEMMA MalwareHolds == ASSUME IInv, NEW h \in Handle, run_malware_stream(h) PROVE IInv'
<1>1. kind[h] = "malware" /\ kind[h] \in Scans /\ Worker(h)
  BY DEF run_malware_stream, Scans
<1>2. CASE Preflight(h, SweptBy(1))
  BY <1>1, <1>2, PreflightHolds
<1>3. CASE Visit(h)
  BY <1>1, <1>3, VisitHolds
<1>4. CASE pc[h] \in {"begin", "pass"} /\ Cancelled(h) /\ Finish(h, {})
  BY <1>1, <1>4, EmptyHolds DEF Cancelled
<1>5. CASE pc[h] = "pass" /\ todo[h] = {} /\ pass[h] = 3 /\ Finish(h, Hits(h, 1..3))
  <2>1. UNCHANGED <<content, flag, touched>> /\ report'[h] = Hits(h, 1..3)
    BY <1>1, <1>5 DEF Worker, Finish, fs, IInv, TypeOK
  <2>2. \A f \in U(h) : Sweep[f] \in 1..3 /\ (Sweep[f] < 3 => seen[h][Sweep[f]][f] = content[f])
    BY <1>1, <1>5 DEF IInv, CoverOK, SweptBefore, U
  <2>3. h \notin flag => \A f \in U(h) : seen[h][Sweep[f]][f] = content[f]
    BY <1>1, <1>5, <2>2 DEF IInv, CoverOK, MalwareCover, U
  <2>4. \A f \in U(h) : (content[f] \in Wanted /\ seen[h][Sweep[f]][f] = content[f]) => {f} \in Hits(h, 1..3)
    BY <2>2 DEF Hits, U
  <2>5. \A f \in U(h) : {f} \in Hits(h, 1..3) => content[f] \in Wanted
    BY DEF Hits, U, IInv, FreshOK
  <2>6. U(h)' = U(h)
    BY <2>1 DEF U
  <2>7. HitsDone(h, {f \in U(h) : Sweep[f] < 3})'
    BY <2>1, <2>2, <2>3, <2>4, <2>5, <2>6 DEF HitsDone
  <2> QED
    BY <1>1, <1>5, <2>7, HitsAreRows, FinishHolds
<1>6. CASE pc[h] = "pass" /\ todo[h] = {} /\ pass[h] < 3 /\ ~Cancelled(h) /\ EnterPass(h, pass[h] + 1, SweptBy(pass[h] + 1))
  <2>1. pass[h] \in 1..2
    BY <1>6 DEF IInv, KindOK
  <2>2. UNCHANGED <<kind, content, flag, touched, seen>> /\ pass'[h] = pass[h] + 1 /\ todo'[h] = SweptBy(pass[h] + 1)
    BY <1>1, <1>6 DEF Worker, EnterPass, fs, IInv, TypeOK
  <2>3. SweptBefore(h) /\ MalwareCover(h)
    BY <1>1, <1>6 DEF IInv, CoverOK, Cancelled
  <2>4. U(h)' = U(h) /\ \A f \in U(h) : f \in File /\ Sweep[f] \in 1..3
    BY <2>2 DEF U
  <2>5. SweptBefore(h)' /\ MalwareCover(h)'
    BY <1>6, <2>1, <2>2, <2>3, <2>4 DEF SweptBefore, MalwareCover, SweptBy
  <2>6. CoverOK(h)'
    BY <1>1, <2>2, <2>5 DEF CoverOK
  <2>7. pass[h] + 1 \in 1..3 /\ SweptBy(pass[h] + 1) \in SUBSET File
    BY <2>1 DEF SweptBy
  <2> QED
    BY <1>1, <1>6, <2>6, <2>7, EnterHolds
<1>7. ASSUME run_scan(h), pc[h] = "pass", todo[h] = {}, ~Visit(h) PROVE IInv'
  <2>1. pass[h] \in {1, 2, 3}
    BY <1>7 DEF IInv, KindOK
  <2>2. CASE pass[h] = 3
    BY <1>5, <1>7, <2>2 DEF run_scan
  <2>3. CASE pass[h] \in {1, 2} /\ Cancelled(h)
    <3>1. pass[h] # 3 /\ pass[h] < 3 /\ Cancelled(h)
      BY <2>3
    <3>2. Finish(h, {})
      BY <1>7, <3>1, Zenon DEF run_scan
    <3> QED
      BY <1>4, <1>7, <3>1, <3>2
  <2>4. CASE pass[h] \in {1, 2} /\ ~Cancelled(h)
    <3>1. pass[h] # 3 /\ pass[h] < 3 /\ ~Cancelled(h)
      BY <2>4
    <3>2. EnterPass(h, pass[h] + 1, SweptBy(pass[h] + 1))
      BY <1>7, <3>1, Zenon DEF run_scan
    <3> QED
      BY <1>6, <1>7, <3>1, <3>2
  <2> QED
    BY <2>1, <2>2, <2>3, <2>4
<1> QED
  BY <1>2, <1>3, <1>4, <1>7 DEF run_malware_stream, run_scan

LEMMA NextHolds == IInv /\ [Next]_vars => IInv'
<1> SUFFICES ASSUME IInv, [Next]_vars PROVE IInv'
  OBVIOUS
<1>1. CASE Edit \/ RemoveRoot
  BY <1>1, ChangeHolds
<1>2. ASSUME NEW h \in Handle, Command(h) PROVE IInv'
  <2>1. ASSUME NEW k \in Scans \cup {"activity"}, Register(h, k) \/ Unregistered(h, k) PROVE IInv'
    BY <2>1, StartHolds
  <2>2. CASE start_duplicates(h) \/ start_large_old(h) \/ start_malware(h) \/ start_activity(h)
             \/ find_duplicates(h) \/ find_large_old(h) \/ malware_scan(h)
    BY <2>1, <2>2 DEF start_duplicates, start_large_old, start_malware, start_activity, find_duplicates,
       find_large_old, malware_scan, Scans
  <2>3. CASE cancel_duplicates(h) \/ cancel_large_old(h) \/ cancel_malware(h)
    BY <2>3, RaiseHolds DEF cancel_duplicates, cancel_large_old, cancel_malware, DupesRegistry, LargeOldRegistry,
       MalwareRegistry, Scans
  <2>4. CASE cancel_activity(h) \/ set_activity_interval(h)
    BY <2>4, OrderHolds
  <2>5. CASE forget_duplicates(h) \/ forget_large_old(h) \/ forget_malware(h) \/ forget_activity(h)
    BY <2>5, DropHolds DEF forget_duplicates, forget_large_old, forget_malware, forget_activity
  <2> QED
    BY <1>2, <2>2, <2>3, <2>4, <2>5 DEF Command
<1>3. ASSUME NEW h \in Handle, Thread(h) PROVE IInv'
  BY <1>3, DupesHolds, LargeOldHolds, MalwareHolds, SamplerHolds DEF Thread
<1>4. CASE UNCHANGED vars
  <2>1. UNCHANGED <<root, content, edits, kind, pc, pass, todo, seen, report, listed, flag, touched, interval, nap, ring, stale>>
    BY <1>4 DEF vars, fs, scan, sampler
  <2>2. TypeOK'
    BY <2>1 DEF IInv, TypeOK
  <2>3. ASSUME NEW h \in Handle PROVE KindOK(h)' /\ FreshOK(h)' /\ CoverOK(h)' /\ DoneOK(h)' /\ NapOK(h)'
    <3>1. Still(h)
      BY <2>1 DEF Still
    <3> QED
      BY <2>1, <3>1, StillHolds, NapStays DEF IInv, TypeOK
  <2> QED
    BY <2>1, <2>2, <2>3 DEF IInv
<1> QED
  BY <1>1, <1>2, <1>3, <1>4, NotifyHolds DEF Next

LEMMA Invariance == Spec => []IInv
  BY InitHolds, NextHolds, PTL DEF Spec

(* Every variable keeps its type.                                            *)
THEOREM TypeCorrect == Spec => []TypeOK
<1>1. IInv => TypeOK
  BY DEF IInv
<1> QED
  BY <1>1, Invariance, PTL

(* A duplicates report names only equal files, late cancel or not.           *)
THEOREM GroupsAreAlwaysEqual == Spec => []GroupsAreEqual
<1>1. IInv => GroupsAreEqual
  BY DEF IInv, DoneOK, DupesDone, GroupsAreEqual, Reported
<1> QED
  BY <1>1, Invariance, PTL

(* A scan nobody cancelled misses nothing.                                   *)
THEOREM ReportsAreComplete == Spec => []ReportIsComplete
<1>1. IInv => ReportIsComplete
  BY DEF IInv, DoneOK, DupesDone, HitsDone, ReportIsComplete, Reported, U, Alike, Equal
<1> QED
  BY <1>1, Invariance, PTL

(* A cancelled scan leaves all of a list, or of its first sweeps, or nothing.*)
THEOREM CancelsLeaveNoHalf == Spec => []CancelLeavesNoHalf
<1>1. IInv => CancelLeavesNoHalf
  BY DEF IInv, DoneOK, HitsDone, CancelLeavesNoHalf, Reported, U
<1> QED
  BY <1>1, Invariance, PTL

(* The sampler sleeps at most once against an order.                         *)
THEOREM OneNapIsStale == Spec => []OneStaleNap
<1>1. IInv => OneStaleNap
  BY DEF IInv, NapOK, OneStaleNap
<1> QED
  BY <1>1, Invariance, PTL
================================================================================
