---------------------------- MODULE UndoLog_proofs ----------------------------
(* UndoLog for any number of workers, batches and items, and every fault.    *)
EXTENDS MCUndoLog, SequenceTheorems, FiniteSetTheorems, WellFoundedInduction, TLAPS

-----------------------------------------------------------------------------
(* Induction on numbers, and folds                                           *)

(* Among numbers one is least.                                               *)
LEMMA LeastExists ==
  ASSUME NEW S \in SUBSET Nat, S # {} PROVE \E n \in S : \A m \in S : n <= m
<1>1. \E n \in S : \A m \in S : <<m, n>> \notin OpToRel(<, Nat)
  BY NatLessThanWellFounded, WFMin
<1>2. PICK n \in S : \A m \in S : <<m, n>> \notin OpToRel(<, Nat)
  BY <1>1
<1>3. ASSUME NEW m \in S PROVE n <= m
  <2>1. <<m, n>> \notin {p \in Nat \X Nat : p[1] < p[2]}
    BY <1>2 DEF OpToRel
  <2>2. m \in Nat /\ n \in Nat /\ ~(m < n)
    BY <2>1
  <2> QED
    BY <2>2
<1> QED
  BY <1>3

(* What a fold computes, as a function of the sets it has left.              *)
Folds(g, T, base, step, pick) ==
  \A s \in SUBSET T : g[s] = IF s = {} THEN base ELSE step[<<pick[s], g[s \ {pick[s]}]>>]

(* A fold over a finite set is defined: the function MapThenFoldSet chooses  *)
(* exists, whatever element is taken off first and whatever is done with it. *)
LEMMA FoldExists ==
  ASSUME NEW T, IsFiniteSet(T), NEW V, NEW base \in V, NEW step \in [T \X V -> V],
         NEW pick, \A s \in SUBSET T : s # {} => pick[s] \in s
  PROVE  \E g \in [SUBSET T -> V] : Folds(g, T, base, step, pick)
<1> DEFINE Dom(n) == {s \in SUBSET T : Cardinality(s) <= n}
           Part(g, n) == /\ g \in [Dom(n) -> V]
                         /\ \A s \in Dom(n) : g[s] = IF s = {} THEN base ELSE step[<<pick[s], g[s \ {pick[s]}]>>]
           Bad == {n \in Nat : ~\E g : Part(g, n)}
<1>0. \A s \in SUBSET T : IsFiniteSet(s) /\ Cardinality(s) \in Nat /\ Cardinality(s) <= Cardinality(T)
  BY FS_Subset, FS_CardinalityType
<1>1. ASSUME NEW n \in Bad, \A m \in Bad : n <= m PROVE FALSE
  <2>1. CASE n = 0
    <3> DEFINE g == [s \in Dom(0) |-> base]
    <3>1. \A s \in Dom(0) : s = {}
      BY <1>0, FS_EmptySet
    <3>2. Part(g, 0)
      <4> HIDE DEF Dom
      <4> QED
        BY <3>1
    <3> HIDE DEF Part, g
    <3> QED
      BY <2>1, <3>2, <1>1
  <2>2. CASE n # 0
    <3>1. n - 1 \in Nat /\ n - 1 \notin Bad
      <4> HIDE DEF Part
      <4>1. n \in Nat
        OBVIOUS
      <4> HIDE DEF Bad
      <4> QED
        BY <2>2, <1>1, <4>1
    <3>2. PICK h : Part(h, n - 1)
      BY <3>1
    <3> DEFINE g == [s \in Dom(n) |-> IF s = {} THEN base ELSE step[<<pick[s], h[s \ {pick[s]}]>>]]
    <3>3. ASSUME NEW s \in Dom(n), s # {} PROVE s \ {pick[s]} \in Dom(n - 1)
      <4>1. s \in SUBSET T /\ Cardinality(s) <= n /\ pick[s] \in s
        BY <3>3
      <4>2. /\ Cardinality(s \ {pick[s]}) = Cardinality(s) - 1
            /\ Cardinality(s \ {pick[s]}) \in Nat /\ Cardinality(s) \in Nat
        BY <1>0, <4>1, FS_RemoveElement
      <4>3. Cardinality(s \ {pick[s]}) <= n - 1
        BY <4>1, <4>2
      <4> QED
        BY <4>1, <4>3
    <3>4. ASSUME NEW s \in Dom(n) PROVE g[s] \in V
      <4>1. s # {} => pick[s] \in T /\ h[s \ {pick[s]}] \in V
        <5> HIDE DEF Dom
        <5>1. s # {} => h[s \ {pick[s]}] \in V
          BY <3>2, <3>3
        <5>2. s # {} => pick[s] \in T
          BY DEF Dom
        <5> QED
          BY <5>1, <5>2
      <4> HIDE DEF Dom
      <4> QED
        BY <4>1
    <3>5. ASSUME NEW s \in Dom(n - 1) PROVE s \in Dom(n) /\ g[s] = h[s]
      <4>1. Cardinality(s) \in Nat /\ Cardinality(s) <= n - 1 /\ s \in SUBSET T
        BY <1>0
      <4>2. s \in Dom(n)
        BY <4>1
      <4>3. h[s] = IF s = {} THEN base ELSE step[<<pick[s], h[s \ {pick[s]}]>>]
        <5> HIDE DEF Dom
        <5> QED
          BY <3>2
      <4> HIDE DEF Dom
      <4> QED
        BY <4>2, <4>3
    <3>6. Part(g, n)
      <4> HIDE DEF Dom
      <4>1. \A s \in Dom(n) : s # {} => h[s \ {pick[s]}] = g[s \ {pick[s]}]
        <5> HIDE DEF g
        <5> QED
          BY <3>3, <3>5
      <4>2. g \in [Dom(n) -> V]
        BY <3>4
      <4> QED
        BY <4>1, <4>2
    <3> HIDE DEF Part, g
    <3> QED
      BY <3>6, <1>1
  <2> QED
    BY <2>1, <2>2
<1>2. Bad = {}
  <2> HIDE DEF Part
  <2>1. Bad \in SUBSET Nat
    OBVIOUS
  <2> HIDE DEF Bad
  <2> QED
    BY <1>1, <2>1, LeastExists
<1>3. Cardinality(T) \in Nat
  BY FS_CardinalityType
<1>4. PICK g : Part(g, Cardinality(T))
  BY <1>2, <1>3
<1>5. Dom(Cardinality(T)) = SUBSET T
  BY <1>0
<1> HIDE DEF Dom
<1> QED
  BY <1>4, <1>5 DEF Folds

-----------------------------------------------------------------------------
(* The loops of read_all and latest_commit                                   *)

NothingRead == [out |-> << >>, line |-> << >>]

(* The function read_all folds the pieces with.                              *)
Reads(g, text) ==
  g = [s \in SUBSET DOMAIN text |->
         IF s = {} THEN NothingRead ELSE ReadPiece(g[s \ {Max(s)}], text[Max(s)])]

Reading(text) == CHOOSE g : Reads(g, text)

LEMMA ReadingIsFold ==
  ASSUME NEW text PROVE FoldLeft(ReadPiece, NothingRead, text) = Reading(text)[DOMAIN text]
  BY DEF FoldLeft, MapThenFoldSet, Reading, Reads

Scans(g, recs) ==
  g = [s \in SUBSET DOMAIN recs |->
         IF s = {} THEN [found |-> NoBatch, consumed |-> {}] ELSE ScanRecord(recs[Min(s)], g[s \ {Min(s)}])]

Scanning(recs) == CHOOSE g : Scans(g, recs)

LEMMA ScanningIsFold ==
  ASSUME NEW recs
  PROVE FoldRight(ScanRecord, recs, [found |-> NoBatch, consumed |-> {}]) = Scanning(recs)[DOMAIN recs]
  BY DEF FoldRight, MapThenFoldSet, Scanning, Scans

LEMMA MinOf ==
  ASSUME NEW s \in SUBSET Nat, s # {} PROVE Min(s) \in s /\ \A n \in s : Min(s) <= n
  BY LeastExists DEF Min

LEMMA MaxOf ==
  ASSUME NEW N \in Nat, NEW s \in SUBSET (1..N), s # {} PROVE Max(s) \in s /\ \A n \in s : Max(s) >= n
<1> DEFINE r == {N - n : n \in s}
<1>0. \A n \in s : n \in Nat /\ N - n \in Nat
  OBVIOUS
<1>1. r \in SUBSET Nat /\ r # {}
  BY <1>0
<1>2. PICK m \in r : \A n \in r : m <= n
  <2> HIDE DEF r
  <2> QED
    BY <1>1, LeastExists
<1>3. N - m \in s /\ \A n \in s : N - m >= n
  <2>1. PICK k \in s : m = N - k
    BY <1>2
  <2>2. \A n \in s : m <= N - n
    BY <1>2
  <2> QED
    BY <2>1, <2>2
<1> QED
  BY <1>3 DEF Max

Acc == [out : Seq(Record), line : Seq(Piece)]

LEMMA ReadPieceTyped ==
  ASSUME NEW acc \in Acc, NEW piece \in Piece PROVE ReadPiece(acc, piece) \in Acc
<1>1. acc.out \in Seq(Record) /\ acc.line \in Seq(Piece) /\ acc = [out |-> acc.out, line |-> acc.line]
  BY DEF Acc
<1>2. ParsedLine(acc.line) \in Seq(Record)
  <2>1. CASE Len(acc.line) = 1 /\ acc.line[1].op \in RecordOp
    <3>1. acc.line[1] \in Piece
      BY <1>1, <2>1
    <3>2. acc.line[1] \in Record
      BY <2>1, <3>1 DEF Piece, Newline, Torn, RecordOp, ConsumeOp
    <3>3. \A n \in 1..Len(acc.line) : acc.line[n] \in Record
      BY <1>1, <2>1, <3>2
    <3>4. acc.line \in Seq(Record)
      BY <1>1, <3>3
    <3> QED
      BY <2>1, <3>4 DEF ParsedLine
  <2>2. CASE ~(Len(acc.line) = 1 /\ acc.line[1].op \in RecordOp)
    BY <2>2 DEF ParsedLine
  <2> QED
    BY <2>1, <2>2
<1>3. acc.out \o ParsedLine(acc.line) \in Seq(Record)
  BY <1>1, <1>2
<1>4. Append(acc.line, piece) \in Seq(Piece)
  BY <1>1
<1>5. CASE piece = Newline
  BY <1>3, <1>5 DEF ReadPiece, Acc
<1>6. CASE piece # Newline
  BY <1>4, <1>6 DEF ReadPiece, Acc
<1> QED
  BY <1>5, <1>6

LEMMA ReadingDefined ==
  ASSUME NEW text \in Seq(Piece) PROVE Reads(Reading(text), text)
<1> DEFINE T == DOMAIN text
           step == [p \in T \X Acc |-> ReadPiece(p[2], text[p[1]])]
           pick == [s \in SUBSET T |-> Max(s)]
<1>1. T = 1..Len(text) /\ Len(text) \in Nat /\ IsFiniteSet(T)
  BY FS_Interval
<1>2. step \in [T \X Acc -> Acc]
  BY ReadPieceTyped
<1>3. \A s \in SUBSET T : s # {} => pick[s] \in s
  BY <1>1, MaxOf
<1>4. NothingRead \in Acc
  BY DEF NothingRead, Acc
<1>5. PICK g \in [SUBSET T -> Acc] : Folds(g, T, NothingRead, step, pick)
  <2> HIDE DEF T, step, pick
  <2> QED
    BY <1>1, <1>2, <1>3, <1>4, FoldExists
<1>6. \A s \in SUBSET T : s # {} => step[<<pick[s], g[s \ {pick[s]}]>>] = ReadPiece(g[s \ {Max(s)}], text[Max(s)])
  <2> SUFFICES ASSUME NEW s \in SUBSET T, s # {}
               PROVE  step[<<pick[s], g[s \ {pick[s]}]>>] = ReadPiece(g[s \ {Max(s)}], text[Max(s)])
    OBVIOUS
  <2>1. pick[s] = Max(s) /\ Max(s) \in T /\ g[s \ {Max(s)}] \in Acc
    BY <1>3, <1>5
  <2> QED
    BY <2>1
<1>7. Reads(g, text)
  <2> HIDE DEF step, pick
  <2> QED
    BY <1>5, <1>6 DEF Reads, Folds
<1>8. Reads(Reading(text), text)
  BY <1>7 DEF Reading
<1> QED
  BY <1>8

LEMMA ReadingSteps ==
  ASSUME NEW text \in Seq(Piece)
  PROVE  /\ Reading(text)[1..0] = NothingRead
         /\ \A k \in 1..Len(text) : Reading(text)[1..k] = ReadPiece(Reading(text)[1..(k-1)], text[k])
<1>1. Reads(Reading(text), text) /\ DOMAIN text = 1..Len(text) /\ Len(text) \in Nat
  BY ReadingDefined
<1>2. 1..0 = {}
  OBVIOUS
<1>3. Reading(text)[1..0] = NothingRead
  BY <1>1, <1>2 DEF Reads
<1>4. ASSUME NEW k \in 1..Len(text) PROVE Reading(text)[1..k] = ReadPiece(Reading(text)[1..(k-1)], text[k])
  <2>1. 1..k \in SUBSET DOMAIN text /\ 1..k # {} /\ k \in 1..k
    <3>1. k \in Nat /\ k >= 1 /\ k <= Len(text)
      BY <1>1
    <3>2. k \in 1..k /\ \A n \in 1..k : n \in 1..Len(text)
      BY <1>1, <3>1
    <3> QED
      BY <1>1, <3>2
  <2>2. Max(1..k) \in 1..k /\ \A n \in 1..k : Max(1..k) >= n
    BY <1>1, <2>1, MaxOf
  <2>3. Max(1..k) = k /\ (1..k) \ {k} = 1..(k-1)
    BY <2>1, <2>2
  <2> QED
    BY <1>1, <2>1, <2>3 DEF Reads
<1> QED
  BY <1>3, <1>4

(* What is read of the lines that end before piece k, and the line k is in.  *)
Whole(text, i, k) == /\ text[i].op \in RecordOp
                     /\ i = 1 \/ text[i-1] = Newline
                     /\ i = k \/ text[i+1] = Newline

Places(text, pos, recs) ==
  /\ \A n \in 1..Len(recs) : recs[n] = text[pos[n]]
  /\ \A m, n \in 1..Len(recs) : m < n => pos[m] < pos[n]

InOrder(recs, text, P) ==
  \E pos \in [1..Len(recs) -> P] :
    Places(text, pos, recs) /\ \A i \in P : \E n \in 1..Len(recs) : pos[n] = i

LineFrom(line, text, k, a) ==
  /\ a = 1 \/ text[a-1] = Newline
  /\ \A j \in a..k : text[j] # Newline
  /\ Len(line) = k + 1 - a
  /\ \A n \in 1..Len(line) : line[n] = text[a + n - 1]

Taken(text, k) == {i \in 1..(k-1) : Whole(text, i, k) /\ text[i+1] = Newline}

ReadSoFar(acc, text, k) ==
  /\ acc \in Acc
  /\ InOrder(acc.out, text, Taken(text, k))
  /\ \E a \in 1..(k+1) : LineFrom(acc.line, text, k, a)

LEMMA InOrderAppend ==
  ASSUME NEW recs \in Seq(Record), NEW text, NEW P \in SUBSET Nat, InOrder(recs, text, P),
         NEW i \in Nat, \A j \in P : j < i
  PROVE  InOrder(Append(recs, text[i]), text, P \cup {i})
<1> DEFINE N == Len(recs)
           new == Append(recs, text[i])
<1>1. PICK pos \in [1..N -> P] :
        Places(text, pos, recs) /\ \A j \in P : \E n \in 1..N : pos[n] = j
  BY DEF InOrder
<1> DEFINE q == [n \in 1..(N+1) |-> IF n = N + 1 THEN i ELSE pos[n]]
<1>2. N \in Nat /\ Len(new) = N + 1 /\ new[N+1] = text[i] /\ \A n \in 1..N : new[n] = recs[n]
  OBVIOUS
<1>3. q \in [1..(N+1) -> P \cup {i}]
  BY <1>1, <1>2
<1>4. q[N+1] = i /\ \A n \in 1..N : q[n] = pos[n] /\ pos[n] \in P
  BY <1>1, <1>2
<1> HIDE DEF q, new, N
<1>5. \A n \in 1..(N+1) : new[n] = text[q[n]]
  <2>1. \A n \in 1..(N+1) : n = N + 1 \/ n \in 1..N
    BY <1>2
  <2> QED
    BY <1>1, <1>2, <1>4, <2>1 DEF Places, N
<1>6. \A m, n \in 1..(N+1) : m < n => q[m] < q[n]
  <2>1. \A m, n \in 1..(N+1) : m < n => m \in 1..N /\ (n = N + 1 \/ n \in 1..N)
    BY <1>2
  <2> QED
    BY <1>1, <1>4, <2>1 DEF Places, N
<1>7. \A j \in P \cup {i} : \E n \in 1..(N+1) : q[n] = j
  <2>1. N + 1 \in 1..(N+1) /\ \A n \in 1..N : n \in 1..(N+1)
    BY <1>2
  <2> QED
    BY <1>1, <1>4, <2>1
<1>8. Places(text, q, new)
  BY <1>2, <1>5, <1>6 DEF Places
<1>9. InOrder(new, text, P \cup {i})
  BY <1>2, <1>3, <1>7, <1>8 DEF InOrder
<1> QED
  BY <1>9 DEF new

(* What a line feed, or the end of the file, adds.                           *)
LEMMA Flush ==
  ASSUME NEW text \in Seq(Piece), NEW k \in 0..Len(text), NEW acc, ReadSoFar(acc, text, k)
  PROVE  InOrder(acc.out \o ParsedLine(acc.line), text, {i \in 1..k : Whole(text, i, k)})
<1> DEFINE W == {i \in 1..k : Whole(text, i, k)}
<1>1. acc.out \in Seq(Record) /\ acc.line \in Seq(Piece) /\ k \in Nat /\ Len(text) \in Nat
  BY DEF ReadSoFar, Acc
<1>2. PICK a \in 1..(k+1) : LineFrom(acc.line, text, k, a)
  BY DEF ReadSoFar
<1>3. CASE k >= 1 /\ Whole(text, k, k)
  <2>1. text[k] # Newline
    BY <1>3 DEF Whole, Newline, RecordOp, ConsumeOp
  <2>2. a = k
    <3>1. a \in Nat /\ a >= 1 /\ a <= k + 1
      BY <1>1
    <3>2. a # k + 1
      <4>1. a = 1 \/ text[a-1] = Newline
        BY <1>2 DEF LineFrom
      <4> QED
        BY <1>1, <1>3, <2>1, <4>1
    <3>3. a = k \/ k - 1 \in a..k
      BY <1>1, <3>1, <3>2
    <3>4. k - 1 \in a..k => k # 1 /\ text[k-1] # Newline
      BY <1>1, <1>2, <3>1 DEF LineFrom
    <3>5. k = 1 \/ text[k-1] = Newline
      BY <1>3 DEF Whole
    <3> QED
      BY <3>3, <3>4, <3>5
  <2>3. Len(acc.line) = 1 /\ acc.line[1] = text[k]
    BY <1>1, <1>2, <2>2 DEF LineFrom
  <2>4. acc.line = <<text[k]>>
    BY <1>1, <2>3
  <2>5. ParsedLine(acc.line) = <<text[k]>>
    BY <1>3, <2>3, <2>4 DEF ParsedLine, Whole
  <2>6. acc.out \o ParsedLine(acc.line) = Append(acc.out, text[k])
    <3>1. \A x : acc.out \o <<x>> = Append(acc.out, x)
      BY <1>1
    <3> QED
      BY <2>5, <3>1
  <2>7. W = Taken(text, k) \cup {k}
    BY <1>1, <1>3 DEF Taken, Whole
  <2>8. InOrder(Append(acc.out, text[k]), text, Taken(text, k) \cup {k})
    <3>1. Taken(text, k) \in SUBSET Nat /\ \A j \in Taken(text, k) : j < k
      BY <1>1 DEF Taken
    <3> QED
      BY <1>1, <3>1, InOrderAppend DEF ReadSoFar
  <2> QED
    BY <2>6, <2>7, <2>8
<1>4. CASE ~(k >= 1 /\ Whole(text, k, k))
  <2>1. ~(Len(acc.line) = 1 /\ acc.line[1].op \in RecordOp)
    <3> SUFFICES ASSUME Len(acc.line) = 1, acc.line[1].op \in RecordOp PROVE FALSE
      OBVIOUS
    <3>1. Len(acc.line) = k + 1 - a
      BY <1>2 DEF LineFrom
    <3>2. 1 = k + 1 - a
      BY <3>1
    <3>3. a \in Nat /\ k \in Nat
      BY <1>1
    <3>4. a = k
      BY <3>2, <3>3
    <3>5. 1 \in 1..Len(acc.line)
      OBVIOUS
    <3>6. a = k /\ 1 \in 1..Len(acc.line)
      BY <3>4, <3>5
    <3>7. acc.line[1] = text[k]
      <4>1. acc.line[1] = text[a + 1 - 1]
        BY <1>2, <3>6 DEF LineFrom
      <4>2. a + 1 - 1 = k
        BY <1>1, <3>6
      <4> QED
        BY <4>1, <4>2
    <3> QED
      BY <1>1, <1>2, <1>4, <3>6, <3>7 DEF LineFrom, Whole
  <2>2. acc.out \o ParsedLine(acc.line) = acc.out
    <3>1. ParsedLine(acc.line) = << >>
      BY <2>1 DEF ParsedLine
    <3>2. acc.out \o << >> = acc.out
      BY <1>1
    <3> QED
      BY <3>1, <3>2
  <2>3. W = Taken(text, k)
    BY <1>1, <1>4 DEF Taken, Whole
  <2> QED
    BY <2>2, <2>3 DEF ReadSoFar
<1> QED
  BY <1>3, <1>4

LEMMA ReadOne ==
  ASSUME NEW text \in Seq(Piece), NEW k \in 1..Len(text), NEW acc, ReadSoFar(acc, text, k - 1)
  PROVE  ReadSoFar(ReadPiece(acc, text[k]), text, k)
<1>1. acc \in Acc /\ acc.out \in Seq(Record) /\ acc.line \in Seq(Piece) /\ k - 1 \in 0..Len(text) /\ text[k] \in Piece
  BY DEF ReadSoFar, Acc
<1> DEFINE new == ReadPiece(acc, text[k])
<1>2. new \in Acc
  BY <1>1, ReadPieceTyped
<1>3. CASE text[k] = Newline
  <2>1. new.out = acc.out \o ParsedLine(acc.line) /\ new.line = << >>
    BY <1>3 DEF ReadPiece
  <2>2. {i \in 1..(k-1) : Whole(text, i, k-1)} = Taken(text, k)
    BY <1>1, <1>3 DEF Whole, Taken
  <2>3. InOrder(new.out, text, Taken(text, k))
    BY <1>1, <2>1, <2>2, Flush
  <2>4. k + 1 \in 1..(k+1) /\ LineFrom(new.line, text, k, k + 1)
    BY <1>1, <1>3, <2>1 DEF LineFrom
  <2> HIDE DEF new
  <2> QED
    BY <1>2, <2>3, <2>4 DEF ReadSoFar, new
<1>4. CASE text[k] # Newline
  <2>1. new.out = acc.out /\ new.line = Append(acc.line, text[k])
    BY <1>1, <1>4 DEF ReadPiece, Acc
  <2>2. Taken(text, k) = Taken(text, k - 1)
    BY <1>1, <1>4 DEF Taken, Whole
  <2>3. PICK a \in 1..k : LineFrom(acc.line, text, k - 1, a)
    BY <1>1 DEF ReadSoFar
  <2>4. /\ Len(new.line) = k + 1 - a /\ new.line[k + 1 - a] = text[k]
        /\ \A n \in 1..(k - a) : new.line[n] = acc.line[n]
    <3>1. Len(acc.line) = k - a /\ a \in Nat /\ k \in Nat
      BY <1>1, <2>3 DEF LineFrom
    <3>2. /\ Len(Append(acc.line, text[k])) = Len(acc.line) + 1
          /\ Append(acc.line, text[k])[Len(acc.line) + 1] = text[k]
          /\ \A n \in 1..Len(acc.line) : Append(acc.line, text[k])[n] = acc.line[n]
      BY <1>1, AppendProperties
    <3>3. Len(acc.line) + 1 = k + 1 - a
      BY <3>1
    <3> HIDE DEF new
    <3> QED
      BY <2>1, <3>1, <3>2, <3>3
  <2> HIDE DEF new
  <2>5. \A n \in 1..(k + 1 - a) : new.line[n] = text[a + n - 1]
    <3>1. \A n \in 1..(k + 1 - a) : n = k + 1 - a \/ n \in 1..(k - a)
      BY <1>1
    <3>2. \A n \in 1..(k - a) : acc.line[n] = text[a + n - 1]
      BY <1>1, <2>3 DEF LineFrom
    <3>3. a + (k + 1 - a) - 1 = k
      BY <1>1
    <3> QED
      BY <2>4, <3>1, <3>2, <3>3
  <2>6. LineFrom(new.line, text, k, a)
    BY <1>1, <1>4, <2>3, <2>4, <2>5 DEF LineFrom
  <2>7. a \in 1..(k+1)
    BY <1>1
  <2> QED
    BY <1>2, <2>1, <2>2, <2>6, <2>7 DEF ReadSoFar, new
<1> QED
  BY <1>3, <1>4

(* read_all returns the records that are whole and alone on their lines, in  *)
(* their order.                                                              *)
LEMMA ReadsAll ==
  ASSUME NEW text \in Seq(Piece)
  PROVE  read_all(text) \in Seq(Record) /\ InOrder(read_all(text), text, {i \in DOMAIN text : Readable(text, i)})
<1> DEFINE N == Len(text)
           At(k) == Reading(text)[1..k]
           Bad == {k \in 0..N : ~ReadSoFar(At(k), text, k)}
<1>0. N \in Nat /\ DOMAIN text = 1..N
  OBVIOUS
<1>1. ReadSoFar(At(0), text, 0)
  <2>1. At(0) = NothingRead
    BY ReadingSteps
  <2>2. NothingRead \in Acc /\ NothingRead.out = << >> /\ NothingRead.line = << >>
    BY DEF NothingRead, Acc
  <2>3. InOrder(<< >>, text, Taken(text, 0))
    <3>1. Taken(text, 0) = {}
      BY DEF Taken
    <3>2. [n \in 1..0 |-> 0] \in [1..0 -> {}] /\ Len(<< >>) = 0
      OBVIOUS
    <3> QED
      BY <3>1, <3>2 DEF InOrder, Places
  <2>4. 1 \in 1..(0+1) /\ LineFrom(<< >>, text, 0, 1)
    BY DEF LineFrom
  <2> QED
    BY <2>1, <2>2, <2>3, <2>4 DEF ReadSoFar
<1>2. ASSUME NEW k \in Bad, \A m \in Bad : k <= m PROVE FALSE
  <2>1. k \in 1..N /\ k - 1 \in 0..N /\ k - 1 \notin Bad
    <3>1. k \in 0..N /\ k # 0
      BY <1>1
    <3> HIDE DEF Bad
    <3> QED
      BY <1>0, <1>2, <3>1
  <2>2. ReadSoFar(At(k-1), text, k - 1)
    BY <2>1
  <2>3. At(k) = ReadPiece(At(k-1), text[k])
    BY <2>1, ReadingSteps
  <2> HIDE DEF At
  <2> QED
    BY <2>1, <2>2, <2>3, ReadOne
<1>3. Bad = {}
  <2>1. Bad \in SUBSET Nat
    BY <1>0
  <2> HIDE DEF Bad
  <2> QED
    BY <1>2, <2>1, LeastExists
<1>4. ReadSoFar(At(N), text, N)
  BY <1>0, <1>3
<1>5. read_all(text) = At(N).out \o ParsedLine(At(N).line)
  BY <1>0, ReadingIsFold DEF read_all, NothingRead
<1>6. {i \in DOMAIN text : Readable(text, i)} = {i \in 1..N : Whole(text, i, N)}
  BY <1>0 DEF Readable, Whole
<1> HIDE DEF At
<1>7. InOrder(read_all(text), text, {i \in DOMAIN text : Readable(text, i)})
  <2>1. N \in 0..Len(text)
    BY <1>0
  <2> HIDE DEF N
  <2>2. InOrder(At(N).out \o ParsedLine(At(N).line), text, {i \in 1..N : Whole(text, i, N)})
    BY <1>4, <2>1, Flush
  <2> QED
    BY <1>5, <1>6, <2>2
<1>8. read_all(text) \in Seq(Record)
  <2>1. At(N) \in Acc /\ Newline \in Piece
    BY <1>4 DEF ReadSoFar, Piece
  <2>2. ReadPiece(At(N), Newline) \in Acc
    BY <2>1, ReadPieceTyped
  <2>3. ReadPiece(At(N), Newline).out = read_all(text)
    BY <1>5 DEF ReadPiece
  <2> QED
    BY <2>2, <2>3 DEF Acc
<1> QED
  BY <1>7, <1>8

(* One record of the reverse scan adds itself to what later ones left.       *)
ScanAcc == [found : Batch \cup {NoBatch}, consumed : SUBSET Batch]

LEMMA ScanRecordTyped ==
  ASSUME NEW rec \in Record, NEW acc \in ScanAcc PROVE ScanRecord(rec, acc) \in ScanAcc
<1>1. rec.batch \in Batch /\ acc.found \in Batch \cup {NoBatch} /\ acc.consumed \in SUBSET Batch
  BY DEF Record, ScanAcc
<1> QED
  BY <1>1 DEF ScanRecord, ScanAcc

LEMMA ScanningSteps ==
  ASSUME NEW recs \in Seq(Record)
  PROVE  /\ Scanning(recs)[{}] = [found |-> NoBatch, consumed |-> {}]
         /\ \A k \in 1..Len(recs) :
              Scanning(recs)[k..Len(recs)] = ScanRecord(recs[k], Scanning(recs)[(k+1)..Len(recs)])
<1> DEFINE T == DOMAIN recs
           none == [found |-> NoBatch, consumed |-> {}]
           step == [p \in T \X ScanAcc |-> ScanRecord(recs[p[1]], p[2])]
           pick == [s \in SUBSET T |-> Min(s)]
<1>1. T = 1..Len(recs) /\ Len(recs) \in Nat /\ IsFiniteSet(T)
  BY FS_Interval
<1>2. step \in [T \X ScanAcc -> ScanAcc]
  BY ScanRecordTyped
<1>3. \A s \in SUBSET T : s # {} => Min(s) \in s /\ pick[s] = Min(s) /\ \A n \in s : Min(s) <= n
  BY <1>1, MinOf
<1>4. none \in ScanAcc /\ \A s \in SUBSET T : s # {} => pick[s] \in s
  BY <1>3 DEF ScanAcc
<1>5. PICK g \in [SUBSET T -> ScanAcc] : Folds(g, T, none, step, pick)
  <2> HIDE DEF T, step, pick, none
  <2> QED
    BY <1>1, <1>2, <1>3, <1>4, FoldExists
<1>6. \A s \in SUBSET T : s # {} => step[<<pick[s], g[s \ {pick[s]}]>>] = ScanRecord(recs[Min(s)], g[s \ {Min(s)}])
  <2> SUFFICES ASSUME NEW s \in SUBSET T, s # {}
               PROVE  step[<<pick[s], g[s \ {pick[s]}]>>] = ScanRecord(recs[Min(s)], g[s \ {Min(s)}])
    OBVIOUS
  <2>1. pick[s] = Min(s) /\ Min(s) \in T /\ g[s \ {Min(s)}] \in ScanAcc
    BY <1>3, <1>5
  <2> QED
    BY <2>1
<1>7. Scans(g, recs)
  <2> HIDE DEF step, pick
  <2> QED
    BY <1>5, <1>6 DEF Scans, Folds
<1>8. Scans(Scanning(recs), recs)
  BY <1>7 DEF Scanning
<1>9. Scanning(recs)[{}] = none
  BY <1>8 DEF Scans
<1>10. ASSUME NEW k \in 1..Len(recs)
       PROVE  Scanning(recs)[k..Len(recs)] = ScanRecord(recs[k], Scanning(recs)[(k+1)..Len(recs)])
  <2>1. k..Len(recs) \in SUBSET T /\ k..Len(recs) # {} /\ k \in k..Len(recs)
    BY <1>1
  <2>2. Min(k..Len(recs)) \in k..Len(recs) /\ \A n \in k..Len(recs) : Min(k..Len(recs)) <= n
    BY <1>3, <2>1
  <2>3. Min(k..Len(recs)) = k /\ (k..Len(recs)) \ {k} = (k+1)..Len(recs)
    BY <1>1, <2>1, <2>2
  <2> QED
    BY <1>8, <2>1, <2>3 DEF Scans
<1> QED
  BY <1>9, <1>10

(* Commit records no later record consumes, among the records read.          *)
Open(recs, n) ==
  /\ recs[n].op = "commit"
  /\ \A m \in (n+1)..Len(recs) : recs[m].op \in ConsumeOp => recs[m].batch # recs[n].batch

(* What the scan knows when it has seen the records from k on.               *)
Scanned(acc, recs, k) ==
  LET N == Len(recs) IN
  /\ acc \in ScanAcc
  /\ \/ /\ acc.found = NoBatch /\ \A n \in k..N : ~Open(recs, n)
        /\ acc.consumed = {b \in Batch : \E m \in k..N : recs[m].op \in ConsumeOp /\ recs[m].batch = b}
     \/ \E n \in k..N : /\ Open(recs, n) /\ acc.found = recs[n].batch
                        /\ \A m \in (n+1)..N : ~Open(recs, m)

LEMMA ScanOne ==
  ASSUME NEW recs \in Seq(Record), NEW k \in 1..Len(recs), NEW acc, Scanned(acc, recs, k + 1)
  PROVE  Scanned(ScanRecord(recs[k], acc), recs, k)
<1> DEFINE N == Len(recs)
           new == ScanRecord(recs[k], acc)
<1>1. N \in Nat /\ k \in Nat /\ recs[k] \in Record /\ acc \in ScanAcc
  BY DEF Scanned
<1>2. new \in ScanAcc
  BY <1>1, ScanRecordTyped
<1>3. acc.found \in Batch \cup {NoBatch} /\ acc.consumed \in SUBSET Batch
      /\ recs[k].batch \in Batch /\ recs[k].op \in RecordOp
  BY <1>1 DEF ScanAcc, Record
<1>4. \A n : n \in k..N <=> n = k \/ n \in (k+1)..N
  BY <1>1
<1>5. CASE acc.found # NoBatch
  <2>1. PICK n \in (k+1)..N : /\ Open(recs, n) /\ acc.found = recs[n].batch
                              /\ \A m \in (n+1)..N : ~Open(recs, m)
    BY <1>5 DEF Scanned
  <2>2. new = acc /\ n \in k..N
    BY <1>4, <1>5 DEF ScanRecord
  <2> QED
    BY <1>2, <2>1, <2>2 DEF Scanned
<1>6. CASE acc.found = NoBatch
  <2>1. /\ \A n \in (k+1)..N : ~Open(recs, n)
        /\ acc.consumed = {b \in Batch : \E m \in (k+1)..N : recs[m].op \in ConsumeOp /\ recs[m].batch = b}
    <3>1. ASSUME NEW n \in (k+1)..N PROVE recs[n].batch # NoBatch
      <4>1. recs[n] \in Record
        BY <1>1
      <4> QED
        BY <4>1, NoBatchAssumption DEF Record
    <3> QED
      BY <1>6, <3>1 DEF Scanned
  <2>2. CASE recs[k].op \in ConsumeOp
    <3>1. new.found = NoBatch /\ new.consumed = acc.consumed \cup {recs[k].batch}
      BY <1>1, <1>6, <2>2 DEF ScanRecord, ScanAcc
    <3>2. ~Open(recs, k)
      BY <2>2 DEF Open, ConsumeOp
    <3>3. new.consumed = {b \in Batch : \E m \in k..N : recs[m].op \in ConsumeOp /\ recs[m].batch = b}
      <4> HIDE DEF new
      <4> QED
        BY <1>3, <1>4, <2>1, <2>2, <3>1
    <3> HIDE DEF new
    <3>4. Scanned(new, recs, k)
      BY <1>2, <1>4, <2>1, <3>1, <3>2, <3>3 DEF Scanned
    <3> QED
      BY <3>4 DEF new
  <2>3. CASE recs[k].op \notin ConsumeOp /\ recs[k].batch \notin acc.consumed
    <3>1. new.found = recs[k].batch
      BY <1>1, <1>6, <2>3 DEF ScanRecord, ScanAcc
    <3>2. Open(recs, k)
      BY <1>3, <2>1, <2>3 DEF Open, RecordOp
    <3>3. k \in k..N
      BY <1>1
    <3> HIDE DEF new
    <3>4. Scanned(new, recs, k)
      BY <1>2, <2>1, <3>1, <3>2, <3>3 DEF Scanned
    <3> QED
      BY <3>4 DEF new
  <2>4. CASE recs[k].op \notin ConsumeOp /\ recs[k].batch \in acc.consumed
    <3>1. new = acc
      BY <1>6, <2>4 DEF ScanRecord
    <3>2. ~Open(recs, k)
      BY <2>1, <2>4 DEF Open
    <3>3. acc.consumed = {b \in Batch : \E m \in k..N : recs[m].op \in ConsumeOp /\ recs[m].batch = b}
      BY <1>4, <2>1, <2>4
    <3> QED
      BY <1>1, <1>4, <1>6, <2>1, <3>1, <3>2, <3>3 DEF Scanned
  <2> QED
    BY <2>2, <2>3, <2>4
<1> QED
  BY <1>5, <1>6

LEMMA ScansAll ==
  ASSUME NEW recs \in Seq(Record)
  PROVE  Scanned(Scanning(recs)[1..Len(recs)], recs, 1)
<1> DEFINE N == Len(recs)
           At(d) == Scanning(recs)[(N + 1 - d)..N]
           Bad == {d \in 0..N : ~Scanned(At(d), recs, N + 1 - d)}
<1>0. N \in Nat
  OBVIOUS
<1>1. Scanned(At(0), recs, N + 1 - 0)
  <2>1. (N + 1 - 0)..N = {} /\ N + 1 - 0 = N + 1
    BY <1>0
  <2>2. Scanning(recs)[{}] = [found |-> NoBatch, consumed |-> {}]
    BY ScanningSteps
  <2>3. Scanned([found |-> NoBatch, consumed |-> {}], recs, N + 1)
    BY <2>1 DEF Scanned, ScanAcc
  <2> QED
    BY <2>1, <2>2, <2>3
<1>2. ASSUME NEW d \in Bad, \A m \in Bad : d <= m PROVE FALSE
  <2>1. d \in 1..N /\ d - 1 \in 0..N /\ d - 1 \notin Bad
    <3>1. d \in 0..N /\ d # 0
      BY <1>1
    <3> HIDE DEF Bad
    <3> QED
      BY <1>0, <1>2, <3>1
  <2> DEFINE k == N + 1 - d
  <2>2. Scanned(At(d-1), recs, N + 1 - (d-1))
    BY <2>1
  <2>3. k \in 1..N /\ N + 1 - (d-1) = k + 1
    BY <1>0, <2>1
  <2>4. Scanned(Scanning(recs)[(k+1)..N], recs, k + 1)
    BY <2>2, <2>3
  <2>5. At(d) = ScanRecord(recs[k], Scanning(recs)[(k+1)..N])
    BY <2>3, ScanningSteps
  <2>6. ~Scanned(At(d), recs, k)
    OBVIOUS
  <2> HIDE DEF At, k, Bad
  <2> QED
    BY <2>3, <2>4, <2>5, <2>6, ScanOne
<1>3. Bad = {}
  <2>1. Bad \in SUBSET Nat
    BY <1>0
  <2> HIDE DEF Bad
  <2> QED
    BY <1>2, <2>1, LeastExists
<1>4. N \in 0..N /\ N + 1 - N = 1
  BY <1>0
<1> QED
  BY <1>3, <1>4

(* latest_commit (audit.rs:119): for every log, torn and glued lines         *)
(* included, the two loops find the last commit record that no later restore *)
(* or purge record consumes.                                                 *)
THEOREM ScanIsLatest ==
  ASSUME NEW text \in Seq(Piece) PROVE latest_commit(text) = LatestCommit(text)
<1> DEFINE recs == read_all(text)
           N == Len(recs)
           R == {i \in DOMAIN text : Readable(text, i)}
<1>1. recs \in Seq(Record) /\ InOrder(recs, text, R) /\ N \in Nat
  BY ReadsAll
<1>2. PICK pos \in [1..N -> R] : Places(text, pos, recs) /\ \A i \in R : \E n \in 1..N : pos[n] = i
  BY <1>1 DEF InOrder
<1>3. R \in SUBSET Nat /\ \A i \in R : i \in 1..Len(text) /\ Readable(text, i)
  OBVIOUS
<1>4. Scanned(Scanning(recs)[1..N], recs, 1)
  BY <1>1, ScansAll
<1>5. latest_commit(text) = Scanning(recs)[1..N].found
  <2>1. DOMAIN recs = 1..N
    BY <1>1
  <2>2. FoldRight(ScanRecord, recs, [found |-> NoBatch, consumed |-> {}]) = Scanning(recs)[1..N]
    BY <2>1, ScanningIsFold
  <2> QED
    BY <2>2 DEF latest_commit
<1> DEFINE acc == Scanning(recs)[1..N]
<1> HIDE DEF recs, N, R, acc
<1>6. \A m, n \in 1..N : (m < n <=> pos[m] < pos[n]) /\ pos[m] \in Nat /\ pos[m] \in R
  <2>1. \A m, n \in 1..N : m < n => pos[m] < pos[n]
    BY <1>2 DEF Places, N
  <2>2. \A m \in 1..N : pos[m] \in Nat /\ pos[m] \in R
    BY <1>2, <1>3
  <2>3. \A m, n \in 1..N : m < n \/ m = n \/ n < m
    BY <1>1
  <2> QED
    BY <2>1, <2>2, <2>3
<1>7. ASSUME NEW n \in 1..N PROVE Open(recs, n) <=> pos[n] \in Candidates(text)
  <2>1. recs[n] = text[pos[n]] /\ pos[n] \in 1..Len(text) /\ Readable(text, pos[n])
    BY <1>2, <1>3 DEF Places, N
  <2>2. ASSUME Open(recs, n), NEW j \in (pos[n]+1)..Len(text), Readable(text, j), text[j].op \in ConsumeOp
        PROVE  text[j].batch # text[pos[n]].batch
    <3>1. j \in R
      BY <1>6, <2>1, <2>2 DEF R
    <3>2. PICK m \in 1..N : pos[m] = j
      BY <1>2, <3>1
    <3>3. n < m
      BY <1>6, <2>2, <3>2
    <3>4. recs[m] = text[j] /\ m \in (n+1)..Len(recs)
      BY <1>1, <1>2, <3>2, <3>3 DEF Places, N
    <3> QED
      BY <2>1, <2>2, <3>4 DEF Open
  <2>3. ASSUME pos[n] \in Candidates(text), NEW m \in (n+1)..Len(recs), recs[m].op \in ConsumeOp
        PROVE  recs[m].batch # recs[n].batch
    <3>1. m \in 1..N /\ n < m
      BY <1>1 DEF N
    <3>2. recs[m] = text[pos[m]] /\ pos[m] \in 1..Len(text) /\ Readable(text, pos[m])
      BY <1>2, <1>3, <3>1 DEF Places, N
    <3>3. pos[m] \in (pos[n]+1)..Len(text)
      BY <1>6, <3>1, <3>2
    <3> QED
      BY <2>1, <2>3, <3>2, <3>3 DEF Candidates
  <2>4. Len(text) \in Nat /\ DOMAIN text = 1..Len(text)
    OBVIOUS
  <2> QED
    BY <2>1, <2>2, <2>3, <2>4 DEF Open, Candidates
<1>8. ASSUME NEW i \in Candidates(text) PROVE \E n \in 1..N : pos[n] = i
  BY <1>2, <1>8 DEF Candidates, R
<1>9. CASE \E n \in 1..N : Open(recs, n)
  <2>1. PICK n \in 1..N : Open(recs, n) /\ acc.found = recs[n].batch /\ \A m \in (n+1)..N : ~Open(recs, m)
    BY <1>4, <1>9 DEF Scanned, N, acc
  <2>2. pos[n] \in Candidates(text) /\ recs[n] = text[pos[n]]
    BY <1>2, <1>7, <2>1 DEF Places, N
  <2>3. ASSUME NEW j \in Candidates(text) PROVE j <= pos[n]
    <3>1. PICK m \in 1..N : pos[m] = j
      BY <1>8
    <3>2. Open(recs, m)
      BY <1>7, <3>1
    <3>3. ~(n < m)
      BY <1>1, <2>1, <3>2
    <3> QED
      BY <1>6, <3>1, <3>3
  <2>4. IsLatest(text, pos[n]) /\ pos[n] \in DOMAIN text
    BY <2>2, <2>3 DEF IsLatest, Candidates
  <2>5. ASSUME NEW i \in DOMAIN text, IsLatest(text, i) PROVE i = pos[n]
    <3>1. i \in Nat /\ pos[n] \in Nat /\ i <= pos[n] /\ pos[n] <= i
      BY <1>6, <2>2, <2>3, <2>5 DEF IsLatest
    <3> QED
      BY <3>1
  <2>6. (CHOOSE i \in DOMAIN text : IsLatest(text, i)) = pos[n]
    BY <2>4, <2>5
  <2>7. LatestCommit(text) = text[pos[n]].batch
    BY <2>4, <2>6 DEF LatestCommit
  <2> QED
    BY <1>5, <2>1, <2>2, <2>7 DEF acc
<1>10. CASE ~\E n \in 1..N : Open(recs, n)
  <2>1. acc.found = NoBatch
    BY <1>4, <1>10 DEF Scanned, N, acc
  <2>2. Candidates(text) = {}
    BY <1>7, <1>8, <1>10
  <2>3. LatestCommit(text) = NoBatch
    BY <2>2 DEF LatestCommit, IsLatest
  <2> QED
    BY <1>5, <2>1, <2>3 DEF acc
<1> QED
  BY <1>9, <1>10

-----------------------------------------------------------------------------
(* Type correctness                                                          *)

(* Returning resets a worker's local variables to values of their types.     *)
LEMMA ReturnTyped ==
  ASSUME TypeOK, NEW w \in Worker, Return(w)
  PROVE  /\ pc' \in [Worker -> Pc]
         /\ op' \in [Worker -> Op]
         /\ cur' \in [Worker -> Batch \cup {NoBatch}]
         /\ todo' \in [Worker -> SUBSET Item]
         /\ bad' \in [Worker -> BOOLEAN]
         /\ scan' \in [Worker -> SUBSET Batch]
         /\ pend' \in [Worker -> SUBSET Batch]
  BY DEF TypeOK, Return, Pc, Op

(* Removing a batch, wholly or partly, keeps directories and places typed.   *)
LEMMA RemoveTyped ==
  ASSUME TypeOK, NEW b \in Batch, RemoveWholly(b) \/ RemovePartly(b)
  PROVE  dir' \in [Batch -> Dir] /\ place' \in [Batch -> [Item -> Place]]
  <1>1. CASE RemoveWholly(b)
    BY <1>1 DEF TypeOK, RemoveWholly, Dir, Place
  <1>2. CASE RemovePartly(b)
    <2> PICK K \in SUBSET InTrash(b), after \in {"listed", "broken"} :
          /\ dir' = [dir EXCEPT ![b] = after]
          /\ place' = [place EXCEPT ![b] = [i \in Item |-> IF i \in K THEN "burnt" ELSE @[i]]]
      BY <1>2 DEF RemovePartly
    <2> QED BY DEF TypeOK, Dir, Place
  <1> QED BY <1>1, <1>2

(* The pieces a worker writes are pieces of a log.                           *)
LEMMA AppendTyped ==
  ASSUME TypeOK, NEW p \in Piece
  PROVE  Append(log, p) \in Seq(Piece)
  BY DEF TypeOK

(* What latest_commit returns is the batch of a commit record of the log.    *)
LEMMA LatestIsCommit ==
  ASSUME TypeOK, NEW i \in DOMAIN log, IsLatest(log, i)
  PROVE  log[i] \in Record /\ log[i].op = "commit"
  BY DEF TypeOK, IsLatest, Candidates, Readable, Piece, Record, Newline, Torn, RecordOp, ConsumeOp

(* The steps of a commit keep the types.                                     *)
LEMMA CommitTyped ==
  ASSUME TypeOK, NEW w \in Worker,
         CommitStep(w) \/ \E b \in Batch : CommitBegin(w, b),
         pc[w] = "moving" => cur[w] \in Batch
  PROVE  TypeOK'
  <1>1. ASSUME NEW b \in Batch, CommitBegin(w, b) PROVE TypeOK'
    BY <1>1 DEF TypeOK, CommitBegin, Goto, sweepVars, history, Dir, Pc, Op
  <1>2. ASSUME NEW i \in Item, CommitItem(w, i) PROVE TypeOK'
    BY <1>2 DEF TypeOK, CommitItem, sweepVars, history, Place
  <1>3. ASSUME NEW i \in Item, CommitSkip(w, i) PROVE TypeOK'
    BY <1>3 DEF TypeOK, CommitSkip, sweepVars, history
  <1>4. CASE WriteManifest(w)
    BY <1>4 DEF TypeOK, WriteManifest, Goto, InTrash, loopVars, sweepVars, history, Dir, Pc
  <1>5. CASE WriteManifestFails(w)
    BY <1>5, ReturnTyped DEF TypeOK, WriteManifestFails, history, Dir
  <1> QED BY <1>1, <1>2, <1>3, <1>4, <1>5 DEF CommitStep

(* The steps of a restore keep the types.                                    *)
LEMMA RestoreTyped ==
  ASSUME TypeOK, NEW w \in Worker, RestoreStep(w) \/ RestoreBegin(w),
         pc[w] \in {"reading", "restoring"} => cur[w] \in Batch
  PROVE  TypeOK'
  <1>1. CASE RestoreBegin(w)
    <2> PICK i \in DOMAIN log : IsLatest(log, i) /\ cur' = [cur EXCEPT ![w] = log[i].batch]
      BY <1>1 DEF RestoreBegin
    <2>1. log[i].batch \in Batch
      BY LatestIsCommit DEF Record
    <2> QED BY <1>1, <2>1 DEF TypeOK, RestoreBegin, Goto, loopVars, sweepVars, history, Pc, Op
  <1>2. CASE RestoreRead(w)
    BY <1>2 DEF TypeOK, RestoreRead, Goto, sweepVars, history, Pc
  <1>3. CASE RestoreReadFails(w)
    BY <1>3, ReturnTyped DEF TypeOK, RestoreReadFails, history
  <1>4. ASSUME NEW i \in Item, RestoreItem(w, i) PROVE TypeOK'
    BY <1>4 DEF TypeOK, RestoreItem, sweepVars, history, Place
  <1>5. ASSUME NEW i \in Item, RestoreSkip(w, i) PROVE TypeOK'
    BY <1>5 DEF TypeOK, RestoreSkip, sweepVars, history
  <1>6. CASE RestoreClose(w)
    <2>1. dir' \in [Batch -> Dir] /\ place' \in [Batch -> [Item -> Place]]
      <3>1. CASE bad[w] \/ ~Exists(cur[w])
        BY <1>6, <3>1 DEF TypeOK, RestoreClose
      <3>2. CASE ~(bad[w] \/ ~Exists(cur[w]))
        BY <1>6, <3>2, RemoveTyped DEF RestoreClose
      <3> QED BY <3>1, <3>2
    <2> QED BY <1>6, <2>1 DEF TypeOK, RestoreClose, Goto, loopVars, sweepVars, history, Pc
  <1> QED BY <1>1, <1>2, <1>3, <1>4, <1>5, <1>6 DEF RestoreStep

(* The steps of a sweep keep the types.                                      *)
LEMMA PurgeTyped ==
  ASSUME TypeOK, NEW w \in Worker, PurgeStep(w) \/ PurgeAll(w) \/ SweepStale(w)
  PROVE  TypeOK'
  <1>1. ASSUME NEW kind \in {"purge_all", "sweep"}, NEW S \in SUBSET Batch, SweepBegin(w, kind, S)
        PROVE  TypeOK'
    BY <1>1 DEF TypeOK, SweepBegin, Goto, loopVars, history, Pc, Op
  <1>2. ASSUME NEW b \in Batch, ReadManifest(w, b) PROVE TypeOK'
    BY <1>2 DEF TypeOK, ReadManifest, loopVars
  <1>3. ASSUME NEW b \in Batch, PurgeBatch(w, b) PROVE TypeOK'
    BY <1>3, RemoveTyped DEF TypeOK, PurgeBatch, Goto, loopVars, history, Pc
  <1>4. ASSUME NEW b \in Batch, PurgeBatchFails(w, b) PROVE TypeOK'
    <2>1. dir' \in [Batch -> Dir] /\ place' \in [Batch -> [Item -> Place]]
      BY <1>4, RemoveTyped DEF TypeOK, PurgeBatchFails
    <2> QED BY <1>4, <2>1 DEF TypeOK, PurgeBatchFails, history
  <1>5. CASE PurgeReturns(w)
    BY <1>5, ReturnTyped DEF TypeOK, PurgeReturns, history
  <1> QED BY <1>1, <1>2, <1>3, <1>4, <1>5 DEF PurgeStep, PurgeAll, SweepStale

(* Appending to the audit log keeps the types.                               *)
LEMMA AppendStepTyped ==
  ASSUME TypeOK, NEW w \in Worker, AppendStep(w),
         pc[w] \in {"line", "newline"} => cur[w] \in Batch
  PROVE  TypeOK'
  <1>0. ASSUME AfterAppend(w)
        PROVE  /\ pc' \in [Worker -> Pc]
               /\ op' \in [Worker -> Op]
               /\ cur' \in [Worker -> Batch \cup {NoBatch}]
               /\ todo' \in [Worker -> SUBSET Item]
               /\ bad' \in [Worker -> BOOLEAN]
               /\ scan' \in [Worker -> SUBSET Batch]
               /\ pend' \in [Worker -> SUBSET Batch]
    BY <1>0, ReturnTyped DEF TypeOK, AfterAppend, Goto, loopVars, sweepVars, Pc
  <1>1. CASE WriteLine(w)
    <2>1. RecordOf(w) \in Piece
      BY <1>1 DEF WriteLine, RecordOf, Piece, Record, RecordOp, ConsumeOp
    <2>2. log' \in Seq(Piece)
      BY <1>1, <2>1, AppendTyped DEF WriteLine
    <2> QED BY <1>1, <2>2 DEF TypeOK, WriteLine, Goto, loopVars, sweepVars, history, Pc
  <1>2. CASE WriteNewline(w)
    <2>1. log' \in Seq(Piece)
      BY <1>2, AppendTyped DEF WriteNewline, Piece
    <2>2. acked' \subseteq Batch
      BY <1>2 DEF WriteNewline, TypeOK
    <2> QED BY <1>0, <1>2, <2>1, <2>2 DEF TypeOK, WriteNewline
  <1>3. CASE AppendFails(w)
    <2>1. log' \in Seq(Piece)
      BY <1>3, AppendTyped DEF AppendFails, Piece, TypeOK
    <2> QED BY <1>0, <1>3, <2>1 DEF TypeOK, AppendFails, history
  <1> QED BY <1>1, <1>2, <1>3 DEF AppendStep

(* So does the death of a worker.                                            *)
LEMMA DieTyped ==
  ASSUME TypeOK, NEW w \in Worker, Die(w)
  PROVE  TypeOK'
  <1>1. CASE Crash(w)
    BY <1>1, ReturnTyped DEF TypeOK, Crash, history
  <1>2. ASSUME NEW b \in Batch, CrashInRemove(w, b) PROVE TypeOK'
    BY <1>2, ReturnTyped, RemoveTyped DEF TypeOK, CrashInRemove, history
  <1> QED BY <1>1, <1>2 DEF Die

-----------------------------------------------------------------------------
(* The inductive invariant                                                   *)

Sealed == {b \in Batch : dir[b] \notin {"none", "open"}}

(* A worker's operation, batch and label go together.                        *)
LabelInv(w) ==
  /\ pc[w] = "moving" => op[w] = "commit" /\ cur[w] \in Batch
  /\ pc[w] \in {"reading", "restoring"} => op[w] = "restore" /\ cur[w] \in Sealed
  /\ pc[w] = "purging" => op[w] \notin {"commit", "restore"}
  /\ pc[w] \in {"line", "newline"} => cur[w] \in Sealed
  /\ cur[w] \in Batch => cur[w] \in Sealed \/ pc[w] = "moving"

(* A batch being filled belongs to one worker, and the items it has still to *)
(* visit are at home, as are those of a batch that was not begun.            *)
FillInv ==
  /\ \A v \in Worker : pc[v] = "moving" =>
       /\ dir[cur[v]] = "open"
       /\ \A w \in Worker : w # v => cur[w] # cur[v]
       /\ \A i \in todo[v] : place[cur[v]][i] = "home"
  /\ \A b \in Batch : dir[b] = "none" => \A i \in Item : place[b][i] = "home"

(* A manifest lists everything that is left in its batch, and a restore that *)
(* has had no failure has still to visit all of it.                          *)
ManifestInv == \A b \in Batch : dir[b] = "listed" => InTrash(b) \subseteq manifest[b]

RestoreInv ==
  \A w \in Worker : pc[w] = "restoring" /\ ~bad[w] => InTrash(cur[w]) \subseteq todo[w]

(* Purges pick sealed batches only, and write records for gone ones only.    *)
PurgeInv ==
  /\ asked \subseteq Sealed
  /\ \A w \in Worker :
       /\ pend[w] \subseteq asked
       /\ pc[w] = "line" /\ op[w] \notin {"commit", "restore"} => dir[cur[w]] = "gone"

(* Every batch the log names is sealed.                                      *)
LogInv == \A i \in DOMAIN log : log[i].op \in RecordOp => log[i].batch \in Sealed

IInv == /\ TypeOK
        /\ \A w \in Worker : LabelInv(w)
        /\ FillInv
        /\ ManifestInv
        /\ RestoreInv
        /\ PurgeInv
        /\ LogInv
        /\ PurgeRecordMeansGone
        /\ OnlyPurgeBurns

(* A fresh batch is nobody else's.                                           *)
LEMMA CommitBeginInv ==
  ASSUME IInv, NEW w \in Worker, NEW b \in Batch, CommitBegin(w, b)
  PROVE  IInv'
  <1> USE DEF CommitBegin, Goto, sweepVars, history
  <1>1. TypeOK' BY CommitTyped DEF IInv
  <1>2. \A v \in Worker : LabelInv(v)'
    BY DEF IInv, TypeOK, LabelInv, Sealed, Pc, Op, Dir
  <1>3. FillInv'
    BY DEF IInv, TypeOK, FillInv, LabelInv, Sealed
  <1>4. ManifestInv'
    BY DEF IInv, TypeOK, ManifestInv, InTrash
  <1>5. RestoreInv'
    BY DEF IInv, TypeOK, RestoreInv, LabelInv, Sealed, InTrash
  <1>6. PurgeInv'
    BY DEF IInv, TypeOK, PurgeInv, LabelInv, Sealed
  <1>7. LogInv'
    BY DEF IInv, TypeOK, LogInv, Sealed
  <1>8. PurgeRecordMeansGone'
    BY DEF IInv, TypeOK, PurgeRecordMeansGone, LogInv, Sealed, RecordOp, ConsumeOp
  <1>9. OnlyPurgeBurns'
    BY DEF IInv, TypeOK, OnlyPurgeBurns
  <1> QED BY <1>1, <1>2, <1>3, <1>4, <1>5, <1>6, <1>7, <1>8, <1>9 DEF IInv

(* Only an open batch is filled: no manifest, restore or purge knows it.     *)
LEMMA CommitItemInv ==
  ASSUME IInv, NEW w \in Worker, NEW i \in Item, CommitItem(w, i)
  PROVE  IInv'
  <1> USE DEF CommitItem, sweepVars, history
  <1>1. TypeOK' BY CommitTyped DEF IInv, CommitStep, LabelInv
  <1>2. \A v \in Worker : LabelInv(v)'
    BY DEF IInv, TypeOK, LabelInv, Sealed, Pc, Op, Dir
  <1>3. FillInv'
    BY DEF IInv, TypeOK, FillInv, LabelInv, Sealed
  <1>4. ManifestInv'
    BY DEF IInv, TypeOK, ManifestInv, InTrash, FillInv
  <1>5. RestoreInv'
    BY DEF IInv, TypeOK, RestoreInv, LabelInv, Sealed, InTrash, FillInv
  <1>6. PurgeInv'
    BY DEF IInv, TypeOK, PurgeInv, LabelInv, Sealed
  <1>7. LogInv'
    BY DEF IInv, TypeOK, LogInv, Sealed
  <1>8. PurgeRecordMeansGone'
    BY DEF IInv, TypeOK, PurgeRecordMeansGone, LogInv, Sealed, RecordOp, ConsumeOp
  <1>9. OnlyPurgeBurns'
    BY DEF IInv, TypeOK, OnlyPurgeBurns, LabelInv
  <1> QED BY <1>1, <1>2, <1>3, <1>4, <1>5, <1>6, <1>7, <1>8, <1>9 DEF IInv

(* Nothing moves.                                                            *)
LEMMA CommitSkipInv ==
  ASSUME IInv, NEW w \in Worker, NEW i \in Item, CommitSkip(w, i)
  PROVE  IInv'
  <1> USE DEF CommitSkip, sweepVars, history
  <1>1. TypeOK' BY CommitTyped DEF IInv, CommitStep, LabelInv
  <1>2. \A v \in Worker : LabelInv(v)'
    BY DEF IInv, TypeOK, LabelInv, Sealed, Pc, Op, Dir
  <1>3. FillInv'
    BY DEF IInv, TypeOK, FillInv, LabelInv, Sealed
  <1>4. ManifestInv'
    BY DEF IInv, TypeOK, ManifestInv, InTrash
  <1>5. RestoreInv'
    BY DEF IInv, TypeOK, RestoreInv, LabelInv, Sealed, InTrash
  <1>6. PurgeInv'
    BY DEF IInv, TypeOK, PurgeInv, LabelInv, Sealed
  <1>7. LogInv'
    BY DEF IInv, TypeOK, LogInv, Sealed
  <1>8. PurgeRecordMeansGone'
    BY DEF IInv, TypeOK, PurgeRecordMeansGone, LogInv, Sealed, RecordOp, ConsumeOp
  <1>9. OnlyPurgeBurns'
    BY DEF IInv, TypeOK, OnlyPurgeBurns
  <1> QED BY <1>1, <1>2, <1>3, <1>4, <1>5, <1>6, <1>7, <1>8, <1>9 DEF IInv

(* The manifest lists all there is; the batch becomes sealed.                *)
LEMMA WriteManifestInv ==
  ASSUME IInv, NEW w \in Worker, WriteManifest(w)
  PROVE  IInv'
  <1> USE DEF WriteManifest, Goto, loopVars, sweepVars, history
  <1>1. TypeOK' BY CommitTyped DEF IInv, CommitStep, LabelInv
  <1>0. /\ cur[w] \in Batch /\ dir[cur[w]] = "open"
        /\ \A v \in Worker : v # w => cur[v] # cur[w]
    BY DEF IInv, LabelInv, FillInv
  <1>2. \A v \in Worker : LabelInv(v)'
    BY <1>0 DEF IInv, TypeOK, LabelInv, Sealed, Pc, Op, Dir
  <1>3. FillInv'
    BY <1>0 DEF IInv, TypeOK, FillInv, LabelInv, Sealed
  <1>4. ManifestInv'
    BY <1>0 DEF IInv, TypeOK, ManifestInv, InTrash
  <1>5. RestoreInv'
    BY <1>0 DEF IInv, TypeOK, RestoreInv, LabelInv, Sealed, InTrash
  <1>6. PurgeInv'
    BY <1>0 DEF IInv, TypeOK, PurgeInv, LabelInv, Sealed, FillInv
  <1>7. LogInv'
    BY <1>0 DEF IInv, TypeOK, LogInv, Sealed
  <1>8. PurgeRecordMeansGone'
    BY <1>0 DEF IInv, TypeOK, PurgeRecordMeansGone, LogInv, Sealed, RecordOp, ConsumeOp, FillInv, LabelInv
  <1>9. OnlyPurgeBurns'
    BY <1>0 DEF IInv, TypeOK, OnlyPurgeBurns
  <1> QED BY <1>1, <1>2, <1>3, <1>4, <1>5, <1>6, <1>7, <1>8, <1>9 DEF IInv

(* The batch is sealed without a manifest.                                   *)
LEMMA WriteManifestFailsInv ==
  ASSUME IInv, NEW w \in Worker, WriteManifestFails(w)
  PROVE  IInv'
  <1> USE DEF WriteManifestFails, Return, history
  <1>1. TypeOK' BY CommitTyped DEF IInv, CommitStep, LabelInv
  <1>0. /\ cur[w] \in Batch /\ dir[cur[w]] = "open"
        /\ \A v \in Worker : v # w => cur[v] # cur[w]
    BY DEF IInv, LabelInv, FillInv
  <1>2. \A v \in Worker : LabelInv(v)'
    BY <1>0, NoBatchAssumption DEF IInv, TypeOK, LabelInv, Sealed, Pc, Op, Dir
  <1>3. FillInv'
    BY <1>0, NoBatchAssumption DEF IInv, TypeOK, FillInv, LabelInv, Sealed
  <1>4. ManifestInv'
    BY <1>0 DEF IInv, TypeOK, ManifestInv, InTrash
  <1>5. RestoreInv'
    BY <1>0 DEF IInv, TypeOK, RestoreInv, LabelInv, Sealed, InTrash
  <1>6. PurgeInv'
    BY <1>0 DEF IInv, TypeOK, PurgeInv, LabelInv, Sealed, FillInv
  <1>7. LogInv'
    BY <1>0 DEF IInv, TypeOK, LogInv, Sealed
  <1>8. PurgeRecordMeansGone'
    BY <1>0 DEF IInv, TypeOK, PurgeRecordMeansGone, LogInv, Sealed, RecordOp, ConsumeOp, FillInv, LabelInv
  <1>9. OnlyPurgeBurns'
    BY <1>0 DEF IInv, TypeOK, OnlyPurgeBurns
  <1> QED BY <1>1, <1>2, <1>3, <1>4, <1>5, <1>6, <1>7, <1>8, <1>9 DEF IInv

(* The candidate is a batch the log names, so it is sealed.                  *)
LEMMA RestoreBeginInv ==
  ASSUME IInv, NEW w \in Worker, RestoreBegin(w)
  PROVE  IInv'
  <1> USE DEF RestoreBegin, Goto, loopVars, sweepVars, history
  <1>1. TypeOK' BY RestoreTyped DEF IInv, LabelInv
  <1>0. PICK b \in Sealed : cur' = [cur EXCEPT ![w] = b]
    BY LatestIsCommit DEF IInv, LogInv, RecordOp
  <1>2. \A v \in Worker : LabelInv(v)'
    BY <1>0 DEF IInv, TypeOK, LabelInv, Sealed, Pc, Op, Dir
  <1>3. FillInv'
    BY <1>0 DEF IInv, TypeOK, FillInv, LabelInv, Sealed
  <1>4. ManifestInv'
    BY <1>0 DEF IInv, TypeOK, ManifestInv, InTrash
  <1>5. RestoreInv'
    BY <1>0 DEF IInv, TypeOK, RestoreInv, LabelInv, Sealed, InTrash
  <1>6. PurgeInv'
    BY <1>0 DEF IInv, TypeOK, PurgeInv, LabelInv, Sealed
  <1>7. LogInv'
    BY <1>0 DEF IInv, TypeOK, LogInv, Sealed
  <1>8. PurgeRecordMeansGone'
    BY <1>0 DEF IInv, TypeOK, PurgeRecordMeansGone, LogInv, Sealed, RecordOp, ConsumeOp
  <1>9. OnlyPurgeBurns'
    BY <1>0 DEF IInv, TypeOK, OnlyPurgeBurns
  <1> QED BY <1>1, <1>2, <1>3, <1>4, <1>5, <1>6, <1>7, <1>8, <1>9 DEF IInv

(* The restore has still everything to visit.                                *)
LEMMA RestoreReadInv ==
  ASSUME IInv, NEW w \in Worker, RestoreRead(w)
  PROVE  IInv'
  <1> USE DEF RestoreRead, Goto, sweepVars, history
  <1>1. TypeOK' BY RestoreTyped DEF IInv, RestoreStep, LabelInv, Sealed
  <1>2. \A v \in Worker : LabelInv(v)'
    BY DEF IInv, TypeOK, LabelInv, Sealed, Pc, Op, Dir
  <1>3. FillInv'
    BY DEF IInv, TypeOK, FillInv, LabelInv, Sealed
  <1>4. ManifestInv'
    BY DEF IInv, TypeOK, ManifestInv, InTrash
  <1>5. RestoreInv'
    BY DEF IInv, TypeOK, RestoreInv, LabelInv, Sealed, InTrash, ManifestInv
  <1>6. PurgeInv'
    BY DEF IInv, TypeOK, PurgeInv, LabelInv, Sealed
  <1>7. LogInv'
    BY DEF IInv, TypeOK, LogInv, Sealed
  <1>8. PurgeRecordMeansGone'
    BY DEF IInv, TypeOK, PurgeRecordMeansGone, LogInv, Sealed, RecordOp, ConsumeOp
  <1>9. OnlyPurgeBurns'
    BY DEF IInv, TypeOK, OnlyPurgeBurns
  <1> QED BY <1>1, <1>2, <1>3, <1>4, <1>5, <1>6, <1>7, <1>8, <1>9 DEF IInv

(* An item leaves the trash for its home.                                    *)
LEMMA RestoreItemInv ==
  ASSUME IInv, NEW w \in Worker, NEW i \in Item, RestoreItem(w, i)
  PROVE  IInv'
  <1> USE DEF RestoreItem, sweepVars, history
  <1>1. TypeOK' BY RestoreTyped DEF IInv, RestoreStep, LabelInv, Sealed
  <1>2. \A v \in Worker : LabelInv(v)'
    BY DEF IInv, TypeOK, LabelInv, Sealed, Pc, Op, Dir
  <1>3. FillInv'
    BY DEF IInv, TypeOK, FillInv, LabelInv, Sealed
  <1>4. ManifestInv'
    BY DEF IInv, TypeOK, ManifestInv, InTrash, LabelInv, Sealed
  <1>5. RestoreInv'
    BY DEF IInv, TypeOK, RestoreInv, LabelInv, Sealed, InTrash
  <1>6. PurgeInv'
    BY DEF IInv, TypeOK, PurgeInv, LabelInv, Sealed
  <1>7. LogInv'
    BY DEF IInv, TypeOK, LogInv, Sealed
  <1>8. PurgeRecordMeansGone'
    BY DEF IInv, TypeOK, PurgeRecordMeansGone, LogInv, Sealed, RecordOp, ConsumeOp
  <1>9. OnlyPurgeBurns'
    BY DEF IInv, TypeOK, OnlyPurgeBurns, LabelInv, Sealed
  <1> QED BY <1>1, <1>2, <1>3, <1>4, <1>5, <1>6, <1>7, <1>8, <1>9 DEF IInv

(* The restore records a failure.                                            *)
LEMMA RestoreSkipInv ==
  ASSUME IInv, NEW w \in Worker, NEW i \in Item, RestoreSkip(w, i)
  PROVE  IInv'
  <1> USE DEF RestoreSkip, sweepVars, history
  <1>1. TypeOK' BY RestoreTyped DEF IInv, RestoreStep, LabelInv, Sealed
  <1>2. \A v \in Worker : LabelInv(v)'
    BY DEF IInv, TypeOK, LabelInv, Sealed, Pc, Op, Dir
  <1>3. FillInv'
    BY DEF IInv, TypeOK, FillInv, LabelInv, Sealed
  <1>4. ManifestInv'
    BY DEF IInv, TypeOK, ManifestInv, InTrash
  <1>5. RestoreInv'
    BY DEF IInv, TypeOK, RestoreInv, LabelInv, Sealed, InTrash
  <1>6. PurgeInv'
    BY DEF IInv, TypeOK, PurgeInv, LabelInv, Sealed
  <1>7. LogInv'
    BY DEF IInv, TypeOK, LogInv, Sealed
  <1>8. PurgeRecordMeansGone'
    BY DEF IInv, TypeOK, PurgeRecordMeansGone, LogInv, Sealed, RecordOp, ConsumeOp
  <1>9. OnlyPurgeBurns'
    BY DEF IInv, TypeOK, OnlyPurgeBurns
  <1> QED BY <1>1, <1>2, <1>3, <1>4, <1>5, <1>6, <1>7, <1>8, <1>9 DEF IInv

(* A restore without failures removes an empty batch.                        *)
LEMMA RestoreCloseInv ==
  ASSUME IInv, NEW w \in Worker, RestoreClose(w)
  PROVE  IInv'
  <1> USE DEF RestoreClose, Goto, loopVars, sweepVars, history
  <1>1. TypeOK' BY RestoreTyped DEF IInv, RestoreStep, LabelInv, Sealed
  <1>0. /\ place' = place
        /\ \A b \in Batch : \/ dir'[b] = dir[b]
                            \/ dir[b] # "gone" /\ {b} \subseteq Sealed \cap Sealed' /\ dir'[b] # "listed"
    BY <1>1 DEF IInv, TypeOK, RestoreInv, RemovePartly, RemoveWholly, InTrash, LabelInv, Sealed, Exists, Dir
  <1>2. \A v \in Worker : LabelInv(v)'
    BY <1>0, <1>1 DEF IInv, TypeOK, LabelInv, Sealed, Pc, Op, Dir
  <1>3. FillInv'
    BY <1>0, <1>1 DEF IInv, TypeOK, FillInv, LabelInv, Sealed
  <1>4. ManifestInv'
    BY <1>0, <1>1 DEF IInv, TypeOK, ManifestInv, InTrash
  <1>5. RestoreInv'
    BY <1>0, <1>1 DEF IInv, TypeOK, RestoreInv, LabelInv, Sealed, InTrash
  <1>6. PurgeInv'
    BY <1>0, <1>1 DEF IInv, TypeOK, PurgeInv, LabelInv, Sealed
  <1>7. LogInv'
    BY <1>0, <1>1 DEF IInv, TypeOK, LogInv, Sealed
  <1>8. PurgeRecordMeansGone'
    BY <1>0, <1>1 DEF IInv, TypeOK, PurgeRecordMeansGone, LogInv, Sealed, RecordOp, ConsumeOp
  <1>9. OnlyPurgeBurns'
    BY <1>0, <1>1 DEF IInv, TypeOK, OnlyPurgeBurns
  <1> QED BY <1>1, <1>2, <1>3, <1>4, <1>5, <1>6, <1>7, <1>8, <1>9 DEF IInv

(* A sweep starts with directory entries, no batch of its own.               *)
LEMMA SweepBeginInv ==
  ASSUME IInv, NEW w \in Worker, NEW kind \in {"purge_all", "sweep"}, NEW S \in SUBSET Batch, SweepBegin(w, kind, S)
  PROVE  IInv'
  <1> USE DEF SweepBegin, Goto, loopVars, history
  <1>1. TypeOK' BY DEF IInv, TypeOK, Pc, Op
  <1>2. \A v \in Worker : LabelInv(v)'
    BY DEF IInv, TypeOK, LabelInv, Sealed, Pc, Op, Dir
  <1>3. FillInv'
    BY DEF IInv, TypeOK, FillInv, LabelInv, Sealed
  <1>4. ManifestInv'
    BY DEF IInv, TypeOK, ManifestInv, InTrash
  <1>5. RestoreInv'
    BY DEF IInv, TypeOK, RestoreInv, LabelInv, Sealed, InTrash
  <1>6. PurgeInv'
    BY DEF IInv, TypeOK, PurgeInv, LabelInv, Sealed
  <1>7. LogInv'
    BY DEF IInv, TypeOK, LogInv, Sealed
  <1>8. PurgeRecordMeansGone'
    BY DEF IInv, TypeOK, PurgeRecordMeansGone, LogInv, Sealed, RecordOp, ConsumeOp
  <1>9. OnlyPurgeBurns'
    BY DEF IInv, TypeOK, OnlyPurgeBurns
  <1> QED BY <1>1, <1>2, <1>3, <1>4, <1>5, <1>6, <1>7, <1>8, <1>9 DEF IInv

(* What a sweep picks has a manifest, so it is sealed.                       *)
LEMMA ReadManifestInv ==
  ASSUME IInv, NEW w \in Worker, NEW b \in Batch, ReadManifest(w, b)
  PROVE  IInv'
  <1> USE DEF ReadManifest, loopVars
  <1>1. TypeOK' BY PurgeTyped DEF IInv, PurgeStep
  <1>2. \A v \in Worker : LabelInv(v)'
    BY DEF IInv, TypeOK, LabelInv, Sealed, Pc, Op, Dir
  <1>3. FillInv'
    BY DEF IInv, TypeOK, FillInv, LabelInv, Sealed
  <1>4. ManifestInv'
    BY DEF IInv, TypeOK, ManifestInv, InTrash
  <1>5. RestoreInv'
    BY DEF IInv, TypeOK, RestoreInv, LabelInv, Sealed, InTrash
  <1>6. PurgeInv'
    BY DEF IInv, TypeOK, PurgeInv, LabelInv, Sealed
  <1>7. LogInv'
    BY DEF IInv, TypeOK, LogInv, Sealed
  <1>8. PurgeRecordMeansGone'
    BY DEF IInv, TypeOK, PurgeRecordMeansGone, LogInv, Sealed, RecordOp, ConsumeOp
  <1>9. OnlyPurgeBurns'
    BY DEF IInv, TypeOK, OnlyPurgeBurns
  <1> QED BY <1>1, <1>2, <1>3, <1>4, <1>5, <1>6, <1>7, <1>8, <1>9 DEF IInv

(* A batch that was asked for is removed, then recorded.                     *)
LEMMA PurgeBatchInv ==
  ASSUME IInv, NEW w \in Worker, NEW b \in Batch, PurgeBatch(w, b)
  PROVE  IInv'
  <1> USE DEF PurgeBatch, Goto, loopVars, history
  <1>1. TypeOK' BY PurgeTyped DEF IInv, PurgeStep
  <1>0. /\ b \in asked /\ b \in Sealed /\ b \in Sealed'
        /\ dir[b] # "gone" /\ (dir'[b] = "listed" => dir[b] = "listed")
        /\ \A c \in Batch : c # b => dir'[c] = dir[c] /\ place'[c] = place[c]
        /\ \A c \in Batch : InTrash(c)' \subseteq InTrash(c)
    BY <1>1 DEF IInv, TypeOK, PurgeInv, RemoveWholly, RemovePartly, Exists, Sealed, InTrash, Dir
  <1>2. \A v \in Worker : LabelInv(v)'
    BY <1>0, <1>1 DEF IInv, TypeOK, LabelInv, Sealed, Pc, Op, Dir
  <1>3. FillInv'
    <2>1. ASSUME NEW v \in Worker, pc'[v] = "moving"
          PROVE  /\ pc[v] = "moving" /\ v # w /\ cur[v] \in Batch /\ cur[v] # b
                 /\ cur'[v] = cur[v] /\ todo'[v] = todo[v]
      BY <1>0, <2>1 DEF IInv, TypeOK, FillInv, LabelInv, Sealed
    <2>2. ASSUME NEW v \in Worker, NEW u \in Worker, pc'[v] = "moving", u # v
          PROVE  cur'[u] # cur'[v]
      BY <1>0, <2>1, <2>2 DEF IInv, TypeOK, FillInv
    <2>3. ASSUME NEW c \in Batch, dir'[c] = "none" PROVE c # b
      BY <1>0, <2>3 DEF Sealed
    <2> QED BY <1>0, <2>1, <2>2, <2>3 DEF IInv, FillInv
  <1>4. ManifestInv'
    BY <1>0, <1>1 DEF IInv, TypeOK, ManifestInv, InTrash
  <1>5. RestoreInv'
    BY <1>0, <1>1 DEF IInv, TypeOK, RestoreInv, LabelInv, Sealed, InTrash
  <1>6. PurgeInv'
    BY <1>0, <1>1 DEF IInv, TypeOK, PurgeInv, LabelInv, Sealed, RemoveWholly
  <1>7. LogInv'
    BY <1>0, <1>1 DEF IInv, TypeOK, LogInv, Sealed
  <1>8. PurgeRecordMeansGone'
    BY <1>0, <1>1 DEF IInv, TypeOK, PurgeRecordMeansGone, LogInv, Sealed, RecordOp, ConsumeOp
  <1>9. OnlyPurgeBurns'
    BY <1>0, <1>1 DEF IInv, TypeOK, OnlyPurgeBurns
  <1> QED BY <1>1, <1>2, <1>3, <1>4, <1>5, <1>6, <1>7, <1>8, <1>9 DEF IInv

(* A removal that fails leaves no record.                                    *)
LEMMA PurgeBatchFailsInv ==
  ASSUME IInv, NEW w \in Worker, NEW b \in Batch, PurgeBatchFails(w, b)
  PROVE  IInv'
  <1> USE DEF PurgeBatchFails, history
  <1>1. TypeOK' BY PurgeTyped DEF IInv, PurgeStep
  <1>0. /\ b \in asked /\ b \in Sealed /\ b \in Sealed'
        /\ (dir'[b] = dir[b] \/ dir[b] # "gone") /\ (dir'[b] = "listed" => dir[b] = "listed")
        /\ \A c \in Batch : c # b => dir'[c] = dir[c] /\ place'[c] = place[c]
        /\ \A c \in Batch : InTrash(c)' \subseteq InTrash(c)
    <2>1. CASE Exists(b)
      BY <1>1, <2>1 DEF IInv, TypeOK, PurgeInv, RemovePartly, Exists, Sealed, InTrash, Dir
    <2>2. CASE ~Exists(b)
      BY <1>1, <2>2 DEF IInv, TypeOK, PurgeInv, Sealed, InTrash
    <2> QED BY <2>1, <2>2
  <1>2. \A v \in Worker : LabelInv(v)'
    BY <1>0, <1>1 DEF IInv, TypeOK, LabelInv, Sealed, Pc, Op, Dir
  <1>3. FillInv'
    BY <1>0, <1>1 DEF IInv, TypeOK, FillInv, LabelInv, Sealed
  <1>4. ManifestInv'
    BY <1>0, <1>1 DEF IInv, TypeOK, ManifestInv, InTrash
  <1>5. RestoreInv'
    BY <1>0, <1>1 DEF IInv, TypeOK, RestoreInv, LabelInv, Sealed, InTrash
  <1>6. PurgeInv'
    BY <1>0, <1>1 DEF IInv, TypeOK, PurgeInv, LabelInv, Sealed
  <1>7. LogInv'
    BY <1>0, <1>1 DEF IInv, TypeOK, LogInv, Sealed
  <1>8. PurgeRecordMeansGone'
    BY <1>0, <1>1 DEF IInv, TypeOK, PurgeRecordMeansGone, LogInv, Sealed, RecordOp, ConsumeOp
  <1>9. OnlyPurgeBurns'
    BY <1>0, <1>1 DEF IInv, TypeOK, OnlyPurgeBurns
  <1> QED BY <1>1, <1>2, <1>3, <1>4, <1>5, <1>6, <1>7, <1>8, <1>9 DEF IInv

(* The record names a sealed batch, a purge record a gone one.               *)
LEMMA WriteLineInv ==
  ASSUME IInv, NEW w \in Worker, WriteLine(w)
  PROVE  IInv'
  <1> USE DEF WriteLine, Goto, loopVars, sweepVars, history
  <1>1. TypeOK' BY AppendStepTyped DEF IInv, AppendStep, LabelInv, Sealed
  <1>0. \A i \in DOMAIN log' :
          \/ i \in DOMAIN log /\ log'[i] = log[i]
          \/ log'[i] = RecordOf(w)
    BY AppendProperties DEF IInv, TypeOK
  <1>2. \A v \in Worker : LabelInv(v)'
    BY DEF IInv, TypeOK, LabelInv, Sealed, Pc, Op, Dir
  <1>3. FillInv'
    BY DEF IInv, TypeOK, FillInv, LabelInv, Sealed
  <1>4. ManifestInv'
    BY DEF IInv, TypeOK, ManifestInv, InTrash
  <1>5. RestoreInv'
    BY DEF IInv, TypeOK, RestoreInv, LabelInv, Sealed, InTrash
  <1>6. PurgeInv'
    BY DEF IInv, TypeOK, PurgeInv, LabelInv, Sealed
  <1>7. LogInv'
    BY <1>0 DEF IInv, TypeOK, LogInv, Sealed, LabelInv, RecordOf
  <1>8. PurgeRecordMeansGone'
    BY <1>0 DEF IInv, TypeOK, PurgeRecordMeansGone, LogInv, Sealed, RecordOp, ConsumeOp, PurgeInv, LabelInv, RecordOf
  <1>9. OnlyPurgeBurns'
    BY DEF IInv, TypeOK, OnlyPurgeBurns
  <1> QED BY <1>1, <1>2, <1>3, <1>4, <1>5, <1>6, <1>7, <1>8, <1>9 DEF IInv

(* An operation that returns, or whose process dies, changes what other      *)
(* workers see only through its batches.                                     *)
LEMMA ReturnInv ==
  ASSUME IInv, TypeOK', NEW w \in Worker, Return(w), UNCHANGED <<dir, place, manifest, asked>>,
         LogInv', PurgeRecordMeansGone'
  PROVE  IInv'
  <1> USE DEF Return
  <1>1. \A v \in Worker : LabelInv(v)'
    BY NoBatchAssumption DEF IInv, TypeOK, LabelInv, Sealed, Pc, Op, Dir
  <1>2. FillInv'
    BY NoBatchAssumption DEF IInv, TypeOK, FillInv, LabelInv, Sealed
  <1>3. ManifestInv' /\ OnlyPurgeBurns'
    BY DEF IInv, ManifestInv, InTrash, OnlyPurgeBurns
  <1>4. RestoreInv'
    BY DEF IInv, TypeOK, RestoreInv, InTrash
  <1>5. PurgeInv'
    BY DEF IInv, TypeOK, PurgeInv, Sealed
  <1> QED BY <1>1, <1>2, <1>3, <1>4, <1>5 DEF IInv

(* A line feed or a torn record names no batch.                              *)
LEMMA AppendNothing ==
  ASSUME IInv, log' \in {log, Append(log, Newline), Append(log, Torn)}, UNCHANGED dir
  PROVE  LogInv' /\ PurgeRecordMeansGone'
  <1>1. \A i \in DOMAIN log' :
          \/ i \in DOMAIN log /\ log'[i] = log[i]
          \/ log'[i] \in {Newline, Torn}
    <2>1. ASSUME NEW p \in {Newline, Torn}, log' = Append(log, p), NEW i \in DOMAIN log'
          PROVE  (i \in DOMAIN log /\ log'[i] = log[i]) \/ log'[i] = p
      <3>1. log \in Seq(Piece) /\ p \in Piece
        BY DEF IInv, TypeOK, Piece
      <3> QED BY <2>1, <3>1, AppendProperties
    <2> QED BY <2>1
  <1> QED
    BY <1>1 DEF IInv, LogInv, PurgeRecordMeansGone, Sealed, Newline, Torn, RecordOp, ConsumeOp

(* The end of an append, whether it worked or not.                           *)
LEMMA AfterAppendInv ==
  ASSUME IInv, NEW w \in Worker, WriteNewline(w) \/ AppendFails(w)
  PROVE  IInv'
  <1>1. TypeOK'
    BY AppendStepTyped DEF IInv, AppendStep, LabelInv, Sealed
  <1>2. AfterAppend(w) /\ UNCHANGED <<dir, place, manifest, asked>>
    BY DEF WriteNewline, AppendFails, history
  <1>3. LogInv' /\ PurgeRecordMeansGone'
    BY <1>2, AppendNothing DEF WriteNewline, AppendFails
  <1>4. CASE op[w] \in {"commit", "restore"}
    BY <1>1, <1>2, <1>3, <1>4, ReturnInv DEF AfterAppend
  <1>5. CASE op[w] \notin {"commit", "restore"}
    <2> USE <1>2, <1>5 DEF AfterAppend, Goto, loopVars, sweepVars
    <2>1. \A v \in Worker : LabelInv(v)'
      BY DEF WriteNewline, AppendFails, IInv, TypeOK, LabelInv, Sealed, Pc, Op, Dir
    <2>2. FillInv' /\ ManifestInv' /\ RestoreInv'
      BY DEF IInv, TypeOK, FillInv, ManifestInv, RestoreInv, InTrash
    <2>3. PurgeInv' /\ OnlyPurgeBurns'
      BY DEF IInv, TypeOK, PurgeInv, Sealed, OnlyPurgeBurns
    <2> QED BY <1>1, <1>3, <2>1, <2>2, <2>3 DEF IInv
  <1> QED BY <1>4, <1>5

(* A process that dies while removing a batch leaves no record of it.        *)
LEMMA CrashInRemoveInv ==
  ASSUME IInv, NEW w \in Worker, NEW b \in Batch, CrashInRemove(w, b)
  PROVE  IInv'
  <1> USE DEF CrashInRemove, Return, history
  <1>1. TypeOK' BY DieTyped DEF IInv, Die
  <1>0. /\ b \in asked /\ b \in Sealed /\ b \in Sealed'
        /\ dir[b] # "gone" /\ (dir'[b] = "listed" => dir[b] = "listed")
        /\ \A c \in Batch : c # b => dir'[c] = dir[c] /\ place'[c] = place[c]
        /\ \A c \in Batch : InTrash(c)' \subseteq InTrash(c)
    BY <1>1 DEF IInv, TypeOK, PurgeInv, RemoveWholly, RemovePartly, Exists, Sealed, InTrash, Dir
  <1>2. \A v \in Worker : LabelInv(v)'
    BY <1>0, <1>1, NoBatchAssumption DEF IInv, TypeOK, LabelInv, Sealed, Pc, Op, Dir
  <1>3. FillInv'
    <2>1. ASSUME NEW v \in Worker, pc'[v] = "moving"
          PROVE  /\ pc[v] = "moving" /\ v # w /\ cur[v] \in Batch /\ cur[v] # b
                 /\ cur'[v] = cur[v] /\ todo'[v] = todo[v]
      BY <1>0, <2>1 DEF IInv, TypeOK, FillInv, LabelInv, Sealed
    <2>2. ASSUME NEW v \in Worker, NEW u \in Worker, pc'[v] = "moving", u # v
          PROVE  cur'[u] # cur'[v]
      BY <1>0, <2>1, <2>2, NoBatchAssumption DEF IInv, TypeOK, FillInv
    <2>3. ASSUME NEW c \in Batch, dir'[c] = "none" PROVE c # b
      BY <1>0, <2>3 DEF Sealed
    <2> QED BY <1>0, <2>1, <2>2, <2>3 DEF IInv, FillInv
  <1>4. ManifestInv'
    BY <1>0, <1>1 DEF IInv, TypeOK, ManifestInv, InTrash
  <1>5. RestoreInv'
    BY <1>0, <1>1 DEF IInv, TypeOK, RestoreInv, LabelInv, Sealed, InTrash
  <1>6. PurgeInv'
    BY <1>0, <1>1 DEF IInv, TypeOK, PurgeInv, LabelInv, Sealed
  <1>7. LogInv'
    BY <1>0, <1>1 DEF IInv, TypeOK, LogInv, Sealed
  <1>8. PurgeRecordMeansGone'
    BY <1>0, <1>1 DEF IInv, TypeOK, PurgeRecordMeansGone, LogInv, Sealed, RecordOp, ConsumeOp
  <1>9. OnlyPurgeBurns'
    BY <1>0 DEF IInv, OnlyPurgeBurns
  <1> QED BY <1>1, <1>2, <1>3, <1>4, <1>5, <1>6, <1>7, <1>8, <1>9 DEF IInv

-----------------------------------------------------------------------------
(* The invariant holds                                                       *)

(* The empty data directory.                                                 *)
LEMMA InitInv == Init => IInv
  BY NoBatchAssumption DEF Init, IInv, TypeOK, LabelInv, Sealed, FillInv, ManifestInv, RestoreInv,
     PurgeInv, LogInv, PurgeRecordMeansGone, OnlyPurgeBurns, InTrash, Dir, Place, Pc, Op

(* Every step of every worker.                                               *)
LEMMA NextInv == IInv /\ [Next]_vars => IInv'
  <1> SUFFICES ASSUME IInv, [Next]_vars PROVE IInv'
    OBVIOUS
  <1>1. ASSUME NEW w \in Worker, Start(w) PROVE IInv'
    BY <1>1, CommitBeginInv, RestoreBeginInv, SweepBeginInv DEF Start, PurgeAll, SweepStale
  <1>2. ASSUME NEW w \in Worker, CommitStep(w) PROVE IInv'
    BY <1>2, CommitItemInv, CommitSkipInv, WriteManifestInv, WriteManifestFailsInv DEF CommitStep
  <1>3. ASSUME NEW w \in Worker, RestoreStep(w) PROVE IInv'
    <2>1. CASE RestoreReadFails(w)
      <3>1. TypeOK'
        BY <1>3, RestoreTyped DEF IInv, LabelInv, Sealed
      <3> QED BY <2>1, <3>1, ReturnInv
               DEF RestoreReadFails, history, IInv, LogInv, Sealed, PurgeRecordMeansGone
    <2> QED BY <1>3, <2>1, RestoreReadInv, RestoreItemInv, RestoreSkipInv, RestoreCloseInv
            DEF RestoreStep
  <1>4. ASSUME NEW w \in Worker, PurgeStep(w) PROVE IInv'
    <2>1. CASE PurgeReturns(w)
      <3>1. TypeOK'
        BY <1>4, PurgeTyped DEF IInv
      <3> QED BY <2>1, <3>1, ReturnInv
               DEF PurgeReturns, history, IInv, LogInv, Sealed, PurgeRecordMeansGone
    <2> QED BY <1>4, <2>1, ReadManifestInv, PurgeBatchInv, PurgeBatchFailsInv DEF PurgeStep
  <1>5. ASSUME NEW w \in Worker, AppendStep(w) PROVE IInv'
    BY <1>5, WriteLineInv, AfterAppendInv DEF AppendStep
  <1>6. ASSUME NEW w \in Worker, Die(w) PROVE IInv'
    <2>1. CASE Crash(w)
      <3>1. TypeOK'
        BY <1>6, DieTyped DEF IInv
      <3> QED BY <2>1, <3>1, ReturnInv
               DEF Crash, history, IInv, LogInv, Sealed, PurgeRecordMeansGone
    <2> QED BY <1>6, <2>1, CrashInRemoveInv DEF Die
  <1>7. CASE UNCHANGED vars
    BY <1>7 DEF vars, IInv, TypeOK, LabelInv, Sealed, FillInv, ManifestInv, RestoreInv,
       PurgeInv, LogInv, PurgeRecordMeansGone, OnlyPurgeBurns, InTrash
  <1> QED BY <1>1, <1>2, <1>3, <1>4, <1>5, <1>6, <1>7 DEF Next, Continue

LEMMA Invariance == Spec => []IInv
  BY InitInv, NextInv, PTL DEF Spec

(* Every variable keeps its type.                                            *)
THEOREM Typing == Spec => []TypeOK
  <1>1. IInv => TypeOK
    BY DEF IInv
  <1> QED BY <1>1, Invariance, PTL

(* Whatever the workers have written, and however it was cut short, the      *)
(* batch latest_commit finds is the one LatestCommit defines.                *)
THEOREM ScanFindsTheLatest == Spec => []ScanAgrees
<1>1. TypeOK => ScanAgrees
  BY ScanIsLatest DEF TypeOK, ScanAgrees
<1> QED
  BY <1>1, Typing, PTL

(* No item is destroyed but by a purge that picked its batch, whatever       *)
(* workers interleave, fail or die.                                          *)
THEOREM NothingLostButByPurge == Spec => []OnlyPurgeBurns
  <1>1. IInv => OnlyPurgeBurns
    BY DEF IInv
  <1> QED BY <1>1, Invariance, PTL

(* A purge record is only ever written for a batch that is gone.             *)
THEOREM PurgeRecordsAreTrue == Spec => []PurgeRecordMeansGone
  <1>1. IInv => PurgeRecordMeansGone
    BY DEF IInv
  <1> QED BY <1>1, Invariance, PTL

(* Nobody touches a batch while its commit is still moving items.            *)
THEOREM OpenBatchesArePrivate == Spec => []OpenBatchIsPrivate
  <1>1. IInv => OpenBatchIsPrivate
    BY DEF IInv, OpenBatchIsPrivate, FillInv, PurgeInv, Sealed
  <1> QED BY <1>1, Invariance, PTL

-----------------------------------------------------------------------------
(* The log                                                                   *)

(* Appending to a log keeps a terminated record readable.                    *)
LEMMA AppendKeepsTerminated ==
  ASSUME NEW l \in Seq(Piece), NEW p \in Piece, NEW i \in DOMAIN l,
         i < Len(l), Readable(l, i)
  PROVE  /\ i \in DOMAIN Append(l, p)
         /\ Append(l, p)[i] = l[i]
         /\ Readable(Append(l, p), i)
  <1>1. i \in 1..Len(l) /\ i + 1 \in 1..Len(l) /\ (i # 1 => i - 1 \in 1..Len(l))
    OBVIOUS
  <1> QED BY <1>1, AppendProperties DEF Readable

(* Lines that were ended stay readable for ever.                             *)
THEOREM LogIsAppendOnly == Spec => TerminatedStays
  <1>1. ASSUME IInv, [Next]_vars
        PROVE  log' = log \/ \E p \in Piece : log' = Append(log, p)
    <2>1. ASSUME NEW w \in Worker, WriteLine(w) PROVE RecordOf(w) \in Piece
      <3>1. cur[w] \in Batch
        BY <1>1, <2>1 DEF IInv, LabelInv, Sealed, WriteLine
      <3> QED BY <3>1 DEF RecordOf, Piece, Record, RecordOp, ConsumeOp
    <2>2. ASSUME NEW w \in Worker, AppendStep(w)
          PROVE  log' = log \/ \E p \in Piece : log' = Append(log, p)
      BY <2>1, <2>2 DEF AppendStep, WriteLine, WriteNewline, AppendFails, Piece
    <2>3. ASSUME NEW w \in Worker, Start(w) \/ CommitStep(w) \/ RestoreStep(w)
          PROVE  log' = log
      BY <2>3 DEF Start, CommitBegin, RestoreBegin, PurgeAll, SweepStale, SweepBegin, CommitStep,
         CommitItem, CommitSkip, WriteManifest, WriteManifestFails, RestoreStep, RestoreRead,
         RestoreReadFails, RestoreItem, RestoreSkip, RestoreClose
    <2>4. ASSUME NEW w \in Worker, PurgeStep(w) \/ Die(w)
          PROVE  log' = log
      BY <2>4 DEF PurgeStep, ReadManifest, PurgeBatch, PurgeBatchFails, PurgeReturns, Die, Crash,
         CrashInRemove
    <2> QED BY <1>1, <2>2, <2>3, <2>4 DEF Next, Continue, vars
  <1>2. IInv /\ [Next]_vars =>
          [\A i \in DOMAIN log : i < Len(log) /\ Readable(log, i) =>
             i \in DOMAIN log' /\ log'[i] = log[i] /\ Readable(log', i)]_vars
    BY <1>1, AppendKeepsTerminated DEF IInv, TypeOK
  <1> QED BY <1>2, Invariance, PTL DEF Spec, TerminatedStays

-----------------------------------------------------------------------------
(* The abstract trash                                                        *)

(* Removing a batch that was asked for burns items as SafeTrash allows.      *)
LEMMA RemoveBurns ==
  ASSUME IInv, NEW b \in asked, RemoveWholly(b) \/ RemovePartly(b), Exists(b), asked' = asked
  PROVE  Promise!Burn(b)
  <1>1. PICK K \in SUBSET InTrash(b) :
          place' = [place EXCEPT ![b] = [i \in Item |-> IF i \in K THEN "burnt" ELSE @[i]]]
    BY DEF RemoveWholly, RemovePartly
  <1>2. Sealed' = Sealed
    BY DEF IInv, TypeOK, PurgeInv, RemoveWholly, RemovePartly, Sealed, Exists
  <1> QED BY <1>1, <1>2 DEF Promise!Burn, InTrash, Sealed

(* Filling and sealing a batch.                                              *)
LEMMA CommitRefines ==
  ASSUME IInv, NEW w \in Worker, CommitStep(w) \/ \E b \in Batch : CommitBegin(w, b)
  PROVE  [Promise!Next]_(Promise!vars)
  <1>1. ASSUME NEW b \in Batch, CommitBegin(w, b) PROVE UNCHANGED Promise!vars
    BY <1>1 DEF IInv, TypeOK, CommitBegin, history, Promise!vars
  <1>2. ASSUME NEW i \in Item, CommitItem(w, i) PROVE [Promise!Next]_(Promise!vars)
    <2>1. cur[w] \in Batch /\ dir[cur[w]] = "open"
      BY <1>2 DEF IInv, LabelInv, FillInv, CommitItem
    <2>2. place[cur[w]][i] = "home" => Promise!Trash(cur[w], i)
      BY <1>2, <2>1 DEF CommitItem, history, Promise!Trash
    <2>3. place[cur[w]][i] = "home"
      BY <1>2 DEF IInv, FillInv, CommitItem
    <2> QED BY <2>1, <2>2, <2>3 DEF Promise!Next
  <1>3. ASSUME NEW i \in Item, CommitSkip(w, i) PROVE UNCHANGED Promise!vars
    BY <1>3 DEF CommitSkip, history, Promise!vars
  <1>4. CASE WriteManifest(w) \/ WriteManifestFails(w)
    <2>1. PICK b \in Batch : b = cur[w]
      BY <1>4 DEF IInv, LabelInv, WriteManifest, WriteManifestFails
    <2>2. Promise!Seal(b)
      BY <1>4, <2>1 DEF IInv, TypeOK, WriteManifest, WriteManifestFails, history, Promise!Seal
    <2> QED BY <2>2 DEF Promise!Next
  <1> QED BY <1>1, <1>2, <1>3, <1>4 DEF CommitStep

(* Putting items back, and removing a batch that holds nothing any more.     *)
LEMMA RestoreRefines ==
  ASSUME IInv, NEW w \in Worker, RestoreStep(w) \/ RestoreBegin(w)
  PROVE  [Promise!Next]_(Promise!vars)
  <1>1. CASE RestoreBegin(w) \/ RestoreRead(w) \/ RestoreReadFails(w)
    BY <1>1 DEF RestoreBegin, RestoreRead, RestoreReadFails, history, Promise!vars
  <1>2. ASSUME NEW i \in Item, RestoreItem(w, i) PROVE [Promise!Next]_(Promise!vars)
    <2>1. PICK b \in Sealed : b = cur[w]
      BY <1>2 DEF IInv, LabelInv, RestoreItem
    <2>2. Promise!PutBack(b, i)
      BY <1>2, <2>1 DEF RestoreItem, history, Sealed, Promise!PutBack
    <2>3. b \in Batch
      BY DEF Sealed
    <2> QED BY <2>2, <2>3 DEF Promise!Next
  <1>3. ASSUME NEW i \in Item, RestoreSkip(w, i) PROVE UNCHANGED Promise!vars
    BY <1>3 DEF RestoreSkip, history, Promise!vars
  <1>4. CASE RestoreClose(w)
    <2>1. cur[w] \in Sealed
      BY <1>4 DEF IInv, LabelInv, RestoreClose
    <2>2. CASE bad[w] \/ ~Exists(cur[w])
      BY <1>4, <2>2 DEF RestoreClose, history, Promise!vars
    <2>3. CASE ~bad[w] /\ Exists(cur[w])
      <3>1. InTrash(cur[w]) = {}
        BY <1>4, <2>3 DEF IInv, RestoreInv, RestoreClose
      <3>2. place' = place
        BY <1>4, <2>1, <2>3, <3>1 DEF IInv, TypeOK, RestoreClose, RemoveWholly, RemovePartly, Sealed
      <3>3. Sealed' = Sealed
        BY <1>4, <2>1, <2>3
        DEF IInv, TypeOK, RestoreClose, RemoveWholly, RemovePartly, Sealed, Exists
      <3> QED BY <1>4, <3>2, <3>3 DEF RestoreClose, history, Sealed, Promise!vars
    <2> QED BY <2>2, <2>3
  <1> QED BY <1>1, <1>2, <1>3, <1>4 DEF RestoreStep

(* Asking for batches and burning them; dying on the way.                    *)
LEMMA PurgeRefines ==
  ASSUME IInv, NEW w \in Worker, PurgeStep(w) \/ PurgeAll(w) \/ SweepStale(w) \/ Die(w)
  PROVE  [Promise!Next]_(Promise!vars)
  <1>1. CASE PurgeAll(w) \/ SweepStale(w) \/ PurgeReturns(w) \/ Crash(w)
    BY <1>1 DEF PurgeAll, SweepStale, SweepBegin, PurgeReturns, Crash, history, Promise!vars
  <1>2. ASSUME NEW b \in Batch, ReadManifest(w, b) PROVE [Promise!Next]_(Promise!vars)
    <2>1. Promise!Ask(b) \/ UNCHANGED Promise!vars
      BY <1>2 DEF ReadManifest, Promise!Ask, Promise!vars
    <2> QED BY <2>1 DEF Promise!Next
  <1>3. ASSUME NEW b \in Batch, PurgeBatch(w, b) \/ PurgeBatchFails(w, b) \/ CrashInRemove(w, b)
        PROVE  [Promise!Next]_(Promise!vars)
    <2>1. b \in asked /\ asked' = asked
      BY <1>3 DEF IInv, PurgeInv, PurgeBatch, PurgeBatchFails, CrashInRemove, history
    <2>2. CASE Exists(b)
      <3>1. Promise!Burn(b)
        BY <1>3, <2>1, <2>2, RemoveBurns DEF PurgeBatch, PurgeBatchFails, CrashInRemove
      <3> QED BY <3>1 DEF Promise!Next
    <2>3. CASE ~Exists(b)
      BY <1>3, <2>3 DEF PurgeBatch, PurgeBatchFails, CrashInRemove, history, Promise!vars
    <2> QED BY <2>2, <2>3
  <1> QED BY <1>1, <1>2, <1>3 DEF PurgeStep, Die

(* The cleaner, with its log, its faults and any number of workers, does     *)
(* only what SafeTrash allows.                                               *)
THEOREM Refinement == Spec => ImplementsSafeTrash
  <1>1. Init => Promise!Init
    BY DEF Init, Promise!Init
  <1>2. IInv /\ [Next]_vars => [Promise!Next]_(Promise!vars)
    <2> SUFFICES ASSUME IInv, [Next]_vars PROVE [Promise!Next]_(Promise!vars)
      OBVIOUS
    <2>1. ASSUME NEW w \in Worker, Start(w) PROVE [Promise!Next]_(Promise!vars)
      BY <2>1, CommitRefines, RestoreRefines, PurgeRefines DEF Start
    <2>2. ASSUME NEW w \in Worker, Continue(w) PROVE [Promise!Next]_(Promise!vars)
      <3>1. CASE AppendStep(w)
        BY <3>1 DEF AppendStep, WriteLine, WriteNewline, AppendFails, history, Promise!vars
      <3> QED BY <2>2, <3>1, CommitRefines, RestoreRefines, PurgeRefines DEF Continue
    <2>3. ASSUME NEW w \in Worker, Die(w) PROVE [Promise!Next]_(Promise!vars)
      BY <2>3, PurgeRefines
    <2>4. CASE UNCHANGED vars
      BY <2>4 DEF vars, Promise!vars
    <2> QED BY <2>1, <2>2, <2>3, <2>4 DEF Next
  <1> QED BY <1>1, <1>2, Invariance, PTL DEF Spec, ImplementsSafeTrash, Promise!Spec

-----------------------------------------------------------------------------
(* One worker: lines are whole                                               *)

(* One instance of the application runs one operation at a time.             *)
Serial == \A v, w \in Worker : v = w

(* Nothing torn; of two pieces in a row one is a line feed; a record without *)
(* its line feed is the last piece, written by a worker about to end it.     *)
LineInv ==
  /\ \A i \in DOMAIN log : log[i] # Torn
  /\ \A i \in DOMAIN log : i + 1 \in DOMAIN log => log[i] = Newline \/ log[i+1] = Newline
  /\ \A i \in DOMAIN log : i = Len(log) => log[i] = Newline \/ \E w \in Worker : pc[w] = "newline"
  /\ \A w \in Worker : pc[w] = "newline" => Len(log) \in DOMAIN log /\ log[Len(log)] = RecordOf(w)

(* Every acknowledged commit has a record.                                   *)
AckInv == \A b \in acked : \E i \in DOMAIN log : log[i] = [op |-> "commit", batch |-> b]

(* On whole lines every record can be read.                                  *)
LEMMA RecordsAreReadable ==
  ASSUME TypeOK, LineInv, NEW i \in DOMAIN log, log[i].op \in RecordOp
  PROVE  Readable(log, i)
  <1>1. log[i] # Newline
    BY DEF Newline, RecordOp, ConsumeOp
  <1>2. i = 1 \/ (i - 1 \in DOMAIN log /\ (i - 1) + 1 = i)
    BY DEF TypeOK
  <1>3. i = Len(log) \/ i + 1 \in DOMAIN log
    BY DEF TypeOK
  <1> QED BY <1>1, <1>2, <1>3 DEF LineInv, Readable

(* What Append does to the pieces.                                           *)
LEMMA Appended ==
  ASSUME NEW l \in Seq(Piece), NEW p \in Piece
  PROVE  /\ Append(l, p) \in Seq(Piece)
         /\ Len(Append(l, p)) = Len(l) + 1
         /\ DOMAIN Append(l, p) = 1..(Len(l) + 1)
         /\ \A i \in DOMAIN l : i \in DOMAIN Append(l, p) /\ Append(l, p)[i] = l[i]
         /\ Append(l, p)[Len(l) + 1] = p
         /\ DOMAIN l = 1..Len(l) /\ Len(l) \in Nat
  BY AppendProperties

(* A step that writes nothing and neither begins nor ends an append.         *)
LEMMA QuietKeepsLines ==
  ASSUME Serial, LineInv, NEW w \in Worker, pc[w] # "newline", pc'[w] # "newline", log' = log
  PROVE  LineInv'
  <1>1. \A v \in Worker : pc[v] # "newline" /\ pc'[v] # "newline"
    BY DEF Serial
  <1> QED BY <1>1 DEF LineInv

(* The record goes after a line feed or begins the file.                     *)
LEMMA WriteLineKeepsLines ==
  ASSUME Serial, IInv, LineInv, AckInv, NEW w \in Worker, WriteLine(w)
  PROVE  LineInv' /\ AckInv'
  <1>1. RecordOf(w) \in Piece /\ RecordOf(w) # Torn /\ log \in Seq(Piece)
    BY DEF IInv, TypeOK, LabelInv, Sealed, WriteLine, RecordOf, Piece, Record, RecordOp,
       ConsumeOp, Torn
  <1>2. \A v \in Worker : v = w
    BY DEF Serial
  <1>3. /\ log' = Append(log, RecordOf(w)) /\ pc[w] = "line"
        /\ RecordOf(w)' = RecordOf(w) /\ acked' = acked
    BY DEF WriteLine, RecordOf, Goto, history
  <1>4. \A i \in DOMAIN log : i = Len(log) => log[i] = Newline
    BY <1>2, <1>3 DEF LineInv
  <1>5. \A i \in DOMAIN log' : i \in DOMAIN log \/ i = Len(log) + 1
    BY <1>1, <1>3, Appended
  <1>6. AckInv'
    BY <1>1, <1>3, Appended DEF AckInv
  <1>7. \A i \in DOMAIN log' : log'[i] # Torn
    BY <1>1, <1>3, <1>5, Appended DEF LineInv
  <1>8. ASSUME NEW i \in DOMAIN log', i + 1 \in DOMAIN log'
        PROVE  log'[i] = Newline \/ log'[i+1] = Newline
    <2>1. i \in DOMAIN log
      BY <1>1, <1>3, <1>8, Appended
    <2>2. CASE i + 1 \in DOMAIN log
      BY <1>1, <1>3, <2>1, <2>2, Appended DEF LineInv
    <2>3. CASE i + 1 \notin DOMAIN log
      <3>1. i = Len(log)
        BY <1>1, <2>1, <2>3, Appended
      <3> QED BY <1>1, <1>3, <1>4, <2>1, <3>1, Appended
    <2> QED BY <2>2, <2>3
  <1>9. pc'[w] = "newline"
    BY DEF IInv, TypeOK, WriteLine, Goto
  <1>10. \A v \in Worker : Len(log') \in DOMAIN log' /\ log'[Len(log')] = RecordOf(v)'
    BY <1>1, <1>2, <1>3, Appended
  <1> QED BY <1>6, <1>7, <1>8, <1>9, <1>10 DEF LineInv

(* The line feed ends the record, which stays where it is.                   *)
LEMMA WriteNewlineKeepsLines ==
  ASSUME Serial, IInv, LineInv, AckInv, NEW w \in Worker, WriteNewline(w)
  PROVE  LineInv' /\ AckInv'
  <1>1. Newline \in Piece /\ Newline # Torn /\ log \in Seq(Piece)
    BY DEF IInv, TypeOK, Piece, Newline, Torn
  <1>2. \A v \in Worker : v = w
    BY DEF Serial
  <1>3. log' = Append(log, Newline) /\ pc[w] = "newline"
    BY DEF WriteNewline
  <1>4. pc'[w] # "newline"
    BY DEF IInv, TypeOK, WriteNewline, AfterAppend, Return, Goto
  <1>5. \A i \in DOMAIN log' : i \in DOMAIN log \/ i = Len(log) + 1
    BY <1>1, <1>3, Appended
  <1>6. Len(log) \in DOMAIN log /\ log[Len(log)] = RecordOf(w)
    BY <1>3 DEF LineInv
  <1>7. \A b \in acked' : b \in acked \/ (b = cur[w] /\ op[w] = "commit")
    BY DEF WriteNewline
  <1>8. AckInv'
    <2> SUFFICES ASSUME NEW b \in acked'
                 PROVE  \E i \in DOMAIN log' : log'[i] = [op |-> "commit", batch |-> b]
      BY DEF AckInv
    <2>1. \E i \in DOMAIN log : log[i] = [op |-> "commit", batch |-> b]
      BY <1>6, <1>7 DEF AckInv, RecordOf
    <2> QED BY <1>1, <1>3, <2>1, Appended
  <1>9. \A i \in DOMAIN log' : log'[i] # Torn
    BY <1>1, <1>3, <1>5, Appended DEF LineInv
  <1>10. ASSUME NEW i \in DOMAIN log', i + 1 \in DOMAIN log'
         PROVE  log'[i] = Newline \/ log'[i+1] = Newline
    <2>1. i \in DOMAIN log
      BY <1>1, <1>3, <1>10, Appended
    <2>2. CASE i + 1 \in DOMAIN log
      BY <1>1, <1>3, <2>1, <2>2, Appended DEF LineInv
    <2>3. CASE i + 1 = Len(log) + 1
      BY <1>1, <1>3, <2>3, Appended
    <2> QED BY <1>5, <1>10, <2>2, <2>3
  <1>11. \A i \in DOMAIN log' : i = Len(log') => log'[i] = Newline
    BY <1>1, <1>3, Appended
  <1> QED BY <1>2, <1>4, <1>8, <1>9, <1>10, <1>11 DEF LineInv

(* Without crashes and failed appends every step keeps lines whole.          *)
LEMMA LinesNext ==
  ASSUME Serial, Fault \cap {"crash", "append"} = {}, IInv, LineInv, AckInv, [Next]_vars
  PROVE  LineInv' /\ AckInv'
  <1>1. ASSUME NEW w \in Worker, pc[w] # "newline", pc'[w] # "newline", log' = log, acked' = acked
        PROVE  LineInv' /\ AckInv'
    BY <1>1, QuietKeepsLines DEF AckInv
  <1>2. ASSUME NEW w \in Worker, Start(w) PROVE LineInv' /\ AckInv'
    <2>1. /\ pc[w] # "newline" /\ pc'[w] # "newline"
          /\ log' = log /\ acked' = acked
      BY <1>2 DEF IInv, TypeOK, Start, CommitBegin, RestoreBegin, PurgeAll, SweepStale,
         SweepBegin, Goto, history
    <2> QED BY <1>1, <2>1
  <1>3. ASSUME NEW w \in Worker, CommitStep(w) PROVE LineInv' /\ AckInv'
    <2>1. /\ pc[w] # "newline" /\ pc'[w] # "newline"
          /\ log' = log /\ acked' = acked
      BY <1>3 DEF IInv, TypeOK, CommitStep, CommitItem, CommitSkip, WriteManifest,
         WriteManifestFails, Return, Goto, history
    <2> QED BY <1>1, <2>1
  <1>4. ASSUME NEW w \in Worker, RestoreStep(w) PROVE LineInv' /\ AckInv'
    <2>1. /\ pc[w] # "newline" /\ pc'[w] # "newline"
          /\ log' = log /\ acked' = acked
      BY <1>4 DEF IInv, TypeOK, RestoreStep, RestoreRead, RestoreReadFails, RestoreItem,
         RestoreSkip, RestoreClose, Return, Goto, history
    <2> QED BY <1>1, <2>1
  <1>5. ASSUME NEW w \in Worker, PurgeStep(w) PROVE LineInv' /\ AckInv'
    <2>1. /\ pc[w] # "newline" /\ pc'[w] # "newline"
          /\ log' = log /\ acked' = acked
      BY <1>5 DEF IInv, TypeOK, PurgeStep, ReadManifest, PurgeBatch, PurgeBatchFails,
         PurgeReturns, Return, Goto, history
    <2> QED BY <1>1, <2>1
  <1>6. ASSUME NEW w \in Worker, AppendStep(w) PROVE LineInv' /\ AckInv'
    <2>1. ~AppendFails(w)
      BY DEF AppendFails
    <2> QED BY <1>6, <2>1, WriteLineKeepsLines, WriteNewlineKeepsLines DEF AppendStep
  <1>7. ASSUME NEW w \in Worker PROVE ~Die(w)
    BY DEF Die, Crash, CrashInRemove
  <1>8. CASE UNCHANGED vars
    BY <1>8 DEF vars, LineInv, AckInv, RecordOf
  <1> QED BY <1>2, <1>3, <1>4, <1>5, <1>6, <1>7, <1>8 DEF Next, Continue

(* With one worker, and neither crashes nor failed appends, the log consists *)
(* of whole lines.                                                           *)
LEMMA LinesAreWhole ==
  ASSUME Serial, Fault \cap {"crash", "append"} = {}
  PROVE  Spec => [](IInv /\ LineInv /\ AckInv)
  <1>1. Init => LineInv /\ AckInv
    BY DEF Init, LineInv, AckInv
  <1>2. IInv /\ LineInv /\ AckInv /\ [Next]_vars => LineInv' /\ AckInv'
    BY LinesNext
  <1> QED BY <1>1, <1>2, Invariance, PTL DEF Spec

(* One worker, any failure of manifests and removals: a commit that returned *)
(* Ok can be found in the log, so that restore_last comes to it.             *)
THEOREM AcksAreLogged ==
  ASSUME Serial, Fault \cap {"crash", "append"} = {}
  PROVE  Spec => []AckedIsLogged
  <1>1. IInv /\ LineInv /\ AckInv => AckedIsLogged
    <2> SUFFICES ASSUME IInv, LineInv, AckInv, NEW b \in acked
                 PROVE  Logged(log, "commit", b)
      BY DEF AckedIsLogged
    <2>1. PICK i \in DOMAIN log : log[i] = [op |-> "commit", batch |-> b]
      BY DEF AckInv
    <2>2. log[i].op = "commit" /\ log[i].batch = b
      BY <2>1
    <2>3. Readable(log, i)
      BY <2>2, RecordsAreReadable DEF IInv, RecordOp
    <2> QED BY <2>2, <2>3 DEF Logged
  <1> QED BY <1>1, LinesAreWhole, PTL

-----------------------------------------------------------------------------
(* One worker: the log and the graveyard agree                               *)

(* A commit record no later record consumes names a batch that is listed, or *)
(* one whose consuming record is the next thing to be written.               *)
DeadConsumed ==
  /\ \A i \in DOMAIN log : log[i].op = "commit" =>
       \/ dir[log[i].batch] = "listed"
       \/ \E j \in DOMAIN log : i < j /\ log[j].op \in ConsumeOp /\ log[j].batch = log[i].batch
       \/ \E w \in Worker : pc[w] = "line" /\ op[w] # "commit" /\ cur[w] = log[i].batch
  /\ \A w \in Worker : pc[w] = "line" /\ op[w] = "commit" => dir[cur[w]] = "listed"

(* A step that writes no record, and takes no listed batch away unless the   *)
(* record of it comes next.                                                  *)
LEMMA QuietKeepsConsumed ==
  ASSUME Serial, IInv, DeadConsumed, NEW w \in Worker, pc[w] # "line",
         log' = log \/ log' = Append(log, Newline),
         \A b \in Sealed : dir[b] = "listed" =>
            dir'[b] = "listed" \/ (pc'[w] = "line" /\ op'[w] # "commit" /\ cur'[w] = b),
         pc'[w] = "line" /\ op'[w] = "commit" => dir'[cur'[w]] = "listed"
  PROVE  DeadConsumed'
  <1>1. \A v \in Worker : v = w
    BY DEF Serial
  <1>2. log \in Seq(Piece) /\ Newline \in Piece
    BY DEF IInv, TypeOK, Piece
  <1>3. /\ \A i \in DOMAIN log : i \in DOMAIN log' /\ log'[i] = log[i]
        /\ \A i \in DOMAIN log' : i \in DOMAIN log \/ log'[i] = Newline
    BY <1>2, Appended
  <1>4. Newline.op # "commit"
    BY DEF Newline
  <1>5. ASSUME NEW i \in DOMAIN log', log'[i].op = "commit"
        PROVE  \/ dir'[log'[i].batch] = "listed"
               \/ \E j \in DOMAIN log' : i < j /\ log'[j].op \in ConsumeOp /\ log'[j].batch = log'[i].batch
               \/ pc'[w] = "line" /\ op'[w] # "commit" /\ cur'[w] = log'[i].batch
    <2>1. i \in DOMAIN log /\ log'[i] = log[i]
      BY <1>3, <1>4, <1>5
    <2>2. log[i].batch \in Sealed
      BY <1>5, <2>1 DEF IInv, LogInv, RecordOp
    <2>3. \/ dir[log[i].batch] = "listed"
          \/ \E j \in DOMAIN log : i < j /\ log[j].op \in ConsumeOp /\ log[j].batch = log[i].batch
      BY <1>1, <1>5, <2>1 DEF DeadConsumed
    <2>4. CASE dir[log[i].batch] = "listed"
      BY <2>1, <2>2, <2>4
    <2>5. ASSUME NEW j \in DOMAIN log, i < j, log[j].op \in ConsumeOp, log[j].batch = log[i].batch
          PROVE  j \in DOMAIN log' /\ i < j /\ log'[j].op \in ConsumeOp /\ log'[j].batch = log'[i].batch
      BY <1>3, <2>1, <2>5
    <2> QED BY <2>3, <2>4, <2>5
  <1>6. \A v \in Worker : pc'[v] = "line" /\ op'[v] = "commit" => dir'[cur'[v]] = "listed"
    BY <1>1
  <1> QED BY <1>5, <1>6 DEF DeadConsumed

(* The record: a commit's batch is listed, any other consumes its batch.     *)
LEMMA WriteLineKeepsConsumed ==
  ASSUME Serial, IInv, DeadConsumed, NEW w \in Worker, WriteLine(w)
  PROVE  DeadConsumed'
  <1>1. \A v \in Worker : v = w
    BY DEF Serial
  <1>2. /\ log \in Seq(Piece) /\ RecordOf(w) \in Piece
        /\ log' = Append(log, RecordOf(w)) /\ dir' = dir
        /\ pc[w] = "line" /\ pc'[w] # "line"
    BY DEF IInv, TypeOK, LabelInv, Sealed, WriteLine, Goto, RecordOf, Piece, Record, RecordOp,
       ConsumeOp
  <1>3. /\ \A i \in DOMAIN log : i \in DOMAIN log' /\ log'[i] = log[i]
        /\ \A i \in DOMAIN log' : i \in DOMAIN log \/ i = Len(log) + 1
        /\ Len(log) + 1 \in DOMAIN log' /\ log'[Len(log) + 1] = RecordOf(w)
        /\ \A i \in DOMAIN log : i < Len(log) + 1
    BY <1>2, Appended
  <1>4. ASSUME NEW i \in DOMAIN log', log'[i].op = "commit"
        PROVE  \/ dir'[log'[i].batch] = "listed"
               \/ \E j \in DOMAIN log' : i < j /\ log'[j].op \in ConsumeOp /\ log'[j].batch = log'[i].batch
    <2>1. CASE i \in DOMAIN log
      <3>1. log'[i] = log[i]
        BY <1>3, <2>1
      <3>2. ASSUME NEW j \in DOMAIN log, i < j, log[j].op \in ConsumeOp, log[j].batch = log[i].batch
            PROVE  j \in DOMAIN log' /\ log'[j].op \in ConsumeOp /\ log'[j].batch = log'[i].batch
        BY <1>3, <3>1, <3>2
      <3>3. CASE op[w] # "commit" /\ cur[w] = log[i].batch
        <4>1. RecordOf(w).op \in ConsumeOp /\ RecordOf(w).batch = log[i].batch
          BY <3>3 DEF RecordOf, ConsumeOp
        <4> QED BY <1>3, <2>1, <3>1, <4>1
      <3>4. \/ dir[log[i].batch] = "listed"
            \/ \E j \in DOMAIN log : i < j /\ log[j].op \in ConsumeOp /\ log[j].batch = log[i].batch
            \/ op[w] # "commit" /\ cur[w] = log[i].batch
        BY <1>1, <1>4, <2>1, <3>1 DEF DeadConsumed
      <3> QED BY <1>2, <3>1, <3>2, <3>3, <3>4
    <2>2. CASE i = Len(log) + 1
      <3>1. RecordOf(w).op = "commit" /\ log'[i] = RecordOf(w)
        BY <1>3, <1>4, <2>2
      <3>2. op[w] = "commit" /\ log'[i].batch = cur[w]
        BY <3>1 DEF RecordOf
      <3> QED BY <1>2, <3>2 DEF DeadConsumed
    <2> QED BY <1>3, <2>1, <2>2
  <1>5. \A v \in Worker : pc'[v] # "line"
    BY <1>1, <1>2
  <1> QED BY <1>4, <1>5 DEF DeadConsumed

(* Unless a removal, an append or the worker fails, every step keeps the log *)
(* and the graveyard in agreement.                                           *)
LEMMA ConsumedNext ==
  ASSUME Serial, Fault \subseteq {"manifest"}, IInv, DeadConsumed, [Next]_vars
  PROVE  DeadConsumed'
  <1>1. ASSUME NEW w \in Worker, Start(w) PROVE DeadConsumed'
    <2>1. /\ pc[w] # "line" /\ pc'[w] # "line" /\ log' = log
          /\ \A b \in Sealed : dir[b] = "listed" => dir'[b] = "listed"
      BY <1>1 DEF IInv, TypeOK, Start, CommitBegin, RestoreBegin, PurgeAll, SweepStale,
         SweepBegin, Goto, Sealed
    <2> QED BY <2>1, QuietKeepsConsumed
  <1>2. ASSUME NEW w \in Worker, CommitStep(w) PROVE DeadConsumed'
    <2>1. /\ pc[w] = "moving" /\ log' = log /\ dir[cur[w]] = "open" /\ op[w] = "commit"
          /\ cur[w] \in Batch
      BY <1>2 DEF IInv, LabelInv, FillInv, CommitStep, CommitItem, CommitSkip, WriteManifest,
         WriteManifestFails
    <2>2. \A b \in Sealed : dir[b] = "listed" => dir'[b] = "listed"
      BY <1>2, <2>1 DEF IInv, TypeOK, CommitStep, CommitItem, CommitSkip, WriteManifest,
         WriteManifestFails, Sealed
    <2>3. pc'[w] = "line" => dir'[cur'[w]] = "listed"
      BY <1>2, <2>1 DEF IInv, TypeOK, CommitStep, CommitItem, CommitSkip, WriteManifest,
         WriteManifestFails, Return, Goto
    <2> QED BY <2>1, <2>2, <2>3, QuietKeepsConsumed
  <1>3. ASSUME NEW w \in Worker, RestoreStep(w) PROVE DeadConsumed'
    <2>1. pc[w] \in {"reading", "restoring"} /\ op[w] = "restore" /\ log' = log
      BY <1>3 DEF IInv, LabelInv, RestoreStep, RestoreRead, RestoreReadFails, RestoreItem,
         RestoreSkip, RestoreClose
    <2>2. CASE RestoreClose(w)
      <3>1. pc'[w] = "line" /\ op'[w] = "restore" /\ cur'[w] = cur[w]
        BY <2>1, <2>2 DEF IInv, TypeOK, RestoreClose, Goto, sweepVars
      <3>2. dir' = dir \/ dir' = [dir EXCEPT ![cur[w]] = "gone"]
        BY <2>2 DEF RestoreClose, RemoveWholly
      <3>3. \A b \in Sealed : b # cur[w] => dir'[b] = dir[b]
        BY <3>2 DEF IInv, TypeOK, Sealed
      <3> QED BY <2>1, <3>1, <3>3, QuietKeepsConsumed
    <2>3. CASE ~RestoreClose(w)
      <3>1. dir' = dir /\ pc'[w] # "line"
        BY <1>3, <2>1, <2>3 DEF IInv, TypeOK, RestoreStep, RestoreRead, RestoreReadFails,
           RestoreItem, RestoreSkip, Return, Goto
      <3> QED BY <2>1, <3>1, QuietKeepsConsumed
    <2> QED BY <2>2, <2>3
  <1>4. ASSUME NEW w \in Worker, PurgeStep(w) PROVE DeadConsumed'
    <2>1. pc[w] = "purging" /\ op[w] \notin {"commit", "restore"} /\ log' = log
      BY <1>4 DEF IInv, LabelInv, PurgeStep, ReadManifest, PurgeBatch, PurgeBatchFails,
         PurgeReturns
    <2>2. ASSUME NEW b \in Batch, PurgeBatch(w, b) PROVE DeadConsumed'
      <3>1. pc'[w] = "line" /\ op'[w] = op[w] /\ cur'[w] = b
        BY <2>2 DEF IInv, TypeOK, PurgeBatch, Goto, loopVars
      <3>2. \A c \in Sealed : c # b => dir'[c] = dir[c]
        BY <2>2 DEF IInv, TypeOK, PurgeBatch, RemoveWholly, Sealed
      <3> QED BY <2>1, <3>1, <3>2, QuietKeepsConsumed
    <2>3. CASE PurgeReturns(w) \/ \E b \in Batch : ReadManifest(w, b) \/ PurgeBatchFails(w, b)
      <3>1. dir' = dir /\ pc'[w] # "line"
        BY <2>1, <2>3 DEF IInv, TypeOK, ReadManifest, PurgeBatchFails, PurgeReturns, Return, loopVars
      <3> QED BY <2>1, <3>1, QuietKeepsConsumed
    <2> QED BY <1>4, <2>2, <2>3 DEF PurgeStep
  <1>5. ASSUME NEW w \in Worker, AppendStep(w) PROVE DeadConsumed'
    <2>1. ~AppendFails(w)
      BY DEF AppendFails
    <2>2. CASE WriteNewline(w)
      <3>1. /\ pc[w] # "line" /\ pc'[w] # "line" /\ dir' = dir
            /\ log' = Append(log, Newline)
        BY <2>2 DEF IInv, TypeOK, WriteNewline, AfterAppend, Return, Goto
      <3> QED BY <3>1, QuietKeepsConsumed
    <2> QED BY <1>5, <2>1, <2>2, WriteLineKeepsConsumed DEF AppendStep
  <1>6. ASSUME NEW w \in Worker PROVE ~Die(w)
    BY DEF Die, Crash, CrashInRemove
  <1>7. CASE UNCHANGED vars
    BY <1>7 DEF vars, DeadConsumed
  <1> QED BY <1>1, <1>2, <1>3, <1>4, <1>5, <1>6, <1>7 DEF Next, Continue

(* One worker that nothing but a failed manifest disturbs: between           *)
(* operations, what restore_last would pick can be restored.                 *)
THEOREM LatestCanBeRestored ==
  ASSUME Serial, Fault \subseteq {"manifest"}
  PROVE  Spec => []LatestRestorable
  <1>1. Fault \cap {"crash", "append"} = {}
    OBVIOUS
  <1>2. Init => DeadConsumed
    BY DEF Init, DeadConsumed
  <1>3. IInv /\ DeadConsumed /\ [Next]_vars => DeadConsumed'
    BY ConsumedNext
  <1>4. IInv /\ LineInv /\ AckInv /\ DeadConsumed => LatestRestorable
    <2> SUFFICES ASSUME IInv, LineInv, DeadConsumed, Quiescent, LatestCommit(log) # NoBatch
                 PROVE  dir[LatestCommit(log)] = "listed"
      BY DEF LatestRestorable
    <2>1. PICK i \in DOMAIN log : IsLatest(log, i) /\ LatestCommit(log) = log[i].batch
      BY DEF LatestCommit
    <2>2. log[i].op = "commit"
      BY <2>1 DEF IsLatest, Candidates
    <2>3. ASSUME NEW j \in DOMAIN log, i < j, log[j].op \in ConsumeOp
          PROVE  log[j].batch # log[i].batch
      <3>1. Readable(log, j)
        BY <2>3, RecordsAreReadable DEF IInv, RecordOp
      <3>2. j \in (i+1)..Len(log)
        BY <2>3 DEF IInv, TypeOK
      <3> QED BY <2>1, <2>3, <3>1, <3>2 DEF IsLatest, Candidates
    <2>4. \A w \in Worker : pc[w] # "line"
      BY DEF Quiescent
    <2> QED BY <2>1, <2>2, <2>3, <2>4 DEF DeadConsumed
  <1>5. Spec => [](IInv /\ LineInv /\ AckInv)
    BY <1>1, LinesAreWhole
  <1> QED BY <1>2, <1>3, <1>4, <1>5, PTL DEF Spec

-----------------------------------------------------------------------------
(* One worker: an emptied graveyard                                          *)

(* Whatever is in the trash is in a batch that is there.                     *)
TrashInv == \A b \in Batch : InTrash(b) # {} => Exists(b)

(* Unless a removal failed, purge_all has still to visit every listed batch. *)
VisitInv ==
  \A w \in Worker, b \in Batch :
    op[w] = "purge_all" /\ ~bad[w] /\ dir[b] = "listed" => b \in scan[w] \cup pend[w]

(* Removing a batch leaves nothing of it in the trash.                       *)
LEMMA RemovedIsEmpty ==
  ASSUME TypeOK, NEW b \in Batch, RemoveWholly(b)
  PROVE  /\ dir'[b] = "gone" /\ InTrash(b)' = {}
         /\ \A c \in Batch \ {b} : dir'[c] = dir[c] /\ InTrash(c)' = InTrash(c)
  BY DEF TypeOK, RemoveWholly, InTrash

(* Removing a part of it leaves it there, and puts nothing into it.          *)
LEMMA PartIsThere ==
  ASSUME TypeOK, NEW b \in Batch, RemovePartly(b)
  PROVE  /\ dir'[b] \in {"listed", "broken"}
         /\ \A c \in Batch \ {b} : dir'[c] = dir[c] /\ InTrash(c)' = InTrash(c)
  BY DEF TypeOK, RemovePartly, InTrash

(* Every step puts items only where there is a batch, and removes only       *)
(* batches it has emptied.                                                   *)
LEMMA TrashNext ==
  ASSUME IInv, TrashInv, [Next]_vars PROVE TrashInv'
  <1>q. ASSUME dir' = dir, place' = place PROVE TrashInv'
    BY <1>q DEF TrashInv, InTrash, Exists
  <1>r. ASSUME NEW b \in Batch, RemoveWholly(b) \/ RemovePartly(b) PROVE TrashInv'
    BY <1>r, RemovedIsEmpty, PartIsThere DEF IInv, TrashInv, Exists
  <1>1. ASSUME NEW w \in Worker, Start(w) PROVE TrashInv'
    <2>1. place' = place /\ \A b \in Batch : Exists(b) => Exists(b)'
      BY <1>1 DEF IInv, TypeOK, Start, CommitBegin, RestoreBegin, PurgeAll, SweepStale,
         SweepBegin, Exists
    <2> QED BY <2>1 DEF TrashInv, InTrash
  <1>2. ASSUME NEW w \in Worker, CommitStep(w) PROVE TrashInv'
    <2>1. cur[w] \in Batch /\ dir[cur[w]] = "open"
      BY <1>2 DEF IInv, LabelInv, FillInv, CommitStep, CommitItem, CommitSkip, WriteManifest,
         WriteManifestFails
    <2>2. \A b \in Batch : Exists(b) => Exists(b)'
      BY <1>2, <2>1 DEF IInv, TypeOK, CommitStep, CommitItem, CommitSkip, WriteManifest,
         WriteManifestFails, Exists
    <2>3. \A b \in Batch : b # cur[w] => InTrash(b)' = InTrash(b)
      BY <1>2, <2>1 DEF IInv, TypeOK, CommitStep, CommitItem, CommitSkip, WriteManifest,
         WriteManifestFails, InTrash
    <2>4. Exists(cur[w])
      BY <2>1 DEF Exists
    <2> QED BY <2>2, <2>3, <2>4 DEF TrashInv
  <1>3. ASSUME NEW w \in Worker, RestoreStep(w) PROVE TrashInv'
    <2>1. cur[w] \in Batch
      BY <1>3 DEF IInv, LabelInv, Sealed, RestoreStep, RestoreRead, RestoreReadFails, RestoreItem,
         RestoreSkip, RestoreClose
    <2>2. ASSUME NEW i \in Item, RestoreItem(w, i) PROVE TrashInv'
      <3>1. dir' = dir /\ \A b \in Batch : InTrash(b)' \subseteq InTrash(b)
        BY <2>1, <2>2 DEF IInv, TypeOK, RestoreItem, InTrash
      <3> QED BY <3>1 DEF TrashInv, Exists
    <2>3. CASE RestoreClose(w)
      BY <1>q, <1>r, <2>1, <2>3 DEF RestoreClose
    <2>4. CASE RestoreRead(w) \/ RestoreReadFails(w) \/ \E i \in Item : RestoreSkip(w, i)
      BY <1>q, <2>4 DEF RestoreRead, RestoreReadFails, RestoreSkip
    <2> QED BY <1>3, <2>2, <2>3, <2>4 DEF RestoreStep
  <1>4. ASSUME NEW w \in Worker, PurgeStep(w) PROVE TrashInv'
    BY <1>q, <1>r, <1>4 DEF PurgeStep, ReadManifest, PurgeBatch, PurgeBatchFails, PurgeReturns
  <1>5. ASSUME NEW w \in Worker, AppendStep(w) PROVE TrashInv'
    BY <1>q, <1>5 DEF AppendStep, WriteLine, WriteNewline, AppendFails
  <1>6. ASSUME NEW w \in Worker, Die(w) PROVE TrashInv'
    BY <1>q, <1>r, <1>6 DEF Die, Crash, CrashInRemove
  <1>7. CASE UNCHANGED vars
    BY <1>q, <1>7 DEF vars
  <1> QED BY <1>1, <1>2, <1>3, <1>4, <1>5, <1>6, <1>7 DEF Next, Continue

(* While one operation runs at a time, no batch becomes listed behind the    *)
(* back of a purge.                                                          *)
LEMMA VisitNext ==
  ASSUME Serial, IInv, VisitInv, [Next]_vars PROVE VisitInv'
  <1>0. ASSUME NEW w \in Worker PROVE \A v \in Worker : v = w
    BY DEF Serial
  <1>q. ASSUME NEW w \in Worker, op'[w] # "purge_all" PROVE VisitInv'
    BY <1>0, <1>q DEF VisitInv
  <1>1. ASSUME NEW w \in Worker, Start(w) PROVE VisitInv'
    <2>1. CASE ~PurgeAll(w)
      <3>1. op'[w] # "purge_all"
        BY <1>1, <2>1 DEF IInv, TypeOK, Start, CommitBegin, RestoreBegin, SweepStale, SweepBegin
      <3> QED BY <1>q, <3>1
    <2>2. CASE PurgeAll(w)
      <3>1. dir' = dir /\ scan'[w] = {b \in Batch : Exists(b)}
        BY <2>2 DEF IInv, TypeOK, PurgeAll, SweepBegin
      <3> QED BY <1>0, <3>1 DEF VisitInv, Exists
    <2> QED BY <2>1, <2>2
  <1>2. ASSUME NEW w \in Worker, CommitStep(w) \/ RestoreStep(w) PROVE VisitInv'
    <2>1. pc[w] \in {"moving", "reading", "restoring"} /\ op[w] \in {"commit", "restore"}
      BY <1>2 DEF IInv, LabelInv, CommitStep, CommitItem, CommitSkip, WriteManifest,
         WriteManifestFails, RestoreStep, RestoreRead, RestoreReadFails, RestoreItem, RestoreSkip,
         RestoreClose
    <2>2. op'[w] # "purge_all"
      BY <1>2, <2>1 DEF IInv, TypeOK, CommitStep, CommitItem, CommitSkip, WriteManifest,
         WriteManifestFails, RestoreStep, RestoreRead, RestoreReadFails, RestoreItem, RestoreSkip,
         RestoreClose, Return, sweepVars
    <2> QED BY <1>q, <2>2
  <1>3. ASSUME NEW w \in Worker, PurgeStep(w) PROVE VisitInv'
    <2>1. ASSUME NEW b \in Batch, ReadManifest(w, b) PROVE VisitInv'
      <3>1. /\ dir' = dir /\ op' = op /\ bad' = bad
            /\ scan'[w] = scan[w] \ {b}
            /\ dir[b] = "listed" => pend'[w] = pend[w] \cup {b}
            /\ dir[b] # "listed" => pend'[w] = pend[w]
        BY <2>1 DEF IInv, TypeOK, ReadManifest, loopVars
      <3> QED BY <1>0, <3>1 DEF VisitInv
    <2>2. ASSUME NEW b \in Batch, PurgeBatch(w, b) PROVE VisitInv'
      <3>1. RemoveWholly(b) /\ op' = op /\ bad' = bad /\ scan' = scan /\ pend'[w] = pend[w] \ {b}
        BY <2>2 DEF IInv, TypeOK, PurgeBatch, loopVars
      <3> QED BY <1>0, <3>1, RemovedIsEmpty DEF IInv, VisitInv
    <2>3. ASSUME NEW b \in Batch, PurgeBatchFails(w, b) PROVE VisitInv'
      <3>1. bad'[w] = TRUE
        BY <2>3 DEF IInv, TypeOK, PurgeBatchFails
      <3> QED BY <1>0, <3>1 DEF VisitInv
    <2>4. CASE PurgeReturns(w)
      BY <1>q, <2>4 DEF IInv, TypeOK, PurgeReturns, Return
    <2> QED BY <1>3, <2>1, <2>2, <2>3, <2>4 DEF PurgeStep
  <1>4. ASSUME NEW w \in Worker, AppendStep(w) PROVE VisitInv'
    <2>1. dir' = dir
      BY <1>4 DEF AppendStep, WriteLine, WriteNewline, AppendFails
    <2>2. op'[w] = "purge_all" => op[w] = "purge_all" /\ bad'[w] = bad[w]
                                  /\ scan'[w] = scan[w] /\ pend'[w] = pend[w]
      BY <1>4 DEF IInv, TypeOK, AppendStep, WriteLine, WriteNewline, AppendFails, AfterAppend,
         Return, loopVars, sweepVars
    <2> QED BY <1>0, <2>1, <2>2 DEF VisitInv
  <1>5. ASSUME NEW w \in Worker, Die(w) PROVE VisitInv'
    <2>1. op'[w] # "purge_all"
      BY <1>5 DEF IInv, TypeOK, Die, Crash, CrashInRemove, Return
    <2> QED BY <1>q, <2>1
  <1>6. CASE UNCHANGED vars
    BY <1>6 DEF vars, VisitInv
  <1> QED BY <1>1, <1>2, <1>3, <1>4, <1>5, <1>6 DEF Next, Continue

(* One operation at a time, whatever fails or crashes: a purge_all that      *)
(* returns without failures leaves only what has no manifest to be found by. *)
THEOREM PurgeAllReachesTheListed ==
  ASSUME Serial
  PROVE  Spec => PurgeAllEmptiesListed
  <1>1. Init => TrashInv /\ VisitInv
    BY DEF Init, TrashInv, VisitInv, InTrash
  <1>2. IInv /\ TrashInv /\ VisitInv /\ [Next]_vars => TrashInv' /\ VisitInv'
    BY TrashNext, VisitNext
  <1>3. IInv /\ TrashInv /\ VisitInv =>
          \A w \in Worker : PurgeReturns(w) /\ op[w] = "purge_all" /\ ~bad[w]
            => \A b \in Batch : InTrash(b) # {} => dir[b] \in {"open", "broken"}
    <2> SUFFICES ASSUME IInv, TrashInv, VisitInv, NEW w \in Worker, PurgeReturns(w),
                        op[w] = "purge_all", ~bad[w], NEW b \in Batch, InTrash(b) # {}
                 PROVE  dir[b] \in {"open", "broken"}
      OBVIOUS
    <2>1. dir[b] # "listed"
      BY DEF VisitInv, PurgeReturns
    <2>2. dir[b] \in Dir /\ dir[b] \notin {"none", "gone"}
      BY DEF IInv, TypeOK, TrashInv, Exists
    <2> QED BY <2>1, <2>2 DEF Dir
  <1> QED BY <1>1, <1>2, <1>3, Invariance, PTL DEF Spec, PurgeAllEmptiesListed
=============================================================================
