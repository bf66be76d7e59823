--------------------------- MODULE PlanCache_proofs ---------------------------
(* A token is committed at most once, no plan is evicted early, and commits  *)
(* count what they moved: for every number of threads, tokens and paths.     *)
EXTENDS PlanCache, TLAPS

(* A thread holds a plan that is not in the cache: it has just built it, or  *)
(* it has taken it and not yet made its batch.                               *)
Holds(t, k) == pc[t] \in {"insert", "begin"} /\ plan[t].token = k

(* A token is unused, or its plan is with one thread, or in the cache, or    *)
(* committed: never at two of these places.                                  *)
OneOwner ==
  /\ \A k \in Token \ used : batches[k] = 0 /\ \A t \in Thread : ~Holds(t, k)
  /\ \A v \in cache : v.token \in used /\ batches[v.token] = 0
                      /\ \A t \in Thread : ~Holds(t, v.token)
  /\ \A t \in Thread, k \in Token : Holds(t, k) =>
       batches[k] = 0 /\ \A u \in Thread : Holds(u, k) => u = t
  /\ \A k \in Token : batches[k] <= 1

(* Times are not ahead of the latest the clock has shown.                    *)
InThePast ==
  /\ clock <= latest
  /\ \A t \in Thread : pc[t] = "insert" => plan[t].created <= latest
  /\ NoPlanIsLost

(* A token's commit runs in one thread, and has moved nothing before it.     *)
OneMover ==
  /\ \A t, u \in Thread :
       pc[t] = "move" /\ pc[u] = "move" /\ plan[t].token = plan[u].token => t = u
  /\ \A t \in Thread : pc[t] = "move" => batches[plan[t].token] # 0
  /\ \A k \in Token : batches[k] = 0 => took[k] = [p \in Path |-> {}]

(* What a commit took with an item is at the item or below it, and nothing   *)
(* is left there.                                                            *)
TookAll ==
  \A k \in Token, p \in Path : took[k][p] # {} =>
    /\ took[k][p] \subseteq All(p)
    /\ changed \/ All(p) \cap there = {}

(* Until somebody changes the files, what a preview saw with an item is all  *)
(* that is there of it, and what a commit has moved since.                   *)
Seen(v) ==
  \A p \in Path : v.bytes[p] # {} =>
    /\ All(p) \cap there \subseteq v.bytes[p]
    /\ \A u \in v.bytes[p] : u \in All(p) /\ (u \in there \/ \E k \in Token : u \in Moved(k))

(* A byte that thread t counted and another commit moved.                    *)
Nested(t, u) ==
  \E p, q \in Path, j \in Token \ {plan[t].token} :
    /\ q \in Below[p] /\ p \in took[plan[t].token][p]
    /\ u \in plan[t].bytes[p] \cap took[j][q]

Counted ==
  ~changed =>
    /\ \A v \in cache : Seen(v)
    /\ \A t \in Thread : pc[t] # "idle" => Seen(plan[t])
    /\ \A t \in Thread : pc[t] = "move" =>
         /\ \A p \in todo[t] : plan[t].bytes[p] # {}
         /\ Moved(plan[t].token) \subseteq bytes_trashed[t]
         /\ \A u \in bytes_trashed[t] \ Moved(plan[t].token) : Nested(t, u)

IInv == TypeOK /\ OneOwner /\ OneMover /\ InThePast /\ TookAll /\ Counted

USE BoundsAssumption, TreeAssumption

(* Two paths that hold something in common lie one below the other.          *)
LEMMA InCommon ==
  ASSUME NEW p \in Path, NEW q \in Path, NEW u, u \in All(p), u \in All(q)
  PROVE  p \in All(q) \/ q \in Below[p]
  BY DEF All

LEMMA InitHolds == Init => IInv
<1> SUFFICES ASSUME Init PROVE IInv
  OBVIOUS
<1> USE DEF Init
<1>1. TypeOK
  <2>1. plan \in [Thread -> Plan \cup {NoPlan}]
    OBVIOUS
  <2>2. \A t \in Thread : pc[t] # "idle" => plan[t] \in Plan
    OBVIOUS
  <2>3. clock \in 0 .. MaxClock /\ latest \in 0 .. MaxClock
    OBVIOUS
  <2>4. took \in [Token -> [Path -> SUBSET Path]]
    OBVIOUS
  <2> HIDE DEF Init
  <2>5. /\ cache = {} /\ used = {} /\ issued = {} /\ taken = {} /\ changed = FALSE
        /\ there \in Disks
        /\ batches \in [Token -> Nat]
        /\ bytes_trashed \in [Thread -> SUBSET Path]
        /\ pc \in [Thread -> {"idle", "insert", "begin", "move"}]
        /\ todo \in [Thread -> SUBSET Path]
        /\ answer \in [Thread -> {"none", "ok", "UnknownToken"}]
    BY DEF Init
  <2> QED
    BY <2>1, <2>2, <2>3, <2>4, <2>5 DEF TypeOK
<1>2. OneOwner /\ OneMover
  BY DEF OneOwner, OneMover, Holds
<1>3. InThePast
  BY DEF InThePast, NoPlanIsLost
<1>4. Counted /\ TookAll
  BY DEF Counted, TookAll
<1> QED
  BY <1>1, <1>2, <1>3, <1>4 DEF IInv

(* A step that moves nothing keeps what is said of the files.                *)
LEMMA FilesStay ==
  ASSUME there' = there, changed' = changed, took' = took, TookAll PROVE
         /\ TookAll' /\ \A v \in Plan : Seen(v)' <=> Seen(v)
         /\ \A k \in Token : Moved(k)' = Moved(k)
  BY DEF TookAll, Seen, Moved

LEMMA PreviewBuildHolds ==
  ASSUME IInv, NEW t \in Thread, NEW k \in Token, NEW P \in SUBSET Path, PreviewBuild(t, k, P)
  PROVE  IInv'
<1> USE DEF IInv
<1> DEFINE v == [token |-> k, created |-> clock,
                 bytes |-> [p \in Path |-> IF p \in P /\ (\A q \in P : p \notin Below[q]) /\ p \in there
                                           THEN All(p) \cap there ELSE {}]]
<1>1. v \in Plan
  BY DEF TypeOK, Plan, All
<1>2. plan' = [plan EXCEPT ![t] = v] /\ pc' = [pc EXCEPT ![t] = "insert"]
  BY DEF PreviewBuild, Goto
<1> HIDE DEF v
<1>3. TypeOK'
  <2>1. plan' \in [Thread -> Plan \cup {NoPlan}] /\ \A u \in Thread : pc'[u] # "idle" => plan'[u] \in Plan
    BY <1>1, <1>2 DEF TypeOK
  <2>2. pc' \in [Thread -> {"idle", "insert", "begin", "move"}] /\ used' \subseteq Token
    BY <1>2 DEF TypeOK, PreviewBuild
  <2> QED
    BY <2>1, <2>2 DEF PreviewBuild, TypeOK, world, counts
<1>4. v.token = k /\ v.created = clock /\ \A p \in Path : v.bytes[p] \in {{}, All(p) \cap there}
  BY DEF v
<1>5. OneOwner'
  BY <1>2, <1>4 DEF PreviewBuild, OneOwner, Holds, TypeOK
<1>6. OneMover'
  BY <1>2 DEF PreviewBuild, OneMover, TypeOK, counts
<1>7. InThePast'
  BY <1>2, <1>4 DEF PreviewBuild, InThePast, NoPlanIsLost, TypeOK, world
<1>8. Seen(v)
  BY <1>4 DEF Seen
<1>9. there' = there /\ changed' = changed /\ took' = took /\ bytes_trashed' = bytes_trashed
      /\ cache' = cache /\ todo' = todo
  BY DEF PreviewBuild, world, counts
<1>10. Counted'
  <2> SUFFICES ASSUME ~changed PROVE Counted'
    BY <1>9 DEF Counted
  <2>1. \A w \in cache' : Seen(w)'
    BY <1>9, FilesStay DEF Counted, TypeOK
  <2>2. \A u \in Thread : pc'[u] # "idle" => Seen(plan[u])'
    BY <1>1, <1>2, <1>8, <1>9, FilesStay DEF Counted, TypeOK, Seen, Moved
  <2>3. \A u \in Thread : pc'[u] = "move" => pc[u] = "move" /\ plan'[u] = plan[u]
    BY <1>2 DEF TypeOK
  <2> QED
    BY <1>9, <2>1, <2>2, <2>3 DEF Counted, Moved, Nested
<1> QED
  BY <1>3, <1>5, <1>6, <1>7, <1>9, <1>10, FilesStay

LEMMA PreviewInsertHolds ==
  ASSUME IInv, NEW t \in Thread, PreviewInsert(t) PROVE IInv'
<1> USE DEF IInv
<1>1. plan[t] \in Plan /\ pc[t] = "insert" /\ Holds(t, plan[t].token)
  BY DEF PreviewInsert, TypeOK, Holds
<1>2. plan[t].token \in Token /\ plan[t].created \in 0 .. MaxClock
  BY <1>1 DEF Plan
<1>3. OfToken(plan[t].token) = {}
  BY <1>1 DEF OneOwner, OfToken
<1>4. /\ pc' = [pc EXCEPT ![t] = "idle"] /\ plan' = [plan EXCEPT ![t] = NoPlan]
      /\ cache' = prune_stale(plan[t].created) \cup {plan[t]}
      /\ issued' = issued \cup {plan[t]}
  BY <1>3 DEF PreviewInsert, Goto
<1>5. TypeOK'
  BY <1>1, <1>4 DEF PreviewInsert, TypeOK, world, counts, prune_stale
<1>6. OneOwner'
  <2>1. plan[t].token \in used
    BY <1>1, <1>2 DEF OneOwner
  <2>2. \A u \in Thread, k \in Token : Holds(u, k)' => Holds(u, k) /\ u # t
    BY <1>4 DEF Holds, TypeOK
  <2>3. \A w \in cache : w.token \in Token
    BY DEF TypeOK, Plan
  <2> QED
    BY <1>1, <1>2, <1>4, <2>1, <2>2, <2>3 DEF PreviewInsert, OneOwner, prune_stale
<1>7. OneMover'
  BY <1>4 DEF PreviewInsert, OneMover, TypeOK, counts
<1>8. InThePast'
  <2>1. NoPlanIsLost'
    <3> SUFFICES ASSUME NEW w \in issued', w \notin cache', w.token \notin taken'
                 PROVE (latest - w.created > PLAN_TTL_SECS)'
      BY DEF NoPlanIsLost
    <3>1. w \in issued /\ w # plan[t]
      BY <1>4
    <3>2. w.created \in Int /\ plan[t].created \in Int /\ latest \in Int
      BY <3>1, <1>2 DEF TypeOK, Plan
    <3>3. latest' = latest /\ taken' = taken
      BY DEF PreviewInsert, world
    <3>4. CASE w \notin cache
      BY <3>1, <3>3, <3>4 DEF InThePast, NoPlanIsLost
    <3>5. CASE w \in cache
      <4>1. ~(plan[t].created - w.created <= PLAN_TTL_SECS)
        BY <3>5, <1>4 DEF prune_stale
      <4>2. plan[t].created <= latest
        BY <1>1 DEF InThePast
      <4> QED
        BY <4>1, <4>2, <3>2, <3>3
    <3> QED
      BY <3>4, <3>5
  <2> QED
    BY <2>1, <1>4 DEF PreviewInsert, InThePast, world, TypeOK
<1>9. there' = there /\ changed' = changed /\ took' = took /\ bytes_trashed' = bytes_trashed
      /\ todo' = todo
  BY DEF PreviewInsert, world, counts
<1>10. Counted'
  <2> SUFFICES ASSUME ~changed PROVE Counted'
    BY <1>9 DEF Counted
  <2>1. \A w \in cache' : w \in Plan /\ Seen(w)
    BY <1>1, <1>4 DEF Counted, TypeOK, prune_stale
  <2>2. \A u \in Thread : pc'[u] # "idle" => pc'[u] = pc[u] /\ plan'[u] = plan[u] /\ plan[u] \in Plan
    BY <1>4 DEF TypeOK
  <2> QED
    BY <1>9, <2>1, <2>2, FilesStay DEF Counted, Moved, Nested
<1> QED
  BY <1>5, <1>6, <1>7, <1>8, <1>9, <1>10, FilesStay

LEMMA CommitTakeHolds ==
  ASSUME IInv, NEW t \in Thread, NEW k \in Token, CommitTake(t, k) PROVE IInv'
<1> USE DEF IInv
<1>1. PICK v \in OfToken(k) : plan' = [plan EXCEPT ![t] = v]
  BY DEF CommitTake
<1>2. v \in cache /\ v.token = k /\ v \in Plan
  BY <1>1 DEF OfToken, TypeOK
<1>3. /\ pc' = [pc EXCEPT ![t] = "begin"] /\ cache' = cache \ OfToken(k)
      /\ pc[t] = "idle"
  BY DEF CommitTake, Goto
<1>4. TypeOK'
  BY <1>1, <1>2, <1>3 DEF CommitTake, TypeOK, world, counts
<1>5. OneOwner'
  <2>1. \A u \in Thread, j \in Token : Holds(u, j)' => Holds(u, j) \/ (u = t /\ j = k)
    BY <1>1, <1>2, <1>3 DEF Holds, TypeOK
  <2>2. k \in used /\ batches[k] = 0 /\ \A u \in Thread : ~Holds(u, k)
    BY <1>2 DEF OneOwner
  <2>3. \A w \in cache' : w \in cache /\ w.token # k /\ w.token \in Token
    BY <1>3 DEF OfToken, TypeOK, Plan
  <2> QED
    BY <1>3, <2>1, <2>2, <2>3 DEF CommitTake, OneOwner
<1>6. OneMover'
  BY <1>1, <1>3 DEF CommitTake, OneMover, TypeOK, counts
<1>7. InThePast'
  BY <1>1, <1>3 DEF CommitTake, InThePast, NoPlanIsLost, OfToken, TypeOK, world
<1>8. there' = there /\ changed' = changed /\ took' = took /\ bytes_trashed' = bytes_trashed
      /\ todo' = todo
  BY DEF CommitTake, world, counts
<1>9. Counted'
  <2> SUFFICES ASSUME ~changed PROVE Counted'
    BY <1>8 DEF Counted
  <2>1. \A w \in cache' : w \in Plan /\ Seen(w)
    BY <1>3 DEF Counted, TypeOK
  <2>2. \A u \in Thread : pc'[u] # "idle" => plan'[u] \in Plan /\ Seen(plan'[u])
    BY <1>1, <1>2, <1>3 DEF Counted, TypeOK
  <2>3. \A u \in Thread : pc'[u] = "move" => pc[u] = "move" /\ plan'[u] = plan[u]
    BY <1>1, <1>3 DEF TypeOK
  <2> QED
    BY <1>8, <2>1, <2>2, <2>3, FilesStay DEF Counted, Moved, Nested
<1> QED
  BY <1>4, <1>5, <1>6, <1>7, <1>8, <1>9, FilesStay

LEMMA CommitBeginHolds ==
  ASSUME IInv, NEW t \in Thread, CommitBegin(t) PROVE IInv'
<1> USE DEF IInv
<1>k. PICK k \in Token : k = plan[t].token
  BY DEF CommitBegin, CommitItem, TypeOK, Plan
<1>1. plan[t] \in Plan /\ k \in Token /\ Holds(t, k)
  BY <1>k DEF CommitBegin, TypeOK, Holds, Plan
<1>2. /\ pc' = [pc EXCEPT ![t] = "move"] /\ batches' = [batches EXCEPT ![k] = @ + 1]
      /\ todo' = [todo EXCEPT ![t] = {p \in Path : plan[t].bytes[p] # {}}]
      /\ bytes_trashed' = [bytes_trashed EXCEPT ![t] = {}]
  BY <1>k DEF CommitBegin, Goto
<1>3. there' = there /\ changed' = changed /\ took' = took /\ plan' = plan /\ cache' = cache
  BY DEF CommitBegin, world
<1>4. took[k] = [p \in Path |-> {}] /\ batches[k] = 0
  BY <1>k, <1>1 DEF OneOwner, OneMover
<1>5. TypeOK'
  BY <1>k, <1>1, <1>2 DEF CommitBegin, TypeOK, world
<1>6. OneOwner'
  <2>1. batches[k] = 0 /\ \A u \in Thread : Holds(u, k) => u = t
    BY <1>k, <1>1 DEF OneOwner
  <2>2. \A u \in Thread, j \in Token : Holds(u, j)' => Holds(u, j) /\ u # t
    BY <1>k, <1>2 DEF CommitBegin, Holds, TypeOK
  <2>3. batches'[k] = 1 /\ \A j \in Token \ {k} : batches'[j] = batches[j]
    BY <1>k, <1>1, <1>2, <2>1 DEF TypeOK
  <2>4. \A w \in cache : w.token # k /\ w.token \in Token
    BY <1>k, <1>1 DEF OneOwner, TypeOK, Plan
  <2>5. k \in used
    BY <1>k, <1>1 DEF OneOwner
  <2> QED
    BY <2>1, <2>2, <2>3, <2>4, <2>5 DEF CommitBegin, OneOwner
<1>7. OneMover'
  <2>1. \A u \in Thread : pc[u] = "move" => plan[u].token # k
    BY <1>k, <1>1, <1>4 DEF OneMover
  <2>2. \A u \in Thread : pc'[u] = "move" <=> u = t \/ pc[u] = "move"
    BY <1>k, <1>2 DEF TypeOK
  <2>3. \A u \in Thread : pc[u] = "move" => plan[u].token \in Token
    BY DEF TypeOK, Plan
  <2>4. \A j \in Token : batches'[j] = IF j = k THEN batches[j] + 1 ELSE batches[j]
    BY <1>k, <1>2 DEF TypeOK
  <2>5. \A j \in Token : batches[j] \in Nat
    BY DEF TypeOK
  <2>6. \A j \in Token : batches'[j] = 0 => batches[j] = 0
    BY <2>4, <2>5
  <2>7. \A u \in Thread : pc'[u] = "move" => batches'[plan'[u].token] # 0
    BY <1>k, <1>1, <1>3, <2>2, <2>3, <2>4, <2>5 DEF OneMover
  <2>8. \A u, w \in Thread :
          pc'[u] = "move" /\ pc'[w] = "move" /\ plan'[u].token = plan'[w].token => u = w
    BY <1>k, <1>3, <2>1, <2>2 DEF OneMover
  <2> QED
    BY <1>3, <2>6, <2>7, <2>8 DEF OneMover
<1>8. InThePast'
  BY <1>k, <1>2 DEF CommitBegin, InThePast, NoPlanIsLost, TypeOK, world
<1>9. Counted'
  <2> SUFFICES ASSUME ~changed PROVE Counted'
    BY <1>3 DEF Counted
  <2>1. \A v \in cache' : Seen(v)'
    BY <1>3, FilesStay DEF Counted, TypeOK
  <2>2. \A u \in Thread : pc'[u] # "idle" => Seen(plan[u])'
    <3>1. \A u \in Thread : pc'[u] # "idle" => plan[u] \in Plan /\ Seen(plan[u])
      BY <1>k, <1>1, <1>2 DEF Counted, TypeOK, CommitBegin
    <3> QED
      BY <1>3, <3>1, FilesStay
  <2>3. Moved(k) = {}
    BY <1>4 DEF Moved
  <2>4. ASSUME NEW u \in Thread, pc'[u] = "move"
        PROVE  /\ \A p \in todo'[u] : plan'[u].bytes[p] # {}
               /\ Moved(plan[u].token)' \subseteq bytes_trashed'[u]
               /\ \A x \in bytes_trashed'[u] \ Moved(plan[u].token)' : Nested(u, x)'
    <3>1. CASE u = t
      <4>1. bytes_trashed'[u] = {} /\ todo'[u] = {p \in Path : plan[u].bytes[p] # {}}
        BY <1>k, <1>2, <3>1 DEF TypeOK
      <4> QED
        BY <1>k, <1>3, <2>3, <3>1, <4>1 DEF Moved
    <3>2. CASE u # t
      <4>1. /\ pc[u] = "move" /\ bytes_trashed'[u] = bytes_trashed[u] /\ todo'[u] = todo[u]
        BY <1>k, <1>2, <2>4, <3>2 DEF TypeOK
      <4>2. \A x : Nested(u, x) <=> Nested(u, x)'
        BY <1>3 DEF Nested
      <4>3. Moved(plan[u].token)' = Moved(plan[u].token)
        BY <1>3 DEF Moved
      <4> QED
        BY <1>3, <4>1, <4>2, <4>3 DEF Counted
    <3> QED
      BY <3>1, <3>2
  <2> QED
    BY <2>1, <2>2, <2>4 DEF Counted
<1> QED
  BY <1>3, <1>5, <1>6, <1>7, <1>8, <1>9, FilesStay

(* One item: what it takes with it, what is counted, and what other commits  *)
(* took from below it before.                                                *)
LEMMA CommitItemHolds ==
  ASSUME IInv, NEW t \in Thread, NEW p \in Path, CommitItem(t, p) PROVE IInv'
<1> USE DEF IInv
<1>k. PICK k \in Token : k = plan[t].token
  BY DEF CommitBegin, CommitItem, TypeOK, Plan
<1>1. plan[t] \in Plan /\ k \in Token /\ pc[t] = "move" /\ p \in todo[t] /\ p \in there
  BY DEF CommitItem, TypeOK, Plan
<1>2. /\ there' = there \ All(p) /\ changed' = changed /\ cache' = cache /\ pc' = pc /\ plan' = plan
      /\ batches' = batches /\ used' = used
      /\ todo' = [todo EXCEPT ![t] = @ \ {p}]
      /\ bytes_trashed' = [bytes_trashed EXCEPT ![t] = @ \cup plan[t].bytes[p]]
      /\ took' = [took EXCEPT ![k][p] = All(p) \cap there]
  BY <1>k DEF CommitItem
<1>3. /\ \A j \in Token, q \in Path :
           took'[j][q] = IF j = k /\ q = p THEN All(p) \cap there ELSE took[j][q]
      /\ took' \in [Token -> [Path -> SUBSET Path]]
  <2>1. All(p) \cap there \in SUBSET Path
    BY DEF TypeOK, Disks
  <2> QED
    BY <1>k, <1>1, <1>2, <2>1 DEF TypeOK
<1>4. there' \in Disks
  <2> SUFFICES ASSUME NEW q \in Path, Below[q] \cap there' # {} PROVE q \in there'
    BY <1>k, <1>2 DEF TypeOK, Disks
  <2>1. PICK x : x \in Below[q] /\ x \in there /\ x \notin All(p)
    BY <1>2
  <2>2. q \in there
    BY <2>1 DEF TypeOK, Disks
  <2>3. q \notin All(p)
    BY <2>1 DEF All
  <2> QED
    BY <1>k, <1>2, <2>2, <2>3
<1>5. TypeOK'
  <2>1. plan[t].bytes[p] \in SUBSET Path
    BY <1>k, <1>1 DEF Plan
  <2> QED
    BY <1>k, <1>2, <1>3, <1>4, <2>1 DEF CommitItem, TypeOK
<1>6. OneOwner' /\ InThePast'
  BY DEF CommitItem, OneOwner, Holds, InThePast, NoPlanIsLost
<1>7. batches[k] # 0
  BY <1>k, <1>1 DEF OneMover
<1>8. OneMover'
  <2>1. \A j \in Token : batches[j] = 0 => took'[j] = took[j]
    <3>1. \A j \in Token : j # k => took'[j] = took[j]
      BY <1>k, <1>1, <1>2 DEF TypeOK
    <3> QED
      BY <1>7, <3>1
  <2> QED
    BY <1>k, <1>2, <2>1 DEF OneMover
(* Nothing was taken with p before, since it is there.                       *)
<1>9. \A j \in Token, q \in Path : (~changed /\ took[j][q] # {}) => p \notin All(q)
  BY <1>k, <1>1 DEF TookAll
<1>10. TookAll'
  BY <1>k, <1>2, <1>3 DEF TookAll
<1>11. Counted'
  <2> SUFFICES ASSUME ~changed PROVE Counted'
    BY <1>k, <1>2 DEF Counted
  <2>1. \A j \in Token, q \in Path : took[j][q] \subseteq took'[j][q]
    <3>1. took[k][p] = {}
      BY <1>k, <1>1, <1>9 DEF All
    <3> QED
      BY <1>3, <3>1
  <2>2. \A j \in Token : Moved(j) \subseteq Moved(j)'
    BY <2>1 DEF Moved
  <2>3. All(p) \cap there \subseteq Moved(k)'
    BY <1>k, <1>1, <1>3 DEF Moved
  <2>4. \A v \in Plan : Seen(v) => Seen(v)'
    BY <1>k, <1>1, <1>2, <2>2, <2>3 DEF Seen
  <2>5. \A v \in cache' : Seen(v)'
    BY <1>k, <1>2, <2>4 DEF Counted, TypeOK
  <2>6. \A u \in Thread : pc'[u] # "idle" => Seen(plan[u])'
    BY <1>k, <1>2, <2>4 DEF Counted, TypeOK
  <2>7. \A u \in Thread : \A x : Nested(u, x) => Nested(u, x)'
    <3> SUFFICES ASSUME NEW u \in Thread, NEW x, Nested(u, x) PROVE Nested(u, x)'
      OBVIOUS
    <3>1. PICK a, q \in Path, j \in Token \ {plan[u].token} :
            q \in Below[a] /\ a \in took[plan[u].token][a] /\ x \in plan[u].bytes[a] \cap took[j][q]
      BY DEF Nested
    <3>2. plan[u].token \in Token \/ took[plan[u].token][a] \subseteq took'[plan[u].token][a]
      BY <1>2
    <3>3. CASE plan[u].token \in Token
      <4>1. a \in took'[plan[u].token][a] /\ x \in took'[j][q]
        BY <2>1, <3>1, <3>3
      <4> QED
        BY <1>k, <1>2, <3>1, <4>1 DEF Nested
    <3>4. CASE plan[u].token \notin Token
      <4>1. took'[plan[u].token] = took[plan[u].token]
        BY <1>k, <1>2, <3>4 DEF TypeOK
      <4> QED
        BY <1>k, <1>2, <2>1, <3>1, <4>1 DEF Nested
    <3> QED
      BY <3>3, <3>4
  <2>8. ASSUME NEW u \in Thread, pc[u] = "move", u # t
        PROVE  /\ Moved(plan[u].token)' \subseteq bytes_trashed'[u]
               /\ \A x \in bytes_trashed'[u] \ Moved(plan[u].token)' : Nested(u, x)'
    <3>1. plan[u].token \in Token /\ plan[u].token # k
      BY <1>k, <1>1, <2>8 DEF OneMover, TypeOK, Plan
    <3>2. Moved(plan[u].token)' = Moved(plan[u].token) /\ bytes_trashed'[u] = bytes_trashed[u]
      BY <1>k, <1>2, <1>3, <2>8, <3>1 DEF Moved, TypeOK
    <3>3. /\ Moved(plan[u].token) \subseteq bytes_trashed[u]
          /\ \A x \in bytes_trashed[u] \ Moved(plan[u].token) : Nested(u, x)
      BY <2>8 DEF Counted
    <3>4. Moved(plan[u].token)' = Moved(plan[u].token)
      BY <1>k, <1>2, <3>2 DEF Moved
    <3> QED
      BY <2>7, <3>2, <3>3, <3>4
  <2>9. plan[t].bytes[p] # {} /\ All(p) \cap there \subseteq plan[t].bytes[p]
    BY <1>k, <1>1 DEF Counted, Seen
  <2>10. Moved(k)' = Moved(k) \cup (All(p) \cap there)
    <3>1. \A x : x \in Moved(k)' <=> \E q \in Path : x \in took'[k][q]
      BY DEF Moved
    <3>2. \A x : x \in Moved(k) <=> \E q \in Path : x \in took[k][q]
      BY DEF Moved
    <3> QED
      BY <1>k, <1>1, <1>3, <2>1, <3>1, <3>2
  <2>11. bytes_trashed'[t] = bytes_trashed[t] \cup plan[t].bytes[p]
    BY <1>k, <1>2 DEF TypeOK
  <2>12. /\ Moved(k) \subseteq bytes_trashed[t]
         /\ \A x \in bytes_trashed[t] \ Moved(k) : Nested(t, x)
    BY <1>k, <1>1 DEF Counted
  <2>13. ASSUME NEW x \in plan[t].bytes[p], x \notin Moved(k)' PROVE Nested(t, x)'
    <3>1. x \in All(p) /\ x \notin there
      BY <1>k, <1>1, <2>9, <2>10, <2>13 DEF Counted, Seen
    <3>2. PICK j \in Token : x \in Moved(j)
      BY <1>k, <1>1, <2>9, <2>13, <3>1 DEF Counted, Seen
    <3>3. j # k
      BY <2>10, <2>13, <3>2
    <3>4. PICK q \in Path : x \in took[j][q]
      BY <3>2 DEF Moved
    <3>5. x \in All(q) /\ p \notin All(q)
      BY <1>9, <3>4 DEF TookAll
    <3>6. q \in Below[p]
      BY <3>1, <3>5, InCommon
    <3>7. p \in took'[k][p] /\ x \in took'[j][q]
      BY <1>k, <1>1, <1>3, <2>1, <3>4 DEF All
    <3> QED
      BY <1>k, <1>2, <2>13, <3>3, <3>6, <3>7 DEF Nested
  <2>14. ASSUME NEW u \in Thread, pc'[u] = "move"
         PROVE  /\ \A q \in todo'[u] : plan'[u].bytes[q] # {}
                /\ Moved(plan[u].token)' \subseteq bytes_trashed'[u]
                /\ \A x \in bytes_trashed'[u] \ Moved(plan[u].token)' : Nested(u, x)'
    <3>1. \A q \in todo'[u] : plan'[u].bytes[q] # {}
      <4>1. todo'[u] \subseteq todo[u]
        BY <1>2 DEF TypeOK
      <4> QED
        BY <1>2, <2>14, <4>1 DEF Counted
    <3>2. CASE u = t
      <4>1. Moved(plan[u].token)' = Moved(k)'
        BY <1>k, <1>2, <3>2 DEF Moved
      <4>2. Moved(k)' \subseteq bytes_trashed'[t]
        BY <2>9, <2>10, <2>11, <2>12
      <4>3. \A x \in bytes_trashed'[t] \ Moved(k)' : Nested(t, x)'
        BY <2>2, <1>1, <2>7, <2>11, <2>12, <2>13
      <4> QED
        BY <3>1, <3>2, <4>1, <4>2, <4>3
    <3>3. CASE u # t
      BY <1>k, <1>2, <2>8, <2>14, <3>1, <3>3
    <3> QED
      BY <3>2, <3>3
  <2> QED
    BY <2>5, <2>6, <2>14 DEF Counted
<1> QED
  BY <1>5, <1>6, <1>8, <1>10, <1>11

LEMMA CommitEndsHolds ==
  ASSUME IInv, NEW t \in Thread,
         \/ CommitReturns(t)
         \/ \E k \in Token : CommitUnknown(t, k)
         \/ \E p \in Path : CommitItemFails(t, p)
  PROVE  IInv'
<1> USE DEF IInv
<1>1. /\ there' = there /\ changed' = changed /\ took' = took /\ bytes_trashed' = bytes_trashed
      /\ cache' = cache /\ used' = used /\ batches' = batches /\ issued' = issued /\ taken' = taken
      /\ clock' = clock /\ latest' = latest
      /\ \A u \in Thread : /\ todo'[u] \subseteq todo[u]
                           /\ \/ pc'[u] = "idle"
                              \/ pc'[u] = pc[u] /\ plan'[u] = plan[u]
  BY DEF CommitReturns, CommitUnknown, CommitItemFails, Goto, world, counts, TypeOK
<1>2. TypeOK'
  <2>1. CASE CommitReturns(t)
    BY <2>1 DEF CommitReturns, Goto, TypeOK, world, counts
  <2>2. CASE \E k \in Token : CommitUnknown(t, k)
    BY <2>2 DEF CommitUnknown, TypeOK, world, counts
  <2>3. CASE \E p \in Path : CommitItemFails(t, p)
    BY <2>3 DEF CommitItemFails, TypeOK, world, counts
  <2> QED
    BY <2>1, <2>2, <2>3
<1>3. OneOwner' /\ OneMover'
  <2>1. \A u \in Thread : \A k : Holds(u, k)' => Holds(u, k)
    BY <1>1 DEF Holds
  <2>2. OneOwner'
    BY <1>1, <2>1 DEF OneOwner
  <2>3. OneMover'
    <3>1. \A u \in Thread : pc'[u] = "move" => pc[u] = "move" /\ plan'[u] = plan[u]
      BY <1>1
    <3>2. took' = took /\ batches' = batches
      BY <1>1
    <3> QED
      BY <3>1, <3>2 DEF OneMover
  <2> QED
    BY <2>2, <2>3
<1>4. InThePast'
  BY <1>1 DEF InThePast, NoPlanIsLost
<1>5. Counted'
  <2> SUFFICES ASSUME ~changed PROVE Counted'
    BY <1>1 DEF Counted
  <2>1. \A v \in cache' : Seen(v)'
    BY <1>1, FilesStay DEF Counted, TypeOK
  <2>2. \A u \in Thread : pc'[u] # "idle" => Seen(plan[u])'
    BY <1>1, FilesStay DEF Counted, TypeOK
  <2> QED
    BY <1>1, <2>1, <2>2 DEF Counted, Moved, Nested
<1> QED
  BY <1>1, <1>2, <1>3, <1>4, <1>5, FilesStay

LEMMA WorldHolds ==
  ASSUME IInv, Tick \/ Restart \/ Change PROVE IInv'
<1> USE DEF IInv
<1>1. CASE Tick
  <2>1. latest <= latest' /\ clock' <= latest' /\ latest' \in 0 .. MaxClock
    BY <1>1 DEF Tick, TypeOK
  <2>2. TypeOK' /\ OneOwner' /\ OneMover'
    BY <1>1, <2>1 DEF Tick, TypeOK, OneOwner, OneMover, Holds, counts
  <2>3. Counted' /\ TookAll'
    BY <1>1 DEF Tick, Counted, TookAll, Seen, Moved, Nested, counts
  <2>4. NoPlanIsLost'
    <3> SUFFICES ASSUME NEW w \in issued, w \notin cache, w.token \notin taken
                 PROVE latest' - w.created > PLAN_TTL_SECS
      BY <1>1 DEF Tick, NoPlanIsLost
    <3>1. latest - w.created > PLAN_TTL_SECS /\ w.created \in Int
      BY DEF InThePast, NoPlanIsLost, TypeOK, Plan
    <3> QED
      BY <2>1, <3>1 DEF TypeOK
  <2>5. \A t \in Thread : pc[t] = "insert" => plan[t].created <= latest'
    BY <2>1 DEF InThePast, TypeOK, Plan
  <2> QED
    BY <1>1, <2>1, <2>2, <2>3, <2>4, <2>5 DEF Tick, InThePast
<1>2. CASE Restart
  BY <1>2 DEF Restart, TypeOK, OneOwner, OneMover, Holds, InThePast, NoPlanIsLost, Counted, TookAll,
     world
<1>3. CASE Change
  BY <1>3 DEF Change, TypeOK, OneOwner, OneMover, Holds, InThePast, NoPlanIsLost, Counted, TookAll,
     counts
<1> QED
  BY <1>1, <1>2, <1>3

LEMMA Invariance == IInv /\ [Next]_vars => IInv'
<1> SUFFICES ASSUME IInv, [Next]_vars PROVE IInv'
  OBVIOUS
<1>1. CASE UNCHANGED vars
  <2>1. TypeOK' /\ InThePast' /\ OneMover'
    BY <1>1 DEF vars, IInv, TypeOK, InThePast, NoPlanIsLost, OneMover
  <2>2. OneOwner'
    BY <1>1 DEF vars, IInv, OneOwner, Holds
  <2>3. Counted' /\ TookAll'
    BY <1>1 DEF vars, IInv, Counted, TookAll, Seen, Moved, Nested
  <2> QED
    BY <2>1, <2>2, <2>3 DEF IInv
<1>2. ASSUME NEW t \in Thread, Step(t) PROVE IInv'
  BY <1>2, PreviewBuildHolds, PreviewInsertHolds, CommitTakeHolds, CommitBeginHolds,
     CommitItemHolds, CommitEndsHolds DEF Step
<1> QED
  BY <1>1, <1>2, WorldHolds DEF Next

(* Every variable of PlanCache keeps its type.                               *)
THEOREM PlanTyping == Spec => []TypeOK
  BY InitHolds, Invariance, PTL DEF Spec, IInv

(* Racing commits of one token make one batch at most (Cleaner::commit).     *)
THEOREM TokensCommitOnce == Spec => []CommitsOnce
<1>1. IInv => CommitsOnce
  BY DEF IInv, OneOwner, CommitsOnce
<1> QED
  BY <1>1, InitHolds, Invariance, PTL DEF Spec

(* Racing previews and a clock set back evict no plan before its time        *)
(* (prune_stale).                                                            *)
THEOREM PlansStay == Spec => []NoPlanIsLost
<1>1. IInv => NoPlanIsLost
  BY DEF IInv, InThePast
<1> QED
  BY <1>1, InitHolds, Invariance, PTL DEF Spec

(* While nobody else changes the files, a commit reports every byte it       *)
(* moved, and beyond those only what other commits took from below its items *)
(* (graveyard::commit).                                                      *)
THEOREM BytesAddUp == Spec => []BytesAreMoved
<1>1. IInv => BytesAreMoved
  BY DEF IInv, Counted, Nested, BytesAreMoved
<1> QED
  BY <1>1, InitHolds, Invariance, PTL DEF Spec
=============================================================================
