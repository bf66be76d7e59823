------------------------------ MODULE PlanCache ------------------------------
(* Previews and commits by token: Cleaner::preview and Cleaner::commit of    *)
(* cleaner/mod.rs with prune_stale of plan.rs and the byte counting of       *)
(* graveyard::commit.  The lock on the plans is not held across file system  *)
(* calls, so that previews, commits, the clock and the owner of the files    *)
(* interleave between building a plan, inserting it, taking it out again and *)
(* moving its items.                                                         *)
EXTENDS Integers

CONSTANTS Thread, Token, Path,
          Below,     \* what is below each path
          PLAN_TTL_SECS,
          MaxClock   \* bound: the last second of the wall clock

ASSUME BoundsAssumption == PLAN_TTL_SECS \in Nat /\ MaxClock \in Nat

(* Paths form a tree: two of them hold something in common only when one is  *)
(* below the other.                                                          *)
ASSUME TreeAssumption ==
  /\ Below \in [Path -> SUBSET Path]
  /\ \A p \in Path : p \notin Below[p] /\ \A q \in Below[p] : Below[q] \subseteq Below[p]
  /\ \A p, q \in Path : \/ p = q \/ p \in Below[q] \/ q \in Below[p]
                        \/ Below[p] \cap Below[q] = {}

VARIABLES
  clock,    \* now_unix()
  there,    \* the paths where something is
  cache,    \* Cleaner::plans, at most one plan of each token
  pc,       \* what each thread does next
  plan,     \* the plan it builds or commits
  todo,     \* items graveyard::commit has still to visit
  bytes_trashed,  \* what it has counted so far
  answer,   \* what its last commit returned
  latest,   \* history: the latest time the clock has shown
  took,     \* history: what the commit of each token moved with each item
  changed,  \* history: somebody else has changed the files
  used,     \* history: tokens handed out by new_token
  issued,   \* history: the plans preview returned since the process started
  taken,    \* history: tokens whose plan a commit took
  batches   \* history: how many batches each token has made

vars == <<clock, there, cache, pc, plan, todo, bytes_trashed, answer, latest, took,
          changed, used, issued, taken, batches>>
world == <<clock, latest, there, changed>>
counts == <<bytes_trashed, took>>

(* The bytes of a path are told apart by where they are: at the path itself  *)
(* or at one below it.  The items of a plan have none in common, so that a   *)
(* sum over them is the union.                                               *)
All(p) == {p} \cup Below[p]

Plan == [token : Token, created : 0 .. MaxClock, bytes : [Path -> SUBSET Path]]

(* Whatever is there is in a folder that is there.                           *)
Disks == {s \in SUBSET Path : \A p \in Path : Below[p] \cap s # {} => p \in s}

NoPlan == [token |-> "none"]

TypeOK ==
  /\ clock \in 0 .. MaxClock /\ latest \in 0 .. MaxClock
  /\ there \in Disks
  /\ cache \subseteq Plan
  /\ pc \in [Thread -> {"idle", "insert", "begin", "move"}]
  /\ plan \in [Thread -> Plan \cup {NoPlan}]
  /\ \A t \in Thread : pc[t] # "idle" => plan[t] \in Plan
  /\ todo \in [Thread -> SUBSET Path]
  /\ bytes_trashed \in [Thread -> SUBSET Path]
  /\ took \in [Token -> [Path -> SUBSET Path]]
  /\ answer \in [Thread -> {"none", "ok", "UnknownToken"}]
  /\ changed \in BOOLEAN
  /\ issued \subseteq Plan /\ used \subseteq Token /\ taken \subseteq Token
  /\ batches \in [Token -> Nat]

Init ==
  /\ clock = 0 /\ latest = 0
  /\ there \in Disks
  /\ cache = {}
  /\ pc = [t \in Thread |-> "idle"]
  /\ plan = [t \in Thread |-> NoPlan]
  /\ todo = [t \in Thread |-> {}]
  /\ bytes_trashed = [t \in Thread |-> {}]
  /\ took = [k \in Token |-> [p \in Path |-> {}]]
  /\ answer = [t \in Thread |-> "none"]
  /\ changed = FALSE
  /\ used = {} /\ issued = {} /\ taken = {}
  /\ batches = [k \in Token |-> 0]

OfToken(k) == {v \in cache : v.token = k}

Issued(k) == \E v \in issued : v.token = k

Goto(t, label) == pc' = [pc EXCEPT ![t] = label]

-----------------------------------------------------------------------------
(* preview                                                                   *)

(* build_plan: sizes are read from the disk, then the token and the time.    *)
(* A path with nothing there is listed as protected, with no bytes; one      *)
(* below another path of the request is covered by that one's item.          *)
PreviewBuild(t, k, P) ==
  /\ pc[t] = "idle"
  /\ k \notin used
  /\ plan' = [plan EXCEPT ![t] =
       [token |-> k, created |-> clock,
        bytes |-> [p \in Path |-> IF p \in P /\ (\A q \in P : p \notin Below[q]) /\ p \in there
                                   THEN All(p) \cap there ELSE {}]]]
  /\ used' = used \cup {k}
  /\ Goto(t, "insert")
  /\ UNCHANGED <<world, cache, todo, counts, answer, issued, taken, batches>>

(* Mutant: a plan expires when it reaches its age limit.                     *)
StrictPrune(now) == {v \in cache : now - v.created < PLAN_TTL_SECS}

prune_stale(now) == {v \in cache : now - v.created <= PLAN_TTL_SECS}

(* Under the lock, with the time the plan was built at.                      *)
PreviewInsert(t) ==
  /\ pc[t] = "insert"
  /\ cache' = (prune_stale(plan[t].created) \ OfToken(plan[t].token)) \cup {plan[t]}
  /\ issued' = issued \cup {plan[t]}
  /\ Goto(t, "idle")
  /\ plan' = [plan EXCEPT ![t] = NoPlan]
  /\ UNCHANGED <<world, todo, counts, answer, used, taken, batches>>

-----------------------------------------------------------------------------
(* commit                                                                    *)

(* Mutant: the plan stays in the cache while it is committed.                *)
PeekCommit(t, k) ==
  /\ pc[t] = "idle" /\ Issued(k)
  /\ \E v \in OfToken(k) : plan' = [plan EXCEPT ![t] = v]
  /\ taken' = taken \cup {k}
  /\ Goto(t, "begin")
  /\ UNCHANGED <<world, cache, todo, counts, answer, used, issued, batches>>

CommitTake(t, k) ==
  /\ pc[t] = "idle" /\ Issued(k)
  /\ \E v \in OfToken(k) : plan' = [plan EXCEPT ![t] = v]
  /\ cache' = cache \ OfToken(k)
  /\ taken' = taken \cup {k}
  /\ Goto(t, "begin")
  /\ UNCHANGED <<world, todo, counts, answer, used, issued, batches>>

CommitUnknown(t, k) ==
  /\ pc[t] = "idle" /\ Issued(k)
  /\ OfToken(k) = {}
  /\ answer' = [answer EXCEPT ![t] = "UnknownToken"]
  /\ UNCHANGED <<world, cache, pc, plan, todo, counts, used, issued, taken, batches>>

(* graveyard::commit makes a batch and goes through the items not protected. *)
CommitBegin(t) ==
  /\ pc[t] = "begin"
  /\ batches' = [batches EXCEPT ![plan[t].token] = @ + 1]
  /\ todo' = [todo EXCEPT ![t] = {p \in Path : plan[t].bytes[p] # {}}]
  /\ bytes_trashed' = [bytes_trashed EXCEPT ![t] = {}]
  /\ Goto(t, "move")
  /\ UNCHANGED <<world, cache, plan, took, answer, used, issued, taken>>

(* Mutant: an item is counted before its move can fail.                      *)
CountingItem(t, p) ==
  /\ pc[t] = "move" /\ p \in todo[t]
  /\ todo' = [todo EXCEPT ![t] = @ \ {p}]
  /\ there' = there \ All(p)
  /\ bytes_trashed' = [bytes_trashed EXCEPT ![t] = @ \cup plan[t].bytes[p]]
  /\ took' = [took EXCEPT ![plan[t].token][p] = All(p) \cap there]
  /\ UNCHANGED <<clock, latest, changed, cache, pc, plan, answer, used, issued, taken, batches>>

(* All that is there now is moved; what the plan says is counted.            *)
CommitItem(t, p) ==
  /\ pc[t] = "move" /\ p \in todo[t]
  /\ p \in there
  /\ todo' = [todo EXCEPT ![t] = @ \ {p}]
  /\ there' = there \ All(p)
  /\ bytes_trashed' = [bytes_trashed EXCEPT ![t] = @ \cup plan[t].bytes[p]]
  /\ took' = [took EXCEPT ![plan[t].token][p] = All(p) \cap there]
  /\ UNCHANGED <<clock, latest, changed, cache, pc, plan, answer, used, issued, taken, batches>>

(* The item is gone, or its slot or its move fails: it is listed as failed.  *)
CommitItemFails(t, p) ==
  /\ pc[t] = "move" /\ p \in todo[t]
  /\ todo' = [todo EXCEPT ![t] = @ \ {p}]
  /\ UNCHANGED <<world, cache, pc, plan, counts, answer, used, issued, taken, batches>>

CommitReturns(t) ==
  /\ pc[t] = "move" /\ todo[t] = {}
  /\ answer' = [answer EXCEPT ![t] = "ok"]
  /\ Goto(t, "idle")
  /\ plan' = [plan EXCEPT ![t] = NoPlan]
  /\ UNCHANGED <<world, cache, todo, counts, used, issued, taken, batches>>

-----------------------------------------------------------------------------
(* The rest of the world: the wall clock, which may be set back, and the     *)
(* owner of the files, who changes them or has a batch restored.  A process  *)
(* that starts anew starts with an empty cache, and tokens *)
(* carry the process id and a counter.                                       *)

Tick ==
  /\ clock' \in 0 .. MaxClock
  /\ clock' = clock + 1 \/ clock' < clock
  /\ latest' = IF clock' > latest THEN clock' ELSE latest
  /\ UNCHANGED <<there, changed, cache, pc, plan, todo, counts, answer, used, issued, taken, batches>>

Change ==
  /\ there' \in Disks \ {there}
  /\ changed' = TRUE
  /\ UNCHANGED <<clock, latest, cache, pc, plan, todo, counts, answer, used, issued, taken, batches>>

Restart ==
  /\ cache' = {} /\ issued' = {}
  /\ pc' = [t \in Thread |-> "idle"]
  /\ plan' = [t \in Thread |-> NoPlan]
  /\ todo' = [t \in Thread |-> {}]
  /\ answer' = [t \in Thread |-> "none"]
  /\ bytes_trashed' = [t \in Thread |-> {}]
  /\ UNCHANGED <<world, took, used, taken, batches>>

Step(t) ==
  \/ PreviewInsert(t) \/ CommitBegin(t) \/ CommitReturns(t)
  \/ \E k \in Token : CommitTake(t, k) \/ CommitUnknown(t, k)
  \/ \E k \in Token : \E P \in SUBSET Path : PreviewBuild(t, k, P)
  \/ \E p \in Path : CommitItem(t, p) \/ CommitItemFails(t, p)

Next == Tick \/ Restart \/ Change \/ (\E t \in Thread : Step(t))

Spec == Init /\ [][Next]_vars

-----------------------------------------------------------------------------
(* Properties                                                                *)

(* However commits of the same token race, and whatever previews and restarts *)
(* come between, one token makes at most one batch (cleaner/mod.rs:29-31).   *)
CommitsOnce == \A k \in Token : batches[k] <= 1

(* A plan preview returned can be committed until a commit took it or a time *)
(* came at which it was older than PLAN_TTL_SECS: racing previews, and a     *)
(* clock that goes back, evict no plan early (plan.rs:94-98).                *)
NoPlanIsLost ==
  \A v \in issued \ cache :
    v.token \notin taken => latest - v.created > PLAN_TTL_SECS

Moved(k) == UNION {took[k][p] : p \in Path}

(* While nobody else changes the files, a commit reports every byte it       *)
(* moved, and each byte that it reports beyond those was moved by another    *)
(* commit: from below the item it is reported for, which moved all the same  *)
(* without it (graveyard.rs:98 adds the preview's bytes).  A path that two   *)
(* plans share is counted by the commit that got it.  So the report is       *)
(* "bytes actually moved, excludes failures" (types.rs:66-67) as long as no  *)
(* plan holds a path below one of another plan; README.md, section 7.        *)
BytesAreMoved ==
  \A t \in Thread : ~changed /\ pc[t] = "move" =>
    /\ Moved(plan[t].token) \subseteq bytes_trashed[t]
    /\ \A u \in bytes_trashed[t] \ Moved(plan[t].token) :
         \E p, q \in Path, j \in Token \ {plan[t].token} :
           /\ q \in Below[p] /\ p \in took[plan[t].token][p]
           /\ u \in plan[t].bytes[p] \cap took[j][q]
=============================================================================
