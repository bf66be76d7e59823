------------------------- MODULE DiskScreen_proofs -------------------------
(* Only whole trees reach the cache and only whole folders are served, for   *)
(* every set of files, every depth and any number of overlapping calls; and  *)
(* while calls do not overlap, the screen comes to rest on a whole folder.   *)
EXTENDS DiskScreen, SequenceTheorems, TLAPS
LOCAL INSTANCE SequencesExt

(* A call on its way to a walk has a folder, and a walk is a call's.         *)
HasRoot ==
  \A c \in Call :
    /\ pc[c] \in {"serve", "served", "clear", "progress", "done", "start", "started"} =>
         root[c] \in Folder
    /\ wpc[c] # "none" => pc[c] # "none" /\ root[c] \in Folder

(* A walker past its loop has seen everything or was cancelled, and one that *)
(* is about to store has seen everything.                                    *)
SeenWhole ==
  \A w \in Call :
    /\ wpc[w] \in {"emit", "check"} => w \in cancelled \/ seen[w] = Under(root[w])
    /\ wpc[w] = "store" => seen[w] = Under(root[w])

IInv == TypeOK /\ HasRoot /\ SeenWhole /\ CacheIsWhole

USE DiskAssumption

LEMMA UnderFiles == \A p : Under(p) \subseteq File
  BY DEF Under

LEMMA HomeIsFolder == Home \in Folder
  BY DEF Folder

LEMMA InitHolds == Init => IInv
<1> SUFFICES ASSUME Init PROVE IInv
  OBVIOUS
<1>1. TypeOK
  <2>1. DOMAIN cache = {} /\ events \in Seq(Event) /\ stack \in Seq(Folder)
    BY DEF Init
  <2>2. mounted \in BOOLEAN /\ scanning \in BOOLEAN /\ error \in BOOLEAN /\ late \in Nat
    BY DEF Init
  <2>3. root \in [Call -> Folder \cup {None}]
    BY HomeIsFolder DEF Init
  <2> QED
    BY <2>1, <2>2, <2>3 DEF Init, TypeOK, PC
<1>2. DOMAIN cache = {}
  BY DEF Init
<1> QED
  BY <1>1, <1>2, HomeIsFolder DEF Init, IInv, HasRoot, SeenWhole, CacheIsWhole

LEMMA RootIsFolder == ASSUME NEW s \in Seq(Folder) PROVE currentRoot(s) \in Folder
  BY HomeIsFolder DEF currentRoot

LEMMA ServedIsView ==
  ASSUME TypeOK, NEW target \in Folder, NEW v \in serve(target) PROVE v \in View
<1>1. PICK r \in longest_ancestor(target) : v = [tree |-> cache[r], node |-> target]
  BY DEF serve
<1>2. cache[r] \in Tree
  BY DEF longest_ancestor, TypeOK
<1> QED
  BY <1>1, <1>2 DEF View

LEMMA WholeIsView == ASSUME NEW t \in Tree PROVE ViewOf(t) \in View
  BY DEF ViewOf, View, Tree

-----------------------------------------------------------------------------
(* Types                                                                     *)

LEMMA StoppedTypes ==
  ASSUME TypeOK, NEW c \in Call, NEW shown \in View \cup {None}, Stopped(c, shown)
  PROVE  /\ scanning' \in BOOLEAN /\ error' \in BOOLEAN
         /\ response' \in View \cup {None}
         /\ currentHandle' \in Call \cup {None} /\ unsubscribe' \in Call \cup {None}
         /\ listeners' \subseteq Call \X {"progress", "done"}
         /\ pc' \in [Call -> PC]
         /\ held' \in [Call -> Call \cup {None}] /\ reply' \in [Call -> View \cup {None}]
  BY DEF TypeOK, Stopped, PC

LEMMA stopWalkTypes ==
  ASSUME TypeOK, NEW c \in Call, NEW shown \in View \cup {None}, stopWalk(c, shown)
  PROVE  /\ scanning' \in BOOLEAN /\ error' \in BOOLEAN
         /\ response' \in View \cup {None}
         /\ currentHandle' \in Call \cup {None} /\ unsubscribe' \in Call \cup {None}
         /\ listeners' \subseteq Call \X {"progress", "done"}
         /\ pc' \in [Call -> PC]
         /\ held' \in [Call -> Call \cup {None}] /\ reply' \in [Call -> View \cup {None}]
<1>1. CASE Stopped(c, shown)
  BY <1>1, StoppedTypes
<1>2. CASE ~Stopped(c, shown)
  <2>1. UNCHANGED <<scanning, error, currentHandle, unsubscribe, listeners, reply>>
    BY <1>2 DEF stopWalk
  <2>2. response' = shown /\ pc' = [pc EXCEPT ![c] = "cancel"]
    BY <1>2 DEF stopWalk
  <2>3. held' \in [Call -> Call \cup {None}]
    <3>1. held' = [held EXCEPT ![c] = currentHandle]
      BY <1>2 DEF stopWalk
    <3> QED
      BY <3>1 DEF TypeOK
  <2> QED
    BY <2>1, <2>2, <2>3 DEF TypeOK, PC
<1> QED
  BY <1>1, <1>2

LEMMA EnterCounts ==
  ASSUME TypeOK, NEW c, NEW path, NEW first, Enter(c, path, first)
  PROVE  late' \in Nat /\ (late' = 0 => late = 0 /\ Quiet)
<1>1. (Quiet /\ late' = late) \/ late' = late + 1
  BY Zenon DEF Enter
<1>2. late \in Nat
  BY DEF TypeOK
<1> QED
  BY <1>1, <1>2

LEMMA UserTypes ==
  ASSUME TypeOK, NEW c \in Call, User(c) PROVE TypeOK'
<1> USE DEF Enter, NextCall
<1>1. CASE DrillInto(c)
  <2>1. PICK d \in Biggest(response) : stack' = Append(stack, d) /\ Enter(c, d, "serve")
    BY <1>1 DEF DrillInto
  <2>2. d \in Folder
    BY DEF Biggest
  <2>3. stack' \in Seq(Folder)
    BY <2>1, <2>2 DEF TypeOK
  <2>4. late' \in Nat
    BY <2>1, EnterCounts
  <2> QED
    BY <1>1, <2>1, <2>2, <2>3, <2>4 DEF DrillInto, TypeOK, PC, backend, walkers
<1>2. CASE PopTo(c)
  <2>1. PICK n \in 0..Len(stack) :
          stack' = SubSeq(stack, 1, n) /\ Enter(c, currentRoot(stack'), "serve")
    BY <1>2 DEF PopTo
  <2>2. stack' \in Seq(Folder)
    BY <2>1, SubSeqProperties DEF TypeOK
  <2>3. currentRoot(stack') \in Folder
    BY <2>2, RootIsFolder
  <2>4. late' \in Nat
    BY <2>1, EnterCounts
  <2> QED
    BY <1>2, <2>1, <2>2, <2>3, <2>4 DEF PopTo, TypeOK, PC, backend, walkers
<1>3. CASE Rescan(c)
  <2>1. late' \in Nat
    BY <1>3, EnterCounts DEF Rescan
  <2> QED
    BY <1>3, <2>1, HomeIsFolder DEF Rescan, TypeOK, PC, screen, backend, walkers
<1>4. CASE Retry(c)
  <2>1. late' \in Nat
    BY <1>4, EnterCounts DEF Retry
  <2>2. currentRoot(stack) \in Folder
    BY RootIsFolder DEF TypeOK
  <2> QED
    BY <1>4, <2>1, <2>2 DEF Retry, TypeOK, PC, screen, backend, walkers
<1>5. CASE Unmount(c)
  <2>1. /\ unsubscribe' \in Call \cup {None} /\ root' \in [Call -> Folder \cup {None}]
        /\ pc' = [pc EXCEPT ![c] = "cancel"] \/ pc' = [pc EXCEPT ![c] = "over"]
        /\ held' = held \/ held' = [held EXCEPT ![c] = currentHandle]
    BY <1>5 DEF Unmount, TypeOK
  <2>2. listeners' \subseteq Call \X {"progress", "done"}
    BY <1>5 DEF Unmount, TypeOK
  <2>3. pc' \in [Call -> PC] /\ held' \in [Call -> Call \cup {None}]
    BY <2>1 DEF TypeOK, PC
  <2> QED
    BY <1>5, <2>1, <2>2, <2>3 DEF Unmount, TypeOK, backend, walkers
<1> QED
  BY <1>1, <1>2, <1>3, <1>4, <1>5 DEF User

LEMMA ProceedTypes ==
  ASSUME TypeOK, HasRoot, NEW c \in Call, Proceed(c) PROVE TypeOK'
<1> USE DEF screen, backend, walkers, PC
<1>1. CASE Serve(c)
  <2>1. root[c] \in Folder
    BY <1>1 DEF HasRoot, Serve
  <2>2. reply' \in [Call -> View \cup {None}]
    BY <1>1, <2>1, ServedIsView DEF Serve, TypeOK
  <2> QED
    BY <1>1, <2>2 DEF Serve, TypeOK
<1>2. CASE ServeReturns(c)
  <2>1. response \in View \cup {None} /\ stopWalk(c, response)
    BY <1>2 DEF ServeReturns, TypeOK
  <2> QED
    BY <1>2, <2>1, stopWalkTypes DEF ServeReturns, TypeOK
<1>3. CASE ClearReturns(c)
  <2>1. stopWalk(c, None)
    BY <1>3 DEF ClearReturns
  <2>2. stack' \in Seq(Folder) /\ DOMAIN cache' = {}
    BY <1>3 DEF ClearReturns
  <2> QED
    BY <1>3, <2>1, <2>2, stopWalkTypes DEF ClearReturns, TypeOK
<1>4. CASE CancelReturns(c)
  BY <1>4 DEF CancelReturns, TypeOK
<1>5. CASE ForgetReturns(c)
  <2>1. response \in View \cup {None} /\ Stopped(c, response)
    BY <1>5 DEF ForgetReturns, TypeOK
  <2> QED
    BY <1>5, <2>1, StoppedTypes DEF ForgetReturns, TypeOK
<1>6. ASSUME NEW channel \in {"progress", "done"}, Listen(c, channel) PROVE TypeOK'
  <2>1. /\ listeners' \subseteq Call \X {"progress", "done"}
        /\ unsubscribe' \in Call \cup {None}
    BY <1>6 DEF Listen, TypeOK
  <2>2. pc' \in [Call -> PC]
    BY <1>6 DEF Listen, TypeOK
  <2> QED
    BY <1>6, <2>1, <2>2 DEF Listen, TypeOK
<1>7. CASE start_treemap(c)
  BY <1>7 DEF start_treemap, TypeOK
<1>8. CASE StartFails(c)
  BY <1>8 DEF StartFails, TypeOK
<1>9. CASE StartReturns(c)
  BY <1>9 DEF StartReturns, TypeOK
<1> QED
  BY <1>1, <1>2, <1>3, <1>4, <1>5, <1>6, <1>7, <1>8, <1>9 DEF Proceed

LEMMA WalkerTypes ==
  ASSUME TypeOK, HasRoot, NEW w \in Call, Walker(w) PROVE TypeOK'
<1> USE DEF screen, calls
<1>1. ASSUME NEW channel \in {"progress", "done"}, NEW files \in SUBSET File,
             root[w] \in Folder, Emitted(w, channel, files)
      PROVE  events' \in Seq(Event)
  <2>1. [channel |-> channel, tree |-> TreeOf(root[w], files)] \in Event
    BY <1>1 DEF Event, Tree, TreeOf
  <2> QED
    BY <1>1, <2>1 DEF Emitted, TypeOK
<1>2. CASE Visit(w)
  <2>1. PICK f \in Under(root[w]) \ seen[w] :
          /\ seen' = [seen EXCEPT ![w] = seen[w] \cup {f}]
          /\ UNCHANGED events \/ Emitted(w, "progress", seen[w] \cup {f})
    BY <1>2 DEF Visit
  <2>2. root[w] \in Folder
    BY <1>2 DEF HasRoot, Visit
  <2>3. seen[w] \cup {f} \in SUBSET File
    BY UnderFiles DEF TypeOK
  <2>4. events' \in Seq(Event)
    BY <1>1, <2>1, <2>2, <2>3 DEF TypeOK
  <2> QED
    BY <1>2, <2>1, <2>3, <2>4 DEF Visit, TypeOK
<1>3. CASE LoopEnds(w)
  BY <1>3 DEF LoopEnds, TypeOK
<1>4. CASE emit_done(w)
  <2>1. root[w] \in Folder /\ seen[w] \in SUBSET File
    BY <1>4 DEF HasRoot, emit_done, TypeOK
  <2>2. events' \in Seq(Event)
    BY <1>1, <1>4, <2>1 DEF emit_done
  <2> QED
    BY <1>4, <2>2 DEF emit_done, TypeOK
<1>5. CASE CheckCancelled(w)
  BY <1>5 DEF CheckCancelled, TypeOK
<1>6. CASE on_done_tree(w)
  <2>1. TreeOf(root[w], seen[w]) \in Tree /\ root[w] \in Folder
    BY <1>6 DEF HasRoot, on_done_tree, TypeOK, TreeOf, Tree
  <2>2. DOMAIN cache' \subseteq Folder /\ \A r \in DOMAIN cache' : cache'[r] \in Tree
    BY <1>6, <2>1 DEF on_done_tree, TypeOK
  <2> QED
    BY <1>6, <2>2 DEF on_done_tree, TypeOK
<1> QED
  BY <1>2, <1>3, <1>4, <1>5, <1>6 DEF Walker

LEMMA DeliverTypes == TypeOK /\ Deliver => TypeOK'
<1> SUFFICES ASSUME TypeOK, Deliver PROVE TypeOK'
  OBVIOUS
<1>1. events \in Seq(Event) /\ events # <<>>
  BY DEF TypeOK, Deliver
<1>2. events' \in Seq(Event) /\ Head(events) \in Event
  BY <1>1, HeadTailProperties DEF Deliver
<1>3. ViewOf(Head(events).tree) \in View
  BY <1>2, WholeIsView DEF Event
<1>4. response' \in View \cup {None}
  BY <1>3 DEF Deliver, TypeOK
<1>5. scanning' \in BOOLEAN
  BY Zenon DEF Deliver, TypeOK
<1> QED
  BY <1>2, <1>4, <1>5 DEF Deliver, TypeOK, calls, walkers

-----------------------------------------------------------------------------
(* The rest of the invariant                                                 *)

LEMMA StoppedRoots ==
  ASSUME TypeOK, HasRoot, NEW c \in Call, NEW shown,
         pc[c] # "none", Stopped(c, shown), UNCHANGED <<root, wpc>>
  PROVE  HasRoot'
  BY DEF Stopped, HasRoot, TypeOK

LEMMA stopWalkRoots ==
  ASSUME TypeOK, HasRoot, NEW c \in Call, NEW shown,
         pc[c] # "none", stopWalk(c, shown), UNCHANGED <<root, wpc>>
  PROVE  HasRoot'
<1>1. CASE Stopped(c, shown)
  BY <1>1, StoppedRoots
<1>2. CASE ~Stopped(c, shown)
  BY <1>2 DEF stopWalk, HasRoot, TypeOK
<1> QED
  BY <1>1, <1>2

LEMMA RootStep == IInv /\ [Next]_vars => HasRoot'
<1> SUFFICES ASSUME IInv, [Next]_vars PROVE HasRoot'
  OBVIOUS
<1> USE DEF IInv, backend, walkers
<1>1. ASSUME NEW c \in Call, User(c) PROVE HasRoot'
  <2> USE DEF Enter, NextCall, TypeOK, HasRoot
  <2>1. CASE DrillInto(c)
    <3>1. PICK d \in Biggest(response) : Enter(c, d, "serve")
      BY <2>1 DEF DrillInto
    <3>2. d \in Folder
      BY DEF Biggest
    <3> QED
      BY <2>1, <3>1, <3>2 DEF DrillInto
  <2>2. CASE PopTo(c)
    <3>1. PICK n \in 0..Len(stack) :
            stack' = SubSeq(stack, 1, n) /\ Enter(c, currentRoot(stack'), "serve")
      BY <2>2 DEF PopTo
    <3>2. stack' \in Seq(Folder)
      BY <3>1, SubSeqProperties
    <3>3. currentRoot(stack') \in Folder
      BY <3>2, RootIsFolder
    <3> QED
      BY <2>2, <3>1, <3>3 DEF PopTo
  <2>3. CASE Rescan(c)
    BY <2>3, HomeIsFolder DEF Rescan
  <2>4. CASE Retry(c)
    BY <2>4, RootIsFolder DEF Retry
  <2>5. CASE Unmount(c)
    BY <2>5 DEF Unmount
  <2> QED
    BY <1>1, <2>1, <2>2, <2>3, <2>4, <2>5 DEF User
<1>2. ASSUME NEW c \in Call, Proceed(c) PROVE HasRoot'
  <2>1. CASE Serve(c)
    BY <2>1 DEF Serve, TypeOK, HasRoot
  <2>2. CASE ServeReturns(c)
    BY <2>2, stopWalkRoots DEF ServeReturns
  <2>3. CASE ClearReturns(c)
    BY <2>3, stopWalkRoots DEF ClearReturns
  <2>4. CASE CancelReturns(c)
    BY <2>4 DEF CancelReturns, TypeOK, HasRoot
  <2>5. CASE ForgetReturns(c)
    BY <2>5, StoppedRoots DEF ForgetReturns
  <2>6. ASSUME NEW channel \in {"progress", "done"}, Listen(c, channel) PROVE HasRoot'
    BY <2>6 DEF Listen, TypeOK, HasRoot
  <2>7. CASE start_treemap(c)
    BY <2>7 DEF start_treemap, TypeOK, HasRoot
  <2>8. CASE StartFails(c)
    BY <2>8 DEF StartFails, TypeOK, HasRoot
  <2>9. CASE StartReturns(c)
    BY <2>9 DEF StartReturns, TypeOK, HasRoot
  <2> QED
    BY <1>2, <2>1, <2>2, <2>3, <2>4, <2>5, <2>6, <2>7, <2>8, <2>9 DEF Proceed
<1>3. ASSUME NEW w \in Call, Walker(w) PROVE HasRoot'
  BY <1>3 DEF Walker, Visit, LoopEnds, emit_done, CheckCancelled, on_done_tree, calls, TypeOK, HasRoot
<1>4. CASE Deliver \/ UNCHANGED vars
  BY <1>4 DEF Deliver, vars, calls, HasRoot
<1> QED
  BY <1>1, <1>2, <1>3, <1>4 DEF Next

LEMMA WholeStep == IInv /\ [Next]_vars => (SeenWhole /\ CacheIsWhole)'
<1> SUFFICES ASSUME IInv, [Next]_vars PROVE (SeenWhole /\ CacheIsWhole)'
  OBVIOUS
<1> USE DEF IInv, SeenWhole, CacheIsWhole, backend, walkers
<1>1. ASSUME NEW c \in Call, User(c) PROVE (SeenWhole /\ CacheIsWhole)'
  <2>1. pc[c] = "none" /\ UNCHANGED backend
    BY <1>1 DEF User, DrillInto, PopTo, Rescan, Retry, Unmount, Enter, NextCall
  <2>2. \A w \in Call \ {c} : root'[w] = root[w]
    BY <1>1 DEF User, DrillInto, PopTo, Rescan, Retry, Unmount, Enter, TypeOK
  <2>3. wpc[c] = "none"
    BY <2>1 DEF HasRoot
  <2> QED
    BY <2>1, <2>2, <2>3
<1>2. ASSUME NEW c \in Call, Proceed(c) PROVE (SeenWhole /\ CacheIsWhole)'
  <2>1. UNCHANGED <<root, seen>> /\ cancelled \subseteq cancelled'
    BY <1>2 DEF Proceed, Serve, ServeReturns, ClearReturns, CancelReturns, ForgetReturns,
                Listen, start_treemap, StartFails, StartReturns
  <2>2. UNCHANGED cache \/ cache' = <<>>
    BY <1>2 DEF Proceed, Serve, ServeReturns, ClearReturns, CancelReturns, ForgetReturns,
                Listen, start_treemap, StartFails, StartReturns
  <2>3. UNCHANGED wpc \/ wpc' = [wpc EXCEPT ![c] = "walk"]
    BY <1>2 DEF Proceed, Serve, ServeReturns, ClearReturns, CancelReturns, ForgetReturns,
                Listen, start_treemap, StartFails, StartReturns
  <2> QED
    BY <2>1, <2>2, <2>3 DEF TypeOK
<1>3. ASSUME NEW w \in Call, Walker(w) PROVE (SeenWhole /\ CacheIsWhole)'
  <2> USE DEF calls, TypeOK
  <2>1. CASE Visit(w)
    BY <2>1 DEF Visit
  <2>2. CASE LoopEnds(w)
    BY <2>2 DEF LoopEnds
  <2>3. CASE emit_done(w)
    BY <2>3 DEF emit_done
  <2>4. CASE CheckCancelled(w)
    BY <2>4 DEF CheckCancelled
  <2>5. CASE on_done_tree(w)
    BY <2>5 DEF on_done_tree
  <2> QED
    BY <1>3, <2>1, <2>2, <2>3, <2>4, <2>5 DEF Walker
<1>4. CASE Deliver \/ UNCHANGED vars
  BY <1>4 DEF Deliver, vars, calls
<1> QED
  BY <1>1, <1>2, <1>3, <1>4 DEF Next

LEMMA IInvStep == IInv /\ [Next]_vars => IInv'
<1> SUFFICES ASSUME IInv, [Next]_vars PROVE IInv'
  OBVIOUS
<1>1. TypeOK'
  <2>1. CASE UNCHANGED vars
    BY <2>1 DEF IInv, TypeOK, vars, screen, calls, backend, walkers
  <2> QED
    BY <2>1, UserTypes, ProceedTypes, WalkerTypes, DeliverTypes DEF IInv, Next
<1> QED
  BY <1>1, RootStep, WholeStep DEF IInv

-----------------------------------------------------------------------------

(* Every variable of the screen and of the walks keeps its type.             *)
THEOREM TypeCorrect == Spec => []TypeOK
<1>1. IInv => TypeOK
  BY DEF IInv
<1> QED
  BY <1>1, InitHolds, IInvStep, PTL DEF Spec

(* Whatever the screen cancels and wherever the cancel falls, a tree in the  *)
(* cache (stream.rs:184) has every file below its root.                      *)
THEOREM CachesWhole == Spec => []CacheIsWhole
<1>1. IInv => CacheIsWhole
  BY DEF IInv
<1> QED
  BY <1>1, InitHolds, IInvStep, PTL DEF Spec

-----------------------------------------------------------------------------
(* What is served                                                            *)

LEMMA PathsAreSequences == \A p \in Path : p \in Seq(STRING)
<1>1. \A f \in File : f \in Seq(STRING)
  BY DiskAssumption
<1>2. ASSUME NEW f \in File, NEW n \in 0..(Len(f) - 1) PROVE SubSeq(f, 1, n) \in Seq(STRING)
  BY <1>1, SubSeqProperties
<1>3. Home \in Seq(STRING)
  BY DEF Home
<1> QED
  BY <1>1, <1>2, <1>3 DEF Path, Folder

LEMMA PrefixIs ==
  ASSUME NEW s \in Path, NEW t \in Path
  PROVE  IsPrefix(s, t) <=> Len(s) <= Len(t) /\ \A i \in 1..Len(s) : s[i] = t[i]
<1> USE PathsAreSequences
<1>1. CASE Len(s) <= Len(t)
  <2>1. /\ SubSeq(s, 1, Len(s)) \in Seq(STRING) /\ SubSeq(t, 1, Len(s)) \in Seq(STRING)
        /\ Len(SubSeq(s, 1, Len(s))) = Len(s) /\ Len(SubSeq(t, 1, Len(s))) = Len(s)
        /\ \A i \in 1..Len(s) : SubSeq(s, 1, Len(s))[i] = s[i] /\ SubSeq(t, 1, Len(s))[i] = t[i]
    BY <1>1, SubSeqProperties
  <2> QED
    BY <1>1, <2>1 DEF IsPrefix
<1> QED
  BY <1>1 DEF IsPrefix

LEMMA PrefixTransitive ==
  ASSUME NEW r \in Path, NEW s \in Path, NEW t \in Path, IsPrefix(r, s), IsPrefix(s, t)
  PROVE  IsPrefix(r, t)
<1>1. Len(r) \in Nat /\ Len(s) \in Nat /\ Len(t) \in Nat
  BY PathsAreSequences
<1> QED
  BY <1>1, PrefixIs

LEMMA UnderShrinks ==
  ASSUME NEW r \in Path, NEW t \in Path, IsPrefix(r, t)
  PROVE  Under(t) \subseteq Under(r)
  BY PrefixTransitive DEF Under, Path

(* A folder that is not cut off looks the same out of an ancestor's tree,    *)
(* but for the levels that this tree does not have.                          *)
LEMMA AncestorShowsWhole ==
  ASSUME NEW r \in Folder, NEW t \in Folder, IsPrefix(r, t),
         Children(TreeOf(r, Under(r)), t) = {} => Under(r) \cap Under(t) = {}
  PROVE  ShowsWhole([tree |-> TreeOf(r, Under(r)), node |-> t], t)
<1> DEFINE v    == [tree |-> TreeOf(r, Under(r)), node |-> t]
           far  == Children(TreeOf(r, Under(r)), t)
           near == Children(TreeOf(t, Under(t)), t)
<1>1. Under(t) \subseteq Under(r) /\ r \in Path /\ t \in Path
  BY UnderShrinks DEF Path
<1>2. Len(r) \in Nat /\ Len(t) \in Nat /\ Depth \in Nat \ {0} /\ \A p \in Path : Len(p) \in Nat
  BY <1>1, PathsAreSequences
<1>3. ASSUME NEW p \in Path, IsPrefix(t, p) PROVE IsPrefix(r, p) /\ Under(p) \subseteq Under(t)
  BY <1>1, <1>3, PrefixTransitive, UnderShrinks
<1>4. \A p : p \in near <=>
        p \in Path /\ Len(p) = Len(t) + 1 /\ IsPrefix(t, p) /\ Under(p) # {}
  <2>1. \A p \in Path : IsPrefix(t, p) =>
          ((\E f \in Under(t) : IsPrefix(p, f)) <=> Under(p) # {})
    BY <1>3 DEF Under
  <2> QED
    BY <1>2, <2>1 DEF Children, Nodes, TreeOf
<1>5. \A p : p \in far <=>
        /\ p \in Path /\ Len(p) = Len(t) + 1 /\ IsPrefix(t, p) /\ Under(p) # {}
        /\ Len(t) + 1 <= Len(r) + Depth
  <2>1. \A p \in Path : IsPrefix(t, p) =>
          ((\E f \in Under(r) : IsPrefix(p, f)) <=> Under(p) # {})
    BY <1>1, <1>3 DEF Under
  <2> QED
    BY <1>2, <1>3, <2>1 DEF Children, Nodes, TreeOf
<1>6. far = near
  <2>1. CASE far = {}
    <3>1. Under(t) = {}
      BY <1>1, <2>1
    <3> QED
      BY <1>3, <1>4, <2>1, <3>1
  <2>2. CASE far # {}
    BY <1>4, <1>5, <2>2
  <2> QED
    BY <2>1, <2>2
<1>7. \A p \in near : Under(r) \cap Under(p) = Under(p) /\ Under(t) \cap Under(p) = Under(p)
  BY <1>1, <1>3, <1>4
<1>8. Under(r) \cap Under(t) = Under(t)
  BY <1>1
<1>9. Biggest(v) = {d \in Biggest(Whole(t)) : Len(d) <= Len(r) + Depth}
  <2>1. Len(r) <= Len(t) /\ IsPrefix(t, t)
    BY <1>1, PrefixIs, PathsAreSequences
  <2>2. \A d \in Path : IsPrefix(t, d) =>
          ((\E f \in Under(r) : IsPrefix(d, f)) <=> \E f \in Under(t) : IsPrefix(d, f))
    BY <1>1, <1>3 DEF Under
  <2>3. \A d : d \in Biggest(v) <=>
          /\ d \in Path /\ d \in Folder /\ Len(d) <= Len(r) + Depth /\ d # t /\ IsPrefix(t, d)
          /\ \E f \in Under(t) : IsPrefix(d, f)
    BY <1>3, <2>2 DEF Biggest, Nodes, TreeOf
  <2>4. \A d : d \in Biggest(Whole(t)) <=>
          /\ d \in Path /\ d \in Folder /\ Len(d) <= Len(t) + Depth /\ d # t /\ IsPrefix(t, d)
          /\ \E f \in Under(t) : IsPrefix(d, f)
    BY DEF Biggest, Nodes, TreeOf, Whole, ViewOf
  <2>5. \A d \in Path : Len(d) <= Len(r) + Depth => Len(d) <= Len(t) + Depth
    BY <1>2, <2>1
  <2> QED
    BY <2>3, <2>4, <2>5
<1>10. \A d \in Biggest(Whole(t)) :
         Under(r) \cap Under(d) = Under(d) /\ Under(t) \cap Under(d) = Under(d)
  BY <1>1, <1>3 DEF Biggest, Nodes, Whole, ViewOf, TreeOf
<1>11. Shown(v).biggest = {<<d, Under(d)>> : d \in Biggest(v)}
  BY <1>9, <1>10 DEF Shown, TreeOf
<1>12. Shown(Whole(t)) =
        [root |-> t, files |-> Under(t), tiles |-> {<<p, Under(p)>> : p \in near},
         biggest |-> {<<d, Under(d)>> : d \in Biggest(Whole(t))}]
  BY <1>7, <1>10 DEF Shown, TreeOf, Whole, ViewOf
<1>13. WalkDownTo(t, Len(r) + Depth) =
        [root |-> t, files |-> Under(t), tiles |-> {<<p, Under(p)>> : p \in near},
         biggest |-> {<<d, Under(d)>> : d \in Biggest(v)}]
  <2>1. {e \in {<<d, Under(d)>> : d \in Biggest(Whole(t))} : Len(e[1]) <= Len(r) + Depth} =
          {<<d, Under(d)>> : d \in Biggest(v)}
    BY <1>9
  <2>2. WalkDownTo(t, Len(r) + Depth) =
          [Shown(Whole(t)) EXCEPT !.biggest =
             {e \in Shown(Whole(t)).biggest : Len(e[1]) <= Len(r) + Depth}]
    BY DEF WalkDownTo
  <2>3. Shown(Whole(t)).biggest = {<<d, Under(d)>> : d \in Biggest(Whole(t))}
    BY <1>12
  <2>4. WalkDownTo(t, Len(r) + Depth) =
          [Shown(Whole(t)) EXCEPT !.biggest = {<<d, Under(d)>> : d \in Biggest(v)}]
    BY <2>1, <2>2, <2>3, Zenon
  <2> DEFINE tiles == {<<p, Under(p)>> : p \in near}
             whole == {<<d, Under(d)>> : d \in Biggest(Whole(t))}
             list  == {<<d, Under(d)>> : d \in Biggest(v)}
  <2>5. Shown(Whole(t)) = [root |-> t, files |-> Under(t), tiles |-> tiles, biggest |-> whole]
    BY <1>12
  <2>6. WalkDownTo(t, Len(r) + Depth) = [Shown(Whole(t)) EXCEPT !.biggest = list]
    BY <2>4
  <2> HIDE DEF tiles, whole, list
  <2>7. WalkDownTo(t, Len(r) + Depth) =
          [root |-> t, files |-> Under(t), tiles |-> tiles, biggest |-> list]
    BY <2>5, <2>6
  <2> QED
    BY <2>7 DEF tiles, list
<1>14. Shown(v) =
        [root |-> t, files |-> Under(t), tiles |-> {<<p, Under(p)>> : p \in near},
         biggest |-> {<<d, Under(d)>> : d \in Biggest(v)}]
  BY <1>6, <1>7, <1>8, <1>11 DEF Shown, TreeOf
<1> QED
  BY <1>13, <1>14 DEF ShowsWhole, TreeOf

(* The tree of a walk of the folder itself is deep enough for all of it.     *)
LEMMA WholeShows == ASSUME NEW t \in Folder PROVE ShowsWhole(Whole(t), t)
<1>1. \A e \in Shown(Whole(t)).biggest : Len(e[1]) <= Len(t) + Depth
  BY DEF Shown, Biggest, Nodes, Whole, ViewOf, TreeOf
<1>2. Whole(t).tree.root = t
  BY DEF Whole, ViewOf, TreeOf
<1>3. {e \in Shown(Whole(t)).biggest : Len(e[1]) <= Len(t) + Depth} = Shown(Whole(t)).biggest
  BY <1>1
<1>4. [Shown(Whole(t)) EXCEPT !.biggest = Shown(Whole(t)).biggest] = Shown(Whole(t))
  BY DEF Shown
<1> QED
  BY <1>2, <1>3, <1>4 DEF ShowsWhole, WalkDownTo

LEMMA ServesWhole ==
  ASSUME TypeOK, CacheIsWhole, NEW t \in Folder, NEW v \in serve(t)
  PROVE  ShowsWhole(v, t)
<1>1. PICK r \in longest_ancestor(t) :
        /\ v = [tree |-> cache[r], node |-> t]
        /\ Children(cache[r], t) = {} => cache[r].files \cap Under(t) = {}
  BY DEF serve
<1>2. r \in Folder /\ IsPrefix(r, t) /\ cache[r] = TreeOf(r, Under(r))
  BY DEF longest_ancestor, TypeOK, CacheIsWhole
<1> QED
  BY <1>1, <1>2, AncestorShowsWhole DEF TreeOf

(* An answer is kept from the call that asked for it until it is shown, and  *)
(* meanwhile the call keeps its folder.                                      *)
Answered ==
  \A c \in Call : reply[c] # None => pc[c] \in {"served", "cancel", "forget"} /\ root[c] \in Folder

LEMMA StoppedAnswers ==
  ASSUME TypeOK, Answered, ServedIsWhole, NEW c \in Call, NEW shown,
         Stopped(c, shown), UNCHANGED root
  PROVE  (Answered /\ ServedIsWhole)'
<1>1. \A d \in Call : d # c => pc'[d] = pc[d] /\ reply'[d] = reply[d]
  BY DEF Stopped, TypeOK
<1>2. reply'[c] = None
  BY DEF Stopped, TypeOK
<1> QED
  BY <1>1, <1>2 DEF Answered, ServedIsWhole

LEMMA stopWalkAnswers ==
  ASSUME TypeOK, Answered, ServedIsWhole, NEW c \in Call, NEW shown,
         stopWalk(c, shown), UNCHANGED root
  PROVE  (Answered /\ ServedIsWhole)'
<1>1. CASE Stopped(c, shown)
  BY <1>1, StoppedAnswers
<1>2. CASE ~Stopped(c, shown)
  BY <1>2 DEF stopWalk, Answered, ServedIsWhole, TypeOK
<1> QED
  BY <1>1, <1>2

LEMMA AnswerStep ==
  IInv /\ Answered /\ ServedIsWhole /\ [Next]_vars => (Answered /\ ServedIsWhole)'
<1> SUFFICES ASSUME IInv, Answered, ServedIsWhole, [Next]_vars
             PROVE  (Answered /\ ServedIsWhole)'
  OBVIOUS
<1> USE DEF IInv
<1>1. ASSUME NEW c \in Call, User(c) PROVE (Answered /\ ServedIsWhole)'
  <2>1. pc[c] = "none" /\ UNCHANGED reply
    BY <1>1 DEF User, DrillInto, PopTo, Rescan, Retry, Unmount, Enter, NextCall
  <2>2. \A d \in Call \ {c} : root'[d] = root[d] /\ pc'[d] = pc[d]
    BY <1>1 DEF User, DrillInto, PopTo, Rescan, Retry, Unmount, Enter, TypeOK
  <2> QED
    BY <2>1, <2>2 DEF Answered, ServedIsWhole
<1>2. ASSUME NEW c \in Call, Proceed(c) PROVE (Answered /\ ServedIsWhole)'
  <2>1. CASE Serve(c)
    <3>1. root[c] \in Folder /\ UNCHANGED root
      BY <2>1 DEF Serve, HasRoot
    <3>2. \A d \in Call : d # c => pc'[d] = pc[d] /\ reply'[d] = reply[d]
      BY <2>1 DEF Serve, TypeOK
    <3>3. pc'[c] = "served" /\ (reply'[c] = reply[c] \/ reply'[c] \in serve(root[c]))
      BY <2>1 DEF Serve, TypeOK
    <3>4. reply'[c] # None => ShowsWhole(reply'[c], root[c])
      BY <3>1, <3>3, ServesWhole DEF ServedIsWhole
    <3> QED
      BY <3>1, <3>2, <3>3, <3>4 DEF Answered, ServedIsWhole
  <2>2. CASE ServeReturns(c)
    BY <2>2, stopWalkAnswers DEF ServeReturns
  <2>3. CASE ClearReturns(c)
    BY <2>3, stopWalkAnswers DEF ClearReturns
  <2>4. CASE CancelReturns(c)
    BY <2>4 DEF CancelReturns, Answered, ServedIsWhole, TypeOK
  <2>5. CASE ForgetReturns(c)
    BY <2>5, StoppedAnswers DEF ForgetReturns
  <2>6. ASSUME NEW channel \in {"progress", "done"}, Listen(c, channel)
        PROVE  (Answered /\ ServedIsWhole)'
    BY <2>6 DEF Listen, Answered, ServedIsWhole, TypeOK
  <2>7. CASE start_treemap(c)
    BY <2>7 DEF start_treemap, Answered, ServedIsWhole, TypeOK
  <2>8. CASE StartFails(c)
    BY <2>8 DEF StartFails, Answered, ServedIsWhole, TypeOK
  <2>9. CASE StartReturns(c)
    BY <2>9 DEF StartReturns, Answered, ServedIsWhole, TypeOK
  <2> QED
    BY <1>2, <2>1, <2>2, <2>3, <2>4, <2>5, <2>6, <2>7, <2>8, <2>9 DEF Proceed
<1>3. ASSUME NEW w \in Call, Walker(w) PROVE (Answered /\ ServedIsWhole)'
  BY <1>3 DEF Walker, Visit, LoopEnds, emit_done, CheckCancelled, on_done_tree, calls,
              Answered, ServedIsWhole
<1>4. CASE Deliver \/ UNCHANGED vars
  BY <1>4 DEF Deliver, vars, calls, Answered, ServedIsWhole
<1> QED
  BY <1>1, <1>2, <1>3, <1>4 DEF Next

(* What serve_treemap_subtree answers for a folder, out of the cached tree   *)
(* of any ancestor, is what a walk of the folder would show, but for the     *)
(* levels of its biggest folders that this tree cut off: totals and tiles    *)
(* are whole, and no folder that was cut off is served as if it were empty.  *)
THEOREM ServesOnlyWhole == Spec => []ServedIsWhole
<1>1. Init => Answered /\ ServedIsWhole
  BY DEF Init, Answered, ServedIsWhole
<1> QED
  BY <1>1, InitHolds, IInvStep, AnswerStep, PTL DEF Spec

-----------------------------------------------------------------------------
(* One call at a time                                                        *)

Early   == {"serve", "served", "clear", "cancel", "forget", "progress", "done", "start"}
Walking == {"walk", "emit", "check", "store"}
Here    == currentRoot(stack)

(* Only walks that began can be cancelled.                                   *)
Begun == cancelled \cup registry \subseteq {w \in Call : wpc[w] # "none"}

(* A call on its way to a walk finds no events and no walk of its own; it    *)
(* and its walk are about the folder the breadcrumb names.  While the walk   *)
(* has not emitted its end, the screen says that it is scanning.             *)
Journey(c) ==
  /\ pc[c] \in Early => events = <<>> /\ wpc[c] = "none"
  /\ pc[c] = "clear" => root[c] = Home
  /\ pc[c] \in Early \cup {"started"} /\ pc[c] # "clear" => root[c] = Here
  /\ pc[c] \in {"progress", "done", "start"} => scanning
  /\ wpc[c] \in Walking => root[c] = Here /\ c \notin cancelled
  /\ wpc[c] \in {"walk", "emit"} => scanning /\ \A i \in DOMAIN events : events[i].channel # "done"

Alone == \A c \in Call, d \in Call : Running(c) /\ Running(d) => c = d

(* The last event of a walk has the whole tree, and the screen waits for it. *)
Awaited ==
  /\ events # <<>> => scanning
  /\ \A i \in DOMAIN events : events[i].channel = "done" =>
       i = Len(events) /\ events[i].tree = TreeOf(Here, Under(Here))

Rests ==
  ~scanning /\ ~error /\ (\A c \in Call : pc[c] \in {"none", "over", "started"}) =>
    response # None /\ ShowsWhole(response, Here)

Serial ==
  mounted /\ late = 0 => Alone /\ (\A c \in Call : Journey(c)) /\ Awaited /\ Rests

SInv == IInv /\ Answered /\ ServedIsWhole /\ Begun /\ Serial

LEMMA SerialInit == Init => SInv
<1> SUFFICES ASSUME Init PROVE SInv
  OBVIOUS
<1>1. IInv /\ Answered /\ ServedIsWhole /\ Begun
  BY InitHolds DEF Init, Answered, ServedIsWhole, Begun
<1>2. currentRoot(stack) = Home /\ events = <<>> /\ DOMAIN events = {}
  BY DEF Init, currentRoot
<1>3. \A c \in Call : Journey(c)
  BY <1>2 DEF Init, Journey, Early, Walking, Here
<1>4. Alone /\ Awaited
  BY <1>2 DEF Init, Alone, Running, Awaited
<1>5. Rests
  <2>1. 1 \in Call
    BY DEF Call
  <2>2. pc[1] = "serve"
    BY <2>1 DEF Init
  <2> QED
    BY <2>1, <2>2 DEF Rests
<1> QED
  BY <1>1, <1>3, <1>4, <1>5 DEF SInv, Serial

LEMMA BegunStep == IInv /\ Begun /\ [Next]_vars => Begun'
<1> SUFFICES ASSUME IInv, Begun, [Next]_vars PROVE Begun'
  OBVIOUS
<1> USE DEF IInv, Begun, TypeOK, backend, walkers
<1>1. ASSUME NEW c \in Call, User(c) PROVE Begun'
  BY <1>1 DEF User, DrillInto, PopTo, Rescan, Retry, Unmount
<1>2. ASSUME NEW c \in Call, Proceed(c) PROVE Begun'
  <2>1. CASE Serve(c)
    BY <2>1 DEF Serve
  <2>2. CASE ServeReturns(c)
    BY <2>2 DEF ServeReturns
  <2>3. CASE ClearReturns(c)
    BY <2>3 DEF ClearReturns
  <2>4. CASE CancelReturns(c)
    BY <2>4 DEF CancelReturns
  <2>5. CASE ForgetReturns(c)
    BY <2>5 DEF ForgetReturns
  <2>6. ASSUME NEW channel \in {"progress", "done"}, Listen(c, channel) PROVE Begun'
    BY <2>6 DEF Listen
  <2>7. CASE start_treemap(c)
    BY <2>7 DEF start_treemap
  <2>8. CASE StartFails(c)
    BY <2>8 DEF StartFails
  <2>9. CASE StartReturns(c)
    BY <2>9 DEF StartReturns
  <2> QED
    BY <1>2, <2>1, <2>2, <2>3, <2>4, <2>5, <2>6, <2>7, <2>8, <2>9 DEF Proceed
<1>3. ASSUME NEW w \in Call, Walker(w) PROVE Begun'
  <2>1. UNCHANGED <<cancelled, registry>>
    BY <1>3 DEF Walker, Visit, LoopEnds, emit_done, CheckCancelled, on_done_tree
  <2>2. \A v \in Call : wpc[v] # "none" => wpc'[v] # "none"
    BY <1>3 DEF Walker, Visit, LoopEnds, emit_done, CheckCancelled, on_done_tree
  <2> QED
    BY <2>1, <2>2
<1>4. CASE Deliver \/ UNCHANGED vars
  BY <1>4 DEF Deliver, vars
<1> QED
  BY <1>1, <1>2, <1>3, <1>4 DEF Next

(* If all other calls are idle after a step, only the journey of the one     *)
(* that moved is to be followed.                                             *)
Idle(c) == pc[c] \in {"none", "over"} /\ wpc[c] \in {"none", "gone"}

LEMMA OneMoves ==
  ASSUME NEW c \in Call, \A d \in Call : d # c => Idle(d)', Journey(c)'
  PROVE  (Alone /\ \A d \in Call : Journey(d))'
  BY DEF Idle, Alone, Running, Journey, Early, Walking

LEMMA OthersIdle ==
  ASSUME TypeOK, Alone, NEW c \in Call, Running(c)
  PROVE  \A d \in Call : d # c => Idle(d)
  BY DEF TypeOK, Alone, Running, Idle

LEMMA EnterSerial ==
  ASSUME SInv, NEW c \in Call, NEW path \in Folder, NEW first \in {"serve", "clear"},
         mounted', late' = 0, Enter(c, path, first), UNCHANGED <<mounted, backend>>,
         IF first = "clear" THEN path = Home ELSE path = Here'
  PROVE  Serial'
<1> USE DEF backend, walkers
<1>1. Quiet /\ pc[c] = "none"
  BY EnterCounts DEF Enter, NextCall, SInv, IInv
<1>2. events = <<>> /\ UNCHANGED <<events, wpc, cancelled>>
  BY <1>1 DEF Quiet
<1>3. wpc[c] = "none"
  BY <1>1 DEF SInv, IInv, HasRoot
<1>4. pc'[c] = first /\ root'[c] = path /\ \A d \in Call : d # c => pc'[d] = pc[d]
  BY DEF Enter, SInv, IInv, TypeOK
<1>5. \A d \in Call : d # c => Idle(d)'
  BY <1>1, <1>2, <1>4 DEF Quiet, Running, Idle, SInv, IInv, TypeOK
<1>6. Journey(c)'
  BY <1>2, <1>3, <1>4 DEF Journey, Early, Walking
<1>7. Awaited' /\ Rests'
  BY <1>2, <1>4 DEF Awaited, Rests
<1> QED
  BY <1>5, <1>6, <1>7, OneMoves DEF Serial

LEMMA LastIsNew ==
  ASSUME NEW S, NEW s \in Seq(S), NEW e \in S, NEW t, t = Append(s, e)
  PROVE  /\ Len(t) = Len(s) + 1 /\ t[Len(t)] = e
         /\ \A i \in DOMAIN t : i = Len(t) \/ (i \in DOMAIN s /\ t[i] = s[i])
  BY AppendProperties

LEMMA UserSerial ==
  ASSUME SInv, NEW c \in Call, User(c), mounted', late' = 0
  PROVE  Serial'
<1> USE DEF SInv, IInv, TypeOK
<1>1. CASE DrillInto(c)
  <2>1. PICK d \in Biggest(response) : stack' = Append(stack, d) /\ Enter(c, d, "serve")
    BY <1>1 DEF DrillInto
  <2>2. d \in Folder
    BY DEF Biggest
  <2>3. stack' # <<>> /\ stack'[Len(stack')] = d
    <3>1. stack \in Seq(Folder) /\ stack' = Append(stack, d)
      BY <2>1
    <3> QED
      BY <2>2, <3>1, LastIsNew
  <2>4. d = Here'
    BY <2>3 DEF Here, currentRoot
  <2> QED
    BY <1>1, <2>1, <2>2, <2>4, EnterSerial DEF DrillInto
<1>2. CASE PopTo(c)
  <2>1. PICK n \in 0..Len(stack) :
          stack' = SubSeq(stack, 1, n) /\ Enter(c, currentRoot(stack'), "serve")
    BY <1>2 DEF PopTo
  <2>2. stack' \in Seq(Folder)
    BY <2>1, SubSeqProperties
  <2>3. currentRoot(stack') \in Folder /\ currentRoot(stack') = Here'
    BY <2>2, RootIsFolder DEF Here
  <2> QED
    BY <1>2, <2>1, <2>3, EnterSerial DEF PopTo
<1>3. CASE Rescan(c)
  BY <1>3, HomeIsFolder, EnterSerial DEF Rescan, screen
<1>4. CASE Retry(c)
  <2>1. currentRoot(stack) \in Folder /\ currentRoot(stack) = Here'
    BY <1>4, RootIsFolder DEF Here, Retry, screen
  <2> QED
    BY <1>4, <2>1, EnterSerial DEF Retry, screen
<1>5. ~Unmount(c)
  BY DEF Unmount
<1> QED
  BY <1>1, <1>2, <1>3, <1>4, <1>5 DEF User

LEMMA StoppedSerial ==
  ASSUME TypeOK, Answered, ServedIsWhole, NEW c \in Call, NEW shown,
         \A d \in Call : d # c => Idle(d), wpc[c] = "none",
         root[c] = currentRoot(stack'), root[c] \in Folder, events = <<>>,
         Stopped(c, shown), UNCHANGED <<root, events, wpc>>
  PROVE  (Alone /\ (\A d \in Call : Journey(d)) /\ Awaited /\ Rests)'
<1>1. \A d \in Call : d # c => Idle(d)'
  BY DEF Idle, Stopped, TypeOK
<1>2. CASE pc'[c] = "over" /\ response' = reply[c] /\ reply[c] # None /\ scanning' = FALSE
  <2>1. ShowsWhole(response', Here')
    BY <1>2 DEF ServedIsWhole, Here
  <2>2. Journey(c)'
    BY <1>2 DEF Journey, Early, Walking
  <2> QED
    BY <1>1, <1>2, <2>1, <2>2, OneMoves DEF Awaited, Rests
<1>3. CASE pc'[c] = "progress" /\ scanning' = TRUE
  <2>1. Journey(c)'
    BY <1>3 DEF Journey, Early, Walking, Here
  <2> QED
    BY <1>1, <1>3, <2>1, OneMoves DEF Awaited, Rests
<1>4. root[c] # None
  BY NoneAssumption
<1> QED
  BY <1>2, <1>3, <1>4 DEF Stopped, TypeOK

LEMMA stopWalkSerial ==
  ASSUME TypeOK, Answered, ServedIsWhole, NEW c \in Call, NEW shown,
         \A d \in Call : d # c => Idle(d), wpc[c] = "none",
         root[c] = currentRoot(stack'), root[c] \in Folder, events = <<>>,
         stopWalk(c, shown), UNCHANGED <<root, events, wpc>>
  PROVE  (Alone /\ (\A d \in Call : Journey(d)) /\ Awaited /\ Rests)'
<1>1. CASE Stopped(c, shown)
  BY <1>1, StoppedSerial
<1>2. CASE ~Stopped(c, shown)
  <2>1. pc' = [pc EXCEPT ![c] = "cancel"]
    BY <1>2 DEF stopWalk
  <2>2. pc'[c] = "cancel" /\ \A d \in Call : d # c => Idle(d)'
    BY <2>1 DEF Idle, TypeOK
  <2>3. Journey(c)'
    BY <2>2 DEF Journey, Early, Walking, Here
  <2> QED
    BY <2>2, <2>3, OneMoves DEF Awaited, Rests
<1> QED
  BY <1>1, <1>2

LEMMA ProceedSerial ==
  ASSUME SInv, NEW c \in Call, Proceed(c), mounted', late' = 0
  PROVE  Serial'
<1> USE DEF SInv, IInv, backend, walkers
<1>1. mounted /\ late = 0 /\ UNCHANGED root
  <2>1. UNCHANGED <<mounted, late, root>>
    BY DEF Proceed, Serve, ServeReturns, ClearReturns, CancelReturns, ForgetReturns,
           Listen, start_treemap, StartFails, StartReturns, screen
  <2> QED
    BY <2>1
<1>2. Alone /\ Journey(c) /\ Awaited /\ Rests
  BY <1>1 DEF Serial
<1>3. Running(c) /\ pc[c] \in Early \cup {"started"}
  BY DEF Running, Early, Proceed, Serve, ServeReturns, ClearReturns, CancelReturns,
         ForgetReturns, Listen, start_treemap, StartFails, StartReturns
<1>4. \A d \in Call : d # c => Idle(d)
  BY <1>2, <1>3, OthersIdle
<1>5. ASSUME \A d \in Call : d # c => pc'[d] = pc[d] /\ wpc'[d] = wpc[d], Journey(c)', Awaited', Rests'
      PROVE  Serial'
  BY <1>4, <1>5, OneMoves DEF Idle, Serial
<1>6. CASE Serve(c)
  <2>1. UNCHANGED <<screen, events, walkers>> /\ pc'[c] = "served" /\ pc[c] = "serve"
    BY <1>6 DEF Serve, TypeOK
  <2>2. Journey(c)'
    BY <1>1, <1>2, <2>1 DEF Journey, Early, Walking, Here, screen
  <2>3. Awaited' /\ Rests'
    BY <1>2, <2>1 DEF Awaited, Rests, Here, screen
  <2> QED
    BY <1>5, <1>6, <2>1, <2>2, <2>3 DEF Serve, TypeOK
<1>7. CASE ServeReturns(c)
  <2>1. pc[c] = "served" /\ UNCHANGED <<stack, root, events, wpc>> /\ stopWalk(c, response)
    BY <1>7 DEF ServeReturns
  <2>2. events = <<>> /\ wpc[c] = "none" /\ root[c] = currentRoot(stack') /\ root[c] \in Folder
    BY <1>2, <2>1 DEF Journey, Early, Here, HasRoot
  <2> QED
    BY <1>4, <2>1, <2>2, stopWalkSerial DEF Serial
<1>8. CASE ClearReturns(c)
  <2>1. pc[c] = "clear" /\ stack' = <<>> /\ UNCHANGED <<root, events, wpc>> /\ stopWalk(c, None)
    BY <1>8 DEF ClearReturns
  <2>2. events = <<>> /\ wpc[c] = "none" /\ root[c] = currentRoot(stack') /\ root[c] \in Folder
    BY <1>2, <2>1, HomeIsFolder DEF Journey, Early, currentRoot
  <2> QED
    BY <1>4, <2>1, <2>2, stopWalkSerial DEF Serial
<1>9. CASE CancelReturns(c)
  <2>1. UNCHANGED <<screen, events, wpc>> /\ pc'[c] = "forget" /\ pc[c] = "cancel"
    BY <1>9 DEF CancelReturns, TypeOK
  <2>2. Journey(c)'
    BY <1>1, <1>2, <2>1 DEF Journey, Early, Walking, Here, screen
  <2>3. Awaited' /\ Rests'
    BY <1>2, <2>1 DEF Awaited, Rests, Here, screen
  <2> QED
    BY <1>5, <1>9, <2>1, <2>2, <2>3 DEF CancelReturns, TypeOK
<1>10. CASE ForgetReturns(c)
  <2>1. pc[c] = "forget" /\ UNCHANGED <<stack, root, events, wpc>> /\ Stopped(c, response)
    BY <1>10 DEF ForgetReturns
  <2>2. events = <<>> /\ wpc[c] = "none" /\ root[c] = currentRoot(stack')
    BY <1>2, <2>1 DEF Journey, Early, Here
  <2>3. root[c] \in Folder
    BY <2>2, RootIsFolder, <2>1 DEF TypeOK
  <2> QED
    BY <1>4, <2>1, <2>2, <2>3, StoppedSerial DEF Serial
<1>11. ASSUME NEW channel \in {"progress", "done"}, Listen(c, channel) PROVE Serial'
  <2>1. /\ UNCHANGED <<stack, scanning, error, response, events, walkers>>
        /\ pc[c] = channel /\ pc'[c] \in {"done", "start"}
    BY <1>11 DEF Listen, TypeOK
  <2>2. Journey(c)'
    BY <1>1, <1>2, <2>1 DEF Journey, Early, Walking, Here
  <2>3. Awaited' /\ Rests'
    BY <1>2, <2>1 DEF Awaited, Rests, Here
  <2> QED
    BY <1>5, <1>11, <2>1, <2>2, <2>3 DEF Listen, TypeOK
<1>12. CASE start_treemap(c)
  <2>1. /\ UNCHANGED <<screen, events, cancelled>>
        /\ pc[c] = "start" /\ pc'[c] = "started" /\ wpc'[c] = "walk"
    BY <1>12 DEF start_treemap, TypeOK
  <2>2. scanning /\ events = <<>> /\ root[c] = Here /\ wpc[c] = "none" /\ c \notin cancelled
    BY <1>2, <2>1 DEF Journey, Early, Begun
  <2>3. Journey(c)'
    BY <1>1, <2>1, <2>2 DEF Journey, Early, Walking, Here, screen
  <2>4. Awaited' /\ Rests'
    BY <1>2, <2>1, <2>2 DEF Awaited, Rests, Here, screen
  <2> QED
    BY <1>5, <1>12, <2>3, <2>4 DEF start_treemap, TypeOK
<1>13. CASE StartFails(c)
  <2>1. /\ UNCHANGED <<events, wpc>> /\ error' = TRUE
        /\ pc[c] = "start" /\ pc'[c] = "over"
    BY <1>13 DEF StartFails, TypeOK
  <2>2. events = <<>> /\ wpc[c] = "none"
    BY <1>2, <2>1 DEF Journey, Early
  <2>3. Journey(c)' /\ Awaited' /\ Rests'
    BY <2>1, <2>2 DEF Journey, Early, Walking, Awaited, Rests
  <2> QED
    BY <1>5, <1>13, <2>3 DEF StartFails, TypeOK
<1>14. CASE StartReturns(c)
  <2>1. /\ UNCHANGED <<stack, response, scanning, error, events, walkers>>
        /\ pc[c] = "started" /\ pc' = [pc EXCEPT ![c] = "over"]
    BY <1>14 DEF StartReturns
  <2>2. pc'[c] = "over" /\ \A d \in Call : d # c => pc'[d] = pc[d]
    BY <2>1 DEF TypeOK
  <2>3. Journey(c)'
    BY <1>1, <1>2, <2>1, <2>2 DEF Journey, Early, Walking, Here
  <2>4. Awaited'
    BY <1>2, <2>1 DEF Awaited, Here
  <2>5. Rests'
    BY <1>2, <2>1, <2>2 DEF Rests, Here
  <2> QED
    BY <1>5, <2>1, <2>2, <2>3, <2>4, <2>5
<1> QED
  BY <1>6, <1>7, <1>8, <1>9, <1>10, <1>11, <1>12, <1>13, <1>14 DEF Proceed

LEMMA WalkerSerial ==
  ASSUME SInv, NEW w \in Call, Walker(w), mounted', late' = 0
  PROVE  Serial'
<1> USE DEF SInv, IInv, screen, calls
<1>1. mounted /\ late = 0 /\ UNCHANGED <<screen, calls, cancelled>>
  <2>1. UNCHANGED <<screen, calls, cancelled>>
    BY DEF Walker, Visit, LoopEnds, emit_done, CheckCancelled, on_done_tree
  <2>2. mounted' = mounted /\ late' = late
    BY DEF Walker, Visit, LoopEnds, emit_done, CheckCancelled, on_done_tree
  <2>3. mounted /\ late = 0
    BY <2>2
  <2> QED
    BY <2>1, <2>3, Zenon
<1>2. Alone /\ Journey(w) /\ Awaited /\ Rests
  BY <1>1 DEF Serial
<1>3. Running(w) /\ wpc[w] \in Walking
  BY DEF Running, Walking, Walker, Visit, LoopEnds, emit_done, CheckCancelled, on_done_tree
<1>4. /\ \A d \in Call : d # w => Idle(d)
      /\ pc[w] \notin Early /\ root[w] = Here /\ w \notin cancelled
  BY <1>2, <1>3, OthersIdle DEF Journey, Walking
<1>5. \A d \in Call : d # w => wpc'[d] = wpc[d]
  BY DEF Walker, Visit, LoopEnds, emit_done, CheckCancelled, on_done_tree, TypeOK
<1>6. Rests'
  BY <1>1, <1>2 DEF Rests, Here
<1>7. ASSUME Journey(w)', Awaited' PROVE Serial'
  BY <1>1, <1>4, <1>5, <1>6, <1>7, OneMoves DEF Idle, Serial
<1>8. ASSUME NEW channel \in {"progress", "done"}, NEW files \in SUBSET File, Emitted(w, channel, files)
      PROVE  /\ \A i \in DOMAIN events' :
                  i = Len(events') \/ (i \in DOMAIN events /\ events'[i] = events[i])
             /\ events'[Len(events')].channel = channel
             /\ events'[Len(events')].tree = TreeOf(root[w], files)
  <2> DEFINE e == [channel |-> channel, tree |-> TreeOf(root[w], files)]
  <2>1. events' = Append(events, e) /\ e.channel = channel /\ e.tree = TreeOf(root[w], files)
    BY <1>8 DEF Emitted
  <2>0. e \in Event
    <3>1. root[w] \in Folder
      BY <1>3 DEF HasRoot, Walking
    <3> QED
      BY <3>1 DEF Event, Tree, TreeOf
  <2> HIDE DEF e
  <2>2. /\ Len(events') = Len(events) + 1 /\ events'[Len(events')] = e
        /\ \A i \in DOMAIN events' :
             i = Len(events') \/ (i \in DOMAIN events /\ events'[i] = events[i])
    BY <2>0, <2>1, LastIsNew DEF TypeOK
  <2> QED
    BY <2>1, <2>2
<1>9. CASE Visit(w)
  <2>1. scanning /\ (\A i \in DOMAIN events : events[i].channel # "done") /\ UNCHANGED wpc
    BY <1>2, <1>9 DEF Visit, Journey
  <2>2. CASE UNCHANGED events
    BY <1>1, <1>2, <1>7, <2>1, <2>2 DEF Journey, Awaited, Early, Walking, Here
  <2>3. ASSUME NEW f \in Under(root[w]), Emitted(w, "progress", seen[w] \cup {f}) PROVE Serial'
    <3>0. seen[w] \cup {f} \in SUBSET File
      BY UnderFiles DEF TypeOK
    <3>1. \A i \in DOMAIN events' : events'[i].channel # "done"
      BY <1>8, <2>1, <2>3, <3>0
    <3>2. Journey(w)'
      BY <1>1, <1>2, <1>4, <2>1, <3>1 DEF Journey, Early, Walking, Here
    <3>3. Awaited'
      BY <1>1, <2>1, <3>1 DEF Awaited
    <3> QED
      BY <1>7, <3>2, <3>3
  <2> QED
    BY <1>9, <2>2, <2>3 DEF Visit
<1>10. CASE LoopEnds(w)
  <2>1. UNCHANGED events /\ wpc[w] = "walk" /\ wpc'[w] = "emit"
    BY <1>10 DEF LoopEnds, TypeOK
  <2> QED
    BY <1>1, <1>2, <1>7, <2>1 DEF Journey, Awaited, Early, Walking, Here
<1>11. CASE emit_done(w)
  <2>1. wpc[w] = "emit" /\ wpc'[w] = "check" /\ Emitted(w, "done", seen[w])
    BY <1>11 DEF emit_done, TypeOK
  <2>2. scanning /\ seen[w] = Under(Here) /\ \A i \in DOMAIN events : events[i].channel # "done"
    BY <1>2, <1>4, <2>1 DEF Journey, SeenWhole
  <2>3. Journey(w)'
    BY <1>1, <1>4, <2>1 DEF Journey, Early, Walking, Here
  <2>4. seen[w] \in SUBSET File
    BY DEF TypeOK
  <2>5. \A i \in DOMAIN events' : i # Len(events') => events'[i].channel # "done"
    BY <1>8, <2>1, <2>2, <2>4
  <2>6. events'[Len(events')].tree = TreeOf(Here, Under(Here))
    BY <1>4, <1>8, <2>1, <2>2, <2>4
  <2>7. Awaited'
    BY <1>1, <2>2, <2>5, <2>6 DEF Awaited, Here
  <2> QED
    BY <1>7, <2>3, <2>7
<1>12. CASE CheckCancelled(w)
  <2>1. UNCHANGED events /\ wpc'[w] \in {"store", "gone"}
    BY <1>12 DEF CheckCancelled, TypeOK
  <2> QED
    BY <1>1, <1>2, <1>4, <1>7, <2>1 DEF Journey, Awaited, Early, Walking, Here
<1>13. CASE on_done_tree(w)
  <2>1. UNCHANGED events /\ wpc'[w] = "gone"
    BY <1>13 DEF on_done_tree, TypeOK
  <2> QED
    BY <1>1, <1>2, <1>4, <1>7, <2>1 DEF Journey, Awaited, Early, Walking, Here
<1> QED
  BY <1>9, <1>10, <1>11, <1>12, <1>13 DEF Walker

LEMMA DeliverSerial == ASSUME SInv, Deliver, mounted', late' = 0 PROVE Serial'
<1> USE DEF SInv, IInv, TypeOK
<1>1. mounted /\ late = 0 /\ UNCHANGED <<stack, error, pc, root, wpc, cancelled>>
  <2>1. UNCHANGED <<mounted, late, stack, error, pc, root, wpc, cancelled>>
    BY DEF Deliver, calls, walkers
  <2> QED
    BY <2>1
<1>2. Alone /\ (\A c \in Call : Journey(c)) /\ Awaited /\ Rests /\ events # <<>>
  BY <1>1 DEF Serial, Deliver
<1>3. scanning /\ \A c \in Call : pc[c] \notin Early
  BY <1>2 DEF Awaited, Journey
<1>4. /\ Head(events) = events[1] /\ Len(events') = Len(events) - 1 /\ Len(events) \in Nat \ {0}
      /\ DOMAIN events = 1..Len(events) /\ DOMAIN events' = 1..(Len(events) - 1)
      /\ \A i \in DOMAIN events' : events'[i] = events[i + 1] /\ i + 1 \in DOMAIN events
  BY <1>2 DEF Deliver
<1>5. Alone'
  BY <1>1, <1>2 DEF Alone, Running
<1>6. CASE UNCHANGED <<response, scanning>>
  <2>1. \A c \in Call : Journey(c)'
    BY <1>1, <1>2, <1>3, <1>4, <1>6 DEF Journey, Early, Walking, Here
  <2>2. Awaited' /\ Rests'
    BY <1>1, <1>2, <1>3, <1>4, <1>6 DEF Awaited, Rests, Here
  <2> QED
    BY <1>5, <2>1, <2>2 DEF Serial
<1>7. CASE /\ response' = ViewOf(Head(events).tree)
           /\ scanning' = (scanning /\ Head(events).channel # "done")
  <2>1. CASE Head(events).channel = "done"
    <3>1. 1 = Len(events) /\ Head(events).tree = TreeOf(Here, Under(Here))
      BY <1>2, <1>4, <2>1 DEF Awaited
    <3>2. events' = <<>> /\ DOMAIN events' = {} /\ \A c \in Call : wpc[c] \notin {"walk", "emit"}
      BY <1>2, <1>4, <2>1, <3>1 DEF Deliver, Journey
    <3>3. \A c \in Call : Journey(c)'
      BY <1>1, <1>2, <1>3, <3>2 DEF Journey, Early, Walking, Here
    <3>4. ShowsWhole(response', Here') /\ response' # None
      <4>1. Here \in Folder /\ Under(Here) \in SUBSET File
        BY RootIsFolder, UnderFiles DEF Here
      <4>2. TreeOf(Here, Under(Here)) \in Tree
        BY <4>1 DEF TreeOf, Tree
      <4>3. response' = Whole(Here') /\ response' \in View
        BY <1>1, <1>7, <3>1, <4>2, WholeIsView DEF Whole, Here
      <4> QED
        BY <1>1, <4>1, <4>3, NoneAssumption, WholeShows DEF Here
    <3>5. Awaited' /\ Rests'
      BY <3>2, <3>4 DEF Awaited, Rests
    <3> QED
      BY <1>5, <3>3, <3>5 DEF Serial
  <2>2. CASE Head(events).channel # "done"
    <3>1. scanning'
      BY <1>3, <1>7, <2>2
    <3>2. \A c \in Call : Journey(c)'
      BY <1>1, <1>2, <1>3, <1>4, <3>1 DEF Journey, Early, Walking, Here
    <3>3. Awaited' /\ Rests'
      BY <1>1, <1>2, <1>4, <3>1 DEF Awaited, Rests, Here
    <3> QED
      BY <1>5, <3>2, <3>3 DEF Serial
  <2> QED
    BY <2>1, <2>2
<1> QED
  BY <1>6, <1>7 DEF Deliver

LEMMA SInvStep == SInv /\ [Next]_vars => SInv'
<1> SUFFICES ASSUME SInv, [Next]_vars PROVE SInv'
  OBVIOUS
<1>1. IInv' /\ Answered' /\ ServedIsWhole' /\ Begun'
  BY IInvStep, AnswerStep, BegunStep DEF SInv
<1>2. Serial'
  <2>1. CASE UNCHANGED vars
    BY <2>1 DEF SInv, Serial, Alone, Running, Journey, Awaited, Rests, Here,
                vars, screen, calls, backend, walkers
  <2>2. CASE mounted' /\ late' = 0 /\ Next
    BY <2>2, UserSerial, ProceedSerial, WalkerSerial, DeliverSerial DEF Next
  <2> QED
    BY <2>1, <2>2 DEF Serial
<1> QED
  BY <1>1, <1>2 DEF SInv

(* While its calls come one at a time and nothing failed, the screen at rest *)
(* shows the whole of the folder its breadcrumb names, with the biggest      *)
(* folders as far down as its tree goes: whatever was served from the cache, *)
(* walked, cancelled or delivered late (Disk.tsx).                           *)
THEOREM ScreenRestsOnWhole == Spec => []RestsOnWhole
<1>1. SInv => RestsOnWhole
  BY DEF SInv, Serial, Rests, RestsOnWhole, Here
<1> QED
  BY <1>1, SerialInit, SInvStep, PTL DEF Spec
=============================================================================
