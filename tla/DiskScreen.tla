----------------------------- MODULE DiskScreen -----------------------------
(* The disk usage screen (screens/Disk.tsx), the walker threads it starts    *)
(* (treemap/stream.rs) and the cache of finished trees (treemap/cache.rs).   *)
(* The screen is event driven: every await gives way to clicks, to events of *)
(* any walk and to other calls of its own.  Events name no walk, and a       *)
(* stopped walk goes on until it looks at its flag.                          *)
(*                                                                           *)
(* A path is a sequence of names below the home folder.  Sizes are           *)
(* abstracted into the set of files that were added up.  One instance of the *)
(* screen is followed, from mount to unmount; the files do not change.       *)
EXTENDS Naturals, Sequences
LOCAL INSTANCE SequencesExt

CONSTANTS File,      \* paths of the files
          Depth,     \* max_depth: levels of the tree that are kept
          MaxCall,   \* bound: calls of navigateTo, rescan and stopWalk
          MaxLate,   \* bound: calls that start while others run
          None

Home == <<>>
Call == 1..MaxCall

Under(path) == {f \in File : IsPrefix(path, f)}
Folder == {Home} \cup UNION {{SubSeq(f, 1, n) : n \in 0..(Len(f) - 1)} : f \in File}

ASSUME DiskAssumption ==
  /\ Depth \in Nat \ {0} /\ MaxCall \in Nat \ {0} /\ MaxLate \in Nat
  /\ \A f \in File : f \in Seq(STRING) /\ f # Home

VARIABLES
  (* the screen *)
  mounted, stack, response, scanning, error,
  currentHandle, unsubscribe,  \* the walk to cancel, the listeners to remove
  listeners,   \* live listeners: <<call, channel>>
  pc,          \* where each call of the screen stands
  root,        \* what it was called for
  held,        \* the handle it passed to cancel and forget
  reply,       \* what serve_treemap_subtree answered it
  (* the back end; a walk is named after the call that started it *)
  events,      \* emitted and not yet delivered
  wpc, cancelled, seen, registry, cache,
  late         \* history: how many calls started while others ran

screen  == <<mounted, stack, response, scanning, error, currentHandle, unsubscribe, listeners>>
calls   == <<pc, root, held, reply>>
walkers == <<wpc, cancelled, seen>>
backend == <<events, walkers, registry, cache>>
vars == <<screen, calls, backend, late>>

-----------------------------------------------------------------------------
(* Trees and what is shown of them                                           *)

Path == Folder \cup File
Tree == [root : Folder, files : SUBSET File]
View == [tree : Tree, node : Folder]

ASSUME NoneAssumption == None \notin Folder /\ None \notin View

(* insert_file makes nodes for the first Depth components below the root.    *)
Nodes(tree) == {p \in Path : /\ Len(p) <= Len(tree.root) + Depth
                             /\ IsPrefix(tree.root, p)
                             /\ \E f \in tree.files : IsPrefix(p, f)}
Children(tree, node) == {p \in Nodes(tree) : Len(p) = Len(node) + 1 /\ IsPrefix(node, p)}

(* biggest_folders: the folders of the tree below the shown one.  The list   *)
(* stops at sixteen, which Reports is about; here it has room for all.       *)
Biggest(view) == {d \in Nodes(view.tree) \cap Folder : d # view.node /\ IsPrefix(view.node, d)}

(* The totals, the tiles, one for each child, and the list of the biggest    *)
(* folders, each with its files.                                             *)
Shown(view) ==
  LET With(paths) == {<<p, view.tree.files \cap Under(p)>> : p \in paths}
  IN [root    |-> view.node,
      files   |-> view.tree.files \cap Under(view.node),
      tiles   |-> With(Children(view.tree, view.node)),
      biggest |-> With(Biggest(view))]

TreeOf(path, files) == [root |-> path, files |-> files]
ViewOf(tree) == [tree |-> tree, node |-> tree.root]
Whole(path) == ViewOf(TreeOf(path, Under(path)))

longest_ancestor(target) ==
  {r \in DOMAIN cache : /\ IsPrefix(r, target)
                        /\ \A q \in DOMAIN cache : IsPrefix(q, target) => Len(q) <= Len(r)}

(* Mutant: a folder cut off at the depth cap is served like any other.       *)
CutServe(target) ==
  {[tree |-> cache[r], node |-> target] :
     r \in {q \in longest_ancestor(target) : target = q \/ target \in Nodes(cache[q])}}

(* TreemapCache::serve: at most one view.  A folder that holds something and *)
(* has no children was cut off by the depth cap.                             *)
serve(target) ==
  {[tree |-> cache[r], node |-> target] :
     r \in {q \in longest_ancestor(target) :
              /\ target = q \/ target \in Nodes(cache[q])
              /\ Children(cache[q], target) = {} => cache[q].files \cap Under(target) = {}}}

-----------------------------------------------------------------------------

PC == {"none", "serve", "served", "clear", "cancel", "forget", "progress", "done",
       "start", "started", "over"}
Event == [channel : {"progress", "done"}, tree : Tree]

TypeOK ==
  /\ mounted \in BOOLEAN /\ scanning \in BOOLEAN /\ error \in BOOLEAN /\ late \in Nat
  /\ stack \in Seq(Folder)
  /\ response \in View \cup {None}
  /\ currentHandle \in Call \cup {None} /\ unsubscribe \in Call \cup {None}
  /\ listeners \subseteq Call \X {"progress", "done"}
  /\ pc \in [Call -> PC] /\ root \in [Call -> Folder \cup {None}]
  /\ held \in [Call -> Call \cup {None}] /\ reply \in [Call -> View \cup {None}]
  /\ events \in Seq(Event)
  /\ wpc \in [Call -> {"none", "walk", "emit", "check", "store", "gone"}]
  /\ cancelled \subseteq Call /\ seen \in [Call -> SUBSET File]
  /\ registry \subseteq Call
  /\ DOMAIN cache \subseteq Folder /\ \A r \in DOMAIN cache : cache[r] \in Tree

(* The component function: the first navigateTo runs at once.                *)
Init ==
  /\ mounted = TRUE /\ stack = <<>> /\ response = None /\ scanning = FALSE /\ error = FALSE
  /\ currentHandle = None /\ unsubscribe = None /\ listeners = {}
  /\ pc = [c \in Call |-> IF c = 1 THEN "serve" ELSE "none"]
  /\ root = [c \in Call |-> Home]
  /\ held = [c \in Call |-> None] /\ reply = [c \in Call |-> None]
  /\ events = <<>> /\ registry = {} /\ cache = <<>>
  /\ wpc = [c \in Call |-> "none"] /\ cancelled = {} /\ seen = [c \in Call |-> {}]
  /\ late = 0

currentRoot(s) == IF s = <<>> THEN Home ELSE s[Len(s)]

Running(c) == pc[c] \notin {"none", "over"} \/ wpc[c] \notin {"none", "gone"}

Quiet == events = <<>> /\ ~\E c \in Call : Running(c)

(* A new call of the screen's, numbered in order.                            *)
NextCall(c) ==
  /\ mounted
  /\ pc[c] = "none" /\ \A b \in Call : b < c => pc[b] # "none"
  /\ Quiet \/ late < MaxLate

Enter(c, path, first) ==
  /\ NextCall(c)
  /\ pc' = [pc EXCEPT ![c] = first]
  /\ root' = [root EXCEPT ![c] = path]
  /\ late' = IF Quiet THEN late ELSE late + 1

-----------------------------------------------------------------------------
(* What the user does                                                        *)

(* drillInto, and a click in the list of the biggest folders.                *)
DrillInto(c) ==
  /\ ~scanning /\ response # None
  /\ \E d \in Biggest(response) :
       /\ stack' = Append(stack, d)
       /\ Enter(c, d, "serve")
  /\ response' = None
  /\ UNCHANGED <<mounted, scanning, error, currentHandle, unsubscribe, listeners, held, reply, backend>>

(* popTo keeps the first idx + 1 entries of the breadcrumb; goHome none.     *)
PopTo(c) ==
  /\ ~scanning
  /\ \E n \in 0..Len(stack) :
       /\ stack' = SubSeq(stack, 1, n)
       /\ Enter(c, currentRoot(stack'), "serve")
  /\ response' = None
  /\ UNCHANGED <<mounted, scanning, error, currentHandle, unsubscribe, listeners, held, reply, backend>>

Rescan(c) ==
  /\ Enter(c, Home, "clear")
  /\ UNCHANGED <<screen, held, reply, backend>>

Retry(c) ==
  /\ error
  /\ Enter(c, currentRoot(stack), "serve")
  /\ UNCHANGED <<screen, held, reply, backend>>

-----------------------------------------------------------------------------
(* Calls of the screen, from await to await                                  *)

(* The rest of a call once nothing is left to cancel: the listeners go, and  *)
(* a served view is shown, or a walk begins, or the clean-up is over.        *)
Stopped(c, shown) ==
  /\ currentHandle' = None
  /\ listeners' = {l \in listeners : l[1] # unsubscribe} /\ unsubscribe' = None
  /\ held' = [held EXCEPT ![c] = None] /\ reply' = [reply EXCEPT ![c] = None]
  /\ \/ /\ root[c] = None
        /\ pc' = [pc EXCEPT ![c] = "over"]
        /\ response' = shown /\ UNCHANGED <<scanning, error>>
     \/ /\ root[c] # None /\ reply[c] # None
        /\ pc' = [pc EXCEPT ![c] = "over"]
        /\ response' = reply[c] /\ scanning' = FALSE /\ error' = FALSE
     \/ /\ root[c] # None /\ reply[c] = None
        /\ pc' = [pc EXCEPT ![c] = "progress"]
        /\ response' = shown /\ scanning' = TRUE /\ error' = FALSE

stopWalk(c, shown) ==
  \/ /\ currentHandle # None
     /\ held' = [held EXCEPT ![c] = currentHandle]
     /\ pc' = [pc EXCEPT ![c] = "cancel"]
     /\ response' = shown
     /\ UNCHANGED <<scanning, error, currentHandle, unsubscribe, listeners, reply>>
  \/ /\ currentHandle = None
     /\ Stopped(c, shown)

(* serve_treemap_subtree answers, and navigateTo goes on with the answer.    *)
Serve(c) ==
  /\ pc[c] = "serve"
  /\ \/ \E v \in serve(root[c]) : reply' = [reply EXCEPT ![c] = v]
     \/ serve(root[c]) = {} /\ UNCHANGED reply
  /\ pc' = [pc EXCEPT ![c] = "served"]
  /\ UNCHANGED <<screen, root, held, backend, late>>

ServeReturns(c) ==
  /\ pc[c] = "served"
  /\ stopWalk(c, response)
  /\ UNCHANGED <<mounted, stack, root, backend, late>>

(* Mutant: Rescan keeps the breadcrumb.                                      *)
ClearKeepsStack(c) ==
  /\ pc[c] = "clear"
  /\ cache' = <<>> /\ stack' = stack
  /\ stopWalk(c, None)
  /\ UNCHANGED <<mounted, root, events, walkers, registry, late>>

(* invalidate_treemap_cache                                                  *)
ClearReturns(c) ==
  /\ pc[c] = "clear"
  /\ cache' = <<>> /\ stack' = <<>>
  /\ stopWalk(c, None)
  /\ UNCHANGED <<mounted, root, events, walkers, registry, late>>

(* cancel_treemap; forget_treemap is then called with the handle the screen  *)
(* has by now, or fails for want of one.                                     *)
CancelReturns(c) ==
  /\ pc[c] = "cancel"
  /\ cancelled' = cancelled \cup ({held[c]} \cap registry)
  /\ held' = [held EXCEPT ![c] = currentHandle]
  /\ pc' = [pc EXCEPT ![c] = "forget"]
  /\ UNCHANGED <<screen, root, reply, events, wpc, seen, registry, cache, late>>

ForgetReturns(c) ==
  /\ pc[c] = "forget"
  /\ registry' = registry \ {held[c]}
  /\ Stopped(c, response)
  /\ UNCHANGED <<mounted, stack, root, events, walkers, cache, late>>

(* subscribeTreemap listens to one channel after the other; once it has      *)
(* both, navigateTo goes on before anything else happens.                    *)
Listen(c, channel) ==
  /\ pc[c] = channel
  /\ listeners' = listeners \cup {<<c, channel>>}
  /\ \/ /\ channel = "progress"
        /\ pc' = [pc EXCEPT ![c] = "done"] /\ UNCHANGED unsubscribe
     \/ /\ channel = "done"
        /\ pc' = [pc EXCEPT ![c] = "start"] /\ unsubscribe' = c
  /\ UNCHANGED <<mounted, stack, response, scanning, error, currentHandle,
                 root, held, reply, backend, late>>

(* start_treemap spawns a walker, or finds no root.                          *)
start_treemap(c) ==
  /\ pc[c] = "start"
  /\ registry' = registry \cup {c}
  /\ wpc' = [wpc EXCEPT ![c] = "walk"]
  /\ pc' = [pc EXCEPT ![c] = "started"]
  /\ UNCHANGED <<screen, root, held, reply, events, cancelled, seen, cache, late>>

StartFails(c) ==
  /\ pc[c] = "start"
  /\ error' = TRUE /\ scanning' = FALSE
  /\ pc' = [pc EXCEPT ![c] = "over"]
  /\ UNCHANGED <<mounted, stack, response, currentHandle, unsubscribe, listeners,
                 root, held, reply, backend, late>>

StartReturns(c) ==
  /\ pc[c] = "started"
  /\ currentHandle' = c
  /\ pc' = [pc EXCEPT ![c] = "over"]
  /\ UNCHANGED <<mounted, stack, response, scanning, error, unsubscribe, listeners,
                 root, held, reply, backend, late>>

(* onCleanup calls stopWalk and does not wait for it.                        *)
Unmount(c) ==
  /\ NextCall(c)
  /\ mounted' = FALSE
  /\ root' = [root EXCEPT ![c] = None]
  /\ \/ /\ currentHandle # None
        /\ held' = [held EXCEPT ![c] = currentHandle]
        /\ pc' = [pc EXCEPT ![c] = "cancel"]
        /\ UNCHANGED <<unsubscribe, listeners>>
     \/ /\ currentHandle = None
        /\ pc' = [pc EXCEPT ![c] = "over"]
        /\ listeners' = {l \in listeners : l[1] # unsubscribe} /\ unsubscribe' = None
        /\ UNCHANGED held
  /\ UNCHANGED <<stack, response, scanning, error, currentHandle, reply, backend, late>>

-----------------------------------------------------------------------------
(* A walker: run_treemap_stream                                              *)

Emitted(w, channel, files) ==
  events' = Append(events, [channel |-> channel, tree |-> TreeOf(root[w], files)])

(* One more file is added up, and a snapshot may be due.  Bound: one         *)
(* undelivered snapshot at a time.                                           *)
Visit(w) ==
  /\ wpc[w] = "walk" /\ w \notin cancelled
  /\ \E f \in Under(root[w]) \ seen[w] :
       /\ seen' = [seen EXCEPT ![w] = seen[w] \cup {f}]
       /\ \/ UNCHANGED events
          \/ /\ \A i \in DOMAIN events : events[i].channel # "progress"
             /\ Emitted(w, "progress", seen[w] \cup {f})
  /\ UNCHANGED <<screen, calls, wpc, cancelled, registry, cache, late>>

(* The loop ends at the last entry, or at the first after a cancel.          *)
LoopEnds(w) ==
  /\ wpc[w] = "walk"
  /\ w \in cancelled \/ seen[w] = Under(root[w])
  /\ wpc' = [wpc EXCEPT ![w] = "emit"]
  /\ UNCHANGED <<screen, calls, events, cancelled, seen, registry, cache, late>>

emit_done(w) ==
  /\ wpc[w] = "emit"
  /\ Emitted(w, "done", seen[w])
  /\ wpc' = [wpc EXCEPT ![w] = "check"]
  /\ UNCHANGED <<screen, calls, cancelled, seen, registry, cache, late>>

CheckCancelled(w) ==
  /\ wpc[w] = "check"
  /\ \/ /\ w \notin cancelled
        /\ wpc' = [wpc EXCEPT ![w] = "store"] /\ UNCHANGED seen
     \/ /\ w \in cancelled
        /\ wpc' = [wpc EXCEPT ![w] = "gone"] /\ seen' = [seen EXCEPT ![w] = {}]
  /\ UNCHANGED <<screen, calls, events, cancelled, registry, cache, late>>

on_done_tree(w) ==
  /\ wpc[w] = "store"
  /\ cache' = [r \in DOMAIN cache \cup {root[w]} |->
                 IF r = root[w] THEN TreeOf(root[w], seen[w]) ELSE cache[r]]
  /\ wpc' = [wpc EXCEPT ![w] = "gone"] /\ seen' = [seen EXCEPT ![w] = {}]
  /\ UNCHANGED <<screen, calls, events, cancelled, registry, late>>

(* Mutant: onDone shows the tree and leaves the spinner on.                  *)
DeliverSpins ==
  /\ events # <<>>
  /\ events' = Tail(events)
  /\ \/ /\ \E c \in Call : <<c, Head(events).channel>> \in listeners
        /\ response' = ViewOf(Head(events).tree)
     \/ /\ \A c \in Call : <<c, Head(events).channel>> \notin listeners
        /\ UNCHANGED response
  /\ UNCHANGED <<mounted, stack, scanning, error, currentHandle, unsubscribe, listeners,
                 calls, walkers, registry, cache, late>>

(* The oldest event reaches the listeners of its channel.                    *)
Deliver ==
  /\ events # <<>>
  /\ events' = Tail(events)
  /\ LET e == Head(events) IN
       \/ /\ \E c \in Call : <<c, e.channel>> \in listeners
          /\ response' = ViewOf(e.tree)
          /\ scanning' = (scanning /\ e.channel # "done")
       \/ /\ \A c \in Call : <<c, e.channel>> \notin listeners
          /\ UNCHANGED <<response, scanning>>
  /\ UNCHANGED <<mounted, stack, error, currentHandle, unsubscribe, listeners,
                 calls, walkers, registry, cache, late>>

-----------------------------------------------------------------------------

User(c) == DrillInto(c) \/ PopTo(c) \/ Rescan(c) \/ Retry(c) \/ Unmount(c)

Proceed(c) ==
  \/ Serve(c) \/ ServeReturns(c) \/ ClearReturns(c) \/ CancelReturns(c) \/ ForgetReturns(c)
  \/ \E channel \in {"progress", "done"} : Listen(c, channel)
  \/ start_treemap(c) \/ StartFails(c) \/ StartReturns(c)

Walker(w) == Visit(w) \/ LoopEnds(w) \/ emit_done(w) \/ CheckCancelled(w) \/ on_done_tree(w)

Next == Deliver \/ \E c \in Call : User(c) \/ Proceed(c) \/ Walker(c)

(* Commands are answered, walkers are scheduled and events are delivered;    *)
(* the user owes nothing.                                                    *)
Fairness ==
  /\ WF_vars(Deliver)
  /\ \A c \in Call : WF_vars(Proceed(c)) /\ WF_vars(Walker(c))

Spec == Init /\ [][Next]_vars /\ Fairness

-----------------------------------------------------------------------------
(* Properties                                                                *)

(* Only whole trees are cached, wherever a cancel falls in the last steps of *)
(* a walk (stream.rs:70, "called once on non-cancelled completion").         *)
CacheIsWhole == \A r \in DOMAIN cache : cache[r] = TreeOf(r, Under(r))

(* What a walk of a folder shows, but in the list of the biggest folders     *)
(* only those down to a level of the tree.                                   *)
WalkDownTo(path, level) ==
  LET shown == Shown(Whole(path))
  IN [shown EXCEPT !.biggest = {e \in shown.biggest : Len(e[1]) <= level}]

(* Totals, tiles and the files of every folder in the list are a walk's.     *)
(* The list itself ends where the tree it was taken from does: out of an     *)
(* ancestor's tree it lacks the levels below that tree's depth cap.          *)
ShowsWhole(view, path) == Shown(view) = WalkDownTo(path, Len(view.tree.root) + Depth)

(* What is served for a folder, out of the tree of any of its ancestors, is  *)
(* what a walk of the folder itself would show, but for the levels of its    *)
(* biggest folders that the ancestor's tree does not have (cache.rs:105).    *)
ServedIsWhole ==
  \A c \in Call : reply[c] # None => ShowsWhole(reply[c], root[c])

(* While calls and walks of the screen come one at a time, it comes to rest  *)
(* on the whole of the folder the breadcrumb names, its list of the biggest  *)
(* folders as far down as the tree that it shows.                            *)
RestsOnWhole ==
  mounted /\ late = 0 /\ ~scanning /\ ~error /\ (\A c \in Call : pc[c] \in {"none", "over"}) =>
    response # None /\ ShowsWhole(response, currentRoot(stack))

(* However calls, cancels and events of other walks interleave, the screen   *)
(* does not say for ever that it is scanning.                                *)
SpinnerStops == (mounted /\ scanning) ~> (~mounted \/ ~scanning)
=============================================================================
