--------------------------- MODULE Startup_proofs ---------------------------
(* What the start-up screen's toggles do to the owner's files, for any files *)
(* of any of the sources, any edits and any crashes.                         *)
EXTENDS Startup, SequenceTheorems, WellFoundedInduction, TLAPS

(* Where the toggles of an entry are in a list of calls, and the last of     *)
(* them.                                                                     *)
Pending(q, e) == {n \in DOMAIN q : q[n].op = "toggle" /\ q[n].entry = e}
LastOf(q, e)  == {q[n] : n \in {m \in Pending(q, e) : \A k \in Pending(q, e) : k <= m}}

(* As far as the toggles go, list t says what list q says.                   *)
Same(t, q) == \A e : LastOf(t, e) \subseteq LastOf(q, e) /\ (Pending(t, e) = {} <=> Pending(q, e) = {})

LEMMA SameWorks ==
  ASSUME NEW t, NEW q, Same(t, q), NEW e
  PROVE  LastOf(t, e) \subseteq LastOf(q, e) /\ (Pending(t, e) = {} <=> Pending(q, e) = {})
  BY DEF Same

LEMMA Appended ==
  ASSUME NEW S, NEW q \in Seq(S), NEW x \in S, NEW t, t = Append(q, x)
  PROVE  /\ t \in Seq(S) /\ t # <<>> /\ DOMAIN t = 1..(Len(q) + 1) /\ t[Len(q) + 1] = x
         /\ \A n \in 1..Len(q) : t[n] = q[n]
  BY AppendProperties

LEMMA AppendedOther ==
  ASSUME NEW S, NEW q \in Seq(S), NEW x \in S, NEW e, ~(x.op = "toggle" /\ x.entry = e)
  PROVE  Pending(Append(q, x), e) = Pending(q, e) /\ LastOf(Append(q, x), e) = LastOf(q, e)
<1> DEFINE n == Len(q)
           t == Append(q, x)
<1>1. n \in Nat /\ DOMAIN q = 1..n /\ DOMAIN t = 1..(n + 1) /\ t[n + 1] = x /\ \A k \in 1..n : t[k] = q[k]
  BY Appended
<1> HIDE DEF n, t
<1>2. \A k \in 1..(n + 1) : k \in 1..n \/ k = n + 1
  BY <1>1
<1>3. Pending(t, e) = Pending(q, e)
  BY <1>1, <1>2 DEF Pending
<1>4. \A k \in Pending(q, e) : t[k] = q[k]
  BY <1>1 DEF Pending
<1> QED
  BY <1>3, <1>4 DEF LastOf, t

LEMMA AppendedToggle ==
  ASSUME NEW S, NEW q \in Seq(S), NEW x \in S, x.op = "toggle"
  PROVE  Pending(Append(q, x), x.entry) # {} /\ LastOf(Append(q, x), x.entry) = {x}
<1> DEFINE n == Len(q)
           t == Append(q, x)
           e == x.entry
<1>1. n \in Nat /\ DOMAIN q = 1..n /\ DOMAIN t = 1..(n + 1) /\ t[n + 1] = x /\ \A k \in 1..n : t[k] = q[k]
  BY Appended
<1> HIDE DEF n, t
<1>2. n + 1 \in Pending(t, e) /\ \A k \in Pending(t, e) : k \in 1..(n + 1)
  BY <1>1 DEF Pending
<1>3. \A k \in Pending(t, e) : (\A j \in Pending(t, e) : j <= k) => k = n + 1
  BY <1>1, <1>2
<1>4. \A k \in Pending(t, e) : k <= n + 1
  BY <1>1, <1>2
<1>5. LastOf(t, e) = {x}
  BY <1>1, <1>2, <1>3, <1>4 DEF LastOf
<1> QED
  BY <1>2, <1>5 DEF t

(* A list p is q with place i left out.                                      *)
Skips(p, q, i) ==
  /\ i \in 1..Len(q) /\ Len(q) = Len(p) + 1
  /\ \A n \in 1..Len(p) : p[n] = IF n < i THEN q[n] ELSE q[n + 1]

LEMMA TailSkips ==
  ASSUME NEW S, NEW q \in Seq(S), q # <<>>
  PROVE  Tail(q) \in Seq(S) /\ Skips(Tail(q), q, 1) /\ Head(q) = q[1] /\ Head(q) \in S
<1>1. Head(q) \in S /\ Tail(q) \in Seq(S) /\ Len(Tail(q)) = Len(q) - 1
      /\ \A i \in 1..Len(Tail(q)) : Tail(q)[i] = q[i + 1]
  BY HeadTailProperties
<1>2. Len(q) \in Nat /\ Len(q) # 0 /\ Head(q) = q[1]
  OBVIOUS
<1>3. Len(q) = Len(Tail(q)) + 1 /\ 1 \in 1..Len(q)
  BY <1>1, <1>2
<1>4. \A n \in 1..Len(Tail(q)) : ~(n < 1)
  OBVIOUS
<1> QED
  BY <1>1, <1>2, <1>3, <1>4 DEF Skips

Cut(q, i) == SubSeq(q, 1, i - 1) \o SubSeq(q, i + 1, Len(q))

LEMMA RemoveSkips ==
  ASSUME NEW S, NEW q \in Seq(S), NEW i \in DOMAIN q
  PROVE  Cut(q, i) \in Seq(S) /\ Skips(Cut(q, i), q, i)
<1> DEFINE a == SubSeq(q, 1, i - 1)
           b == SubSeq(q, i + 1, Len(q))
           m == Len(q)
<1>1. m \in Nat /\ DOMAIN q = 1..m /\ i \in Int /\ 1 <= i /\ i <= m
  OBVIOUS
<1>2. a \in Seq(S) /\ Len(a) = i - 1 /\ \A n \in 1..(i - 1) : a[n] = q[n]
  OBVIOUS
<1>3. b \in Seq(S) /\ Len(b) = m - i /\ \A n \in 1..(m - i) : b[n] = q[i + n]
  OBVIOUS
<1> HIDE DEF a, b, m
<1>4. /\ a \o b \in Seq(S) /\ Len(a \o b) = Len(a) + Len(b)
      /\ \A n \in 1..(Len(a) + Len(b)) : (a \o b)[n] = IF n <= Len(a) THEN a[n] ELSE b[n - Len(a)]
  BY <1>2, <1>3, ConcatProperties
<1>5. Len(a) + Len(b) = m - 1
  BY <1>1, <1>2, <1>3
<1>6. ASSUME NEW n \in 1..(m - 1) PROVE (a \o b)[n] = IF n < i THEN q[n] ELSE q[n + 1]
  <2>1. (a \o b)[n] = IF n <= Len(a) THEN a[n] ELSE b[n - Len(a)]
    BY <1>4, <1>5
  <2>2. CASE n < i
    <3>1. n \in 1..(i - 1) /\ n <= Len(a)
      BY <1>1, <1>2, <2>2
    <3> QED
      BY <1>2, <2>1, <2>2, <3>1
  <2>3. CASE ~(n < i)
    <3>1. ~(n <= Len(a)) /\ n - Len(a) \in 1..(m - i) /\ i + (n - Len(a)) = n + 1
      BY <1>1, <1>2, <2>3
    <3>2. b[n - Len(a)] = q[n + 1]
      BY <1>3, <3>1
    <3> QED
      BY <2>1, <2>3, <3>1, <3>2
  <2> QED
    BY <2>2, <2>3
<1>7. Cut(q, i) = a \o b
  BY DEF Cut, a, b
<1>8. Len(a \o b) = m - 1 /\ m = (m - 1) + 1 /\ i \in 1..m
  BY <1>1, <1>4, <1>5
<1> QED
  BY <1>4, <1>6, <1>7, <1>8 DEF Skips, m

(* What stays of the toggles of an entry when one place is left out.         *)
LEMMA Skipped ==
  ASSUME NEW S, NEW p \in Seq(S), NEW q \in Seq(S), NEW i, Skips(p, q, i), NEW e
  PROVE  /\ i \notin Pending(q, e) \/ i = 1 => LastOf(p, e) \subseteq LastOf(q, e)
         /\ i \notin Pending(q, e) => (Pending(p, e) = {} <=> Pending(q, e) = {})
         /\ i \in Pending(q, e) /\ Pending(p, e) = {} => q[i] \in LastOf(q, e)
         /\ \A n \in DOMAIN q : n # i => \E m \in DOMAIN p : p[m] = q[n]
         /\ \A m \in DOMAIN p : \E n \in DOMAIN q : p[m] = q[n]
<1> DEFINE at(n) == IF n < i THEN n ELSE n + 1
<1>1. Len(p) \in Nat /\ DOMAIN p = 1..Len(p) /\ DOMAIN q = 1..Len(q)
  OBVIOUS
<1>2. i \in 1..Len(q) /\ Len(q) = Len(p) + 1 /\ \A n \in 1..Len(p) : p[n] = q[at(n)]
  BY DEF Skips
<1>3. \A n \in 1..Len(p) : at(n) \in 1..Len(q) /\ at(n) # i
  BY <1>1, <1>2
<1>4. ASSUME NEW m \in 1..Len(q), m # i PROVE \E n \in 1..Len(p) : at(n) = m
  <2>1. CASE m < i
    <3>1. m \in 1..Len(p) /\ at(m) = m
      BY <1>1, <1>2, <2>1
    <3> QED
      BY <3>1
  <2>2. CASE m > i
    <3>1. m - 1 \in 1..Len(p) /\ at(m - 1) = m
      BY <1>1, <1>2, <2>2
    <3> QED
      BY <3>1
  <2> QED
    BY <1>1, <1>2, <1>4, <2>1, <2>2
<1>5. \A m, n \in 1..Len(p) : m <= n => at(m) <= at(n)
  BY <1>1, <1>2
<1> HIDE DEF at
<1>6. \A n \in 1..Len(p) : n \in Pending(p, e) <=> at(n) \in Pending(q, e)
  BY <1>1, <1>2, <1>3 DEF Pending
<1>7. Pending(p, e) \subseteq 1..Len(p) /\ Pending(q, e) \subseteq 1..Len(q)
  BY <1>1 DEF Pending
<1>8. \A m \in Pending(q, e) : m # i => \E n \in Pending(p, e) : at(n) = m
  BY <1>4, <1>6, <1>7
<1>9. ASSUME i \notin Pending(q, e) \/ i = 1 PROVE LastOf(p, e) \subseteq LastOf(q, e)
  <2> SUFFICES ASSUME NEW n \in Pending(p, e), \A k \in Pending(p, e) : k <= n
               PROVE  p[n] \in LastOf(q, e)
    BY DEF LastOf
  <2>1. at(n) \in Pending(q, e) /\ p[n] = q[at(n)] /\ at(n) \in 1..Len(q) /\ n \in 1..Len(p)
    BY <1>2, <1>3, <1>6, <1>7
  <2>2. ASSUME NEW k \in Pending(q, e) PROVE k <= at(n)
    <3>1. CASE k = i
      BY <1>9, <2>1, <3>1
    <3>2. CASE k # i
      <4>1. PICK j \in Pending(p, e) : at(j) = k
        BY <1>8, <3>2
      <4>2. j <= n /\ j \in 1..Len(p)
        BY <1>7
      <4> QED
        BY <1>5, <2>1, <4>1, <4>2
    <3> QED
      BY <3>1, <3>2
  <2> QED
    BY <2>1, <2>2 DEF LastOf
<1>10. i \notin Pending(q, e) => (Pending(p, e) = {} <=> Pending(q, e) = {})
  BY <1>6, <1>7, <1>8
<1>11. ASSUME i \in Pending(q, e), Pending(p, e) = {} PROVE q[i] \in LastOf(q, e)
  <2>1. \A k \in Pending(q, e) : k = i
    BY <1>8, <1>11
  <2>2. \A k \in Pending(q, e) : k <= i
    BY <1>2, <2>1
  <2> QED
    BY <1>11, <2>2 DEF LastOf
<1>12. \A n \in DOMAIN q : n # i => \E m \in DOMAIN p : p[m] = q[n]
  BY <1>1, <1>2, <1>4
<1>13. \A m \in DOMAIN p : \E n \in DOMAIN q : p[m] = q[n]
  BY <1>1, <1>2, <1>3
<1> QED
  BY <1>9, <1>10, <1>11, <1>12, <1>13

(* A scan that was under way is asked for anew; the toggles stay.            *)
LEMMA TogglesKept ==
  ASSUME NEW S, NEW q \in Seq(S)
  PROVE  /\ Toggles(q) \in Seq(S) /\ Same(Toggles(q), q)
         /\ \A n \in DOMAIN q : q[n].op = "toggle" => \E m \in DOMAIN Toggles(q) : Toggles(q)[m] = q[n]
<1>1. CASE Scans(q) = {}
  BY <1>1 DEF Toggles, Same
<1>2. CASE Scans(q) # {}
  <2>1. PICK i \in Scans(q) : Toggles(q) = Cut(q, i)
    BY <1>2 DEF Toggles, Cut
  <2>2. /\ Toggles(q) \in Seq(S) /\ Skips(Toggles(q), q, i)
        /\ q[i].op = "scan" /\ \A e : i \notin Pending(q, e)
    BY <2>1, RemoveSkips DEF Scans, Pending
  <2>3. Same(Toggles(q), q)
    BY <2>2, Skipped DEF Same
  <2>4. \A n \in DOMAIN q : n # i => \E m \in DOMAIN Toggles(q) : Toggles(q)[m] = q[n]
    BY <2>2, Skipped
  <2>5. \A n \in DOMAIN q : q[n].op = "toggle" => n # i
    BY <2>2
  <2> QED
    BY <2>2, <2>3, <2>4, <2>5
<1> QED
  BY <1>1, <1>2

LEMMA Refetched ==
  ASSUME NEW S, NEW q \in Seq(S), [op |-> "scan"] \in S
  PROVE  refetch(q) \in Seq(S) /\ refetch(q) # <<>> /\ Same(refetch(q), q)
<1> DEFINE x == [op |-> "scan"]
           t == Toggles(q)
<1>1. t \in Seq(S) /\ Same(t, q)
  BY TogglesKept
<1>2. refetch(q) = Append(t, x) /\ x.op # "toggle" /\ x \in S
  BY DEF refetch
<1> HIDE DEF t, x
<1>3. Append(t, x) \in Seq(S) /\ Append(t, x) # <<>>
  BY <1>1, <1>2, AppendProperties
<1>4. \A e : Pending(Append(t, x), e) = Pending(t, e) /\ LastOf(Append(t, x), e) = LastOf(t, e)
  BY <1>1, <1>2, AppendedOther
<1> QED
  BY <1>1, <1>2, <1>3, <1>4 DEF Same

LEMMA LeastExists ==
  ASSUME NEW S \in SUBSET Nat, S # {} PROVE \E n \in S : \A m \in S : n <= m
<1>1. \E n \in S : \A m \in S : <<m, n>> \notin OpToRel(<, Nat)
  BY NatLessThanWellFounded, WFMin
<1>2. PICK n \in S : \A m \in S : <<m, n>> \notin OpToRel(<, Nat)
  BY <1>1
<1>3. ASSUME NEW m \in S PROVE n <= m
  <2>1. <<m, n>> \notin {p \in Nat \X Nat : p[1] < p[2]}
    BY <1>2 DEF OpToRel
  <2>2. m \in Nat /\ n \in Nat /\ ~(m < n)
    BY <2>1
  <2> QED
    BY <2>2
<1> QED
  BY <1>3
-----------------------------------------------------------------------------
(* What a text says at the next login, and whether reader and writer agree.  *)
Runs(s, t) ==
  CASE s = "desktop" -> is_autostart_enabled(t)
    [] s = "plist" -> ~parse_plist(t)
    [] OTHER -> TRUE

Good(s, t) ==
  CASE s = "desktop" -> t.header /\ t.application
    [] s = "plist" -> t.keys # <<>> => ReadKey(t) = find_disabled_key(t)
    [] OTHER -> TRUE

(* A text that a toggle to on may leave behind.                              *)
Switched(s, t, on) ==
  /\ on = TRUE /\ Good(s, t) => Runs(s, t)
  /\ on = FALSE /\ (Good(s, t) \/ s = "desktop") => ~Runs(s, t)

(* Between its steps a toggle holds the text it will write, made of the file *)
(* as it still is unless the owner touched it.                               *)
WorkOK ==
  work # None /\ work.entry \in Entries[os] =>
    LET e == work.entry IN
      \/ /\ work.step \in {"tmp", "rename"} /\ Source[e] \in {"desktop", "plist"}
         /\ work.text \in TextOf(e) /\ Switched(Source[e], work.text, work.enabled)
         /\ e \notin raced => file[e] # None /\ work.text.body = file[e].body
      \/ /\ work.step = "clear" /\ Source[e] = "shortcut" /\ ~work.enabled
         /\ e \notin raced => file[e] # None
      \/ /\ work.step = "move" /\ Source[e] = "shortcut"
         /\ e \notin raced /\ work.enabled => file[e] = None
      \/ /\ Source[e] = "unit"
         /\ e \notin raced => file[e] # None
         /\ \/ work.step = "look"
            \/ work.step = "link" /\ work.enabled
            \/ work.step = "unlink" /\ ~work.enabled

(* The file has the last text of its owner, or else the .disabled one.       *)
Held(e) ==
  IF written[e] = 0 THEN file[e] = None /\ shadow[e] = None
  ELSE IF file[e] # None THEN file[e].body = written[e]
  ELSE shadow[e] # None /\ shadow[e].body = written[e]

(* What was acknowledged is in the file, and in the links.                   *)
Kept(e) ==
  /\ acked[e] = FALSE /\ Source[e] = "shortcut" => file[e] = None
  /\ acked[e] = TRUE => file[e] # None \/ Vanished(e)
  /\ Source[e] = "unit" => (acked[e] = TRUE => wants[e] # "none") /\ (acked[e] = FALSE => wants[e] = "none")
  /\ Source[e] \in {"desktop", "plist"} /\ file[e] # None => Switched(Source[e], file[e], acked[e])

(* A unit is never written by a toggle, so that racing one loses nothing.    *)
Unsafe == {e \in raced : Source[e] # "unit"}

IInv ==
  /\ TypeOK /\ WorkOK
  /\ acked = [e \in Entries[os] |-> acked[e]]
  /\ \A e \in Entries[os] \ Unsafe : Held(e)
  /\ \A e \in Entries[os] : Kept(e)

USE StartupAssumption

LEMMA NoneIsNoText == None \notin DesktopText /\ None \notin PlistText /\ None \notin PlainText /\ TRUE # None /\ FALSE # None
  OBVIOUS

(* A rewritten autostart file launches exactly when it is to, if its session *)
(* reads it at all, and keeps the rest of its text.                          *)
THEOREM DesktopIsSwitched ==
  ASSUME NEW t \in DesktopText, NEW on
  PROVE /\ rewrite_desktop_hidden(t, ~on) \in DesktopText
        /\ rewrite_desktop_hidden(t, ~on).body = t.body
        /\ Switched("desktop", rewrite_desktop_hidden(t, ~on), on)
<1> DEFINE r == rewrite_desktop_hidden(t, ~on)
<1>1. CASE ~t.header
  <2>1. r = t
    BY <1>1 DEF rewrite_desktop_hidden
  <2> QED
    BY <2>1, <1>1 DEF Switched, Good, Runs, is_autostart_enabled
<1>2. CASE t.header
  <2>1. r = [t EXCEPT !.hidden = Bool(~on), !.gnome = IF t.gnome = "absent" THEN t.gnome ELSE Bool(~(~on))]
    BY <1>2 DEF rewrite_desktop_hidden
  <2>2. Bool(~on) \in {"true", "false"} /\ Bool(~(~on)) \in {"true", "false"}
    BY DEF Bool
  <2>3. /\ r.header = t.header /\ r.application = t.application /\ r.body = t.body /\ r.hidden = Bool(~on)
        /\ r.gnome = IF t.gnome = "absent" THEN t.gnome ELSE Bool(~(~on))
    BY <2>1 DEF DesktopText
  <2>4. r \in DesktopText
    BY <2>1, <2>2 DEF DesktopText
  <2>5. ASSUME on = TRUE, Good("desktop", r) PROVE Runs("desktop", r)
    BY <2>3, <2>5 DEF Good, Runs, is_autostart_enabled, Bool
  <2>6. ASSUME on = FALSE PROVE ~Runs("desktop", r)
    BY <2>3, <2>6 DEF Runs, is_autostart_enabled, Bool
  <2> QED
    BY <2>3, <2>4, <2>5, <2>6 DEF Switched
<1> QED
  BY <1>1, <1>2 DEF DesktopText

LEMMA FoundIsKey ==
  ASSUME NEW t \in PlistText, t.keys # <<>>
  PROVE find_disabled_key(t) \in DOMAIN t.keys
<1> DEFINE canonical == {n \in DOMAIN t.keys : t.keys[n].canonical}
           found == IF canonical = {} THEN DOMAIN t.keys ELSE canonical
<1>1. DOMAIN t.keys = 1..Len(t.keys) /\ 1 \in DOMAIN t.keys
  BY DEF PlistText
<1>2. found \in SUBSET Nat /\ found # {} /\ found \subseteq DOMAIN t.keys
  BY <1>1
<1>3. \E n \in found : \A m \in found : n <= m
  BY <1>2, LeastExists
<1>4. find_disabled_key(t) = CHOOSE n \in found : \A m \in found : n <= m
  BY <1>2 DEF find_disabled_key
<1> HIDE DEF found
<1> QED
  BY <1>2, <1>3, <1>4

LEMMA PlistReads ==
  ASSUME NEW t \in PlistText, NEW d \in BOOLEAN
  PROVE /\ rewrite_plist_disabled(t, d) \in PlistText
        /\ rewrite_plist_disabled(t, d).body = t.body
        /\ Good("plist", rewrite_plist_disabled(t, d)) => (parse_plist(rewrite_plist_disabled(t, d)) <=> d)
<1> DEFINE r == rewrite_plist_disabled(t, d)
           Key == [top : BOOLEAN, canonical : BOOLEAN, value : BOOLEAN]
           flag == [top |-> TRUE, canonical |-> TRUE, value |-> d]
<1>0. t.keys \in Seq(Key) /\ t.body \in Nat
  BY DEF PlistText
<1>1. CASE t.keys = <<>>
  <2>1. find_disabled_key(t) = 0
    BY <1>1 DEF find_disabled_key
  <2>2. r = [t EXCEPT !.keys = Append(t.keys, flag)]
    BY <2>1 DEF rewrite_plist_disabled
  <2>3. flag \in Key /\ Append(t.keys, flag) = <<flag>> /\ Append(t.keys, flag) \in Seq(Key)
    BY <1>0, <1>1
  <2> HIDE DEF flag, Key
  <2>4. r.keys = <<flag>> /\ r.body = t.body /\ r \in [keys : Seq(Key), body : Nat]
    BY <2>2, <2>3, <1>0 DEF PlistText
  <2>5. r \in PlistText
    BY <2>4 DEF PlistText, Key
  <2>6. {n \in DOMAIN r.keys : r.keys[n].top /\ r.keys[n].canonical} = {1}
    BY <2>4 DEF flag
  <2>7. ReadKey(r) = 1
    BY <2>6 DEF ReadKey
  <2>8. r.keys[1].value = d
    BY <2>4 DEF flag
  <2> QED
    BY <2>4, <2>5, <2>7, <2>8 DEF parse_plist
<1>2. CASE t.keys # <<>>
  <2> DEFINE n == find_disabled_key(t)
  <2>1. n \in DOMAIN t.keys /\ n \in 1..Len(t.keys)
    BY <1>2, <1>0, FoundIsKey
  <2>2. r = [t EXCEPT !.keys[n].value = d]
    BY <2>1 DEF rewrite_plist_disabled
  <2> DEFINE changed == [t.keys[n] EXCEPT !.value = d]
  <2>3. r.keys = [t.keys EXCEPT ![n] = changed] /\ r.body = t.body
    BY <2>2 DEF PlistText
  <2>4. t.keys[n] \in Key
    BY <2>1, <1>0, ElementOfSeq
  <2>5. changed \in Key /\ changed.top = t.keys[n].top /\ changed.canonical = t.keys[n].canonical /\ changed.value = d
    BY <2>4
  <2>6. r.keys \in Seq(Key) /\ DOMAIN r.keys = DOMAIN t.keys
    BY <2>1, <2>3, <2>5, <1>0, ExceptSeq
  <2>7. r \in PlistText
    BY <2>2, <2>3, <2>6, <1>0 DEF PlistText
  <2>8. \A m \in DOMAIN t.keys : r.keys[m].canonical = t.keys[m].canonical
    BY <2>1, <2>3, <2>5, <1>0
  <2>9. {m \in DOMAIN r.keys : r.keys[m].canonical} = {m \in DOMAIN t.keys : t.keys[m].canonical}
    BY <2>6, <2>8
  <2>10. find_disabled_key(r) = n
    <3> DEFINE First(dom, canonical) ==
          LET found == IF canonical = {} THEN dom ELSE canonical
          IN IF found = {} THEN 0 ELSE CHOOSE i \in found : \A m \in found : i <= m
    <3>1. find_disabled_key(r) = First(DOMAIN r.keys, {m \in DOMAIN r.keys : r.keys[m].canonical})
      BY DEF find_disabled_key
    <3>2. n = First(DOMAIN t.keys, {m \in DOMAIN t.keys : t.keys[m].canonical})
      BY DEF find_disabled_key
    <3> HIDE DEF First
    <3> QED
      BY <3>1, <3>2, <2>6, <2>9
  <2>11. r.keys # <<>> /\ r.keys[n].value = d /\ n # 0
    BY <2>1, <2>3, <2>5, <2>6, <1>0
  <2>12. Good("plist", r) => (parse_plist(r) <=> d)
    BY <2>10, <2>11 DEF Good, parse_plist
  <2> QED
    BY <2>3, <2>7, <2>12
<1> QED
  BY <1>1, <1>2

(* A rewritten launch agent is read as switched where the reader's key is    *)
(* the one the writer changes, and keeps the rest of its text.               *)
THEOREM PlistIsSwitched ==
  ASSUME NEW t \in PlistText, NEW on
  PROVE /\ rewrite_plist_disabled(t, ~on) \in PlistText
        /\ rewrite_plist_disabled(t, ~on).body = t.body
        /\ Switched("plist", rewrite_plist_disabled(t, ~on), on)
<1> DEFINE d == ~on
<1>1. d \in BOOLEAN
  OBVIOUS
<1>2. (on = TRUE => ~d) /\ (on = FALSE => d)
  OBVIOUS
<1> HIDE DEF d
<1>3. /\ rewrite_plist_disabled(t, d) \in PlistText
      /\ rewrite_plist_disabled(t, d).body = t.body
      /\ Good("plist", rewrite_plist_disabled(t, d)) => (parse_plist(rewrite_plist_disabled(t, d)) <=> d)
  BY <1>1, PlistReads
<1>4. Switched("plist", rewrite_plist_disabled(t, d), on)
  <2> DEFINE r == rewrite_plist_disabled(t, d)
  <2> HIDE DEF r
  <2>1. Good("plist", r) => (parse_plist(r) <=> d)
    BY <1>3 DEF r
  <2>2. Switched("plist", r, on)
    BY <1>2, <2>1 DEF Switched, Runs
  <2> QED
    BY <2>2 DEF r
<1> QED
  BY <1>3, <1>4 DEF d
-----------------------------------------------------------------------------
LEMMA InitHolds == Init => IInv
<1> SUFFICES ASSUME Init PROVE IInv
  OBVIOUS
<1>1. TypeOK
  BY DEF Init, TypeOK
<1>2. \A e \in Entries[os] : Held(e) /\ Kept(e)
  BY DEF Init, Held, Kept
<1> QED
  BY <1>1, <1>2 DEF Init, IInv, WorkOK

(* Steps that leave the files and the toggle alone.                          *)
LEMMA QuietHolds ==
  ASSUME IInv, UNCHANGED <<os, disk, work, written, raced, acked, writes>> PROVE IInv'
<1>1. TypeOK' /\ WorkOK'
  BY DEF IInv, TypeOK, TextOf, WorkOK, Switched, Good, Runs, disk
<1>2. \A e \in Entries[os] : Held(e)' = Held(e) /\ Kept(e)' = Kept(e)
  BY DEF Held, Kept, Vanished, Switched, Good, Runs, disk
<1> QED
  BY <1>1, <1>2 DEF IInv, Unsafe

LEMMA CrashHolds == ASSUME IInv, Crash PROVE IInv'
<1>1. TypeOK' /\ WorkOK'
  BY DEF IInv, TypeOK, TextOf, WorkOK, Crash, disk, ghosts
<1>2. \A e \in Entries[os] : Held(e)' = Held(e) /\ Kept(e)' = Kept(e)
  BY DEF Held, Kept, Vanished, Switched, Good, Runs, Crash, disk, ghosts
<1> QED
  BY <1>1, <1>2 DEF IInv, Crash, ghosts, Unsafe

LEMMA OwnerHolds ==
  ASSUME IInv, NEW e \in Entries[os], Touched(e), Write(e) \/ Delete(e) \/ Wire(e) PROVE IInv'
<1>1. /\ UNCHANGED <<os, work>> /\ writes' = writes + 1 /\ writes' \in 0..MaxWrites /\ writes' \in Nat \ {0}
      /\ raced' = IF work # None /\ work.entry = e THEN raced \cup {e} ELSE raced \ {e}
      /\ acked' = [acked EXCEPT ![e] = None]
  BY DEF Touched, IInv, TypeOK
<1>2. TypeOK' /\ (e \notin Unsafe' => Held(e)') /\ \A f \in Entries[os] \ {e} : file'[f] = file[f] /\ shadow'[f] = shadow[f] /\ written'[f] = written[f] /\ wants'[f] = wants[f]
  <2>1. CASE Write(e)
    <3>1. PICK v \in Versions[Source[e]] : file' = [file EXCEPT ![e] = [v EXCEPT !.body = writes']]
      BY <2>1 DEF Write
    <3>2. [v EXCEPT !.body = writes'] \in TextOf(e) /\ [v EXCEPT !.body = writes'].body = writes'
      <4>1. Source[e] \in {"desktop", "plist", "unit", "shortcut"}
        BY DEF IInv, TypeOK
      <4>2. CASE Source[e] = "desktop"
        BY <1>1, <3>1, <4>2 DEF TextOf, DesktopText
      <4>3. CASE Source[e] = "plist"
        <5>1. v \in PlistText
          BY <3>1, <4>3
        <5> QED
          BY <1>1, <5>1, <4>3 DEF TextOf, PlistText
      <4>4. CASE Source[e] \in {"unit", "shortcut"}
        <5>1. v \in PlainText
          BY <3>1, <4>4
        <5> QED
          BY <1>1, <5>1, <4>4 DEF TextOf, PlainText
      <4> QED
        BY <4>1, <4>2, <4>3, <4>4
    <3>3. written' = [written EXCEPT ![e] = writes'] /\ UNCHANGED <<shadow, wants>>
      BY <2>1 DEF Write
    <3> DEFINE w == [v EXCEPT !.body = writes']
    <3>4. w \in DesktopText \cup PlistText \cup PlainText /\ w # None
      BY <3>2 DEF TextOf
    <3> HIDE DEF w
    <3>5. file' = [file EXCEPT ![e] = w] /\ w \in TextOf(e) /\ w.body = writes'
      BY <3>1, <3>2 DEF w
    <3>6. TypeOK'
      BY <1>1, <3>3, <3>4, <3>5 DEF IInv, TypeOK, TextOf
    <3> QED
      BY <1>1, <3>3, <3>4, <3>5, <3>6 DEF IInv, TypeOK, Held
  <2>2. CASE Delete(e)
    BY <1>1, <2>2 DEF Delete, IInv, TypeOK, TextOf, Held
  <2>3. CASE Wire(e)
    BY <1>1, <2>3 DEF Wire, IInv, TypeOK, TextOf, Held, Unsafe
  <2> QED
    BY <2>1, <2>2, <2>3
<1>3. WorkOK'
  BY <1>1, <1>2 DEF IInv, WorkOK, Switched, Good, Runs, TextOf
<1>4. acked' = [f \in Entries[os] |-> acked'[f]] /\ acked'[e] = None /\ \A f \in Entries[os] \ {e} : acked'[f] = acked[f]
  BY <1>1 DEF IInv
<1>5. \A f \in (Entries[os] \ Unsafe') \ {e} : Held(f)'
  BY <1>1, <1>2 DEF IInv, Held, Unsafe
<1>6. \A f \in Entries[os] \ {e} : Kept(f)'
  BY <1>1, <1>2, <1>4 DEF IInv, Kept, Vanished, Switched, Good, Runs
<1>7. Kept(e)'
  BY <1>4 DEF Kept, Switched, Vanished
<1> QED
  BY <1>1, <1>2, <1>3, <1>4, <1>5, <1>6, <1>7 DEF IInv, Unsafe

(* A toggle that begins leaves the files as they are.                        *)
LEMMA ContinueHolds ==
  ASSUME IInv, NEW c, NEW step, NEW text, Continue(c, step, text), WorkOK' PROVE IInv'
<1>1. UNCHANGED <<os, file, shadow, wants, written, raced, acked, writes>>
  BY DEF Continue, disk, ghosts, counts
<1>2. TypeOK'
  BY <1>1 DEF IInv, TypeOK, TextOf
<1>3. \A e \in Entries[os] : Held(e)' = Held(e) /\ Kept(e)' = Kept(e)
  BY <1>1 DEF Held, Kept, Vanished, Switched, Good, Runs
<1> QED
  BY <1>1, <1>2, <1>3 DEF IInv, Unsafe

LEMMA AutostartHolds == ASSUME IInv, NEW c, toggle_autostart(c) PROVE IInv'
<1> DEFINE t == rewrite_desktop_hidden(file[c.entry], ~c.enabled)
<1>1. Continue(c, "tmp", t) /\ file[c.entry] # None /\ Source[c.entry] = "desktop"
  BY DEF toggle_autostart, Begins
<1>2. work' = [entry |-> c.entry, enabled |-> c.enabled, visit |-> c.visit, step |-> "tmp", text |-> t]
      /\ UNCHANGED <<os, file, raced>>
  BY <1>1 DEF Continue, disk, ghosts
<1>3. WorkOK'
  <2>1. SUFFICES ASSUME c.entry \in Entries[os] PROVE WorkOK'
    BY <1>2 DEF WorkOK
  <2>2. file[c.entry] \in DesktopText
    BY <1>1, <2>1 DEF IInv, TypeOK, TextOf
  <2>3. t \in DesktopText /\ t.body = file[c.entry].body /\ Switched("desktop", t, c.enabled)
    BY <2>2, DesktopIsSwitched
  <2> HIDE DEF t
  <2>4. /\ work'.entry = c.entry /\ work'.enabled = c.enabled /\ work'.step = "tmp" /\ work'.text = t
    BY <1>2
  <2> QED
    BY <1>1, <1>2, <2>3, <2>4 DEF WorkOK, TextOf, Switched, Good, Runs
<1> QED
  BY <1>1, <1>3, ContinueHolds

LEMMA UserAgentHolds == ASSUME IInv, NEW c, toggle_user_agent(c) PROVE IInv'
<1> DEFINE t == rewrite_plist_disabled(file[c.entry], ~c.enabled)
<1>1. Continue(c, "tmp", t) /\ file[c.entry] # None /\ Source[c.entry] = "plist"
  BY DEF toggle_user_agent, Begins
<1>2. work' = [entry |-> c.entry, enabled |-> c.enabled, visit |-> c.visit, step |-> "tmp", text |-> t]
      /\ UNCHANGED <<os, file, raced>>
  BY <1>1 DEF Continue, disk, ghosts
<1>3. WorkOK'
  <2>1. SUFFICES ASSUME c.entry \in Entries[os] PROVE WorkOK'
    BY <1>2 DEF WorkOK
  <2>2. file[c.entry] \in PlistText
    BY <1>1, <2>1 DEF IInv, TypeOK, TextOf
  <2>3. t \in PlistText /\ t.body = file[c.entry].body /\ Switched("plist", t, c.enabled)
    BY <2>2, PlistIsSwitched
  <2> HIDE DEF t
  <2>4. /\ work'.entry = c.entry /\ work'.enabled = c.enabled /\ work'.step = "tmp" /\ work'.text = t
    BY <1>2
  <2> QED
    BY <1>1, <1>2, <2>3, <2>4 DEF WorkOK, TextOf, Switched, Good, Runs
<1> QED
  BY <1>1, <1>3, ContinueHolds

(* A toggle that ends: the acknowledged entry must be as it says.            *)
LEMMA DoneHolds ==
  ASSUME IInv, NEW c, NEW ok \in BOOLEAN, Done(c, ok), TypeOK', UNCHANGED os,
         \A e \in Entries[os] \ Unsafe : Held(e)',
         \A e \in Entries[os] : acked'[e] = acked[e] => Kept(e)',
         ok /\ c.entry \in Entries[os] => Kept(c.entry)'
  PROVE IInv'
<1>1. work' = None /\ UNCHANGED <<written, raced>>
      /\ acked' = IF ok THEN [acked EXCEPT ![c.entry] = IF Beside(c.entry) THEN None ELSE c.enabled] ELSE acked
  BY DEF Done, Answer
<1>2. acked = [e \in Entries[os] |-> acked[e]]
  BY DEF IInv
<1>3. acked' = [e \in Entries[os] |-> acked'[e]]
  BY <1>1, <1>2
<1>4. \A e \in Entries[os] : acked'[e] = acked[e] \/ (ok /\ e = c.entry)
  BY <1>1, <1>2
<1> QED
  BY <1>1, <1>3, <1>4 DEF IInv, WorkOK, Unsafe

LEMMA RefuseHolds ==
  ASSUME IInv, NEW c, Done(c, FALSE), UNCHANGED <<os, disk, writes>> PROVE IInv'
<1>1. TypeOK' /\ \A e \in Entries[os] : Held(e)' = Held(e)
  BY DEF IInv, TypeOK, TextOf, disk, Held, Done, Answer
<1>2. \A e \in Entries[os] : acked'[e] = acked[e] => Kept(e)'
  BY DEF IInv, Kept, Vanished, Switched, Good, Runs, disk, Done, Answer
<1> QED
  BY <1>1, <1>2, DoneHolds DEF IInv

LEMMA SystemdHolds == ASSUME IInv, NEW c, toggle_systemd_user(c) PROVE IInv'
<1>1. Continue(c, "look", None) /\ file[c.entry] # None /\ Source[c.entry] = "unit"
  BY DEF toggle_systemd_user, Begins
<1>2. work'.entry = c.entry /\ work'.step = "look" /\ UNCHANGED <<os, file, raced>>
  BY <1>1 DEF Continue, disk, ghosts
<1>3. WorkOK'
  BY <1>1, <1>2 DEF WorkOK
<1> QED
  BY <1>1, <1>3, ContinueHolds

(* A step in the wants folder that answers: the entry of the unit is there or*)
(* not, as was asked for.                                                    *)
LEMMA WiredHolds ==
  ASSUME IInv, work # None, Done(work, TRUE), UNCHANGED <<file, shadow>>,
         work.step \in {"look", "link", "unlink"}, NEW e \in Entries[os], e = work.entry,
         NEW x \in {"none", "link", "other"}, wants' = [wants EXCEPT ![e] = x],
         (work.enabled = TRUE => x # "none") /\ (work.enabled = FALSE => x = "none")
  PROVE  IInv'
<1>1. UNCHANGED <<os, file, shadow, writes, written, raced>>
      /\ acked' = [acked EXCEPT ![work.entry] = IF Beside(work.entry) THEN None ELSE work.enabled]
  BY DEF Done, Answer, counts
<1>2. TypeOK' /\ \A f \in Entries[os] : Held(f)' = Held(f)
  BY <1>1 DEF IInv, TypeOK, TextOf, Held
<1>3. Kept(e)'
  <2>1. Source[e] = "unit" /\ (e \notin raced => file[e] # None)
    BY DEF IInv, WorkOK
  <2>2. acked'[e] \in {None, work.enabled}
    BY <1>1 DEF IInv
  <2>3. wants'[e] = x
    BY DEF IInv, TypeOK
  <2> QED
    BY <1>1, <2>1, <2>2, <2>3 DEF Kept, Vanished
<1>4. ASSUME NEW f \in Entries[os], acked'[f] = acked[f] PROVE Kept(f)'
  <2>1. CASE f = e
    BY <1>3, <2>1
  <2>2. CASE f # e
    <3>1. wants'[f] = wants[f]
      BY <2>2 DEF IInv, TypeOK
    <3> QED
      BY <1>1, <1>4, <3>1 DEF IInv, Kept, Vanished, Switched, Good, Runs
  <2> QED
    BY <2>1, <2>2
<1> QED
  BY <1>1, <1>2, <1>3, <1>4, DoneHolds DEF IInv

(* An answer that is about no entry changes none.                            *)
LEMMA OutsideHolds ==
  ASSUME IInv, Done(work, TRUE), UNCHANGED <<file, shadow>>, work.entry \notin Entries[os],
         wants' = wants \/ \E x : wants' = [wants EXCEPT ![work.entry] = x]
  PROVE  IInv'
<1>1. UNCHANGED <<os, file, shadow, wants, writes, written, raced>> /\ work' = None
  BY DEF Done, Answer, counts, IInv, TypeOK
<1>2. acked' = acked
  BY DEF Done, Answer, IInv
<1>3. TypeOK' /\ WorkOK'
  BY <1>1 DEF IInv, TypeOK, TextOf, WorkOK
<1>4. \A e \in Entries[os] : Held(e)' = Held(e) /\ Kept(e)' = Kept(e)
  BY <1>1, <1>2 DEF Held, Kept, Vanished, Switched, Good, Runs
<1> QED
  BY <1>1, <1>2, <1>3, <1>4 DEF IInv, Unsafe

LEMMA LookHolds == ASSUME IInv, LookInWants PROVE IInv'
<1>1. work # None /\ work.step = "look" /\ UNCHANGED <<disk, file, shadow, wants, tmp>>
  BY DEF LookInWants, disk
<1>2. CASE (work.enabled <=> wants[work.entry] # "none") /\ Done(work, TRUE)
  <2>1. CASE work.entry \in Entries[os]
    <3>1. PICK e \in Entries[os] : e = work.entry
      BY <2>1
    <3>2. PICK x \in {"none", "link", "other"} : x = wants[e]
      BY DEF IInv, TypeOK
    <3>3. wants' = [wants EXCEPT ![e] = x]
      BY <1>1, <3>2 DEF IInv, TypeOK
    <3>4. (work.enabled = TRUE => x # "none") /\ (work.enabled = FALSE => x = "none")
      BY <1>2, <3>1, <3>2
    <3> QED
      BY <1>1, <1>2, <3>1, <3>3, <3>4, WiredHolds
  <2>2. CASE work.entry \notin Entries[os]
    BY <1>1, <1>2, <2>2, OutsideHolds
  <2> QED
    BY <2>1, <2>2
<1>3. CASE /\ ~(work.enabled <=> wants[work.entry] # "none")
           /\ work' = [work EXCEPT !.step = IF work.enabled THEN "link" ELSE "unlink"]
           /\ UNCHANGED <<os, answers, screen, clock, ghosts, counts>>
  <2>1. UNCHANGED <<os, writes, written, raced, acked>>
    BY <1>3 DEF ghosts, counts
  <2>2. /\ work'.entry = work.entry /\ work'.enabled = work.enabled
        /\ work'.step = IF work.enabled THEN "link" ELSE "unlink"
    BY <1>1, <1>3
  <2>3. WorkOK'
    BY <1>1, <2>1, <2>2 DEF IInv, WorkOK
  <2>4. TypeOK' /\ \A e \in Entries[os] : Held(e)' = Held(e) /\ Kept(e)' = Kept(e)
    BY <1>1, <2>1 DEF IInv, TypeOK, TextOf, Held, Kept, Vanished, Switched, Good, Runs
  <2> QED
    BY <2>1, <2>3, <2>4 DEF IInv, Unsafe
<1> QED
  BY <1>2, <1>3 DEF LookInWants

LEMMA LinkHolds == ASSUME IInv, Link \/ Unlink PROVE IInv'
<1>1. CASE Link
  <2>1. CASE work.entry \in Entries[os]
    <3>1. PICK e \in Entries[os] : e = work.entry
      BY <2>1
    <3>2. work.enabled
      BY <1>1, <2>1 DEF Link, IInv, WorkOK
    <3>3. /\ work # None /\ Done(work, TRUE) /\ UNCHANGED <<file, shadow>> /\ work.step = "link"
          /\ wants' = [wants EXCEPT ![e] = "link"]
      BY <1>1, <3>1 DEF Link
    <3>4. (work.enabled = TRUE => "link" # "none") /\ (work.enabled = FALSE => "link" = "none")
      BY <3>2
    <3> QED
      BY <3>1, <3>3, <3>4, WiredHolds
  <2>2. CASE work.entry \notin Entries[os]
    BY <1>1, <2>2, OutsideHolds DEF Link
  <2> QED
    BY <2>1, <2>2
<1>2. CASE Unlink
  <2>1. CASE work.entry \in Entries[os]
    <3>1. PICK e \in Entries[os] : e = work.entry
      BY <2>1
    <3>2. ~work.enabled
      BY <1>2, <2>1 DEF Unlink, IInv, WorkOK
    <3>3. /\ work # None /\ Done(work, TRUE) /\ UNCHANGED <<file, shadow>> /\ work.step = "unlink"
          /\ wants' = [wants EXCEPT ![e] = "none"]
      BY <1>2, <3>1 DEF Unlink
    <3>4. (work.enabled = TRUE => "none" # "none") /\ (work.enabled = FALSE => "none" = "none")
      BY <3>2
    <3> QED
      BY <3>1, <3>3, <3>4, WiredHolds
  <2>2. CASE work.entry \notin Entries[os]
    BY <1>2, <2>2, OutsideHolds DEF Unlink
  <2> QED
    BY <2>1, <2>2
<1> QED
  BY <1>1, <1>2

LEMMA FolderHolds == ASSUME IInv, NEW c, toggle_startup_folder(c) PROVE IInv'
<1>1. Source[c.entry] = "shortcut" /\ IF c.at = "file" THEN file[c.entry] # None ELSE shadow[c.entry] # None
  BY DEF toggle_startup_folder, Begins
<1>2. CASE (c.enabled <=> c.at = "file") /\ UNCHANGED disk /\ Done(c, TRUE)
  <2>1. UNCHANGED <<os, file, shadow, wants, writes, written, raced>>
        /\ acked' = [acked EXCEPT ![c.entry] = IF Beside(c.entry) THEN None ELSE c.enabled]
    BY <1>2 DEF Done, Answer, disk, counts
  <2>2. TypeOK' /\ \A e \in Entries[os] : Held(e)' = Held(e)
    BY <2>1 DEF IInv, TypeOK, TextOf, Held
  <2>3. \A e \in Entries[os] : acked'[e] = acked[e] => Kept(e)'
    BY <2>1 DEF IInv, Kept, Vanished, Switched, Good, Runs
  <2>4. ASSUME c.entry \in Entries[os] PROVE Kept(c.entry)'
    <3>1. acked'[c.entry] = IF Beside(c.entry) THEN None ELSE c.enabled
      BY <2>1, <2>4 DEF IInv
    <3>2. CASE c.at = "file"
      BY <1>1, <1>2, <2>1, <3>1, <3>2 DEF Kept
    <3>3. CASE c.at # "file"
      <4>1. c.enabled = FALSE
        BY <1>2, <3>3
      <4>2. shadow[c.entry] # None
        BY <1>1, <3>3
      <4> QED
        BY <1>1, <2>1, <3>1, <4>1, <4>2 DEF Kept, Beside
    <3> QED
      BY <3>2, <3>3
  <2> QED
    BY <1>2, <2>1, <2>2, <2>3, <2>4, DoneHolds DEF IInv
<1>3. CASE InTheWay(c) /\ UNCHANGED disk /\ Done(c, FALSE)
  <2>1. UNCHANGED <<os, writes>>
    BY <1>3 DEF Done, Answer, counts
  <2> QED
    BY <1>3, <2>1, RefuseHolds
<1>4. CASE ~InTheWay(c) /\ ~(c.enabled <=> c.at = "file")
           /\ Continue(c, IF ~c.enabled /\ shadow[c.entry] # None THEN "clear" ELSE "move", None)
  <2>1. work' = [entry |-> c.entry, enabled |-> c.enabled, visit |-> c.visit, text |-> None,
                 step |-> IF ~c.enabled /\ shadow[c.entry] # None THEN "clear" ELSE "move"]
        /\ UNCHANGED <<os, file, raced>>
    BY <1>4 DEF Continue, disk, ghosts
  <2>2. WorkOK'
    <3>1. SUFFICES ASSUME c.entry \in Entries[os] PROVE WorkOK'
      BY <2>1 DEF WorkOK
    <3>2. CASE ~c.enabled /\ shadow[c.entry] # None
      <4>1. work'.entry = c.entry /\ ~work'.enabled /\ work'.step = "clear"
        BY <2>1, <3>2
      <4>2. file[c.entry] # None
        BY <1>1, <1>4, <3>2
      <4> QED
        BY <1>1, <2>1, <4>1, <4>2 DEF WorkOK
    <3>3. CASE ~(~c.enabled /\ shadow[c.entry] # None)
      <4>1. work'.entry = c.entry /\ work'.enabled = c.enabled /\ work'.step = "move"
        BY <2>1, <3>3
      <4>2. c.enabled => file[c.entry] = None
        BY <1>4 DEF InTheWay
      <4> QED
        BY <1>1, <2>1, <4>1, <4>2 DEF WorkOK
    <3> QED
      BY <3>2, <3>3
  <2> QED
    BY <1>4, <2>2, ContinueHolds
<1> QED
  BY <1>2, <1>3, <1>4 DEF toggle_startup_folder

LEMMA WriteTmpHolds == ASSUME IInv, WriteTmp PROVE IInv'
<1>1. UNCHANGED <<os, file, shadow, wants, written, raced, acked, writes>> /\ work.step = "tmp"
      /\ work # None /\ work' = [work EXCEPT !.step = "rename"]
  BY DEF WriteTmp, ghosts, counts
<1>2. TypeOK' /\ \A e \in Entries[os] : Held(e)' = Held(e) /\ Kept(e)' = Kept(e)
  BY <1>1 DEF IInv, TypeOK, TextOf, Held, Kept, Vanished, Switched, Good, Runs
<1>3. /\ work'.entry = work.entry /\ work'.enabled = work.enabled /\ work'.text = work.text
      /\ work'.step = "rename"
  BY <1>1
<1>4. WorkOK'
  BY <1>1, <1>3 DEF IInv, WorkOK, TextOf, Switched, Good, Runs
<1> QED
  BY <1>1, <1>2, <1>4 DEF IInv, Unsafe

LEMMA RemoveStaleHolds == ASSUME IInv, RemoveStale PROVE IInv'
<1>1. UNCHANGED <<os, file, wants, written, raced, acked, writes>> /\ work.step = "clear" /\ work # None
      /\ work' = [work EXCEPT !.step = "move"] /\ shadow' = [shadow EXCEPT ![work.entry] = None]
  BY DEF RemoveStale, ghosts, counts
<1>2. TypeOK'
  BY <1>1 DEF IInv, TypeOK, TextOf
<1>3. /\ work'.entry = work.entry /\ work'.enabled = work.enabled /\ work'.step = "move"
  BY <1>1
<1>4. WorkOK'
  BY <1>1, <1>3 DEF IInv, WorkOK
<1>5. \A e \in Entries[os] : Kept(e)' = Kept(e)
  BY <1>1 DEF Kept, Vanished, Switched, Good, Runs
<1>6. ASSUME NEW e \in Entries[os] \ Unsafe PROVE Held(e)'
  BY <1>1 DEF IInv, TypeOK, WorkOK, Held, Unsafe
<1> QED
  BY <1>1, <1>2, <1>4, <1>5, <1>6 DEF IInv, Unsafe

LEMMA RenameHolds == ASSUME IInv, Rename PROVE IInv'
<1>1. /\ work # None /\ work.step = "rename" /\ file' = [file EXCEPT ![work.entry] = work.text] /\ Done(work, TRUE)
      /\ UNCHANGED <<os, shadow, wants, written, raced, writes>>
      /\ acked' = [acked EXCEPT ![work.entry] = IF Beside(work.entry) THEN None ELSE work.enabled]
  BY DEF Rename, Done, Answer, counts
<1>2. CASE work.entry \notin Entries[os]
  <2>1. file' = file
    BY <1>1, <1>2 DEF IInv, TypeOK
  <2>2. TypeOK' /\ \A f \in Entries[os] : Held(f)' = Held(f)
    BY <1>1, <2>1 DEF IInv, TypeOK, TextOf, Held
  <2>3. \A f \in Entries[os] : acked'[f] = acked[f] => Kept(f)'
    BY <1>1, <2>1 DEF IInv, Kept, Vanished, Switched, Good, Runs
  <2> QED
    BY <1>1, <1>2, <2>2, <2>3, DoneHolds DEF IInv
<1>3. ASSUME NEW e \in Entries[os], e = work.entry PROVE IInv'
  <2>1. /\ Source[e] \in {"desktop", "plist"} /\ work.text \in TextOf(e)
        /\ Switched(Source[e], work.text, work.enabled)
        /\ e \notin raced => file[e] # None /\ work.text.body = file[e].body
    BY <1>1, <1>3 DEF IInv, WorkOK
  <2>2. work.text \in DesktopText \cup PlistText \cup PlainText /\ work.text # None
    BY <2>1 DEF TextOf
  <2>3. file'[e] = work.text /\ \A f \in Entries[os] \ {e} : file'[f] = file[f]
    BY <1>1, <1>3 DEF IInv, TypeOK
  <2>4. TypeOK'
    BY <1>1, <2>1, <2>2, <2>3 DEF IInv, TypeOK, TextOf
  <2>5. \A f \in Entries[os] \ Unsafe : Held(f)'
    BY <1>1, <2>1, <2>2, <2>3 DEF IInv, Held, Unsafe
  <2>6. shadow[e] = None
    BY <1>3, <2>1 DEF IInv, TypeOK
  <2>7. acked'[e] = work.enabled
    BY <1>1, <1>3, <2>6 DEF IInv, Beside
  <2>8. Kept(e)'
    BY <1>1, <2>1, <2>2, <2>3, <2>7 DEF Kept
  <2>9. ASSUME NEW f \in Entries[os], acked'[f] = acked[f] PROVE Kept(f)'
    <3>1. CASE f = e
      BY <2>8, <3>1
    <3>2. CASE f # e
      BY <1>1, <2>3, <2>9, <3>2 DEF IInv, Kept, Vanished, Switched, Good, Runs
    <3> QED
      BY <3>1, <3>2
  <2> QED
    BY <1>1, <1>3, <2>4, <2>5, <2>8, <2>9, DoneHolds DEF IInv
<1> QED
  BY <1>2, <1>3

LEMMA MoveHolds == ASSUME IInv, Move PROVE IInv'
<1>1. /\ work # None /\ work.step = "move" /\ Done(work, TRUE)
      /\ UNCHANGED <<os, wants, written, raced, writes>>
      /\ acked' = [acked EXCEPT ![work.entry] = IF Beside(work.entry) THEN None ELSE work.enabled]
  BY DEF Move, Done, Answer, counts
<1>2. /\ (IF work.enabled THEN shadow ELSE file)[work.entry] # None
      /\ file' = [file EXCEPT ![work.entry] =
                    IF work.enabled THEN (IF work.enabled THEN shadow ELSE file)[work.entry] ELSE None]
      /\ shadow' = [shadow EXCEPT ![work.entry] =
                    IF work.enabled THEN None ELSE (IF work.enabled THEN shadow ELSE file)[work.entry]]
  BY DEF Move
<1>3. CASE work.entry \notin Entries[os]
  <2>1. file' = file /\ shadow' = shadow
    BY <1>2, <1>3 DEF IInv, TypeOK
  <2>2. TypeOK' /\ \A f \in Entries[os] : Held(f)' = Held(f)
    BY <1>1, <2>1 DEF IInv, TypeOK, TextOf, Held
  <2>3. \A f \in Entries[os] : acked'[f] = acked[f] => Kept(f)'
    BY <1>1, <2>1 DEF IInv, Kept, Vanished, Switched, Good, Runs
  <2> QED
    BY <1>1, <1>3, <2>2, <2>3, DoneHolds DEF IInv
<1>4. ASSUME NEW e \in Entries[os], e = work.entry PROVE IInv'
  <2>1. Source[e] = "shortcut" /\ (e \notin raced /\ work.enabled => file[e] = None)
    BY <1>1, <1>4 DEF IInv, WorkOK
  <2>2. CASE work.enabled
    <3>1. shadow[e] # None /\ file' = [file EXCEPT ![e] = shadow[e]] /\ shadow' = [shadow EXCEPT ![e] = None]
      BY <1>2, <1>4, <2>2
    <3>2. shadow[e] \in PlainText
      BY <3>1 DEF IInv, TypeOK
    <3>3. TypeOK'
      BY <1>1, <2>1, <3>1, <3>2 DEF IInv, TypeOK, TextOf
    <3>4. file'[e] = shadow[e] /\ shadow'[e] = None
      BY <3>1 DEF IInv, TypeOK
    <3>5. \A f \in Entries[os] \ {e} : file'[f] = file[f] /\ shadow'[f] = shadow[f]
      BY <3>1 DEF IInv, TypeOK
    <3>6. ASSUME NEW f \in Entries[os] \ Unsafe PROVE Held(f)'
      BY <1>1, <2>1, <2>2, <3>1, <3>4, <3>5 DEF IInv, Held, Unsafe
    <3>7. acked'[e] = work.enabled
      BY <1>1, <1>4, <3>4 DEF IInv, Beside
    <3>8. acked'[e] # FALSE
      BY <2>2, <3>7
    <3>9. Kept(e)'
      BY <2>1, <3>1, <3>4, <3>8 DEF Kept
    <3>10. ASSUME NEW f \in Entries[os], acked'[f] = acked[f] PROVE Kept(f)'
      <4>1. CASE f = e
        BY <3>9, <4>1
      <4>2. CASE f # e
        BY <1>1, <3>5, <3>10, <4>2 DEF IInv, Kept, Vanished, Switched, Good, Runs
      <4> QED
        BY <4>1, <4>2
    <3> QED
      BY <1>1, <1>4, <3>3, <3>6, <3>9, <3>10, DoneHolds DEF IInv
  <2>3. CASE ~work.enabled
    <3>1. file[e] # None /\ shadow' = [shadow EXCEPT ![e] = file[e]] /\ file' = [file EXCEPT ![e] = None]
      BY <1>2, <1>4, <2>3
    <3>2. file[e] \in PlainText
      BY <2>1, <3>1 DEF IInv, TypeOK, TextOf
    <3>3. TypeOK'
      BY <1>1, <2>1, <3>1, <3>2 DEF IInv, TypeOK, TextOf
    <3>4. shadow'[e] = file[e] /\ file'[e] = None
      BY <3>1 DEF IInv, TypeOK
    <3>5. \A f \in Entries[os] \ {e} : file'[f] = file[f] /\ shadow'[f] = shadow[f]
      BY <3>1 DEF IInv, TypeOK
    <3>6. ASSUME NEW f \in Entries[os] \ Unsafe PROVE Held(f)'
      BY <1>1, <2>1, <3>1, <3>4, <3>5 DEF IInv, Held, Unsafe
    <3>7. acked'[e] = work.enabled
      BY <1>1, <1>4, <3>4 DEF IInv, Beside
    <3>8. acked'[e] # TRUE
      BY <2>3, <3>7
    <3>9. Kept(e)'
      BY <2>1, <3>4, <3>8 DEF Kept
    <3>10. ASSUME NEW f \in Entries[os], acked'[f] = acked[f] PROVE Kept(f)'
      <4>1. CASE f = e
        BY <3>9, <4>1
      <4>2. CASE f # e
        BY <1>1, <3>5, <3>10, <4>2 DEF IInv, Kept, Vanished, Switched, Good, Runs
      <4> QED
        BY <4>1, <4>2
    <3> QED
      BY <1>1, <1>4, <3>3, <3>6, <3>9, <3>10, DoneHolds DEF IInv
  <2> QED
    BY <2>2, <2>3
<1> QED
  BY <1>3, <1>4

LEMMA NextHolds == IInv /\ [Next]_vars => IInv'
<1> SUFFICES ASSUME IInv, [Next]_vars PROVE IInv'
  OBVIOUS
<1>1. CASE Owner
  BY <1>1, OwnerHolds DEF Owner
<1>2. CASE Tick \/ Rescan \/ Click \/ Remount \/ Scan \/ ToggleAnswered \/ ScanAnswered
  <2>1. UNCHANGED <<os, disk, work, written, raced, acked, writes>>
    BY <1>2 DEF Tick, Rescan, Click, onToggle, Remount, Scan, ToggleAnswered, ScanAnswered, ghosts, counts
  <2> QED
    BY <2>1, QuietHolds
<1>3. CASE Crash
  BY <1>3, CrashHolds
<1>4. CASE Toggle
  <2>1. ASSUME NEW c, Refuse(c) PROVE IInv'
    BY <2>1, RefuseHolds DEF Refuse, Done, Answer, counts
  <2>2. CASE Fail
    BY <2>2, RefuseHolds DEF Fail, Done, Answer, counts
  <2> QED
    BY <1>4, <2>1, <2>2, AutostartHolds, UserAgentHolds, SystemdHolds, FolderHolds, WriteTmpHolds, RenameHolds,
       RemoveStaleHolds, MoveHolds, LookHolds, LinkHolds DEF Toggle
<1>5. CASE UNCHANGED vars
  BY <1>5, QuietHolds DEF vars, ghosts, counts
<1> QED
  BY <1>1, <1>2, <1>3, <1>4, <1>5 DEF Next, Step

LEMMA Invariance == Spec => []IInv
  BY InitHolds, NextHolds, PTL DEF Spec

(* The files are texts of their sources.                                     *)
THEOREM TypeCorrect == Spec => []TypeOK
<1>1. IInv => TypeOK
  BY DEF IInv
<1> QED
  BY <1>1, Invariance, PTL

(* No toggle, refused, failed or cut off, costs the owner a file.            *)
THEOREM NoEntryIsEverLost == Spec => []NoEntryIsLost
<1>1. IInv => NoEntryIsLost
  BY DEF IInv, TypeOK, Held, NoEntryIsLost, Unsafe
<1> QED
  BY <1>1, Invariance, PTL

LEMMA ItemFields ==
  ASSUME NEW d, NEW at, NEW b PROVE Item(d, at, b).entry = d /\ Item(d, at, b).enabled = b
  BY DEF Item

LEMMA EnabledIsRun ==
  ASSUME TypeOK, NEW e \in Entries[os]
  PROVE Enabled(e) <=> /\ file[e] # None
                       /\ IF Source[e] = "unit" THEN wants[e] = "link" ELSE Runs(Source[e], file[e])
<1> DEFINE on(s, f) == IF s = "unit" THEN wants[f] = "link" ELSE Runs(s, file[f])
<1>1. ASSUME NEW i \in scan_startup, i.entry = e, i.enabled
      PROVE file[e] # None /\ on(Source[e], e)
  <2>1. CASE i \in list_autostart
    BY <1>1, <2>1 DEF list_autostart, Item, Runs
  <2>2. CASE i \in list_systemd_user
    <3> DEFINE linked(d) == wants[d] = "link"
    <3>1. PICK d \in Entries[os] : Source[d] = "unit" /\ file[d] # None /\ i = Item(d, "file", linked(d))
      BY <2>2 DEF list_systemd_user
    <3> HIDE DEF linked
    <3>2. d = e /\ linked(d)
      BY <1>1, <3>1, ItemFields
    <3> QED
      BY <3>1, <3>2 DEF linked
  <2>3. CASE i \in list_user_agents
    <3> DEFINE loaded(d) == ~parse_plist(file[d])
    <3>1. PICK d \in Entries[os] : Source[d] = "plist" /\ file[d] # None /\ i = Item(d, "file", loaded(d))
      BY <2>3 DEF list_user_agents
    <3> HIDE DEF loaded
    <3>2. d = e /\ loaded(d)
      BY <1>1, <3>1, ItemFields
    <3> QED
      BY <3>1, <3>2 DEF loaded, Runs
  <2>4. CASE i \in list_startup_folder
    BY <1>1, <2>4 DEF list_startup_folder, Item, Runs
  <2> QED
    BY <1>1, <2>1, <2>2, <2>3, <2>4 DEF scan_startup
<1>2. ASSUME file[e] # None, on(Source[e], e)
      PROVE \E i \in scan_startup : i.entry = e /\ i.enabled
  <2>1. CASE Source[e] = "desktop"
    <3>1. Item(e, "file", is_autostart_enabled(file[e])) \in list_autostart
      BY <1>2, <2>1 DEF list_autostart
    <3>2. is_autostart_enabled(file[e])
      BY <1>2, <2>1 DEF Runs
    <3> QED
      BY <3>1, <3>2 DEF scan_startup, Item
  <2>2. CASE Source[e] = "unit"
    <3> DEFINE linked == wants[e] = "link"
    <3>1. Item(e, "file", linked) \in list_systemd_user /\ linked = TRUE
      BY <1>2, <2>2 DEF list_systemd_user
    <3> HIDE DEF linked
    <3>2. Item(e, "file", TRUE) \in list_systemd_user
      BY <3>1
    <3> QED
      BY <3>2 DEF scan_startup, Item
  <2>3. CASE Source[e] = "plist"
    <3> DEFINE loaded == ~parse_plist(file[e])
    <3>1. Item(e, "file", loaded) \in list_user_agents /\ loaded = TRUE
      BY <1>2, <2>3 DEF list_user_agents, Runs
    <3> HIDE DEF loaded
    <3>2. Item(e, "file", TRUE) \in list_user_agents
      BY <3>1
    <3> QED
      BY <3>2 DEF scan_startup, Item
  <2>4. CASE Source[e] = "shortcut"
    <3>1. Item(e, "file", TRUE) \in list_startup_folder
      BY <1>2, <2>4 DEF list_startup_folder
    <3> QED
      BY <3>1 DEF scan_startup, Item
  <2> QED
    BY <2>1, <2>2, <2>3, <2>4 DEF TypeOK
<1> QED
  BY <1>1, <1>2 DEF Enabled

(* A listed unit has its file.                                               *)
LEMMA UnitIsThere ==
  ASSUME NEW i \in scan_startup, Source[i.entry] = "unit" PROVE file[i.entry] # None
<1> DEFINE on(d) == is_autostart_enabled(file[d])
           loaded(d) == ~parse_plist(file[d])
           linked(d) == wants[d] = "link"
<1>1. CASE i \in list_autostart
  <2>1. PICK d \in Entries[os] : Source[d] = "desktop" /\ i = Item(d, "file", on(d))
    BY <1>1 DEF list_autostart
  <2> QED
    BY <2>1 DEF Item
<1>2. CASE i \in list_systemd_user
  <2>1. PICK d \in Entries[os] : file[d] # None /\ i = Item(d, "file", linked(d))
    BY <1>2 DEF list_systemd_user
  <2> QED
    BY <2>1 DEF Item
<1>3. CASE i \in list_user_agents
  <2>1. PICK d \in Entries[os] : Source[d] = "plist" /\ i = Item(d, "file", loaded(d))
    BY <1>3 DEF list_user_agents
  <2> QED
    BY <2>1 DEF Item
<1>4. CASE i \in list_startup_folder
  BY <1>4 DEF list_startup_folder, Item
<1> QED
  BY <1>1, <1>2, <1>3, <1>4 DEF scan_startup

LEMMA ToggleHolds == ASSUME IInv PROVE ToggleTakesEffect
<1>1. SUFFICES ASSUME NEW e \in Entries[os]
               PROVE /\ acked[e] = TRUE /\ Tractable(e) => Enabled(e) \/ Vanished(e)
                     /\ acked[e] = FALSE /\ (Tractable(e) \/ Source[e] = "desktop") => ~Enabled(e)
  BY DEF ToggleTakesEffect
<1>2. Tractable(e) => (file[e] # None => Good(Source[e], file[e]) /\ (Source[e] = "unit" => wants[e] # "other"))
  BY DEF Tractable, Good, IInv, TypeOK
<1>3. Enabled(e) <=> /\ file[e] # None
                     /\ IF Source[e] = "unit" THEN wants[e] = "link" ELSE Runs(Source[e], file[e])
  BY EnabledIsRun DEF IInv
<1>4. Kept(e) /\ Source[e] \in {"desktop", "plist", "unit", "shortcut"} /\ wants[e] \in {"none", "link", "other"}
  BY DEF IInv, TypeOK
<1>5. Source[e] = "shortcut" => Runs(Source[e], file[e])
  BY DEF Runs
<1> QED
  BY <1>2, <1>3, <1>4, <1>5 DEF Kept, Switched

(* A toggle that was acknowledged decides what launches, for every text that *)
(* reader and writer understand alike, until the owner edits it.             *)
THEOREM TogglesTakeEffect == Spec => []ToggleTakesEffect
<1>1. IInv => ToggleTakesEffect
  BY ToggleHolds
<1> QED
  BY <1>1, Invariance, PTL
-----------------------------------------------------------------------------
(* What the screen, its calls and their answers carry.                       *)
ItemSet   == {Item(e, at, b) : e \in Entries[os], at \in {"file", "shadow"}, b \in BOOLEAN}
CallSet   == [op : {"scan"}]
             \cup [op : {"toggle"}, entry : Entries[os], at : {"file", "shadow"}, enabled : BOOLEAN, visit : Nat]
AnswerSet == [op : {"scan"}, items : SUBSET ItemSet, stamp : Nat]
             \cup [op : {"toggle"}, entry : Entries[os], visit : Nat, ok : BOOLEAN]

Typed ==
  /\ calls \in Seq(CallSet) /\ answers \in Seq(AnswerSet)
  /\ work # None => work \in Carried /\ work.entry \in Entries[os]
  /\ report # None => report.items \subseteq ItemSet
  /\ \A id \in DOMAIN overrides : overrides[id] \in BOOLEAN
  /\ visit \in Nat /\ clock \in Nat
  /\ \A e \in Entries[os] : acked[e] \in BOOLEAN \cup {None}

(* The last toggle of an entry on its way is the one its override shows; if  *)
(* none is on its way, it was acknowledged, or failed and the screen is to   *)
(* hear of it.                                                               *)
Sole(e) == \A f \in Entries[os] : Id[f] = Id[e] => f = e

Failed(q, e, v) == \E n \in DOMAIN q : q[n].op = "toggle" /\ q[n].entry = e /\ q[n].visit = v /\ ~q[n].ok

Settled(e, on) ==
  IF Pending(calls, e) # {} THEN \A c \in LastOf(calls, e) : c.visit = visit /\ c.enabled = on
  ELSE IF work # None /\ work.entry = e THEN work.visit = visit /\ work.enabled = on
  ELSE acked[e] \in {None, on} \/ Failed(answers, e, visit)

Mine(e) == Sole(e) /\ Id[e] \in DOMAIN overrides => Settled(e, overrides[Id[e]])

(* With no toggle on its way, the last scan is of the disk as it is.         *)
Quiet == work = None /\ calls = <<>> /\ \A n \in DOMAIN answers : answers[n].op # "toggle"

Fresh == ~unseen /\ Quiet =>
  IF answers = <<>> THEN report.items = scan_startup ELSE answers[Len(answers)].items = scan_startup

SInv == IInv /\ Typed /\ (\A e \in Entries[os] : Mine(e)) /\ Fresh

LEMMA CarriedIsNotNone == ASSUME NEW w \in Carried PROVE w # None
  BY StartupAssumption

LEMMA ScansAreCalls == [op |-> "scan"] \in CallSet /\ \A x \in CallSet : x.op \in {"scan", "toggle"}
  BY DEF CallSet

LEMMA ListedAreItems == ASSUME TypeOK PROVE scan_startup \subseteq ItemSet
<1>1. \A d, at, b : d \in Entries[os] /\ at \in {"file", "shadow"} /\ b \in BOOLEAN => Item(d, at, b) \in ItemSet
  BY DEF ItemSet
<1> DEFINE on(d) == is_autostart_enabled(file[d])
           loaded(d) == ~parse_plist(file[d])
           linked(d) == wants[d] = "link"
<1>2. \A d : on(d) \in BOOLEAN /\ loaded(d) \in BOOLEAN /\ linked(d) \in BOOLEAN
  BY DEF is_autostart_enabled
<1>3. \A i \in list_autostart : \E d \in Entries[os] : i = Item(d, "file", on(d))
  BY DEF list_autostart
<1>4. \A i \in list_systemd_user : \E d \in Entries[os] : i = Item(d, "file", linked(d))
  BY DEF list_systemd_user
<1>5. \A i \in list_user_agents : \E d \in Entries[os] : i = Item(d, "file", loaded(d))
  BY DEF list_user_agents
<1>6. \A i \in list_startup_folder : \E d \in Entries[os], at \in {"file", "shadow"}, b \in BOOLEAN : i = Item(d, at, b)
  BY DEF list_startup_folder
<1> HIDE DEF on, loaded, linked
<1>7. list_autostart \subseteq ItemSet
  BY <1>1, <1>2, <1>3
<1>8. list_systemd_user \subseteq ItemSet
  BY <1>1, <1>2, <1>4
<1>9. list_user_agents \subseteq ItemSet
  BY <1>1, <1>2, <1>5
<1>10. list_startup_folder \subseteq ItemSet
  BY <1>1, <1>6
<1> QED
  BY <1>7, <1>8, <1>9, <1>10 DEF scan_startup

LEMMA ItemIs ==
  ASSUME NEW i \in ItemSet
  PROVE  i.entry \in Entries[os] /\ i.at \in {"file", "shadow"} /\ i.id = Id[i.entry] /\ i.enabled \in BOOLEAN
  BY DEF ItemSet, Item

LEMMA SInvInit == Init => SInv
<1> SUFFICES ASSUME Init PROVE SInv
  OBVIOUS
<1>1. IInv
  BY InitHolds
<1>2. Typed
  <2>1. calls \in Seq(CallSet) /\ answers \in Seq(AnswerSet)
    BY ScansAreCalls DEF Init
  <2>2. DOMAIN overrides = {}
    BY DEF Init
  <2> QED
    BY <2>1, <2>2 DEF Init, Typed
<1>3. \A e \in Entries[os] : Mine(e)
  BY DEF Init, Mine
<1>4. Fresh
  BY DEF Init, Fresh, Quiet
<1> QED
  BY <1>1, <1>2, <1>3, <1>4 DEF SInv

(* The owner and the clock: nothing of the screen or its calls changes.      *)
Elsewhere ==
  /\ UNCHANGED <<os, work, calls, answers, report, overrides, visit>>
  /\ clock' \in Nat /\ \A e \in Entries[os] : acked'[e] \in {acked[e], None}
  /\ unseen' = TRUE \/ UNCHANGED <<unseen, disk>>

LEMMA ScanIsOfDisk == ASSUME UNCHANGED <<os, disk>> PROVE scan_startup' = scan_startup
  BY DEF disk, scan_startup, list_autostart, list_systemd_user, list_user_agents, list_startup_folder

LEMMA ElsewhereHolds == ASSUME SInv, Elsewhere PROVE Typed' /\ Fresh' /\ \A e \in Entries[os] : Mine(e)'
<1>1. Typed'
  <2>1. /\ UNCHANGED <<os, work, calls, answers, report, overrides, visit>> /\ clock' \in Nat
        /\ \A e \in Entries[os] : acked'[e] \in {acked[e], None}
    BY DEF Elsewhere
  <2>2. CallSet' = CallSet /\ AnswerSet' = AnswerSet /\ ItemSet' = ItemSet
    BY <2>1 DEF CallSet, AnswerSet, ItemSet
  <2> QED
    BY <2>1, <2>2 DEF SInv, Typed
<1>2. Fresh'
  <2>1. CASE unseen'
    BY <2>1 DEF Fresh
  <2>2. CASE ~unseen'
    <3>1. UNCHANGED <<unseen, disk, os, work, calls, answers, report>>
      BY <2>2 DEF Elsewhere
    <3>2. scan_startup' = scan_startup
      BY <3>1, ScanIsOfDisk
    <3>3. Quiet' = Quiet
      BY <3>1 DEF Quiet
    <3> QED
      BY <3>1, <3>2, <3>3 DEF SInv, Fresh
  <2> QED
    BY <2>1, <2>2
<1>3. ASSUME NEW e \in Entries[os] PROVE Mine(e)'
  <2>1. UNCHANGED <<os, work, calls, answers, overrides, visit>> /\ acked'[e] \in {acked[e], None}
    BY DEF Elsewhere
  <2>2. Mine(e)
    BY DEF SInv
  <2>3. \A on : Settled(e, on) => Settled(e, on)'
    BY <2>1 DEF Settled, Pending, LastOf
  <2> QED
    BY <2>1, <2>2, <2>3 DEF Mine, Sole
<1> QED
  BY <1>1, <1>2, <1>3

LEMMA SetsStay == ASSUME UNCHANGED os PROVE ItemSet' = ItemSet /\ CallSet' = CallSet /\ AnswerSet' = AnswerSet
  BY DEF ItemSet, CallSet, AnswerSet

LEMMA RescanHolds == ASSUME SInv, Rescan PROVE Typed' /\ Fresh' /\ \A e \in Entries[os] : Mine(e)'
<1>1. /\ UNCHANGED <<os, work, answers, report, overrides, visit, clock, acked>> /\ calls' = refetch(calls)
      /\ calls \in Seq(CallSet)
  BY DEF Rescan, screen, ghosts, SInv, Typed
<1>2. calls' \in Seq(CallSet) /\ calls' # <<>> /\ Same(calls', calls)
  BY <1>1, Refetched, ScansAreCalls
<1>3. Typed'
  BY <1>1, <1>2, SetsStay DEF SInv, Typed
<1>4. Fresh'
  BY <1>2 DEF Fresh, Quiet
<1>5. ASSUME NEW e \in Entries[os] PROVE Mine(e)'
  <2>1. Mine(e)
    BY DEF SInv
  <2>2. \A on : Settled(e, on) => Settled(e, on)'
    BY <1>1, <1>2, SameWorks DEF Settled
  <2> QED
    BY <1>1, <2>1, <2>2 DEF Mine, Sole
<1> QED
  BY <1>3, <1>4, <1>5

LEMMA RemountHolds == ASSUME SInv, Remount PROVE Typed' /\ Fresh' /\ \A e \in Entries[os] : Mine(e)'
<1>1. /\ UNCHANGED <<os, work, calls, answers, report, clock, acked, unseen, disk>>
      /\ DOMAIN overrides' = {} /\ visit' = visit + 1
  BY DEF Remount, ghosts
<1>2. Typed'
  BY <1>1, SetsStay DEF SInv, Typed
<1>3. scan_startup' = scan_startup /\ Quiet' = Quiet
  BY <1>1, ScanIsOfDisk DEF Quiet
<1>4. Fresh'
  BY <1>1, <1>3 DEF SInv, Fresh
<1>5. \A e \in Entries[os] : Mine(e)'
  BY <1>1 DEF Mine
<1> QED
  BY <1>2, <1>4, <1>5

LEMMA KillHolds == ASSUME SInv, Crash PROVE Typed' /\ Fresh' /\ \A e \in Entries[os] : Mine(e)'
<1>1. /\ UNCHANGED <<os, visit, clock, acked>> /\ work' = None /\ calls' = <<[op |-> "scan"]>> /\ answers' = <<>>
      /\ report' = None /\ DOMAIN overrides' = {}
  BY DEF Crash, ghosts
<1>2. calls' \in Seq(CallSet) /\ answers' \in Seq(AnswerSet) /\ calls' # <<>>
  BY <1>1, ScansAreCalls
<1>3. Typed'
  BY <1>1, <1>2, SetsStay DEF SInv, Typed
<1>4. Fresh'
  BY <1>2 DEF Fresh, Quiet
<1>5. \A e \in Entries[os] : Mine(e)'
  BY <1>1 DEF Mine
<1> QED
  BY <1>3, <1>4, <1>5

LEMMA ShownIs ==
  ASSUME Typed, NEW i \in ItemSet
  PROVE  Shown(i) \in BOOLEAN /\ (~Shown(i)) \in BOOLEAN
  BY ItemIs DEF Typed, Shown

LEMMA ClickHolds == ASSUME SInv, Click PROVE Typed' /\ Fresh' /\ \A e \in Entries[os] : Mine(e)'
<1>1. PICK i \in report.items : report # None /\ onToggle(i)
  BY DEF Click
<1>2. i \in ItemSet
  BY <1>1 DEF SInv, Typed
<1> DEFINE on == ~Shown(i)
           call == [op |-> "toggle", entry |-> i.entry, at |-> i.at, enabled |-> on, visit |-> visit]
<1>3. /\ UNCHANGED <<os, work, answers, report, visit, clock, acked>> /\ calls' = Append(calls, call)
      /\ overrides' = Override(overrides, i.id, on)
  BY <1>1 DEF onToggle, ghosts
<1>4. on \in BOOLEAN
  BY <1>2, ShownIs DEF SInv
<1> HIDE DEF on
<1>5. PICK c \in CallSet : /\ calls' = Append(calls, c)
                         /\ c.op = "toggle" /\ c.entry = i.entry /\ c.enabled = on /\ c.visit = visit
  BY <1>2, <1>3, <1>4, ItemIs DEF CallSet, SInv, Typed
<1> HIDE DEF call
<1>6. calls \in Seq(CallSet) /\ calls' \in Seq(CallSet) /\ calls' # <<>>
  BY <1>3, <1>5, AppendProperties DEF SInv, Typed
<1>7. /\ DOMAIN overrides' = DOMAIN overrides \cup {i.id} /\ overrides'[i.id] = on
      /\ \A x \in DOMAIN overrides : x # i.id => overrides'[x] = overrides[x]
  BY <1>3 DEF Override
<1>8. Typed'
  <2>1. \A id \in DOMAIN overrides' : overrides'[id] \in BOOLEAN
    BY <1>4, <1>7 DEF SInv, Typed
  <2> QED
    BY <1>3, <1>6, <2>1, SetsStay DEF SInv, Typed
<1>9. Fresh'
  BY <1>6 DEF Fresh, Quiet
<1>10. ASSUME NEW e \in Entries[os] PROVE Mine(e)'
  <2>1. CASE e = i.entry
    <3>1. Pending(calls', e) # {} /\ LastOf(calls', e) = {c}
      <4>1. Pending(Append(calls, c), c.entry) # {} /\ LastOf(Append(calls, c), c.entry) = {c}
        <5>1. calls \in Seq(CallSet) /\ c.op = "toggle"
          BY <1>5, <1>6
        <5> QED
          BY <5>1, AppendedToggle
      <4> QED
        BY <1>5, <2>1, <4>1
    <3>2. overrides'[Id[e]] = on
      BY <1>2, <1>7, <2>1, ItemIs
    <3> QED
      BY <1>3, <1>5, <3>1, <3>2 DEF Mine, Settled
  <2>2. CASE e # i.entry
    <3>1. Pending(calls', e) = Pending(calls, e) /\ LastOf(calls', e) = LastOf(calls, e)
      BY <1>5, <1>6, <2>2, AppendedOther
    <3>2. \A b : Settled(e, b) => Settled(e, b)'
      BY <1>3, <3>1 DEF Settled
    <3>3. Sole(e) => Id[e] # i.id
      BY <1>2, <2>2, ItemIs DEF Sole
    <3>4. Mine(e)
      BY DEF SInv
    <3> QED
      BY <1>3, <1>7, <3>2, <3>3, <3>4 DEF Mine, Sole
  <2> QED
    BY <2>1, <2>2
<1> QED
  BY <1>8, <1>9, <1>10

LEMMA HeadLeaves ==
  ASSUME NEW S, NEW q \in Seq(S), q # <<>>
  PROVE  /\ Head(q) \in S /\ Tail(q) \in Seq(S)
         /\ \A e : LastOf(Tail(q), e) \subseteq LastOf(q, e)
         /\ \A e : ~(Head(q).op = "toggle" /\ Head(q).entry = e) => (Pending(Tail(q), e) = {} <=> Pending(q, e) = {})
         /\ Head(q).op = "toggle" => /\ Pending(q, Head(q).entry) # {}
                                     /\ Pending(Tail(q), Head(q).entry) = {} => Head(q) \in LastOf(q, Head(q).entry)
<1> DEFINE t == Tail(q)
           c == Head(q)
<1>1. t \in Seq(S) /\ Skips(t, q, 1) /\ c = q[1] /\ c \in S /\ 1 \in DOMAIN q
  BY TailSkips
<1> HIDE DEF t, c
<1>2. \A e : 1 \in Pending(q, e) <=> c.op = "toggle" /\ c.entry = e
  BY <1>1 DEF Pending
<1>3. \A e : /\ LastOf(t, e) \subseteq LastOf(q, e)
             /\ 1 \notin Pending(q, e) => (Pending(t, e) = {} <=> Pending(q, e) = {})
             /\ 1 \in Pending(q, e) /\ Pending(t, e) = {} => q[1] \in LastOf(q, e)
  BY <1>1, Skipped
<1> QED
  BY <1>1, <1>2, <1>3 DEF t, c

LEMMA FailedAppended ==
  ASSUME NEW S, NEW q \in Seq(S), NEW x \in S, NEW e, NEW v
  PROVE  /\ Failed(q, e, v) => Failed(Append(q, x), e, v)
         /\ x.op = "toggle" /\ x.entry = e /\ x.visit = v /\ ~x.ok => Failed(Append(q, x), e, v)
<1> DEFINE n == Len(q)
           t == Append(q, x)
<1>1. n \in Nat /\ DOMAIN q = 1..n /\ DOMAIN t = 1..(n + 1) /\ t[n + 1] = x /\ \A k \in 1..n : t[k] = q[k]
  BY Appended
<1> HIDE DEF n, t
<1>2. n + 1 \in DOMAIN t /\ \A k \in DOMAIN q : k \in DOMAIN t /\ t[k] = q[k]
  BY <1>1
<1> QED
  BY <1>1, <1>2 DEF Failed, t

LEMMA FailedTail ==
  ASSUME NEW S, NEW q \in Seq(S), q # <<>>, NEW e, NEW v,
         Head(q).op # "toggle" \/ Head(q).entry # e \/ Head(q).visit # v \/ Head(q).ok
  PROVE  Failed(q, e, v) => Failed(Tail(q), e, v)
<1> DEFINE t == Tail(q)
           c == Head(q)
<1>1. t \in Seq(S) /\ Skips(t, q, 1) /\ c = q[1]
  BY TailSkips
<1> HIDE DEF t, c
<1>2. \A n \in DOMAIN q : n # 1 => \E m \in DOMAIN t : t[m] = q[n]
  BY <1>1, Skipped
<1> QED
  BY <1>1, <1>2 DEF Failed, t, c

LEMMA FailedToggles ==
  ASSUME NEW S, NEW q \in Seq(S), NEW e, NEW v
  PROVE  Failed(q, e, v) => Failed(Toggles(q), e, v)
<1>1. \A n \in DOMAIN q : q[n].op = "toggle" => \E m \in DOMAIN Toggles(q) : Toggles(q)[m] = q[n]
  BY TogglesKept
<1> QED
  BY <1>1 DEF Failed

LEMMA ScannedHolds == ASSUME SInv, Scan PROVE Typed' /\ Fresh' /\ \A e \in Entries[os] : Mine(e)'
<1> DEFINE a == [op |-> "scan", items |-> scan_startup, stamp |-> clock]
<1>1. /\ work = None /\ calls # <<>> /\ Head(calls).op = "scan" /\ calls' = Tail(calls) /\ answers' = Append(answers, a)
      /\ UNCHANGED <<os, disk, work, report, overrides, visit, clock, acked>>
  BY DEF Scan, Idle, screen
<1>2. calls \in Seq(CallSet) /\ answers \in Seq(AnswerSet)
  BY DEF SInv, Typed
<1>3. a \in AnswerSet /\ a.items = scan_startup
  BY ListedAreItems DEF SInv, IInv, Typed, AnswerSet
<1> HIDE DEF a
<1>4. calls' \in Seq(CallSet) /\ Same(calls', calls)
  BY <1>1, <1>2, HeadLeaves DEF Same
<1>5. answers' \in Seq(AnswerSet) /\ answers' # <<>> /\ Len(answers') = Len(answers) + 1 /\ answers'[Len(answers) + 1] = a
  BY <1>1, <1>2, <1>3, AppendProperties
<1>6. Typed'
  BY <1>1, <1>4, <1>5, SetsStay DEF SInv, Typed
<1>7. scan_startup' = scan_startup
  BY <1>1, ScanIsOfDisk
<1>8. Fresh'
  BY <1>3, <1>5, <1>7 DEF Fresh
<1>9. ASSUME NEW e \in Entries[os] PROVE Mine(e)'
  <2>1. Failed(answers, e, visit) => Failed(answers', e, visit)
    BY <1>1, <1>2, <1>3, FailedAppended
  <2>2. \A on : Settled(e, on) => Settled(e, on)'
    BY <1>1, <1>4, <2>1, SameWorks DEF Settled
  <2>3. Mine(e)
    BY DEF SInv
  <2> QED
    BY <1>1, <2>2, <2>3 DEF Mine, Sole
<1> QED
  BY <1>6, <1>8, <1>9

LEMMA AnswerIs ==
  ASSUME NEW a \in AnswerSet
  PROVE  /\ a.op \in {"scan", "toggle"}
         /\ a.op = "scan" => a.items \in SUBSET ItemSet /\ a.stamp \in Nat
         /\ a.op = "toggle" => a.entry \in Entries[os] /\ a.visit \in Nat /\ a.ok \in BOOLEAN
  BY DEF AnswerSet

LEMMA ScanAnsweredHolds == ASSUME SInv, ScanAnswered PROVE Typed' /\ Fresh' /\ \A e \in Entries[os] : Mine(e)'
<1>1. /\ answers # <<>> /\ Head(answers).op = "scan" /\ answers' = Tail(answers)
      /\ report' = [items |-> Head(answers).items, stamp |-> Head(answers).stamp]
      /\ overrides' = overrides \/ overrides' = <<>>
      /\ UNCHANGED <<os, disk, work, calls, visit, clock, acked, unseen>>
  BY DEF ScanAnswered, ghosts
<1>2. answers \in Seq(AnswerSet)
  BY DEF SInv, Typed
<1>3. Head(answers) \in AnswerSet /\ answers' \in Seq(AnswerSet) /\ Skips(answers', answers, 1) /\ Head(answers) = answers[1]
  BY <1>1, <1>2, TailSkips
<1>4. report'.items = Head(answers).items /\ report'.items \in SUBSET ItemSet
  BY <1>1, <1>3, AnswerIs
<1>5. Typed'
  <2>1. \A id \in DOMAIN overrides' : overrides'[id] \in BOOLEAN
    BY <1>1 DEF SInv, Typed
  <2> QED
    BY <1>1, <1>3, <1>4, <2>1, SetsStay DEF SInv, Typed
<1>6. Fresh'
  <2> SUFFICES ASSUME ~unseen', Quiet'
               PROVE  IF answers' = <<>> THEN report'.items = scan_startup' ELSE answers'[Len(answers')].items = scan_startup'
    BY DEF Fresh
  <2>1. \A n \in DOMAIN answers : n # 1 => \E m \in DOMAIN answers' : answers'[m] = answers[n]
    BY <1>2, <1>3, Skipped
  <2>2. Quiet
    BY <1>1, <1>3, <2>1 DEF Quiet
  <2>3. answers[Len(answers)].items = scan_startup /\ scan_startup' = scan_startup
    BY <1>1, <2>2, ScanIsOfDisk DEF SInv, Fresh
  <2>4. Len(answers) = Len(answers') + 1 /\ Len(answers') \in Nat
    BY <1>3 DEF Skips
  <2>5. CASE answers' = <<>>
    BY <1>3, <1>4, <2>3, <2>4, <2>5
  <2>6. CASE answers' # <<>>
    <3>1. Len(answers') \in 1..Len(answers') /\ ~(Len(answers') < 1)
      BY <1>3, <2>4, <2>6
    <3>2. answers'[Len(answers')] = answers[Len(answers)]
      BY <1>3, <2>4, <3>1 DEF Skips
    <3> QED
      BY <2>3, <2>6, <3>2
  <2> QED
    BY <2>5, <2>6
<1>7. ASSUME NEW e \in Entries[os] PROVE Mine(e)'
  <2>1. CASE overrides' = <<>>
    BY <2>1 DEF Mine
  <2>2. CASE overrides' = overrides
    <3>1. Failed(answers, e, visit) => Failed(answers', e, visit)
      BY <1>1, <1>2, FailedTail
    <3>2. \A on : Settled(e, on) => Settled(e, on)'
      BY <1>1, <3>1 DEF Settled
    <3>3. Mine(e)
      BY DEF SInv
    <3> QED
      BY <1>1, <2>2, <3>2, <3>3 DEF Mine, Sole
  <2> QED
    BY <1>1, <2>1, <2>2
<1> QED
  BY <1>5, <1>6, <1>7

LEMMA ToggleAnsweredHolds == ASSUME SInv, ToggleAnswered PROVE Typed' /\ Fresh' /\ \A e \in Entries[os] : Mine(e)'
<1> DEFINE a == Head(answers)
<1>1. /\ answers # <<>> /\ a.op = "toggle" /\ answers' = Toggles(Tail(answers)) /\ calls' = refetch(calls)
      /\ \/ overrides' = overrides /\ (a.visit # visit \/ a.ok)
         \/ overrides' = Without(overrides, Id[a.entry])
      /\ UNCHANGED <<os, work, report, visit, clock, acked>>
  BY DEF ToggleAnswered, RolledBack, ghosts
<1>2. answers \in Seq(AnswerSet) /\ calls \in Seq(CallSet)
  BY DEF SInv, Typed
<1>3. a \in AnswerSet /\ Tail(answers) \in Seq(AnswerSet)
  BY <1>1, <1>2, TailSkips
<1> HIDE DEF a
<1>4. answers' \in Seq(AnswerSet)
  BY <1>1, <1>3, TogglesKept
<1>5. calls' \in Seq(CallSet) /\ calls' # <<>> /\ Same(calls', calls)
  BY <1>1, <1>2, Refetched, ScansAreCalls
<1>6. /\ DOMAIN Without(overrides, Id[a.entry]) = DOMAIN overrides \ {Id[a.entry]}
      /\ \A x \in DOMAIN overrides : x # Id[a.entry] => Without(overrides, Id[a.entry])[x] = overrides[x]
  BY DEF Without
<1>7. Typed'
  <2>1. \A id \in DOMAIN overrides' : overrides'[id] \in BOOLEAN
    BY <1>1, <1>6 DEF SInv, Typed
  <2> QED
    BY <1>1, <1>4, <1>5, <2>1, SetsStay DEF SInv, Typed
<1>8. Fresh'
  BY <1>5 DEF Fresh, Quiet
<1>9. ASSUME NEW e \in Entries[os] PROVE Mine(e)'
  <2>1. SUFFICES ASSUME Sole(e), Id[e] \in DOMAIN overrides' PROVE Settled(e, overrides[Id[e]])'
    BY <1>1 DEF Mine, Sole
  <2>2. Id[e] \in DOMAIN overrides /\ overrides'[Id[e]] = overrides[Id[e]]
    BY <1>1, <1>6, <2>1
  <2>3. a.entry # e \/ a.visit # visit \/ a.ok
    BY <1>1, <1>6, <2>1
  <2>4. Failed(answers, e, visit) => Failed(Tail(answers), e, visit)
    BY <1>1, <1>2, <2>3, FailedTail DEF a
  <2>5. Failed(answers, e, visit) => Failed(answers', e, visit)
    BY <1>1, <1>3, <2>4, FailedToggles
  <2>6. Settled(e, overrides[Id[e]])
    BY <2>1, <2>2 DEF SInv, Mine
  <2> QED
    BY <1>1, <1>5, <2>2, <2>5, <2>6, SameWorks DEF Settled
<1> QED
  BY <1>7, <1>8, <1>9

(* The main thread takes the next call to carry out one of its steps.        *)
LEMMA TakenHolds ==
  ASSUME SInv, NEW c, Idle, c = Head(calls), c.op = "toggle", calls' = Tail(calls),
         UNCHANGED <<os, answers, report, overrides, visit, clock, acked>>,
         work' \in Carried, work'.entry = c.entry, work'.enabled = c.enabled, work'.visit = c.visit
  PROVE  Typed' /\ Fresh' /\ \A e \in Entries[os] : Mine(e)'
<1>1. work = None /\ calls # <<>> /\ calls \in Seq(CallSet) /\ work' # None
  BY CarriedIsNotNone DEF Idle, SInv, Typed
<1>2. /\ c \in CallSet /\ calls' \in Seq(CallSet)
      /\ \A e : LastOf(calls', e) \subseteq LastOf(calls, e)
      /\ \A e : c.entry # e => (Pending(calls', e) = {} <=> Pending(calls, e) = {})
      /\ Pending(calls, c.entry) # {} /\ (Pending(calls', c.entry) = {} => c \in LastOf(calls, c.entry))
  BY <1>1, HeadLeaves
<1>3. c.entry \in Entries[os]
  BY <1>2 DEF CallSet
<1>4. Typed'
  BY <1>2, <1>3, SetsStay DEF SInv, Typed
<1>5. Fresh'
  BY <1>1 DEF Fresh, Quiet
<1>6. ASSUME NEW e \in Entries[os] PROVE Mine(e)'
  <2>1. \A on : Settled(e, on) => Settled(e, on)'
    BY <1>1, <1>2 DEF Settled
  <2>2. Mine(e)
    BY DEF SInv
  <2> QED
    BY <2>1, <2>2 DEF Mine, Sole
<1> QED
  BY <1>4, <1>5, <1>6

(* A toggle goes on.                                                         *)
LEMMA GoingHolds ==
  ASSUME SInv, UNCHANGED <<os, calls, answers, report, overrides, visit, clock, acked>>, work # None,
         work' \in Carried, work'.entry = work.entry, work'.enabled = work.enabled, work'.visit = work.visit
  PROVE  Typed' /\ Fresh' /\ \A e \in Entries[os] : Mine(e)'
<1>1. work \in Carried /\ work.entry \in Entries[os]
  BY DEF SInv, Typed
<1>2. work' # None
  BY CarriedIsNotNone
<1>3. Typed'
  BY <1>1, SetsStay DEF SInv, Typed
<1>4. Fresh'
  BY <1>2 DEF Fresh, Quiet
<1>5. ASSUME NEW e \in Entries[os] PROVE Mine(e)'
  <2>1. \A on : Settled(e, on) => Settled(e, on)'
    BY <1>2 DEF Settled
  <2>2. Mine(e)
    BY DEF SInv
  <2> QED
    BY <2>1, <2>2 DEF Mine, Sole
<1> QED
  BY <1>3, <1>4, <1>5

(* A toggle ends, and its answer is sent.                                    *)
LEMMA EndedHolds ==
  ASSUME SInv, NEW c, NEW ok \in BOOLEAN, Done(c, ok),
         c.entry \in Entries[os], c.visit \in Nat, c.enabled \in BOOLEAN, calls' \in Seq(CallSet),
         \A e : LastOf(calls', e) \subseteq LastOf(calls, e),
         \A e : c.entry # e => (Pending(calls', e) = {} <=> Pending(calls, e) = {}) /\ ~(work # None /\ work.entry = e),
         Pending(calls', c.entry) # {} => Pending(calls, c.entry) # {},
         \A on : Settled(c.entry, on) /\ Pending(calls', c.entry) = {} => c.visit = visit /\ c.enabled = on
  PROVE  Typed' /\ Fresh' /\ \A e \in Entries[os] : Mine(e)'
<1> DEFINE a == [op |-> "toggle", entry |-> c.entry, visit |-> c.visit, ok |-> ok]
<1>1. /\ work' = None /\ answers' = Append(answers, a)
      /\ acked' = IF ok THEN [acked EXCEPT ![c.entry] = IF Beside(c.entry) THEN None ELSE c.enabled] ELSE acked
      /\ UNCHANGED <<os, report, overrides, visit, clock>>
  BY DEF Done, Answer, screen
<1>2. a \in AnswerSet /\ a.op = "toggle" /\ a.entry = c.entry /\ a.visit = c.visit /\ a.ok = ok
  BY DEF AnswerSet
<1> HIDE DEF a
<1>3. answers \in Seq(AnswerSet) /\ answers' \in Seq(AnswerSet) /\ answers' # <<>>
      /\ Len(answers) + 1 \in DOMAIN answers' /\ answers'[Len(answers) + 1] = a
  BY <1>1, <1>2, AppendProperties DEF SInv, Typed
<1>4. /\ ok => acked'[c.entry] \in {None, c.enabled}
      /\ ~ok => acked'[c.entry] = acked[c.entry]
      /\ \A e \in Entries[os] : e # c.entry => acked'[e] = acked[e]
  BY <1>1 DEF SInv, IInv
<1>5. Typed'
  <2>1. \A e \in Entries[os] : acked'[e] \in BOOLEAN \cup {None}
    BY <1>4 DEF SInv, Typed
  <2> QED
    BY <1>1, <1>3, <2>1, SetsStay DEF SInv, Typed
<1>6. Fresh'
  BY <1>2, <1>3 DEF Fresh, Quiet
<1>7. ASSUME NEW e \in Entries[os] PROVE Mine(e)'
  <2>1. SUFFICES ASSUME Sole(e), Id[e] \in DOMAIN overrides PROVE Settled(e, overrides[Id[e]])'
    BY <1>1 DEF Mine, Sole
  <2>2. Settled(e, overrides[Id[e]])
    BY <2>1 DEF SInv, Mine
  <2>3. Failed(answers, e, visit) => Failed(answers', e, visit)
    BY <1>1, <1>2, <1>3, FailedAppended
  <2>4. CASE e # c.entry
    BY <1>1, <1>4, <2>2, <2>3, <2>4 DEF Settled
  <2>5. CASE e = c.entry /\ Pending(calls', e) # {}
    BY <1>1, <2>2, <2>5 DEF Settled
  <2>6. CASE e = c.entry /\ Pending(calls', e) = {}
    <3>1. c.visit = visit /\ c.enabled = overrides[Id[e]]
      BY <2>2, <2>6
    <3>2. CASE ok
      BY <1>1, <1>4, <2>6, <3>1, <3>2 DEF Settled
    <3>3. CASE ~ok
      <4>1. Failed(answers', e, visit)
        BY <1>1, <1>2, <1>3, <2>6, <3>1, <3>3, FailedAppended
      <4> QED
        BY <1>1, <2>6, <4>1 DEF Settled
    <3> QED
      BY <3>2, <3>3
  <2> QED
    BY <2>4, <2>5, <2>6
<1> QED
  BY <1>5, <1>6, <1>7

LEMMA AtOnceHolds ==
  ASSUME SInv, NEW c, NEW ok \in BOOLEAN, Idle, c = Head(calls), c.op = "toggle", calls' = Tail(calls), Done(c, ok)
  PROVE  Typed' /\ Fresh' /\ \A e \in Entries[os] : Mine(e)'
<1>1. work = None /\ calls # <<>> /\ calls \in Seq(CallSet)
  BY DEF Idle, SInv, Typed
<1>2. /\ c \in CallSet /\ calls' \in Seq(CallSet)
      /\ \A e : LastOf(calls', e) \subseteq LastOf(calls, e)
      /\ \A e : c.entry # e => (Pending(calls', e) = {} <=> Pending(calls, e) = {})
      /\ Pending(calls, c.entry) # {} /\ (Pending(calls', c.entry) = {} => c \in LastOf(calls, c.entry))
  BY <1>1, HeadLeaves
<1>3. c.entry \in Entries[os] /\ c.visit \in Nat /\ c.enabled \in BOOLEAN
  BY <1>2 DEF CallSet
<1>4. \A on : Settled(c.entry, on) /\ Pending(calls', c.entry) = {} => c.visit = visit /\ c.enabled = on
  BY <1>2 DEF Settled
<1> QED
  BY <1>1, <1>2, <1>3, <1>4, EndedHolds

LEMMA AtLastHolds ==
  ASSUME SInv, NEW ok \in BOOLEAN, work # None, UNCHANGED calls, Done(work, ok)
  PROVE  Typed' /\ Fresh' /\ \A e \in Entries[os] : Mine(e)'
<1>1. work \in Carried /\ work.entry \in Entries[os] /\ calls \in Seq(CallSet)
  BY DEF SInv, Typed
<1>2. calls' \in Seq(CallSet) /\ \A e : LastOf(calls', e) \subseteq LastOf(calls, e)
  BY <1>1
<1>3. work.visit \in Nat /\ work.enabled \in BOOLEAN
  BY <1>1 DEF Carried
<1>4. \A on : Settled(work.entry, on) /\ Pending(calls', work.entry) = {} => work.visit = visit /\ work.enabled = on
  BY DEF Settled
<1>5. /\ \A e : work.entry # e => (Pending(calls', e) = {} <=> Pending(calls, e) = {}) /\ ~(work # None /\ work.entry = e)
      /\ Pending(calls', work.entry) # {} => Pending(calls, work.entry) # {}
  OBVIOUS
<1> QED
  BY <1>1, <1>2, <1>3, <1>4, <1>5, EndedHolds

LEMMA CarryIs ==
  ASSUME Typed, calls # <<>>, Head(calls).op = "toggle", NEW c, c = Head(calls)
  PROVE  c.entry \in Entries[os] /\ c.enabled \in BOOLEAN /\ c.visit \in Nat
<1>1. c \in CallSet
  BY HeadLeaves DEF Typed
<1> QED
  BY <1>1 DEF CallSet

LEMMA ContinuesHolds ==
  ASSUME SInv, NEW c, Idle, c = Head(calls), c.op = "toggle", calls' = Tail(calls),
         NEW s \in {"tmp", "rename", "clear", "move", "look"}, NEW t \in DesktopText \cup PlistText \cup PlainText \cup {None},
         Continue(c, s, t)
  PROVE  Typed' /\ Fresh' /\ \A e \in Entries[os] : Mine(e)'
<1>1. c.entry \in Entries[os] /\ c.enabled \in BOOLEAN /\ c.visit \in Nat /\ os \in DOMAIN Entries
  BY CarryIs DEF SInv, Idle, IInv, TypeOK
<1>2. work' = [entry |-> c.entry, enabled |-> c.enabled, visit |-> c.visit, step |-> s, text |-> t]
      /\ UNCHANGED <<os, answers, report, overrides, visit, clock, acked>>
  BY DEF Continue, screen, ghosts
<1>3. c.entry \in UNION {Entries[o] : o \in DOMAIN Entries}
  BY <1>1
<1>4. work' \in Carried /\ work'.entry = c.entry /\ work'.enabled = c.enabled /\ work'.visit = c.visit
  BY <1>1, <1>2, <1>3 DEF Carried
<1> QED
  BY <1>2, <1>4, TakenHolds

LEMMA CalledHolds ==
  ASSUME SInv, NEW c,
         toggle_autostart(c) \/ toggle_user_agent(c) \/ toggle_systemd_user(c) \/ toggle_startup_folder(c) \/ Refuse(c)
  PROVE  Typed' /\ Fresh' /\ \A e \in Entries[os] : Mine(e)'
<1>1. Idle /\ c = Head(calls) /\ c.op = "toggle" /\ calls' = Tail(calls)
  BY DEF toggle_autostart, toggle_user_agent, toggle_systemd_user, toggle_startup_folder, Refuse, Begins
<1>2. c.entry \in Entries[os] /\ c.enabled \in BOOLEAN
  BY <1>1, CarryIs DEF SInv, Idle
<1>3. \A e \in Entries[os] : file[e] # None => file[e] \in TextOf(e)
  BY DEF SInv, IInv, TypeOK
<1>4. CASE toggle_autostart(c)
  <2>1. file[c.entry] \in DesktopText
    BY <1>2, <1>3, <1>4 DEF toggle_autostart, Begins, TextOf
  <2>2. rewrite_desktop_hidden(file[c.entry], ~c.enabled) \in DesktopText
    BY <2>1, DesktopIsSwitched
  <2> QED
    BY <1>1, <1>4, <2>2, ContinuesHolds DEF toggle_autostart
<1>5. CASE toggle_user_agent(c)
  <2>1. file[c.entry] \in PlistText
    BY <1>2, <1>3, <1>5 DEF toggle_user_agent, Begins, TextOf
  <2>2. rewrite_plist_disabled(file[c.entry], ~c.enabled) \in PlistText
    BY <1>2, <2>1, PlistReads
  <2> QED
    BY <1>1, <1>5, <2>2, ContinuesHolds DEF toggle_user_agent
<1>6. CASE toggle_systemd_user(c)
  BY <1>1, <1>6, ContinuesHolds DEF toggle_systemd_user
<1>7. CASE toggle_startup_folder(c)
  <2>1. CASE Done(c, TRUE) \/ Done(c, FALSE)
    BY <1>1, <2>1, AtOnceHolds
  <2>2. CASE Continue(c, IF ~c.enabled /\ shadow[c.entry] # None THEN "clear" ELSE "move", None)
    <3>1. (IF ~c.enabled /\ shadow[c.entry] # None THEN "clear" ELSE "move") \in {"tmp", "rename", "clear", "move", "look"}
      OBVIOUS
    <3> QED
      BY <1>1, <2>2, <3>1, ContinuesHolds
  <2> QED
    BY <1>7, <2>1, <2>2 DEF toggle_startup_folder
<1>8. CASE Refuse(c)
  BY <1>1, <1>8, AtOnceHolds DEF Refuse
<1> QED
  BY <1>4, <1>5, <1>6, <1>7, <1>8

LEMMA GoesOnHolds ==
  ASSUME SInv, WriteTmp \/ RemoveStale PROVE Typed' /\ Fresh' /\ \A e \in Entries[os] : Mine(e)'
<1>1. UNCHANGED <<os, calls, answers, report, overrides, visit, clock, acked>> /\ work # None
  BY DEF WriteTmp, RemoveStale, screen, ghosts
<1>2. work' = [work EXCEPT !.step = "rename"] \/ work' = [work EXCEPT !.step = "move"]
  BY DEF WriteTmp, RemoveStale
<1>3. work \in Carried
  BY <1>1 DEF SInv, Typed
<1>4. work' \in Carried /\ work'.entry = work.entry /\ work'.enabled = work.enabled /\ work'.visit = work.visit
  BY <1>2, <1>3 DEF Carried
<1> QED
  BY <1>1, <1>4, GoingHolds

LEMMA StepHolds == ASSUME SInv, [Next]_vars PROVE Typed' /\ Fresh' /\ \A e \in Entries[os] : Mine(e)'
<1>1. CASE Elsewhere
  BY <1>1, ElsewhereHolds
<1>2. ASSUME NEW e \in Entries[os], Touched(e), Write(e) \/ Delete(e) \/ Wire(e) PROVE Elsewhere
  <2>1. \A f \in Entries[os] : acked'[f] \in {acked[f], None}
    BY <1>2 DEF Touched, SInv, IInv
  <2> QED
    BY <1>2, <2>1 DEF Touched, screen, Elsewhere, SInv, Typed
<1>3. CASE Tick \/ UNCHANGED vars
  <2>1. UNCHANGED <<os, work, calls, answers, report, overrides, visit, acked, unseen, disk>>
        /\ (clock' = clock + 1 \/ clock' = clock)
    BY <1>3 DEF Tick, vars, screen, ghosts
  <2>2. clock' \in Nat
    BY <2>1 DEF SInv, Typed
  <2>3. Elsewhere
    BY <2>1, <2>2 DEF Elsewhere
  <2> QED
    BY <1>1, <2>3
<1>4. CASE Toggle
  <2>1. CASE Rename \/ Move \/ Fail \/ Link \/ Unlink
    BY <2>1, AtLastHolds DEF Rename, Move, Fail, Link, Unlink
  <2>2. CASE LookInWants
    <3>1. CASE Done(work, TRUE)
      BY <2>2, <3>1, AtLastHolds DEF LookInWants
    <3>2. CASE ~Done(work, TRUE)
      <4>1. UNCHANGED <<os, calls, answers, report, overrides, visit, clock, acked>> /\ work # None
            /\ (work' = [work EXCEPT !.step = "link"] \/ work' = [work EXCEPT !.step = "unlink"])
        BY <2>2, <3>2 DEF LookInWants, screen, ghosts
      <4>2. work \in Carried
        BY <4>1 DEF SInv, Typed
      <4>3. work' \in Carried /\ work'.entry = work.entry /\ work'.enabled = work.enabled /\ work'.visit = work.visit
        BY <4>1, <4>2 DEF Carried
      <4> QED
        BY <4>1, <4>3, GoingHolds
    <3> QED
      BY <3>1, <3>2
  <2> QED
    BY <1>4, <2>1, <2>2, GoesOnHolds, CalledHolds DEF Toggle
<1> QED
  BY <1>1, <1>2, <1>3, <1>4, RescanHolds, ClickHolds, RemountHolds, KillHolds, ScannedHolds, ToggleAnsweredHolds,
     ScanAnsweredHolds DEF Next, Step, Owner

LEMMA SystemStays == [Next]_vars => UNCHANGED os
  BY DEF Next, Step, Owner, Touched, Tick, Rescan, Click, onToggle, Remount, Crash, Scan, Toggle, ToggleAnswered, ScanAnswered,
     toggle_autostart, toggle_user_agent, toggle_systemd_user, toggle_startup_folder, Refuse, Begins, Continue, Done, Answer,
     WriteTmp, Rename, RemoveStale, Move, LookInWants, Link, Unlink, Fail, vars

LEMMA SInvNext == SInv /\ [Next]_vars => SInv'
<1> SUFFICES ASSUME SInv, [Next]_vars PROVE SInv'
  OBVIOUS
<1>1. IInv'
  BY NextHolds DEF SInv
<1> QED
  BY <1>1, StepHolds, SystemStays DEF SInv

(* Every switch shows what is on the disk, for any entries, however calls,   *)
(* answers, scans and visits of the screen overlap.                          *)
THEOREM SwitchesShowTheDisk == Spec => []SwitchesAreTrue
<1>1. ASSUME SInv PROVE SwitchesAreTrue
  <2> SUFFICES ASSUME work = None, calls = <<>>, answers = <<>>, ~unseen, NEW item \in report.items
               PROVE /\ item \in scan_startup
                     /\ ~Twins(item) /\ Tractable(item.entry)
                        /\ (item.id \in DOMAIN overrides => acked[item.entry] # None) => Shown(item) = item.enabled
    BY DEF SwitchesAreTrue
  <2>1. report.items = scan_startup
    BY <1>1 DEF SInv, Fresh, Quiet
  <2> DEFINE e == item.entry
  <2>2. e \in Entries[os] /\ item.id = Id[e] /\ item.enabled \in BOOLEAN
    BY <1>1, <2>1, ListedAreItems, ItemIs DEF SInv, IInv
  <2>3. SUFFICES ASSUME ~Twins(item), Tractable(e), item.id \in DOMAIN overrides, acked[e] # None
                 PROVE  overrides[item.id] = item.enabled
    BY <2>1 DEF Shown
  <2>4. Sole(e)
    BY <2>2, <2>3 DEF Twins, Sole
  <2>5. acked[e] = overrides[item.id] /\ acked[e] \in BOOLEAN
    BY <1>1, <2>2, <2>3, <2>4 DEF SInv, Mine, Settled, Pending, Failed, Typed
  <2>6. \A j \in scan_startup : j.entry = e => j = item
    <3>1. \A j \in scan_startup : j.entry = e => j.id = item.id
      BY <1>1, <2>2, ListedAreItems, ItemIs DEF SInv, IInv
    <3> QED
      BY <2>1, <2>3, <3>1 DEF Twins
  <2>7. Enabled(e) <=> item.enabled
    BY <2>1, <2>6 DEF Enabled
  <2>8. ToggleTakesEffect
    BY <1>1, ToggleHolds DEF SInv
  <2>9. ~Vanished(e)
    BY <2>1, UnitIsThere DEF Vanished
  <2> QED
    BY <2>2, <2>3, <2>5, <2>7, <2>8, <2>9 DEF ToggleTakesEffect
<1>2. Spec => []SInv
  BY SInvInit, SInvNext, PTL DEF Spec
<1> QED
  BY <1>1, <1>2, PTL
=============================================================================
