-------------------------------- MODULE Safety --------------------------------
(* The path policy of the cleaner (cleaner/safety.rs): what it refuses to    *)
(* move, whoever asks.  A path is a sequence of components; an absolute one  *)
(* starts with "/".                                                          *)
EXTENDS Naturals, SequencesExt

CONSTANTS home, SYSTEM_BLOCKLIST, PRIMARY_USER_FOLDERS

ASSUME SafetyAssumption ==
  /\ home \in Seq(STRING) /\ SYSTEM_BLOCKLIST \subseteq Seq(STRING)
  /\ PRIMARY_USER_FOLDERS \subseteq STRING

(* A .. takes the last name away; there is nothing above the root.           *)
normalize(path) ==
  FoldLeft(LAMBDA out, c : IF c = "." THEN out
                           ELSE IF c # ".." THEN Append(out, c)
                           ELSE IF out # <<>> /\ Last(out) # "/" THEN Front(out)
                           ELSE out,
           <<>>, path)

is_strict_ancestor(a, d) == \E n \in 0..(Len(d) - 1) : a = SubSeq(d, 1, n)

PrimaryFolder == {Append(home, name) : name \in PRIMARY_USER_FOLDERS}

(* Mutant: only the listed folders themselves are refused.                   *)
ClassifyListed(path, norm) ==
  \/ path = <<>> \/ path[1] # "/"
  \/ norm \in PrimaryFolder \cup {home} \cup SYSTEM_BLOCKLIST

(* The cleaner refuses the path.                                             *)
classify(path, norm) ==
  \/ path = <<>> \/ path[1] # "/"
  \/ norm \in PrimaryFolder
  \/ norm = home \/ is_strict_ancestor(norm, home)
  \/ \E crit \in SYSTEM_BLOCKLIST : norm = crit \/ is_strict_ancestor(norm, crit)
=============================================================================
