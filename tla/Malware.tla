-------------------------------- MODULE Malware --------------------------------
(* The malware scan (scanner/malware): sweeps over the catalogued roots, the *)
(* heuristics, the report.  Of a file this matters: bytes (len), modified_   *)
(* secs (mtime), the traits of its mode ("executable", "other_writable"), of *)
(* its extension ("exe_extension"), of its content ("eicar") and, for a unit *)
(* file, of the command in it ("fetches", "decodes", "in_tmp", "random").    *)
EXTENDS Catalogs, Files

CONSTANTS
  Now, Window,   \* the time of the scan, recent_window_secs
  MaxHash,       \* max_hash_bytes
  ScopeToHome,   \* scope_to_home
  VendorNames    \* names that contain a pattern of SHIPIT, or end in .app

ASSUME MalwareAssumption == Now \in Nat /\ Window \in Nat /\ MaxHash \in Nat /\ ScopeToHome \in BOOLEAN

Is(p, trait) == trait \in Meta[p].traits
Verdict(source, severity) == {[source |-> source, severity |-> severity]}
-----------------------------------------------------------------------------
(* heuristics.rs: each gives at most one verdict.                            *)
world_writable_binary(p) ==
  IF Is(p, "other_writable") /\ Is(p, "executable") THEN Verdict("WorldWritablePath", "Info") ELSE {}

(* A file of the future is not recent.                                       *)
Recent(p) == Meta[p].mtime <= Now /\ Now - Meta[p].mtime <= Window

recent_cache_binary(os, p) ==
  IF /\ Meta[p].len > 0 /\ Recent(p)
     /\ IF os = "windows" THEN Is(p, "exe_extension") ELSE Is(p, "executable")
  THEN Verdict("RecentCacheBinary", "Medium") ELSE {}

(* A download run in a pipe, a decoded script, or a name made up in a tmp    *)
(* folder: neither of the last two alone.                                    *)
suspicious_autostart(p) ==
  IF Is(p, "fetches") \/ Is(p, "decodes") \/ (Is(p, "in_tmp") /\ Is(p, "random"))
  THEN Verdict("SuspiciousAutostart", "Medium") ELSE {}

(* The quarantine attribute itself is not read: on mac every file below a    *)
(* folder named Downloads counts as one without it.                          *)
is_downloads_path(p) == \E n \in DOMAIN p : p[n] = "Downloads"

suspicious_drop(os, p) ==
  CASE ~Is(p, "exe_extension") \/ Meta[p].mtime > Now -> {}
    [] OTHER ->
         IF os = "windows" /\ \E n \in DOMAIN p : p[n] = "Startup"
         THEN Verdict("SuspiciousDrop", "Medium")
         ELSE IF os = "mac" /\ is_downloads_path(p) /\ Recent(p)
         THEN Verdict("SuspiciousDrop", "Info") ELSE {}

(* The trees the noise filter names; inside one, or inside a vendor's.       *)
NoisyTree ==
  LET one(S) == {<<n>> : n \in S}
      two(S) == {<<s[1], s[2]>> : s \in S}
  IN one({"git-core", "GitHubDesktop", "node_modules", ".rustup", ".deno", ".volta", ".asdf",
          ".sdkman", "pnpm-store", "yarn", ".gradle", ".m2", ".vscode-server", "JetBrains",
          "Sublime Text", "Microsoft Edge", "BraveSoftware", "Mozilla", "Chromium"})
     \cup two({"git"} \X {"dist"} \cup {"homebrew"} \X {"Cellar"} \cup {"opt"} \X {"homebrew"}
          \cup {".nvm", ".pyenv", ".rbenv"} \X {"versions"} \cup {".cargo"} \X {"bin", "registry"}
          \cup {"Library"} \X {"pnpm"} \cup {".vscode", ".cursor", ".windsurf", ".zed"} \X {"extensions"}
          \cup {"Google"} \X {"Chrome"} \cup {"Firefox"} \X {"Crash Reports"})
     \cup {<<".bun", "install", "cache">>, <<"Code", "User", "globalStorage">>}

is_noise_path(p) ==
  \/ \E t \in NoisyTree : \E n \in 0..(Len(p) - Len(t) - 1) : SubSeq(p, n + 1, n + Len(t)) = t
  \/ \E n \in DOMAIN p : p[n] \in VendorNames
-----------------------------------------------------------------------------
(* scan.rs.  A finding is a verdict with the path it is about.               *)
About(p, verdicts) == {[path |-> p, source |-> v.source, severity |-> v.severity] : v \in verdicts}

maybe_match_signature(p) ==
  IF Meta[p].len <= MaxHash /\ Is(p, "eicar") THEN Verdict("Signature", "Critical") ELSE {}

Scope(roots) == IF ScopeToHome THEN {r \in roots : AtOrBelow(home, r)} ELSE roots

(* A root that is a link is not entered.                                     *)
Walk(disk, roots) == UNION {FilesBelow(disk, r) : r \in roots}

(* Mutant: the noise filter comes before the signatures.                     *)
HashFilesQuietly(os, p) ==
  IF is_noise_path(p) THEN {} ELSE About(p, maybe_match_signature(p) \cup suspicious_drop(os, p))

(* Signatures are looked for in every file of a hash root, noise or not.     *)
HashFile(os, p) ==
  About(p, maybe_match_signature(p) \cup (IF is_noise_path(p) THEN {} ELSE suspicious_drop(os, p)))

CacheFile(os, p) ==
  IF is_noise_path(p) THEN {} ELSE About(p, recent_cache_binary(os, p))

walk_roots(disk, os) ==
  LET hash == Scope(hash_roots(os))
      cache == Scope(cache_binary_roots(os)) \ hash
  IN (UNION {HashFile(os, p) : p \in Walk(disk, hash)})
     \cup (UNION {CacheFile(os, p) : p \in Walk(disk, cache)})

(* The PATH and autostart folders are listed, not walked; the folder itself  *)
(* may be a link.                                                            *)
Listed(disk, dirs) ==
  UNION {{[path |-> d \o <<n>>, file |-> Real(disk, d) \o <<n>>] :
            n \in {m \in Names(disk, Real(disk, d)) : IsFile(disk, Real(disk, d) \o <<m>>)}} : d \in dirs}

sweep_world_writable(disk, os) ==
  UNION {IF is_noise_path(e.path) THEN {} ELSE About(e.path, world_writable_binary(e.file)) :
           e \in Listed(disk, Scope(world_writable_path_dirs(os)))}

sweep_autostart(disk, os) ==
  UNION {About(e.path, suspicious_autostart(e.file)) : e \in Listed(disk, Scope(autostart_roots(os)))}

severity_rank(s) == CASE s = "Critical" -> 3 [] s = "Medium" -> 2 [] s = "Info" -> 1

source_rank(s) ==
  CASE s = "Signature" -> 0 [] s = "SuspiciousAutostart" -> 1 [] s = "SuspiciousDrop" -> 2
    [] s = "RecentCacheBinary" -> 3 [] s = "WorldWritablePath" -> 4

(* The worst first; paths in the order of the alphabet are left out.         *)
Worse(f, g) ==
  \/ severity_rank(f.severity) > severity_rank(g.severity)
  \/ f.severity = g.severity /\ source_rank(f.source) < source_rank(g.source)

(* finalize: one row per path and source.  max_findings is never looked at.  *)
finalize(findings) ==
  LET Count(s) == Cardinality({f \in findings : f.severity = s}) IN
    [findings |-> SortedBy(findings, {p \in findings \X findings : Worse(p[1], p[2])}),
     critical_count |-> Count("Critical"), medium_count |-> Count("Medium"), info_count |-> Count("Info"),
     has_signature_hit |-> \E f \in findings : f.source = "Signature"]

scan_malware(disk, os) ==
  finalize(walk_roots(disk, os) \cup sweep_world_writable(disk, os) \cup sweep_autostart(disk, os))
=============================================================================
