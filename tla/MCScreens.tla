------------------------------- MODULE MCScreens -------------------------------
(* Of each operating system a home with the files that make the scans differ:*)
(* caches inside caches, a profile in two places and one that is a link, user*)
(* data beside what may go, copies of different allocation and hard links, a *)
(* file that begins like a copy, bookmarks, a test signature in a tree       *)
(* that is otherwise ignored, files of the future, sparse and empty ones.    *)
EXTENDS Screens, TLC

MCHome == <<"/", "u">>
U(p) == MCHome \o p

MCBlocklist == {<<"/">>, <<"/", "usr">>, <<"/", "var">>, <<"/", "home">>, <<"/", "Users">>, <<"/", "System">>}

(* A file of a byte, long untouched, whose content is its own.               *)
MCFile(p) ==
  [at |-> p, type |-> "File", to |-> <<>>, blocks |-> 1, len |-> 1, mtime |-> 2,
   traits |-> {}, body |-> p, head |-> p, inode |-> p, container |-> FALSE]

Marked(p, traits) == [MCFile(p) EXCEPT !.traits = traits]
Fresh(p, traits) == [Marked(p, traits) EXCEPT !.mtime = 9]
Large(p, n)      == [MCFile(p) EXCEPT !.blocks = n, !.len = n]
Link(p, to)      == [MCFile(p) EXCEPT !.type = "Symlink", !.to = to]

FoxCache == U(<<".cache", "mozilla", "firefox", "x.default">>)
Fox      == U(<<".mozilla", "firefox", "x.default">>)
Chrome   == U(<<".config", "google-chrome", "Default">>)

Linux == {
  Fresh(U(<<".cache", "app", "a">>), {"executable"}),
  Large(U(<<".cache", "top">>), 2),
  MCFile(FoxCache \o <<"cache2", "e">>), Link(FoxCache, <<"/", "mnt", "c">>),
  Link(Chrome \o <<"Cache">>, <<"/", "mnt", "c">>),
  MCFile(<<"/", "mnt", "c", "cache2", "z">>),
  MCFile(Fox \o <<"cookies.sqlite">>), MCFile(Fox \o <<"logins.json">>),
  MCFile(Chrome \o <<"Network", "Cookies">>), MCFile(Chrome \o <<"Network", "TransportSecurity">>),
  Marked(U(<<"Downloads", "node_modules", "e">>), {"eicar"}),
  [Large(U(<<"Downloads", "d">>), 3) EXCEPT !.body = <<"copy">>, !.head = <<"copy">>],
  [Large(U(<<"Documents", "p">>), 3) EXCEPT !.body = <<"copy">>, !.head = <<"copy">>],
  [Large(U(<<"Documents", "q">>), 3) EXCEPT !.body = <<"copy">>, !.head = <<"copy">>, !.inode = U(<<"Documents", "p">>)],
  [Large(U(<<"Documents", "s">>), 2) EXCEPT !.len = 3, !.body = <<"copy">>, !.head = <<"copy">>],
  [Large(U(<<"Documents", "z">>), 2) EXCEPT !.head = <<"copy">>],
  Marked(U(<<".config", "autostart", "u.desktop">>), {"in_tmp", "random"}),
  [Marked(U(<<".local", "bin", "w">>), {"other_writable", "executable"}) EXCEPT !.mtime = 11],
  [Marked(U(<<".local", "share", "Trash", "files", "t">>), {"eicar"}) EXCEPT !.len = 5],
  Fresh(<<"/", "tmp", "n">>, {"executable"}),
  MCFile(U(<<".cargo", "registry", "cache", "c">>))}

Profiles == <<"Firefox", "Profiles", "x.default">>
MacApp   == U(<<"Library", "Application Support">>)
MacChrome == MacApp \o <<"Google", "Chrome">>

Mac == {
  Fresh(U(<<"Library", "Caches", "com.apple.Safari", "c">>), {"executable"}),
  Large(U(<<"Library", "Caches">> \o Profiles \o <<"cache2", "e">>), 2),
  MCFile(MacApp \o Profiles \o <<"places.sqlite">>),
  MCFile(MacApp \o Profiles \o <<"logins.json">>),
  Large(U(<<"Library", "Safari", "History.db">>), 3), MCFile(U(<<"Library", "Safari", "Bookmarks.plist">>)),
  Fresh(U(<<"Downloads", "i.dmg">>), {"exe_extension"}),
  Marked(U(<<"Library", "LaunchAgents", "l.plist">>), {"eicar", "fetches"}),
  Link(U(<<".Trash">>), <<"/", "vol", "trash">>), MCFile(<<"/", "vol", "trash", "t">>),
  MCFile(U(<<"Library", "Logs">>)),
  MCFile(MacChrome \o <<"Default", "Login Data">>), MCFile(MacChrome \o <<"Profile 1", "Cookies">>),
  MCFile(MacChrome \o <<"Default", "Network", "Cookies">>),
  [Large(U(<<"Docker.raw">>), 4) EXCEPT !.len = 9, !.container = TRUE],
  [MCFile(U(<<"Downloads", "empty">>)) EXCEPT !.len = 0]}

Local == U(<<"AppData", "Local">>)
Roaming == U(<<"AppData", "Roaming">>)
Edge(e) == Local \o <<"Microsoft", e, "User Data">>

(* No blocks are reported on windows, nor inodes.                            *)
Windows == {[f EXCEPT !.blocks = 0, !.inode = <<>>] : f \in {
  Fresh(Local \o <<"Temp", "s.exe">>, {"exe_extension"}),
  MCFile(Local \o <<"Mozilla">> \o Profiles \o <<"cache2", "e">>),
  MCFile(Roaming \o <<"Mozilla">> \o Profiles \o <<"places.sqlite">>),
  MCFile(Roaming \o <<"Mozilla">> \o Profiles \o <<"logins.json">>),
  Marked(StartupFolder \o <<"s.exe">>, {"exe_extension"}),
  Marked(StartupFolder \o <<"o.txt">>, {"random", "decodes"}),
  MCFile(Edge("Edge") \o <<"Default", "Cache", "e">>), MCFile(Edge("Edge Dev") \o <<"Profile 1", "Cookies">>),
  [Large(U(<<"Desktop", "a">>), 2) EXCEPT !.body = <<"copy">>, !.head = <<"copy">>],
  [Large(U(<<"Desktop", "b">>), 2) EXCEPT !.body = <<"copy">>, !.head = <<"copy">>],
  [Large(U(<<"Desktop", "c">>), 2) EXCEPT !.body = <<"copy">>, !.head = <<"copy">>],
  MCFile(Roaming \o <<"npm-cache", "n">>),
  [Marked(U(<<"Downloads", "f.exe">>), {"exe_extension"}) EXCEPT !.mtime = 11],
  [MCFile(U(<<"Empty">>)) EXCEPT !.type = "Directory"]}}

At(files) == {f.at : f \in files}
Places == [mac |-> At(Mac), linux |-> At(Linux), windows |-> At(Windows)]

MCEntries == Places

(* TLC keeps the value of a definition, and evaluates the one a constant is   *)
(* given every time.                                                         *)
Entry ==
  FoldSet(LAMBDA f, m : m @@ (f.at :> f), <<>>, Mac \cup Linux \cup Windows)

MCMeta == Entry

Lasting ==
  {p \in DOMAIN Entry :
     p[Len(p)] \in {"logins.json", "Login Data", "TransportSecurity", "Bookmarks.plist", "places.sqlite",
                   "p", "q"}}

MCPrecious == Lasting

(* Numbers of the paths of these files and of the folders they are in.       *)
Numbered(files, start) ==
  FoldSet(LAMBDA p, f : f @@ (p :> start + Cardinality(DOMAIN f)), <<>>,
          UNION {{SubSeq(f.at, 1, n) : n \in 1..Len(f.at)} : f \in files})

Number == Numbered(Linux, 0) @@ Numbered(Mac, 100) @@ Numbered(Windows, 200)

MCAlpha == Number

Volume(mount, total, free, removable) ==
  [mount |-> mount, total |-> total, free |-> free, pseudo_fs |-> FALSE, removable |-> removable]

Listing == [
  linux   |-> {Volume("/", 10, 4, FALSE), Volume("/", 12, 4, FALSE), Volume("/home", 20, 25, FALSE),
               Volume("/run/x", 90, 0, FALSE), Volume("/media/usb", 50, 1, TRUE),
               [Volume("/home/u/t", 60, 60, FALSE) EXCEPT !.pseudo_fs = TRUE]},
  mac     |-> {Volume("/", 10, 4, FALSE), Volume("/System/Volumes/VM", 40, 4, FALSE),
               Volume("/System/Volumes/Data", 30, 4, FALSE), Volume("/Volumes/D", 0, 0, TRUE)},
  windows |-> {Volume("C:\\", 10, 4, FALSE), Volume("D:\\", 40, 4, FALSE), Volume("E:\\", 50, 9, TRUE)}]

MCMounts == Listing

MCProcs ==
  {[pid |-> 1, memory |-> 5, cpu |-> 1], [pid |-> 7, memory |-> 5, cpu |-> NaN],
   [pid |-> 8, memory |-> 9, cpu |-> 4], [pid |-> 9, memory |-> 2, cpu |-> 4]}
=============================================================================
