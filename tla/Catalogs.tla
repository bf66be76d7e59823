------------------------------- MODULE Catalogs -------------------------------
(* Where the junk, privacy and malware scanners look, per operating system   *)
(* (scanner/{junk,privacy,malware}/catalog.rs).  Labels, descriptions and    *)
(* icons are left out.                                                       *)
EXTENDS Safety

Os == {"mac", "linux", "windows"}

H(rel) == home \o rel
AppSupport == H(<<"Library", "Application Support">>)
Caches     == H(<<"Library", "Caches">>)
Config     == H(<<".config">>)
Flatpak(app, rel) == H(<<".var", "app", app>>) \o rel
LocalData   == H(<<"AppData", "Local">>)
RoamingData == H(<<"AppData", "Roaming">>)
StartupFolder == RoamingData \o <<"Microsoft", "Windows", "Start Menu", "Programs", "Startup">>
-----------------------------------------------------------------------------
(* junk::catalog_for: the bases of each category.                            *)
CargoCache ==
  {H(<<".cargo", "registry", "cache">>), H(<<".cargo", "registry", "src">>)}

DeveloperCaches == [
  npm_cache    |-> {H(<<".npm", "_cacache">>)},
  pnpm_store   |-> {H(<<".pnpm-store">>)},
  cargo_cache  |-> CargoCache,
  go_mod_cache |-> {H(<<"go", "pkg", "mod", "cache">>)}]

MacJunk == [
  user_caches |-> {Caches},
  system_logs |-> {H(<<"Library", "Logs">>)},
  xcode_derived_data |-> {H(<<"Library", "Developer", "Xcode", "DerivedData">>)},
  trash |-> {H(<<".Trash">>)}]

LinuxJunk == [
  user_caches |-> {H(<<".cache">>)},
  temp_files  |-> {<<"/", "tmp">>},
  trash |-> {H(<<".local", "share", "Trash">>)}]

WindowsJunk == [
  temp_files    |-> {LocalData \o <<"Temp">>},
  chrome_cache  |-> {LocalData \o <<"Google", "Chrome", "User Data", "Default", "Cache">>},
  edge_cache    |-> {LocalData \o <<"Microsoft", "Edge", "User Data", "Default", "Cache">>},
  firefox_cache |-> {LocalData \o <<"Mozilla", "Firefox", "Profiles">>},
  npm_cache     |-> {RoamingData \o <<"npm-cache">>},
  cargo_cache   |-> CargoCache]

With(f, g) == [x \in DOMAIN f \cup DOMAIN g |-> IF x \in DOMAIN f THEN f[x] ELSE g[x]]

JunkCatalog(os) ==
  CASE os = "mac"     -> With(MacJunk, DeveloperCaches)
    [] os = "linux"   -> With(LinuxJunk, DeveloperCaches)
    [] os = "windows" -> WindowsJunk
-----------------------------------------------------------------------------
(* privacy::catalog_for: the roots of each browser; and, per kind of         *)
(* browser, what each category holds, relative to a profile or to the home.  *)
mac_catalog == [
  chrome   |-> {AppSupport \o <<"Google", "Chrome">>},
  chromium |-> {AppSupport \o <<"Chromium">>},
  edge     |-> {AppSupport \o <<"Microsoft Edge">>},
  brave    |-> {AppSupport \o <<"BraveSoftware", "Brave-Browser">>},
  vivaldi  |-> {AppSupport \o <<"Vivaldi">>},
  firefox  |-> {AppSupport \o <<"Firefox", "Profiles">>, Caches \o <<"Firefox", "Profiles">>},
  safari   |-> {H(<<"Library", "Safari">>)}]

(* Native, XDG, ESR, snap and flatpak homes of one Firefox.                  *)
LinuxFirefox ==
  LET split == {<<".mozilla", "firefox">>, <<".cache", "mozilla", "firefox">>}
      xdg   == <<".config", "mozilla", "firefox">>
  IN {H(r) : r \in split \cup {xdg, <<".mozilla", "firefox-esr">>}}
     \cup {H(<<"snap", "firefox", "common">> \o r) : r \in split}
     \cup {Flatpak("org.mozilla.firefox", r) : r \in split \cup {xdg}}

linux_catalog == [
  chrome   |-> {Config \o <<"google-chrome">>,
                Flatpak("com.google.Chrome", <<"config", "google-chrome">>)},
  chromium |-> {Config \o <<"chromium">>,
                H(<<"snap", "chromium", "common", "chromium">>),
                Flatpak("org.chromium.Chromium", <<"config", "chromium">>)},
  edge     |-> {Config \o <<e>> : e \in {"microsoft-edge", "microsoft-edge-dev", "microsoft-edge-beta"}}
               \cup {Flatpak("com.microsoft.Edge", <<"config", "microsoft-edge">>)},
  brave    |-> {Config \o <<"BraveSoftware", "Brave-Browser">>,
                Flatpak("com.brave.Browser", <<"config", "BraveSoftware", "Brave-Browser">>)},
  vivaldi  |-> {Config \o <<"vivaldi">>,
                Flatpak("com.vivaldi.Vivaldi", <<"config", "vivaldi">>)},
  firefox  |-> LinuxFirefox]

windows_catalog == [
  chrome   |-> {LocalData \o <<"Google", "Chrome", "User Data">>},
  chromium |-> {LocalData \o <<"Chromium", "User Data">>},
  edge     |-> {LocalData \o <<"Microsoft", e, "User Data">> : e \in {"Edge", "Edge Dev", "Edge Beta"}},
  brave    |-> {LocalData \o <<"BraveSoftware", "Brave-Browser", "User Data">>},
  vivaldi  |-> {LocalData \o <<"Vivaldi", "User Data">>},
  firefox  |-> {d \o <<"Mozilla", "Firefox", "Profiles">> : d \in {LocalData, RoamingData}}]

BrowserCatalog(os) ==
  CASE os = "mac"     -> mac_catalog
    [] os = "linux"   -> linux_catalog
    [] os = "windows" -> windows_catalog

profile_mode(browser) ==
  CASE browser = "firefox" -> "FirefoxLike"
    [] browser = "safari"  -> "None"
    [] OTHER               -> "ChromeLike"

One(names) == {<<n>> : n \in names}
InServiceWorker(names) == {<<"Service Worker", n>> : n \in names}
Sqlite(name) == One({name \o s : s \in {".sqlite", ".sqlite-shm", ".sqlite-wal"}})

(* Mutant: the folder the newer cookie files are in.                         *)
ChromeNetwork == One({"Cookies", "Cookies-journal", "Network"})

ChromeCookies ==
  One({"Cookies", "Cookies-journal"})
  \cup {<<"Network", "Cookies">>, <<"Network", "Cookies-journal">>}

chrome_like_categories == [
  cache    |-> One({"Cache", "Code Cache", "GPUCache", "Media Cache"})
               \cup InServiceWorker({"CacheStorage", "ScriptCache"}),
  cookies  |-> ChromeCookies,
  history  |-> One({"History", "History-journal", "History Provider Cache", "Visited Links",
                    "Top Sites", "Top Sites-journal", "Favicons", "Favicons-journal"}),
  sessions |-> One({"Sessions", "Session Storage", "Current Session", "Current Tabs",
                    "Last Session", "Last Tabs"}),
  local_storage |-> One({"Local Storage", "IndexedDB", "File System"})
                    \cup InServiceWorker({"Database"})]

firefox_categories == [
  cache    |-> One({"cache2", "startupCache", "OfflineCache", "jumpListCache"}),
  cookies  |-> Sqlite("cookies"),
  history  |-> Sqlite("places") \cup Sqlite("favicons"),
  sessions |-> One({"sessionstore.jsonlz4", "sessionstore.js", "sessionstore-backups",
                    "recovery.jsonlz4", "recovery.baklz4"}),
  local_storage |-> One({"storage"}) \cup Sqlite("webappsstore")]

(* Safari has the newer, sandboxed library beside the old one.               *)
safari_categories ==
  LET Library == {<<"Library">>, <<"Library", "Containers", "com.apple.Safari", "Data", "Library">>}
      Both(rels) == {l \o r : l \in Library, r \in rels}
      Old(rels)  == {<<"Library">> \o r : r \in rels}
  IN [cache    |-> Both({<<"Caches", "com.apple.Safari">>})
                   \cup Old({<<"Caches", "com.apple.WebKit.PluginProcess">>}),
      cookies  |-> Both({<<"Cookies", "Cookies.binarycookies">>}),
      history  |-> Both({<<"Safari", "History.db">>, <<"Safari", "Downloads.plist">>})
                   \cup Old({<<"Safari", f>> : f \in {"History.db-shm", "History.db-wal", "TopSites.plist"}}),
      sessions |-> Both({<<"Safari", "LastSession.plist">>})
                   \cup Old({<<"Saved Application State", "com.apple.Safari.savedState">>}),
      local_storage |-> Both({<<"WebKit", "WebsiteData">>})
                        \cup Old({<<"Safari", f>> : f \in {"LocalStorage", "Databases"}})]

categories(browser) ==
  CASE profile_mode(browser) = "ChromeLike"  -> chrome_like_categories
    [] profile_mode(browser) = "FirefoxLike" -> firefox_categories
    [] profile_mode(browser) = "None"        -> safari_categories
-----------------------------------------------------------------------------
(* malware/catalog.rs                                                        *)
hash_roots(os) ==
  {H(<<"Downloads">>), H(<<"Desktop">>)} \cup
  CASE os = "mac"     -> {H(<<"Library", "LaunchAgents">>)}
    [] os = "linux"   -> {H(<<".local", "share", "Trash", "files">>), Config \o <<"autostart">>}
    [] os = "windows" -> {StartupFolder}

cache_binary_roots(os) ==
  CASE os = "mac"     -> {Caches, <<"/", "tmp">>, <<"/", "private", "tmp">>}
    [] os = "linux"   -> {H(<<".cache">>), <<"/", "tmp">>, <<"/", "var", "tmp">>}
    [] os = "windows" -> {LocalData \o <<"Temp">>}

world_writable_path_dirs(os) ==
  IF os = "windows" THEN {}
  ELSE {<<"/", "usr", "local", "bin">>, <<"/", "usr", "local", "sbin">>,
        <<"/", "opt", "homebrew", "bin">>, H(<<".local", "bin">>), H(<<"bin">>)}

autostart_roots(os) ==
  CASE os = "mac"     -> {H(<<"Library", "LaunchAgents">>)}
    [] os = "linux"   -> {Config \o <<"autostart">>, Config \o <<"systemd", "user">>}
    [] os = "windows" -> {StartupFolder}
=============================================================================
