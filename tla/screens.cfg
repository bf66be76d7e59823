CONSTANTS
  home <- MCHome
  SYSTEM_BLOCKLIST <- MCBlocklist
  PRIMARY_USER_FOLDERS = {"Documents", "Desktop", "Downloads", "Pictures", "Music", "Videos", "Movies", "Public"}
  Meta <- MCMeta
  Block = 1
  MaxRows = 1
  ChromeProfile = {"Default", "Profile 1"}
  FirefoxProfile = {"x.default"}
  Now = 10
  Window = 3
  MaxHash = 8
  ScopeToHome = FALSE
  VendorNames = {"Vendor.app"}
  MaxLaidOut = 2
  Fraction = 4
  Alpha <- MCAlpha
  Cap = 2
  MinBytes = 1
  MinIdle = 1
  NaN = NaN
  Entries <- MCEntries
  Mounts <- MCMounts
  Procs <- MCProcs
  MaxPresent = 4
  self = 7
  Precious <- MCPrecious
SPECIFICATION MachineSpec
INVARIANTS OffersAreHonest UserDataIsNotOffered TotalsAreExact FindingsAreJustified TilesAccount OnePrimary ListsKeepTheLargest
CHECK_DEADLOCK FALSE
