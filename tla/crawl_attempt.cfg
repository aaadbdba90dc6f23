SPECIFICATION FairSpec
CONSTANTS
  None = None
  home = home
  about = about
  site = site
  other = other
  local = local
  literal = literal
  a1 = a1
  a2 = a2
  a3 = a3
  Hosts = {site, other, local, literal}
  Literals = {literal}
  Denied = {local}
  Addresses = {a1, a2, a3}
  Prohibited = {a3}
  IPv4 = {a2}
  Conns = {c1}
  Urls <- AllUrls
  HostOf <- Site
  StartUrls <- Start
  Links <- LinksOf
  Included = {home, about}
  Handlers = {w1, w2}
  Modes = {"http", "browser"}
  Concurrency <- OneBrowserPage
  MaxDepth <- OneEach
  MaxPages <- OneBrowserPage
  MaxRetries = 1
  MaxRedirects = 1
  MaxTimeouts <- OnlyHttp
  Zones <- OneZone
INVARIANTS
  TypeOK
  OneAddressSet
  NoFalseAlarm
  RecordsNeverAhead
  LossIsRepaired
  HandledHasRow
  CrawlIsClosed
PROPERTIES
  FingerprintStands
  AttemptEnds
  UpstreamsEnd
CHECK_DEADLOCK FALSE
