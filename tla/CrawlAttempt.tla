----------------------------- MODULE CrawlAttempt -----------------------------
(* The inside of one attempt of processCrawlJob (workers/crawl.ts): the start  *)
(* guard, the frontier, the page handlers that run at the same time over one   *)
(* shared progress, and the finally clause; with the target guard and, in a    *)
(* browser attempt, the proxy.  CrawlJobs has the same attempt from outside:   *)
(* there a page is one step, here a job is.                                    *)
EXTENDS Integers, PinnedProxy

CONSTANTS
  Urls,          \* records of a page and the number of its trailing slashes
  HostOf,        \* the host of each page
  StartUrls,
  Links,         \* per page, the URLs it links to
  Included,      \* the pages the patterns let through
  Handlers,      \* page handlers at a time, those given up on included
  Modes,         \* spec.browser: "http", "browser"
  Concurrency,   \* maxConcurrency of either mode
  MaxDepth,      \* spec.maxDepth of a job of either mode, 0 if spec.mode is single
  MaxPages,      \* spec.maxPages of a job of either mode
  MaxRetries,    \* maxRequestRetries
  MaxRedirects,
  MaxTimeouts,   \* how often a request handler may time out, in either mode
  Zones          \* what the DNS servers may answer

Pages == DOMAIN HostOf

ASSUME AttemptAssumption ==
  /\ Urls \subseteq [page : Pages, slashes : Nat]
  /\ IsFiniteSet(Urls)
  /\ HostOf \in [Pages -> Hosts]
  /\ StartUrls \subseteq Urls
  /\ Links \in [Pages -> SUBSET Urls]
  /\ \A u \in Urls : \A n \in 0..u.slashes : [u EXCEPT !.slashes = n] \in Urls
  /\ Modes \subseteq {"http", "browser"}
  /\ Concurrency \in [Modes -> Nat \ {0}]
  /\ {MaxRetries, MaxRedirects} \subseteq Nat
  /\ {MaxDepth, MaxPages, MaxTimeouts} \subseteq [Modes -> Nat]
  /\ Zones \subseteq [Hosts -> SUBSET (SUBSET Addresses)]
  /\ \A z \in Zones, h \in Literals : \E a \in Addresses : z[h] = {{a}}

VARIABLES
  mode,
  phase,    \* "guard", "run", "count", "complete", "close", "over"
  unguarded,  \* the start URLs whose guard has not returned
  running,  \* the job's row says so
  rows,     \* the hashes of the job's results
  records,  \* progress.records
  stored,   \* the records of markJobCompleted
  request,  \* the frontier: one request per unique key
  handler,
  timeouts

frontier == <<request, handler, timeouts>>
jobRow == <<running, rows, stored>>
vars == <<mode, phase, unguarded, jobRow, records, frontier, targets, proxyVars>>

-----------------------------------------------------------------------------
(* URLs.  canonicalizeUrl takes one slash off a path that is not the root; the *)
(* rest of it (fragment, case, tracking parameters) is the same at every call. *)

Strip(u) == IF u.slashes > 0 THEN [u EXCEPT !.slashes = @ - 1] ELSE u
Canonical(u) == Strip(u)

(* A bug: the hash is that of the URL as it stands. *)
HashAsIs(u) == u
UrlHash(u) == Canonical(u)

(* The crawler library's key of a request takes a slash off, too.              *)
UniqueKey(u) == Strip(u)

Roots == {HostOf[u.page] : u \in StartUrls}
ShouldEnqueue(u) == HostOf[u.page] \in Roots /\ u.page \in Included

(* transformDiscoveredRequest over the links the same-hostname strategy lets   *)
(* through.                                                                    *)
Discovered(page) ==
  {Canonical(u) : u \in {v \in Links[page] :
     HostOf[v.page] = HostOf[page] /\ ShouldEnqueue(Canonical(v))}}

-----------------------------------------------------------------------------
(* The frontier: a RequestQueue keeps one request per key, the first to come.  *)

RequestStates == {"absent", "queued", "busy", "handled", "failed"}
NoRequest == [state |-> "absent", url |-> None, depth |-> 0, retries |-> 0]
Known == {k \in Urls : request[k].state # "absent"}
Finished == {k \in Urls : request[k].state \in {"handled", "failed"}}

NewRequest(u, depth) == [state |-> "queued", url |-> u, depth |-> depth, retries |-> 0]

(* The frontiers that adding these URLs, in some order, may make.              *)
Added(urls, depth) ==
  LET keys == {UniqueKey(u) : u \in urls}
  IN  {[k \in Urls |-> IF k \in keys /\ request[k].state = "absent"
                       THEN NewRequest(first[k], depth) ELSE request[k]] :
         first \in {f \in [keys -> urls] : \A k \in keys : UniqueKey(f[k]) = k}}

(* The request a handler leaves behind when it fails: tried again, or failed   *)
(* for good.                                                                   *)
GivenUp(r) ==
  IF r.retries < MaxRetries THEN [r EXCEPT !.state = "queued", !.retries = @ + 1]
                            ELSE [r EXCEPT !.state = "failed"]

-----------------------------------------------------------------------------
(* Page handlers.  `pc` is the await a handler is about to make:               *)
(*   guard    guardTarget(request.url) and createPinnedCrawlLookup             *)
(*   connect  a connection of got and its response   load  page.goto           *)
(*   verify   processPage's status check and guardTarget(request.loadedUrl)    *)
(*   insert   insertResult and updateProgress        links  enqueueLinks       *)

NoHandler ==
  [pc |-> "idle", key |-> None, at |-> None, pinned |-> [h \in Hosts |-> {}], hops |-> 0,
   read |-> 0, zombie |-> FALSE]

Key(w) == handler[w].key
Page(w) == request[Key(w)].url.page
Host(w) == HostOf[Page(w)]
Live == {w \in Handlers : handler[w].pc # "idle" /\ ~handler[w].zombie}

(* The navigation is over: its pins and redirects do not matter any more. *)
Arrive(w, pc, h) ==
  handler' = [handler EXCEPT ![w] =
    [NoHandler EXCEPT !.pc = pc, !.key = Key(w), !.at = h, !.zombie = handler[w].zombie]]
Drop(w) == handler' = [handler EXCEPT ![w] = NoHandler]

(* Idle handlers are alike. *)
IsNextIdle(w) == w = CHOOSE x \in Handlers : handler[x].pc = "idle"

(* The crawler takes a request; preNavigationHooks checks the job's status.    *)
Take(w, k) ==
  /\ phase = "run"
  /\ handler[w].pc = "idle" /\ IsNextIdle(w)
  /\ Cardinality(Live) < Concurrency[mode]
  /\ request[k].state = "queued"
  /\ Cardinality(Finished) < MaxPages[mode]
  /\ IF running
     THEN /\ request' = [request EXCEPT ![k].state = "busy"]
          /\ handler' = [handler EXCEPT ![w] = [NoHandler EXCEPT !.pc = "guard", !.key = k]]
     ELSE /\ request' = [request EXCEPT ![k].state = "failed"]
          /\ UNCHANGED handler
  /\ UNCHANGED <<mode, phase, unguarded, jobRow, records, timeouts, targets, proxyVars>>

(* For http, createPinnedCrawlLookup resolves the host again and pins it; the  *)
(* two answers have one fingerprint.                                           *)
GuardPage(w) ==
  /\ handler[w].pc = "guard"
  /\ \E answer \in Answers(Host(w)) :
       /\ Approve(Host(w), answer)
       /\ handler' = IF mode = "browser" THEN [handler EXCEPT ![w].pc = "load"]
            ELSE [handler EXCEPT ![w].pc = "connect", ![w].at = Host(w),
                                 ![w].pinned[Host(w)] = ToSet(answer)]
  /\ NoDial
  /\ UNCHANGED <<mode, phase, unguarded, jobRow, records, request, timeouts, proxyVars>>

(* Where a connection goes: to a literal itself, for which a socket calls no   *)
(* lookup; or to what the lookup has pinned; or else (a redirect led here) to  *)
(* what it resolves and pins.                                                  *)
Lookup(w, h) ==
  \/ h \in Literals /\ Dial(h, UNION dns[h]) /\ UNCHANGED <<dns, fingerprint>>
  \/ /\ h \notin Literals /\ handler[w].pinned[h] # {}
     /\ Dial(h, handler[w].pinned[h])
     /\ UNCHANGED <<dns, fingerprint>>
  \/ /\ h \notin Literals /\ handler[w].pinned[h] = {}
     /\ \E answer \in Answers(h) : Approve(h, answer) /\ Dial(h, ToSet(answer))

(* The response: the page, or a redirect to a host that may be named.          *)
Connect(w) ==
  LET h == handler[w].at
      here == [handler[w] EXCEPT !.pinned[h] = IF @ # {} \/ h \in Literals THEN @ ELSE fingerprint'[h]]
  IN  /\ handler[w].pc = "connect"
      /\ Lookup(w, h)
      /\ \/ Arrive(w, "verify", h)
         \/ /\ handler[w].hops < MaxRedirects
            /\ \E g \in Redirectable :
                 handler' = [handler EXCEPT ![w] = [here EXCEPT !.at = g, !.hops = @ + 1]]
      /\ UNCHANGED <<mode, phase, unguarded, jobRow, records, request, timeouts, proxyVars>>

(* A bug: without a loadedUrl the page is nowhere. *)
LoadNowhere(w) ==
  /\ handler[w].pc = "load"
  /\ Arrive(w, "verify", None)
  /\ UNCHANGED <<mode, phase, unguarded, jobRow, records, request, timeouts, targets, proxyVars>>

(* The browser has loaded the page, from a host it has got through to.         *)
Load(w) ==
  /\ handler[w].pc = "load"
  /\ \E h \in Hosts : dialled[h] # {} /\ Arrive(w, "verify", h)
  /\ UNCHANGED <<mode, phase, unguarded, jobRow, records, request, timeouts, targets, proxyVars>>

(* A bug: what is guarded again is the URL asked for, not the one loaded. *)
VerifyAsked(w) ==
  /\ handler[w].pc = "verify"
  /\ running
  /\ \E answer \in Answers(Host(w)) : Approve(Host(w), answer)
  /\ NoDial
  /\ handler' = [handler EXCEPT ![w].pc = "insert", ![w].read = records]
  /\ UNCHANGED <<mode, phase, unguarded, jobRow, records, request, timeouts, proxyVars>>

(* guardTarget checks where the page came from, a literal among them.          *)
(* `progress.records += await ...` reads before it awaits.                     *)
Verify(w) ==
  /\ handler[w].pc = "verify"
  /\ running
  /\ \E answer \in Answers(handler[w].at) : Approve(handler[w].at, answer)
  /\ NoDial
  /\ handler' = [handler EXCEPT ![w].pc = "insert", ![w].read = records]
  /\ UNCHANGED <<mode, phase, unguarded, jobRow, records, request, timeouts, proxyVars>>

Hash(w) == UrlHash(request[Key(w)].url)
Inserts(w) == running /\ Hash(w) \notin rows

(* A bug: every page counts, inserted or not. *)
CountEvery(w) ==
  /\ handler[w].pc = "insert"
  /\ rows' = IF Inserts(w) THEN rows \cup {Hash(w)} ELSE rows
  /\ records' = handler[w].read + 1
  /\ handler' = [handler EXCEPT ![w].pc = "links", ![w].at = None, ![w].read = 0]
  /\ UNCHANGED <<mode, phase, unguarded, running, stored, request, timeouts, targets, proxyVars>>

(* The row is inserted if the job runs and does not have it, and what was read *)
(* before gets the number of rows inserted added.                              *)
Insert(w) ==
  /\ handler[w].pc = "insert"
  /\ rows' = IF Inserts(w) THEN rows \cup {Hash(w)} ELSE rows
  /\ records' = handler[w].read + IF Inserts(w) THEN 1 ELSE 0
  /\ handler' = [handler EXCEPT ![w].pc = "links", ![w].at = None, ![w].read = 0]
  /\ UNCHANGED <<mode, phase, unguarded, running, stored, request, timeouts, targets, proxyVars>>

(* What enqueueLinks adds: all, or what maxRequestsPerCrawl leaves room for.   *)
Follows(w) ==
  LET r == request[Key(w)]
      found == IF r.depth < MaxDepth[mode] THEN Discovered(r.url.page) ELSE {}
  IN  IF Cardinality(Known \cup {UniqueKey(u) : u \in found}) <= MaxPages[mode]
      THEN Added(found, r.depth + 1)
      ELSE UNION {Added(some, r.depth + 1) : some \in SUBSET found}

(* A bug: a page tried before has had its links followed. *)
FollowAtFirst(w) ==
  /\ handler[w].pc = "links"
  /\ \E next \in IF request[Key(w)].retries = 0 THEN Follows(w) ELSE {request} :
       request' = IF handler[w].zombie THEN next ELSE [next EXCEPT ![Key(w)].state = "handled"]
  /\ Drop(w)
  /\ UNCHANGED <<mode, phase, unguarded, jobRow, records, timeouts, targets, proxyVars>>

(* The handler returns; the crawler hears of it unless it has given up.        *)
FollowLinks(w) ==
  /\ handler[w].pc = "links"
  /\ \E next \in Follows(w) :
       request' = IF handler[w].zombie THEN next ELSE [next EXCEPT ![Key(w)].state = "handled"]
  /\ Drop(w)
  /\ UNCHANGED <<mode, phase, unguarded, jobRow, records, timeouts, targets, proxyVars>>

(* An await throws: a host is refused, a fetch, a statement or a call of Redis *)
(* fails, enqueueLinks adds a part.                                            *)
HandlerFails(w) ==
  /\ handler[w].pc # "idle"
  /\ \E next \in IF handler[w].pc = "links" THEN Follows(w) \cup {request} ELSE {request} :
       request' = IF handler[w].zombie THEN next
                  ELSE [next EXCEPT ![Key(w)] = GivenUp(@)]
  /\ Drop(w)
  /\ UNCHANGED <<mode, phase, unguarded, jobRow, records, timeouts, targets, proxyVars>>

(* processPage finds that the job does not run any more: no retry.             *)
HandlerStops(w) ==
  /\ handler[w].pc = "verify"
  /\ ~running
  /\ request' = IF handler[w].zombie THEN request ELSE [request EXCEPT ![Key(w)].state = "failed"]
  /\ Drop(w)
  /\ UNCHANGED <<mode, phase, unguarded, jobRow, records, timeouts, targets, proxyVars>>

(* requestHandlerTimeoutSecs: the crawler gives the handler up, which goes on. *)
HandlerTimeout(w) ==
  /\ phase = "run"
  /\ w \in Live
  /\ handler[w].pc \in {"verify", "insert", "links"}
  /\ timeouts < MaxTimeouts[mode]
  /\ timeouts' = timeouts + 1
  /\ handler' = [handler EXCEPT ![w].zombie = TRUE]
  /\ request' = [request EXCEPT ![Key(w)] = GivenUp(@)]
  /\ UNCHANGED <<mode, phase, unguarded, jobRow, records, targets, proxyVars>>

HandlerStep(w) ==
  \/ GuardPage(w) \/ Connect(w) \/ Load(w) \/ Verify(w) \/ Insert(w) \/ FollowLinks(w)
  \/ HandlerFails(w) \/ HandlerStops(w)

-----------------------------------------------------------------------------
(* The attempt.                                                                *)

(* Promise.all over the start URLs. *)
GuardStart(u) ==
  /\ phase = "guard"
  /\ u \in unguarded
  /\ \E answer \in Answers(HostOf[u.page]) : Approve(HostOf[u.page], answer)
  /\ NoDial
  /\ unguarded' = unguarded \ {u}
  /\ UNCHANGED <<mode, phase, jobRow, records, frontier, proxyVars>>

RefuseStart(u) ==
  /\ phase = "guard"
  /\ u \in unguarded
  /\ phase' = "close"
  /\ UNCHANGED <<mode, unguarded, jobRow, records, frontier, targets, proxyVars>>

(* The frontier gets the start URLs, a browser its proxy, and run() begins.    *)
StartRun ==
  /\ phase = "guard"
  /\ unguarded = {}
  /\ phase' = "run"
  /\ request' \in Added({Canonical(u) : u \in StartUrls}, 0)
  /\ IF mode = "browser" THEN StartProxy ELSE UNCHANGED proxyVars
  /\ UNCHANGED <<mode, unguarded, jobRow, records, handler, timeouts, targets>>

(* run() resolves when every request has ended, or maxPages of them have.      *)
RunEnds ==
  /\ phase = "run"
  /\ Live = {}
  /\ Finished = Known \/ Cardinality(Finished) >= MaxPages[mode]
  /\ phase' = "count"
  /\ UNCHANGED <<mode, unguarded, jobRow, records, frontier, targets, proxyVars>>

(* Opening the frontier, the proxy or the browser fails, a failedRequestHandler *)
(* cannot update the progress, a statement fails: the catch clause and finally. *)
AttemptThrows ==
  /\ phase \in {"guard", "run", "count", "complete"}
  /\ phase' = "close"
  /\ handler' = [w \in Handlers |-> IF w \in Live THEN [handler[w] EXCEPT !.zombie = TRUE]
                                               ELSE handler[w]]
  /\ UNCHANGED <<mode, unguarded, jobRow, records, request, timeouts, targets, proxyVars>>

(* A bug: the counter is taken for the count. *)
TrustCounter ==
  /\ phase = "count"
  /\ phase' = "complete"
  /\ UNCHANGED <<mode, unguarded, jobRow, records, frontier, targets, proxyVars>>

CountResults ==
  /\ phase = "count"
  /\ phase' = "complete"
  /\ records' = Cardinality(rows)
  /\ UNCHANGED <<mode, unguarded, jobRow, frontier, targets, proxyVars>>

Complete ==
  /\ phase = "complete"
  /\ phase' = "close"
  /\ running' = FALSE
  /\ stored' = IF running THEN records ELSE stored
  /\ UNCHANGED <<mode, unguarded, rows, records, frontier, targets, proxyVars>>

(* finally: the proxy is closed and waited for. *)
Close ==
  /\ phase = "close"
  /\ \/ proxy = "up" /\ CloseProxy /\ UNCHANGED phase
     \/ proxy \in {"off", "closed"} /\ phase' = "over" /\ UNCHANGED proxyVars
  /\ UNCHANGED <<mode, unguarded, jobRow, records, frontier, targets>>

AttemptStep ==
  \/ StartRun \/ RunEnds \/ CountResults \/ Complete \/ Close
  \/ \E u \in StartUrls : GuardStart(u) \/ RefuseStart(u)

(* What the worker process does by itself. *)
Work == AttemptStep \/ \E w \in Handlers : HandlerStep(w) \/ \E k \in Urls : Take(w, k)

(* Somebody cancels the job. *)
Cancel ==
  /\ running
  /\ running' = FALSE
  /\ UNCHANGED <<mode, phase, unguarded, rows, stored, records, frontier, targets, proxyVars>>

(* The browser asks for a host: its route handler has it guarded, and a        *)
(* connection to the proxy made, in whatever order and for whatever page.      *)
RouteGuard(h) ==
  /\ mode = "browser"
  /\ phase = "run"
  /\ \E answer \in Answers(h) : Approve(h, answer)
  /\ NoDial
  /\ UNCHANGED <<mode, phase, unguarded, jobRow, records, frontier, proxyVars>>

BrowserAsks(c) ==
  /\ phase = "run"
  /\ \E h \in Hosts, kind \in {"request", "tunnel"} : Ask(c, h, kind)

ProxySteps ==
  /\ ProxyNext
  /\ UNCHANGED <<mode, phase, unguarded, jobRow, records, frontier>>

Init ==
  /\ mode \in Modes
  /\ phase = "guard"
  /\ unguarded = StartUrls
  /\ running = TRUE
  /\ rows \in {{}} \cup {{UrlHash(Canonical(u))} : u \in StartUrls}
  /\ records = Cardinality(rows)
  /\ stored = None
  /\ request = [k \in Urls |-> NoRequest]
  /\ handler = [w \in Handlers |-> NoHandler]
  /\ timeouts = 0
  /\ TargetInit(Zones)
  /\ ProxyInit

Next ==
  \/ Work \/ AttemptThrows \/ Cancel \/ ProxySteps
  \/ \E w \in Handlers : HandlerTimeout(w)
  \/ \E h \in Hosts : RouteGuard(h)
  \/ \E c \in Conns : BrowserAsks(c) /\ UNCHANGED <<mode, phase, unguarded, jobRow, records, frontier>>

Spec == Init /\ [][Next]_vars

(* The event loop goes on with what the attempt has begun: an await returns or *)
(* throws (navigations, handlers and lookups have timeouts), the crawler takes *)
(* what is queued.  Destroyed sockets close, and an idle timer fires.  Nobody  *)
(* makes a browser ask or a server answer.                                     *)
Fairness ==
  /\ WF_vars(Work)
  /\ WF_vars(ProxyClosed /\ ProxySteps)
  /\ \A c \in Conns : WF_vars(Idles(c) /\ ProxySteps)

FairSpec == Spec /\ Fairness

-----------------------------------------------------------------------------

RequestType ==
  [state : RequestStates, url : Urls \cup {None}, depth : Nat, retries : Nat]
HandlerType ==
  [pc : {"idle", "guard", "connect", "load", "verify", "insert", "links"},
   key : Urls \cup {None}, at : Hosts \cup {None},
   pinned : [Hosts -> SUBSET Addresses], hops : Nat, read : Nat, zombie : BOOLEAN]

FrontierTypes ==
  /\ request \in [Urls -> RequestType]
  /\ \A k \in Urls : request[k].state # "absent" => request[k].url \in Urls

HandlerTypes ==
  /\ handler \in [Handlers -> HandlerType]
  /\ \A w \in Handlers : handler[w].pc # "idle" =>
       handler[w].key \in Urls /\ request[Key(w)].state # "absent"
  /\ \A w \in Handlers : handler[w].pc \in {"connect", "verify", "insert"} => handler[w].at \in Hosts

AttemptTypes ==
  /\ mode \in Modes
  /\ phase \in {"guard", "run", "count", "complete", "close", "over"}
  /\ unguarded \subseteq StartUrls
  /\ running \in BOOLEAN
  /\ rows \subseteq Urls
  /\ records \in Nat
  /\ stored \in Nat \cup {None}
  /\ timeouts \in Nat

(* Every variable has its type; a handler at work has a request and, once it   *)
(* connects, a host.                                                           *)
TypeOK == AttemptTypes /\ FrontierTypes /\ HandlerTypes /\ TargetTypes /\ ProxyTypes

(* All lookups of the attempt agree on one set of addresses for this host, the *)
(* set has been checked, and nothing has connected outside it.                 *)
ConnectedAsChecked(h) ==
  /\ h \notin Denied
  /\ fingerprint[h] # {} /\ fingerprint[h] \cap Prohibited = {}
  /\ dialled[h] \subseteq fingerprint[h]

(* The one other way to a host: followRedirect lets a redirect of an http page *)
(* through to a literal, and no lookup is called for it.                       *)
FollowedToLiteral(h) == mode = "http" /\ h \in Literals \ Denied /\ fingerprint[h] = {}

(* Whatever connects, a guarded page, a redirect to a name, a sub-resource or  *)
(* a tunnel of the browser, connects to one checked set of addresses per host; *)
(* where a redirect to a literal did not, guardTarget(loadedUrl) sees to it    *)
(* that no page from there comes to its insert.                                *)
OneAddressSet ==
  /\ \A h \in Hosts : dialled[h] # {} => ConnectedAsChecked(h) \/ FollowedToLiteral(h)
  /\ \A w \in Handlers : handler[w].pc = "insert" => ConnectedAsChecked(handler[w].at)

(* The fingerprint of a host, once set, is the fingerprint of the attempt.     *)
FingerprintStands ==
  [][\A h \in Hosts : fingerprint[h] # {} => fingerprint'[h] = fingerprint[h]]_vars

(* Handlers that run at the same time may lose each other's records (each adds *)
(* to what it read before its insert); they never report a record that is not  *)
(* there, however often a page is tried.                                       *)
RecordsNeverAhead == records <= Cardinality(rows)

(* What was lost is made good: a job completes with the number of its rows,    *)
(* unless a handler that timed out is still at work on it.                     *)
LossIsRepaired == stored # None /\ timeouts = 0 => stored = Cardinality(rows)

(* A page the crawler takes as handled has its row, found under the hash of    *)
(* the request, unless the job was cancelled: an error or a timeout before,    *)
(* in or after the insert is tried again, and so is the canonical URL.         *)
HandledHasRow ==
  running \/ stored # None =>
    \A k \in Urls : request[k].state = "handled" => k \in rows

(* No link is lost between the insert of a page and enqueueLinks: what a page  *)
(* handled above the last depth links to, and may be crawled, is in the        *)
(* frontier, unless they were too many for maxPages.                           *)
CrawlIsClosed ==
  \A k \in Urls :
    request[k].state = "handled" /\ request[k].depth < MaxDepth[mode] =>
      LET linked == {UniqueKey(u) : u \in Discovered(request[k].url.page)}
      IN  linked \subseteq Known \/ Cardinality(Known \cup linked) > MaxPages[mode]

(* Every attempt ends, its proxy closed, whatever times out or is refused.     *)
AttemptEnds == <>(phase = "over")

=========================================================================
