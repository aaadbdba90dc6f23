---------------------------- MODULE MCCrawlAttempt ----------------------------
(* An instance of CrawlAttempt for TLC: a start page that links to a second    *)
(* one and to itself, under other spellings, a host it may be redirected to, one *)
(* that may not be named, one that is an address itself, and an address that may *)
(* not be connected to.                                                        *)
EXTENDS CrawlAttempt

CONSTANTS home, about, site, other, local, literal, a1, a2, a3

Url(page, slashes) == [page |-> page, slashes |-> slashes]
AllUrls == [page : {home, about}, slashes : 0..2]
Site == [page \in {home, about} |-> site]
Start == {Url(home, 0)}
LinksOf == [page \in {home, about} |-> {Url(about, 2), Url(home, 1)}]

OnlyHttp == [m \in Modes |-> IF m = "http" THEN 1 ELSE 0]
OneEach == [m \in Modes |-> 1]
OneBrowserPage == [m \in Modes |-> IF m = "http" THEN 2 ELSE 1]

(* The start host changes its records and may name an address that is          *)
(* prohibited, or it keeps them and the literal is that address; the other one *)
(* only changes their order.                                                   *)
Zone(ofSite, ofLiteral) ==
  [h \in Hosts |-> CASE h = site -> ofSite
                     [] h = other -> {{a1, a2}}
                     [] h = local -> {{a2}}
                     [] h = literal -> {{ofLiteral}}]
OneZone == {Zone({{a1, a2}, {a2}, {a3}}, a3)}

=============================================================================
