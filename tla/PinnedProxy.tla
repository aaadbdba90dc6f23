----------------------------- MODULE PinnedProxy -----------------------------
(* The proxy all connections of a browser attempt go through                   *)
(* (delivery/pinned-proxy.ts).  The browser is external: while it runs it asks *)
(* for any host at any time, over connections it keeps, drops or reuses.       *)
EXTENDS PinnedTargets

CONSTANTS
  Conns,  \* the browser's connections to the proxy at a time
  None

VARIABLES
  proxy,  \* "off", "up", "closing" (server.close is called), "closed"
  conn    \* per connection: what its handler does, and whether the browser's end is open

proxyVars == <<proxy, conn>>

(* A request's upstream belongs to no set; a tunnel's (CONNECT, upgrade) is in *)
(* `sockets` from its creation, as every connection of the browser is.         *)
ConnType == [step : {"idle", "resolving", "open"}, kind : {"request", "tunnel"},
             host : Hosts \cup {None}, client : BOOLEAN]
NoConn == [step |-> "idle", kind |-> "request", host |-> None, client |-> FALSE]

StartProxy ==
  /\ proxy = "off"
  /\ proxy' = "up"
  /\ UNCHANGED conn

(* A request, CONNECT or upgrade arrives, on a new connection or a kept one.   *)
Ask(c, h, kind) ==
  /\ proxy = "up"
  /\ conn[c].step = "idle"
  /\ conn' = [conn EXCEPT ![c] = [step |-> "resolving", kind |-> kind, host |-> h, client |-> TRUE]]
  /\ UNCHANGED <<targets, proxy>>

(* A bug: the handler looks the host up again and connects to what it gets. *)
OpenUnresolved(c) ==
  /\ conn[c].step = "resolving"
  /\ \E answer \in Answers(conn[c].host) : Dial(conn[c].host, Selected(ToSet(answer)))
  /\ conn' = [conn EXCEPT ![c].step = "open"]
  /\ UNCHANGED <<dns, fingerprint, proxy>>

(* The handler's await returns, whatever has become of browser and proxy, and  *)
(* it connects.                                                                *)
OpenUpstream(c) ==
  /\ conn[c].step = "resolving"
  /\ \E answer \in Answers(conn[c].host) :
       /\ Approve(conn[c].host, answer)
       /\ Dial(conn[c].host, Selected(ToSet(answer)))
  /\ conn' = [conn EXCEPT ![c].step = "open"]
  /\ UNCHANGED proxy

(* ... or throws: 403 and the connection is closed. *)
RefuseUpstream(c) ==
  /\ conn[c].step = "resolving"
  /\ conn' = [conn EXCEPT ![c] = NoConn]
  /\ UNCHANGED <<targets, proxy>>

(* A response is complete and its connection stays; or the upstream ends or    *)
(* fails, and the browser's end with it.                                       *)
UpstreamEnds(c) ==
  /\ conn[c].step = "open"
  /\ \/ conn[c].kind = "request" /\ conn' = [conn EXCEPT ![c] = [NoConn EXCEPT !.client = conn[c].client]]
     \/ conn' = [conn EXCEPT ![c] = NoConn]
  /\ UNCHANGED <<targets, proxy>>

(* A bug: only tunnels have a timeout. *)
TimeoutOfTunnel(c) ==
  /\ conn[c].step = "open"
  /\ conn[c].kind = "tunnel"
  /\ conn' = [conn EXCEPT ![c] = NoConn]
  /\ UNCHANGED <<targets, proxy>>

(* Nothing has passed for 60 s: the upstream is destroyed with an error, which *)
(* closes the browser's end.                                                   *)
UpstreamTimeout(c) ==
  /\ conn[c].step = "open"
  /\ conn' = [conn EXCEPT ![c] = NoConn]
  /\ UNCHANGED <<targets, proxy>>

(* The browser closes or loses a connection; a tunnel's upstream is not always *)
(* told.                                                                       *)
ClientLeaves(c) ==
  /\ conn[c].client
  /\ conn' = [conn EXCEPT ![c].client = FALSE]
  /\ UNCHANGED <<targets, proxy>>

(* A bug: close() only stops listening. *)
StopListening ==
  /\ proxy = "up"
  /\ proxy' = "closing"
  /\ UNCHANGED conn

(* close() destroys all sockets it knows of, then calls server.close.          *)
CloseProxy ==
  /\ proxy = "up"
  /\ proxy' = "closing"
  /\ conn' = [c \in Conns |->
       IF conn[c].step = "open" /\ conn[c].kind = "tunnel" THEN NoConn
       ELSE [conn[c] EXCEPT !.client = FALSE]]

(* ... whose callback is called when no connection of the browser is left.     *)
ProxyClosed ==
  /\ proxy = "closing"
  /\ \A c \in Conns : ~conn[c].client
  /\ proxy' = "closed"
  /\ UNCHANGED <<targets, conn>>

ProxyInit ==
  /\ proxy = "off"
  /\ conn = [c \in Conns |-> NoConn]

(* What the proxy's event loop does.                                           *)
ProxyStep(c) == OpenUpstream(c) \/ RefuseUpstream(c)

(* An upstream nobody reads from any more falls idle.                          *)
Idles(c) == ~conn[c].client /\ UpstreamTimeout(c)

ProxyNext ==
  \/ ProxyClosed
  \/ \E c \in Conns : ProxyStep(c) \/ UpstreamEnds(c) \/ UpstreamTimeout(c) \/ ClientLeaves(c)

ProxyTypes ==
  /\ proxy \in {"off", "up", "closing", "closed"}
  /\ conn \in [Conns -> ConnType]
  /\ \A c \in Conns : conn[c].step # "idle" => conn[c].host \in Hosts

(* No upstream outlives its proxy for good, neither one of a request, which    *)
(* close() does not know, nor one a handler opens after close().               *)
UpstreamsEnd ==
  \A c \in Conns : proxy = "closed" /\ conn[c].step = "open" ~> conn[c].step # "open"

=============================================================================
