--------------------------- MODULE GatewayRoutes ---------------------------
(***************************************************************************)
(* The http and https gateways of the server: the route tables that the    *)
(* sessions write and the visitors read.                                   *)
(*                                                                         *)
(* A session registers an http or https tunnel for several domains, and    *)
(* for http several locations under each.  Every pair is entered into the  *)
(* gateway's table in a critical section of its own, so that visitors and  *)
(* the other sessions see the registration half done; a conflict in the    *)
(* middle takes back what was entered.  Routes are unregistered by tunnel  *)
(* name alone: what keeps one session from removing the routes of another  *)
(* is that it owns the name in the TunnelRegistry while it does so.        *)
(*                                                                         *)
(* A text that names a host is its labels, split at the dots, with a flag  *)
(* for what normalize_host strips besides a trailing dot (capitals, spaces *)
(* and a port).  Bracketed IPv6 literals are left out.  A location and a   *)
(* path are sequences of numbers, the characters in their order.           *)
(***************************************************************************)
EXTENDS Naturals, Sequences, SequencesExt

CONSTANTS
    Controls, Names, Visitors,
    NewTunnels,   \* the requests clients send: [name, gw, entries, locs, auth, rewrite]
    Heads,        \* the requests visitors send
    Root,         \* rootDomain, as the configuration writes it
    Star, Long,   \* labels that contain a '*', labels of more than 63 characters
    Gateways,     \* the gateways whose port is configured
    NoControl, NoRoute, NoCred, NoText

VARIABLES
    byName,    \* TunnelRegistry.by_name
    http,      \* HttpGw.routes: host -> the routes of its list
    https,     \* HttpsGw.routes: host -> route
    tm,        \* tm[c]: the http and https tunnels in the manager of c
    run,       \* run[c]: what the task that serves c's connection is doing
    phase,     \* phase[c]: how far the shutdown of c is; its manager is locked while "closing"
    released,  \* released[c]: tunnels that shutdown closed and whose names it still owns
    visit      \* visit[v]: how far the connection of visitor v is

vars == <<byName, http, https, tm, run, phase, released, visit>>
tables == <<http, https>>

-----------------------------------------------------------------------------
(* Hosts and locations.                                                    *)

\* Trims, drops the port and trailing dots and lowers the case.
NormalizeHost(t) ==
    LET keep == {i \in 1..Len(t.labels) : t.labels[i] # ""}
    IN  SubSeq(t.labels, 1, IF keep = {} THEN 0 ELSE CHOOSE i \in keep : \A j \in keep : j <= i)

Plain(h) == [labels |-> h, dressed |-> FALSE]
Blank(t) == t.labels = <<>> \/ t.labels = <<"">>

\* The host an entry stands for, or <<>> when the entry is refused: a prefix is put
\* under the root domain, a full domain stands for itself.
ExpandDomainEntry(t) ==
    LET e == NormalizeHost(t)
        root == NormalizeHost(Root)
        refused == \/ e = <<>>
                   \/ \E i \in DOMAIN e : e[i] = ""
                   \/ \E i \in DOMAIN e : e[i] \in Star
                   \/ Len(e) = 1 /\ (e[1] \in Long \/ root = <<>>)
    IN  IF refused THEN <<>>
        ELSE IF Len(e) = 1 THEN NormalizeHost(Plain(e \o root)) ELSE e

\* Blank entries are dropped, at least one entry must remain, and one that is refused
\* refuses them all.
BuildDomains(np) == {ExpandDomainEntry(t) : t \in {e \in np.entries : ~Blank(e)}}
DomainsOK(np) == BuildDomains(np) # {} /\ <<>> \notin BuildDomains(np)

ExpandLocations(np) == IF np.locs = {} THEN {<<>>} ELSE np.locs

Hosts == (UNION {BuildDomains(np) : np \in NewTunnels}) \ {<<>>}

\* The (domain, location) pairs a registration enters; https has no locations.
Pairs(np) == BuildDomains(np) \X (IF np.gw = "http" THEN ExpandLocations(np) ELSE {<<>>})

HttpRoute(c, np, loc) ==
    [name |-> np.name, ctl |-> c, loc |-> loc, auth |-> np.auth, rewrite |-> np.rewrite]
HttpsRoute(c, np) == [name |-> np.name, ctl |-> c]

Locations == {<<>>} \cup UNION {np.locs : np \in NewTunnels}
HttpRoutes == {HttpRoute(c, np, l) : c \in Controls, np \in NewTunnels, l \in Locations}
HttpsRoutes == {HttpsRoute(c, np) : c \in Controls, np \in NewTunnels}

\* What the requests of clients and visitors are made of.
ASSUME GatewayAssumptions ==
    /\ \A np \in NewTunnels : /\ np.name \in Names /\ np.gw \in {"http", "https"}
                              /\ np.locs \subseteq Seq(Nat)
    /\ \A head \in Heads : /\ head.path \in Seq(Nat)
                           /\ \A t \in {head.host, head.target} : t.labels \in Seq(STRING)
    /\ NoControl \notin Controls
    /\ NoRoute \notin HttpRoutes \cup HttpsRoutes

\* str::cmp: the order of the first characters that differ, and a prefix is smaller.
Less(a, b) ==
    \E k \in 0..Len(a) :
        /\ \A i \in 1..k : i <= Len(b) /\ a[i] = b[i]
        /\ k < Len(b)
        /\ k = Len(a) \/ (k < Len(a) /\ a[k + 1] < b[k + 1])

\* MUTANT: register sorts its list the other way round.
MatchLocationAscending(h, path) ==
    LET match == IF h \in Hosts THEN {r \in http[h] : IsPrefix(r.loc, path)} ELSE {}
    IN  IF match = {} THEN NoRoute
        ELSE CHOOSE r \in match : \A s \in match : ~Less(s.loc, r.loc)

\* The first route of the list that the path starts with.  register sorts the list
\* after every push, the greatest location first.
MatchLocation(h, path) ==
    LET match == IF h \in Hosts THEN {r \in http[h] : IsPrefix(r.loc, path)} ELSE {}
    IN  IF match = {} THEN NoRoute
        ELSE CHOOSE r \in match : \A s \in match : ~Less(r.loc, s.loc)

\* A location belongs to the tunnel that has it; the tunnel itself may enter it again.
HttpConflict(np, h, loc) == \E r \in http[h] : r.loc = loc /\ r.name # np.name

HttpRegister(c, np, h, loc) ==
    /\ http' = [http EXCEPT ![h] = {r \in @ : r.loc # loc} \cup {HttpRoute(c, np, loc)}]
    /\ UNCHANGED https

HttpsConflict(np, h) == https[h] # NoRoute /\ https[h].name # np.name

HttpsRegister(c, np, h) ==
    /\ https' = [https EXCEPT ![h] = HttpsRoute(c, np)]
    /\ UNCHANGED http

\* unregister_tunnel of either gateway: by name, whoever entered the route.
HttpUnregister(n) == http' = [h \in Hosts |-> {r \in http[h] : r.name # n}]
HttpsUnregister(n) ==
    https' = [h \in Hosts |->
                 IF https[h] # NoRoute /\ https[h].name = n THEN NoRoute ELSE https[h]]

UnregisterTunnel(gw, n) ==
    \/ gw = "http" /\ HttpUnregister(n) /\ UNCHANGED https
    \/ gw = "https" /\ HttpsUnregister(n) /\ UNCHANGED http

-----------------------------------------------------------------------------
(* Sessions.                                                               *)

NoNp == [name |-> NoText, gw |-> "http", entries |-> {}, locs |-> {}, auth |-> NoCred,
         rewrite |-> FALSE]
Runs == [pc : {"loop", "detach", "relName", "claim", "clear", "enter", "undo", "giveUp",
               "insert", "exit"},
         np : NewTunnels \cup {NoNp}, todo : SUBSET (Hosts \X Locations),
         goal : {"claim", "loop"}]
IdleRun == [pc |-> "loop", np |-> NoNp, todo |-> {}, goal |-> "loop"]
NoVisit == [pc |-> "idle", gw |-> "http", host |-> <<>>, path |-> <<>>, proxy |-> FALSE,
            cred |-> NoCred, hostLine |-> FALSE, route |-> NoRoute]

Init ==
    /\ byName = [n \in Names |-> NoControl]
    /\ http = [h \in Hosts |-> {}]
    /\ https = [h \in Hosts |-> NoRoute]
    /\ tm = [c \in Controls |-> {}]
    /\ run = [c \in Controls |-> IdleRun]
    /\ phase = [c \in Controls |-> "live"]
    /\ released = [c \in Controls |-> {}]
    /\ visit = [v \in Visitors |-> NoVisit]

Goto(c, p) ==
    run' = [run EXCEPT ![c] = IF p \in {"loop", "exit"} THEN [IdleRun EXCEPT !.pc = p]
                              ELSE [run[c] EXCEPT !.pc = p]]

\* register_http_tunnel and register_https_tunnel refuse at once without the gateway.
HandleNewTunnel(c, np) ==
    /\ run[c].pc = "loop" /\ phase[c] = "live"
    /\ np.gw \in Gateways
    /\ run' = [run EXCEPT ![c] = [pc |-> "detach", np |-> np, todo |-> {}, goal |-> "claim"]]
    /\ UNCHANGED <<byName, tables, tm, phase, released, visit>>

HandleCloseTunnel(c, np) ==
    /\ run[c].pc = "loop" /\ phase[c] = "live"
    /\ run' = [run EXCEPT ![c] = [pc |-> "detach", np |-> np, todo |-> {}, goal |-> "loop"]]
    /\ UNCHANGED <<byName, tables, tm, phase, released, visit>>

\* TunnelManager::remove and the close of the tunnel, under the manager's lock.
DetachTunnel(c) ==
    /\ run[c].pc = "detach" /\ phase[c] # "closing"
    /\ \/ \E t \in tm[c] :
              /\ t.name = run[c].np.name
              /\ tm' = [tm EXCEPT ![c] = @ \ {t}]
              /\ UnregisterTunnel(t.gw, t.name)
              /\ Goto(c, "relName")
       \/ /\ \A t \in tm[c] : t.name # run[c].np.name
          /\ Goto(c, run[c].goal)
          /\ UNCHANGED <<tables, tm>>
    /\ UNCHANGED <<byName, phase, released, visit>>

\* remove_if_owner
Release(c, n) == byName' = IF byName[n] = c THEN [byName EXCEPT ![n] = NoControl] ELSE byName

ReleaseName(c) ==
    /\ run[c].pc = "relName"
    /\ Release(c, run[c].np.name)
    /\ Goto(c, run[c].goal)
    /\ UNCHANGED <<tables, tm, phase, released, visit>>

\* MUTANT: a name that another session holds is taken over.
ClaimNameTakesOver(c) ==
    /\ run[c].pc = "claim"
    /\ byName' = [byName EXCEPT ![run[c].np.name] = c]
    /\ Goto(c, IF DomainsOK(run[c].np) THEN "clear" ELSE "giveUp")
    /\ UNCHANGED <<tables, tm, phase, released, visit>>

\* try_insert; then the tunnel's register builds its domains.
ClaimName(c) ==
    /\ run[c].pc = "claim"
    /\ \/ /\ byName[run[c].np.name] = NoControl
          /\ byName' = [byName EXCEPT ![run[c].np.name] = c]
          /\ Goto(c, IF DomainsOK(run[c].np) THEN "clear" ELSE "giveUp")
       \/ /\ byName[run[c].np.name] # NoControl
          /\ Goto(c, "loop")
          /\ UNCHANGED byName
    /\ UNCHANGED <<tables, tm, phase, released, visit>>

ClearOld(c) ==
    /\ run[c].pc = "clear"
    /\ UnregisterTunnel(run[c].np.gw, run[c].np.name)
    /\ run' = [run EXCEPT ![c].pc = "enter", ![c].todo = Pairs(run[c].np)]
    /\ UNCHANGED <<byName, tm, phase, released, visit>>

Conflict(np, h, loc) ==
    IF np.gw = "http" THEN HttpConflict(np, h, loc) ELSE HttpsConflict(np, h)

\* One turn of the loops over domains and locations: one critical section.
EnterRoute(c) ==
    /\ run[c].pc = "enter"
    /\ \E p \in run[c].todo :
           \/ /\ Conflict(run[c].np, p[1], p[2])
              /\ Goto(c, "undo")
              /\ UNCHANGED tables
           \/ /\ ~Conflict(run[c].np, p[1], p[2])
              /\ IF run[c].np.gw = "http"
                 THEN HttpRegister(c, run[c].np, p[1], p[2])
                 ELSE HttpsRegister(c, run[c].np, p[1])
              /\ run' = [run EXCEPT ![c].todo = @ \ {p},
                                    ![c].pc = IF run[c].todo = {p} THEN "insert" ELSE "enter"]
    /\ UNCHANGED <<byName, tm, phase, released, visit>>

\* MUTANT: the routes entered before the conflict stay.
UndoRoutesForgotten(c) ==
    /\ run[c].pc = "undo"
    /\ Goto(c, "giveUp")
    /\ UNCHANGED <<byName, tables, tm, phase, released, visit>>

UndoRoutes(c) ==
    /\ run[c].pc = "undo"
    /\ UnregisterTunnel(run[c].np.gw, run[c].np.name)
    /\ Goto(c, "giveUp")
    /\ UNCHANGED <<byName, tm, phase, released, visit>>

\* The registration failed: the name is free again.
GiveUp(c) ==
    /\ run[c].pc = "giveUp"
    /\ Release(c, run[c].np.name)
    /\ Goto(c, "loop")
    /\ UNCHANGED <<tables, tm, phase, released, visit>>

\* The manager has no tunnel of that name: prepare_name_slot removed it.
InsertTunnel(c) ==
    /\ run[c].pc = "insert" /\ phase[c] # "closing"
    /\ tm' = [tm EXCEPT ![c] = @ \cup {run[c].np}]
    /\ Goto(c, "loop")
    /\ UNCHANGED <<byName, tables, phase, released, visit>>

\* The connection ended, or the session was told to close: the loop is left at its top.
LeaveLoop(c) ==
    /\ run[c].pc = "loop"
    /\ Goto(c, "exit")
    /\ UNCHANGED <<byName, tables, tm, phase, released, visit>>

\* Control::shutdown, by the session's own task or from outside at any time.
Shutdown(c) ==
    /\ phase[c] = "live"
    /\ phase' = [phase EXCEPT ![c] = "closing"]
    /\ UNCHANGED <<byName, tables, tm, run, released, visit>>

\* close_all closes the tunnels one after the other.
CloseOne(c) ==
    /\ phase[c] = "closing"
    /\ \E t \in tm[c] :
           /\ tm' = [tm EXCEPT ![c] = @ \ {t}]
           /\ released' = [released EXCEPT ![c] = @ \cup {t}]
           /\ UnregisterTunnel(t.gw, t.name)
    /\ UNCHANGED <<byName, run, phase, visit>>

\* Then shutdown releases their slots, one after the other.
ReleaseOne(c) ==
    /\ phase[c] = "closing" /\ tm[c] = {}
    /\ \E t \in released[c] :
           /\ Release(c, t.name)
           /\ released' = [released EXCEPT ![c] = @ \ {t}]
    /\ UNCHANGED <<tables, tm, run, phase, visit>>

Finished(c) ==
    /\ phase[c] = "closing" /\ tm[c] = {} /\ released[c] = {}
    /\ phase' = [phase EXCEPT ![c] = "cleaned"]
    /\ UNCHANGED <<byName, tables, tm, run, released, visit>>

\* Visitors that upgraded their route's weak reference keep the Control alive.
Holds(v, c) == visit[v].pc \in {"getData", "start", "joined"} /\ visit[v].route.ctl = c

\* The last reference disappears: from now on upgrade fails.
DropControl(c) ==
    /\ phase[c] = "cleaned" /\ run[c].pc = "exit"
    /\ \A v \in Visitors : ~Holds(v, c)
    /\ phase' = [phase EXCEPT ![c] = "dropped"]
    /\ UNCHANGED <<byName, tables, tm, run, released, visit>>

\* A tunnel inserted after shutdown drained the manager is dropped with the manager;
\* its name is not released.
DropTunnel(c) ==
    /\ phase[c] = "dropped"
    /\ \E t \in tm[c] :
           /\ tm' = [tm EXCEPT ![c] = @ \ {t}]
           /\ UnregisterTunnel(t.gw, t.name)
    /\ UNCHANGED <<byName, run, phase, released, visit>>

-----------------------------------------------------------------------------
(* Visitors.  A head is [gw, hostLine, host, form, target, path, auth,     *)
(* proxyAuth]: form says whether the request target is a path ("origin"),  *)
(* a URL ("absolute") or that of a CONNECT; for https only host counts,    *)
(* the name the ClientHello carries.                                       *)

\* classify_request_target
IsProxyRequest(head) == head.form \in {"absolute", "connect"}
RequestPath(head) == IF head.form = "connect" THEN <<1>> ELSE head.path

\* The Host header, else the host of an absolute target.
RequestHost(head) ==
    IF head.hostLine THEN head.host ELSE IF head.form = "absolute" THEN head.target ELSE NoText

\* What is left of visit v at p: after the check only the session it was given to counts.
Arrive(v, p) ==
    [NoVisit EXCEPT !.pc = p,
                    !.gw = IF p \in {"getData", "start"} THEN visit[v].gw ELSE @,
                    !.route = IF p \in {"getData", "start", "joined"} THEN visit[v].route ELSE @]

\* Accepted by the gateway's listener; the connection may close or send too much
\* before its head is complete, and a head without a host is refused.
ReadHead(v) ==
    /\ visit[v].pc = "idle"
    /\ \/ visit' = [visit EXCEPT ![v] = Arrive(v, "dropped")]
       \/ \E head \in Heads :
              /\ head.gw \in Gateways
              /\ visit' = [visit EXCEPT ![v] =
                    IF RequestHost(head) = NoText
                    THEN Arrive(v, "dropped")
                    ELSE [pc |-> "lookup", gw |-> head.gw,
                          host |-> NormalizeHost(RequestHost(head)),
                          path |-> RequestPath(head), proxy |-> IsProxyRequest(head),
                          cred |-> IF IsProxyRequest(head) THEN head.proxyAuth ELSE head.auth,
                          hostLine |-> head.hostLine, route |-> NoRoute]]
    /\ UNCHANGED <<byName, tables, tm, run, phase, released>>

HttpsMatch(h) == IF h \in Hosts THEN https[h] ELSE NoRoute

LookupHost(v) == NormalizeHost(Plain(visit[v].host))

\* HttpGw::lookup and HttpsGw::lookup.  Without a route the http visitor is told 404,
\* the https visitor is dropped.
Lookup(v) ==
    /\ visit[v].pc = "lookup"
    /\ LET r == IF visit[v].gw = "http" THEN MatchLocation(LookupHost(v), visit[v].path)
                ELSE HttpsMatch(LookupHost(v))
       IN  visit' = [visit EXCEPT ![v] =
                        IF r # NoRoute THEN [@ EXCEPT !.pc = "check", !.route = r]
                        ELSE Arrive(v, IF visit[v].gw = "http" THEN "404" ELSE "dropped")]
    /\ UNCHANGED <<byName, tables, tm, run, phase, released>>

\* route_basic_auth_ok
BasicAuthOK(v) ==
    LET r == visit[v].route
    IN  visit[v].gw = "https" \/ r.auth = NoCred \/ visit[v].cred = r.auth

\* Credentials, then the weak reference, then the Host header, which the rewrite must find.
CheckRoute(v) ==
    /\ visit[v].pc = "check"
    /\ LET r == visit[v].route
           gone == phase[r.ctl] = "dropped"
           web == visit[v].gw = "http"
       IN  visit' = [visit EXCEPT ![v] = Arrive(v,
                        IF ~BasicAuthOK(v) THEN IF visit[v].proxy THEN "407" ELSE "401"
                        ELSE IF gone THEN IF web THEN "404" ELSE "dropped"
                        ELSE IF web /\ r.rewrite /\ ~visit[v].hostLine THEN "dropped"
                        ELSE "getData")]
    /\ UNCHANGED <<byName, tables, tm, run, phase, released>>

\* get_data_conn times out or fails when the session is closed.
GetDataConn(v) ==
    /\ visit[v].pc = "getData"
    /\ \E p \in {"start", IF visit[v].gw = "http" THEN "502" ELSE "dropped"} :
           visit' = [visit EXCEPT ![v] = Arrive(v, p)]
    /\ UNCHANGED <<byName, tables, tm, run, phase, released>>

\* start_data_conn and, for http, the rewritten head that is sent first.
StartDataConn(v) ==
    /\ visit[v].pc = "start"
    /\ \E p \in {"joined", "dropped"} : visit' = [visit EXCEPT ![v] = Arrive(v, p)]
    /\ UNCHANGED <<byName, tables, tm, run, phase, released>>

\* The connection has ended; the next one of this visitor begins.
VisitEnds(v) ==
    /\ visit[v].pc \in {"joined", "dropped", "404", "401", "407", "502"}
    /\ visit' = [visit EXCEPT ![v] = NoVisit]
    /\ UNCHANGED <<byName, tables, tm, run, phase, released>>

Next ==
    \/ \E c \in Controls :
           \/ \E np \in NewTunnels : HandleNewTunnel(c, np) \/ HandleCloseTunnel(c, np)
           \/ DetachTunnel(c) \/ ReleaseName(c) \/ ClaimName(c) \/ ClearOld(c)
           \/ EnterRoute(c) \/ UndoRoutes(c) \/ GiveUp(c) \/ InsertTunnel(c)
           \/ LeaveLoop(c) \/ Shutdown(c) \/ CloseOne(c) \/ ReleaseOne(c) \/ Finished(c)
           \/ DropControl(c) \/ DropTunnel(c)
    \/ \E v \in Visitors :
           \/ ReadHead(v) \/ Lookup(v) \/ CheckRoute(v) \/ GetDataConn(v)
           \/ StartDataConn(v) \/ VisitEnds(v)

Spec == Init /\ [][Next]_vars

-----------------------------------------------------------------------------
(* Properties.                                                             *)

\* The types of the variables.
TypeOK ==
    /\ byName \in [Names -> Controls \cup {NoControl}]
    /\ DOMAIN http = Hosts /\ \A h \in Hosts : http[h] \subseteq HttpRoutes
    /\ https \in [Hosts -> HttpsRoutes \cup {NoRoute}]
    /\ tm \in [Controls -> SUBSET NewTunnels]
    /\ run \in [Controls -> Runs]
    /\ phase \in [Controls -> {"live", "closing", "cleaned", "dropped"}]
    /\ released \in [Controls -> SUBSET NewTunnels]

\* A route in a gateway's table belongs to the session that owns its tunnel's name in the
\* registry.  unregister_tunnel goes by name alone: this is why it never removes the
\* route of another session.
RouteHasOwner ==
    /\ \A h \in Hosts : \A r \in http[h] : byName[r.name] = r.ctl
    /\ \A h \in Hosts : https[h] # NoRoute => byName[https[h].name] = https[h].ctl

\* A registered tunnel is found under every one of its domains and locations, with its own
\* credentials, however the registrations, failures and shutdowns of other sessions
\* interleave with its own.
RegisteredServes ==
    \A c \in Controls : \A t \in tm[c] : \A p \in Pairs(t) :
        IF t.gw = "http" THEN MatchLocation(p[1], p[2]) = HttpRoute(c, t, p[2])
        ELSE HttpsMatch(p[1]) = HttpsRoute(c, t)

\* What run[c] has entered so far and may still take back.
Pending(c) == run[c].pc \in {"enter", "undo", "insert"}

\* A route stands for a tunnel in its session's manager, or for the registration this
\* session is in the middle of: a registration that failed half way leaves nothing.
NoOrphanRoutes ==
    /\ \A h \in Hosts : \A r \in http[h] :
           \/ \E t \in tm[r.ctl] : t.name = r.name /\ t.gw = "http"
           \/ Pending(r.ctl) /\ run[r.ctl].np.name = r.name /\ run[r.ctl].np.gw = "http"
    /\ \A h \in Hosts : https[h] # NoRoute =>
           LET r == https[h]
           IN  \/ \E t \in tm[r.ctl] : t.name = r.name /\ t.gw = "https"
               \/ Pending(r.ctl) /\ run[r.ctl].np.name = r.name /\ run[r.ctl].np.gw = "https"

\* The tables of the gateways hold the routes of tunnels that are registered or being
\* registered, each under the name its session owns, and nothing else.
RoutesFollowTunnels == TypeOK /\ RouteHasOwner /\ NoOrphanRoutes

\* The route a path is given is the one with the longest location: what the order of the
\* sorted list is for.
LongestMatch ==
    \A h \in Hosts : \A path \in {head.path : head \in Heads} :
        LET best == MatchLocation(h, path)
        IN  \A r \in http[h] : IsPrefix(r.loc, path) =>
                best # NoRoute /\ Len(r.loc) <= Len(best.loc)

\* A lookup finds the right route: its own for a registered domain and location, and
\* among several the one with the longest location.
LookupIsRight == RegisteredServes /\ LongestMatch

Covers(t, gw, host, path) ==
    /\ t.gw = gw
    /\ \E p \in Pairs(t) : p[1] = host /\ IsPrefix(p[2], path)

\* A visitor is turned away for want of a route only when no tunnel of any session is
\* registered for its host and path at that moment, in whatever spelling.
NotFoundIsTrue ==
    [][\A v \in Visitors :
           visit[v].pc = "lookup" /\ visit'[v].pc \in {"404", "dropped"} =>
               \A c \in Controls : \A t \in tm[c] :
                   ~Covers(t, visit[v].gw, visit[v].host, visit[v].path)]_vars
=============================================================================
