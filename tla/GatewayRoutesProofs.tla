------------------------ MODULE GatewayRoutesProofs ------------------------
(***************************************************************************)
(* Proofs about GatewayRoutes, for any number of sessions, names, domains, *)
(* locations and visitors.  The two tables are read as one relation, which *)
(* says that a gateway has a route under a host.                           *)
(***************************************************************************)
EXTENDS GatewayRoutes, SequenceTheorems, WellFoundedInduction, TLAPS

Gws == {"http", "https"}
AnyRoute == HttpRoutes \cup HttpsRoutes

\* Gateway g has route r under host h.
In(g, h, r) == IF g = "http" THEN r \in http[h] ELSE r = https[h] /\ r # NoRoute

\* The route that t of session c has for one of its pairs.
RouteOf(c, t, p) == IF t.gw = "http" THEN HttpRoute(c, t, p[2]) ELSE HttpsRoute(c, t)

\* The tunnels whose names c owns apart from the operation in hand, and whether it owns
\* the name of that one as well.
Mine(c) == tm[c] \cup released[c]
RunHolds(c) == run[c].pc \in {"relName", "clear", "enter", "undo", "giveUp", "insert"}

RunHasTunnel ==
    \A c \in Controls : run[c].pc \notin {"loop", "exit"} => run[c].np \in NewTunnels

\* A session owns the names of its tunnels and of the operation in hand, each once.
NamesHeld ==
    \A c \in Controls :
        /\ \A t \in Mine(c) : byName[t.name] = c
        /\ \A t, u \in Mine(c) : t.name = u.name => t = u
        /\ tm[c] \cap released[c] = {}
        /\ RunHolds(c) => /\ byName[run[c].np.name] = c
                          /\ \A t \in Mine(c) : t.name # run[c].np.name

\* Some tunnel of c, or the registration in hand, is what the route r of g stands for.
Backed(g, r) ==
    \/ \E t \in tm[r.ctl] : t.name = r.name /\ t.gw = g
    \/ Pending(r.ctl) /\ run[r.ctl].np.name = r.name /\ run[r.ctl].np.gw = g

Owned ==
    \A g \in Gws, h \in Hosts, r \in AnyRoute :
        In(g, h, r) => byName[r.name] = r.ctl /\ Backed(g, r)

\* A host has one route per location, and one for https.
OneEach ==
    \A g \in Gws, h \in Hosts, r, s \in AnyRoute :
        In(g, h, r) /\ In(g, h, s) /\ (g = "http" => r.loc = s.loc) => r = s

\* The routes of tunnels, and those of a registration that are no longer to be entered,
\* are in the table.
Entered ==
    \A c \in Controls :
        /\ \A t \in tm[c] : DomainsOK(t) /\ \A p \in Pairs(t) : In(t.gw, p[1], RouteOf(c, t, p))
        /\ run[c].pc \in {"clear", "enter", "undo", "insert"} => DomainsOK(run[c].np)
        /\ run[c].pc \in {"enter", "insert"} =>
              \A p \in Pairs(run[c].np) :
                  In(run[c].np.gw, p[1], RouteOf(c, run[c].np, p)) \/ p \in run[c].todo
        /\ run[c].pc = "enter" => run[c].todo \subseteq Pairs(run[c].np)
        /\ run[c].pc = "insert" => run[c].todo = {}

\* A visitor that is to be looked up has a host without a trailing dot, and a path.
VisitOK ==
    /\ DOMAIN visit = Visitors /\ \A v \in Visitors : "pc" \in DOMAIN visit[v]
    /\ \A v \in Visitors : visit[v].pc = "lookup" =>
          visit[v].path \in Seq(Nat) /\ LookupHost(v) = visit[v].host

RouteRest == NamesHeld /\ Owned /\ OneEach /\ Entered
RoutesInv == TypeOK /\ RunHasTunnel /\ RouteRest

-----------------------------------------------------------------------------
(* The tables as a relation.                                               *)

\* The fields of a route, and that NoRoute is none.
LEMMA RouteFields ==
    /\ \A r \in AnyRoute : r.name \in Names /\ r.ctl \in Controls /\ r # NoRoute
    /\ \A r \in HttpRoutes : r.loc \in Locations
  <1>1. \A r \in HttpRoutes : r.name \in Names /\ r.ctl \in Controls /\ r.loc \in Locations
    BY GatewayAssumptions DEF HttpRoutes, HttpRoute
  <1>2. \A r \in HttpsRoutes : r.name \in Names /\ r.ctl \in Controls
    BY GatewayAssumptions DEF HttpsRoutes, HttpsRoute
  <1>3. QED
    BY <1>1, <1>2, GatewayAssumptions DEF AnyRoute

\* The route a tunnel has for one of its pairs, and its fields.
LEMMA RouteOfFields ==
    ASSUME NEW c \in Controls, NEW t \in NewTunnels, NEW p \in Hosts \X Locations
    PROVE  /\ RouteOf(c, t, p) \in AnyRoute
           /\ RouteOf(c, t, p).name = t.name /\ RouteOf(c, t, p).ctl = c
           /\ t.gw = "http" => RouteOf(c, t, p) \in HttpRoutes /\ RouteOf(c, t, p).loc = p[2]
           /\ t.gw # "http" => RouteOf(c, t, p) \in HttpsRoutes
  <1>1. p[2] \in Locations
    OBVIOUS
  <1>2. CASE t.gw = "http"
    <2>1. RouteOf(c, t, p) = HttpRoute(c, t, p[2])
      BY <1>2 DEF RouteOf
    <2>2. HttpRoute(c, t, p[2]) \in HttpRoutes
      BY <1>1 DEF HttpRoutes
    <2>3. QED
      BY <1>2, <2>1, <2>2 DEF HttpRoute, AnyRoute
  <1>3. CASE t.gw # "http"
    <2>1. RouteOf(c, t, p) = HttpsRoute(c, t)
      BY <1>3 DEF RouteOf
    <2>2. HttpsRoute(c, t) \in HttpsRoutes
      BY DEF HttpsRoutes
    <2>3. QED
      BY <1>3, <2>1, <2>2 DEF HttpsRoute, AnyRoute
  <1>4. QED
    BY <1>2, <1>3

\* The pairs of a tunnel whose domains were accepted are hosts and locations of the tables.
LEMMA PairsTyped ==
    ASSUME NEW t \in NewTunnels, DomainsOK(t)
    PROVE  /\ Pairs(t) \subseteq Hosts \X Locations
           /\ t.gw # "http" => \A p \in Pairs(t) : p[2] = <<>>
  <1>1. BuildDomains(t) \subseteq Hosts
    <2> SUFFICES ASSUME NEW d \in BuildDomains(t)
                 PROVE  d \in Hosts
      OBVIOUS
    <2>1. d \in UNION {BuildDomains(np) : np \in NewTunnels}
      OBVIOUS
    <2>2. d # <<>>
      BY DEF DomainsOK
    <2>3. QED
      BY <2>1, <2>2 DEF Hosts
  <1>2. CASE t.gw = "http"
    <2>1. ExpandLocations(t) \subseteq Locations
      BY DEF ExpandLocations, Locations
    <2>2. Pairs(t) = BuildDomains(t) \X ExpandLocations(t)
      BY <1>2 DEF Pairs
    <2>3. QED
      BY <1>1, <1>2, <2>1, <2>2
  <1>3. CASE t.gw # "http"
    <2>1. Pairs(t) = BuildDomains(t) \X {<<>>}
      BY <1>3 DEF Pairs
    <2>2. <<>> \in Locations
      BY DEF Locations
    <2>3. QED
      BY <1>1, <1>3, <2>1, <2>2
  <1>4. QED
    BY <1>2, <1>3

\* The routes under a host are routes.
LEMMA InTyped ==
    ASSUME TypeOK, NEW g \in Gws, NEW h \in Hosts, NEW r, In(g, h, r)
    PROVE  r \in AnyRoute /\ (g = "http" => r \in HttpRoutes)
                          /\ (g # "http" => r \in HttpsRoutes)
  BY DEF TypeOK, In, AnyRoute

\* unregister_tunnel takes the routes of a name out of one gateway, and no other.
LEMMA UnregisterEffect ==
    ASSUME TypeOK, NEW gw \in Gws, NEW n \in Names, UnregisterTunnel(gw, n)
    PROVE  /\ \A g \in Gws, h \in Hosts, r \in AnyRoute :
                  In(g, h, r)' <=> In(g, h, r) /\ ~(g = gw /\ r.name = n)
           /\ DOMAIN http' = Hosts /\ \A h \in Hosts : http'[h] \subseteq HttpRoutes
           /\ https' \in [Hosts -> HttpsRoutes \cup {NoRoute}]
  <1>1. CASE gw = "http"
    <2>1. https' = https /\ http' = [h \in Hosts |-> {r \in http[h] : r.name # n}]
      BY <1>1 DEF UnregisterTunnel, HttpUnregister
    <2>2. \A h \in Hosts : http'[h] = {r \in http[h] : r.name # n}
      BY <2>1
    <2>3. QED
      BY <1>1, <2>1, <2>2 DEF TypeOK, In, Gws
  <1>2. CASE gw = "https"
    <2>1. /\ http' = http
          /\ https' = [h \in Hosts |-> IF https[h] # NoRoute /\ https[h].name = n
                                       THEN NoRoute ELSE https[h]]
      BY <1>2 DEF UnregisterTunnel, HttpsUnregister
    <2>2. \A h \in Hosts : https[h] \in HttpsRoutes \cup {NoRoute}
      BY DEF TypeOK
    <2>3. https' \in [Hosts -> HttpsRoutes \cup {NoRoute}]
      BY <2>1, <2>2
    <2>4. \A h \in Hosts, r \in AnyRoute :
              (r = https'[h] /\ r # NoRoute) <=> r = https[h] /\ r # NoRoute /\ r.name # n
      BY <2>1, RouteFields
    <2>5. QED
      BY <1>2, <2>1, <2>3, <2>4 DEF TypeOK, In, Gws
  <1>3. QED
    BY <1>1, <1>2 DEF Gws

\* A register puts the route in and takes out the one that had its place.
LEMMA RegisterEffect ==
    ASSUME TypeOK, NEW c \in Controls, NEW t \in NewTunnels, NEW p \in Hosts \X Locations,
           IF t.gw = "http" THEN HttpRegister(c, t, p[1], p[2]) ELSE HttpsRegister(c, t, p[1])
    PROVE  /\ \A g \in Gws, h \in Hosts, r \in AnyRoute :
                  In(g, h, r)' <=>
                      \/ g = t.gw /\ h = p[1] /\ r = RouteOf(c, t, p)
                      \/ /\ In(g, h, r)
                         /\ ~(g = t.gw /\ h = p[1] /\ (g = "http" => r.loc = p[2]))
           /\ DOMAIN http' = Hosts /\ \A h \in Hosts : http'[h] \subseteq HttpRoutes
           /\ https' \in [Hosts -> HttpsRoutes \cup {NoRoute}]
  <1>0. p[1] \in Hosts /\ t.gw \in Gws
    BY GatewayAssumptions DEF Gws
  <1>1. CASE t.gw = "http"
    <2>1. /\ https' = https
          /\ http' = [http EXCEPT ![p[1]] = {r \in @ : r.loc # p[2]} \cup {RouteOf(c, t, p)}]
      BY <1>1 DEF HttpRegister, RouteOf
    <2>2. \A h \in Hosts : http'[h] = IF h = p[1] THEN {r \in http[h] : r.loc # p[2]} \cup {RouteOf(c, t, p)}
                                     ELSE http[h]
      BY <1>0, <2>1 DEF TypeOK
    <2>3. RouteOf(c, t, p) \in HttpRoutes
      BY <1>1, RouteOfFields
    <2>4. DOMAIN http' = Hosts /\ \A h \in Hosts : http'[h] \subseteq HttpRoutes
      BY <2>1, <2>2, <2>3 DEF TypeOK
    <2>5. QED
      BY <1>1, <2>1, <2>2, <2>4 DEF TypeOK, In, Gws
  <1>2. CASE t.gw = "https"
    <2>1. http' = http /\ https' = [https EXCEPT ![p[1]] = RouteOf(c, t, p)]
      BY <1>2 DEF HttpsRegister, RouteOf
    <2>2. \A h \in Hosts : https'[h] = IF h = p[1] THEN RouteOf(c, t, p) ELSE https[h]
      BY <1>0, <2>1 DEF TypeOK
    <2>3. RouteOf(c, t, p) \in HttpsRoutes
      BY <1>2, RouteOfFields
    <2>4. https' \in [Hosts -> HttpsRoutes \cup {NoRoute}]
      BY <2>1, <2>3 DEF TypeOK
    <2>5. QED
      BY <1>2, <2>1, <2>2, <2>4, RouteFields DEF TypeOK, In, Gws
  <1>3. QED
    BY <1>0, <1>1, <1>2 DEF Gws

\* Without a conflict the place is empty or has a route of the same name.
LEMMA NoConflict ==
    ASSUME TypeOK, NEW t \in NewTunnels, NEW p \in Hosts \X Locations,
           ~Conflict(t, p[1], p[2]), NEW r \in AnyRoute,
           In(t.gw, p[1], r), t.gw = "http" => r.loc = p[2]
    PROVE  r.name = t.name
  <1>1. CASE t.gw = "http"
    BY <1>1 DEF Conflict, HttpConflict, In
  <1>2. CASE t.gw # "http"
    BY <1>2 DEF Conflict, HttpsConflict, In
  <1>3. QED
    BY <1>1, <1>2

-----------------------------------------------------------------------------
(* What the sessions' steps do to the invariant, by the kind of step.      *)

\* Typed facts about the state, in the form the steps below use them.
LEMMA Typed ==
    ASSUME TypeOK, RunHasTunnel
    PROVE  /\ \A c \in Controls : tm[c] \subseteq NewTunnels /\ released[c] \subseteq NewTunnels
           /\ \A c \in Controls : run[c].pc \notin {"loop", "exit"} => run[c].np \in NewTunnels
           /\ \A t \in NewTunnels : t.name \in Names /\ t.gw \in Gws
           /\ \A n \in Names : byName[n] \in Controls \cup {NoControl}
  BY GatewayAssumptions DEF TypeOK, RunHasTunnel, Gws

\* Steps of c that move nothing but its task, outside a registration or to the undoing
\* of one.
LEMMA RunStep ==
    ASSUME RoutesInv, NEW c \in Controls, UNCHANGED <<byName, http, https, tm, released>>,
           \A d \in Controls \ {c} : run'[d] = run[d],
           \/ run'[c] = run[c]
           \/ /\ run[c].pc \notin {"enter", "undo", "insert"}
              /\ run'[c].pc \in {"loop", "detach", "claim", "exit"}
           \/ /\ run[c].pc = "enter" /\ run'[c].pc = "undo"
              /\ run'[c].np = run[c].np
    PROVE  RouteRest'
  <1> USE DEF RoutesInv, RouteRest
  <1>1. \A g, h, r : In(g, h, r)' = In(g, h, r)
    BY DEF In
  <1>2. \A d \in Controls : Mine(d)' = Mine(d)
    BY DEF Mine
  <1>3. NamesHeld'
    BY <1>2 DEF NamesHeld, RunHolds
  <1>4. \A d \in Controls : Pending(d) => Pending(d)' /\ run'[d].np = run[d].np
    BY DEF Pending
  <1>5. Owned'
    <2> SUFFICES ASSUME NEW g \in Gws, NEW h \in Hosts, NEW r \in AnyRoute, In(g, h, r)'
                 PROVE  (byName[r.name] = r.ctl /\ Backed(g, r))'
      BY DEF Owned
    <2>1. byName[r.name] = r.ctl /\ Backed(g, r) /\ r.ctl \in Controls
      BY <1>1, RouteFields DEF Owned
    <2>2. QED
      BY <1>4, <2>1 DEF Backed
  <1>6. OneEach'
    BY <1>1 DEF OneEach
  <1>7. Entered'
    BY <1>1 DEF Entered
  <1>8. QED
    BY <1>3, <1>5, <1>6, <1>7

\* Session c gives up name n, of which it has no tunnel and no registration in hand.
LEMMA NameFreed ==
    ASSUME RoutesInv, NEW c \in Controls, NEW n \in Names, byName[n] = c,
           byName' = [byName EXCEPT ![n] = NoControl], UNCHANGED <<http, https, tm>>,
           \A d \in Controls \ {c} : run'[d] = run[d] /\ released'[d] = released[d],
           released'[c] \subseteq released[c],
           \A t \in tm[c] \cup released'[c] : t.name # n,
           Pending(c) => run[c].np.name # n,
           \/ run'[c] = run[c] /\ (RunHolds(c) => run[c].np.name # n)
           \/ ~Pending(c) /\ run'[c].pc \in {"loop", "claim"}
    PROVE  RouteRest'
  <1> USE DEF RoutesInv, RouteRest
  <1>1. \A g, h, r : In(g, h, r)' = In(g, h, r)
    BY DEF In
  <1>2. \A d \in Controls : Mine(d)' \subseteq Mine(d)
    BY DEF Mine
  <1>3. \A m \in Names : byName'[m] = IF m = n THEN NoControl ELSE byName[m]
    BY DEF TypeOK
  <1>4. \A d \in Controls : (\A t \in Mine(d)' : t.name # n)
                            /\ (RunHolds(d)' => run'[d].np.name # n)
    BY DEF NamesHeld, Mine, RunHolds
  <1>5. \A d \in Controls : \A t \in Mine(d)' : t.name \in Names
    BY <1>2, Typed DEF Mine
  <1>6. \A d \in Controls : RunHolds(d)' => RunHolds(d) /\ run'[d] = run[d] /\ run[d].np.name \in Names
    BY Typed DEF RunHolds
  <1>7. NamesHeld'
    <2> SUFFICES ASSUME NEW d \in Controls
                 PROVE  (/\ \A t \in Mine(d) : byName[t.name] = d
                         /\ \A t, u \in Mine(d) : t.name = u.name => t = u
                         /\ tm[d] \cap released[d] = {}
                         /\ RunHolds(d) => /\ byName[run[d].np.name] = d
                                           /\ \A t \in Mine(d) : t.name # run[d].np.name)'
      BY DEF NamesHeld
    <2>1. \A t \in Mine(d)' : byName'[t.name] = d
      BY <1>2, <1>3, <1>4, <1>5 DEF NamesHeld
    <2>2. \A t, u \in Mine(d)' : t.name = u.name => t = u
      BY <1>2 DEF NamesHeld
    <2>3. tm'[d] \cap released'[d] = {}
      BY DEF NamesHeld
    <2>4. RunHolds(d)' => /\ byName'[run'[d].np.name] = d
                          /\ \A t \in Mine(d)' : t.name # run'[d].np.name
      BY <1>2, <1>3, <1>4, <1>6 DEF NamesHeld
    <2>5. QED
      BY <2>1, <2>2, <2>3, <2>4
  <1>8. Owned'
    <2> SUFFICES ASSUME NEW g \in Gws, NEW h \in Hosts, NEW r \in AnyRoute, In(g, h, r)'
                 PROVE  (byName[r.name] = r.ctl /\ Backed(g, r))'
      BY DEF Owned
    <2>1. byName[r.name] = r.ctl /\ Backed(g, r) /\ r.ctl \in Controls /\ r.name \in Names
      BY <1>1, RouteFields DEF Owned
    <2>2. r.name # n
      BY <2>1 DEF Backed
    <2>3. Pending(r.ctl) => run'[r.ctl] = run[r.ctl]
      BY <2>1 DEF Pending
    <2>4. QED
      BY <1>3, <2>1, <2>2, <2>3 DEF Backed, Pending
  <1>9. OneEach'
    BY <1>1 DEF OneEach
  <1>10. Entered'
    BY <1>1 DEF Entered
  <1>11. QED
    BY <1>7, <1>8, <1>9, <1>10

\* Session c takes the free name n for its registration.
LEMMA NameTaken ==
    ASSUME RoutesInv, NEW c \in Controls, NEW n \in Names, byName[n] = NoControl,
           byName' = [byName EXCEPT ![n] = c], UNCHANGED <<http, https, tm, released>>,
           \A d \in Controls \ {c} : run'[d] = run[d],
           run[c].pc = "claim", run[c].np.name = n, run'[c].np = run[c].np,
           \/ run'[c].pc = "clear" /\ DomainsOK(run[c].np)
           \/ run'[c].pc = "giveUp"
    PROVE  RouteRest'
  <1> USE DEF RoutesInv, RouteRest
  <1>1. \A g, h, r : In(g, h, r)' = In(g, h, r)
    BY DEF In
  <1>2. \A d \in Controls : Mine(d)' = Mine(d)
    BY DEF Mine
  <1>3. \A m \in Names : byName'[m] = IF m = n THEN c ELSE byName[m]
    BY DEF TypeOK
  <1>4. \A d \in Controls : \A t \in Mine(d) : t.name \in Names /\ t.name # n
    BY Typed, GatewayAssumptions DEF Mine, NamesHeld
  <1>5. \A d \in Controls : RunHolds(d) => run[d].np.name \in Names /\ run[d].np.name # n
    BY Typed, GatewayAssumptions DEF RunHolds, NamesHeld
  <1>6. \A d \in Controls \ {c} : RunHolds(d)' = RunHolds(d)
    BY DEF RunHolds
  <1>7. NamesHeld'
    BY <1>2, <1>3, <1>4, <1>5, <1>6 DEF NamesHeld
  <1>8. Owned'
    <2> SUFFICES ASSUME NEW g \in Gws, NEW h \in Hosts, NEW r \in AnyRoute, In(g, h, r)'
                 PROVE  (byName[r.name] = r.ctl /\ Backed(g, r))'
      BY DEF Owned
    <2>1. byName[r.name] = r.ctl /\ Backed(g, r) /\ r.ctl \in Controls /\ r.name \in Names
      BY <1>1, RouteFields DEF Owned
    <2>2. r.name # n
      BY <2>1, GatewayAssumptions
    <2>3. Pending(r.ctl) => run'[r.ctl] = run[r.ctl]
      BY <2>1 DEF Pending
    <2>4. QED
      BY <1>3, <2>1, <2>2, <2>3 DEF Backed, Pending
  <1>9. OneEach'
    BY <1>1 DEF OneEach
  <1>10. Entered'
    BY <1>1 DEF Entered
  <1>11. QED
    BY <1>7, <1>8, <1>9, <1>10

\* Session c removes the routes of the name n that it owns from gateway gw: of a tunnel
\* that leaves its manager, or of the registration in hand.
LEMMA RoutesRemoved ==
    ASSUME RoutesInv, NEW c \in Controls, NEW n \in Names, NEW gw \in Gws, byName[n] = c,
           UnregisterTunnel(gw, n),
           \A d \in Controls \ {c} : run'[d] = run[d] /\ tm'[d] = tm[d],
           tm'[c] = {t \in tm[c] : t.name # n},
           \A t \in tm[c] : t.name = n => t.gw = gw,
           RunHolds(c) /\ run[c].np.name = n => run[c].np.gw = gw,
           \/ run'[c] = run[c] /\ (RunHolds(c) => run[c].np.name # n)
           \/ ~Pending(c) /\ run'[c].pc = "relName"
           \/ run[c].np.name = n /\ run'[c].pc = "giveUp"
           \/ /\ run[c].np.name = n /\ run'[c].pc = "enter" /\ DomainsOK(run[c].np)
              /\ run'[c].np = run[c].np /\ run'[c].todo = Pairs(run[c].np),
           UNCHANGED byName
    PROVE  (Owned /\ OneEach /\ Entered)'
  <1> USE DEF RoutesInv, RouteRest
  <1>1. \A g \in Gws, h \in Hosts, r \in AnyRoute :
            In(g, h, r)' <=> In(g, h, r) /\ ~(g = gw /\ r.name = n)
    BY UnregisterEffect
  <1>2. Owned'
    <2> SUFFICES ASSUME NEW g \in Gws, NEW h \in Hosts, NEW r \in AnyRoute, In(g, h, r)'
                 PROVE  (byName[r.name] = r.ctl /\ Backed(g, r))'
      BY DEF Owned
    <2>1. /\ byName[r.name] = r.ctl /\ Backed(g, r) /\ r.ctl \in Controls /\ r.name \in Names
          /\ ~(g = gw /\ r.name = n)
      BY <1>1, RouteFields DEF Owned
    <2>2. Pending(c) => RunHolds(c)
      BY DEF Pending, RunHolds
    <2>3. r.name # n
      BY <2>1, <2>2 DEF Backed
    <2>4. CASE \E t \in tm[r.ctl] : t.name = r.name /\ t.gw = g
      BY <2>1, <2>3, <2>4 DEF Backed
    <2>5. CASE Pending(r.ctl) /\ run[r.ctl].np.name = r.name /\ run[r.ctl].np.gw = g
      <3>1. run'[r.ctl] = run[r.ctl]
        BY <2>1, <2>3, <2>5
      <3>2. QED
        BY <2>1, <2>5, <3>1 DEF Backed, Pending
    <2>6. QED
      BY <2>1, <2>4, <2>5 DEF Backed
  <1>3. OneEach'
    BY <1>1 DEF OneEach
  <1>4. \A d \in Controls, t \in NewTunnels : DomainsOK(t) /\ t.name # n =>
            \A p \in Pairs(t) : /\ p[1] \in Hosts /\ RouteOf(d, t, p) \in AnyRoute
                                /\ RouteOf(d, t, p).name # n /\ t.gw \in Gws
    BY PairsTyped, RouteOfFields, Typed
  <1>5. \A d \in Controls : \A t \in tm'[d] : t \in tm[d] /\ t.name # n /\ t \in NewTunnels
    BY Typed DEF NamesHeld, Mine
  <1>6. \A d \in Controls : \A t \in tm'[d] :
            DomainsOK(t) /\ \A p \in Pairs(t) : In(t.gw, p[1], RouteOf(d, t, p))'
    BY <1>1, <1>4, <1>5 DEF Entered
  <1>7. ASSUME NEW d \in Controls, run'[d] = run[d], RunHolds(d) => run[d].np.name # n
        PROVE  (/\ run[d].pc \in {"clear", "enter", "undo", "insert"} => DomainsOK(run[d].np)
                /\ run[d].pc \in {"enter", "insert"} =>
                      \A p \in Pairs(run[d].np) :
                          In(run[d].np.gw, p[1], RouteOf(d, run[d].np, p)) \/ p \in run[d].todo
                /\ run[d].pc = "enter" => run[d].todo \subseteq Pairs(run[d].np)
                /\ run[d].pc = "insert" => run[d].todo = {})'
    <2>1. ASSUME run[d].pc \in {"enter", "insert"}, NEW p \in Pairs(run[d].np)
          PROVE  In(run[d].np.gw, p[1], RouteOf(d, run[d].np, p))' \/ p \in run[d].todo
      <3>1. RunHolds(d) /\ DomainsOK(run[d].np) /\ run[d].np \in NewTunnels
        BY <2>1, Typed DEF RunHolds, Entered
      <3>2. In(run[d].np.gw, p[1], RouteOf(d, run[d].np, p)) \/ p \in run[d].todo
        BY <2>1 DEF Entered
      <3>3. In(run[d].np.gw, p[1], RouteOf(d, run[d].np, p)) =>
            In(run[d].np.gw, p[1], RouteOf(d, run[d].np, p))'
        BY <1>1, <1>4, <1>7, <3>1
      <3>4. QED
        BY <3>2, <3>3
    <2>2. QED
      BY <1>7, <2>1 DEF Entered
  <1>8. \A d \in Controls \ {c} : RunHolds(d) => run[d].np.name # n
    BY DEF NamesHeld
  <1>9. (/\ run[c].pc \in {"clear", "enter", "undo", "insert"} => DomainsOK(run[c].np)
         /\ run[c].pc \in {"enter", "insert"} =>
               \A p \in Pairs(run[c].np) :
                   In(run[c].np.gw, p[1], RouteOf(c, run[c].np, p)) \/ p \in run[c].todo
         /\ run[c].pc = "enter" => run[c].todo \subseteq Pairs(run[c].np)
         /\ run[c].pc = "insert" => run[c].todo = {})'
    <2>1. CASE run'[c] = run[c] /\ (RunHolds(c) => run[c].np.name # n)
      BY <1>7, <2>1
    <2>2. CASE run'[c].pc \in {"relName", "giveUp"}
      BY <2>2
    <2>3. CASE /\ run'[c].pc = "enter" /\ DomainsOK(run[c].np)
               /\ run'[c].np = run[c].np /\ run'[c].todo = Pairs(run[c].np)
      BY <2>3
    <2>4. QED
      BY <2>1, <2>2, <2>3
  <1>10. Entered'
    BY <1>6, <1>7, <1>8, <1>9 DEF Entered
  <1>11. QED
    BY <1>2, <1>3, <1>10

\* Session c enters the route of pair p where there is no conflict.
LEMMA RouteEntered ==
    ASSUME RoutesInv, NEW c \in Controls, run[c].pc = "enter", NEW p \in run[c].todo,
           ~Conflict(run[c].np, p[1], p[2]),
           IF run[c].np.gw = "http" THEN HttpRegister(c, run[c].np, p[1], p[2])
           ELSE HttpsRegister(c, run[c].np, p[1]),
           \A d \in Controls \ {c} : run'[d] = run[d],
           run'[c].np = run[c].np, run'[c].todo = run[c].todo \ {p},
           run'[c].pc = IF run[c].todo = {p} THEN "insert" ELSE "enter",
           UNCHANGED <<byName, tm, released>>
    PROVE  RouteRest'
  <1> USE DEF RoutesInv, RouteRest
  <1> DEFINE np == run[c].np
             new == RouteOf(c, np, p)
  <1>1. /\ np \in NewTunnels /\ DomainsOK(np) /\ p \in Pairs(np) /\ RunHolds(c)
        /\ np.gw \in Gws /\ np.name \in Names
    BY Typed DEF Entered, RunHolds
  <1>2. p \in Hosts \X Locations /\ p[1] \in Hosts /\ p[2] \in Locations
    BY <1>1, PairsTyped
  <1>3. /\ new \in AnyRoute /\ new.name = np.name /\ new.ctl = c
        /\ np.gw = "http" => new.loc = p[2]
    BY <1>1, <1>2, RouteOfFields
  <1>4. \A g \in Gws, h \in Hosts, r \in AnyRoute :
            In(g, h, r)' <=> \/ g = np.gw /\ h = p[1] /\ r = new
                             \/ /\ In(g, h, r)
                                /\ ~(g = np.gw /\ h = p[1] /\ (g = "http" => r.loc = p[2]))
    <2>1. IF np.gw = "http" THEN HttpRegister(c, np, p[1], p[2]) ELSE HttpsRegister(c, np, p[1])
      OBVIOUS
    <2> HIDE DEF np
    <2>2. QED
      BY <1>1, <1>2, <2>1, RegisterEffect
  <1>5. \A r \in AnyRoute : In(np.gw, p[1], r) /\ (np.gw = "http" => r.loc = p[2])
                                => r.name = np.name
    BY <1>1, <1>2, NoConflict
  <1>6. \A d \in Controls : RunHolds(d)' = RunHolds(d) /\ Pending(d)' = Pending(d) /\ run'[d].np = run[d].np
    BY DEF RunHolds, Pending
  <1>7. \A d \in Controls : Mine(d)' = Mine(d)
    BY DEF Mine
  <1>8. NamesHeld'
    BY <1>6, <1>7 DEF NamesHeld
  <1>9. Owned'
    <2> SUFFICES ASSUME NEW g \in Gws, NEW h \in Hosts, NEW r \in AnyRoute, In(g, h, r)'
                 PROVE  (byName[r.name] = r.ctl /\ Backed(g, r))'
      BY DEF Owned
    <2>1. CASE In(g, h, r)
      <3>1. byName[r.name] = r.ctl /\ Backed(g, r) /\ r.ctl \in Controls
        BY <2>1, RouteFields DEF Owned
      <3>2. QED
        BY <1>6, <3>1 DEF Backed
    <2>2. CASE g = np.gw /\ h = p[1] /\ r = new
      <3>1. Pending(c)' /\ run'[c].np = np
        BY DEF Pending
      <3>2. byName[np.name] = c
        BY <1>1 DEF NamesHeld
      <3>3. QED
        BY <1>3, <2>2, <3>1, <3>2 DEF Backed
    <2>3. QED
      BY <1>4, <2>1, <2>2
  <1>10. OneEach'
    <2> SUFFICES ASSUME NEW g \in Gws, NEW h \in Hosts, NEW r \in AnyRoute, NEW s \in AnyRoute,
                        In(g, h, r)', In(g, h, s)', g = "http" => r.loc = s.loc
                 PROVE  r = s
      BY DEF OneEach
    <2> HIDE DEF new, np
    <2>1. CASE In(g, h, r) /\ In(g, h, s)
      BY <2>1 DEF OneEach
    <2>2. QED
      BY <1>3, <1>4, <2>1
  <1>11. \A d \in Controls, t \in NewTunnels : DomainsOK(t) =>
            \A q \in Pairs(t) : /\ q[1] \in Hosts /\ RouteOf(d, t, q) \in AnyRoute
                                /\ RouteOf(d, t, q).name = t.name /\ t.gw \in Gws
                                /\ t.gw = "http" => RouteOf(d, t, q).loc = q[2]
                                /\ t.gw # "http" => q[2] = <<>>
    BY PairsTyped, RouteOfFields, Typed
  <1>12. ASSUME NEW d \in Controls, NEW t \in NewTunnels, DomainsOK(t), t.name # np.name,
                NEW q \in Pairs(t), In(t.gw, q[1], RouteOf(d, t, q))
         PROVE  In(t.gw, q[1], RouteOf(d, t, q))'
    <2> HIDE DEF new, np
    <2>1. QED
      BY <1>4, <1>5, <1>11, <1>12
  <1>13. \A d \in Controls : \A t \in tm[d] :
            DomainsOK(t) /\ \A q \in Pairs(t) : In(t.gw, q[1], RouteOf(d, t, q))'
    <2>1. \A d \in Controls : \A t \in tm[d] : t \in NewTunnels /\ t.name # np.name
      BY <1>1, Typed DEF NamesHeld, Mine
    <2>2. QED
      BY <1>12, <2>1 DEF Entered
  <1>14. ASSUME NEW d \in Controls \ {c}, run[d].pc \in {"enter", "insert"}, NEW q \in Pairs(run[d].np)
         PROVE  In(run[d].np.gw, q[1], RouteOf(d, run[d].np, q))' \/ q \in run[d].todo
    <2>1. RunHolds(d) /\ DomainsOK(run[d].np) /\ run[d].np \in NewTunnels
      BY <1>14, Typed DEF RunHolds, Entered
    <2>2. run[d].np.name # np.name
      BY <1>1, <2>1 DEF NamesHeld
    <2>3. QED
      BY <1>12, <1>14, <2>1, <2>2 DEF Entered
  <1>15. ASSUME NEW q \in Pairs(np)
         PROVE  In(np.gw, q[1], RouteOf(c, np, q))' \/ q \in run'[c].todo
    <2>1. CASE q = p
      BY <1>1, <1>2, <1>3, <1>4, <2>1
    <2>2. CASE q # p /\ q \in run[c].todo
      BY <2>2
    <2>3. CASE q # p /\ q \notin run[c].todo
      <3>1. In(np.gw, q[1], RouteOf(c, np, q))
        BY <1>15, <2>3 DEF Entered
      <3>2. q[1] = p[1] /\ q[2] = p[2] => q = p
        BY <1>1, <1>15 DEF Pairs
      <3>3. np.gw # "http" => q[2] = <<>> /\ p[2] = <<>>
        BY <1>1, <1>11, <1>15
      <3>4. /\ q[1] \in Hosts /\ RouteOf(c, np, q) \in AnyRoute
            /\ np.gw = "http" => RouteOf(c, np, q).loc = q[2]
        BY <1>1, <1>11, <1>15
      <3>5. np' = np
        OBVIOUS
      <3> HIDE DEF new, np
      <3>6. ~(q[1] = p[1] /\ (np.gw = "http" => RouteOf(c, np, q).loc = p[2]))
        BY <2>3, <3>2, <3>3, <3>4
      <3>7. QED
        BY <1>1, <1>4, <3>1, <3>4, <3>5, <3>6 DEF RouteOf, HttpRoute, HttpsRoute
    <2>4. QED
      BY <2>1, <2>2, <2>3
  <1>16. Entered'
    <2>1. \A d \in Controls \ {c} :
              (/\ run[d].pc \in {"clear", "enter", "undo", "insert"} => DomainsOK(run[d].np)
               /\ run[d].pc \in {"enter", "insert"} =>
                     \A q \in Pairs(run[d].np) :
                         In(run[d].np.gw, q[1], RouteOf(d, run[d].np, q)) \/ q \in run[d].todo
               /\ run[d].pc = "enter" => run[d].todo \subseteq Pairs(run[d].np)
               /\ run[d].pc = "insert" => run[d].todo = {})'
      BY <1>14 DEF Entered
    <2>2. /\ DomainsOK(run'[c].np) /\ run'[c].todo \subseteq Pairs(run'[c].np)
          /\ run'[c].pc \in {"enter", "insert"}
          /\ run'[c].pc = "insert" => run'[c].todo = {}
      BY <1>1 DEF Entered
    <2>3. \A q \in Pairs(run'[c].np) :
              In(run[c].np.gw, q[1], RouteOf(c, run[c].np, q))' \/ q \in run'[c].todo
      BY <1>15
    <2>4. QED
      BY <1>13, <2>1, <2>2, <2>3 DEF Entered
  <1>17. QED
    BY <1>8, <1>9, <1>10, <1>16

\* The registration of c is complete: its tunnel enters the manager.
LEMMA TunnelInserted ==
    ASSUME RoutesInv, NEW c \in Controls, run[c].pc = "insert", run'[c].pc = "loop",
           \A d \in Controls \ {c} : run'[d] = run[d] /\ tm'[d] = tm[d],
           tm'[c] = tm[c] \cup {run[c].np}, UNCHANGED <<byName, http, https, released>>
    PROVE  RouteRest'
  <1> USE DEF RoutesInv, RouteRest
  <1>1. \A g, h, r : In(g, h, r)' = In(g, h, r)
    BY DEF In
  <1>2. Mine(c)' = Mine(c) \cup {run[c].np} /\ \A d \in Controls \ {c} : Mine(d)' = Mine(d)
    BY DEF Mine
  <1>3. RunHolds(c) /\ ~RunHolds(c)' /\ \A d \in Controls \ {c} : RunHolds(d)' = RunHolds(d)
    BY DEF RunHolds
  <1>4. run[c].np \notin released[c]
    BY <1>3 DEF NamesHeld, Mine
  <1>5. NamesHeld'
    <2>1. \A d \in Controls : \A t \in Mine(d)' : byName'[t.name] = d
      BY <1>2, <1>3 DEF NamesHeld
    <2>2. \A d \in Controls : \A t, u \in Mine(d)' : t.name = u.name => t = u
      BY <1>2, <1>3 DEF NamesHeld
    <2>3. \A d \in Controls : tm'[d] \cap released'[d] = {}
      BY <1>4 DEF NamesHeld
    <2>4. \A d \in Controls : RunHolds(d)' => /\ byName'[run'[d].np.name] = d
                                             /\ \A t \in Mine(d)' : t.name # run'[d].np.name
      BY <1>2, <1>3 DEF NamesHeld
    <2>5. QED
      BY <2>1, <2>2, <2>3, <2>4 DEF NamesHeld
  <1>6. Owned'
    <2> SUFFICES ASSUME NEW g \in Gws, NEW h \in Hosts, NEW r \in AnyRoute, In(g, h, r)'
                 PROVE  (byName[r.name] = r.ctl /\ Backed(g, r))'
      BY DEF Owned
    <2>1. byName[r.name] = r.ctl /\ Backed(g, r) /\ r.ctl \in Controls
      BY <1>1, RouteFields DEF Owned
    <2>2. CASE \E t \in tm[r.ctl] : t.name = r.name /\ t.gw = g
      BY <2>1, <2>2 DEF Backed
    <2>3. CASE Pending(r.ctl) /\ run[r.ctl].np.name = r.name /\ run[r.ctl].np.gw = g
      BY <2>1, <2>3 DEF Backed, Pending
    <2>4. QED
      BY <2>1, <2>2, <2>3 DEF Backed
  <1>7. OneEach'
    BY <1>1 DEF OneEach
  <1>8. \A p \in Pairs(run[c].np) : In(run[c].np.gw, p[1], RouteOf(c, run[c].np, p))
    BY DEF Entered
  <1>9. Entered'
    BY <1>1, <1>8 DEF Entered
  <1>10. QED
    BY <1>5, <1>6, <1>7, <1>9

-----------------------------------------------------------------------------
(* One lemma per action of a session.                                      *)

Pcs == {"loop", "detach", "relName", "claim", "clear", "enter", "undo", "giveUp", "insert",
        "exit"}

\* A task that moves to p keeps its request until it is back in its loop.
LEMMA GotoEffect ==
    ASSUME TypeOK, NEW c \in Controls, NEW p \in Pcs, Goto(c, p)
    PROVE  /\ run' \in [Controls -> Runs]
           /\ \A d \in Controls \ {c} : run'[d] = run[d]
           /\ run'[c].pc = p
           /\ p \notin {"loop", "exit"} => run'[c].np = run[c].np
  <1>1. run[c] \in Runs /\ run \in [Controls -> Runs]
    BY DEF TypeOK
  <1>2. CASE p \in {"loop", "exit"}
    <2>1. run' = [run EXCEPT ![c] = [IdleRun EXCEPT !.pc = p]]
      BY <1>2 DEF Goto
    <2>2. [IdleRun EXCEPT !.pc = p] \in Runs /\ [IdleRun EXCEPT !.pc = p].pc = p
      BY <1>2 DEF IdleRun, Runs
    <2>3. QED
      BY <1>1, <1>2, <2>1, <2>2
  <1>3. CASE p \notin {"loop", "exit"}
    <2>1. run' = [run EXCEPT ![c] = [run[c] EXCEPT !.pc = p]]
      BY <1>3 DEF Goto
    <2>2. /\ [run[c] EXCEPT !.pc = p] \in Runs /\ [run[c] EXCEPT !.pc = p].pc = p
          /\ [run[c] EXCEPT !.pc = p].np = run[c].np
      BY <1>1 DEF Runs, Pcs
    <2>3. QED
      BY <1>1, <2>1, <2>2
  <1>4. QED
    BY <1>2, <1>3

\* The goal of a detach.
LEMMA GoalTyped ==
    ASSUME TypeOK, NEW c \in Controls
    PROVE  run[c].goal \in {"claim", "loop"} /\ run[c].goal \in Pcs
  BY DEF TypeOK, Runs, Pcs

\* HandleNewTunnel and HandleCloseTunnel begin with the detach of the old tunnel.
LEMMA RequestStep ==
    ASSUME RoutesInv, NEW c \in Controls, NEW np \in NewTunnels,
           HandleNewTunnel(c, np) \/ HandleCloseTunnel(c, np)
    PROVE  RoutesInv'
  <1>1. PICK goal \in {"claim", "loop"} :
            run' = [run EXCEPT ![c] = [pc |-> "detach", np |-> np, todo |-> {}, goal |-> goal]]
    BY DEF HandleNewTunnel, HandleCloseTunnel
  <1>2. UNCHANGED <<byName, http, https, tm, phase, released>> /\ run[c].pc = "loop"
    BY DEF HandleNewTunnel, HandleCloseTunnel, tables
  <1>3. [pc |-> "detach", np |-> np, todo |-> {}, goal |-> goal] \in Runs
    BY DEF Runs
  <1>4. /\ run' \in [Controls -> Runs] /\ \A d \in Controls \ {c} : run'[d] = run[d]
        /\ run'[c].pc = "detach" /\ run'[c].np = np
    BY <1>1, <1>3 DEF RoutesInv, TypeOK
  <1>5. TypeOK' /\ RunHasTunnel'
    BY <1>2, <1>4 DEF RoutesInv, TypeOK, RunHasTunnel
  <1>6. RouteRest'
    BY <1>2, <1>4, RunStep
  <1>7. QED
    BY <1>5, <1>6 DEF RoutesInv

\* TunnelManager::remove and the close of what it removed.
LEMMA DetachStep ==
    ASSUME RoutesInv, NEW c \in Controls, DetachTunnel(c)
    PROVE  RoutesInv'
  <1> USE DEF RoutesInv
  <1>1. UNCHANGED <<byName, phase, released>> /\ run[c].pc = "detach"
    BY DEF DetachTunnel
  <1>2. ASSUME NEW t \in tm[c], t.name = run[c].np.name, tm' = [tm EXCEPT ![c] = @ \ {t}],
               UnregisterTunnel(t.gw, t.name), Goto(c, "relName")
        PROVE  RoutesInv'
    <2>1. t \in NewTunnels /\ t.name \in Names /\ t.gw \in Gws /\ t \in Mine(c)
      BY Typed DEF Mine
    <2>2. /\ run' \in [Controls -> Runs] /\ \A d \in Controls \ {c} : run'[d] = run[d]
          /\ run'[c].pc = "relName" /\ run'[c].np = run[c].np
      BY <1>2, GotoEffect DEF Pcs
    <2>3. /\ tm' \in [Controls -> SUBSET NewTunnels] /\ tm'[c] = tm[c] \ {t}
          /\ \A d \in Controls \ {c} : tm'[d] = tm[d]
      BY <1>2 DEF TypeOK
    <2>4. \A u \in tm[c] : u.name = t.name => u = t
      BY <2>1 DEF RouteRest, NamesHeld, Mine
    <2>5. tm'[c] = {u \in tm[c] : u.name # t.name}
      BY <2>3, <2>4
    <2>6. byName[t.name] = c
      BY <2>1 DEF RouteRest, NamesHeld
    <2>7. ~Pending(c) /\ ~RunHolds(c)
      BY <1>1 DEF Pending, RunHolds
    <2>8. (Owned /\ OneEach /\ Entered)'
      BY <1>1, <1>2, <2>1, <2>2, <2>3, <2>4, <2>5, <2>6, <2>7, RoutesRemoved
    <2>9. NamesHeld'
      <3>1. /\ Mine(c)' \subseteq Mine(c) /\ \A u \in Mine(c)' : u # t
            /\ \A d \in Controls \ {c} : Mine(d)' = Mine(d) /\ RunHolds(d)' = RunHolds(d)
        BY <1>1, <2>1, <2>2, <2>3 DEF Mine, RunHolds, RouteRest, NamesHeld
      <3>2. \A u \in Mine(c)' : u.name # t.name
        BY <2>1, <3>1 DEF RouteRest, NamesHeld
      <3>3. \A d \in Controls : tm'[d] \cap released'[d] = {}
        BY <1>1, <2>3 DEF RouteRest, NamesHeld
      <3>4. QED
        BY <1>1, <1>2, <2>2, <2>6, <3>1, <3>2, <3>3 DEF RouteRest, NamesHeld
    <2>10. TypeOK' /\ RunHasTunnel'
      BY <1>1, <1>2, <2>1, <2>2, <2>3, UnregisterEffect DEF TypeOK, RunHasTunnel
    <2>11. QED
      BY <2>8, <2>9, <2>10 DEF RouteRest
  <1>3. ASSUME Goto(c, run[c].goal), UNCHANGED <<tables, tm>>
        PROVE  RoutesInv'
    <2>1. /\ run' \in [Controls -> Runs] /\ \A d \in Controls \ {c} : run'[d] = run[d]
          /\ run'[c].pc \in {"claim", "loop"} /\ (run'[c].pc # "loop" => run'[c].np = run[c].np)
      BY <1>3, GotoEffect, GoalTyped
    <2>2. TypeOK' /\ RunHasTunnel'
      BY <1>1, <1>3, <2>1 DEF TypeOK, RunHasTunnel, tables
    <2>3. RouteRest'
      BY <1>1, <1>3, <2>1, RunStep DEF tables
    <2>4. QED
      BY <2>2, <2>3
  <1>4. QED
    BY <1>2, <1>3 DEF DetachTunnel

\* The name of a detached tunnel, or of a registration that failed, is released.
LEMMA ReleaseStep ==
    ASSUME RoutesInv, NEW c \in Controls, ReleaseName(c) \/ GiveUp(c)
    PROVE  RoutesInv'
  <1> USE DEF RoutesInv
  <1> DEFINE n == run[c].np.name
  <1>1. /\ run[c].pc \in {"relName", "giveUp"} /\ Release(c, n)
        /\ UNCHANGED <<http, https, tm, phase, released>>
        /\ Goto(c, "loop") \/ Goto(c, run[c].goal)
    BY DEF ReleaseName, GiveUp, tables
  <1>2. /\ run' \in [Controls -> Runs] /\ \A d \in Controls \ {c} : run'[d] = run[d]
        /\ run'[c].pc \in {"claim", "loop"} /\ (run'[c].pc # "loop" => run'[c].np = run[c].np)
    BY <1>1, GotoEffect, GoalTyped DEF Pcs
  <1>3. RunHolds(c) /\ ~Pending(c)
    BY <1>1 DEF RunHolds, Pending
  <1>4. byName[n] = c /\ n \in Names /\ run[c].np \in NewTunnels
    BY <1>1, <1>3, Typed DEF RouteRest, NamesHeld
  <1>5. byName' = [byName EXCEPT ![n] = NoControl]
    BY <1>1, <1>4 DEF Release
  <1>6. \A t \in tm[c] \cup released[c] : t.name # n
    BY <1>3 DEF RouteRest, NamesHeld, Mine
  <1>7. byName' \in [Names -> Controls \cup {NoControl}]
    BY <1>4, <1>5 DEF TypeOK
  <1>8. TypeOK' /\ RunHasTunnel'
    BY <1>1, <1>2, <1>4, <1>7 DEF TypeOK, RunHasTunnel
  <1>9. RouteRest'
    <2> HIDE DEF n
    <2>1. QED
      BY <1>1, <1>2, <1>3, <1>4, <1>5, <1>6, NameFreed
  <1>10. QED
    BY <1>8, <1>9

\* try_insert, and the domains of the registration.
LEMMA ClaimStep ==
    ASSUME RoutesInv, NEW c \in Controls, ClaimName(c)
    PROVE  RoutesInv'
  <1> USE DEF RoutesInv
  <1> DEFINE n == run[c].np.name
  <1>1. run[c].pc = "claim" /\ UNCHANGED <<http, https, tm, phase, released>>
    BY DEF ClaimName, tables
  <1>2. n \in Names /\ run[c].np \in NewTunnels
    BY <1>1, Typed
  <1>3. ASSUME byName[n] = NoControl, byName' = [byName EXCEPT ![n] = c],
               Goto(c, IF DomainsOK(run[c].np) THEN "clear" ELSE "giveUp")
        PROVE  RoutesInv'
    <2>1. /\ run' \in [Controls -> Runs] /\ \A d \in Controls \ {c} : run'[d] = run[d]
          /\ run'[c].np = run[c].np
          /\ \/ run'[c].pc = "clear" /\ DomainsOK(run[c].np)
             \/ run'[c].pc = "giveUp"
      <3>1. CASE DomainsOK(run[c].np)
        BY <1>3, <3>1, GotoEffect DEF Pcs
      <3>2. CASE ~DomainsOK(run[c].np)
        BY <1>3, <3>2, GotoEffect DEF Pcs
      <3>3. QED
        BY <3>1, <3>2
    <2>2. byName' \in [Names -> Controls \cup {NoControl}]
      BY <1>2, <1>3 DEF TypeOK
    <2>3. TypeOK' /\ RunHasTunnel'
      BY <1>1, <1>2, <2>1, <2>2 DEF TypeOK, RunHasTunnel
    <2>4. n = run[c].np.name
      OBVIOUS
    <2>5. RouteRest'
      <3> HIDE DEF n
      <3>1. QED
        BY <1>1, <1>2, <1>3, <2>1, <2>4, NameTaken
    <2>6. QED
      BY <2>3, <2>5
  <1>4. ASSUME Goto(c, "loop"), UNCHANGED byName
        PROVE  RoutesInv'
    <2>1. /\ run' \in [Controls -> Runs] /\ \A d \in Controls \ {c} : run'[d] = run[d]
          /\ run'[c].pc = "loop"
      BY <1>4, GotoEffect DEF Pcs
    <2>2. TypeOK' /\ RunHasTunnel'
      BY <1>1, <1>4, <2>1 DEF TypeOK, RunHasTunnel
    <2>3. RouteRest'
      BY <1>1, <1>4, <2>1, RunStep
    <2>4. QED
      BY <2>2, <2>3
  <1>5. QED
    BY <1>3, <1>4 DEF ClaimName

\* The routes of the registration in hand are removed: those that an earlier one left
\* behind, and those it entered before a conflict.
LEMMA OwnRoutesStep ==
    ASSUME RoutesInv, NEW c \in Controls, ClearOld(c) \/ UndoRoutes(c)
    PROVE  RoutesInv'
  <1> USE DEF RoutesInv
  <1> DEFINE n == run[c].np.name
             gw == run[c].np.gw
  <1>1. /\ run[c].pc \in {"clear", "undo"} /\ UnregisterTunnel(gw, n)
        /\ UNCHANGED <<byName, tm, phase, released>>
    BY DEF ClearOld, UndoRoutes
  <1>2. n \in Names /\ gw \in Gws /\ run[c].np \in NewTunnels /\ RunHolds(c) /\ DomainsOK(run[c].np)
    BY <1>1, Typed DEF RunHolds, RouteRest, Entered
  <1>3. byName[n] = c /\ \A t \in tm[c] : t.name # n
    BY <1>2 DEF RouteRest, NamesHeld, Mine
  <1>4. /\ run' \in [Controls -> Runs] /\ \A d \in Controls \ {c} : run'[d] = run[d]
        /\ run'[c].np = run[c].np
        /\ run'[c].pc = "giveUp" \/ (run'[c].pc = "enter" /\ run'[c].todo = Pairs(run[c].np))
    <2>1. CASE ClearOld(c)
      <3>1. run' = [run EXCEPT ![c].pc = "enter", ![c].todo = Pairs(run[c].np)]
        BY <2>1 DEF ClearOld
      <3>2. Pairs(run[c].np) \subseteq Hosts \X Locations
        BY <1>2, PairsTyped
      <3>3. run \in [Controls -> Runs] /\ run[c] \in Runs
        BY DEF TypeOK
      <3>4. run' = [run EXCEPT ![c] = [run[c] EXCEPT !.pc = "enter", !.todo = Pairs(run[c].np)]]
        BY <3>1, <3>3 DEF Runs
      <3>5. [run[c] EXCEPT !.pc = "enter", !.todo = Pairs(run[c].np)] \in Runs
        BY <3>2, <3>3 DEF Runs
      <3>6. /\ [run[c] EXCEPT !.pc = "enter", !.todo = Pairs(run[c].np)].pc = "enter"
            /\ [run[c] EXCEPT !.pc = "enter", !.todo = Pairs(run[c].np)].np = run[c].np
            /\ [run[c] EXCEPT !.pc = "enter", !.todo = Pairs(run[c].np)].todo = Pairs(run[c].np)
        BY <3>3 DEF Runs
      <3>7. QED
        BY <3>3, <3>4, <3>5, <3>6
    <2>2. CASE UndoRoutes(c)
      BY <2>2, GotoEffect DEF UndoRoutes, Pcs
    <2>3. QED
      BY <2>1, <2>2
  <1>5. TypeOK' /\ RunHasTunnel'
    <2>1. /\ DOMAIN http' = Hosts /\ \A h \in Hosts : http'[h] \subseteq HttpRoutes
          /\ https' \in [Hosts -> HttpsRoutes \cup {NoRoute}]
      <3> HIDE DEF n, gw
      <3>1. QED
        BY <1>1, <1>2, UnregisterEffect
    <2>2. QED
      BY <1>1, <1>2, <1>4, <2>1 DEF TypeOK, RunHasTunnel
  <1>6. NamesHeld'
    <2>1. \A d \in Controls : Mine(d)' = Mine(d) /\ RunHolds(d)' = RunHolds(d) /\ run'[d].np = run[d].np
      BY <1>1, <1>2, <1>4 DEF Mine, RunHolds
    <2>2. QED
      BY <1>1, <2>1 DEF RouteRest, NamesHeld
  <1>7. (Owned /\ OneEach /\ Entered)'
    <2>1. n = run[c].np.name /\ gw = run[c].np.gw
      OBVIOUS
    <2>2. tm'[c] = {t \in tm[c] : t.name # n}
      BY <1>1, <1>3
    <2> HIDE DEF n, gw
    <2>3. QED
      BY <1>1, <1>2, <1>3, <1>4, <2>1, <2>2, RoutesRemoved
  <1>8. QED
    BY <1>5, <1>6, <1>7 DEF RouteRest

\* One turn of the loop over domains and locations.
LEMMA EnterStep ==
    ASSUME RoutesInv, NEW c \in Controls, EnterRoute(c)
    PROVE  RoutesInv'
  <1> USE DEF RoutesInv
  <1>1. run[c].pc = "enter" /\ UNCHANGED <<byName, tm, phase, released>>
    BY DEF EnterRoute
  <1>2. run[c].np \in NewTunnels /\ run[c].np.gw \in Gws
    BY <1>1, Typed
  <1>3. ASSUME Goto(c, "undo"), UNCHANGED tables
        PROVE  RoutesInv'
    <2>1. /\ run' \in [Controls -> Runs] /\ \A d \in Controls \ {c} : run'[d] = run[d]
          /\ run'[c].pc = "undo" /\ run'[c].np = run[c].np
      BY <1>3, GotoEffect DEF Pcs
    <2>2. TypeOK' /\ RunHasTunnel'
      BY <1>1, <1>2, <1>3, <2>1 DEF TypeOK, RunHasTunnel, tables
    <2>3. RouteRest'
      BY <1>1, <1>3, <2>1, RunStep DEF tables
    <2>4. QED
      BY <2>2, <2>3
  <1>4. ASSUME NEW p \in run[c].todo, ~Conflict(run[c].np, p[1], p[2]),
               IF run[c].np.gw = "http" THEN HttpRegister(c, run[c].np, p[1], p[2])
               ELSE HttpsRegister(c, run[c].np, p[1]),
               run' = [run EXCEPT ![c].todo = @ \ {p},
                                  ![c].pc = IF run[c].todo = {p} THEN "insert" ELSE "enter"]
        PROVE  RoutesInv'
    <2> DEFINE q == IF run[c].todo = {p} THEN "insert" ELSE "enter"
               next == [run[c] EXCEPT !.todo = run[c].todo \ {p}, !.pc = q]
    <2>1. run \in [Controls -> Runs] /\ run[c] \in Runs
      BY DEF TypeOK
    <2>2. run[c].todo \subseteq Hosts \X Locations
      BY <2>1 DEF Runs
    <2>3. next \in Runs
      BY <2>1, <2>2 DEF Runs
    <2>4. next.np = run[c].np /\ next.pc = q /\ next.todo = run[c].todo \ {p}
      BY <2>1 DEF Runs
    <2>5. run' = [run EXCEPT ![c] = next]
      BY <1>4, <2>1 DEF Runs
    <2>6. /\ run' \in [Controls -> Runs] /\ \A d \in Controls \ {c} : run'[d] = run[d]
          /\ run'[c].np = run[c].np /\ run'[c].pc = q /\ run'[c].todo = run[c].todo \ {p}
      <3> HIDE DEF next, q
      <3>1. QED
        BY <2>1, <2>3, <2>4, <2>5
    <2>7. /\ DOMAIN http' = Hosts /\ \A h \in Hosts : http'[h] \subseteq HttpRoutes
          /\ https' \in [Hosts -> HttpsRoutes \cup {NoRoute}]
      BY <1>2, <1>4, <2>2, RegisterEffect
    <2>8. TypeOK' /\ RunHasTunnel'
      BY <1>1, <1>2, <2>6, <2>7 DEF TypeOK, RunHasTunnel
    <2>9. RouteRest'
      BY <1>1, <1>4, <2>6, RouteEntered
    <2>10. QED
      BY <2>8, <2>9
  <1>5. QED
    BY <1>3, <1>4 DEF EnterRoute

\* The tunnel enters the manager.
LEMMA InsertStep ==
    ASSUME RoutesInv, NEW c \in Controls, InsertTunnel(c)
    PROVE  RoutesInv'
  <1> USE DEF RoutesInv
  <1>1. /\ run[c].pc = "insert" /\ UNCHANGED <<byName, http, https, phase, released>>
        /\ tm' = [tm EXCEPT ![c] = @ \cup {run[c].np}] /\ Goto(c, "loop")
    BY DEF InsertTunnel, tables
  <1>2. /\ run' \in [Controls -> Runs] /\ \A d \in Controls \ {c} : run'[d] = run[d]
        /\ run'[c].pc = "loop"
    BY <1>1, GotoEffect DEF Pcs
  <1>3. run[c].np \in NewTunnels
    BY <1>1, Typed
  <1>4. /\ tm' \in [Controls -> SUBSET NewTunnels] /\ tm'[c] = tm[c] \cup {run[c].np}
        /\ \A d \in Controls \ {c} : tm'[d] = tm[d]
    BY <1>1, <1>3 DEF TypeOK
  <1>5. TypeOK' /\ RunHasTunnel'
    BY <1>1, <1>2, <1>4 DEF TypeOK, RunHasTunnel
  <1>6. RouteRest'
    BY <1>1, <1>2, <1>4, TunnelInserted
  <1>7. QED
    BY <1>5, <1>6

\* A tunnel is closed by shutdown, or dropped with the manager.
LEMMA CloseStep ==
    ASSUME RoutesInv, NEW c \in Controls, CloseOne(c) \/ DropTunnel(c)
    PROVE  RoutesInv'
  <1> USE DEF RoutesInv
  <1>1. UNCHANGED <<byName, run, phase>> \/ UNCHANGED <<byName, run, phase, released>>
    BY DEF CloseOne, DropTunnel
  <1>2. PICK t \in tm[c] :
            /\ tm' = [tm EXCEPT ![c] = @ \ {t}] /\ UnregisterTunnel(t.gw, t.name)
            /\ released' = released \/ released' = [released EXCEPT ![c] = @ \cup {t}]
    BY DEF CloseOne, DropTunnel
  <1>3. t \in NewTunnels /\ t.name \in Names /\ t.gw \in Gws /\ t \in Mine(c)
    BY Typed DEF Mine
  <1>4. /\ tm' \in [Controls -> SUBSET NewTunnels] /\ tm'[c] = tm[c] \ {t}
        /\ \A d \in Controls \ {c} : tm'[d] = tm[d]
    BY <1>2 DEF TypeOK
  <1>5. /\ released' \in [Controls -> SUBSET NewTunnels]
        /\ released[c] \subseteq released'[c] /\ released'[c] \subseteq released[c] \cup {t}
        /\ \A d \in Controls \ {c} : released'[d] = released[d]
    BY <1>2, <1>3 DEF TypeOK
  <1>6. /\ \A u \in tm[c] : u.name = t.name => u = t
        /\ byName[t.name] = c /\ (RunHolds(c) => run[c].np.name # t.name)
    BY <1>3 DEF RouteRest, NamesHeld, Mine
  <1>7. tm'[c] = {u \in tm[c] : u.name # t.name}
    BY <1>4, <1>6
  <1>8. (Owned /\ OneEach /\ Entered)'
    BY <1>1, <1>2, <1>3, <1>4, <1>6, <1>7, RoutesRemoved
  <1>9. NamesHeld'
    <2>1. \A d \in Controls : Mine(d)' \subseteq Mine(d) /\ RunHolds(d)' = RunHolds(d)
      BY <1>1, <1>3, <1>4, <1>5 DEF Mine, RunHolds
    <2>2. \A d \in Controls : tm'[d] \cap released'[d] = {}
      BY <1>4, <1>5 DEF RouteRest, NamesHeld
    <2>3. QED
      BY <1>1, <2>1, <2>2 DEF RouteRest, NamesHeld
  <1>10. TypeOK' /\ RunHasTunnel'
    BY <1>1, <1>2, <1>3, <1>4, <1>5, UnregisterEffect DEF TypeOK, RunHasTunnel
  <1>11. QED
    BY <1>8, <1>9, <1>10 DEF RouteRest

\* Shutdown releases the name of a tunnel it closed.
LEMMA ReleaseOneStep ==
    ASSUME RoutesInv, NEW c \in Controls, ReleaseOne(c)
    PROVE  RoutesInv'
  <1> USE DEF RoutesInv
  <1>1. tm[c] = {} /\ UNCHANGED <<http, https, tm, run, phase>>
    BY DEF ReleaseOne, tables
  <1>2. PICK t \in released[c] :
            Release(c, t.name) /\ released' = [released EXCEPT ![c] = @ \ {t}]
    BY DEF ReleaseOne
  <1>3. t \in NewTunnels /\ t.name \in Names /\ t \in Mine(c)
    BY Typed DEF Mine
  <1>4. /\ byName[t.name] = c /\ (RunHolds(c) => run[c].np.name # t.name)
        /\ \A u \in released[c] : u.name = t.name => u = t
    BY <1>3 DEF RouteRest, NamesHeld, Mine
  <1>5. byName' = [byName EXCEPT ![t.name] = NoControl]
    BY <1>2, <1>4 DEF Release
  <1>6. byName' \in [Names -> Controls \cup {NoControl}]
    BY <1>3, <1>5 DEF TypeOK
  <1>7. /\ released' \in [Controls -> SUBSET NewTunnels] /\ released'[c] = released[c] \ {t}
        /\ \A d \in Controls \ {c} : released'[d] = released[d]
    BY <1>2 DEF TypeOK
  <1>8. TypeOK' /\ RunHasTunnel'
    BY <1>1, <1>6, <1>7 DEF TypeOK, RunHasTunnel
  <1>9. Pending(c) => run[c].np.name # t.name
    BY <1>4 DEF Pending, RunHolds
  <1>10. \A u \in tm[c] \cup released'[c] : u.name # t.name
    BY <1>1, <1>4, <1>7
  <1>11. RouteRest'
    BY <1>1, <1>3, <1>4, <1>5, <1>7, <1>9, <1>10, NameFreed
  <1>12. QED
    BY <1>8, <1>11

\* Steps that leave the tables, the managers and the registry alone.
LEMMA QuietStep ==
    ASSUME RoutesInv, UNCHANGED <<byName, http, https, tm, run, released>>,
           phase' \in [Controls -> {"live", "closing", "cleaned", "dropped"}]
    PROVE  RoutesInv'
  <1>1. TypeOK' /\ RunHasTunnel'
    BY DEF RoutesInv, TypeOK, RunHasTunnel
  <1>2. \A g, h, r : In(g, h, r)' = In(g, h, r) /\ Backed(g, r)' = Backed(g, r)
    BY DEF In, Backed, Pending
  <1>3. \A d : Mine(d)' = Mine(d) /\ RunHolds(d)' = RunHolds(d)
    BY DEF Mine, RunHolds
  <1>4. NamesHeld' /\ Owned' /\ OneEach' /\ Entered'
    BY <1>2, <1>3 DEF RoutesInv, RouteRest, NamesHeld, Owned, OneEach, Entered
  <1>5. QED
    BY <1>1, <1>4 DEF RoutesInv, RouteRest

\* The task leaves its loop.
LEMMA LeaveStep ==
    ASSUME RoutesInv, NEW c \in Controls, LeaveLoop(c)
    PROVE  RoutesInv'
  <1> USE DEF RoutesInv
  <1>1. run[c].pc = "loop" /\ UNCHANGED <<byName, http, https, tm, phase, released>>
    BY DEF LeaveLoop, tables
  <1>2. /\ run' \in [Controls -> Runs] /\ \A d \in Controls \ {c} : run'[d] = run[d]
        /\ run'[c].pc = "exit"
    BY GotoEffect DEF LeaveLoop, Pcs
  <1>3. TypeOK' /\ RunHasTunnel'
    BY <1>1, <1>2 DEF TypeOK, RunHasTunnel
  <1>4. RouteRest'
    BY <1>1, <1>2, RunStep
  <1>5. QED
    BY <1>3, <1>4

\* A shutdown advances, or the Control disappears.
LEMMA PhaseStep ==
    ASSUME RoutesInv, NEW c \in Controls, Shutdown(c) \/ Finished(c) \/ DropControl(c)
    PROVE  RoutesInv'
  <1>1. UNCHANGED <<byName, http, https, tm, run, released>>
    BY DEF Shutdown, Finished, DropControl, tables
  <1>2. phase' \in [Controls -> {"live", "closing", "cleaned", "dropped"}]
    BY DEF Shutdown, Finished, DropControl, RoutesInv, TypeOK
  <1>3. QED
    BY <1>1, <1>2, QuietStep

\* Visitors only read.
LEMMA VisitorStep ==
    ASSUME RoutesInv, NEW v \in Visitors,
           \/ ReadHead(v) \/ Lookup(v) \/ CheckRoute(v) \/ GetDataConn(v)
           \/ StartDataConn(v) \/ VisitEnds(v)
    PROVE  RoutesInv'
  <1>1. UNCHANGED <<byName, http, https, tm, run, released, phase>>
    BY DEF ReadHead, Lookup, CheckRoute, GetDataConn, StartDataConn, VisitEnds, tables
  <1>2. QED
    BY <1>1, QuietStep DEF RoutesInv, TypeOK

\* RoutesInv holds at first.
LEMMA RoutesInit == Init => RoutesInv
  <1> SUFFICES ASSUME Init PROVE RoutesInv
    OBVIOUS
  <1> USE DEF Init
  <1>1. IdleRun \in Runs /\ IdleRun.pc = "loop"
    BY DEF IdleRun, Runs
  <1>2. TypeOK /\ RunHasTunnel
    BY <1>1 DEF TypeOK, RunHasTunnel
  <1>3. \A g \in Gws, h \in Hosts, r \in AnyRoute : ~In(g, h, r)
    BY RouteFields DEF In, Gws
  <1>4. NamesHeld /\ Entered
    BY <1>1 DEF NamesHeld, Entered, Mine, RunHolds
  <1>5. QED
    BY <1>2, <1>3, <1>4 DEF RoutesInv, RouteRest, Owned, OneEach

\* Every step preserves RoutesInv.
LEMMA RoutesStep == RoutesInv /\ [Next]_vars => RoutesInv'
  <1> SUFFICES ASSUME RoutesInv, [Next]_vars PROVE RoutesInv'
    OBVIOUS
  <1>1. CASE UNCHANGED vars
    BY <1>1, QuietStep DEF vars, RoutesInv, TypeOK
  <1>2. ASSUME NEW c \in Controls, NEW np \in NewTunnels,
               HandleNewTunnel(c, np) \/ HandleCloseTunnel(c, np)
        PROVE  RoutesInv'
    BY <1>2, RequestStep
  <1>3. ASSUME NEW c \in Controls,
               \/ DetachTunnel(c) \/ ReleaseName(c) \/ ClaimName(c) \/ ClearOld(c)
               \/ EnterRoute(c) \/ UndoRoutes(c) \/ GiveUp(c) \/ InsertTunnel(c)
               \/ LeaveLoop(c) \/ Shutdown(c) \/ CloseOne(c) \/ ReleaseOne(c) \/ Finished(c)
               \/ DropControl(c) \/ DropTunnel(c)
        PROVE  RoutesInv'
    BY <1>3, DetachStep, ReleaseStep, ClaimStep, OwnRoutesStep, EnterStep, InsertStep,
       CloseStep, ReleaseOneStep, LeaveStep, PhaseStep
  <1>4. QED
    BY <1>1, <1>2, <1>3, VisitorStep DEF Next

\* The tables hold routes of tunnels that are registered or being registered, each under
\* the name its session owns in the TunnelRegistry: unregister_tunnel, which goes by name
\* alone, never removes the route of another session, and a registration that failed half
\* way leaves nothing behind.
THEOREM RoutesAlwaysFollow == Spec => []RoutesFollowTunnels
  <1>1. RoutesInv => RoutesFollowTunnels
    <2> SUFFICES ASSUME RoutesInv PROVE RoutesFollowTunnels
      OBVIOUS
    <2> USE DEF RoutesInv, RouteRest
    <2>1. ASSUME NEW h \in Hosts, NEW r \in http[h]
          PROVE  byName[r.name] = r.ctl /\ Backed("http", r)
      <3>1. In("http", h, r) /\ r \in AnyRoute
        BY DEF In, TypeOK, AnyRoute
      <3>2. QED
        BY <3>1 DEF Owned, Gws
    <2>2. ASSUME NEW h \in Hosts, https[h] # NoRoute
          PROVE  byName[https[h].name] = https[h].ctl /\ Backed("https", https[h])
      <3>1. In("https", h, https[h]) /\ https[h] \in AnyRoute
        BY <2>2 DEF In, TypeOK, AnyRoute
      <3>2. QED
        BY <3>1 DEF Owned, Gws
    <2>3. QED
      BY <2>1, <2>2 DEF RoutesFollowTunnels, RouteHasOwner, NoOrphanRoutes, Backed
  <1>2. QED
    BY <1>1, RoutesInit, RoutesStep, PTL DEF Spec

-----------------------------------------------------------------------------
(* Lookups.                                                                *)

\* A set of numbers that is not empty has a least one.
LEMMA LeastNat ==
    ASSUME NEW T \in SUBSET Nat, T # {}
    PROVE  \E x \in T : \A y \in T : x <= y
  <1>1. PICK x \in T : \A y \in T : ~(<<y, x>> \in OpToRel(<, Nat))
    BY WFMin, NatLessThanWellFounded
  <1>2. \A y \in T : ~(y < x)
    BY <1>1 DEF OpToRel
  <1>3. QED
    BY <1>2

\* And a greatest one, when it is bounded.
LEMMA GreatestNat ==
    ASSUME NEW T \in SUBSET Nat, T # {}, NEW b \in Nat, \A x \in T : x <= b
    PROVE  \E x \in T : \A y \in T : y <= x
  <1> DEFINE U == {z \in Nat : \E x \in T : z = b - x}
  <1>1. PICK x0 \in T : TRUE
    OBVIOUS
  <1>2. U \in SUBSET Nat
    OBVIOUS
  <1>3. b - x0 \in U
    BY <1>1
  <1>4. PICK u \in U : \A w \in U : u <= w
    BY <1>2, <1>3, LeastNat
  <1>5. PICK x \in T : u = b - x
    BY <1>4
  <1>6. \A y \in T : b - y \in U
    OBVIOUS
  <1>7. \A y \in T : y <= x
    BY <1>4, <1>5, <1>6
  <1>8. QED
    BY <1>7

\* A prefix has the elements of the whole.
LEMMA PrefixElements ==
    ASSUME NEW a \in Seq(Nat), NEW path \in Seq(Nat), IsPrefix(a, path)
    PROVE  Len(a) <= Len(path) /\ \A i \in 1..Len(a) : a[i] = path[i]
  <1>1. Len(a) <= Len(path) /\ SubSeq(a, 1, Len(a)) = SubSeq(path, 1, Len(a))
    BY DEF IsPrefix
  <1>2. ASSUME NEW i \in 1..Len(a) PROVE a[i] = path[i]
    <2>1. SubSeq(a, 1, Len(a))[i] = a[i]
      OBVIOUS
    <2>2. SubSeq(path, 1, Len(a))[i] = path[i]
      BY <1>1
    <2>3. QED
      BY <1>1, <2>1, <2>2
  <1>3. QED
    BY <1>1, <1>2

\* Among the prefixes of one path the order of str::cmp is that of the lengths.
LEMMA PrefixOrder ==
    ASSUME NEW a \in Seq(Nat), NEW b \in Seq(Nat), NEW path \in Seq(Nat),
           IsPrefix(a, path), IsPrefix(b, path)
    PROVE  /\ Less(a, b) <=> Len(a) < Len(b)
           /\ Len(a) = Len(b) => a = b
  <1>1. /\ \A i \in 1..Len(a) : a[i] = path[i]
        /\ \A i \in 1..Len(b) : b[i] = path[i]
    BY PrefixElements
  <1>2. Len(a) \in Nat /\ Len(b) \in Nat
    OBVIOUS
  <1>3. ASSUME Less(a, b) PROVE Len(a) < Len(b)
    <2>1. PICK k \in 0..Len(a) : /\ k < Len(b)
                                 /\ k = Len(a) \/ (k < Len(a) /\ a[k + 1] < b[k + 1])
      BY <1>3 DEF Less
    <2>2. CASE k = Len(a)
      BY <2>1, <2>2
    <2>3. CASE k < Len(a) /\ a[k + 1] < b[k + 1]
      <3>1. k + 1 \in 1..Len(a) /\ k + 1 \in 1..Len(b)
        BY <1>2, <2>1, <2>3
      <3>2. a[k + 1] = b[k + 1] /\ a[k + 1] \in Nat
        BY <1>1, <3>1
      <3>3. QED
        BY <2>3, <3>2
    <2>4. QED
      BY <2>1, <2>2, <2>3
  <1>4. ASSUME Len(a) < Len(b) PROVE Less(a, b)
    <2>1. \A i \in 1..Len(a) : i <= Len(b) /\ a[i] = b[i]
      BY <1>1, <1>2, <1>4
    <2>2. Len(a) \in 0..Len(a)
      BY <1>2
    <2>3. \E k \in 0..Len(a) : /\ \A i \in 1..k : i <= Len(b) /\ a[i] = b[i]
                               /\ k < Len(b) /\ k = Len(a)
      BY <1>4, <2>1, <2>2
    <2>4. QED
      BY <2>3 DEF Less
  <1>5. ASSUME Len(a) = Len(b) PROVE a = b
    <2>1. \A i \in 1..Len(a) : a[i] = b[i]
      BY <1>1, <1>5
    <2>2. QED
      BY <1>5, <2>1, SeqEqual
  <1>6. QED
    BY <1>3, <1>4, <1>5

\* Locations are sequences.
LEMMA HttpLocations == Locations \subseteq Seq(Nat) /\ \A r \in HttpRoutes : r.loc \in Seq(Nat)
  <1>1. <<>> \in Seq(Nat)
    OBVIOUS
  <1>2. \A x \in UNION {np.locs : np \in NewTunnels} : x \in Seq(Nat)
    BY GatewayAssumptions
  <1>3. Locations \subseteq Seq(Nat)
    BY <1>1, <1>2 DEF Locations
  <1>4. QED
    BY <1>3, RouteFields

\* What MatchLocation chooses: a matching route with a location no shorter than that of
\* any other.
LEMMA MatchBest ==
    ASSUME TypeOK, NEW h \in Hosts, NEW path \in Seq(Nat), NEW r \in http[h],
           IsPrefix(r.loc, path)
    PROVE  /\ MatchLocation(h, path) \in http[h]
           /\ IsPrefix(MatchLocation(h, path).loc, path)
           /\ \A s \in http[h] : IsPrefix(s.loc, path) => Len(s.loc) <= Len(MatchLocation(h, path).loc)
  <1> DEFINE match == {s \in http[h] : IsPrefix(s.loc, path)}
             lens == {n \in Nat : \E s \in match : n = Len(s.loc)}
             best == CHOOSE s \in match : \A u \in match : ~Less(s.loc, u.loc)
  <1>1. \A s \in match : s.loc \in Seq(Nat)
    <2>1. \A s \in match : s \in HttpRoutes
      BY DEF TypeOK
    <2>2. QED
      BY <2>1, HttpLocations
  <1>2. \A s, u \in match : Less(s.loc, u.loc) <=> Len(s.loc) < Len(u.loc)
    BY <1>1, PrefixOrder
  <1>3. \A s \in match : Len(s.loc) \in Nat /\ Len(s.loc) <= Len(path)
    BY <1>1, PrefixElements
  <1>4. r \in match
    OBVIOUS
  <1>5. MatchLocation(h, path) = best
    BY <1>4 DEF MatchLocation
  <1>6. PICK m \in lens : \A n \in lens : n <= m
    <2>1. lens \in SUBSET Nat /\ Len(r.loc) \in lens /\ Len(path) \in Nat
      BY <1>3, <1>4
    <2>2. \A n \in lens : n <= Len(path)
      BY <1>3
    <2> HIDE DEF lens
    <2>3. QED
      BY <2>1, <2>2, GreatestNat
  <1>7. PICK s \in match : m = Len(s.loc)
    BY <1>6
  <1>8. \A u \in match : ~Less(s.loc, u.loc)
    BY <1>2, <1>3, <1>6, <1>7
  <1>9. best \in match /\ \A u \in match : ~Less(best.loc, u.loc)
    <2> HIDE DEF match
    <2>1. QED
      BY <1>7, <1>8
  <1>10. \A u \in match : Len(u.loc) <= Len(best.loc)
    <2> HIDE DEF match, best
    <2>1. QED
      BY <1>2, <1>3, <1>9
  <1>11. QED
    BY <1>5, <1>9, <1>10

\* A tunnel's route is in the table of its gateway, and locations are sequences.
LEMMA TunnelRoute ==
    ASSUME RoutesInv, NEW c \in Controls, NEW t \in tm[c], NEW p \in Pairs(t)
    PROVE  /\ p[1] \in Hosts /\ p[2] \in Seq(Nat) /\ t.gw \in Gws
           /\ t.gw = "http" => /\ HttpRoute(c, t, p[2]) \in http[p[1]]
                               /\ HttpRoute(c, t, p[2]) \in HttpRoutes
                               /\ HttpRoute(c, t, p[2]).loc = p[2]
           /\ t.gw # "http" => /\ https[p[1]] = HttpsRoute(c, t)
                               /\ HttpsRoute(c, t) # NoRoute
  <1> USE DEF RoutesInv, RouteRest
  <1>1. t \in NewTunnels /\ t.gw \in Gws /\ DomainsOK(t)
    BY Typed DEF Entered
  <1>2. p \in Hosts \X Locations
    BY <1>1, PairsTyped
  <1>3. p[1] \in Hosts /\ p[2] \in Locations
    BY <1>2
  <1>4. Locations \subseteq Seq(Nat)
    BY HttpLocations
  <1>5. In(t.gw, p[1], RouteOf(c, t, p))
    BY DEF Entered
  <1>6. t.gw = "http" => RouteOf(c, t, p) = HttpRoute(c, t, p[2])
    BY DEF RouteOf
  <1>7. t.gw # "http" => RouteOf(c, t, p) = HttpsRoute(c, t)
    BY DEF RouteOf
  <1>8. QED
    BY <1>1, <1>2, <1>3, <1>4, <1>5, <1>6, <1>7, RouteOfFields DEF In

\* The lookup of a registered domain and location gives the tunnel's own route.
LEMMA ServesOwn == RoutesInv => RegisteredServes
  <1> SUFFICES ASSUME RoutesInv, NEW c \in Controls, NEW t \in tm[c], NEW p \in Pairs(t)
               PROVE  IF t.gw = "http" THEN MatchLocation(p[1], p[2]) = HttpRoute(c, t, p[2])
                      ELSE HttpsMatch(p[1]) = HttpsRoute(c, t)
    BY DEF RegisteredServes
  <1> USE DEF RoutesInv, RouteRest
  <1> DEFINE r == HttpRoute(c, t, p[2])
             best == MatchLocation(p[1], p[2])
  <1>1. CASE t.gw = "http"
    <2>1. p[1] \in Hosts /\ p[2] \in Seq(Nat) /\ r \in http[p[1]] /\ r.loc = p[2] /\ r \in HttpRoutes
      BY <1>1, TunnelRoute
    <2>2. IsPrefix(p[2], p[2])
      BY <2>1 DEF IsPrefix
    <2>3. best \in http[p[1]] /\ IsPrefix(best.loc, p[2]) /\ Len(p[2]) <= Len(best.loc)
      <3> HIDE DEF r
      <3>1. QED
        BY <2>1, <2>2, MatchBest
    <2>4. best \in HttpRoutes
      BY <2>1, <2>3 DEF TypeOK
    <2>5. best.loc \in Seq(Nat)
      BY <2>4, HttpLocations
    <2>6. Len(best.loc) = Len(p[2])
      <3> HIDE DEF best
      <3>1. QED
        BY <2>1, <2>3, <2>5, PrefixElements
    <2>7. best.loc = p[2]
      <3> HIDE DEF best
      <3>1. QED
        BY <2>1, <2>2, <2>3, <2>5, <2>6, PrefixOrder
    <2>8. In("http", p[1], best) /\ In("http", p[1], r) /\ best \in AnyRoute /\ r \in AnyRoute
      BY <2>1, <2>3, <2>4 DEF In, AnyRoute
    <2>9. best = r
      <3> HIDE DEF best, r
      <3>1. QED
        BY <2>1, <2>7, <2>8 DEF OneEach, Gws
    <2>10. QED
      BY <1>1, <2>9
  <1>2. CASE t.gw # "http"
    BY <1>2, TunnelRoute DEF HttpsMatch
  <1>3. QED
    BY <1>1, <1>2

\* Among several the longest location.
LEMMA MatchesLongest == TypeOK => LongestMatch
  <1> SUFFICES ASSUME TypeOK, NEW h \in Hosts, NEW head \in Heads, NEW r \in http[h],
                      IsPrefix(r.loc, head.path)
               PROVE  /\ MatchLocation(h, head.path) # NoRoute
                      /\ Len(r.loc) <= Len(MatchLocation(h, head.path).loc)
    BY DEF LongestMatch
  <1>1. head.path \in Seq(Nat)
    BY GatewayAssumptions
  <1>2. /\ MatchLocation(h, head.path) \in http[h]
        /\ Len(r.loc) <= Len(MatchLocation(h, head.path).loc)
    BY <1>1, MatchBest
  <1>3. MatchLocation(h, head.path) \in AnyRoute
    BY <1>2 DEF TypeOK, AnyRoute
  <1>4. QED
    BY <1>2, <1>3, RouteFields

\* Every lookup is right: a registered tunnel is found under each of its domains and
\* locations, and the first match of the sorted list is the longest one.
THEOREM LookupsAreRight == Spec => []LookupIsRight
  <1>1. RoutesInv => LookupIsRight
    BY ServesOwn, MatchesLongest DEF LookupIsRight, RoutesInv
  <1>2. QED
    BY <1>1, RoutesInit, RoutesStep, PTL DEF Spec

-----------------------------------------------------------------------------
(* Visitors that are turned away.                                          *)

\* The sequence ls up to its last element other than e, and that this is the whole of
\* what it leaves.
Cut(ls, e) ==
    LET keep == {i \in 1..Len(ls) : ls[i] # e}
    IN  SubSeq(ls, 1, IF keep = {} THEN 0 ELSE CHOOSE i \in keep : \A j \in keep : j <= i)

LEMMA CutTwice ==
    ASSUME NEW S, NEW e, NEW ls \in Seq(S)
    PROVE  Cut(Cut(ls, e), e) = Cut(ls, e)
  <1> DEFINE Kept(s) == {i \in 1..Len(s) : s[i] # e}
             keep == Kept(ls)
  <1>1. CASE keep = {}
    <2>1. Cut(ls, e) = SubSeq(ls, 1, 0)
      BY <1>1 DEF Cut
    <2>2. SubSeq(ls, 1, 0) = <<>>
      OBVIOUS
    <2>3. Kept(<<>>) = {}
      OBVIOUS
    <2>4. Cut(<<>>, e) = SubSeq(<<>>, 1, 0)
      BY <2>3 DEF Cut
    <2>5. SubSeq(<<>>, 1, 0) = <<>>
      OBVIOUS
    <2>6. QED
      BY <2>1, <2>2, <2>4, <2>5
  <1>2. CASE keep # {}
    <2> DEFINE m == CHOOSE i \in keep : \A j \in keep : j <= i
               s == SubSeq(ls, 1, m)
    <2>1. keep \in SUBSET Nat /\ Len(ls) \in Nat /\ \A i \in keep : i <= Len(ls)
      OBVIOUS
    <2>2. Cut(ls, e) = s
      BY <1>2 DEF Cut
    <2>3. m \in keep
      <3> HIDE DEF keep
      <3>1. \E i \in keep : \A j \in keep : j <= i
        BY <1>2, <2>1, GreatestNat
      <3>2. QED
        BY <3>1
    <2> HIDE DEF m
    <2>4. m \in 1..Len(ls) /\ m \in Nat /\ ls[m] # e
      BY <2>3
    <2>5. s \in Seq(S) /\ Len(s) = m /\ s[m] = ls[m]
      BY <2>4
    <2> HIDE DEF s
    <2>6. m \in Kept(s) /\ \A j \in Kept(s) : j \in Nat /\ j <= m
      BY <2>4, <2>5
    <2>7. (CHOOSE i \in Kept(s) : \A j \in Kept(s) : j <= i) = m
      <3> HIDE DEF Kept
      <3>1. \A i \in Kept(s) : (\A j \in Kept(s) : j <= i) => i = m
        BY <2>4, <2>6
      <3>2. QED
        BY <2>6, <3>1
    <2>8. Cut(s, e) = SubSeq(s, 1, m)
      BY <2>6, <2>7 DEF Cut
    <2>9. SubSeq(s, 1, m) = s
      BY <2>5
    <2>10. QED
      BY <2>2, <2>8, <2>9
  <1>3. QED
    BY <1>1, <1>2

\* normalize_host leaves a normalized host alone: no label is lost when the lookup
\* normalizes what the head's reader has normalized already.
LEMMA NormalizeTwice ==
    ASSUME NEW t, t.labels \in Seq(STRING)
    PROVE  NormalizeHost(Plain(NormalizeHost(t))) = NormalizeHost(t)
  <1>1. NormalizeHost(t) = Cut(t.labels, "")
    BY DEF NormalizeHost, Cut
  <1>2. NormalizeHost(Plain(Cut(t.labels, ""))) = Cut(Cut(t.labels, ""), "")
    <2>1. Plain(Cut(t.labels, "")).labels = Cut(t.labels, "")
      BY DEF Plain
    <2>2. \A u : NormalizeHost(u) = Cut(u.labels, "")
      BY DEF NormalizeHost, Cut
    <2>3. QED
      BY <2>1, <2>2
  <1>3. QED
    BY <1>1, <1>2, CutTwice

\* A visitor that moves to p, other than to the lookup, has nothing to be looked up.
LEMMA VisitMoves ==
    ASSUME VisitOK, NEW v \in Visitors, NEW w, visit' = [visit EXCEPT ![v] = w],
           "pc" \in DOMAIN w,
           w.pc = "lookup" => w.path \in Seq(Nat) /\ NormalizeHost(Plain(w.host)) = w.host
    PROVE  VisitOK'
  <1>1. visit'[v] = w /\ DOMAIN visit' = Visitors /\ \A u \in Visitors \ {v} : visit'[u] = visit[u]
    BY DEF VisitOK
  <1>2. QED
    BY <1>1 DEF VisitOK, LookupHost

\* Arrive sets the visitor's pc.
LEMMA ArriveAt ==
    ASSUME NEW v, NEW p
    PROVE  Arrive(v, p).pc = p /\ "pc" \in DOMAIN Arrive(v, p)
  BY DEF Arrive, NoVisit

\* The sessions leave the visitors alone.
LEMMA SessionsKeepVisits ==
    ASSUME Next
    PROVE  \/ UNCHANGED visit
           \/ \E v \in Visitors : \/ ReadHead(v) \/ Lookup(v) \/ CheckRoute(v) \/ GetDataConn(v)
                                 \/ StartDataConn(v) \/ VisitEnds(v)
  <1>1. ASSUME NEW c \in Controls, NEW np \in NewTunnels,
               HandleNewTunnel(c, np) \/ HandleCloseTunnel(c, np)
        PROVE  UNCHANGED visit
    BY <1>1 DEF HandleNewTunnel, HandleCloseTunnel
  <1>2. ASSUME NEW c \in Controls,
               \/ DetachTunnel(c) \/ ReleaseName(c) \/ ClaimName(c) \/ ClearOld(c)
               \/ EnterRoute(c) \/ UndoRoutes(c) \/ GiveUp(c) \/ InsertTunnel(c)
               \/ LeaveLoop(c) \/ Shutdown(c) \/ CloseOne(c) \/ ReleaseOne(c) \/ Finished(c)
               \/ DropControl(c) \/ DropTunnel(c)
        PROVE  UNCHANGED visit
    BY <1>2 DEF DetachTunnel, ReleaseName, ClaimName, ClearOld, EnterRoute, UndoRoutes, GiveUp,
       InsertTunnel, LeaveLoop, Shutdown, CloseOne, ReleaseOne, Finished, DropControl, DropTunnel
  <1>3. QED
    BY <1>1, <1>2 DEF Next

\* VisitOK is an invariant.
LEMMA VisitStep == VisitOK /\ [Next]_vars => VisitOK'
  <1> SUFFICES ASSUME VisitOK, [Next]_vars PROVE VisitOK'
    OBVIOUS
  <1>1. CASE UNCHANGED visit
    BY <1>1 DEF VisitOK, LookupHost
  <1>2. ASSUME NEW v \in Visitors, ReadHead(v) PROVE VisitOK'
    <2>1. CASE visit' = [visit EXCEPT ![v] = Arrive(v, "dropped")]
      BY <2>1, VisitMoves, ArriveAt
    <2>2. ASSUME NEW head \in Heads, RequestHost(head) # NoText,
                 visit' = [visit EXCEPT ![v] =
                    [pc |-> "lookup", gw |-> head.gw,
                     host |-> NormalizeHost(RequestHost(head)),
                     path |-> RequestPath(head), proxy |-> IsProxyRequest(head),
                     cred |-> IF IsProxyRequest(head) THEN head.proxyAuth ELSE head.auth,
                     hostLine |-> head.hostLine, route |-> NoRoute]]
          PROVE  VisitOK'
      <3>1. RequestHost(head).labels \in Seq(STRING)
        BY <2>2, GatewayAssumptions DEF RequestHost
      <3>2. RequestPath(head) \in Seq(Nat)
        BY GatewayAssumptions DEF RequestPath
      <3>3. NormalizeHost(Plain(NormalizeHost(RequestHost(head)))) = NormalizeHost(RequestHost(head))
        BY <3>1, NormalizeTwice
      <3> DEFINE w == [pc |-> "lookup", gw |-> head.gw,
                     host |-> NormalizeHost(RequestHost(head)),
                     path |-> RequestPath(head), proxy |-> IsProxyRequest(head),
                     cred |-> IF IsProxyRequest(head) THEN head.proxyAuth ELSE head.auth,
                     hostLine |-> head.hostLine, route |-> NoRoute]
      <3>4. "pc" \in DOMAIN w /\ w.path \in Seq(Nat) /\ NormalizeHost(Plain(w.host)) = w.host
        BY <3>2, <3>3
      <3>5. visit' = [visit EXCEPT ![v] = w]
        BY <2>2
      <3> HIDE DEF w
      <3>6. QED
        BY <3>4, <3>5, VisitMoves
    <2>3. QED
      BY <1>2, <2>1, <2>2 DEF ReadHead
  <1>3. ASSUME NEW v \in Visitors, Lookup(v) PROVE VisitOK'
    <2>1. PICK r : visit' = [visit EXCEPT ![v] =
                        IF r # NoRoute THEN [visit[v] EXCEPT !.pc = "check", !.route = r]
                        ELSE Arrive(v, IF visit[v].gw = "http" THEN "404" ELSE "dropped")]
      BY <1>3 DEF Lookup
    <2>2. CASE r # NoRoute
      <3>1. /\ [visit[v] EXCEPT !.pc = "check", !.route = r].pc = "check"
            /\ "pc" \in DOMAIN [visit[v] EXCEPT !.pc = "check", !.route = r]
        BY DEF VisitOK
      <3>2. visit' = [visit EXCEPT ![v] = [visit[v] EXCEPT !.pc = "check", !.route = r]]
        BY <2>1, <2>2
      <3>3. QED
        BY <3>1, <3>2, VisitMoves
    <2>3. CASE r = NoRoute
      <3>1. PICK p \in {"404", "dropped"} : visit' = [visit EXCEPT ![v] = Arrive(v, p)]
        BY <2>1, <2>3
      <3>2. QED
        BY <3>1, VisitMoves, ArriveAt
    <2>4. QED
      BY <2>2, <2>3
  <1>4. ASSUME NEW v \in Visitors, CheckRoute(v) \/ GetDataConn(v) \/ StartDataConn(v)
        PROVE  VisitOK'
    <2>1. PICK p \in {"401", "404", "407", "502", "dropped", "getData", "start", "joined"} :
              visit' = [visit EXCEPT ![v] = Arrive(v, p)]
      <3>1. CASE CheckRoute(v)
        BY <3>1 DEF CheckRoute
      <3>2. CASE GetDataConn(v) \/ StartDataConn(v)
        BY <3>2 DEF GetDataConn, StartDataConn
      <3>3. QED
        BY <1>4, <3>1, <3>2
    <2>2. QED
      BY <2>1, VisitMoves, ArriveAt
  <1>5. ASSUME NEW v \in Visitors, VisitEnds(v) PROVE VisitOK'
    <2>1. visit' = [visit EXCEPT ![v] = NoVisit] /\ NoVisit.pc = "idle" /\ "pc" \in DOMAIN NoVisit
      BY <1>5 DEF VisitEnds, NoVisit
    <2>2. QED
      BY <2>1, VisitMoves
  <1>6. QED
    BY <1>1, <1>2, <1>3, <1>4, <1>5, SessionsKeepVisits DEF vars

\* A lookup that finds nothing, of a visitor no tunnel covers.
LEMMA LookupMisses ==
    ASSUME RoutesInv, VisitOK, NEW v \in Visitors, visit[v].pc = "lookup", Lookup(v),
           visit'[v].pc \in {"404", "dropped"},
           NEW c \in Controls, NEW t \in tm[c]
    PROVE  ~Covers(t, visit[v].gw, visit[v].host, visit[v].path)
  <1> SUFFICES ASSUME Covers(t, visit[v].gw, visit[v].host, visit[v].path) PROVE FALSE
    OBVIOUS
  <1> DEFINE r == IF visit[v].gw = "http" THEN MatchLocation(LookupHost(v), visit[v].path)
                  ELSE HttpsMatch(LookupHost(v))
  <1>1. PICK p \in Pairs(t) : p[1] = visit[v].host /\ IsPrefix(p[2], visit[v].path) /\ t.gw = visit[v].gw
    BY DEF Covers
  <1>2. LookupHost(v) = visit[v].host /\ visit[v].path \in Seq(Nat)
    BY DEF VisitOK
  <1>3. r # NoRoute
    <2>1. CASE t.gw = "http"
      <3>1. /\ visit[v].host \in Hosts /\ HttpRoute(c, t, p[2]) \in http[visit[v].host]
            /\ HttpRoute(c, t, p[2]).loc = p[2]
        BY <1>1, <2>1, TunnelRoute
      <3>2. MatchLocation(visit[v].host, visit[v].path) \in http[visit[v].host]
        BY <1>1, <1>2, <3>1, MatchBest DEF RoutesInv
      <3>3. MatchLocation(visit[v].host, visit[v].path) \in AnyRoute
        BY <3>1, <3>2 DEF RoutesInv, TypeOK, AnyRoute
      <3>4. QED
        BY <1>1, <1>2, <2>1, <3>3, RouteFields
    <2>2. CASE t.gw # "http"
      BY <1>1, <1>2, <2>2, TunnelRoute DEF HttpsMatch
    <2>3. QED
      BY <2>1, <2>2
  <1>4. visit' = [visit EXCEPT ![v] = [visit[v] EXCEPT !.pc = "check", !.route = r]]
    BY <1>3 DEF Lookup
  <1> HIDE DEF r
  <1>5. visit'[v].pc = "check"
    BY <1>4 DEF VisitOK
  <1>6. QED
    BY <1>5

\* A visitor is turned away for want of a route only when no tunnel of any session is
\* registered for its host and path at that moment.
THEOREM TurnedAwayIsRight == Spec => NotFoundIsTrue
  <1>1. Init => VisitOK
    BY DEF Init, VisitOK, NoVisit
  <1>2. RoutesInv /\ VisitOK /\ [Next]_vars =>
            [\A v \in Visitors :
                visit[v].pc = "lookup" /\ visit'[v].pc \in {"404", "dropped"} =>
                    \A c \in Controls : \A t \in tm[c] :
                        ~Covers(t, visit[v].gw, visit[v].host, visit[v].path)]_vars
    <2> SUFFICES ASSUME RoutesInv, VisitOK, Next, NEW v \in Visitors, visit[v].pc = "lookup",
                        visit'[v].pc \in {"404", "dropped"}
                 PROVE  \A c \in Controls : \A t \in tm[c] :
                            ~Covers(t, visit[v].gw, visit[v].host, visit[v].path)
      OBVIOUS
    <2>1. visit'[v] # visit[v]
      OBVIOUS
    <2>2. \E u \in Visitors : \/ ReadHead(u) \/ Lookup(u) \/ CheckRoute(u) \/ GetDataConn(u)
                              \/ StartDataConn(u) \/ VisitEnds(u)
      BY <2>1, SessionsKeepVisits
    <2>3. ASSUME NEW u \in Visitors,
                 \/ ReadHead(u) \/ Lookup(u) \/ CheckRoute(u) \/ GetDataConn(u)
                 \/ StartDataConn(u) \/ VisitEnds(u)
          PROVE  Lookup(v)
      <3>1. \E w : visit' = [visit EXCEPT ![u] = w]
        BY <2>3 DEF ReadHead, Lookup, CheckRoute, GetDataConn, StartDataConn, VisitEnds
      <3>2. u = v
        BY <2>1, <3>1 DEF VisitOK
      <3>3. QED
        BY <2>3, <3>2 DEF ReadHead, CheckRoute, GetDataConn, StartDataConn, VisitEnds
    <2>4. QED
      BY <2>2, <2>3, LookupMisses
  <1>3. QED
    BY <1>1, <1>2, RoutesInit, RoutesStep, VisitStep, PTL DEF Spec, NotFoundIsTrue
=============================================================================
