----------------------------- MODULE RipInvariant -----------------------------
(***************************************************************************)
(* Why the routes are right as long as no link gets more expensive: the    *)
(* inductive invariants behind the safety properties of Rip, and what they *)
(* take for granted of the links.                                          *)
(***************************************************************************)
EXTENDS Rip

\* Links as table_init takes them in: no router is its own neighbour, and no link
\* costs nothing.
IsLinks(links) ==
  /\ \A a, b \in Routers : links[a][b] \in Int \ {0}
  /\ \A a \in Routers : links[a][a] < 0

\* Links that cost the same from both ends.
TwoWay(links) == \A a, b \in Routers : links[a][b] = links[b][a]

\* Dist bounds every way along the links from below, and no link is longer than
\* the shortest way between its ends.
Metric(links) ==
  /\ \A a, b \in Routers : Dist(links)[a][b] \in Int
  /\ \A a, b, d \in Routers :
       links[a][b] > 0 => Dist(links)[a][d] <= links[a][b] + Dist(links)[b][d]
  /\ \A a \in Routers : Dist(links)[a][a] = 0
  /\ \A a, b \in Routers : links[a][b] > 0 => Dist(links)[a][b] = links[a][b]

\* The links after an update at one of the two ends, and one that lowers a cost.
Changed(links, c) == [links EXCEPT ![c[1]][c[2]] = LinkCost(c[3])]

Lowers(links, c) ==
  /\ LinkCost(c[3]) > 0
  /\ LinkCost(c[3]) <= links[c[1]][c[2]]
  /\ \A a, b \in Routers : Dist(Changed(links, c))[a][b] <= Dist(links)[a][b]

\* The links of a topology file, as table_init takes them in.
LinksOf(conf) == [r \in Routers |-> [n \in Routers |-> NeighborInit(r, conf[r])[n]]]

\* The case the theorems are about: the links are always among L, whose links are
\* no detours; the agent resets no router, and if it gives updates they lower the
\* costs, and it is patient.
CalmLinks(L) ==
  /\ "reset" \notin Commands
  /\ "update" \in Commands => Patient
  /\ \A conf \in Confs : LinksOf(conf) \in L /\ TwoWay(LinksOf(conf))
  /\ \A links \in L :
       /\ IsLinks(links) /\ Metric(links)
       /\ "update" \in Commands =>
            \A c \in Changes : Changed(links, c) \in L /\ Lowers(links, c)

\* Routers without a link have a neighbour in common on a shortest way, and all
\* first steps of shortest ways are such neighbours.
ShortestInTwo(links) ==
  \A r, d \in Routers : r # d /\ links[r][d] < 0 =>
    /\ \E n \in Routers : /\ links[r][n] > 0 /\ links[n][d] > 0
                          /\ Dist(links)[r][d] = links[r][n] + links[n][d]
    /\ \A n \in Routers :
         links[r][n] > 0 /\ Dist(links)[r][d] = links[r][n] + Dist(links)[n][d]
           => links[n][d] > 0

\* A router that has no link to another one has only neighbours that do.
NeighborsSuffice(links) ==
  \A r, n, d \in Routers :
    r # d /\ links[r][d] < 0 /\ links[r][n] > 0 => links[n][d] > 0

-----------------------------------------------------------------------------

\* What the rows of router r say, in its own table or on the way to a neighbour:
\* the route over each link is the link itself, and no route is shorter than the
\* link it begins with and the shortest way from there.
RoutesOf(links, r, rows) ==
  /\ \A d \in Routers : rows[d].dest = d
  /\ rows[r].next = r /\ rows[r].cost = 0
  /\ \A n \in Routers :
       links[r][n] > 0 => rows[n].next = n /\ rows[n].cost = links[r][n]
  /\ \A d \in Routers \ {r} : Usable(rows[d]) =>
       /\ rows[d].next \in Routers /\ links[r][rows[d].next] > 0
       /\ rows[d].cost >= links[r][rows[d].next] + Dist(links)[rows[d].next][d]

\* Only neighbours tell a router their tables, and nobody changes a link.
MessageFits(links, r, m) ==
  /\ m.type \in {"DV", "SHOW", "RTR"}
  /\ m.type = "RTR" => links[r][m.id] > 0 /\ RoutesOf(links, m.id, m.rows)

MessagesFit(links, q) == \A r \in Routers : \A m \in Sent(q[r]) : MessageFits(links, r, m)

\* The routers tell each other their tables: the links stay what they are.
Exchanging ==
  TwoWay(Links) /\ MessagesFit(Links, pending) /\ MessagesFit(Links, waiting)

\* The agent gives updates: no table is on its way.
UpdateFits(r, m) == m = Show \/ \E c \in Changes : c[1] = r /\ m = Update(c[2], c[3])

UpdatesFit(q) == \A r \in Routers : \A m \in Sent(q[r]) : UpdateFits(r, m)

Updating ==
  /\ "update" \in Commands
  /\ agentPc # "dv" /\ ~advertised
  /\ UpdatesFit(pending) /\ UpdatesFit(waiting)

\* Inductive with TypeOK when CalmLinks(L).
RoutesInv(L) ==
  /\ Links \in L
  /\ \A r \in Routers : up[r] /\ RoutesOf(Links, r, table[r])
  /\ Exchanging \/ Updating

\* Router n has been sent dv since the last update.
Asked(n) == advertised \/ (agentPc = "dv" /\ n < target)

\* Router r has, or is about to get, the routes that lead over its neighbour n to
\* n's neighbours and are shortest ones.
Told(n, r) ==
  \/ \E m \in Sent(pending[r]) \cup Sent(waiting[r]) : m.type = "RTR" /\ m.id = n
  \/ \A d \in Routers \ {r} :
       /\ Links[r][d] < 0 /\ Links[n][d] > 0
       /\ Links[r][n] + Links[n][d] = Dist(Links)[r][d]
       => table[r][d].cost = Dist(Links)[r][d]

\* Inductive with TypeOK and RoutesInv(L) when links in L are ShortestInTwo.
ToldInv ==
  overwritten = 0 =>
    \A n \in Routers : Asked(n) =>
      \/ Dv \in Sent(pending[n]) \cup Sent(waiting[n])
      \/ \A r \in Routers : Links[r][n] > 0 => Told(n, r)

\* exchange does not use the d_xy it leaves uninitialised (router.c:111): every table
\* that comes to it names a direct route to this router, at the cost of the link.
DirectCostKnown ==
  \A r \in Routers : \A m \in Sent(waiting[r]) :
    m.type = "RTR" => DXy(m.rows, r) = {neighbor[r][m.id]}
-----------------------------------------------------------------------------

\* Row d of a table is about router d, or wiped by a reset.
InPlace(rows) ==
  \A d \in Routers : rows[d].dest = d \/ ("reset" \in Commands /\ rows[d].dest = 0)

\* Inductive with TypeOK, for any commands: exchange pairs rows by position, and
\* so takes over a row of another table in the place it had there.
RowsInv ==
  /\ \A r \in Routers : InPlace(table[r])
  /\ \A r \in Routers : \A m \in Sent(pending[r]) \cup Sent(waiting[r]) :
       /\ m.type = "RTR" => InPlace(m.rows)
       /\ m.type = "RESET" => "reset" \in Commands
  /\ OnlyResetKills
=============================================================================
