------------------------------- MODULE RipTable -------------------------------
(***************************************************************************)
(* The routing table of router.c: how it is set up from the topology file  *)
(* and how exchange merges a neighbour's table into it.                    *)
(*                                                                         *)
(* The ids in the location file are 1..RtNum.  table_init leaves one row   *)
(* for each of them, sorted by dest, and exchange pairs the rows of two    *)
(* tables by position, so row j of a table is the entry [j] here.          *)
(***************************************************************************)
EXTENDS Integers

CONSTANTS
  RtNum,          \* rt_num: the number of routers
  Confs,          \* topology files: conf[r][n] is the cost of line r,n or -1
  StackGarbage    \* what the uninitialised d_xy of exchange may hold

ASSUME TableAssumption ==
  /\ RtNum \in Nat \ {0}
  /\ Confs \subseteq [1..RtNum -> [1..RtNum -> Int]]
  /\ StackGarbage \subseteq Int

Routers == 1..RtNum

\* struct path.  A negative cost: not reachable; reset leaves the ids 0.
Path == [dest : 0..RtNum, next : -1..RtNum, cost : Int]

Tables == [Routers -> Path]

\* The array neighbor, by id; no router has the id 0.
Neighbors == [0..RtNum -> Int]

-----------------------------------------------------------------------------
(* table_init.                                                             *)

NeighborInit(id, links) ==
  [n \in 0..RtNum |-> IF n \in Routers \ {id} /\ links[n] > 0 THEN links[n] ELSE -1]

\* Mutant: the table is not sorted, the router's own row comes first.
Bug_TableInit(id, links) ==
  LET Listed(j) == IF j = 1 THEN id ELSE IF j <= id THEN j - 1 ELSE j
      cost == NeighborInit(id, links)
  IN [j \in Routers |->
       LET d == Listed(j) IN
       IF d = id THEN [dest |-> id, next |-> id, cost |-> 0]
       ELSE [dest |-> d, next |-> IF cost[d] > 0 THEN d ELSE -1, cost |-> cost[d]]]

TableInit(id, links) ==
  [d \in Routers |->
     IF d = id THEN [dest |-> id, next |-> id, cost |-> 0]
     ELSE IF NeighborInit(id, links)[d] > 0
       THEN [dest |-> d, next |-> d, cost |-> links[d]]
       ELSE [dest |-> d, next |-> -1, cost |-> -1]]

\* RIP_RESET: the table as memset leaves it.
ResetTable == [d \in Routers |-> [dest |-> 0, next |-> 0, cost |-> 0]]

-----------------------------------------------------------------------------
(* exchange, in router id, for the table rows of router nid.               *)

\* d_xy: the cost nid states for its direct route to this router.  When nid
\* routes to this router some other way no row fits and d_xy is not set.
DXy(rows, id) ==
  LET direct == {k \in Routers : rows[k].next = id /\ rows[k].dest = id} IN
  IF direct = {}
    THEN StackGarbage
    ELSE {rows[k].cost : k \in {j \in direct : \A l \in direct : j <= l}}

\* Mutant: the cost of the link is left out.
Bug_OfferCost(row, nid, dxy) == [row EXCEPT !.next = nid]

\* Mutant: the next router is left as nid has it.
Bug_OfferNext(row, nid, dxy) ==
  [row EXCEPT !.cost = IF row.cost >= 0 THEN row.cost + dxy ELSE row.cost]

\* A row of nid's table as a route of this router.
Offer(row, nid, dxy) ==
  [row EXCEPT !.next = nid,
              !.cost = IF row.cost >= 0 THEN row.cost + dxy ELSE row.cost]

\* Mutant: an offer that is no cheaper is taken as well.
Bug_Better(mine, offer) ==
  mine.cost < 0 \/ (mine.cost >= offer.cost /\ offer.cost >= 0)

\* Cases (1) and (2): there is no route yet, or the offer is cheaper.
Better(mine, offer) ==
  mine.cost < 0 \/ (mine.cost > offer.cost /\ offer.cost >= 0)

\* Case (3): the route in use goes through nid and its cost has changed.
Renews(mine, offer) ==
  mine.next = offer.next /\ mine.cost # offer.cost

\* The direct link to the destination is better than what nid now offers.
OwnLinkBetter(mine, offer, nbor) ==
  /\ nbor[mine.dest] > 0
  /\ offer.cost > nbor[mine.dest] \/ offer.cost < 0

MergeRow(mine, offer, nbor) ==
  IF Better(mine, offer) THEN offer
  ELSE IF ~Renews(mine, offer) THEN mine
  ELSE IF OwnLinkBetter(mine, offer, nbor)
    THEN [mine EXCEPT !.next = mine.dest, !.cost = nbor[mine.dest]]
    ELSE offer

MergeTable(table, rows, nid, dxy, nbor) ==
  [j \in Routers |-> MergeRow(table[j], Offer(rows[j], nid, dxy), nbor)]

\* flag: some row was written, be it with what it held before.
Flag(table, rows, nid, dxy) ==
  \E j \in Routers : LET offer == Offer(rows[j], nid, dxy) IN
    Better(table[j], offer) \/ Renews(table[j], offer)

-----------------------------------------------------------------------------
(* update: the agent states the cost of the link to id.                    *)

LinkCost(weight) == IF weight > 1000 THEN -1 ELSE weight

\* Mutant: a cost that is already there is kept.
Bug_UpdateTable(table, id, weight) ==
  [j \in Routers |->
     IF table[j].dest = id /\ table[j].cost < 0
       THEN [table[j] EXCEPT !.next = id, !.cost = LinkCost(weight)]
       ELSE table[j]]

\* The row whose dest is id.
UpdateTable(table, id, weight) ==
  [j \in Routers |->
     IF table[j].dest = id
       THEN [table[j] EXCEPT !.next = id, !.cost = LinkCost(weight)]
       ELSE table[j]]
=============================================================================
