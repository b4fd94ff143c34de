------------------------------ MODULE RipProofs -------------------------------
(***************************************************************************)
(* Theorems about Rip for every number of routers: types, and what a       *)
(* router dies of, for any commands; no route too short, none in a circle, *)
(* and shortest ones at rest while links stay as they are or get cheaper.  *)
(***************************************************************************)
EXTENDS RipInvariant, TLAPS

USE TableAssumption, RipAssumption

-----------------------------------------------------------------------------
(* Bags.                                                                   *)

LEMMA BagEntry ==
  ASSUME NEW b, IsABag(b), NEW e \in DOMAIN b
  PROVE  b[e] \in Nat /\ b[e] > 0
BY DEF IsABag

LEMMA BagAdd ==
  ASSUME NEW b, NEW m, IsABag(b)
  PROVE  /\ IsABag(b (+) SetToBag({m}))
         /\ Sent(b (+) SetToBag({m})) = Sent(b) \cup {m}
<1> DEFINE one == SetToBag({m})
           c == b (+) one
           In(e) == IF e \in DOMAIN b THEN b[e] ELSE 0
           New(e) == IF e \in DOMAIN one THEN one[e] ELSE 0
<1>1. DOMAIN one = {m} /\ one[m] = 1
  BY DEF SetToBag
<1>2. c = [e \in DOMAIN b \cup DOMAIN one |-> In(e) + New(e)]
  BY DEF (+)
<1>3. \A e : In(e) \in Nat /\ (e \in DOMAIN b => In(e) > 0)
  BY BagEntry
<1>4. \A e : New(e) \in Nat /\ (e \in DOMAIN one => New(e) > 0)
  BY <1>1
<1> HIDE DEF c, one, In, New
<1>5. DOMAIN c = DOMAIN b \cup {m} /\ c = [e \in DOMAIN c |-> c[e]]
  BY <1>1, <1>2
<1>6. \A e \in DOMAIN c : c[e] \in {n \in Nat : n > 0}
  BY <1>1, <1>2, <1>3, <1>4, <1>5
<1>7. c \in [DOMAIN c -> {n \in Nat : n > 0}]
  BY <1>5, <1>6
<1> QED
  BY <1>5, <1>7 DEF IsABag, Sent, BagToSet, c, one

LEMMA BagRemove ==
  ASSUME NEW b, NEW m, IsABag(b)
  PROVE  /\ IsABag(b (-) SetToBag({m}))
         /\ Sent(b (-) SetToBag({m})) \subseteq Sent(b)
         /\ Sent(b) \subseteq Sent(b (-) SetToBag({m})) \cup {m}
<1> DEFINE one == SetToBag({m})
           Rest(e) == IF e \in DOMAIN one THEN b[e] - one[e] ELSE b[e]
           d == [e \in DOMAIN b |-> Rest(e)]
           c == [e \in {x \in DOMAIN d : d[x] > 0} |-> d[e]]
<1>1. b (-) one = c
  BY DEF (-)
<1>2. DOMAIN one = {m} /\ one[m] = 1
  BY DEF SetToBag
<1>3. ASSUME NEW e \in DOMAIN b
      PROVE  Rest(e) \in Int
  <2>1. b[e] \in Nat
    BY BagEntry
  <2>2. e \in DOMAIN one => one[e] = 1
    BY <1>2
  <2> QED
    BY <2>1, <2>2
<1>4. DOMAIN d = DOMAIN b /\ \A e \in DOMAIN b : d[e] = Rest(e)
  OBVIOUS
<1>a. \A e \in DOMAIN b \ {m} : Rest(e) = b[e] /\ Rest(e) > 0
  BY <1>2, BagEntry
<1> HIDE DEF d, Rest, one
<1>b. DOMAIN b \subseteq DOMAIN c \cup {m}
  BY <1>4, <1>a
<1>5. DOMAIN c \subseteq DOMAIN b /\ \A e \in DOMAIN c : c[e] \in {n \in Nat : n > 0}
  BY <1>3, <1>4
<1>6. c \in [DOMAIN c -> {n \in Nat : n > 0}]
  BY <1>5
<1> HIDE DEF c
<1> QED
  BY <1>1, <1>5, <1>6, <1>b DEF IsABag, Sent, BagToSet, one

LEMMA BagEmpty == IsABag(EmptyBag) /\ Sent(EmptyBag) = {}
BY DEF IsABag, EmptyBag, SetToBag, Sent, BagToSet

LEMMA QueueAdd ==
  ASSUME NEW q, Queues(q), NEW r \in Routers, NEW m, IsMessage(m)
  PROVE  Queues([q EXCEPT ![r] = @ (+) SetToBag({m})])
<1>0. IsABag(q[r]) /\ \A x \in Sent(q[r]) : IsMessage(x)
  BY DEF Queues
<1>1. IsABag(q[r] (+) SetToBag({m}))
      /\ \A x \in Sent(q[r] (+) SetToBag({m})) : IsMessage(x)
  BY <1>0, BagAdd
<1> DEFINE p == [q EXCEPT ![r] = @ (+) SetToBag({m})]
<1>2. DOMAIN p = Routers
      /\ \A s \in Routers : p[s] = IF s = r THEN q[r] (+) SetToBag({m}) ELSE q[s]
  BY DEF Queues
<1> HIDE DEF p
<1>3. Queues(p)
  BY <1>1, <1>2 DEF Queues
<1> QED
  BY <1>3 DEF p

LEMMA QueueRemove ==
  ASSUME NEW q, Queues(q), NEW r \in Routers, NEW m
  PROVE  Queues([q EXCEPT ![r] = @ (-) SetToBag({m})])
<1>0. IsABag(q[r]) /\ \A x \in Sent(q[r]) : IsMessage(x)
  BY DEF Queues
<1>1. IsABag(q[r] (-) SetToBag({m}))
      /\ \A x \in Sent(q[r] (-) SetToBag({m})) : IsMessage(x)
  BY <1>0, BagRemove
<1> DEFINE p == [q EXCEPT ![r] = @ (-) SetToBag({m})]
<1>2. DOMAIN p = Routers
      /\ \A s \in Routers : p[s] = IF s = r THEN q[r] (-) SetToBag({m}) ELSE q[s]
  BY DEF Queues
<1> HIDE DEF p
<1>3. Queues(p)
  BY <1>1, <1>2 DEF Queues
<1> QED
  BY <1>3 DEF p

\* What is in the queues p after m has been added to queue r of q, or taken out.
Added(q, r, m, p) ==
  /\ Sent(p[r]) = Sent(q[r]) \cup {m}
  /\ \A s \in Routers : s # r => Sent(p[s]) = Sent(q[s])

Removed(q, r, m, p) ==
  \A s \in Routers : /\ Sent(p[s]) \subseteq Sent(q[s])
                     /\ Sent(q[s]) \subseteq Sent(p[s]) \cup {m}
                     /\ s # r => Sent(p[s]) = Sent(q[s])

LEMMA SentAdd ==
  ASSUME NEW q, Queues(q), NEW r \in Routers, NEW m
  PROVE  Added(q, r, m, [q EXCEPT ![r] = @ (+) SetToBag({m})])
<1> DEFINE p == [q EXCEPT ![r] = @ (+) SetToBag({m})]
<1>1. Sent(q[r] (+) SetToBag({m})) = Sent(q[r]) \cup {m}
  BY BagAdd DEF Queues
<1>2. \A s \in Routers : p[s] = IF s = r THEN q[r] (+) SetToBag({m}) ELSE q[s]
  BY DEF Queues
<1> HIDE DEF p
<1>3. Added(q, r, m, p)
  BY <1>1, <1>2 DEF Added
<1> QED
  BY <1>3 DEF p

LEMMA SentRemove ==
  ASSUME NEW q, Queues(q), NEW r \in Routers, NEW m
  PROVE  Removed(q, r, m, [q EXCEPT ![r] = @ (-) SetToBag({m})])
<1> DEFINE p == [q EXCEPT ![r] = @ (-) SetToBag({m})]
<1>1. /\ Sent(q[r] (-) SetToBag({m})) \subseteq Sent(q[r])
      /\ Sent(q[r]) \subseteq Sent(q[r] (-) SetToBag({m})) \cup {m}
  BY BagRemove DEF Queues
<1>2. \A s \in Routers : p[s] = IF s = r THEN q[r] (-) SetToBag({m}) ELSE q[s]
  BY DEF Queues
<1> HIDE DEF p
<1>3. Removed(q, r, m, p)
  BY <1>1, <1>2 DEF Removed
<1> QED
  BY <1>3 DEF p

-----------------------------------------------------------------------------
(* Messages and tables.                                                    *)

LEMMA AgentMessages ==
  /\ IsMessage(Dv) /\ IsMessage(Show) /\ IsMessage(Reset)
  /\ \A c \in Changes : IsMessage(Update(c[2], c[3]))
BY DEF IsMessage, AgentMessage

LEMMA UpdateFields ==
  ASSUME NEW m, IsMessage(m), m.type = "UPDATE"
  PROVE  m.dest \in Routers /\ m.weight \in Int
<1>1. m \in {Update(c[2], c[3]) : c \in Changes}
  BY DEF IsMessage, AgentMessage, Dv, Show, Reset
<1>2. PICK c \in Changes : m = Update(c[2], c[3])
  BY <1>1
<1>3. c[2] \in Routers /\ c[3] \in Int
  BY <1>2
<1> QED
  BY <1>2, <1>3 DEF Update

LEMMA RtrFields ==
  ASSUME NEW m, IsMessage(m), m.type = "RTR"
  PROVE  m.id \in Routers /\ m.rows \in Tables
BY DEF IsMessage, AgentMessage, Dv, Show, Reset, Update

LEMMA RtrMessage ==
  ASSUME NEW id \in Routers, NEW rows \in Tables
  PROVE  IsMessage(Rtr(id, rows))
BY DEF IsMessage, Rtr

LEMMA InitTypes ==
  ASSUME NEW conf \in Confs, NEW r \in Routers
  PROVE  /\ NeighborInit(r, conf[r]) \in Neighbors
         /\ TableInit(r, conf[r]) \in Tables
<1>1. conf[r] \in [Routers -> Int]
  BY DEF Routers
<1>2. NeighborInit(r, conf[r]) \in Neighbors
  BY <1>1 DEF NeighborInit, Neighbors
<1>3. \A d \in Routers : d \in 0..RtNum /\ conf[r][d] \in Int
  BY <1>1 DEF Routers
<1>4. TableInit(r, conf[r]) \in Tables
  BY <1>3 DEF TableInit, Tables, Path
<1> QED
  BY <1>2, <1>4

LEMMA DXyType ==
  ASSUME NEW rows \in Tables, NEW id, NEW dxy \in DXy(rows, id)
  PROVE  dxy \in Int
BY DEF DXy, Tables, Path

LEMMA MergeType ==
  ASSUME NEW mine \in Tables, NEW rows \in Tables, NEW nid \in Routers,
         NEW dxy \in Int, NEW nbor \in Neighbors
  PROVE  MergeTable(mine, rows, nid, dxy, nbor) \in Tables
<1> SUFFICES ASSUME NEW j \in Routers
             PROVE  MergeRow(mine[j], Offer(rows[j], nid, dxy), nbor) \in Path
  BY DEF MergeTable, Tables
<1>1. nid \in -1..RtNum /\ mine[j] \in Path /\ rows[j] \in Path
  BY DEF Routers, Tables
<1>2. \A x \in Path, next \in -1..RtNum, cost \in Int :
        [x EXCEPT !.next = next, !.cost = cost] \in Path
  BY DEF Path
<1>3. Offer(rows[j], nid, dxy) \in Path
  <2>1. (IF rows[j].cost >= 0 THEN rows[j].cost + dxy ELSE rows[j].cost) \in Int
    BY <1>1 DEF Path
  <2> QED
    BY <1>1, <1>2, <2>1 DEF Offer
<1>4. [mine[j] EXCEPT !.next = mine[j].dest, !.cost = nbor[mine[j].dest]] \in Path
  <2>1. mine[j].dest \in 0..RtNum /\ mine[j].dest \in -1..RtNum
    BY <1>1 DEF Path
  <2>2. nbor[mine[j].dest] \in Int
    BY <2>1 DEF Neighbors
  <2> QED
    BY <1>1, <1>2, <2>1, <2>2
<1> QED
  BY <1>1, <1>3, <1>4 DEF MergeRow

LEMMA UpdateTypes ==
  ASSUME NEW rows \in Tables, NEW id \in Routers, NEW weight \in Int
  PROVE  LinkCost(weight) \in Int /\ UpdateTable(rows, id, weight) \in Tables
<1>1. LinkCost(weight) \in Int
  BY DEF LinkCost
<1>2. id \in -1..RtNum
  BY DEF Routers
<1> QED
  BY <1>1, <1>2 DEF UpdateTable, Tables, Path

LEMMA ResetType == ResetTable \in Tables
BY DEF ResetTable, Tables, Path

-----------------------------------------------------------------------------
(* Types.                                                                  *)

LEMMA SendNborTypes ==
  ASSUME TypeOK, NEW r \in Routers, NEW rows \in Tables, SendNbor(r, rows)
  PROVE  Queues(pending') /\ up' \in [Routers -> BOOLEAN]
<1>1. IsMessage(Rtr(r, rows))
  BY RtrMessage
<1>2. up' \in [Routers -> BOOLEAN]
  BY DEF SendNbor, TypeOK
<1>3. PICK reached : pending' = [n \in Routers |->
        IF n \in reached THEN pending[n] (+) SetToBag({Rtr(r, rows)}) ELSE pending[n]]
  BY DEF SendNbor
<1>4. ASSUME NEW n \in Routers
      PROVE  IsABag(pending'[n]) /\ \A m \in Sent(pending'[n]) : IsMessage(m)
  <2>1. IsABag(pending[n]) /\ \A m \in Sent(pending[n]) : IsMessage(m)
    BY DEF TypeOK, Queues
  <2>2. pending'[n] = pending[n] \/ pending'[n] = pending[n] (+) SetToBag({Rtr(r, rows)})
    BY <1>3
  <2>3. IsABag(pending[n] (+) SetToBag({Rtr(r, rows)}))
        /\ \A m \in Sent(pending[n] (+) SetToBag({Rtr(r, rows)})) : IsMessage(m)
    BY <1>1, <2>1, BagAdd
  <2> QED
    BY <2>1, <2>2, <2>3
<1>5. DOMAIN pending' = Routers
  BY <1>3
<1> QED
  BY <1>2, <1>4, <1>5 DEF Queues

LEMMA TypeInit == Init => TypeOK
<1> SUFFICES ASSUME Init PROVE TypeOK
  OBVIOUS
<1>1. table \in [Routers -> Tables] /\ neighbor \in [Routers -> Neighbors]
  BY InitTypes DEF Init
<1>2. Queues(pending) /\ Queues(waiting)
  BY BagEmpty DEF Init, Queues
<1>3. target \in Routers
  BY DEF Init, Routers
<1>4. up \in [Routers -> BOOLEAN]
  BY DEF Init
<1>5. overwritten \in 0..MaxOverwritten /\ given \in 0..MaxCommands
  BY DEF Init
<1>6. agentPc = "idle" /\ answer \in BOOLEAN /\ advertised \in BOOLEAN
  BY DEF Init
<1> QED
  BY <1>1, <1>2, <1>3, <1>4, <1>5, <1>6 DEF TypeOK

LEMMA AgentSendTypes ==
  ASSUME TypeOK, NEW r \in Routers, NEW m, IsMessage(m), NEW next, AgentSend(r, m, next)
  PROVE  Queues(pending') /\ agentPc' \in {next, "dead"}
<1>1. Queues([pending EXCEPT ![r] = @ (+) SetToBag({m})])
  BY QueueAdd DEF TypeOK
<1>2. Queues(pending')
  BY <1>1 DEF AgentSend, Connect, TypeOK
<1> QED
  BY <1>2 DEF AgentSend

LEMMA CommandTypes ==
  ASSUME TypeOK, NEW name, Command(name)
  PROVE  given' \in 0..MaxCommands
BY DEF Command, TypeOK

LEMMA TypeAgent == TypeOK /\ Agent => TypeOK'
<1> SUFFICES ASSUME TypeOK, Agent PROVE TypeOK'
  OBVIOUS
<1> USE DEF TypeOK, routerVars, threadVars
<1>t. target \in 1..RtNum /\ 1 \in Routers
  BY DEF Routers
<1>1. CASE GiveDv
  BY <1>1, <1>t, CommandTypes DEF GiveDv
<1>2. CASE OpDv
  <2>1. Queues(pending') /\ agentPc' \in {"idle", "dv", "dead"}
    <3>1. PICK next \in {"idle", "dv"} : AgentSend(target, Dv, next)
      BY <1>2 DEF OpDv
    <3> QED
      BY <3>1, AgentMessages, AgentSendTypes
  <2>2. target' \in Routers
    BY <1>2, <1>t DEF OpDv, LastTarget, Routers
  <2>3. advertised' \in BOOLEAN
    BY <1>2 DEF OpDv
  <2> QED
    BY <1>2, <2>1, <2>2, <2>3 DEF OpDv
<1>3. CASE ReadAnswer
  BY <1>3, <1>t DEF ReadAnswer
<1>4. ASSUME NEW r \in Routers, GiveReset(r)
      PROVE  TypeOK'
  <2>1. Queues(pending') /\ agentPc' \in {"idle", "dead"}
    BY <1>4, AgentMessages, AgentSendTypes DEF GiveReset
  <2>2. given' \in 0..MaxCommands
    BY <1>4, CommandTypes DEF GiveReset
  <2> QED
    BY <1>4, <2>1, <2>2 DEF GiveReset
<1>5. ASSUME NEW r \in Routers, GiveShow(r)
      PROVE  TypeOK'
  <2>1. /\ Queues(pending') /\ agentPc' \in {"idle", "dv", "show", "dead"}
        /\ target' \in Routers
    <3>1. Queues([pending EXCEPT ![r] = @ (+) SetToBag({Show})])
      BY AgentMessages, QueueAdd
    <3> QED
      BY <1>5, <3>1 DEF GiveShow, Connect
  <2>2. given' \in 0..MaxCommands
    BY <1>5, CommandTypes DEF GiveShow
  <2> QED
    BY <1>5, <2>1, <2>2 DEF GiveShow
<1>6. ASSUME NEW c \in Changes, GiveUpdate(c[1], c[2], c[3])
      PROVE  TypeOK'
  <2>1. c[1] \in Routers /\ IsMessage(Update(c[2], c[3]))
    BY <1>6, AgentMessages
  <2>2. Queues(pending') /\ agentPc' \in {"idle", "dead"}
    BY <1>6, <2>1, AgentSendTypes DEF GiveUpdate
  <2>3. given' \in 0..MaxCommands
    BY <1>6, CommandTypes DEF GiveUpdate
  <2> QED
    BY <1>6, <2>2, <2>3 DEF GiveUpdate
<1> QED
  BY <1>1, <1>2, <1>3, <1>4, <1>5, <1>6 DEF Agent

LEMMA TypeRouter ==
  ASSUME TypeOK, NEW r \in Routers, Router(r)
  PROVE  TypeOK'
<1> USE DEF TypeOK, routerVars, threadVars, agentVars
<1>l. ASSUME NEW m, Locked(r, m)
      PROVE  Queues(waiting')
  BY <1>l, QueueRemove DEF Locked
<1>1. ASSUME NEW m \in Sent(pending[r]), Accept(r, m)
      PROVE  TypeOK'
  <2>1. IsMessage(m)
    BY <1>1 DEF Queues
  <2>2. Queues(pending')
    BY <1>1, QueueRemove DEF Accept
  <2>3. Queues(waiting')
    <3>1. Queues([waiting EXCEPT ![r] = @ (+) SetToBag({m})])
      BY <2>1, QueueAdd
    <3> QED
      BY <1>1, <3>1 DEF Accept
  <2> QED
    BY <1>1, <2>2, <2>3 DEF Accept
<1>2. ASSUME NEW m \in Sent(pending[r]), Overwrite(r, m)
      PROVE  TypeOK'
  <2>1. Queues(pending')
    BY <1>2, QueueRemove DEF Overwrite
  <2>2. overwritten' \in 0..MaxOverwritten
    BY <1>2 DEF Overwrite
  <2> QED
    BY <1>2, <2>1, <2>2 DEF Overwrite
<1>3. CASE HandleDv(r)
  <2>1. Queues(pending') /\ up' \in [Routers -> BOOLEAN]
    BY <1>3, SendNborTypes DEF HandleDv
  <2> QED
    BY <1>3, <1>l, <2>1 DEF HandleDv
<1>4. CASE HandleShow(r)
  BY <1>4, <1>l DEF HandleShow
<1>5. CASE HandleReset(r)
  BY <1>5, <1>l, ResetType DEF HandleReset
<1>6. ASSUME NEW m \in Sent(waiting[r]), HandleUpdate(r, m)
      PROVE  TypeOK'
  <2>1. m.dest \in Routers /\ m.weight \in Int
    BY <1>6, UpdateFields DEF HandleUpdate, Queues
  <2>2. table' \in [Routers -> Tables]
    BY <1>6, <2>1, UpdateTypes DEF HandleUpdate
  <2>3. neighbor' \in [Routers -> Neighbors]
    <3>1. LinkCost(m.weight) \in Int
      BY <2>1, UpdateTypes, ResetType
    <3>2. neighbor' = [neighbor EXCEPT ![r] = [@ EXCEPT ![m.dest] = LinkCost(m.weight)]]
      BY <1>6 DEF HandleUpdate
    <3>3. [neighbor[r] EXCEPT ![m.dest] = LinkCost(m.weight)] \in Neighbors
      BY <3>1 DEF Neighbors
    <3> QED
      BY <3>2, <3>3
  <2>4. up' \in [Routers -> BOOLEAN]
    BY <1>6 DEF HandleUpdate
  <2>5. Queues(waiting') /\ UNCHANGED <<pending, overwritten, agentVars>>
    BY <1>6, <1>l DEF HandleUpdate
  <2> QED
    BY <2>2, <2>3, <2>4, <2>5
<1>7. ASSUME NEW m \in Sent(waiting[r]), HandleRtr(r, m)
      PROVE  TypeOK'
  <2>1. m.id \in Routers /\ m.rows \in Tables
    BY <1>7, RtrFields DEF HandleRtr, Queues
  <2>2. PICK dxy \in DXy(m.rows, r) :
          LET merged == MergeTable(table[r], m.rows, m.id, dxy, neighbor[r]) IN
          /\ table' = [table EXCEPT ![r] = merged]
          /\ SendNbor(r, merged) \/ UNCHANGED <<pending, up>>
    BY <1>7 DEF HandleRtr
  <2>3. MergeTable(table[r], m.rows, m.id, dxy, neighbor[r]) \in Tables
    BY <2>1, DXyType, MergeType
  <2>4. Queues(pending') /\ up' \in [Routers -> BOOLEAN]
    BY <2>2, <2>3, SendNborTypes
  <2>5. table' \in [Routers -> Tables]
    BY <2>2, <2>3
  <2>6. Queues(waiting') /\ UNCHANGED <<neighbor, overwritten, agentVars>>
    BY <1>7, <1>l DEF HandleRtr
  <2> QED
    BY <2>4, <2>5, <2>6
<1> QED
  BY <1>1, <1>2, <1>3, <1>4, <1>5, <1>6, <1>7 DEF Router, Handle

LEMMA TypeStutter == TypeOK /\ UNCHANGED vars => TypeOK'
BY DEF TypeOK, Queues, vars, routerVars, threadVars, agentVars

\* Every variable of routers and agent keeps its type, whatever commands are
\* given and whichever connections are lost.  The dest of a row, wiped or not, is
\* among the ids neighbor is indexed by.  (Where update writes when it finds no
\* row is no matter of types: see NoHarmWithoutReset.)
THEOREM TypeCorrect == Spec => []TypeOK
<1>1. TypeOK /\ [Next]_vars => TypeOK'
  BY TypeAgent, TypeRouter, TypeStutter DEF Next
<1> QED
  BY <1>1, TypeInit, PTL DEF Spec
-----------------------------------------------------------------------------
(* What exchange makes of a neighbour's table.                             *)

\* d_xy is the cost of the link the message came over.
LEMMA DirectCost ==
  ASSUME NEW links, TwoWay(links), NEW r \in Routers, NEW nid \in Routers,
         links[r][nid] > 0,
         NEW rows, RoutesOf(links, nid, rows)
  PROVE  DXy(rows, r) = {links[r][nid]}
<1>1. links[nid][r] > 0 /\ links[nid][r] = links[r][nid]
  BY DEF TwoWay
<1>2. rows[r].next = r /\ rows[r].dest = r /\ rows[r].cost = links[r][nid]
  BY <1>1 DEF RoutesOf
<1> DEFINE direct == {k \in Routers : rows[k].next = r /\ rows[k].dest = r}
<1>3. direct = {r}
  BY <1>2 DEF RoutesOf
<1>4. {j \in direct : \A l \in direct : j <= l} = {r}
  BY <1>3 DEF Routers
<1>5. direct # {}
  BY <1>3
<1>6. DXy(rows, r) = {rows[k].cost : k \in {j \in direct : \A l \in direct : j <= l}}
  BY <1>5 DEF DXy
<1> QED
  BY <1>2, <1>4, <1>6

\* Row j of this router's table, and what the neighbour nid offers for it.
Merging(links, r, nid, nbor, mine, rows) ==
  /\ IsLinks(links) /\ Metric(links)
  /\ links[r][nid] > 0 /\ \A n \in Routers : nbor[n] = links[r][n]
  /\ mine \in Tables /\ RoutesOf(links, r, mine)
  /\ rows \in Tables /\ RoutesOf(links, nid, rows)

\* No route is shorter than the shortest way.
LEMMA RouteBound ==
  ASSUME NEW links, IsLinks(links), Metric(links), NEW r \in Routers,
         NEW rows \in Tables, RoutesOf(links, r, rows), NEW d \in Routers, Usable(rows[d])
  PROVE  rows[d].cost >= Dist(links)[r][d]
<1>1. rows[d].cost \in Int /\ Dist(links)[r][d] \in Int
  BY DEF Tables, Path, Metric
<1>2. CASE d = r
  BY <1>1, <1>2 DEF RoutesOf, Metric
<1>3. CASE d # r
  <2>1. PICK n \in Routers : /\ links[r][n] > 0
                             /\ rows[d].cost >= links[r][n] + Dist(links)[n][d]
    BY <1>3 DEF RoutesOf
  <2>2. /\ links[r][n] \in Int /\ Dist(links)[n][d] \in Int
        /\ Dist(links)[r][d] <= links[r][n] + Dist(links)[n][d]
    BY <2>1 DEF IsLinks, Metric
  <2> QED
    BY <1>1, <2>1, <2>2
<1> QED
  BY <1>2, <1>3

\* A row a neighbour offers is no shorter than the way through it, and where the
\* neighbour has a link, the offer is that link.
OfferFits(links, r, nid, j, offer) ==
  /\ offer.dest = j /\ offer.next = nid /\ offer.cost \in Int
  /\ offer.cost >= 0 => /\ offer.cost >= links[r][nid] + Dist(links)[nid][j]
                        /\ offer.cost >= Dist(links)[r][j]
  /\ links[nid][j] > 0 => offer.cost = links[r][nid] + links[nid][j]
  /\ j = nid => offer.cost = links[r][nid]

LEMMA OfferBound ==
  ASSUME NEW links, NEW r \in Routers, NEW nid \in Routers, NEW nbor, NEW mine, NEW rows,
         Merging(links, r, nid, nbor, mine, rows), NEW j \in Routers
  PROVE  OfferFits(links, r, nid, j, Offer(rows[j], nid, links[r][nid]))
<1> DEFINE offer == Offer(rows[j], nid, links[r][nid])
<1>1. rows[j] \in Path /\ rows[j].dest = j /\ rows[j].cost \in Int
  BY DEF Merging, RoutesOf, Tables, Path
<1>2. links[r][nid] \in Int /\ links[nid][j] \in Int /\ links[r][nid] > 0
  BY DEF Merging, IsLinks
<1>3. offer.dest = j /\ offer.next = nid
  BY <1>1 DEF Offer, Path
<1>4. offer.cost = IF rows[j].cost >= 0 THEN rows[j].cost + links[r][nid] ELSE rows[j].cost
  BY <1>1 DEF Offer, Path
<1> HIDE DEF offer
<1>5. rows[j].cost >= 0 => rows[j].cost >= Dist(links)[nid][j]
  BY RouteBound DEF Merging, Usable
<1>6. /\ Dist(links)[r][j] <= links[r][nid] + Dist(links)[nid][j]
      /\ Dist(links)[r][j] \in Int /\ Dist(links)[nid][j] \in Int
  BY DEF Merging, Metric
<1>7. /\ j = nid => rows[j].cost = 0
      /\ links[nid][j] > 0 => rows[j].cost = links[nid][j]
  BY DEF Merging, RoutesOf
<1>8. offer.cost >= 0 => rows[j].cost >= 0 /\ offer.cost = rows[j].cost + links[r][nid]
  BY <1>1, <1>2, <1>4
<1>9. OfferFits(links, r, nid, j, offer)
  <2>1. offer.cost \in Int
    BY <1>1, <1>2, <1>4
  <2>2. offer.cost >= 0 => offer.cost >= links[r][nid] + Dist(links)[nid][j]
    BY <1>1, <1>2, <1>5, <1>6, <1>8
  <2>3. offer.cost >= 0 => offer.cost >= Dist(links)[r][j]
    BY <2>1, <2>2, <1>2, <1>6
  <2>4. links[nid][j] > 0 => offer.cost = links[r][nid] + links[nid][j]
    BY <1>1, <1>2, <1>4, <1>7
  <2>5. j = nid => offer.cost = links[r][nid]
    BY <1>1, <1>2, <1>4, <1>7
  <2> QED
    BY <1>3, <2>1, <2>2, <2>3, <2>4, <2>5 DEF OfferFits
<1> QED
  BY <1>9 DEF offer

\* What MergeRow makes of a row and an offer for it, whether or not there is a link.
RowFits(links, r, j, mine, offer, row) ==
  /\ j = r \/ links[r][j] > 0 => row = mine
  /\ row = offer \/ row = mine
  /\ j # r /\ links[r][j] < 0 /\ offer.cost >= 0 /\ row = mine =>
       mine.cost >= 0 /\ mine.cost <= offer.cost

LEMMA MergedRow ==
  ASSUME NEW links, NEW r \in Routers, NEW nid \in Routers, NEW nbor, NEW mine, NEW rows,
         Merging(links, r, nid, nbor, mine, rows), NEW j \in Routers
  PROVE  LET offer == Offer(rows[j], nid, links[r][nid]) IN
         RowFits(links, r, j, mine[j], offer, MergeRow(mine[j], offer, nbor))
<1> DEFINE offer == Offer(rows[j], nid, links[r][nid])
           row == MergeRow(mine[j], offer, nbor)
           own == [mine[j] EXCEPT !.next = mine[j].dest, !.cost = nbor[mine[j].dest]]
<1> SUFFICES RowFits(links, r, j, mine[j], offer, row)
  OBVIOUS
<1>o. OfferFits(links, r, nid, j, offer)
  BY OfferBound
<1>m. /\ mine[j].dest = j /\ mine[j].cost \in Int
      /\ links[r][j] > 0 => mine[j].next = j /\ mine[j].cost = links[r][j]
      /\ j = r => mine[j].next = r /\ mine[j].cost = 0
  BY DEF Merging, RoutesOf, Tables, Path
<1>d. /\ links[r][j] \in Int \ {0} /\ nbor[j] = links[r][j]
      /\ Dist(links)[r][j] \in Int /\ Dist(links)[r][r] = 0
      /\ links[r][j] > 0 => Dist(links)[r][j] = links[r][j]
  BY DEF Merging, Metric, IsLinks
<1>n. r # nid
  BY DEF Merging, IsLinks
<1>0. row = IF Better(mine[j], offer) THEN offer
            ELSE IF ~Renews(mine[j], offer) THEN mine[j]
            ELSE IF OwnLinkBetter(mine[j], offer, nbor) THEN own ELSE offer
  BY DEF MergeRow
<1> HIDE DEF own, offer, row
<1>1. CASE links[r][j] > 0 \/ j = r
  <2>1. ~Better(mine[j], offer)
    BY <1>1, <1>o, <1>m, <1>d DEF Better, OfferFits
  <2>2. ~Renews(mine[j], offer)
    BY <1>1, <1>o, <1>m, <1>n DEF Renews, OfferFits
  <2>3. row = mine[j]
    BY <1>0, <2>1, <2>2
  <2>4. ~(j # r /\ links[r][j] < 0)
    BY <1>1, <1>d
  <2> QED
    BY <2>3, <2>4 DEF RowFits
<1>2. CASE ~(links[r][j] > 0) /\ j # r
  <2>1. ~OwnLinkBetter(mine[j], offer, nbor)
    BY <1>2, <1>m, <1>d DEF OwnLinkBetter
  <2>2. row = offer \/ row = mine[j]
    BY <1>0, <2>1
  <2>3. offer.cost \in Int
    BY <1>o DEF OfferFits
  <2>4. Better(mine[j], offer) => row = offer
    BY <1>0
  <2>5. offer.cost >= 0 /\ row = mine[j] => mine[j].cost >= 0 /\ mine[j].cost <= offer.cost
    BY <1>m, <2>3, <2>4 DEF Better
  <2> QED
    BY <1>2, <2>2, <2>5 DEF RowFits
<1> QED
  BY <1>1, <1>2

\* The table that exchange leaves states true routes again.
LEMMA MergedRoutes ==
  ASSUME NEW links, NEW r \in Routers, NEW nid \in Routers, NEW nbor, NEW mine, NEW rows,
         Merging(links, r, nid, nbor, mine, rows)
  PROVE  RoutesOf(links, r, MergeTable(mine, rows, nid, links[r][nid], nbor))
<1> DEFINE merged == MergeTable(mine, rows, nid, links[r][nid], nbor)
           offer(j) == Offer(rows[j], nid, links[r][nid])
<1>1. \A j \in Routers : merged[j] = MergeRow(mine[j], offer(j), nbor)
  BY DEF MergeTable
<1>2. \A j \in Routers : RowFits(links, r, j, mine[j], offer(j), merged[j])
  BY <1>1, MergedRow
<1>3. \A j \in Routers : OfferFits(links, r, nid, j, offer(j))
  BY OfferBound
<1> HIDE DEF merged, offer
<1>4. RoutesOf(links, r, mine) /\ links[r][nid] > 0
  BY DEF Merging
<1>5. RoutesOf(links, r, merged)
  <2>1. \A j \in Routers : merged[j].dest = j
    BY <1>2, <1>3, <1>4 DEF RoutesOf, RowFits, OfferFits
  <2>2. merged[r].next = r /\ merged[r].cost = 0
    BY <1>2, <1>4 DEF RoutesOf, RowFits
  <2>3. \A n \in Routers :
          links[r][n] > 0 => merged[n].next = n /\ merged[n].cost = links[r][n]
    BY <1>2, <1>4 DEF RoutesOf, RowFits
  <2>4. ASSUME NEW d \in Routers \ {r}, Usable(merged[d])
        PROVE  /\ merged[d].next \in Routers /\ links[r][merged[d].next] > 0
               /\ merged[d].cost >= links[r][merged[d].next] + Dist(links)[merged[d].next][d]
    <3>1. CASE merged[d] = offer(d)
      BY <1>3, <1>4, <2>4, <3>1 DEF OfferFits, Usable
    <3>2. CASE merged[d] = mine[d]
      BY <1>4, <2>4, <3>2 DEF RoutesOf
    <3> QED
      BY <1>2, <3>1, <3>2 DEF RowFits
  <2> QED
    BY <2>1, <2>2, <2>3, <2>4 DEF RoutesOf
<1> QED
  BY <1>5 DEF merged

\* A shortest route is never given up for another one: what the neighbour it leads
\* over offers is the same route.
LEMMA MergedShortest ==
  ASSUME NEW links, NEW r \in Routers, NEW nid \in Routers, NEW nbor, NEW mine, NEW rows,
         Merging(links, r, nid, nbor, mine, rows), ShortestInTwo(links),
         NEW j \in Routers \ {r}, links[r][j] < 0, mine[j].cost = Dist(links)[r][j]
  PROVE  MergeTable(mine, rows, nid, links[r][nid], nbor)[j].cost = Dist(links)[r][j]
<1> DEFINE offer == Offer(rows[j], nid, links[r][nid])
           row == MergeRow(mine[j], offer, nbor)
<1>1. MergeTable(mine, rows, nid, links[r][nid], nbor)[j] = row
  BY DEF MergeTable
<1>o. OfferFits(links, r, nid, j, offer)
  BY OfferBound
<1>2. Dist(links)[r][j] \in Int /\ Dist(links)[r][j] >= 0
  <2>1. PICK n \in Routers : /\ links[r][n] > 0 /\ links[n][j] > 0
                             /\ Dist(links)[r][j] = links[r][n] + links[n][j]
    BY DEF ShortestInTwo
  <2>2. links[r][n] \in Int /\ links[n][j] \in Int
    BY DEF Merging, IsLinks
  <2> QED
    BY <2>1, <2>2
<1>3. ~Better(mine[j], offer)
  BY <1>o, <1>2 DEF Better, OfferFits
<1>4. mine[j].next = nid => offer.cost = mine[j].cost
  <2> SUFFICES ASSUME mine[j].next = nid PROVE offer.cost = Dist(links)[r][j]
    OBVIOUS
  <2>1. Dist(links)[r][j] >= links[r][nid] + Dist(links)[nid][j]
    BY <1>2 DEF Merging, RoutesOf, Usable
  <2>2. /\ links[r][nid] > 0 /\ links[r][nid] \in Int /\ Dist(links)[nid][j] \in Int
        /\ Dist(links)[r][j] <= links[r][nid] + Dist(links)[nid][j]
    BY DEF Merging, IsLinks, Metric
  <2>3. Dist(links)[r][j] = links[r][nid] + Dist(links)[nid][j]
    <3>1. links[r][nid] + Dist(links)[nid][j] \in Int
      BY <2>2
    <3>2. \A x, y \in Int : x >= y /\ x <= y => x = y
      OBVIOUS
    <3> QED
      BY <1>2, <2>1, <2>2, <3>1, <3>2, Zenon
  <2>4. links[nid][j] > 0
    BY <2>2, <2>3 DEF ShortestInTwo
  <2>5. Dist(links)[nid][j] = links[nid][j]
    BY <2>4 DEF Merging, Metric
  <2> QED
    BY <1>o, <2>3, <2>4, <2>5 DEF OfferFits
<1>5. ~Renews(mine[j], offer)
  BY <1>4, <1>o DEF Renews, OfferFits
<1> QED
  BY <1>1, <1>3, <1>5 DEF MergeRow

\* The neighbour a shortest route leads over offers it.
LEMMA MergedTold ==
  ASSUME NEW links, NEW r \in Routers, NEW nid \in Routers, NEW nbor, NEW mine, NEW rows,
         Merging(links, r, nid, nbor, mine, rows),
         NEW j \in Routers \ {r}, links[r][j] < 0, links[nid][j] > 0,
         links[r][nid] + links[nid][j] = Dist(links)[r][j]
  PROVE  MergeTable(mine, rows, nid, links[r][nid], nbor)[j].cost = Dist(links)[r][j]
<1> DEFINE offer == Offer(rows[j], nid, links[r][nid])
           row == MergeRow(mine[j], offer, nbor)
<1>1. MergeTable(mine, rows, nid, links[r][nid], nbor)[j] = row
  BY DEF MergeTable
<1>2. offer.cost = Dist(links)[r][j] /\ offer.cost \in Int
  <2>1. OfferFits(links, r, nid, j, offer)
    BY OfferBound
  <2> QED
    BY <2>1 DEF OfferFits
<1>3. offer.cost > 0
  <2>1. links[r][nid] \in Int /\ links[nid][j] \in Int /\ links[r][nid] > 0
    BY DEF Merging, IsLinks
  <2> QED
    BY <1>2, <2>1
<1>4. mine[j].cost \in Int /\ (mine[j].cost >= 0 => mine[j].cost >= Dist(links)[r][j])
  <2>1. mine[j].cost \in Int
    BY DEF Merging, Tables, Path
  <2> QED
    BY <2>1, RouteBound DEF Merging, Usable
<1>5. RowFits(links, r, j, mine[j], offer, row)
  BY MergedRow
<1> HIDE DEF offer, row
<1> QED
  BY <1>1, <1>2, <1>3, <1>4, <1>5 DEF RowFits

\* Rows stay true when the link to c[2] becomes cheaper and update writes it down.
LEMMA RoutesLowered ==
  ASSUME NEW links \in [Routers -> [Routers -> Int]], NEW c \in Changes,
         Metric(links), Lowers(links, c), Metric(Changed(links, c)),
         NEW r \in Routers, NEW rows \in Tables, RoutesOf(links, r, rows)
  PROVE  RoutesOf(Changed(links, c), r,
                  IF r = c[1] THEN UpdateTable(rows, c[2], c[3]) ELSE rows)
<1> DEFINE new == Changed(links, c)
           cost == LinkCost(c[3])
           after == IF r = c[1] THEN UpdateTable(rows, c[2], c[3]) ELSE rows
<1>1. c[1] \in Routers /\ c[2] \in Routers /\ c[1] # c[2] /\ c[3] \in Int
  OBVIOUS
<1>2. cost \in Int /\ cost > 0 /\ cost <= links[c[1]][c[2]] /\ links[c[1]][c[2]] > 0
  <2>1. cost \in Int
    BY <1>1 DEF LinkCost
  <2>2. links[c[1]][c[2]] \in Int
    BY <1>1
  <2> QED
    BY <2>1, <2>2 DEF Lowers
<1>3. \A a, b \in Routers :
        new[a][b] = IF a = c[1] /\ b = c[2] THEN cost ELSE links[a][b]
  BY <1>1 DEF Changed
<1>4. \A a, b \in Routers : /\ new[a][b] \in Int /\ new[a][b] <= links[a][b]
                            /\ links[a][b] > 0 <=> new[a][b] > 0
  <2> SUFFICES ASSUME NEW a \in Routers, NEW b \in Routers
               PROVE  /\ new[a][b] \in Int /\ new[a][b] <= links[a][b]
                      /\ links[a][b] > 0 <=> new[a][b] > 0
    OBVIOUS
  <2>1. links[a][b] \in Int
    OBVIOUS
  <2>2. CASE a = c[1] /\ b = c[2]
    BY <1>2, <1>3, <2>1, <2>2
  <2>3. CASE ~(a = c[1] /\ b = c[2])
    <3>1. new[a][b] = links[a][b]
      BY <1>3, <2>3
    <3> QED
      BY <2>1, <3>1
  <2> QED
    BY <2>2, <2>3
<1>5. \A a, b \in Routers : /\ Dist(new)[a][b] \in Int /\ Dist(links)[a][b] \in Int
                            /\ Dist(new)[a][b] <= Dist(links)[a][b]
  BY DEF Metric, Lowers
<1>6. \A a \in Routers : Dist(new)[a][a] = 0
  BY DEF Metric
<1>7. \A d \in Routers : rows[d].dest = d /\ rows[d] \in Path
  BY DEF RoutesOf, Tables
<1>8. \A d \in Routers : after[d] = IF r = c[1] /\ d = c[2]
        THEN [rows[d] EXCEPT !.next = d, !.cost = cost] ELSE rows[d]
  BY <1>1, <1>7 DEF UpdateTable
<1>9. \A d \in Routers : r = c[1] /\ d = c[2] =>
        after[d].dest = d /\ after[d].next = d /\ after[d].cost = cost
  BY <1>7, <1>8 DEF Path
<1>10. \A d \in Routers : ~(r = c[1] /\ d = c[2]) => after[d] = rows[d]
  BY <1>8
<1> HIDE DEF new, cost, after
<1>11. RoutesOf(new, r, after)
  <2>1. \A d \in Routers : after[d].dest = d
    BY <1>7, <1>9, <1>10
  <2>2. after[r].next = r /\ after[r].cost = 0
    BY <1>1, <1>10 DEF RoutesOf
  <2>3. ASSUME NEW n \in Routers, new[r][n] > 0
        PROVE  after[n].next = n /\ after[n].cost = new[r][n]
    <3>1. CASE r = c[1] /\ n = c[2]
      BY <1>3, <1>9, <3>1
    <3>2. CASE ~(r = c[1] /\ n = c[2])
      BY <1>3, <1>10, <2>3, <3>2 DEF RoutesOf
    <3> QED
      BY <3>1, <3>2
  <2>4. ASSUME NEW d \in Routers \ {r}, Usable(after[d])
        PROVE  /\ after[d].next \in Routers /\ new[r][after[d].next] > 0
               /\ after[d].cost >= new[r][after[d].next] + Dist(new)[after[d].next][d]
    <3>1. CASE r = c[1] /\ d = c[2]
      <4>1. after[d].next = d /\ after[d].cost = cost /\ new[r][d] = cost
        BY <1>3, <1>9, <3>1
      <4> QED
        BY <1>2, <1>6, <4>1
    <3>2. CASE ~(r = c[1] /\ d = c[2])
      <4>1. after[d] = rows[d] /\ rows[d].cost \in Int
        BY <1>7, <1>10, <3>2 DEF Path
      <4>2. PICK n \in Routers : /\ n = rows[d].next /\ links[r][n] > 0
                                 /\ rows[d].cost >= links[r][n] + Dist(links)[n][d]
        BY <2>4, <4>1 DEF RoutesOf
      <4>3. links[r][n] \in Int
        OBVIOUS
      <4>4. rows[d].cost >= new[r][n] + Dist(new)[n][d]
        <5>1. /\ new[r][n] \in Int /\ new[r][n] <= links[r][n]
              /\ Dist(new)[n][d] \in Int /\ Dist(links)[n][d] \in Int
              /\ Dist(new)[n][d] <= Dist(links)[n][d]
          BY <1>4, <1>5, <4>2
        <5>2. \A x, y, u, v, w \in Int : x <= u /\ y <= v /\ w >= u + v => w >= x + y
          OBVIOUS
        <5> QED
          BY <5>1, <5>2, <4>1, <4>2, <4>3, Zenon
      <4> QED
        BY <1>4, <4>1, <4>2, <4>4
    <3> QED
      BY <3>1, <3>2
  <2> QED
    BY <2>1, <2>2, <2>3, <2>4 DEF RoutesOf
<1> QED
  BY <1>11 DEF new, after

-----------------------------------------------------------------------------
(* The routes stay true.                                                   *)

LEMMA LinksType == ASSUME TypeOK PROVE Links \in [Routers -> [Routers -> Int]]
<1>1. \A r, n \in Routers : neighbor[r][n] \in Int
  BY DEF TypeOK, Neighbors, Routers
<1> QED
  BY <1>1 DEF Links

\* While all routers run, send_nbor sends the table over all links of r.
LEMMA SentToAll ==
  ASSUME TypeOK, \A n \in Routers : up[n], NEW r \in Routers, NEW rows, SendNbor(r, rows)
  PROVE  /\ up' = up
         /\ \A n \in Routers : Sent(pending'[n]) =
              IF Links[r][n] >= 0 THEN Sent(pending[n]) \cup {Rtr(r, rows)}
                                  ELSE Sent(pending[n])
<1>1. {n \in SendTo(r) : \A k \in SendTo(r) : k <= n => up[k]} = SendTo(r)
  BY DEF SendTo
<1>2. /\ up' = [up EXCEPT ![r] = TRUE]
      /\ pending' = [n \in Routers |->
           IF n \in SendTo(r) THEN pending[n] (+) SetToBag({Rtr(r, rows)}) ELSE pending[n]]
  BY <1>1 DEF SendNbor
<1>3. up' = up
  BY <1>2 DEF TypeOK
<1>4. \A n \in Routers : n \in SendTo(r) <=> Links[r][n] >= 0
  BY DEF SendTo, Links
<1>5. \A n \in Routers : Sent(pending[n] (+) SetToBag({Rtr(r, rows)}))
                         = Sent(pending[n]) \cup {Rtr(r, rows)}
  BY BagAdd DEF TypeOK, Queues
<1> QED
  BY <1>2, <1>3, <1>4, <1>5

LEMMA MessageTypes ==
  /\ Dv.type = "DV" /\ Show.type = "SHOW" /\ Reset.type = "RESET"
  /\ Dv.id = 0 /\ Show.id = 0
  /\ \A id, weight : /\ Update(id, weight).type = "UPDATE"
                     /\ Update(id, weight).dest = id /\ Update(id, weight).weight = weight
  /\ \A id, rows : /\ Rtr(id, rows).type = "RTR"
                   /\ Rtr(id, rows).id = id /\ Rtr(id, rows).rows = rows
BY DEF Dv, Show, Reset, Update, Rtr

\* Which messages there are while tables are exchanged, and while updates are given.
LEMMA FitTypes ==
  ASSUME NEW links, NEW r, NEW m
  PROVE  /\ MessageFits(links, r, m) => m.type \in {"DV", "SHOW", "RTR"}
         /\ UpdateFits(r, m) => m.type \in {"SHOW", "UPDATE"}
         /\ MessageFits(links, r, Dv) /\ MessageFits(links, r, Show) /\ UpdateFits(r, Show)
BY MessageTypes DEF MessageFits, UpdateFits

LEMMA RoutesOfInit ==
  ASSUME NEW conf \in Confs, NEW links, links = LinksOf(conf),
         IsLinks(links), Metric(links), NEW r \in Routers
  PROVE  RoutesOf(links, r, TableInit(r, conf[r]))
<1> DEFINE nb == NeighborInit(r, conf[r])
           rows == TableInit(r, conf[r])
<1>1. \A n \in Routers : links[r][n] = nb[n]
  BY DEF LinksOf
<1>2. \A n \in Routers : nb[n] > 0 => conf[r][n] = nb[n] /\ n # r
  BY DEF NeighborInit, Routers
<1>3. \A d \in Routers :
        rows[d] = IF d = r THEN [dest |-> r, next |-> r, cost |-> 0]
                  ELSE IF nb[d] > 0 THEN [dest |-> d, next |-> d, cost |-> conf[r][d]]
                  ELSE [dest |-> d, next |-> -1, cost |-> -1]
  BY DEF TableInit
<1> HIDE DEF nb, rows
<1>a. rows[r].dest = r /\ rows[r].next = r /\ rows[r].cost = 0
  <2>1. rows[r] = [dest |-> r, next |-> r, cost |-> 0]
    BY <1>3
  <2> QED
    BY <2>1
<1>b. ASSUME NEW d \in Routers \ {r}, nb[d] > 0
      PROVE  rows[d].dest = d /\ rows[d].next = d /\ rows[d].cost = conf[r][d]
  <2>1. rows[d] = [dest |-> d, next |-> d, cost |-> conf[r][d]]
    BY <1>3, <1>b
  <2> QED
    BY <2>1
<1>c. ASSUME NEW d \in Routers \ {r}, ~(nb[d] > 0)
      PROVE  rows[d].dest = d /\ rows[d].cost = -1
  <2>1. rows[d] = [dest |-> d, next |-> -1, cost |-> -1]
    BY <1>3, <1>c
  <2> QED
    BY <2>1
<1>4. \A d \in Routers : rows[d].dest = d
  BY <1>a, <1>b, <1>c
<1>5. rows[r].next = r /\ rows[r].cost = 0
  BY <1>a
<1>6. \A n \in Routers : links[r][n] > 0 => rows[n].next = n /\ rows[n].cost = links[r][n]
  BY <1>1, <1>2, <1>b
<1>7. ASSUME NEW d \in Routers \ {r}, Usable(rows[d])
      PROVE  /\ rows[d].next \in Routers /\ links[r][rows[d].next] > 0
             /\ rows[d].cost >= links[r][rows[d].next] + Dist(links)[rows[d].next][d]
  <2>1. links[r][d] > 0
    <3>1. ~(nb[d] > 0) => rows[d].cost = -1
      BY <1>c
    <3> QED
      BY <1>1, <1>7, <3>1 DEF Usable
  <2>2. rows[d].next = d /\ rows[d].cost = links[r][d]
    BY <1>6, <2>1
  <2>3. Dist(links)[d][d] = 0 /\ links[r][d] \in Int
    BY DEF Metric, IsLinks
  <2> QED
    BY <2>1, <2>2, <2>3
<1>8. RoutesOf(links, r, rows)
  BY <1>4, <1>5, <1>6, <1>7 DEF RoutesOf
<1> QED
  BY <1>8 DEF rows

LEMMA RoutesInvInit == ASSUME NEW L, CalmLinks(L) PROVE Init => RoutesInv(L)
<1> SUFFICES ASSUME Init PROVE RoutesInv(L)
  OBVIOUS
<1>1. PICK conf \in Confs :
        /\ table = [r \in Routers |-> TableInit(r, conf[r])]
        /\ neighbor = [r \in Routers |-> NeighborInit(r, conf[r])]
  BY DEF Init
<1>2. Links = LinksOf(conf)
  BY <1>1 DEF Links, LinksOf
<1>3. Links \in L /\ TwoWay(Links) /\ IsLinks(Links) /\ Metric(Links)
  BY <1>2 DEF CalmLinks
<1>4. MessagesFit(Links, pending) /\ MessagesFit(Links, waiting)
  BY BagEmpty DEF Init, MessagesFit
<1>5. ASSUME NEW r \in Routers
      PROVE  up[r] /\ RoutesOf(Links, r, table[r])
  <2>1. up[r] /\ table[r] = TableInit(r, conf[r])
    BY <1>1 DEF Init
  <2>2. RoutesOf(Links, r, TableInit(r, conf[r]))
    BY <1>2, <1>3, RoutesOfInit
  <2> QED
    BY <2>1, <2>2
<1> QED
  BY <1>3, <1>4, <1>5 DEF RoutesInv, Exchanging

\* Patient commands find the queues empty.
LEMMA PatientCommand ==
  ASSUME NEW L, CalmLinks(L), TypeOK, RoutesInv(L), "update" \in Commands,
         NEW name, Command(name)
  PROVE  \A r \in Routers : Sent(pending[r]) = {} /\ Sent(waiting[r]) = {}
<1>1. Quiet /\ \A r \in Routers : up[r]
  BY DEF CalmLinks, Command, RoutesInv
<1> QED
  BY <1>1, BagEmpty DEF Quiet

LEMMA RoutesInvAgent ==
  ASSUME NEW L, CalmLinks(L), TypeOK, RoutesInv(L), Agent
  PROVE  RoutesInv(L)'
<1>1. UNCHANGED <<table, neighbor, up, waiting>>
  BY DEF Agent, GiveDv, OpDv, ReadAnswer, GiveReset, GiveShow, GiveUpdate,
         routerVars, threadVars
<1>2. Links' = Links
  BY <1>1 DEF Links
<1>i. /\ Queues(pending) /\ target \in Routers /\ \A r \in Routers : up[r]
      /\ Exchanging \/ Updating
  BY DEF TypeOK, RoutesInv
<1>q. Exchanging' \/ Updating' => RoutesInv(L)'
  BY <1>1, <1>2 DEF RoutesInv
<1>e. ASSUME TwoWay(Links), MessagesFit(Links, pending'), MessagesFit(Links, waiting)
      PROVE  Exchanging'
  BY <1>1, <1>2, <1>e DEF Exchanging
<1>3. CASE GiveDv
  <2>1. CASE Exchanging
    <3>1. pending' = pending
      BY <1>3 DEF GiveDv, threadVars
    <3>2. TwoWay(Links) /\ MessagesFit(Links, pending') /\ MessagesFit(Links, waiting)
      BY <2>1, <3>1 DEF Exchanging
    <3> QED
      BY <1>e, <1>q, <3>2
  <2>2. CASE Updating
    <3>1. Command("dv") /\ "update" \in Commands /\ Patient
      BY <1>3, <2>2 DEF GiveDv, Updating, CalmLinks
    <3>2. \A r \in Routers : Sent(pending[r]) = {} /\ Sent(waiting[r]) = {}
      BY <3>1, PatientCommand
    <3>3. TwoWay(Links)
      BY <3>1 DEF Command, Symmetric, TwoWay
    <3>4. pending' = pending
      BY <1>3 DEF GiveDv, threadVars
    <3>5. MessagesFit(Links, pending') /\ MessagesFit(Links, waiting)
      BY <3>2, <3>4 DEF MessagesFit
    <3> QED
      BY <1>e, <1>q, <3>3, <3>5
  <2> QED
    BY <1>i, <2>1, <2>2
<1>4. CASE OpDv
  <2>1. Exchanging
    BY <1>4, <1>i DEF OpDv, Updating
  <2>2. pending' = [pending EXCEPT ![target] = @ (+) SetToBag({Dv})]
    BY <1>4, <1>i DEF OpDv, AgentSend, Connect
  <2>3. Added(pending, target, Dv, pending')
    BY <1>i, <2>2, SentAdd
  <2>4. MessagesFit(Links, pending')
    BY <2>1, <2>3, FitTypes DEF Exchanging, MessagesFit, Added
  <2> QED
    BY <1>e, <1>q, <2>1, <2>4 DEF Exchanging
<1>5. CASE ReadAnswer
  <2>1. pending' = pending /\ agentPc' = "idle" /\ advertised' = advertised
    BY <1>5 DEF ReadAnswer, threadVars
  <2>2. Exchanging => Exchanging'
    BY <1>e, <2>1 DEF Exchanging
  <2>3. Updating => Updating'
    BY <1>1, <2>1 DEF Updating, UpdatesFit, UpdateFits
  <2> QED
    BY <1>i, <1>q, <2>2, <2>3
<1>6. ASSUME NEW r \in Routers, GiveReset(r)
      PROVE  RoutesInv(L)'
  BY <1>6 DEF GiveReset, Command, CalmLinks
<1>7. ASSUME NEW r \in Routers, GiveShow(r)
      PROVE  RoutesInv(L)'
  <2>1. /\ pending' = [pending EXCEPT ![r] = @ (+) SetToBag({Show})]
        /\ agentPc' = "show" /\ advertised' = advertised
    BY <1>7, <1>i DEF GiveShow, Connect
  <2>2. Added(pending, r, Show, pending')
    BY <1>i, <2>1, SentAdd
  <2>3. Exchanging => MessagesFit(Links, pending')
    BY <2>2, FitTypes DEF Exchanging, MessagesFit, Added
  <2>4. Exchanging => Exchanging'
    BY <1>e, <2>3 DEF Exchanging
  <2>5. Updating => UpdatesFit(pending')
    <3>1. UpdateFits(r, Show)
      BY DEF UpdateFits
    <3> QED
      BY <2>2, <3>1 DEF Updating, UpdatesFit, Added
  <2>6. Updating => Updating'
    BY <1>1, <2>1, <2>5 DEF Updating
  <2> QED
    BY <1>i, <1>q, <2>4, <2>6
<1>8. ASSUME NEW c \in Changes, GiveUpdate(c[1], c[2], c[3])
      PROVE  RoutesInv(L)'
  <2> DEFINE m == Update(c[2], c[3])
  <2>1. "update" \in Commands /\ Command("update") /\ c[1] \in Routers
    BY <1>8 DEF GiveUpdate, Command
  <2>2. \A r \in Routers : Sent(pending[r]) = {} /\ Sent(waiting[r]) = {}
    BY <2>1, PatientCommand
  <2>3. /\ pending' = [pending EXCEPT ![c[1]] = @ (+) SetToBag({m})]
        /\ agentPc' = "idle" /\ advertised' = FALSE
    BY <1>8, <1>i, <2>1 DEF GiveUpdate, AgentSend, Connect
  <2> HIDE DEF m
  <2>4. Added(pending, c[1], m, pending')
    BY <1>i, <2>1, <2>3, SentAdd
  <2>5. UpdateFits(c[1], m)
    BY DEF UpdateFits, m
  <2>6. UpdatesFit(pending')
    BY <2>2, <2>4, <2>5 DEF UpdatesFit, Added
  <2>7. UpdatesFit(waiting')
    BY <1>1, <2>2 DEF UpdatesFit
  <2>8. Updating'
    BY <2>1, <2>3, <2>6, <2>7 DEF Updating
  <2> QED
    BY <1>q, <2>8
<1> QED
  BY <1>3, <1>4, <1>5, <1>6, <1>7, <1>8 DEF Agent

\* Steps that only move messages on, or lose or answer them.
LEMMA RoutesInvMove ==
  ASSUME NEW L, RoutesInv(L), UNCHANGED <<table, neighbor, up, agentPc, advertised>>,
         \A r \in Routers : /\ Sent(pending'[r]) \subseteq Sent(pending[r])
                            /\ Sent(waiting'[r]) \subseteq Sent(pending[r]) \cup Sent(waiting[r])
  PROVE  RoutesInv(L)'
<1>1. Links' = Links
  BY DEF Links
<1>2. Exchanging => Exchanging'
  <2> SUFFICES ASSUME Exchanging PROVE Exchanging'
    OBVIOUS
  <2>1. MessagesFit(Links, pending') /\ MessagesFit(Links, waiting')
    BY DEF Exchanging, MessagesFit
  <2> QED
    BY <1>1, <2>1 DEF Exchanging
<1>3. Updating => Updating'
  <2> SUFFICES ASSUME Updating PROVE Updating'
    OBVIOUS
  <2>1. UpdatesFit(pending') /\ UpdatesFit(waiting')
    BY DEF Updating, UpdatesFit
  <2> QED
    BY <2>1 DEF Updating
<1> QED
  BY <1>1, <1>2, <1>3 DEF RoutesInv

\* A message that is accepted, overwritten or taken out.
LEMMA Moved ==
  ASSUME TypeOK, NEW r \in Routers, NEW m
  PROVE  /\ Accept(r, m) => /\ Removed(pending, r, m, pending')
                            /\ \/ Added(waiting, r, m, waiting')
                               \/ ~Admits(r, m) /\ waiting' = waiting
         /\ Overwrite(r, m) => Removed(pending, r, m, pending')
         /\ Locked(r, m) => Removed(waiting, r, m, waiting')
<1>1. Queues(pending) /\ Queues(waiting)
  BY DEF TypeOK
<1>2. /\ Removed(pending, r, m, [pending EXCEPT ![r] = @ (-) SetToBag({m})])
      /\ Removed(waiting, r, m, [waiting EXCEPT ![r] = @ (-) SetToBag({m})])
      /\ Added(waiting, r, m, [waiting EXCEPT ![r] = @ (+) SetToBag({m})])
  BY <1>1, SentAdd, SentRemove
<1> QED
  BY <1>2 DEF Accept, Overwrite, Locked

LEMMA RoutesInvRouter ==
  ASSUME NEW L, CalmLinks(L), TypeOK, RoutesInv(L), NEW r \in Routers, Router(r)
  PROVE  RoutesInv(L)'
<1>i. /\ Queues(pending) /\ Queues(waiting)
      /\ Links \in L /\ IsLinks(Links) /\ Metric(Links)
      /\ \A n \in Routers : up[n] /\ RoutesOf(Links, n, table[n])
      /\ Exchanging \/ Updating
  BY DEF TypeOK, RoutesInv, CalmLinks
<1>w. \A m \in Sent(waiting[r]) : /\ Exchanging => MessageFits(Links, r, m)
                                  /\ Updating => UpdateFits(r, m)
  BY DEF Exchanging, Updating, MessagesFit, UpdatesFit
<1>p. \A m \in Sent(pending[r]) : m.id # 0 => m.type # "RTR" \/ m.id \in Routers
  BY <1>i, RtrFields DEF Queues
<1>e. ASSUME neighbor' = neighbor, \A n \in Routers : up'[n] /\ RoutesOf(Links, n, table'[n]),
             TwoWay(Links), MessagesFit(Links, pending'), MessagesFit(Links, waiting')
      PROVE  RoutesInv(L)'
  <2>1. Links' = Links
    BY <1>e DEF Links
  <2>2. Exchanging'
    BY <1>e, <2>1 DEF Exchanging
  <2> QED
    BY <1>e, <1>i, <2>1, <2>2 DEF RoutesInv
<1>1. ASSUME NEW m \in Sent(pending[r]), Accept(r, m)
      PROVE  RoutesInv(L)'
  <2>1. /\ Removed(pending, r, m, pending')
        /\ Added(waiting, r, m, waiting') \/ waiting' = waiting
    BY <1>1, Moved
  <2>2. \A s \in Routers :
          /\ Sent(pending'[s]) \subseteq Sent(pending[s])
          /\ Sent(waiting'[s]) \subseteq Sent(pending[s]) \cup Sent(waiting[s])
    BY <2>1 DEF Added, Removed
  <2> QED
    BY <1>1, <2>2, RoutesInvMove DEF Accept, routerVars, agentVars
<1>2. ASSUME NEW m \in Sent(pending[r]), Overwrite(r, m)
      PROVE  RoutesInv(L)'
  <2>1. Removed(pending, r, m, pending') /\ waiting' = waiting
    BY <1>2, Moved DEF Overwrite
  <2>2. \A s \in Routers :
          /\ Sent(pending'[s]) \subseteq Sent(pending[s])
          /\ Sent(waiting'[s]) \subseteq Sent(pending[s]) \cup Sent(waiting[s])
    BY <2>1 DEF Removed
  <2> QED
    BY <1>2, <2>2, RoutesInvMove DEF Overwrite, routerVars, agentVars
<1>s. ASSUME Exchanging, NEW m, Locked(r, m), NEW rows, RoutesOf(Links, r, rows),
             SendNbor(r, rows) \/ UNCHANGED <<pending, up>>
      PROVE  /\ TwoWay(Links) /\ up' = up
             /\ MessagesFit(Links, pending') /\ MessagesFit(Links, waiting')
  <2>1. TwoWay(Links) /\ MessagesFit(Links, pending) /\ MessagesFit(Links, waiting)
    BY <1>s DEF Exchanging
  <2>2. MessagesFit(Links, waiting')
    <3>1. Removed(waiting, r, m, waiting')
      BY <1>s, Moved
    <3> QED
      BY <2>1, <3>1 DEF Removed, MessagesFit
  <2>3. CASE SendNbor(r, rows)
    <3>1. /\ up' = up
          /\ \A n \in Routers : Sent(pending'[n]) =
               IF Links[r][n] >= 0 THEN Sent(pending[n]) \cup {Rtr(r, rows)}
                                   ELSE Sent(pending[n])
      BY <1>i, <2>3, SentToAll
    <3>2. ASSUME NEW n \in Routers, Links[r][n] >= 0
          PROVE  MessageFits(Links, n, Rtr(r, rows))
      <4>1. Links[n][r] > 0
        BY <1>i, <2>1, <3>2 DEF TwoWay, IsLinks
      <4> QED
        BY <1>s, <4>1, MessageTypes DEF MessageFits
    <3>3. MessagesFit(Links, pending')
      BY <2>1, <3>1, <3>2 DEF MessagesFit
    <3> QED
      BY <2>1, <2>2, <3>1, <3>3
  <2>4. CASE UNCHANGED <<pending, up>>
    BY <2>1, <2>2, <2>4
  <2> QED
    BY <1>s, <2>3, <2>4
<1>3. CASE HandleDv(r)
  <2>1. Locked(r, Dv) /\ SendNbor(r, table[r]) /\ table' = table /\ neighbor' = neighbor
    BY <1>3 DEF HandleDv
  <2>2. Exchanging
    <3>1. Dv \in Sent(waiting[r])
      BY <2>1 DEF Locked
    <3> QED
      BY <1>i, <1>w, <3>1, FitTypes, MessageTypes
  <2> QED
    BY <1>e, <1>i, <1>s, <2>1, <2>2
<1>4. CASE HandleShow(r)
  <2>1. Removed(waiting, r, Show, waiting') /\ pending' = pending
    BY <1>4, Moved DEF HandleShow
  <2>2. \A s \in Routers :
          /\ Sent(pending'[s]) \subseteq Sent(pending[s])
          /\ Sent(waiting'[s]) \subseteq Sent(pending[s]) \cup Sent(waiting[s])
    BY <2>1 DEF Removed
  <2> QED
    BY <1>4, <2>2, RoutesInvMove DEF HandleShow, routerVars
<1>5. CASE HandleReset(r)
  <2>1. Reset \in Sent(waiting[r])
    BY <1>5 DEF HandleReset, Locked
  <2> QED
    BY <1>i, <1>w, <2>1, FitTypes, MessageTypes
<1>6. ASSUME NEW m \in Sent(waiting[r]), HandleUpdate(r, m)
      PROVE  RoutesInv(L)'
  <2>1. Updating /\ UpdateFits(r, m)
    <3>1. m.type = "UPDATE"
      BY <1>6 DEF HandleUpdate
    <3> QED
      BY <1>i, <1>w, <3>1, FitTypes
  <2>2. PICK c \in Changes : c[1] = r /\ m = Update(c[2], c[3])
    BY <1>6, <2>1, MessageTypes DEF UpdateFits, HandleUpdate
  <2>3. m.dest = c[2] /\ m.weight = c[3] /\ c[2] \in Routers /\ c[3] \in Int
    BY <2>2, MessageTypes
  <2>4. /\ Changed(Links, c) \in L /\ Lowers(Links, c) /\ Metric(Changed(Links, c))
    BY <1>i, <2>1 DEF CalmLinks, Updating
  <2>5. Links' = Changed(Links, c)
    <3>1. neighbor' = [neighbor EXCEPT ![r] = [@ EXCEPT ![c[2]] = LinkCost(c[3])]]
      BY <1>6, <2>3 DEF HandleUpdate
    <3>2. /\ r \in DOMAIN neighbor
          /\ \A b \in Routers : b \in DOMAIN neighbor[r]
      BY DEF TypeOK, Neighbors, Routers
    <3>3. /\ \A a \in Routers : a # r => neighbor'[a] = neighbor[a]
          /\ neighbor'[r] = [neighbor[r] EXCEPT ![c[2]] = LinkCost(c[3])]
      BY <3>1, <3>2 DEF TypeOK
    <3>4. \A a \in Routers, b \in Routers : neighbor'[a][b] =
            IF a = r /\ b = c[2] THEN LinkCost(c[3]) ELSE neighbor[a][b]
      BY <2>3, <3>2, <3>3
    <3>5. Changed(Links, c) = [a \in Routers |-> [b \in Routers |->
            IF a = r /\ b = c[2] THEN LinkCost(c[3]) ELSE neighbor[a][b]]]
      BY <2>2, <2>3 DEF Changed, Links
    <3>6. \A a \in Routers : [b \in Routers |-> neighbor'[a][b]] =
            [b \in Routers |-> IF a = r /\ b = c[2] THEN LinkCost(c[3]) ELSE neighbor[a][b]]
      BY <3>4, Zenon
    <3> QED
      BY <3>5, <3>6, Zenon DEF Links
  <2>6. \A n \in Routers : table'[n] =
          IF n = c[1] THEN UpdateTable(table[n], c[2], c[3]) ELSE table[n]
    BY <1>6, <2>2, <2>3 DEF HandleUpdate, TypeOK
  <2>7. \A n \in Routers : RoutesOf(Links', n, table'[n])
    <3> SUFFICES ASSUME NEW n \in Routers PROVE RoutesOf(Changed(Links, c), n, table'[n])
      BY <2>5
    <3>1. table[n] \in Tables /\ Links \in [Routers -> [Routers -> Int]]
      BY LinksType DEF TypeOK
    <3>2. RoutesOf(Changed(Links, c), n,
                   IF n = c[1] THEN UpdateTable(table[n], c[2], c[3]) ELSE table[n])
      BY <1>i, <2>4, <3>1, RoutesLowered
    <3> QED
      BY <2>6, <3>2
  <2>8. up' = up
    <3>1. table[r][c[2]].dest = c[2]
      BY <1>i, <2>3 DEF RoutesOf
    <3> QED
      BY <1>6, <2>3, <3>1 DEF HandleUpdate
  <2>9. Updating'
    <3>1. Removed(waiting, r, m, waiting') /\ UNCHANGED <<pending, agentPc, advertised>>
      BY <1>6, Moved DEF HandleUpdate, agentVars
    <3>2. UpdatesFit(waiting') /\ UpdatesFit(pending')
      BY <2>1, <3>1 DEF Removed, Updating, UpdatesFit
    <3> QED
      BY <2>1, <3>1, <3>2 DEF Updating
  <2> QED
    BY <1>i, <2>4, <2>5, <2>7, <2>8, <2>9 DEF RoutesInv
<1>7. ASSUME NEW m \in Sent(waiting[r]), HandleRtr(r, m)
      PROVE  RoutesInv(L)'
  <2>1. m.type = "RTR" /\ m.id \in Routers /\ m.rows \in Tables
    BY <1>7, <1>i, RtrFields DEF HandleRtr, Queues
  <2>2. Exchanging /\ MessageFits(Links, r, m)
    BY <1>i, <1>w, <2>1, FitTypes
  <2>3. TwoWay(Links) /\ Links[r][m.id] > 0 /\ RoutesOf(Links, m.id, m.rows)
    BY <2>1, <2>2 DEF MessageFits, Exchanging
  <2>4. DXy(m.rows, r) = {Links[r][m.id]}
    BY <2>1, <2>3, DirectCost
  <2> DEFINE merged == MergeTable(table[r], m.rows, m.id, Links[r][m.id], neighbor[r])
  <2>5. RoutesOf(Links, r, merged)
    <3>1. Merging(Links, r, m.id, neighbor[r], table[r], m.rows)
      BY <1>i, <2>1, <2>3 DEF Merging, Links, TypeOK
    <3> QED
      BY <2>1, <3>1, MergedRoutes
  <2>6. /\ table' = [table EXCEPT ![r] = merged]
        /\ SendNbor(r, merged) \/ UNCHANGED <<pending, up>>
        /\ neighbor' = neighbor /\ Locked(r, m)
    BY <1>7, <2>4 DEF HandleRtr
  <2> HIDE DEF merged
  <2>7. \A n \in Routers : RoutesOf(Links, n, table'[n])
    <3>1. \A n \in Routers : table'[n] = IF n = r THEN merged ELSE table[n]
      BY <2>6 DEF TypeOK
    <3> QED
      BY <1>i, <2>5, <3>1
  <2> QED
    BY <1>e, <1>i, <1>s, <2>2, <2>5, <2>6, <2>7
<1> QED
  BY <1>1, <1>2, <1>3, <1>4, <1>5, <1>6, <1>7 DEF Router, Handle

LEMMA RoutesInvStutter == ASSUME NEW L, RoutesInv(L), UNCHANGED vars PROVE RoutesInv(L)'
BY RoutesInvMove DEF vars, routerVars, threadVars, agentVars

LEMMA RoutesInvariant == ASSUME NEW L, CalmLinks(L) PROVE Spec => []RoutesInv(L)
<1>1. TypeOK /\ RoutesInv(L) /\ [Next]_vars => RoutesInv(L)'
  BY RoutesInvAgent, RoutesInvRouter, RoutesInvStutter DEF Next
<1>2. Init => RoutesInv(L)
  BY RoutesInvInit
<1> QED
  BY <1>1, <1>2, TypeCorrect, PTL DEF Spec

-----------------------------------------------------------------------------
(* Routers without a link tell each other their shortest way.              *)

\* A router that has been told keeps what it knows until the table has been merged.
LEMMA ToldStays ==
  ASSUME NEW n \in Routers, NEW r \in Routers, Told(n, r),
         Links' = Links, table'[r] = table[r],
         \A m \in Sent(pending[r]) \cup Sent(waiting[r]) : m.type = "RTR" =>
           m \in Sent(pending'[r]) \cup Sent(waiting'[r])
  PROVE  Told(n, r)'
BY DEF Told

\* A step that asks no router, loses no question, no table on its way and no route.
LEMMA ToldInvStays ==
  ASSUME ToldInv, overwritten' = overwritten, Links' = Links,
         \A n \in Routers : Asked(n)' => Asked(n) \/ Dv \in Sent(pending'[n]),
         \A n \in Routers :
           Sent(pending[n]) \cup Sent(waiting[n]) \subseteq
             Sent(pending'[n]) \cup Sent(waiting'[n]) \cup {Show},
         table' = table
  PROVE  ToldInv'
<1> SUFFICES ASSUME overwritten = 0, NEW n \in Routers, Asked(n)',
                    Dv \notin Sent(pending'[n]) \cup Sent(waiting'[n]),
                    NEW r \in Routers, Links[r][n] > 0
             PROVE  Told(n, r)'
  BY DEF ToldInv
<1>1. Dv \notin Sent(pending[n]) \cup Sent(waiting[n])
  BY MessageTypes
<1>2. Told(n, r)
  BY <1>1 DEF ToldInv
<1>3. \A m \in Sent(pending[r]) \cup Sent(waiting[r]) : m.type = "RTR" =>
        m \in Sent(pending'[r]) \cup Sent(waiting'[r])
  BY MessageTypes
<1> QED
  BY <1>2, <1>3, ToldStays

LEMMA ToldInvAgent ==
  ASSUME TypeOK, \A r \in Routers : up[r], "reset" \notin Commands, ToldInv, Agent
  PROVE  ToldInv'
<1>1. UNCHANGED <<table, neighbor, waiting, overwritten>>
  BY DEF Agent, GiveDv, OpDv, ReadAnswer, GiveReset, GiveShow, GiveUpdate,
         routerVars, threadVars
<1>2. Links' = Links
  BY <1>1 DEF Links
<1>i. Queues(pending) /\ target \in Routers
  BY DEF TypeOK
<1>q. ASSUME \A n \in Routers : Asked(n)' => Asked(n) \/ Dv \in Sent(pending'[n]),
             \A n \in Routers : Sent(pending[n]) \subseteq Sent(pending'[n])
      PROVE  ToldInv'
  <2>1. \A n \in Routers :
           Sent(pending[n]) \cup Sent(waiting[n]) \subseteq
             Sent(pending'[n]) \cup Sent(waiting'[n]) \cup {Show}
    BY <1>1, <1>q
  <2> QED
    BY <1>1, <1>2, <1>q, <2>1, ToldInvStays
<1>a. ASSUME NEW r \in Routers, NEW m, pending' = [pending EXCEPT ![r] = @ (+) SetToBag({m})]
      PROVE  m \in Sent(pending'[r]) /\ \A n \in Routers : Sent(pending[n]) \subseteq Sent(pending'[n])
  <2>1. Added(pending, r, m, pending')
    BY <1>a, <1>i, SentAdd
  <2> QED
    BY <2>1 DEF Added
<1>3. CASE GiveDv
  <2>1. /\ pending' = pending /\ agentPc = "idle" /\ target' = 1
        /\ advertised' = advertised
    BY <1>3 DEF GiveDv, Command, threadVars
  <2>2. \A n \in Routers : Asked(n)' => Asked(n)
    BY <2>1 DEF Asked, Routers
  <2> QED
    BY <1>q, <2>1, <2>2
<1>4. CASE OpDv
  <2>1. /\ pending' = [pending EXCEPT ![target] = @ (+) SetToBag({Dv})]
        /\ agentPc' = IF target = RtNum THEN "idle" ELSE "dv"
        /\ target' = IF target = RtNum THEN 1 ELSE target + 1
        /\ advertised' => advertised \/ target = RtNum
        /\ agentPc = "dv"
    BY <1>4, <1>i DEF OpDv, AgentSend, Connect, LastTarget
  <2>2. \A n \in Routers : Asked(n)' => Asked(n) \/ n = target
    <3> SUFFICES ASSUME NEW n \in Routers, Asked(n)', n # target
                 PROVE  Asked(n)
      OBVIOUS
    <3>1. n \in 1..RtNum /\ target \in 1..RtNum
      BY <1>i DEF Routers
    <3>2. CASE target = RtNum
      <4>1. n < target
        BY <3>1, <3>2
      <4> QED
        BY <2>1, <4>1 DEF Asked
    <3>3. CASE target # RtNum
      <4>1. advertised' \/ n < target + 1
        BY <2>1, <3>3 DEF Asked
      <4>2. n < target + 1 => n < target
        BY <3>1
      <4> QED
        BY <2>1, <3>3, <4>1, <4>2 DEF Asked
    <3> QED
      BY <3>2, <3>3
  <2>3. Dv \in Sent(pending'[target])
        /\ \A n \in Routers : Sent(pending[n]) \subseteq Sent(pending'[n])
    BY <1>a, <1>i, <2>1
  <2> QED
    BY <1>q, <2>2, <2>3
<1>5. CASE ReadAnswer
  <2>1. pending' = pending /\ agentPc' = "idle" /\ advertised' = advertised
    BY <1>5 DEF ReadAnswer, threadVars
  <2> QED
    BY <1>q, <2>1 DEF Asked
<1>6. ASSUME NEW r \in Routers, GiveReset(r)
      PROVE  ToldInv'
  BY <1>6 DEF GiveReset, Command
<1>7. ASSUME NEW r \in Routers, GiveShow(r)
      PROVE  ToldInv'
  <2>1. /\ pending' = [pending EXCEPT ![r] = @ (+) SetToBag({Show})]
        /\ agentPc' = "show" /\ advertised' = advertised
    BY <1>7 DEF GiveShow, Connect
  <2>2. \A n \in Routers : Sent(pending[n]) \subseteq Sent(pending'[n])
    BY <1>a, <2>1
  <2>3. \A n \in Routers : Asked(n)' => Asked(n)
    BY <2>1 DEF Asked
  <2> QED
    BY <1>q, <2>2, <2>3
<1>8. ASSUME NEW c \in Changes, GiveUpdate(c[1], c[2], c[3])
      PROVE  ToldInv'
  <2>1. c[1] \in Routers /\ advertised' = FALSE /\ agentPc' = "idle"
    BY <1>8 DEF GiveUpdate, AgentSend
  <2>2. \A n \in Routers : ~Asked(n)'
    BY <2>1 DEF Asked
  <2> QED
    BY <2>2 DEF ToldInv
<1> QED
  BY <1>3, <1>4, <1>5, <1>6, <1>7, <1>8 DEF Agent

LEMMA ToldInvRouter ==
  ASSUME NEW L, CalmLinks(L), \A links \in L : ShortestInTwo(links),
         TypeOK, RoutesInv(L), ToldInv, NEW r \in Routers, Router(r)
  PROVE  ToldInv'
<1>i. /\ Queues(pending) /\ Queues(waiting) /\ overwritten \in Nat
      /\ Links \in L /\ IsLinks(Links) /\ Metric(Links) /\ ShortestInTwo(Links)
      /\ \A n \in Routers : up[n] /\ RoutesOf(Links, n, table[n])
      /\ Exchanging \/ Updating
  BY DEF TypeOK, RoutesInv, CalmLinks
<1>k. UNCHANGED <<agentPc, target, advertised>>
  BY DEF Router, Handle, Accept, Overwrite, HandleDv, HandleShow, HandleReset,
         HandleUpdate, HandleRtr, agentVars
<1>a. \A n \in Routers : Asked(n)' <=> Asked(n)
  BY <1>k DEF Asked
<1>u. CASE Updating
  BY <1>a, <1>u DEF Updating, Asked, ToldInv
<1>e. CASE Exchanging
  <2>w. \A m \in Sent(pending[r]) \cup Sent(waiting[r]) : MessageFits(Links, r, m)
    BY <1>e DEF Exchanging, MessagesFit
  <2>1. ASSUME NEW m \in Sent(pending[r]), Accept(r, m)
        PROVE  ToldInv'
    <3>1. Admits(r, m)
      <4>1. IsMessage(m) /\ MessageFits(Links, r, m)
        BY <1>i, <2>w DEF Queues
      <4>2. m = Dv \/ m = Show \/ (m.type = "RTR" /\ m.id \in Routers)
        BY <4>1, MessageTypes DEF IsMessage, AgentMessage, MessageFits
      <4>3. m.type = "RTR" => neighbor[r][m.id] >= 0
        <5>1. m.type = "RTR" => Links[r][m.id] > 0 /\ Links[r][m.id] = neighbor[r][m.id]
          BY <4>1, <4>2, MessageTypes DEF MessageFits, Links
        <5>2. m.type = "RTR" => Links[r][m.id] \in Int
          BY <1>i, <4>2, MessageTypes DEF IsLinks
        <5> QED
          BY <5>1, <5>2
      <4> QED
        BY <4>2, <4>3, MessageTypes DEF Admits
    <3>2. Removed(pending, r, m, pending') /\ Added(waiting, r, m, waiting')
      BY <2>1, <3>1, Moved
    <3>3. \A n \in Routers :
            Sent(pending[n]) \cup Sent(waiting[n]) \subseteq
              Sent(pending'[n]) \cup Sent(waiting'[n]) \cup {Show}
      BY <3>2 DEF Removed, Added
    <3>4. UNCHANGED <<table, neighbor, overwritten>> /\ Links' = Links
      BY <2>1 DEF Accept, routerVars, Links
    <3> QED
      BY <1>a, <3>3, <3>4, ToldInvStays
  <2>2. ASSUME NEW m \in Sent(pending[r]), Overwrite(r, m)
        PROVE  ToldInv'
    BY <1>i, <2>2 DEF Overwrite, ToldInv
  <2>3. CASE HandleDv(r)
    <3>1. /\ Removed(waiting, r, Dv, waiting')
          /\ SendNbor(r, table[r]) /\ UNCHANGED <<table, neighbor, overwritten>>
      BY <2>3, Moved DEF HandleDv
    <3>2. \A n \in Routers : Sent(pending'[n]) =
            IF Links[r][n] >= 0 THEN Sent(pending[n]) \cup {Rtr(r, table[r])}
                                ELSE Sent(pending[n])
      BY <1>i, <3>1, SentToAll
    <3>3. Links' = Links
      BY <3>1 DEF Links
    <3> SUFFICES ASSUME overwritten = 0, NEW n \in Routers, Asked(n),
                        Dv \notin Sent(pending'[n]) \cup Sent(waiting'[n]),
                        NEW s \in Routers, Links[s][n] > 0
                 PROVE  Told(n, s)'
      BY <1>a, <3>1, <3>3 DEF ToldInv
    <3>4. CASE n = r
      <4>1. Links[r][s] > 0
        BY <1>e, <3>4 DEF Exchanging, TwoWay
      <4>2. Rtr(r, table[r]) \in Sent(pending'[s])
        <5>1. Links[r][s] >= 0
          BY <1>i, <4>1 DEF IsLinks
        <5> QED
          BY <3>2, <5>1
      <4>3. Rtr(r, table[r]).type = "RTR" /\ Rtr(r, table[r]).id = n
        BY <3>4, MessageTypes
      <4> QED
        BY <4>2, <4>3 DEF Told
    <3>5. CASE n # r
      <4>1. Dv \notin Sent(pending[n]) \cup Sent(waiting[n])
        BY <3>1, <3>2, <3>5 DEF Removed
      <4>2. Told(n, s)
        BY <4>1 DEF ToldInv
      <4>3. \A m \in Sent(pending[s]) \cup Sent(waiting[s]) : m.type = "RTR" =>
              m \in Sent(pending'[s]) \cup Sent(waiting'[s])
        <5>1. \A m : m.type = "RTR" => m # Dv
          BY MessageTypes
        <5>2. /\ Sent(pending[s]) \subseteq Sent(pending'[s])
              /\ Sent(waiting[s]) \subseteq Sent(waiting'[s]) \cup {Dv}
          BY <3>1, <3>2 DEF Removed
        <5> QED
          BY <5>1, <5>2
      <4> QED
        BY <3>1, <3>3, <4>2, <4>3, ToldStays
    <3> QED
      BY <3>4, <3>5
  <2>4. CASE HandleShow(r)
    <3>1. /\ Removed(waiting, r, Show, waiting')
          /\ UNCHANGED <<table, neighbor, overwritten, pending>>
      BY <2>4, Moved DEF HandleShow, routerVars
    <3>2. \A n \in Routers :
            Sent(pending[n]) \cup Sent(waiting[n]) \subseteq
              Sent(pending'[n]) \cup Sent(waiting'[n]) \cup {Show}
      BY <3>1 DEF Removed
    <3>3. Links' = Links
      BY <3>1 DEF Links
    <3> QED
      BY <1>a, <3>1, <3>2, <3>3, ToldInvStays
  <2>5. ~HandleReset(r)
    BY <2>w, FitTypes, MessageTypes DEF HandleReset, Locked
  <2>6. ASSUME NEW m \in Sent(waiting[r]) PROVE ~HandleUpdate(r, m)
    BY <2>w, FitTypes DEF HandleUpdate
  <2>7. ASSUME NEW m \in Sent(waiting[r]), HandleRtr(r, m)
        PROVE  ToldInv'
    <3>1. m.type = "RTR" /\ m.id \in Routers /\ m.rows \in Tables
      BY <2>7, <1>i, RtrFields DEF HandleRtr, Queues
    <3>2. TwoWay(Links) /\ Links[r][m.id] > 0 /\ RoutesOf(Links, m.id, m.rows)
      BY <1>e, <2>w, <3>1 DEF MessageFits, Exchanging
    <3>3. DXy(m.rows, r) = {Links[r][m.id]}
      BY <3>1, <3>2, DirectCost
    <3> DEFINE merged == MergeTable(table[r], m.rows, m.id, Links[r][m.id], neighbor[r])
    <3>4. Merging(Links, r, m.id, neighbor[r], table[r], m.rows)
      BY <1>i, <3>1, <3>2 DEF Merging, Links, TypeOK
    <3>5. \A d \in Routers \ {r} : Links[r][d] < 0 /\ table[r][d].cost = Dist(Links)[r][d]
            => merged[d].cost = Dist(Links)[r][d]
      <4> SUFFICES ASSUME NEW d \in Routers \ {r}, Links[r][d] < 0,
                          table[r][d].cost = Dist(Links)[r][d]
                   PROVE  merged[d].cost = Dist(Links)[r][d]
        OBVIOUS
      <4> QED
        BY <1>i, <3>1, <3>4, MergedShortest
    <3>6. \A d \in Routers \ {r} :
            /\ Links[r][d] < 0 /\ Links[m.id][d] > 0
            /\ Links[r][m.id] + Links[m.id][d] = Dist(Links)[r][d]
            => merged[d].cost = Dist(Links)[r][d]
      <4> SUFFICES ASSUME NEW d \in Routers \ {r},
                          Links[r][d] < 0, Links[m.id][d] > 0,
                          Links[r][m.id] + Links[m.id][d] = Dist(Links)[r][d]
                   PROVE  merged[d].cost = Dist(Links)[r][d]
        OBVIOUS
      <4> HIDE DEF merged
      <4>1. merged = MergeTable(table[r], m.rows, m.id, Links[r][m.id], neighbor[r])
        BY DEF merged
      <4> QED
        BY <3>1, <3>4, <4>1, MergedTold
    <3>7. /\ table' = [table EXCEPT ![r] = merged]
          /\ SendNbor(r, merged) \/ UNCHANGED <<pending, up>>
          /\ UNCHANGED <<neighbor, overwritten>> /\ Locked(r, m)
      BY <2>7, <3>3 DEF HandleRtr
    <3> HIDE DEF merged
    <3>8. Removed(waiting, r, m, waiting')
      BY <3>7, Moved
    <3>9. \A n \in Routers : Sent(pending[n]) \subseteq Sent(pending'[n])
      BY <1>i, <3>7, SentToAll
    <3>10. table'[r] = merged /\ \A n \in Routers : n # r => table'[n] = table[n]
      BY <3>7 DEF TypeOK
    <3>11. Links' = Links
      BY <3>7 DEF Links
    <3> SUFFICES ASSUME overwritten = 0, NEW n \in Routers, Asked(n),
                        Dv \notin Sent(pending'[n]) \cup Sent(waiting'[n]),
                        NEW s \in Routers, Links[s][n] > 0
                 PROVE  Told(n, s)'
      BY <1>a, <3>7, <3>11 DEF ToldInv
    <3>12. Told(n, s)
      <4>1. Dv \notin Sent(pending[n]) \cup Sent(waiting[n])
        BY <3>1, <3>8, <3>9, MessageTypes DEF Removed
      <4> QED
        BY <4>1 DEF ToldInv
    <3>13. CASE s # r
      <4>1. \A x \in Sent(pending[s]) \cup Sent(waiting[s]) :
              x \in Sent(pending'[s]) \cup Sent(waiting'[s])
        BY <3>8, <3>9, <3>13 DEF Removed
      <4> QED
        BY <3>10, <3>11, <3>12, <3>13, <4>1, ToldStays
    <3>14. CASE s = r
      <4>1. CASE \E x \in Sent(pending[r]) \cup Sent(waiting[r]) :
                   x.type = "RTR" /\ x.id = n /\ x # m
        BY <3>8, <3>9, <3>14, <4>1 DEF Removed, Told
      <4>2. CASE m.id = n
        BY <3>6, <3>10, <3>11, <3>14, <4>2 DEF Told
      <4>3. CASE \A d \in Routers \ {r} :
                   /\ Links[r][d] < 0 /\ Links[n][d] > 0
                   /\ Links[r][n] + Links[n][d] = Dist(Links)[r][d]
                   => table[r][d].cost = Dist(Links)[r][d]
        BY <3>5, <3>10, <3>11, <3>14, <4>3 DEF Told
      <4> QED
        BY <3>12, <3>14, <4>1, <4>2, <4>3 DEF Told
    <3> QED
      BY <3>13, <3>14
  <2> QED
    BY <2>1, <2>2, <2>3, <2>4, <2>5, <2>6, <2>7 DEF Router, Handle
<1> QED
  BY <1>i, <1>u, <1>e

LEMMA ToldInvariant ==
  ASSUME NEW L, CalmLinks(L), \A links \in L : ShortestInTwo(links)
  PROVE  Spec => []ToldInv
<1>1. Init => ToldInv
  BY DEF Init, ToldInv, Asked
<1>2. TypeOK /\ RoutesInv(L) /\ ToldInv /\ Agent => ToldInv'
  BY ToldInvAgent DEF RoutesInv, CalmLinks
<1>3. ToldInv /\ UNCHANGED vars => ToldInv'
  <2> SUFFICES ASSUME ToldInv, UNCHANGED vars PROVE ToldInv'
    OBVIOUS
  <2>1. UNCHANGED <<table, pending, waiting, overwritten, agentPc, target, advertised>>
        /\ Links' = Links
    BY DEF vars, routerVars, threadVars, agentVars, Links
  <2> QED
    BY <2>1, ToldInvStays DEF Asked
<1>4. TypeOK /\ RoutesInv(L) /\ ToldInv /\ [Next]_vars => ToldInv'
  BY <1>2, <1>3, ToldInvRouter DEF Next
<1> QED
  BY <1>1, <1>4, RoutesInvariant, TypeCorrect, PTL DEF Spec

-----------------------------------------------------------------------------
(* What follows for the routes.                                            *)

\* No router ever believes in a route that is shorter than the shortest way: for any
\* number of routers, any topology whose links are no detours, however tables cross,
\* wait, get lost or are merged late, and also when links get cheaper while the
\* routers rest, as op_update does it on one end after the other.
THEOREM RoutesNeverTooShort ==
  ASSUME NEW L, CalmLinks(L)
  PROVE  Spec => []NeverTooShort
<1>1. TypeOK /\ RoutesInv(L) => NeverTooShort
  <2> SUFFICES ASSUME TypeOK, RoutesInv(L), NEW r \in Routers, NEW d \in Routers,
                      Usable(table[r][d])
               PROVE  table[r][d].cost >= Dist(Links)[r][d]
    BY DEF NeverTooShort
  <2>1. IsLinks(Links) /\ Metric(Links) /\ RoutesOf(Links, r, table[r]) /\ table[r] \in Tables
    BY DEF RoutesInv, CalmLinks, TypeOK
  <2> QED
    BY <2>1, RouteBound
<1> QED
  BY <1>1, RoutesInvariant, TypeCorrect, PTL

\* Under the same conditions the uninitialised d_xy is never used: what exchange adds
\* to the rows is the cost of the link, as both ends have it.
THEOREM DirectCostAlwaysKnown ==
  ASSUME NEW L, CalmLinks(L)
  PROVE  Spec => []DirectCostKnown
<1>1. TypeOK /\ RoutesInv(L) => DirectCostKnown
  <2> SUFFICES ASSUME TypeOK, RoutesInv(L), NEW r \in Routers, NEW m \in Sent(waiting[r]),
                      m.type = "RTR"
               PROVE  DXy(m.rows, r) = {neighbor[r][m.id]}
    BY DEF DirectCostKnown
  <2>1. m.id \in Routers /\ m.rows \in Tables
    BY RtrFields DEF TypeOK, Queues
  <2>2. Exchanging
    <3>1. Updating => UpdateFits(r, m)
      BY DEF Updating, UpdatesFit
    <3> QED
      BY <3>1, FitTypes DEF RoutesInv
  <2>3. TwoWay(Links) /\ Links[r][m.id] > 0 /\ RoutesOf(Links, m.id, m.rows)
    BY <2>2 DEF Exchanging, MessagesFit, MessageFits
  <2>4. DXy(m.rows, r) = {Links[r][m.id]}
    BY <2>1, <2>3, DirectCost
  <2>5. Links[r][m.id] = neighbor[r][m.id]
    BY <2>1 DEF Links
  <2> QED
    BY <2>4, <2>5
<1> QED
  BY <1>1, RoutesInvariant, TypeCorrect, PTL

\* When every neighbour of a router has a link to every router it has none to, the
\* next router on the way is always closer, so that packets never go round in a
\* circle, whichever tables are still on their way or lost.
THEOREM NextAlwaysCloser ==
  ASSUME NEW L, CalmLinks(L), \A links \in L : NeighborsSuffice(links)
  PROVE  Spec => []NextIsCloser
<1>1. TypeOK /\ RoutesInv(L) => NextIsCloser
  <2> SUFFICES ASSUME TypeOK, RoutesInv(L), NEW r \in Routers, NEW d \in Routers \ {r},
                      NEW row, row = table[r][d], Usable(row)
               PROVE  /\ neighbor[r][row.next] > 0
                      /\ row.next = d \/
                           /\ Usable(table[row.next][d])
                           /\ table[row.next][d].cost + neighbor[r][row.next] <= row.cost
    BY DEF NextIsCloser
  <2>1. /\ IsLinks(Links) /\ Metric(Links) /\ NeighborsSuffice(Links)
        /\ \A n \in Routers : RoutesOf(Links, n, table[n])
    BY DEF RoutesInv, CalmLinks
  <2>2. PICK n \in Routers : /\ n = row.next /\ Links[r][n] > 0
                             /\ row.cost >= Links[r][n] + Dist(Links)[n][d]
    BY <2>1 DEF RoutesOf
  <2>3. neighbor[r][n] = Links[r][n] /\ Links[r][n] \in Int /\ Links[r][d] \in Int \ {0}
    BY <2>1 DEF Links, IsLinks
  <2>4. CASE Links[r][d] > 0
    <3>1. row.next = d
      BY <2>1, <2>4 DEF RoutesOf
    <3> QED
      BY <2>2, <2>3, <3>1
  <2>5. CASE Links[r][d] < 0
    <3>1. Links[n][d] > 0 /\ Links[n][d] \in Int
      BY <2>1, <2>2, <2>5 DEF NeighborsSuffice, IsLinks
    <3>2. table[n][d].cost = Links[n][d] /\ Dist(Links)[n][d] = Links[n][d]
      BY <2>1, <3>1 DEF RoutesOf, Metric
    <3>3. row.cost \in Int
      BY DEF TypeOK, Tables, Path
    <3>4. Usable(table[n][d]) /\ table[n][d].cost + neighbor[r][n] <= row.cost
      BY <2>2, <2>3, <3>1, <3>2, <3>3 DEF Usable
    <3> QED
      BY <2>2, <2>3, <3>4
  <2> QED
    BY <2>3, <2>4, <2>5
<1> QED
  BY <1>1, RoutesInvariant, TypeCorrect, PTL

\* When routers without a link have a common neighbour on a shortest way, then all
\* routes are the shortest ones whenever the routers have come to rest after a dv:
\* whatever the order in which they were asked, told and merged their tables, and
\* also after links have got cheaper; only a lost connection can spoil it.
THEOREM RestsWithShortest ==
  ASSUME NEW L, CalmLinks(L), \A links \in L : ShortestInTwo(links)
  PROVE  Spec => []ShortestWhenQuiet
<1>1. TypeOK /\ RoutesInv(L) /\ ToldInv => ShortestWhenQuiet
  <2> SUFFICES ASSUME TypeOK, RoutesInv(L), ToldInv, Quiet, advertised, overwritten = 0,
                      NEW r \in Routers, NEW d \in Routers
               PROVE  table[r][d].cost = Dist(Links)[r][d]
    BY DEF ShortestWhenQuiet, ShortestRoutes
  <2>1. /\ IsLinks(Links) /\ Metric(Links) /\ ShortestInTwo(Links)
        /\ RoutesOf(Links, r, table[r]) /\ \A n \in Routers : up[n]
    BY DEF RoutesInv, CalmLinks
  <2>2. \A n \in Routers : Sent(pending[n]) = {} /\ Sent(waiting[n]) = {}
    BY <2>1, BagEmpty DEF Quiet
  <2>3. Links[r][d] \in Int \ {0}
    BY <2>1 DEF IsLinks
  <2>4. CASE d = r
    BY <2>1, <2>4 DEF RoutesOf, Metric
  <2>5. CASE Links[r][d] > 0
    BY <2>1, <2>5 DEF RoutesOf, Metric
  <2>6. CASE d # r /\ Links[r][d] < 0
    <3>1. PICK n \in Routers : /\ Links[r][n] > 0 /\ Links[n][d] > 0
                               /\ Dist(Links)[r][d] = Links[r][n] + Links[n][d]
      BY <2>1, <2>6 DEF ShortestInTwo
    <3>2. Told(n, r)
      BY <2>2, <3>1 DEF ToldInv, Asked
    <3> QED
      BY <2>2, <2>6, <3>1, <3>2 DEF Told
  <2> QED
    BY <2>3, <2>4, <2>5, <2>6
<1> QED
  BY <1>1, RoutesInvariant, ToldInvariant, TypeCorrect, PTL

-----------------------------------------------------------------------------
(* No route through a router that is no neighbour, as long as no link is   *)
(* removed.                                                                *)

\* Links change, get cheaper or more expensive, but stay: no update removes one,
\* and no router is reset, whose rows all name the router 0.
LinksStay ==
  /\ "reset" \notin Commands
  /\ \A c \in Changes : LinkCost(c[3]) >= 0

\* A table that waits for the mutex came from a router that still is a neighbour,
\* and so is the next router of every route.
NeighborInv ==
  /\ \A r \in Routers : \A m \in Sent(pending[r]) \cup Sent(waiting[r]) : m.type # "RESET"
  /\ \A r \in Routers : \A m \in Sent(waiting[r]) :
       m.type = "RTR" => neighbor[r][m.id] >= 0
  /\ \A r \in Routers : \A d \in Routers \ {r} :
       Usable(table[r][d]) => neighbor[r][table[r][d].next] >= 0

LEMMA NeighborInvInit == Init => NeighborInv
<1> SUFFICES ASSUME Init PROVE NeighborInv
  OBVIOUS
<1>1. PICK conf \in Confs :
        /\ table = [r \in Routers |-> TableInit(r, conf[r])]
        /\ neighbor = [r \in Routers |-> NeighborInit(r, conf[r])]
  BY DEF Init
<1>2. \A r \in Routers : Sent(pending[r]) = {} /\ Sent(waiting[r]) = {}
  BY BagEmpty DEF Init
<1>3. ASSUME NEW r \in Routers, NEW d \in Routers \ {r}, Usable(table[r][d])
      PROVE  neighbor[r][table[r][d].next] >= 0
  <2>1. conf[r][d] \in Int
    BY DEF Routers
  <2>2. d \in 0..RtNum
    BY DEF Routers
  <2>3. NeighborInit(r, conf[r])[d] = IF conf[r][d] > 0 THEN conf[r][d] ELSE -1
    BY <2>2 DEF NeighborInit
  <2>4. table[r][d] = IF conf[r][d] > 0 THEN [dest |-> d, next |-> d, cost |-> conf[r][d]]
                                        ELSE [dest |-> d, next |-> -1, cost |-> -1]
    BY <1>1, <2>1, <2>3 DEF TableInit
  <2>5. conf[r][d] > 0
    BY <1>3, <2>4 DEF Usable
  <2> QED
    BY <1>1, <2>1, <2>3, <2>4, <2>5
<1> QED
  BY <1>2, <1>3 DEF NeighborInv

\* Nothing but messages that are no RESET is added, and no table waits anew.
LEMMA NeighborKept ==
  ASSUME NeighborInv, UNCHANGED <<table, neighbor>>,
         \A r \in Routers : /\ \A m \in Sent(pending'[r]) :
                                m \in Sent(pending[r]) \/ m.type # "RESET"
                            /\ \A m \in Sent(waiting'[r]) :
                                \/ m \in Sent(waiting[r])
                                \/ /\ m \in Sent(pending[r])
                                   /\ m.type = "RTR" => neighbor[r][m.id] >= 0
  PROVE  NeighborInv'
BY DEF NeighborInv

LEMMA NeighborAgent ==
  ASSUME LinksStay, TypeOK, NeighborInv, Agent
  PROVE  NeighborInv'
<1>1. UNCHANGED <<table, neighbor, waiting>>
  BY DEF Agent, GiveDv, OpDv, ReadAnswer, GiveReset, GiveShow, GiveUpdate,
         routerVars, threadVars
<1>i. Queues(pending) /\ target \in Routers
  BY DEF TypeOK
<1>a. ASSUME NEW r \in Routers, NEW m, m.type # "RESET",
             \/ pending' = [pending EXCEPT ![r] = @ (+) SetToBag({m})]
             \/ pending' = pending
      PROVE  NeighborInv'
  <2>1. Added(pending, r, m, pending') \/ pending' = pending
    BY <1>a, <1>i, SentAdd
  <2> QED
    BY <1>1, <1>a, <2>1, NeighborKept DEF Added
<1>2. CASE GiveDv \/ ReadAnswer
  BY <1>1, <1>2, NeighborKept DEF GiveDv, ReadAnswer, threadVars
<1>3. CASE OpDv
  BY <1>3, <1>i, <1>a, MessageTypes DEF OpDv, AgentSend, Connect
<1>4. ASSUME NEW r \in Routers, GiveReset(r)
      PROVE  NeighborInv'
  BY <1>4 DEF GiveReset, Command, LinksStay
<1>5. ASSUME NEW r \in Routers, GiveShow(r)
      PROVE  NeighborInv'
  BY <1>5, <1>a, MessageTypes DEF GiveShow, Connect
<1>6. ASSUME NEW c \in Changes, GiveUpdate(c[1], c[2], c[3])
      PROVE  NeighborInv'
  <2> DEFINE m == Update(c[2], c[3])
  <2>1. c[1] \in Routers
    OBVIOUS
  <2>2. m.type # "RESET"
    BY MessageTypes
  <2>3. pending' = [pending EXCEPT ![c[1]] = @ (+) SetToBag({m})] \/ pending' = pending
    BY <1>6 DEF GiveUpdate, AgentSend, Connect
  <2> HIDE DEF m
  <2> QED
    BY <1>a, <2>1, <2>2, <2>3
<1> QED
  BY <1>2, <1>3, <1>4, <1>5, <1>6 DEF Agent

\* send_nbor adds its table to the queues of listen, wherever it stops.
LEMMA SentSome ==
  ASSUME TypeOK, NEW r \in Routers, NEW rows, SendNbor(r, rows)
  PROVE  \A n \in Routers : Sent(pending'[n]) \subseteq Sent(pending[n]) \cup {Rtr(r, rows)}
<1>1. PICK reached : pending' = [n \in Routers |->
        IF n \in reached THEN pending[n] (+) SetToBag({Rtr(r, rows)}) ELSE pending[n]]
  BY DEF SendNbor
<1>2. \A n \in Routers : Sent(pending[n] (+) SetToBag({Rtr(r, rows)}))
                         = Sent(pending[n]) \cup {Rtr(r, rows)}
  BY BagAdd DEF TypeOK, Queues
<1> QED
  BY <1>1, <1>2

\* A merge gives a row the sender of the table, its own destination when the link
\* to it is there, or the next router it had.
LEMMA MergedNext ==
  ASSUME NEW mine, NEW offer, NEW nbor, nbor[offer.next] >= 0,
         nbor[mine.dest] \in Int,
         Usable(mine) => nbor[mine.next] >= 0,
         mine = [mine EXCEPT !.next = mine.next], DOMAIN mine = {"dest", "next", "cost"},
         Usable(MergeRow(mine, offer, nbor))
  PROVE  nbor[MergeRow(mine, offer, nbor).next] >= 0
<1> DEFINE own == [mine EXCEPT !.next = mine.dest, !.cost = nbor[mine.dest]]
<1>1. CASE Better(mine, offer)
  BY <1>1 DEF MergeRow
<1>2. CASE ~Better(mine, offer) /\ ~Renews(mine, offer)
  BY <1>2 DEF MergeRow
<1>3. CASE ~Better(mine, offer) /\ Renews(mine, offer) /\ OwnLinkBetter(mine, offer, nbor)
  <2>1. MergeRow(mine, offer, nbor) = own /\ own.next = mine.dest
    BY <1>3 DEF MergeRow
  <2> QED
    BY <1>3, <2>1 DEF OwnLinkBetter
<1>4. CASE ~Better(mine, offer) /\ Renews(mine, offer) /\ ~OwnLinkBetter(mine, offer, nbor)
  BY <1>4 DEF MergeRow
<1> QED
  BY <1>1, <1>2, <1>3, <1>4

LEMMA NeighborRtr ==
  ASSUME TypeOK, NeighborInv, NEW r \in Routers, NEW m \in Sent(waiting[r]), HandleRtr(r, m)
  PROVE  NeighborInv'
<1>1. /\ m.type = "RTR" /\ m.id \in Routers /\ m.rows \in Tables
      /\ neighbor[r][m.id] >= 0 /\ neighbor' = neighbor /\ neighbor[r] \in Neighbors
      /\ table[r] \in Tables
  BY RtrFields DEF HandleRtr, TypeOK, Queues, NeighborInv
<1>2. PICK dxy \in DXy(m.rows, r) :
        LET merged == MergeTable(table[r], m.rows, m.id, dxy, neighbor[r]) IN
        /\ table' = [table EXCEPT ![r] = merged]
        /\ SendNbor(r, merged) \/ UNCHANGED <<pending, up>>
  BY DEF HandleRtr
<1> DEFINE merged == MergeTable(table[r], m.rows, m.id, dxy, neighbor[r])
<1>3. \A n \in Routers : Sent(pending'[n]) \subseteq Sent(pending[n]) \cup {Rtr(r, merged)}
  BY <1>2, SentSome
<1>4. Removed(waiting, r, m, waiting')
  BY Moved DEF HandleRtr
<1>5. ASSUME NEW d \in Routers \ {r}, Usable(merged[d])
      PROVE  neighbor[r][merged[d].next] >= 0
  <2> DEFINE mine == table[r][d]
             offer == Offer(m.rows[d], m.id, dxy)
  <2>1. merged[d] = MergeRow(mine, offer, neighbor[r])
    BY DEF MergeTable
  <2>2. mine \in Path /\ m.rows[d] \in Path
    BY <1>1 DEF Tables
  <2>3. offer.next = m.id
    BY <2>2 DEF Offer, Path
  <2>4. neighbor[r][mine.dest] \in Int
    BY <1>1, <2>2 DEF Path, Neighbors
  <2>5. Usable(mine) => neighbor[r][mine.next] >= 0
    BY DEF NeighborInv
  <2>6. mine = [mine EXCEPT !.next = mine.next] /\ DOMAIN mine = {"dest", "next", "cost"}
    BY <2>2 DEF Path
  <2> HIDE DEF mine, offer
  <2> QED
    BY <1>1, <1>5, <2>1, <2>3, <2>4, <2>5, <2>6, MergedNext
<1>6. \A s \in Routers : table'[s] = IF s = r THEN merged ELSE table[s]
  BY <1>2 DEF TypeOK
<1>7. Rtr(r, merged).type = "RTR"
  BY MessageTypes
<1> HIDE DEF merged
<1> QED
  BY <1>1, <1>3, <1>4, <1>5, <1>6, <1>7 DEF NeighborInv, Removed

LEMMA NeighborUpdate ==
  ASSUME LinksStay, TypeOK, NeighborInv,
         NEW r \in Routers, NEW m \in Sent(waiting[r]), HandleUpdate(r, m)
  PROVE  NeighborInv'
<1>1. /\ m.type = "UPDATE" /\ m.dest \in Routers /\ pending' = pending
      /\ table' = [table EXCEPT ![r] = UpdateTable(@, m.dest, m.weight)]
      /\ neighbor' = [neighbor EXCEPT ![r][m.dest] = LinkCost(m.weight)]
  BY UpdateFields DEF HandleUpdate, TypeOK, Queues
<1>2. LinkCost(m.weight) >= 0
  <2>1. IsMessage(m)
    BY DEF TypeOK, Queues
  <2>2. PICK c \in Changes : m = Update(c[2], c[3])
    BY <1>1, <2>1, MessageTypes DEF IsMessage, AgentMessage
  <2> QED
    BY <2>2, MessageTypes DEF LinksStay
<1>3. Removed(waiting, r, m, waiting')
  BY Moved DEF HandleUpdate
<1>4. \A s \in Routers, n \in 0..RtNum :
        neighbor'[s][n] = IF s = r /\ n = m.dest THEN LinkCost(m.weight) ELSE neighbor[s][n]
  BY <1>1 DEF TypeOK, Neighbors
<1>5. neighbor'[r][m.dest] >= 0
  BY <1>1, <1>2, <1>4 DEF Routers
<1>6. \A s \in Routers : \A n : neighbor[s][n] >= 0 => neighbor'[s][n] >= 0
  BY <1>1, <1>5 DEF TypeOK, Neighbors
<1>7. \A s \in Routers, d \in Routers :
        (table'[s][d].next = m.dest /\ s = r) \/ table'[s][d] = table[s][d]
  <2>1. \A s \in Routers :
          table'[s] = IF s = r THEN UpdateTable(table[r], m.dest, m.weight) ELSE table[s]
    BY <1>1 DEF TypeOK
  <2>2. \A d \in Routers : table[r][d] \in Path
    BY DEF TypeOK, Tables
  <2>3. \A x \in Path : \A cost : [x EXCEPT !.next = m.dest, !.cost = cost].next = m.dest
    BY DEF Path
  <2>4. \A d \in Routers : \/ UpdateTable(table[r], m.dest, m.weight)[d].next = m.dest
                            \/ UpdateTable(table[r], m.dest, m.weight)[d] = table[r][d]
    BY <2>2, <2>3 DEF UpdateTable
  <2> QED
    BY <2>1, <2>4
<1>8. \A s \in Routers : \A x \in Sent(waiting'[s]) :
        x.type = "RTR" => neighbor'[s][x.id] >= 0
  BY <1>3, <1>6 DEF NeighborInv, Removed
<1>9. \A s \in Routers : \A d \in Routers \ {s} :
        Usable(table'[s][d]) => neighbor'[s][table'[s][d].next] >= 0
  BY <1>5, <1>6, <1>7 DEF NeighborInv
<1> QED
  BY <1>1, <1>3, <1>8, <1>9 DEF NeighborInv, Removed

LEMMA NeighborRouter ==
  ASSUME LinksStay, TypeOK, NeighborInv, NEW r \in Routers, Router(r)
  PROVE  NeighborInv'
<1>i. \A m \in Sent(pending[r]) : m.type = "RTR" => m.id \in Routers
  BY RtrFields DEF TypeOK, Queues
<1>1. ASSUME NEW m \in Sent(pending[r]), Accept(r, m)
      PROVE  NeighborInv'
  <2>1. /\ Removed(pending, r, m, pending') /\ UNCHANGED <<table, neighbor>>
        /\ (Added(waiting, r, m, waiting') /\ Admits(r, m)) \/ waiting' = waiting
    BY <1>1, Moved DEF Accept, routerVars
  <2>2. Admits(r, m) => (m.type = "RTR" => neighbor[r][m.id] >= 0)
    BY <1>i DEF Admits, Routers
  <2> QED
    BY <2>1, <2>2, NeighborKept DEF Added, Removed
<1>2. ASSUME NEW m \in Sent(pending[r]), Overwrite(r, m)
      PROVE  NeighborInv'
  <2>1. /\ Removed(pending, r, m, pending') /\ waiting' = waiting
        /\ UNCHANGED <<table, neighbor>>
    BY <1>2, Moved DEF Overwrite, routerVars
  <2> QED
    BY <2>1, NeighborKept DEF Removed
<1>3. CASE HandleDv(r)
  <2>1. /\ Removed(waiting, r, Dv, waiting') /\ UNCHANGED <<table, neighbor>>
        /\ \A n \in Routers :
             Sent(pending'[n]) \subseteq Sent(pending[n]) \cup {Rtr(r, table[r])}
    BY <1>3, Moved, SentSome DEF HandleDv
  <2>2. Rtr(r, table[r]).type # "RESET"
    BY MessageTypes
  <2>3. \A n \in Routers :
          /\ \A m \in Sent(pending'[n]) : m \in Sent(pending[n]) \/ m.type # "RESET"
          /\ Sent(waiting'[n]) \subseteq Sent(waiting[n])
    BY <2>1, <2>2 DEF Removed
  <2> QED
    BY <2>1, <2>3, NeighborKept
<1>4. CASE HandleShow(r)
  <2>1. /\ Removed(waiting, r, Show, waiting') /\ UNCHANGED <<table, neighbor, pending>>
    BY <1>4, Moved DEF HandleShow, routerVars
  <2> QED
    BY <2>1, NeighborKept DEF Removed
<1>5. CASE HandleReset(r)
  BY <1>5, MessageTypes DEF HandleReset, Locked, NeighborInv
<1>6. ASSUME NEW m \in Sent(waiting[r]), HandleUpdate(r, m) \/ HandleRtr(r, m)
      PROVE  NeighborInv'
  BY <1>6, NeighborUpdate, NeighborRtr
<1> QED
  BY <1>1, <1>2, <1>3, <1>4, <1>5, <1>6 DEF Router, Handle

\* As long as no update removes a link and no router is reset, no router has a route
\* through one that is no neighbour: for every topology, costs that rise or fall at
\* one end only, and any order in which tables and updates arrive, connections are
\* lost and routers die.  The stale routes of NextIsNeighbor (a table that passed
\* the test of router.c:170 before the link went) need a link that is removed.
THEOREM NextAlwaysNeighbor ==
  ASSUME LinksStay
  PROVE  Spec => []NextIsNeighbor
<1>1. TypeOK /\ NeighborInv /\ [Next]_vars => NeighborInv'
  BY NeighborAgent, NeighborRouter, NeighborKept
  DEF Next, vars, routerVars, threadVars, agentVars
<1>2. NeighborInv => NextIsNeighbor
  BY DEF NeighborInv, NextIsNeighbor
<1> QED
  BY <1>1, <1>2, NeighborInvInit, TypeCorrect, PTL DEF Spec
-----------------------------------------------------------------------------
(* What routers die of: rows keep their places, so that update finds its   *)
(* row unless a reset has wiped it.                                        *)

\* Two lists of rows, one of which may have been merged into the other.
LEMMA InPlaceMerge ==
  ASSUME NEW mine \in Tables, NEW rows \in Tables, NEW nid, NEW dxy, NEW nbor,
         InPlace(mine), InPlace(rows)
  PROVE  InPlace(MergeTable(mine, rows, nid, dxy, nbor))
<1> SUFFICES ASSUME NEW j \in Routers
             PROVE  MergeRow(mine[j], Offer(rows[j], nid, dxy), nbor).dest
                      \in {mine[j].dest, rows[j].dest}
  BY DEF MergeTable, InPlace
<1>1. mine[j] \in Path /\ rows[j] \in Path
  BY DEF Tables
<1>2. \A x \in Path : \A next, cost : [x EXCEPT !.next = next, !.cost = cost].dest = x.dest
  BY DEF Path
<1>3. Offer(rows[j], nid, dxy).dest = rows[j].dest
  BY <1>1, <1>2 DEF Offer
<1>4. [mine[j] EXCEPT !.next = mine[j].dest, !.cost = nbor[mine[j].dest]].dest
        = mine[j].dest
  BY <1>1, <1>2
<1> QED
  BY <1>3, <1>4 DEF MergeRow

LEMMA InPlaceUpdate ==
  ASSUME NEW rows \in Tables, NEW id, NEW weight, InPlace(rows)
  PROVE  InPlace(UpdateTable(rows, id, weight))
<1> SUFFICES ASSUME NEW j \in Routers
             PROVE  UpdateTable(rows, id, weight)[j].dest = rows[j].dest
  BY DEF InPlace
<1>1. rows[j] \in Path
  BY DEF Tables
<1> QED
  BY <1>1 DEF UpdateTable, Path

LEMMA RowsInvInit == Init => RowsInv
<1> SUFFICES ASSUME Init PROVE RowsInv
  OBVIOUS
<1>1. \A r \in Routers : InPlace(table[r])
  BY DEF Init, TableInit, InPlace
<1>2. \A r \in Routers : Sent(pending[r]) = {} /\ Sent(waiting[r]) = {}
  BY BagEmpty DEF Init
<1>3. OnlyResetKills
  BY DEF Init, OnlyResetKills
<1> QED
  BY <1>1, <1>2, <1>3 DEF RowsInv

\* A message that may be sent.
Sendable(m) ==
  /\ m.type = "RTR" => InPlace(m.rows)
  /\ m.type = "RESET" => "reset" \in Commands

\* Tables as they are, and new messages that may be sent.
LEMMA RowsKept ==
  ASSUME RowsInv, table' = table, OnlyResetKills',
         \A r \in Routers :
           /\ \A m \in Sent(pending'[r]) : m \in Sent(pending[r]) \/ Sendable(m)
           /\ Sent(waiting'[r]) \subseteq Sent(waiting[r]) \cup Sent(pending[r])
  PROVE  RowsInv'
BY DEF RowsInv, Sendable, InPlace

\* A router that dies because it sends to one that is down is not the first.
LEMMA DeathSpreads ==
  ASSUME TypeOK, OnlyResetKills, NEW r \in Routers, up[r], NEW rows, SendNbor(r, rows),
         agentPc' = agentPc, \A s \in Routers : ~up[s] => table'[s] = table[s]
  PROVE  OnlyResetKills'
<1>1. \A s \in Routers : up'[s] = up[s] \/ (s = r /\ \E n \in Routers : ~up[n])
  BY DEF SendNbor, SendTo, TypeOK
<1>2. \A s \in Routers : ~up[s] => ~up'[s]
  <2>1. \A s \in Routers : s # r => up'[s] = up[s]
    BY DEF SendNbor, TypeOK
  <2> QED
    BY <2>1
<1> QED
  BY <1>1, <1>2 DEF OnlyResetKills

LEMMA RowsAgent ==
  ASSUME TypeOK, RowsInv, Agent
  PROVE  RowsInv'
<1>1. UNCHANGED <<table, up, waiting>>
  BY DEF Agent, GiveDv, OpDv, ReadAnswer, GiveReset, GiveShow, GiveUpdate,
         routerVars, threadVars
<1>i. Queues(pending) /\ target \in Routers
  BY DEF TypeOK
<1>d. agentPc' = "dead" => agentPc = "dead" \/ \E r \in Routers : ~up[r]
  BY <1>i DEF Agent, GiveDv, OpDv, ReadAnswer, GiveReset, GiveShow, GiveUpdate, AgentSend
<1>k. OnlyResetKills'
  BY <1>1, <1>d DEF RowsInv, OnlyResetKills
<1>a. ASSUME NEW r \in Routers, NEW m, Sendable(m),
             \/ pending' = [pending EXCEPT ![r] = @ (+) SetToBag({m})]
             \/ pending' = pending
      PROVE  RowsInv'
  <2>1. Added(pending, r, m, pending') \/ pending' = pending
    BY <1>a, <1>i, SentAdd
  <2> QED
    BY <1>1, <1>a, <1>k, <2>1, RowsKept DEF Added
<1>2. CASE GiveDv \/ ReadAnswer
  BY <1>1, <1>2, <1>k, RowsKept DEF GiveDv, ReadAnswer, threadVars
<1>3. CASE OpDv
  BY <1>3, <1>i, <1>a, MessageTypes DEF OpDv, AgentSend, Connect, Sendable
<1>4. ASSUME NEW r \in Routers, GiveReset(r)
      PROVE  RowsInv'
  BY <1>4, <1>a, MessageTypes DEF GiveReset, Command, AgentSend, Connect, Sendable
<1>5. ASSUME NEW r \in Routers, GiveShow(r)
      PROVE  RowsInv'
  BY <1>5, <1>a, MessageTypes DEF GiveShow, Connect, Sendable
<1>6. ASSUME NEW c \in Changes, GiveUpdate(c[1], c[2], c[3])
      PROVE  RowsInv'
  <2> DEFINE m == Update(c[2], c[3])
  <2>1. c[1] \in Routers
    OBVIOUS
  <2>2. Sendable(m)
    BY MessageTypes DEF Sendable
  <2>3. pending' = [pending EXCEPT ![c[1]] = @ (+) SetToBag({m})] \/ pending' = pending
    BY <1>6 DEF GiveUpdate, AgentSend, Connect
  <2> HIDE DEF m
  <2> QED
    BY <1>a, <2>1, <2>2, <2>3
<1> QED
  BY <1>2, <1>3, <1>4, <1>5, <1>6 DEF Agent

LEMMA RowsRtr ==
  ASSUME TypeOK, RowsInv, NEW r \in Routers, NEW m \in Sent(waiting[r]), HandleRtr(r, m)
  PROVE  RowsInv'
<1>1. /\ m.type = "RTR" /\ m.rows \in Tables /\ table[r] \in Tables
      /\ InPlace(m.rows) /\ InPlace(table[r]) /\ up[r] /\ agentPc' = agentPc
  BY RtrFields DEF HandleRtr, Locked, TypeOK, Queues, RowsInv, agentVars
<1>2. PICK dxy \in DXy(m.rows, r) :
        LET merged == MergeTable(table[r], m.rows, m.id, dxy, neighbor[r]) IN
        /\ table' = [table EXCEPT ![r] = merged]
        /\ SendNbor(r, merged) \/ UNCHANGED <<pending, up>>
  BY DEF HandleRtr
<1> DEFINE merged == MergeTable(table[r], m.rows, m.id, dxy, neighbor[r])
<1>3. InPlace(merged)
  BY <1>1, InPlaceMerge
<1>4. \A n \in Routers : Sent(pending'[n]) \subseteq Sent(pending[n]) \cup {Rtr(r, merged)}
  BY <1>2, SentSome
<1>5. Removed(waiting, r, m, waiting')
  BY Moved DEF HandleRtr
<1>6. \A s \in Routers : table'[s] = IF s = r THEN merged ELSE table[s]
  BY <1>2 DEF TypeOK
<1>7. OnlyResetKills'
  <2>1. \A s \in Routers : ~up[s] => table'[s] = table[s]
    BY <1>1, <1>6
  <2>2. CASE SendNbor(r, merged)
    BY <1>1, <2>1, <2>2, DeathSpreads DEF RowsInv
  <2>3. CASE UNCHANGED <<pending, up>>
    BY <1>1, <2>1, <2>3 DEF RowsInv, OnlyResetKills
  <2> QED
    BY <1>2, <2>2, <2>3
<1>8. Sendable(Rtr(r, merged))
  BY <1>3, MessageTypes DEF Sendable
<1>9. \A s \in Routers : \A x \in Sent(pending'[s]) \cup Sent(waiting'[s]) : Sendable(x)
  BY <1>4, <1>5, <1>8 DEF RowsInv, Removed, Sendable
<1>10. \A s \in Routers : InPlace(table'[s])
  BY <1>3, <1>6 DEF RowsInv
<1> HIDE DEF merged
<1> QED
  BY <1>7, <1>9, <1>10 DEF RowsInv, Sendable, InPlace

\* Where update finds no row some row is wiped.
LEMMA RowsUpdate ==
  ASSUME TypeOK, RowsInv, NEW r \in Routers, NEW m \in Sent(waiting[r]), HandleUpdate(r, m)
  PROVE  RowsInv'
<1>1. /\ m.type = "UPDATE" /\ m.dest \in Routers /\ up[r] /\ table[r] \in Tables
      /\ pending' = pending /\ agentPc' = agentPc
      /\ table' = [table EXCEPT ![r] = UpdateTable(table[r], m.dest, m.weight)]
  BY UpdateFields DEF HandleUpdate, Locked, TypeOK, Queues, agentVars
<1>2. \A s \in Routers :
        table'[s] = IF s = r THEN UpdateTable(table[r], m.dest, m.weight) ELSE table[s]
  BY <1>1 DEF TypeOK
<1>3. InPlace(UpdateTable(table[r], m.dest, m.weight))
  BY <1>1, InPlaceUpdate DEF RowsInv
<1>4. Removed(waiting, r, m, waiting')
  BY Moved DEF HandleUpdate
<1>5. OnlyResetKills'
  <2>1. \A s \in Routers : ~up[s] => table'[s] = table[s]
    BY <1>1, <1>2
  <2>2. CASE up' = up
    BY <1>1, <2>1, <2>2 DEF RowsInv, OnlyResetKills
  <2>3. CASE up' # up
    <3>1. \A j \in Routers : table[r][j].dest # m.dest
      BY <2>3 DEF HandleUpdate
    <3>2. table[r][m.dest].dest = 0
      BY <1>1, <3>1 DEF RowsInv, InPlace
    <3>3. UpdateTable(table[r], m.dest, m.weight)[m.dest].dest = 0
      BY <1>1, <3>1, <3>2 DEF UpdateTable
    <3>4. ~up'[r]
      BY <2>3 DEF HandleUpdate, TypeOK
    <3> QED
      BY <1>1, <1>2, <3>3, <3>4 DEF OnlyResetKills, Wiped
  <2> QED
    BY <2>2, <2>3
<1>6. \A s \in Routers : InPlace(table'[s])
  BY <1>2, <1>3 DEF RowsInv
<1> QED
  BY <1>1, <1>4, <1>5, <1>6 DEF RowsInv, InPlace, Removed

LEMMA RowsRouter ==
  ASSUME TypeOK, RowsInv, NEW r \in Routers, Router(r)
  PROVE  RowsInv'
<1>k. ASSUME UNCHANGED <<table, up, agentPc>>
      PROVE  OnlyResetKills'
  BY <1>k DEF RowsInv, OnlyResetKills
<1>1. ASSUME NEW m \in Sent(pending[r]), Accept(r, m)
      PROVE  RowsInv'
  <2>1. /\ Removed(pending, r, m, pending') /\ UNCHANGED <<table, up, agentPc>>
        /\ Added(waiting, r, m, waiting') \/ waiting' = waiting
    BY <1>1, Moved DEF Accept, routerVars, agentVars
  <2> QED
    BY <2>1, <1>k, RowsKept DEF Added, Removed
<1>2. ASSUME NEW m \in Sent(pending[r]), Overwrite(r, m)
      PROVE  RowsInv'
  <2>1. /\ Removed(pending, r, m, pending') /\ waiting' = waiting
        /\ UNCHANGED <<table, up, agentPc>>
    BY <1>2, Moved DEF Overwrite, routerVars, agentVars
  <2> QED
    BY <2>1, <1>k, RowsKept DEF Removed
<1>3. CASE HandleDv(r)
  <2>1. /\ Removed(waiting, r, Dv, waiting') /\ UNCHANGED <<table, agentPc>>
        /\ up[r] /\ SendNbor(r, table[r])
    BY <1>3, Moved DEF HandleDv, Locked, agentVars
  <2>2. \A n \in Routers :
          Sent(pending'[n]) \subseteq Sent(pending[n]) \cup {Rtr(r, table[r])}
    BY <2>1, SentSome
  <2>3. Sendable(Rtr(r, table[r]))
    BY MessageTypes DEF Sendable, RowsInv
  <2>4. OnlyResetKills'
    BY <2>1, DeathSpreads DEF RowsInv
  <2>5. \A n \in Routers :
          /\ \A m \in Sent(pending'[n]) : m \in Sent(pending[n]) \/ Sendable(m)
          /\ Sent(waiting'[n]) \subseteq Sent(waiting[n])
    BY <2>1, <2>2, <2>3 DEF Removed
  <2> QED
    BY <2>1, <2>4, <2>5, RowsKept
<1>4. CASE HandleShow(r)
  <2>1. /\ Removed(waiting, r, Show, waiting') /\ UNCHANGED <<table, up, agentPc, pending>>
    BY <1>4, Moved DEF HandleShow, routerVars
  <2> QED
    BY <2>1, <1>k, RowsKept DEF Removed
<1>5. CASE HandleReset(r)
  <2>1. /\ Removed(waiting, r, Reset, waiting') /\ UNCHANGED <<up, agentPc, pending>>
        /\ table' = [table EXCEPT ![r] = ResetTable] /\ up[r] /\ Reset \in Sent(waiting[r])
    BY <1>5, Moved DEF HandleReset, Locked, agentVars
  <2>2. "reset" \in Commands
    BY <2>1, MessageTypes DEF RowsInv
  <2>3. \A s \in Routers : table'[s] = IF s = r THEN ResetTable ELSE table[s]
    BY <2>1 DEF TypeOK
  <2>4. InPlace(ResetTable)
    BY <2>2 DEF InPlace, ResetTable
  <2>5. OnlyResetKills'
    BY <2>1, <2>3 DEF RowsInv, OnlyResetKills
  <2>6. \A s \in Routers : InPlace(table'[s])
    BY <2>3, <2>4 DEF RowsInv
  <2> QED
    BY <2>1, <2>5, <2>6 DEF RowsInv, InPlace, Removed
<1>6. ASSUME NEW m \in Sent(waiting[r]), HandleUpdate(r, m) \/ HandleRtr(r, m)
      PROVE  RowsInv'
  BY <1>6, RowsUpdate, RowsRtr
<1> QED
  BY <1>1, <1>2, <1>3, <1>4, <1>5, <1>6 DEF Router, Handle

LEMMA RowsInvariant == Spec => []RowsInv
<1>1. RowsInv /\ UNCHANGED vars => RowsInv'
  BY DEF RowsInv, InPlace, OnlyResetKills, vars, routerVars, threadVars, agentVars
<1>2. TypeOK /\ RowsInv /\ [Next]_vars => RowsInv'
  BY <1>1, RowsAgent, RowsRouter DEF Next
<1> QED
  BY <1>2, RowsInvInit, TypeCorrect, PTL DEF Spec

\* Whatever commands are given, in whatever order threads take the mutex: the first
\* process to die, if one does, is a router with rows a reset has wiped, by an
\* update that finds no row and writes behind the table.
THEOREM ResetAloneKills == Spec => []OnlyResetKills
<1>1. RowsInv => OnlyResetKills
  BY DEF RowsInv
<1> QED
  BY <1>1, RowsInvariant, PTL

\* update never writes behind the table, and nothing has died.
NoHarm ==
  /\ \A r \in Routers : \A m \in Sent(waiting[r]) :
       m.type = "UPDATE" => \E j \in Routers : table[r][j].dest = m.dest
  /\ agentPc # "dead" /\ \A r \in Routers : up[r]

\* When no router is ever reset each update finds its row (router.c:145-152), whatever
\* tables are merged in between, and all processes go on running.
THEOREM NoHarmWithoutReset ==
  ASSUME "reset" \notin Commands
  PROVE  Spec => []NoHarm
<1>1. ASSUME TypeOK, RowsInv
      PROVE  NoHarm
  <2>1. \A r, d \in Routers : table[r][d].dest = d
    BY <1>1 DEF RowsInv, InPlace
  <2>2. \A r \in Routers : \A m \in Sent(waiting[r]) : m.type = "UPDATE" => m.dest \in Routers
    BY <1>1, UpdateFields DEF TypeOK, Queues
  <2>3. \A r \in Routers : ~Wiped(table[r])
    BY <2>1 DEF Wiped, Routers
  <2> QED
    BY <1>1, <2>1, <2>2, <2>3 DEF NoHarm, RowsInv, OnlyResetKills
<1> QED
  BY <1>1, RowsInvariant, TypeCorrect, PTL
=============================================================================
