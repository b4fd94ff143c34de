--------------------------------- MODULE Rip ----------------------------------
(***************************************************************************)
(* The routers of router.c and the agent of agent.c.                       *)
(*                                                                         *)
(* Every message travels on a TCP connection of its own.  The main thread  *)
(* of a router accepts connections and starts a thread for each, mythread, *)
(* which reads the message, drops it when its sender is no neighbour, and  *)
(* otherwise handles it under the router's mutex, sends to the neighbours  *)
(* included.  Threads take the mutex in any order, so it does not show in  *)
(* which order connections are accepted: the queue of listen is a bag.     *)
(***************************************************************************)
EXTENDS RipTable, Bags

CONSTANTS
  Commands,         \* what the agent is told: a subset of dv, update, show, reset
  Changes,          \* the updates it may give: router, link to router, weight
  Patient,          \* commands are given only when all routers are idle, and dv
                    \* only when both ends of every link have been updated
  MaxCommands,      \* bound: number of commands
  MaxOverwritten,   \* bound: connections lost by the accept loop
  MaxCopies,        \* bound: equal messages that wait in one router
  MaxCost,          \* bound: costs are not followed beyond this value
  Dist(_)           \* reference: the distances for the costs of the links

ASSUME RipAssumption ==
  /\ Commands \subseteq {"dv", "update", "show", "reset"}
  /\ Changes \subseteq {c \in Routers \X Routers \X Int : c[1] # c[2]}
  /\ Patient \in BOOLEAN
  /\ MaxCommands \in Nat
  /\ MaxOverwritten \in Nat
  /\ MaxCopies \in Nat \ {0}
  /\ MaxCost \in Nat

VARIABLES
  table,        \* table[r]: rt_table
  neighbor,     \* neighbor[r]: neighbor
  up,           \* up[r]: the process runs
  pending,      \* pending[r]: connections not accepted yet
  waiting,      \* waiting[r]: messages whose threads wait for the mutex
  overwritten,  \* number of connections lost by an overwritten connfd
  agentPc,      \* what the agent is doing
  target,       \* the router the agent sends to next, or waits for
  answer,       \* the answer to show that has not been read yet
  given,        \* number of commands so far
  advertised    \* dv has been given and sent since the last update or reset

routerVars == <<table, neighbor, up>>
threadVars == <<pending, waiting, overwritten>>
agentVars == <<agentPc, target, answer, given, advertised>>
vars == <<routerVars, threadVars, agentVars>>

-----------------------------------------------------------------------------
(* Messages: rip_header_t and what follows it.  The agent's id is 0.       *)

Dv == [type |-> "DV", id |-> 0]
Show == [type |-> "SHOW", id |-> 0]
Reset == [type |-> "RESET", id |-> 0]
Update(id, weight) == [type |-> "UPDATE", id |-> 0, dest |-> id, weight |-> weight]
Rtr(id, rows) == [type |-> "RTR", id |-> id, rows |-> rows]

AgentMessage ==
  {Dv, Show, Reset} \cup {Update(c[2], c[3]) : c \in Changes}

IsMessage(m) ==
  m \in AgentMessage \/ (m.type = "RTR" /\ m.id \in Routers /\ m.rows \in Tables)

\* The messages in bag b, and how often m is among them.
Sent(b) == BagToSet(b)
Copies(m, b) == IF BagIn(m, b) THEN b[m] ELSE 0

Init ==
  /\ \E conf \in Confs :
       /\ table = [r \in Routers |-> TableInit(r, conf[r])]
       /\ neighbor = [r \in Routers |-> NeighborInit(r, conf[r])]
  /\ up = [r \in Routers |-> TRUE]
  /\ pending = [r \in Routers |-> EmptyBag]
  /\ waiting = [r \in Routers |-> EmptyBag]
  /\ overwritten = 0
  /\ agentPc = "idle"
  /\ target = 1
  /\ answer = FALSE
  /\ given = 0
  /\ advertised = FALSE

-----------------------------------------------------------------------------
(* The agent.  It writes to a socket whose connect failed as well: a       *)
(* router that is not running ends it (SIGPIPE).                           *)

Quiet ==
  \A r \in Routers : up[r] =>
    pending[r] = EmptyBag /\ waiting[r] = EmptyBag

\* The costs of the links the routers know of, and whether both ends agree.
Links == [r \in Routers |-> [n \in Routers |-> neighbor[r][n]]]

Symmetric == \A r, n \in Routers : r # n => Links[r][n] = Links[n][r]

Command(name) ==
  /\ agentPc = "idle"
  /\ name \in Commands
  /\ given < MaxCommands
  /\ Patient => Quiet /\ (name = "dv" => Symmetric)
  /\ given' = given + 1

\* send_msg to router r.
Connect(r, m) == pending' = [pending EXCEPT ![r] = @ (+) SetToBag({m})]

AgentSend(r, m, next) ==
  \/ up[r] /\ Connect(r, m) /\ agentPc' = next
  \/ ~up[r] /\ UNCHANGED pending /\ agentPc' = "dead"

GiveDv ==
  /\ Command("dv")
  /\ agentPc' = "dv"
  /\ target' = 1
  /\ UNCHANGED <<routerVars, threadVars, answer, advertised>>

\* Mutant: the loop of op_dv runs once too often.
Bug_LastTarget == RtNum + 1

LastTarget == RtNum

\* op_dv: the routers one after the other.
OpDv ==
  /\ agentPc = "dv"
  /\ AgentSend(target, Dv, IF target = LastTarget THEN "idle" ELSE "dv")
  /\ target' = IF target = LastTarget THEN 1 ELSE target + 1
  /\ advertised' = (advertised \/ target = LastTarget)
  /\ UNCHANGED <<routerVars, waiting, overwritten, answer, given>>

GiveUpdate(r, id, weight) ==
  /\ Command("update")
  /\ AgentSend(r, Update(id, weight), "idle")
  /\ advertised' = FALSE
  /\ UNCHANGED <<routerVars, waiting, overwritten, target, answer>>

GiveReset(r) ==
  /\ Command("reset")
  /\ AgentSend(r, Reset, "idle")
  /\ advertised' = FALSE
  /\ UNCHANGED <<routerVars, waiting, overwritten, target, answer>>

\* show: the connection stays open until the answer comes.
GiveShow(r) ==
  /\ Command("show")
  /\ \/ up[r] /\ Connect(r, Show) /\ agentPc' = "show" /\ target' = r
     \/ ~up[r] /\ UNCHANGED <<pending, agentPc, target>>
  /\ UNCHANGED <<routerVars, waiting, overwritten, answer, advertised>>

\* select returns: the answer is there, or the router has died.
ReadAnswer ==
  /\ agentPc = "show"
  /\ answer \/ ~up[target]
  /\ agentPc' = "idle"
  /\ answer' = FALSE
  /\ target' = 1
  /\ UNCHANGED <<routerVars, threadVars, given, advertised>>

Agent ==
  \/ GiveDv \/ OpDv \/ ReadAnswer
  \/ \E r \in Routers : GiveReset(r) \/ GiveShow(r)
  \/ \E c \in Changes : GiveUpdate(c[1], c[2], c[3])

-----------------------------------------------------------------------------
(* Connections of router r.                                                *)

\* Mutant: the agent, whose id is 0, is looked up as well.
Bug_Admits(r, m) == neighbor[r][m.id] >= 0

\* "not neighbors, drop msg", looked up without the mutex.
Admits(r, m) == m.id = 0 \/ neighbor[r][m.id] >= 0

\* A connection is accepted, its thread reads connfd and the message, and goes
\* to wait for the mutex.  Until the test the thread disturbs nobody, so that a
\* slow thread is a connection accepted late.
Accept(r, m) ==
  /\ up[r]
  /\ m \in Sent(pending[r])
  /\ pending' = [pending EXCEPT ![r] = @ (-) SetToBag({m})]
  /\ \/ /\ Admits(r, m)
        /\ Copies(m, waiting[r]) < MaxCopies
        /\ waiting' = [waiting EXCEPT ![r] = @ (+) SetToBag({m})]
     \/ ~Admits(r, m) /\ UNCHANGED waiting
  /\ UNCHANGED <<routerVars, overwritten, agentVars>>

\* All threads are given the address of the one variable connfd: when a second
\* connection is accepted before the thread of the first has read it, the first
\* one is never read.
Overwrite(r, m) ==
  /\ up[r]
  /\ m \in Sent(pending[r])
  /\ BagCardinality(pending[r]) > 1
  /\ overwritten < MaxOverwritten
  /\ overwritten' = overwritten + 1
  /\ pending' = [pending EXCEPT ![r] = @ (-) SetToBag({m})]
  /\ UNCHANGED <<routerVars, waiting, agentVars>>

-----------------------------------------------------------------------------
(* mythread of router r, from pthread_mutex_lock to pthread_mutex_unlock.  *)

\* Mutant: the buffer is handled again without a new read.
Bug_Locked(r, m) ==
  /\ up[r]
  /\ m \in Sent(waiting[r])
  /\ UNCHANGED waiting

Locked(r, m) ==
  /\ up[r]
  /\ m \in Sent(waiting[r])
  /\ waiting' = [waiting EXCEPT ![r] = @ (-) SetToBag({m})]

\* Mutant: the last router of the location file is left out.
Bug_SendTo(r) == {n \in 1..(RtNum - 1) : neighbor[r][n] >= 0}

\* The routers send_nbor sends to, in the order of the location file.
SendTo(r) == {n \in Routers : neighbor[r][n] >= 0}

\* send_nbor, with rows in rt_table: a neighbour that is not running is the end
\* of this process, those before it have got the table.
SendNbor(r, rows) ==
  LET reached == {n \in SendTo(r) : \A k \in SendTo(r) : k <= n => up[k]}
      m == Rtr(r, rows) IN
  /\ \A n \in reached : Copies(m, pending[n]) < MaxCopies
  /\ pending' = [n \in Routers |->
       IF n \in reached THEN pending[n] (+) SetToBag({m}) ELSE pending[n]]
  /\ up' = [up EXCEPT ![r] = (reached = SendTo(r))]

HandleDv(r) ==
  /\ Locked(r, Dv)
  /\ SendNbor(r, table[r])
  /\ UNCHANGED <<table, neighbor, overwritten, agentVars>>

\* After a reset there is no row to update: update writes behind the table,
\* and the process may go on or die.
HandleUpdate(r, m) ==
  /\ m.type = "UPDATE"
  /\ Locked(r, m)
  /\ table' = [table EXCEPT ![r] = UpdateTable(@, m.dest, m.weight)]
  /\ neighbor' = [neighbor EXCEPT ![r][m.dest] = LinkCost(m.weight)]
  /\ \/ UNCHANGED up
     \/ /\ \A j \in Routers : table[r][j].dest # m.dest
        /\ up' = [up EXCEPT ![r] = FALSE]
  /\ UNCHANGED <<pending, overwritten, agentVars>>

HandleRtr(r, m) ==
  /\ m.type = "RTR"
  /\ Locked(r, m)
  /\ \E dxy \in DXy(m.rows, r) :
       LET merged == MergeTable(table[r], m.rows, m.id, dxy, neighbor[r]) IN
       /\ \A j \in Routers : merged[j].cost <= MaxCost
       /\ table' = [table EXCEPT ![r] = merged]
       /\ \/ Flag(table[r], m.rows, m.id, dxy) /\ SendNbor(r, merged)
          \/ ~Flag(table[r], m.rows, m.id, dxy) /\ UNCHANGED <<pending, up>>
  /\ UNCHANGED <<neighbor, overwritten, agentVars>>

HandleShow(r) ==
  /\ Locked(r, Show)
  /\ answer' = TRUE
  /\ UNCHANGED <<routerVars, pending, overwritten,
                 agentPc, target, given, advertised>>

HandleReset(r) ==
  /\ Locked(r, Reset)
  /\ table' = [table EXCEPT ![r] = ResetTable]
  /\ UNCHANGED <<neighbor, up, pending, overwritten, agentVars>>

Handle(r) ==
  \/ HandleDv(r) \/ HandleShow(r) \/ HandleReset(r)
  \/ \E m \in Sent(waiting[r]) : HandleUpdate(r, m) \/ HandleRtr(r, m)

Router(r) == Handle(r) \/ \E m \in Sent(pending[r]) : Accept(r, m) \/ Overwrite(r, m)

-----------------------------------------------------------------------------

Next == Agent \/ \E r \in Routers : Router(r)

Spec == Init /\ [][Next]_vars

(***************************************************************************)
(* Fairness: the kernel runs every thread.  A connection in the queue of   *)
(* listen is accepted in its turn, and a thread that waits for the mutex   *)
(* gets it: no thread keeps it, for the sends of send_nbor wait for no     *)
(* other thread.                                                           *)
(***************************************************************************)
Fairness ==
  /\ WF_vars(OpDv)
  /\ WF_vars(ReadAnswer)
  /\ \A r \in Routers :
       /\ WF_vars(\E m \in Sent(pending[r]) : Accept(r, m))
       /\ WF_vars(Accept(r, Show))
       /\ WF_vars(Handle(r))
       /\ WF_vars(HandleShow(r))

FairSpec == Spec /\ Fairness

-----------------------------------------------------------------------------

\* A bag of messages for each router.
Queues(q) ==
  /\ DOMAIN q = Routers
  /\ \A r \in Routers : IsABag(q[r]) /\ \A m \in Sent(q[r]) : IsMessage(m)

TypeOK ==
  /\ table \in [Routers -> Tables]
  /\ neighbor \in [Routers -> Neighbors]
  /\ up \in [Routers -> BOOLEAN]
  /\ Queues(pending) /\ Queues(waiting)
  /\ overwritten \in 0..MaxOverwritten
  /\ agentPc \in {"idle", "dv", "show", "dead"}
  /\ target \in Routers
  /\ answer \in BOOLEAN
  /\ given \in 0..MaxCommands
  /\ advertised \in BOOLEAN

Usable(row) == row.cost >= 0

\* No route is shorter than a path that exists: whatever the order in which
\* tables are merged, and whichever connections are lost.
NeverTooShort ==
  \A r, d \in Routers : Usable(table[r][d]) => table[r][d].cost >= Dist(Links)[r][d]

\* Packets cannot go round in a circle: the next router on the way to d is d or
\* has a route that is shorter by the link to it.
NextIsCloser ==
  \A r \in Routers : \A d \in Routers \ {r} :
    LET row == table[r][d] IN
    Usable(row) =>
      /\ neighbor[r][row.next] > 0
      /\ row.next = d \/ /\ Usable(table[row.next][d])
                         /\ table[row.next][d].cost + neighbor[r][row.next] <= row.cost

ShortestRoutes ==
  \A r, d \in Routers : table[r][d].cost = Dist(Links)[r][d]

\* The routing algorithm (README.md:3): once dv has been sent to all routers, all
\* their routes become shortest ones, unless a connection is lost or the agent
\* goes on to change a link.
Converges == advertised ~> (ShortestRoutes \/ overwritten > 0 \/ ~advertised)

\* The routers always come to rest again: what one tells its neighbours makes
\* them tell theirs, and this ends (MergeRow, flag; all can reach each other).
ComesToRest == []<>Quiet

\* When the routers have come to rest, the routes are the shortest ones for the
\* links as they are now, changed at both ends or not at all.  (Rows that
\* a reset has wiped are never written again.)
ShortestWhenQuiet ==
  Quiet /\ agentPc = "idle" /\ advertised /\ Symmetric /\ overwritten = 0
    => ShortestRoutes \/ \E r, d \in Routers : table[r][d].dest # d

\* "not neighbors, drop msg" (router.c:170): a router that has carried out all
\* the commands given has no route through a router that is not its neighbour,
\* whatever was on its way when the link was removed.
NextIsNeighbor ==
  \A r \in Routers :
    up[r] /\ (\A m \in Sent(pending[r]) \cup Sent(waiting[r]) : m.id # 0) =>
      \A d \in Routers \ {r} :
        Usable(table[r][d]) => neighbor[r][table[r][d].next] >= 0

\* A table with a row that names no router.  A reset leaves such rows, and they go
\* from router to router with the tables that are merged.
Wiped(rows) == \E d \in Routers : rows[d].dest = 0

\* Nothing dies without a reset (router.c:149, rip.c:70).  update finds the row it
\* looks for, instead of writing behind the table, unless rows of its table are
\* wiped; and the routers and the agent that send to a router that is not running,
\* and die of it, are never the first to die.
OnlyResetKills ==
  agentPc = "dead" \/ (\E r \in Routers : ~up[r]) =>
    \E r \in Routers : ~up[r] /\ Wiped(table[r])

\* Show gets its answer, unless its connection is lost.
ShowReturns == (agentPc = "show") ~> (agentPc # "show" \/ overwritten > 0)
=============================================================================
