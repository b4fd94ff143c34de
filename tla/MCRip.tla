-------------------------------- MODULE MCRip ---------------------------------
(***************************************************************************)
(* Instances of Rip for TLC.                                               *)
(***************************************************************************)
EXTENDS RipInvariant

NoPath == 1000000

\* The length of the shortest path between any two routers, or -1.
ShortestDist(links) ==
  LET Step(a, b) == IF a = b THEN 0 ELSE IF links[a][b] >= 0 THEN links[a][b] ELSE NoPath
      Least(S) == CHOOSE x \in S : \A y \in S : x <= y
      Within[k \in 1..RtNum] ==      \* at most k links
        [a, b \in Routers |->
           IF k = 1 THEN Step(a, b)
           ELSE Least({Within[k - 1][a, c] + Step(c, b) : c \in Routers})]
      all == Within[RtNum]
  IN [a \in Routers |-> [b \in Routers |->
        IF all[a, b] < NoPath THEN all[a, b] ELSE -1]]

\* A topology file in which both ends of a link state the same cost: c[n] for
\* the link n,n+1 and last for the link that joins the last router to the first.
Topology(c, last) ==
  [a \in Routers |-> [b \in Routers |->
     IF b = a + 1 THEN c[a]
     ELSE IF a = b + 1 THEN c[b]
     ELSE IF {a, b} = {1, RtNum} THEN last
     ELSE -1]]

\* Three routers in a chain with links of different cost, and in a triangle with
\* a link that is as long as the way round.
RouteConfs == {Topology(<<1, 2>>, -1), Topology(<<1, 1>>, 2)}

\* A chain of routers, each link at cost 1.
Chain == {Topology([n \in Routers |-> 1], -1)}

\* Two routers and the link between them.
Pair == {Topology(<<1>>, -1)}

\* What the stack may hold where exchange reads d_xy: any small cost.
Garbage == -1..1

\* The link between two routers gets a new cost, stated at both ends.
BothEnds(a, b, cost) == {<<a, b, cost>>, <<b, a, cost>>}
LinkLowered == BothEnds(2, 3, 1)
PairChanged == BothEnds(1, 2, 2) \cup BothEnds(1, 2, 1001)
LinkRaised == BothEnds(2, 3, 4)
PairCut == {<<1, 2, 1001>>}

\* The links of RouteConfs, as they are and with one or both ends lowered.
RouteLinks ==
  LET files == {LinksOf(conf) : conf \in RouteConfs}
      once(S) == S \cup {Changed(links, c) : links \in S, c \in LinkLowered}
  IN once(once(files))

\* What the theorems about routes take for granted holds of three routers with these
\* links.
ASSUME RouteLinksAreCalm ==
  RtNum = 3 /\ Confs = RouteConfs /\ Changes = LinkLowered =>
    /\ CalmLinks(RouteLinks)
    /\ \A links \in RouteLinks : ShortestInTwo(links) /\ NeighborsSuffice(links)
=============================================================================
