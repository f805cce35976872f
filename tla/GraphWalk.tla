------------------------------- MODULE GraphWalk -------------------------------
(***************************************************************************)
(* The breadth-first walk every graph query is built on                    *)
(* (graph_traversal._walk_records), one step per node taken from the queue *)
(* and one per adjacent link followed.                                     *)
(*                                                                         *)
(* The links of a node are followed in the order of their ids; here in any *)
(* order, of which that is one.  max_depth None is a depth no path         *)
(* reaches.  The walk upstream is this walk over the links turned round,   *)
(* and a relation filter only makes the set of links smaller.              *)
(***************************************************************************)
EXTENDS InfluenceGraph, Sequences

CONSTANTS
    Nodes,      \* the objects of the project
    Graphs,     \* the link sets to walk
    Depths      \* the values of max_depth

(* max_depth None                                                          *)
NoLimit == -1

ASSUME GraphsAssumption ==
    /\ IsFiniteSet(Nodes)
    /\ \A g \in Graphs : \A l \in g : Source(l) \in Nodes /\ Target(l) \in Nodes
    /\ Depths \subseteq Nat \cup {NoLimit}

VARIABLES
    links,      \* the graph walked
    root,       \* object_id
    depth,      \* max_depth
    queue,      \* [node, distance, path], first in first out
    current,    \* the entry taken from the queue last
    todo,       \* its adjacent links not yet followed
    visited,    \* nodes ever put in the queue
    seen,       \* links followed (ordered_edge_ids)
    records     \* what the walk returns: [object, link, distance, path]

vars == << links, root, depth, queue, current, todo, visited, seen, records >>

Start(n) == [node |-> n, distance |-> 0, path |-> << >>]

Init ==
    /\ links \in Graphs
    /\ root \in Nodes
    /\ depth \in Depths
    /\ queue = << Start(root) >>
    /\ current = Start(root)
    /\ todo = {}
    /\ visited = {root}
    /\ seen = {}
    /\ records = {}

AtLimit_NoneIsZero(entry) == entry.distance >= depth

(* A node at the depth limit is not expanded.                              *)
AtLimit(entry) == depth # NoLimit /\ entry.distance >= depth

(* queue.popleft()                                                         *)
PopNode ==
    /\ todo = {}
    /\ queue # << >>
    /\ current' = Head(queue)
    /\ queue' = Tail(queue)
    /\ todo' = IF AtLimit(Head(queue)) THEN {} ELSE OutLinks(links, Head(queue).node)
    /\ UNCHANGED << links, root, depth, visited, seen, records >>

Entry_LastLinkOnly(l) ==
    [node |-> Target(l), distance |-> current.distance + 1, path |-> << l >>]

Entry(l) ==
    [node |-> Target(l), distance |-> current.distance + 1, path |-> Append(current.path, l)]

Recorded_FirstVisitOnly(l) ==
    IF Target(l) \in visited THEN {}
    ELSE {[object |-> Target(l), link |-> l, distance |-> Entry(l).distance, path |-> Entry(l).path]}

(* Every link to another object than the root is recorded, those to        *)
(* objects already visited included.                                       *)
Recorded(l) ==
    IF Target(l) = root THEN {}
    ELSE {[object |-> Target(l), link |-> l, distance |-> Entry(l).distance, path |-> Entry(l).path]}

(* The body of the inner loop; a node seen for the first time is queued.   *)
FollowLink(l) ==
    /\ todo' = todo \ {l}
    /\ seen' = seen \cup {l}
    /\ records' = records \cup Recorded(l)
    /\ IF Target(l) \in visited
       THEN UNCHANGED << queue, visited >>
       ELSE visited' = visited \cup {Target(l)} /\ queue' = Append(queue, Entry(l))
    /\ UNCHANGED << links, root, depth, current >>

Next == PopNode \/ \E l \in todo : FollowLink(l)

Spec == Init /\ [][Next]_vars /\ WF_vars(Next)

Done == queue = << >> /\ todo = {}

-----------------------------------------------------------------------------
(* bounded_subgraph without a layer filter, of the downstream walk alone.  *)
SubgraphNodes == {root} \cup UNION {{Target(r.path[i]) : i \in DOMAIN r.path} : r \in records}

SubgraphLinks == {l \in seen : l.from \in SubgraphNodes /\ l.to \in SubgraphNodes}

(* The depth of the closed form: no shortest way has more links than there *)
(* are nodes.                                                              *)
Limit == IF depth = NoLimit THEN Cardinality(Nodes) ELSE depth

-----------------------------------------------------------------------------
(* Properties.                                                             *)

Entries == [node : Nodes, distance : Nat, path : Seq(links)]

TypeOK ==
    /\ root \in Nodes /\ depth \in Depths
    /\ \A l \in links : Source(l) \in Nodes /\ Target(l) \in Nodes
    /\ visited \subseteq Nodes
    /\ current \in Entries /\ queue \in Seq(Entries)
    /\ todo \subseteq OutLinks(links, current.node) \ seen
    /\ seen \subseteq links

(* When the walk ends it has recorded, whatever the order in which links   *)
(* were followed, exactly the links out of the objects nearer than         *)
(* max_depth, each with the length of the shortest way to it: what         *)
(* descendants, the impact analysis and the candidates rest on.            *)
WalkIsComplete ==
    Done => {[object |-> r.object, link |-> r.link, distance |-> r.distance] : r \in records}
            = WalkRecords(links, root, Limit)

(* The path shown for an affected object is a way through the graph from   *)
(* the root to it, as long as the distance shown and no longer than        *)
(* max_depth.                                                              *)
IsWay(path, length) ==
    /\ Len(path) = length
    /\ \A i \in 1 .. length :
          Source(path[i]) = IF i = 1 THEN root ELSE Target(path[i - 1])

PathsLeadFromTheRoot ==
    \A r \in records :
        /\ r.path \in Seq(links) /\ IsWay(r.path, r.distance)
        /\ r.distance > 0 /\ Target(r.path[r.distance]) = r.object
        /\ depth # NoLimit => r.distance <= depth

(* Without a depth limit the walk visits every object the root influences  *)
(* over any number of links, and no other: the visited objects are the     *)
(* smallest set that holds the root and is closed under influence.         *)
ClosedUnder(S) == root \in S /\ \A l \in links : Source(l) \in S => Target(l) \in S

VisitsWhatIsReachable ==
    /\ \A S \in SUBSET Nodes : ClosedUnder(S) => visited \subseteq S
    /\ Done /\ depth = NoLimit => ClosedUnder(visited)

(* A bounded subgraph holds what lies within the depth and every link out  *)
(* of the objects nearer than it, links back to the root included.         *)
SubgraphIsWhole ==
    Done => /\ SubgraphNodes = Within(links, root, Limit)
            /\ SubgraphLinks = {l \in links : Limit > 0 /\ Source(l) \in Within(links, root, Limit - 1)}
=============================================================================
