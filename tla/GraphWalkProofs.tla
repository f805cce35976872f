--------------------------- MODULE GraphWalkProofs ---------------------------
(***************************************************************************)
(* The walk over any set of links, from any object, to any depth, and in   *)
(* whatever order the links of a node are followed: what it visits, what   *)
(* it records, and that the distances it records are the shortest.         *)
(***************************************************************************)
EXTENDS GraphWalk, RecursionProofs, SequenceTheorems, FiniteSetTheorems

\* Everything queued has been visited.
QueuedIsVisited ==
    /\ root \in visited
    /\ \A i \in 1 .. Len(queue) : queue[i].node \in visited

\* No object waits twice, and none whose links were followed, or are being
\* followed, waits again.
NoneTwice ==
    /\ \A i, j \in 1 .. Len(queue) : queue[i].node = queue[j].node => i = j
    /\ \A l \in seen \cup todo :
          /\ Source(l) \in visited
          /\ \A i \in 1 .. Len(queue) : queue[i].node # Source(l)

\* Without a depth limit the far end of a link out of a visited object is
\* visited too, unless the object is queued or the link still to be followed.
FrontierIsPending ==
    depth = NoLimit =>
        \A l \in links : Source(l) \in visited =>
            \/ Target(l) \in visited
            \/ l \in todo
            \/ \E i \in 1 .. Len(queue) : queue[i].node = Source(l)

VisitsOnlyReachable == \A S \in SUBSET Nodes : ClosedUnder(S) => visited \subseteq S

WalkInv == TypeOK /\ QueuedIsVisited /\ NoneTwice /\ FrontierIsPending /\ VisitsOnlyReachable

LEMMA InitWalkInv == Init => WalkInv
<1> SUFFICES ASSUME Init PROVE WalkInv
    OBVIOUS
<1> USE GraphsAssumption
<1>1. Start(root) \in Entries
    BY DEF Init, Start, Entries
<1>2. TypeOK
    BY <1>1 DEF Init, TypeOK
<1>3. /\ Len(queue) = 1 /\ queue[1].node = root
    BY DEF Init, Start
<1>4. QueuedIsVisited /\ NoneTwice
    BY <1>3 DEF Init, QueuedIsVisited, NoneTwice
<1>5. FrontierIsPending
    BY <1>3 DEF Init, FrontierIsPending
<1>6. VisitsOnlyReachable
    BY DEF Init, VisitsOnlyReachable, ClosedUnder
<1>7. QED
    BY <1>2, <1>4, <1>5, <1>6 DEF WalkInv

LEMMA PopKeepsWalkInv ==
    ASSUME WalkInv, PopNode PROVE WalkInv'
<1> USE DEF WalkInv
<1> DEFINE head == Head(queue)
<1>1. /\ Len(queue) \in Nat /\ Len(queue) > 0
      /\ head = queue[1] /\ head \in Entries
      /\ Tail(queue) \in Seq(Entries)
      /\ Len(queue') = Len(queue) - 1
      /\ \A i \in 1 .. Len(queue') : queue'[i] = queue[i + 1] /\ i + 1 \in 1 .. Len(queue)
    BY HeadTailProperties DEF PopNode, TypeOK
<1>2. todo = {} /\ seen \subseteq links /\ todo' \subseteq OutLinks(links, head.node)
    BY DEF PopNode, TypeOK
<1>3. \A l \in OutLinks(links, head.node) : l \in links /\ Source(l) = head.node
    BY DEF OutLinks
<1>4. \A l \in seen : Source(l) # head.node
    BY <1>1 DEF NoneTwice
<1>5. TypeOK'
    <2>1. todo' \subseteq OutLinks(links, head.node) \ seen
        BY <1>2, <1>3, <1>4
    <2>2. Entries' = Entries
        BY DEF PopNode, Entries
    <2>3. QED
        BY <1>1, <2>1, <2>2 DEF PopNode, TypeOK
<1>6. QueuedIsVisited'
    BY <1>1 DEF PopNode, QueuedIsVisited
<1>7. NoneTwice'
    <2>1. \A i, j \in 1 .. Len(queue') : queue'[i].node = queue'[j].node => i = j
        BY <1>1 DEF NoneTwice
    <2>2. \A i \in 1 .. Len(queue') : queue'[i].node # head.node
        <3>1. SUFFICES ASSUME NEW i \in 1 .. Len(queue'), queue'[i].node = head.node PROVE FALSE
            OBVIOUS
        <3>2. queue[i + 1].node = queue[1].node /\ i + 1 \in 1 .. Len(queue) /\ 1 \in 1 .. Len(queue)
            BY <1>1, <3>1
        <3>3. QED
            BY <1>1, <3>1, <3>2 DEF NoneTwice
    <2>3. ASSUME NEW l \in seen' \cup todo'
          PROVE  Source(l) \in visited' /\ \A i \in 1 .. Len(queue') : queue'[i].node # Source(l)
        <3>1. CASE l \in seen'
            BY <1>1, <3>1 DEF PopNode, NoneTwice
        <3>2. CASE l \in todo'
            <4>1. Source(l) = head.node
                BY <3>2, <1>2, <1>3
            <4>2. head.node \in visited'
                BY <1>1 DEF PopNode, QueuedIsVisited
            <4>3. QED
                BY <4>1, <4>2, <2>2
        <3>3. QED
            BY <2>3, <3>1, <3>2
    <2>4. QED
        BY <2>1, <2>3 DEF NoneTwice
<1>8. FrontierIsPending'
    <2>1. SUFFICES ASSUME depth = NoLimit, NEW l \in links, Source(l) \in visited,
                          Target(l) \notin visited
                   PROVE  l \in todo' \/ \E i \in 1 .. Len(queue') : queue'[i].node = Source(l)
        BY DEF FrontierIsPending, PopNode
    <2>2. PICK i \in 1 .. Len(queue) : queue[i].node = Source(l)
        BY <2>1, <1>2 DEF FrontierIsPending
    <2>3. CASE i = 1
        <3>1. l \in OutLinks(links, head.node)
            BY <1>1, <2>1, <2>2, <2>3 DEF OutLinks
        <3>2. todo' = OutLinks(links, head.node)
            BY <2>1 DEF PopNode, AtLimit
        <3>3. QED
            BY <3>1, <3>2
    <2>4. CASE i # 1
        <3>1. i - 1 \in 1 .. Len(queue') /\ (i - 1) + 1 = i
            BY <1>1, <2>2, <2>4
        <3>2. queue'[i - 1] = queue[i]
            BY <1>1, <3>1
        <3>3. QED
            BY <2>2, <3>1, <3>2
    <2>5. QED
        BY <2>3, <2>4
<1>9. VisitsOnlyReachable'
    BY DEF PopNode, VisitsOnlyReachable, ClosedUnder
<1>10. QED
    BY <1>5, <1>6, <1>7, <1>8, <1>9

LEMMA FollowKeepsWalkInv ==
    ASSUME WalkInv, NEW l \in todo, FollowLink(l) PROVE WalkInv'
<1> USE DEF WalkInv
<1>1. /\ l \in links /\ Source(l) = current.node /\ l \notin seen
      /\ Source(l) \in Nodes /\ Target(l) \in Nodes
      /\ Source(l) \in visited
    BY DEF TypeOK, OutLinks, NoneTwice
<1>2. Entry(l) \in Entries /\ Entry(l).node = Target(l)
    <2>1. Append(current.path, l) \in Seq(links)
        BY <1>1, AppendProperties DEF TypeOK, Entries
    <2>2. QED
        BY <1>1, <2>1 DEF TypeOK, Entry, Entries
<1>3. /\ links' = links /\ root' = root /\ depth' = depth /\ current' = current
      /\ todo' = todo \ {l} /\ seen' = seen \cup {l}
    BY DEF FollowLink
<1>4. CASE Target(l) \in visited
    <2>1. queue' = queue /\ visited' = visited
        BY <1>4 DEF FollowLink
    <2>2. TypeOK'
        BY <1>1, <1>3, <2>1 DEF TypeOK, Entries, OutLinks
    <2>3. QueuedIsVisited' /\ VisitsOnlyReachable'
        BY <1>3, <2>1 DEF QueuedIsVisited, VisitsOnlyReachable, ClosedUnder
    <2>4. NoneTwice'
        BY <1>3, <2>1 DEF NoneTwice
    <2>5. FrontierIsPending'
        BY <1>3, <1>4, <2>1 DEF FrontierIsPending
    <2>6. QED
        BY <2>2, <2>3, <2>4, <2>5
<1>5. CASE Target(l) \notin visited
    <2>1. queue' = Append(queue, Entry(l)) /\ visited' = visited \cup {Target(l)}
        BY <1>5 DEF FollowLink
    <2>2. /\ queue' \in Seq(Entries) /\ Len(queue) \in Nat /\ Len(queue') = Len(queue) + 1
          /\ \A i \in 1 .. Len(queue) : queue'[i] = queue[i]
          /\ queue'[Len(queue) + 1] = Entry(l)
        BY <1>2, <2>1, AppendProperties DEF TypeOK
    <2>3. TypeOK'
        BY <1>1, <1>3, <2>1, <2>2 DEF TypeOK, Entries, OutLinks
    <2>4. QueuedIsVisited'
        BY <1>2, <1>3, <2>1, <2>2 DEF QueuedIsVisited
    <2>5. NoneTwice'
        <3>1. ASSUME NEW i \in 1 .. Len(queue'), NEW j \in 1 .. Len(queue'),
                     queue'[i].node = queue'[j].node
              PROVE  i = j
            <4>1. CASE i \in 1 .. Len(queue) /\ j \in 1 .. Len(queue)
                BY <2>2, <3>1, <4>1 DEF NoneTwice
            <4>2. CASE i = Len(queue) + 1 /\ j \in 1 .. Len(queue)
                BY <1>2, <1>5, <2>2, <3>1, <4>2 DEF QueuedIsVisited
            <4>3. CASE j = Len(queue) + 1 /\ i \in 1 .. Len(queue)
                BY <1>2, <1>5, <2>2, <3>1, <4>3 DEF QueuedIsVisited
            <4>4. QED
                BY <2>2, <3>1, <4>1, <4>2, <4>3
        <3>2. ASSUME NEW k \in seen' \cup todo'
              PROVE  Source(k) \in visited' /\ \A i \in 1 .. Len(queue') : queue'[i].node # Source(k)
            <4>1. k \in seen \cup todo
                BY <1>3, <3>2
            <4>2. Source(k) \in visited /\ \A i \in 1 .. Len(queue) : queue[i].node # Source(k)
                BY <4>1 DEF NoneTwice
            <4>3. queue'[Len(queue) + 1].node # Source(k)
                BY <1>2, <1>5, <2>2, <4>2
            <4>4. QED
                BY <2>1, <2>2, <4>2, <4>3
        <3>3. QED
            BY <3>1, <3>2 DEF NoneTwice
    <2>6. FrontierIsPending'
        <3>1. SUFFICES ASSUME depth = NoLimit, NEW k \in links, Source(k) \in visited',
                              Target(k) \notin visited'
                       PROVE  k \in todo' \/ \E i \in 1 .. Len(queue') : queue'[i].node = Source(k)
            BY <1>3 DEF FrontierIsPending
        <3>2. CASE Source(k) \in visited
            <4>1. k \in todo \/ \E i \in 1 .. Len(queue) : queue[i].node = Source(k)
                BY <3>1, <3>2, <2>1 DEF FrontierIsPending
            <4>2. k # l
                BY <3>1, <2>1
            <4>3. QED
                BY <1>3, <2>2, <4>1, <4>2
        <3>3. CASE Source(k) = Target(l)
            <4>1. Len(queue) + 1 \in 1 .. Len(queue')
                BY <2>2
            <4>2. QED
                BY <1>2, <2>2, <3>3, <4>1
        <3>4. QED
            BY <3>1, <2>1, <3>2, <3>3
    <2>7. VisitsOnlyReachable'
        BY <1>1, <1>3, <2>1 DEF VisitsOnlyReachable, ClosedUnder
    <2>8. QED
        BY <2>3, <2>4, <2>5, <2>6, <2>7
<1>6. QED
    BY <1>4, <1>5

LEMMA WalkInvariant == Spec => []WalkInv
<1>1. ASSUME WalkInv, [Next]_vars PROVE WalkInv'
    <2>1. CASE PopNode
        BY <1>1, <2>1, PopKeepsWalkInv
    <2>2. CASE \E l \in todo : FollowLink(l)
        BY <1>1, <2>2, FollowKeepsWalkInv
    <2>3. CASE UNCHANGED vars
        BY <1>1, <2>3 DEF vars, WalkInv, TypeOK, Entries, QueuedIsVisited, NoneTwice,
                          FrontierIsPending, VisitsOnlyReachable, ClosedUnder
    <2>4. QED
        BY <1>1, <2>1, <2>2, <2>3 DEF Next
<1>2. QED
    BY <1>1, InitWalkInv, PTL DEF Spec

-----------------------------------------------------------------------------
\* The walk visits nothing the root does not influence, and when it ends
\* without a depth limit it has visited everything the root influences over
\* any number of links.
THEOREM WalkFindsAllInfluenced == Spec => []VisitsWhatIsReachable
<1>1. WalkInv => VisitsWhatIsReachable
    <2>1. SUFFICES ASSUME WalkInv, Done, depth = NoLimit PROVE ClosedUnder(visited)
        BY DEF VisitsWhatIsReachable, WalkInv, VisitsOnlyReachable
    <2>2. Len(queue) = 0 /\ todo = {}
        BY <2>1 DEF Done
    <2>3. root \in visited
        BY <2>1 DEF WalkInv, QueuedIsVisited
    <2>4. ASSUME NEW l \in links, Source(l) \in visited PROVE Target(l) \in visited
        BY <2>1, <2>2, <2>4 DEF WalkInv, FrontierIsPending
    <2>5. QED
        BY <2>3, <2>4 DEF ClosedUnder
<1>2. QED
    BY <1>1, WalkInvariant, PTL

\* The variables of the walk are typed: the links still to be followed are
\* links out of the object taken last, and none was followed before.
THEOREM WalkTypeCorrect == Spec => []TypeOK
<1>1. WalkInv => TypeOK
    BY DEF WalkInv
<1>2. QED
    BY <1>1, WalkInvariant, PTL

-----------------------------------------------------------------------------
\* An entry of the queue carries a way from the root to its object.
LeadsTo(e) ==
    /\ IsWay(e.path, e.distance)
    /\ e.node = IF e.distance = 0 THEN root ELSE Target(e.path[e.distance])

PathInv ==
    /\ LeadsTo(current) /\ \A i \in 1 .. Len(queue) : LeadsTo(queue[i])
    /\ todo # {} => ~ AtLimit(current)
    /\ PathsLeadFromTheRoot

LEMMA InitPathInv == Init => PathInv
<1> SUFFICES ASSUME Init PROVE PathInv
    OBVIOUS
<1>1. Len(queue) = 1 /\ queue[1] = current /\ current.distance = 0 /\ current.node = root
      /\ current.path = << >>
    BY DEF Init, Start
<1>2. LeadsTo(current)
    BY <1>1 DEF LeadsTo, IsWay
<1>3. QED
    BY <1>1, <1>2 DEF Init, PathInv, PathsLeadFromTheRoot

\* Following a link lengthens the way to the object it leaves by that link.
LEMMA EntryLeadsTo ==
    ASSUME TypeOK, LeadsTo(current), NEW l \in todo
    PROVE  /\ LeadsTo(Entry(l)) /\ Entry(l).path \in Seq(links) /\ Entry(l).distance \in Nat
           /\ Entry(l).distance > 0 /\ Target(Entry(l).path[Entry(l).distance]) = Target(l)
<1> DEFINE p == Append(current.path, l)
           n == current.distance
<1>1. /\ n \in Nat /\ current.path \in Seq(links) /\ l \in links /\ Source(l) = current.node
      /\ Len(current.path) = n
    BY DEF TypeOK, Entries, OutLinks, LeadsTo, IsWay
<1>2. /\ p \in Seq(links) /\ Len(p) = n + 1 /\ p[n + 1] = l
      /\ \A i \in 1 .. n : p[i] = current.path[i]
    BY <1>1, AppendProperties
<1>3. Entry(l).path = p /\ Entry(l).distance = n + 1 /\ Entry(l).node = Target(l)
    BY DEF Entry
<1>4. ASSUME NEW i \in 1 .. n + 1
      PROVE  Source(p[i]) = IF i = 1 THEN root ELSE Target(p[i - 1])
    <2>1. CASE i \in 1 .. n
        <3>1. p[i] = current.path[i] /\ (i # 1 => i - 1 \in 1 .. n)
            BY <1>1, <1>2, <2>1
        <3>2. i # 1 => p[i - 1] = current.path[i - 1]
            BY <1>2, <3>1
        <3>3. QED
            BY <1>1, <2>1, <3>1, <3>2 DEF LeadsTo, IsWay
    <2>2. CASE i = n + 1
        <3>1. Source(p[i]) = current.node
            BY <1>1, <1>2, <2>2
        <3>2. CASE n = 0
            BY <3>1, <3>2, <2>2 DEF LeadsTo
        <3>3. CASE n # 0
            <4>1. i # 1 /\ i - 1 = n /\ n \in 1 .. n
                BY <1>1, <2>2, <3>3
            <4>2. p[i - 1] = current.path[n]
                BY <1>2, <4>1
            <4>3. QED
                BY <3>1, <3>3, <4>1, <4>2 DEF LeadsTo
        <3>4. QED
            BY <3>2, <3>3
    <2>3. QED
        BY <1>1, <2>1, <2>2
<1>5. IsWay(Entry(l).path, Entry(l).distance)
    BY <1>2, <1>3, <1>4 DEF IsWay
<1>6. QED
    BY <1>1, <1>2, <1>3, <1>5 DEF LeadsTo

LEMMA NextPathInv ==
    ASSUME TypeOK, PathInv, [Next]_vars PROVE PathInv'
<1>1. CASE PopNode
    <2>1. /\ Len(queue) \in Nat /\ Len(queue) > 0 /\ Head(queue) = queue[1]
          /\ Len(queue') = Len(queue) - 1
          /\ \A i \in 1 .. Len(queue') : queue'[i] = queue[i + 1] /\ i + 1 \in 1 .. Len(queue)
        BY <1>1, HeadTailProperties DEF PopNode, TypeOK
    <2>2. current' = Head(queue) /\ root' = root /\ records' = records /\ depth' = depth
          /\ links' = links
        BY <1>1 DEF PopNode
    <2>3. LeadsTo(current)' /\ \A i \in 1 .. Len(queue') : LeadsTo(queue[i])'
        <3>1. \A j \in 1 .. Len(queue) : LeadsTo(queue[j])
            BY DEF PathInv
        <3>2. LeadsTo(queue[1]) /\ current' = queue[1]
            BY <2>1, <2>2, <3>1
        <3>3. LeadsTo(current)'
            BY <2>2, <3>2 DEF LeadsTo, IsWay
        <3>4. ASSUME NEW i \in 1 .. Len(queue') PROVE LeadsTo(queue[i])'
            <4>1. LeadsTo(queue[i + 1]) /\ queue'[i] = queue[i + 1]
                BY <2>1, <3>1
            <4>2. QED
                BY <2>2, <4>1 DEF LeadsTo, IsWay
        <3>5. QED
            BY <3>3, <3>4
    <2>4. (todo # {} => ~ AtLimit(current))'
        BY <1>1, <2>2 DEF PopNode, AtLimit
    <2>5. PathsLeadFromTheRoot'
        BY <2>2 DEF PathInv, PathsLeadFromTheRoot, IsWay
    <2>6. QED
        BY <2>3, <2>4, <2>5 DEF PathInv
<1>2. ASSUME NEW l \in todo, FollowLink(l) PROVE PathInv'
    <2> DEFINE e == Entry(l)
    <2>1. /\ LeadsTo(e) /\ e.path \in Seq(links) /\ e.distance \in Nat
          /\ e.distance > 0 /\ Target(e.path[e.distance]) = Target(l)
        BY EntryLeadsTo DEF PathInv
    <2>2. /\ links' = links /\ root' = root /\ depth' = depth /\ current' = current
          /\ todo' = todo \ {l} /\ records' = records \cup Recorded(l)
        BY <1>2 DEF FollowLink
    <2>3. LeadsTo(current)' /\ (todo # {} => ~ AtLimit(current))'
        BY <2>2 DEF PathInv, LeadsTo, IsWay, AtLimit
    <2>4. ASSUME NEW i \in 1 .. Len(queue') PROVE LeadsTo(queue[i])'
        <3>1. CASE Target(l) \in visited
            BY <1>2, <2>2, <2>4, <3>1 DEF FollowLink, PathInv, LeadsTo, IsWay
        <3>2. CASE Target(l) \notin visited
            <4>1. queue' = Append(queue, e)
                BY <1>2, <3>2 DEF FollowLink
            <4>2. e \in Entries
                BY <2>1 DEF TypeOK, Entries, Entry, OutLinks
            <4>3. /\ Len(queue) \in Nat /\ Len(queue') = Len(queue) + 1 /\ queue'[Len(queue) + 1] = e
                  /\ \A j \in 1 .. Len(queue) : queue'[j] = queue[j]
                BY <4>1, <4>2, AppendProperties DEF TypeOK
            <4>4. queue'[i] = e \/ (i \in 1 .. Len(queue) /\ queue'[i] = queue[i])
                BY <2>4, <4>3
            <4>5. QED
                BY <2>1, <2>2, <4>4 DEF PathInv, LeadsTo, IsWay
        <3>3. QED
            BY <3>1, <3>2
    <2>5. PathsLeadFromTheRoot'
        <3>1. SUFFICES ASSUME NEW r \in Recorded(l)
                       PROVE  /\ r.path \in Seq(links) /\ IsWay(r.path, r.distance)
                              /\ r.distance > 0 /\ Target(r.path[r.distance]) = r.object
                              /\ depth # NoLimit => r.distance <= depth
            BY <2>2 DEF PathInv, PathsLeadFromTheRoot, IsWay
        <3>2. r.path = e.path /\ r.distance = e.distance /\ r.object = Target(l)
            BY DEF Recorded
        <3>3. depth # NoLimit => e.distance <= depth
            <4>1. SUFFICES ASSUME depth # NoLimit PROVE e.distance <= depth
                OBVIOUS
            <4>2. depth \in Nat /\ current.distance \in Nat
                BY <4>1, GraphsAssumption DEF TypeOK, Entries
            <4>3. current.distance < depth
                BY <4>1, <4>2 DEF PathInv, AtLimit
            <4>4. e.distance = current.distance + 1
                BY DEF Entry
            <4>5. QED
                BY <4>2, <4>3, <4>4
        <3>4. QED
            BY <2>1, <3>2, <3>3 DEF LeadsTo
    <2>6. QED
        BY <2>3, <2>4, <2>5 DEF PathInv
<1>3. CASE UNCHANGED vars
    BY <1>3 DEF vars, PathInv, LeadsTo, IsWay, AtLimit, PathsLeadFromTheRoot
<1>4. QED
    BY <1>1, <1>2, <1>3 DEF Next

\* Whatever is recorded, at any moment of the walk, comes with a way from the
\* root to it of the length shown, within max_depth.
THEOREM PathsAreWays == Spec => []PathsLeadFromTheRoot
<1>1. PathInv => PathsLeadFromTheRoot
    BY DEF PathInv
<1>2. Spec => []TypeOK
    BY WalkTypeCorrect
<1>3. QED
    BY <1>1, <1>2, InitPathInv, NextPathInv, PTL DEF Spec

-----------------------------------------------------------------------------
(* How far the root's influence reaches, link by link.                       *)

\* What lies one link further than S.
Onward(G, S) == S \cup {Target(l) : l \in {k \in G : Source(k) \in S}}

\* w follows the links of G from r for d steps.
Widens(w, G, r, d) ==
    w = [n \in 0 .. d |->
            IF n = 0 THEN {r}
            ELSE w[n - 1] \cup {Target(l) : l \in {k \in G : Source(k) \in w[n - 1]}}]

IsGraph(G) == \A l \in G : Source(l) \in Nodes /\ Target(l) \in Nodes

\* f has what is within n links of r, for any n.
Measures(f, G, r) ==
    /\ f \in [Nat -> SUBSET Nodes] /\ f[0] = {r}
    /\ \A n \in Nat : f[n + 1] = Onward(G, f[n]) /\ Within(G, r, n) = f[n]

LEMMA WideningExists ==
    ASSUME NEW G, IsGraph(G), NEW r \in Nodes
    PROVE  \E f : Measures(f, G, r)
<1> DEFINE S == SUBSET Nodes
           step == [X \in S |-> Onward(G, X)]
<1>1. {r} \in S /\ step \in [S -> S]
    BY DEF IsGraph, Onward
<1>2. PICK f \in [Nat -> S] : Iterates(f, {r}, step)
    <2> HIDE DEF S, step
    <2>1. QED
        BY <1>1, RecursionIsDefined
<1>3. f[0] = {r}
    BY <1>2 DEF Iterates
<1>4. ASSUME NEW n \in Nat PROVE f[n + 1] = Onward(G, f[n])
    <2>1. n + 1 \in Nat /\ n + 1 # 0 /\ (n + 1) - 1 = n
        OBVIOUS
    <2>2. f[n + 1] = step[f[n]]
        <3> HIDE DEF S, step
        <3>1. QED
            BY <1>2, <2>1 DEF Iterates
    <2>3. QED
        BY <2>2
<1>5. ASSUME NEW d \in Nat PROVE Within(G, r, d) = f[d]
    <2> DEFINE wide(w) == [n \in 0 .. d |->
            IF n = 0 THEN {r}
            ELSE w[n - 1] \cup {Target(l) : l \in {k \in G : Source(k) \in w[n - 1]}}]
    <2> DEFINE g == [n \in 0 .. d |-> f[n]]
    <2>1. Widens(g, G, r, d)
        <3>1. ASSUME NEW n \in 0 .. d
              PROVE  g[n] = IF n = 0 THEN {r}
                            ELSE g[n - 1] \cup {Target(l) : l \in {k \in G : Source(k) \in g[n - 1]}}
            <4>1. CASE n = 0
                BY <1>3, <4>1
            <4>2. CASE n # 0
                <5>1. n - 1 \in 0 .. d /\ n - 1 \in Nat /\ (n - 1) + 1 = n
                    BY <4>2
                <5>2. g[n - 1] = f[n - 1] /\ g[n] = f[n]
                    BY <5>1
                <5>3. f[n] = Onward(G, f[n - 1])
                    BY <1>4, <5>1
                <5> HIDE DEF g
                <5>4. QED
                    BY <4>2, <5>2, <5>3 DEF Onward
            <4>3. QED
                BY <4>1, <4>2
        <3>2. g = [n \in 0 .. d |-> g[n]]
            OBVIOUS
        <3> HIDE DEF g
        <3>3. QED
            BY <3>1, <3>2 DEF Widens
    <2> DEFINE h == CHOOSE w : Widens(w, G, r, d)
    <2>2. Widens(h, G, r, d)
        <3> HIDE DEF g
        <3>1. QED
            BY <2>1
    <2>3. Within(G, r, d) = h[d]
        BY DEF Within, Widens
    <2> HIDE DEF h
    <2> DEFINE T == {n \in Nat : n <= d => h[n] = f[n]}
    <2>4. 0 \in T
        BY <2>2, <1>3 DEF Widens
    <2>5. ASSUME NEW n \in Nat, n \in T PROVE n + 1 \in T
        <3>1. SUFFICES ASSUME n + 1 <= d PROVE h[n + 1] = f[n + 1]
            OBVIOUS
        <3>2. n + 1 \in 0 .. d /\ n + 1 # 0 /\ (n + 1) - 1 = n /\ h[n] = f[n]
            BY <2>5, <3>1
        <3>3. h[n + 1] = Onward(G, h[n])
            BY <2>2, <3>2 DEF Widens, Onward
        <3>4. QED
            BY <1>4, <3>2, <3>3
    <2> HIDE DEF T
    <2>6. Nat \subseteq T
        BY <2>4, <2>5, SetInduction
    <2>7. h[d] = f[d]
        BY <2>6 DEF T
    <2>8. QED
        BY <2>3, <2>7
<1>6. f \in [Nat -> SUBSET Nodes]
    BY <1>2
<1>7. Measures(f, G, r)
    BY <1>3, <1>4, <1>5, <1>6 DEF Measures
<1>8. QED
    BY <1>7

\* Within, link by link.
LEMMA WithinStep ==
    ASSUME NEW G, IsGraph(G), NEW r \in Nodes
    PROVE  /\ Within(G, r, 0) = {r}
           /\ \A n \in Nat : Within(G, r, n) \subseteq Nodes
           /\ \A n \in Nat : Within(G, r, n + 1) = Onward(G, Within(G, r, n))
<1>1. PICK f : Measures(f, G, r)
    BY WideningExists
<1>2. QED
    BY <1>1 DEF Measures

LEMMA WithinGrows ==
    ASSUME NEW G, IsGraph(G), NEW r \in Nodes
    PROVE  \A m, n \in Nat : m <= n => Within(G, r, m) \subseteq Within(G, r, n)
<1> SUFFICES ASSUME NEW m \in Nat PROVE \A n \in Nat : m <= n => Within(G, r, m) \subseteq Within(G, r, n)
    OBVIOUS
<1> DEFINE T == {n \in Nat : m <= n => Within(G, r, m) \subseteq Within(G, r, n)}
<1>1. 0 \in T
    <2>1. m <= 0 => m = 0
        OBVIOUS
    <2>2. QED
        BY <2>1
<1>2. ASSUME NEW n \in Nat, n \in T PROVE n + 1 \in T
    <2>1. Within(G, r, n) \subseteq Within(G, r, n + 1)
        BY WithinStep DEF Onward
    <2>2. m <= n + 1 => m <= n \/ m = n + 1
        OBVIOUS
    <2>3. QED
        BY <1>2, <2>1, <2>2
<1> HIDE DEF T
<1>3. Nat \subseteq T
    BY <1>1, <1>2, SetInduction
<1>4. QED
    BY <1>3 DEF T

\* A shortest way has fewer links than there are nodes: once a further link
\* leads to nothing new none ever does, and until then every link does.
LEMMA WithinSaturates ==
    ASSUME NEW G, IsGraph(G), NEW r \in Nodes, IsFiniteSet(Nodes), NEW n \in Nat
    PROVE  /\ Cardinality(Nodes) \in Nat \ {0}
           /\ Within(G, r, n) \subseteq Within(G, r, Cardinality(Nodes) - 1)
<1> DEFINE w(i) == Within(G, r, i)
           N == Cardinality(Nodes)
<1>1. \A i \in Nat : /\ w(i) \subseteq Nodes /\ w(i + 1) = Onward(G, w(i))
                     /\ IsFiniteSet(w(i)) /\ Cardinality(w(i)) \in Nat
    BY WithinStep, FS_Subset, FS_CardinalityType
<1>2. w(0) = {r} /\ Cardinality(w(0)) = 1
    <2>1. Cardinality({r}) = 1
        BY FS_Singleton
    <2>2. QED
        BY <2>1, WithinStep
<1>3. \A i, j \in Nat : i <= j => w(i) \subseteq w(j)
    BY WithinGrows
<1> HIDE DEF w
<1>4. N \in Nat \ {0}
    <2>1. N \in Nat /\ 1 <= N
        BY <1>1, <1>2, FS_Subset, FS_CardinalityType
    <2>2. QED
        BY <2>1
<1> DEFINE T == {i \in Nat : i + 1 <= Cardinality(w(i)) \/ w(i + 1) = w(i)}
<1>5. 0 \in T
    BY <1>2
<1>6. ASSUME NEW i \in Nat, i \in T PROVE i + 1 \in T
    <2>1. i + 1 \in Nat /\ w(i) \subseteq w(i + 1) /\ w(i + 1) \subseteq w((i + 1) + 1)
        BY <1>3
    <2>2. CASE w(i + 1) = w(i)
        BY <2>1, <2>2, <1>1
    <2>3. CASE w(i + 1) # w(i)
        <3>1. i + 1 <= Cardinality(w(i))
            BY <1>6, <2>3
        <3>2. Cardinality(w(i)) <= Cardinality(w(i + 1)) /\ Cardinality(w(i)) # Cardinality(w(i + 1))
            BY <1>1, <2>1, <2>3, FS_Subset
        <3>3. (i + 1) + 1 <= Cardinality(w(i + 1))
            BY <1>1, <2>1, <3>1, <3>2
        <3>4. QED
            BY <2>1, <3>3
    <2>4. QED
        BY <2>2, <2>3
<1> HIDE DEF T
<1>7. Nat \subseteq T
    BY <1>5, <1>6, SetInduction
<1>8. w((N - 1) + 1) = w(N - 1)
    <2>1. N - 1 \in Nat /\ (N - 1) + 1 = N
        BY <1>4
    <2>2. CASE N <= Cardinality(w(N - 1))
        <3>1. Cardinality(w(N - 1)) <= N
            BY <1>1, <2>1, FS_Subset
        <3>2. Cardinality(w(N - 1)) = N
            BY <1>1, <1>4, <2>1, <2>2, <3>1
        <3>3. w(N - 1) = Nodes
            BY <1>1, <2>1, <3>2, FS_Subset
        <3>4. w(N - 1) \subseteq w((N - 1) + 1) /\ w((N - 1) + 1) \subseteq Nodes
            BY <1>1, <1>3, <2>1
        <3>5. QED
            BY <3>3, <3>4
    <2>3. QED
        BY <1>7, <2>1, <2>2 DEF T
<1> DEFINE U == {i \in Nat : w(i) \subseteq w(N - 1)}
<1>9. Nat \subseteq U
    <2>1. 0 \in U
        BY <1>3, <1>4
    <2>2. ASSUME NEW i \in Nat, i \in U PROVE i + 1 \in U
        <3>1. w(i + 1) \subseteq Onward(G, w(N - 1))
            BY <1>1, <2>2 DEF Onward
        <3>2. QED
            BY <1>1, <1>4, <1>8, <3>1
    <2> HIDE DEF U
    <2>3. QED
        BY <2>1, <2>2, SetInduction
<1>10. QED
    BY <1>4, <1>9 DEF w

-----------------------------------------------------------------------------
\* The objects within n links of the root of this walk.
Near(n) == Within(links, root, n)

IsNearest(o, n) == o \in Near(n) /\ \A m \in Nat : m < n => o \notin Near(m)

\* The walk follows the links out of these objects.
IsExpanded(o) == \E m \in Nat : o \in Near(m) /\ (depth # NoLimit => m < depth)

\* The queue is in the order of the distances, which differ by one at most.
DistancesAreOrdered ==
    /\ \A i, j \in 1 .. Len(queue) : i <= j => queue[i].distance <= queue[j].distance
    /\ \A i \in 1 .. Len(queue) : /\ current.distance <= queue[i].distance
                                  /\ queue[i].distance <= current.distance + 1

\* Entries come with the smallest distance of their object, and what is as
\* near as the object at hand has been seen.
DistancesAreShortest ==
    /\ IsNearest(current.node, current.distance)
    /\ \A i \in 1 .. Len(queue) :
          /\ IsNearest(queue[i].node, queue[i].distance)
          /\ depth # NoLimit => queue[i].distance <= depth
    /\ Near(current.distance) \subseteq visited

\* Of the links out of visited objects none is forgotten.
LinksArePending ==
    /\ \A l \in links : Source(l) \in visited /\ IsExpanded(Source(l)) =>
          \/ l \in seen \cup todo
          \/ \E i \in 1 .. Len(queue) : queue[i].node = Source(l)
    /\ \A l \in seen \cup todo : IsExpanded(Source(l))
    /\ \A l \in seen : Target(l) \in visited
    /\ todo # {} => ~ AtLimit(current)

\* A record for every link followed, but for those back to the root.
RecordsAreSeen ==
    /\ \A r \in records :
          /\ r.link \in seen /\ r.object = Target(r.link) /\ r.object # root
          /\ r.distance - 1 \in Nat /\ r.distance = (r.distance - 1) + 1
          /\ IsNearest(Source(r.link), r.distance - 1)
    /\ \A l \in seen : Target(l) # root => \E r \in records : r.link = l

ShortestInv == DistancesAreOrdered /\ DistancesAreShortest /\ LinksArePending /\ RecordsAreSeen

\* The distances of this walk's graph.
LEMMA NearStep ==
    ASSUME TypeOK
    PROVE  /\ Near(0) = {root}
           /\ \A n \in Nat : Near(n) \subseteq Nodes /\ Near(n + 1) = Onward(links, Near(n))
           /\ \A m, n \in Nat : m <= n => Near(m) \subseteq Near(n)
<1>1. IsGraph(links) /\ root \in Nodes
    BY DEF TypeOK, IsGraph
<1>2. QED
    BY <1>1, WithinStep, WithinGrows DEF Near

LEMMA InitShortestInv == Init => ShortestInv
<1> SUFFICES ASSUME Init PROVE ShortestInv
    OBVIOUS
<1>1. TypeOK
    BY InitWalkInv DEF WalkInv
<1>2. /\ Len(queue) = 1 /\ queue[1] = current /\ current.distance = 0 /\ current.node = root
      /\ todo = {} /\ seen = {} /\ records = {} /\ visited = {root}
    BY DEF Init, Start
<1>3. IsNearest(root, 0)
    BY <1>1, NearStep DEF IsNearest
<1>4. depth # NoLimit => 0 <= depth
    BY <1>1, GraphsAssumption DEF TypeOK
<1>5. QED
    BY <1>1, <1>2, <1>3, <1>4, NearStep
       DEF ShortestInv, DistancesAreOrdered, DistancesAreShortest, LinksArePending, RecordsAreSeen

\* What stands still while the walk goes on.
LEMMA GraphStays ==
    ASSUME UNCHANGED << links, root, depth >>
    PROVE  /\ \A n : Near(n)' = Near(n)
           /\ \A o, n : IsNearest(o, n)' = IsNearest(o, n)
           /\ \A o : IsExpanded(o)' = IsExpanded(o)
<1>1. \A n : Near(n)' = Near(n)
    BY DEF Near
<1>2. QED
    BY <1>1 DEF IsNearest, IsExpanded

\* The object at hand is the nearest of those whose links are still to follow.
LEMMA NoneNearerWaits ==
    ASSUME TypeOK, ShortestInv, todo = {}, queue # << >>, NEW l \in links,
           NEW m \in Nat, Source(l) \in Near(m), m < queue[1].distance
    PROVE  Target(l) \in visited /\ Near(m) \subseteq visited
<1> DEFINE k == current.distance
           h == queue[1].distance
<1>1. /\ Len(queue) \in Nat /\ Len(queue) > 0 /\ 1 \in 1 .. Len(queue)
      /\ \A i \in 1 .. Len(queue) : queue[i].distance \in Nat
      /\ k \in Nat /\ h \in Nat
    <2>1. queue \in Seq(Entries) /\ current \in Entries
        BY DEF TypeOK
    <2>2. Len(queue) \in Nat /\ Len(queue) > 0 /\ 1 \in 1 .. Len(queue)
        BY <2>1
    <2>3. \A i \in 1 .. Len(queue) : queue[i] \in Entries
        BY <2>1
    <2>4. \A e \in Entries : e.distance \in Nat
        BY DEF Entries
    <2>5. QED
        BY <2>1, <2>2, <2>3, <2>4
<1>2. k <= h /\ h <= k + 1 /\ \A i \in 1 .. Len(queue) : h <= queue[i].distance
    BY <1>1 DEF ShortestInv, DistancesAreOrdered
<1>3. m <= k
    BY <1>1, <1>2
<1>4. Near(m) \subseteq visited
    BY <1>1, <1>3, NearStep DEF ShortestInv, DistancesAreShortest
<1>5. \A i \in 1 .. Len(queue) : queue[i].node # Source(l)
    BY <1>1, <1>2 DEF ShortestInv, DistancesAreShortest, IsNearest
<1>6. IsExpanded(Source(l))
    <2>1. depth # NoLimit => m < depth
        <3>1. depth # NoLimit => h <= depth /\ depth \in Nat
            BY <1>1, GraphsAssumption DEF ShortestInv, DistancesAreShortest, TypeOK
        <3>2. QED
            BY <1>1, <3>1
    <2>2. QED
        BY <2>1 DEF IsExpanded
<1>7. l \in seen
    BY <1>4, <1>5, <1>6 DEF ShortestInv, LinksArePending
<1>8. QED
    BY <1>4, <1>7 DEF ShortestInv, LinksArePending


LEMMA PopKeepsShortestInv ==
    ASSUME WalkInv, ShortestInv, PopNode PROVE ShortestInv'
<1> DEFINE h == Head(queue)
<1>1. /\ Len(queue) \in Nat /\ Len(queue) > 0 /\ 1 \in 1 .. Len(queue)
      /\ h = queue[1] /\ h \in Entries
      /\ Len(queue') = Len(queue) - 1
      /\ \A i \in 1 .. Len(queue') : queue'[i] = queue[i + 1] /\ i + 1 \in 1 .. Len(queue)
    BY HeadTailProperties DEF PopNode, TypeOK, WalkInv
<1>2. /\ TypeOK /\ todo = {} /\ queue # << >> /\ current' = h
      /\ links' = links /\ root' = root /\ depth' = depth
      /\ visited' = visited /\ seen' = seen /\ records' = records
      /\ todo' = IF AtLimit(h) THEN {} ELSE OutLinks(links, h.node)
    BY DEF PopNode, WalkInv
<1>3. /\ h.distance \in Nat /\ current.distance \in Nat
      /\ \A i \in 1 .. Len(queue) : queue[i].distance \in Nat
    <2>1. \A e \in Entries : e.distance \in Nat
        BY DEF Entries
    <2>2. queue \in Seq(Entries) /\ current \in Entries
        BY <1>2 DEF TypeOK
    <2>3. QED
        BY <1>1, <2>1, <2>2
<1>4. /\ \A n : Near(n)' = Near(n)
      /\ \A o, n : IsNearest(o, n)' = IsNearest(o, n)
      /\ \A o : IsExpanded(o)' = IsExpanded(o)
    BY <1>2, GraphStays
<1> HIDE DEF h
<1>5. DistancesAreOrdered'
    <2>1. \A i, j \in 1 .. Len(queue) : i <= j => queue[i].distance <= queue[j].distance
        BY DEF ShortestInv, DistancesAreOrdered
    <2>2. \A i \in 1 .. Len(queue) : /\ current.distance <= queue[i].distance
                                     /\ queue[i].distance <= current.distance + 1
        BY DEF ShortestInv, DistancesAreOrdered
    <2>3. ASSUME NEW i \in 1 .. Len(queue'), NEW j \in 1 .. Len(queue'), i <= j
          PROVE  queue'[i].distance <= queue'[j].distance
        <3>1. i + 1 <= j + 1
            BY <1>1, <2>3
        <3>2. QED
            BY <1>1, <2>1, <3>1
    <2>4. ASSUME NEW i \in 1 .. Len(queue')
          PROVE  h.distance <= queue'[i].distance /\ queue'[i].distance <= h.distance + 1
        <3>1. 1 <= i + 1 /\ queue'[i] = queue[i + 1] /\ i + 1 \in 1 .. Len(queue)
            BY <1>1
        <3>2. h.distance <= queue'[i].distance
            BY <1>1, <2>1, <3>1
        <3>3. queue'[i].distance <= current.distance + 1 /\ current.distance <= h.distance
            BY <1>1, <2>2, <3>1
        <3>4. QED
            BY <1>3, <3>1, <3>2, <3>3
    <2>5. QED
        BY <1>2, <2>3, <2>4 DEF DistancesAreOrdered
<1>6. DistancesAreShortest'
    <2>1. IsNearest(h.node, h.distance)
        BY <1>1 DEF ShortestInv, DistancesAreShortest
    <2>2. \A i \in 1 .. Len(queue') : /\ IsNearest(queue'[i].node, queue'[i].distance)
                                      /\ depth # NoLimit => queue'[i].distance <= depth
        BY <1>1 DEF ShortestInv, DistancesAreShortest
    <2>3. Near(h.distance) \subseteq visited
        <3>1. CASE h.distance = 0
            BY <1>2, <3>1, NearStep DEF WalkInv, QueuedIsVisited
        <3>2. CASE h.distance # 0
            <4> DEFINE m == h.distance - 1
            <4>1. m \in Nat /\ m + 1 = h.distance /\ m < queue[1].distance
                BY <1>1, <1>3, <3>2
            <4> HIDE DEF m
            <4>2. Near(h.distance) = Near(m) \cup {Target(l) : l \in {k \in links : Source(k) \in Near(m)}}
                BY <1>2, <4>1, NearStep DEF Onward
            <4>3. ASSUME NEW l \in links, Source(l) \in Near(m) PROVE Target(l) \in visited
                BY <1>2, <4>1, <4>3, NoneNearerWaits
            <4>4. Near(m) \subseteq visited
                <5>1. m <= current.distance
                    BY <1>1, <1>3, <4>1 DEF ShortestInv, DistancesAreOrdered
                <5>2. QED
                    BY <1>2, <1>3, <4>1, <5>1, NearStep DEF ShortestInv, DistancesAreShortest
            <4>5. QED
                BY <4>2, <4>3, <4>4
        <3>3. QED
            BY <3>1, <3>2
    <2>4. QED
        BY <1>2, <1>4, <2>1, <2>2, <2>3 DEF DistancesAreShortest
<1>7. IsExpanded(h.node) <=> ~ AtLimit(h)
    <2>1. IsNearest(h.node, h.distance)
        BY <1>1 DEF ShortestInv, DistancesAreShortest
    <2>2. depth # NoLimit => depth \in Nat
        BY <1>2, GraphsAssumption DEF TypeOK
    <2>3. CASE depth = NoLimit
        BY <1>3, <2>1, <2>3 DEF IsExpanded, AtLimit, IsNearest
    <2>4. CASE depth # NoLimit /\ h.distance < depth
        BY <1>3, <2>1, <2>2, <2>4 DEF IsExpanded, AtLimit, IsNearest
    <2>5. CASE depth # NoLimit /\ ~ (h.distance < depth)
        <3>1. AtLimit(h)
            BY <1>3, <2>2, <2>5 DEF AtLimit
        <3>2. ~ IsExpanded(h.node)
            <4>1. SUFFICES ASSUME NEW m \in Nat, h.node \in Near(m), m < depth PROVE FALSE
                BY <2>5 DEF IsExpanded
            <4>2. m < h.distance
                BY <1>3, <2>2, <2>5, <4>1
            <4>3. QED
                BY <2>1, <4>1, <4>2 DEF IsNearest
        <3>3. QED
            BY <3>1, <3>2
    <2>6. QED
        BY <2>3, <2>4, <2>5
<1>8. LinksArePending'
    <2>1. ASSUME NEW l \in links, Source(l) \in visited, IsExpanded(Source(l))
          PROVE  l \in seen \cup todo' \/ \E i \in 1 .. Len(queue') : queue'[i].node = Source(l)
        <3>1. l \in seen \/ \E i \in 1 .. Len(queue) : queue[i].node = Source(l)
            BY <1>2, <2>1 DEF ShortestInv, LinksArePending
        <3>2. ASSUME NEW i \in 1 .. Len(queue), queue[i].node = Source(l)
              PROVE  l \in todo' \/ \E j \in 1 .. Len(queue') : queue'[j].node = Source(l)
            <4>1. CASE i = 1
                BY <1>1, <1>2, <1>7, <2>1, <3>2, <4>1 DEF OutLinks
            <4>2. CASE i # 1
                <5>1. i - 1 \in 1 .. Len(queue') /\ (i - 1) + 1 = i
                    BY <1>1, <4>2
                <5>2. queue'[i - 1] = queue[i]
                    BY <1>1, <5>1
                <5>3. QED
                    BY <3>2, <5>1, <5>2
            <4>3. QED
                BY <4>1, <4>2
        <3>3. QED
            BY <3>1, <3>2
    <2>2. ASSUME NEW l \in seen \cup todo' PROVE IsExpanded(Source(l))
        <3>1. CASE l \in seen
            BY <3>1 DEF ShortestInv, LinksArePending
        <3>2. CASE l \in todo'
            BY <1>2, <1>7, <3>2 DEF OutLinks
        <3>3. QED
            BY <3>1, <3>2
    <2>4. todo' # {} => ~ AtLimit(current)'
        BY <1>2 DEF AtLimit
    <2>5. QED
        BY <1>2, <1>4, <2>1, <2>2, <2>4 DEF ShortestInv, LinksArePending
<1>9. RecordsAreSeen'
    BY <1>2, <1>4 DEF ShortestInv, RecordsAreSeen
<1>10. QED
    BY <1>5, <1>6, <1>8, <1>9 DEF ShortestInv

LEMMA FollowKeepsShortestInv ==
    ASSUME WalkInv, ShortestInv, NEW l \in todo, FollowLink(l) PROVE ShortestInv'
<1> DEFINE k == current.distance
<1>1. /\ links' = links /\ root' = root /\ depth' = depth /\ current' = current
      /\ todo' = todo \ {l} /\ seen' = seen \cup {l} /\ records' = records \cup Recorded(l)
    BY DEF FollowLink
<1>2. /\ TypeOK /\ l \in links /\ Source(l) = current.node /\ ~ AtLimit(current)
      /\ Source(l) \in visited /\ IsExpanded(Source(l))
    BY DEF WalkInv, TypeOK, OutLinks, NoneTwice, ShortestInv, LinksArePending
<1>3. /\ \A n : Near(n)' = Near(n)
      /\ \A o, n : IsNearest(o, n)' = IsNearest(o, n)
      /\ \A o : IsExpanded(o)' = IsExpanded(o)
    BY <1>1, GraphStays
<1>4. /\ k \in Nat /\ \A i \in 1 .. Len(queue) : queue[i].distance \in Nat
      /\ Len(queue) \in Nat
    <2>1. \A e \in Entries : e.distance \in Nat
        BY DEF Entries
    <2>2. queue \in Seq(Entries) /\ current \in Entries
        BY <1>2 DEF TypeOK
    <2>3. QED
        BY <2>1, <2>2
<1>5. IsNearest(current.node, k) /\ Near(k) \subseteq visited
    BY DEF ShortestInv, DistancesAreShortest
<1>6. DistancesAreOrdered' /\ DistancesAreShortest'
      /\ (\A i \in 1 .. Len(queue) : \E j \in 1 .. Len(queue') : queue'[j] = queue[i])
      /\ visited' = visited \cup {Target(l)}
      /\ (Target(l) \notin visited => \E j \in 1 .. Len(queue') : queue'[j].node = Target(l))
    <2>1. CASE Target(l) \in visited
        <3>1. queue' = queue /\ visited' = visited
            BY <2>1 DEF FollowLink
        <3>2. QED
            BY <1>1, <1>3, <2>1, <3>1 DEF ShortestInv, DistancesAreOrdered, DistancesAreShortest
    <2>2. CASE Target(l) \notin visited
        <3> DEFINE e == Entry(l)
        <3>1. queue' = Append(queue, e) /\ visited' = visited \cup {Target(l)}
            BY <2>2 DEF FollowLink
        <3>2. /\ Len(queue') = Len(queue) + 1 /\ queue'[Len(queue) + 1] = e
              /\ \A i \in 1 .. Len(queue) : queue'[i] = queue[i] /\ i \in 1 .. Len(queue')
              /\ Len(queue) + 1 \in 1 .. Len(queue')
            <4>1. e \in Entries
                <5>1. l \in links /\ Target(l) \in Nodes /\ current.path \in Seq(links)
                    BY <1>2 DEF TypeOK, Entries
                <5>2. Append(current.path, l) \in Seq(links)
                    BY <5>1, AppendProperties
                <5>3. QED
                    BY <1>4, <5>1, <5>2 DEF Entry, Entries
            <4> HIDE DEF e
            <4>2. QED
                BY <1>2, <1>4, <3>1, <4>1, AppendProperties DEF TypeOK
        <3>3. e.distance = k + 1 /\ e.node = Target(l)
            BY DEF Entry
        <3> HIDE DEF e
        <3>4. IsNearest(Target(l), k + 1)
            <4>1. Target(l) \in Near(k + 1)
                BY <1>2, <1>4, <1>5, NearStep DEF Onward, IsNearest
            <4>2. ASSUME NEW m \in Nat, m < k + 1 PROVE Target(l) \notin Near(m)
                <5>1. m <= k
                    BY <1>4, <4>2
                <5>2. QED
                    BY <1>2, <1>4, <1>5, <2>2, <5>1, NearStep
            <4>3. QED
                BY <4>1, <4>2 DEF IsNearest
        <3>5. depth # NoLimit => k + 1 <= depth
            <4>1. depth # NoLimit => depth \in Nat
                BY <1>2, GraphsAssumption DEF TypeOK
            <4>2. QED
                BY <1>2, <1>4, <4>1 DEF AtLimit
        <3>6. DistancesAreOrdered'
            <4>1. \A i \in 1 .. Len(queue) : k <= queue[i].distance /\ queue[i].distance <= k + 1
                BY DEF ShortestInv, DistancesAreOrdered
            <4>2. ASSUME NEW i \in 1 .. Len(queue')
                  PROVE  k <= queue'[i].distance /\ queue'[i].distance <= k + 1
                <5>1. i \in 1 .. Len(queue) \/ i = Len(queue) + 1
                    BY <1>4, <3>2
                <5>2. QED
                    BY <1>4, <3>2, <3>3, <4>1, <5>1
            <4>3. ASSUME NEW i \in 1 .. Len(queue'), NEW j \in 1 .. Len(queue'), i <= j
                  PROVE  queue'[i].distance <= queue'[j].distance
                <5>1. CASE j = Len(queue) + 1
                    BY <3>2, <3>3, <4>2, <5>1
                <5>2. CASE j # Len(queue) + 1
                    <6>1. i \in 1 .. Len(queue) /\ j \in 1 .. Len(queue)
                        BY <1>4, <3>2, <4>3, <5>2
                    <6>2. QED
                        BY <3>2, <4>3, <6>1 DEF ShortestInv, DistancesAreOrdered
                <5>3. QED
                    BY <5>1, <5>2
            <4>4. QED
                BY <1>1, <4>2, <4>3 DEF DistancesAreOrdered
        <3>7. DistancesAreShortest'
            <4>1. ASSUME NEW i \in 1 .. Len(queue')
                  PROVE  /\ IsNearest(queue'[i].node, queue'[i].distance)
                         /\ depth # NoLimit => queue'[i].distance <= depth
                <5>1. i \in 1 .. Len(queue) \/ i = Len(queue) + 1
                    BY <1>4, <3>2
                <5>2. CASE i \in 1 .. Len(queue)
                    BY <3>2, <5>2 DEF ShortestInv, DistancesAreShortest
                <5>3. CASE i = Len(queue) + 1
                    BY <3>2, <3>3, <3>4, <3>5, <5>3
                <5>4. QED
                    BY <5>1, <5>2, <5>3
            <4>2. QED
                BY <1>1, <1>3, <1>5, <3>1, <4>1 DEF DistancesAreShortest
        <3>8. QED
            BY <3>1, <3>2, <3>3, <3>6, <3>7
    <2>3. QED
        BY <2>1, <2>2
<1>7. LinksArePending'
    <2>1. ASSUME NEW i \in links, Source(i) \in visited', IsExpanded(Source(i))
          PROVE  i \in seen' \cup todo' \/ \E j \in 1 .. Len(queue') : queue'[j].node = Source(i)
        <3>1. CASE Source(i) \in visited
            <4>1. i \in seen \cup todo \/ \E j \in 1 .. Len(queue) : queue[j].node = Source(i)
                BY <2>1, <3>1 DEF ShortestInv, LinksArePending
            <4>2. QED
                BY <1>1, <1>6, <4>1
        <3>2. CASE Source(i) \notin visited
            BY <1>6, <2>1, <3>2
        <3>3. QED
            BY <3>1, <3>2
    <2>2. \A i \in seen' \cup todo' : IsExpanded(Source(i))
        BY <1>1, <1>2 DEF ShortestInv, LinksArePending
    <2>3. \A i \in seen' : Target(i) \in visited'
        BY <1>1, <1>6 DEF ShortestInv, LinksArePending
    <2>4. ~ AtLimit(current)'
        BY <1>1, <1>2 DEF AtLimit
    <2>5. QED
        BY <1>1, <1>3, <2>1, <2>2, <2>3, <2>4 DEF LinksArePending
<1>8. RecordsAreSeen'
    <2>1. ASSUME NEW r \in Recorded(l)
          PROVE  /\ r.link = l /\ r.object = Target(l) /\ Target(l) # root
                 /\ r.distance = k + 1
        BY DEF Recorded, Entry
    <2>2. ASSUME NEW r \in Recorded(l)
          PROVE  /\ r.link \in seen' /\ r.object = Target(r.link) /\ r.object # root
                 /\ r.distance - 1 \in Nat /\ r.distance = (r.distance - 1) + 1
                 /\ IsNearest(Source(r.link), r.distance - 1)
        <3>1. r.distance - 1 = k
            BY <1>4, <2>1
        <3>2. QED
            BY <1>1, <1>2, <1>4, <1>5, <2>1, <3>1
    <2>3. Target(l) # root => \E r \in Recorded(l) : r.link = l
        BY DEF Recorded
    <2>4. QED
        BY <1>1, <1>3, <2>2, <2>3 DEF ShortestInv, RecordsAreSeen
<1>9. QED
    BY <1>6, <1>7, <1>8 DEF ShortestInv


LEMMA ShortestInvariant == Spec => []ShortestInv
<1>1. ASSUME WalkInv, ShortestInv, [Next]_vars PROVE ShortestInv'
    <2>1. CASE PopNode
        BY <1>1, <2>1, PopKeepsShortestInv
    <2>2. CASE \E l \in todo : FollowLink(l)
        BY <1>1, <2>2, FollowKeepsShortestInv
    <2>3. CASE UNCHANGED vars
        <3>1. /\ \A n : Near(n)' = Near(n)
              /\ \A o, n : IsNearest(o, n)' = IsNearest(o, n)
              /\ \A o : IsExpanded(o)' = IsExpanded(o)
            BY <2>3, GraphStays DEF vars
        <3>2. QED
            BY <1>1, <2>3, <3>1 DEF vars, ShortestInv, DistancesAreOrdered, DistancesAreShortest,
                                    LinksArePending, RecordsAreSeen, AtLimit
    <2>4. QED
        BY <1>1, <2>1, <2>2, <2>3 DEF Next
<1>2. QED
    BY <1>1, WalkInvariant, InitShortestInv, PTL DEF Spec

\* A walk that has ended has seen all that lies within its depth.
LEMMA AllNearAreVisited ==
    ASSUME WalkInv, ShortestInv, Done
    PROVE  \A n \in Nat : (depth # NoLimit => n <= depth) => Near(n) \subseteq visited
<1> DEFINE T == {n \in Nat : (depth # NoLimit => n <= depth) => Near(n) \subseteq visited}
<1>1. TypeOK /\ Len(queue) = 0 /\ todo = {}
    BY DEF Done, WalkInv
<1>2. 0 \in T
    BY <1>1, NearStep DEF WalkInv, QueuedIsVisited
<1>3. ASSUME NEW n \in Nat, n \in T PROVE n + 1 \in T
    <2>1. SUFFICES ASSUME depth # NoLimit => n + 1 <= depth PROVE Near(n + 1) \subseteq visited
        OBVIOUS
    <2>2. depth # NoLimit => n <= depth /\ n < depth
        BY <1>1, <2>1, GraphsAssumption DEF TypeOK
    <2>3. Near(n) \subseteq visited
        BY <1>3, <2>2
    <2>4. ASSUME NEW l \in links, Source(l) \in Near(n) PROVE Target(l) \in visited
        <3>1. IsExpanded(Source(l))
            BY <2>2, <2>4 DEF IsExpanded
        <3>2. l \in seen
            BY <1>1, <2>3, <2>4, <3>1 DEF ShortestInv, LinksArePending
        <3>3. QED
            BY <3>2 DEF ShortestInv, LinksArePending
    <2>5. Near(n + 1) = Near(n) \cup {Target(l) : l \in {k \in links : Source(k) \in Near(n)}}
        BY <1>1, NearStep DEF Onward
    <2>6. QED
        BY <2>3, <2>4, <2>5
<1> HIDE DEF T
<1>4. Nat \subseteq T
    BY <1>2, <1>3, SetInduction
<1>5. QED
    BY <1>4 DEF T

\* What a walk expands, in the terms of its closed form.
LEMMA ExpandedIsWithinLimit ==
    ASSUME TypeOK
    PROVE  /\ Limit \in Nat
           /\ \A o : IsExpanded(o) <=> Limit # 0 /\ o \in Near(Limit - 1)
<1>1. IsGraph(links) /\ root \in Nodes /\ (depth # NoLimit => depth \in Nat)
    BY GraphsAssumption DEF TypeOK, IsGraph
<1>2. CASE depth = NoLimit
    <2>1. Limit = Cardinality(Nodes)
        BY <1>2 DEF Limit
    <2>2. Limit \in Nat \ {0} /\ \A n \in Nat : Near(n) \subseteq Near(Limit - 1)
        BY <1>1, <2>1, WithinSaturates, GraphsAssumption DEF Near
    <2>3. Limit - 1 \in Nat
        BY <2>2
    <2>4. QED
        BY <1>2, <2>2, <2>3 DEF IsExpanded
<1>3. CASE depth # NoLimit
    <2>1. Limit = depth /\ depth \in Nat
        BY <1>1, <1>3 DEF Limit
    <2>2. ASSUME NEW o, IsExpanded(o) PROVE Limit # 0 /\ o \in Near(Limit - 1)
        <3>1. PICK m \in Nat : o \in Near(m) /\ m < depth
            BY <1>3, <2>2 DEF IsExpanded
        <3>2. depth # 0 /\ m <= depth - 1 /\ depth - 1 \in Nat
            BY <2>1, <3>1
        <3>3. QED
            BY <2>1, <3>1, <3>2, NearStep
    <2>3. ASSUME NEW o, Limit # 0, o \in Near(Limit - 1) PROVE IsExpanded(o)
        <3>1. depth - 1 \in Nat /\ depth - 1 < depth
            BY <2>1, <2>3
        <3>2. QED
            BY <2>1, <2>3, <3>1 DEF IsExpanded
    <2>4. QED
        BY <2>1, <2>2, <2>3
<1>4. QED
    BY <1>2, <1>3

\* The distance of the closed form is the smallest one.
LEMMA DistanceIsNearest ==
    ASSUME NEW o, NEW n \in Nat, NEW d \in Nat, IsNearest(o, n), n <= d
    PROVE  Distance(links, root, o, d) = n
<1> DEFINE D(m) == /\ o \in Within(links, root, m)
                   /\ \A i \in 0 .. m - 1 : o \notin Within(links, root, i)
<1>1. n \in 0 .. d /\ D(n)
    BY DEF IsNearest, Near
<1>2. ASSUME NEW m \in 0 .. d, D(m) PROVE m = n
    <2>1. ~ (m < n)
        BY <1>2 DEF IsNearest, Near
    <2>2. n < m => n \in 0 .. m - 1
        OBVIOUS
    <2>3. ~ (n < m)
        BY <1>1, <1>2, <2>2
    <2>4. QED
        BY <2>1, <2>3
<1>3. Distance(links, root, o, d) = CHOOSE m \in 0 .. d : D(m)
    BY DEF Distance
<1> HIDE DEF D
<1>4. QED
    BY <1>1, <1>2, <1>3

\* What a walk that has ended has followed, and what it has recorded of it.
LEMMA EndedWalk ==
    ASSUME WalkInv, ShortestInv, Done
    PROVE  /\ seen = {l \in links : IsExpanded(Source(l))}
           /\ \A l \in seen : Target(l) # root => \E r \in records : r.link = l
<1>1. TypeOK /\ Len(queue) = 0 /\ todo = {}
    BY DEF Done, WalkInv
<1>2. seen \subseteq links /\ \A l \in seen : IsExpanded(Source(l))
    BY <1>1 DEF TypeOK, ShortestInv, LinksArePending
<1>3. ASSUME NEW l \in links, IsExpanded(Source(l)) PROVE l \in seen
    <2>1. PICK m \in Nat : Source(l) \in Near(m) /\ (depth # NoLimit => m < depth)
        BY <1>3 DEF IsExpanded
    <2>2. depth # NoLimit => m <= depth
        BY <1>1, <2>1, GraphsAssumption DEF TypeOK
    <2>3. Source(l) \in visited
        BY <2>1, <2>2, AllNearAreVisited
    <2>4. QED
        BY <1>1, <1>3, <2>3 DEF ShortestInv, LinksArePending
<1>4. QED
    BY <1>2, <1>3 DEF ShortestInv, RecordsAreSeen

\* When the walk ends, whatever the order in which links were followed, it has
\* recorded exactly the links out of the objects nearer than max_depth, but
\* for those back to the root, each with the length of the shortest way.
THEOREM WalkIsShortest == Spec => []WalkIsComplete
<1>1. ASSUME WalkInv, ShortestInv PROVE WalkIsComplete
    <2> DEFINE entry(l) == [object |-> Target(l), link |-> l,
                            distance |-> Distance(links, root, Source(l), Limit) + 1]
               shown(r) == [object |-> r.object, link |-> r.link, distance |-> r.distance]
               all == {l \in links : IsExpanded(Source(l)) /\ Target(l) # root}
    <2>1. SUFFICES ASSUME Done
                   PROVE  {shown(r) : r \in records} = WalkRecords(links, root, Limit)
        BY DEF WalkIsComplete
    <2>2. TypeOK /\ Len(queue) = 0 /\ todo = {}
        BY <1>1, <2>1 DEF Done, WalkInv
    <2>3. Limit \in Nat /\ \A o : IsExpanded(o) <=> Limit # 0 /\ o \in Near(Limit - 1)
        BY <2>2, ExpandedIsWithinLimit
    <2>4. WalkRecords(links, root, Limit) = {entry(l) : l \in all}
        BY <2>3 DEF WalkRecords, Near
    <2>5. /\ seen = {l \in links : IsExpanded(Source(l))}
          /\ \A l \in seen : Target(l) # root => \E r \in records : r.link = l
        BY <1>1, <2>1, EndedWalk
    <2>6. ASSUME NEW r \in records PROVE r.link \in all /\ shown(r) = entry(r.link)
        <3>1. /\ r.link \in seen /\ r.object = Target(r.link) /\ r.object # root
              /\ r.distance - 1 \in Nat /\ r.distance = (r.distance - 1) + 1
              /\ IsNearest(Source(r.link), r.distance - 1)
            BY <1>1 DEF ShortestInv, RecordsAreSeen
        <3>2. r.link \in all
            BY <2>5, <3>1
        <3>3. r.distance - 1 <= Limit
            <4>1. Limit # 0 /\ Source(r.link) \in Near(Limit - 1)
                BY <2>3, <3>2
            <4>2. Limit - 1 \in Nat
                BY <2>3, <4>1
            <4>3. ~ (Limit - 1 < r.distance - 1)
                BY <3>1, <4>1, <4>2 DEF IsNearest
            <4>4. QED
                BY <2>3, <3>1, <4>2, <4>3
        <3>4. Distance(links, root, Source(r.link), Limit) = r.distance - 1
            BY <2>3, <3>1, <3>3, DistanceIsNearest
        <3>5. QED
            BY <3>1, <3>2, <3>4
    <2>7. ASSUME NEW l \in all PROVE \E r \in records : r.link = l
        BY <2>5
    <2> HIDE DEF entry, shown, all
    <2>8. QED
        BY <2>4, <2>6, <2>7
<1>2. QED
    BY <1>1, WalkInvariant, ShortestInvariant, PTL


-----------------------------------------------------------------------------
\* Along a way from the root the i-th link leads to what lies within i links.
LEMMA WaysStayNear ==
    ASSUME TypeOK, NEW path \in Seq(links), NEW n \in Nat, IsWay(path, n)
    PROVE  \A i \in 1 .. n : Target(path[i]) \in Near(i)
<1> DEFINE T == {i \in Nat : i + 1 <= n => Target(path[i + 1]) \in Near(i + 1)}
<1>1. \A i \in 1 .. n : path[i] \in links
    BY DEF IsWay
<1>2. 0 \in T
    <2>1. SUFFICES ASSUME 1 <= n PROVE Target(path[1]) \in Near(0 + 1)
        OBVIOUS
    <2>2. path[1] \in links /\ Source(path[1]) = root
        <3>1. 1 \in 1 .. n
            BY <2>1
        <3>2. QED
            BY <1>1, <3>1 DEF IsWay
    <2>3. 0 \in Nat /\ Near(0) = {root} /\ Near(0 + 1) = Onward(links, Near(0))
        BY NearStep
    <2>4. QED
        BY <2>2, <2>3 DEF Onward
<1>3. ASSUME NEW i \in Nat, i \in T PROVE i + 1 \in T
    <2>1. SUFFICES ASSUME (i + 1) + 1 <= n PROVE Target(path[(i + 1) + 1]) \in Near((i + 1) + 1)
        OBVIOUS
    <2> DEFINE j == (i + 1) + 1
    <2>2. j \in 1 .. n /\ j # 1 /\ j - 1 = i + 1 /\ i + 1 <= n /\ i + 1 \in Nat
        BY <2>1
    <2>3. path[j] \in links /\ Source(path[j]) = Target(path[i + 1])
        BY <1>1, <2>2 DEF IsWay
    <2>4. Target(path[i + 1]) \in Near(i + 1)
        BY <1>3, <2>2
    <2>5. QED
        BY <2>2, <2>3, <2>4, NearStep DEF Onward
<1> HIDE DEF T
<1>4. Nat \subseteq T
    BY <1>2, <1>3, SetInduction
<1>5. ASSUME NEW i \in 1 .. n PROVE Target(path[i]) \in Near(i)
    <2>1. i - 1 \in Nat /\ (i - 1) + 1 = i /\ i <= n
        OBVIOUS
    <2>2. QED
        BY <1>4, <2>1 DEF T
<1>6. QED
    BY <1>5

LEMMA PathInvariant == Spec => []PathInv
<1>1. QED
    BY WalkTypeCorrect, InitPathInv, NextPathInv, PTL DEF Spec

\* A bounded subgraph has all that lies within the depth, and with it all links
\* out of the objects nearer than the depth, those back to the root included.
THEOREM SubgraphsAreWhole == Spec => []SubgraphIsWhole
<1>1. ASSUME WalkInv, ShortestInv, PathInv PROVE SubgraphIsWhole
    <2>1. SUFFICES ASSUME Done
                   PROVE  /\ SubgraphNodes = Near(Limit)
                          /\ SubgraphLinks = {l \in links : Limit > 0 /\ Source(l) \in Near(Limit - 1)}
        BY DEF SubgraphIsWhole, Near
    <2>2. TypeOK
        BY <1>1 DEF WalkInv
    <2>3. Limit \in Nat /\ \A o : IsExpanded(o) <=> Limit # 0 /\ o \in Near(Limit - 1)
        BY <2>2, ExpandedIsWithinLimit
    <2>4. /\ seen = {l \in links : IsExpanded(Source(l))}
          /\ \A l \in seen : Target(l) # root => \E r \in records : r.link = l
        BY <1>1, <2>1, EndedWalk
    <2>5. root \in Near(Limit) /\ root \in SubgraphNodes
        <3>1. Near(0) \subseteq Near(Limit)
            BY <2>2, <2>3, NearStep
        <3>2. QED
            BY <2>2, <3>1, NearStep DEF SubgraphNodes
    <2>6. ASSUME NEW r \in records
          PROVE  /\ r.path \in Seq(links) /\ IsWay(r.path, r.distance) /\ r.distance \in Nat \ {0}
                 /\ DOMAIN r.path = 1 .. r.distance /\ Target(r.path[r.distance]) = r.object
                 /\ r.distance <= Limit
        <3>1. /\ r.path \in Seq(links) /\ IsWay(r.path, r.distance)
              /\ r.distance > 0 /\ Target(r.path[r.distance]) = r.object
            BY <1>1 DEF PathInv, PathsLeadFromTheRoot
        <3>2. /\ r.link \in seen /\ r.distance - 1 \in Nat /\ r.distance = (r.distance - 1) + 1
              /\ IsNearest(Source(r.link), r.distance - 1)
            BY <1>1 DEF ShortestInv, RecordsAreSeen
        <3>3. Limit # 0 /\ Source(r.link) \in Near(Limit - 1)
            BY <2>3, <2>4, <3>2
        <3>4. Limit - 1 \in Nat
            BY <2>3, <3>3
        <3>5. ~ (Limit - 1 < r.distance - 1)
            BY <3>2, <3>3, <3>4 DEF IsNearest
        <3>6. r.distance <= Limit /\ r.distance \in Nat \ {0}
            BY <2>3, <3>2, <3>4, <3>5
        <3>7. DOMAIN r.path = 1 .. r.distance
            BY <3>1 DEF IsWay
        <3>8. QED
            BY <3>1, <3>6, <3>7
    <2>7. ASSUME NEW r \in records, NEW i \in DOMAIN r.path PROVE Target(r.path[i]) \in Near(Limit)
        <3>1. i \in 1 .. r.distance /\ i \in Nat /\ i <= Limit
            BY <2>3, <2>6
        <3>2. Target(r.path[i]) \in Near(i)
            BY <2>2, <2>6, <3>1, WaysStayNear
        <3>3. Near(i) \subseteq Near(Limit)
            BY <2>2, <2>3, <3>1, NearStep
        <3>4. QED
            BY <3>2, <3>3
    <2>8. ASSUME NEW r \in records PROVE r.object \in SubgraphNodes
        <3>1. r.distance \in DOMAIN r.path /\ Target(r.path[r.distance]) = r.object
            BY <2>6
        <3>2. QED
            BY <3>1 DEF SubgraphNodes
    <2>9. ASSUME NEW l \in seen PROVE Target(l) \in SubgraphNodes
        <3>1. CASE Target(l) = root
            BY <2>5, <3>1
        <3>2. CASE Target(l) # root
            <4>1. PICK r \in records : r.link = l
                BY <2>4, <2>9, <3>2
            <4>2. r.object = Target(l)
                BY <1>1, <4>1 DEF ShortestInv, RecordsAreSeen
            <4>3. QED
                BY <2>8, <4>2
        <3>3. QED
            BY <3>1, <3>2
    <2> DEFINE T == {n \in Nat : n <= Limit => Near(n) \subseteq SubgraphNodes}
    <2>10. Nat \subseteq T
        <3>1. 0 \in T
            BY <2>2, <2>5, NearStep
        <3>2. ASSUME NEW n \in Nat, n \in T PROVE n + 1 \in T
            <4>1. SUFFICES ASSUME n + 1 <= Limit PROVE Near(n + 1) \subseteq SubgraphNodes
                OBVIOUS
            <4>2. /\ n <= Limit /\ Limit # 0 /\ Limit - 1 \in Nat /\ n <= Limit - 1
                BY <2>3, <4>1
            <4>3. Near(n) \subseteq Near(Limit - 1)
                BY <2>2, <4>2, NearStep
            <4>4. ASSUME NEW l \in links, Source(l) \in Near(n) PROVE Target(l) \in SubgraphNodes
                BY <2>3, <2>4, <2>9, <4>2, <4>3, <4>4
            <4>5. Near(n + 1) = Near(n) \cup {Target(l) : l \in {k \in links : Source(k) \in Near(n)}}
                BY <2>2, NearStep DEF Onward
            <4>6. QED
                BY <3>2, <4>2, <4>4, <4>5
        <3> HIDE DEF T
        <3>3. QED
            BY <3>1, <3>2, SetInduction
    <2>11. SubgraphNodes = Near(Limit)
        <3>1. SubgraphNodes \subseteq Near(Limit)
            BY <2>5, <2>7 DEF SubgraphNodes
        <3>2. Near(Limit) \subseteq SubgraphNodes
            <4>1. Limit <= Limit
                BY <2>3
            <4>2. QED
                BY <2>3, <2>10, <4>1
        <3>3. QED
            BY <3>1, <3>2
    <2>12. ASSUME NEW l \in seen PROVE {l.from, l.to} \subseteq SubgraphNodes
        <3>1. Limit # 0 /\ Source(l) \in Near(Limit - 1) /\ Limit - 1 \in Nat /\ Limit - 1 <= Limit
            BY <2>3, <2>4
        <3>2. Source(l) \in SubgraphNodes
            BY <2>2, <2>3, <2>11, <3>1, NearStep
        <3>3. {l.from, l.to} = {Source(l), Target(l)}
            BY DEF Source, Target, Oriented
        <3>4. QED
            BY <2>9, <3>2, <3>3
    <2>13. SubgraphLinks = seen
        BY <2>12 DEF SubgraphLinks
    <2>14. Limit > 0 <=> Limit # 0
        BY <2>3
    <2>15. QED
        BY <2>3, <2>4, <2>11, <2>13, <2>14
<1>2. QED
    BY <1>1, WalkInvariant, ShortestInvariant, PathInvariant, PTL
=============================================================================
