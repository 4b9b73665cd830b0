------------------------------- MODULE Doors --------------------------------
(***************************************************************************)
(* What the dashboard says of the way a packet takes.  Every answered      *)
(* traceroute leaves a row in traceroute_history, and nothing deletes one. *)
(* Two parts of the program read those rows and publish what follows:      *)
(*                                                                         *)
(*   node-kind.js  a node that was the first hop of an answered route is a *)
(*                 door, in every node list; the set of doors and the      *)
(*                 roles of the nodes are cached                           *)
(*   clusters.js   anchors on the ground, the nodes around each and the    *)
(*                 doors among them; the whole answer is cached            *)
(*                                                                         *)
(* The ground is a line, a place a number, and the distance between two    *)
(* places their difference.                                                *)
(***************************************************************************)
EXTENDS Integers, FiniteSets

CONSTANTS Node,         \* the nodes of the mesh
          Place,        \* where each node is (nodes.lat, nodes.lon)
          RelayRole,    \* the nodes that declare a role which relays
          Spot,         \* the places an operator may put an anchor on
          Radii,        \* the radii an operator may give it
          Radius,       \* clusters.radius_km
          MinMembers,   \* clusters.min_members
          Unnamed,      \* 0xffffffff, the hop a radio could not name
          MaxAnchors    \* bound on the anchors kept at once

ASSUME GroundAssumption ==
    /\ Place \in [Node -> Nat]
    /\ RelayRole \subseteq Node
    /\ Spot \subseteq Nat /\ Radii \subseteq Nat
    /\ Radius \in Nat
    /\ MinMembers \in Nat \ {0}

ASSUME HopAssumption == Unnamed \notin Node

VARIABLES
    carried,    \* the first hops of the answered rows of traceroute_history
    row,        \* row[n]: n's row in the nodes table, and whether it is placed
    doors,      \* _doors, empty before its first read
    roles,      \* _roles, the nodes among them that relay
    kinds,      \* kinds[n]: what the last node list called n
    anchors,    \* the rows of the clusters table
    cache       \* _cache of clusters.js, and whether it still counts as current

doorVars == <<carried, row, doors, roles, kinds, anchors, cache>>

Slug    == 1..MaxAnchors
Anchor  == [slug : Slug, at : Nat, radius : Nat]
Cluster == [anchor : Anchor, members : SUBSET Node, inside : SUBSET Node]
Kind    == {"unlisted", "door", "router", "endpoint"}

Near(a, b, km) == a - b <= km /\ b - a <= km
Gap(a, b)      == IF a < b THEN b - a ELSE a - b

-----------------------------------------------------------------------------
(* The history and the node table.                                         *)

\* rolesByNum's query: the rows that declare a role.
Declared == {n \in RelayRole : row[n] # "none"}

\* candidateNodes: placed, and heard within the window.
Candidates == {n \in Node : row[n] = "placed"}

\* A query that fails leaves an empty set behind.
Reads_emptied(held, query) == {held, query, {}}

\* What reading a cache of node-kind.js may return, and leave in it: the
\* answer of the query, or what it held (nothing, at first) because its TTL
\* still runs or because the query failed.
Reads(held, query) == {held, query}

\* A node that declares a relaying role counts as a door.
KindOf_declared(n, d, r) ==
    CASE n \in d \cup r -> "door"
      [] OTHER -> "endpoint"

\* nodeKind, for a node that is not one of our own radios.
KindOf(n, d, r) ==
    CASE n \in d -> "door"
      [] n \notin d /\ n \in r -> "router"
      [] OTHER -> "endpoint"

-----------------------------------------------------------------------------
(* Clusters.                                                               *)

\* The anchor a node joins: the nearest of those whose radius holds it, the
\* first of them when two are equally near.
Holding(n) == {a \in anchors : Near(a.at, Place[n], a.radius)}
Joins(n, a) ==
    /\ a \in Holding(n)
    /\ \A b \in Holding(n) \ {a} :
          \/ Gap(a.at, Place[n]) < Gap(b.at, Place[n])
          \/ Gap(a.at, Place[n]) = Gap(b.at, Place[n]) /\ a.slug < b.slug

Derived(d) ==
    {[anchor |-> a, members |-> {n \in Candidates : Joins(n, a)},
      inside |-> {n \in Candidates : Joins(n, a) /\ n \in d}] : a \in anchors}

\* linkageGroups: the candidates a chain of steps of at most Radius connects.
GroupOf(n) ==
    LET grow[i \in 0..Cardinality(Node)] ==
          IF i = 0 THEN {n}
          ELSE {m \in Candidates : \E x \in grow[i - 1] : Near(Place[m], Place[x], Radius)}
    IN grow[Cardinality(Node)]
Groups == {g \in {GroupOf(n) : n \in Candidates} : Cardinality(g) >= MinMembers}

SumOf(S) ==
    LET pick[T \in SUBSET S] ==
          IF T = {} THEN 0
          ELSE LET x == CHOOSE x \in T : TRUE IN Place[x] + pick[T \ {x}]
    IN pick[S]
Centre(g) == SumOf(g) \div Cardinality(g)

Covered(g, A)   == \E a \in A : Near(a.at, Centre(g), a.radius)
Uncovered(A)    == {g \in Groups : ~ Covered(g, A)}
FreeSlugs(A)    == Slug \ {a.slug : a \in A}
FirstFree(A)    == CHOOSE s \in FreeSlugs(A) : \A t \in FreeSlugs(A) : s <= t

\* The coordinates of a group are added and never divided by its size.
Planted_undivided(gs, A) ==
    LET plant[T \in SUBSET gs] ==
          IF T = {} THEN A
          ELSE LET g == CHOOSE g \in T : TRUE
                   B == plant[T \ {g}]
               IN B \cup {[slug |-> FirstFree(B), at |-> SumOf(g), radius |-> Radius]}
    IN plant[gs]

\* One anchor for each of the groups gs, its slug the first that is free.
Planted(gs, A) ==
    LET plant[T \in SUBSET gs] ==
          IF T = {} THEN A
          ELSE LET g == CHOOSE g \in T : TRUE
                   B == plant[T \ {g}]
               IN B \cup {[slug |-> FirstFree(B), at |-> Centre(g), radius |-> Radius]}
    IN plant[gs]

-----------------------------------------------------------------------------
DoorsTypeOK ==
    /\ carried \subseteq Node \cup {Unnamed}
    /\ row \in [Node -> {"none", "row", "placed"}]
    /\ doors \subseteq Node \cup {Unnamed}
    /\ roles \subseteq Node
    /\ kinds \in [Node -> Kind]
    /\ anchors \subseteq Anchor
    /\ cache \in [current : BOOLEAN, clusters : SUBSET Cluster]

DoorsInit ==
    /\ carried = {} /\ row = [n \in Node |-> "none"]
    /\ doors = {} /\ roles = {}
    /\ kinds = [n \in Node |-> "unlisted"]
    /\ anchors = {} /\ cache = [current |-> FALSE, clusters |-> {}]

-----------------------------------------------------------------------------
(* What happens on the mesh.                                               *)

\* A traceroute is answered along a route whose first hop is hop, and
\* provenDoorNums finds it.  A row that failed, or was answered without a hop
\* between, is none that query selects.
TraceAnswered(hop) ==
    /\ hop \in Node \cup {Unnamed}
    /\ carried' = carried \cup {hop}
    /\ UNCHANGED <<row, doors, roles, kinds, anchors, cache>>

\* A packet of n is stored: the node is its row placed when the packet
\* carries a position.
NodeHeard(n, placed) ==
    /\ row' = [row EXCEPT ![n] = IF placed THEN "placed" ELSE IF @ = "none" THEN "row" ELSE @]
    /\ UNCHANGED <<carried, doors, roles, kinds, anchors, cache>>

\* n was not heard for the cluster window.
NodeFallsSilent(n) ==
    /\ row[n] = "placed"
    /\ row' = [row EXCEPT ![n] = "row"]
    /\ UNCHANGED <<carried, doors, roles, kinds, anchors, cache>>

\* DELETE /nodes: the node table and the live list are emptied.
ClearNodes ==
    /\ row' = [n \in Node |-> "none"]
    /\ kinds' = [n \in Node |-> "unlisted"]
    /\ UNCHANGED <<carried, doors, roles, anchors, cache>>

-----------------------------------------------------------------------------
(* What is published.                                                      *)

\* enrichEvent on a node_list of the nodes heard since the start: doors and
\* roles are read once for the whole list; some entries bring a relaying role
\* of their own, which goes before the stored one.
ListNodes(nodes, relaying) ==
    /\ \A n \in nodes : row[n] # "none"
    /\ doors' \in Reads(doors, carried)
    /\ roles' \in Reads(roles, Declared)
    /\ kinds' = [n \in Node |-> IF n \in nodes THEN KindOf(n, doors', roles' \cup relaying)
                                ELSE "unlisted"]
    /\ UNCHANGED <<carried, row, anchors, cache>>

\* radarOverlays and GET /clusters: the clusters through their cache.  The
\* door set is read when they are derived and there are anchors.
ListClusters ==
    /\ ~ cache.current
    /\ doors' \in IF anchors = {} THEN {doors} ELSE Reads(doors, carried)
    /\ cache' = [current |-> TRUE, clusters |-> Derived(doors')]
    /\ UNCHANGED <<carried, row, roles, kinds, anchors>>

\* clusters.ttl_sec runs out, or the answer is dropped.
Dropped == [cache EXCEPT !.current = FALSE]
ClustersAge ==
    /\ cache.current /\ cache' = Dropped
    /\ UNCHANGED <<carried, row, doors, roles, kinds, anchors>>

-----------------------------------------------------------------------------
(* The operator's anchors.  Every edit drops the cached answer.            *)

Edited(A) ==
    /\ anchors' = A
    /\ cache' = Dropped
    /\ UNCHANGED <<carried, row, doors, roles, kinds>>

CreateAnchor(at, radius) ==
    /\ FreeSlugs(anchors) # {}
    /\ Edited(anchors \cup {[slug |-> FirstFree(anchors), at |-> at, radius |-> radius]})

UpdateAnchor(a, at, radius) ==
    Edited((anchors \ {a}) \cup {[a EXCEPT !.at = at, !.radius = radius]})

\* The row is deleted and the cached answer kept.
DeleteAnchor_cached(a) ==
    /\ anchors' = anchors \ {a}
    /\ UNCHANGED <<carried, row, doors, roles, kinds, cache>>

DeleteAnchor(a) == Edited(anchors \ {a})

SeedClusters ==
    /\ Cardinality(Uncovered(anchors)) <= Cardinality(FreeSlugs(anchors))
    /\ Edited(Planted(Uncovered(anchors), anchors))

\* The program restarts: every cache is gone, and the live list with them.
DoorsRestart ==
    /\ doors' = {} /\ roles' = {}
    /\ cache' = [current |-> FALSE, clusters |-> {}]
    /\ kinds' = [n \in Node |-> "unlisted"]
    /\ UNCHANGED <<carried, row, anchors>>

DoorsNext ==
    \/ \E hop \in Node \cup {Unnamed} : TraceAnswered(hop)
    \/ \E n \in Node : NodeFallsSilent(n) \/ \E placed \in BOOLEAN : NodeHeard(n, placed)
    \/ ClearNodes
    \/ \E nodes \in SUBSET Node : \E relaying \in SUBSET (nodes \cap RelayRole) :
          ListNodes(nodes, relaying)
    \/ ListClusters \/ ClustersAge
    \/ \E at \in Spot, radius \in Radii :
          CreateAnchor(at, radius) \/ \E a \in anchors : UpdateAnchor(a, at, radius)
    \/ \E a \in anchors : DeleteAnchor(a)
    \/ SeedClusters
    \/ DoorsRestart

DoorsSpec == DoorsInit /\ [][DoorsNext]_doorVars

-----------------------------------------------------------------------------
\* No door is made up: a node the list calls a door, or a cluster counts among
\* its doors, was the first hop of a route that was answered, however old the
\* cached set it was found in (node-kind.js:114, clusters.js:331).
DoorsAreProven ==
    /\ \A n \in Node : kinds[n] = "door" => n \in carried
    /\ \A c \in cache.clusters : c.inside \subseteq carried

\* A door stays a door: as long as a node is listed, no later list calls it
\* anything less, whatever query failed (node-kind.js:122-125).
DoorStaysADoor ==
    [][\A n \in Node : kinds[n] = "door" => kinds'[n] \in {"door", "unlisted"}]_doorVars

\* An answer of clusters() that still counts as current shows the anchors as
\* they are now: every edit reaches the next answer (clusters.js:263).
AnchorsAreCurrent ==
    cache.current => {c.anchor : c \in cache.clusters} = anchors

\* Seeding is idempotent: once it ran, every group it would plant an anchor for
\* is covered, so that running it again plants nothing (clusters.js:158-180).
SeedingSettles ==
    [][anchors' # anchors /\ SeedClusters => Uncovered(anchors)' = {}]_doorVars
=============================================================================
