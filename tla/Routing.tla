------------------------------ MODULE Routing ------------------------------
(***************************************************************************)
(* Routing (src/src/network/local/routing.cpp): the graph that addNode and *)
(* addLink build and the breadth-first search of findRoute.  One round of  *)
(* the search's loop is a step; a call that throws before it has changed   *)
(* anything is no step.                                                    *)
(*                                                                         *)
(* An operator whose name ends in Faulty is the definition after it with a *)
(* bug; it is used only to show that a property notices.                   *)
(***************************************************************************)
EXTENDS Naturals, Sequences, FiniteSets

CONSTANTS Ids,      \* ids of the nodes a program may add
          MaxLinks  \* links it adds at most

ASSUME IdsAreFinite == IsFiniteSet(Ids) /\ MaxLinks \in Nat

VARIABLES nodes,   \* ids in the map of nodes
          adj,     \* adjacencyList: the neighbours of each node, in order
          links,   \* history: how often addLink has succeeded
          search,  \* "none", "running", "found" or "failed"
          source, destination,
          q,       \* nodes reached and not yet expanded
          prev,    \* prev[n]: the node n was reached from
          route    \* the route returned

graph == <<nodes, adj, links>>
loop == <<search, source, destination, q, prev, route>>
vars == <<graph, loop>>

Init ==
    /\ nodes = {} /\ adj = [n \in {} |-> <<>>] /\ links = 0
    /\ search = "none"
    /\ source \in Ids /\ destination = source
    /\ q = <<>> /\ prev = [n \in {} |-> source] /\ route = <<>>

Neighbours(n) == {adj[n][i] : i \in DOMAIN adj[n]}

-----------------------------------------------------------------------------
AddNode(n) ==
    /\ search # "running"
    /\ n \notin nodes
    /\ nodes' = nodes \cup {n}
    /\ adj' = [m \in nodes' |-> IF m = n THEN <<>> ELSE adj[m]]
    /\ UNCHANGED <<links, loop>>

(* A node linked to itself is listed twice.                                *)
WithLink(a, b) ==
    LET forth == [adj EXCEPT ![a] = Append(@, b)]
    IN  [forth EXCEPT ![b] = Append(@, a)]

AddLink(a, b) ==
    /\ search # "running" /\ links < MaxLinks
    /\ {a, b} \subseteq nodes
    /\ b \notin Neighbours(a)
    /\ adj' = WithLink(a, b)
    /\ links' = links + 1
    /\ UNCHANGED <<nodes, loop>>

-----------------------------------------------------------------------------
Visited == DOMAIN prev \cup {source}

(* findRoute up to its loop; linked nodes need no search.                  *)
FindRoute(s, d) ==
    /\ search # "running"
    /\ {s, d} \subseteq nodes
    /\ source' = s /\ destination' = d
    /\ prev' = [n \in {} |-> s]
    /\ IF d \in Neighbours(s)
         THEN search' = "found" /\ route' = <<s, d>> /\ q' = <<>>
         ELSE search' = "running" /\ route' = <<>> /\ q' = <<s>>
    /\ UNCHANGED graph

(* The nodes collected from the destination back, never reversed.          *)
RouteToFaulty(n) ==
    LET way[m \in Visited] ==
            IF m = source THEN <<m>> ELSE <<m>> \o way[prev[m]]
    IN  way[n]

(* The nodes from the source to n, following prev back from n.             *)
RouteTo(n) ==
    LET way[m \in Visited] ==
            IF m = source THEN <<m>> ELSE Append(way[prev[m]], m)
    IN  way[n]

Arrive ==
    /\ search = "running"
    /\ q # <<>> /\ Head(q) = destination
    /\ search' = "found" /\ route' = RouteTo(destination) /\ q' = Tail(q)
    /\ UNCHANGED <<graph, source, destination, prev>>

(* Nodes reached before are put in the queue again.                        *)
FreshFaulty(n) == adj[n]

(* The neighbours not reached before, in their order.                      *)
Fresh(n) ==
    LET fresh[i \in 0 .. Len(adj[n])] ==
            IF i = 0 THEN <<>>
            ELSE IF adj[n][i] \in Visited \cup {fresh[i - 1][j] : j \in DOMAIN fresh[i - 1]}
                   THEN fresh[i - 1]
                   ELSE Append(fresh[i - 1], adj[n][i])
    IN  fresh[Len(adj[n])]

Enqueue(rest, new) == rest \o new

(* A node reached before is reached again.                                 *)
ReachFaulty(new) ==
    [m \in DOMAIN prev \cup Neighbours(Head(q)) |->
        IF m \in Neighbours(Head(q)) THEN Head(q) ELSE prev[m]]

Reach(new) ==
    [m \in DOMAIN prev \cup {new[i] : i \in DOMAIN new} |->
        IF m \in DOMAIN prev THEN prev[m] ELSE Head(q)]

Expand ==
    /\ search = "running"
    /\ q # <<>> /\ Head(q) # destination
    /\ LET new == Fresh(Head(q)) IN
           /\ q' = Enqueue(Tail(q), new)
           /\ prev' = Reach(new)
    /\ UNCHANGED <<graph, search, source, destination, route>>

(* "No route found".                                                       *)
Fail ==
    /\ search = "running"
    /\ q = <<>>
    /\ search' = "failed"
    /\ UNCHANGED <<graph, source, destination, q, prev, route>>

-----------------------------------------------------------------------------
Search == Arrive \/ Expand \/ Fail

Next ==
    \/ \E n \in Ids : AddNode(n)
    \/ \E a, b \in Ids : AddLink(a, b) \/ FindRoute(a, b)
    \/ Search

Spec == Init /\ [][Next]_vars

(* A search that has begun goes on.                                        *)
FairSpec == Spec /\ WF_vars(Search)

-----------------------------------------------------------------------------
(* What a route should be, said without a search: the nodes within k links *)
(* of the source, for every k.                                             *)
Within[k \in 0 .. Cardinality(Ids)] ==
    IF k = 0 THEN {source}
    ELSE Within[k - 1] \cup UNION {Neighbours(n) : n \in Within[k - 1]}

Connected == destination \in Within[Cardinality(Ids)]

Distance(n) ==
    CHOOSE k \in 0 .. Cardinality(Ids) :
        n \in Within[k] /\ (k > 0 => n \notin Within[k - 1])

(* Every variable has its type, and the queue holds nodes reached.         *)
TypeOK ==
    /\ nodes \subseteq Ids /\ DOMAIN adj = nodes
    /\ \A n \in nodes : adj[n] \in Seq(nodes)
    /\ search \in {"none", "running", "found", "failed"}
    /\ source \in Ids /\ destination \in Ids
    /\ q \in Seq(Visited)
    /\ DOMAIN prev \subseteq nodes \ {source}
    /\ \A n \in DOMAIN prev : prev[n] \in Visited

(* The route returned when the search ends follows links from the source   *)
(* to the destination and no route has fewer.  The only node it can visit  *)
(* twice is a source linked to itself and asked for a route to itself.     *)
(* "No route found" is thrown only when there is none.                     *)
Returns == search # "found" /\ search' = "found"

Throws == search # "failed" /\ search' = "failed"

IsRoute(r) ==
    /\ Len(r) >= 1 /\ r[1] = source /\ r[Len(r)] = destination
    /\ \A i \in 1 .. Len(r) - 1 : r[i + 1] \in Neighbours(r[i])

RouteIsShortest ==
    [][/\ Returns => /\ IsRoute(route)'
                     /\ Len(route') = IF source' = destination' /\ Len(route') = 2
                                        THEN 2 ELSE (Distance(destination) + 1)'
       /\ Throws => ~Connected]_vars

(* findRoute returns: no graph makes it loop for ever.                     *)
SearchEnds == search = "running" ~> search # "running"
=============================================================================
