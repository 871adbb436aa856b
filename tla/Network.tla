------------------------------ MODULE Network ------------------------------
(***************************************************************************)
(* The Node objects of src/src/network/node/node.cpp and the Routing they  *)
(* are added to.  Node::connect links two objects; Routing::addNode copies *)
(* a node, its links at that time included, and Routing::addLink tells the *)
(* copies nothing: a route consists of the copies.                         *)
(*                                                                         *)
(* The program either uses a Routing alone, as routing_test.cpp does, or   *)
(* it connects its nodes first, adds them then, and adds links between     *)
(* those that it connected.                                                *)
(***************************************************************************)
EXTENDS Routing

CONSTANT MaxConnects  \* calls of connect that link two nodes, at most

ASSUME MaxConnectsAssumption == MaxConnects \in Nat

VARIABLES usage,     \* "alone" or "nodes", chosen once
          linked,    \* linked[n]: connectedNodes_ of the program's object n
          connects,  \* history: how often connect has linked two nodes
          copy       \* copy[n]: connectedNodes_ of Routing's copy of n

objects == <<usage, linked, connects, copy>>
networkVars == <<vars, objects>>

NetworkInit ==
    /\ Init
    /\ usage \in {"alone", "nodes"}
    /\ linked = [n \in Ids |-> <<>>] /\ connects = 0
    /\ copy = [n \in {} |-> <<>>]

-----------------------------------------------------------------------------
(* Node::sendData, asked of the nodes as held in l: the other end takes    *)
(* whatever is sent to it, and what is not linked is refused.              *)
SendData(l, a, b) == \E i \in DOMAIN l[a] : l[a][i] = b

Listed(l, a, b) == IF SendData(l, a, b) THEN l ELSE [l EXCEPT ![a] = Append(@, b)]

(* The other node not told.                                                *)
WithConnectionFaulty(l, a, b) == Listed(l, a, b)

(* The other node connects back if this one had to be told; it finds       *)
(* itself listed there and stops.                                          *)
WithConnection(l, a, b) == IF SendData(l, a, b) THEN l ELSE Listed(Listed(l, a, b), b, a)

ConnectNodes(a, b) ==
    /\ usage = "nodes" /\ connects < MaxConnects
    /\ {a, b} \cap nodes = {}
    /\ ~SendData(linked, a, b)
    /\ linked' = WithConnection(linked, a, b)
    /\ connects' = connects + 1
    /\ UNCHANGED <<vars, usage, copy>>

AddNodeCopy(n) ==
    /\ AddNode(n)
    /\ copy' = [m \in nodes' |-> IF m = n THEN linked[n] ELSE copy[m]]
    /\ UNCHANGED <<usage, linked, connects>>

AddLinkOf(a, b) ==
    /\ AddLink(a, b)
    /\ usage = "nodes" => SendData(linked, a, b)
    /\ UNCHANGED objects

NetworkNext ==
    \/ \E n \in Ids : AddNodeCopy(n)
    \/ \E a, b \in Ids : ConnectNodes(a, b) \/ AddLinkOf(a, b)
    \/ (\E a, b \in Ids : FindRoute(a, b)) /\ UNCHANGED objects
    \/ Search /\ UNCHANGED objects

NetworkSpec == NetworkInit /\ [][NetworkNext]_networkVars

(* A search that has begun goes on.                                        *)
FairNetwork == NetworkSpec /\ WF_vars(Search /\ UNCHANGED objects)

-----------------------------------------------------------------------------
(* The nodes of a route are copies made before the links of the graph, and *)
(* yet each can send to the next: connected in either direction before     *)
(* they were added, they were copied with the links both ways.             *)
RouteCarriesData ==
    usage = "nodes" /\ search = "found" =>
        \A i \in 1 .. Len(route) - 1 : SendData(copy, route[i], route[i + 1])
=============================================================================
