----------------------------- MODULE Handshake -----------------------------
(***************************************************************************)
(* The key exchange between a DroneHandshake and a GroundHandshake, on top *)
(* of the Handshake base class (src/src/core/srpt_handshake.cpp,           *)
(* src/src/space/drone/drone_handshake.cpp,                                *)
(* src/src/ground/ground_handshake.cpp).                                   *)
(*                                                                         *)
(* A message is its bytes: identifiers, then the key.  Nothing marks where *)
(* the key begins, so the leading bytes of a key matter and the models of  *)
(* the keys vary them.  Whatever a handler returns, the empty message      *)
(* included, is sent to the other party, as in                             *)
(* src/tests/integration/test_handshake_integration.cpp.                   *)
(*                                                                         *)
(* An operator whose name ends in Faulty is the definition after it with a *)
(* bug; it is used only to show that a property notices.                   *)
(***************************************************************************)
EXTENDS Naturals, Sequences

CONSTANTS Bytes,                  \* what a message is made of
          DroneKeys, GroundKeys,  \* the public keys each party may generate
          KeySize,                \* crypto_box_PUBLICKEYBYTES
          Regimes                 \* what may happen, one set per behaviour

(* "mission": the parties go on to send data (Mission).                    *)
Conditions ==
    {"drone_first", "ground_first", "retry", "restart", "loss", "duplicate", "mission"}

(* SPACE_IDENTIFIER and GROUND_IDENTIFIER.                                 *)
ASSUME BytesAssumption == {"E", "G"} \subseteq Bytes
ASSUME KeysAssumption ==
    /\ KeySize \in Nat \ {0}
    /\ \A k \in DroneKeys \cup GroundKeys : k \in Seq(Bytes) /\ Len(k) = KeySize
    /\ DroneKeys \cap GroundKeys = {}
    /\ DroneKeys # {} /\ GroundKeys # {}
ASSUME RegimesAreKnown == Regimes \subseteq SUBSET Conditions

Parties == {"drone", "ground"}
Other(p) == IF p = "drone" THEN "ground" ELSE "drone"
Keys(p) == IF p = "drone" THEN DroneKeys ELSE GroundKeys

NoKey == <<>>
NoSecret == {}

VARIABLES hs,         \* hs[p]: state of p's handshake
          key,        \* key[p]: the public half of localKeyPair
          peerKey,    \* key p holds for its peer, NoKey if it holds none
          secret,     \* secret p computed, NoSecret before that
          used,       \* used[p]: every key p has generated
          net,        \* net[p]: messages on their way to p
          conditions  \* what may happen in this behaviour, chosen once

party == <<hs, key, peerKey, secret, used>>
vars == <<party, net, conditions>>

(* The constructors generate a key pair each.                              *)
Init ==
    /\ hs = [p \in Parties |-> "Initial"]
    /\ key \in [Parties -> DroneKeys \cup GroundKeys]
    /\ \A p \in Parties : key[p] \in Keys(p)
    /\ used = [p \in Parties |-> {key[p]}]
    /\ peerKey = [p \in Parties |-> NoKey]
    /\ secret = [p \in Parties |-> NoSecret]
    /\ net = [p \in Parties |-> {}]
    /\ conditions \in Regimes

-----------------------------------------------------------------------------
(* Diffie-Hellman: either end gets the same secret from the two key pairs. *)
SharedSecret(own, peer) == {own, peer}

(* computeSharedSecretInternal: without a peer key nothing is computed.    *)
ComputedSecret(p) ==
    IF peerKey[p] = NoKey THEN secret[p] ELSE SharedSecret(key[p], peerKey[p])

(* Handshake::initiateHandshake: whatever an earlier run left is cleared.  *)
ClearedFaulty(f, p, nothing) == f

Cleared(f, p, nothing) == IF hs[p] = "Initial" THEN f ELSE [f EXCEPT ![p] = nothing]

(* initiateHandshake as each party overrides it: what it returns.          *)
Hello(p) == IF p = "drone" THEN <<"E">> \o key[p] ELSE key[p]

AddIdentifier(p, m) == IF p = "drone" THEN <<"E">> \o m ELSE <<"G", "E">> \o m

DroneRemoveIdentifier(m) ==
    IF Len(m) < 2 \/ m[1] # "G" THEN m
    ELSE IF m[2] = "E" THEN SubSeq(m, 3, Len(m)) ELSE Tail(m)

(* Every leading identifier taken off, the key's own first bytes included. *)
GroundRemoveIdentifierFaulty(m) ==
    CASE m = <<>> \/ Head(m) # "E"            -> m
      [] Len(m) = 1 \/ Head(Tail(m)) # "E"    -> Tail(m)
      [] OTHER                                -> Tail(Tail(m))

GroundRemoveIdentifier(m) == IF m # <<>> /\ Head(m) = "E" THEN Tail(m) ELSE m

-----------------------------------------------------------------------------
(* The network and the application.                                        *)

Send(n, p, ms) == [n EXCEPT ![Other(p)] = @ \cup ms]

(* The message is taken, or delivered again later.                         *)
Deliver(p, m, answers) ==
    \/ net' = Send([net EXCEPT ![p] = @ \ {m}], p, answers)
    \/ "duplicate" \in conditions /\ net' = Send(net, p, answers)

Lose(p, m) ==
    /\ "loss" \in conditions
    /\ m \in net[p]
    /\ net' = [net EXCEPT ![p] = @ \ {m}]
    /\ UNCHANGED party

MayInitiate(p) ==
    /\ IF p = "drone" THEN "drone_first" \in conditions ELSE "ground_first" \in conditions
    /\ hs[p] = "Initial" \/ "retry" \in conditions

InitiateHandshake(p) ==
    /\ MayInitiate(p)
    /\ hs' = [hs EXCEPT ![p] = "HelloSent"]
    /\ peerKey' = Cleared(peerKey, p, NoKey)
    /\ secret' = Cleared(secret, p, NoSecret)
    /\ net' = Send(net, p, {Hello(p)})
    /\ UNCHANGED <<key, used>>

(* A party comes back as a new object, with a new key pair.                *)
Restart(p) ==
    /\ "restart" \in conditions
    /\ \E k \in Keys(p) \ used[p] :
           /\ key' = [key EXCEPT ![p] = k]
           /\ used' = [used EXCEPT ![p] = @ \cup {k}]
    /\ hs' = [hs EXCEPT ![p] = "Initial"]
    /\ peerKey' = [peerKey EXCEPT ![p] = NoKey]
    /\ secret' = [secret EXCEPT ![p] = NoSecret]
    /\ UNCHANGED net

-----------------------------------------------------------------------------
(* DroneHandshake::handleHandshakeMessage.                                 *)

(* A drone that has not begun begins, whatever the message says.           *)
DroneAnswersAnything(m) ==
    /\ hs["drone"] = "Initial"
    /\ hs' = [hs EXCEPT !["drone"] = "HelloSent"]
    /\ Deliver("drone", m, {AddIdentifier("drone", Hello("drone"))})
    /\ UNCHANGED <<key, peerKey, secret, used>>

(* The size of the key not checked.                                        *)
DroneTakesKeyFaulty(m) ==
    LET k == DroneRemoveIdentifier(m) IN
    /\ hs["drone"] = "HelloSent"
    /\ hs' = [hs EXCEPT !["drone"] = "Established"]
    /\ peerKey' = [peerKey EXCEPT !["drone"] = k]
    /\ secret' = [secret EXCEPT !["drone"] = SharedSecret(key["drone"], k)]
    /\ Deliver("drone", m, {<<>>})
    /\ UNCHANGED <<key, used>>

DroneTakesKey(m) ==
    LET k == DroneRemoveIdentifier(m) IN
    /\ hs["drone"] = "HelloSent"
    /\ Len(k) = KeySize
    /\ hs' = [hs EXCEPT !["drone"] = "Established"]
    /\ peerKey' = [peerKey EXCEPT !["drone"] = k]
    /\ secret' = [secret EXCEPT !["drone"] = SharedSecret(key["drone"], k)]
    /\ Deliver("drone", m, {<<>>})
    /\ UNCHANGED <<key, used>>

(* An exception: the caller gets nothing to send.                          *)
DroneRefuses(m) ==
    /\ hs["drone"] = "HelloSent"
    /\ Len(DroneRemoveIdentifier(m)) # KeySize
    /\ Deliver("drone", m, {})
    /\ UNCHANGED party

(* GroundHandshake::handleHandshakeMessage.                                *)

IsDroneHello(m) == Len(m) = KeySize + 1 /\ Len(GroundRemoveIdentifier(m)) = KeySize

(* initiateHandshake, called once the key is stored, clears it.            *)
GroundTakesKeyFaulty(m) ==
    /\ hs["ground"] = "Initial"
    /\ IsDroneHello(m)
    /\ hs' = [hs EXCEPT !["ground"] = "HelloSent"]
    /\ peerKey' = [peerKey EXCEPT !["ground"] = NoKey]
    /\ Deliver("ground", m, {AddIdentifier("ground", Hello("ground"))})
    /\ UNCHANGED <<key, secret, used>>

(* initiateHandshake clears nothing here: the state is still Initial.      *)
GroundTakesKey(m) ==
    /\ hs["ground"] = "Initial"
    /\ IsDroneHello(m)
    /\ hs' = [hs EXCEPT !["ground"] = "HelloSent"]
    /\ peerKey' = [peerKey EXCEPT !["ground"] = GroundRemoveIdentifier(m)]
    /\ Deliver("ground", m, {AddIdentifier("ground", Hello("ground"))})
    /\ UNCHANGED <<key, secret, used>>

GroundFinishes(m) ==
    /\ hs["ground"] = "HelloSent"
    /\ GroundRemoveIdentifier(m) = <<>>
    /\ hs' = [hs EXCEPT !["ground"] = "Established"]
    /\ secret' = [secret EXCEPT !["ground"] = ComputedSecret("ground")]
    /\ Deliver("ground", m, {<<>>})
    /\ UNCHANGED <<key, peerKey, used>>

GroundRefuses(m) ==
    /\ \/ hs["ground"] = "Initial" /\ ~IsDroneHello(m)
       \/ hs["ground"] = "HelloSent" /\ GroundRemoveIdentifier(m) # <<>>
    /\ Deliver("ground", m, {})
    /\ UNCHANGED party

(* Either party, once done, answers every message with an empty one.       *)
Acknowledge(p, m) ==
    /\ hs[p] = "Established"
    /\ Deliver(p, m, {<<>>})
    /\ UNCHANGED party

-----------------------------------------------------------------------------
Receive(p, m) ==
    /\ m \in net[p]
    /\ \/ p = "drone" /\ (DroneAnswersAnything(m) \/ DroneTakesKey(m) \/ DroneRefuses(m))
       \/ p = "ground" /\ (GroundTakesKey(m) \/ GroundFinishes(m) \/ GroundRefuses(m))
       \/ Acknowledge(p, m)

Next ==
    /\ \E p \in Parties :
           \/ InitiateHandshake(p) \/ Restart(p)
           \/ \E m \in net[p] : Receive(p, m) \/ Lose(p, m)
    /\ UNCHANGED conditions

Spec == Init /\ [][Next]_vars

(* Every message a party can ever be sent.                                 *)
Messages ==
    {<<>>} \cup GroundKeys
        \cup {<<"E">> \o k : k \in DroneKeys} \cup {<<"E", "E">> \o k : k \in DroneKeys}
        \cup {<<"G", "E">> \o k : k \in GroundKeys}

(* A message that is not lost is delivered.                                *)
Fairness ==
    \A p \in Parties, m \in Messages : WF_vars(Receive(p, m) /\ UNCHANGED conditions)

FairSpec == Spec /\ Fairness

-----------------------------------------------------------------------------
Established(p) == hs[p] = "Established"

(* Every variable has its type, and nothing but the messages the protocol  *)
(* forms is ever in flight.                                                *)
TypeOK ==
    /\ hs \in [Parties -> {"Initial", "HelloSent", "Established"}]
    /\ \A p \in Parties :
           /\ key[p] \in used[p] /\ used[p] \subseteq Keys(p)
           /\ peerKey[p] \in Keys(Other(p)) \cup {NoKey}
           /\ net[p] \subseteq Messages
    /\ conditions \in Regimes

(* Under restarts, retries and every fault, a party's secret is the one of *)
(* its present key and of the peer key it holds, never one left over from  *)
(* an earlier run, and it holds one only while Established.                *)
SecretIsCurrent ==
    \A p \in Parties : secret[p] # NoSecret =>
        Established(p) /\ secret[p] = SharedSecret(key[p], peerKey[p])

(* Begun by the drone and with no restart, both parties end up with the    *)
(* same secret, whatever is lost, repeated, reordered or retried, and      *)
(* whatever bytes the keys begin with.                                     *)
DroneInitiated == conditions \cap {"ground_first", "restart"} = {}

BothHold(s) == \A p \in Parties : secret[p] = s

SecretsMatch ==
    DroneInitiated /\ (\A p \in Parties : Established(p)) =>
        BothHold(SharedSecret(key["drone"], key["ground"]))

(* A drone's hello that is not lost leads both parties to Established,     *)
(* duplicated and reordered messages notwithstanding.                      *)
HandshakeCompletes ==
    (conditions \subseteq {"drone_first", "duplicate", "mission"} /\ hs["drone"] = "HelloSent")
        ~> (\A p \in Parties : Established(p))

-----------------------------------------------------------------------------
(* What the documentation says, refuted by a run.                          *)

(* src/examples/drone_swarm/README.md:58, "Both Drone and Ground Station   *)
(* can initiate the handshake": a handshake the ground begins completes.   *)
GroundInitiatedCompletes ==
    hs["ground"] = "HelloSent" ~> (\A p \in Parties : Established(p))
=============================================================================
