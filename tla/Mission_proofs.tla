--------------------------- MODULE Mission_proofs ---------------------------
(***************************************************************************)
(* Proofs about Handshake, for any keys, key size and regimes, and about   *)
(* Mission, for any sessions, streams, data and length of the tag.         *)
(***************************************************************************)
EXTENDS Mission, SequenceTheorems, TLAPS

-----------------------------------------------------------------------------
(* What adding and removing identifiers does to a message.                 *)

LEMMA KeyShape ==
    ASSUME NEW p \in Parties, NEW k \in Keys(p)
    PROVE  k \in Seq(Bytes) /\ Len(k) = KeySize /\ KeySize \in Nat \ {0} /\ k # <<>>
BY KeysAssumption DEF Keys, Parties

LEMMA OneIdentifier ==
    ASSUME NEW k \in Seq(Bytes)
    PROVE  LET m == <<"E">> \o k IN
           /\ m \in Seq(Bytes) /\ m # <<>> /\ Len(m) = Len(k) + 1
           /\ Head(m) = "E" /\ Tail(m) = k
<1> DEFINE m == <<"E">> \o k
<1>1. m \in Seq(Bytes) /\ Len(m) = Len(k) + 1 /\ m[1] = "E"
    BY BytesAssumption
<1>2. \A i \in 1 .. Len(k) : m[i + 1] = k[i]
    BY BytesAssumption
<1>3. Tail(m) \in Seq(Bytes) /\ Len(Tail(m)) = Len(k) /\ m # <<>> /\ Head(m) = m[1]
    BY <1>1
<1>4. \A i \in 1 .. Len(k) : Tail(m)[i] = k[i]
    BY <1>1, <1>2
<1>5. Tail(m) = k
    BY <1>3, <1>4, SeqEqual
<1> QED BY <1>1, <1>3, <1>5

LEMMA TwoIdentifiers ==
    ASSUME NEW k \in Seq(Bytes), NEW a \in Bytes
    PROVE  LET m == <<a, "E">> \o k IN
           /\ m \in Seq(Bytes) /\ m # <<>> /\ Len(m) = Len(k) + 2
           /\ m[1] = a /\ m[2] = "E" /\ SubSeq(m, 3, Len(m)) = k
<1> DEFINE m == <<a, "E">> \o k
<1>1. m \in Seq(Bytes) /\ Len(m) = Len(k) + 2 /\ m[1] = a /\ m[2] = "E" /\ m # <<>>
    BY BytesAssumption
<1>2. \A i \in 1 .. Len(k) : m[i + 2] = k[i]
    BY BytesAssumption
<1>3. SubSeq(m, 3, Len(m)) \in Seq(Bytes) /\ Len(SubSeq(m, 3, Len(m))) = Len(k)
    BY <1>1
<1>4. \A i \in 1 .. Len(k) : SubSeq(m, 3, Len(m))[i] = m[i + 2]
    BY <1>1
<1>5. SubSeq(m, 3, Len(m)) = k
    BY <1>2, <1>3, <1>4, SeqEqual
<1> QED BY <1>1, <1>5

LEMMA IdentifiersAddUp ==
    ASSUME NEW k \in Seq(Bytes)
    PROVE  <<"E">> \o (<<"E">> \o k) = <<"E", "E">> \o k
<1> DEFINE a == <<"E">> \o (<<"E">> \o k)
           b == <<"E", "E">> \o k
<1>1. a \in Seq(Bytes) /\ b \in Seq(Bytes) /\ Len(a) = Len(k) + 2 /\ Len(b) = Len(k) + 2
    BY BytesAssumption
<1>2. a[1] = "E" /\ a[2] = "E" /\ b[1] = "E" /\ b[2] = "E"
    BY BytesAssumption
<1>3. \A i \in 1 .. Len(k) : a[i + 2] = k[i] /\ b[i + 2] = k[i]
    BY BytesAssumption
<1>4. \A i \in 1 .. Len(a) : a[i] = b[i]
  <2> TAKE i \in 1 .. Len(a)
  <2>1. CASE i = 1 \/ i = 2
      BY <2>1, <1>2
  <2>2. CASE i > 2
    <3>1. i - 2 \in 1 .. Len(k) /\ i = (i - 2) + 2
        BY <2>2, <1>1
    <3> QED BY <3>1, <1>3
  <2> QED BY <2>1, <2>2, <1>1
<1> QED BY <1>1, <1>4, SeqEqual

(* What can be on its way to either party.                                 *)
ToDrone == {<<>>} \cup GroundKeys \cup {<<"G", "E">> \o k : k \in GroundKeys}
ToGround ==
    {<<>>} \cup {<<"E">> \o k : k \in DroneKeys} \cup {<<"E", "E">> \o k : k \in DroneKeys}

LEMMA DroneReads ==
    /\ Len(DroneRemoveIdentifier(<<>>)) # KeySize
    /\ \A k \in GroundKeys : DroneRemoveIdentifier(<<"G", "E">> \o k) = k
    /\ \A m \in ToDrone :
           Len(DroneRemoveIdentifier(m)) = KeySize => DroneRemoveIdentifier(m) \in GroundKeys
<1>1. Len(DroneRemoveIdentifier(<<>>)) # KeySize
    BY KeysAssumption DEF DroneRemoveIdentifier
<1>2. \A k \in GroundKeys : DroneRemoveIdentifier(<<"G", "E">> \o k) = k
  <2> TAKE k \in GroundKeys
  <2> DEFINE m == <<"G", "E">> \o k
  <2>1. k \in Seq(Bytes) /\ Len(k) \in Nat
      BY KeysAssumption
  <2>2. Len(m) = Len(k) + 2 /\ m[1] = "G" /\ m[2] = "E" /\ SubSeq(m, 3, Len(m)) = k
      BY <2>1, TwoIdentifiers, BytesAssumption
  <2>3. ~(Len(m) < 2)
      BY <2>1, <2>2
  <2> HIDE DEF m
  <2>4. DroneRemoveIdentifier(m) = k
      BY <2>2, <2>3 DEF DroneRemoveIdentifier
  <2> QED BY <2>4 DEF m
<1>3. \A k \in GroundKeys :
          Len(DroneRemoveIdentifier(k)) = KeySize => DroneRemoveIdentifier(k) = k
  <2> TAKE k \in GroundKeys
  <2>1. k \in Seq(Bytes) /\ Len(k) = KeySize /\ KeySize \in Nat \ {0}
      BY KeysAssumption
  <2>2. CASE Len(k) < 2 \/ k[1] # "G"
      BY <2>2, Zenon DEF DroneRemoveIdentifier
  <2>3. CASE Len(k) >= 2 /\ k[1] = "G" /\ k[2] = "E"
    <3>1. DroneRemoveIdentifier(k) = SubSeq(k, 3, Len(k))
        BY <2>1, <2>3 DEF DroneRemoveIdentifier
    <3>2. Len(SubSeq(k, 3, Len(k))) = Len(k) - 2
        BY <2>1, <2>3
    <3> QED BY <3>1, <3>2, <2>1
  <2>4. CASE Len(k) >= 2 /\ k[1] = "G" /\ k[2] # "E"
    <3>1. DroneRemoveIdentifier(k) = Tail(k)
        BY <2>1, <2>4 DEF DroneRemoveIdentifier
    <3>2. Len(Tail(k)) = Len(k) - 1
        BY <2>1, <2>4
    <3> QED BY <3>1, <3>2, <2>1
  <2> QED BY <2>1, <2>2, <2>3, <2>4
<1> QED BY <1>1, <1>2, <1>3 DEF ToDrone

LEMMA GroundReads ==
    \A m \in ToGround :
        IsDroneHello(m) => GroundRemoveIdentifier(m) \in DroneKeys
                           /\ m = <<"E">> \o GroundRemoveIdentifier(m)
<1>1. ~IsDroneHello(<<>>)
    BY KeysAssumption DEF IsDroneHello
<1>2. \A k \in DroneKeys : GroundRemoveIdentifier(<<"E">> \o k) = k
  <2> TAKE k \in DroneKeys
  <2>1. k \in Seq(Bytes)
      BY KeysAssumption
  <2> QED BY <2>1, OneIdentifier DEF GroundRemoveIdentifier
<1>3. \A k \in DroneKeys : ~IsDroneHello(<<"E", "E">> \o k)
  <2> TAKE k \in DroneKeys
  <2>1. k \in Seq(Bytes) /\ Len(k) = KeySize /\ KeySize \in Nat
      BY KeysAssumption
  <2>2. Len(<<"E", "E">> \o k) = KeySize + 2
      BY <2>1, TwoIdentifiers, BytesAssumption
  <2> QED BY <2>1, <2>2 DEF IsDroneHello
<1> SUFFICES ASSUME NEW m \in ToGround, IsDroneHello(m)
             PROVE  GroundRemoveIdentifier(m) \in DroneKeys
                    /\ m = <<"E">> \o GroundRemoveIdentifier(m)
    OBVIOUS
<1>4. PICK k \in DroneKeys : m = <<"E">> \o k
    BY <1>1, <1>3 DEF ToGround
<1> QED BY <1>2, <1>4

(* Of the three messages only the hello is one.                            *)
LEMMA HelloIsItsKey ==
    ASSUME NEW d \in DroneKeys, NEW m \in {<<>>, <<"E">> \o d, <<"E", "E">> \o d},
           IsDroneHello(m)
    PROVE  GroundRemoveIdentifier(m) = d
<1>1. d \in Seq(Bytes) /\ Len(d) = KeySize /\ KeySize \in Nat
    BY KeysAssumption
<1>2. Len(m) = KeySize + 1
    BY DEF IsDroneHello
<1>3. Len(<<"E", "E">> \o d) = KeySize + 2
    BY <1>1, TwoIdentifiers, BytesAssumption
<1>4. m # <<"E", "E">> \o d
    BY <1>1, <1>2, <1>3
<1>5. m # <<>>
    BY <1>1, <1>2
<1>6. m = <<"E">> \o d
    BY <1>4, <1>5
<1> QED BY <1>1, <1>6, OneIdentifier DEF GroundRemoveIdentifier

-----------------------------------------------------------------------------
(* The inductive invariant.                                                *)

Shape ==
    /\ hs \in [Parties -> {"Initial", "HelloSent", "Established"}]
    /\ key \in [Parties -> DroneKeys \cup GroundKeys]
    /\ used \in [Parties -> SUBSET (DroneKeys \cup GroundKeys)]
    /\ peerKey \in [Parties -> DroneKeys \cup GroundKeys \cup {NoKey}]
    /\ secret \in [Parties -> SUBSET (DroneKeys \cup GroundKeys)]
    /\ net \in [Parties -> SUBSET (ToDrone \cup ToGround)]
    /\ conditions \in Regimes

Keyed ==
    /\ \A p \in Parties : /\ key[p] \in used[p] /\ used[p] \subseteq Keys(p)
                          /\ peerKey[p] \in Keys(Other(p)) \cup {NoKey}
    /\ net["drone"] \subseteq ToDrone /\ net["ground"] \subseteq ToGround

(* Begun by the drone and with no restart, only the two keys that exist    *)
(* travel, and whoever holds a secret holds that of the two.               *)
Paired ==
    /\ net["drone"] \subseteq {<<>>, <<"G", "E">> \o key["ground"]}
    /\ net["ground"] \subseteq {<<>>, <<"E">> \o key["drone"], <<"E", "E">> \o key["drone"]}
    /\ hs["ground"] # "Initial" => peerKey["ground"] = key["drone"]
    /\ \A p \in Parties :
           hs[p] = "Established" => secret[p] = SharedSecret(key["drone"], key["ground"])

IInv == Shape /\ Keyed /\ SecretIsCurrent /\ (DroneInitiated => Paired)

LEMMA IInvImpliesTypeOK == IInv => TypeOK
<1>1. ToDrone \subseteq Messages /\ ToGround \subseteq Messages
    BY DEF ToDrone, ToGround, Messages
<1> QED BY <1>1 DEF IInv, Shape, Keyed, TypeOK, Parties

LEMMA IInvImpliesSecretsMatch == IInv => SecretsMatch
BY DEF IInv, Paired, SecretsMatch, BothHold, Established, Parties

LEMMA InitIsInvariant == Init => IInv
BY DEF Init, IInv, Shape, Keyed, SecretIsCurrent, Paired, Parties, Keys, Other, NoKey, NoSecret,
       DroneInitiated

-----------------------------------------------------------------------------
(* What a delivery leaves on its way.                                      *)
LEMMA Delivered ==
    ASSUME Shape, NEW p \in Parties, NEW m \in net[p],
           NEW answers \in SUBSET (ToDrone \cup ToGround), Deliver(p, m, answers)
    PROVE  /\ net' \in [Parties -> SUBSET (ToDrone \cup ToGround)]
           /\ net'[p] \subseteq net[p]
           /\ net'[Other(p)] \subseteq net[Other(p)] \cup answers
BY DEF Shape, Deliver, Send, Other, Parties

(* The answers are among what may travel.                                  *)
LEMMA AnswersFit ==
    ASSUME Shape, Keyed
    PROVE  /\ key["drone"] \in DroneKeys /\ key["ground"] \in GroundKeys
           /\ Hello("drone") = <<"E">> \o key["drone"] /\ Hello("drone") \in ToGround
           /\ Hello("ground") = key["ground"] /\ Hello("ground") \in ToDrone
           /\ AddIdentifier("drone", Hello("drone")) = <<"E", "E">> \o key["drone"]
           /\ AddIdentifier("drone", Hello("drone")) \in ToGround
           /\ AddIdentifier("ground", Hello("ground")) = <<"G", "E">> \o key["ground"]
           /\ AddIdentifier("ground", Hello("ground")) \in ToDrone
           /\ <<>> \in ToDrone /\ <<>> \in ToGround
<1>1. key["drone"] \in DroneKeys /\ key["ground"] \in GroundKeys
    BY DEF Shape, Keyed, Keys, Parties
<1>2. key["drone"] \in Seq(Bytes)
    BY <1>1, KeysAssumption
<1>3. Hello("drone") = <<"E">> \o key["drone"] /\ Hello("ground") = key["ground"]
    BY DEF Hello
<1>4. AddIdentifier("drone", Hello("drone")) = <<"E", "E">> \o key["drone"]
    BY <1>2, <1>3, IdentifiersAddUp DEF AddIdentifier
<1>5. AddIdentifier("ground", Hello("ground")) = <<"G", "E">> \o key["ground"]
    BY <1>3 DEF AddIdentifier
<1> QED BY <1>1, <1>3, <1>4, <1>5 DEF ToDrone, ToGround

LEMMA InitiateKeeps ==
    ASSUME IInv, NEW p \in Parties, InitiateHandshake(p), UNCHANGED conditions
    PROVE  IInv'
<1> USE DEF IInv
<1>1. Shape'
    BY AnswersFit DEF Shape, Keyed, InitiateHandshake, Cleared, Send, Other, Parties, NoKey, NoSecret
<1>2. Keyed'
    BY AnswersFit DEF Shape, Keyed, InitiateHandshake, Cleared, Send, Other, Parties, NoKey, Keys
<1>3. SecretIsCurrent'
    BY DEF Shape, SecretIsCurrent, Established, InitiateHandshake, Cleared, Parties, NoSecret,
           SharedSecret
<1>4. ASSUME DroneInitiated' PROVE Paired'
  <2>1. DroneInitiated /\ p = "drone"
      BY <1>4 DEF DroneInitiated, InitiateHandshake, MayInitiate, Parties
  <2> QED BY <2>1, AnswersFit
          DEF Shape, Paired, InitiateHandshake, Cleared, Send, Other, Parties, SharedSecret
<1> QED BY <1>1, <1>2, <1>3, <1>4

LEMMA RestartKeeps ==
    ASSUME IInv, NEW p \in Parties, Restart(p), UNCHANGED conditions
    PROVE  IInv'
<1> USE DEF IInv
<1>1. Shape'
    BY DEF Shape, Restart, Keys, NoKey, NoSecret
<1>2. Keyed'
    BY DEF Shape, Keyed, Restart, Parties, NoKey, Keys
<1>3. SecretIsCurrent'
    BY DEF Shape, SecretIsCurrent, Established, Restart, Parties, NoSecret, SharedSecret
<1>4. ~DroneInitiated'
    BY DEF Restart, DroneInitiated
<1> QED BY <1>1, <1>2, <1>3, <1>4

LEMMA LoseKeeps ==
    ASSUME IInv, NEW p \in Parties, NEW m \in net[p], Lose(p, m), UNCHANGED conditions
    PROVE  IInv'
<1> USE DEF IInv
<1>1. Shape' /\ Keyed'
    BY DEF Shape, Keyed, Lose, party, Parties
<1>2. SecretIsCurrent'
    BY DEF SecretIsCurrent, Established, Lose, party
<1>3. DroneInitiated' => Paired'
    BY DEF DroneInitiated, Shape, Paired, Lose, party, Parties
<1> QED BY <1>1, <1>2, <1>3

-----------------------------------------------------------------------------
(* Deliveries.                                                             *)

(* A handler that changes no secret and no key, and answers what fits.     *)
LEMMA NetKeeps ==
    ASSUME IInv, UNCHANGED conditions, UNCHANGED key,
           NEW p \in Parties, NEW m \in net[p], NEW answers, Deliver(p, m, answers),
           answers \subseteq (IF p = "drone" THEN ToGround ELSE ToDrone),
           DroneInitiated =>
               answers \subseteq (IF p = "drone"
                   THEN {<<>>, <<"E">> \o key["drone"], <<"E", "E">> \o key["drone"]}
                   ELSE {<<>>, <<"G", "E">> \o key["ground"]})
    PROVE  /\ net' \in [Parties -> SUBSET (ToDrone \cup ToGround)]
           /\ net'["drone"] \subseteq ToDrone /\ net'["ground"] \subseteq ToGround
           /\ DroneInitiated =>
                /\ net'["drone"] \subseteq {<<>>, <<"G", "E">> \o key["ground"]}
                /\ net'["ground"] \subseteq
                       {<<>>, <<"E">> \o key["drone"], <<"E", "E">> \o key["drone"]}
<1>1. /\ net' \in [Parties -> SUBSET (ToDrone \cup ToGround)]
      /\ net'[p] \subseteq net[p]
      /\ net'[Other(p)] \subseteq net[Other(p)] \cup answers
    BY Delivered DEF IInv
<1>2. CASE p = "drone"
    BY <1>1, <1>2 DEF IInv, Keyed, Paired, Other, Parties
<1>3. CASE p = "ground"
    BY <1>1, <1>3 DEF IInv, Keyed, Paired, Other, Parties
<1> QED BY <1>2, <1>3 DEF Parties

LEMMA DroneAnswersKeeps ==
    ASSUME IInv, NEW m \in net["drone"], DroneAnswersAnything(m), UNCHANGED conditions
    PROVE  IInv'
<1> USE DEF IInv
<1>1. /\ net' \in [Parties -> SUBSET (ToDrone \cup ToGround)]
      /\ net'["drone"] \subseteq ToDrone /\ net'["ground"] \subseteq ToGround
      /\ DroneInitiated =>
           /\ net'["drone"] \subseteq {<<>>, <<"G", "E">> \o key["ground"]}
           /\ net'["ground"] \subseteq
                  {<<>>, <<"E">> \o key["drone"], <<"E", "E">> \o key["drone"]}
    BY NetKeeps, AnswersFit DEF DroneAnswersAnything, Parties
<1>2. Shape' /\ Keyed'
    BY <1>1 DEF Shape, Keyed, DroneAnswersAnything, Parties
<1>3. SecretIsCurrent'
    BY DEF Shape, SecretIsCurrent, Established, DroneAnswersAnything, Parties
<1>4. DroneInitiated' => Paired'
    BY <1>1 DEF DroneInitiated, Shape, Paired, DroneAnswersAnything, Parties
<1> QED BY <1>2, <1>3, <1>4

(* Nothing changes but what is on its way: refusals, acknowledgements.     *)
LEMMA NetAloneKeeps ==
    ASSUME IInv, UNCHANGED party, UNCHANGED conditions, NEW p \in Parties, NEW m \in net[p],
           NEW answers \in {{}, {<<>>}}, Deliver(p, m, answers)
    PROVE  IInv'
<1> USE DEF IInv
<1>1. /\ net' \in [Parties -> SUBSET (ToDrone \cup ToGround)]
      /\ net'["drone"] \subseteq ToDrone /\ net'["ground"] \subseteq ToGround
      /\ DroneInitiated =>
           /\ net'["drone"] \subseteq {<<>>, <<"G", "E">> \o key["ground"]}
           /\ net'["ground"] \subseteq
                  {<<>>, <<"E">> \o key["drone"], <<"E", "E">> \o key["drone"]}
    BY NetKeeps, AnswersFit DEF party
<1>2. Shape' /\ Keyed'
    BY <1>1 DEF Shape, Keyed, party, Parties
<1>3. SecretIsCurrent'
    BY DEF SecretIsCurrent, Established, party
<1>4. DroneInitiated' => Paired'
    BY <1>1 DEF DroneInitiated, Shape, Paired, party, Parties
<1> QED BY <1>2, <1>3, <1>4

LEMMA DroneTakesKeyKeeps ==
    ASSUME IInv, NEW m \in net["drone"], DroneTakesKey(m), UNCHANGED conditions
    PROVE  IInv'
<1> DEFINE k == DroneRemoveIdentifier(m)
<1>1. /\ net' \in [Parties -> SUBSET (ToDrone \cup ToGround)]
      /\ net'["drone"] \subseteq ToDrone /\ net'["ground"] \subseteq ToGround
      /\ DroneInitiated =>
           /\ net'["drone"] \subseteq {<<>>, <<"G", "E">> \o key["ground"]}
           /\ net'["ground"] \subseteq
                  {<<>>, <<"E">> \o key["drone"], <<"E", "E">> \o key["drone"]}
    BY NetKeeps, AnswersFit DEF IInv, DroneTakesKey, Parties
<1>2. /\ Len(k) = KeySize /\ hs' = [hs EXCEPT !["drone"] = "Established"]
      /\ peerKey' = [peerKey EXCEPT !["drone"] = k]
      /\ secret' = [secret EXCEPT !["drone"] = SharedSecret(key["drone"], k)]
      /\ UNCHANGED <<key, used>>
    BY DEF DroneTakesKey
<1>3. k \in GroundKeys
    BY <1>2, DroneReads DEF IInv, Keyed
<1>4. DroneInitiated => k = key["ground"]
    BY <1>2, DroneReads, AnswersFit DEF IInv, Paired
<1> HIDE DEF k
<1> USE DEF IInv
<1>5. key["drone"] \in DroneKeys
    BY AnswersFit
<1>6. Shape' /\ Keyed'
    BY <1>1, <1>2, <1>3, <1>5 DEF Shape, Keyed, Parties, Keys, Other, SharedSecret
<1>7. SecretIsCurrent'
    BY <1>2 DEF Shape, SecretIsCurrent, Established, Parties
<1>8. DroneInitiated' => Paired'
    BY <1>1, <1>2, <1>4 DEF DroneInitiated, Shape, Paired, Parties
<1> QED BY <1>6, <1>7, <1>8

LEMMA GroundTakesKeyKeeps ==
    ASSUME IInv, NEW m \in net["ground"], GroundTakesKey(m), UNCHANGED conditions
    PROVE  IInv'
<1> DEFINE k == GroundRemoveIdentifier(m)
<1>1. /\ net' \in [Parties -> SUBSET (ToDrone \cup ToGround)]
      /\ net'["drone"] \subseteq ToDrone /\ net'["ground"] \subseteq ToGround
      /\ DroneInitiated =>
           /\ net'["drone"] \subseteq {<<>>, <<"G", "E">> \o key["ground"]}
           /\ net'["ground"] \subseteq
                  {<<>>, <<"E">> \o key["drone"], <<"E", "E">> \o key["drone"]}
    BY NetKeeps, AnswersFit DEF IInv, GroundTakesKey, Parties
<1>2. /\ hs["ground"] = "Initial" /\ IsDroneHello(m)
      /\ hs' = [hs EXCEPT !["ground"] = "HelloSent"]
      /\ peerKey' = [peerKey EXCEPT !["ground"] = k]
      /\ UNCHANGED <<key, secret, used>>
    BY DEF GroundTakesKey
<1>3. k \in DroneKeys
    BY <1>2, GroundReads DEF IInv, Keyed
<1>4. DroneInitiated => k = key["drone"]
    BY <1>2, HelloIsItsKey, AnswersFit DEF IInv, Paired
<1> HIDE DEF k
<1> USE DEF IInv
<1>5. Shape' /\ Keyed'
    BY <1>1, <1>2, <1>3 DEF Shape, Keyed, Parties, Keys, Other
<1>6. SecretIsCurrent'
    BY <1>2 DEF Shape, SecretIsCurrent, Established, Parties
<1>7. DroneInitiated' => Paired'
    BY <1>1, <1>2, <1>4 DEF DroneInitiated, Shape, Paired, Parties
<1> QED BY <1>5, <1>6, <1>7

LEMMA GroundFinishesKeeps ==
    ASSUME IInv, NEW m \in net["ground"], GroundFinishes(m), UNCHANGED conditions
    PROVE  IInv'
<1> USE DEF IInv
<1>1. /\ net' \in [Parties -> SUBSET (ToDrone \cup ToGround)]
      /\ net'["drone"] \subseteq ToDrone /\ net'["ground"] \subseteq ToGround
      /\ DroneInitiated =>
           /\ net'["drone"] \subseteq {<<>>, <<"G", "E">> \o key["ground"]}
           /\ net'["ground"] \subseteq
                  {<<>>, <<"E">> \o key["drone"], <<"E", "E">> \o key["drone"]}
    BY NetKeeps, AnswersFit DEF GroundFinishes, Parties
<1>2. Shape' /\ Keyed'
    BY <1>1 DEF Shape, Keyed, GroundFinishes, ComputedSecret, SharedSecret, Parties, NoKey
<1>3. SecretIsCurrent'
    BY DEF Shape, SecretIsCurrent, Established, GroundFinishes, ComputedSecret, Parties
<1>4. ASSUME DroneInitiated' PROVE Paired'
  <2>1. key["drone"] \in DroneKeys /\ key["drone"] # NoKey
      BY AnswersFit, KeysAssumption DEF NoKey
  <2>2. Paired /\ hs["ground"] = "HelloSent" /\ peerKey["ground"] = key["drone"]
      BY <1>4 DEF DroneInitiated, GroundFinishes, Paired
  <2>3. secret'["ground"] = {key["ground"], key["drone"]} /\ secret'["drone"] = secret["drone"]
      BY <2>1, <2>2 DEF Shape, GroundFinishes, ComputedSecret, SharedSecret, Parties
  <2> QED BY <1>1, <1>4, <2>2, <2>3
          DEF DroneInitiated, Shape, Paired, GroundFinishes, SharedSecret, Parties
<1> QED BY <1>2, <1>3, <1>4

LEMMA ReceiveKeeps ==
    ASSUME IInv, NEW p \in Parties, NEW m \in net[p], Receive(p, m), UNCHANGED conditions
    PROVE  IInv'
<1>1. CASE p = "drone" /\ DroneAnswersAnything(m)
    BY <1>1, DroneAnswersKeeps
<1>2. CASE p = "drone" /\ DroneTakesKey(m)
    BY <1>2, DroneTakesKeyKeeps
<1>3. CASE p = "drone" /\ DroneRefuses(m)
    BY <1>3, NetAloneKeeps DEF DroneRefuses
<1>4. CASE p = "ground" /\ GroundTakesKey(m)
    BY <1>4, GroundTakesKeyKeeps
<1>5. CASE p = "ground" /\ GroundFinishes(m)
    BY <1>5, GroundFinishesKeeps
<1>6. CASE p = "ground" /\ GroundRefuses(m)
    BY <1>6, NetAloneKeeps DEF GroundRefuses
<1>7. CASE Acknowledge(p, m)
    BY <1>7, NetAloneKeeps DEF Acknowledge
<1> QED BY <1>1, <1>2, <1>3, <1>4, <1>5, <1>6, <1>7 DEF Receive

LEMMA InductiveStep ==
    ASSUME IInv, [Next]_vars
    PROVE  IInv'
<1>1. CASE UNCHANGED vars
    BY <1>1 DEF vars, party, IInv, Shape, Keyed, Paired, SecretIsCurrent, Established,
                DroneInitiated
<1>2. CASE Next
  <2>1. UNCHANGED conditions
      BY <1>2 DEF Next
  <2>2. PICK p \in Parties : \/ InitiateHandshake(p) \/ Restart(p)
                             \/ \E m \in net[p] : Receive(p, m) \/ Lose(p, m)
      BY <1>2 DEF Next
  <2>3. CASE InitiateHandshake(p)
      BY <2>1, <2>3, InitiateKeeps
  <2>4. CASE Restart(p)
      BY <2>1, <2>4, RestartKeeps
  <2>5. CASE \E m \in net[p] : Receive(p, m) \/ Lose(p, m)
      BY <2>1, <2>5, ReceiveKeeps, LoseKeeps
  <2> QED BY <2>2, <2>3, <2>4, <2>5
<1> QED BY <1>1, <1>2

-----------------------------------------------------------------------------
(* For any keys, whatever bytes they begin with, and every combination of  *)
(* faults, retries and restarts, only messages of the protocol travel, a   *)
(* party holds no key but one of the other's, and its secret is the one of *)
(* its present key and the key it holds.                                   *)
THEOREM SecretsStayCurrent == Spec => [](TypeOK /\ SecretIsCurrent)
<1>1. Init => IInv
    BY InitIsInvariant
<1>2. IInv /\ [Next]_vars => IInv'
    BY InductiveStep
<1>3. IInv => TypeOK /\ SecretIsCurrent
    BY IInvImpliesTypeOK DEF IInv
<1> QED BY <1>1, <1>2, <1>3, PTL DEF Spec

(* Of a handshake begun by the drone, with no restart: Established parties *)
(* hold the same secret, whatever the network did.                         *)
THEOREM SecretsAgree == Spec => []SecretsMatch
<1>1. Init => IInv
    BY InitIsInvariant
<1>2. IInv /\ [Next]_vars => IInv'
    BY InductiveStep
<1>3. IInv => SecretsMatch
    BY IInvImpliesSecretsMatch
<1> QED BY <1>1, <1>2, <1>3, PTL DEF Spec

-----------------------------------------------------------------------------
(* Sequences.                                                              *)

LEMMA AppendToSecond ==
    ASSUME NEW S, NEW s \in Seq(S), NEW t \in Seq(S), NEW e \in S
    PROVE  s \o Append(t, e) = Append(s \o t, e)
<1>1. s \o Append(t, e) \in Seq(S) /\ Append(s \o t, e) \in Seq(S)
    OBVIOUS
<1>2. Len(s \o Append(t, e)) = Len(Append(s \o t, e))
    OBVIOUS
<1>3. \A i \in 1 .. Len(s \o Append(t, e)) : (s \o Append(t, e))[i] = Append(s \o t, e)[i]
    OBVIOUS
<1> QED BY <1>1, <1>2, <1>3, SeqEqual

LEMMA HeadMovesOver ==
    ASSUME NEW S, NEW s \in Seq(S), NEW t \in Seq(S), t # <<>>
    PROVE  Append(s, Head(t)) \o Tail(t) = s \o t
<1>1. Append(s, Head(t)) \o Tail(t) \in Seq(S) /\ s \o t \in Seq(S)
    OBVIOUS
<1>2. Len(Append(s, Head(t)) \o Tail(t)) = Len(s \o t)
    OBVIOUS
<1>3. \A i \in 1 .. Len(s \o t) : (Append(s, Head(t)) \o Tail(t))[i] = (s \o t)[i]
    OBVIOUS
<1> QED BY <1>1, <1>2, <1>3, SeqEqual

LEMMA AppendIndexed ==
    ASSUME NEW S, NEW s \in Seq(S), NEW e \in S
    PROVE  /\ Append(s, e) \in Seq(S)
           /\ Len(Append(s, e)) = Len(s) + 1
           /\ Append(s, e)[Len(s) + 1] = e
           /\ \A i \in 1 .. Len(Append(s, e)) :
                  i # Len(s) + 1 => i \in 1 .. Len(s) /\ Append(s, e)[i] = s[i]
OBVIOUS

-----------------------------------------------------------------------------
(* The ciphers.                                                            *)

LEMMA MaskedShape ==
    ASSUME NEW k, NEW iv, NEW B, NEW text \in Seq(B)
    PROVE  /\ Len(Masked(k, iv, text)) = Len(text)
           /\ Len(text) \in Nat
           /\ Masked(k, iv, text) = [i \in 1 .. Len(text) |-> Masked(k, iv, text)[i]]
           /\ \A i \in 1 .. Len(text) : Masked(k, iv, text)[i].byte = text[i]
BY DEF Masked

LEMMA Unmasks ==
    ASSUME NEW k, NEW iv, NEW B, NEW text \in Seq(B)
    PROVE  Unmasked(Masked(k, iv, text)) = text
<1>1. Unmasked(Masked(k, iv, text)) = [i \in 1 .. Len(text) |-> text[i]]
    BY MaskedShape DEF Unmasked
<1> QED BY <1>1

LEMMA ResizedToItself ==
    ASSUME NEW n \in Nat, NEW m \in Nat, n <= m, NEW f, f = [i \in 1 .. n |-> f[i]], Len(f) = n
    PROVE  Resized(Resized(f, m), n) = f
<1>1. Resized(f, m) = [i \in 1 .. m |-> IF i <= n THEN f[i] ELSE Unused]
    BY DEF Resized
<1>2. Len(Resized(f, m)) = m
    BY <1>1
<1>3. Resized(Resized(f, m), n) = [i \in 1 .. n |-> f[i]]
    BY <1>1, <1>2 DEF Resized
<1> QED BY <1>3

(* What one end encrypts the other decrypts to the same, with the same     *)
(* secret, if the cipher lets it through.                                  *)
LEMMA RoundTrip ==
    ASSUME NEW k, NEW iv, NEW B, NEW text \in Seq(B), NEW cipher,
           cipher = "AES256GCM" \/ Len(text) = TagSize
    PROVE  Decrypted(k, Encrypted(k, cipher, iv, text)) = text
<1> DEFINE c == Masked(k, iv, text)
<1>1. Len(c) = Len(text) /\ Len(text) \in Nat /\ c = [i \in 1 .. Len(text) |-> c[i]]
    BY MaskedShape
<1>2. Unmasked(c) = text
    BY Unmasks
<1>3. CASE cipher = "AES256GCM"
    BY <1>2, <1>3 DEF Decrypted, Encrypted, EncryptAESGCM, DecryptAESGCM, Opened
<1>4. CASE cipher # "AES256GCM"
  <2>1. Len(text) = TagSize /\ TagSize \in Nat
      BY <1>1, <1>4
  <2> HIDE DEF c
  <2>2. Resized(Resized(c, Len(c) + TagSize), TagSize) = c
    <3>1. Len(c) = TagSize /\ Len(c) + TagSize \in Nat /\ TagSize <= Len(c) + TagSize
        BY <1>1, <2>1
    <3>2. c = [i \in 1 .. TagSize |-> c[i]]
        BY <1>1, <2>1
    <3> QED BY <2>1, <3>1, <3>2, ResizedToItself, Zenon
  <2>3. EncryptChaCha20Poly1305(k, iv, text, NoAad) =
            [ciphertext |-> c, tag |-> TagOf(k, iv, c, NoAad)]
      BY <2>2 DEF EncryptChaCha20Poly1305, c
  <2>4. Opened(k, iv, c, NoAad, TagOf(k, iv, c, NoAad)) = text
      BY <1>2 DEF Opened
  <2>5. Encrypted(k, cipher, iv, text) =
            [cipher |-> cipher, iv |-> iv, ciphertext |-> c, tag |-> TagOf(k, iv, c, NoAad)]
      BY <1>4, <2>3 DEF Encrypted
  <2>6. Decrypted(k, Encrypted(k, cipher, iv, text)) =
            Opened(k, iv, c, NoAad, TagOf(k, iv, c, NoAad))
      BY <1>4, <2>5 DEF Decrypted, DecryptChaCha20Poly1305
  <2> QED BY <2>4, <2>6
<1> QED BY <1>3, <1>4

-----------------------------------------------------------------------------
(* The inductive invariant.                                                *)

TheSecret == SharedSecret(key["drone"], key["ground"])

(* Any message the drone can write.                                        *)
AnyIv == [size : {8, 12}, number : Nat]

Packets ==
    {Encrypted(k, c, iv, t) :
        k \in SUBSET (DroneKeys \cup GroundKeys), c \in Ciphers, iv \in AnyIv, t \in Plaintexts}

Sensed == [cipher : Ciphers, text : Plaintexts]

Results == {Decrypted(k, d) : k \in SUBSET (DroneKeys \cup GroundKeys), d \in Packets}

DataShape ==
    /\ stream \in [Streams -> Sessions \cup {NoSession}]
    /\ queue \in [Sessions -> Seq(Packets)]
    /\ written \in [Sessions -> Seq(Packets)]
    /\ received \in [Sessions -> Seq(Packets)]
    /\ sensed \in [Sessions -> Seq(Sensed)]
    /\ report \in [Sessions -> Seq(Results)]

SameLengths ==
    \A s \in Sessions : /\ Len(sensed[s]) = Len(written[s])
                        /\ Len(report[s]) = Len(received[s])

(* What was written was encrypted with the secret of the two keys, and     *)
(* what was read was decrypted with it.                                    *)
OneSecret ==
    \A s \in Sessions :
        /\ \A i \in 1 .. Len(written[s]) :
               \E iv \in AnyIv :
                   written[s][i] = Encrypted(TheSecret, sensed[s][i].cipher, iv, sensed[s][i].text)
        /\ \A i \in 1 .. Len(report[s]) : report[s][i] = Decrypted(TheSecret, received[s][i])

MissionInv ==
    IInv /\ DataShape /\ SameLengths /\ InOrder /\ (DroneInitiated => OneSecret)

LEMMA PlaintextsAreBytes ==
    \A t \in Plaintexts : t \in Seq(Bytes)
BY PlaintextsAssumption

LEMMA InvariantIsReadable == MissionInv => MissionIsReadable
<1> SUFFICES ASSUME MissionInv, DroneInitiated, NEW s \in Sessions, NEW i \in DOMAIN report[s],
                    Survives(sensed[s][i])
             PROVE  report[s][i] = sensed[s][i].text
    BY DEF MissionIsReadable
<1>1. i \in 1 .. Len(report[s]) /\ report[s][i] = Decrypted(TheSecret, received[s][i])
    BY DEF MissionInv, DataShape, OneSecret
<1>2. i \in 1 .. Len(written[s]) /\ received[s][i] = written[s][i]
  <2> DEFINE r == received[s]
             q == queue[s]
  <2>1. r \in Seq(Packets) /\ q \in Seq(Packets) /\ Len(report[s]) = Len(r) /\ written[s] = r \o q
      BY DEF MissionInv, DataShape, SameLengths, InOrder
  <2> HIDE DEF r, q
  <2>2. i \in 1 .. Len(r \o q) /\ (r \o q)[i] = r[i]
      BY <1>1, <2>1
  <2> QED BY <2>1, <2>2 DEF r
<1>3. sensed[s][i] \in Sensed
    BY <1>2 DEF MissionInv, DataShape, SameLengths
<1>4. sensed[s][i].text \in Seq(Bytes)
    BY <1>3, PlaintextsAreBytes DEF Sensed
<1>5. PICK iv \in AnyIv :
          written[s][i] = Encrypted(TheSecret, sensed[s][i].cipher, iv, sensed[s][i].text)
    BY <1>2 DEF MissionInv, OneSecret
<1>6. sensed[s][i].cipher = "AES256GCM" \/ Len(sensed[s][i].text) = TagSize
    BY DEF Survives
<1> QED BY <1>1, <1>2, <1>4, <1>5, <1>6, RoundTrip

LEMMA MissionBegins == MissionInit => MissionInv
<1> SUFFICES ASSUME MissionInit PROVE MissionInv
    OBVIOUS
<1>1. IInv
    BY InitIsInvariant DEF MissionInit
<1>2. DataShape
    BY DEF MissionInit, SatelliteInit, DataShape
<1>3. SameLengths /\ InOrder /\ OneSecret
    BY DEF MissionInit, SatelliteInit, SameLengths, InOrder, OneSecret
<1> QED BY <1>1, <1>2, <1>3 DEF MissionInv

-----------------------------------------------------------------------------
LEMMA HandshakeStepKeeps ==
    ASSUME MissionInv, HandshakeStep
    PROVE  MissionInv'
<1>1. IInv'
    BY InductiveStep DEF MissionInv, HandshakeStep
<1>2. DataShape' /\ SameLengths' /\ InOrder'
    BY DEF HandshakeStep, MissionInv, DataShape, SameLengths, InOrder, setup, data
<1>3. ASSUME DroneInitiated' PROVE OneSecret'
  <2>1. UNCHANGED conditions
      BY DEF HandshakeStep, Next
  <2>2. DroneInitiated /\ OneSecret
      BY <1>3, <2>1 DEF MissionInv, DroneInitiated
  <2>3. UNCHANGED key
    <3>1. \A p \in Parties : ~Restart(p)
        BY <2>2 DEF DroneInitiated, Restart
    <3> QED BY <3>1 DEF HandshakeStep, Next, InitiateHandshake, Receive, Lose, party,
            DroneAnswersAnything, DroneTakesKey, DroneRefuses, GroundTakesKey, GroundFinishes,
            GroundRefuses, Acknowledge
  <2> QED BY <2>2, <2>3 DEF HandshakeStep, OneSecret, TheSecret, data
<1> QED BY <1>1, <1>2, <1>3 DEF MissionInv

LEMMA SetupKeeps ==
    ASSUME MissionInv, SetupStep, UNCHANGED <<sensed, report>>, UNCHANGED vars
    PROVE  MissionInv'
<1>1. IInv'
    BY InductiveStep DEF MissionInv
<1>2. UNCHANGED data
    BY DEF SetupStep, SetProvider, CreateSatelliteSession, Connect, Disconnect,
           CreateSatelliteStream, Close
<1>3. stream' \in [Streams -> Sessions \cup {NoSession}]
    BY DEF MissionInv, DataShape, SetupStep, SetProvider, CreateSatelliteSession, Connect,
           Disconnect, CreateSatelliteStream, Close, setup
<1>4. DataShape' /\ SameLengths' /\ InOrder'
    BY <1>2, <1>3 DEF MissionInv, DataShape, SameLengths, InOrder, data
<1>5. DroneInitiated' => OneSecret'
    BY <1>2 DEF MissionInv, DroneInitiated, OneSecret, TheSecret, data, vars, party
<1> QED BY <1>1, <1>4, <1>5 DEF MissionInv

(* Of the variables, transmitting changes three at one session.            *)
LEMMA TransmitKeeps ==
    ASSUME MissionInv, NEW t \in Streams, NEW cipher \in Ciphers, NEW text \in Plaintexts,
           stream[t] # NoSession, NEW iv \in Ivs(stream[t]), Transmit(t, cipher, iv, text),
           UNCHANGED vars
    PROVE  MissionInv'
<1> DEFINE s == stream[t]
           d == Encrypted(secret["drone"], cipher, iv, text)
           n == [cipher |-> cipher, text |-> text]
<1>1. s \in Sessions
    BY DEF MissionInv, DataShape
<1>2. /\ queue' = [queue EXCEPT ![s] = Append(@, d)]
      /\ written' = [written EXCEPT ![s] = Append(@, d)]
      /\ sensed' = [sensed EXCEPT ![s] = Append(@, n)]
      /\ UNCHANGED <<setup, received, report>>
    BY DEF Transmit, Write, SendData
<1>3. n \in Sensed /\ n.cipher = cipher /\ n.text = text
    BY DEF Sensed
<1>4. iv \in AnyIv
    BY <1>1 DEF Ivs, AnyIv, MissionInv, DataShape
<1>5. d \in Packets
    BY <1>4 DEF Packets, MissionInv, IInv, Shape, Parties
<1>6. IInv'
    BY InductiveStep DEF MissionInv
<1>7. ASSUME DroneInitiated PROVE d = Encrypted(TheSecret, n.cipher, iv, n.text)
  <2>1. secret["drone"] = TheSecret
      BY <1>7 DEF MissionInv, IInv, Paired, Transmit, MayUse, Parties, TheSecret
  <2> QED BY <2>1, <1>3
<1> HIDE DEF d, n
<1>8. DataShape'
    BY <1>1, <1>2, <1>3, <1>5 DEF MissionInv, DataShape, setup
<1>9. SameLengths'
    BY <1>1, <1>2, <1>3, <1>5 DEF MissionInv, DataShape, SameLengths
<1>10. InOrder'
  <2> SUFFICES ASSUME NEW z \in Sessions PROVE written'[z] = received'[z] \o queue'[z]
      BY DEF InOrder
  <2>1. received[z] \in Seq(Packets) /\ queue[z] \in Seq(Packets)
        /\ written[z] = received[z] \o queue[z]
      BY DEF MissionInv, DataShape, InOrder
  <2>2. CASE z = s
    <3>1. /\ written'[z] = Append(written[z], d) /\ queue'[z] = Append(queue[z], d)
          /\ received'[z] = received[z]
        BY <1>1, <1>2, <2>2 DEF MissionInv, DataShape
    <3> DEFINE r == received[z]
               q == queue[z]
    <3>2. r \in Seq(Packets) /\ q \in Seq(Packets)
        BY <2>1
    <3> HIDE DEF r, q
    <3>3. r \o Append(q, d) = Append(r \o q, d)
        BY <1>5, <3>2, AppendToSecond
    <3> QED BY <2>1, <3>1, <3>3 DEF r, q
  <2>3. CASE z # s
      BY <1>2, <2>1, <2>3 DEF MissionInv, DataShape
  <2> QED BY <2>2, <2>3
<1>11. ASSUME DroneInitiated' PROVE OneSecret'
  <2>1. DroneInitiated /\ TheSecret' = TheSecret /\ OneSecret
      BY <1>11 DEF DroneInitiated, TheSecret, vars, party, MissionInv
  <2>2. \A z \in Sessions : \A i \in 1 .. Len(written'[z]) :
            \E v \in AnyIv :
               written'[z][i] = Encrypted(TheSecret, sensed'[z][i].cipher, v, sensed'[z][i].text)
    <3> TAKE z \in Sessions
    <3> TAKE i \in 1 .. Len(written'[z])
    <3>1. CASE z = s
      <4> DEFINE w == written[z]
                 h == sensed[z]
                 j == Len(w) + 1
      <4>1. w \in Seq(Packets) /\ h \in Seq(Sensed) /\ Len(h) = Len(w)
          BY DEF MissionInv, DataShape, SameLengths
      <4>2. written'[z] = Append(w, d) /\ sensed'[z] = Append(h, n)
          BY <1>1, <1>2, <3>1 DEF MissionInv, DataShape
      <4>3. \A m \in 1 .. Len(w) :
                \E v \in AnyIv : w[m] = Encrypted(TheSecret, h[m].cipher, v, h[m].text)
          BY <2>1 DEF OneSecret
      <4> HIDE DEF w, h
      <4>4. CASE i = j
        <5>1. Append(w, d)[i] = d /\ Append(h, n)[i] = n
            BY <1>3, <1>5, <4>1, <4>4, AppendIndexed
        <5>2. written'[z][i] = Encrypted(TheSecret, n.cipher, iv, n.text)
            BY <1>7, <2>1, <4>2, <5>1
        <5> QED BY <1>4, <4>2, <5>1, <5>2
      <4>5. CASE i # j
        <5>1. /\ i \in 1 .. Len(w)
              /\ Append(w, d)[i] = w[i] /\ Append(h, n)[i] = h[i]
            BY <1>3, <1>5, <4>1, <4>2, <4>5, AppendIndexed
        <5> QED BY <4>2, <4>3, <5>1
      <4> QED BY <4>4, <4>5
    <3>2. CASE z # s
        BY <1>2, <2>1, <3>2 DEF OneSecret, MissionInv, DataShape
    <3> QED BY <3>1, <3>2
  <2>3. \A z \in Sessions : \A i \in 1 .. Len(report'[z]) :
            report'[z][i] = Decrypted(TheSecret, received'[z][i])
      BY <1>2, <2>1 DEF OneSecret
  <2> QED BY <2>1, <2>2, <2>3, Zenon DEF OneSecret
<1> QED BY <1>6, <1>8, <1>9, <1>10, <1>11 DEF MissionInv

(* Collecting moves a message from the queue to the messages received.     *)
LEMMA CollectKeeps ==
    ASSUME MissionInv, NEW t \in Streams, Collect(t), UNCHANGED vars
    PROVE  MissionInv'
<1> DEFINE s == stream[t]
           d == Head(queue[s])
           m == Decrypted(secret["ground"], d)
<1>1. s \in Sessions /\ queue[s] # <<>>
    BY DEF MissionInv, DataShape, Collect, Read, ReceiveData
<1>2. /\ queue' = [queue EXCEPT ![s] = Tail(@)]
      /\ received' = [received EXCEPT ![s] = Append(@, d)]
      /\ report' = [report EXCEPT ![s] = Append(@, m)]
      /\ UNCHANGED <<setup, written, sensed>>
    BY DEF Collect, Read, ReceiveData
<1>3. queue[s] \in Seq(Packets) /\ received[s] \in Seq(Packets) /\ d \in Packets
    BY <1>1 DEF MissionInv, DataShape
<1>4. m \in Results
    BY <1>3 DEF Results, MissionInv, IInv, Shape, Parties
<1>5. Tail(queue[s]) \in Seq(Packets)
    BY <1>1, <1>3
<1>6. IInv'
    BY InductiveStep DEF MissionInv
<1>7. ASSUME DroneInitiated PROVE m = Decrypted(TheSecret, d)
    BY <1>7 DEF MissionInv, IInv, Paired, Collect, MayUse, Parties, TheSecret
<1> HIDE DEF d, m
<1>8. DataShape'
    BY <1>1, <1>2, <1>3, <1>4, <1>5 DEF MissionInv, DataShape, setup
<1>9. SameLengths'
    BY <1>1, <1>2, <1>3, <1>4 DEF MissionInv, DataShape, SameLengths
<1>10. InOrder'
  <2> SUFFICES ASSUME NEW z \in Sessions PROVE written'[z] = received'[z] \o queue'[z]
      BY DEF InOrder
  <2>1. received[z] \in Seq(Packets) /\ queue[z] \in Seq(Packets)
        /\ written[z] = received[z] \o queue[z]
      BY DEF MissionInv, DataShape, InOrder
  <2>2. CASE z = s
    <3> DEFINE r == received[z]
               q == queue[z]
    <3>1. /\ written'[z] = written[z] /\ queue'[z] = Tail(q)
          /\ received'[z] = Append(r, Head(q))
        BY <1>1, <1>2, <2>2 DEF MissionInv, DataShape, d
    <3>2. r \in Seq(Packets) /\ q \in Seq(Packets) /\ q # <<>>
        BY <1>1, <2>1, <2>2
    <3> HIDE DEF r, q
    <3>3. Append(r, Head(q)) \o Tail(q) = r \o q
        BY <3>2, HeadMovesOver
    <3> QED BY <2>1, <3>1, <3>3 DEF r, q
  <2>3. CASE z # s
      BY <1>2, <2>1, <2>3 DEF MissionInv, DataShape
  <2> QED BY <2>2, <2>3
<1>11. ASSUME DroneInitiated' PROVE OneSecret'
  <2>1. DroneInitiated /\ TheSecret' = TheSecret /\ OneSecret
      BY <1>11 DEF DroneInitiated, TheSecret, vars, party, MissionInv
  <2>2. \A z \in Sessions : \A i \in 1 .. Len(report'[z]) :
            report'[z][i] = Decrypted(TheSecret, received'[z][i])
    <3> TAKE z \in Sessions
    <3> TAKE i \in 1 .. Len(report'[z])
    <3>1. CASE z = s
      <4> DEFINE r == received[z]
                 p == report[z]
                 j == Len(p) + 1
      <4>1. r \in Seq(Packets) /\ p \in Seq(Results) /\ Len(p) = Len(r)
          BY DEF MissionInv, DataShape, SameLengths
      <4>2. received'[z] = Append(r, d) /\ report'[z] = Append(p, m)
          BY <1>1, <1>2, <3>1 DEF MissionInv, DataShape
      <4>3. \A x \in 1 .. Len(p) : p[x] = Decrypted(TheSecret, r[x])
          BY <2>1 DEF OneSecret
      <4> HIDE DEF r, p
      <4>4. CASE i = j
        <5>1. Append(r, d)[i] = d /\ Append(p, m)[i] = m
            BY <1>3, <1>4, <4>1, <4>4, AppendIndexed
        <5> QED BY <1>7, <2>1, <4>2, <5>1
      <4>5. CASE i # j
        <5>1. /\ i \in 1 .. Len(p)
              /\ Append(r, d)[i] = r[i] /\ Append(p, m)[i] = p[i]
            BY <1>3, <1>4, <4>1, <4>2, <4>5, AppendIndexed
        <5> QED BY <4>2, <4>3, <5>1
      <4> QED BY <4>4, <4>5
    <3>2. CASE z # s
        BY <1>2, <2>1, <3>2 DEF OneSecret, MissionInv, DataShape
    <3> QED BY <3>1, <3>2
  <2>3. \A z \in Sessions : \A i \in 1 .. Len(written'[z]) :
            \E v \in AnyIv :
               written'[z][i] = Encrypted(TheSecret, sensed'[z][i].cipher, v, sensed'[z][i].text)
      BY <1>2, <2>1 DEF OneSecret
  <2> QED BY <2>1, <2>2, <2>3, Zenon DEF OneSecret
<1> QED BY <1>6, <1>8, <1>9, <1>10, <1>11 DEF MissionInv

LEMMA MissionStep == MissionInv /\ [MissionNext]_missionVars => MissionInv'
<1> SUFFICES ASSUME MissionInv, [MissionNext]_missionVars PROVE MissionInv'
    OBVIOUS
<1>1. CASE HandshakeStep
    BY <1>1, HandshakeStepKeeps
<1>2. CASE DataStep
  <2>1. CASE SetupStep /\ UNCHANGED <<sensed, report>>
      BY <1>2, <2>1, SetupKeeps DEF DataStep
  <2>2. ASSUME NEW t \in Streams, NEW cipher \in Ciphers, NEW text \in Plaintexts,
               stream[t] # NoSession, NEW iv \in Ivs(stream[t]), Transmit(t, cipher, iv, text)
        PROVE  MissionInv'
      BY <1>2, <2>2, TransmitKeeps DEF DataStep
  <2>3. ASSUME NEW t \in Streams, Collect(t)
        PROVE  MissionInv'
      BY <1>2, <2>3, CollectKeeps DEF DataStep
  <2>4. ASSUME NEW t \in Streams, NEW cipher \in Ciphers, NEW text \in Plaintexts,
               NEW iv \in (IF stream[t] = NoSession THEN {} ELSE Ivs(stream[t])),
               Transmit(t, cipher, iv, text)
        PROVE  MissionInv'
    <3>1. stream[t] # NoSession /\ iv \in Ivs(stream[t])
        BY <2>4
    <3> QED BY <2>2, <2>4, <3>1
  <2> QED BY <1>2, <2>1, <2>3, <2>4 DEF DataStep
<1>3. CASE UNCHANGED missionVars
  <2>1. IInv'
      BY <1>3, InductiveStep DEF missionVars, MissionInv
  <2>2. DataShape' /\ SameLengths' /\ InOrder'
      BY <1>3 DEF missionVars, setup, data, MissionInv, DataShape, SameLengths, InOrder
  <2>3. DroneInitiated' => OneSecret'
      BY <1>3 DEF missionVars, vars, party, data, MissionInv, DroneInitiated, OneSecret, TheSecret
  <2> QED BY <2>1, <2>2, <2>3 DEF MissionInv
<1> QED BY <1>1, <1>2, <1>3 DEF MissionNext

LEMMA MissionKeepsInvariant == MissionSpec => []MissionInv
<1> QED BY MissionBegins, MissionStep, PTL DEF MissionSpec

-----------------------------------------------------------------------------
(* The handshake keeps what it promises while data flows.                  *)
THEOREM MissionSecretsHold == MissionSpec => [](TypeOK /\ SecretIsCurrent /\ SecretsMatch)
<1>1. MissionInv => TypeOK /\ SecretIsCurrent /\ SecretsMatch
    BY IInvImpliesTypeOK, IInvImpliesSecretsMatch DEF MissionInv, IInv
<1> QED BY <1>1, MissionKeepsInvariant, PTL

(* Whichever streams write and read, and whatever is connected,            *)
(* disconnected or closed in between, nothing is lost, repeated or         *)
(* overtaken, for any number of sessions, streams and messages.            *)
THEOREM MissionKeepsOrder == MissionSpec => []InOrder
<1>1. MissionInv => InOrder
    BY DEF MissionInv
<1> QED BY <1>1, MissionKeepsInvariant, PTL

(* Begun by the drone, every message that the ground reads and the cipher  *)
(* lets through is decrypted to what the drone sensed, for any keys,       *)
(* regimes, plaintexts and length of the tag.                              *)
THEOREM MissionStaysReadable == MissionSpec => []MissionIsReadable
<1> QED BY InvariantIsReadable, MissionKeepsInvariant, PTL

=============================================================================
