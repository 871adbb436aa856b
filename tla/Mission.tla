------------------------------ MODULE Mission ------------------------------
(***************************************************************************)
(* A drone's mission as src/examples/drone_swarm/README.md:22-27 describes *)
(* it: the handshake, then data that the drone encrypts with the shared    *)
(* secret and writes to a satellite stream, and that the ground reads and  *)
(* decrypts.  It composes the Handshake, the Satellite and the Crypto of   *)
(* the library; the two applications are the ones the example describes.   *)
(***************************************************************************)
EXTENDS Handshake, Satellite, Crypto

CONSTANTS Plaintexts,  \* sensor data, sequences of bytes
          Ciphers      \* the ciphers the applications have agreed on

ASSUME PlaintextsAssumption == Plaintexts \subseteq Seq(Bytes)
ASSUME CiphersAssumption == Ciphers \subseteq {"AES256GCM", "CHACHA20"}

VARIABLES sensed,  \* history: sensed[s]: the data encrypted and written to s
          report   \* report[s]: what the ground made of each message read

missionVars == <<vars, setup, data, sensed, report>>

MissionInit ==
    /\ Init
    /\ SatelliteInit
    /\ sensed = [s \in Sessions |-> <<>>]
    /\ report = [s \in Sessions |-> <<>>]

-----------------------------------------------------------------------------
NoAad == <<>>

(* getSharedSecret throws unless the party is Established.  An Established *)
(* party may hold an empty secret.                                         *)
SecretSize(p) == IF secret[p] = NoSecret THEN 0 ELSE KeyBytes

(* AES-GCM checks no size: the applications pass what it reads.            *)
MayUse(p, cipher, iv) ==
    /\ hs[p] = "Established"
    /\ IF cipher = "AES256GCM" THEN SecretSize(p) = KeyBytes /\ iv.size = 12
                               ELSE SizesFit(SecretSize(p), iv)

Encrypted(k, cipher, iv, text) ==
    LET sealed == IF cipher = "AES256GCM" THEN EncryptAESGCM(k, iv, text, NoAad)
                                          ELSE EncryptChaCha20Poly1305(k, iv, text, NoAad)
    IN  [cipher |-> cipher, iv |-> iv,
         ciphertext |-> sealed.ciphertext, tag |-> sealed.tag]

Decrypted(k, d) ==
    IF d.cipher = "AES256GCM"
      THEN DecryptAESGCM(k, d.iv, d.ciphertext, NoAad, d.tag)
      ELSE DecryptChaCha20Poly1305(k, d.iv, d.ciphertext, NoAad, d.tag)

(* No two messages of a session use the same initialisation vector.        *)
Ivs(s) == [size : {8, 12}, number : {Len(written[s]) + 1}]

(* Steps 5 and 6: the drone encrypts what it sensed and writes it.         *)
Transmit(t, cipher, iv, text) ==
    /\ MayUse("drone", cipher, iv)
    /\ Write(t, Encrypted(secret["drone"], cipher, iv, text))
    /\ sensed' = [sensed EXCEPT ![stream[t]] = Append(@, [cipher |-> cipher, text |-> text])]
    /\ UNCHANGED report

(* Steps 7 and 8: the ground reads what the drone wrote and decrypts it.   *)
Collect(t) ==
    /\ Read(t)
    /\ LET d == Head(queue[stream[t]]) IN
           /\ MayUse("ground", d.cipher, d.iv)
           /\ report' = [report EXCEPT ![stream[t]] = Append(@, Decrypted(secret["ground"], d))]
    /\ UNCHANGED sensed

-----------------------------------------------------------------------------
HandshakeStep == Next /\ UNCHANGED <<setup, data, sensed, report>>

DataStep ==
    /\ "mission" \in conditions
    /\ \/ SetupStep /\ UNCHANGED <<sensed, report>>
       \/ \E t \in Streams :
              \/ \E cipher \in Ciphers, text \in Plaintexts :
                     \E iv \in (IF stream[t] = NoSession THEN {} ELSE Ivs(stream[t])) :
                         Transmit(t, cipher, iv, text)
              \/ Collect(t)
    /\ UNCHANGED vars

MissionNext == HandshakeStep \/ DataStep

MissionSpec == MissionInit /\ [][MissionNext]_missionVars

(* Messages that are not lost are delivered, and an Established ground     *)
(* reads what waits for it.                                                *)
CollectAny == "mission" \in conditions /\ (\E t \in Streams : Collect(t)) /\ UNCHANGED vars

MissionFairness ==
    /\ \A p \in Parties, m \in Messages :
           WF_vars(Receive(p, m) /\ UNCHANGED <<conditions, setup, data, sensed, report>>)
    /\ WF_missionVars(CollectAny)

FairMission == MissionSpec /\ MissionFairness

-----------------------------------------------------------------------------
(* ChaCha20-Poly1305 cuts or fills every ciphertext to the length of the   *)
(* tag, so only plaintexts of just that length come through.               *)
Survives(message) ==
    message.cipher = "AES256GCM" \/ Len(message.text) = TagSize

(* Begun by the drone and with no restart, whatever the network did to the *)
(* handshake and however the streams were used, the ground decrypts every  *)
(* message it reads to what the drone had sensed, in the drone's order, if *)
(* the cipher lets it through.                                             *)
MissionIsReadable ==
    DroneInitiated =>
        \A s \in Sessions : \A i \in DOMAIN report[s] :
            Survives(sensed[s][i]) => report[s][i] = sensed[s][i].text

(* Unless the handshake lost a message, what the drone writes is at some   *)
(* time read by the ground: the ground gets as far as the drone.           *)
DataArrives ==
    \A s \in Sessions : \A n \in 1 .. MaxWrites :
        (conditions \subseteq {"drone_first", "duplicate", "mission"} /\ Len(written[s]) >= n)
            ~> Len(report[s]) >= n

-----------------------------------------------------------------------------
(* What the documentation says, refuted by a run.                          *)

(* src/examples/drone_swarm/README.md:27, "The Ground Station receives the *)
(* packet, parses it, and decrypts the data using the shared secret", and  *)
(* src/tests/crypto/test_srpt_crypto.cpp:58-59 for ChaCha20-Poly1305: what *)
(* is encrypted is decrypted, with no exception, to the same plaintext.    *)
EncryptedDataDecrypts ==
    \A s \in Sessions : \A i \in DOMAIN report[s] : report[s][i] = sensed[s][i].text
=============================================================================
