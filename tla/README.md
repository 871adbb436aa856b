# A TLA+ model of the SRPT protocol library

SRPT (Satellite Relay and Point-to-point Transport) is a C++ library: a
connection state machine with retransmission, keep-alive and flow control, a key
exchange between drones and ground stations, chunking and reassembly of
packages, local discovery and routing, congestion control, and adapters for
satellite providers. Paths below start at the root of the repository (`src/`),
so the library's own code is under `src/src/`.

The classes are passive: almost none opens a socket or a thread, they are told
what arrived and their callers send what they return. What is hard about them is
therefore what happens *between* two of them, and that is what is modelled.

## 1. Inventory

| part | code | state | operations | what is hard | correct when |
|---|---|---|---|---|---|
| SRPTConnection, control | `core/srpt_connection.cpp` 14-127 | `state_` | initiate, initiateClose, close, one handler per packet kind, timers, reset | packets carry no connection and no number, so any ACK is every ACK; lost, late and crossing packets; both ends acting at once | the two ends never hold different connections; a close completes; nothing lingers |
| SRPTConnection, data | same file 132-230 | unacknowledged packets, two window sizes, activity clock | sendPacket, acknowledgePacket, sendData, receiveData, window and keep-alive calls | 32-bit wrap-around, state surviving a reset, some of the packets that show a peer alive set the clock, others do not | what is sent stays within the window granted; a peer that keeps its schedule of keep-alives is not taken for dead |
| Handshake | `core/srpt_handshake.cpp`, `space/drone/drone_handshake.cpp`, `ground/ground_handshake.cpp` | state, key pair, peer key, secret | initiateHandshake, handleHandshakeMessage, getSharedSecret | both initiating, restarts, repeats, guessing identifiers from bytes | Established parties share one secret |
| Package, chunking, reassembly | `core/srpt_package.cpp`, `srpt_chunking.cpp`, `srpt_reassembly.cpp` | none | createChunks, reassembleChunks | order, repeats, remainders | the package put together is the one sent |
| RetransmissionManager | `core/srpt_retransmission.cpp` | sent and received numbers | packetSent, packetReceived, needsRetransmission | numbers used again | a lost packet is sent again |
| SRPTPacket, CRC32C | `core/srpt_packet.cpp`, `srpt_error_detection.cpp` | header, table | toBytes, fromBytes, checksum | numbers without markers, 16-bit payload size | a packet is read back as written, damage is noticed |
| Discovery | `network/local/discovery.cpp` | flag, thread, list | startDiscovery, stopDiscovery, worker loop | threads, an unguarded thread object, a constructor that throws | one worker, stop stops, no crash, no thread lost |
| Routing | `network/local/routing.cpp` | nodes, adjacency lists | addNode, addLink, findRoute | loops, parallel ways | a shortest route, or an error only when there is none |
| Node, Hub | `network/node/node.cpp`, `network/hub/hub.cpp` | links of a node | connect, sendData | mutual recursion, copies that go stale | each node of a route can send to the next |
| Cubic | `congestion_control/cubic.cpp` | windows, bytes in flight, clocks | onPacketSent, onAckReceived, onPacketLoss | packets counted up to three times, bytes never given back, time passing between two calls, idle restart, memory of losses | what is sent stays within the window; a sender with room goes on; only pauses count as idle |
| Satellite sessions and providers | `satellite/*.cpp` | configuration, provider with one queue, streams that refer to it | setProvider, CreateSatelliteSession, Connect, Disconnect, CreateSatelliteStream, Write, Read, Close | several streams on one queue, nothing guarded by Connect or Close, lifetime of the provider | what was written is read, once and in order |
| Crypto | `crypto/srpt_crypto.cpp` | none | key pairs, shared secrets, two ciphers | sizes: of keys, vectors, tags and ciphertexts | what one end encrypts the other decrypts |
| AI data handler | `ai/data/vectorized_data_handler.cpp` | none | quantize16Bit, dequantize16Bit | signs, exponents that do not fit, bits that get lost | a number that fits comes back rounded |

How they interact. The connection's callers carry its packets between two
endpoints. The drone's and the ground's handlers return messages their callers
pass to the other party. Chunks travel in packets whose header has a package id,
a number within the package and a total; the retransmission manager sees the
numbers only. Discovery shares a flag, a thread object and a list between its
callers and its worker. A Routing copies the nodes it is given, which point to one
another. A drone encrypts with the secret of its handshake and writes to a stream of
a satellite session, from which the ground reads and decrypts: nothing in the library
puts these together, `src/examples/drone_swarm/README.md` 20-27 says how programs do.
The other parts do not call each other.

`PROJECT.json` lists under `hazards` each place where this can go wrong.

## 2. Modules

| module | models | builds on |
|---|---|---|
| `Connection` | one endpoint's handlers as state transformers | |
| `Session` | the abstract specification: two parties that see each other's phase | |
| `ConnectionPair` | two endpoints, the packets between them and the faults of the network and of the timers; refines `Session` | `Connection`, `Session` |
| `ConnectionPair_proofs` | theorems about `ConnectionPair` | `ConnectionPair`, `TLAPS` |
| `MCConnectionPair` | its instances for TLC | |
| `ConnectionEndpoint` | one endpoint under any calls and any packets: its states and its data side | `Connection` |
| `KeepAlive` | its keep-alive clock against a peer with a schedule and a network with delays | `ConnectionEndpoint` |
| `ConnectionEndpoint_proofs` | theorems about both | `KeepAlive`, `TLAPS` |
| `Handshake` | drone, ground, the messages between them, restarts | |
| `Satellite` | sessions, streams and the queue behind them | |
| `Crypto` | the two ciphers over an ideal libsodium | |
| `Mission` | a handshake and the data that follows it, from sensor to ground | `Handshake`, `Satellite`, `Crypto` |
| `MCMission` | instances for TLC of `Mission`, and of the handshake in it | `Mission` |
| `Mission_proofs` | theorems about `Handshake` and `Mission` | `Mission`, `SequenceTheorems`, `TLAPS` |
| `Discovery`, `MCDiscovery` | callers and workers, one step per access to shared data | |
| `Discovery_proofs` | theorems about it | `Discovery`, `TLAPS` |
| `Routing` | the graph and the breadth-first search, one round a step | |
| `Network` | node objects, the copies Routing keeps of them, and routes that carry data | `Routing` |
| `Network_proofs` | theorems about `Routing` and `Network` | `Network`, `FiniteSetTheorems`, `TLAPS` |
| `Transfer` | chunking, retransmission manager and reassembly over a faulty network | |
| `HalfFloat` | quantisation of floats to 16 bits and back | |
| `VectorTransfer`, `MCTransfer` | quantised vectors sent as packages | `Transfer`, `HalfFloat` |
| `VectorTransfer_proofs` | theorems about `HalfFloat`, `Transfer` and `VectorTransfer` | `VectorTransfer`, `FiniteSetTheorems`, `TLAPS` |
| `Packet`, `MCPacket` | the codec of a packet, its checksum, and damage to its bytes | |
| `Packet_proofs` | theorems about it | `Packet`, `FiniteSetTheorems`, `SequenceTheorems`, `TLAPS` |
| `Cubic` | congestion control under two kinds of caller | |
| `Cubic_proofs` | theorems about `Cubic` | `Cubic`, `TLAPS` |

Operators whose name ends in `Faulty` are definitions with a plausible bug. No
definition uses them; putting one in the place of the definition after it shows
that a property can fail (`mutants` in `PROJECT.json`).

### The connection pair

`state[p]` is `state_`; each action is a call of a handler, with its guard and
its effect taken from the pure operator of the same name in `Connection`. A call
that returns false changes nothing, so only successful calls of the application
are steps, while a packet that arrives is consumed whether or not the handler
takes it. Which packet goes with which call is not in the class; it is the
convention of `src/tests/core/test_srpt_connection.cpp` (lines 21-100): a
handler that returned true is answered, with a SYNACK for a SYN and an ACK for a
SYNACK or a FIN. `net[p][m]` counts the packets of kind `m` on their way to `p`.

What may go wrong is a set `faults`, chosen once at the start from `Regimes`:

* `loss`, `reorder`: the network. Without `reorder` a packet does not overtake an ACK
  where that would matter;
* `timeout`: the timer of `simulateTimeout` runs and outlasts what is in flight.

That the timer is patient, and that packets are not repeated and ends not reset, is
what safety between two ends needs: packets carry no connection id, so with any of
those an old packet is as good as a new one and the two ends can disagree. What one
endpoint does when any packet may come at any time, and reset and timers too, is
`ConnectionEndpoint`'s `OnlyForward`.

`Session` has seven phases per party and no messages. A step that depends on the
other side is guarded by the other side's phase. That `ConnectionPair` implements
it (`phases` is the mapping) says that a packet is always as good as looking at
the peer.

### The endpoint

Any call may be made, and any packet handed over, in any state. Window sizes count
modulo `Modulus` (2^32 in the code). `credit` and `spent` are history: the
window last granted and the bytes sent since. The initial window sizes are any,
because the constructor leaves them uninitialised.

`idle` is the time since `lastActivityTime_`, which eight operations set: what is
sent (packets, data, retransmissions, keep-alives, window updates), keep-alives and
data received, acknowledgements of numbers that are held, and a change of the
interval. SYN, SYN-ACK, ACK and FIN do not set it, nor do data outside ESTABLISHED
or acknowledgements of numbers that are not held, so a peer that shows itself by
these alone is taken for dead. `KeepAlive` says what is enough instead. It composes
the endpoint with a peer that sends a keep-alive at least every `Period` ticks and a
network that delivers each within `Delay`, in any order; peer and network are
external, for the class leaves the schedule to its caller. `KeepAlivesSuffice`: as
long as `Period + Delay` does not exceed the interval plus the 100 ms of slack, the
peer is not taken for dead, whatever else the application calls.

### Handshake

A message is a sequence of byte symbols; `"E"` and `"G"` are the identifiers of
`common/types.h`, and keys may begin with either, because the handlers guess
from the first bytes what to strip. The handlers' branches are one action each;
an exception is an action that consumes the message. Messages returned are sent,
empty ones included, as in `test_handshake_integration.cpp`. `conditions`, like
`faults` above, is chosen once: who begins, and whether calls are repeated,
objects restarted (with a new key pair), messages lost or delivered again. The
network holds a set, so reordering is always there.

### Discovery

Each access to what the threads share is a step: the exchange of the flag, the
store, the test of joinable, the worker's loop, publication and final store, and
the accesses to `discoveryThread`, a plain `std::thread` that calls assign and join
without a lock. The assignment tests whether it is joinable (`StartTests`), reads
what it stands for (`StartReads`) and swaps (`StartWrites`, after which the
temporary is destroyed with what was read); the join reads (`StopJoins`), waits and
writes (`StopReturns`). `temporary` and `seen` are what each caller holds between
these. `fate` records `std::terminate` (assigning over or destroying a joinable
thread, joining none) and undefined behaviour (two joins of one thread).
`StartThrows` is the constructor of the thread failing: the flag stays set.

The class states no rules for its callers, so `rules`, chosen once from
`Disciplines`, says which they keep to: stop while no other call runs
(`stop_alone`), stop a discovery that timed out before starting again
(`stop_to_restart`), no timeout during a call (`timeout_is_long`); and whether the
system always gives a thread (`threads_start`).

The flag is all that guards `discoveryThread`, and the worker clears it too. It is
enough under `stop_alone` and `timeout_is_long` (`ThreadIsGuarded`): no two calls are
under way at once and no thread is lost. Without them it is not: two starts can be
inside the assignment at once, both find no thread, and the second loses the
thread of the first. `RulesProtect` (`NeverBroken` and `OneWorker`) and
`StoppedMeansStopped` are claimed of callers that keep all three rules.
`DiscoveryEnds` (where threads start) and `StopDiscoveryReturns` are claimed of any
callers, until the process breaks. `TypeOK` says of any callers that no
`std::thread` stands for a thread that was joined.

### Satellite, Crypto and Mission

A provider is a queue; `stream[t]` is the session whose provider `t` refers to.
`Connect`, `Disconnect` and `Close` are actions that change nothing, because that is
what they do: that data survives them is part of what `InOrder` and `DataArrives` say.
The Starlink and Iridium providers differ only in what they print and in constants
they report, so the model has one. A session that is destroyed before its streams
leaves them a dangling reference; the program of the model keeps its sessions, as the
tests do.

In `Crypto` a masked byte remembers its key, vector and position and a tag what it
was made of, so decryption succeeds only with the same four: an ideal cipher in the
place of libsodium's. Everything the wrapper does around it is kept, the sizes it
checks and the resizing of the ciphertext included.

`Mission` composes the two with `Handshake`. `Transmit` needs what `getSharedSecret`
needs, an Established drone, and encrypts with the secret it holds then; `Collect`
is the ground's half. `sensed` and `report` are history. `Survives` says which
messages the cipher lets through: of ChaCha20-Poly1305 only those exactly as long as
the tag, because `encryptChaCha20Poly1305` resizes the ciphertext to the tag's
length. The mission itself runs in the behaviours whose conditions contain
`mission`; the others are the handshake on worse networks.

### Routing, Network, Transfer

`findRoute` is one action up to its loop and one per round of the loop. Its result
is compared with `Within[k]`, the nodes within k links, defined without a search.

`Network` adds the node objects. `linked[n]` is the list of the program's object and
`copy[n]` that of the copy `Routing::addNode` made; a route consists of copies. In a
program that connects its objects, adds them, and then adds links between those it
connected (`usage`), each node of a route can send to the next, because `connect`
lists both ends in one another. In any other order it need not be so: nothing updates
a copy. Links point to objects, so the copies' neighbours are the program's own
objects, which therefore have to outlive the Routing; the model keeps them.

`Transfer` composes three classes that the repository never composes: the sender
sends each chunk in a packet, calls `packetSent`, sends again what
`needsRetransmission`, and calls `packetReceived` for an acknowledgement of the
package it is sending; the receiver acknowledges every packet, keeps one chunk of
each number and calls `reassembleChunks` when the total is there. These two
applications and the network are external; the convention comes from the packet
header and `test_srpt_retransmission.cpp` 31-44. `shared`, chosen once, says
whether one manager serves all packages or each has its own: the class states
neither. `NothingForgotten` and `TransferCompletes` are claimed of the latter,
`DeliveredIntact` of both.

`VectorTransfer` makes the packages quantised vectors. `HalfFloat` keeps a number's
sign, exponent and mantissa as fields, which the code's shifts and masks take apart
and put together; the mask lets an exponent that does not fit through modulo 32.

### Packet

A number is the set of its bits and a byte a subset of 0 .. 7, so 64-bit
identifiers and the CRC keep their width and the checksum is the real one
(CRC-32C of "123456789" is E3069283). A behaviour builds one packet, turns one bit
over or cuts the bytes short or does neither, and reads it. `FromBytes` has the
refusals of `fromBytes` in their order; it then rebuilds the packet from what it
decoded and compares checksums, so it does not notice damage to what the
rebuilding drops: the version, and the bits of a full-length number's last group
beyond the number's width. `Spare` names those bits, and `DamageIsNoticed` says
that they are all. `Border` names the bits that decide how long a number is: those
that say whether another group follows, and a bit that is alone in the last of
several groups (without it the rebuilt number is a group shorter). When one of them
is turned over, and when a payload that never fitted its size field is cut, the
checksum is compared with that of a text of other fields or another length, where
two checksums may meet; `BordersAreNoticed`, that these are refused too, is
therefore claimed of the messages given and not of every message.

The checksum's bytes are least significant first, as on the hosts the library is
built for. Shifts of 64 and more, which only damage produces and which are
undefined, either drop the group or count modulo 64 (`wraps`).

### Cubic

`cubic` is the object; its clocks are kept as `age`, the time since `last_sent_`,
and `wait`, the time until `next_send_time_`. How far a window grows and how long
the interval is are floating-point functions of the clock: any growth of at least
one and any interval stand for them, 0 included, for the code's interval can be a
few microseconds. Within one call the clock is read as if once; between two calls any
time may pass. `k_` and `last_congestion_`, which only the growth reads, are left out.

The interface does not say how a caller is to use the class, so `convention`, chosen
once, is one of two: `notify` sends and calls `onPacketSent`; `ask` calls
`canSendPacket` (`Ask`), sends and calls `onPacketSent` (`Announce`), as the test
`PacketPacing` does. `canSendPacket` counts the packet; `onPacketSent` calls it again,
and if the interval is over by then the packet is counted twice more. `onPacketLoss`
gives nothing back. `leaked` is what was counted so and will never be acknowledged.
The class therefore never counts too little, which is `SentWithinWindow`, and may
count too much for good: `SendingResumes` is claimed while what leaked leaves room
for a packet (`HasRoom`), and beyond that a caller may be refused for ever. A loss
reported may be real, or the packet is acknowledged after all; a packet sent again is
asked for like any other. `outstanding` and `quiet` are what the caller knows: the
bytes it sent that are to be acknowledged, and the time since it sent a packet.

## 3. Runs

| run | question | bounds |
|---|---|---|
| `pair` | do the ends agree, implement `Session`, complete closes and come to rest? | all 8 sets of faults, 2 copies of a kind |
| `endpoint` | window and direction under any calls and packets; is a peer whose keep-alives come often enough ever taken for dead? | modulus 4, windows 0, 1, 3, buffers 0-3; period and delay 2 ticks, slack 1, intervals 1 (too short) and 3 (just enough) |
| `mission` | do secrets agree, does a handshake complete without loss, is all data read, in order, as it was sensed? | 2 keys each, 6 regimes, 1 session, 2 streams, 2 messages, tag of 2 bytes |
| `handshake_ground` | does a handshake the ground begins complete? **No** | 2 keys each |
| `mission_chacha` | is all that is encrypted decrypted? **No** | as `mission`, ChaCha20-Poly1305 only |
| `discovery` | is the thread object guarded, and the process safe, for callers that keep the rules? Does everything end that the process survives, for callers that keep none? | 2 callers, 3 workers; all rules, all but `stop_to_restart`, all but `threads_start`, `threads_start` only, none |
| `discovery_restart` | can a timed-out discovery be started again? **No** | 1 caller, 2 workers |
| `routing` | shortest route, or an error only when there is none; a route carries data | 4 nodes, 4 links, 3 connections |
| `transfer` | do packages arrive whole: with a manager each, all of them; with one for all, those that arrive? Are their vectors read as sent? | 2 packages of 3 and 2 chunks of 3 bytes |
| `packet` | is a packet read back as built, and damage noticed? | 50 messages, numbers of 1, 2 and full length, sizes of one and two bytes and one too large, size field of 9 bits |
| `cubic` | floor of the window, bytes on the way, progress | first window 2, windows to 6, idle after 2 ticks, sizes 1 and 3, 5 bytes outstanding |
| `cubic_idle` | is only a pause taken for idleness? **No** | windows to 8, 7 bytes outstanding |

Why the bounds are enough. Two copies of each kind are one more than a
pair ever has in flight (`OnePacketOfAKind`, proved), so the bound of the network
is never met. Modulus 4 with buffers 0-3 meets every case of wrap-around. The keys
cover every way identifiers and leading bytes can meet, and allow each party one
restart. Two messages through two streams meet every order of writing and reading
across streams, one plaintext is as long as the tag and one is not; more sessions do
not share anything, and the theorems are about any number.

Two callers are enough to race for the flag, in an assignment or in a join, and with a
third worker there is one to lose; the theorems are about any number. Four nodes and
four links give trees, a triangle with a tail, the square (two ways of one length) and
self-links; three connections make a path through all four nodes. Chunks of three
bytes cut halves in two. Two packages, one with a remainder and one without, are what
the numbers of a second package need. A 9-bit size field makes a payload that does not fit short enough to
check; sizes of 257 bytes still use both its bytes. Windows up to three times the first
allow a loss at a grown window and growth after it, and 5 bytes outstanding are more
than the smallest window admits. An interval of 1 tick is too short for the schedule
of `KeepAlive` and shows that the premise of its property is needed; with 3 the
schedule uses it up to the last tick.

`CHECK_DEADLOCK FALSE` appears where the system may stop: the pair when both ends
sent a SYN and no timer runs, a handshake when nothing is in flight, a process
that has terminated, a transfer that is complete, a packet that has been read.

### Fairness

* Pair: weak fairness of the arrival of packets, of TIME_WAIT and of the
  application's `close` after its peer's FIN; strong fairness of the timers,
  because a timer that outlasts the packets is disabled while any are in flight.
  Opening and beginning to close are never forced.
* Handshake and Mission: weak fairness of each message's delivery, and of the ground's
  reading what waits for it. No party has to begin and the drone has to send nothing.
* Discovery: the scheduler runs every thread, so weak fairness of each step of a
  call under way and of each worker; nobody has to call stop. A worker's timeout
  is finite.
* Routing: the loop goes on.
* Cubic: the clock goes on, a caller that was admitted goes on to send, and what is to
  be acknowledged is, some time. Nobody has to ask again, and losses are never forced.
* Transfer: the applications go on; a packet or acknowledgement present again and
  again is at some time received and leaves the network (strong fairness), the
  usual reading of a lossy network.

## 4. Proofs

Every theorem is about all values of the constants under the assumptions on them,
which TLC evaluates in the run of the same system. No proof assumes anything else.

`ConnectionPair_proofs` proves, for any two distinct endpoints and any
`MaxCopies >= 2`:

* `TypeCorrect`: `Spec => []TypeOK`;
* `PairIsSafe`: `Spec => [](OnePacketOfAKind /\ AckIsOwed /\ SidesAgree)`;
* `PairImplementsSession`: `Spec => ImplementsSession`.

The argument. None of the three safety properties is inductive: that an ACK in
flight is owed to its receiver depends on where the SYNACKs and FINs are. `IInv`
adds `SynIsCurrent` (a SYN in flight is one its sender still waits on, a SYNACK
answers one that still asks) and `FinIsCurrent` (a FIN in flight has not been taken
and its sender still waits). `OneInFlight` reduces the arithmetic of `net` to
presence and absence; `SafetyStep` then goes through the actions, one step each, and
`Exchange` treats the pattern all arrivals share. `SessionStep` uses the same
invariant to map every step to one of `Session` or to a stutter.

`ConnectionEndpoint_proofs` proves `TypeOK`, `WithinCredit` and `OnlyForward` of the
endpoint, and `KeepAlivesSuffice` of `KeepAlive` (`PeerIsNotTakenForDead`), for any
period, delay and intervals. For the credit the work is arithmetic: taking a buffer
out of the window and putting it back is nothing modulo any modulus. For the clock the
invariant, `ClockFollowsPeer`, bounds `idle` by the schedule: with no keep-alive on its
way it is no more than the time since the peer last sent one; otherwise it exceeds the
age of some keep-alive on its way by no more than the period.

`Mission_proofs` proves of `Handshake` `SecretsStayCurrent` (`TypeOK` and `SecretIsCurrent`, in
every regime) and `SecretsAgree` (`SecretsMatch`). The invariant says of each message
in flight that it is one of the protocol's, stripped or not, and of each party that
the key it holds is one its peer generated; `Paired` adds, for handshakes begun by the
drone without restarts, that it is the peer's only one. That identifiers are stripped
correctly from keys that may begin with identifiers is a case analysis on the first two
bytes.

On that invariant it builds what it proves of `Mission`: `MissionSecretsHold` (what the handshake
promises holds while data flows), `MissionKeepsOrder` (`InOrder`) and
`MissionStaysReadable` (`MissionIsReadable`), for any keys, sessions, streams,
plaintexts and length of the tag. `OneSecret` is the strengthening: every message
written was encrypted with the one secret of the two keys and every report is the
decryption with it; `RoundTrip` is what the two ciphers do to a plaintext. `InOrder`
links the report to what was written.

`Discovery_proofs` proves `TypeCorrect` of any callers, `FlagGuardsThread`
(`ThreadIsGuarded`), `RulesSuffice` (`RulesProtect`) and `StopMeansStopped`, for any
number of callers and workers. That no `std::thread` stands for a joined thread holds
whoever races, because a join leaves `discoveryThread` empty whatever it stands for by
then, and needs that no two hold one thread. `Orderly`, for callers that keep to the
rules, says that calls do not overlap, that a call to startDiscovery under way finds the
flag set and no thread to assign over, and that a call to stopDiscovery finds it clear.

Proofs about recursive functions rest on induction, whose lemmas stand at the head of
`Network_proofs`, `VectorTransfer_proofs` and `Packet_proofs`. The library's
induction theorems take an operator and cannot be cited, but that the order of the
numbers is well-founded can: `LeastNumber` follows from it, `Induction` over a *set* of
numbers from that, and `Recursion` (a value computed step by step from a first one
exists) from both. A recursive function of the model is a CHOOSE of what satisfies its
equation; `Recursion` gives one that does, so the function satisfies it too.

`Network_proofs` proves of `Routing`, for any finite set of ids and any number of links:

* `RoutingTypes`: `Spec => []TypeOK`;
* `RoutesAreShortest`: `Spec => RouteIsShortest`;

and of `Network` `LinksCarryData` (`RouteCarriesData`). The argument for the search is
the usual one of breadth-first search, in `RoutingInv`. `prev` gives every node reached
a depth, one more than that of a node it is linked from (`Depths`); the queue is in the
order of the depths and they differ by one at most (`Sorted`); a node that was reached
and is no longer in the queue has had its neighbours reached, none deeper than one more
(`Expanded`). It follows that a node reached at depth k is within k links and not within
k - 1, so that the route `RouteTo` follows back has the length of the distance, and that
with the queue empty nothing else is within reach. That `Fresh` finds each new neighbour
once in a list with repeats is an induction over the list. `Mutual` (objects list one
another) is the heart of `LinksCarryData`; its routes are those of `findRoute`, because
each step of `Network` is one of `Routing` or a stutter.

`VectorTransfer_proofs` proves in three parts what a vector goes through.

* `HalfFloat`, over all 2^32 floats and all 2^16 halves: conversions are typed, a half
  survives the way to a float and back, a float that fits comes back rounded
  (`FloatIsRounded`, `VectorIsRounded`), of two that fit the smaller, signs
  included, does not come back the larger (`OrderIsKept`), zero becomes two
  (`ZeroBecomesTwo`), and a whole vector survives being packed into bytes (`VectorSurvives`).
* Chunking, for any bytes and any chunk size: the chunks one after the other are the
  bytes that were cut (`ChunksRejoin`, by induction over the chunks and the division that
  counts them), and sorted from any order in which each is there once they are the chunks
  again (`OrderIsRestored`: strictly rising numbers between 1 and n are 1 .. n).
* `Transfer`, for any packages: `TransferTypes` (`TypeOK`), `DeliveryIsIntact`
  (`DeliveredIntact`), `NoChunkIsForgotten` (`NothingForgotten`), and of `VectorTransfer`
  `VectorsAreDelivered` (`VectorsArrive`). `NothingForgotten` is not inductive: the
  sender forgets a chunk because of an acknowledgement, so `TransferInv` adds that what an
  acknowledgement in flight names has arrived (`AcksTrue`), and so has what the manager
  recorded as received (`ReceivedTrue`, which only holds of a manager that serves one
  package). For `DeliveredIntact` it adds that the chunks at hand are chunks of the
  package being received, no two with one number (`GotOK`).

`Cubic_proofs` proves, for every initial window, idle period, set of packet sizes and
bound:

* `TypeCorrect`: `Spec => []TypeOK`, the window's floor included;
* `SenderKeepsToWindow`: `Spec => SentWithinWindow`;
* `WindowMemory`: `Spec => []MemoryIsSmall`, neither `wMax` nor `lastMaxCwnd` exceeds
  the first window. No run checks it; it shows that `cubic.h:43` is wrong of `w_max_`
  at every loss after the window has grown.

`SentWithinWindow` is a property of steps and rests on `Counted`: what a caller that
asks has sent, or was admitted to send, is counted. That needs of each method what it
does to the count: `onPacketSent` never lowers it (`SendingForgetsNothing`), an
acknowledgement lowers it by no more than it takes from what is outstanding, a loss not
at all. `Sound` is what every method keeps of the object, one lemma a method, and
`InductiveStep` puts them together with one step per action. The assumptions are the
three on the constants, evaluated by the runs of `Cubic`.

`Packet_proofs` proves, for any set of messages of any length and any width of the
size field from 8 to 16 bits:

* `OneByteIsNoticed`: two texts that differ in one byte differ in their CRC-32C;
* `TypeCorrect`: `Spec => []TypeOK`;
* `SentIsReadBack`: `Spec => []ReadBack`;
* `DamageNoticed`: `Spec => []DamageIsNoticed`.

The checksum. A round of the table's computation can be taken back (`RoundBack`),
because the polynomial's highest bit shows whether it was applied; so the high byte of
a table entry tells its index (`HighByteTells`), and including a byte loses nothing of
the word or of the byte (`IncludeTells`). The model includes the bytes in halves;
`ChecksumIs` shows that this is every byte in turn, as in the code.

The fields. A number's encoding is the only sequence of groups that is marked like one
and ends in a group that is not empty (`OneEncoding`, `EncodingGroups`), and it is read
as the number whether undefined shifts drop a group or wrap (`GroupsAreRead`).
`NumberIs` gives the value of a byte as a sum of powers of two, from which the two
bytes of a size tell any two sizes apart (`SizeTells`), stay below the limit (`SizeFits`) and are read
as the payload's length if it fits (`SizeRead`).

The packet. `LaidOut` says where each field begins and ends in the bytes, and that
`fromBytes` finds the same ends; `Rebuilt`, that what it builds is then what was sent.
For one bit turned over there is one lemma a field (`FlagsFlipped` to
`PayloadFlipped`). Each shows that the rebuilt packet has that one field other than it
was, in one byte (`CoveredOnce`), so that its checksum is another; damage to the size
or to the checksum is refused by comparison, and `Spare` bits give the same packet
again. A cut leaves too few bytes, or fewer than the size says (`CutIsNoticed`).
The invariant, `Inv`, says that the packet is one that the constructor makes, that what
is on the wire is its bytes whole, cut, or with one bit turned over (`Arrived`), and
that what was received is what those bytes are read as.

Only model-checked: `BordersAreNoticed`, for the reason given in section 2; liveness
(`CloseCompletes`, `NothingLingers`, `HandshakeCompletes`, `DataArrives`, `DiscoveryEnds`, `StopDiscoveryReturns`,
`SearchEnds`, `TransferCompletes`, `SendingResumes`), which needs fairness and ENABLED.

## 5. What the runs found

Each is an entry of `findings` with the line it contradicts.

* A handshake that the ground begins never completes (`handshake_ground`).
* `startDiscovery` after a discovery that timed out terminates the process
  (`discovery_restart`).
* A sender that asks `canSendPacket` before it sends is taken for idle while it is
  busy, and loses its window (`cubic_idle`).
* `encryptChaCha20Poly1305` resizes its ciphertext to the length of the tag, 16 bytes,
  because it takes libsodium's length of the tag for that of the ciphertext: unless
  the plaintext is as long, what it returns is not decrypted (`mission_chacha`).

Others follow from the models, or were met while reading, and have no run.

* `w_max_`, "Window size before last reduction" in `cubic.h:43`, is never set from the
  window, because `enterCongestionAvoidance` is never called: it stays at or below the
  first window (theorem `WindowMemory`), and growth after a loss aims back at that.
* `INITIAL_WINDOW`, "In packets" in `cubic.h:12`, is compared with bytes
  (`cubic.cpp:64`). The floor of a reduced window is twice the initial one
  (`cubic.cpp:44`), so a loss at a smaller window enlarges it.
* The numbers of a packet, "up to 8 bytes" and "up to 4 bytes" in `srpt_packet.h:8-10`,
  take up to ten and five, seven bits in each.
* `resetConnection` keeps the unacknowledged packets of the old connection.
* If both parties of a handshake begin, the ground is Established with an empty
  secret. A drone that restarts in the middle of one accepts the answer to its
  predecessor's hello, and both are Established with different secrets. The ground is
  Established by a third message, where the drone swarm's README counts two.
* With packets repeated by the network, an impatient timer or a reset the two ends of a
  connection can disagree, because packets name no connection.
* The vector of ChaCha20-Poly1305 has to have 8 bytes; `test_srpt_crypto.cpp` passes 12,
  which `encryptChaCha20Poly1305` refuses. For AES-GCM nothing checks sizes, and the
  test's key of 16 bytes is read as one of 32.
* `quantize16Bit` turns 0.0 into what `dequantize16Bit` reads as 2.0 (`ZeroBecomesTwo`),
  where `vectorized_data_test.cpp` 187-196 expects numbers within 0.001.
* `setProvider` is the only thing that sets a configuration's provider: a session
  created without it gets either provider, or none, by chance. A stream that outlives
  its session refers to a provider that is gone.
* A route returned by `findRoute` cannot send between nodes that were connected after
  they were added.
* A `RetransmissionManager` used for a second package does not see its losses.
* `sendData` narrows the size of a buffer to 32 bits before it compares it with the
  window (the model excludes buffers of 2^32 bytes).
* `fromBytes` accepts a packet of any version.
* Bytes of a packet reported lost are never given back, and a packet asked for may be
  counted three times; once what leaked fills the window a caller can be refused for
  ever. A loss at a window below 2 * INITIAL_WINDOW enlarges it.
* Calls that race in `Discovery` can terminate the process or lose a running thread. If
  the thread cannot be created, `startDiscovery` throws and leaves the flag set.
* A connection's peer that sends control packets only, or data before ESTABLISHED, is
  taken for dead.

## 6. Not modelled

* The order in which another thread sees the writes that fill the CRC table
  (`srpt_error_detection.cpp` 8-27): taken one after another they do no harm, since
  every thread that finds the flag clear writes each entry before it reads one.
* Hosts without the AES instructions that libsodium's AES-GCM needs, where
  `encryptAESGCM` and `decryptAESGCM` throw.
* How far Cubic's window grows, and `getSendingRate`: floating-point functions of the
  clock.
* Buffers of 2^32 bytes and more, and chunks of size zero, which the code mistakes or
  divides by.
* `Hub`: `forwardData` is a placeholder that forwards nothing.
* `SatelliteHandshake`: its handler calls the pure virtual one of its base class.
* The measurements, commands and logging of providers, the metadata and random id of a
  package, `isRemoteNode`: they change no state that anything reads.
* `setState` and `isValidTransition` of the connection: a back door for tests and a
  constant.
* `include/srpt.h`, whose classes have no implementation in the repository, empty source
  files, examples and mocks.
