# Basic_Firewall in TLA+

Basic_Firewall is a router in user space. It captures packets on every
configured interface with PcapPlusPlus, filters them by security policies,
translates addresses (NAT), and routes them, resolving next hops by ARP. Every
captured interface has one capture thread, and each thread runs
`onPacketArrives` to its end for one packet before it takes the next. All
threads share one `RoutingEngine` (with a mutex), one `NatState` (without any),
and one `Config` (only read once `main` has loaded it).

This directory holds the specifications of that program, the TLC runs that
check them, and proofs that TLAPS checks. `PROJECT.json` lists the runs, the
source lines of each definition, the hazards each property is aimed at, and the
theorems.

## 1. Inventory

Paths are relative to the repository's root.

| Component | State | Operations | Hard behaviour | What makes it correct |
|---|---|---|---|---|
| Routing table (`src/routing/RoutingTable.cpp`) | vector of entries | `addRoute`, `removeRoute`, `findRoute` | running best of one scan, ties, masks that are no prefix | longest match, ties to the earlier entry; a change moves only its own traffic |
| Routing engine (`src/routing/RoutingEngine.cpp`) | `arpCache`, `pending`, `mtx`, `interfaces` | `routePacket`, `processArpPacket` and what they call | threads between two critical sections, expiry, lost requests, full queues, null interface | no packet lost or sent twice, no stranded queue, bounded queues, right link and MAC, delivery |
| NAT state (`src/session/session_tables/NatSessionTable.cpp`, `src/policies/NatPolicy.cpp`) | `nat_sessions`, `PortPool`: `used_`, `next_` | `getOrCreateSession`, `findSession`, `createSession`, `acquire_free_port_number` | shared without a lock, exhaustion, wrap-around, nothing is ever released | flows differ on the outside, keep their port, and get their replies |
| NAT translation (`src/policies/NatService.cpp`) | none | `applyNat` | direction, ICMP identifiers | the reply's translation undoes the packet's |
| Pipeline (`src/main.cpp`, `onPacketArrives`) | locals | layer 2 filter, policies, lookup, scans, NAT branch, routing | order of the branches, key of a UDP packet, a scan without a session | a packet is decided once, as the policies and lists say; a refused one leaves no trace |
| Policy matching (`src/policies/Policy.cpp`) | none | `matchesNetwork`, `does_match_policy` | masks inside a byte, beyond 32 | same leading bits; the first match decides |
| Configuration (`src/configuration/Config.cpp`) | the members of `Config` | `load` and one parser per section | exceptions half way, sections that depend on others | what is in force is what the file says, and ends in a denial |
| Start and stop (`src/main.cpp`, `main`, `exitProgram`) | `gInterfaces`, `stopSignal`, the devices | collect, open, start, wait, close; the signal handler | partial failure of the start, a signal in between any two steps, a handler that waits for a callback | the stop reaches every capture, failure is reported only when there was one, a signal ends the program |
| Session and antimalware (`src/session/sessions/Session.cpp`, `src/security_profiles/AntimalwareProfile.cpp`) | hash context and buffer per session | `updateAntimalwareHash`, `finalizeAntimalwareHash`, `scan` | copies that share a context, two threads on one session | whatever happens to contexts, only a FIN is refused because of a hash |
| URL filter (`src/security_profiles/UrlFilteringProfile.cpp`) | none | `scan` | scanned after other profiles, with or without a session | a listed name is never routed |
| TCP reset (`src/utils.cpp`) | none | `sendTcpRst` | 32-bit arithmetic, SYN and FIN count | the sender accepts it |
| DLP, decryption, `SessionTable` | unused | no-ops, or without a caller | none on the packet path | none |

How they interact: `main` loads `Config`, configures `NatPolicy::nat_state`,
gives the devices to the engine and starts the captures. `onPacketArrives`
gives an ARP packet to `processArpPacket`; an IPv4 packet passes the security
policies (and the scans of the first one that matches), then the NAT branch,
and ends in `routePacket`. There is no queue between the stages. The only
packet that outlives its callback is a frame in `pending`, which the callback
of a later ARP packet sends, on the thread of the interface it came from.

## 2. Modules

| Module | Models | Extends or instantiates |
|---|---|---|
| `IPv4` | addresses as sets of bit positions | |
| `Lists` | filtering a list (`Without`), as a fold | |
| `ListProofs` | what folds and filtered lists are, for every list | `Lists`, `TLAPS` |
| `Routes` | `RouteEntry`, `maskToBits`, `findRoute` as operators | `IPv4` |
| `RoutesProofs` | `findRoute` is the longest match | `Routes`, `ListProofs` |
| `RoutingTable` | the vector and its two changes | `Routes`, `Lists` |
| `RoutingTableProofs` | theorems about it | `RoutingTable`, `RoutesProofs` |
| `RoutingEngine` | the engine under its threads, with the neighbours | `Routes` |
| `RoutingEngineProofs` | theorems about it | `RoutingEngine`, `RoutesProofs` |
| `ExactlyOnceProofs` | where packets are: `ExactlyOnce` | `RoutingEngineProofs` |
| `NatState` | key, table, pool, creation and translation under the threads | instantiates `NatBinding` |
| `NatBinding` | what NAT promises: flows get ports of their own, for good | |
| `NatStateProofs` | theorems about it | `NatState`, `TLAPS` |
| `Policies` | matching, and the loop over the security policies | `IPv4` |
| `Inspection` | `onPacketArrives` around and including the NAT part: layer 2 filter, policies, scans, hash contexts, reset | `Policies`; instantiates `NatState` and `Filter` |
| `Filter` | what the firewall promises of each packet | |
| `Firewall` | the program: `main`, the signal handler, and the callbacks | `Inspection` |
| `FirewallProofs` | theorems about it | `Firewall`, `TLAPS`; instantiates `NatStateProofs` |
| `Config` | the loader, section by section | `Policies`, `Lists` |
| `ConfigProofs` | theorems about it, and about `Policies` | `Config`, `ListProofs` |
| `MCRoutingTable`, `MCRoutingEngine`, `MCNatState`, `MCConfig`, `MCFirewall` | constants for TLC | the module named |

Names are the source's names. A definition whose comment begins with `Mutant:`
is a plausible bug in the definition below it, which the property named beside
it in `PROJECT.json` must catch; nothing uses it otherwise.

### Routing table and lookup

`IPv4Address` is `SUBSET Bit`: masking is intersection, counting bits is a
cardinality, and masks need not be prefixes, as in the code. `findRoute` folds
the code's scan with its running best; its reference is `LongestMatch`, stated
by comparing positions. Only `addRoute` has a caller; `removeRoute` is public
and the table's promise includes it. `Without` is `std::remove_if`, written as
a fold because TLAPS takes the built-in `SelectSeq` as it is and knows nothing
of what it yields.

### Routing engine

A step is what runs under one acquisition of `mtx`, or between two. Per thread:
`routePacket` up to the lookup (no shared state), `lookupArp`, then
`sendResolved`, or `enqueuePending` and `sendArpRequest`; `processArpPacket`,
`learnArp`, `flushPending`, one `sendFlushed` per frame while `mtx` is held,
`flushDone`. The MAC that `lookupArp` found is used after the unlock, so a frame
in hand still goes to an address that its neighbour has meanwhile given up, while
the queue is flushed to the new one. `NoMisdelivery` bounds what can happen to
it, and `LookupsFollowFlush` says that it is confined to frames already in hand.
The early returns of `routePacket` are guards of its action, in the
order of the code: the packet is for the firewall, has no route, the next hop
is the firewall, the TTL is used up. The null pointer of line 213 ends the
process (`alive`). `sendPacket` may fail: `routePacket` only logs it and
`flushPending` ignores it, so the frame is gone.

`captured`, `dropped` and `wire` are history: where a packet came in, was given
up, or went out. `requests` is the state of the link, one ARP request per
address: another request for the same address adds nothing an answer would tell
apart. Neighbours answer (`Answer`), speak unasked (`Announce`), or do not hear
a request (`LoseRequest`); `Tick` lets entries age to the lifetime that
`learnArp` writes (20 minutes; the constant `ArpTtl`, 5 minutes, is unused).

Left out: ARP replies of the firewall (they change no state of it, and no
neighbour here waits for one), the bytes of a frame, and checksums.

### NAT

A step is one access to the table, one iteration of the scan for a free port
(which reads `next_` and `used_` anew each time, without a lock), or the writes
that take the port found. What the code leaves undefined is nondeterministic: a
lookup or an insertion that overlaps another thread's insertion into the
unordered map may miss an entry or be lost; of two overlapping writes to
`used_` (a `vector<bool>`, so words are shared) one may be lost; the ports of a
UDP packet's key are whatever the stack holds. A data race can also crash the
process, and that is not modelled: nothing would be left to say.

`SingleCreator` says that all hosts whose packets are translated are behind one
interface, so that one thread creates every session. The code does not enforce
it, and NAT does not work otherwise: without it, run `nat_two_lans` gives two
clients the same port. (With `FlowsKeepTheirPort` for its invariant, that
configuration also gives one flow two ports: the insertion of its first session
is lost as another thread inserts. The missing lock is the same.) The safety
properties are checked and proved under it, with the other threads' lookups
racing. Under it the scan meets no other thread's writes: `next_` stays
where it was, and each port is tried once.

Two properties are about replies. `ReplyReachesClient` is about the table: the
return entry is there before the packet leaves. `RepliesComeBack` is about what
becomes of a reply: it goes to the client that is answered, unless its lookup
overlaps the insertion of another session. That exception is real: such a lookup
may miss its entry, and the reply is then handed on as it came.

`routed` is history: each packet given to `routePacket`, as it came and as it
left. Servers answer what reaches them.

### Configuration and policies

The file is a record of sections; a section is absent, of the wrong type, or a
sequence of entries, one of which may throw. `Config` parses one section per
step, in the order of `loadFromFile`, and an exception goes to `caught` with
what was parsed until then. `Policies` holds what the packet path does with the
result; `matchesNetwork` is the code's fold over bytes, and the reference,
`SamePrefix`, compares leading bits. `FileAssumption` gives the type of a file:
an entry that does not throw has its fields (the parser throws where one is
missing or is of another type), and a mask may be any integer. `Spelling` and
`lowercase` are the texts that "action" may have and `std::tolower` on them; a
missing action is the code's default, "deny".

### The callbacks: Inspection

`Inspection` is one callback per thread from the capture to `routePacket`. Its
own locals are in `callback`, those of the NAT part in NatState's `thread`. A
step is one policy verdict, one lookup, one profile's scan, one digest call,
one step of `NatState`, or one destructor. `enterNat` to `applyNat` conjoin a
step of `NatState` with what `NatState` leaves out: `constructSession`
allocates the hash context, `createOutbound` and `createInbound` give it to the
entries they insert (`Points`), and each notes in `owed` the copies of sessions
that go out of scope when the call returns. `Session` has a destructor that
frees the context and no copy constructor, so each of these copies frees it
(`destroySession`).

What becomes of freed memory is undefined, and nondeterministic here: the
process crashes, the call has no effect (the digest functions fail on a context
that was cleansed), or the memory is by then the context of a session created
later, whose hash is then fed or reset by the wrong connection, or which is
freed in its turn. Two threads inside digest calls on one context may garble
it, get no hash, or crash.

A frame has the fields its layers give it. What a payload parses as (`app`),
the name in it (`host`) and what is hashed of it (`body`) are values; the
antimalware list is a set of sequences of bodies, because a hash stands for
what was fed since the last initialisation. Sequence numbers wrap at
`SeqModulus` (2^32 in the program). `verdict`, `resets` are history.

`console` is the lock of stdout, which `main` may hold when a signal
interrupts it; the steps that print wait for it.

`Filter` is the abstract specification: a packet is decided once, by what the
packet and the policies say. `ImplementsFilter` maps its `decision` to
`verdict`. Where the verdict depends on the stream (a FIN under an antimalware
profile), the packet is blockable and passable, so that the promise holds in
spite of what is wrong with the hash contexts.

The two exits to the routing engine, `processArpPacket` and `routePacket`, are
where `RoutingEngine`'s handlers begin. The engine and the rest share no state
(the engine reads its own routes and `mtx`), so the composition is that one
call: `RoutingEngine` is checked with any packet at any time, which includes
those that pass here.

### Start and stop: Firewall

`Firewall` adds `main`, place by place from `load` to `done`, with the index of
the loop it is in; the devices, `closed`, `open`, `capturing` or `stopping`;
and `exitProgram`, which runs on main's thread, so while `handler.at = "walk"`
main does not move. A device may refuse to open or to start (`refused`).
`stopCapture` is two steps, telling the capture thread and waiting for the
callback in progress; a capture may hand on what it has buffered until then.
The signal may come while `main` holds stdout's lock, and while the vector that
the handler walks grows: that is undefined, and the model ends the process.

`late` is history: the devices that `main` started although the signal had
come. The code starts them, and nothing stops them until `main` closes them;
closing a device under its capture thread may end the process
(`closeCapturing`).

## 3. Runs

| Run | Question | Bounds |
|---|---|---|
| `routing_table` | is one scan the longest match, and are changes local? | every table of up to three entries (`MaxRoutes`) over 2-bit addresses, all networks and masks, non-contiguous ones included |
| `arp_queue` | can threads lose, duplicate, strand, overfill or misdeliver, and can a lookup during a flush differ from it? | two threads that both route to the gateway, two packets, `PendingLimit` 1, lossy link, a client with a changing and a zero MAC, a probe, an address used on two links, entries that expire with the first tick after the one they were learnt in (`ArpLifetime` 0) |
| `arp_delivery` | does every packet leave? | two threads, one next hop, three packets, `PendingLimit` 2, honest neighbours, a link that loses nothing, and fairness |
| `nat` | is translation injective, stable, and a binding, is the way back there, do replies come back? | three flows, two ports in the pool, a racing reply thread, stray inbound and inside traffic |
| `config` | is what is in force what the file says? | up to three policies, masks inside, at the end of and beyond a byte and -1, "allow" in mixed case, broken and missing sections |
| `firewall` | is each packet decided as the policies say, is a stop a stop? | two captures, a loopback, a name twice and one that does not exist; a connection with a listed name, an answer, a ping, a denied SYN, noise and ARP; two ports, one block of memory for contexts (so that a freed one is soon another session's), a signal at every point, any device refused |
| `arp_zero_mac` | refuted: only learnt addresses are flushed to | |
| `missing_interface` | refuted: a route over a missing interface is skipped | |
| `nat_two_lans` | refuted: an acquired port is new | two creating threads |
| `nat_udp` | refuted: replies to UDP are translated | |
| `default_deny` | refuted: a list of policies, once parsed, ends in DENY | the files of `config` whose policies are reached |
| `hash_context` | refuted: a session that is found has its hash context | the constants of `firewall` |

Why the bounds are enough. The engine's hazards are between two handlers and
one queue: two threads, a queue that fills, and an entry that comes, changes
and goes reach every pair of steps; the packets are symmetric. The pool of two
for three flows reaches exhaustion and wrap-around, and each kind of key (TCP,
ICMP, none). In `config`, three entries put an entry before, at and after the
one that throws. `firewall` has every kind of packet that its branches tell
apart, on connections that share the only context there is, and a device at
each place of `main`'s loops; two threads can come to scan with one context
there (`Contended`). They cannot run out of memory while a context is free; the
theorems hold for any number of threads and contexts, and cover that. What
is not bounded is proved (section 4).

CHECK_DEADLOCK is off where the system stops: the loader ends, the program
returns from `main` or crashes, and the engine's process may have dereferenced
the null pointer. Elsewhere deadlock is checked,
so in `arp_delivery` no thread is ever stuck on `mtx`.

What each violation run shows, and which line says otherwise, is under
`findings` in `PROJECT.json`.

### Fairness

`FairSpec` assumes weak fairness of each thread's handler steps: a capture
thread that can move on is scheduled. Packets are finite, so a thread cannot be
kept from `mtx` for ever by others; starvation on an unfair mutex under endless
traffic is outside this assumption. `Answer` is strongly fair: the neighbour
answers a request that is out, and the capture ring is a queue, so the answer
has its turn although other packets make the thread busy again and again. No
fairness is assumed for `routePacket`, `Announce`, `LoseRequest` or `Tick`:
packets need not come and time need not pass.

In `Firewall`, `FairSpec` is `Spec /\ WF_vars(Run)`: the process is not stopped
for ever while one of its threads can go on. One condition for all threads is
enough, because behaviours are finite: each device hands over each packet of
the traffic once, and `main` and the handler only move forward. Nothing is
assumed of the signal or of the captures. `StopsWhenAsked` leaves out the
signal that comes while `main` holds stdout: then a callback that prints waits
for `main`, `main` for the handler, and the handler, in `stopCapture`, for the
callback, and the program hangs.

## 4. Proofs

TLAPS proves, for every value of the constants:

* `RoutesProofs`: `FindRouteFinds`. `RoutingTableProofs`: `TypeCorrect`,
  `LongestMatchFound`, and the action property `ChangesStayLocal`, from
  `EntryAssumption`, `NoRouteAssumption` and `AddressBitsAssumption` (entries
  are entries, "no route" is none, addresses have a width).
* `RoutingEngineProofs`: `TypeCorrect`, `LimitHolds`, `NothingStranded`,
  `LookupsAgree`, `DeliveredRight`, from `EngineAssumption` and
  `NoEntryAssumption`. That a lookup yields an entry or nothing follows from
  `RoutesProofs`.
* `ExactlyOnceProofs`: `PacketsExactlyOnce`, under the same assumptions.
* `NatStateProofs`, from `NatAssumption`: `TypeCorrect` for any number of
  threads that create sessions; `FlowsDiffer`, `PortsAreKept`, `ReturnEntries`,
  `RepliesReturn`, `PortsAreNotLost`, `LeaksAreRight` and `Refinement`
  (`NatState` implements `NatBinding`) under `SingleCreator`.
* `ConfigProofs`, from `FileAssumption`, `MaskAssumption`, `SpellingAssumption`
  and those on the width of addresses and bytes: `MatchesPrefix` and
  `VerdictOfPolicies` about the operators, and all invariants of run `config`:
  `TypeCorrect`, `FirstEntryRules`, `ProfilesStay`.
* `FirewallProofs`, from `InspectionAssumption` and `DeviceAssumption`, all the
  invariants that run `firewall` checks and its refinement: `TypeCorrect`,
  `StopReaches`, `FailsRightly`, `NoTrace`, `ResetsAreAccepted`, and
  `Refinement` (`Firewall` implements `Filter`). `NatIsNatState` says that the
  program implements `NatState`, so that what is proved of `NatState` holds of
  the program; `FlowsDiffer`, `PortsAreKept`, `RepliesReturn` and
  `LeaksAreRight` there are such consequences, under `SingleCreator` as well.

`InspectionAssumption` is about constants only: frames have the fields of their
layers, policies an action and a sequence of profiles, `Natted` is what the NAT
policies match, and NatState's own assumption. TLC evaluates it in run
`firewall`, and `FileAssumption` in run `config`.

The arguments:

* The scans of the code are folds, and `FoldLeft` is a recursive function on
  sets of positions. `FoldSolution` (in `ListProofs`) shows that such a
  recursion has a solution, so that a fold can be unfolded element by element:
  `FindRouteSteps`, `MatchSteps`, `WithoutSteps` and `AttachedSteps` give the
  value of the loop's variable after each iteration. `Induction` then carries
  the loop's invariant from 0 to the length. It is stated for a set instead of
  a predicate, and follows from the least counterexample, since the library's
  induction rules cannot be instantiated here.
* `FindRouteFinds`: after k entries the best is the first of the most specific
  matches among them; a better match replaces it, and an equal one does not.
* `ChangesStayLocal`: an appended entry that loses leaves the most specific
  match where it was; a filtered table keeps the order of what it keeps
  (`WithoutFilters`), so the first of the most specific matches is the same
  entry, unless it is one of those removed; and where nothing matched, nothing
  does in a filtered table (`RemovingAddsNothing`).
* `MatchesPrefix`: after k bytes the comparison has found equal what comes
  before bit k * `ByteBits` and is below the mask. The partial mask of the byte
  in which the mask ends covers just its leading bits.
* The loader (`Inv` in `ConfigProofs`): the sections passed did not throw; a
  list is empty before its section is read; the profiles are those of the file
  when the policies are read; and when loading ends, the policies are
  `PoliciesOf` the file's section, or there are none because an earlier section
  threw. The type invariant and what the properties say are far from inductive:
  they do not tell what a section that is still to come will find.
  `FirstEntryRules` then rests on `VerdictOfPolicies`: the entries in front of
  any that throws are parsed in order (`ObjectsPick`), so that the first policy
  that matches is that of the first entry about the packet. `ProfilesStay`
  compares, name by name, what `Attached` appends with what the name means in
  the file (`AttachedIsMeant`).
* `LeaksAreRight`: while a thread scans, the ports that it has tried are used
  (`ScannedOK`). With one creator nobody else moves `next_` meanwhile, so that
  the iterations look at consecutive ports of the circle; those of a whole scan
  cover the pool (`ScanCovers`), so all were used when it gave up, and nothing
  is released. An exhausted scan is the only way for an outbound packet to be
  routed as it is; one that has a session leaves with the external address.
  With two creators the window moves during the scan, and this argument fails.
* A queue is stranded only if its last flush passed before its last append.
  Each append is followed by the appender's own request, so the inductive step
  for `NothingStranded` only has to see that the thread which uses a request up
  (by answering it) is about to flush. A request cannot be used up twice, and a
  flush that empties the queue needs no successor.
* `DeliveredRight` needs the whole path to be right: what a thread holds, a
  queue's frames and a flush's frames belong to that interface and next hop,
  and cache entries and MACs in hand are claimed. The invariant is the
  conjunction of these, one per place a packet can be at.
* `PacketsExactlyOnce` (`OnceInv`): the set of a packet's places is a singleton
  once the packet is captured, and empty before; and a thread holds a packet
  only where it routes one, and frames only while it flushes. The second half
  is what lets a handler finish without losing anything. Each step replaces one
  place by another: a hand by a queue, a link or a drop, a place in a queue by
  one among the frames being flushed, and that by a link, while the frames
  behind it move up.
* `LookupsAgree`: the cache holds for that next hop what the flush sends to, or
  nothing (`FlushAgrees`), since only the thread of an interface learns for it,
  and that thread is busy flushing; and a lookup takes what the cache holds.
* For NAT the invariant says: at most one thread has an outbound packet in
  hand (from `SingleCreator`), hence no insertion of its own is ever raced; the
  table's outbound entries have different ports, all marked used; the port in
  hand is nobody else's; the return entry of each outbound entry is there unless
  its creator is about to add it; what was routed is what the table says.
  `FlowsDiffer`, `PortsAreKept` and `ReturnEntries` follow from it at once;
  `RepliesReturn` follows a reply with the key of a return entry in hand through
  the lookup, which finds that entry if nothing overlaps, and the translation.
  `PortsAreNotLost` adds that a marked port is mapped or in the creator's hands.
* Refinement: creating an outbound entry is `Bind`; every other step, that of
  the inbound entry included, leaves the outbound half as it is.
* Start and stop (`LifeInv`): no device is twice in `gInterfaces`, hence none is
  opened or started twice and a refused start has been refused by the system;
  in each loop of `main`, the devices before the index are started (or closed)
  and those behind it are closed; what the handler's walk has passed neither
  captures nor runs a callback, unless it is in `late`; a device that is
  stopping is the one the walk is at.
* `FilterInv`: a packet in hand is undecided, is for that thread, and was not
  denied; while it is scanned, the profiles that are left contain every URL
  profile of its policy that lists its name; what passes is passable, what is
  to be blocked is blockable. Nothing in it depends on contexts or sessions,
  which is why freed memory cannot get a listed or denied packet through.
* `HandsInv` relates the two halves of a callback: the packet NatState has in
  hand is the callback's, and its key one of that packet's. `NoTrace` follows:
  what enters the table is the key of a packet past the scans, or a return key.
* `ResetsAreAccepted` is arithmetic: a sum below twice the modulus wraps once.

Only model-checked: `StopsWhenAsked` and `EveryPacketLeaves`, which are liveness
under fairness and out of the prover's reach. The properties of the violation
runs do not hold and have no theorem.

## 5. Plan

Written so far: the modules above, with a theorem for every invariant and every
action property that a passing run checks. What is left, in this order:

1. The composition of `Config` and `Firewall`: that the policies and profiles
   `load` leaves behind meet `InspectionAssumption`, so that `VerdictOn` of a
   packet is the verdict that `FirstEntryRules` is about.
2. Safety parts of the liveness properties: what holds of every state in which
   nothing can move (an engine whose queues wait, a `main` that does not end).
3. A second signal, which may come while the handler walks, and the teardown
   after `main` has returned.

## 6. Not modelled, and why

* Decryption, DLP and `SessionTable`: no caller on the packet path; the DLP
  scans do nothing.
* `removeSession`, `eraseSession`, `release_port`, `appendData`, `getData`,
  `calculateSHA256`, and `createOrGetSession`, `createOrGetDecryptionSession`
  and `createOrGetNatSession` of `src/src/utils.cpp`: without a caller on the
  packet path at this commit. `sendArpReply` changes no state here.
* What the process does after `main` has returned, when captures that were
  started late, or before a device failed, still run while static objects are
  destroyed: undefined, and nothing in the code says what should hold.
* A signal that interrupts the allocator's lock, which would be a deadlock of
  the same kind as the one with stdout.
* A packet routed to a device that is not open yet: its send fails, and
  `RoutingEngine` has sends that fail.
* That a hash is the hash of a file: retransmitted and reordered segments are
  hashed as they come, and the first packet of a connection is scanned before
  its session exists. No line of the repository promises more, so nothing is
  refuted and nothing is stated.
* A segment with both SYN and FIN, which no TCP sends: the reset's
  acknowledgement number counts one for it.
* Checksums, header layout, logging and the build have no state a property is
  about. That `sendPacket` of a reset fails is only logged: `resets` are those
  given to it.
