--------------------------- MODULE RoutingEngine ---------------------------
(***************************************************************************)
(* class RoutingEngine under the capture threads that call it.             *)
(*                                                                         *)
(* Every captured interface has one thread, which runs onPacketArrives for *)
(* one packet after the other.  An ARP packet becomes processArpPacket     *)
(* (learnArp, then flushPending); an IPv4 packet becomes routePacket       *)
(* (findRoute, lookupArp, then a send, or enqueuePending followed by       *)
(* sendArpRequest).  arpCache and pending are shared by the threads.  mtx  *)
(* protects each access but not the sequence of accesses of a handler, so  *)
(* a step here is what runs under one acquisition of mtx, or between two.  *)
(* flushPending sends while it holds mtx: each of its sends is a step.     *)
(*                                                                         *)
(* The neighbours on the links are the environment: they see the ARP       *)
(* requests, answer them, announce themselves unasked, or a request is     *)
(* lost.  ARP replies that the firewall itself sends change none of its    *)
(* state, and no neighbour modelled here waits for one: they are left out. *)
(***************************************************************************)
EXTENDS Routes

CONSTANTS
  Interface,      \* RoutingEngine::interfaces, one capture thread each
  ipOf,           \* PcapLiveDevice::getIPv4Address, Zero when it has none
  routing_table,  \* Config::routing_table, fixed once main has loaded it
  Packet,         \* IPv4 packets, each captured at most once
  Destination,    \* the destinations the packets may carry
  Mac,            \* hardware addresses of the hosts on the links
  ZeroMac,        \* pcpp::MacAddress::Zero
  Claim,          \* <<interface, sender address, sender MAC>> of an ARP packet
  NoEntry,        \* no such key in arpCache
  NoPacket, Free, \* a thread without a packet; mtx when nobody holds it
  PendingLimit,   \* frames queued per next hop (10 in enqueuePending)
  ArpLifetime,    \* minutes(20) in learnArp, in clock ticks
  LossyLink       \* whether an ARP request may be lost

ASSUME EngineAssumption ==
  /\ Interface \subseteq InterfaceName
  /\ ipOf \in [Interface -> IPv4Address]
  /\ routing_table \in Seq(RouteEntry)
  /\ Destination \subseteq IPv4Address
  /\ Claim \subseteq Interface \X IPv4Address \X (Mac \cup {ZeroMac})
  /\ ZeroMac \notin Mac /\ NoPacket \notin Packet /\ Free \notin Interface
  /\ PendingLimit \in Nat \ {0} /\ ArpLifetime \in Nat
  /\ LossyLink \in BOOLEAN

AnyMac == Mac \cup {ZeroMac}

\* The addresses on the link of interface i that somebody answers for.
Neighbour(i) == {ip \in IPv4Address : \E mac \in Mac : <<i, ip, mac>> \in Claim}

\* left: ticks until expiresAt; -1 once now > expiresAt.
ArpEntry == [mac : Mac, left : -1 .. ArpLifetime]

ASSUME NoEntryAssumption == NoEntry \notin ArpEntry

\* A frame as sendPacket puts it on a link: its packet and destination MAC.
Frame == [packet : Packet, mac : AnyMac]

VARIABLES
  arpCache,   \* [Interface -> [address -> entry]]
  pending,    \* [Interface -> [next hop -> queue of packets]]
  mtx,        \* the thread that holds the mutex over several steps
  thread,     \* what each capture thread is doing
  alive,      \* FALSE once the process has dereferenced a null interface
  captured,   \* <<packet, destination>> of what has reached routePacket
  dropped,    \* the packets the engine has given up
  wire,       \* [Interface -> frames sent, in order]
  requests    \* [Interface -> [address -> fate of the last ARP request]]

vars == <<arpCache, pending, mtx, thread, alive, captured, dropped, wire,
          requests>>

Place == {"idle", "lookup", "send", "enqueue", "request",   \* routePacket
          "learn", "flush", "flushing"}                     \* processArpPacket

\* packet, out, ip (next hop) and mac are locals of routePacket; ip and mac are
\* the sender's in processArpPacket; frames is flushPending's local vector.
Thread == [at : Place, packet : Packet \cup {NoPacket}, out : Interface,
           ip : IPv4Address, mac : AnyMac, frames : Seq(Packet)]

Idle(i) == [at |-> "idle", packet |-> NoPacket, out |-> i, ip |-> Zero,
            mac |-> ZeroMac, frames |-> <<>>]

TypeOK ==
  /\ arpCache \in [Interface -> [IPv4Address -> ArpEntry \cup {NoEntry}]]
  /\ pending \in [Interface -> [IPv4Address -> Seq(Packet)]]
  /\ mtx \in Interface \cup {Free}
  /\ thread \in [Interface -> Thread]
  /\ alive \in BOOLEAN
  /\ captured \subseteq Packet \X Destination /\ dropped \subseteq Packet
  /\ wire \in [Interface -> Seq(Frame)]
  /\ requests \in [Interface -> [IPv4Address -> {"none", "sent", "lost"}]]
  /\ \A t \in Interface :
       thread[t].at \in {"lookup", "send", "enqueue"} => thread[t].packet \in Packet

Init ==
  /\ arpCache = [i \in Interface |-> [ip \in IPv4Address |-> NoEntry]]
  /\ pending = [i \in Interface |-> [ip \in IPv4Address |-> <<>>]]
  /\ mtx = Free
  /\ thread = [i \in Interface |-> Idle(i)]
  /\ alive = TRUE
  /\ captured = {} /\ dropped = {}
  /\ wire = [i \in Interface |-> <<>>]
  /\ requests = [i \in Interface |-> [ip \in IPv4Address |-> "none"]]

\* Thread t of a process that still runs has reached this point of its handler.
At(t, place) == alive /\ thread[t].at = place

Goto(t, place) == thread' = [thread EXCEPT ![t].at = place]

Finish(t) == thread' = [thread EXCEPT ![t] = Idle(t)]

IsCaptured(p) == \E destination \in Destination : <<p, destination>> \in captured

Drop(p) == dropped' = dropped \cup {p}
-----------------------------------------------------------------------------
(* routePacket, up to the ARP lookup: no shared state is touched.          *)

IsLocal(destination) == \E i \in Interface : ipOf[i] = destination

NextHop(route, destination) ==
  IF route.gateway # Zero THEN route.gateway ELSE destination

\* The early returns before the TTL is decremented, in the order of the code.
Unroutable(destination) ==
  LET route == findRoute(routing_table, destination)
  IN  \/ IsLocal(destination)
      \/ route = NoRoute
      \/ /\ route.interfaceName \in Interface
         /\ ipOf[route.interfaceName] = NextHop(route, destination)

\* findInterfaceByName returns nullptr and its address is asked for at once.
NullInterface(destination) ==
  LET route == findRoute(routing_table, destination)
  IN  /\ ~ IsLocal(destination)
      /\ route # NoRoute
      /\ route.interfaceName \notin Interface

routePacket(t, p, destination, ttl) ==
  /\ At(t, "idle")
  /\ ~ IsCaptured(p)
  /\ captured' = captured \cup {<<p, destination>>}
  /\ \/ /\ Unroutable(destination) \/ (~ NullInterface(destination) /\ ttl <= 1)
        /\ Drop(p)
        /\ UNCHANGED <<thread, alive>>
     \/ /\ NullInterface(destination)
        /\ alive' = FALSE
        /\ Drop(p)
        /\ UNCHANGED thread
     \/ /\ ~ Unroutable(destination) /\ ~ NullInterface(destination) /\ ttl > 1
        /\ LET route == findRoute(routing_table, destination)
           IN  thread' = [thread EXCEPT
                 ![t] = [Idle(t) EXCEPT !.at = "lookup", !.packet = p,
                                        !.out = route.interfaceName,
                                        !.ip = NextHop(route, destination)]]
        /\ UNCHANGED <<alive, dropped>>
  /\ UNCHANGED <<arpCache, pending, mtx, wire, requests>>

\* Mutant: one cache for all interfaces.
SharedCacheLookup(t) ==
  /\ At(t, "lookup")
  /\ mtx = Free
  /\ \/ \E i \in Interface :
          LET entry == arpCache[i][thread[t].ip]
          IN  /\ entry # NoEntry
              /\ thread' = [thread EXCEPT ![t].at = "send", ![t].mac = entry.mac]
     \/ /\ \A i \in Interface : arpCache[i][thread[t].ip] = NoEntry
        /\ Goto(t, "enqueue")
  /\ UNCHANGED <<arpCache, pending, mtx, alive, captured, dropped, wire, requests>>

\* An expired entry is erased by the lookup that finds it.
lookupArp(t) ==
  /\ At(t, "lookup")
  /\ mtx = Free
  /\ LET entry == arpCache[thread[t].out][thread[t].ip]
     IN  \/ /\ entry # NoEntry
            /\ entry.left >= 0
            /\ thread' = [thread EXCEPT ![t].at = "send", ![t].mac = entry.mac]
            /\ UNCHANGED arpCache
         \/ /\ entry # NoEntry
            /\ entry.left < 0
            /\ arpCache' = [arpCache EXCEPT ![thread[t].out][thread[t].ip] = NoEntry]
            /\ Goto(t, "enqueue")
         \/ /\ entry = NoEntry
            /\ Goto(t, "enqueue")
            /\ UNCHANGED arpCache
  /\ UNCHANGED <<pending, mtx, alive, captured, dropped, wire, requests>>

\* Appends a frame to a link, or the device refuses it: then it is gone, since
\* routePacket only logs the failure and flushPending ignores it.
sendPacket(i, p, mac) ==
  \/ /\ wire' = [wire EXCEPT ![i] = Append(@, [packet |-> p, mac |-> mac])]
     /\ UNCHANGED dropped
  \/ /\ Drop(p)
     /\ UNCHANGED wire

\* The cached MAC was read under mtx; the send is after the unlock.
sendResolved(t) ==
  /\ At(t, "send")
  /\ sendPacket(thread[t].out, thread[t].packet, thread[t].mac)
  /\ Finish(t)
  /\ UNCHANGED <<arpCache, pending, mtx, alive, captured, requests>>

\* Mutant: the limit is off by one.
EnqueueOneMore(t) ==
  /\ At(t, "enqueue")
  /\ mtx = Free
  /\ LET queue == pending[thread[t].out][thread[t].ip]
     IN  /\ Len(queue) <= PendingLimit
         /\ pending' = [pending EXCEPT ![thread[t].out][thread[t].ip] =
                          Append(queue, thread[t].packet)]
  /\ thread' = [thread EXCEPT ![t].at = "request", ![t].packet = NoPacket]
  /\ UNCHANGED <<arpCache, mtx, alive, captured, dropped, wire, requests>>

enqueuePending(t) ==
  /\ At(t, "enqueue")
  /\ mtx = Free
  /\ LET queue == pending[thread[t].out][thread[t].ip]
     IN  \/ /\ Len(queue) < PendingLimit
            /\ pending' = [pending EXCEPT ![thread[t].out][thread[t].ip] =
                             Append(queue, thread[t].packet)]
            /\ UNCHANGED dropped
         \/ /\ Len(queue) >= PendingLimit
            /\ Drop(thread[t].packet)
            /\ UNCHANGED pending
  /\ thread' = [thread EXCEPT ![t].at = "request", ![t].packet = NoPacket]
  /\ UNCHANGED <<arpCache, mtx, alive, captured, wire, requests>>

\* Also when the queue was full.  An interface without an address cannot ask.
sendArpRequest(t) ==
  /\ At(t, "request")
  /\ requests' = IF ipOf[thread[t].out] = Zero THEN requests
                 ELSE [requests EXCEPT ![thread[t].out][thread[t].ip] = "sent"]
  /\ Finish(t)
  /\ UNCHANGED <<arpCache, pending, mtx, alive, captured, dropped, wire>>
-----------------------------------------------------------------------------
(* processArpPacket, for an ARP packet with this sender.                   *)

processArpPacket(t, ip, mac) ==
  /\ At(t, "idle")
  /\ thread' = [thread EXCEPT ![t] = [Idle(t) EXCEPT !.at = "learn", !.ip = ip,
                                                     !.mac = mac]]
  /\ UNCHANGED <<arpCache, pending, mtx, alive, captured, dropped, wire>>

\* Mutant: no check for the zero hardware address.
LearnZeroMac(t) ==
  /\ At(t, "learn")
  /\ mtx = Free
  /\ arpCache' = [arpCache EXCEPT ![t][thread[t].ip] =
                    [mac |-> thread[t].mac, left |-> ArpLifetime]]
  /\ Goto(t, "flush")
  /\ UNCHANGED <<pending, mtx, alive, captured, dropped, wire, requests>>

\* Mutant: a known neighbour is neither updated nor is its queue flushed.
LearnOnlyUnknown(t) ==
  /\ At(t, "learn")
  /\ mtx = Free
  /\ IF arpCache[t][thread[t].ip] = NoEntry
     THEN /\ arpCache' = [arpCache EXCEPT ![t][thread[t].ip] =
                            [mac |-> thread[t].mac, left |-> ArpLifetime]]
          /\ Goto(t, "flush")
     ELSE Finish(t) /\ UNCHANGED arpCache
  /\ UNCHANGED <<pending, mtx, alive, captured, dropped, wire, requests>>

\* Mutant: map::emplace, which keeps the entry that is there.
LearnWithoutRefresh(t) ==
  /\ At(t, "learn")
  /\ mtx = Free
  /\ arpCache' = IF arpCache[t][thread[t].ip] # NoEntry THEN arpCache
                  ELSE [arpCache EXCEPT ![t][thread[t].ip] =
                          [mac |-> thread[t].mac, left |-> ArpLifetime]]
  /\ Goto(t, "flush")
  /\ UNCHANGED <<pending, mtx, alive, captured, dropped, wire, requests>>

learnArp(t) ==
  LET ip == thread[t].ip
      mac == thread[t].mac
  IN  /\ At(t, "learn")
      /\ \/ /\ ip = Zero \/ mac = ZeroMac
            /\ UNCHANGED arpCache
         \/ /\ ip # Zero /\ mac # ZeroMac
            /\ mtx = Free
            /\ arpCache' = [arpCache EXCEPT
                              ![t][ip] = [mac |-> mac, left |-> ArpLifetime]]
      /\ Goto(t, "flush")
      /\ UNCHANGED <<pending, mtx, alive, captured, dropped, wire, requests>>

\* Mutant: the key is not erased after the queue has been copied.
FlushACopy(t) ==
  /\ At(t, "flush")
  /\ mtx = Free
  /\ mtx' = t
  /\ thread' = [thread EXCEPT ![t].at = "flushing",
                              ![t].frames = pending[t][thread[t].ip]]
  /\ UNCHANGED <<arpCache, pending, alive, captured, dropped, wire, requests>>

\* The whole queue is moved out and its key erased; mtx stays locked meanwhile.
flushPending(t) ==
  LET queue == pending[t][thread[t].ip]
  IN  /\ At(t, "flush")
      /\ mtx = Free
      /\ \/ /\ queue = <<>>
            /\ Finish(t)
            /\ UNCHANGED <<pending, mtx>>
         \/ /\ queue # <<>>
            /\ mtx' = t
            /\ pending' = [pending EXCEPT ![t][thread[t].ip] = <<>>]
            /\ thread' = [thread EXCEPT ![t].at = "flushing", ![t].frames = queue]
      /\ UNCHANGED <<arpCache, alive, captured, dropped, wire, requests>>

sendFlushed(t) ==
  /\ At(t, "flushing")
  /\ thread[t].frames # <<>>
  /\ sendPacket(t, Head(thread[t].frames), thread[t].mac)
  /\ thread' = [thread EXCEPT ![t].frames = Tail(@)]
  /\ UNCHANGED <<arpCache, pending, mtx, alive, captured, requests>>

flushDone(t) ==
  /\ At(t, "flushing")
  /\ thread[t].frames = <<>>
  /\ mtx' = Free
  /\ Finish(t)
  /\ UNCHANGED <<arpCache, pending, alive, captured, dropped, wire, requests>>
-----------------------------------------------------------------------------
(* The environment: clock and neighbours.                                  *)

\* steady_clock moves on for every entry.
Tick ==
  /\ alive
  /\ \E i \in Interface, ip \in IPv4Address :
       arpCache[i][ip] # NoEntry /\ arpCache[i][ip].left >= 0
  /\ arpCache' = [i \in Interface |-> [ip \in IPv4Address |->
       IF arpCache[i][ip] = NoEntry \/ arpCache[i][ip].left < 0 THEN arpCache[i][ip]
       ELSE [arpCache[i][ip] EXCEPT !.left = @ - 1]]]
  /\ UNCHANGED <<pending, mtx, thread, alive, captured, dropped, wire, requests>>

\* A neighbour answers the request that is out for its address.
Answer(i, ip) ==
  /\ requests[i][ip] = "sent"
  /\ \E mac \in Mac : <<i, ip, mac>> \in Claim /\ processArpPacket(i, ip, mac)
  /\ requests' = [requests EXCEPT ![i][ip] = "none"]

\* Any other ARP packet: a neighbour's own request, a gratuitous announcement,
\* a probe (sender address zero), or one that carries no hardware address.
Announce(i, ip, mac) ==
  /\ <<i, ip, mac>> \in Claim
  /\ processArpPacket(i, ip, mac)
  /\ UNCHANGED requests

LoseRequest(i, ip) ==
  /\ LossyLink
  /\ alive
  /\ requests[i][ip] = "sent"
  /\ requests' = [requests EXCEPT ![i][ip] = "lost"]
  /\ UNCHANGED <<arpCache, pending, mtx, thread, alive, captured, dropped, wire>>
-----------------------------------------------------------------------------
Handler(t) ==
  \/ lookupArp(t) \/ sendResolved(t) \/ enqueuePending(t) \/ sendArpRequest(t)
  \/ learnArp(t) \/ flushPending(t) \/ sendFlushed(t) \/ flushDone(t)

Next ==
  \/ \E t \in Interface : Handler(t)
  \/ \E t \in Interface, p \in Packet, destination \in Destination, ttl \in 1 .. 2 :
       routePacket(t, p, destination, ttl)
  \/ \E i \in Interface, ip \in IPv4Address : Answer(i, ip) \/ LoseRequest(i, ip)
  \/ \E i \in Interface, ip \in IPv4Address, mac \in AnyMac : Announce(i, ip, mac)
  \/ Tick

Spec == Init /\ [][Next]_vars
-----------------------------------------------------------------------------
(* Safety.                                                                 *)

\* Every place where packet p is, kind by kind: <<kind, where, position>>.
HandsOf(p)   == {<<"hand", t, 0>> : t \in {u \in Interface : thread[u].packet = p}}
QueuesOf(p)  ==
  UNION {{<<"queue", q, k>> :
            k \in {n \in DOMAIN pending[q[1]][q[2]] : pending[q[1]][q[2]][n] = p}} :
           q \in Interface \X IPv4Address}
FlushesOf(p) ==
  UNION {{<<"flush", t, k>> :
            k \in {n \in DOMAIN thread[t].frames : thread[t].frames[n] = p}} :
           t \in Interface}
WiresOf(p)   ==
  UNION {{<<"wire", i, k>> : k \in {n \in DOMAIN wire[i] : wire[i][n].packet = p}} :
           i \in Interface}
DropsOf(p)   == {<<"dropped", d, 0>> : d \in dropped \cap {p}}

Whereabouts(p) ==
  HandsOf(p) \cup QueuesOf(p) \cup FlushesOf(p) \cup WiresOf(p) \cup DropsOf(p)

(* Whatever the threads interleave, a captured packet is in one place: held *)
(* by one handler, once in one queue, once among the frames being flushed,  *)
(* sent once on one link, or given up.  It is never duplicated by a flush   *)
(* that races an enqueue, and never forgotten between the two.              *)
ExactlyOnce ==
  \A p \in Packet :
    Cardinality(Whereabouts(p)) = IF IsCaptured(p) THEN 1 ELSE 0

\* Somebody will flush the queue of ip on i, or the link has lost the request.
FlushIsDue(i, ip) ==
  \/ requests[i][ip] \in {"sent", "lost"}
  \/ \E t \in Interface :
       thread[t].at = "request" /\ thread[t].out = i /\ thread[t].ip = ip
  \/ thread[i].at \in {"learn", "flush"} /\ thread[i].ip = ip

(* lookupArp and enqueuePending lock mtx separately, so the answer a packet *)
(* waits for can be learnt and flushed between them.  No queue is stranded  *)
(* by that: on an interface that can ask, a non-empty queue always has a    *)
(* request on the link, one about to be sent, or its flush under way.       *)
NoQueueStranded ==
  \A i \in Interface, ip \in IPv4Address :
    pending[i][ip] # <<>> /\ ipOf[i] # Zero => FlushIsDue(i, ip)

(* "Simple queue limit per IP to avoid memory exhaustion": the test of the  *)
(* size and the append are one critical section, so threads that queue for  *)
(* the same next hop cannot pass the limit together.                        *)
QueueBounded ==
  \A i \in Interface, ip \in IPv4Address : Len(pending[i][ip]) <= PendingLimit

(* A frame leaves by the interface of its packet's route, and goes to a     *)
(* hardware address that somebody on that very link has claimed for its     *)
(* next hop: cache and queues, filled by other threads than the one that    *)
(* sends, do not mix up interfaces or next hops.                            *)
NoMisdelivery ==
  \A i \in Interface : \A k \in DOMAIN wire[i], c \in captured :
    LET route == findRoute(routing_table, c[2])
    IN  wire[i][k].packet = c[1] =>
          /\ route.interfaceName = i
          /\ <<i, NextHop(route, c[2]), wire[i][k].mac>> \in Claim

(* learnArp and flushPending lock mtx separately, and a lookup may come in   *)
(* between.  From the learning until the flush is over, a lookup of that     *)
(* next hop gets the MAC that the queue is flushed to, or none: the address  *)
(* a neighbour has given up is not handed out any more.  That is all: a MAC  *)
(* that was read before the learning is used after it, so a frame that is in *)
(* a thread's hands by then still goes to the old address.                   *)
LookupsFollowFlush ==
  [][\A t, u \in Interface :
       LET flush == thread[t]
           found == thread'[u]
       IN  /\ flush.at \in {"flush", "flushing"}
           /\ flush.ip # Zero /\ flush.mac # ZeroMac
           /\ thread[u].at = "lookup" /\ found.at = "send"
           /\ found.out = t /\ found.ip = flush.ip
           => found.mac = flush.mac]_vars
-----------------------------------------------------------------------------
(* What the comments say and the code does not do: each is refuted by a run.*)

(* "If we learned a MAC we were waiting for, flush queue": a queue is only  *)
(* flushed to an address that was learnt, so never to the zero address,     *)
(* which learnArp refuses.                                                  *)
FlushOnlyLearned ==
  \A i \in Interface : \A k \in DOMAIN wire[i] : wire[i][k].mac # ZeroMac

(* "if (!outInterface) return;": a route over an interface that is not      *)
(* captured is a packet the engine ignores, not the end of the process.     *)
MissingInterfaceIsSkipped == alive
-----------------------------------------------------------------------------
(* Liveness.  A capture thread that can move on does; a neighbour that is   *)
(* asked answers, and the capture ring is a queue, so the answer's turn     *)
(* comes although other packets keep arriving (hence the strong fairness).  *)
FairSpec ==
  /\ Spec
  /\ \A t \in Interface : WF_vars(Handler(t))
  /\ \A i \in Interface : \A ip \in Neighbour(i) : SF_vars(Answer(i, ip))

Gone(p) ==
  \/ p \in dropped
  \/ \E i \in Interface : \E k \in DOMAIN wire[i] : wire[i][k].packet = p

\* Thread t is routing p to a neighbour, by an interface that can ask for it.
RoutesToNeighbour(t, p) ==
  LET i == thread[t].out
  IN  /\ thread[t].packet = p
      /\ thread[t].ip \in Neighbour(i)
      /\ ipOf[i] # Zero

(* When no request is lost, every packet for a neighbour that answers is    *)
(* sent, or dropped at a full queue or by the device: it does not stay in a *)
(* queue whose flush came too early.                                        *)
EveryPacketLeaves ==
  \A t \in Interface, p \in Packet : RoutesToNeighbour(t, p) ~> Gone(p)
=============================================================================
