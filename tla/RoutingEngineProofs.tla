------------------------ MODULE RoutingEngineProofs ------------------------
(***************************************************************************)
(* Proofs about RoutingEngine, for any interfaces, threads and neighbours. *)
(***************************************************************************)
EXTENDS RoutingEngine, RoutesProofs

\* A packet that routePacket goes on with has a route over a real interface.
LEMMA RouteType ==
  ASSUME NEW destination \in Destination,
         ~ Unroutable(destination), ~ NullInterface(destination)
  PROVE  LET route == findRoute(routing_table, destination)
         IN  route.interfaceName \in Interface /\ NextHop(route, destination) \in IPv4Address
<1> DEFINE route == findRoute(routing_table, destination)
<1>1. route # NoRoute /\ route.interfaceName \in Interface
  BY DEF Unroutable, NullInterface
<1>2. route \in RouteEntry /\ destination \in IPv4Address
  BY <1>1, FindRouteType, EngineAssumption
<1> HIDE DEF route
<1>3. NextHop(route, destination) \in IPv4Address
  BY <1>2 DEF NextHop, RouteEntry
<1>4. QED
  BY <1>1, <1>3 DEF route
-----------------------------------------------------------------------------
(* Type correctness.                                                       *)

LEMMA TypeInit ==
  ASSUME Init
  PROVE  TypeOK
BY EngineAssumption DEF Init, TypeOK, Idle, Thread, Place, AnyMac, Zero, IPv4Address

\* The types one at a time, as the steps below need them.
CacheType   == [Interface -> [IPv4Address -> ArpEntry \cup {NoEntry}]]
PendingType == [Interface -> [IPv4Address -> Seq(Packet)]]
WireType    == [Interface -> Seq(Frame)]

HoldsPacket(l) == l.at \in {"lookup", "send", "enqueue"} => l.packet \in Packet

LEMMA TypeFacts ==
  ASSUME TypeOK
  PROVE  /\ arpCache \in CacheType /\ pending \in PendingType /\ wire \in WireType
         /\ thread \in [Interface -> Thread]
         /\ dropped \subseteq Packet /\ captured \subseteq Packet \X Destination
         /\ \A t \in Interface : HoldsPacket(thread[t])
BY DEF TypeOK, CacheType, PendingType, WireType, HoldsPacket

LEMMA IdleType ==
  ASSUME NEW t \in Interface
  PROVE  Idle(t) \in Thread /\ HoldsPacket(Idle(t)) /\ Idle(t).at = "idle"
BY DEF Idle, Thread, Place, Zero, IPv4Address, AnyMac, HoldsPacket

\* One thread's locals change.
LEMMA ThreadUpdate ==
  ASSUME TypeOK, NEW t \in Interface, NEW l \in Thread, HoldsPacket(l),
         thread' = [thread EXCEPT ![t] = l]
  PROVE  /\ thread' \in [Interface -> Thread]
         /\ \A u \in Interface : HoldsPacket(thread'[u])
<1>1. thread \in [Interface -> Thread] /\ \A u \in Interface : HoldsPacket(thread[u])
  BY TypeFacts
<1>2. thread'[t] = l /\ \A u \in Interface \ {t} : thread'[u] = thread[u]
  BY <1>1
<1>3. QED
  BY <1>1, <1>2

\* One entry of a table by interface and address changes.
LEMMA EntryUpdate ==
  ASSUME NEW S, NEW f \in [Interface -> [IPv4Address -> S]],
         NEW i \in Interface, NEW ip \in IPv4Address, NEW v \in S
  PROVE  [f EXCEPT ![i][ip] = v] \in [Interface -> [IPv4Address -> S]]
OBVIOUS

LEMMA SendType ==
  ASSUME TypeOK, NEW i \in Interface, NEW p \in Packet, NEW mac \in AnyMac,
         sendPacket(i, p, mac)
  PROVE  wire' \in WireType /\ dropped' \subseteq Packet
<1>1. [packet |-> p, mac |-> mac] \in Frame
  BY DEF Frame
<1>2. wire \in WireType /\ dropped \subseteq Packet
  BY TypeFacts
<1>3. CASE wire' = [wire EXCEPT ![i] = Append(@, [packet |-> p, mac |-> mac])]
           /\ UNCHANGED dropped
  <2>1. Append(wire[i], [packet |-> p, mac |-> mac]) \in Seq(Frame)
    BY <1>1, <1>2 DEF WireType
  <2>2. QED
    BY <1>2, <1>3, <2>1 DEF WireType
<1>4. CASE dropped' = dropped \cup {p} /\ UNCHANGED wire
  BY <1>2, <1>4
<1>5. QED
  BY <1>3, <1>4 DEF sendPacket, Drop

\* TypeOK' from its parts.
LEMMA TypeParts ==
  ASSUME arpCache' \in CacheType, pending' \in PendingType, wire' \in WireType,
         mtx' \in Interface \cup {Free}, alive' \in BOOLEAN,
         thread' \in [Interface -> Thread], \A t \in Interface : HoldsPacket(thread'[t]),
         captured' \subseteq Packet \X Destination, dropped' \subseteq Packet,
         requests' \in [Interface -> [IPv4Address -> {"none", "sent", "lost"}]]
  PROVE  TypeOK'
BY DEF TypeOK, CacheType, PendingType, WireType, HoldsPacket

LEMMA LookupType ==
  ASSUME TypeOK, NEW t \in Interface, lookupArp(t)
  PROVE  TypeOK'
<1> DEFINE l == thread[t]
           entry == arpCache[l.out][l.ip]
<1>1. /\ l \in Thread /\ l.packet \in Packet
      /\ l.out \in Interface /\ l.ip \in IPv4Address
      /\ arpCache \in CacheType
  BY TypeFacts DEF lookupArp, At, Thread, HoldsPacket
<1>2. entry \in ArpEntry \cup {NoEntry}
  BY <1>1 DEF CacheType
<1>3. /\ [l EXCEPT !.at = "enqueue"] \in Thread
      /\ HoldsPacket([l EXCEPT !.at = "enqueue"])
  BY <1>1 DEF Thread, Place, HoldsPacket
<1>4. ASSUME entry # NoEntry
      PROVE  /\ [l EXCEPT !.at = "send", !.mac = entry.mac] \in Thread
             /\ HoldsPacket([l EXCEPT !.at = "send", !.mac = entry.mac])
  <2>1. entry.mac \in AnyMac
    BY <1>2, <1>4 DEF ArpEntry, AnyMac
  <2> HIDE DEF entry
  <2>2. QED
    BY <1>1, <2>1 DEF Thread, Place, HoldsPacket
<1>5. [arpCache EXCEPT ![l.out][l.ip] = NoEntry] \in CacheType
  BY <1>1, EntryUpdate DEF CacheType
<1>6. UNCHANGED <<pending, mtx, alive, captured, dropped, wire, requests>>
  BY DEF lookupArp
<1>7. CASE /\ entry # NoEntry
           /\ thread' = [thread EXCEPT ![t] = [l EXCEPT !.at = "send", !.mac = entry.mac]]
           /\ UNCHANGED arpCache
  BY <1>4, <1>6, <1>7, ThreadUpdate, TypeFacts, TypeParts DEF TypeOK
<1>8. CASE /\ arpCache' = [arpCache EXCEPT ![l.out][l.ip] = NoEntry] \/ UNCHANGED arpCache
           /\ thread' = [thread EXCEPT ![t] = [l EXCEPT !.at = "enqueue"]]
  BY <1>3, <1>5, <1>6, <1>8, ThreadUpdate, TypeFacts, TypeParts DEF TypeOK
<1>9. QED
  BY <1>7, <1>8 DEF lookupArp, Goto

LEMMA SendResolvedType ==
  ASSUME TypeOK, NEW t \in Interface, sendResolved(t)
  PROVE  TypeOK'
<1>1. /\ thread[t].packet \in Packet /\ thread[t].mac \in AnyMac
      /\ thread[t].out \in Interface
  BY TypeFacts DEF sendResolved, At, Thread, HoldsPacket
<1>2. wire' \in WireType /\ dropped' \subseteq Packet
  BY <1>1, SendType DEF sendResolved
<1>3. /\ thread' \in [Interface -> Thread]
      /\ \A u \in Interface : HoldsPacket(thread'[u])
  BY IdleType, ThreadUpdate DEF sendResolved, Finish
<1>4. QED
  BY <1>2, <1>3, TypeFacts, TypeParts DEF sendResolved, TypeOK

LEMMA EnqueueType ==
  ASSUME TypeOK, NEW t \in Interface, enqueuePending(t)
  PROVE  TypeOK'
<1> DEFINE l == thread[t]
           queue == pending[l.out][l.ip]
           next == [l EXCEPT !.at = "request", !.packet = NoPacket]
<1>1. /\ l \in Thread /\ l.packet \in Packet
      /\ l.out \in Interface /\ l.ip \in IPv4Address
      /\ pending \in PendingType /\ dropped \subseteq Packet
  BY TypeFacts DEF enqueuePending, At, Thread, HoldsPacket
<1>2. Append(queue, l.packet) \in Seq(Packet)
  BY <1>1 DEF PendingType
<1>3. [pending EXCEPT ![l.out][l.ip] = Append(queue, l.packet)] \in PendingType
  BY <1>1, <1>2, EntryUpdate DEF PendingType
<1>4. pending' \in PendingType /\ dropped' \subseteq Packet
  BY <1>1, <1>3 DEF enqueuePending, Drop
<1>5. next \in Thread /\ HoldsPacket(next)
  BY <1>1 DEF Thread, Place, HoldsPacket
<1>6. thread' = [thread EXCEPT ![t] = next]
  BY DEF enqueuePending
<1> HIDE DEF next
<1>7. /\ thread' \in [Interface -> Thread]
      /\ \A u \in Interface : HoldsPacket(thread'[u])
  BY <1>5, <1>6, ThreadUpdate
<1>8. QED
  BY <1>4, <1>7, TypeFacts, TypeParts DEF enqueuePending, TypeOK

LEMMA RequestType ==
  ASSUME TypeOK, NEW t \in Interface, sendArpRequest(t)
  PROVE  TypeOK'
<1>1. thread[t].out \in Interface /\ thread[t].ip \in IPv4Address
  BY TypeFacts DEF Thread
<1>2. requests \in [Interface -> [IPv4Address -> {"none", "sent", "lost"}]]
  BY DEF TypeOK
<1>3. requests' \in [Interface -> [IPv4Address -> {"none", "sent", "lost"}]]
  BY <1>1, <1>2, EntryUpdate DEF sendArpRequest
<1>4. /\ thread' \in [Interface -> Thread]
      /\ \A u \in Interface : HoldsPacket(thread'[u])
  BY IdleType, ThreadUpdate DEF sendArpRequest, Finish
<1>5. QED
  BY <1>3, <1>4, TypeFacts, TypeParts DEF sendArpRequest, TypeOK

LEMMA LearnType ==
  ASSUME TypeOK, NEW t \in Interface, learnArp(t)
  PROVE  TypeOK'
<1> DEFINE l == thread[t]
           next == [l EXCEPT !.at = "flush"]
           entry == [mac |-> l.mac, left |-> ArpLifetime]
<1>1. /\ l \in Thread /\ l.ip \in IPv4Address /\ l.mac \in AnyMac
      /\ arpCache \in CacheType
  BY TypeFacts DEF Thread
<1>2. l.mac # ZeroMac => entry \in ArpEntry
  BY <1>1, EngineAssumption DEF ArpEntry, AnyMac
<1>3. arpCache' \in CacheType
  BY <1>1, <1>2, EntryUpdate DEF learnArp, CacheType
<1>4. next \in Thread /\ HoldsPacket(next)
  BY <1>1 DEF Thread, Place, HoldsPacket
<1>5. thread' = [thread EXCEPT ![t] = next]
  BY DEF learnArp, Goto
<1> HIDE DEF next
<1>6. /\ thread' \in [Interface -> Thread]
      /\ \A u \in Interface : HoldsPacket(thread'[u])
  BY <1>4, <1>5, ThreadUpdate
<1>7. QED
  BY <1>3, <1>6, TypeFacts, TypeParts DEF learnArp, TypeOK

LEMMA FlushType ==
  ASSUME TypeOK, NEW t \in Interface, flushPending(t)
  PROVE  TypeOK'
<1> DEFINE l == thread[t]
           queue == pending[t][l.ip]
           next == [l EXCEPT !.at = "flushing", !.frames = queue]
<1>1. /\ l \in Thread /\ l.ip \in IPv4Address /\ pending \in PendingType
  BY TypeFacts DEF Thread
<1>2. queue \in Seq(Packet)
  BY <1>1 DEF PendingType
<1>3. [pending EXCEPT ![t][l.ip] = <<>>] \in PendingType
  BY <1>1, EntryUpdate DEF PendingType
<1>4. next \in Thread /\ HoldsPacket(next)
  <2> HIDE DEF queue
  <2>1. QED
    BY <1>1, <1>2 DEF Thread, Place, HoldsPacket
<1>5. CASE /\ thread' = [thread EXCEPT ![t] = next]
           /\ pending' = [pending EXCEPT ![t][l.ip] = <<>>]
           /\ mtx' = t
  <2> HIDE DEF next
  <2>1. /\ thread' \in [Interface -> Thread]
        /\ \A u \in Interface : HoldsPacket(thread'[u])
    BY <1>4, <1>5, ThreadUpdate
  <2>2. pending' \in PendingType /\ mtx' \in Interface
    BY <1>3, <1>5
  <2>3. QED
    BY <2>1, <2>2, TypeFacts, TypeParts DEF flushPending, TypeOK
<1>6. CASE Finish(t) /\ UNCHANGED <<pending, mtx>>
  <2>1. /\ thread' \in [Interface -> Thread]
        /\ \A u \in Interface : HoldsPacket(thread'[u])
    BY <1>6, IdleType, ThreadUpdate DEF Finish
  <2>2. QED
    BY <1>6, <2>1, TypeFacts, TypeParts DEF flushPending, TypeOK
<1>7. QED
  BY <1>5, <1>6 DEF flushPending

LEMMA SendFlushedType ==
  ASSUME TypeOK, NEW t \in Interface, sendFlushed(t)
  PROVE  TypeOK'
<1> DEFINE l == thread[t]
           next == [l EXCEPT !.frames = Tail(@)]
<1>1. /\ l \in Thread /\ l.mac \in AnyMac
      /\ l.frames \in Seq(Packet) /\ l.frames # <<>>
      /\ HoldsPacket(l)
  BY TypeFacts DEF Thread, sendFlushed
<1>2. Head(l.frames) \in Packet /\ Tail(l.frames) \in Seq(Packet)
  BY <1>1
<1>3. wire' \in WireType /\ dropped' \subseteq Packet
  BY <1>1, <1>2, SendType DEF sendFlushed
<1>4. next \in Thread /\ HoldsPacket(next)
  BY <1>1, <1>2 DEF Thread, HoldsPacket
<1>5. thread' = [thread EXCEPT ![t] = next]
  BY DEF sendFlushed
<1> HIDE DEF next
<1>6. /\ thread' \in [Interface -> Thread]
      /\ \A u \in Interface : HoldsPacket(thread'[u])
  BY <1>4, <1>5, ThreadUpdate
<1>7. QED
  BY <1>3, <1>6, TypeFacts, TypeParts DEF sendFlushed, TypeOK

LEMMA FlushDoneType ==
  ASSUME TypeOK, NEW t \in Interface, flushDone(t)
  PROVE  TypeOK'
<1>1. /\ thread' \in [Interface -> Thread]
      /\ \A u \in Interface : HoldsPacket(thread'[u])
  BY IdleType, ThreadUpdate DEF flushDone, Finish
<1>2. QED
  BY <1>1, TypeFacts, TypeParts DEF flushDone, TypeOK

LEMMA RouteStepType ==
  ASSUME TypeOK, NEW t \in Interface, NEW p \in Packet, NEW destination \in Destination,
         NEW ttl \in 1 .. 2, routePacket(t, p, destination, ttl)
  PROVE  TypeOK'
<1> DEFINE route == findRoute(routing_table, destination)
           next == [Idle(t) EXCEPT !.at = "lookup", !.packet = p,
                                   !.out = route.interfaceName,
                                   !.ip = NextHop(route, destination)]
<1>1. /\ captured' \subseteq Packet \X Destination
      /\ dropped' \subseteq Packet /\ alive' \in BOOLEAN
      /\ UNCHANGED <<arpCache, pending, mtx, wire, requests>>
  <2>1. captured' = captured \cup {<<p, destination>>}
    BY DEF routePacket
  <2>2. dropped' = dropped \/ dropped' = dropped \cup {p}
    BY DEF routePacket, Drop
  <2>3. alive' = alive \/ alive' = FALSE
    BY DEF routePacket
  <2>4. UNCHANGED <<arpCache, pending, mtx, wire, requests>>
    BY DEF routePacket
  <2>5. alive \in BOOLEAN
    BY DEF TypeOK
  <2>6. alive' \in BOOLEAN
    BY <2>3, <2>5
  <2>7. captured' \subseteq Packet \X Destination /\ dropped' \subseteq Packet
    BY <2>1, <2>2, TypeFacts
  <2>8. QED
    BY <2>4, <2>6, <2>7
<1>2. CASE UNCHANGED thread
  BY <1>1, <1>2 DEF TypeOK
<1>3. CASE /\ ~ Unroutable(destination) /\ ~ NullInterface(destination)
           /\ thread' = [thread EXCEPT ![t] = next]
  <2>1. route.interfaceName \in Interface /\ NextHop(route, destination) \in IPv4Address
    BY <1>3, RouteType
  <2> HIDE DEF route
  <2>2. next \in Thread /\ HoldsPacket(next)
    BY <2>1, IdleType DEF Thread, Idle, Place, HoldsPacket
  <2> HIDE DEF next
  <2>3. /\ thread' \in [Interface -> Thread]
        /\ \A u \in Interface : HoldsPacket(thread'[u])
    BY <1>3, <2>2, ThreadUpdate
  <2>4. QED
    BY <1>1, <2>3, TypeFacts, TypeParts DEF TypeOK
<1>4. QED
  BY <1>2, <1>3 DEF routePacket

LEMMA ArpType ==
  ASSUME TypeOK, NEW i \in Interface, NEW ip \in IPv4Address, NEW mac \in AnyMac,
         processArpPacket(i, ip, mac),
         requests' \in [Interface -> [IPv4Address -> {"none", "sent", "lost"}]]
  PROVE  TypeOK'
<1> DEFINE next == [Idle(i) EXCEPT !.at = "learn", !.ip = ip, !.mac = mac]
<1>1. next \in Thread /\ HoldsPacket(next)
  BY IdleType DEF Thread, Idle, Place, HoldsPacket
<1>2. thread' = [thread EXCEPT ![i] = next]
  BY DEF processArpPacket
<1> HIDE DEF next
<1>3. /\ thread' \in [Interface -> Thread]
      /\ \A u \in Interface : HoldsPacket(thread'[u])
  BY <1>1, <1>2, ThreadUpdate
<1>4. QED
  BY <1>3, TypeFacts, TypeParts DEF processArpPacket, TypeOK

LEMMA TickType ==
  ASSUME TypeOK, Tick
  PROVE  TypeOK'
<1>1. ASSUME NEW entry \in ArpEntry, entry.left >= 0
      PROVE  [entry EXCEPT !.left = @ - 1] \in ArpEntry
  BY <1>1, EngineAssumption DEF ArpEntry
<1>2. ASSUME NEW i \in Interface, NEW ip \in IPv4Address
      PROVE  arpCache'[i][ip] \in ArpEntry \cup {NoEntry}
  <2> DEFINE entry == arpCache[i][ip]
  <2>1. entry \in ArpEntry \cup {NoEntry}
    BY TypeFacts DEF CacheType
  <2>2. arpCache'[i][ip] = IF entry = NoEntry \/ entry.left < 0 THEN entry
                           ELSE [entry EXCEPT !.left = @ - 1]
    BY DEF Tick
  <2> HIDE DEF entry
  <2>3. entry \in ArpEntry => entry.left \in Int
    BY EngineAssumption DEF ArpEntry
  <2>4. QED
    BY <1>1, <2>1, <2>2, <2>3
<1>3. arpCache' \in CacheType
  BY <1>2 DEF Tick, CacheType
<1>4. QED
  BY <1>3 DEF Tick, TypeOK, CacheType

LEMMA TypeStep ==
  ASSUME TypeOK, [Next]_vars
  PROVE  TypeOK'
<1>1. CASE UNCHANGED vars
  BY <1>1 DEF vars, TypeOK
<1>2. ASSUME NEW i \in Interface, NEW ip \in IPv4Address, Answer(i, ip)
      PROVE  TypeOK'
  <2>1. requests' \in [Interface -> [IPv4Address -> {"none", "sent", "lost"}]]
    BY <1>2, EntryUpdate DEF Answer, TypeOK
  <2>2. QED
    BY <1>2, <2>1, ArpType DEF Answer, AnyMac
<1>3. ASSUME NEW i \in Interface, NEW ip \in IPv4Address, NEW mac \in AnyMac,
             Announce(i, ip, mac)
      PROVE  TypeOK'
  BY <1>3, ArpType DEF Announce, TypeOK
<1>4. ASSUME NEW i \in Interface, NEW ip \in IPv4Address, LoseRequest(i, ip)
      PROVE  TypeOK'
  <2>1. requests' \in [Interface -> [IPv4Address -> {"none", "sent", "lost"}]]
    BY <1>4, EntryUpdate DEF LoseRequest, TypeOK
  <2>2. QED
    BY <1>4, <2>1 DEF LoseRequest, TypeOK
<1>5. CASE Next
  BY <1>2, <1>3, <1>4, <1>5, LookupType, SendResolvedType, EnqueueType, RequestType,
     LearnType, FlushType, SendFlushedType, FlushDoneType, RouteStepType, TickType
     DEF Next, Handler
<1>6. QED
  BY <1>1, <1>5

(* Cache entries hold real hardware addresses, queues hold packets, and a   *)
(* thread that is routing holds one.                                        *)
THEOREM TypeCorrect == Spec => []TypeOK
<1>1. Init => TypeOK
  BY TypeInit
<1>2. TypeOK /\ [Next]_vars => TypeOK'
  BY TypeStep
<1>3. QED
  BY <1>1, <1>2, PTL DEF Spec
-----------------------------------------------------------------------------
(* What a step can change, piece of state by piece of state.               *)

\* A thread that is in a handler is moved by that handler only.
LEMMA ThreadChange ==
  ASSUME TypeOK, [Next]_vars, NEW u \in Interface
  PROVE  thread'[u] = thread[u] \/ Handler(u) \/ thread[u].at = "idle"
<1>0. thread \in [Interface -> Thread]
  BY TypeFacts
<1>1. ASSUME NEW t \in Interface, Handler(t), t # u
      PROVE  thread'[u] = thread[u]
  BY <1>0, <1>1 DEF Handler, lookupArp, sendResolved, enqueuePending, sendArpRequest,
     learnArp, flushPending, sendFlushed, flushDone, Goto, Finish
<1>2. ASSUME NEW t \in Interface, NEW p \in Packet, NEW destination \in Destination,
             NEW ttl \in 1 .. 2, routePacket(t, p, destination, ttl)
      PROVE  thread'[u] = thread[u] \/ thread[u].at = "idle"
  BY <1>0, <1>2 DEF routePacket, At
<1>3. ASSUME NEW i \in Interface, NEW ip, NEW mac, processArpPacket(i, ip, mac)
      PROVE  thread'[u] = thread[u] \/ thread[u].at = "idle"
  BY <1>0, <1>3 DEF processArpPacket, At
<1>4. ASSUME Tick \/ UNCHANGED vars
             \/ \E i \in Interface, ip \in IPv4Address : LoseRequest(i, ip)
      PROVE  thread'[u] = thread[u]
  BY <1>4 DEF Tick, LoseRequest, vars
<1>5. QED
  BY <1>1, <1>2, <1>3, <1>4 DEF Next, Answer, Announce

\* A queue grows below its limit, is emptied by the thread of its interface for
\* the address that thread has learnt, or stays.
LEMMA QueueChange ==
  ASSUME TypeOK, [Next]_vars, NEW i \in Interface, NEW ip \in IPv4Address
  PROVE  \/ pending'[i][ip] = pending[i][ip]
         \/ /\ pending'[i][ip] = <<>>
            /\ flushPending(i) /\ thread[i].ip = ip
         \/ \E t \in Interface :
              /\ enqueuePending(t) /\ thread[t].out = i /\ thread[t].ip = ip
              /\ Len(pending[i][ip]) < PendingLimit
              /\ pending'[i][ip] = Append(pending[i][ip], thread[t].packet)
<1>0. /\ pending \in PendingType
      /\ \A t \in Interface : thread[t].out \in Interface /\ thread[t].ip \in IPv4Address
  BY TypeFacts DEF Thread
<1>1. CASE UNCHANGED pending
  BY <1>1
<1>2. ASSUME NEW t \in Interface, enqueuePending(t)
      PROVE  \/ pending'[i][ip] = pending[i][ip]
             \/ /\ thread[t].out = i /\ thread[t].ip = ip
                /\ Len(pending[i][ip]) < PendingLimit
                /\ pending'[i][ip] = Append(pending[i][ip], thread[t].packet)
  <2> DEFINE out == thread[t].out
             hop == thread[t].ip
             grown == Append(pending[out][hop], thread[t].packet)
  <2>1. out \in Interface /\ hop \in IPv4Address
    BY <1>0
  <2>2. \/ /\ Len(pending[out][hop]) < PendingLimit
           /\ pending' = [pending EXCEPT ![out][hop] = grown]
        \/ UNCHANGED pending
    BY <1>2 DEF enqueuePending
  <2>3. pending \in [Interface -> [IPv4Address -> Seq(Packet)]]
    BY <1>0 DEF PendingType
  <2>4. CASE out = i /\ hop = ip
    BY <2>1, <2>2, <2>3, <2>4
  <2>5. CASE ~ (out = i /\ hop = ip)
    <3> HIDE DEF grown, out, hop
    <3>1. QED
      BY <2>1, <2>2, <2>3, <2>5
  <2>6. QED
    BY <2>4, <2>5
<1>3. ASSUME NEW t \in Interface, flushPending(t)
      PROVE  \/ pending'[i][ip] = pending[i][ip]
             \/ pending'[i][ip] = <<>> /\ t = i /\ thread[i].ip = ip
  <2> DEFINE hop == thread[t].ip
  <2>1. UNCHANGED pending \/ pending' = [pending EXCEPT ![t][hop] = <<>>]
    BY <1>3 DEF flushPending
  <2>2. hop \in IPv4Address /\ pending \in [Interface -> [IPv4Address -> Seq(Packet)]]
    BY <1>0 DEF PendingType
  <2>3. CASE t = i /\ hop = ip
    BY <2>1, <2>2, <2>3
  <2>4. CASE ~ (t = i /\ hop = ip)
    <3> HIDE DEF hop
    <3>1. QED
      BY <2>1, <2>2, <2>4
  <2>5. QED
    BY <2>3, <2>4
<1>4. QED
  BY <1>1, <1>2, <1>3 DEF Next, Handler, vars, lookupArp, sendResolved, sendArpRequest,
     learnArp, sendFlushed, flushDone, routePacket, Answer, Announce, processArpPacket,
     LoseRequest, Tick

\* A cache entry is learnt by the thread of its interface, erased, or aged.
LEMMA CacheChange ==
  ASSUME TypeOK, [Next]_vars, NEW i \in Interface, NEW ip \in IPv4Address
  PROVE  \/ arpCache'[i][ip] = NoEntry
         \/ arpCache'[i][ip] # NoEntry /\ arpCache[i][ip] # NoEntry
            /\ arpCache'[i][ip].mac = arpCache[i][ip].mac
         \/ /\ learnArp(i) /\ thread[i].ip = ip
            /\ arpCache'[i][ip].mac = thread[i].mac
<1>0. /\ arpCache \in CacheType
      /\ \A t \in Interface : thread[t].out \in Interface /\ thread[t].ip \in IPv4Address
  BY TypeFacts DEF Thread
<1>1. CASE UNCHANGED arpCache
  BY <1>1
<1>2. ASSUME NEW t \in Interface, lookupArp(t)
      PROVE  arpCache'[i][ip] = NoEntry \/ arpCache'[i][ip] = arpCache[i][ip]
  BY <1>0, <1>2 DEF lookupArp, CacheType
<1>3. ASSUME NEW t \in Interface, learnArp(t)
      PROVE  \/ arpCache'[i][ip] = arpCache[i][ip]
             \/ /\ t = i /\ thread[i].ip = ip
                /\ arpCache'[i][ip].mac = thread[i].mac
  BY <1>0, <1>3 DEF learnArp, CacheType
<1>4. ASSUME Tick, arpCache[i][ip] # NoEntry
      PROVE  arpCache'[i][ip] # NoEntry /\ arpCache'[i][ip].mac = arpCache[i][ip].mac
  <2> DEFINE entry == arpCache[i][ip]
  <2>1. entry \in ArpEntry
    BY <1>0, <1>4 DEF CacheType
  <2>2. arpCache'[i][ip] = IF entry = NoEntry \/ entry.left < 0 THEN entry
                           ELSE [entry EXCEPT !.left = @ - 1]
    BY <1>4 DEF Tick
  <2>3. arpCache'[i][ip] \in ArpEntry \cup {NoEntry}
    BY <1>4, TickType, TypeFacts DEF TypeOK
  <2> HIDE DEF entry
  <2>4. entry.left \in Int
    BY <2>1, EngineAssumption DEF ArpEntry
  <2>5. entry.left >= 0 => [entry EXCEPT !.left = @ - 1] \in ArpEntry
    BY <2>1, EngineAssumption DEF ArpEntry
  <2>6. arpCache'[i][ip] # NoEntry
    BY <2>1, <2>2, <2>4, <2>5, NoEntryAssumption
  <2>7. arpCache'[i][ip].mac = entry.mac
    BY <2>1, <2>2 DEF ArpEntry
  <2>8. QED
    BY <2>6, <2>7 DEF entry
<1>5. ASSUME Tick, arpCache[i][ip] = NoEntry
      PROVE  arpCache'[i][ip] = NoEntry
  BY <1>5 DEF Tick
<1>6. QED
  <2>1. UNCHANGED arpCache \/ Tick \/ \E t \in Interface : lookupArp(t) \/ learnArp(t)
    BY DEF Next, Handler, vars, sendResolved, enqueuePending, sendArpRequest,
       flushPending, sendFlushed, flushDone, routePacket, Answer, Announce,
       processArpPacket, LoseRequest
  <2>2. QED
    BY <1>1, <1>2, <1>3, <1>4, <1>5, <2>1
-----------------------------------------------------------------------------
(* No queue grows past the limit, whatever threads fill it together.       *)
THEOREM LimitHolds == Spec => []QueueBounded
<1>1. Init => QueueBounded
  BY EngineAssumption DEF Init, QueueBounded
<1>2. ASSUME TypeOK, QueueBounded, [Next]_vars
      PROVE  QueueBounded'
  <2>1. SUFFICES ASSUME NEW i \in Interface, NEW ip \in IPv4Address
                 PROVE  Len(pending'[i][ip]) <= PendingLimit
    BY DEF QueueBounded
  <2>2. pending[i][ip] \in Seq(Packet) /\ Len(pending[i][ip]) <= PendingLimit
    BY <1>2, TypeFacts DEF PendingType, QueueBounded
  <2>3. ASSUME NEW p, Len(pending[i][ip]) < PendingLimit
        PROVE  Len(Append(pending[i][ip], p)) <= PendingLimit
    BY <2>2, <2>3, EngineAssumption
  <2>4. Len(<<>>) <= PendingLimit
    BY EngineAssumption
  <2>5. QED
    BY <1>2, <2>2, <2>3, <2>4, QueueChange
<1>3. QED
  BY <1>1, <1>2, TypeCorrect, PTL DEF Spec
-----------------------------------------------------------------------------
(* A request that is out stays out or is answered.                         *)
LEMMA RequestChange ==
  ASSUME TypeOK, [Next]_vars, NEW i \in Interface, NEW ip \in IPv4Address,
         requests[i][ip] \in {"sent", "lost"}
  PROVE  requests'[i][ip] \in {"sent", "lost"} \/ Answer(i, ip)
<1>0. /\ requests \in [Interface -> [IPv4Address -> {"none", "sent", "lost"}]]
      /\ \A t \in Interface : thread[t].out \in Interface /\ thread[t].ip \in IPv4Address
  BY TypeFacts DEF TypeOK, Thread
<1>1. CASE UNCHANGED requests
  BY <1>1
<1>2. ASSUME NEW t \in Interface, sendArpRequest(t)
      PROVE  requests'[i][ip] \in {"sent", "lost"}
  BY <1>0, <1>2 DEF sendArpRequest
<1>3. ASSUME NEW j \in Interface, NEW hop \in IPv4Address, Answer(j, hop),
             ~ (j = i /\ hop = ip)
      PROVE  requests'[i][ip] = requests[i][ip]
  BY <1>0, <1>3 DEF Answer
<1>4. ASSUME NEW j \in Interface, NEW hop \in IPv4Address, LoseRequest(j, hop)
      PROVE  requests'[i][ip] \in {"sent", "lost"}
  BY <1>0, <1>4 DEF LoseRequest
<1>5. QED
  BY <1>1, <1>2, <1>3, <1>4 DEF Next, Handler, vars, lookupArp, sendResolved,
     enqueuePending, learnArp, flushPending, sendFlushed, flushDone, routePacket,
     Announce, Tick

\* Which handler a thread can be in, by its place.
LEMMA HandlerAt ==
  ASSUME NEW t \in Interface, Handler(t)
  PROVE  /\ thread[t].at = "request" => sendArpRequest(t)
         /\ thread[t].at = "learn" => learnArp(t)
         /\ thread[t].at = "flush" => flushPending(t)
         /\ thread[t].at = "flushing" => sendFlushed(t) \/ flushDone(t)
BY DEF Handler, lookupArp, sendResolved, enqueuePending, sendArpRequest, learnArp,
   flushPending, sendFlushed, flushDone, At

(* No queue is left without a request or a flush that will empty it.       *)
THEOREM NothingStranded == Spec => []NoQueueStranded
<1>1. Init => NoQueueStranded
  BY DEF Init, NoQueueStranded
<1>2. ASSUME TypeOK, NoQueueStranded, [Next]_vars
      PROVE  NoQueueStranded'
  <2>1. SUFFICES ASSUME NEW i \in Interface, NEW ip \in IPv4Address,
                        pending'[i][ip] # <<>>, ipOf[i] # Zero
                 PROVE  FlushIsDue(i, ip)'
    BY DEF NoQueueStranded
  <2>0. /\ thread \in [Interface -> Thread]
        /\ requests \in [Interface -> [IPv4Address -> {"none", "sent", "lost"}]]
    BY <1>2, TypeFacts DEF TypeOK
  <2>2. ASSUME NEW t \in Interface, enqueuePending(t),
               thread[t].out = i, thread[t].ip = ip
        PROVE  FlushIsDue(i, ip)'
    BY <2>0, <2>2 DEF enqueuePending, FlushIsDue, Thread
  <2>3. CASE requests[i][ip] \in {"sent", "lost"}
    <3>1. ASSUME Answer(i, ip)
          PROVE  thread'[i].at = "learn" /\ thread'[i].ip = ip
      BY <2>0, <3>1 DEF Answer, processArpPacket, Idle
    <3>2. QED
      BY <1>2, <2>3, <3>1, RequestChange DEF FlushIsDue
  <2>4. ASSUME NEW t \in Interface,
               thread[t].at = "request", thread[t].out = i, thread[t].ip = ip
        PROVE  FlushIsDue(i, ip)'
    <3>1. CASE thread'[t] = thread[t]
      BY <2>4, <3>1 DEF FlushIsDue
    <3>2. CASE Handler(t)
      <4>1. requests'[i][ip] = "sent"
        <5>1. sendArpRequest(t)
          BY <2>4, <3>2, HandlerAt
        <5>2. requests' = [requests EXCEPT ![i][ip] = "sent"]
          BY <2>1, <2>4, <5>1 DEF sendArpRequest
        <5>3. QED
          BY <2>0, <5>2
      <4>2. QED
        BY <4>1 DEF FlushIsDue
    <3>3. QED
      BY <1>2, <2>4, <3>1, <3>2, ThreadChange
  <2>5. CASE thread[i].at \in {"learn", "flush"} /\ thread[i].ip = ip
    <3>1. CASE thread'[i] = thread[i]
      BY <2>5, <3>1 DEF FlushIsDue
    <3>2. CASE Handler(i) /\ thread[i].at = "learn"
      <4>1. thread'[i].at = "flush" /\ thread'[i].ip = ip
        <5>1. thread' = [thread EXCEPT ![i].at = "flush"]
          BY <3>2, HandlerAt DEF learnArp, Goto
        <5>2. thread[i] \in Thread
          BY <2>0
        <5>3. QED
          BY <2>0, <2>5, <5>1, <5>2 DEF Thread
      <4>2. QED
        BY <4>1 DEF FlushIsDue
    <3>3. CASE Handler(i) /\ thread[i].at = "flush"
      <4>1. pending'[i][ip] = <<>>
        <5>1. flushPending(i) /\ pending \in PendingType
          BY <1>2, <3>3, HandlerAt, TypeFacts
        <5>2. QED
          BY <2>5, <5>1 DEF flushPending, PendingType
      <4>2. QED
        BY <2>1, <4>1
    <3>4. QED
      BY <1>2, <2>5, <3>1, <3>2, <3>3, ThreadChange
  <2>6. QED
    BY <1>2, <2>1, <2>2, <2>3, <2>4, <2>5, QueueChange DEF NoQueueStranded, FlushIsDue
<1>3. QED
  BY <1>1, <1>2, TypeCorrect, PTL DEF Spec
-----------------------------------------------------------------------------
\* A thread that flushes has learnt the address just before or was flushing it.
LEMMA FlushComesFrom ==
  ASSUME TypeOK, [Next]_vars, NEW t \in Interface,
         thread'[t].at \in {"flush", "flushing"}, ~ learnArp(t)
  PROVE  /\ thread[t].at \in {"flush", "flushing"}
         /\ thread'[t].ip = thread[t].ip /\ thread'[t].mac = thread[t].mac
<1>0. thread \in [Interface -> Thread]
  BY TypeFacts
<1>1. CASE thread'[t] = thread[t]
  BY <1>1
<1>2. CASE Handler(t)
  <2>1. thread[t] \in Thread
    BY <1>0
  <2>2. CASE Finish(t)
    <3>1. thread'[t].at = "idle"
      BY <1>0, <2>2 DEF Finish, Idle
    <3>2. QED
      BY <3>1
  <2>3. CASE lookupArp(t)
    <3>1. thread'[t].at \in {"send", "enqueue"}
      BY <1>0, <2>1, <2>3 DEF lookupArp, Goto, Thread
    <3>2. QED
      BY <3>1
  <2>4. CASE enqueuePending(t)
    <3>1. thread'[t].at = "request"
      BY <1>0, <2>1, <2>4 DEF enqueuePending, Thread
    <3>2. QED
      BY <3>1
  <2>5. CASE flushPending(t) /\ ~ Finish(t)
    <3>1. thread[t].at = "flush"
      BY <2>5 DEF flushPending, At
    <3>2. thread'[t].ip = thread[t].ip /\ thread'[t].mac = thread[t].mac
      BY <1>0, <2>1, <2>5 DEF flushPending, Thread
    <3>3. QED
      BY <3>1, <3>2
  <2>6. CASE sendFlushed(t)
    <3>1. thread[t].at = "flushing"
      BY <2>6 DEF sendFlushed, At
    <3>2. thread'[t].ip = thread[t].ip /\ thread'[t].mac = thread[t].mac
      BY <1>0, <2>1, <2>6 DEF sendFlushed, Thread
    <3>3. QED
      BY <3>1, <3>2
  <2>7. QED
    BY <1>2, <2>2, <2>3, <2>4, <2>5, <2>6
       DEF Handler, sendResolved, sendArpRequest, flushDone
<1>3. ASSUME NEW p \in Packet, NEW destination \in Destination, NEW ttl \in 1 .. 2,
             NEW u \in Interface, routePacket(u, p, destination, ttl)
      PROVE  thread'[t] = thread[t] \/ thread'[t].at = "lookup"
  BY <1>0, <1>3 DEF routePacket, Idle
<1>4. ASSUME NEW u \in Interface, NEW ip, NEW mac, processArpPacket(u, ip, mac)
      PROVE  thread'[t] = thread[t] \/ thread'[t].at = "learn"
  BY <1>0, <1>4 DEF processArpPacket, Idle
<1>5. ASSUME NEW u \in Interface, Handler(u), u # t
      PROVE  thread'[t] = thread[t]
  BY <1>0, <1>5 DEF Handler, lookupArp, sendResolved, enqueuePending, sendArpRequest,
     learnArp, flushPending, sendFlushed, flushDone, Goto, Finish
<1>6. CASE UNCHANGED thread
  BY <1>6
<1>7. QED
  BY <1>1, <1>2, <1>3, <1>4, <1>5, <1>6 DEF Next, Answer, Announce, Tick, LoseRequest, vars

\* While a queue is flushed, the cache agrees with the MAC it is sent to, or has
\* no entry: only t learns on t's interface, and t is flushing.
FlushAgreesWithCache ==
  \A t \in Interface :
    LET ip == thread[t].ip
        mac == thread[t].mac
    IN  /\ thread[t].at \in {"flush", "flushing"}
        /\ ip # Zero /\ mac # ZeroMac
        => arpCache[t][ip] = NoEntry \/ arpCache[t][ip].mac = mac

LEMMA FlushAgrees == Spec => []FlushAgreesWithCache
<1>1. Init => FlushAgreesWithCache
  BY DEF Init, FlushAgreesWithCache, Idle
<1>2. ASSUME TypeOK, FlushAgreesWithCache, [Next]_vars
      PROVE  FlushAgreesWithCache'
  <2>1. SUFFICES ASSUME NEW t \in Interface, NEW ip, NEW mac,
                        ip = thread'[t].ip, mac = thread'[t].mac,
                        thread'[t].at \in {"flush", "flushing"},
                        ip # Zero, mac # ZeroMac
                 PROVE  arpCache'[t][ip] = NoEntry \/ arpCache'[t][ip].mac = mac
    BY DEF FlushAgreesWithCache
  <2>0. thread \in [Interface -> Thread] /\ arpCache \in CacheType
    BY <1>2, TypeFacts
  <2>2. CASE learnArp(t)
    <3>1. thread[t].ip = ip /\ thread[t].mac = mac /\ ip \in IPv4Address
      BY <2>0, <2>1, <2>2 DEF learnArp, Goto, Thread
    <3>2. QED
      BY <2>0, <2>1, <2>2, <3>1 DEF learnArp, CacheType
  <2>3. CASE ~ learnArp(t)
    <3>1. thread[t].at \in {"flush", "flushing"}
      BY <1>2, <2>0, <2>1, <2>3, FlushComesFrom
    <3>2. thread[t].ip = ip /\ thread[t].mac = mac /\ ip \in IPv4Address
      BY <1>2, <2>0, <2>1, <2>3, FlushComesFrom DEF Thread
    <3>3. arpCache[t][ip] = NoEntry \/ arpCache[t][ip].mac = mac
      BY <1>2, <2>1, <3>1, <3>2 DEF FlushAgreesWithCache
    <3>4. QED
      BY <1>2, <2>3, <3>2, <3>3, CacheChange
  <2>4. QED
    BY <2>2, <2>3
<1>3. QED
  BY <1>1, <1>2, TypeCorrect, PTL DEF Spec
\* A thread gets from "lookup" to "send" by its own lookup, of a valid entry.
LEMMA FoundInCache ==
  ASSUME TypeOK, [Next]_vars, NEW u \in Interface,
         thread[u].at = "lookup", thread'[u].at = "send"
  PROVE  LET entry == arpCache[thread[u].out][thread[u].ip]
         IN  /\ entry # NoEntry
             /\ thread'[u].mac = entry.mac
             /\ thread'[u].out = thread[u].out /\ thread'[u].ip = thread[u].ip
<1>0. thread \in [Interface -> Thread]
  BY TypeFacts
<1>1. CASE lookupArp(u)
  BY <1>0, <1>1 DEF lookupArp, Goto, Thread
<1>2. CASE ~ lookupArp(u)
  <2>1. ASSUME NEW t \in Interface, Handler(t)
        PROVE  thread'[u].at # "send"
    <3>1. CASE t = u
      BY <1>0, <1>2, <2>1, <3>1 DEF Handler, lookupArp, sendResolved, enqueuePending,
         sendArpRequest, learnArp, flushPending, sendFlushed, flushDone, At
    <3>2. CASE t # u
      BY <1>0, <2>1, <3>2 DEF Handler, lookupArp, sendResolved, enqueuePending,
         sendArpRequest, learnArp, flushPending, sendFlushed, flushDone, Goto, Finish
    <3>3. QED
      BY <3>1, <3>2
  <2>2. ASSUME NEW t \in Interface, NEW p \in Packet, NEW destination \in Destination,
               NEW ttl \in 1 .. 2, routePacket(t, p, destination, ttl)
        PROVE  thread'[u].at # "send"
    <3>1. t # u
      BY <2>2 DEF routePacket, At
    <3>2. thread'[u] = thread[u]
      BY <1>0, <2>2, <3>1 DEF routePacket
    <3>3. QED
      BY <3>2
  <2>3. ASSUME NEW i \in Interface, NEW ip, NEW mac, processArpPacket(i, ip, mac)
        PROVE  thread'[u] = thread[u]
    <3>1. i # u
      BY <2>3 DEF processArpPacket, At
    <3>2. QED
      BY <1>0, <2>3, <3>1 DEF processArpPacket
  <2>4. ASSUME NEW i \in Interface, NEW ip, Answer(i, ip) \/ LoseRequest(i, ip)
        PROVE  thread'[u] = thread[u]
    BY <2>3, <2>4 DEF Answer, LoseRequest
  <2>5. ASSUME NEW i \in Interface, NEW ip, NEW mac, Announce(i, ip, mac)
        PROVE  thread'[u] = thread[u]
    BY <2>3, <2>5 DEF Announce
  <2>6. Tick \/ UNCHANGED vars => thread' = thread
    BY DEF Tick, vars
  <2>7. QED
    BY <2>1, <2>2, <2>4, <2>5, <2>6 DEF Next
<1>3. QED
  BY <1>1, <1>2

(* From the learning of an address until its queue is flushed, a lookup of   *)
(* that next hop gets the MAC learnt, or none.                               *)
THEOREM LookupsAgree == Spec => LookupsFollowFlush
<1>1. ASSUME TypeOK, FlushAgreesWithCache, [Next]_vars,
             NEW t \in Interface, NEW u \in Interface,
             thread[t].at \in {"flush", "flushing"},
             thread[t].ip # Zero, thread[t].mac # ZeroMac,
             thread[u].at = "lookup", thread'[u].at = "send",
             thread'[u].out = t, thread'[u].ip = thread[t].ip
      PROVE  thread'[u].mac = thread[t].mac
  BY <1>1, FoundInCache DEF FlushAgreesWithCache
<1>2. TypeOK /\ FlushAgreesWithCache /\ [Next]_vars =>
        [\A t, u \in Interface :
           LET flush == thread[t]
               found == thread'[u]
           IN  /\ flush.at \in {"flush", "flushing"}
               /\ flush.ip # Zero /\ flush.mac # ZeroMac
               /\ thread[u].at = "lookup" /\ found.at = "send"
               /\ found.out = t /\ found.ip = flush.ip
               => found.mac = flush.mac]_vars
  BY <1>1
<1>3. QED
  BY <1>2, TypeCorrect, FlushAgrees, PTL DEF Spec, LookupsFollowFlush
-----------------------------------------------------------------------------
(* Deliveries.  Packets are bound to the interface and next hop of their   *)
(* route from the capture on; MACs are only those claimed for them.        *)

\* p has been captured, and its route leaves by i with next hop ip.
RoutedVia(p, i, ip) ==
  /\ IsCaptured(p)
  /\ \A c \in captured :
       c[1] = p => LET route == findRoute(routing_table, c[2])
                   IN  route.interfaceName = i /\ NextHop(route, c[2]) = ip

AllRoutedVia(queue, i, ip) == \A k \in DOMAIN queue : RoutedVia(queue[k], i, ip)

CacheClaimed ==
  \A i \in Interface, ip \in IPv4Address :
    arpCache[i][ip] # NoEntry => <<i, ip, arpCache[i][ip].mac>> \in Claim

QueuesRouted ==
  \A i \in Interface, ip \in IPv4Address : AllRoutedVia(pending[i][ip], i, ip)

LocalsRouted(t) ==
  LET l == thread[t]
  IN  /\ l.at \in {"lookup", "send", "enqueue"} => RoutedVia(l.packet, l.out, l.ip)
      /\ l.at = "send" => <<l.out, l.ip, l.mac>> \in Claim
      /\ l.at \in {"learn", "flush", "flushing"} => <<t, l.ip, l.mac>> \in Claim
      /\ l.at = "flushing" => AllRoutedVia(l.frames, t, l.ip)

HandsRouted == \A t \in Interface : LocalsRouted(t)

SentRight(i, frame) ==
  \E ip \in IPv4Address :
    RoutedVia(frame.packet, i, ip) /\ <<i, ip, frame.mac>> \in Claim

WireRouted == \A i \in Interface : \A k \in DOMAIN wire[i] : SentRight(i, wire[i][k])

Delivery == CacheClaimed /\ QueuesRouted /\ HandsRouted /\ WireRouted

\* No later capture touches a packet that has been captured.
LEMMA RoutedStays ==
  ASSUME [Next]_vars, NEW p, NEW i, NEW ip, RoutedVia(p, i, ip)
  PROVE  RoutedVia(p, i, ip)'
<1>1. CASE UNCHANGED captured
  BY <1>1 DEF RoutedVia, IsCaptured
<1>2. ASSUME NEW t \in Interface, NEW q \in Packet, NEW destination \in Destination,
             NEW ttl \in 1 .. 2, routePacket(t, q, destination, ttl)
      PROVE  RoutedVia(p, i, ip)'
  <2>1. p # q /\ captured' = captured \cup {<<q, destination>>}
    BY <1>2 DEF routePacket, RoutedVia
  <2>2. QED
    BY <2>1 DEF RoutedVia, IsCaptured
<1>3. QED
  BY <1>1, <1>2 DEF Next, Handler, vars, lookupArp, sendResolved, enqueuePending,
     sendArpRequest, learnArp, flushPending, sendFlushed, flushDone, Answer, Announce,
     processArpPacket, LoseRequest, Tick

\* Where a thread's new locals come from.
LEMMA ThreadOrigin ==
  ASSUME TypeOK, [Next]_vars, NEW u \in Interface
  PROVE  \/ thread'[u] = thread[u]
         \/ Handler(u)
         \/ \E p \in Packet, destination \in Destination, ttl \in 1 .. 2 :
              routePacket(u, p, destination, ttl)
         \/ \E ip \in IPv4Address, mac \in AnyMac :
              <<u, ip, mac>> \in Claim /\ processArpPacket(u, ip, mac)
<1>0. thread \in [Interface -> Thread]
  BY TypeFacts
<1>1. ASSUME NEW t \in Interface, Handler(t), t # u
      PROVE  thread'[u] = thread[u]
  BY <1>0, <1>1 DEF Handler, lookupArp, sendResolved, enqueuePending, sendArpRequest,
     learnArp, flushPending, sendFlushed, flushDone, Goto, Finish
<1>2. ASSUME NEW t \in Interface, NEW p \in Packet, NEW destination \in Destination,
             NEW ttl \in 1 .. 2, routePacket(t, p, destination, ttl), t # u
      PROVE  thread'[u] = thread[u]
  BY <1>0, <1>2 DEF routePacket
<1>3. ASSUME NEW t \in Interface, NEW ip, NEW mac, processArpPacket(t, ip, mac), t # u
      PROVE  thread'[u] = thread[u]
  BY <1>0, <1>3 DEF processArpPacket
<1>4. ASSUME NEW i \in Interface, NEW ip \in IPv4Address, Answer(i, ip)
      PROVE  \E mac \in AnyMac : <<i, ip, mac>> \in Claim /\ processArpPacket(i, ip, mac)
  BY <1>4 DEF Answer, AnyMac
<1>5. QED
  BY <1>1, <1>2, <1>3, <1>4 DEF Next, Announce, Tick, LoseRequest, vars

\* A link gains the frame of the thread that sends, at its end.
LEMMA WireChange ==
  ASSUME TypeOK, [Next]_vars, NEW i \in Interface
  PROVE  \/ wire'[i] = wire[i]
         \/ \E t \in Interface :
              /\ sendResolved(t) /\ thread[t].out = i
              /\ wire'[i] = Append(wire[i], [packet |-> thread[t].packet,
                                             mac |-> thread[t].mac])
         \/ /\ sendFlushed(i)
            /\ wire'[i] = Append(wire[i], [packet |-> Head(thread[i].frames),
                                           mac |-> thread[i].mac])
<1>0. wire \in [Interface -> Seq(Frame)] /\ \A t \in Interface : thread[t].out \in Interface
  BY TypeFacts DEF WireType, Thread
<1>1. ASSUME NEW j \in Interface, NEW p, NEW mac, sendPacket(j, p, mac)
      PROVE  \/ wire'[i] = wire[i]
             \/ j = i /\ wire'[i] = Append(wire[i], [packet |-> p, mac |-> mac])
  BY <1>0, <1>1 DEF sendPacket
<1>2. CASE UNCHANGED wire
  BY <1>2
<1>3. ASSUME NEW t \in Interface, sendResolved(t)
      PROVE  \/ wire'[i] = wire[i]
             \/ /\ thread[t].out = i
                /\ wire'[i] = Append(wire[i], [packet |-> thread[t].packet,
                                               mac |-> thread[t].mac])
  BY <1>0, <1>1, <1>3 DEF sendResolved
<1>4. ASSUME NEW t \in Interface, sendFlushed(t)
      PROVE  \/ wire'[i] = wire[i]
             \/ /\ t = i
                /\ wire'[i] = Append(wire[i], [packet |-> Head(thread[i].frames),
                                               mac |-> thread[i].mac])
  BY <1>1, <1>4 DEF sendFlushed
<1>5. QED
  BY <1>2, <1>3, <1>4 DEF Next, Handler, vars, lookupArp, enqueuePending,
     sendArpRequest, learnArp, flushPending, flushDone, routePacket, Answer, Announce,
     processArpPacket, LoseRequest, Tick

LEMMA CacheStep ==
  ASSUME TypeOK, Delivery, [Next]_vars
  PROVE  CacheClaimed'
<1>1. SUFFICES ASSUME NEW i \in Interface, NEW ip \in IPv4Address,
                      arpCache'[i][ip] # NoEntry
               PROVE  <<i, ip, arpCache'[i][ip].mac>> \in Claim
  BY DEF CacheClaimed
<1>2. CASE arpCache[i][ip] # NoEntry /\ arpCache'[i][ip].mac = arpCache[i][ip].mac
  BY <1>2 DEF Delivery, CacheClaimed
<1>3. CASE learnArp(i) /\ thread[i].ip = ip /\ arpCache'[i][ip].mac = thread[i].mac
  BY <1>3 DEF Delivery, HandsRouted, LocalsRouted, learnArp, At
<1>4. CASE arpCache'[i][ip] = arpCache[i][ip]
  BY <1>1, <1>4 DEF Delivery, CacheClaimed
<1>5. QED
  BY <1>1, <1>2, <1>3, <1>4, CacheChange

\* What an element of a sequence that has grown by v at its end is.
LEMMA AppendElement ==
  ASSUME NEW S, NEW queue \in Seq(S), NEW v, NEW k \in DOMAIN Append(queue, v)
  PROVE  \/ Append(queue, v)[k] = v
         \/ k \in DOMAIN queue /\ Append(queue, v)[k] = queue[k]
OBVIOUS

LEMMA QueuesStep ==
  ASSUME TypeOK, Delivery, [Next]_vars
  PROVE  QueuesRouted'
<1>1. SUFFICES ASSUME NEW i \in Interface, NEW ip \in IPv4Address, NEW k, NEW p,
                      k \in DOMAIN pending'[i][ip], p = pending'[i][ip][k]
               PROVE  RoutedVia(p, i, ip)'
  BY DEF QueuesRouted, AllRoutedVia
<1>2. pending[i][ip] \in Seq(Packet)
  BY TypeFacts DEF PendingType
<1>3. ASSUME k \in DOMAIN pending[i][ip], p = pending[i][ip][k]
      PROVE  RoutedVia(p, i, ip)'
  BY <1>3, RoutedStays DEF Delivery, QueuesRouted, AllRoutedVia
<1>4. ASSUME NEW t \in Interface, enqueuePending(t), thread[t].out = i, thread[t].ip = ip,
             p = thread[t].packet
      PROVE  RoutedVia(p, i, ip)'
  BY <1>4, RoutedStays DEF Delivery, HandsRouted, LocalsRouted, enqueuePending, At
<1>5. ASSUME NEW t \in Interface, enqueuePending(t), thread[t].out = i, thread[t].ip = ip,
             pending'[i][ip] = Append(pending[i][ip], thread[t].packet)
      PROVE  RoutedVia(p, i, ip)'
  BY <1>1, <1>2, <1>3, <1>4, <1>5, AppendElement
<1>6. CASE pending'[i][ip] = <<>>
  BY <1>1, <1>6
<1>7. QED
  BY <1>1, <1>3, <1>5, <1>6, QueueChange

LEMMA WireStep ==
  ASSUME TypeOK, Delivery, [Next]_vars
  PROVE  WireRouted'
<1>1. SUFFICES ASSUME NEW i \in Interface, NEW k, NEW frame,
                      k \in DOMAIN wire'[i], frame = wire'[i][k]
               PROVE  SentRight(i, frame)'
  BY DEF WireRouted
<1>2. wire[i] \in Seq(Frame) /\ \A t \in Interface : thread[t] \in Thread
  BY TypeFacts DEF WireType
<1>3. ASSUME NEW p, NEW ip \in IPv4Address, NEW mac, RoutedVia(p, i, ip),
             <<i, ip, mac>> \in Claim, frame = [packet |-> p, mac |-> mac]
      PROVE  SentRight(i, frame)'
  BY <1>3, RoutedStays DEF SentRight
<1>4. CASE k \in DOMAIN wire[i] /\ frame = wire[i][k]
  <2>0. frame \in Frame
    BY <1>2, <1>4
  <2>1. frame = [packet |-> frame.packet, mac |-> frame.mac]
    BY <2>0 DEF Frame
  <2>2. SentRight(i, frame)
    BY <1>4 DEF Delivery, WireRouted
  <2>3. QED
    BY <1>3, <2>1, <2>2 DEF SentRight
<1>5. ASSUME NEW t \in Interface, sendResolved(t), thread[t].out = i,
             frame = [packet |-> thread[t].packet, mac |-> thread[t].mac]
      PROVE  SentRight(i, frame)'
  <2>1. /\ RoutedVia(thread[t].packet, i, thread[t].ip)
        /\ <<i, thread[t].ip, thread[t].mac>> \in Claim
    BY <1>5 DEF Delivery, HandsRouted, LocalsRouted, sendResolved, At
  <2>2. thread[t].ip \in IPv4Address
    BY <1>2 DEF Thread
  <2>3. QED
    BY <1>3, <1>5, <2>1, <2>2
<1>6. ASSUME sendFlushed(i),
             frame = [packet |-> Head(thread[i].frames), mac |-> thread[i].mac]
      PROVE  SentRight(i, frame)'
  <2>1. thread[i].frames \in Seq(Packet) /\ thread[i].frames # <<>>
    BY <1>2, <1>6 DEF Thread, sendFlushed
  <2>2. /\ AllRoutedVia(thread[i].frames, i, thread[i].ip)
        /\ <<i, thread[i].ip, thread[i].mac>> \in Claim
    BY <1>6 DEF Delivery, HandsRouted, LocalsRouted, sendFlushed, At
  <2>3. RoutedVia(Head(thread[i].frames), i, thread[i].ip)
    BY <2>1, <2>2 DEF AllRoutedVia
  <2>4. thread[i].ip \in IPv4Address
    BY <1>2 DEF Thread
  <2>5. QED
    BY <1>3, <1>6, <2>2, <2>3, <2>4
<1>7. ASSUME NEW new, wire'[i] = Append(wire[i], new)
      PROVE  \/ frame = new
             \/ k \in DOMAIN wire[i] /\ frame = wire[i][k]
  BY <1>1, <1>2, <1>7, AppendElement
<1>8. QED
  BY <1>1, <1>4, <1>5, <1>6, <1>7, WireChange

LEMMA HandsStep ==
  ASSUME TypeOK, Delivery, [Next]_vars
  PROVE  HandsRouted'
<1>1. SUFFICES ASSUME NEW t \in Interface, NEW l, NEW m, l = thread[t], m = thread'[t]
               PROVE  LocalsRouted(t)'
  BY DEF HandsRouted
<1>2. /\ l \in Thread /\ thread \in [Interface -> Thread]
      /\ LocalsRouted(t)
  BY <1>1, TypeFacts DEF Delivery, HandsRouted
\* The invariant of the new locals, in terms of constants.
<1>3. SUFFICES
        /\ m.at \in {"lookup", "send", "enqueue"} => RoutedVia(m.packet, m.out, m.ip)'
        /\ m.at = "send" => <<m.out, m.ip, m.mac>> \in Claim
        /\ m.at \in {"learn", "flush", "flushing"} => <<t, m.ip, m.mac>> \in Claim
        /\ m.at = "flushing" =>
             \A k \in DOMAIN m.frames : RoutedVia(m.frames[k], t, m.ip)'
  BY <1>1 DEF LocalsRouted, AllRoutedVia
<1>4. ASSUME l.at \in {"lookup", "send", "enqueue"}
      PROVE  RoutedVia(l.packet, l.out, l.ip)'
  BY <1>1, <1>2, <1>4, RoutedStays DEF LocalsRouted
<1>5. ASSUME l.at = "flushing", NEW k \in DOMAIN l.frames
      PROVE  RoutedVia(l.frames[k], t, l.ip)'
  BY <1>1, <1>2, <1>5, RoutedStays DEF LocalsRouted, AllRoutedVia
<1>6. CASE m = l
  BY <1>1, <1>2, <1>4, <1>5, <1>6 DEF LocalsRouted
<1>7. CASE m = Idle(t)
  BY <1>7 DEF Idle
<1>8. CASE lookupArp(t)
  <2> DEFINE entry == arpCache[l.out][l.ip]
  <2>1. l.at = "lookup" /\ l.out \in Interface /\ l.ip \in IPv4Address
    BY <1>1, <1>2, <1>8 DEF lookupArp, At, Thread
  <2>2. entry # NoEntry => <<l.out, l.ip, entry.mac>> \in Claim
    BY <2>1 DEF Delivery, CacheClaimed
  <2>3. \/ m = [l EXCEPT !.at = "enqueue"]
        \/ entry # NoEntry /\ m = [l EXCEPT !.at = "send", !.mac = entry.mac]
    BY <1>1, <1>2, <1>8 DEF lookupArp, Goto
  <2> HIDE DEF entry
  <2>4. QED
    BY <1>2, <1>4, <2>1, <2>2, <2>3 DEF Thread
<1>9. CASE enqueuePending(t)
  <2>1. m.at = "request"
    BY <1>1, <1>2, <1>9 DEF enqueuePending, Thread
  <2>2. QED
    BY <2>1
<1>10. CASE learnArp(t)
  <2>1. m = [l EXCEPT !.at = "flush"] /\ l.at = "learn"
    BY <1>1, <1>2, <1>10 DEF learnArp, Goto, At
  <2>2. QED
    BY <1>1, <1>2, <2>1 DEF LocalsRouted, Thread
<1>11. CASE flushPending(t)
  <2>1. /\ l.at = "flush" /\ <<t, l.ip, l.mac>> \in Claim
        /\ l.ip \in IPv4Address
    BY <1>1, <1>2, <1>11 DEF flushPending, LocalsRouted, At, Thread
  <2>2. CASE m = [l EXCEPT !.at = "flushing", !.frames = pending[t][l.ip]]
    <3>1. AllRoutedVia(pending[t][l.ip], t, l.ip)
      BY <2>1 DEF Delivery, QueuesRouted
    <3>2. m.at = "flushing" /\ m.frames = pending[t][l.ip] /\ m.ip = l.ip /\ m.mac = l.mac
      BY <1>2, <2>2 DEF Thread
    <3>3. ASSUME NEW k \in DOMAIN m.frames
          PROVE  RoutedVia(m.frames[k], t, m.ip)
      BY <3>1, <3>2, <3>3 DEF AllRoutedVia
    <3>4. ASSUME NEW k \in DOMAIN m.frames
          PROVE  RoutedVia(m.frames[k], t, m.ip)'
      BY <3>3, <3>4, RoutedStays
    <3>5. QED
      BY <2>1, <3>2, <3>4
  <2>3. m = Idle(t) \/ m = [l EXCEPT !.at = "flushing", !.frames = pending[t][l.ip]]
    BY <1>1, <1>2, <1>11 DEF flushPending, Finish
  <2>4. QED
    BY <1>7, <2>2, <2>3
<1>12. CASE sendFlushed(t)
  <2>1. /\ l.at = "flushing" /\ l.frames # <<>> /\ l.frames \in Seq(Packet)
        /\ m = [l EXCEPT !.frames = Tail(@)] /\ <<t, l.ip, l.mac>> \in Claim
    BY <1>1, <1>2, <1>12 DEF sendFlushed, LocalsRouted, At, Thread
  <2>2. m.at = "flushing" /\ m.frames = Tail(l.frames) /\ m.ip = l.ip /\ m.mac = l.mac
    BY <1>2, <2>1 DEF Thread
  <2>3. ASSUME NEW k \in DOMAIN m.frames
        PROVE  k + 1 \in DOMAIN l.frames /\ m.frames[k] = l.frames[k + 1]
    BY <2>1, <2>2, <2>3
  <2>4. QED
    BY <1>5, <2>1, <2>2, <2>3
<1>13. CASE sendResolved(t) \/ sendArpRequest(t) \/ flushDone(t)
  BY <1>1, <1>2, <1>7, <1>13 DEF sendResolved, sendArpRequest, flushDone, Finish
<1>14. ASSUME NEW p \in Packet, NEW destination \in Destination, NEW ttl \in 1 .. 2,
              routePacket(t, p, destination, ttl)
       PROVE  \/ m = l
              \/ /\ m.at = "lookup" /\ m.packet = p
                 /\ RoutedVia(p, m.out, m.ip)'
  <2> DEFINE route == findRoute(routing_table, destination)
             hop == NextHop(route, destination)
  <2>1. CASE UNCHANGED thread
    BY <1>1, <2>1
  <2>2. CASE thread' = [thread EXCEPT
               ![t] = [Idle(t) EXCEPT !.at = "lookup", !.packet = p,
                                      !.out = route.interfaceName, !.ip = hop]]
    <3> HIDE DEF hop
    <3>1. /\ m.at = "lookup" /\ m.packet = p
          /\ m.out = route.interfaceName /\ m.ip = hop
      BY <1>1, <1>2, <2>2 DEF Idle
    <3>2. captured' = captured \cup {<<p, destination>>} /\ ~ IsCaptured(p)
      BY <1>14 DEF routePacket
    <3>3. \A c \in captured' : c[1] = p => c[2] = destination
      <4>1. captured \subseteq Packet \X Destination
        BY TypeFacts
      <4>2. QED
        BY <3>2, <4>1 DEF IsCaptured
    <3>4. IsCaptured(p)'
      BY <3>2 DEF IsCaptured
    <3>5. RoutedVia(p, route.interfaceName, hop)'
      BY <3>3, <3>4 DEF RoutedVia, hop
    <3>6. QED
      BY <3>1, <3>5
  <2>3. QED
    BY <1>14, <2>1, <2>2 DEF routePacket
<1>15. ASSUME NEW ip \in IPv4Address, NEW mac \in AnyMac, <<t, ip, mac>> \in Claim,
              processArpPacket(t, ip, mac)
       PROVE  m.at = "learn" /\ m.ip = ip /\ m.mac = mac
  BY <1>1, <1>2, <1>15 DEF processArpPacket, Idle
<1>16. CASE Handler(t)
  BY <1>8, <1>9, <1>10, <1>11, <1>12, <1>13, <1>16 DEF Handler
<1>17. QED
  BY <1>1, <1>6, <1>14, <1>15, <1>16, ThreadOrigin

(* A frame leaves by the interface of its packet's route, to a MAC that was *)
(* claimed on that link for its next hop.                                   *)
THEOREM DeliveredRight == Spec => []NoMisdelivery
<1>1. Init => Delivery
  BY DEF Init, Delivery, CacheClaimed, QueuesRouted, AllRoutedVia, HandsRouted,
     LocalsRouted, Idle, WireRouted
<1>2. TypeOK /\ Delivery /\ [Next]_vars => Delivery'
  BY CacheStep, QueuesStep, HandsStep, WireStep DEF Delivery
<1>3. Delivery => NoMisdelivery
  BY DEF Delivery, WireRouted, SentRight, RoutedVia, NoMisdelivery
<1>4. QED
  BY <1>1, <1>2, <1>3, TypeCorrect, PTL DEF Spec
=============================================================================
