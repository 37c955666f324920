------------------------- MODULE ExactlyOnceProofs -------------------------
(***************************************************************************)
(* ExactlyOnce of RoutingEngine, for any number of threads, packets, next  *)
(* hops and any queue limit: each step moves a packet from one place to    *)
(* another, and a thread that is between handlers holds nothing.           *)
(***************************************************************************)
EXTENDS RoutingEngineProofs, FiniteSetTheorems

\* The sets in terms of their members.
LEMMA HandMember ==
  \A p, w : w \in HandsOf(p) <=>
    \E t \in Interface : thread[t].packet = p /\ w = <<"hand", t, 0>>
BY DEF HandsOf

LEMMA QueueMember ==
  \A p, w : w \in QueuesOf(p) <=>
    \E q \in Interface \X IPv4Address : \E k \in DOMAIN pending[q[1]][q[2]] :
      pending[q[1]][q[2]][k] = p /\ w = <<"queue", q, k>>
BY DEF QueuesOf

LEMMA FlushMember ==
  \A p, w : w \in FlushesOf(p) <=>
    \E t \in Interface : \E k \in DOMAIN thread[t].frames :
      thread[t].frames[k] = p /\ w = <<"flush", t, k>>
BY DEF FlushesOf

LEMMA WireMember ==
  \A p, w : w \in WiresOf(p) <=>
    \E i \in Interface : \E k \in DOMAIN wire[i] :
      wire[i][k].packet = p /\ w = <<"wire", i, k>>
BY DEF WiresOf
LEMMA DropMember ==
  \A p, w : w \in DropsOf(p) <=> p \in dropped /\ w = <<"dropped", p, 0>>
BY DEF DropsOf
-----------------------------------------------------------------------------
(* The inductive invariant.                                                *)

\* Without Cardinality, which the provers do not compute with.
InOnePlace(p) ==
  IF IsCaptured(p) THEN \E w : Whereabouts(p) = {w} ELSE Whereabouts(p) = {}

\* A handler that is done with its packet, or its frames, has let them go.
EmptyHanded(l) ==
  /\ l.at \notin {"lookup", "send", "enqueue"} => l.packet = NoPacket
  /\ l.at # "flushing" => l.frames = <<>>

OnceInv ==
  /\ \A t \in Interface : EmptyHanded(thread[t])
  /\ \A p \in Packet : InOnePlace(p)

LEMMA OnceEnough ==
  ASSUME OnceInv
  PROVE  ExactlyOnce
<1>1. Cardinality({}) = 0 /\ \A w : Cardinality({w}) = 1
  BY FS_EmptySet, FS_Singleton
<1>2. QED
  BY <1>1 DEF OnceInv, InOnePlace, ExactlyOnce

LEMMA OnceInit ==
  ASSUME Init
  PROVE  OnceInv
<1>1. \A t \in Interface : /\ thread[t] = Idle(t)
                           /\ thread[t].packet = NoPacket /\ thread[t].frames = <<>>
  BY DEF Init, Idle
<1>2. \A t \in Interface : EmptyHanded(thread[t])
  BY <1>1 DEF EmptyHanded
<1>3. ASSUME NEW p \in Packet
      PROVE  InOnePlace(p)
  <2>1. HandsOf(p) = {}
    BY <1>1, HandMember, EngineAssumption
  <2>2. QueuesOf(p) = {}
    BY QueueMember DEF Init
  <2>3. FlushesOf(p) = {}
    BY <1>1, FlushMember
  <2>4. WiresOf(p) = {}
    BY WireMember DEF Init
  <2>5. DropsOf(p) = {}
    BY DEF Init, DropsOf
  <2>6. ~ IsCaptured(p)
    BY DEF Init, IsCaptured
  <2>7. QED
    BY <2>1, <2>2, <2>3, <2>4, <2>5, <2>6 DEF Whereabouts, InOnePlace
<1>4. QED
  BY <1>2, <1>3 DEF OnceInv
-----------------------------------------------------------------------------
(* How the places change.                                                  *)

LEMMA HandsKept ==
  ASSUME \A u \in Interface : thread'[u].packet = thread[u].packet, NEW p
  PROVE  HandsOf(p)' = HandsOf(p)
BY DEF HandsOf

LEMMA FramesKept ==
  ASSUME \A u \in Interface : thread'[u].frames = thread[u].frames, NEW p
  PROVE  FlushesOf(p)' = FlushesOf(p)
BY DEF FlushesOf

LEMMA SharedKept ==
  ASSUME NEW p
  PROVE  /\ UNCHANGED pending => QueuesOf(p)' = QueuesOf(p)
         /\ UNCHANGED wire => WiresOf(p)' = WiresOf(p)
         /\ UNCHANGED dropped => DropsOf(p)' = DropsOf(p)
BY DEF QueuesOf, WiresOf, DropsOf

\* A step that neither moves a packet nor takes one.
LEMMA NothingMoves ==
  ASSUME UNCHANGED <<captured, pending, wire, dropped>>,
         \A u \in Interface : /\ thread'[u].packet = thread[u].packet
                              /\ thread'[u].frames = thread[u].frames,
         NEW p, InOnePlace(p)
  PROVE  InOnePlace(p)'
BY HandsKept, FramesKept, SharedKept DEF InOnePlace, IsCaptured, Whereabouts

\* A packet that moves is in one place again.
LEMMA OneMove ==
  ASSUME UNCHANGED captured, NEW p, InOnePlace(p), NEW from, NEW to,
         from \in Whereabouts(p), Whereabouts(p)' = (Whereabouts(p) \ {from}) \cup {to}
  PROVE  InOnePlace(p)'
BY DEF InOnePlace, IsCaptured

LEMMA NoMove ==
  ASSUME UNCHANGED captured, NEW p, InOnePlace(p), Whereabouts(p)' = Whereabouts(p)
  PROVE  InOnePlace(p)'
BY DEF InOnePlace, IsCaptured

\* A handler lets its packet go.
LEMMA HandReleased ==
  ASSUME thread \in [Interface -> Thread], NEW t \in Interface, NEW l,
         l.packet = NoPacket, thread' = [thread EXCEPT ![t] = l], NEW p \in Packet
  PROVE  HandsOf(p)' = HandsOf(p) \ {<<"hand", t, 0>>}
<1>1. thread'[t].packet # p /\ \A u \in Interface \ {t} : thread'[u] = thread[u]
  BY EngineAssumption
<1>2. ASSUME NEW u \in Interface
      PROVE  thread'[u].packet = p <=> thread[u].packet = p /\ u # t
  BY <1>1
<1>3. QED
  BY <1>2 DEF HandsOf

LEMMA HandPlace ==
  ASSUME NEW t \in Interface, NEW p
  PROVE  LET hand == <<"hand", t, 0>>
         IN  /\ hand \in HandsOf(p) <=> thread[t].packet = p
             /\ hand \notin QueuesOf(p) \cup FlushesOf(p) \cup WiresOf(p) \cup DropsOf(p)
<1>1. <<"hand", t, 0>> \in HandsOf(p) <=> thread[t].packet = p
  BY HandMember
<1>2. <<"hand", t, 0>> \notin QueuesOf(p) \cup FlushesOf(p)
  BY QueueMember, FlushMember
<1>3. <<"hand", t, 0>> \notin WiresOf(p) \cup DropsOf(p)
  BY WireMember, DropMember
<1>4. QED
  BY <1>1, <1>2, <1>3

\* A send puts its packet on the link or gives it up, and no other packet.
LEMMA SentPlace ==
  ASSUME wire \in WireType, NEW i \in Interface, NEW x \in Packet, NEW mac \in AnyMac,
         sendPacket(i, x, mac), NEW p
  PROVE  /\ p # x => WiresOf(p)' = WiresOf(p) /\ DropsOf(p)' = DropsOf(p)
         /\ p = x =>
              \E to : WiresOf(p)' \cup DropsOf(p)' = WiresOf(p) \cup DropsOf(p) \cup {to}
<1>1. CASE Drop(x) /\ UNCHANGED wire
  <2>1. DropsOf(x)' = DropsOf(x) \cup {<<"dropped", x, 0>>}
    BY <1>1 DEF DropsOf, Drop
  <2>2. p # x => DropsOf(p)' = DropsOf(p)
    BY <1>1 DEF DropsOf, Drop
  <2>3. QED
    BY <1>1, <2>1, <2>2, SharedKept
<1>2. CASE /\ wire' = [wire EXCEPT ![i] = Append(@, [packet |-> x, mac |-> mac])]
           /\ UNCHANGED dropped
  <2> DEFINE n == Len(wire[i]) + 1
             frame == [packet |-> x, mac |-> mac]
  <2>1. /\ wire[i] \in Seq(Frame) /\ n \in Nat
        /\ DOMAIN wire[i] = 1 .. Len(wire[i])
    BY DEF WireType
  <2>2. /\ DOMAIN wire'[i] = DOMAIN wire[i] \cup {n}
        /\ n \notin DOMAIN wire[i]
        /\ wire'[i][n] = frame
        /\ \A k \in DOMAIN wire[i] : wire'[i][k] = wire[i][k]
        /\ \A j \in Interface \ {i} : wire'[j] = wire[j]
    <3>1. /\ wire'[i] = Append(wire[i], frame)
          /\ \A j \in Interface \ {i} : wire'[j] = wire[j]
      BY <1>2 DEF WireType
    <3> HIDE DEF frame
    <3>2. QED
      BY <2>1, <3>1
  <2> HIDE DEF n
  <2>3. frame.packet = x
    OBVIOUS
  <2> HIDE DEF frame
  <2>4. p # x => WiresOf(p)' = WiresOf(p)
    BY <2>2, <2>3 DEF WiresOf
  <2>5. WiresOf(x)' = WiresOf(x) \cup {<<"wire", i, n>>}
    BY <2>2, <2>3 DEF WiresOf
  <2>6. QED
    BY <1>2, <2>4, <2>5, SharedKept
<1>3. QED
  BY <1>1, <1>2 DEF sendPacket

LEMMA SendResolvedOnce ==
  ASSUME TypeOK, NEW t \in Interface, sendResolved(t), OnceInv, NEW p \in Packet
  PROVE  InOnePlace(p)'
<1> DEFINE x == thread[t].packet
           hand == <<"hand", t, 0>>
<1>1. /\ x \in Packet /\ thread[t].mac \in AnyMac /\ thread[t].out \in Interface
      /\ wire \in WireType /\ thread \in [Interface -> Thread]
  BY TypeFacts DEF sendResolved, At, Thread, HoldsPacket
<1>2. /\ p # x => WiresOf(p)' = WiresOf(p) /\ DropsOf(p)' = DropsOf(p)
      /\ p = x =>
           \E to : WiresOf(p)' \cup DropsOf(p)' = WiresOf(p) \cup DropsOf(p) \cup {to}
  BY <1>1, SentPlace DEF sendResolved
<1>3. /\ thread' = [thread EXCEPT ![t] = Idle(t)]
      /\ Idle(t).packet = NoPacket /\ Idle(t).frames = <<>>
  BY DEF sendResolved, Finish, Idle
<1>4. HandsOf(p)' = HandsOf(p) \ {hand}
  BY <1>1, <1>3, HandReleased
<1>5. FlushesOf(p)' = FlushesOf(p)
  <2>1. thread[t].frames = <<>>
    BY DEF OnceInv, EmptyHanded, sendResolved, At
  <2>2. QED
    BY <1>1, <1>3, <2>1, FramesKept
<1>6. QueuesOf(p)' = QueuesOf(p) /\ UNCHANGED captured /\ InOnePlace(p)
  BY SharedKept DEF sendResolved, OnceInv
<1>7. CASE p # x
  BY <1>2, <1>4, <1>5, <1>6, <1>7, HandPlace, NoMove DEF Whereabouts
<1>8. CASE p = x
  <2>1. PICK to : WiresOf(p)' \cup DropsOf(p)' = WiresOf(p) \cup DropsOf(p) \cup {to}
    BY <1>2, <1>8
  <2>2. hand \in Whereabouts(p)
    BY <1>8, HandPlace DEF Whereabouts
  <2>3. Whereabouts(p)' = (Whereabouts(p) \ {hand}) \cup {to}
    BY <1>4, <1>5, <1>6, <2>1, HandPlace DEF Whereabouts
  <2>4. QED
    BY <1>6, <2>2, <2>3, OneMove
<1>9. QED
  BY <1>7, <1>8

\* One queue grows by a packet.
LEMMA QueuedPlace ==
  ASSUME pending \in PendingType, NEW i \in Interface, NEW ip \in IPv4Address,
         NEW x \in Packet,
         pending' = [pending EXCEPT ![i][ip] = Append(pending[i][ip], x)], NEW p
  PROVE  /\ p # x => QueuesOf(p)' = QueuesOf(p)
         /\ p = x => \E to : QueuesOf(p)' = QueuesOf(p) \cup {to}
<1> DEFINE old == pending[i][ip]
           n == Len(old) + 1
           here == <<i, ip>>
<1>1. old \in Seq(Packet) /\ DOMAIN old = 1 .. Len(old) /\ Len(old) \in Nat
  BY DEF PendingType
<1>2. /\ pending'[i][ip] = Append(old, x)
      /\ \A q \in Interface \X IPv4Address :
           q # here => pending'[q[1]][q[2]] = pending[q[1]][q[2]]
  BY DEF PendingType
<1> HIDE DEF old
<1>3. /\ DOMAIN Append(old, x) = DOMAIN old \cup {n}
      /\ n \notin DOMAIN old
      /\ Append(old, x)[n] = x
      /\ \A k \in DOMAIN old : Append(old, x)[k] = old[k]
  BY <1>1
<1> HIDE DEF n
<1>4. here \in Interface \X IPv4Address /\ here[1] = i /\ here[2] = ip
  OBVIOUS
<1> HIDE DEF here
<1>5. /\ DOMAIN pending'[here[1]][here[2]] = DOMAIN pending[here[1]][here[2]] \cup {n}
      /\ pending'[here[1]][here[2]][n] = x
      /\ \A k \in DOMAIN pending[here[1]][here[2]] :
           pending'[here[1]][here[2]][k] = pending[here[1]][here[2]][k]
      /\ n \notin DOMAIN pending[here[1]][here[2]]
  BY <1>2, <1>3, <1>4 DEF old
<1>6. p # x => QueuesOf(p)' = QueuesOf(p)
  BY <1>2, <1>4, <1>5 DEF QueuesOf
<1>7. p = x => QueuesOf(p)' = QueuesOf(p) \cup {<<"queue", here, n>>}
  <2>1. ASSUME p = x, NEW w
        PROVE  w \in QueuesOf(p)' <=> w \in QueuesOf(p) \/ w = <<"queue", here, n>>
    <3>1. w \in QueuesOf(p)' <=>
            \E q \in Interface \X IPv4Address : \E k \in DOMAIN pending'[q[1]][q[2]] :
              pending'[q[1]][q[2]][k] = p /\ w = <<"queue", q, k>>
      BY DEF QueuesOf
    <3>2. QED
      BY <1>2, <1>4, <1>5, <2>1, <3>1, QueueMember
  <2>2. QED
    BY <2>1
<1>8. QED
  BY <1>6, <1>7

LEMMA EnqueueOnce ==
  ASSUME TypeOK, NEW t \in Interface, enqueuePending(t), OnceInv, NEW p \in Packet
  PROVE  InOnePlace(p)'
<1> DEFINE l == thread[t]
           hand == <<"hand", t, 0>>
           next == [l EXCEPT !.at = "request", !.packet = NoPacket]
           queue == pending[l.out][l.ip]
<1>1. /\ l.packet \in Packet /\ l.out \in Interface /\ l.ip \in IPv4Address
      /\ pending \in PendingType /\ thread \in [Interface -> Thread]
      /\ l \in Thread
  BY TypeFacts DEF enqueuePending, At, Thread, HoldsPacket
<1>2. /\ thread' = [thread EXCEPT ![t] = next]
      /\ next.packet = NoPacket /\ next.frames = l.frames
  BY <1>1 DEF enqueuePending, Thread
<1> HIDE DEF next
<1>3. HandsOf(p)' = HandsOf(p) \ {hand}
  BY <1>1, <1>2, HandReleased
<1>4. FlushesOf(p)' = FlushesOf(p)
  BY <1>1, <1>2, FramesKept
<1>5. WiresOf(p)' = WiresOf(p) /\ UNCHANGED captured /\ InOnePlace(p)
  BY SharedKept DEF enqueuePending, OnceInv
<1>6. /\ p # l.packet => QueuesOf(p)' = QueuesOf(p) /\ DropsOf(p)' = DropsOf(p)
      /\ p = l.packet =>
           \E to : QueuesOf(p)' \cup DropsOf(p)' = QueuesOf(p) \cup DropsOf(p) \cup {to}
  <2>1. CASE /\ pending' = [pending EXCEPT ![l.out][l.ip] = Append(queue, l.packet)]
             /\ UNCHANGED dropped
    <3>1. /\ p # l.packet => QueuesOf(p)' = QueuesOf(p)
          /\ p = l.packet => \E to : QueuesOf(p)' = QueuesOf(p) \cup {to}
      <4>1. ASSUME NEW i \in Interface, NEW ip \in IPv4Address, NEW x \in Packet,
                   pending' = [pending EXCEPT ![i][ip] = Append(pending[i][ip], x)]
            PROVE  /\ p # x => QueuesOf(p)' = QueuesOf(p)
                   /\ p = x => \E to : QueuesOf(p)' = QueuesOf(p) \cup {to}
        BY <1>1, <4>1, QueuedPlace
      <4>2. QED
        BY <1>1, <2>1, <4>1
    <3>2. DropsOf(p)' = DropsOf(p)
      BY <2>1, SharedKept
    <3>3. CASE p = l.packet
      <4>1. PICK to : QueuesOf(p)' = QueuesOf(p) \cup {to}
        BY <3>1, <3>3
      <4>2. QueuesOf(p)' \cup DropsOf(p)' = QueuesOf(p) \cup DropsOf(p) \cup {to}
        BY <3>2, <4>1
      <4>3. QED
        BY <3>3, <4>2
    <3>4. QED
      BY <3>1, <3>2, <3>3
  <2>2. CASE Drop(l.packet) /\ UNCHANGED pending
    <3>1. QueuesOf(p)' = QueuesOf(p)
      BY <2>2, SharedKept
    <3>2. /\ p # l.packet => DropsOf(p)' = DropsOf(p)
          /\ p = l.packet => DropsOf(p)' = DropsOf(p) \cup {<<"dropped", p, 0>>}
      BY <2>2 DEF DropsOf, Drop
    <3>3. QED
      BY <3>1, <3>2
  <2>3. QED
    BY <2>1, <2>2 DEF enqueuePending
<1>7. CASE p # l.packet
  BY <1>3, <1>4, <1>5, <1>6, <1>7, HandPlace, NoMove DEF Whereabouts
<1>8. CASE p = l.packet
  <2>1. PICK to : QueuesOf(p)' \cup DropsOf(p)' = QueuesOf(p) \cup DropsOf(p) \cup {to}
    BY <1>6, <1>8
  <2>2. hand \in Whereabouts(p)
    BY <1>8, HandPlace DEF Whereabouts
  <2>3. Whereabouts(p)' = (Whereabouts(p) \ {hand}) \cup {to}
    BY <1>3, <1>4, <1>5, <2>1, HandPlace DEF Whereabouts
  <2>4. QED
    BY <1>5, <2>2, <2>3, OneMove
<1>9. QED
  BY <1>7, <1>8

\* A captured packet goes to one place, the others stay where they are.
LEMMA RouteOnce ==
  ASSUME TypeOK, NEW t \in Interface, NEW x \in Packet, NEW destination \in Destination,
         NEW ttl \in 1 .. 2, routePacket(t, x, destination, ttl), OnceInv,
         NEW p \in Packet
  PROVE  InOnePlace(p)'
<1>1. /\ UNCHANGED <<pending, wire>> /\ captured' = captured \cup {<<x, destination>>}
      /\ At(t, "idle") /\ ~ IsCaptured(x) /\ InOnePlace(p) /\ InOnePlace(x)
  BY DEF routePacket, OnceInv
<1>2. /\ thread \in [Interface -> Thread]
      /\ thread[t].packet = NoPacket /\ thread[t].frames = <<>>
  BY <1>1, TypeFacts DEF OnceInv, EmptyHanded, At
<1>3. /\ p # x => (IsCaptured(p)' <=> IsCaptured(p))
      /\ p = x => IsCaptured(p)' /\ Whereabouts(p) = {}
  BY <1>1 DEF IsCaptured, InOnePlace
<1>4. QueuesOf(p)' = QueuesOf(p) /\ WiresOf(p)' = WiresOf(p)
  BY <1>1, SharedKept
<1>5. CASE Drop(x) /\ UNCHANGED thread
  <2>1. HandsOf(p)' = HandsOf(p) /\ FlushesOf(p)' = FlushesOf(p)
    BY <1>5, HandsKept, FramesKept
  <2>2. /\ p # x => DropsOf(p)' = DropsOf(p)
        /\ p = x => DropsOf(p)' = DropsOf(p) \cup {<<"dropped", p, 0>>}
    BY <1>5 DEF DropsOf, Drop
  <2>3. QED
    BY <1>1, <1>3, <1>4, <2>1, <2>2 DEF Whereabouts, InOnePlace
<1>6. ASSUME NEW l, l.packet = x, l.frames = <<>>, UNCHANGED dropped,
             thread' = [thread EXCEPT ![t] = l]
      PROVE  InOnePlace(p)'
  <2>1. thread'[t] = l /\ \A u \in Interface \ {t} : thread'[u] = thread[u]
    BY <1>2, <1>6
  <2>2. FlushesOf(p)' = FlushesOf(p) /\ DropsOf(p)' = DropsOf(p)
    BY <1>2, <1>6, <2>1, FramesKept, SharedKept
  <2>3. /\ p # x => HandsOf(p)' = HandsOf(p)
        /\ p = x => HandsOf(p)' = HandsOf(p) \cup {<<"hand", t, 0>>}
    <3>1. ASSUME NEW u \in Interface
          PROVE  /\ thread'[u].packet = p <=>
                      IF u = t THEN p = x ELSE thread[u].packet = p
                 /\ thread[t].packet # p
      BY <1>2, <1>6, <2>1, EngineAssumption
    <3>2. CASE p # x
      <4>1. \A u \in Interface : thread'[u].packet = p <=> thread[u].packet = p
        BY <3>1, <3>2
      <4>2. QED
        BY <3>2, <4>1 DEF HandsOf
    <3>3. CASE p = x
      <4>1. \A u \in Interface :
              thread'[u].packet = p <=> thread[u].packet = p \/ u = t
        BY <3>1, <3>3
      <4>2. QED
        BY <3>3, <4>1 DEF HandsOf
    <3>4. QED
      BY <3>2, <3>3
  <2>4. QED
    <3>1. p # x => Whereabouts(p)' = Whereabouts(p)
      BY <1>4, <2>2, <2>3 DEF Whereabouts
    <3>2. p = x => Whereabouts(p)' = Whereabouts(p) \cup {<<"hand", t, 0>>}
      BY <1>4, <2>2, <2>3 DEF Whereabouts
    <3>3. QED
      BY <1>1, <1>3, <3>1, <3>2 DEF InOnePlace
<1>7. QED
  <2> DEFINE route == findRoute(routing_table, destination)
             l == [Idle(t) EXCEPT !.at = "lookup", !.packet = x,
                                  !.out = route.interfaceName,
                                  !.ip = NextHop(route, destination)]
  <2>1. l.packet = x /\ l.frames = <<>>
    BY DEF Idle
  <2>2. \/ Drop(x) /\ UNCHANGED thread
        \/ UNCHANGED dropped /\ thread' = [thread EXCEPT ![t] = l]
    BY DEF routePacket
  <2> HIDE DEF l
  <2>3. QED
    BY <1>5, <1>6, <2>1, <2>2

\* A queue that is moved out keeps each packet once.
LEMMA FlushOnce ==
  ASSUME TypeOK, NEW t \in Interface, flushPending(t), OnceInv, NEW p \in Packet
  PROVE  InOnePlace(p)'
<1> DEFINE l == thread[t]
           queue == pending[t][l.ip]
           next == [l EXCEPT !.at = "flushing", !.frames = queue]
<1>1. /\ thread \in [Interface -> Thread] /\ pending \in PendingType
      /\ l \in Thread /\ l.ip \in IPv4Address
      /\ UNCHANGED <<captured, dropped, wire>> /\ InOnePlace(p)
      /\ l.packet = NoPacket /\ l.frames = <<>>
  BY TypeFacts DEF flushPending, At, Thread, OnceInv, EmptyHanded
<1>2. CASE UNCHANGED pending /\ Finish(t)
  <2>1. Idle(t).packet = NoPacket /\ Idle(t).frames = <<>>
    BY DEF Idle
  <2>2. \A u \in Interface : /\ thread'[u].packet = thread[u].packet
                             /\ thread'[u].frames = thread[u].frames
    BY <1>1, <1>2, <2>1 DEF Finish
  <2>3. QED
    BY <1>1, <1>2, <2>2, NothingMoves
<1>3. CASE /\ pending' = [pending EXCEPT ![t][l.ip] = <<>>]
           /\ thread' = [thread EXCEPT ![t] = next]
  <2>1. PICK here \in Interface \X IPv4Address :
          here[1] = t /\ here[2] = l.ip /\ here = <<t, l.ip>>
    <3>1. <<t, l.ip>>[1] = t /\ <<t, l.ip>>[2] = l.ip
      OBVIOUS
    <3>2. <<t, l.ip>> \in Interface \X IPv4Address
      BY <1>1
    <3>3. QED
      BY <3>1, <3>2
  <2>2. /\ pending'[here[1]][here[2]] = <<>>
        /\ \A q \in Interface \X IPv4Address :
             q # here => pending'[q[1]][q[2]] = pending[q[1]][q[2]]
    <3>1. \A q \in Interface \X IPv4Address :
            q # here => q[1] \in Interface /\ q[2] \in IPv4Address
                        /\ (q[1] # t \/ q[2] # l.ip)
      BY <2>1
    <3>2. \A i \in Interface, ip \in IPv4Address :
            i # t \/ ip # l.ip => pending'[i][ip] = pending[i][ip]
      BY <1>1, <1>3 DEF PendingType
    <3>3. pending'[t][l.ip] = <<>>
      BY <1>1, <1>3 DEF PendingType
    <3>4. QED
      BY <2>1, <3>1, <3>2, <3>3
  <2>3. next.packet = l.packet /\ next.frames = queue
    BY <1>1 DEF Thread
  <2> HIDE DEF next
  <2>4. /\ thread'[t].packet = thread[t].packet /\ thread'[t].frames = queue
        /\ \A u \in Interface \ {t} : thread'[u] = thread[u]
    BY <1>1, <1>3, <2>3
  <2>5. HandsOf(p)' = HandsOf(p)
    BY <2>4, HandsKept
  <2>6. WiresOf(p)' = WiresOf(p) /\ DropsOf(p)' = DropsOf(p)
    BY <1>1, SharedKept
  <2> DEFINE InQueue == {<<"queue", here, k>> : k \in {n \in DOMAIN queue : queue[n] = p}}
             InHand  == {<<"flush", t, k>> : k \in {n \in DOMAIN queue : queue[n] = p}}
  <2>7. InQueue \subseteq QueuesOf(p) /\ QueuesOf(p)' = QueuesOf(p) \ InQueue
    <3>1. \A w : w \in InQueue <=> \E k \in DOMAIN pending[here[1]][here[2]] :
              pending[here[1]][here[2]][k] = p /\ w = <<"queue", here, k>>
      BY <2>1
    <3>2. \A w : w \in QueuesOf(p)' <=>
            \E q \in Interface \X IPv4Address : \E k \in DOMAIN pending'[q[1]][q[2]] :
              pending'[q[1]][q[2]][k] = p /\ w = <<"queue", q, k>>
      BY DEF QueuesOf
    <3> HIDE DEF InQueue
    <3>3. \A w : w \in QueuesOf(p)' <=> w \in QueuesOf(p) /\ w \notin InQueue
      BY <2>2, <3>1, <3>2, QueueMember
    <3>4. InQueue \subseteq QueuesOf(p)
      BY <3>1, QueueMember
    <3>5. QED
      BY <3>3, <3>4
  <2>8. FlushesOf(p)' = FlushesOf(p) \cup InHand
    BY <1>1, <2>4 DEF FlushesOf
  <2>9. CASE \E k \in DOMAIN queue : queue[k] = p
    <3>1. PICK k \in DOMAIN queue : queue[k] = p
      BY <2>9
    <3>2. <<"queue", here, k>> \in InQueue
      BY <3>1
    <3>3. Whereabouts(p) = {<<"queue", here, k>>} /\ IsCaptured(p)
      BY <1>1, <2>7, <3>2 DEF InOnePlace, Whereabouts
    <3>4. \A n \in DOMAIN queue : queue[n] = p => n = k
      <4>1. ASSUME NEW n \in DOMAIN queue, queue[n] = p
            PROVE  <<"queue", here, n>> = <<"queue", here, k>>
        <5>1. <<"queue", here, n>> \in InQueue
          BY <4>1
        <5>2. QED
          BY <2>7, <3>3, <5>1 DEF Whereabouts
      <4>2. QED
        BY <4>1
    <3>5. InHand = {<<"flush", t, k>>} /\ InQueue = {<<"queue", here, k>>}
      BY <3>1, <3>4
    <3>6. <<"queue", here, k>> \notin FlushesOf(p) \cup HandsOf(p)
      BY FlushMember, HandMember
    <3>7. <<"queue", here, k>> \notin WiresOf(p) \cup DropsOf(p)
      BY WireMember, DropMember
    <3> HIDE DEF InQueue, InHand
    <3>8. Whereabouts(p)' = (Whereabouts(p) \ {<<"queue", here, k>>}) \cup {<<"flush", t, k>>}
      BY <2>5, <2>6, <2>7, <2>8, <3>5, <3>6, <3>7 DEF Whereabouts
    <3>9. QED
      BY <1>1, <3>3, <3>8, OneMove
  <2>10. CASE ~ \E k \in DOMAIN queue : queue[k] = p
    <3>1. InQueue = {} /\ InHand = {}
      BY <2>10
    <3> HIDE DEF InQueue, InHand
    <3>2. QED
      BY <1>1, <2>5, <2>6, <2>7, <2>8, <3>1, NoMove DEF Whereabouts
  <2>11. QED
    BY <2>9, <2>10
<1>4. QED
  BY <1>2, <1>3 DEF flushPending

\* A flushed frame goes out, and the frames behind it move up.
LEMMA SendFlushedOnce ==
  ASSUME TypeOK, NEW t \in Interface, sendFlushed(t), OnceInv, NEW p \in Packet
  PROVE  InOnePlace(p)'
<1> DEFINE frames == thread[t].frames
           x == Head(frames)
           next == [thread[t] EXCEPT !.frames = Tail(frames)]
<1>1. /\ thread \in [Interface -> Thread] /\ wire \in WireType
      /\ thread[t] \in Thread /\ frames \in Seq(Packet) /\ thread[t].mac \in AnyMac
      /\ UNCHANGED <<captured, pending>> /\ InOnePlace(p)
      /\ frames # <<>>
  BY TypeFacts DEF sendFlushed, Thread, OnceInv
<1>2. x \in Packet /\ x = frames[1] /\ 1 \in DOMAIN frames
  BY <1>1
<1>3. /\ p # x => WiresOf(p)' = WiresOf(p) /\ DropsOf(p)' = DropsOf(p)
      /\ p = x =>
           \E to : WiresOf(p)' \cup DropsOf(p)' = WiresOf(p) \cup DropsOf(p) \cup {to}
  BY <1>1, <1>2, SentPlace DEF sendFlushed
<1>4. /\ thread' = [thread EXCEPT ![t] = next]
      /\ next.packet = thread[t].packet /\ next.frames = Tail(frames)
  BY <1>1 DEF sendFlushed, Thread
<1> HIDE DEF next
<1>5. /\ thread'[t].packet = thread[t].packet /\ thread'[t].frames = Tail(frames)
      /\ \A u \in Interface \ {t} : thread'[u] = thread[u]
  BY <1>1, <1>4
<1>6. /\ \A k \in DOMAIN Tail(frames) :
           k + 1 \in DOMAIN frames /\ Tail(frames)[k] = frames[k + 1] /\ k \in Nat \ {0}
      /\ \A k \in DOMAIN frames : k = 1 \/ (k - 1 \in DOMAIN Tail(frames)
                                          /\ Tail(frames)[k - 1] = frames[k] /\ k \in Nat)
  BY <1>1
<1>7. HandsOf(p)' = HandsOf(p) /\ QueuesOf(p)' = QueuesOf(p)
  BY <1>1, <1>5, HandsKept, SharedKept
\* The places among the frames: those of other threads stay.
<1>8. \A w : w \in FlushesOf(p)' <=>
        \/ \E k \in DOMAIN Tail(frames) : Tail(frames)[k] = p /\ w = <<"flush", t, k>>
        \/ \E u \in Interface \ {t} : \E k \in DOMAIN thread[u].frames :
              thread[u].frames[k] = p /\ w = <<"flush", u, k>>
  <2>1. \A w : w \in FlushesOf(p)' <=>
          \E u \in Interface : \E k \in DOMAIN thread'[u].frames :
            thread'[u].frames[k] = p /\ w = <<"flush", u, k>>
    BY DEF FlushesOf
  <2>2. /\ thread'[t].frames = Tail(frames)
        /\ \A u \in Interface \ {t} : thread'[u].frames = thread[u].frames
    BY <1>5
  <2> HIDE DEF frames
  <2>3. ASSUME NEW w, NEW u \in Interface
        PROVE  (\E k \in DOMAIN thread'[u].frames :
                  thread'[u].frames[k] = p /\ w = <<"flush", u, k>>)
               <=> IF u = t
                   THEN \E k \in DOMAIN Tail(frames) :
                          Tail(frames)[k] = p /\ w = <<"flush", t, k>>
                   ELSE \E k \in DOMAIN thread[u].frames :
                          thread[u].frames[k] = p /\ w = <<"flush", u, k>>
    BY <2>2
  <2>4. QED
    BY <2>1, <2>3
<1> HIDE DEF x
<1>9. CASE \E k \in DOMAIN frames : frames[k] = p
  <2>1. PICK k \in DOMAIN frames : frames[k] = p
    BY <1>9
  <2>2. <<"flush", t, k>> \in FlushesOf(p)
    BY <2>1, FlushMember
  <2>3. Whereabouts(p) = {<<"flush", t, k>>}
    BY <1>1, <2>2 DEF InOnePlace, Whereabouts
  <2>4. FlushesOf(p) = {<<"flush", t, k>>}
    BY <2>2, <2>3 DEF Whereabouts
  <2>5. /\ \A n \in DOMAIN frames : frames[n] = p => n = k
        /\ \A u \in Interface \ {t} : \A n \in DOMAIN thread[u].frames :
             thread[u].frames[n] # p
    <3>1. ASSUME NEW u \in Interface, NEW n \in DOMAIN thread[u].frames,
                 thread[u].frames[n] = p
          PROVE  u = t /\ n = k
      <4>1. <<"flush", u, n>> \in FlushesOf(p)
        BY <3>1, FlushMember
      <4>2. <<"flush", u, n>> = <<"flush", t, k>>
        BY <2>4, <4>1
      <4>3. QED
        BY <4>2
    <3>2. QED
      BY <3>1
  <2>6. HandsOf(p) = {} /\ QueuesOf(p) = {} /\ WiresOf(p) \cup DropsOf(p) = {}
    <3>1. <<"flush", t, k>> \notin HandsOf(p) \cup QueuesOf(p)
      BY HandMember, QueueMember
    <3>2. <<"flush", t, k>> \notin WiresOf(p) \cup DropsOf(p)
      BY WireMember, DropMember
    <3>3. QED
      BY <2>3, <3>1, <3>2 DEF Whereabouts
  <2>7. CASE k = 1
    <3>1. p = x
      BY <1>2, <2>1, <2>7
    <3>2. FlushesOf(p)' = {}
      BY <1>6, <1>8, <2>5, <2>7
    <3>3. PICK to : WiresOf(p)' \cup DropsOf(p)' = WiresOf(p) \cup DropsOf(p) \cup {to}
      BY <1>3, <3>1
    <3>4. Whereabouts(p)' = (Whereabouts(p) \ {<<"flush", t, k>>}) \cup {to}
      BY <1>7, <2>3, <2>6, <3>2, <3>3 DEF Whereabouts
    <3>5. QED
      BY <1>1, <2>3, <3>4, OneMove
  <2>8. CASE k # 1
    <3>1. p # x
      BY <1>2, <2>5, <2>8
    <3>2. FlushesOf(p)' = {<<"flush", t, k - 1>>}
      <4>1. \A w : w \in FlushesOf(p)' <=> w = <<"flush", t, k - 1>>
        <5>1. \A n \in DOMAIN Tail(frames) : Tail(frames)[n] = p <=> n = k - 1
          BY <1>6, <2>1, <2>5, <2>8
        <5>2. k - 1 \in DOMAIN Tail(frames)
          BY <1>6, <2>8
        <5>3. QED
          BY <1>8, <2>5, <5>1, <5>2
      <4>2. QED
        BY <4>1
    <3>3. Whereabouts(p)' = (Whereabouts(p) \ {<<"flush", t, k>>}) \cup {<<"flush", t, k - 1>>}
      BY <1>3, <1>7, <2>3, <2>6, <3>1, <3>2 DEF Whereabouts
    <3>4. QED
      BY <1>1, <2>3, <3>3, OneMove
  <2>9. QED
    BY <2>7, <2>8
<1>10. CASE \A k \in DOMAIN frames : frames[k] # p
  <2>1. p # x
    BY <1>2, <1>10
  <2>2. \A w : w \in FlushesOf(p)' <=> w \in FlushesOf(p)
    BY <1>6, <1>8, <1>10, FlushMember
  <2>3. QED
    BY <1>1, <1>3, <1>7, <2>1, <2>2, NoMove DEF Whereabouts
<1>11. QED
  BY <1>9, <1>10
-----------------------------------------------------------------------------
(* The steps that move no packet, and the step as a whole.                 *)

\* A handler leaves its thread with no more than its place may hold.
LEMMA HandlerLocals ==
  ASSUME TypeOK, OnceInv, NEW t \in Interface, Handler(t), NEW u \in Interface
  PROVE  EmptyHanded(thread'[u])
<1> DEFINE l == thread[t]
<1>1. /\ thread \in [Interface -> Thread] /\ l \in Thread
      /\ EmptyHanded(l) /\ EmptyHanded(thread[u])
  BY TypeFacts DEF OnceInv
<1>2. Idle(t).at = "idle" /\ Idle(t).packet = NoPacket /\ Idle(t).frames = <<>>
  BY DEF Idle
<1>3. CASE Finish(t)
  BY <1>1, <1>2, <1>3 DEF Finish, EmptyHanded
<1>4. CASE lookupArp(t)
  <2>1. PICK k : /\ thread' = [thread EXCEPT ![t] = k]
                 /\ k.at \in {"send", "enqueue"} /\ k.frames = l.frames
    BY <1>1, <1>4 DEF lookupArp, Goto, Thread
  <2>2. l.frames = <<>>
    BY <1>1, <1>4 DEF lookupArp, At, EmptyHanded
  <2>3. QED
    BY <1>1, <2>1, <2>2 DEF EmptyHanded
<1>5. CASE enqueuePending(t)
  <2> DEFINE k == [l EXCEPT !.at = "request", !.packet = NoPacket]
  <2>1. /\ thread' = [thread EXCEPT ![t] = k]
        /\ k.packet = NoPacket /\ k.frames = l.frames /\ k.at = "request"
    BY <1>1, <1>5 DEF enqueuePending, Thread
  <2> HIDE DEF k
  <2>2. l.frames = <<>>
    BY <1>1, <1>5 DEF enqueuePending, At, EmptyHanded
  <2>3. QED
    BY <1>1, <2>1, <2>2 DEF EmptyHanded
<1>6. CASE learnArp(t)
  <2> DEFINE k == [l EXCEPT !.at = "flush"]
  <2>1. /\ thread' = [thread EXCEPT ![t] = k]
        /\ k.packet = l.packet /\ k.frames = l.frames /\ k.at = "flush"
    BY <1>1, <1>6 DEF learnArp, Goto, Thread
  <2> HIDE DEF k
  <2>2. l.frames = <<>> /\ l.packet = NoPacket
    BY <1>1, <1>6 DEF learnArp, At, EmptyHanded
  <2>3. QED
    BY <1>1, <2>1, <2>2 DEF EmptyHanded
<1>7. CASE flushPending(t) /\ ~ Finish(t)
  <2>1. PICK k : /\ thread' = [thread EXCEPT ![t] = k]
                 /\ k.at = "flushing" /\ k.packet = l.packet
    BY <1>1, <1>7 DEF flushPending, Thread
  <2>2. l.packet = NoPacket
    BY <1>1, <1>7 DEF flushPending, At, EmptyHanded
  <2>3. QED
    BY <1>1, <2>1, <2>2 DEF EmptyHanded
<1>8. CASE sendFlushed(t)
  <2> DEFINE k == [l EXCEPT !.frames = Tail(l.frames)]
  <2>1. /\ thread' = [thread EXCEPT ![t] = k]
        /\ k.at = l.at /\ k.packet = l.packet
    BY <1>1, <1>8 DEF sendFlushed, Thread
  <2> HIDE DEF k
  <2>2. l.at = "flushing" /\ l.packet = NoPacket
    BY <1>1, <1>8 DEF sendFlushed, At, EmptyHanded
  <2>3. QED
    BY <1>1, <2>1, <2>2 DEF EmptyHanded
<1>9. QED
  BY <1>3, <1>4, <1>5, <1>6, <1>7, <1>8 DEF Handler, sendResolved, sendArpRequest, flushDone

\* The callback of an idle thread gives it a packet to route, or none.
LEMMA CaptureLocals ==
  ASSUME TypeOK, OnceInv, NEW t \in Interface, NEW u \in Interface,
         \/ \E p \in Packet, destination \in Destination, ttl \in 1 .. 2 :
              routePacket(t, p, destination, ttl)
         \/ \E ip \in IPv4Address, mac \in AnyMac : processArpPacket(t, ip, mac)
  PROVE  EmptyHanded(thread'[u])
<1>1. thread \in [Interface -> Thread] /\ EmptyHanded(thread[u])
  BY TypeFacts DEF OnceInv
<1>2. \/ UNCHANGED thread
      \/ \E l : /\ thread' = [thread EXCEPT ![t] = l]
                /\ l.frames = <<>>
                /\ l.at = "lookup" \/ (l.at = "learn" /\ l.packet = NoPacket)
  <2>1. ASSUME NEW p \in Packet, NEW destination \in Destination, NEW ttl \in 1 .. 2,
               routePacket(t, p, destination, ttl), ~ UNCHANGED thread
        PROVE  \E l : /\ thread' = [thread EXCEPT ![t] = l]
                     /\ l.frames = <<>> /\ l.at = "lookup"
    <3> DEFINE route == findRoute(routing_table, destination)
               l == [Idle(t) EXCEPT !.at = "lookup", !.packet = p,
                                    !.out = route.interfaceName,
                                    !.ip = NextHop(route, destination)]
    <3>1. thread' = [thread EXCEPT ![t] = l]
      BY <2>1 DEF routePacket
    <3>2. l.frames = <<>> /\ l.at = "lookup"
      BY DEF Idle
    <3> HIDE DEF l
    <3>3. QED
      BY <3>1, <3>2
  <2>2. ASSUME NEW ip \in IPv4Address, NEW mac \in AnyMac, processArpPacket(t, ip, mac)
        PROVE  \E l : /\ thread' = [thread EXCEPT ![t] = l]
                     /\ l.frames = <<>> /\ l.at = "learn" /\ l.packet = NoPacket
    <3> DEFINE l == [Idle(t) EXCEPT !.at = "learn", !.ip = ip, !.mac = mac]
    <3>1. thread' = [thread EXCEPT ![t] = l]
      BY <2>2 DEF processArpPacket
    <3>2. l.frames = <<>> /\ l.at = "learn" /\ l.packet = NoPacket
      BY DEF Idle
    <3> HIDE DEF l
    <3>3. QED
      BY <3>1, <3>2
  <2>3. QED
    BY <2>1, <2>2
<1>3. QED
  BY <1>1, <1>2 DEF EmptyHanded

\* A handler that has no packet in its hands moves none.
LEMMA QuietHandler ==
  ASSUME TypeOK, OnceInv, NEW t \in Interface, NEW p \in Packet,
         lookupArp(t) \/ sendArpRequest(t) \/ learnArp(t) \/ flushDone(t)
  PROVE  InOnePlace(p)'
<1> DEFINE l == thread[t]
<1>1. /\ thread \in [Interface -> Thread] /\ l \in Thread
      /\ EmptyHanded(l) /\ InOnePlace(p)
  BY TypeFacts DEF OnceInv
<1>2. UNCHANGED <<captured, pending, wire, dropped>>
  BY DEF lookupArp, sendArpRequest, learnArp, flushDone
<1>3. /\ thread'[t].packet = l.packet /\ thread'[t].frames = l.frames
      /\ \A u \in Interface \ {t} : thread'[u] = thread[u]
  <2>1. CASE lookupArp(t)
    <3>1. \/ thread' = [thread EXCEPT ![t].at = "enqueue"]
          \/ \E mac : thread' = [thread EXCEPT ![t].at = "send", ![t].mac = mac]
      BY <2>1 DEF lookupArp, Goto
    <3>2. QED
      BY <1>1, <3>1 DEF Thread
  <2>2. CASE learnArp(t)
    BY <1>1, <2>2 DEF learnArp, Goto, Thread
  <2>3. CASE sendArpRequest(t) \/ flushDone(t)
    <3>1. l.packet = NoPacket /\ l.frames = <<>>
      BY <1>1, <2>3 DEF EmptyHanded, sendArpRequest, flushDone, At
    <3>2. QED
      BY <1>1, <2>3, <3>1 DEF sendArpRequest, flushDone, Finish, Idle
  <2>4. QED
    BY <2>1, <2>2, <2>3
<1>4. \A u \in Interface : /\ thread'[u].packet = thread[u].packet
                           /\ thread'[u].frames = thread[u].frames
  BY <1>3
<1>5. QED
  BY <1>1, <1>2, <1>4, NothingMoves

LEMMA ArpOnce ==
  ASSUME TypeOK, OnceInv, NEW t \in Interface, NEW ip, NEW mac,
         processArpPacket(t, ip, mac), NEW p \in Packet
  PROVE  InOnePlace(p)'
<1>1. /\ thread \in [Interface -> Thread] /\ InOnePlace(p)
      /\ thread[t].packet = NoPacket /\ thread[t].frames = <<>>
  BY TypeFacts DEF OnceInv, EmptyHanded, processArpPacket, At
<1>2. \A u \in Interface : /\ thread'[u].packet = thread[u].packet
                           /\ thread'[u].frames = thread[u].frames
  BY <1>1 DEF processArpPacket, Idle
<1>3. QED
  BY <1>1, <1>2, NothingMoves DEF processArpPacket

LEMMA OnceStep ==
  ASSUME TypeOK, OnceInv, [Next]_vars
  PROVE  OnceInv'
<1>1. ASSUME NEW t \in Interface, Handler(t)
      PROVE  OnceInv'
  <2>1. ASSUME NEW p \in Packet
        PROVE  InOnePlace(p)'
    BY <1>1, QuietHandler, SendResolvedOnce, EnqueueOnce, FlushOnce, SendFlushedOnce
       DEF Handler
  <2>2. QED
    BY <1>1, <2>1, HandlerLocals DEF OnceInv
<1>2. ASSUME NEW t \in Interface, NEW x \in Packet, NEW destination \in Destination,
             NEW ttl \in 1 .. 2, routePacket(t, x, destination, ttl)
      PROVE  OnceInv'
  BY <1>2, RouteOnce, CaptureLocals DEF OnceInv
<1>3. ASSUME NEW i \in Interface, NEW ip \in IPv4Address, NEW mac \in AnyMac,
             processArpPacket(i, ip, mac)
      PROVE  OnceInv'
  BY <1>3, ArpOnce, CaptureLocals DEF OnceInv
<1>4. CASE UNCHANGED <<captured, pending, wire, dropped, thread>>
  BY <1>4, NothingMoves DEF OnceInv
<1>5. CASE UNCHANGED vars
  BY <1>4, <1>5 DEF vars
<1>6. CASE Next
  BY <1>1, <1>2, <1>3, <1>4, <1>6 DEF Next, Answer, Announce, LoseRequest, Tick, AnyMac
<1>7. QED
  BY <1>5, <1>6

(* However many threads route, learn and flush at once, every packet that   *)
(* was captured is in exactly one place, and no other packet is anywhere.   *)
THEOREM PacketsExactlyOnce == Spec => []ExactlyOnce
<1>1. Init => OnceInv
  BY OnceInit
<1>2. TypeOK /\ OnceInv /\ [Next]_vars => OnceInv'
  BY OnceStep
<1>3. OnceInv => ExactlyOnce
  BY OnceEnough
<1>4. QED
  BY <1>1, <1>2, <1>3, TypeCorrect, PTL DEF Spec
=============================================================================
