--------------------------- MODULE NatStateProofs ---------------------------
(***************************************************************************)
(* Proofs about NatState.  Type correctness holds for any threads; the     *)
(* others are for networks where one thread creates the sessions           *)
(* (SingleCreator), whatever the other threads look up meanwhile.          *)
(***************************************************************************)
EXTENDS NatState, TLAPS

Creating == {"acquire", "mark", "createOut", "createIn"}

\* What is in a thread's hands is a packet of its own interface and its key.
HandsOK ==
  \A t \in Thread :
    LET l == thread[t]
    IN  /\ l.at # "idle" =>
             /\ l.key \in getKeyFromPacket(l.packet)
             /\ threadOf[l.packet.src_ip] = t
             /\ Inbound(l.packet) \/ Outbound(l.packet)
        /\ l.at \in Creating => Outbound(l.packet)

OutboundKeys == {key \in DOMAIN table : key.dst_ip # External}

\* Entries hold marked ports; a return entry is under the port it holds; an
\* outbound entry belongs to its key's client; no two of those share a port.
TableOK ==
  /\ \A key \in DOMAIN table :
       /\ table[key].external_port \in used
       /\ key.dst_ip = External => key.dst_port = table[key].external_port
       /\ key.dst_ip # External =>
            /\ table[key].internal_ip = key.src_ip
            /\ table[key].internal_port = key.src_port
            /\ <<key.src_ip, key.dst_ip>> \in Natted
  /\ \A a, b \in OutboundKeys :
       table[a].external_port = table[b].external_port => a = b

\* The port a thread is handing out belongs to nobody else.
PortOK ==
  \A t \in Thread :
    LET l == thread[t]
    IN  /\ l.at \in {"acquire", "mark", "createOut"} => l.key \notin DOMAIN table
        /\ l.at = "mark" => l.port \notin used
        /\ l.at = "createOut" =>
             /\ l.port \in used
             /\ \A key \in DOMAIN table : table[key].external_port # l.port
        /\ l.at = "createIn" =>
             /\ l.key \in DOMAIN table
             /\ l.session = table[l.key]
             /\ l.session.external_port = l.port
             /\ \A key \in DOMAIN table \ {l.key} : table[key].external_port # l.port

\* Every outbound entry has its return entry, but for the one being created.
ReturnOK ==
  \A key \in OutboundKeys :
    \/ \E t \in Thread : thread[t].at = "createIn" /\ thread[t].key = key
    \/ LET return == returnKey(key, table[key].external_port)
       IN  return \in DOMAIN table /\ table[return] = table[key]

\* A session about to be applied is that of the packet's key, and its creation
\* is over; so it was for the outbound packets that have been routed.
SessionOK ==
  \A t \in Thread :
    thread[t].at = "apply" =>
      /\ thread[t].key \in DOMAIN table
      /\ thread[t].session = table[thread[t].key]
      /\ \A u \in Thread : thread[u].at = "createIn" => thread[u].key # thread[t].key

RoutedOK ==
  \A r \in Translated :
    Tracked(r.in) =>
      /\ r.in \in DOMAIN table
      /\ r.out = Translate(table[r.in], r.in)
      /\ \A t \in Thread : thread[t].at = "createIn" => thread[t].key # r.in

IInv == TypeOK /\ HandsOK /\ TableOK /\ PortOK /\ ReturnOK /\ SessionOK /\ RoutedOK
-----------------------------------------------------------------------------
(* Lemmas about the operators.                                             *)

\* A lookup key is a key: the three protocols and any ports.
LEMMA KeyType ==
  ASSUME NEW p \in Packet, NEW key \in getKeyFromPacket(p)
  PROVE  /\ key \in SessionFlowKey
         /\ key.src_ip = p.src_ip /\ key.dst_ip = p.dst_ip
         /\ Tracked(p) => key = p
<1>1. CASE p.protocol # "UDP"
  BY <1>1 DEF getKeyFromPacket, Packet, SessionFlowKey, Tracked
<1>2. CASE p.protocol = "UDP"
  <2>1. PICK stack \in Port \X Port :
          key = [p EXCEPT !.protocol = "PacketTrailer", !.src_port = stack[1],
                          !.dst_port = stack[2]]
    BY <1>2 DEF getKeyFromPacket
  <2>2. QED
    BY <1>2, <2>1 DEF Packet, SessionFlowKey, Tracked
<1>3. QED
  BY <1>1, <1>2

\* applyNat turns packets into packets.
LEMMA TranslateType ==
  ASSUME NEW session \in NatSession, NEW p \in Packet
  PROVE  Translate(session, p) \in Packet
<1>1. /\ External \in Address
      /\ session.internal_ip \in Address
      /\ session.internal_port \in Port
      /\ session.external_port \in Port
  BY NatAssumption DEF NatSession, Address
<1>2. CASE p.src_ip = session.internal_ip /\ p.protocol = "ICMP"
  BY <1>1, <1>2 DEF Packet, Translate
<1>3. CASE p.src_ip = session.internal_ip /\ p.protocol # "ICMP"
  BY <1>1, <1>3 DEF Packet, Translate
<1>4. CASE p.src_ip # session.internal_ip /\ p.protocol = "ICMP"
  BY <1>1, <1>4 DEF Packet, Translate
<1>5. CASE p.src_ip # session.internal_ip /\ p.protocol # "ICMP"
  BY <1>1, <1>5 DEF Packet, Translate
<1>6. QED
  BY <1>2, <1>3, <1>4, <1>5

LEMMA ReplyType ==
  ASSUME NEW p \in Packet
  PROVE  Reply(p) \in Packet
BY DEF Packet, Reply

LEMMA PoolSizeType == PoolSize \in Nat /\ PoolSize > 0
BY NatAssumption DEF PoolSize

LEMMA IdleType == Idle \in Local
BY PoolSizeType DEF Idle, Local, Place

\* The scan, and the increment of next_, stay inside the pool.
LEMMA PoolWraps ==
  ASSUME NEW n \in Nat
  PROVE  PoolStart + (n % PoolSize) \in Pool
<1>1. PoolSize \in Nat /\ PoolSize > 0
  BY PoolSizeType
<1>2. n % PoolSize \in 0 .. PoolSize - 1
  BY <1>1
<1>3. QED
  BY <1>1, <1>2, NatAssumption DEF Pool, PoolSize

LEMMA ArrivingType ==
  ASSUME TypeOK, NEW p \in Arriving
  PROVE  p \in Packet
BY ReplyType, NatAssumption DEF Arriving, TypeOK, Translation
-----------------------------------------------------------------------------
(* Type correctness, for any number of threads that create sessions.       *)

LEMMA TypeStep ==
  ASSUME TypeOK, [Next]_vars
  PROVE  TypeOK'
<1>0. thread \in [Thread -> Local]
  BY DEF TypeOK
<1>1. CASE UNCHANGED vars
  BY <1>1 DEF vars, TypeOK, HoldsItsLocals
<1>2. ASSUME NEW t \in Thread, NEW p \in Arriving, onPacketArrives(t, p)
      PROVE  TypeOK'
  <2>1. p \in Packet
    BY ArrivingType
  <2>2. CASE /\ Inbound(p) \/ Outbound(p)
             /\ \E key \in getKeyFromPacket(p) :
                  thread' = [thread EXCEPT
                    ![t] = [Idle EXCEPT !.at = "find", !.packet = p, !.key = key]]
             /\ UNCHANGED <<routed, table, used, next>>
    <3>1. PICK key \in getKeyFromPacket(p) :
            thread' = [thread EXCEPT
              ![t] = [Idle EXCEPT !.at = "find", !.packet = p, !.key = key]]
      BY <2>2
    <3>2. key \in SessionFlowKey
      BY <2>1, KeyType
    <3>3. [Idle EXCEPT !.at = "find", !.packet = p, !.key = key] \in Local
      BY <2>1, <3>2, IdleType DEF Local, Place
    <3>4. QED
      BY <1>0, <2>1, <2>2, <3>1, <3>2, <3>3 DEF TypeOK, HoldsItsLocals, Idle
  <2>3. CASE Route(p, p) /\ UNCHANGED <<thread, table, used, next>>
    BY <2>1, <2>3 DEF TypeOK, HoldsItsLocals, Route, Translation
  <2>4. QED
    BY <1>2, <2>2, <2>3 DEF onPacketArrives
<1>3. ASSUME NEW t \in Thread, findSession(t)
      PROVE  TypeOK'
  <2>1. thread' \in [Thread -> Local]
    BY <1>0, <1>3, IdleType DEF findSession, TypeOK, Local, Place
  <2>2. QED
    BY <1>0, <1>3, <2>1 DEF findSession, TypeOK, HoldsItsLocals, Idle, Local, Route,
       Translation
<1>4. ASSUME NEW t \in Thread, scanPool(t)
      PROVE  TypeOK'
  <2>1. thread[t].tried \in 0 .. PoolSize - 1 /\ next \in Pool
    BY <1>0 DEF TypeOK, Local
  <2>2. next - PoolStart + thread[t].tried \in Nat
    BY <2>1, NatAssumption, PoolSizeType DEF Pool
  <2>3. Scanned(thread[t].tried) \in Pool
    BY <2>2, PoolWraps DEF Scanned
  <2>4. thread' \in [Thread -> Local]
    BY <1>0, <1>4, <2>1, <2>3, IdleType, PoolSizeType DEF scanPool, Local, Place
  <2>5. QED
    BY <1>0, <1>4, <2>3, <2>4 DEF scanPool, TypeOK, HoldsItsLocals, Idle, Local, Route,
       Translation
<1>5. ASSUME NEW t \in Thread, markPort(t)
      PROVE  TypeOK'
  <2>1. thread[t].port \in Pool
    BY <1>5 DEF markPort, TypeOK, HoldsItsLocals
  <2>2. thread[t].port - PoolStart + 1 \in Nat
    BY <2>1, NatAssumption DEF Pool
  <2>3. next' \in Pool
    BY <1>5, <2>2, PoolWraps DEF markPort
  <2>4. QED
    BY <1>0, <1>5, <2>1, <2>3 DEF markPort, TypeOK, HoldsItsLocals, Local, Place
<1>6. ASSUME NEW t \in Thread, createOutbound(t)
      PROVE  TypeOK'
  <2>1. thread[t].key \in SessionFlowKey /\ thread[t].port \in Pool
    BY <1>6 DEF createOutbound, TypeOK, HoldsItsLocals
  <2>2. NewSession(thread[t].key, thread[t].port) \in NatSession
    BY <2>1 DEF NewSession, NatSession, SessionFlowKey
  <2>3. /\ DOMAIN table' \subseteq SessionFlowKey
        /\ \A key \in DOMAIN table' : table'[key] \in NatSession
    BY <1>6, <2>1, <2>2 DEF createOutbound, createSession, Emplace, TypeOK
  <2> DEFINE session == IF thread[t].key \in DOMAIN table THEN table[thread[t].key]
                        ELSE NewSession(thread[t].key, thread[t].port)
  <2>4. /\ session \in NatSession
        /\ thread' = [thread EXCEPT ![t].at = "createIn", ![t].session = session]
        /\ UNCHANGED <<used, next, routed>>
    BY <1>6, <2>2 DEF createOutbound, TypeOK
  <2> HIDE DEF session
  <2>5. thread' \in [Thread -> Local]
    <3> DEFINE local == [thread[t] EXCEPT !.at = "createIn", !.session = session]
    <3>1. local \in Local
      BY <1>0, <2>4 DEF Local, Place
    <3>2. thread' = [thread EXCEPT ![t] = local]
      BY <2>4
    <3> HIDE DEF local
    <3>3. QED
      BY <1>0, <3>1, <3>2
  <2>6. ASSUME NEW u \in Thread
        PROVE  HoldsItsLocals(u)'
    <3>1. CASE u = t
      <4>1. /\ thread[t].packet \in Packet /\ thread[t].key \in SessionFlowKey
            /\ thread[t] \in Local
        BY <1>0, <1>6 DEF createOutbound, TypeOK, HoldsItsLocals
      <4>2. /\ thread'[t].at = "createIn" /\ thread'[t].session = session
            /\ thread'[t].packet = thread[t].packet /\ thread'[t].key = thread[t].key
            /\ thread'[t].port = thread[t].port
        BY <1>0, <2>4 DEF Local
      <4>3. QED
        BY <2>1, <2>4, <3>1, <4>1, <4>2 DEF HoldsItsLocals
    <3>2. CASE u # t
      <4>1. thread'[u] = thread[u]
        BY <1>0, <2>4, <3>2
      <4>2. QED
        BY <4>1 DEF TypeOK, HoldsItsLocals
    <3>3. QED
      BY <3>1, <3>2
  <2>7. QED
    BY <2>3, <2>4, <2>5, <2>6 DEF TypeOK
<1>7. ASSUME NEW t \in Thread, createInbound(t)
      PROVE  TypeOK'
  <2>1. /\ thread[t].key \in SessionFlowKey
        /\ thread[t].port \in Pool
        /\ thread[t].session \in NatSession
    BY <1>7 DEF createInbound, TypeOK, HoldsItsLocals
  <2>2. NewSession(thread[t].key, thread[t].port) \in NatSession
    BY <2>1 DEF NewSession, NatSession, SessionFlowKey
  <2>3. returnKey(thread[t].key, thread[t].port) \in SessionFlowKey
    BY <2>1, NatAssumption DEF returnKey, SessionFlowKey, Address
  <2>4. /\ DOMAIN table' \subseteq SessionFlowKey
        /\ \A key \in DOMAIN table' : table'[key] \in NatSession
    BY <1>7, <2>2, <2>3 DEF createInbound, createSession, Emplace, TypeOK
  <2>5. QED
    BY <1>0, <1>7, <2>1, <2>4 DEF createInbound, TypeOK, HoldsItsLocals, Local, Place
<1>8. ASSUME NEW t \in Thread, applyNat(t)
      PROVE  TypeOK'
  <2>1. thread[t].packet \in Packet /\ thread[t].session \in NatSession
    BY <1>8 DEF applyNat, TypeOK, HoldsItsLocals
  <2>2. Translate(thread[t].session, thread[t].packet) \in Packet
    BY <2>1, TranslateType
  <2>3. QED
    BY <1>0, <1>8, <2>1, <2>2, IdleType DEF applyNat, TypeOK, HoldsItsLocals, Idle,
       Route, Translation
<1>9. QED
  BY <1>1, <1>2, <1>3, <1>4, <1>5, <1>6, <1>7, <1>8 DEF Next, Handler

LEMMA TypeInit ==
  ASSUME Init
  PROVE  TypeOK
BY NatAssumption, IdleType DEF Init, TypeOK, HoldsItsLocals, Idle, Pool

(* The table maps keys to sessions, the pool and its cursor stay in range,  *)
(* and a thread holds at every place the locals that its next step reads.   *)
THEOREM TypeCorrect == Spec => []TypeOK
<1>1. Init => TypeOK
  BY TypeInit
<1>2. TypeOK /\ [Next]_vars => TypeOK'
  BY TypeStep
<1>3. QED
  BY <1>1, <1>2, PTL DEF Spec
-----------------------------------------------------------------------------
(* What a thread has in its hands, and what leaks.                         *)

LEMMA HandsStep ==
  ASSUME TypeOK, HandsOK, [Next]_vars
  PROVE  HandsOK'
<1>1. thread \in [Thread -> Local]
  BY DEF TypeOK
<1>2. CASE UNCHANGED vars
  BY <1>2 DEF vars, HandsOK
<1>3. ASSUME NEW t \in Thread, NEW p \in Arriving, onPacketArrives(t, p)
      PROVE  HandsOK'
  <2>1. CASE UNCHANGED thread
    BY <2>1 DEF HandsOK
  <2>2. CASE /\ Inbound(p) \/ Outbound(p)
             /\ \E key \in getKeyFromPacket(p) :
                  thread' = [thread EXCEPT
                    ![t] = [Idle EXCEPT !.at = "find", !.packet = p, !.key = key]]
    <3>1. PICK key \in getKeyFromPacket(p) :
            thread' = [thread EXCEPT
              ![t] = [Idle EXCEPT !.at = "find", !.packet = p, !.key = key]]
      BY <2>2
    <3>2. /\ thread'[t].at = "find" /\ thread'[t].packet = p /\ thread'[t].key = key
          /\ \A u \in Thread \ {t} : thread'[u] = thread[u]
      BY <1>1, <3>1 DEF Idle
    <3>3. threadOf[p.src_ip] = t
      BY <1>3 DEF onPacketArrives
    <3>4. QED
      BY <2>2, <3>2, <3>3 DEF HandsOK, Creating
  <2>3. QED
    BY <1>3, <2>1, <2>2 DEF onPacketArrives
<1>4. ASSUME NEW t \in Thread, Handler(t)
      PROVE  HandsOK'
  <2>1. \A u \in Thread \ {t} : thread'[u] = thread[u]
    BY <1>1, <1>4 DEF Handler, findSession, scanPool, markPort, createOutbound,
       createInbound, applyNat
  <2>2. CASE thread'[t] = Idle
    BY <2>1, <2>2 DEF HandsOK, Creating, Idle
  <2>3. CASE /\ thread[t].at # "idle"
             /\ thread'[t].packet = thread[t].packet /\ thread'[t].key = thread[t].key
             /\ thread'[t].at \in Creating =>
                  thread[t].at \in Creating \/ ~ Inbound(thread[t].packet)
    BY <2>1, <2>3 DEF HandsOK, Creating
  <2>4. QED
    BY <1>1, <1>4, <2>2, <2>3 DEF Handler, findSession, scanPool, markPort,
       createOutbound, createInbound, applyNat, Creating, Local
<1>5. QED
  BY <1>2, <1>3, <1>4 DEF Next

\* Two threads with an outbound packet in their hands are one.
LEMMA OneOutbound ==
  ASSUME SingleCreator, TypeOK, HandsOK,
         NEW t \in Thread, thread[t].at # "idle", Outbound(thread[t].packet),
         NEW u \in Thread, thread[u].at # "idle", Outbound(thread[u].packet)
  PROVE  t = u
BY DEF SingleCreator, TypeOK, HoldsItsLocals, HandsOK, Outbound

\* So no insertion overlaps what that thread does.
LEMMA NoRace ==
  ASSUME SingleCreator, TypeOK, HandsOK,
         NEW t \in Thread, thread[t].at # "idle", Outbound(thread[t].packet)
  PROVE  ~ Racing(t)
<1>1. SUFFICES ASSUME NEW u \in Thread \ {t}, thread[u].at \in {"createOut", "createIn"}
               PROVE  FALSE
  BY DEF Racing
<1>2. Outbound(thread[u].packet) /\ thread[u].at # "idle"
  BY <1>1 DEF HandsOK, Creating
<1>3. QED
  BY <1>1, <1>2, OneOutbound

LEMMA OneCreator ==
  ASSUME SingleCreator, TypeOK, HandsOK, NEW t \in Thread, thread[t].at \in Creating
  PROVE  \A u \in Thread \ {t} : thread[u].at \notin Creating
<1>1. \A u \in Thread : thread[u].at \in Creating =>
        thread[u].at # "idle" /\ Outbound(thread[u].packet)
  BY DEF HandsOK, Creating
<1>2. QED
  BY <1>1, OneOutbound

\* An outbound entry, and the session in the hands of a thread that has an
\* outbound packet, are of the client whose packet it is.
ClientsOK ==
  /\ \A key \in OutboundKeys : table[key].internal_ip = key.src_ip
  /\ \A t \in Thread :
       thread[t].at \in {"createIn", "apply"} /\ Outbound(thread[t].packet) =>
         thread[t].session.internal_ip = thread[t].packet.src_ip

LEMMA OutboundHands ==
  ASSUME TypeOK, HandsOK, NEW t \in Thread, thread[t].at # "idle",
         Outbound(thread[t].packet)
  PROVE  /\ thread[t].key.src_ip = thread[t].packet.src_ip
         /\ thread[t].key.dst_ip # External
<1>1. thread[t].packet \in Packet /\ thread[t].key \in getKeyFromPacket(thread[t].packet)
  BY DEF TypeOK, HoldsItsLocals, HandsOK
<1>2. QED
  BY <1>1, KeyType DEF Outbound, Inbound

LEMMA ClientsStep ==
  ASSUME TypeOK, HandsOK, ClientsOK, [Next]_vars
  PROVE  ClientsOK'
<1>1. thread \in [Thread -> Local]
  BY DEF TypeOK
<1>2. CASE UNCHANGED vars
  BY <1>2 DEF vars, ClientsOK, OutboundKeys
<1>3. ASSUME NEW t \in Thread, NEW p \in Arriving, onPacketArrives(t, p)
      PROVE  ClientsOK'
  <2>1. /\ UNCHANGED table
        /\ \A u \in Thread \ {t} : thread'[u] = thread[u]
        /\ thread'[t] = thread[t] \/ thread'[t].at = "find"
    BY <1>1, <1>3 DEF onPacketArrives, Idle
  <2>2. QED
    BY <2>1 DEF ClientsOK, OutboundKeys
<1>4. ASSUME NEW t \in Thread, findSession(t)
      PROVE  ClientsOK'
  <2>1. /\ \A u \in Thread \ {t} : thread'[u] = thread[u]
        /\ \/ thread'[t].at \in {"idle", "acquire"}
           \/ /\ thread'[t].packet = thread[t].packet
              /\ thread[t].key \in DOMAIN table
              /\ thread'[t].session = table[thread[t].key]
    BY <1>1, <1>4 DEF findSession, Idle, Local
  <2>2. thread[t].at # "idle" /\ UNCHANGED table
    BY <1>4 DEF findSession
  <2>3. QED
    BY <2>1, <2>2, OutboundHands DEF ClientsOK, OutboundKeys
<1>5. ASSUME NEW t \in Thread, scanPool(t) \/ markPort(t) \/ applyNat(t)
      PROVE  ClientsOK'
  BY <1>1, <1>5 DEF scanPool, markPort, applyNat, ClientsOK, OutboundKeys, Idle, Local
<1>6. ASSUME NEW t \in Thread, createOutbound(t)
      PROVE  ClientsOK'
  <2> DEFINE key == thread[t].key
             session == NewSession(key, thread[t].port)
  <2>1. thread[t].at \in Creating /\ thread[t].at # "idle"
    BY <1>6 DEF createOutbound, Creating
  <2>2. key.src_ip = thread[t].packet.src_ip /\ key.dst_ip # External
    BY <2>1, OutboundHands DEF HandsOK
  <2>3. session.internal_ip = key.src_ip
    BY DEF NewSession
  <2>4. \A k \in OutboundKeys' : table'[k].internal_ip = k.src_ip
    BY <1>6, <2>3 DEF createOutbound, createSession, Emplace, ClientsOK, OutboundKeys
  <2>5. /\ \A u \in Thread \ {t} : thread'[u] = thread[u]
        /\ thread'[t].packet = thread[t].packet
        /\ thread'[t].session = IF key \in DOMAIN table THEN table[key] ELSE session
    BY <1>1, <1>6 DEF createOutbound, Local
  <2>6. thread'[t].session.internal_ip = thread'[t].packet.src_ip
    BY <2>2, <2>3, <2>5 DEF ClientsOK, OutboundKeys
  <2>7. QED
    BY <2>4, <2>5, <2>6 DEF ClientsOK
<1>7. ASSUME NEW t \in Thread, createInbound(t)
      PROVE  ClientsOK'
  <2> DEFINE return == returnKey(thread[t].key, thread[t].port)
  <2>1. return.dst_ip = External
    BY DEF returnKey
  <2>2. UNCHANGED table \/ \E session : table' = Emplace(return, session)
    BY <1>7 DEF createInbound, createSession
  <2> HIDE DEF return
  <2>3. \A k \in OutboundKeys' : k \in OutboundKeys /\ table'[k] = table[k]
    BY <2>1, <2>2 DEF Emplace, OutboundKeys
  <2>4. /\ \A u \in Thread \ {t} : thread'[u] = thread[u]
        /\ thread[t].at = "createIn"
        /\ thread'[t].packet = thread[t].packet
        /\ thread'[t].session = thread[t].session
    BY <1>1, <1>7 DEF createInbound, Local
  <2>5. QED
    BY <2>3, <2>4 DEF ClientsOK
<1>8. QED
  BY <1>2, <1>3, <1>4, <1>5, <1>6, <1>7 DEF Next, Handler

\* The scan comes past every port of the pool, wherever it begins.
LEMMA ScanCovers ==
  ASSUME TypeOK, NEW port \in Pool
  PROVE  \E i \in 0 .. PoolSize - 1 : Scanned(i) = port
<1>1. /\ PoolStart \in Nat /\ PoolEnd \in Nat /\ PoolSize \in Nat \ {0}
      /\ PoolSize = PoolEnd - PoolStart + 1
      /\ next \in PoolStart .. PoolEnd /\ port \in PoolStart .. PoolEnd
  BY NatAssumption DEF TypeOK, Pool, PoolSize
<1> DEFINE a == next - PoolStart
           b == port - PoolStart
<1>2. a \in 0 .. PoolSize - 1 /\ b \in 0 .. PoolSize - 1
  BY <1>1
<1>3. CASE a <= b
  <2>1. (a + (b - a)) % PoolSize = b
    BY <1>1, <1>2
  <2>2. b - a \in 0 .. PoolSize - 1 /\ PoolStart + b = port
    BY <1>1, <1>2, <1>3
  <2>3. QED
    BY <2>1, <2>2 DEF Scanned
<1>4. CASE b < a
  <2>1. (a + (b - a + PoolSize)) % PoolSize = b
    BY <1>1, <1>2
  <2>2. b - a + PoolSize \in 0 .. PoolSize - 1 /\ PoolStart + b = port
    BY <1>1, <1>2, <1>4
  <2>3. QED
    BY <2>1, <2>2 DEF Scanned
<1>5. QED
  BY <1>2, <1>3, <1>4

\* What the thread that is scanning has come past, it has found marked.
ScannedOK ==
  \A t \in Thread :
    IF thread[t].at = "acquire"
    THEN \A i \in 0 .. thread[t].tried - 1 : Scanned(i) \in used
    ELSE thread[t].tried = 0

\* Nobody else moves next_ meanwhile, so the iterations look at one entry each.
LEMMA ScannedStep ==
  ASSUME SingleCreator, TypeOK, HandsOK, ScannedOK, [Next]_vars
  PROVE  ScannedOK'
<1>1. thread \in [Thread -> Local]
  BY DEF TypeOK
<1>2. SUFFICES ASSUME NEW t \in Thread
               PROVE  IF thread'[t].at = "acquire"
                      THEN \A i \in 0 .. thread'[t].tried - 1 : Scanned(i)' \in used'
                      ELSE thread'[t].tried = 0
  BY DEF ScannedOK
<1>3. thread[t].tried \in Nat
  BY <1>1, PoolSizeType DEF TypeOK, Local
<1>4. CASE thread[t].at # "acquire"
  <2>1. thread[t].tried = 0
    BY <1>4 DEF ScannedOK
  <2>2. ASSUME NEW u \in Thread, NEW p \in Arriving, onPacketArrives(u, p)
        PROVE  thread'[t].tried = 0
    <3>1. CASE u # t \/ UNCHANGED thread
      BY <1>1, <2>1, <2>2, <3>1 DEF onPacketArrives
    <3>2. ASSUME u = t, NEW key,
                 thread' = [thread EXCEPT
                   ![u] = [Idle EXCEPT !.at = "find", !.packet = p, !.key = key]]
          PROVE  thread'[t].tried = 0
      BY <1>1, <3>2 DEF Idle
    <3>3. QED
      BY <2>2, <3>1, <3>2 DEF onPacketArrives
  <2>3. ASSUME NEW u \in Thread, Handler(u)
        PROVE  thread'[t].tried = 0
    <3>1. CASE scanPool(u)
      <4>1. u # t
        BY <1>4, <3>1 DEF scanPool
      <4>2. QED
        BY <1>1, <2>1, <3>1, <4>1 DEF scanPool
    <3>2. CASE findSession(u)
      BY <1>1, <2>1, <3>2 DEF findSession, Idle, Local
    <3>3. CASE markPort(u) \/ applyNat(u)
      BY <1>1, <2>1, <3>3 DEF markPort, applyNat, Idle, Local
    <3>4. CASE createOutbound(u) \/ createInbound(u)
      BY <1>1, <2>1, <3>4 DEF createOutbound, createInbound, Local
    <3>5. QED
      BY <2>3, <3>1, <3>2, <3>3, <3>4 DEF Handler
  <2>4. thread'[t].tried = 0
    BY <2>1, <2>2, <2>3 DEF Next, vars
  <2>5. QED
    BY <2>4
<1>5. CASE thread[t].at = "acquire"
  <2>1. \A u \in Thread : ~ markPort(u)
    BY <1>5, OneCreator DEF markPort, Creating
  <2>2. UNCHANGED <<used, next>>
    BY <2>1 DEF Next, Handler, vars, onPacketArrives, findSession, scanPool,
       createOutbound, createInbound, applyNat
  <2>3. \A i \in 0 .. thread[t].tried - 1 : Scanned(i)' \in used'
    BY <1>5, <2>2 DEF ScannedOK, Scanned
  <2>4. CASE thread'[t] = thread[t]
    BY <1>5, <2>3, <2>4
  <2>5. CASE scanPool(t)
    <3>1. CASE /\ Scanned(thread[t].tried) \in used
               /\ thread' = [thread EXCEPT ![t].tried = thread[t].tried + 1]
      <4>1. thread'[t].at = "acquire" /\ thread'[t].tried = thread[t].tried + 1
        BY <1>1, <1>5, <3>1 DEF Local
      <4>2. \A i \in 0 .. thread[t].tried : Scanned(i) \in used
        BY <1>3, <1>5, <3>1 DEF ScannedOK
      <4>3. QED
        BY <1>3, <2>2, <4>1, <4>2 DEF Scanned
    <3>2. CASE thread'[t].at # "acquire" /\ thread'[t].tried = 0
      BY <3>2
    <3>3. QED
      BY <1>1, <2>5, <3>1, <3>2 DEF scanPool, Idle, Local
  <2>6. thread'[t] = thread[t] \/ scanPool(t)
    <3>1. ASSUME NEW u \in Thread, Handler(u), u # t
          PROVE  thread'[t] = thread[t]
      BY <1>1, <3>1 DEF Handler, findSession, scanPool, markPort, createOutbound,
         createInbound, applyNat
    <3>2. Handler(t) => scanPool(t)
      BY <1>5 DEF Handler, findSession, markPort, createOutbound, createInbound, applyNat
    <3>3. ASSUME NEW u \in Thread, NEW p \in Arriving, onPacketArrives(u, p)
          PROVE  thread'[t] = thread[t]
      BY <1>1, <1>5, <3>3 DEF onPacketArrives
    <3>4. QED
      BY <3>1, <3>2, <3>3 DEF Next, vars
  <2>7. QED
    BY <2>4, <2>5, <2>6
<1>6. QED
  BY <1>4, <1>5

\* So a scan that ends without a free entry has found all of them marked.
LEMMA ScanFails ==
  ASSUME TypeOK, ScannedOK, NEW t \in Thread, thread[t].at = "acquire",
         thread[t].tried + 1 = PoolSize, Scanned(thread[t].tried) \in used
  PROVE  Pool \subseteq used
<1>1. thread[t].tried \in Nat /\ PoolSize \in Nat
  BY PoolSizeType DEF TypeOK, Local
<1>2. \A i \in 0 .. PoolSize - 1 : Scanned(i) \in used
  BY <1>1 DEF ScannedOK
<1>3. QED
  BY <1>2, ScanCovers

LEMMA LeakStep ==
  ASSUME TypeOK, HandsOK, ClientsOK, ScannedOK, LeakOnlyWhenExhausted, [Next]_vars
  PROVE  LeakOnlyWhenExhausted'
<1>1. used \subseteq used'
  BY DEF Next, Handler, vars, onPacketArrives, findSession, scanPool, markPort,
     createOutbound, createInbound, applyNat
<1>2. SUFFICES ASSUME NEW r \in routed', r \notin routed, Outbound(r.in),
                      r.out.src_ip # External
               PROVE  Pool \subseteq used
  BY <1>1 DEF LeakOnlyWhenExhausted, Outbound, Inbound, isInternalNetwork
<1>3. ASSUME NEW t \in Thread, NEW p \in Arriving, onPacketArrives(t, p)
      PROVE  FALSE
  <2>1. r = [in |-> p, out |-> p] /\ ~ Outbound(p)
    BY <1>2, <1>3 DEF onPacketArrives, Route
  <2>2. r.in = p
    BY <2>1
  <2>3. QED
    BY <1>2, <2>1, <2>2
<1>4. ASSUME NEW t \in Thread, findSession(t)
      PROVE  FALSE
  BY <1>2, <1>4 DEF findSession, Route, Outbound
<1>5. ASSUME NEW t \in Thread, scanPool(t)
      PROVE  Pool \subseteq used
  BY <1>2, <1>5, ScanFails DEF scanPool, Route
<1>6. ASSUME NEW t \in Thread, applyNat(t)
      PROVE  FALSE
  <2>1. r = [in |-> thread[t].packet, out |-> Translate(thread[t].session, thread[t].packet)]
    BY <1>2, <1>6 DEF applyNat, Route
  <2>2. thread[t].packet.src_ip = thread[t].session.internal_ip
    BY <1>2, <1>6, <2>1 DEF applyNat, ClientsOK
  <2>3. thread[t].packet \in Packet
    BY <1>6 DEF applyNat, TypeOK, HoldsItsLocals
  <2>4. QED
    BY <1>2, <2>1, <2>2, <2>3 DEF Translate, Packet
<1>7. QED
  BY <1>2, <1>3, <1>4, <1>5, <1>6 DEF Next, Handler, vars, markPort, createOutbound,
     createInbound

(* A client's own address leaves only when every port of the pool is in     *)
(* use: the loop in acquire_free_port_number, which reads next_ and used_    *)
(* anew in every iteration, misses no free port while one thread creates.    *)
THEOREM LeaksAreRight == SingleCreator => (Spec => []LeakOnlyWhenExhausted)
<1> DEFINE Inv == TypeOK /\ HandsOK /\ ClientsOK /\ ScannedOK /\ LeakOnlyWhenExhausted
<1>1. SUFFICES ASSUME SingleCreator PROVE Spec => []LeakOnlyWhenExhausted
  OBVIOUS
<1>2. Init => Inv
  BY TypeInit DEF Init, HandsOK, Creating, ClientsOK, ScannedOK, OutboundKeys, Idle,
     LeakOnlyWhenExhausted
<1>3. Inv /\ [Next]_vars => Inv'
  BY <1>1, TypeStep, HandsStep, ClientsStep, ScannedStep, LeakStep
<1>4. Inv => LeakOnlyWhenExhausted
  OBVIOUS
<1> HIDE DEF Inv
<1>5. QED
  BY <1>2, <1>3, <1>4, PTL DEF Spec
-----------------------------------------------------------------------------
(* The inductive invariant of the table, the pool and the threads.         *)

LEMMA ArrivalStep ==
  ASSUME IInv, TypeOK', NEW t \in Thread, NEW p \in Arriving, onPacketArrives(t, p)
  PROVE  IInv'
<1>1. p \in Packet /\ thread \in [Thread -> Local]
  BY ArrivingType DEF IInv, TypeOK
<1>2. CASE /\ Inbound(p) \/ Outbound(p)
           /\ \E key \in getKeyFromPacket(p) :
                thread' = [thread EXCEPT
                  ![t] = [Idle EXCEPT !.at = "find", !.packet = p, !.key = key]]
           /\ UNCHANGED routed
  <2>1. PICK key \in getKeyFromPacket(p) :
          thread' = [thread EXCEPT
            ![t] = [Idle EXCEPT !.at = "find", !.packet = p, !.key = key]]
    BY <1>2
  <2>2. /\ thread'[t].at = "find" /\ thread'[t].packet = p /\ thread'[t].key = key
        /\ \A u \in Thread \ {t} : thread'[u] = thread[u]
    BY <1>1, <2>1 DEF Idle
  <2>3. UNCHANGED <<table, used, next, routed>> /\ threadOf[p.src_ip] = t
    BY <1>2 DEF onPacketArrives
  <2>4. thread[t].at = "idle"
    BY DEF onPacketArrives
  <2>5. HandsOK'
    BY <1>2, <2>2, <2>3 DEF IInv, HandsOK, Creating, Inbound, Outbound
  <2>6. TableOK' /\ PortOK' /\ SessionOK'
    BY <2>2, <2>3 DEF IInv, TableOK, OutboundKeys, PortOK, SessionOK
  <2>7. ReturnOK' /\ RoutedOK'
    BY <2>2, <2>3, <2>4 DEF IInv, ReturnOK, OutboundKeys, RoutedOK, Translated
  <2>8. QED
    BY <2>5, <2>6, <2>7 DEF IInv
<1>3. CASE ~ Inbound(p) /\ ~ Outbound(p) /\ Route(p, p) /\ UNCHANGED thread
  <2>1. UNCHANGED <<thread, table, used, next>>
    BY <1>3 DEF onPacketArrives
  <2>2. Translated' = Translated
    BY <1>3 DEF Route, Translated
  <2>3. HandsOK' /\ TableOK' /\ PortOK' /\ ReturnOK' /\ SessionOK'
    BY <2>1 DEF IInv, HandsOK, TableOK, OutboundKeys, PortOK, ReturnOK, SessionOK
  <2>4. RoutedOK'
    BY <2>1, <2>2 DEF IInv, RoutedOK
  <2>5. QED
    BY <2>3, <2>4 DEF IInv
<1>4. QED
  BY <1>2, <1>3 DEF onPacketArrives

\* What a thread routes unchanged is no translated packet.
LEMMA UnchangedIsNotTranslated ==
  ASSUME TypeOK, NEW p \in Packet, Route(p, p)
  PROVE  Translated' = Translated
<1>1. ASSUME Outbound(p)
      PROVE  p.src_ip # External
  BY <1>1, NatAssumption DEF Outbound
<1>2. QED
  BY <1>1 DEF Route, Translated

LEMMA FindStep ==
  ASSUME SingleCreator, IInv, TypeOK', NEW t \in Thread, findSession(t)
  PROVE  IInv'
<1>1. /\ thread \in [Thread -> Local]
      /\ thread[t].at = "find"
      /\ thread[t].packet \in Packet /\ thread[t].key \in SessionFlowKey
      /\ UNCHANGED <<table, used, next>>
  BY DEF IInv, TypeOK, HoldsItsLocals, findSession
<1>2. TableOK'
  BY <1>1 DEF IInv, TableOK, OutboundKeys
<1>3. CASE /\ thread[t].key \in DOMAIN table
           /\ thread' = [thread EXCEPT ![t].at = "apply",
                                       ![t].session = table[thread[t].key]]
           /\ UNCHANGED routed
  <2>1. /\ thread'[t].at = "apply" /\ thread'[t].packet = thread[t].packet
        /\ thread'[t].key = thread[t].key
        /\ thread'[t].session = table[thread[t].key]
        /\ \A u \in Thread \ {t} : thread'[u] = thread[u]
    BY <1>1, <1>3 DEF Local
  <2>2. HandsOK'
    BY <1>1, <2>1 DEF IInv, HandsOK, Creating
  <2>3. PortOK' /\ ReturnOK' /\ RoutedOK'
    BY <1>1, <1>3, <2>1 DEF IInv, PortOK, ReturnOK, OutboundKeys, RoutedOK, Translated
  <2>4. ASSUME NEW u \in Thread, thread[u].at = "createIn"
        PROVE  thread[u].key # thread[t].key
    <3>1. Outbound(thread[u].packet) /\ u # t
      BY <1>1, <2>4 DEF IInv, HandsOK, Creating
    <3>2. ~ Outbound(thread[t].packet)
      BY <1>1, <2>4, <3>1, OneOutbound DEF IInv
    <3>3. Inbound(thread[t].packet)
      BY <1>1, <3>2 DEF IInv, HandsOK
    <3>4. thread[u].packet \in Packet /\ thread[u].key \in getKeyFromPacket(thread[u].packet)
      BY <2>4 DEF IInv, TypeOK, HoldsItsLocals, HandsOK
    <3>5. thread[t].key \in getKeyFromPacket(thread[t].packet)
      BY <1>1 DEF IInv, HandsOK
    <3>6. /\ thread[u].key.dst_ip = thread[u].packet.dst_ip
          /\ thread[t].key.dst_ip = thread[t].packet.dst_ip
      BY <1>1, <3>4, <3>5, KeyType
    <3>7. QED
      BY <3>1, <3>3, <3>6 DEF Inbound, Outbound
  <2>5. SessionOK'
    BY <1>1, <1>3, <2>1, <2>4 DEF IInv, SessionOK
  <2>6. QED
    BY <1>2, <2>2, <2>3, <2>5 DEF IInv
<1>4. CASE /\ Inbound(thread[t].packet)
           /\ Route(thread[t].packet, thread[t].packet)
           /\ thread' = [thread EXCEPT ![t] = Idle]
  <2>1. /\ thread'[t].at = "idle"
        /\ \A u \in Thread \ {t} : thread'[u] = thread[u]
    BY <1>1, <1>4 DEF Idle
  <2>2. Translated' = Translated
    BY <1>1, <1>4, UnchangedIsNotTranslated DEF IInv
  <2>3. HandsOK' /\ PortOK' /\ SessionOK'
    BY <1>1, <2>1 DEF IInv, HandsOK, Creating, PortOK, SessionOK
  <2>4. ReturnOK' /\ RoutedOK'
    BY <1>1, <2>1, <2>2 DEF IInv, ReturnOK, OutboundKeys, RoutedOK
  <2>5. QED
    BY <1>2, <2>3, <2>4 DEF IInv
<1>5. CASE /\ thread[t].key \notin DOMAIN table \/ Racing(t)
           /\ ~ Inbound(thread[t].packet)
           /\ thread' = [thread EXCEPT ![t].at = "acquire"]
           /\ UNCHANGED routed
  <2>1. /\ thread'[t].at = "acquire" /\ thread'[t].packet = thread[t].packet
        /\ thread'[t].key = thread[t].key
        /\ \A u \in Thread \ {t} : thread'[u] = thread[u]
    BY <1>1, <1>5 DEF Local
  <2>2. Outbound(thread[t].packet)
    BY <1>1, <1>5 DEF IInv, HandsOK
  <2>3. thread[t].key \notin DOMAIN table
    BY <1>1, <1>5, <2>2, NoRace DEF IInv
  <2>4. HandsOK'
    BY <1>1, <2>1, <2>2 DEF IInv, HandsOK, Creating
  <2>5. PortOK' /\ SessionOK'
    BY <1>1, <2>1, <2>3 DEF IInv, PortOK, SessionOK
  <2>6. ReturnOK' /\ RoutedOK'
    BY <1>1, <1>5, <2>1 DEF IInv, ReturnOK, OutboundKeys, RoutedOK, Translated
  <2>7. QED
    BY <1>2, <2>4, <2>5, <2>6 DEF IInv
<1>6. QED
  BY <1>3, <1>4, <1>5 DEF findSession

LEMMA ScanStep ==
  ASSUME IInv, TypeOK', NEW t \in Thread, scanPool(t)
  PROVE  IInv'
<1>1. /\ thread \in [Thread -> Local]
      /\ thread[t].at = "acquire"
      /\ thread[t].packet \in Packet /\ thread[t].key \in SessionFlowKey
      /\ UNCHANGED <<table, used, next>>
  BY DEF IInv, TypeOK, HoldsItsLocals, scanPool
<1>2. TableOK'
  BY <1>1 DEF IInv, TableOK, OutboundKeys
<1>3. ASSUME NEW port, port \notin used, UNCHANGED routed,
             thread' = [thread EXCEPT ![t].at = "mark", ![t].tried = 0, ![t].port = port]
      PROVE  IInv'
  <2>1. /\ thread'[t].at = "mark" /\ thread'[t].packet = thread[t].packet
        /\ thread'[t].key = thread[t].key /\ thread'[t].port = port
        /\ \A u \in Thread \ {t} : thread'[u] = thread[u]
    BY <1>1, <1>3 DEF Local
  <2>2. HandsOK'
    BY <1>1, <2>1 DEF IInv, HandsOK, Creating
  <2>3. PortOK' /\ SessionOK'
    BY <1>1, <1>3, <2>1 DEF IInv, PortOK, SessionOK
  <2>4. ReturnOK' /\ RoutedOK'
    BY <1>1, <1>3, <2>1 DEF IInv, ReturnOK, OutboundKeys, RoutedOK, Translated
  <2>5. QED
    BY <1>2, <2>2, <2>3, <2>4 DEF IInv
<1>4. CASE /\ Route(thread[t].packet, thread[t].packet)
           /\ thread' = [thread EXCEPT ![t] = Idle]
  <2>1. /\ thread'[t].at = "idle"
        /\ \A u \in Thread \ {t} : thread'[u] = thread[u]
    BY <1>1, <1>4 DEF Idle
  <2>2. Translated' = Translated
    BY <1>1, <1>4, UnchangedIsNotTranslated DEF IInv
  <2>3. HandsOK' /\ PortOK' /\ SessionOK'
    BY <1>1, <2>1 DEF IInv, HandsOK, Creating, PortOK, SessionOK
  <2>4. ReturnOK' /\ RoutedOK'
    BY <1>1, <2>1, <2>2 DEF IInv, ReturnOK, OutboundKeys, RoutedOK
  <2>5. QED
    BY <1>2, <2>3, <2>4 DEF IInv
<1>5. CASE thread' = [thread EXCEPT ![t].tried = thread[t].tried + 1] /\ UNCHANGED routed
  <2>1. /\ thread'[t].at = thread[t].at /\ thread'[t].packet = thread[t].packet
        /\ thread'[t].key = thread[t].key
        /\ \A u \in Thread \ {t} : thread'[u] = thread[u]
    BY <1>1, <1>5 DEF Local
  <2>2. HandsOK'
    BY <1>1, <2>1 DEF IInv, HandsOK, Creating
  <2>3. PortOK' /\ SessionOK'
    BY <1>1, <2>1 DEF IInv, PortOK, SessionOK
  <2>4. ReturnOK' /\ RoutedOK'
    BY <1>1, <1>5, <2>1 DEF IInv, ReturnOK, OutboundKeys, RoutedOK, Translated
  <2>5. QED
    BY <1>2, <2>2, <2>3, <2>4 DEF IInv
<1>6. QED
  BY <1>3, <1>4, <1>5 DEF scanPool

LEMMA MarkStep ==
  ASSUME SingleCreator, IInv, TypeOK', NEW t \in Thread, markPort(t)
  PROVE  IInv'
<1>1. /\ thread \in [Thread -> Local]
      /\ thread[t].at = "mark" /\ thread[t].port \in Pool
      /\ UNCHANGED <<table, routed>>
  BY DEF IInv, TypeOK, HoldsItsLocals, markPort
<1>2. /\ thread'[t].at = "createOut" /\ thread'[t].packet = thread[t].packet
      /\ thread'[t].key = thread[t].key /\ thread'[t].port = thread[t].port
      /\ \A u \in Thread \ {t} : thread'[u] = thread[u]
  BY <1>1 DEF markPort, Local
<1>3. \A u \in Thread \ {t} : thread[u].at \notin Creating
  BY <1>1, OneCreator DEF IInv, Creating
<1>4. used' = used \cup {thread[t].port}
  BY <1>3 DEF markPort, Creating
<1>5. HandsOK'
  BY <1>1, <1>2 DEF IInv, HandsOK, Creating
<1>6. TableOK'
  BY <1>1, <1>4 DEF IInv, TableOK, OutboundKeys
<1>7. \A key \in DOMAIN table : table[key].external_port # thread[t].port
  BY <1>1 DEF IInv, TableOK, PortOK
<1>8. PortOK'
  BY <1>1, <1>2, <1>3, <1>4, <1>7 DEF IInv, PortOK, Creating
<1>9. ReturnOK' /\ SessionOK' /\ RoutedOK'
  BY <1>1, <1>2 DEF IInv, ReturnOK, OutboundKeys, SessionOK, RoutedOK, Translated
<1>10. QED
  BY <1>5, <1>6, <1>8, <1>9 DEF IInv

\* The key of an outbound packet in a thread's hands.
LEMMA OutboundKey ==
  ASSUME TypeOK, HandsOK, NEW t \in Thread, thread[t].at \in Creating
  PROVE  /\ thread[t].key \in SessionFlowKey
         /\ thread[t].key.dst_ip # External
         /\ <<thread[t].key.src_ip, thread[t].key.dst_ip>> \in Natted
<1>1. /\ thread[t].packet \in Packet
      /\ thread[t].key \in getKeyFromPacket(thread[t].packet)
      /\ Outbound(thread[t].packet)
  BY DEF TypeOK, HoldsItsLocals, HandsOK, Creating
<1>2. QED
  BY <1>1, KeyType DEF Outbound, Inbound

LEMMA CreateOutboundStep ==
  ASSUME SingleCreator, IInv, TypeOK', NEW t \in Thread, createOutbound(t)
  PROVE  IInv'
<1> DEFINE key == thread[t].key
           port == thread[t].port
           session == NewSession(key, port)
<1>1. /\ thread \in [Thread -> Local]
      /\ thread[t].at = "createOut" /\ port \in Pool
      /\ UNCHANGED <<used, next, routed>>
  BY DEF IInv, TypeOK, HoldsItsLocals, createOutbound
<1>2. /\ key \in SessionFlowKey /\ key.dst_ip # External
      /\ <<key.src_ip, key.dst_ip>> \in Natted
  BY <1>1, OutboundKey DEF IInv, Creating
<1>3. /\ key \notin DOMAIN table /\ port \in used
      /\ \A k \in DOMAIN table : table[k].external_port # port
  BY <1>1 DEF IInv, PortOK
<1>4. \A u \in Thread \ {t} : thread[u].at \notin Creating
  BY <1>1, OneCreator DEF IInv, Creating
<1>5. ~ Racing(t)
  BY <1>4 DEF Racing, Creating
<1>6. /\ DOMAIN table' = DOMAIN table \cup {key}
      /\ table'[key] = session
      /\ \A k \in DOMAIN table : table'[k] = table[k]
  BY <1>3, <1>5 DEF createOutbound, createSession, Emplace
<1>7. /\ thread'[t].at = "createIn" /\ thread'[t].packet = thread[t].packet
      /\ thread'[t].key = key /\ thread'[t].port = port
      /\ thread'[t].session = session
      /\ \A u \in Thread \ {t} : thread'[u] = thread[u]
  BY <1>1, <1>3 DEF createOutbound, Local
<1>8. /\ session.external_port = port
      /\ session.internal_ip = key.src_ip
      /\ session.internal_port = key.src_port
  BY DEF NewSession
<1> HIDE DEF key, port, session
<1>9. HandsOK'
  BY <1>1, <1>7 DEF IInv, HandsOK, Creating, key
<1>10. TableOK'
  BY <1>1, <1>2, <1>3, <1>6, <1>8 DEF IInv, TableOK, OutboundKeys
<1>11. PortOK'
  BY <1>3, <1>4, <1>6, <1>7, <1>8 DEF PortOK, Creating
<1>12. ReturnOK'
  <2>1. ASSUME NEW k \in OutboundKeys', k # key
        PROVE  LET return == returnKey(k, table'[k].external_port)
               IN  return \in DOMAIN table' /\ table'[return] = table'[k]
    <3>1. k \in OutboundKeys
      BY <1>6, <2>1 DEF OutboundKeys
    <3>2. \A u \in Thread : thread[u].at # "createIn"
      BY <1>1, <1>4 DEF Creating
    <3>3. LET return == returnKey(k, table[k].external_port)
          IN  return \in DOMAIN table /\ table[return] = table[k]
      BY <3>1, <3>2 DEF IInv, ReturnOK
    <3>4. QED
      BY <1>6, <3>1, <3>3 DEF OutboundKeys
  <2>2. QED
    BY <1>7, <2>1 DEF ReturnOK, returnKey
<1>13. SessionOK'
  BY <1>3, <1>6, <1>7 DEF IInv, SessionOK
<1>14. RoutedOK'
  BY <1>1, <1>3, <1>6, <1>7 DEF IInv, RoutedOK, Translated
<1>15. QED
  BY <1>9, <1>10, <1>11, <1>12, <1>13, <1>14 DEF IInv

LEMMA CreateInboundStep ==
  ASSUME SingleCreator, IInv, TypeOK', NEW t \in Thread, createInbound(t)
  PROVE  IInv'
<1> DEFINE key == thread[t].key
           port == thread[t].port
           session == NewSession(key, port)
           return == returnKey(key, port)
<1>1. /\ thread \in [Thread -> Local]
      /\ thread[t].at = "createIn" /\ port \in Pool
      /\ UNCHANGED <<used, next, routed>>
  BY DEF IInv, TypeOK, HoldsItsLocals, createInbound
<1>2. /\ key \in SessionFlowKey /\ key.dst_ip # External
  BY <1>1, OutboundKey DEF IInv, Creating
<1>3. /\ key \in DOMAIN table /\ thread[t].session = table[key]
      /\ table[key].external_port = port
      /\ \A k \in DOMAIN table \ {key} : table[k].external_port # port
  BY <1>1 DEF IInv, PortOK
<1>4. \A u \in Thread \ {t} : thread[u].at \notin Creating
  BY <1>1, OneCreator DEF IInv, Creating
<1>5. ~ Racing(t)
  BY <1>4 DEF Racing, Creating
<1>6. return.dst_ip = External /\ return.dst_port = port
  BY DEF returnKey
<1>7. return \notin DOMAIN table
  <2>1. \A k \in DOMAIN table :
          k.dst_ip = External => k.dst_port = table[k].external_port
    BY DEF IInv, TableOK
  <2>2. \A k \in DOMAIN table : ~ (k.dst_ip = External /\ k.dst_port = port)
    BY <1>2, <1>3, <2>1
  <2> HIDE DEF return, port
  <2>3. QED
    BY <1>6, <2>2
<1>8. /\ DOMAIN table' = DOMAIN table \cup {return}
      /\ table'[return] = session
      /\ \A k \in DOMAIN table : table'[k] = table[k]
  BY <1>5, <1>7 DEF createInbound, createSession, Emplace
<1>9. /\ thread'[t].at = "apply" /\ thread'[t].packet = thread[t].packet
      /\ thread'[t].key = key /\ thread'[t].session = thread[t].session
      /\ \A u \in Thread \ {t} : thread'[u] = thread[u]
  BY <1>1 DEF createInbound, Local
<1>10. session = table[key]
  <2>1. /\ table[key] \in NatSession
        /\ table[key].internal_ip = key.src_ip
        /\ table[key].internal_port = key.src_port
    BY <1>2, <1>3 DEF IInv, TypeOK, TableOK
  <2>2. QED
    BY <1>3, <2>1 DEF NewSession, NatSession
<1>11. OutboundKeys' = OutboundKeys
  BY <1>6, <1>8 DEF OutboundKeys
<1> HIDE DEF key, port, session, return
<1>12. HandsOK'
  BY <1>1, <1>9 DEF IInv, HandsOK, Creating, key
<1>13. TableOK'
  <2>1. \A a, b \in OutboundKeys' :
          table'[a].external_port = table'[b].external_port => a = b
    BY <1>8, <1>11 DEF IInv, TableOK, OutboundKeys
  <2>2. QED
    BY ZenonT(30), <1>1, <1>3, <1>6, <1>8, <1>10, <2>1 DEF IInv, TableOK
<1>14. PortOK'
  BY <1>4, <1>9 DEF PortOK, Creating
<1>15. ReturnOK'
  <2>1. ASSUME NEW k \in OutboundKeys', k # key
        PROVE  LET r == returnKey(k, table'[k].external_port)
               IN  r \in DOMAIN table' /\ table'[r] = table'[k]
    <3>1. \A u \in Thread : thread[u].at = "createIn" => thread[u].key # k
      BY <1>4, <2>1 DEF Creating, key
    <3>2. LET r == returnKey(k, table[k].external_port)
          IN  r \in DOMAIN table /\ table[r] = table[k]
      BY <1>11, <2>1, <3>1 DEF IInv, ReturnOK
    <3>3. QED
      BY <1>8, <1>11, <2>1, <3>2 DEF OutboundKeys
  <2>2. returnKey(key, table'[key].external_port) = return
    BY <1>3, <1>8 DEF return
  <2>3. QED
    BY <1>3, <1>8, <1>10, <2>1, <2>2 DEF ReturnOK
<1>16. SessionOK'
  BY <1>3, <1>4, <1>8, <1>9 DEF IInv, SessionOK, Creating
<1>17. RoutedOK'
  BY <1>1, <1>8, <1>9 DEF IInv, RoutedOK, Translated
<1>18. QED
  BY <1>12, <1>13, <1>14, <1>15, <1>16, <1>17 DEF IInv

LEMMA ApplyStep ==
  ASSUME IInv, TypeOK', NEW t \in Thread, applyNat(t)
  PROVE  IInv'
<1> DEFINE p == thread[t].packet
           out == Translate(thread[t].session, p)
<1>1. /\ thread \in [Thread -> Local]
      /\ thread[t].at = "apply" /\ p \in Packet
      /\ thread[t].key \in getKeyFromPacket(p)
      /\ UNCHANGED <<table, used, next>>
  BY DEF IInv, TypeOK, HoldsItsLocals, HandsOK, applyNat
<1>2. /\ thread'[t].at = "idle"
      /\ \A u \in Thread \ {t} : thread'[u] = thread[u]
  BY <1>1 DEF applyNat, Idle
<1>3. routed' = routed \cup {[in |-> p, out |-> out]}
  BY DEF applyNat, Route
<1>4. HandsOK' /\ TableOK' /\ PortOK' /\ SessionOK'
  BY <1>1, <1>2 DEF IInv, HandsOK, Creating, TableOK, OutboundKeys, PortOK, SessionOK
<1>5. ReturnOK'
  BY <1>1, <1>2 DEF IInv, ReturnOK, OutboundKeys
<1>6. RoutedOK'
  <2>1. SUFFICES ASSUME NEW r \in Translated', Tracked(r.in)
                 PROVE  /\ r.in \in DOMAIN table
                        /\ r.out = Translate(table[r.in], r.in)
                        /\ \A u \in Thread : thread[u].at = "createIn" =>
                             thread[u].key # r.in
    BY <1>1, <1>2 DEF RoutedOK
  <2>2. CASE r \in routed
    BY <2>1, <2>2 DEF IInv, RoutedOK, Translated
  <2>3. CASE r = [in |-> p, out |-> out]
    <3>1. thread[t].key = p
      BY <1>1, <2>1, <2>3, KeyType
    <3>2. QED
      BY <1>1, <2>3, <3>1 DEF IInv, SessionOK
  <2>4. QED
    BY <1>3, <2>1, <2>2, <2>3 DEF Translated
<1>7. QED
  BY <1>4, <1>5, <1>6 DEF IInv
-----------------------------------------------------------------------------
LEMMA InvInit ==
  ASSUME Init
  PROVE  IInv
BY TypeInit DEF Init, Idle, IInv, HandsOK, Creating, TableOK, OutboundKeys, PortOK,
   ReturnOK, SessionOK, RoutedOK, Translated

LEMMA InvStep ==
  ASSUME SingleCreator, IInv, [Next]_vars
  PROVE  IInv'
<1>1. TypeOK'
  BY TypeStep DEF IInv
<1>2. CASE UNCHANGED vars
  BY <1>1, <1>2 DEF vars, IInv, HandsOK, TableOK, OutboundKeys, PortOK, ReturnOK,
     SessionOK, RoutedOK, Translated
<1>3. CASE Next
  BY <1>1, <1>3, ArrivalStep, FindStep, ScanStep, MarkStep, CreateOutboundStep,
     CreateInboundStep, ApplyStep DEF Next, Handler
<1>4. QED
  BY <1>2, <1>3

LEMMA InvHolds == SingleCreator => (Spec => []IInv)
<1>1. SUFFICES ASSUME SingleCreator PROVE Spec => []IInv
  OBVIOUS
<1>2. Init => IInv
  BY InvInit
<1>3. IInv /\ [Next]_vars => IInv'
  BY <1>1, InvStep
<1>4. QED
  BY <1>2, <1>3, PTL DEF Spec
-----------------------------------------------------------------------------
(* What the invariant gives.                                               *)

\* What applyNat has made of an outbound packet, by the entry of its key.
Explained(r) ==
  LET port == table[r.in].external_port
  IN  /\ r.in \in OutboundKeys
      /\ r.in \in Packet
      /\ table[r.in] \in NatSession
      /\ table[r.in].internal_ip = r.in.src_ip
      /\ table[r.in].internal_port = r.in.src_port
      /\ <<r.in.src_ip, r.in.dst_ip>> \in Natted
      /\ r.out = [protocol |-> r.in.protocol, src_ip |-> External, src_port |-> port,
                  dst_ip |-> r.in.dst_ip,
                  dst_port |-> IF r.in.protocol = "ICMP" THEN port ELSE r.in.dst_port]

LEMMA TranslatedFields ==
  ASSUME IInv, NEW r \in Translated, Tracked(r.in)
  PROVE  Explained(r)
<1>1. r.in \in Packet /\ Outbound(r.in)
  BY DEF IInv, TypeOK, Translated, Translation
<1>2. /\ r.in \in DOMAIN table
      /\ r.out = Translate(table[r.in], r.in)
  BY DEF IInv, RoutedOK
<1>3. r.in \in OutboundKeys
  BY <1>1, <1>2 DEF OutboundKeys, Outbound, Inbound
<1>4. /\ table[r.in] \in NatSession
      /\ table[r.in].internal_ip = r.in.src_ip
      /\ table[r.in].internal_port = r.in.src_port
      /\ <<r.in.src_ip, r.in.dst_ip>> \in Natted
  BY <1>3 DEF IInv, TypeOK, TableOK, OutboundKeys
<1>5. QED
  BY <1>1, <1>2, <1>3, <1>4 DEF Translate, Packet, Explained

(* Two flows never leave with the same public address and port.            *)
THEOREM FlowsDiffer == SingleCreator => (Spec => []PublicFlowsDiffer)
<1>1. ASSUME IInv PROVE PublicFlowsDiffer
  <2>1. SUFFICES ASSUME NEW r \in Translated, NEW s \in Translated,
                        Tracked(r.in), Tracked(s.in), r.out = s.out
                 PROVE  r.in = s.in
    BY DEF PublicFlowsDiffer
  <2>2. Explained(r) /\ Explained(s)
    BY <1>1, <2>1, TranslatedFields
  <2>3. table[r.in].external_port = table[s.in].external_port
    <3>1. r.out.src_port = table[r.in].external_port
      BY <2>2 DEF Explained
    <3>2. s.out.src_port = table[s.in].external_port
      BY <2>2 DEF Explained
    <3>3. QED
      BY <2>1, <3>1, <3>2
  <2>4. r.in \in OutboundKeys /\ s.in \in OutboundKeys
    BY <2>2 DEF Explained
  <2>5. QED
    BY <1>1, <2>3, <2>4 DEF IInv, TableOK
<1>2. QED
  BY <1>1, InvHolds, PTL

(* A flow is never given a second public port.                             *)
THEOREM PortsAreKept == SingleCreator => (Spec => []FlowsKeepTheirPort)
<1>1. IInv => FlowsKeepTheirPort
  BY DEF IInv, RoutedOK, FlowsKeepTheirPort
<1>2. QED
  BY <1>1, InvHolds, PTL

LEMMA ReturnEntry ==
  ASSUME IInv
  PROVE  ReplyReachesClient
<1>1. SUFFICES ASSUME NEW r \in Translated, Tracked(r.in)
               PROVE  /\ Reply(r.out) \in DOMAIN table
                      /\ Translate(table[Reply(r.out)], Reply(r.out)) = Reply(r.in)
  BY DEF ReplyReachesClient
<1> DEFINE port == table[r.in].external_port
<1>2. Explained(r)
  BY <1>1, TranslatedFields
<1>3. r.in \in OutboundKeys /\ r.in.src_ip # r.in.dst_ip
  BY <1>2, NatAssumption DEF Explained
<1>4. /\ returnKey(r.in, port) \in DOMAIN table
      /\ table[returnKey(r.in, port)] = table[r.in]
  BY <1>1, <1>3 DEF IInv, ReturnOK, RoutedOK
<1>5. Reply(r.out) = returnKey(r.in, port)
  <2>1. /\ r.out.protocol = r.in.protocol
        /\ r.out.src_ip = External
        /\ r.out.src_port = port
        /\ r.out.dst_ip = r.in.dst_ip
        /\ r.out.dst_port = IF r.in.protocol = "ICMP" THEN port ELSE r.in.dst_port
    BY <1>2 DEF Explained
  <2>2. QED
    BY <2>1 DEF Reply, returnKey
<1>6. Translate(table[r.in], returnKey(r.in, port)) = Reply(r.in)
  <2>1. /\ table[r.in].internal_ip = r.in.src_ip
        /\ table[r.in].internal_port = r.in.src_port
        /\ r.in \in Packet
    BY <1>2 DEF Explained
  <2>2. Translate(table[r.in], returnKey(r.in, port))
          = [protocol |-> r.in.protocol,
             src_ip   |-> r.in.dst_ip,
             src_port |-> IF r.in.protocol = "ICMP" THEN r.in.src_port
                          ELSE r.in.dst_port,
             dst_ip   |-> r.in.src_ip,
             dst_port |-> r.in.src_port]
    BY <1>3, <2>1 DEF Translate, returnKey
  <2>3. r.in.protocol = "ICMP" => r.in.src_port = r.in.dst_port
    BY <2>1 DEF Packet
  <2>4. QED
    BY <2>1, <2>2, <2>3 DEF Packet, Reply
<1>7. QED
  BY <1>4, <1>5, <1>6

(* Before a packet of TCP or ICMP is on its way, the return entry for its   *)
(* reply is in the table and holds its sender's address and port.           *)
THEOREM ReturnEntries == SingleCreator => (Spec => []ReplyReachesClient)
<1>1. IInv => ReplyReachesClient
  BY ReturnEntry
<1>2. QED
  BY <1>1, InvHolds, PTL

LEMMA ReplyStep ==
  ASSUME IInv, [Next]_vars, NEW t \in Thread, NEW r \in Translated, Tracked(r.in),
         thread[t].packet = Reply(r.out), thread'[t] # thread[t]
  PROVE  TranslatesBack(t, r)
<1> DEFINE reply == Reply(r.out)
<1>1. /\ reply \in DOMAIN table
      /\ Translate(table[reply], reply) = Reply(r.in)
  BY ReturnEntry DEF ReplyReachesClient
<1>2. /\ thread \in [Thread -> Local]
      /\ r.in \in Packet /\ r.out \in Packet
      /\ reply \in Packet
  BY ReplyType DEF IInv, TypeOK, Translated, Translation
<1>3. thread[t].at # "idle"
  BY <1>2, NatAssumption DEF IInv, TypeOK, HoldsItsLocals
<1>4. Inbound(reply) /\ Tracked(reply)
  <2>1. Explained(r)
    BY TranslatedFields
  <2>2. r.out.protocol = r.in.protocol /\ r.out.src_ip = External
    BY <2>1 DEF Explained
  <2>3. QED
    BY <2>2 DEF Reply, Inbound, Tracked
<1>5. thread[t].key = reply /\ thread[t].at \notin Creating
  <2>1. thread[t].key \in getKeyFromPacket(reply)
    BY <1>3 DEF IInv, HandsOK
  <2>2. thread[t].key = reply
    BY <1>2, <1>4, <2>1, KeyType
  <2>3. ~ Outbound(reply)
    BY <1>4 DEF Outbound
  <2>4. QED
    BY <2>2, <2>3 DEF IInv, HandsOK
<1> HIDE DEF reply
<1>6. CASE findSession(t)
  BY <1>1, <1>2, <1>5, <1>6 DEF findSession, TranslatesBack, Local
<1>7. CASE applyNat(t)
  <2>1. thread[t].at = "apply" /\ thread[t].session = table[reply]
    BY <1>5, <1>7 DEF applyNat, IInv, SessionOK
  <2>2. [in |-> reply, out |-> Reply(r.in)] \in routed'
    BY <1>1, <1>7, <2>1 DEF applyNat, Route, reply
  <2>3. QED
    BY <2>1, <2>2 DEF TranslatesBack, reply
<1>8. findSession(t) \/ applyNat(t)
  <2>1. ASSUME NEW u \in Thread, Handler(u), u # t
        PROVE  FALSE
    BY <1>2, <2>1 DEF Handler, findSession, scanPool, markPort, createOutbound,
       createInbound, applyNat
  <2>2. Handler(t) => findSession(t) \/ applyNat(t)
    BY <1>5 DEF Handler, scanPool, markPort, createOutbound, createInbound, Creating
  <2>3. ASSUME NEW u \in Thread, NEW p \in Arriving, onPacketArrives(u, p)
        PROVE  FALSE
    BY <1>2, <1>3, <2>3 DEF onPacketArrives
  <2>4. QED
    BY <2>1, <2>2, <2>3 DEF Next, vars
<1>9. QED
  BY <1>6, <1>7, <1>8

(* A reply goes to the client and port that had sent what it answers, unless *)
(* its lookup overlaps the insertion of another session.                     *)
THEOREM RepliesReturn == SingleCreator => (Spec => RepliesComeBack)
<1>1. IInv /\ [Next]_vars =>
        [\A t \in Thread, r \in Translated :
           Tracked(r.in) /\ thread[t].packet = Reply(r.out) /\ thread'[t] # thread[t] =>
             TranslatesBack(t, r)]_vars
  BY ReplyStep
<1>2. QED
  BY <1>1, InvHolds, PTL DEF Spec, RepliesComeBack

\* emplace never changes an entry that is there, raced or not.
LEMMA TableGrows ==
  ASSUME [Next]_vars, NEW key \in OutboundKeys
  PROVE  key \in OutboundKeys' /\ table'[key] = table[key]
<1>1. key \in DOMAIN table /\ key.dst_ip # External
  BY DEF OutboundKeys
<1>2. \/ UNCHANGED table
      \/ \E k, session : table' = Emplace(k, session)
  BY DEF Next, Handler, vars, onPacketArrives, findSession, scanPool, markPort,
     createOutbound, createInbound, createSession, applyNat
<1>3. key \in DOMAIN table' /\ table'[key] = table[key]
  BY <1>1, <1>2 DEF Emplace
<1>4. QED
  BY <1>1, <1>3 DEF OutboundKeys

Mapped(port) == \E key \in OutboundKeys : table[key].external_port = port

\* A marked port is in the table, or on its way there.
Accounted ==
  \A port \in used :
    \/ Mapped(port)
    \/ \E t \in Thread : thread[t].at = "createOut" /\ thread[t].port = port

LEMMA AccountedStep ==
  ASSUME SingleCreator, IInv, Accounted, [Next]_vars
  PROVE  Accounted'
<1>1. thread \in [Thread -> Local]
  BY DEF IInv, TypeOK
<1>2. \A port : Mapped(port) => Mapped(port)'
  BY TableGrows DEF Mapped
<1>3. SUFFICES ASSUME NEW port \in used', ~ Mapped(port)'
               PROVE  \E u \in Thread : thread'[u].at = "createOut" /\ thread'[u].port = port
  BY DEF Accounted
<1>4. CASE port \notin used
  <2>1. PICK t \in Thread : markPort(t)
    BY <1>3, <1>4 DEF Next, Handler, vars, onPacketArrives, findSession, scanPool,
       createOutbound, createInbound, applyNat
  <2>2. thread'[t].at = "createOut" /\ thread'[t].port = port
    BY <1>1, <1>3, <1>4, <2>1 DEF markPort, Local
  <2>3. QED
    BY <2>2
<1>5. CASE port \in used
  <2>1. PICK u \in Thread : thread[u].at = "createOut" /\ thread[u].port = port
    BY <1>2, <1>3, <1>5 DEF Accounted
  <2>2. ~ createOutbound(u)
    <3>1. SUFFICES ASSUME createOutbound(u) PROVE FALSE
      OBVIOUS
    <3>2. /\ thread[u].key \notin DOMAIN table
          /\ thread[u].key.dst_ip # External
      BY <2>1, OutboundKey DEF IInv, PortOK, Creating
    <3>3. ~ Racing(u)
      BY <2>1, NoRace DEF IInv, HandsOK, Creating
    <3>4. /\ thread[u].key \in DOMAIN table'
          /\ table'[thread[u].key].external_port = port
      BY <2>1, <3>1, <3>2, <3>3 DEF createOutbound, createSession, Emplace, NewSession
    <3>5. Mapped(port)'
      BY <3>2, <3>4 DEF Mapped, OutboundKeys
    <3>6. QED
      BY <1>3, <3>5
  <2>3. thread'[u] = thread[u]
    BY <1>1, <2>1, <2>2 DEF Next, Handler, vars, onPacketArrives, findSession, scanPool,
       markPort, createOutbound, createInbound, applyNat
  <2>4. QED
    BY <2>1, <2>3
<1>6. QED
  BY <1>4, <1>5

(* No port is lost: every port that is marked used is bound to a flow, or   *)
(* in the hands of the thread that is binding it.                           *)
THEOREM PortsAreNotLost == SingleCreator => (Spec => []NoPortLost)
<1>1. SUFFICES ASSUME SingleCreator PROVE Spec => []NoPortLost
  OBVIOUS
<1>2. Init => Accounted
  BY DEF Init, Accounted
<1>3. IInv /\ Accounted /\ [Next]_vars => Accounted'
  BY <1>1, AccountedStep
<1>4. Accounted => NoPortLost
  BY DEF Accounted, NoPortLost, Mapped, OutboundKeys
<1>5. Spec => []IInv
  BY <1>1, InvHolds
<1>6. QED
  BY <1>2, <1>3, <1>4, <1>5, PTL DEF Spec
-----------------------------------------------------------------------------
(* Refinement.                                                             *)

\* The creation of an outbound entry binds its key to its port.
LEMMA BindStep ==
  ASSUME SingleCreator, IInv, NEW t \in Thread, createOutbound(t)
  PROVE  Abstract!Bind(thread[t].key, thread[t].port)
<1> DEFINE key == thread[t].key
           port == thread[t].port
<1>1. thread[t].at = "createOut"
  BY DEF createOutbound
<1>2. /\ key \notin DOMAIN table /\ key.dst_ip # External
      /\ \A k \in DOMAIN table : table[k].external_port # port
  BY <1>1, OutboundKey DEF IInv, PortOK, Creating
<1>3. ~ Racing(t)
  BY <1>1, NoRace DEF IInv, HandsOK, Creating
<1>4. /\ DOMAIN table' = DOMAIN table \cup {key}
      /\ table'[key].external_port = port
      /\ \A k \in DOMAIN table : table'[k] = table[k]
  BY <1>1, <1>2, <1>3 DEF createOutbound, createSession, Emplace, NewSession
<1> HIDE DEF key, port
<1>5. key \notin DOMAIN binding
  BY <1>2 DEF binding
<1>6. ~ Abstract!Bound(port)
  BY <1>2 DEF Abstract!Bound, binding
<1>7. binding' = [f \in DOMAIN binding \cup {key} |->
                   IF f = key THEN port ELSE binding[f]]
  <2>1. {k \in DOMAIN table' : k.dst_ip # External} = DOMAIN binding \cup {key}
    BY <1>2, <1>4 DEF binding
  <2>2. \A f \in DOMAIN binding \cup {key} :
          table'[f].external_port = IF f = key THEN port ELSE binding[f]
    BY <1>2, <1>4 DEF binding
  <2>3. QED
    BY <2>1, <2>2 DEF binding
<1>8. QED
  BY <1>5, <1>6, <1>7 DEF Abstract!Bind, key, port

\* No other step touches the outbound entries.
LEMMA StutterStep ==
  ASSUME SingleCreator, IInv, [Next]_vars, \A t \in Thread : ~ createOutbound(t)
  PROVE  UNCHANGED binding
<1>1. CASE UNCHANGED table
  BY <1>1 DEF binding
<1>2. ASSUME NEW t \in Thread, createInbound(t)
      PROVE  UNCHANGED binding
  <2> DEFINE return == returnKey(thread[t].key, thread[t].port)
  <2>1. return.dst_ip = External
    BY DEF returnKey
  <2>2. \/ UNCHANGED table
        \/ \E session : table' = Emplace(return, session)
    BY <1>2 DEF createInbound, createSession
  <2> HIDE DEF return
  <2>3. {k \in DOMAIN table' : k.dst_ip # External}
          = {k \in DOMAIN table : k.dst_ip # External}
    BY <2>1, <2>2 DEF Emplace
  <2>4. \A k \in DOMAIN table : table'[k] = table[k]
    BY <2>2 DEF Emplace
  <2>5. QED
    BY <2>3, <2>4 DEF binding
<1>3. QED
  BY <1>1, <1>2 DEF Next, Handler, vars, onPacketArrives, findSession, scanPool, markPort,
     applyNat

(* NatState implements NatBinding: the outbound entries of the table are a  *)
(* binding of flows to ports of their own that only ever grows.             *)
THEOREM Refinement == SingleCreator => (Spec => ImplementsBinding)
<1>1. SUFFICES ASSUME SingleCreator PROVE Spec => ImplementsBinding
  OBVIOUS
<1>2. Init => Abstract!Init
  BY DEF Init, Abstract!Init, binding
<1>3. IInv /\ [Next]_vars => [Abstract!Next]_binding
  <2>1. SUFFICES ASSUME IInv, [Next]_vars PROVE [Abstract!Next]_binding
    OBVIOUS
  <2>2. CASE \E t \in Thread : createOutbound(t)
    <3>1. PICK t \in Thread : createOutbound(t)
      BY <2>2
    <3>2. thread[t].key \in SessionFlowKey /\ thread[t].port \in Pool
      BY <2>1, <3>1 DEF IInv, TypeOK, HoldsItsLocals, createOutbound
    <3>3. QED
      BY <1>1, <2>1, <3>1, <3>2, BindStep DEF Abstract!Next
  <2>3. CASE \A t \in Thread : ~ createOutbound(t)
    BY <1>1, <2>1, <2>3, StutterStep
  <2>4. QED
    BY <2>2, <2>3
<1>4. Spec => []IInv
  BY <1>1, InvHolds
<1>5. QED
  BY <1>2, <1>3, <1>4, PTL DEF Spec, ImplementsBinding, Abstract!Spec
=============================================================================
