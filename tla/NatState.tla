------------------------------ MODULE NatState ------------------------------
(***************************************************************************)
(* NAT as the capture threads run it: the NAT part of onPacketArrives,     *)
(* class NatState with its NatSessionTable and PortPool, and applyNat.     *)
(*                                                                         *)
(* NatPolicy::nat_state is one object that every capture thread uses, and  *)
(* nothing locks it.  A step here is one access to the table, one          *)
(* iteration of the scan for a free port (its reads of next_ and used_), or*)
(* the writes that take the port found; all else is local to the thread.   *)
(* A lookup or an insertion that overlaps another thread's insertion is a  *)
(* data race on the hash map: it may miss an entry that is there, or get   *)
(* lost.  (It may also crash, after which there is nothing left to say.)   *)
(* Two threads that mark ports at a time may lose one of the marks.        *)
(*                                                                         *)
(* Sessions and ports are never given back: removeSession, eraseSession    *)
(* and release_port have no caller.                                        *)
(***************************************************************************)
EXTENDS Integers, FiniteSets

CONSTANTS
  Thread,         \* the capture threads
  Client,         \* addresses in 10.0.0.0/8
  Server,         \* addresses elsewhere
  External,       \* EXTERNAL_IP
  Port,           \* 16-bit port numbers and ICMP identifiers in use
  PoolStart,      \* configureNatState(10000, 20000)
  PoolEnd,
  Traffic,        \* the packets that clients and servers send of their own accord
  threadOf,       \* the thread of the interface that a source address is behind
  Natted,         \* <<source, destination>> pairs that a NAT policy matches;
                  \* nobody sends packets to itself
  None            \* no packet, key, port or session

Pool == PoolStart .. PoolEnd

\* Mutant: the last port is not part of the pool.
PoolSizeExclusive == PoolEnd - PoolStart

PoolSize == PoolEnd - PoolStart + 1

Address == Client \cup Server \cup {External}

\* An ICMP packet has one identifier, which stands for both ports.
Packet ==
  {p \in [protocol : {"TCP", "UDP", "ICMP"}, src_ip : Address, src_port : Port,
          dst_ip : Address, dst_port : Port] :
     p.protocol = "ICMP" => p.src_port = p.dst_port}

\* "PacketTrailer" is what getKeyFromPacket makes of all that is not TCP or ICMP.
SessionFlowKey ==
  [protocol : {"TCP", "ICMP", "PacketTrailer"}, src_ip : Address, src_port : Port,
   dst_ip : Address, dst_port : Port]

\* Of the two SessionFlows, the fields that applyNat reads and that vary.
NatSession == [internal_ip : Address, internal_port : Port, external_port : Pool]

ASSUME NatAssumption ==
  /\ PoolStart \in Nat /\ PoolEnd \in Nat /\ PoolStart <= PoolEnd
  /\ Pool \subseteq Port /\ Port \subseteq Nat
  /\ External \notin Client \cup Server
  /\ Client \cap Server = {}
  /\ Traffic \subseteq Packet
  /\ threadOf \in [Address -> Thread]
  /\ Natted \subseteq (Client \cup Server) \X Server
  /\ \A pair \in Natted : pair[1] # pair[2]
  /\ None \notin Packet \cup SessionFlowKey \cup Port \cup NatSession

\* All hosts whose packets are translated are behind one interface: then one
\* thread creates all sessions, and the others only look them up.
SingleCreator ==
  \A a, b \in Natted : threadOf[a[1]] = threadOf[b[1]]

VARIABLES
  table,    \* NatSessionTable::nat_sessions, a partial function on keys
  used,     \* PortPool::used_, as the set of the ports marked true
  next,     \* PortPool::next_
  thread,   \* the locals of each thread
  routed    \* history: [in, out] of every packet given to routePacket

vars == <<table, used, next, thread, routed>>

Place == {"idle", "find", "acquire", "mark", "createOut", "createIn", "apply"}

Local == [at : Place, packet : Packet \cup {None}, key : SessionFlowKey \cup {None},
          tried : 0 .. PoolSize - 1,      \* i of the loop in the scan
          port : Pool \cup {None}, session : NatSession \cup {None}]

Idle == [at |-> "idle", packet |-> None, key |-> None, tried |-> 0, port |-> None,
         session |-> None]

Translation == [in : Packet, out : Packet]

\* What a thread at each place holds.
HoldsItsLocals(t) ==
  LET l == thread[t]
  IN  /\ IF l.at = "idle" THEN l.packet = None
         ELSE l.packet \in Packet /\ l.key \in SessionFlowKey
      /\ l.at \in {"mark", "createOut", "createIn"} => l.port \in Pool
      /\ l.at \in {"createIn", "apply"} => l.session \in NatSession

TypeOK ==
  /\ DOMAIN table \subseteq SessionFlowKey
  /\ \A key \in DOMAIN table : table[key] \in NatSession
  /\ used \subseteq Pool
  /\ next \in Pool
  /\ thread \in [Thread -> Local]
  /\ \A t \in Thread : HoldsItsLocals(t)
  /\ routed \subseteq Translation

Init ==
  /\ table = [key \in {} |-> None]
  /\ used = {}
  /\ next = PoolStart
  /\ thread = [t \in Thread |-> Idle]
  /\ routed = {}
-----------------------------------------------------------------------------
\* A key of the packet.  UDP is neither TCP nor ICMP here, and the ports of its
\* key are never initialised: they are whatever the stack holds.
getKeyFromPacket(p) ==
  IF p.protocol # "UDP" THEN {p}
  ELSE {[p EXCEPT !.protocol = "PacketTrailer",
                  !.src_port = stack[1], !.dst_port = stack[2]] : stack \in Port \X Port}

isInternalNetwork(ip) == ip \in Client

Inbound(p) == p.dst_ip = External

Outbound(p) ==
  /\ ~ Inbound(p)
  /\ ~ isInternalNetwork(p.dst_ip)
  /\ <<p.src_ip, p.dst_ip>> \in Natted

Route(p, out) == routed' = routed \cup {[in |-> p, out |-> out]}

\* Some other thread is inside an insertion.
Racing(t) ==
  \E u \in Thread \ {t} : thread[u].at \in {"createOut", "createIn"}

\* The order of the branches: to the firewall's address, to the inside, out.
onPacketArrives(t, p) ==
  /\ thread[t].at = "idle"
  /\ threadOf[p.src_ip] = t
  /\ \/ /\ Inbound(p) \/ Outbound(p)
        /\ \E key \in getKeyFromPacket(p) :
             thread' = [thread EXCEPT
               ![t] = [Idle EXCEPT !.at = "find", !.packet = p, !.key = key]]
        /\ UNCHANGED routed
     \/ /\ ~ Inbound(p) /\ ~ Outbound(p)
        /\ Route(p, p)
        /\ UNCHANGED thread
  /\ UNCHANGED <<table, used, next>>

\* Mutant: only replies are looked up; a client's packet always gets a port.
FindOnlyReplies(t) ==
  /\ thread[t].at = "find"
  /\ \/ /\ Inbound(thread[t].packet)
        /\ thread[t].key \in DOMAIN table
        /\ thread' = [thread EXCEPT ![t].at = "apply",
                                    ![t].session = table[thread[t].key]]
     \/ /\ ~ Inbound(thread[t].packet)
        /\ thread' = [thread EXCEPT ![t].at = "acquire"]
  /\ UNCHANGED <<table, used, next, routed>>

\* Mutant: what is for the firewall's address is handed on without a lookup.
FindOnlyClients(t) ==
  /\ thread[t].at = "find"
  /\ \/ /\ Inbound(thread[t].packet)
        /\ Route(thread[t].packet, thread[t].packet)
        /\ thread' = [thread EXCEPT ![t] = Idle]
     \/ /\ ~ Inbound(thread[t].packet)
        /\ thread' = IF thread[t].key \in DOMAIN table
                     THEN [thread EXCEPT ![t].at = "apply",
                                         ![t].session = table[thread[t].key]]
                     ELSE [thread EXCEPT ![t].at = "acquire"]
        /\ UNCHANGED routed
  /\ UNCHANGED <<table, used, next>>

findSession(t) ==
  /\ thread[t].at = "find"
  /\ \/ /\ thread[t].key \in DOMAIN table
        /\ thread' = [thread EXCEPT ![t].at = "apply",
                                    ![t].session = table[thread[t].key]]
        /\ UNCHANGED routed
     \/ /\ thread[t].key \notin DOMAIN table \/ Racing(t)
        /\ \/ /\ Inbound(thread[t].packet)
              /\ Route(thread[t].packet, thread[t].packet)
              /\ thread' = [thread EXCEPT ![t] = Idle]
           \/ /\ ~ Inbound(thread[t].packet)
              /\ thread' = [thread EXCEPT ![t].at = "acquire"]
              /\ UNCHANGED routed
  /\ UNCHANGED <<table, used, next>>
-----------------------------------------------------------------------------
(* PortPool::acquire_free_port_number.                                     *)

\* used_[(next_ - start_ + i) % size] is the entry that iteration i looks at.
Scanned(i) == PoolStart + ((next - PoolStart + i) % PoolSize)

\* Every iteration reads next_ anew.  After the last, getOrCreateSession returns
\* nullptr, and the packet is routed as it came.
scanPool(t) ==
  LET i == thread[t].tried
      port == Scanned(i)
  IN  /\ thread[t].at = "acquire"
      /\ \/ /\ port \notin used
            /\ thread' = [thread EXCEPT ![t].at = "mark", ![t].tried = 0,
                                        ![t].port = port]
            /\ UNCHANGED routed
         \/ /\ port \in used /\ i + 1 < PoolSize
            /\ thread' = [thread EXCEPT ![t].tried = i + 1]
            /\ UNCHANGED routed
         \/ /\ port \in used /\ i + 1 = PoolSize
            /\ Route(thread[t].packet, thread[t].packet)
            /\ thread' = [thread EXCEPT ![t] = Idle]
      /\ UNCHANGED <<table, used, next>>

\* Mutant: next_ moves on, used_ stays.
MarkNothing(t) ==
  /\ thread[t].at = "mark"
  /\ next' = PoolStart + ((thread[t].port - PoolStart + 1) % PoolSize)
  /\ thread' = [thread EXCEPT ![t].at = "createOut"]
  /\ UNCHANGED <<table, used, routed>>

\* Mutant: next_ does not wrap.
MarkWithoutWrap(t) ==
  /\ thread[t].at = "mark"
  /\ used' = used \cup {thread[t].port}
  /\ next' = thread[t].port + 1
  /\ thread' = [thread EXCEPT ![t].at = "createOut"]
  /\ UNCHANGED <<table, routed>>

\* used_ packs its flags into words: a write that overlaps another thread's
\* write to the same word may be overwritten by it.
markPort(t) ==
  /\ thread[t].at = "mark"
  /\ \/ used' = used \cup {thread[t].port}
     \/ (\E u \in Thread \ {t} : thread[u].at = "mark") /\ UNCHANGED used
  /\ next' = PoolStart + ((thread[t].port - PoolStart + 1) % PoolSize)
  /\ thread' = [thread EXCEPT ![t].at = "createOut"]
  /\ UNCHANGED <<table, routed>>
-----------------------------------------------------------------------------
(* The rest of getOrCreateSession, with the session it has just built.     *)

NewSession(key, port) ==
  [internal_ip |-> key.src_ip, internal_port |-> key.src_port,
   external_port |-> port]

\* Mutant: without the fix for ICMP.
ReturnToServerPort(key, port) ==
  [protocol |-> key.protocol, src_ip |-> key.dst_ip, src_port |-> key.dst_port,
   dst_ip |-> External, dst_port |-> port]

\* The server sends an ICMP identifier back as it got it; a TCP server's own
\* port does not change.
returnKey(key, port) ==
  [protocol |-> key.protocol,
   src_ip   |-> key.dst_ip,
   src_port |-> IF key.protocol = "ICMP" THEN port ELSE key.dst_port,
   dst_ip   |-> External,
   dst_port |-> port]

\* unordered_map::emplace: an entry that is there stays.
Emplace(key, session) ==
  [k \in DOMAIN table \cup {key} |-> IF k \in DOMAIN table THEN table[k] ELSE session]

createSession(t, key, session) ==
  \/ table' = Emplace(key, session)
  \/ Racing(t) /\ UNCHANGED table

\* Mutant: the outbound entry has source and destination swapped.
CreateSwapped(t) ==
  LET key == thread[t].key
      session == NewSession(key, thread[t].port)
  IN  /\ thread[t].at = "createOut"
      /\ createSession(t, [key EXCEPT !.src_ip = key.dst_ip, !.src_port = key.dst_port,
                                      !.dst_ip = key.src_ip, !.dst_port = key.src_port],
                       session)
      /\ thread' = [thread EXCEPT ![t].at = "createIn", ![t].session = session]
      /\ UNCHANGED <<used, next, routed>>

createOutbound(t) ==
  LET key == thread[t].key
      session == NewSession(key, thread[t].port)
  IN  /\ thread[t].at = "createOut"
      /\ createSession(t, key, session)
      /\ thread' = [thread EXCEPT
           ![t].at = "createIn",
           ![t].session = IF key \in DOMAIN table THEN table[key] ELSE session]
      /\ UNCHANGED <<used, next, routed>>

\* The session that is returned is the stored one, not the one inserted here.
createInbound(t) ==
  LET key == thread[t].key
      port == thread[t].port
  IN  /\ thread[t].at = "createIn"
      /\ createSession(t, returnKey(key, port), NewSession(key, port))
      /\ thread' = [thread EXCEPT ![t].at = "apply"]
      /\ UNCHANGED <<used, next, routed>>

\* Outbound is what comes from the session's client; all else is a reply.
Translate(session, p) ==
  IF p.src_ip = session.internal_ip
  THEN [p EXCEPT !.src_ip = External,
                 !.src_port = session.external_port,
                 !.dst_port = IF p.protocol = "ICMP" THEN session.external_port ELSE @]
  ELSE [p EXCEPT !.dst_ip = session.internal_ip,
                 !.dst_port = session.internal_port,
                 !.src_port = IF p.protocol = "ICMP" THEN session.internal_port ELSE @]

applyNat(t) ==
  /\ thread[t].at = "apply"
  /\ Route(thread[t].packet, Translate(thread[t].session, thread[t].packet))
  /\ thread' = [thread EXCEPT ![t] = Idle]
  /\ UNCHANGED <<table, used, next>>
-----------------------------------------------------------------------------
\* A server answers a packet that reached it, to where it came from.
Reply(p) ==
  [protocol |-> p.protocol, src_ip |-> p.dst_ip, src_port |-> p.dst_port,
   dst_ip |-> p.src_ip, dst_port |-> p.src_port]

Arriving ==
  Traffic \cup {Reply(r.out) : r \in {x \in routed : x.out.dst_ip \in Server}}

Handler(t) ==
  \/ findSession(t) \/ scanPool(t) \/ markPort(t)
  \/ createOutbound(t) \/ createInbound(t) \/ applyNat(t)

Next ==
  \/ \E t \in Thread, p \in Arriving : onPacketArrives(t, p)
  \/ \E t \in Thread : Handler(t)

Spec == Init /\ [][Next]_vars
-----------------------------------------------------------------------------
Tracked(p) == p.protocol # "UDP"

\* The outbound packets that left with the firewall's address.
Translated == {r \in routed : Outbound(r.in) /\ r.out.src_ip = External}

(* A server can tell the clients apart: no two flows of TCP or ICMP leave   *)
(* with the same public address and port towards the same server.           *)
PublicFlowsDiffer ==
  \A r, s \in Translated :
    Tracked(r.in) /\ Tracked(s.in) /\ r.out = s.out => r.in = s.in

(* A flow is never given a second public port, also not when its first two  *)
(* packets, or a reply and the creation of another session, interleave.     *)
FlowsKeepTheirPort ==
  \A r, s \in Translated : Tracked(r.in) /\ r.in = s.in => r.out = s.out

(* The way back is there before a packet is on its way: the return entry    *)
(* for its reply is in the table and holds the sender's address and port,   *)
(* also where the ports are an ICMP identifier.  (RepliesComeBack is about  *)
(* what a lookup makes of the entry.)                                       *)
ReplyReachesClient ==
  \A r \in Translated :
    Tracked(r.in) =>
      LET reply == Reply(r.out)
      IN  /\ reply \in DOMAIN table
          /\ Translate(table[reply], reply) = Reply(r.in)

\* What t's step does to the reply that it has in hand, to what r put out: the
\* lookup finds the session, or overlaps another thread's insertion; then the
\* packet goes on as the reply to what the client had sent.
TranslatesBack(t, r) ==
  \/ /\ thread[t].at = "find"
     /\ thread'[t].at = "apply" \/ Racing(t)
  \/ /\ thread[t].at = "apply"
     /\ [in |-> Reply(r.out), out |-> Reply(r.in)] \in routed'

(* A reply to a packet that has left goes to the client and port that had   *)
(* sent it, unless its lookup overlaps the insertion of another session:    *)
(* then nothing can be said, for it may be handed on as it came.            *)
RepliesComeBack ==
  [][\A t \in Thread, r \in Translated :
       Tracked(r.in) /\ thread[t].packet = Reply(r.out) /\ thread'[t] # thread[t] =>
         TranslatesBack(t, r)]_vars

(* No port of the pool is lost, which matters because none is given back:   *)
(* one that is marked used is the port of a flow's session, or in the hands *)
(* of the thread that is creating one.                                      *)
NoPortLost ==
  \A port \in used :
    \/ \E key \in DOMAIN table :
         key.dst_ip # External /\ table[key].external_port = port
    \/ \E t \in Thread : thread[t].port = port

(* A client's own address leaks to the outside only when every port of the  *)
(* pool is in use.                                                          *)
LeakOnlyWhenExhausted ==
  \A r \in routed : Outbound(r.in) /\ r.out.src_ip # External => Pool \subseteq used

(* "For TCP/UDP the server's port does not change": the return key is meant *)
(* to match the replies to UDP packets too, so that each is translated back *)
(* to the sender of the packet it answers.                                  *)
RepliesAreTranslated ==
  \A r \in Translated, s \in routed :
    s.in = Reply(r.out) => s.out = Reply(r.in)

\* The outbound half of the table, as the abstract binding.
binding ==
  [key \in {k \in DOMAIN table : k.dst_ip # External} |-> table[key].external_port]

Abstract == INSTANCE NatBinding WITH Flow <- SessionFlowKey, Port <- Pool,
                                     binding <- binding

(* The table's entries are a binding of flows to ports of their own, and    *)
(* every step extends it by one flow and a port nobody has, or keeps it.    *)
ImplementsBinding == Abstract!Spec
=============================================================================
