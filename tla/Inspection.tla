----------------------------- MODULE Inspection -----------------------------
(***************************************************************************)
(* onPacketArrives from the capture to routePacket: the layer 2 filter,    *)
(* the security policies, the scans of their profiles, the reset that a    *)
(* blocked segment is answered with, and then NatState, whose steps this   *)
(* module takes as they are.  It adds to them what NatState leaves out:    *)
(* the hash context that each session points to.                           *)
(*                                                                         *)
(* Session has a destructor that frees the context and a copy constructor  *)
(* that copies the pointer, so every copy that goes out of scope frees it. *)
(* Using or freeing freed memory is undefined: the process crashes, or the *)
(* call does nothing (a freed context is cleansed, its digest calls fail), *)
(* or the memory is a new session's by then, whose context it hits.        *)
(***************************************************************************)
EXTENDS Policies

CONSTANTS
  Thread, Client, Server, External, Port, PoolStart, PoolEnd, threadOf, None,
                  \* as in NatState
  Frame,          \* frames that may be on the wire
  Traffic,        \* those that are
  mac,            \* the MAC address of each thread's interface
  Broadcast,      \* the MAC address of everybody
  Http, Https,    \* 80 and 443
  Profile,        \* the security profiles of the configuration
  security_policies, nat_policies,   \* of the configuration, in their order
  Natted,         \* <<source, destination>> pairs that a NAT policy matches
  Body,           \* payloads
  Garbled,        \* what a race makes of them
  Ctx,            \* memory for hash contexts
  SeqModulus      \* sequence numbers are uint32_t: 2^32 in the program

VARIABLES
  table, used, next, thread, routed,   \* as in NatState
  callback,       \* the other locals of each thread
  context,        \* am_sha256_ctx of each session in the table
  live,           \* the contexts that are allocated
  digest,         \* what each context has been fed since its last init
  verdict,        \* history: what became of each frame
  resets,         \* history: the resets given to sendPacket
  console,        \* stdout is locked by a thread that does not run
  alive           \* the process has not crashed

natVars == <<table, used, next, thread, routed>>
inspectionVars == <<natVars, callback, context, live, digest, verdict, resets,
                    console, alive>>

Flows == {f.flow : f \in {g \in Traffic : g.type = "IPv4"}}

NAT == INSTANCE NatState WITH Traffic <- Flows

\* A frame has the fields that its layers give it; only TCP has seq to flags.
\* app is what the payload parses as, host the name in it (a Host header or a
\* server name), body what is hashed of it, len its length.
FrameFields(f) ==
  /\ f.in \in Thread
  /\ f.type \in {"ARP", "IPv4", "other"}
  /\ f.type = "IPv4" => /\ f.flow \in NAT!Packet
                        /\ threadOf[f.flow.src_ip] = f.in
                        /\ f.body \in Body \cup {None}
  /\ f.type = "IPv4" /\ f.flow.protocol = "TCP" =>
       /\ f.seq \in 0 .. SeqModulus - 1
       /\ f.ack \in 0 .. SeqModulus - 1
       /\ f.len \in 0 .. SeqModulus - 1
       /\ f.flags \subseteq {"SYN", "ACK", "FIN"}

\* The loop over the NAT policies.
matchesPolicy(src, dst) ==
  \E k \in DOMAIN nat_policies : does_match_policy(nat_policies[k], src, dst)

\* What a policy may say.
Judgement == [action : {"Allow", "Deny"}, security_profiles : Seq(Profile)]

ASSUME InspectionAssumption ==
  /\ NAT!NatAssumption
  /\ Natted = {pair \in (Client \cup Server) \X Server :
                 pair[1] # pair[2] /\ matchesPolicy(pair[1], pair[2])}
  /\ Traffic \subseteq Frame
  /\ \A f \in Frame : FrameFields(f)
  /\ security_policies \in Seq(Range(security_policies))
  /\ \A k \in DOMAIN security_policies :
       /\ security_policies[k].action \in {"Allow", "Deny"}
       /\ security_policies[k].security_profiles \in Seq(Profile)
  /\ NoVerdict \notin Judgement
  /\ SeqModulus \in Nat \ {0}
  /\ None \notin Ctx \cup Frame \cup Body /\ None \notin {0, 1}
  /\ Garbled \notin Body

Place == {"idle", "policy", "lookup", "scan", "update", "final", "block", "pass", "nat"}

\* ctx: of the session that is scanned, or built.  stored: of the session that
\* getOrCreateSession returns.  owed: the copies that go out of scope next.
Idle == [at |-> "idle", frame |-> None, profiles |-> <<>>, ctx |-> None,
         stored |-> None, owed |-> <<>>]

Init ==
  /\ NAT!Init
  /\ callback = [t \in Thread |-> Idle]
  /\ context = [key \in {} |-> None]
  /\ live = {}
  /\ digest = [c \in Ctx |-> <<>>]
  /\ verdict = [f \in Traffic |-> "none"]
  /\ resets = {}
  /\ console = FALSE
  /\ alive = TRUE

At(t, place) == alive /\ callback[t].at = place

CanPrint == ~ console

End(t, what) ==
  /\ callback' = [callback EXCEPT ![t] = Idle]
  /\ verdict' = [verdict EXCEPT ![callback[t].frame] = what]

Goto(t, place) == [callback EXCEPT ![t].at = place]
-----------------------------------------------------------------------------
(* onPacketArrives: the layer 2 filter and the loop over the policies.     *)

\* For this interface or for everybody, and not an own frame come back.
ForMe(f) ==
  /\ f.dst_mac \in {mac[f.in], Broadcast}
  /\ f.src_mac # mac[f.in]

\* What is not for this interface is dropped, an ARP packet is RoutingEngine's:
\* neither leaves a trace here.  A device hands each IPv4 packet over once.
onPacketArrives(t, f) ==
  /\ At(t, "idle")
  /\ f.in = t
  /\ \/ /\ ~ ForMe(f) \/ f.type # "IPv4"
        /\ UNCHANGED callback
     \/ /\ ForMe(f) /\ f.type = "IPv4"
        /\ verdict[f] = "none"
        /\ callback' = [callback EXCEPT ![t].at = "policy", ![t].frame = f]
  /\ UNCHANGED <<natVars, context, live, digest, verdict, resets, console, alive>>

\* The policies do not change, so nor does what they say of a frame.
VerdictOn ==
  [f \in {g \in Traffic : g.type = "IPv4"} |->
     Verdict(security_policies, f.flow.src_ip, f.flow.dst_ip)]

\* Denying, and copying the profiles, both write to the console.
evaluatePolicies(t) ==
  LET first == VerdictOn[callback[t].frame]
  IN  /\ At(t, "policy")
      /\ \/ /\ first = NoVerdict
            /\ callback' = Goto(t, "pass")
            /\ UNCHANGED verdict
         \/ /\ first # NoVerdict /\ first.action = "Deny" /\ CanPrint
            /\ End(t, "denied")
         \/ /\ first # NoVerdict /\ first.action = "Allow" /\ CanPrint
            /\ callback' = [Goto(t, "lookup") EXCEPT
                              ![t].profiles = first.security_profiles]
            /\ UNCHANGED verdict
      /\ UNCHANGED <<natVars, context, live, digest, resets, console, alive>>

\* Mutant: a session is made for the scan if there is none.
FindOrCreate(t) ==
  /\ At(t, "lookup")
  /\ \E key \in NAT!getKeyFromPacket(callback[t].frame.flow) :
       /\ table' = NAT!Emplace(key, NAT!NewSession(key, PoolStart))
       /\ context' = [k \in DOMAIN table' |-> IF k \in DOMAIN context THEN context[k]
                                             ELSE None]
       /\ callback' = [Goto(t, "scan") EXCEPT ![t].ctx = context'[key]]
  /\ UNCHANGED <<used, next, thread, routed, live, digest, verdict, resets, console, alive>>

\* Mutant: what has no session yet is not scanned.
FindOrPass(t) ==
  /\ At(t, "lookup")
  /\ \E key \in NAT!getKeyFromPacket(callback[t].frame.flow) :
       callback' = IF key \in DOMAIN table
                   THEN [Goto(t, "scan") EXCEPT ![t].ctx = context[key]]
                   ELSE Goto(t, "pass")
  /\ UNCHANGED <<natVars, context, live, digest, verdict, resets, console, alive>>

\* Without a session there is nothing to hash into: None, also when the lookup
\* misses the entry because another thread is inserting.
findSession(t) ==
  /\ At(t, "lookup")
  /\ \E key \in NAT!getKeyFromPacket(callback[t].frame.flow) :
       \/ /\ key \in DOMAIN table
          /\ callback' = [Goto(t, "scan") EXCEPT ![t].ctx = context[key]]
       \/ /\ key \notin DOMAIN table \/ NAT!Racing(t)
          /\ callback' = Goto(t, "scan")
  /\ UNCHANGED <<natVars, context, live, digest, verdict, resets, console, alive>>
-----------------------------------------------------------------------------
(* The scans, profile by profile.                                          *)

Scans(t, kind) ==
  /\ At(t, "scan")
  /\ callback[t].profiles # <<>>
  /\ Head(callback[t].profiles).kind = kind

NextProfile(t) ==
  [callback EXCEPT ![t].at = "scan", ![t].profiles = Tail(@)]

\* The name in an HTTP request to port 80 or in a ClientHello to port 443.
Listed(profile, f) ==
  /\ f.flow.protocol = "TCP"
  /\ \/ f.flow.dst_port = Http /\ f.app = "HTTPRequest"
     \/ f.flow.dst_port = Https /\ f.app = "ClientHello"
  /\ f.host \in profile.list

UrlFilteringProfile_scan(t) ==
  /\ Scans(t, "url")
  /\ callback' = IF Listed(Head(callback[t].profiles), callback[t].frame)
                 THEN Goto(t, "block") ELSE NextProfile(t)
  /\ UNCHANGED <<natVars, context, live, digest, verdict, resets, console, alive>>

HasFin(f) == f.flow.protocol = "TCP" /\ "FIN" \in f.flags

\* Payload is hashed, and at a FIN the hash is taken.  An empty payload, ICMP,
\* or a context that could not be allocated leave nothing to do.
AntimalwareProfile_scan(t) ==
  LET f == callback[t].frame
      hashes == callback[t].ctx # None /\ f.flow.protocol # "ICMP"
  IN  /\ Scans(t, "antimalware")
      /\ \/ /\ hashes /\ f.body # None
            /\ callback' = Goto(t, "update")
         \/ /\ hashes /\ f.body = None /\ HasFin(f)
            /\ callback' = Goto(t, "final")
         \/ /\ ~ hashes \/ (f.body = None /\ ~ HasFin(f))
            /\ callback' = NextProfile(t)
      /\ UNCHANGED <<natVars, context, live, digest, verdict, resets, console, alive>>

\* Another thread is inside a digest call on the same context.
Contended(t) ==
  \E u \in Thread \ {t} :
    callback[u].at \in {"update", "final"} /\ callback[u].ctx = callback[t].ctx

updateAntimalwareHash(t) ==
  LET c == callback[t].ctx
      f == callback[t].frame
  IN  /\ At(t, "update")
      /\ \/ /\ c \in live
            /\ \E b \in {f.body} \cup (IF Contended(t) THEN {Garbled} ELSE {}) :
                 digest' = [digest EXCEPT ![c] = Append(@, b)]
         \/ c \notin live /\ UNCHANGED digest
      /\ callback' = IF HasFin(f) THEN Goto(t, "final") ELSE NextProfile(t)
      /\ UNCHANGED <<natVars, context, live, verdict, resets, console, alive>>

\* A hash stands for what was hashed.  After it the context starts anew.  What a
\* freed context or a race gives is no hash of anything.
finalizeAntimalwareHash(t) ==
  LET c == callback[t].ctx
  IN  /\ At(t, "final")
      /\ \/ /\ c \in live
            /\ callback' = IF digest[c] \in Head(callback[t].profiles).list
                           THEN Goto(t, "block") ELSE NextProfile(t)
            /\ digest' = [digest EXCEPT ![c] = <<>>]
         \/ /\ c \notin live \/ Contended(t)
            /\ callback' = NextProfile(t)
            /\ UNCHANGED digest
      /\ UNCHANGED <<natVars, context, live, verdict, resets, console, alive>>

\* Mutant: only data counts, not the SYN or FIN.
PayloadEnd(f) == (f.seq + f.len) % SeqModulus

\* The acknowledgement number of a reset.
newAck(f) ==
  (f.seq + f.len + (IF "SYN" \in f.flags \/ "FIN" \in f.flags THEN 1 ELSE 0))
    % SeqModulus

sendTcpRst(f) ==
  [out |-> f.in, to |-> f.src_mac,
   src_ip |-> f.flow.dst_ip, src_port |-> f.flow.dst_port,
   dst_ip |-> f.flow.src_ip, dst_port |-> f.flow.src_port,
   seq |-> IF "ACK" \in f.flags THEN f.ack ELSE 0,
   ack |-> newAck(f)]

\* That sendPacket fails is only logged.
block(t) ==
  LET f == callback[t].frame
  IN  /\ At(t, "block") /\ CanPrint
      /\ resets' = IF f.flow.protocol = "TCP"
                   THEN resets \cup {[frame |-> f, reset |-> sendTcpRst(f)]}
                   ELSE resets
      /\ End(t, "blocked")
      /\ UNCHANGED <<natVars, context, live, digest, console, alive>>

noMoreProfiles(t) ==
  /\ At(t, "scan")
  /\ callback[t].profiles = <<>>
  /\ callback' = [Goto(t, "pass") EXCEPT ![t].ctx = None]
  /\ UNCHANGED <<natVars, context, live, digest, verdict, resets, console, alive>>
-----------------------------------------------------------------------------
(* NatState's steps, with the copies of sessions they make.                *)

\* routePacket ends NatState's part and the callback.
Continue(t, locals) ==
  IF thread'[t].at = "idle"
  THEN End(t, "routed")
  ELSE callback' = [callback EXCEPT ![t] = locals] /\ UNCHANGED verdict

\* An ICMP packet is logged on its way.
CanLog(t) == callback[t].frame.flow.protocol = "ICMP" => CanPrint

enterNat(t) ==
  /\ At(t, "pass") /\ CanLog(t)
  /\ NAT!onPacketArrives(t, callback[t].frame.flow)
  /\ Continue(t, [callback[t] EXCEPT !.at = "nat"])
  /\ UNCHANGED <<context, live, digest, resets, console, alive>>

InNat(t) == At(t, "nat") /\ callback[t].owed = <<>>

\* applyNat takes the session it is given by value: one copy.
natFindSession(t) ==
  /\ InNat(t)
  /\ NAT!findSession(t)
  /\ Continue(t, [callback[t] EXCEPT
       !.owed = IF thread'[t].at = "apply" THEN <<context[thread[t].key]>> ELSE <<>>])
  /\ UNCHANGED <<context, live, digest, resets, console, alive>>

scanPool(t) ==
  /\ InNat(t)
  /\ NAT!scanPool(t)
  /\ Continue(t, callback[t])
  /\ UNCHANGED <<context, live, digest, resets, console, alive>>

\* The port is marked and the session built; its context is new memory, or null
\* where none is left.
constructSession(t) ==
  /\ InNat(t)
  /\ NAT!markPort(t)
  /\ \/ \E c \in Ctx \ live :
          /\ live' = live \cup {c}
          /\ digest' = [digest EXCEPT ![c] = <<>>]
          /\ Continue(t, [callback[t] EXCEPT !.ctx = c])
     \/ /\ Ctx \subseteq live
        /\ Continue(t, callback[t])
        /\ UNCHANGED <<live, digest>>
  /\ UNCHANGED <<context, resets, console, alive>>

\* The entries that an insertion adds point to the context of the session built.
Points(c) ==
  context' = [key \in DOMAIN table' |->
                IF key \in DOMAIN context THEN context[key] ELSE c]

\* createSession's parameter is a copy, and goes out of scope as it returns.
createOutbound(t) ==
  LET c == callback[t].ctx
      key == thread[t].key
  IN  /\ InNat(t)
      /\ NAT!createOutbound(t)
      /\ Points(c)
      /\ Continue(t, [callback[t] EXCEPT
           !.stored = IF key \in DOMAIN table THEN context[key] ELSE c,
           !.owed = <<c>>])
      /\ UNCHANGED <<live, digest, resets, console, alive>>

\* The parameter again, the session that was built, and applyNat's copy of the
\* one that was stored.
createInbound(t) ==
  LET c == callback[t].ctx
  IN  /\ InNat(t) /\ CanPrint
      /\ NAT!createInbound(t)
      /\ Points(c)
      /\ Continue(t, [callback[t] EXCEPT !.owed = <<c, c, callback[t].stored>>])
      /\ UNCHANGED <<live, digest, resets, console, alive>>

\* ~Session: a context that is not live is somebody else's memory, or nobody's.
destroySession(t) ==
  /\ At(t, "nat")
  /\ callback[t].owed # <<>>
  /\ live' = live \ {Head(callback[t].owed)}
  /\ callback' = [callback EXCEPT ![t].owed = Tail(@)]
  /\ UNCHANGED <<natVars, context, digest, verdict, resets, console, alive>>

\* The copy that applyNat destroys on return is of no use to what it does.
applyNat(t) ==
  /\ InNat(t) /\ CanLog(t)
  /\ NAT!applyNat(t)
  /\ Continue(t, callback[t])
  /\ UNCHANGED <<context, live, digest, resets, console, alive>>

\* A call on a freed context, or on one that another thread is busy with, or a
\* second free.
Undefined(t) ==
  \/ /\ callback[t].at \in {"update", "final"}
     /\ callback[t].ctx \notin live \/ Contended(t)
  \/ callback[t].owed # <<>> /\ Head(callback[t].owed) \notin live \cup {None}

crash(t) ==
  /\ alive /\ Undefined(t)
  /\ alive' = FALSE
  /\ UNCHANGED <<natVars, callback, context, live, digest, verdict, resets, console>>

Handler(t) ==
  \/ evaluatePolicies(t) \/ findSession(t) \/ UrlFilteringProfile_scan(t)
  \/ AntimalwareProfile_scan(t) \/ updateAntimalwareHash(t)
  \/ finalizeAntimalwareHash(t) \/ block(t) \/ noMoreProfiles(t)
  \/ enterNat(t) \/ natFindSession(t) \/ scanPool(t) \/ constructSession(t)
  \/ createOutbound(t) \/ createInbound(t) \/ destroySession(t) \/ applyNat(t)
  \/ crash(t)
-----------------------------------------------------------------------------
ThreadLocals(t) ==
  LET l == callback[t]
  IN  /\ l.at \in Place
      /\ l.frame \in Traffic \cup {None}
      /\ l.at # "idle" => l.frame \in {f \in Traffic : f.type = "IPv4"}
      /\ l.ctx \in Ctx \cup {None}
      /\ l.at \in {"update", "final"} => l.ctx \in Ctx
      /\ l.stored \in Ctx \cup {None}
      /\ l.owed \in Seq(Ctx \cup {None})
      /\ thread[t].at # "idle" => l.at = "nat"

InspectionTypeOK ==
  /\ NAT!TypeOK
  /\ DOMAIN callback = Thread
  /\ \A t \in Thread : ThreadLocals(t)
  /\ context \in [DOMAIN table -> Ctx \cup {None}]
  /\ live \subseteq Ctx
  /\ digest \in [Ctx -> Seq(Body \cup {Garbled})]
  /\ verdict \in [Traffic -> {"none", "denied", "blocked", "routed"}]
  /\ \A r \in resets : r.frame \in Traffic
  /\ console \in BOOLEAN
  /\ alive \in BOOLEAN

(* What the packet alone decides: the first policy about it, and the names  *)
(* that the policy's URL profiles list.                                     *)
About(f) ==
  {k \in DOMAIN security_policies :
     does_match_policy(security_policies[k], f.flow.src_ip, f.flow.dst_ip)}

First(f) == security_policies[Min(About(f))]

Denied(f) == About(f) # {} /\ First(f).action = "Deny"

Profiles(f, kind) ==
  {profile \in IF About(f) = {} THEN {} ELSE Range(First(f).security_profiles) :
     profile.kind = kind}

NameListed(f) == \E profile \in Profiles(f, "url") : Listed(profile, f)

\* IPv4 packets for this interface.
ToBeDecided == {f \in Traffic : f.type = "IPv4" /\ ForMe(f)}

Deniable == {f \in ToBeDecided : Denied(f)}

Passable == {f \in ToBeDecided : ~ Denied(f) /\ ~ NameListed(f)}

\* Of an antimalware profile's packets only a FIN may be blocked.
Blockable ==
  {f \in ToBeDecided :
     /\ ~ Denied(f)
     /\ NameListed(f) \/ (Profiles(f, "antimalware") # {} /\ HasFin(f))}

Decisions == INSTANCE Filter WITH Packet <- Traffic, decision <- verdict

(* Whatever the threads interleave, and whatever freed hash contexts do: a  *)
(* packet is decided once; one that a policy denies, or whose name a URL    *)
(* profile of its policy lists, is never routed, with a session or without; *)
(* and no other packet is refused, except a FIN under an antimalware        *)
(* profile.                                                                 *)
ImplementsFilter == Decisions!Spec

(* A refused packet costs no port: the table has sessions only of packets   *)
(* that were routed, or that passed the scans and are on their way.  Ports  *)
(* are never given back, so this is what keeps the pool for the others.     *)
(* (Left out are UDP packets, whose keys have ports of their own making.)   *)
RefusedLeaveNoTrace ==
  \A key \in DOMAIN table :
    key.dst_ip # External /\ key.protocol # "PacketTrailer" =>
      \E f \in Traffic :
        /\ f.type = "IPv4" /\ f.flow = key
        /\ \/ verdict[f] = "routed"
           \/ callback[f.in].at = "nat" /\ callback[f.in].frame = f

(* A blocked segment's sender accepts the reset: it comes in where the      *)
(* segment went out, from the peer, at the next number the sender expects;  *)
(* where the sender expects none yet, it acknowledges all that the segment  *)
(* takes up, SYN, FIN and payload, also where the numbers wrap around.  (No *)
(* segment of TCP has both SYN and FIN.)                                    *)
ResetIsAccepted ==
  \A r \in resets :
    LET f == r.frame
        takesUp == f.len + Cardinality(f.flags \cap {"SYN", "FIN"})
    IN  /\ verdict[f] = "blocked"
        /\ r.reset.out = f.in /\ r.reset.to = f.src_mac
        /\ NAT!Reply(f.flow) = [protocol |-> "TCP",
              src_ip |-> r.reset.src_ip, src_port |-> r.reset.src_port,
              dst_ip |-> r.reset.dst_ip, dst_port |-> r.reset.dst_port]
        /\ "ACK" \in f.flags => r.reset.seq = f.ack
        /\ r.reset.ack \in 0 .. SeqModulus - 1
        /\ ~ {"SYN", "FIN"} \subseteq f.flags =>
             \E wraps \in 0 .. 1 : f.seq + takesUp = r.reset.ack + wraps * SeqModulus

(* "Try to find existing session for stateful inspection": a session that a *)
(* lookup has found still has the hash context it is scanned into.          *)
FoundSessionHasItsContext ==
  \A t \in Thread :
    callback[t].at \in {"update", "final"} => callback[t].ctx \in live
=============================================================================
