--------------------------- MODULE FirewallProofs ---------------------------
(***************************************************************************)
(* Proofs about Firewall, for any threads, devices, policies and packets.  *)
(***************************************************************************)
EXTENDS Firewall, SequenceTheorems, FiniteSetTheorems, WellFoundedInduction, TLAPS

Busy(d) == callback[d].at # "idle"

\* A device is never twice in gInterfaces, so none is started twice; what is
\* open, or busy, is in it.
ListOK ==
  /\ DOMAIN callback = Thread
  /\ gInterfaces \in Seq(Thread)
  /\ \A i, j \in 1 .. Len(gInterfaces) : gInterfaces[i] = gInterfaces[j] => i = j
  /\ device \in [Device -> {"closed", "open", "capturing", "stopping"}]
  /\ \A d \in Device :
       device[d] # "closed" \/ (d \in Thread /\ Busy(d)) =>
         \E i \in 1 .. Len(gInterfaces) : gInterfaces[i] = d

\* main's loops: what is before and behind the index.
MainOK ==
  /\ main.index \in Nat \ {0}
  /\ DOMAIN main = {"at", "index"}
  /\ main.at \in {"open", "start", "print", "close"} => main.index <= Len(gInterfaces)
  /\ main.at \in {"load", "collect"} => \A d \in Device : device[d] = "closed"
  /\ main.at = "load" => gInterfaces = <<>>
  /\ main.at = "wait" => main.index = 1
  /\ main.at = "open" =>
       \A i \in main.index .. Len(gInterfaces) : device[gInterfaces[i]] = "closed"
  /\ main.at = "start" => device[gInterfaces[main.index]] = "open"
  /\ main.at \in {"start", "print"} =>
       \A i \in main.index + 1 .. Len(gInterfaces) : device[gInterfaces[i]] = "closed"
  /\ main.at = "close" =>
       \A i \in 1 .. main.index - 1 : device[gInterfaces[i]] = "closed"

Good(d) == device[d] = "capturing" \/ Busy(d) => d \in late

\* The handler's walk: what it has passed is stopped or was started late.
HandlerOK ==
  /\ handler.index \in Nat \ {0}
  /\ handler.at \in {"none", "walk", "done"}
  /\ DOMAIN handler = {"at", "index"}
  /\ stopSignal <=> handler.at # "none"
  /\ main.at = "close" => handler.at = "done"
  /\ main.at = "done" => handler.at # "walk"
  /\ \A d \in Thread : device[d] = "stopping" =>
       /\ handler.at = "walk"
       /\ handler.index <= Len(gInterfaces)
       /\ gInterfaces[handler.index] = d
  /\ \A d \in Thread : Busy(d) => device[d] \in {"capturing", "stopping"} \/ d \in late
  /\ handler.at = "walk" =>
       \A i \in 1 .. Len(gInterfaces) : i < handler.index => Good(gInterfaces[i])
  /\ handler.at = "done" => \A d \in Thread : Good(d)

ReturnOK ==
  /\ returned # None => main.at = "done"
  /\ returned = 0 => \A d \in Device : device[d] = "closed"
  /\ returned = 1 => refused # {}

LifeInv == ListOK /\ MainOK /\ HandlerOK /\ ReturnOK

(***************************************************************************)
(* A step of a callback is its thread's alone, and only of a busy one.     *)
(***************************************************************************)
LEMMA EndIsLocal ==
  ASSUME NEW t \in Thread, NEW what, DOMAIN callback = Thread, End(t, what)
  PROVE  DOMAIN callback' = Thread /\ \A u \in Thread \ {t} : callback'[u] = callback[u]
BY DEF End

LEMMA ContinueIsLocal ==
  ASSUME NEW t \in Thread, NEW locals, DOMAIN callback = Thread, Continue(t, locals)
  PROVE  DOMAIN callback' = Thread /\ \A u \in Thread \ {t} : callback'[u] = callback[u]
BY EndIsLocal DEF Continue

LEMMA HandlerIsLocal ==
  ASSUME NEW t \in Thread, DOMAIN callback = Thread, Handler(t)
  PROVE  /\ DOMAIN callback' = Thread
         /\ \A u \in Thread \ {t} : callback'[u] = callback[u]
         /\ Busy(t) \/ callback' = callback
<1> USE DEF Busy, At
<1>1. CASE evaluatePolicies(t)
  BY <1>1, EndIsLocal DEF evaluatePolicies, Goto
<1>2. CASE findSession(t)
  BY <1>2 DEF findSession, Goto
<1>3. CASE UrlFilteringProfile_scan(t)
  BY <1>3 DEF UrlFilteringProfile_scan, Goto, NextProfile, Scans
<1>4. CASE AntimalwareProfile_scan(t)
  BY <1>4 DEF AntimalwareProfile_scan, Goto, NextProfile, Scans
<1>5. CASE updateAntimalwareHash(t)
  BY <1>5 DEF updateAntimalwareHash, Goto, NextProfile
<1>6. CASE finalizeAntimalwareHash(t)
  BY <1>6 DEF finalizeAntimalwareHash, Goto, NextProfile
<1>7. CASE block(t)
  BY <1>7, EndIsLocal DEF block
<1>8. CASE noMoreProfiles(t)
  BY <1>8 DEF noMoreProfiles, Goto
<1>9. CASE enterNat(t)
  BY <1>9, ContinueIsLocal DEF enterNat
<1>10. CASE natFindSession(t)
  BY <1>10, ContinueIsLocal DEF natFindSession, InNat
<1>11. CASE scanPool(t)
  BY <1>11, ContinueIsLocal DEF scanPool, InNat
<1>12. CASE constructSession(t)
  BY <1>12, ContinueIsLocal DEF constructSession, InNat
<1>13. CASE createOutbound(t)
  BY <1>13, ContinueIsLocal DEF createOutbound, InNat
<1>14. CASE createInbound(t)
  BY <1>14, ContinueIsLocal DEF createInbound, InNat
<1>15. CASE destroySession(t)
  BY <1>15 DEF destroySession
<1>16. CASE applyNat(t)
  BY <1>16, ContinueIsLocal DEF applyNat, InNat
<1>17. CASE crash(t)
  BY <1>17 DEF crash
<1> QED
  BY <1>1, <1>2, <1>3, <1>4, <1>5, <1>6, <1>7, <1>8, <1>9, <1>10, <1>11, <1>12,
     <1>13, <1>14, <1>15, <1>16, <1>17 DEF Handler
-----------------------------------------------------------------------------
(***************************************************************************)
(* Start and stop.                                                         *)
(***************************************************************************)
LEMMA LifeInit == FirewallInit => LifeInv
<1> SUFFICES ASSUME FirewallInit PROVE LifeInv
  OBVIOUS
<1> USE DEF FirewallInit, Init, Idle, Busy
<1>1. DOMAIN callback = Thread /\ \A d \in Thread : ~ Busy(d)
  OBVIOUS
<1>2. ListOK
  BY <1>1 DEF ListOK
<1>3. MainOK
  BY DEF MainOK
<1>4. HandlerOK
  BY <1>1, DeviceAssumption DEF HandlerOK, Good
<1>5. ReturnOK
  BY InspectionAssumption DEF ReturnOK
<1> QED
  BY <1>2, <1>3, <1>4, <1>5 DEF LifeInv

\* main's moves through its loops.
LEMMA AdvanceMoves ==
  ASSUME MainOK, NEW place, NEW behind, NEW length, Advance(place, behind, length)
  PROVE  /\ DOMAIN main' = {"at", "index"}
         /\ main'.index \in Nat \ {0}
         /\ \/ /\ main.index < length
               /\ main'.at = place /\ main'.index = main.index + 1
            \/ /\ ~ (main.index < length)
               /\ main'.at = behind /\ main'.index = 1
BY DEF Advance, MainOK

LEMMA NoneIsNoCode == None # 0 /\ None # 1
BY InspectionAssumption

LEMMA LoadKeeps == ASSUME LifeInv, load PROVE LifeInv'
<1> USE DEF LifeInv, load, MainAt, inspectionVars, Busy
<1>1. ListOK'
  BY DEF ListOK
<1>2. MainOK'
  BY DEF MainOK
<1>3. HandlerOK'
  BY DEF HandlerOK, Good
<1>4. ReturnOK'
  BY DEF ReturnOK
<1> QED
  BY <1>1, <1>2, <1>3, <1>4

LEMMA CollectKeeps == ASSUME LifeInv, collect PROVE LifeInv'
<1> USE DEF LifeInv, inspectionVars, Busy, MainAt
<1> DEFINE d == interfaces[main.index]
<1>0. /\ main.at = "collect" /\ handler.at # "walk"
      /\ UNCHANGED <<callback, device, stopSignal, handler, returned, refused, late>>
  BY DEF collect
<1>1. \/ gInterfaces' = gInterfaces
      \/ /\ d \in Thread
         /\ \A i \in 1 .. Len(gInterfaces) : gInterfaces[i] # d
         /\ gInterfaces' = Append(gInterfaces, d)
  BY DeviceAssumption DEF collect, Contains
<1>2. ListOK'
  <2>1. CASE gInterfaces' = gInterfaces
    BY <1>0, <2>1 DEF ListOK
  <2>2. CASE /\ d \in Thread
             /\ \A i \in 1 .. Len(gInterfaces) : gInterfaces[i] # d
             /\ gInterfaces' = Append(gInterfaces, d)
    <3>1. /\ gInterfaces \in Seq(Thread)
          /\ Len(gInterfaces') = Len(gInterfaces) + 1
          /\ gInterfaces' \in Seq(Thread)
          /\ gInterfaces'[Len(gInterfaces) + 1] = d
          /\ \A i \in 1 .. Len(gInterfaces) : gInterfaces'[i] = gInterfaces[i]
      BY <2>2, AppendProperties DEF ListOK
    <3>2. Len(gInterfaces) \in Nat
      BY <3>1
    <3>3. \A i, j \in 1 .. Len(gInterfaces') : gInterfaces'[i] = gInterfaces'[j] => i = j
      BY <2>2, <3>1, <3>2 DEF ListOK
    <3>4. \A e \in Device : device[e] # "closed" \/ (e \in Thread /\ Busy(e)) =>
            \E i \in 1 .. Len(gInterfaces') : gInterfaces'[i] = e
      BY <3>1, <3>2 DEF ListOK
    <3> QED
      BY <1>0, <3>1, <3>3, <3>4 DEF ListOK
  <2> QED
    BY <1>1, <2>1, <2>2
<1>3. MainOK'
  <2>1. /\ DOMAIN main' = {"at", "index"} /\ main'.index \in Nat \ {0}
        /\ \/ main'.at = "collect"
           \/ main'.at = "wait" /\ main'.index = 1
           \/ main'.at = "open" /\ main'.index = 1 /\ gInterfaces' # <<>>
    <3>1. PICK behind, length :
            /\ Advance("collect", behind, length)
            /\ behind = (IF gInterfaces' = <<>> THEN "wait" ELSE "open")
      BY DEF collect
    <3> QED
      BY <3>1, AdvanceMoves
  <2>2. gInterfaces' # <<>> => 1 <= Len(gInterfaces')
    BY <1>2 DEF ListOK
  <2>3. \A i \in 1 .. Len(gInterfaces') : gInterfaces'[i] \in Device
    BY <1>2, DeviceAssumption DEF ListOK
  <2> QED
    BY <1>0, <2>1, <2>2, <2>3 DEF MainOK
<1>4. HandlerOK'
  <2>1. main'.at \in {"collect", "wait", "open"}
    BY AdvanceMoves DEF collect
  <2>2. \A t \in Thread : device[t] = "closed"
    BY <1>0, DeviceAssumption DEF MainOK
  <2> QED
    BY <1>0, <2>1, <2>2 DEF HandlerOK, Good
<1>5. ReturnOK'
  BY <1>0 DEF ReturnOK
<1> QED
  BY <1>2, <1>3, <1>4, <1>5

LEMMA OpenKeeps == ASSUME LifeInv, open PROVE LifeInv'
<1> USE DEF LifeInv, inspectionVars, Busy, MainAt
<1> DEFINE d == gInterfaces[main.index]
<1>0. /\ main.at = "open" /\ handler.at # "walk"
      /\ UNCHANGED <<callback, gInterfaces, stopSignal, handler, late>>
  BY DEF open
<1>1. /\ main.index \in 1 .. Len(gInterfaces)
      /\ d \in Device /\ d \in Thread /\ device[d] = "closed"
  BY <1>0, DeviceAssumption DEF MainOK, ListOK
<1>2. \/ /\ main' = [main EXCEPT !.at = "start"]
         /\ device' = [device EXCEPT ![d] = "open"]
         /\ UNCHANGED <<returned, refused>>
      \/ /\ UNCHANGED device
         /\ refused' = refused \cup {d}
         /\ main' = [main EXCEPT !.at = "done"] /\ returned' = 1
  BY <1>1 DEF open, Return
<1>3. ListOK'
  BY <1>0, <1>1, <1>2 DEF ListOK
<1>4. MainOK'
  BY <1>0, <1>1, <1>2, DeviceAssumption DEF MainOK, ListOK
<1>5. HandlerOK'
  BY <1>0, <1>1, <1>2, DeviceAssumption DEF HandlerOK, Good, ListOK, MainOK
<1>6. ReturnOK'
  <2>1. returned = None
    BY <1>0 DEF ReturnOK
  <2>2. CASE returned' = returned
    BY <2>1, <2>2, NoneIsNoCode DEF ReturnOK
  <2>3. CASE /\ refused' = refused \cup {d}
             /\ main' = [main EXCEPT !.at = "done"] /\ returned' = 1
    BY <2>3 DEF ReturnOK, MainOK
  <2> QED
    BY <1>2, <2>2, <2>3
<1> QED
  BY <1>3, <1>4, <1>5, <1>6

LEMMA StartKeeps == ASSUME LifeInv, start PROVE LifeInv'
<1> USE DEF LifeInv, inspectionVars, Busy, MainAt
<1> DEFINE d == gInterfaces[main.index]
<1>0. /\ main.at = "start" /\ handler.at # "walk"
      /\ UNCHANGED <<callback, gInterfaces, stopSignal, handler>>
  BY DEF start
<1>1. /\ main.index \in 1 .. Len(gInterfaces)
      /\ d \in Device /\ d \in Thread /\ device[d] = "open"
  BY <1>0, DeviceAssumption DEF MainOK, ListOK
<1>2. \/ /\ device' = [device EXCEPT ![d] = "capturing"]
         /\ late' = IF stopSignal THEN late \cup {d} ELSE late
         /\ main' = [main EXCEPT !.at = "print"]
         /\ UNCHANGED <<returned, refused>>
      \/ /\ refused' = refused \cup {d}
         /\ device' = [device EXCEPT ![d] = "closed"]
         /\ main' = [main EXCEPT !.at = "done"] /\ returned' = 1
         /\ UNCHANGED late
  BY <1>1 DEF start, Return
<1>3. ListOK'
  BY <1>0, <1>1, <1>2 DEF ListOK
<1>4. MainOK'
  BY <1>0, <1>1, <1>2, DeviceAssumption DEF MainOK, ListOK
<1>5. HandlerOK'
  BY <1>0, <1>1, <1>2, DeviceAssumption DEF HandlerOK, Good, ListOK, MainOK
<1>6. ReturnOK'
  BY <1>0, <1>2, NoneIsNoCode DEF ReturnOK, MainOK
<1> QED
  BY <1>3, <1>4, <1>5, <1>6

LEMMA PrintKeeps == ASSUME LifeInv, print PROVE LifeInv'
<1> USE DEF LifeInv, Busy, MainAt
<1>0. /\ main.at = "print" /\ handler.at # "walk"
      /\ UNCHANGED <<callback, gInterfaces, device, stopSignal, handler, returned,
                     refused, late>>
      /\ Advance("open", "wait", Len(gInterfaces))
  BY DEF print
<1>1. /\ DOMAIN main' = {"at", "index"} /\ main'.index \in Nat \ {0}
      /\ \/ /\ main.index < Len(gInterfaces)
            /\ main'.at = "open" /\ main'.index = main.index + 1
         \/ main'.at = "wait" /\ main'.index = 1
  BY <1>0, AdvanceMoves
<1>2. Len(gInterfaces) \in Nat
  BY DEF ListOK
<1>3. ListOK'
  BY <1>0 DEF ListOK
<1>4. MainOK'
  <2>1. \A i \in main.index + 1 .. Len(gInterfaces) : device'[gInterfaces'[i]] = "closed"
    BY <1>0 DEF MainOK
  <2>2. CASE main'.at = "open"
    <3>0. main.index < Len(gInterfaces) /\ main'.index = main.index + 1
      BY <1>1, <2>2
    <3>1. main'.index <= Len(gInterfaces') /\ main'.index \in Nat \ {0}
      BY <1>0, <1>1, <1>2, <3>0 DEF MainOK
    <3>2. \A i \in main'.index .. Len(gInterfaces') : device'[gInterfaces'[i]] = "closed"
      BY <1>0, <2>1, <3>0
    <3> QED
      BY <1>1, <2>2, <3>1, <3>2 DEF MainOK
  <2>3. CASE main'.at = "wait"
    BY <1>1, <2>3 DEF MainOK
  <2>4. main'.at \in {"open", "wait"}
    BY <1>1
  <2> QED
    BY <2>2, <2>3, <2>4
<1>5. HandlerOK'
  BY <1>0, <1>1 DEF HandlerOK, Good
<1>6. ReturnOK'
  BY <1>0, <1>1 DEF ReturnOK
<1> QED
  BY <1>3, <1>4, <1>5, <1>6

LEMMA WaitKeeps == ASSUME LifeInv, wait PROVE LifeInv'
<1> USE DEF LifeInv, inspectionVars, Busy, MainAt
<1>0. /\ main.at = "wait" /\ handler.at # "walk" /\ stopSignal
      /\ UNCHANGED <<callback, gInterfaces, device, stopSignal, handler, refused, late>>
      /\ \/ /\ gInterfaces # <<>>
            /\ main' = [main EXCEPT !.at = "close"]
            /\ UNCHANGED returned
         \/ /\ gInterfaces = <<>>
            /\ main' = [main EXCEPT !.at = "done"] /\ returned' = 0
  BY DEF wait, Return
<1>1. handler.at = "done"
  BY <1>0 DEF HandlerOK
<1>3. ListOK'
  BY <1>0 DEF ListOK
<1>4. MainOK'
  BY <1>0 DEF MainOK, ListOK
<1>5. HandlerOK'
  BY <1>0, <1>1 DEF HandlerOK, Good, MainOK
<1>6. ReturnOK'
  BY <1>0, NoneIsNoCode DEF ReturnOK, ListOK, MainOK
<1> QED
  BY <1>3, <1>4, <1>5, <1>6

LEMMA CloseKeeps == ASSUME LifeInv, close PROVE LifeInv'
<1> USE DEF LifeInv, inspectionVars, Busy, MainAt
<1> DEFINE d == gInterfaces[main.index]
<1>0. /\ main.at = "close" /\ handler.at = "done"
      /\ UNCHANGED <<callback, gInterfaces, stopSignal, handler, refused, late>>
      /\ device' = [device EXCEPT ![d] = "closed"]
      /\ Advance("close", "done", Len(gInterfaces))
      /\ returned' = IF main'.at = "done" THEN 0 ELSE returned
  BY DEF close, HandlerOK
<1>1. /\ main.index \in 1 .. Len(gInterfaces)
      /\ d \in Device /\ d \in Thread
      /\ Len(gInterfaces) \in Nat
  BY <1>0, DeviceAssumption DEF MainOK, ListOK
<1>2. /\ DOMAIN main' = {"at", "index"} /\ main'.index \in Nat \ {0}
      /\ \/ /\ main.index < Len(gInterfaces)
            /\ main'.at = "close" /\ main'.index = main.index + 1
         \/ /\ main.index = Len(gInterfaces)
            /\ main'.at = "done"
  BY <1>0, <1>1, AdvanceMoves
<1>3. ListOK'
  BY <1>0, <1>1 DEF ListOK, HandlerOK
<1>4. \A i \in 1 .. main.index : device'[gInterfaces[i]] = "closed"
  BY <1>0, <1>1, DeviceAssumption DEF MainOK, ListOK
<1>5. MainOK'
  BY <1>0, <1>1, <1>2, <1>4 DEF MainOK
<1>6. HandlerOK'
  BY <1>0, <1>1, <1>2, DeviceAssumption DEF HandlerOK, Good, ListOK
<1>7. ReturnOK'
  <2>1. CASE main'.at = "close"
    BY <1>0, <1>2, <2>1, NoneIsNoCode DEF ReturnOK
  <2>2. CASE main'.at = "done" /\ main.index = Len(gInterfaces)
    <3>1. \A e \in Device : device'[e] = "closed"
      BY <1>0, <1>1, <1>4, <2>2 DEF ListOK
    <3> QED
      BY <1>0, <2>2, <3>1 DEF ReturnOK
  <2> QED
    BY <1>2, <2>1, <2>2
<1> QED
  BY <1>3, <1>5, <1>6, <1>7

LEMMA SignalKeeps == ASSUME LifeInv, signal PROVE LifeInv'
<1> USE DEF LifeInv, Busy
<1>0. /\ handler.at = "none" /\ main.at # "done"
      /\ handler' = [at |-> "walk", index |-> 1] /\ stopSignal' = TRUE
      /\ UNCHANGED <<callback, main, gInterfaces, device, returned, refused, late>>
  BY DEF signal
<1>1. ListOK'
  BY <1>0 DEF ListOK
<1>2. MainOK'
  BY <1>0 DEF MainOK
<1>3. HandlerOK'
  BY <1>0 DEF HandlerOK, Good
<1>4. ReturnOK'
  BY <1>0 DEF ReturnOK
<1> QED
  BY <1>1, <1>2, <1>3, <1>4

LEMMA StopCaptureKeeps == ASSUME LifeInv, stopCapture PROVE LifeInv'
<1> USE DEF LifeInv, inspectionVars, Busy
<1> DEFINE d == gInterfaces[handler.index]
<1>0. /\ handler.at = "walk" /\ handler.index \in 1 .. Len(gInterfaces)
      /\ d \in Thread /\ d \in Device
      /\ UNCHANGED <<callback, main, gInterfaces, stopSignal, returned, refused, late>>
  BY DeviceAssumption DEF stopCapture, InHandler, HandlerOK, ListOK
<1>1. CASE /\ device[d] = "capturing"
           /\ device' = [device EXCEPT ![d] = "stopping"] /\ UNCHANGED handler
  <2>1. ListOK'
    BY <1>0, <1>1 DEF ListOK
  <2>2. MainOK'
    BY <1>0, <1>1, DeviceAssumption DEF MainOK, ListOK, HandlerOK
  <2>3. HandlerOK'
    BY <1>0, <1>1, DeviceAssumption DEF HandlerOK, Good, ListOK
  <2>4. ReturnOK'
    BY <1>0, <1>1, NoneIsNoCode DEF ReturnOK, HandlerOK
  <2> QED
    BY <2>1, <2>2, <2>3, <2>4
<1>2. CASE /\ device[d] = "stopping" /\ ~ Busy(d)
           /\ device' = [device EXCEPT ![d] = "open"]
           /\ handler' = [handler EXCEPT !.index = @ + 1]
  <2>1. ListOK'
    BY <1>0, <1>2 DEF ListOK
  <2>2. MainOK'
    BY <1>0, <1>2, DeviceAssumption DEF MainOK, ListOK, HandlerOK
  <2>3. HandlerOK'
    BY <1>0, <1>2, DeviceAssumption DEF HandlerOK, Good, ListOK
  <2>4. ReturnOK'
    BY <1>0, <1>2, NoneIsNoCode DEF ReturnOK, HandlerOK
  <2> QED
    BY <2>1, <2>2, <2>3, <2>4
<1>3. CASE /\ device[d] \in {"closed", "open"} /\ UNCHANGED device
           /\ handler' = [handler EXCEPT !.index = @ + 1]
  <2>1. ListOK'
    BY <1>0, <1>3 DEF ListOK
  <2>2. MainOK'
    BY <1>0, <1>3 DEF MainOK
  <2>3. HandlerOK'
    BY <1>0, <1>3, DeviceAssumption DEF HandlerOK, Good, ListOK
  <2>4. ReturnOK'
    BY <1>0, <1>3 DEF ReturnOK
  <2> QED
    BY <2>1, <2>2, <2>3, <2>4
<1> QED
  BY <1>1, <1>2, <1>3 DEF stopCapture

LEMMA HandlerReturnsKeeps == ASSUME LifeInv, handlerReturns PROVE LifeInv'
<1> USE DEF LifeInv, inspectionVars, Busy
<1>0. /\ handler.at = "walk" /\ handler.index > Len(gInterfaces)
      /\ handler' = [handler EXCEPT !.at = "done"]
      /\ UNCHANGED <<callback, main, gInterfaces, device, stopSignal, returned, refused, late>>
  BY DEF handlerReturns, InHandler
<1>1. ListOK'
  BY <1>0 DEF ListOK
<1>2. MainOK'
  BY <1>0 DEF MainOK
<1>3. HandlerOK'
  <2>1. \A e \in Thread : Good(e)
    BY <1>0, DeviceAssumption DEF HandlerOK, Good, ListOK
  <2> QED
    BY <1>0, <2>1 DEF HandlerOK, Good, ListOK
<1>4. ReturnOK'
  BY <1>0 DEF ReturnOK
<1> QED
  BY <1>1, <1>2, <1>3, <1>4

\* A thread whose device captures, or that is busy, may become or be busy.
LEMMA CallbackKeeps ==
  ASSUME LifeInv, UNCHANGED mainVars, NEW t \in Thread,
         DOMAIN callback' = Thread,
         \A u \in Thread \ {t} : callback'[u] = callback[u],
         \/ Busy(t) \/ callback' = callback
         \/ device[t] \in {"capturing", "stopping"}
  PROVE  LifeInv'
<1> USE DEF LifeInv, mainVars, Busy
<1>1. ListOK'
  BY DeviceAssumption DEF ListOK
<1>2. MainOK'
  BY DEF MainOK
<1>3. \A u \in Thread : Good(u) /\ device[u] # "stopping" => Good(u)'
  BY DEF Good
<1>4. HandlerOK'
  <2>1. \A u \in Thread : Busy(u)' => device[u] \in {"capturing", "stopping"} \/ u \in late
    BY DEF HandlerOK
  <2>2. handler.at = "walk" =>
          \A i \in 1 .. Len(gInterfaces) : i < handler.index => Good(gInterfaces[i])'
    BY <1>3 DEF HandlerOK, ListOK
  <2>3. handler.at = "done" => \A u \in Thread : Good(u)'
    BY <1>3 DEF HandlerOK
  <2> QED
    BY <2>1, <2>2, <2>3 DEF HandlerOK, Good
<1>5. ReturnOK'
  BY DEF ReturnOK
<1> QED
  BY <1>1, <1>2, <1>4, <1>5

LEMMA LifeStep == ASSUME LifeInv, [Next]_vars PROVE LifeInv'
<1>1. ASSUME UNCHANGED <<callback, mainVars>> PROVE LifeInv'
  BY <1>1 DEF LifeInv, ListOK, MainOK, HandlerOK, ReturnOK, Good, Busy, mainVars
<1>2. CASE Main
  BY <1>1, <1>2, LoadKeeps, CollectKeeps, OpenKeeps, StartKeeps, PrintKeeps, WaitKeeps,
     CloseKeeps DEF Main, closeCapturing
<1>3. CASE exitProgram
  BY <1>3, StopCaptureKeeps, HandlerReturnsKeeps DEF exitProgram
<1>4. CASE \E t \in Thread : runCallback(t)
  <2>1. PICK t \in Thread : Handler(t) /\ UNCHANGED mainVars
    BY <1>4 DEF runCallback
  <2>2. DOMAIN callback = Thread
    BY DEF LifeInv, ListOK
  <2> QED
    BY <2>1, <2>2, HandlerIsLocal, CallbackKeeps
<1>5. CASE signal
  BY <1>5, SignalKeeps
<1>6. CASE signalWhileGrowing
  BY <1>1, <1>6 DEF signalWhileGrowing
<1>7. CASE \E t \in Thread, f \in Traffic : capture(t, f)
  <2>1. PICK t \in Thread, f \in Traffic : capture(t, f)
    BY <1>7
  <2>2. /\ DOMAIN callback' = Thread
        /\ \A u \in Thread \ {t} : callback'[u] = callback[u]
        /\ device[t] \in {"capturing", "stopping"}
        /\ UNCHANGED mainVars
    BY <2>1 DEF capture, onPacketArrives, LifeInv, ListOK
  <2> QED
    BY <2>2, CallbackKeeps
<1>8. CASE UNCHANGED vars
  BY <1>1, <1>8 DEF vars, inspectionVars
<1> QED
  BY <1>2, <1>3, <1>4, <1>5, <1>6, <1>7, <1>8 DEF Next, Run

LEMMA LifeAlways == Spec => []LifeInv
<1>1. LifeInv /\ [Next]_vars => LifeInv'
  BY LifeStep
<1> QED
  BY <1>1, LifeInit, PTL DEF Spec

(* Where exitProgram has been, nothing runs but what main started after the *)
(* signal, and success means that every device is closed.                   *)
THEOREM StopReaches == Spec => []StopReachesAll
<1>1. LifeInv => StopReachesAll
  BY DEF LifeInv, HandlerOK, ReturnOK, StopReachesAll, Good, Busy
<1> QED
  BY <1>1, LifeAlways, PTL

(* main reports failure only after the system has refused it a device,      *)
(* whatever the configuration names.                                        *)
THEOREM FailsRightly == Spec => []FailsOnlyIfRefused
<1>1. LifeInv => FailsOnlyIfRefused
  BY DEF LifeInv, ReturnOK, FailsOnlyIfRefused
<1> QED
  BY <1>1, LifeAlways, PTL
-----------------------------------------------------------------------------
(***************************************************************************)
(* What the policies say of a frame.                                       *)
(***************************************************************************)
LEMMA LeastIndex ==
  ASSUME NEW S, S \subseteq Nat, S # {}
  PROVE  Min(S) \in S
<1>1. PICK x \in S : \A y \in S : ~ (<<y, x>> \in OpToRel(<, Nat))
  BY NatLessThanWellFounded, WFMin
<1>2. \A y \in S : ~ (y < x)
  BY <1>1 DEF OpToRel
<1>3. \E z \in S : \A y \in S : z <= y
  BY <1>2
<1> QED
  BY <1>3 DEF Min

Decidable == {f \in Traffic : f.type = "IPv4"}

LEMMA PolicyFacts ==
  /\ security_policies \in Seq(Range(security_policies))
  /\ DOMAIN security_policies = 1 .. Len(security_policies)
  /\ \A k \in DOMAIN security_policies :
       /\ security_policies[k].action \in {"Allow", "Deny"}
       /\ security_policies[k].security_profiles \in Seq(Profile)
  /\ NoVerdict \notin Judgement
BY InspectionAssumption

\* The loop's verdict is the first matching policy's, or there is none.
LEMMA VerdictIsFirst ==
  ASSUME NEW f \in Decidable
  PROVE  \/ About(f) = {} /\ VerdictOn[f] = NoVerdict
         \/ /\ About(f) # {} /\ VerdictOn[f] # NoVerdict
            /\ VerdictOn[f].action = First(f).action
            /\ VerdictOn[f].action \in {"Allow", "Deny"}
            /\ VerdictOn[f].security_profiles = First(f).security_profiles
            /\ First(f).security_profiles \in Seq(Profile)
<1> DEFINE I == {i \in 1 .. Len(security_policies) :
                   does_match_policy(security_policies[i], f.flow.src_ip, f.flow.dst_ip)}
<1>1. About(f) = I
  BY PolicyFacts DEF About
<1>2. VerdictOn[f] = IF (IF I # {} THEN Min(I) ELSE 0) = 0 THEN NoVerdict
        ELSE [action |-> security_policies[IF I # {} THEN Min(I) ELSE 0].action,
              security_profiles |->
                security_policies[IF I # {} THEN Min(I) ELSE 0].security_profiles]
  BY DEF VerdictOn, Decidable, Verdict, SelectInSeq
<1>3. CASE I = {}
  BY <1>1, <1>2, <1>3
<1>4. CASE I # {}
  <2> DEFINE k == Min(I)
  <2>0. I \subseteq Nat /\ 0 \notin I /\ I \subseteq DOMAIN security_policies
    BY PolicyFacts
  <2> HIDE DEF I
  <2>1. k \in I
    BY <1>4, <2>0, LeastIndex
  <2>2. VerdictOn[f] = [action |-> security_policies[k].action,
                        security_profiles |-> security_policies[k].security_profiles]
    BY <1>2, <1>4, <2>0, <2>1
  <2>3. First(f) = security_policies[k]
    BY <1>1 DEF First
  <2> HIDE DEF k
  <2>4. k \in DOMAIN security_policies
    BY <2>0, <2>1
  <2>5. VerdictOn[f] \in Judgement
    BY <2>2, <2>4, PolicyFacts DEF Judgement
  <2>6. VerdictOn[f] # NoVerdict
    BY <2>5, PolicyFacts
  <2>7. /\ VerdictOn[f].action = First(f).action
        /\ VerdictOn[f].security_profiles = First(f).security_profiles
    BY <2>2, <2>3
  <2>8. /\ First(f).action \in {"Allow", "Deny"}
        /\ First(f).security_profiles \in Seq(Profile)
    BY <2>3, <2>4, PolicyFacts
  <2> QED
    BY <1>1, <1>4, <2>6, <2>7, <2>8
<1> QED
  BY <1>3, <1>4
-----------------------------------------------------------------------------
(***************************************************************************)
(* Every packet is decided once, and by the packet.                        *)
(***************************************************************************)

\* What the scans still have to look at: all the listing profiles are left.
Remaining(f, profiles) ==
  /\ About(f) # {}
  /\ First(f).security_profiles \in Seq(Profile)
  /\ profiles \in Seq(Profile)
  /\ \A i \in 1 .. Len(profiles) : profiles[i] \in Range(First(f).security_profiles)
  /\ \A profile \in Profiles(f, "url") :
       Listed(profile, f) => \E i \in 1 .. Len(profiles) : profiles[i] = profile

\* What a thread has in hand is decided as far as it has come.
Judged(t, l) ==
  l.at # "idle" =>
    /\ l.frame \in Decidable /\ l.frame.in = t /\ ForMe(l.frame)
    /\ l.at \in {"lookup", "scan", "update", "final"} =>
         ~ Denied(l.frame) /\ Remaining(l.frame, l.profiles)
    /\ l.at \in {"update", "final"} =>
         l.profiles # <<>> /\ Head(l.profiles).kind = "antimalware"
    /\ l.at = "final" => HasFin(l.frame)
    /\ l.at = "block" => l.frame \in Blockable
    /\ l.at \in {"pass", "nat"} => l.frame \in Passable

Undecided(t) == callback[t].at # "idle" => verdict[callback[t].frame] = "none"

FilterInv ==
  /\ DOMAIN callback = Thread
  /\ DOMAIN verdict = Traffic
  /\ \A t \in Thread : Judged(t, callback[t]) /\ Undecided(t)

Refines == FilterInv' /\ [Decisions!Next]_verdict

\* A step that decides nothing.
LEMMA MoveRefines ==
  ASSUME FilterInv, NEW t \in Thread,
         DOMAIN callback' = Thread,
         \A u \in Thread \ {t} : callback'[u] = callback[u],
         Judged(t, callback'[t]),
         callback'[t].at # "idle" => verdict[callback'[t].frame] = "none",
         UNCHANGED verdict
  PROVE  Refines
<1>1. \A u \in Thread : Judged(u, callback'[u])
  BY DEF FilterInv
<1>2. \A u \in Thread : Undecided(u)'
  BY DEF FilterInv, Undecided
<1>3. (\A u \in Thread : Judged(u, callback[u]))'
  BY <1>1 DEF Judged
<1> QED
  BY <1>2, <1>3 DEF FilterInv, Refines

\* A step that decides the packet in hand.
LEMMA EndRefines ==
  ASSUME FilterInv, NEW t \in Thread, callback[t].at # "idle", NEW what, End(t, what),
         \/ what = "denied" /\ callback[t].frame \in Deniable
         \/ what = "blocked" /\ callback[t].frame \in Blockable
         \/ what = "routed" /\ callback[t].frame \in Passable
  PROVE  Refines
<1> DEFINE f == callback[t].frame
<1>1. /\ f \in Traffic /\ f.in = t /\ verdict[f] = "none"
      /\ verdict' = [verdict EXCEPT ![f] = what]
      /\ DOMAIN callback' = Thread /\ callback'[t].at = "idle"
      /\ \A u \in Thread \ {t} : callback'[u] = callback[u]
  BY DEF FilterInv, Judged, Undecided, Decidable, End, Idle
<1>2. \A u \in Thread : Judged(u, callback'[u])
  BY <1>1 DEF FilterInv, Judged
<1>3. (\A u \in Thread : Judged(u, callback[u]))'
  BY <1>2 DEF Judged
<1>4. \A u \in Thread : Undecided(u)'
  <2> SUFFICES ASSUME NEW u \in Thread, callback'[u].at # "idle"
               PROVE  verdict'[callback'[u].frame] = "none"
    BY DEF Undecided
  <2>1. u # t /\ callback'[u] = callback[u]
    BY <1>1
  <2>2. callback[u].frame.in = u /\ verdict[callback[u].frame] = "none"
    BY <2>1 DEF FilterInv, Judged, Undecided
  <2> QED
    BY <1>1, <2>1, <2>2
<1>5. FilterInv'
  BY <1>1, <1>3, <1>4 DEF FilterInv
<1>6. Decisions!Next
  BY <1>1 DEF Decisions!Next, Decisions!Deny, Decisions!Block, Decisions!Pass, Decisions!Decide
<1> QED
  BY <1>5, <1>6 DEF Refines

LEMMA TailRemains ==
  ASSUME NEW f, NEW profiles, Remaining(f, profiles), profiles # <<>>,
         ~ (Head(profiles).kind = "url" /\ Listed(Head(profiles), f))
  PROVE  Remaining(f, Tail(profiles))
<1>1. /\ profiles \in Seq(Profile) /\ Len(profiles) \in Nat \ {0}
      /\ Head(profiles) = profiles[1]
      /\ Tail(profiles) \in Seq(Profile) /\ Len(Tail(profiles)) = Len(profiles) - 1
      /\ \A i \in 1 .. Len(profiles) - 1 : Tail(profiles)[i] = profiles[i + 1]
  BY HeadTailProperties, EmptySeq DEF Remaining
<1>2. \A i \in 1 .. Len(Tail(profiles)) :
        Tail(profiles)[i] \in Range(First(f).security_profiles)
  <2> SUFFICES ASSUME NEW i \in 1 .. Len(Tail(profiles))
               PROVE  Tail(profiles)[i] \in Range(First(f).security_profiles)
    OBVIOUS
  <2>1. i + 1 \in 1 .. Len(profiles) /\ Tail(profiles)[i] = profiles[i + 1]
    BY <1>1
  <2> QED
    BY <2>1 DEF Remaining
<1>3. ASSUME NEW profile \in Profiles(f, "url"), Listed(profile, f)
      PROVE  \E i \in 1 .. Len(Tail(profiles)) : Tail(profiles)[i] = profile
  <2>1. PICK i \in 1 .. Len(profiles) : profiles[i] = profile
    BY <1>3 DEF Remaining
  <2>2. profile.kind = "url"
    BY DEF Profiles
  <2>3. i # 1
    BY <1>1, <1>3, <2>1, <2>2
  <2>4. i - 1 \in 1 .. Len(Tail(profiles)) /\ Tail(profiles)[i - 1] = profiles[i]
    BY <1>1, <2>3
  <2> QED
    BY <2>1, <2>4
<1> QED
  BY <1>1, <1>2, <1>3 DEF Remaining

\* Each action of the callback.
LEMMA EvaluateRefines ==
  ASSUME FilterInv, NEW t \in Thread, evaluatePolicies(t) PROVE Refines
<1> DEFINE f == callback[t].frame
           first == VerdictOn[f]
<1>1. /\ callback[t].at = "policy" /\ DOMAIN callback = Thread
      /\ f \in Decidable /\ f \in Traffic /\ f.in = t /\ ForMe(f) /\ verdict[f] = "none"
  BY DEF evaluatePolicies, At, FilterInv, Judged, Undecided, Decidable
<1>2. f \in ToBeDecided
  BY <1>1 DEF ToBeDecided, Decidable
<1>3. CASE first = NoVerdict /\ callback' = Goto(t, "pass") /\ UNCHANGED verdict
  <2>1. About(f) = {}
    BY <1>1, <1>3, VerdictIsFirst
  <2>2. f \in Passable
    BY <1>2, <2>1 DEF Passable, Denied, NameListed, Profiles
  <2> QED
    BY <1>1, <1>3, <2>2, MoveRefines DEF Goto, Judged
<1>4. CASE first # NoVerdict /\ first.action = "Deny" /\ End(t, "denied")
  <2>1. Denied(f)
    BY <1>1, <1>4, VerdictIsFirst DEF Denied
  <2>2. f \in Deniable
    BY <1>2, <2>1 DEF Deniable
  <2> QED
    BY <1>1, <1>4, <2>2, EndRefines
<1>5. CASE /\ first # NoVerdict /\ first.action = "Allow"
           /\ callback' = [Goto(t, "lookup") EXCEPT ![t].profiles = first.security_profiles]
           /\ UNCHANGED verdict
  <2> DEFINE given == First(f).security_profiles
  <2>1. /\ About(f) # {} /\ First(f).action = "Allow"
        /\ first.security_profiles = given /\ given \in Seq(Profile)
    BY <1>1, <1>5, VerdictIsFirst
  <2>2. ~ Denied(f)
    BY <2>1 DEF Denied
  <2>3. /\ \A i \in 1 .. Len(given) : given[i] \in Range(given)
        /\ \A profile \in Range(given) : \E i \in 1 .. Len(given) : given[i] = profile
    BY <2>1 DEF Range
  <2>4. Remaining(f, given)
    BY <2>1, <2>3 DEF Remaining, Profiles
  <2>5. /\ callback'[t].frame = f /\ callback'[t].at = "lookup"
        /\ callback'[t].profiles = given
        /\ DOMAIN callback' = Thread /\ \A u \in Thread \ {t} : callback'[u] = callback[u]
    BY <1>1, <1>5, <2>1 DEF Goto
  <2>6. Judged(t, callback'[t])
    BY <1>1, <2>2, <2>4, <2>5 DEF Judged
  <2> QED
    BY <1>1, <1>5, <2>5, <2>6, MoveRefines
<1> QED
  BY <1>3, <1>4, <1>5 DEF evaluatePolicies

\* What a thread that scans has in hand, and where it may go from there.
LEMMA ScanFacts ==
  ASSUME FilterInv, NEW t \in Thread,
         callback[t].at \in {"lookup", "scan", "update", "final"}
  PROVE  LET f == callback[t].frame
             l == callback[t]
         IN  /\ DOMAIN callback = Thread
             /\ f \in Decidable /\ f \in Traffic /\ f.in = t /\ ForMe(f)
             /\ f \in ToBeDecided /\ verdict[f] = "none"
             /\ ~ Denied(f) /\ Remaining(f, l.profiles)
             /\ \A i \in 1 .. Len(l.profiles) :
                  l.profiles[i] \in Profiles(f, l.profiles[i].kind)
             /\ l.profiles # <<>> =>
                  Head(l.profiles) \in Profiles(f, Head(l.profiles).kind)
<1> DEFINE f == callback[t].frame
           profiles == callback[t].profiles
<1>1. /\ DOMAIN callback = Thread
      /\ f \in Decidable /\ f \in Traffic /\ f.in = t /\ ForMe(f)
      /\ f \in ToBeDecided /\ verdict[f] = "none"
      /\ ~ Denied(f) /\ Remaining(f, profiles)
  BY DEF FilterInv, Judged, Undecided, Decidable, ToBeDecided
<1>2. \A i \in 1 .. Len(profiles) : profiles[i] \in Profiles(f, profiles[i].kind)
  BY <1>1 DEF Remaining, Profiles
<1>3. profiles # <<>> => 1 \in 1 .. Len(profiles) /\ Head(profiles) = profiles[1]
  BY <1>1, EmptySeq, HeadTailProperties DEF Remaining
<1> QED
  BY <1>1, <1>2, <1>3

LEMMA NextProfileRefines ==
  ASSUME FilterInv, NEW t \in Thread,
         callback[t].at \in {"scan", "update", "final"},
         callback[t].profiles # <<>>,
         ~ (Head(callback[t].profiles).kind = "url"
              /\ Listed(Head(callback[t].profiles), callback[t].frame)),
         callback' = NextProfile(t), UNCHANGED verdict
  PROVE  Refines
<1>1. /\ callback'[t].at = "scan" /\ callback'[t].frame = callback[t].frame
      /\ callback'[t].profiles = Tail(callback[t].profiles)
      /\ DOMAIN callback' = Thread /\ \A u \in Thread \ {t} : callback'[u] = callback[u]
  BY DEF NextProfile, FilterInv
<1>2. Remaining(callback[t].frame, Tail(callback[t].profiles))
  BY ScanFacts, TailRemains
<1>3. Judged(t, callback'[t])
  BY <1>1, <1>2, ScanFacts DEF Judged
<1> QED
  BY <1>1, <1>3, ScanFacts, MoveRefines

LEMMA BlockableGoes ==
  ASSUME FilterInv, NEW t \in Thread,
         callback[t].at \in {"scan", "update", "final"},
         callback[t].frame \in Blockable,
         callback' = Goto(t, "block"), UNCHANGED verdict
  PROVE  Refines
<1>1. /\ callback'[t].at = "block" /\ callback'[t].frame = callback[t].frame
      /\ DOMAIN callback' = Thread /\ \A u \in Thread \ {t} : callback'[u] = callback[u]
  BY DEF Goto, FilterInv
<1>2. Judged(t, callback'[t])
  BY <1>1, ScanFacts DEF Judged
<1> QED
  BY <1>1, <1>2, ScanFacts, MoveRefines

\* Going to a place, with or without another ctx, keeps the frame and profiles.
LEMMA GotoFacts ==
  ASSUME DOMAIN callback = Thread, NEW t \in Thread, NEW place,
         \/ callback' = Goto(t, place)
         \/ \E c : callback' = [Goto(t, place) EXCEPT ![t].ctx = c]
  PROVE  /\ callback'[t].at = place /\ callback'[t].frame = callback[t].frame
         /\ callback'[t].profiles = callback[t].profiles
         /\ DOMAIN callback' = Thread /\ \A u \in Thread \ {t} : callback'[u] = callback[u]
<1> DEFINE g == Goto(t, place)
<1>1. /\ g[t].at = place /\ g[t].frame = callback[t].frame
      /\ g[t].profiles = callback[t].profiles
      /\ DOMAIN g = Thread /\ \A u \in Thread \ {t} : g[u] = callback[u]
  BY DEF Goto
<1> HIDE DEF g
<1>2. CASE callback' = g
  BY <1>1, <1>2
<1>3. ASSUME NEW c, callback' = [g EXCEPT ![t].ctx = c]
      PROVE  /\ callback'[t].at = g[t].at /\ callback'[t].frame = g[t].frame
             /\ callback'[t].profiles = g[t].profiles
             /\ DOMAIN callback' = Thread /\ \A u \in Thread \ {t} : callback'[u] = g[u]
  BY <1>1, <1>3
<1> QED
  BY <1>1, <1>2, <1>3 DEF g

LEMMA LookupRefines == ASSUME FilterInv, NEW t \in Thread, findSession(t) PROVE Refines
<1>1. /\ callback[t].at = "lookup" /\ UNCHANGED verdict
      /\ callback'[t].at = "scan" /\ callback'[t].frame = callback[t].frame
      /\ callback'[t].profiles = callback[t].profiles
      /\ DOMAIN callback' = Thread /\ \A u \in Thread \ {t} : callback'[u] = callback[u]
  <2>1. callback[t].at = "lookup" /\ UNCHANGED verdict /\ DOMAIN callback = Thread
    BY DEF findSession, At, FilterInv
  <2>2. \/ callback' = Goto(t, "scan")
        \/ \E c : callback' = [Goto(t, "scan") EXCEPT ![t].ctx = c]
    BY DEF findSession
  <2> QED
    BY <2>1, <2>2, GotoFacts
<1>2. Judged(t, callback'[t])
  BY <1>1, ScanFacts DEF Judged
<1> QED
  BY <1>1, <1>2, ScanFacts, MoveRefines

LEMMA UrlRefines ==
  ASSUME FilterInv, NEW t \in Thread, UrlFilteringProfile_scan(t) PROVE Refines
<1> DEFINE f == callback[t].frame
           profile == Head(callback[t].profiles)
<1>1. /\ callback[t].at = "scan" /\ callback[t].profiles # <<>> /\ profile.kind = "url"
      /\ UNCHANGED verdict
  BY DEF UrlFilteringProfile_scan, Scans, At
<1>2. CASE Listed(profile, f)
  <2>1. f \in Blockable
    BY <1>1, <1>2, ScanFacts DEF Blockable, NameListed
  <2>2. callback' = Goto(t, "block")
    BY <1>2 DEF UrlFilteringProfile_scan
  <2> QED
    BY <1>1, <2>1, <2>2, BlockableGoes
<1>3. CASE ~ Listed(profile, f)
  BY <1>1, <1>3, NextProfileRefines DEF UrlFilteringProfile_scan
<1> QED
  BY <1>2, <1>3

\* From one of the places of the antimalware scan to another.
LEMMA HashRefines ==
  ASSUME FilterInv, NEW t \in Thread,
         callback[t].at \in {"scan", "update", "final"},
         callback[t].profiles # <<>>,
         Head(callback[t].profiles).kind = "antimalware",
         NEW place \in {"update", "final"},
         place = "final" => HasFin(callback[t].frame),
         callback' = Goto(t, place), UNCHANGED verdict
  PROVE  Refines
<1>1. /\ callback'[t].at = place /\ callback'[t].frame = callback[t].frame
      /\ callback'[t].profiles = callback[t].profiles
      /\ DOMAIN callback' = Thread /\ \A u \in Thread \ {t} : callback'[u] = callback[u]
  BY DEF Goto, FilterInv
<1>2. Judged(t, callback'[t])
  BY <1>1, ScanFacts DEF Judged
<1> QED
  BY <1>1, <1>2, ScanFacts, MoveRefines

LEMMA AntimalwareRefines ==
  ASSUME FilterInv, NEW t \in Thread, AntimalwareProfile_scan(t) PROVE Refines
<1>1. /\ callback[t].at = "scan" /\ callback[t].profiles # <<>>
      /\ Head(callback[t].profiles).kind = "antimalware"
      /\ UNCHANGED verdict
  BY DEF AntimalwareProfile_scan, Scans, At
<1>2. \/ callback' = Goto(t, "update")
      \/ callback' = Goto(t, "final") /\ HasFin(callback[t].frame)
      \/ callback' = NextProfile(t)
  BY DEF AntimalwareProfile_scan
<1> QED
  BY <1>1, <1>2, HashRefines, NextProfileRefines

LEMMA UpdateRefines ==
  ASSUME FilterInv, NEW t \in Thread, updateAntimalwareHash(t) PROVE Refines
<1>1. /\ callback[t].at = "update" /\ callback[t].profiles # <<>>
      /\ Head(callback[t].profiles).kind = "antimalware"
      /\ UNCHANGED verdict
  BY DEF updateAntimalwareHash, At, FilterInv, Judged
<1>2. \/ callback' = Goto(t, "final") /\ HasFin(callback[t].frame)
      \/ callback' = NextProfile(t)
  BY DEF updateAntimalwareHash
<1> QED
  BY <1>1, <1>2, HashRefines, NextProfileRefines

LEMMA FinalizeRefines ==
  ASSUME FilterInv, NEW t \in Thread, finalizeAntimalwareHash(t) PROVE Refines
<1>1. /\ callback[t].at = "final" /\ callback[t].profiles # <<>>
      /\ Head(callback[t].profiles).kind = "antimalware"
      /\ HasFin(callback[t].frame) /\ UNCHANGED verdict
  BY DEF finalizeAntimalwareHash, At, FilterInv, Judged
<1>2. callback[t].frame \in Blockable
  BY <1>1, ScanFacts DEF Blockable
<1>3. callback' = Goto(t, "block") \/ callback' = NextProfile(t)
  BY DEF finalizeAntimalwareHash
<1> QED
  BY <1>1, <1>2, <1>3, BlockableGoes, NextProfileRefines

LEMMA BlockRefines == ASSUME FilterInv, NEW t \in Thread, block(t) PROVE Refines
<1>1. callback[t].at = "block" /\ End(t, "blocked")
  BY DEF block, At
<1>2. callback[t].frame \in Blockable
  BY <1>1 DEF FilterInv, Judged
<1> QED
  BY <1>1, <1>2, EndRefines

LEMMA NoMoreRefines == ASSUME FilterInv, NEW t \in Thread, noMoreProfiles(t) PROVE Refines
<1> DEFINE f == callback[t].frame
<1>1. /\ callback[t].at = "scan" /\ callback[t].profiles = <<>> /\ UNCHANGED verdict
      /\ callback'[t].at = "pass" /\ callback'[t].frame = f
      /\ DOMAIN callback' = Thread /\ \A u \in Thread \ {t} : callback'[u] = callback[u]
  <2>1. DOMAIN callback = Thread
    BY DEF FilterInv
  <2>2. /\ callback[t].at = "scan" /\ callback[t].profiles = <<>> /\ UNCHANGED verdict
    BY DEF noMoreProfiles, At
  <2>3. \/ callback' = Goto(t, "pass")
        \/ \E c : callback' = [Goto(t, "pass") EXCEPT ![t].ctx = c]
    BY DEF noMoreProfiles
  <2>4. /\ callback'[t].at = "pass" /\ callback'[t].frame = callback[t].frame
        /\ callback'[t].profiles = callback[t].profiles
        /\ DOMAIN callback' = Thread /\ \A u \in Thread \ {t} : callback'[u] = callback[u]
    BY <2>1, <2>3, GotoFacts
  <2> QED
    BY <2>2, <2>4
<1>2. Remaining(f, <<>>)
  BY <1>1, ScanFacts
<1>3. ~ NameListed(f)
  <2>1. \A profile \in Profiles(f, "url") : Listed(profile, f) =>
          \E i \in 1 .. Len(<<>>) : <<>>[i] = profile
    BY <1>2 DEF Remaining
  <2>2. Len(<<>>) = 0
    OBVIOUS
  <2>3. \A profile \in Profiles(f, "url") : ~ Listed(profile, f)
    BY <2>1, <2>2
  <2> QED
    BY <2>3 DEF NameListed
<1>4. f \in Passable
  BY <1>1, <1>3, ScanFacts DEF Passable
<1>5. Judged(t, callback'[t])
  BY <1>1, <1>4, ScanFacts DEF Judged
<1> QED
  BY <1>1, <1>5, ScanFacts, MoveRefines

\* NatState's steps go on with the same frame, or end with it routed.
LEMMA ContinueRefines ==
  ASSUME FilterInv, NEW t \in Thread, callback[t].at \in {"pass", "nat"},
         NEW locals, locals.at \in {"pass", "nat"}, locals.frame = callback[t].frame,
         Continue(t, locals)
  PROVE  Refines
<1>1. /\ callback[t].frame \in Passable /\ DOMAIN callback = Thread
      /\ Judged(t, callback[t]) /\ verdict[callback[t].frame] = "none"
  BY DEF FilterInv, Judged, Undecided
<1>2. CASE End(t, "routed")
  BY <1>1, <1>2, EndRefines
<1>3. CASE callback' = [callback EXCEPT ![t] = locals] /\ UNCHANGED verdict
  <2>1. /\ callback'[t] = locals
        /\ DOMAIN callback' = Thread /\ \A u \in Thread \ {t} : callback'[u] = callback[u]
    BY <1>1, <1>3
  <2>2. Judged(t, callback'[t])
    BY <1>1, <2>1 DEF Judged
  <2> QED
    BY <1>1, <1>3, <2>1, <2>2, MoveRefines
<1> QED
  BY <1>2, <1>3 DEF Continue

LEMMA NatRefines ==
  ASSUME FilterInv, NEW t \in Thread,
         \/ enterNat(t) \/ natFindSession(t) \/ scanPool(t) \/ constructSession(t)
         \/ createOutbound(t) \/ createInbound(t) \/ applyNat(t)
  PROVE  Refines
<1>1. callback[t].at \in {"pass", "nat"}
  BY DEF enterNat, natFindSession, scanPool, constructSession, createOutbound,
         createInbound, applyNat, InNat, At
<1>2. CASE enterNat(t)
  <2> DEFINE locals == [callback[t] EXCEPT !.at = "nat"]
  <2>1. locals.at = "nat" /\ locals.frame = callback[t].frame
    OBVIOUS
  <2>2. Continue(t, locals)
    BY <1>2 DEF enterNat
  <2> HIDE DEF locals
  <2> QED
    BY <1>1, <2>1, <2>2, ContinueRefines
<1>3. CASE natFindSession(t)
  <2>1. PICK owed : Continue(t, [callback[t] EXCEPT !.owed = owed])
    BY <1>3 DEF natFindSession
  <2> DEFINE locals == [callback[t] EXCEPT !.owed = owed]
  <2>2. locals.at = callback[t].at /\ locals.frame = callback[t].frame
    OBVIOUS
  <2>3. Continue(t, locals)
    BY <2>1
  <2> HIDE DEF locals
  <2> QED
    BY <1>1, <2>2, <2>3, ContinueRefines
<1>4. CASE scanPool(t) \/ applyNat(t)
  <2>1. Continue(t, callback[t])
    BY <1>4 DEF scanPool, applyNat
  <2> QED
    BY <1>1, <2>1, ContinueRefines
<1>5. CASE constructSession(t)
  <2>1. CASE Continue(t, callback[t])
    BY <1>1, <2>1, ContinueRefines
  <2>2. ASSUME NEW c, Continue(t, [callback[t] EXCEPT !.ctx = c]) PROVE Refines
    <3> DEFINE locals == [callback[t] EXCEPT !.ctx = c]
    <3>1. locals.at = callback[t].at /\ locals.frame = callback[t].frame
      OBVIOUS
    <3>2. Continue(t, locals)
      BY <2>2
    <3> HIDE DEF locals
    <3> QED
      BY <1>1, <3>1, <3>2, ContinueRefines
  <2> QED
    BY <1>5, <2>1, <2>2 DEF constructSession
<1>6. CASE createOutbound(t)
  <2>1. PICK stored, owed :
          Continue(t, [callback[t] EXCEPT !.stored = stored, !.owed = owed])
    BY <1>6 DEF createOutbound
  <2> DEFINE locals == [callback[t] EXCEPT !.stored = stored, !.owed = owed]
  <2>2. locals.at = callback[t].at /\ locals.frame = callback[t].frame
    OBVIOUS
  <2>3. Continue(t, locals)
    BY <2>1
  <2> HIDE DEF locals
  <2> QED
    BY <1>1, <2>2, <2>3, ContinueRefines
<1>7. CASE createInbound(t)
  <2>1. PICK owed : Continue(t, [callback[t] EXCEPT !.owed = owed])
    BY <1>7 DEF createInbound
  <2> DEFINE locals == [callback[t] EXCEPT !.owed = owed]
  <2>2. locals.at = callback[t].at /\ locals.frame = callback[t].frame
    OBVIOUS
  <2>3. Continue(t, locals)
    BY <2>1
  <2> HIDE DEF locals
  <2> QED
    BY <1>1, <2>2, <2>3, ContinueRefines
<1> QED
  BY <1>2, <1>3, <1>4, <1>5, <1>6, <1>7

LEMMA StillRefines ==
  ASSUME FilterInv, UNCHANGED <<callback, verdict>> PROVE Refines
<1>1. FilterInv'
  BY DEF FilterInv, Undecided
<1> QED
  BY <1>1 DEF Refines

LEMMA DestroyRefines ==
  ASSUME FilterInv, NEW t \in Thread, destroySession(t) PROVE Refines
<1>1. /\ callback[t].at = "nat" /\ UNCHANGED verdict
      /\ callback'[t].at = "nat" /\ callback'[t].frame = callback[t].frame
      /\ DOMAIN callback' = Thread /\ \A u \in Thread \ {t} : callback'[u] = callback[u]
  BY DEF destroySession, At, FilterInv
<1>2. Judged(t, callback'[t]) /\ verdict[callback[t].frame] = "none"
  BY <1>1 DEF FilterInv, Judged, Undecided
<1> QED
  BY <1>1, <1>2, MoveRefines

LEMMA CaptureRefines ==
  ASSUME FilterInv, NEW t \in Thread, NEW f \in Traffic, onPacketArrives(t, f)
  PROVE  Refines
<1>1. CASE UNCHANGED callback
  BY <1>1, StillRefines DEF onPacketArrives
<1>2. CASE /\ ForMe(f) /\ f.type = "IPv4" /\ verdict[f] = "none"
           /\ callback' = [callback EXCEPT ![t].at = "policy", ![t].frame = f]
  <2>1. /\ callback'[t].at = "policy" /\ callback'[t].frame = f
        /\ DOMAIN callback' = Thread /\ \A u \in Thread \ {t} : callback'[u] = callback[u]
    BY <1>2 DEF FilterInv
  <2>2. f \in Decidable /\ f.in = t /\ UNCHANGED verdict
    BY <1>2 DEF Decidable, onPacketArrives
  <2>3. Judged(t, callback'[t])
    BY <1>2, <2>1, <2>2 DEF Judged
  <2> QED
    BY <1>2, <2>1, <2>2, <2>3, MoveRefines
<1> QED
  BY <1>1, <1>2 DEF onPacketArrives

LEMMA HandlerRefines ==
  ASSUME FilterInv, NEW t \in Thread, Handler(t) PROVE Refines
<1>1. CASE crash(t)
  BY <1>1, StillRefines DEF crash
<1> QED
  BY <1>1, EvaluateRefines, LookupRefines, UrlRefines, AntimalwareRefines, UpdateRefines,
     FinalizeRefines, BlockRefines, NoMoreRefines, NatRefines, DestroyRefines DEF Handler

LEMMA FilterStep == ASSUME FilterInv, [Next]_vars PROVE Refines
<1>1. CASE Main
  <2>1. UNCHANGED <<callback, verdict>>
    BY <1>1 DEF Main, load, collect, open, start, print, wait, close, closeCapturing,
                inspectionVars
  <2> QED
    BY <2>1, StillRefines
<1>2. CASE exitProgram \/ signal \/ signalWhileGrowing \/ UNCHANGED vars
  <2>1. UNCHANGED <<callback, verdict>>
    BY <1>2 DEF exitProgram, stopCapture, handlerReturns, signal, signalWhileGrowing,
                vars, inspectionVars
  <2> QED
    BY <2>1, StillRefines
<1>3. CASE \E t \in Thread : runCallback(t)
  BY <1>3, HandlerRefines DEF runCallback
<1>4. CASE \E t \in Thread, f \in Traffic : capture(t, f)
  BY <1>4, CaptureRefines DEF capture
<1> QED
  BY <1>1, <1>2, <1>3, <1>4 DEF Next, Run

LEMMA FilterInit == FirewallInit => FilterInv /\ Decisions!Init
<1> SUFFICES ASSUME FirewallInit PROVE FilterInv /\ Decisions!Init
  OBVIOUS
<1>1. DOMAIN callback = Thread /\ \A t \in Thread : callback[t].at = "idle"
  BY DEF FirewallInit, Init, Idle
<1>2. verdict = [f \in Traffic |-> "none"]
  BY DEF FirewallInit, Init
<1> QED
  BY <1>1, <1>2 DEF FilterInv, Judged, Undecided, Decisions!Init

(* Every packet is decided once and for good; what a policy denies or a     *)
(* profile lists by name is never routed; and nothing else is refused but a *)
(* FIN under an antimalware profile: for any number of threads, policies,   *)
(* profiles and packets, and whatever freed hash contexts do.               *)
THEOREM Refinement == Spec => ImplementsFilter
<1>1. FilterInv /\ [Next]_vars => FilterInv' /\ [Decisions!Next]_verdict
  BY FilterStep DEF Refines
<1>2. Spec => []FilterInv
  BY <1>1, FilterInit, PTL DEF Spec
<1> QED
  BY <1>1, <1>2, FilterInit, PTL DEF Spec, ImplementsFilter, Decisions!Spec
-----------------------------------------------------------------------------
(***************************************************************************)
(* The NAT part of the callbacks is NatState.                              *)
(***************************************************************************)

\* What NatState has of a thread is what the callback has.
InHand(t) ==
  thread[t].at # "idle" =>
    /\ callback[t].at = "nat"
    /\ thread[t].packet = callback[t].frame.flow
    /\ thread[t].key \in NAT!getKeyFromPacket(callback[t].frame.flow)

HandsInv ==
  /\ DOMAIN thread = Thread
  /\ \A t \in Thread : InHand(t)

\* NatState goes on with the packet in hand, or it is routed.
GoesOn(t) ==
  /\ DOMAIN thread' = Thread /\ \A u \in Thread \ {t} : thread'[u] = thread[u]
  /\ InHand(t)'
  /\ callback[t].at = "nat" =>
       \/ callback'[t].at = "nat" /\ callback'[t].frame = callback[t].frame
       \/ verdict'[callback[t].frame] = "routed"

\* Continue's two outcomes.
LEMMA ContinueGoesOn ==
  ASSUME FilterInv, NEW t \in Thread, callback[t].at \in {"pass", "nat"}, NEW locals,
         locals.at = "nat", locals.frame = callback[t].frame, Continue(t, locals)
  PROVE  \/ /\ thread'[t].at = "idle"
            /\ verdict'[callback[t].frame] = "routed"
         \/ /\ thread'[t].at # "idle"
            /\ callback'[t].at = "nat" /\ callback'[t].frame = callback[t].frame
<1>1. callback[t].frame \in Traffic /\ DOMAIN verdict = Traffic /\ DOMAIN callback = Thread
  BY DEF FilterInv, Judged, Decidable
<1> QED
  BY <1>1 DEF Continue, End

\* The steps that take NatState's, each with the locals that it continues with.
LEMMA EnterGoesOn ==
  ASSUME FilterInv, HandsInv, NEW t \in Thread, enterNat(t)
  PROVE  GoesOn(t) /\ table' = table /\ NAT!onPacketArrives(t, callback[t].frame.flow)
<1> DEFINE p == callback[t].frame.flow
           locals == [callback[t] EXCEPT !.at = "nat"]
<1>1. /\ callback[t].at = "pass" /\ thread[t].at = "idle" /\ DOMAIN thread = Thread
      /\ NAT!onPacketArrives(t, p) /\ Continue(t, locals) /\ table' = table
  BY DEF enterNat, At, HandsInv, NAT!onPacketArrives
<1>2. locals.at = "nat" /\ locals.frame = callback[t].frame
  OBVIOUS
<1> HIDE DEF locals
<1>3. \/ thread'[t].at = "idle" /\ verdict'[callback[t].frame] = "routed"
      \/ callback'[t].at = "nat" /\ callback'[t].frame = callback[t].frame
  BY <1>1, <1>2, ContinueGoesOn
<1>4. /\ DOMAIN thread' = Thread /\ \A u \in Thread \ {t} : thread'[u] = thread[u]
      /\ thread'[t].at # "idle" =>
           thread'[t].packet = p /\ thread'[t].key \in NAT!getKeyFromPacket(p)
  BY <1>1 DEF NAT!onPacketArrives, NAT!Idle
<1> QED
  BY <1>1, <1>3, <1>4 DEF GoesOn, InHand

LEMMA FindGoesOn ==
  ASSUME FilterInv, HandsInv, NEW t \in Thread, natFindSession(t)
  PROVE  GoesOn(t) /\ table' = table /\ NAT!findSession(t)
<1>1. /\ callback[t].at = "nat" /\ InHand(t) /\ DOMAIN thread = Thread
      /\ NAT!findSession(t) /\ table' = table
  BY DEF natFindSession, InNat, At, HandsInv, NAT!findSession
<1>2. PICK owed : Continue(t, [callback[t] EXCEPT !.owed = owed])
  BY DEF natFindSession
<1> DEFINE locals == [callback[t] EXCEPT !.owed = owed]
<1>3. locals.at = callback[t].at /\ locals.frame = callback[t].frame
  OBVIOUS
<1>4. Continue(t, locals)
  BY <1>2
<1> HIDE DEF locals
<1>5. /\ thread[t].at = "find"
      /\ DOMAIN thread' = Thread /\ \A u \in Thread \ {t} : thread'[u] = thread[u]
      /\ thread'[t].at # "idle" =>
           thread'[t].packet = thread[t].packet /\ thread'[t].key = thread[t].key
  <2>0. thread[t].at = "find"
    BY <1>1 DEF NAT!findSession
  <2>1. \/ thread' = [thread EXCEPT ![t] = NAT!Idle]
        \/ thread' = [thread EXCEPT ![t].at = "apply", ![t].session = table[thread[t].key]]
        \/ thread' = [thread EXCEPT ![t].at = "acquire"]
    BY <1>1 DEF NAT!findSession
  <2>2. CASE thread' = [thread EXCEPT ![t] = NAT!Idle]
    BY <1>1, <2>0, <2>2 DEF NAT!Idle
  <2>3. CASE thread' = [thread EXCEPT ![t].at = "apply", ![t].session = table[thread[t].key]]
    BY <1>1, <2>0, <2>3
  <2>4. CASE thread' = [thread EXCEPT ![t].at = "acquire"]
    BY <1>1, <2>0, <2>4
  <2> QED
    BY <2>0, <2>1, <2>2, <2>3, <2>4
<1>6. \/ thread'[t].at = "idle" /\ verdict'[callback[t].frame] = "routed"
      \/ callback'[t].at = "nat" /\ callback'[t].frame = callback[t].frame
  BY <1>1, <1>3, <1>4, ContinueGoesOn
<1> QED
  BY <1>1, <1>5, <1>6 DEF GoesOn, InHand

LEMMA ScanGoesOn ==
  ASSUME FilterInv, HandsInv, NEW t \in Thread, scanPool(t)
  PROVE  GoesOn(t) /\ table' = table /\ NAT!scanPool(t)
<1>1. /\ callback[t].at = "nat" /\ InHand(t) /\ DOMAIN thread = Thread
      /\ NAT!scanPool(t) /\ table' = table /\ Continue(t, callback[t])
  BY DEF scanPool, InNat, At, HandsInv, NAT!scanPool
<1>2. /\ thread[t].at = "acquire"
      /\ DOMAIN thread' = Thread /\ \A u \in Thread \ {t} : thread'[u] = thread[u]
      /\ thread'[t].at # "idle" =>
           thread'[t].packet = thread[t].packet /\ thread'[t].key = thread[t].key
  <2>0. thread[t].at = "acquire"
    BY <1>1 DEF NAT!scanPool
  <2>1. \/ thread' = [thread EXCEPT ![t] = NAT!Idle]
        \/ \E port : thread' = [thread EXCEPT ![t].at = "mark", ![t].tried = 0,
                                             ![t].port = port]
        \/ \E i : thread' = [thread EXCEPT ![t].tried = i]
    BY <1>1 DEF NAT!scanPool
  <2>2. CASE thread' = [thread EXCEPT ![t] = NAT!Idle]
    BY <1>1, <2>0, <2>2 DEF NAT!Idle
  <2>3. ASSUME NEW port,
               thread' = [thread EXCEPT ![t].at = "mark", ![t].tried = 0, ![t].port = port]
        PROVE  /\ DOMAIN thread' = Thread /\ \A u \in Thread \ {t} : thread'[u] = thread[u]
               /\ thread'[t].packet = thread[t].packet /\ thread'[t].key = thread[t].key
    BY <1>1, <2>3
  <2>4. ASSUME NEW i, thread' = [thread EXCEPT ![t].tried = i]
        PROVE  /\ DOMAIN thread' = Thread /\ \A u \in Thread \ {t} : thread'[u] = thread[u]
               /\ thread'[t].packet = thread[t].packet /\ thread'[t].key = thread[t].key
    BY <1>1, <2>4
  <2> QED
    BY <2>0, <2>1, <2>2, <2>3, <2>4
<1>3. \/ thread'[t].at = "idle" /\ verdict'[callback[t].frame] = "routed"
      \/ callback'[t].at = "nat" /\ callback'[t].frame = callback[t].frame
  BY <1>1, ContinueGoesOn
<1> QED
  BY <1>1, <1>2, <1>3 DEF GoesOn, InHand

LEMMA ConstructGoesOn ==
  ASSUME FilterInv, HandsInv, NEW t \in Thread, constructSession(t)
  PROVE  GoesOn(t) /\ table' = table /\ NAT!markPort(t)
<1>1. /\ callback[t].at = "nat" /\ InHand(t) /\ DOMAIN thread = Thread
      /\ NAT!markPort(t) /\ table' = table
  BY DEF constructSession, InNat, At, HandsInv, NAT!markPort
<1>2. /\ thread[t].at = "mark"
      /\ DOMAIN thread' = Thread /\ \A u \in Thread \ {t} : thread'[u] = thread[u]
      /\ thread'[t].packet = thread[t].packet /\ thread'[t].key = thread[t].key
  BY <1>1 DEF NAT!markPort
<1>3. \/ thread'[t].at = "idle" /\ verdict'[callback[t].frame] = "routed"
      \/ callback'[t].at = "nat" /\ callback'[t].frame = callback[t].frame
  <2>1. CASE Continue(t, callback[t])
    BY <1>1, <2>1, ContinueGoesOn
  <2>2. ASSUME NEW c, Continue(t, [callback[t] EXCEPT !.ctx = c])
        PROVE  \/ thread'[t].at = "idle" /\ verdict'[callback[t].frame] = "routed"
               \/ callback'[t].at = "nat" /\ callback'[t].frame = callback[t].frame
    <3> DEFINE locals == [callback[t] EXCEPT !.ctx = c]
    <3>1. locals.at = callback[t].at /\ locals.frame = callback[t].frame
      OBVIOUS
    <3>2. Continue(t, locals)
      BY <2>2
    <3> HIDE DEF locals
    <3> QED
      BY <1>1, <3>1, <3>2, ContinueGoesOn
  <2> QED
    BY <2>1, <2>2 DEF constructSession
<1> QED
  BY <1>1, <1>2, <1>3 DEF GoesOn, InHand

LEMMA OutboundGoesOn ==
  ASSUME FilterInv, HandsInv, NEW t \in Thread, createOutbound(t)
  PROVE  /\ GoesOn(t) /\ NAT!createOutbound(t)
         /\ callback[t].at = "nat" /\ thread[t].at = "createOut"
         /\ callback'[t].at = "nat" /\ callback'[t].frame = callback[t].frame
         /\ DOMAIN table' \subseteq DOMAIN table \cup {thread[t].key}
<1>1. /\ callback[t].at = "nat" /\ InHand(t) /\ DOMAIN thread = Thread
      /\ NAT!createOutbound(t)
  BY DEF createOutbound, InNat, At, HandsInv
<1>2. PICK stored, owed :
        Continue(t, [callback[t] EXCEPT !.stored = stored, !.owed = owed])
  BY DEF createOutbound
<1> DEFINE locals == [callback[t] EXCEPT !.stored = stored, !.owed = owed]
<1>3. locals.at = callback[t].at /\ locals.frame = callback[t].frame
  OBVIOUS
<1>4. Continue(t, locals)
  BY <1>2
<1> HIDE DEF locals
<1>5. /\ thread[t].at = "createOut" /\ thread'[t].at = "createIn"
      /\ DOMAIN thread' = Thread /\ \A u \in Thread \ {t} : thread'[u] = thread[u]
      /\ thread'[t].packet = thread[t].packet /\ thread'[t].key = thread[t].key
  BY <1>1 DEF NAT!createOutbound
<1>6. callback'[t].at = "nat" /\ callback'[t].frame = callback[t].frame
  BY <1>1, <1>3, <1>4, <1>5, ContinueGoesOn
<1>7. DOMAIN table' \subseteq DOMAIN table \cup {thread[t].key}
  BY <1>1 DEF NAT!createOutbound, NAT!createSession, NAT!Emplace
<1> QED
  BY <1>1, <1>5, <1>6, <1>7 DEF GoesOn, InHand

LEMMA InboundGoesOn ==
  ASSUME FilterInv, HandsInv, NEW t \in Thread, createInbound(t)
  PROVE  /\ GoesOn(t) /\ NAT!createInbound(t)
         /\ \A key \in DOMAIN table' : key \in DOMAIN table \/ key.dst_ip = External
<1>1. /\ callback[t].at = "nat" /\ InHand(t) /\ DOMAIN thread = Thread
      /\ NAT!createInbound(t)
  BY DEF createInbound, InNat, At, HandsInv
<1>2. PICK owed : Continue(t, [callback[t] EXCEPT !.owed = owed])
  BY DEF createInbound
<1> DEFINE locals == [callback[t] EXCEPT !.owed = owed]
<1>3. locals.at = callback[t].at /\ locals.frame = callback[t].frame
  OBVIOUS
<1>4. Continue(t, locals)
  BY <1>2
<1> HIDE DEF locals
<1>5. /\ thread[t].at = "createIn" /\ thread'[t].at = "apply"
      /\ DOMAIN thread' = Thread /\ \A u \in Thread \ {t} : thread'[u] = thread[u]
      /\ thread'[t].packet = thread[t].packet /\ thread'[t].key = thread[t].key
  BY <1>1 DEF NAT!createInbound
<1>6. callback'[t].at = "nat" /\ callback'[t].frame = callback[t].frame
  BY <1>1, <1>3, <1>4, <1>5, ContinueGoesOn
<1>7. \A key \in DOMAIN table' : key \in DOMAIN table \/ key.dst_ip = External
  BY <1>1 DEF NAT!createInbound, NAT!createSession, NAT!Emplace, NAT!returnKey
<1> QED
  BY <1>1, <1>5, <1>6, <1>7 DEF GoesOn, InHand

LEMMA ApplyGoesOn ==
  ASSUME FilterInv, HandsInv, NEW t \in Thread, applyNat(t)
  PROVE  GoesOn(t) /\ table' = table /\ NAT!applyNat(t)
<1>1. /\ callback[t].at = "nat" /\ InHand(t) /\ DOMAIN thread = Thread
      /\ NAT!applyNat(t) /\ table' = table /\ Continue(t, callback[t])
  BY DEF applyNat, InNat, At, HandsInv, NAT!applyNat
<1>2. /\ thread'[t].at = "idle"
      /\ DOMAIN thread' = Thread /\ \A u \in Thread \ {t} : thread'[u] = thread[u]
  BY <1>1 DEF NAT!applyNat, NAT!Idle
<1>3. verdict'[callback[t].frame] = "routed"
  BY <1>1, <1>2, ContinueGoesOn
<1> QED
  BY <1>1, <1>2, <1>3 DEF GoesOn, InHand

\* The steps that are none of NatState's.
LEMMA ScansGoOn ==
  ASSUME FilterInv, HandsInv, NEW t \in Thread, UNCHANGED natVars,
         \/ callback[t].at # "nat"
         \/ callback'[t].at = "nat" /\ callback'[t].frame = callback[t].frame
  PROVE  GoesOn(t) /\ table' = table
<1>1. /\ InHand(t) /\ DOMAIN thread = Thread /\ thread' = thread /\ table' = table
  BY DEF HandsInv, natVars
<1> QED
  BY <1>1 DEF GoesOn, InHand

\* What a step of a callback may add to the table.
Adds(t) ==
  \A key \in DOMAIN table' :
    \/ key \in DOMAIN table \/ key.dst_ip = External
    \/ /\ callback'[t].at = "nat" /\ callback'[t].frame = callback[t].frame
       /\ callback[t].at = "nat"
       /\ key \in NAT!getKeyFromPacket(callback[t].frame.flow)

LEMMA HandlerGoesOn ==
  ASSUME FilterInv, HandsInv, NEW t \in Thread, Handler(t)
  PROVE  GoesOn(t) /\ Adds(t) /\ [NAT!Next]_natVars
<1>1. ASSUME GoesOn(t), table' = table, [NAT!Next]_natVars
      PROVE  GoesOn(t) /\ Adds(t) /\ [NAT!Next]_natVars
  BY <1>1 DEF Adds
<1>2. CASE \/ evaluatePolicies(t) \/ findSession(t) \/ UrlFilteringProfile_scan(t)
           \/ AntimalwareProfile_scan(t) \/ updateAntimalwareHash(t)
           \/ finalizeAntimalwareHash(t) \/ block(t) \/ noMoreProfiles(t)
  <2>1. callback[t].at # "nat" /\ UNCHANGED natVars
    BY <1>2 DEF evaluatePolicies, findSession, UrlFilteringProfile_scan,
       AntimalwareProfile_scan, updateAntimalwareHash, finalizeAntimalwareHash, block,
       noMoreProfiles, Scans, At
  <2> QED
    BY <1>1, <2>1, ScansGoOn
<1>3. CASE destroySession(t)
  <2>1. /\ UNCHANGED natVars
        /\ callback'[t].at = "nat" /\ callback'[t].frame = callback[t].frame
    BY <1>3 DEF destroySession, At, FilterInv
  <2> QED
    BY <1>1, <2>1, ScansGoOn
<1>4. CASE enterNat(t)
  <2>1. /\ callback[t].frame \in Decidable
        /\ NAT!onPacketArrives(t, callback[t].frame.flow)
    BY <1>4, EnterGoesOn DEF FilterInv, Judged, enterNat, At
  <2>2. callback[t].frame.flow \in NAT!Arriving
    BY <2>1 DEF Decidable, NAT!Arriving, Flows
  <2>3. NAT!Next
    BY <2>1, <2>2 DEF NAT!Next
  <2> QED
    BY <1>1, <1>4, <2>3, EnterGoesOn
<1>5. CASE natFindSession(t) \/ scanPool(t) \/ constructSession(t) \/ applyNat(t)
  <2>1. /\ GoesOn(t) /\ table' = table
        /\ NAT!findSession(t) \/ NAT!scanPool(t) \/ NAT!markPort(t) \/ NAT!applyNat(t)
    BY <1>5, FindGoesOn, ScanGoesOn, ConstructGoesOn, ApplyGoesOn
  <2>2. NAT!Next
    BY <2>1 DEF NAT!Next, NAT!Handler
  <2> QED
    BY <1>1, <2>1, <2>2
<1>6. CASE createOutbound(t)
  <2>1. NAT!Next
    BY <1>6, OutboundGoesOn DEF NAT!Next, NAT!Handler
  <2>2. thread[t].key \in NAT!getKeyFromPacket(callback[t].frame.flow)
    BY <1>6, OutboundGoesOn DEF HandsInv, InHand
  <2>3. Adds(t)
    BY <1>6, <2>2, OutboundGoesOn DEF Adds
  <2> QED
    BY <1>6, <2>1, <2>3, OutboundGoesOn
<1>7. CASE createInbound(t)
  <2>1. NAT!Next
    BY <1>7, InboundGoesOn DEF NAT!Next, NAT!Handler
  <2>2. Adds(t)
    BY <1>7, InboundGoesOn DEF Adds
  <2> QED
    BY <1>7, <2>1, <2>2, InboundGoesOn
<1>8. CASE crash(t)
  <2>1. UNCHANGED natVars /\ callback' = callback
    BY <1>8 DEF crash
  <2> QED
    BY <1>1, <2>1, ScansGoOn
<1> QED
  BY <1>2, <1>3, <1>4, <1>5, <1>6, <1>7, <1>8 DEF Handler

\* A step of one thread keeps the others' hands.
LEMMA HandsKeep ==
  ASSUME HandsInv, NEW t \in Thread, GoesOn(t),
         \A u \in Thread \ {t} : callback'[u] = callback[u]
  PROVE  HandsInv'
BY DEF HandsInv, GoesOn, InHand

LEMMA HandsStep ==
  ASSUME FilterInv, HandsInv, [Next]_vars PROVE HandsInv' /\ [NAT!Next]_natVars
<1>1. CASE UNCHANGED <<natVars, callback>>
  BY <1>1 DEF HandsInv, InHand, natVars
<1>2. CASE \E t \in Thread : runCallback(t)
  <2>1. PICK t \in Thread : Handler(t)
    BY <1>2 DEF runCallback
  <2> QED
    BY <2>1, HandlerIsLocal, HandlerGoesOn, HandsKeep DEF FilterInv
<1>3. CASE \E t \in Thread, f \in Traffic : capture(t, f)
  <2>1. PICK t \in Thread, f \in Traffic : onPacketArrives(t, f)
    BY <1>3 DEF capture
  <2>2. /\ callback[t].at = "idle" /\ UNCHANGED natVars
        /\ \A u \in Thread \ {t} : callback'[u] = callback[u]
    BY <2>1 DEF onPacketArrives, At, FilterInv
  <2>3. GoesOn(t)
    BY <2>2, ScansGoOn
  <2> QED
    BY <2>2, <2>3, HandsKeep
<1>4. CASE Main \/ exitProgram \/ signal \/ signalWhileGrowing \/ UNCHANGED vars
  <2>1. UNCHANGED <<natVars, callback>>
    BY <1>4 DEF Main, load, collect, open, start, print, wait, close, closeCapturing,
       exitProgram, stopCapture, handlerReturns, signal, signalWhileGrowing, vars,
       inspectionVars
  <2> QED
    BY <1>1, <2>1
<1> QED
  BY <1>2, <1>3, <1>4 DEF Next, Run

LEMMA HandsInit == FirewallInit => HandsInv
BY DEF FirewallInit, Init, NAT!Init, NAT!Idle, HandsInv, InHand

LEMMA FilterAlways == Spec => []FilterInv
<1>1. FilterInv /\ [Next]_vars => FilterInv'
  BY FilterStep DEF Refines
<1> QED
  BY <1>1, FilterInit, PTL DEF Spec

LEMMA HandsAlways == Spec => []HandsInv
<1>1. FilterInv /\ HandsInv /\ [Next]_vars => HandsInv'
  BY HandsStep
<1> QED
  BY <1>1, HandsInit, FilterAlways, PTL DEF Spec

(* Whatever main, the signal and the scans do around it, the NAT part of    *)
(* the callbacks is NatState: what is proved of NatState's behaviours holds *)
(* of the program's.                                                        *)
THEOREM NatIsNatState == Spec => NAT!Spec
<1>1. FirewallInit => NAT!Init
  BY DEF FirewallInit, Init
<1>2. FilterInv /\ HandsInv /\ [Next]_vars => [NAT!Next]_(NAT!vars)
  BY HandsStep DEF natVars, NAT!vars
<1> QED
  BY <1>1, <1>2, FilterAlways, HandsAlways, PTL DEF Spec, NAT!Spec

\* NatState's theorems, of the NAT part.
NatProofs == INSTANCE NatStateProofs WITH Traffic <- Flows

LEMMA NatParameters == NatProofs!NatAssumption
BY InspectionAssumption
   DEF NAT!NatAssumption, NatProofs!NatAssumption, NAT!Pool, NatProofs!Pool,
   NAT!Address, NatProofs!Address, NAT!Packet, NatProofs!Packet, NAT!SessionFlowKey,
   NatProofs!SessionFlowKey, NAT!NatSession, NatProofs!NatSession

LEMMA SameNext == NAT!Next <=> NatProofs!Next
BY DEF NAT!Pool, NatProofs!Pool, NAT!Address, NatProofs!Address, NAT!Packet,
   NatProofs!Packet, NAT!SessionFlowKey, NatProofs!SessionFlowKey, NAT!NatSession,
   NatProofs!NatSession, NAT!Idle, NatProofs!Idle, NAT!Translation,
   NatProofs!Translation, NAT!getKeyFromPacket, NatProofs!getKeyFromPacket,
   NAT!isInternalNetwork, NatProofs!isInternalNetwork, NAT!Inbound, NatProofs!Inbound,
   NAT!Outbound, NatProofs!Outbound, NAT!Route, NatProofs!Route, NAT!Racing,
   NatProofs!Racing, NAT!onPacketArrives, NatProofs!onPacketArrives, NAT!findSession,
   NatProofs!findSession, NAT!PoolSize, NatProofs!PoolSize, NAT!Scanned,
   NatProofs!Scanned, NAT!scanPool,
   NatProofs!scanPool, NAT!markPort, NatProofs!markPort, NAT!NewSession,
   NatProofs!NewSession, NAT!returnKey, NatProofs!returnKey, NAT!Emplace,
   NatProofs!Emplace, NAT!createSession, NatProofs!createSession, NAT!createOutbound,
   NatProofs!createOutbound, NAT!createInbound, NatProofs!createInbound, NAT!Translate,
   NatProofs!Translate, NAT!applyNat, NatProofs!applyNat, NAT!Reply, NatProofs!Reply,
   NAT!Arriving, NatProofs!Arriving, NAT!Handler, NatProofs!Handler, NAT!Next,
   NatProofs!Next

LEMMA SameSpec == NAT!Spec => NatProofs!Spec
<1>1. NAT!Init => NatProofs!Init
  BY DEF NAT!Init, NatProofs!Init, NAT!Idle, NatProofs!Idle
<1>2. [NAT!Next]_(NAT!vars) => [NatProofs!Next]_(NatProofs!vars)
  BY SameNext DEF NAT!vars, NatProofs!vars
<1> QED
  BY <1>1, <1>2, PTL DEF NAT!Spec, NatProofs!Spec

(* The servers can tell the clients apart in the whole program too, if one  *)
(* thread creates all sessions: no two flows leave with the same public     *)
(* address and port towards one server, whatever is scanned and stopped.    *)
THEOREM FlowsDiffer == NatProofs!SingleCreator => (Spec => []NatProofs!PublicFlowsDiffer)
<1>1. NatProofs!SingleCreator => (NatProofs!Spec => []NatProofs!PublicFlowsDiffer)
  BY NatParameters, NatProofs!FlowsDiffer
<1> QED
  BY <1>1, NatIsNatState, SameSpec, PTL

(* Nor is a flow given a second port by anything the rest of the program    *)
(* does: a packet of it that is dropped by a scan or waits for one leaves   *)
(* its binding as it is.                                                    *)
THEOREM PortsAreKept == NatProofs!SingleCreator => (Spec => []NatProofs!FlowsKeepTheirPort)
<1>1. NatProofs!SingleCreator => (NatProofs!Spec => []NatProofs!FlowsKeepTheirPort)
  BY NatParameters, NatProofs!PortsAreKept
<1> QED
  BY <1>1, NatIsNatState, SameSpec, PTL

(* What the whole program hands to NatState of a server's answer to a       *)
(* packet that it has let out goes to the client and port that had sent it, *)
(* unless its lookup overlaps the insertion of another session.             *)
THEOREM RepliesReturn == NatProofs!SingleCreator => (Spec => NatProofs!RepliesComeBack)
<1>1. NatProofs!SingleCreator => (NatProofs!Spec => NatProofs!RepliesComeBack)
  BY NatParameters, NatProofs!RepliesReturn
<1> QED
  BY <1>1, NatIsNatState, SameSpec, PTL

(* If one thread creates all sessions, no client's own address shows on the *)
(* outside, whatever policies, scans and the stop do, unless every port is  *)
(* in use.                                                                  *)
THEOREM LeaksAreRight == NatProofs!SingleCreator => (Spec => []NatProofs!LeakOnlyWhenExhausted)
<1>1. NatProofs!SingleCreator => (NatProofs!Spec => []NatProofs!LeakOnlyWhenExhausted)
  BY NatParameters, NatProofs!LeaksAreRight
<1> QED
  BY <1>1, NatIsNatState, SameSpec, PTL

\* The types of NatState's variables.
LEMMA NatTypes == Spec => []NatProofs!TypeOK
<1>1. NatProofs!Spec => []NatProofs!TypeOK
  BY NatParameters, NatProofs!TypeCorrect
<1> QED
  BY <1>1, NatIsNatState, SameSpec, PTL
-----------------------------------------------------------------------------
(***************************************************************************)
(* What a refused packet leaves behind.                                    *)
(***************************************************************************)
OnItsWay(f) ==
  \/ verdict[f] = "routed"
  \/ callback[f.in].at = "nat" /\ callback[f.in].frame = f

LEMMA OnItsWayKeeps ==
  ASSUME FilterInv, Refines, NEW t \in Thread, GoesOn(t),
         \A u \in Thread \ {t} : callback'[u] = callback[u],
         NEW f \in Decidable, OnItsWay(f)
  PROVE  OnItsWay(f)'
<1>1. f.in \in Thread /\ f \in Traffic /\ DOMAIN verdict = Traffic
  BY InspectionAssumption DEF FilterInv, Decidable, FrameFields
<1>2. CASE verdict[f] = "routed"
  BY <1>1, <1>2 DEF Refines, OnItsWay, Decisions!Next, Decisions!Deny, Decisions!Block,
     Decisions!Pass, Decisions!Decide
<1>3. CASE callback[f.in].at = "nat" /\ callback[f.in].frame = f
  BY <1>1, <1>3 DEF OnItsWay, GoesOn
<1> QED
  BY <1>2, <1>3 DEF OnItsWay

LEMMA TraceKeeps ==
  ASSUME FilterInv, Refines, NEW t \in Thread, GoesOn(t), Adds(t), RefusedLeaveNoTrace,
         \A u \in Thread \ {t} : callback'[u] = callback[u]
  PROVE  RefusedLeaveNoTrace'
<1> SUFFICES ASSUME NEW key \in DOMAIN table', key.dst_ip # External,
                    key.protocol # "PacketTrailer"
             PROVE  \E f \in Decidable : f.flow = key /\ OnItsWay(f)'
  BY DEF RefusedLeaveNoTrace, OnItsWay, Decidable
<1>1. CASE key \in DOMAIN table
  <2>1. PICK f \in Decidable : f.flow = key /\ OnItsWay(f)
    BY <1>1 DEF RefusedLeaveNoTrace, OnItsWay, Decidable
  <2> QED
    BY <2>1, OnItsWayKeeps
<1>2. CASE /\ callback'[t].at = "nat" /\ callback'[t].frame = callback[t].frame
           /\ callback[t].at = "nat"
           /\ key \in NAT!getKeyFromPacket(callback[t].frame.flow)
  <2> DEFINE f == callback[t].frame
  <2>1. f \in Decidable /\ f.in = t
    BY <1>2 DEF FilterInv, Judged
  <2>2. f.flow \in NAT!Packet
    BY <2>1, InspectionAssumption DEF Decidable, FrameFields
  <2>3. f.flow = key
    BY <1>2, <2>2 DEF NAT!getKeyFromPacket, NAT!Packet
  <2> QED
    BY <1>2, <2>1, <2>3 DEF OnItsWay
<1> QED
  BY <1>1, <1>2 DEF Adds

LEMMA TraceStep ==
  ASSUME FilterInv, HandsInv, RefusedLeaveNoTrace, [Next]_vars
  PROVE  RefusedLeaveNoTrace'
<1>1. Refines
  BY FilterStep
<1>2. CASE \E t \in Thread : runCallback(t)
  <2>1. PICK t \in Thread : Handler(t)
    BY <1>2 DEF runCallback
  <2> QED
    BY <1>1, <2>1, HandlerIsLocal, HandlerGoesOn, TraceKeeps DEF FilterInv
<1>3. CASE \E t \in Thread, f \in Traffic : capture(t, f)
  <2>1. PICK t \in Thread, f \in Traffic : onPacketArrives(t, f)
    BY <1>3 DEF capture
  <2>2. /\ callback[t].at = "idle" /\ UNCHANGED natVars
        /\ \A u \in Thread \ {t} : callback'[u] = callback[u]
    BY <2>1 DEF onPacketArrives, At, FilterInv
  <2>3. GoesOn(t) /\ Adds(t)
    BY <2>2, ScansGoOn DEF Adds
  <2> QED
    BY <1>1, <2>2, <2>3, TraceKeeps
<1>4. CASE Main \/ exitProgram \/ signal \/ signalWhileGrowing \/ UNCHANGED vars
  <2>1. UNCHANGED <<table, callback, verdict>>
    BY <1>4 DEF Main, load, collect, open, start, print, wait, close, closeCapturing,
       exitProgram, stopCapture, handlerReturns, signal, signalWhileGrowing, vars,
       inspectionVars, natVars
  <2> QED
    BY <2>1 DEF RefusedLeaveNoTrace
<1> QED
  BY <1>2, <1>3, <1>4 DEF Next, Run

(* A session in the table is of a packet that was routed, or that is past   *)
(* the scans: a refused packet has cost no port, for any traffic.           *)
THEOREM NoTrace == Spec => []RefusedLeaveNoTrace
<1>1. FirewallInit => RefusedLeaveNoTrace
  BY DEF FirewallInit, Init, NAT!Init, RefusedLeaveNoTrace
<1>2. FilterInv /\ HandsInv /\ RefusedLeaveNoTrace /\ [Next]_vars => RefusedLeaveNoTrace'
  BY TraceStep
<1> QED
  BY <1>1, <1>2, FilterAlways, HandsAlways, PTL DEF Spec
-----------------------------------------------------------------------------
(***************************************************************************)
(* Resets.                                                                 *)
(***************************************************************************)

\* A sum below twice the modulus wraps around once at most.
LEMMA WrapsOnce ==
  ASSUME NEW M \in Nat \ {0}, NEW x \in Nat, x < 2 * M
  PROVE  /\ x % M \in 0 .. M - 1
         /\ \E wraps \in 0 .. 1 : x = (x % M) + wraps * M
<1>1. x % M \in 0 .. M - 1
  OBVIOUS
<1>2. CASE x < M
  <2>1. x % M = x
    BY <1>2
  <2> QED
    BY <1>1, <2>1
<1>3. CASE ~ (x < M)
  <2>1. x % M = x - M
    BY <1>3
  <2>2. x = (x % M) + 1 * M
    BY <2>1
  <2> QED
    BY <1>1, <2>2
<1> QED
  BY <1>2, <1>3

\* What ResetIsAccepted says of a reset, but for the verdict on its frame.
Accepted(r) ==
  LET f == r.frame
      takesUp == f.len + Cardinality(f.flags \cap {"SYN", "FIN"})
  IN  /\ f \in Traffic
      /\ r.reset.out = f.in /\ r.reset.to = f.src_mac
      /\ NAT!Reply(f.flow) = [protocol |-> "TCP",
            src_ip |-> r.reset.src_ip, src_port |-> r.reset.src_port,
            dst_ip |-> r.reset.dst_ip, dst_port |-> r.reset.dst_port]
      /\ "ACK" \in f.flags => r.reset.seq = f.ack
      /\ r.reset.ack \in 0 .. SeqModulus - 1
      /\ ~ {"SYN", "FIN"} \subseteq f.flags =>
           \E wraps \in 0 .. 1 : f.seq + takesUp = r.reset.ack + wraps * SeqModulus

LEMMA TakesUp ==
  ASSUME NEW flags \in SUBSET {"SYN", "ACK", "FIN"}, ~ {"SYN", "FIN"} \subseteq flags
  PROVE  Cardinality(flags \cap {"SYN", "FIN"}) =
           IF "SYN" \in flags \/ "FIN" \in flags THEN 1 ELSE 0
<1>1. CASE "SYN" \in flags
  <2>1. flags \cap {"SYN", "FIN"} = {"SYN"}
    BY <1>1
  <2> QED
    BY <1>1, <2>1, FS_Singleton
<1>2. CASE "SYN" \notin flags /\ "FIN" \in flags
  <2>1. flags \cap {"SYN", "FIN"} = {"FIN"}
    BY <1>2
  <2> QED
    BY <1>2, <2>1, FS_Singleton
<1>3. CASE "SYN" \notin flags /\ "FIN" \notin flags
  <2>1. flags \cap {"SYN", "FIN"} = {}
    BY <1>3
  <2> QED
    BY <1>3, <2>1, FS_EmptySet
<1> QED
  BY <1>1, <1>2, <1>3

LEMMA ResetOfASegment ==
  ASSUME NEW f \in Decidable, f.flow.protocol = "TCP"
  PROVE  Accepted([frame |-> f, reset |-> sendTcpRst(f)])
<1> DEFINE one == IF "SYN" \in f.flags \/ "FIN" \in f.flags THEN 1 ELSE 0
           takesUp == f.len + Cardinality(f.flags \cap {"SYN", "FIN"})
<1>1. /\ SeqModulus \in Nat \ {0} /\ f \in Traffic
      /\ f.seq \in 0 .. SeqModulus - 1 /\ f.len \in 0 .. SeqModulus - 1
      /\ f.flags \in SUBSET {"SYN", "ACK", "FIN"}
  BY InspectionAssumption DEF Decidable, FrameFields
<1>2. one \in {0, 1}
  OBVIOUS
<1>3. newAck(f) = (f.seq + f.len + one) % SeqModulus
  BY DEF newAck
<1>4. ~ {"SYN", "FIN"} \subseteq f.flags => takesUp = f.len + one
  BY <1>1, TakesUp
<1> HIDE DEF one, takesUp
<1>5. f.seq + f.len + one \in Nat /\ f.seq + f.len + one < 2 * SeqModulus
  BY <1>1, <1>2
<1>6. /\ newAck(f) \in 0 .. SeqModulus - 1
      /\ \E wraps \in 0 .. 1 : f.seq + f.len + one = newAck(f) + wraps * SeqModulus
  BY <1>1, <1>3, <1>5, WrapsOnce
<1>7. ~ {"SYN", "FIN"} \subseteq f.flags =>
        \E wraps \in 0 .. 1 : f.seq + takesUp = newAck(f) + wraps * SeqModulus
  <2>1. f.seq + (f.len + one) = f.seq + f.len + one
    BY <1>1, <1>2
  <2> QED
    BY <1>4, <1>6, <2>1
<1>8. /\ sendTcpRst(f).out = f.in /\ sendTcpRst(f).to = f.src_mac
      /\ sendTcpRst(f).ack = newAck(f)
      /\ "ACK" \in f.flags => sendTcpRst(f).seq = f.ack
  BY DEF sendTcpRst
<1>9. NAT!Reply(f.flow) =
        [protocol |-> "TCP",
         src_ip |-> sendTcpRst(f).src_ip, src_port |-> sendTcpRst(f).src_port,
         dst_ip |-> sendTcpRst(f).dst_ip, dst_port |-> sendTcpRst(f).dst_port]
  BY DEF sendTcpRst, NAT!Reply
<1> QED
  BY <1>1, <1>6, <1>7, <1>8, <1>9 DEF Accepted, takesUp

ResetInv == \A r \in resets : Accepted(r) /\ verdict[r.frame] = "blocked"

\* A reset is given by block alone, of the segment in hand.
LEMMA ResetsComeOfBlocks ==
  ASSUME [Next]_vars
  PROVE  \/ UNCHANGED resets
         \/ \E t \in Thread : block(t)
<1>1. CASE Main \/ exitProgram \/ signal \/ signalWhileGrowing \/ UNCHANGED vars
  BY <1>1 DEF Main, load, collect, open, start, print, wait, close, closeCapturing,
     exitProgram, stopCapture, handlerReturns, signal, signalWhileGrowing, vars,
     inspectionVars
<1>2. CASE \E t \in Thread, f \in Traffic : capture(t, f)
  BY <1>2 DEF capture, onPacketArrives
<1>3. ASSUME NEW t \in Thread, Handler(t) PROVE UNCHANGED resets \/ block(t)
  BY <1>3 DEF Handler, evaluatePolicies, findSession, UrlFilteringProfile_scan,
     AntimalwareProfile_scan, updateAntimalwareHash, finalizeAntimalwareHash,
     noMoreProfiles, enterNat, natFindSession, scanPool, constructSession,
     createOutbound, createInbound, destroySession, applyNat, crash
<1> QED
  BY <1>1, <1>2, <1>3 DEF Next, Run, runCallback

LEMMA ResetStep == ASSUME FilterInv, ResetInv, [Next]_vars PROVE ResetInv'
<1>1. Refines
  BY FilterStep
<1>2. ASSUME NEW r \in resets PROVE Accepted(r) /\ verdict'[r.frame] = "blocked"
  <2>1. /\ Accepted(r) /\ r.frame \in Traffic /\ verdict[r.frame] = "blocked"
        /\ DOMAIN verdict = Traffic
    BY DEF ResetInv, Accepted, FilterInv
  <2> QED
    BY <1>1, <2>1 DEF Refines, Decisions!Next, Decisions!Deny, Decisions!Block,
       Decisions!Pass, Decisions!Decide
<1>3. CASE UNCHANGED resets
  BY <1>2, <1>3 DEF ResetInv, Accepted
<1>4. ASSUME NEW t \in Thread, block(t) PROVE ResetInv'
  <2> DEFINE f == callback[t].frame
             new == [frame |-> f, reset |-> sendTcpRst(f)]
  <2>1. /\ callback[t].at = "block" /\ f \in Decidable /\ f \in Traffic
        /\ DOMAIN verdict = Traffic
    BY <1>4 DEF block, At, FilterInv, Judged, Decidable
  <2>2. verdict'[f] = "blocked"
    BY <1>4, <2>1 DEF block, End
  <2>3. f.flow.protocol = "TCP" => Accepted(new) /\ new.frame = f
    BY <2>1, ResetOfASegment
  <2>4. resets' = IF f.flow.protocol = "TCP" THEN resets \cup {new} ELSE resets
    BY <1>4 DEF block
  <2> HIDE DEF f, new
  <2>5. \A r \in resets' : Accepted(r) /\ verdict'[r.frame] = "blocked"
    BY <1>2, <2>2, <2>3, <2>4
  <2> QED
    BY <2>5 DEF ResetInv, Accepted
<1> QED
  BY <1>3, <1>4, ResetsComeOfBlocks

LEMMA ResetsAlways == Spec => []ResetInv
<1>1. FirewallInit => ResetInv
  BY DEF FirewallInit, Init, ResetInv
<1>2. FilterInv /\ ResetInv /\ [Next]_vars => ResetInv'
  BY ResetStep
<1> QED
  BY <1>1, <1>2, FilterAlways, PTL DEF Spec

(* A reset is of a blocked segment, and its sender accepts it: for any      *)
(* modulus, so also where the 32 bits of the sequence numbers wrap around.  *)
THEOREM ResetsAreAccepted == Spec => []ResetIsAccepted
<1>1. ResetInv => ResetIsAccepted
  BY DEF ResetInv, Accepted, ResetIsAccepted
<1> QED
  BY <1>1, ResetsAlways, PTL
-----------------------------------------------------------------------------
(***************************************************************************)
(* Type correctness.                                                       *)
(***************************************************************************)
Contexts == Ctx \cup {None}

\* The locals of a callback that FilterInv and HandsInv do not speak of.
LocalTypes(l) ==
  /\ l.at \in Place
  /\ l.frame \in Traffic \cup {None}
  /\ l.ctx \in Contexts
  /\ l.at \in {"update", "final"} => l.ctx \in Ctx
  /\ l.at = "update" => l.frame.body \in Body
  /\ l.stored \in Contexts
  /\ l.owed \in Seq(Contexts)

CallbackTypes ==
  /\ \A t \in Thread : LocalTypes(callback[t])
  /\ context \in [DOMAIN table -> Contexts]
  /\ live \subseteq Ctx
  /\ digest \in [Ctx -> Seq(Body \cup {Garbled})]
  /\ verdict \in [Traffic -> {"none", "denied", "blocked", "routed"}]
  /\ console \in BOOLEAN /\ alive \in BOOLEAN

\* What a step of t may do to all but its own locals.
SharedTypes ==
  /\ context' \in [DOMAIN table' -> Contexts]
  /\ live' \subseteq Ctx
  /\ digest' \in [Ctx -> Seq(Body \cup {Garbled})]
  /\ verdict' \in [Traffic -> {"none", "denied", "blocked", "routed"}]
  /\ console' \in BOOLEAN /\ alive' \in BOOLEAN

LEMMA TypesKeep ==
  ASSUME CallbackTypes, NEW t \in Thread, SharedTypes, LocalTypes(callback'[t]),
         \A u \in Thread \ {t} : callback'[u] = callback[u]
  PROVE  CallbackTypes'
<1>1. \A u \in Thread : LocalTypes(callback'[u])
  BY DEF CallbackTypes
<1>2. (\A u \in Thread : LocalTypes(callback[u]))'
  BY <1>1 DEF LocalTypes
<1> QED
  BY <1>2 DEF CallbackTypes, SharedTypes

LEMMA IdleTypes == LocalTypes(Idle)
<1>1. <<>> \in Seq(Contexts)
  OBVIOUS
<1> QED
  BY <1>1 DEF LocalTypes, Idle, Contexts, Place

LEMMA EndTypes ==
  ASSUME FilterInv, CallbackTypes, NEW t \in Thread, callback[t].at # "idle",
         NEW what \in {"denied", "blocked", "routed"}, End(t, what)
  PROVE  /\ LocalTypes(callback'[t])
         /\ verdict' \in [Traffic -> {"none", "denied", "blocked", "routed"}]
<1>1. callback'[t] = Idle
  BY DEF FilterInv, End
<1>2. verdict' \in [Traffic -> {"none", "denied", "blocked", "routed"}]
  BY DEF CallbackTypes, End
<1> QED
  BY <1>1, <1>2, IdleTypes

\* Locals that move to a place where no context is used.
LEMMA PlaceTypes ==
  ASSUME NEW l, LocalTypes(l), NEW m, m.at \in Place \ {"update", "final"},
         m.frame = l.frame, m.ctx \in Contexts, m.stored \in Contexts,
         m.owed \in Seq(Contexts)
  PROVE  LocalTypes(m)
BY DEF LocalTypes

LEMMA GotoTypes ==
  ASSUME FilterInv, CallbackTypes, NEW t \in Thread,
         NEW place \in Place \ {"update", "final"},
         \/ callback' = Goto(t, place)
         \/ \E c \in Contexts : callback' = [Goto(t, place) EXCEPT ![t].ctx = c]
         \/ \E ps : callback' = [Goto(t, place) EXCEPT ![t].profiles = ps]
         \/ place = "scan" /\ callback' = NextProfile(t)
  PROVE  LocalTypes(callback'[t])
<1>1. /\ DOMAIN callback = Thread /\ callback[t].ctx \in Contexts
      /\ callback[t].stored \in Contexts /\ callback[t].owed \in Seq(Contexts)
  BY DEF FilterInv, CallbackTypes, LocalTypes
<1>2. /\ callback'[t].at = place /\ callback'[t].frame = callback[t].frame
      /\ callback'[t].ctx \in Contexts /\ callback'[t].stored = callback[t].stored
      /\ callback'[t].owed = callback[t].owed
  <2> DEFINE g == Goto(t, place)
  <2>0. /\ DOMAIN g = Thread /\ g[t].at = place /\ g[t].frame = callback[t].frame
        /\ g[t].ctx = callback[t].ctx /\ g[t].stored = callback[t].stored
        /\ g[t].owed = callback[t].owed
    BY <1>1 DEF Goto
  <2> HIDE DEF g
  <2>1. CASE callback' = g
    BY <1>1, <2>0, <2>1
  <2>2. CASE \E c \in Contexts : callback' = [g EXCEPT ![t].ctx = c]
    BY <1>1, <2>0, <2>2
  <2>3. CASE \E ps : callback' = [g EXCEPT ![t].profiles = ps]
    BY <1>1, <2>0, <2>3
  <2>4. CASE place = "scan" /\ callback' = NextProfile(t)
    BY <1>1, <2>4 DEF NextProfile
  <2> QED
    BY <2>1, <2>2, <2>3, <2>4 DEF g
<1> QED
  BY <1>1, <1>2, PlaceTypes DEF CallbackTypes

LEMMA ContinueTypes ==
  ASSUME FilterInv, CallbackTypes, NEW t \in Thread, callback[t].at # "idle", NEW l,
         LocalTypes(l), Continue(t, l)
  PROVE  /\ LocalTypes(callback'[t])
         /\ verdict' \in [Traffic -> {"none", "denied", "blocked", "routed"}]
<1>1. CASE End(t, "routed")
  BY <1>1, EndTypes
<1>2. CASE callback' = [callback EXCEPT ![t] = l] /\ UNCHANGED verdict
  BY <1>2 DEF FilterInv, CallbackTypes
<1> QED
  BY <1>1, <1>2 DEF Continue

\* A step that changes only the locals and the verdict.
LEMMA LocalTypesKeep ==
  ASSUME CallbackTypes, NEW t \in Thread, LocalTypes(callback'[t]),
         \A u \in Thread \ {t} : callback'[u] = callback[u],
         verdict' \in [Traffic -> {"none", "denied", "blocked", "routed"}],
         UNCHANGED <<table, context, live, digest, console, alive>>
  PROVE  CallbackTypes'
<1>1. SharedTypes
  BY DEF SharedTypes, CallbackTypes
<1> QED
  BY <1>1, TypesKeep

LEMMA PolicyScanTypes ==
  ASSUME FilterInv, CallbackTypes, NEW t \in Thread,
         \A u \in Thread \ {t} : callback'[u] = callback[u],
         \/ evaluatePolicies(t) \/ findSession(t) \/ UrlFilteringProfile_scan(t)
         \/ block(t) \/ noMoreProfiles(t)
  PROVE  CallbackTypes'
<1>1. /\ callback[t].at # "idle"
      /\ UNCHANGED <<table, context, live, digest, console, alive>>
  BY DEF evaluatePolicies, findSession, UrlFilteringProfile_scan, block, noMoreProfiles,
     Scans, At, natVars
<1>2. CASE End(t, "denied") \/ End(t, "blocked")
  BY <1>1, <1>2, EndTypes, LocalTypesKeep
<1>3. ASSUME UNCHANGED verdict, LocalTypes(callback'[t]) PROVE CallbackTypes'
  BY <1>1, <1>3, LocalTypesKeep DEF CallbackTypes
<1>4. CASE evaluatePolicies(t)
  <2>1. \/ End(t, "denied")
        \/ callback' = Goto(t, "pass") /\ UNCHANGED verdict
        \/ /\ \E ps : callback' = [Goto(t, "lookup") EXCEPT ![t].profiles = ps]
           /\ UNCHANGED verdict
    BY <1>4 DEF evaluatePolicies
  <2>2. {"pass", "lookup"} \subseteq Place \ {"update", "final"}
    BY DEF Place
  <2> QED
    BY <1>2, <1>3, <2>1, <2>2, GotoTypes
<1>5. CASE findSession(t)
  <2>1. /\ UNCHANGED verdict
        /\ \/ callback' = Goto(t, "scan")
           \/ \E c \in Contexts : callback' = [Goto(t, "scan") EXCEPT ![t].ctx = c]
    BY <1>5 DEF findSession, CallbackTypes
  <2>2. "scan" \in Place \ {"update", "final"}
    BY DEF Place
  <2> QED
    BY <1>3, <2>1, <2>2, GotoTypes
<1>6. CASE UrlFilteringProfile_scan(t)
  <2>1. /\ UNCHANGED verdict
        /\ callback' = Goto(t, "block") \/ callback' = NextProfile(t)
    BY <1>6 DEF UrlFilteringProfile_scan
  <2>2. {"scan", "block"} \subseteq Place \ {"update", "final"}
    BY DEF Place
  <2> QED
    BY <1>3, <2>1, <2>2, GotoTypes
<1>7. CASE block(t)
  BY <1>2, <1>7 DEF block
<1>8. CASE noMoreProfiles(t)
  <2>1. /\ UNCHANGED verdict
        /\ \E c \in Contexts : callback' = [Goto(t, "pass") EXCEPT ![t].ctx = c]
    BY <1>8 DEF noMoreProfiles, Contexts
  <2>2. "pass" \in Place \ {"update", "final"}
    BY DEF Place
  <2> QED
    BY <1>3, <2>1, <2>2, GotoTypes
<1> QED
  BY <1>4, <1>5, <1>6, <1>7, <1>8

\* To a digest call, with the context that is there.
LEMMA HashTypes ==
  ASSUME FilterInv, CallbackTypes, NEW t \in Thread, NEW place \in {"update", "final"},
         callback[t].ctx \in Ctx,
         place = "update" => callback[t].frame.body \in Body,
         callback' = Goto(t, place)
  PROVE  LocalTypes(callback'[t])
<1>1. /\ callback'[t].at = place /\ callback'[t].frame = callback[t].frame
      /\ callback'[t].ctx = callback[t].ctx /\ callback'[t].stored = callback[t].stored
      /\ callback'[t].owed = callback[t].owed
  BY DEF Goto, FilterInv
<1> QED
  BY <1>1 DEF CallbackTypes, LocalTypes, Place

LEMMA DigestTypes ==
  ASSUME FilterInv, CallbackTypes, NEW t \in Thread,
         \A u \in Thread \ {t} : callback'[u] = callback[u],
         \/ AntimalwareProfile_scan(t) \/ updateAntimalwareHash(t)
         \/ finalizeAntimalwareHash(t)
  PROVE  CallbackTypes'
<1> DEFINE f == callback[t].frame
           c == callback[t].ctx
<1>1. UNCHANGED <<table, context, live, verdict, console, alive>>
  BY DEF AntimalwareProfile_scan, updateAntimalwareHash, finalizeAntimalwareHash, natVars
<1>2. {"scan", "block"} \subseteq Place \ {"update", "final"}
  BY DEF Place
<1>3. /\ callback[t].at \in {"scan", "update", "final"} /\ f \in Decidable
      /\ c \in Contexts
      /\ callback[t].at \in {"update", "final"} => c \in Ctx
      /\ callback[t].at = "update" => f.body \in Body
  BY DEF AntimalwareProfile_scan, updateAntimalwareHash, finalizeAntimalwareHash, Scans,
     At, FilterInv, Judged, CallbackTypes, LocalTypes
<1>4. f.body \in Body \cup {None}
  BY <1>3, InspectionAssumption DEF Decidable, FrameFields
<1>5. ASSUME LocalTypes(callback'[t]), digest' \in [Ctx -> Seq(Body \cup {Garbled})]
      PROVE  CallbackTypes'
  <2>1. SharedTypes
    BY <1>1, <1>5 DEF SharedTypes, CallbackTypes
  <2> QED
    BY <1>5, <2>1, TypesKeep
<1>6. CASE AntimalwareProfile_scan(t)
  <2>1. digest' \in [Ctx -> Seq(Body \cup {Garbled})]
    BY <1>6 DEF AntimalwareProfile_scan, CallbackTypes
  <2>2. \/ callback' = Goto(t, "update") /\ c # None /\ f.body # None
        \/ callback' = Goto(t, "final") /\ c # None
        \/ callback' = NextProfile(t)
    BY <1>6 DEF AntimalwareProfile_scan
  <2>3. c # None => c \in Ctx
    BY <1>3 DEF Contexts
  <2> QED
    BY <1>2, <1>4, <1>5, <2>1, <2>2, <2>3, HashTypes, GotoTypes
<1>7. CASE updateAntimalwareHash(t)
  <2>1. c \in Ctx /\ f.body \in Body
    BY <1>3, <1>7 DEF updateAntimalwareHash, At
  <2>2. digest' \in [Ctx -> Seq(Body \cup {Garbled})]
    <3>1. CASE UNCHANGED digest
      BY <3>1 DEF CallbackTypes
    <3>2. ASSUME NEW b \in {f.body} \cup {Garbled},
                 digest' = [digest EXCEPT ![c] = Append(@, b)]
          PROVE  digest' \in [Ctx -> Seq(Body \cup {Garbled})]
      <4>1. b \in Body \cup {Garbled} /\ digest[c] \in Seq(Body \cup {Garbled})
        BY <2>1 DEF CallbackTypes
      <4>2. Append(digest[c], b) \in Seq(Body \cup {Garbled})
        BY <4>1, AppendProperties
      <4> QED
        BY <3>2, <4>2 DEF CallbackTypes
    <3> QED
      BY <1>7, <3>1, <3>2 DEF updateAntimalwareHash
  <2>3. callback' = Goto(t, "final") \/ callback' = NextProfile(t)
    BY <1>7 DEF updateAntimalwareHash
  <2> QED
    BY <1>2, <1>5, <2>1, <2>2, <2>3, HashTypes, GotoTypes
<1>8. CASE finalizeAntimalwareHash(t)
  <2>1. digest' \in [Ctx -> Seq(Body \cup {Garbled})]
    <3>1. \/ UNCHANGED digest
          \/ digest' = [digest EXCEPT ![c] = <<>>]
      BY <1>8 DEF finalizeAntimalwareHash
    <3>2. <<>> \in Seq(Body \cup {Garbled})
      OBVIOUS
    <3> QED
      BY <3>1, <3>2 DEF CallbackTypes
  <2>2. callback' = Goto(t, "block") \/ callback' = NextProfile(t)
    BY <1>8 DEF finalizeAntimalwareHash
  <2> QED
    BY <1>2, <1>5, <2>1, <2>2, GotoTypes
<1> QED
  BY <1>6, <1>7, <1>8

\* What the steps of the NAT part have in common, and the locals they leave.
LEMMA NatLocalTypes ==
  ASSUME FilterInv, CallbackTypes, NEW t \in Thread, callback[t].at \in {"pass", "nat"},
         NEW l, l.at \in {"pass", "nat"}, l.frame = callback[t].frame,
         l.ctx \in Contexts, l.stored \in Contexts, l.owed \in Seq(Contexts),
         Continue(t, l)
  PROVE  /\ LocalTypes(callback'[t])
         /\ verdict' \in [Traffic -> {"none", "denied", "blocked", "routed"}]
<1>1. LocalTypes(l)
  <2>1. l.at \in Place \ {"update", "final"}
    BY DEF Place
  <2> QED
    BY <2>1, PlaceTypes DEF CallbackTypes
<1> QED
  BY <1>1, ContinueTypes

\* A sequence of contexts, put together from up to three.
LEMMA OwedTypes ==
  /\ <<>> \in Seq(Contexts)
  /\ \A a \in Contexts : <<a>> \in Seq(Contexts)
  /\ \A a, b, c \in Contexts : <<a, b, c>> \in Seq(Contexts)
OBVIOUS

\* A session is found only where there is one.
LEMMA NatFindApplies ==
  ASSUME NEW t \in Thread, HandsInv, NAT!findSession(t), thread'[t].at = "apply"
  PROVE  thread[t].key \in DOMAIN table
<1>1. DOMAIN thread = Thread
  BY DEF HandsInv
<1>2. CASE thread' = [thread EXCEPT ![t] = NAT!Idle]
  BY <1>1, <1>2 DEF NAT!Idle
<1>3. CASE thread' = [thread EXCEPT ![t].at = "acquire"]
  BY <1>1, <1>3
<1> QED
  BY <1>2, <1>3 DEF NAT!findSession

LEMMA NatKeepsTypes ==
  ASSUME FilterInv, HandsInv, CallbackTypes, NEW t \in Thread,
         \A u \in Thread \ {t} : callback'[u] = callback[u],
         enterNat(t) \/ natFindSession(t) \/ scanPool(t) \/ applyNat(t)
  PROVE  CallbackTypes'
<1>1. /\ callback[t].at \in {"pass", "nat"}
      /\ UNCHANGED <<table, context, live, digest, console, alive>>
  BY DEF enterNat, natFindSession, scanPool, applyNat, InNat, At, NAT!onPacketArrives,
     NAT!findSession, NAT!scanPool, NAT!applyNat
<1>2. /\ callback[t].ctx \in Contexts /\ callback[t].stored \in Contexts
      /\ callback[t].owed \in Seq(Contexts)
  BY DEF CallbackTypes, LocalTypes
<1>3. CASE enterNat(t)
  <2> DEFINE l == [callback[t] EXCEPT !.at = "nat"]
  <2>1. Continue(t, l)
    BY <1>3 DEF enterNat
  <2>2. /\ l.at = "nat" /\ l.frame = callback[t].frame /\ l.ctx = callback[t].ctx
        /\ l.stored = callback[t].stored /\ l.owed = callback[t].owed
    OBVIOUS
  <2> HIDE DEF l
  <2> QED
    BY <1>1, <1>2, <2>1, <2>2, NatLocalTypes, LocalTypesKeep
<1>4. CASE natFindSession(t)
  <2> DEFINE owed == IF thread'[t].at = "apply" THEN <<context[thread[t].key]>> ELSE <<>>
             l == [callback[t] EXCEPT !.owed = owed]
  <2>1. Continue(t, l)
    BY <1>4 DEF natFindSession
  <2>2. owed \in Seq(Contexts)
    <3>1. CASE thread'[t].at # "apply"
      BY <3>1, OwedTypes
    <3>2. CASE thread[t].key \in DOMAIN table
      <4>1. context[thread[t].key] \in Contexts
        BY <3>2 DEF CallbackTypes
      <4> QED
        BY <4>1, OwedTypes
    <3>3. thread'[t].at = "apply" => thread[t].key \in DOMAIN table
      BY <1>4, NatFindApplies DEF natFindSession
    <3> QED
      BY <3>1, <3>2, <3>3
  <2> HIDE DEF owed
  <2>3. /\ l.at = callback[t].at /\ l.frame = callback[t].frame
        /\ l.ctx = callback[t].ctx /\ l.stored = callback[t].stored /\ l.owed = owed
    OBVIOUS
  <2> HIDE DEF l
  <2> QED
    BY <1>1, <1>2, <2>1, <2>2, <2>3, NatLocalTypes, LocalTypesKeep
<1>5. CASE scanPool(t) \/ applyNat(t)
  <2>1. Continue(t, callback[t])
    BY <1>5 DEF scanPool, applyNat
  <2> QED
    BY <1>1, <1>2, <2>1, NatLocalTypes, LocalTypesKeep
<1> QED
  BY <1>3, <1>4, <1>5

LEMMA ConstructTypes ==
  ASSUME FilterInv, CallbackTypes, NEW t \in Thread,
         \A u \in Thread \ {t} : callback'[u] = callback[u], constructSession(t)
  PROVE  CallbackTypes'
<1>1. callback[t].at = "nat" /\ UNCHANGED <<table, context, console, alive>>
  BY DEF constructSession, InNat, At, NAT!markPort
<1>2. /\ callback[t].ctx \in Contexts /\ callback[t].stored \in Contexts
      /\ callback[t].owed \in Seq(Contexts)
  BY DEF CallbackTypes, LocalTypes
<1>3. CASE Continue(t, callback[t]) /\ UNCHANGED <<live, digest>>
  BY <1>1, <1>2, <1>3, NatLocalTypes, LocalTypesKeep
<1>4. ASSUME NEW c \in Ctx, live' = live \cup {c}, digest' = [digest EXCEPT ![c] = <<>>],
             Continue(t, [callback[t] EXCEPT !.ctx = c])
      PROVE  CallbackTypes'
  <2> DEFINE l == [callback[t] EXCEPT !.ctx = c]
  <2>1. Continue(t, l)
    BY <1>4
  <2>2. /\ l.at = callback[t].at /\ l.frame = callback[t].frame
        /\ l.ctx = c \/ l.ctx = callback[t].ctx
        /\ l.stored = callback[t].stored /\ l.owed = callback[t].owed
    OBVIOUS
  <2> HIDE DEF l
  <2>3. /\ LocalTypes(callback'[t])
        /\ verdict' \in [Traffic -> {"none", "denied", "blocked", "routed"}]
    BY <1>1, <1>2, <1>4, <2>1, <2>2, NatLocalTypes DEF Contexts
  <2>4. <<>> \in Seq(Body \cup {Garbled})
    OBVIOUS
  <2>5. SharedTypes
    BY <1>1, <1>4, <2>3, <2>4 DEF SharedTypes, CallbackTypes
  <2> QED
    BY <2>3, <2>5, TypesKeep
<1> QED
  BY <1>3, <1>4 DEF constructSession

\* The entries of the table and their contexts stay together.
LEMMA PointsTypes ==
  ASSUME CallbackTypes, NEW c \in Contexts, Points(c)
  PROVE  context' \in [DOMAIN table' -> Contexts]
BY DEF CallbackTypes, Points

LEMMA CreateTypes ==
  ASSUME FilterInv, CallbackTypes, NEW t \in Thread,
         \A u \in Thread \ {t} : callback'[u] = callback[u],
         createOutbound(t) \/ createInbound(t)
  PROVE  CallbackTypes'
<1> DEFINE c == callback[t].ctx
           key == thread[t].key
<1>1. callback[t].at = "nat" /\ Points(c) /\ UNCHANGED <<live, digest, console, alive>>
  BY DEF createOutbound, createInbound, InNat, At
<1>2. /\ c \in Contexts /\ callback[t].stored \in Contexts
      /\ callback[t].owed \in Seq(Contexts)
  BY DEF CallbackTypes, LocalTypes
<1>3. ASSUME LocalTypes(callback'[t]),
             verdict' \in [Traffic -> {"none", "denied", "blocked", "routed"}]
      PROVE  CallbackTypes'
  <2>1. SharedTypes
    BY <1>1, <1>2, <1>3, PointsTypes DEF SharedTypes, CallbackTypes
  <2> QED
    BY <1>3, <2>1, TypesKeep
<1>4. CASE createOutbound(t)
  <2> DEFINE stored == IF key \in DOMAIN table THEN context[key] ELSE c
             owed == <<c>>
             l == [callback[t] EXCEPT !.stored = stored, !.owed = owed]
  <2>1. Continue(t, l)
    BY <1>4 DEF createOutbound
  <2>2. stored \in Contexts /\ owed \in Seq(Contexts)
    BY <1>2, OwedTypes DEF CallbackTypes
  <2> HIDE DEF stored, owed
  <2>3. /\ l.at = callback[t].at /\ l.frame = callback[t].frame /\ l.ctx = c
        /\ l.stored = stored /\ l.owed = owed
    OBVIOUS
  <2> HIDE DEF l
  <2> QED
    BY <1>1, <1>2, <1>3, <2>1, <2>2, <2>3, NatLocalTypes
<1>5. CASE createInbound(t)
  <2> DEFINE owed == <<c, c, callback[t].stored>>
             l == [callback[t] EXCEPT !.owed = owed]
  <2>1. Continue(t, l)
    BY <1>5 DEF createInbound
  <2>2. owed \in Seq(Contexts)
    BY <1>2, OwedTypes
  <2> HIDE DEF owed
  <2>3. /\ l.at = callback[t].at /\ l.frame = callback[t].frame /\ l.ctx = c
        /\ l.stored = callback[t].stored /\ l.owed = owed
    OBVIOUS
  <2> HIDE DEF l
  <2> QED
    BY <1>1, <1>2, <1>3, <2>1, <2>2, <2>3, NatLocalTypes
<1> QED
  BY <1>4, <1>5

LEMMA DestroyTypes ==
  ASSUME FilterInv, CallbackTypes, NEW t \in Thread,
         \A u \in Thread \ {t} : callback'[u] = callback[u], destroySession(t)
  PROVE  CallbackTypes'
<1> DEFINE owed == callback[t].owed
<1>1. /\ callback[t].at = "nat" /\ owed # <<>> /\ owed \in Seq(Contexts)
      /\ LocalTypes(callback[t])
  BY DEF destroySession, At, CallbackTypes, LocalTypes
<1>2. Tail(owed) \in Seq(Contexts)
  BY <1>1, HeadTailProperties
<1>3. /\ callback'[t].at = "nat" /\ callback'[t].frame = callback[t].frame
      /\ callback'[t].ctx = callback[t].ctx /\ callback'[t].stored = callback[t].stored
      /\ callback'[t].owed = Tail(owed)
  BY <1>1 DEF destroySession, FilterInv
<1>4. LocalTypes(callback'[t])
  BY <1>1, <1>2, <1>3 DEF LocalTypes
<1>5. SharedTypes
  BY DEF destroySession, SharedTypes, CallbackTypes, natVars
<1> QED
  BY <1>4, <1>5, TypesKeep

LEMMA HandlerTypes ==
  ASSUME FilterInv, HandsInv, CallbackTypes, NEW t \in Thread, Handler(t)
  PROVE  CallbackTypes'
<1>1. \A u \in Thread \ {t} : callback'[u] = callback[u]
  BY HandlerIsLocal DEF FilterInv
<1>2. CASE crash(t)
  BY <1>2 DEF crash, CallbackTypes, LocalTypes, natVars
<1> QED
  BY <1>1, <1>2, PolicyScanTypes, DigestTypes, NatKeepsTypes, ConstructTypes, CreateTypes,
     DestroyTypes DEF Handler

LEMMA CaptureTypes ==
  ASSUME FilterInv, CallbackTypes, NEW t \in Thread, NEW f \in Traffic, onPacketArrives(t, f)
  PROVE  CallbackTypes'
<1>1. UNCHANGED <<table, context, live, digest, verdict, console, alive>>
  BY DEF onPacketArrives, natVars
<1>2. LocalTypes(callback[t])
  BY DEF CallbackTypes
<1>3. CASE UNCHANGED callback
  BY <1>1, <1>3 DEF CallbackTypes, LocalTypes
<1>4. CASE callback' = [callback EXCEPT ![t].at = "policy", ![t].frame = f]
  <2>1. /\ callback'[t].at = "policy" /\ callback'[t].frame = f
        /\ callback'[t].ctx = callback[t].ctx /\ callback'[t].stored = callback[t].stored
        /\ callback'[t].owed = callback[t].owed
        /\ \A u \in Thread \ {t} : callback'[u] = callback[u]
    BY <1>4 DEF FilterInv
  <2>2. LocalTypes(callback'[t])
    BY <1>2, <2>1 DEF LocalTypes, Place
  <2> QED
    BY <1>1, <2>1, <2>2, LocalTypesKeep DEF CallbackTypes
<1> QED
  BY <1>3, <1>4 DEF onPacketArrives

LEMMA CallbackTypesStep ==
  ASSUME FilterInv, HandsInv, CallbackTypes, [Next]_vars PROVE CallbackTypes'
<1>1. ASSUME UNCHANGED <<table, callback, context, live, digest, verdict>>,
             console' \in BOOLEAN, alive' \in BOOLEAN
      PROVE  CallbackTypes'
  BY <1>1 DEF CallbackTypes, LocalTypes
<1>2. CASE Main
  <2>1. /\ UNCHANGED <<table, callback, context, live, digest, verdict>>
        /\ console' \in {console, FALSE} /\ alive' \in {alive, FALSE}
    BY <1>2 DEF Main, load, collect, open, start, print, wait, close, closeCapturing,
       inspectionVars, natVars
  <2> QED
    BY <1>1, <2>1 DEF CallbackTypes
<1>3. CASE exitProgram \/ signal \/ signalWhileGrowing \/ UNCHANGED vars
  <2>1. /\ UNCHANGED <<table, callback, context, live, digest, verdict>>
        /\ console' \in {console} \cup BOOLEAN /\ alive' \in {alive, FALSE}
    BY <1>3 DEF exitProgram, stopCapture, handlerReturns, signal, signalWhileGrowing,
       vars, inspectionVars, natVars
  <2> QED
    BY <1>1, <2>1 DEF CallbackTypes
<1>4. CASE \E t \in Thread : runCallback(t)
  BY <1>4, HandlerTypes DEF runCallback
<1>5. CASE \E t \in Thread, f \in Traffic : capture(t, f)
  BY <1>5, CaptureTypes DEF capture
<1> QED
  BY <1>2, <1>3, <1>4, <1>5 DEF Next, Run

\* The variables of main and of the handler.
MainTypes ==
  /\ main \in [at : MainPlace, index : Nat \ {0}]
  /\ stopSignal \in BOOLEAN
  /\ handler \in [at : {"none", "walk", "done"}, index : Nat \ {0}]
  /\ returned \in {None, 0, 1}
  /\ refused \subseteq Device
  /\ late \subseteq Device

LEMMA MainTypesStep == ASSUME LifeInv, MainTypes, [Next]_vars PROVE MainTypes'
<1>1. CASE UNCHANGED mainVars
  BY <1>1 DEF MainTypes, mainVars
<1>2. CASE load \/ collect \/ print \/ wait
  BY <1>2 DEF load, collect, print, wait, Advance, Return, MainTypes, MainPlace
<1>3. CASE close
  BY <1>3 DEF close, Advance, MainTypes, MainPlace
<1>4. CASE open \/ start
  <2>1. gInterfaces[main.index] \in Device
    <3>1. main.index \in 1 .. Len(gInterfaces)
      BY <1>4 DEF open, start, MainAt, LifeInv, MainOK
    <3> QED
      BY <3>1, DeviceAssumption DEF LifeInv, ListOK
  <2> QED
    BY <1>4, <2>1 DEF open, start, Return, MainTypes, MainPlace
<1>5. CASE signal
  BY <1>5 DEF signal, MainTypes
<1>6. CASE stopCapture \/ handlerReturns
  <2>1. /\ UNCHANGED <<main, stopSignal, returned, refused, late>>
        /\ \/ UNCHANGED handler
           \/ handler' = [handler EXCEPT !.index = @ + 1]
           \/ handler' = [handler EXCEPT !.at = "done"]
    BY <1>6 DEF stopCapture, handlerReturns
  <2>2. handler' \in [at : {"none", "walk", "done"}, index : Nat \ {0}]
    BY <2>1 DEF MainTypes
  <2> QED
    BY <2>1, <2>2 DEF MainTypes
<1> QED
  BY <1>1, <1>2, <1>3, <1>4, <1>5, <1>6 DEF Next, Run, Main, closeCapturing, exitProgram,
     signalWhileGrowing, runCallback, capture, vars, mainVars

LEMMA TypesInit == FirewallInit => CallbackTypes /\ MainTypes
<1> SUFFICES ASSUME FirewallInit PROVE CallbackTypes /\ MainTypes
  OBVIOUS
<1>1. /\ callback = [t \in Thread |-> Idle] /\ context = [key \in {} |-> None]
      /\ table = [key \in {} |-> None] /\ live = {}
      /\ digest = [c \in Ctx |-> <<>>] /\ verdict = [f \in Traffic |-> "none"]
      /\ console = FALSE /\ alive = TRUE
  BY DEF FirewallInit, Init, NAT!Init
<1>2. \A t \in Thread : LocalTypes(callback[t])
  BY <1>1, IdleTypes
<1>3. digest \in [Ctx -> Seq(Body \cup {Garbled})]
  BY <1>1
<1>4. CallbackTypes
  <2>1. context \in [DOMAIN table -> Contexts]
    BY <1>1
  <2>2. /\ live \subseteq Ctx /\ console \in BOOLEAN /\ alive \in BOOLEAN
        /\ verdict \in [Traffic -> {"none", "denied", "blocked", "routed"}]
    BY <1>1
  <2> QED
    BY <1>2, <1>3, <2>1, <2>2 DEF CallbackTypes
<1>5. MainTypes
  <2>1. /\ main = [at |-> "load", index |-> 1] /\ handler = [at |-> "none", index |-> 1]
        /\ stopSignal = FALSE /\ returned = None /\ refused = {} /\ late = {}
    BY DEF FirewallInit
  <2>2. main \in [at : MainPlace, index : Nat \ {0}]
    BY <2>1 DEF MainPlace
  <2>3. handler \in [at : {"none", "walk", "done"}, index : Nat \ {0}]
    BY <2>1
  <2>4. stopSignal \in BOOLEAN
    BY <2>1
  <2>5. returned \in {None, 0, 1} /\ refused \subseteq Device /\ late \subseteq Device
    BY <2>1
  <2> QED
    BY <2>2, <2>3, <2>4, <2>5 DEF MainTypes
<1> QED
  BY <1>4, <1>5

LEMMA CallbackTypesAlways == Spec => []CallbackTypes
<1>1. FilterInv /\ HandsInv /\ CallbackTypes /\ [Next]_vars => CallbackTypes'
  BY CallbackTypesStep
<1> QED
  BY <1>1, TypesInit, FilterAlways, HandsAlways, PTL DEF Spec

LEMMA MainTypesAlways == Spec => []MainTypes
<1>1. LifeInv /\ MainTypes /\ [Next]_vars => MainTypes'
  BY MainTypesStep
<1> QED
  BY <1>1, TypesInit, LifeAlways, PTL DEF Spec

LEMMA SameNatTypes == NatProofs!TypeOK => NAT!TypeOK
BY DEF NatProofs!TypeOK, NAT!TypeOK, NatProofs!HoldsItsLocals, NAT!HoldsItsLocals,
   NatProofs!SessionFlowKey, NAT!SessionFlowKey, NatProofs!NatSession, NAT!NatSession,
   NatProofs!Pool, NAT!Pool, NatProofs!Address, NAT!Address, NatProofs!Local, NAT!Local,
   NatProofs!Place, NAT!Place, NatProofs!Packet, NAT!Packet, NatProofs!Translation,
   NAT!Translation, NatProofs!PoolSize, NAT!PoolSize

(* Every thread has at every place the locals that its next step reads, a   *)
(* context for every session in the table, and main and the handler an      *)
(* index inside gInterfaces.                                                *)
THEOREM TypeCorrect == Spec => []TypeOK
<1>1. /\ NatProofs!TypeOK /\ CallbackTypes /\ MainTypes /\ LifeInv /\ FilterInv
      /\ HandsInv /\ ResetInv
      => TypeOK
  <2> SUFFICES ASSUME NatProofs!TypeOK, CallbackTypes, MainTypes, LifeInv, FilterInv,
                      HandsInv, ResetInv
               PROVE  TypeOK
    OBVIOUS
  <2>1. \A t \in Thread : ThreadLocals(t)
    BY DEF ThreadLocals, CallbackTypes, LocalTypes, Contexts, FilterInv, Judged, Decidable,
       HandsInv, InHand
  <2>2. InspectionTypeOK
    BY <2>1, SameNatTypes DEF InspectionTypeOK, FilterInv, CallbackTypes, Contexts,
       ResetInv, Accepted
  <2> QED
    BY <2>2 DEF TypeOK, MainTypes, LifeInv, MainOK, ListOK
<1> QED
  BY <1>1, NatTypes, CallbackTypesAlways, MainTypesAlways, LifeAlways, FilterAlways,
     HandsAlways, ResetsAlways, PTL
=============================================================================
