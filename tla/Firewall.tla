------------------------------ MODULE Firewall ------------------------------
(***************************************************************************)
(* The program: main, which starts a capture per interface and stops, the  *)
(* signal handler exitProgram, and the captures' callbacks (Inspection).   *)
(*                                                                         *)
(* The handler runs on main's thread, in between any two of main's steps,  *)
(* and main goes on when it returns.  One signal is sent at most.          *)
(***************************************************************************)
EXTENDS Inspection

CONSTANTS
  interface_names,  \* of the configuration, in its order
  Device,           \* the devices that there are, by name
  Loopback,         \* those that are loopback
  ens34             \* the external interface

\* A capture, and with it a thread, is of a device that is no loopback.
ASSUME DeviceAssumption == Thread = Device \ Loopback

VARIABLES
  main,           \* where main is, and its loops' index
  gInterfaces,    \* the devices to capture on
  device,         \* the state of each device
  stopSignal,
  handler,        \* where exitProgram is, and its loop's index
  returned,       \* history: what main has returned, None before
  refused,        \* history: the devices that the system did not open or start
  late            \* history: the devices started after stopSignal was set

mainVars == <<main, gInterfaces, device, stopSignal, handler, returned, refused, late>>
vars == <<inspectionVars, mainVars>>

MainPlace == {"load", "collect", "open", "start", "print", "wait", "close", "done"}

FirewallInit ==
  /\ Init
  /\ main = [at |-> "load", index |-> 1]
  /\ gInterfaces = <<>>
  /\ device = [d \in Device |-> "closed"]
  /\ stopSignal = FALSE
  /\ handler = [at |-> "none", index |-> 1]
  /\ returned = None
  /\ refused = {}
  /\ late = {}
-----------------------------------------------------------------------------
\* getDeviceByName knows only the devices that there are.
getCaptureInterfaces ==
  SelectSeq(interface_names, LAMBDA name : name \in Device)

\* The external interface is added to a list that lacks it.
interfaces ==
  IF Contains(getCaptureInterfaces, ens34) \/ ens34 \notin Device
  THEN getCaptureInterfaces
  ELSE Append(getCaptureInterfaces, ens34)

MainAt(place) == alive /\ handler.at # "walk" /\ main.at = place

\* Past the last element a loop goes on with the place behind it.
Advance(place, behind, length) ==
  main' = IF main.index < length
          THEN [at |-> place, index |-> main.index + 1]
          ELSE [at |-> behind, index |-> 1]

load ==
  /\ MainAt("load")
  /\ main' = [at |-> IF interfaces = <<>> THEN "wait" ELSE "collect", index |-> 1]
  /\ UNCHANGED <<inspectionVars, gInterfaces, device, stopSignal, handler,
                 returned, refused, late>>

\* Mutant: no seen_interfaces.
CollectAll ==
  /\ MainAt("collect")
  /\ gInterfaces' = IF interfaces[main.index] \in Device \ Loopback
                    THEN Append(gInterfaces, interfaces[main.index])
                    ELSE gInterfaces
  /\ Advance("collect", IF gInterfaces' = <<>> THEN "wait" ELSE "open", Len(interfaces))
  /\ UNCHANGED <<inspectionVars, device, stopSignal, handler, returned, refused, late>>

\* What is in gInterfaces is what seen_interfaces has seen.
collect ==
  LET d == interfaces[main.index]
  IN  /\ MainAt("collect")
      /\ gInterfaces' = IF d \in Device \ Loopback /\ ~ Contains(gInterfaces, d)
                        THEN Append(gInterfaces, d) ELSE gInterfaces
      /\ Advance("collect", IF gInterfaces' = <<>> THEN "wait" ELSE "open",
                 Len(interfaces))
      /\ UNCHANGED <<inspectionVars, device, stopSignal, handler, returned,
                     refused, late>>

Return(code) ==
  /\ main' = [main EXCEPT !.at = "done"]
  /\ returned' = code

\* An open device is left open and that is a success.
open ==
  LET d == gInterfaces[main.index]
  IN  /\ MainAt("open")
      /\ \/ /\ main' = [main EXCEPT !.at = "start"]
            /\ device' = IF device[d] = "closed" THEN [device EXCEPT ![d] = "open"]
                         ELSE device
            /\ UNCHANGED <<returned, refused>>
         \/ /\ device[d] = "closed"
            /\ refused' = refused \cup {d}
            /\ Return(1)
            /\ UNCHANGED device
      /\ UNCHANGED <<inspectionVars, gInterfaces, stopSignal, handler, late>>

\* A device that captures already is refused by startCapture, and is closed
\* under its thread.
start ==
  LET d == gInterfaces[main.index]
  IN  /\ MainAt("start")
      /\ \/ /\ device[d] = "open"
            /\ device' = [device EXCEPT ![d] = "capturing"]
            /\ late' = IF stopSignal THEN late \cup {d} ELSE late
            /\ main' = [main EXCEPT !.at = "print"]
            /\ UNCHANGED <<returned, refused>>
         \/ /\ refused' = IF device[d] = "open" THEN refused \cup {d} ELSE refused
            /\ device' = [device EXCEPT ![d] = "closed"]
            /\ Return(1)
            /\ UNCHANGED late
      /\ UNCHANGED <<inspectionVars, gInterfaces, stopSignal, handler>>

\* Mutant: one element too many.
PrintInclusive ==
  /\ MainAt("print")
  /\ console' = FALSE
  /\ Advance("open", "wait", Len(gInterfaces) + 1)
  /\ UNCHANGED <<natVars, callback, context, live, digest, verdict, resets, alive,
                 gInterfaces, device, stopSignal, handler, returned, refused, late>>

\* The line is written, and stdout unlocked.
print ==
  /\ MainAt("print")
  /\ console' = FALSE
  /\ Advance("open", "wait", Len(gInterfaces))
  /\ UNCHANGED <<natVars, callback, context, live, digest, verdict, resets, alive,
                 gInterfaces, device, stopSignal, handler, returned, refused, late>>

wait ==
  /\ MainAt("wait")
  /\ stopSignal
  /\ \/ /\ gInterfaces # <<>>
        /\ main' = [main EXCEPT !.at = "close"]
        /\ UNCHANGED returned
     \/ gInterfaces = <<>> /\ Return(0)
  /\ UNCHANGED <<inspectionVars, gInterfaces, device, stopSignal, handler,
                 refused, late>>

close ==
  /\ MainAt("close")
  /\ device' = [device EXCEPT ![gInterfaces[main.index]] = "closed"]
  /\ Advance("close", "done", Len(gInterfaces))
  /\ returned' = IF main'.at = "done" THEN 0 ELSE returned
  /\ UNCHANGED <<inspectionVars, gInterfaces, stopSignal, handler, refused, late>>

\* A device that captures is closed under its thread.
closeCapturing ==
  /\ MainAt("close")
  /\ device[gInterfaces[main.index]] = "capturing"
  /\ alive' = FALSE
  /\ UNCHANGED <<natVars, callback, context, live, digest, verdict, resets, console,
                 mainVars>>

Main ==
  load \/ collect \/ open \/ start \/ print \/ wait \/ close \/ closeCapturing
-----------------------------------------------------------------------------
(* exitProgram.                                                            *)

\* Mutant: the flag is left to main.
SignalWithoutFlag ==
  /\ alive /\ handler.at = "none" /\ main.at # "done"
  /\ handler' = [at |-> "walk", index |-> 1]
  /\ console' \in (IF main.at = "print" THEN BOOLEAN ELSE {FALSE})
  /\ UNCHANGED <<natVars, callback, context, live, digest, verdict, resets, alive,
                 main, gInterfaces, device, stopSignal, returned, refused, late>>

\* The signal may interrupt main while it writes a line, with stdout locked.
signal ==
  /\ alive /\ handler.at = "none" /\ main.at # "done"
  /\ handler' = [at |-> "walk", index |-> 1]
  /\ stopSignal' = TRUE
  /\ console' \in (IF main.at = "print" THEN BOOLEAN ELSE {FALSE})
  /\ UNCHANGED <<natVars, callback, context, live, digest, verdict, resets, alive,
                 main, gInterfaces, device, returned, refused, late>>

\* It may interrupt main while the vector that it walks grows.
signalWhileGrowing ==
  /\ alive /\ handler.at = "none" /\ main.at = "collect"
  /\ alive' = FALSE
  /\ UNCHANGED <<natVars, callback, context, live, digest, verdict, resets, console,
                 mainVars>>

InHandler == alive /\ handler.at = "walk"

\* Mutant: the walk ends at the first device that it has stopped.
StopFirst ==
  LET d == gInterfaces[handler.index]
  IN  /\ InHandler
      /\ handler.index <= Len(gInterfaces)
      /\ \/ /\ device[d] = "capturing"
            /\ device' = [device EXCEPT ![d] = "stopping"]
            /\ UNCHANGED handler
         \/ /\ device[d] = "stopping" /\ callback[d].at = "idle"
            /\ device' = [device EXCEPT ![d] = "open"]
            /\ handler' = [handler EXCEPT !.at = "done"]
         \/ /\ device[d] \in {"closed", "open"}
            /\ handler' = [handler EXCEPT !.index = @ + 1]
            /\ UNCHANGED device
      /\ UNCHANGED <<inspectionVars, main, gInterfaces, stopSignal, returned,
                     refused, late>>

\* stopCapture tells the capture thread to stop, and waits until the callback
\* in progress has returned.
stopCapture ==
  LET d == gInterfaces[handler.index]
  IN  /\ InHandler
      /\ handler.index <= Len(gInterfaces)
      /\ \/ /\ device[d] = "capturing"
            /\ device' = [device EXCEPT ![d] = "stopping"]
            /\ UNCHANGED handler
         \/ /\ device[d] = "stopping" /\ callback[d].at = "idle"
            /\ device' = [device EXCEPT ![d] = "open"]
            /\ handler' = [handler EXCEPT !.index = @ + 1]
         \/ /\ device[d] \in {"closed", "open"}
            /\ handler' = [handler EXCEPT !.index = @ + 1]
            /\ UNCHANGED device
      /\ UNCHANGED <<inspectionVars, main, gInterfaces, stopSignal, returned,
                     refused, late>>

handlerReturns ==
  /\ InHandler
  /\ handler.index > Len(gInterfaces)
  /\ handler' = [handler EXCEPT !.at = "done"]
  /\ UNCHANGED <<inspectionVars, main, gInterfaces, device, stopSignal, returned,
                 refused, late>>

exitProgram == stopCapture \/ handlerReturns
-----------------------------------------------------------------------------
\* A capture hands on what it has, also what it has buffered when it is told to
\* stop.
capture(t, f) ==
  /\ device[t] \in {"capturing", "stopping"}
  /\ onPacketArrives(t, f)
  /\ UNCHANGED mainVars

runCallback(t) == Handler(t) /\ UNCHANGED mainVars

\* What the program does of its own accord.
Run == Main \/ exitProgram \/ \E t \in Thread : runCallback(t)

Next ==
  \/ Run
  \/ signal
  \/ signalWhileGrowing
  \/ \E t \in Thread, f \in Traffic : capture(t, f)

Spec == FirewallInit /\ [][Next]_vars

\* The process is not stopped for ever while one of its threads can go on.
FairSpec == Spec /\ WF_vars(Run)
-----------------------------------------------------------------------------
TypeOK ==
  /\ InspectionTypeOK
  /\ main \in [at : MainPlace, index : Nat \ {0}]
  /\ main.at \in {"open", "start", "print", "close"} => main.index <= Len(gInterfaces)
  /\ gInterfaces \in Seq(Thread)
  /\ device \in [Device -> {"closed", "open", "capturing", "stopping"}]
  /\ stopSignal \in BOOLEAN
  /\ handler \in [at : {"none", "walk", "done"}, index : Nat \ {0}]
  /\ returned \in {None, 0, 1}
  /\ refused \subseteq Device
  /\ late \subseteq Device

(* When exitProgram has returned, no capture runs and no callback is left,  *)
(* but those of the devices that main started after the signal; and main    *)
(* does not report success while a device it started is open.               *)
StopReachesAll ==
  /\ handler.at = "done" =>
       \A d \in Thread :
         device[d] = "capturing" \/ callback[d].at # "idle" => d \in late
  /\ returned = 0 => \A d \in Device : device[d] = "closed"

(* main fails only if the system has refused a device, never because the    *)
(* configuration names one twice, names ens34 or none, or a loopback.       *)
FailsOnlyIfRefused == returned = 1 => refused # {}

(* A signal stops the program, whatever main and the callbacks are doing,   *)
(* unless it comes while main has stdout locked: then a callback that wants *)
(* to print waits for main, main for the handler, and the handler for it.   *)
StopsWhenAsked ==
  (handler.at = "walk" /\ ~ console) ~> (returned # None \/ ~ alive)
=============================================================================
