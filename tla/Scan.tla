-------------------------------- MODULE Scan --------------------------------
(***************************************************************************)
(* Start of the driver: device_discovery() in main.cc, the initialization  *)
(* thread of each device (start_device_scan(), device-impl.h), its hand-   *)
(* over to the server loop, and device_scan_finished(), which offers the   *)
(* service when every device has reported.                                 *)
(*                                                                         *)
(* server.pc is where the server thread is:                                *)
(*   "discovery"  in the loop of device_discovery()                        *)
(*   "errands"    in the server loop, before it looks at the errands       *)
(*   "wait"       in the server loop, blocked on a message                 *)
(*   "join"       in the errand of server.dev, joining its thread          *)
(*   "dead"       an exception left main()                                 *)
(* thread[d] is the next step of the initialization thread of d.           *)
(*                                                                         *)
(* libblock-device is external: an errand scheduled while the server waits *)
(* is looked at after the next message only, and the callback of           *)
(* start_device_scan() reads the partitions before it calls                *)
(* device_scan_finished().                                                 *)
(***************************************************************************)
EXTENDS Naturals, FiniteSets

CONSTANTS
  Children,     \* devices on the virtual bus
  NoDevice

ASSUME ScanAssumption == IsFiniteSet(Children) /\ NoDevice \notin Children

VARIABLES
  medium,       \* what each child is, fixed
  unscanned,    \* children device_discovery() has not seen yet
  devices_in_scan,
  server,
  thread,
  irq,          \* who receives the interrupt of each device
  cmd,          \* devices whose first Cmd is created and not destructed
  wakeup,       \* the wakeup object of each device
  joined,       \* devices whose errand has joined the thread
  errands,      \* devices whose errand is scheduled
  partitions,   \* devices whose partitions libblock-device is reading
  offered       \* how often the service was registered

vars == <<medium, unscanned, devices_in_scan, server, thread, irq, cmd, wakeup,
          joined, errands, partitions, offered>>

\* "alien": no driver; "usable"; "unusable": the initialization throws in the
\* thread; "sdio": reset_sdio() throws in the server thread.
Media == {"alien", "usable", "unusable", "sdio"}

ThreadSteps == {"none", "bind", "powerUp", "detach", "register", "schedule",
                "trigger", "end", "over"}

Init ==
  /\ medium \in [Children -> Media]
  /\ unscanned = Children
  /\ devices_in_scan = 1
  /\ server = [pc |-> "discovery", dev |-> NoDevice]
  /\ thread = [d \in Children |-> "none"]
  /\ irq = [d \in Children |-> "nobody"]
  /\ cmd = {}
  /\ wakeup = [d \in Children |-> "none"]
  /\ joined = {}
  /\ errands = {}
  /\ partitions = {}
  /\ offered = 0

ServerAt(pc) == [pc |-> pc, dev |-> NoDevice]

\* device_scan_finished()
LastOne_BeforeLoop(n) == n = 2
LastOne(n) == n = 1
DeviceScanFinished ==
  /\ devices_in_scan' = devices_in_scan - 1
  /\ offered' = IF LastOne(devices_in_scan) THEN offered + 1 ELSE offered

-----------------------------------------------------------------------------
\* One round of device_discovery() for a child without a driver.
ScanAlien(d) ==
  /\ server.pc = "discovery" /\ d \in unscanned
  /\ medium[d] = "alien"
  /\ unscanned' = unscanned \ {d}
  /\ UNCHANGED <<medium, devices_in_scan, server, thread, irq, cmd, wakeup,
                 joined, errands, partitions, offered>>

\* One round of device_discovery() for a device: add_disk() calls
\* start_device_scan(), which starts the thread.
CountDevice(n) == n + 1
AddDisk(d) ==
  /\ server.pc = "discovery" /\ d \in unscanned
  /\ medium[d] \in {"usable", "unusable"}
  /\ unscanned' = unscanned \ {d}
  /\ devices_in_scan' = CountDevice(devices_in_scan)
  /\ cmd' = cmd \cup {d}
  /\ thread' = [thread EXCEPT ![d] = "bind"]
  /\ UNCHANGED <<medium, server, irq, wakeup, joined, errands, partitions,
                 offered>>

\* The same for an SDIO card: the exception of reset_sdio() leaves main().
AddDiskThrows(d) ==
  /\ server.pc = "discovery" /\ d \in unscanned
  /\ medium[d] = "sdio"
  /\ server' = ServerAt("dead")
  /\ UNCHANGED <<medium, unscanned, devices_in_scan, thread, irq, cmd, wakeup,
                 joined, errands, partitions, offered>>

\* The end of device_discovery() and of main() before the server loop.
DiscoveryEnds ==
  /\ server.pc = "discovery" /\ unscanned = {}
  /\ DeviceScanFinished
  /\ server' = ServerAt("errands")
  /\ UNCHANGED <<medium, unscanned, thread, irq, cmd, wakeup, joined,
                 errands, partitions>>

-----------------------------------------------------------------------------
\* The initialization thread.  With the server thread dead, the process ends.
Goes(d, from, to) ==
  /\ thread[d] = from /\ server.pc # "dead"
  /\ thread' = [thread EXCEPT ![d] = to]
  /\ UNCHANGED <<medium, unscanned, devices_in_scan, server, joined,
                 partitions, offered>>

BindIrq(d) ==
  /\ Goes(d, "bind", "powerUp")
  /\ irq' = [irq EXCEPT ![d] = "thread"]
  /\ UNCHANGED <<cmd, wakeup, errands>>

\* From set_voltage() to the end of power-up, or to the exception handler.
PowerUp(d) ==
  /\ Goes(d, "powerUp", "detach")
  /\ cmd' = cmd \ {d}
  /\ UNCHANGED <<irq, wakeup, errands>>

DetachIrq(d) ==
  /\ Goes(d, "detach", "register")
  /\ irq' = [irq EXCEPT ![d] = "nobody"]
  /\ UNCHANGED <<cmd, wakeup, errands>>

RegisterWakeup(d) ==
  /\ Goes(d, "register", "schedule")
  /\ wakeup' = [wakeup EXCEPT ![d] = "registered"]
  /\ UNCHANGED <<irq, cmd, errands>>

ScheduleErrand(d) ==
  /\ Goes(d, "schedule", "trigger")
  /\ errands' = errands \cup {d}
  /\ UNCHANGED <<irq, cmd, wakeup>>

\* Without effect when the errand has unregistered the object already.
Triggered_Lost(w) == w
Triggered(w) == IF w = "registered" THEN "triggered" ELSE w
TriggerWakeup(d) ==
  /\ Goes(d, "trigger", "end")
  /\ wakeup' = [wakeup EXCEPT ![d] = Triggered(@)]
  /\ UNCHANGED <<irq, cmd, errands>>

ThreadEnds(d) ==
  /\ Goes(d, "end", "over")
  /\ UNCHANGED <<irq, cmd, wakeup, errands>>

InitThread(d) ==
  \/ BindIrq(d)
  \/ PowerUp(d)
  \/ DetachIrq(d)
  \/ RegisterWakeup(d)
  \/ ScheduleErrand(d)
  \/ TriggerWakeup(d)
  \/ ThreadEnds(d)

-----------------------------------------------------------------------------
\* The server loop has run every errand it knows of and blocks.
Block ==
  /\ server.pc = "errands" /\ errands = {}
  /\ server' = ServerAt("wait")
  /\ UNCHANGED <<medium, unscanned, devices_in_scan, thread, irq, cmd, wakeup,
                 joined, errands, partitions, offered>>

\* The message of a wakeup object; its handler does nothing.
Wakeup(d) ==
  /\ server.pc = "wait" /\ wakeup[d] = "triggered"
  /\ wakeup' = [wakeup EXCEPT ![d] = "registered"]
  /\ server' = ServerAt("errands")
  /\ UNCHANGED <<medium, unscanned, devices_in_scan, thread, irq, cmd, joined,
                 errands, partitions, offered>>

\* The errand of a device up to join().
RunErrand(d) ==
  /\ server.pc = "errands" /\ d \in errands
  /\ errands' = errands \ {d}
  /\ wakeup' = [wakeup EXCEPT ![d] = "unregistered"]
  /\ server' = [pc |-> "join", dev |-> d]
  /\ UNCHANGED <<medium, unscanned, devices_in_scan, thread, irq, cmd,
                 joined, partitions, offered>>

\* The rest of the errand: after a successful initialization the server takes
\* the interrupt, and the callback has libblock-device read the partitions.
Joinable_Unchecked(d) == TRUE
Joinable(d) == thread[d] = "over"
Failed(d) == medium[d] = "unusable"
JoinThread ==
  /\ server.pc = "join"
  /\ LET d == server.dev
     IN  /\ Joinable(d)
         /\ joined' = joined \cup {d}
         /\ IF Failed(d)
              THEN UNCHANGED <<irq, partitions>>
              ELSE /\ irq' = [irq EXCEPT ![d] = "server"]
                   /\ partitions' = partitions \cup {d}
  /\ server' = ServerAt("errands")
  /\ UNCHANGED <<medium, unscanned, devices_in_scan, thread, cmd, wakeup, errands,
                 offered>>

\* libblock-device has read the partitions: the callback of add_disk().
PartitionsRead(d) ==
  /\ server.pc = "wait" /\ d \in partitions
  /\ partitions' = partitions \ {d}
  /\ DeviceScanFinished
  /\ server' = ServerAt("errands")
  /\ UNCHANGED <<medium, unscanned, thread, irq, cmd, wakeup, joined,
                 errands>>

Server ==
  \/ DiscoveryEnds
  \/ Block
  \/ JoinThread
  \/ \E d \in Children : \/ ScanAlien(d)
                         \/ AddDisk(d)
                         \/ AddDiskThrows(d)
                         \/ Wakeup(d)
                         \/ RunErrand(d)
                         \/ PartitionsRead(d)

Next == Server \/ \E d \in Children : InitThread(d)

Spec == Init /\ [][Next]_vars

\* The server and the threads are scheduled, every power-up ends, well or not,
\* and every read of a partition table is answered, as ImplementsBlockDevice of
\* EmmcDevice has it.
FairSpec ==
  /\ Spec
  /\ WF_vars(Server)
  /\ \A d \in Children : WF_vars(InitThread(d))

-----------------------------------------------------------------------------
TypeOK ==
  /\ medium \in [Children -> Media]
  /\ unscanned \subseteq Children
  /\ devices_in_scan \in 0 .. Cardinality(Children) + 1
  /\ server \in [pc : {"discovery", "errands", "wait", "join", "dead"},
                 dev : Children \cup {NoDevice}]
  /\ thread \in [Children -> ThreadSteps]
  /\ irq \in [Children -> {"nobody", "thread", "server"}]
  /\ cmd \subseteq Children
  /\ wakeup \in [Children -> {"none", "registered", "triggered", "unregistered"}]
  /\ joined \subseteq Children
  /\ errands \subseteq Children
  /\ partitions \subseteq Children
  /\ offered \in 0 .. 1

\* The devices that have started and not reported yet, with those that failed
\* and never will.
Reported(d) == d \in joined /\ ~Failed(d) /\ d \notin partitions
Started == {d \in Children : thread[d] # "none"}
Unreported == {d \in Started : ~Reported(d)}

\* devices_in_scan counts the devices that have not reported, and the discovery
\* loop itself as long as it runs; it never wraps around.
CountsUnreported ==
  devices_in_scan = Cardinality(Unreported)
                      + IF server.pc \in {"discovery", "dead"} THEN 1 ELSE 0

\* The service is offered once the whole bus was scanned and every device on it
\* has reported, and exactly then.
OfferedWhenReported ==
  offered = 1 <=> /\ server.pc \notin {"discovery", "dead"}
                  /\ unscanned = {} /\ Unreported = {}

\* The server takes the interrupt of a device only from a thread that is gone,
\* and finds the command queue empty then: no message of the initialization is
\* received by handle_irq(), none of the server by receive_irq().
HandedOverClean ==
  \A d \in Children :
    irq[d] = "server" => thread[d] = "over" /\ d \notin cmd

\* A thread that has scheduled its errand is joined, whatever the server was
\* doing meanwhile: no wakeup is lost.
ErrandRuns ==
  \A d \in Children :
    thread[d] = "trigger" ~> d \in joined \/ server.pc = "dead"

\* A bus without unusable media gets its service.
AllUsable == \A d \in Children : medium[d] \in {"alien", "usable"}
ServiceOffered == AllUsable => <>(offered = 1)

\* A device that is unusable is skipped, and the others get their service.
SkipsUnusable == (\A d \in Children : medium[d] # "sdio") => <>(offered = 1)
=============================================================================
