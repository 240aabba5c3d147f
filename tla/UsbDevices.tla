----------------------------- MODULE UsbDevices -----------------------------
(* Plug and play at the root ports of the USB stack (lib/src/circle/usb):   *)
(* a task that brings devices up and takes them down in answer to queued    *)
(* port events, the interrupt handler that queues those events and delivers *)
(* transfer events to endpoints, and a user who plugs and unplugs at any    *)
(* time.  What a device object owns (its slot, its functions, endpoints and *)
(* device number) is acquired and given back in the code's order.           *)
(*                                                                          *)
(* The device factory knows a keyboard and a gamepad and no hub, so the     *)
(* root ports are the only ports there are.  A session is one stay of one   *)
(* physical device at a port.  A "dud" has no supported function, or one     *)
(* that cannot be configured.                                               *)
EXTENDS Integers, Sequences, FiniteSets

CONSTANTS
  NPorts, Slots,      \* root ports and device slots of the controller
  Kinds,              \* port -> what may be plugged in there
  Sessions, Faults    \* bounds of the model: sessions, and failures without a cause at the port

Ports == 1..NPorts

AllKinds == {"keyboard", "gamepad", "dud"}

ASSUME UsbDevicesAssumption ==
  /\ NPorts \in Nat \ {0} /\ Slots \in Nat \ {0}
  /\ Kinds \in [Ports -> SUBSET AllKinds] /\ Sessions \in Nat /\ Faults \in Nat

VARIABLES
  world,     \* port -> what is plugged in
  csc, pse,  \* port -> its connect status change bit; its event is on the event ring
  dev,       \* port -> m_pUSBDevice
  slots,     \* slot -> the port of the device assigned to it (m_pUSBDevice[]), 0: none
  enabled,   \* slots the controller has enabled
  transfers, \* <<slot, endpoint>>: transfers the controller still has to answer
  pool,      \* kind -> device numbers in use (s_DeviceNumberPool)
  hubList,   \* ports whose event waits for UpdatePlugAndPlay, oldest first
  task,      \* what the task is doing at which port, and which ports are left at boot
  used,      \* sessions begun and failures met so far
  excused    \* history: sessions the driver has missed or given up

vars == <<world, csc, pse, dev, slots, enabled, transfers, pool, hubList, task, used, excused>>
objects == <<dev, slots, enabled, transfers, pool>>
status == <<world, csc, pse>>

Nothing == [session |-> 0, kind |-> "none"]
NoDevice == [session |-> 0, kind |-> "none", slot |-> 0, live |-> FALSE, function |-> FALSE,
             endpoints |-> {}, table |-> {}, number |-> 0]

IsConnected(p) == world[p].session # 0
HasDevice(p) == dev[p] # NoDevice

\* The device object of a port still stands for what is plugged in there.
Present(p) == world[p].session = dev[p].session

-----------------------------------------------------------------------------
(* The user, and the port status register.  An event is posted when the     *)
(* change bit rises.                                                        *)

Change(p, what) ==
  /\ world' = [world EXCEPT ![p] = what]
  /\ csc' = [csc EXCEPT ![p] = TRUE]
  /\ pse' = [pse EXCEPT ![p] = @ \/ ~csc[p]]
  /\ excused' = excused \ {world[p].session}
  /\ UNCHANGED <<objects, hubList, task>>

Plug(p, kind) ==
  /\ ~IsConnected(p) /\ used.sessions < Sessions
  /\ used' = [used EXCEPT !.sessions = @ + 1]
  /\ Change(p, [session |-> used.sessions + 1, kind |-> kind])

Unplug(p) == IsConnected(p) /\ Change(p, Nothing) /\ UNCHANGED used

-----------------------------------------------------------------------------
(* The interrupt handler.                                                   *)

\* Fault: an event that finds the list occupied is dropped.
StatusChangedOnce(p) ==
  /\ pse[p]
  /\ pse' = [pse EXCEPT ![p] = FALSE]
  /\ csc' = [csc EXCEPT ![p] = FALSE]
  /\ hubList' = IF csc[p] /\ hubList = <<>> THEN Append(hubList, p) ELSE hubList
  /\ UNCHANGED <<world, objects, task, used, excused>>

\* CXHCIRootPort::StatusChanged acknowledges what it read, and the host
\* controller object appends the port to its list.
StatusChanged(p) ==
  /\ pse[p]
  /\ pse' = [pse EXCEPT ![p] = FALSE]
  /\ csc' = [csc EXCEPT ![p] = FALSE]
  /\ hubList' = IF csc[p] THEN Append(hubList, p) ELSE hubList
  /\ UNCHANGED <<world, objects, task, used, excused>>

\* A transfer is answered.  A report that came is asked for again by its
\* completion routine, which leaves no trace here; one that failed is not.
TransferEvent(s, e) ==
  /\ <<s, e>> \in transfers
  /\ e = "in" => ~Present(slots[s])
  /\ transfers' = transfers \ {<<s, e>>}
  /\ UNCHANGED <<status, dev, slots, enabled, pool, hubList, task, used, excused>>

-----------------------------------------------------------------------------
(* The task: pc is the next call for port `at`.  At boot the root hub       *)
(* initialises every port (pass 1) and then configures every port (pass 2). *)

Task(pc, at, pass) == [pc |-> pc, at |-> at, pass |-> pass]
Idle == Task("idle", 0, 0)

At(p, pc) == task.at = p /\ task.pc = pc
Call(pc) == task' = [task EXCEPT !.pc = pc]

\* The port is finished with.
Done ==
  task' = IF task.pass = 0 \/ (task.pass = 2 /\ task.at = NPorts) THEN Idle
          ELSE IF task.at < NPorts
               THEN Task(IF task.pass = 1 THEN "init" ELSE "configure", task.at + 1, task.pass)
               ELSE Task("configure", 1, 2)

\* A failure for no reason seen here.
Mishap(p, session) ==
  /\ used.faults < Faults
  /\ used' = [used EXCEPT !.faults = @ + 1]
  /\ excused' = excused \cup ({session} \cap {world[p].session})

\* A call that needs the device fails because it has gone, or is not up to
\* it, or by mishap, which excuses the device.
Fails(p, unfit) ==
  \/ (~Present(p) \/ dev[p].kind = unfit) /\ UNCHANGED <<used, excused>>
  \/ Present(p) /\ Mishap(p, dev[p].session)
\* A blocking transfer may fail by time-out, and be answered later.
MayAnswerLate(p, e) == transfers' \in {transfers, transfers \cup {<<dev[p].slot, e>>}}

\* CXHCIRootPort::HandlePortStatusChange for the oldest event of the list.
HandlePortStatusChange ==
  /\ task.pc = "idle" /\ hubList # <<>>
  /\ hubList' = Tail(hubList)
  /\ LET p == Head(hubList) IN
       /\ task' = CASE IsConnected(p) /\ ~HasDevice(p) -> Task("init", p, 0)
                    [] ~IsConnected(p) /\ HasDevice(p) -> Task("disable", p, 0)
                    [] OTHER                           -> Idle
       /\ excused' = IF IsConnected(p) /\ HasDevice(p) /\ ~Present(p)
                     THEN excused \cup {world[p].session} ELSE excused
  /\ UNCHANGED <<status, objects, used>>

\* CXHCIRootPort::Initialize.
Initialize(p) ==
  /\ At(p, "init")
  /\ IF IsConnected(p) THEN Call("reset") ELSE Done
  /\ UNCHANGED <<status, objects, hubList, used, excused>>

\* Reset writes back the port status it read, and so acknowledges a change
\* the interrupt handler has not seen.  Then the device object is made.
Reset(p) ==
  /\ At(p, "reset")
  /\ csc' = [csc EXCEPT ![p] = FALSE]
  /\ \/ /\ IsConnected(p)
        /\ dev' = [dev EXCEPT ![p] = [NoDevice EXCEPT !.session = world[p].session,
                                                      !.kind = world[p].kind,
                                                      !.endpoints = {"ep0"}, !.table = {"ep0"}]]
        /\ Call("slot") /\ UNCHANGED <<used, excused>>
     \/ /\ ~IsConnected(p)
        /\ Done /\ UNCHANGED <<dev, used, excused>>
     \/ /\ IsConnected(p) /\ Mishap(p, world[p].session)
        /\ Done /\ UNCHANGED dev
  /\ UNCHANGED <<world, pse, slots, enabled, transfers, pool, hubList>>

\* CXHCIUSBDevice::Initialize: a slot, an address, then the descriptors.
EnableSlot(p) ==
  /\ At(p, "slot")
  /\ \/ /\ \E s \in (1..Slots) \ enabled :
             /\ 1..s - 1 \subseteq enabled   \* slots are alike: the first will do
             /\ enabled' = enabled \cup {s}
             /\ slots' = [slots EXCEPT ![s] = p]
             /\ dev' = [dev EXCEPT ![p].slot = s]
        /\ Call("address") /\ UNCHANGED <<used, excused>>
     \/ Mishap(p, dev[p].session) /\ Call("delete") /\ UNCHANGED <<enabled, slots, dev>>
  /\ UNCHANGED <<status, transfers, pool, hubList>>

AddressDevice(p) ==
  /\ At(p, "address")
  /\ \/ Present(p) /\ Call("describe") /\ UNCHANGED <<used, excused>>
     \/ Fails(p, "none") /\ Call("disable")
  /\ UNCHANGED <<status, objects, hubList>>

\* CUSBDevice::Initialize: descriptors, configuration and functions.
Describe(p) ==
  /\ At(p, "describe")
  /\ \/ /\ Present(p)
        /\ dev' = [dev EXCEPT ![p].function = TRUE]
        /\ IF task.pass = 1 THEN Done ELSE Call("configure")
        /\ UNCHANGED <<transfers, used, excused>>
     \/ Fails(p, "dud") /\ Call("disable") /\ MayAnswerLate(p, "ep0") /\ UNCHANGED dev
  /\ UNCHANGED <<status, slots, enabled, pool, hubList>>

EndpointsOf(kind) == IF kind = "keyboard" THEN {"in"} ELSE {"in", "out"}

\* CNumberPool::AllocateNumber: the lowest free one.
Free(kind) == CHOOSE n \in 1..NPorts + 1 : n \notin pool[kind] /\ 1..n - 1 \subseteq pool[kind]

\* Fault: the function's device number is not given back.
LeakNumber(p) ==
  /\ dev' = [dev EXCEPT ![p].function = FALSE, ![p].endpoints = {"ep0"}, ![p].number = 0]
  /\ UNCHANGED pool

\* The function goes with its number and endpoints; the device's table of
\* endpoints is not told.
DeleteFunction(p) ==
  /\ dev' = [dev EXCEPT ![p].function = FALSE, ![p].endpoints = {"ep0"}, ![p].number = 0]
  /\ pool' = [pool EXCEPT ![dev[p].kind] = @ \ {dev[p].number}]

\* CUSBDevice::Configure: ConfigureHID makes the endpoints, then the function
\* takes its number.
ConfigureHID(p) ==
  /\ At(p, "configure")
  /\ LET kind == dev[p].kind
         more == EndpointsOf(kind)
     IN \/ ~HasDevice(p) /\ Done /\ UNCHANGED <<dev, transfers, pool, used, excused>>
        \/ /\ HasDevice(p) /\ Present(p) /\ kind # "dud"
           /\ dev' = [dev EXCEPT ![p].endpoints = @ \cup more, ![p].table = @ \cup more,
                                 ![p].number = Free(kind)]
           /\ pool' = [pool EXCEPT ![kind] = @ \cup {Free(kind)}]
           /\ Call("start") /\ UNCHANGED <<transfers, used, excused>>
        \/ /\ HasDevice(p) /\ Fails(p, "dud") /\ MayAnswerLate(p, "ep0")
           /\ dev' = [dev EXCEPT ![p].function = FALSE, ![p].table = @ \cup more]
           /\ Call("disable") /\ UNCHANGED pool
  /\ UNCHANGED <<status, slots, enabled, hubList>>

\* A gamepad is sent its start command and waited for, which can fail; then
\* the first report is asked for.
Start(p) ==
  /\ At(p, "start")
  /\ \/ /\ dev[p].kind = "gamepad" => Present(p)
        /\ dev' = [dev EXCEPT ![p].live = TRUE]
        /\ transfers' = transfers \cup {<<dev[p].slot, "in">>}
        /\ Done /\ UNCHANGED <<pool, used, excused>>
     \/ /\ dev[p].kind = "gamepad" /\ Fails(p, "none") /\ MayAnswerLate(p, "out")
        /\ DeleteFunction(p)
        /\ Call("disable")
  /\ UNCHANGED <<status, slots, enabled, hubList>>

\* Fault: the slot table keeps the device.
DisableSlotOnly(p) ==
  /\ At(p, "disable")
  /\ enabled' = enabled \ {dev[p].slot}
  /\ transfers' = {t \in transfers : t[1] # dev[p].slot}
  /\ Call("delete")
  /\ UNCHANGED <<status, dev, slots, pool, hubList, used, excused>>

\* Fault: the functions go first, as a base class's destructor would have it.
DeleteFirst(p) ==
  /\ At(p, "disable")
  /\ DeleteFunction(p)
  /\ Call("delete")
  /\ UNCHANGED <<status, slots, enabled, transfers, hubList, used, excused>>

\* ~CXHCIUSBDevice: DisableSlot ends the slot's transfers, FreeSlot forgets it.
DisableSlot(p) ==
  /\ At(p, "disable")
  /\ enabled' = enabled \ {dev[p].slot}
  /\ slots' = [slots EXCEPT ![dev[p].slot] = 0]
  /\ transfers' = {t \in transfers : t[1] # dev[p].slot}
  /\ Call("delete")
  /\ UNCHANGED <<status, dev, pool, hubList, used, excused>>

\* ~CUSBDevice: the functions, and then the rest.
Delete(p) ==
  /\ At(p, "delete")
  /\ dev' = [dev EXCEPT ![p] = NoDevice]
  /\ pool' = [pool EXCEPT ![dev[p].kind] = @ \ {dev[p].number}]
  /\ Done
  /\ UNCHANGED <<status, slots, enabled, transfers, hubList, used, excused>>

-----------------------------------------------------------------------------
\* Any port may be occupied when the root hub is initialised.
Init ==
  /\ \E there \in SUBSET Ports, kind \in [Ports -> AllKinds] :
       /\ Cardinality(there) <= Sessions /\ \A p \in Ports : kind[p] \in Kinds[p]
       /\ world = [p \in Ports |-> IF p \in there
                    THEN [session |-> Cardinality({q \in there : q <= p}), kind |-> kind[p]] ELSE Nothing]
       /\ used = [sessions |-> Cardinality(there), faults |-> 0]
       /\ csc = [p \in Ports |-> p \in there] /\ pse = csc
  /\ dev = [p \in Ports |-> NoDevice]
  /\ slots = [s \in 1..Slots |-> 0] /\ enabled = {} /\ transfers = {}
  /\ pool = [k \in AllKinds |-> {}]
  /\ hubList = <<>>
  /\ task = Task("init", 1, 1)
  /\ excused = {}

User == \E p \in Ports : Unplug(p) \/ \E kind \in Kinds[p] : Plug(p, kind)

Handler == \/ \E p \in Ports : StatusChanged(p)
           \/ \E s \in 1..Slots, e \in {"ep0", "in", "out"} : TransferEvent(s, e)

Step == \/ HandlePortStatusChange
        \/ \E p \in Ports : \/ Initialize(p) \/ Reset(p) \/ EnableSlot(p) \/ AddressDevice(p)
                             \/ Describe(p) \/ ConfigureHID(p) \/ Start(p) \/ DisableSlot(p) \/ Delete(p)

Next == User \/ Handler \/ Step

\* Interrupts are served and the task goes on calling UpdatePlugAndPlay.
\* Nothing is assumed of the user, nor of transfers that got no answer.
Fairness == WF_vars(Step) /\ \A p \in Ports : WF_vars(StatusChanged(p))

Spec == Init /\ [][Next]_vars /\ Fairness

-----------------------------------------------------------------------------

TypeOK ==
  /\ \A p \in Ports : /\ world[p].session \in 0..Sessions /\ world[p].kind \in AllKinds \cup {"none"}
                      /\ dev[p].slot \in 0..Slots /\ dev[p].number \in 0..NPorts
                      /\ dev[p].endpoints \subseteq dev[p].table
  /\ csc \in [Ports -> BOOLEAN] /\ pse \in [Ports -> BOOLEAN]
  /\ slots \in [1..Slots -> 0..NPorts] /\ enabled \subseteq 1..Slots
  /\ transfers \subseteq (1..Slots) \X {"ep0", "in", "out"}
  /\ task.at \in 0..NPorts /\ task.pass \in 0..2

\* The slot table, the controller's enabled slots and the live devices agree:
\* no slot is lost, whichever step of bringing a device up fails, and no
\* transfer event is handed to a device that is gone.
SlotsOwned ==
  /\ enabled = {s \in 1..Slots : slots[s] # 0}
  /\ \A s \in enabled : dev[slots[s]].slot = s
  /\ \A p \in Ports : dev[p].slot # 0 => slots[dev[p].slot] = p \/ At(p, "delete")

\* Every device number in use belongs to one live device of its kind, and
\* no two devices of a kind share one ("upad1", "upad2").
NumbersOwned ==
  /\ TypeOK
  /\ \A k \in AllKinds :
       LET owners == {p \in Ports : dev[p].kind = k /\ dev[p].number # 0} IN
       /\ pool[k] = {dev[p].number : p \in owners}
       /\ Cardinality(pool[k]) = Cardinality(owners)

\* A transfer event finds the endpoint object its device's table points to:
\* the slot is given up before the endpoints are.  A device whose
\* configuration failed loses its endpoints first and is not covered.
EventsReachEndpoints ==
  \A t \in transfers :
    LET p == slots[t[1]] IN p # 0 /\ (dev[p].function \/ t[2] = "ep0") => t[2] \in dev[p].endpoints

Settled(p) ==
  IF world[p].kind \in {"keyboard", "gamepad"} /\ world[p].session \notin excused
  THEN Present(p) /\ dev[p].live
  ELSE IsConnected(p) \/ ~HasDevice(p)

\* When the user has come to rest, so do the ports: what is plugged in works
\* and what was taken out is gone, however changes, interrupts and the steps
\* of the task interleave.  Excused are devices that failed of themselves
\* and one that took another's place before the task looked.
PortsSettle == <>[](\A p \in Ports : Settled(p))
=============================================================================
