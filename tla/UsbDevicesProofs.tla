--------------------------- MODULE UsbDevicesProofs ---------------------------
(***************************************************************************)
(* No device slot or number is lost or shared, and no transfer event finds *)
(* its endpoint gone: SlotsOwned, EventsReachEndpoints and NumbersOwned of *)
(* UsbDevices, for every number of ports and slots.                        *)
(*                                                                         *)
(* The slot table alone is not inductive.  A device object has a slot or   *)
(* none according to how far the task has come with its port, so the       *)
(* invariant follows the task: Progress says which calls are made with and *)
(* which without a slot, and BootOrder that the ports the root hub has yet *)
(* to initialise have no device object.                                    *)
(* Ends, for the events, rests on the slots' invariant and adds where the  *)
(* endpoints of outstanding transfers are.  NInv, for the device numbers,  *)
(* ties each number of a pool to the one device that has it, and says      *)
(* which devices the task still finds without one: only so has a pool a    *)
(* number left for the next.                                               *)
(***************************************************************************)
EXTENDS UsbDevices, FiniteSetTheorems, WellFoundedInduction, TLAPS

Calls == {"idle", "init", "reset", "slot", "address", "describe", "configure",
          "start", "disable", "delete"}
Fields == {"session", "kind", "slot", "live", "function", "endpoints", "table", "number"}

TaskStates == [pc : Calls, at : 0..NPorts, pass : 0..2]

Types ==
  /\ DOMAIN dev = Ports
  /\ \A p \in Ports : DOMAIN dev[p] = Fields /\ dev[p].slot \in 0..Slots
  /\ slots \in [1..Slots -> 0..NPorts]
  /\ enabled \subseteq 1..Slots
  /\ task \in TaskStates

Progress ==
  \A p \in Ports :
    /\ At(p, "init") \/ At(p, "reset") => dev[p] = NoDevice
    /\ At(p, "slot") => dev[p].slot = 0
    /\ At(p, "address") \/ At(p, "describe") \/ At(p, "start") \/ At(p, "disable")
         => dev[p].slot # 0
    /\ At(p, "delete") => \A s \in 1..Slots : slots[s] # p
    /\ dev[p] = NoDevice \/ dev[p].slot # 0 \/ At(p, "slot") \/ At(p, "delete")

BootOrder == task.pass = 1 => \A p \in Ports : p > task.at => dev[p] = NoDevice

IInv == Types /\ SlotsOwned /\ Progress /\ BootOrder

USE UsbDevicesAssumption DEF Ports

\* The first state: no device, no slot, the root hub at its first port.
LEMMA InitEstablishes == Init => IInv
BY DEF Init, IInv, Types, SlotsOwned, Progress, BootOrder, NoDevice, Fields, Calls, TaskStates, Task, At


\* Where a step leaves the task: with the next call for the same port, or
\* with no port, the next port of the same pass or the first of the second.
Goes(p, pc) == task' \in TaskStates /\ task'.at = p /\ task'.pc = pc /\ task'.pass = task.pass

MovesOn ==
  /\ task' \in TaskStates
  /\ task'.pc \in {"idle", "init", "configure"}
  /\ task'.pc = "init" => task'.at = task.at + 1 /\ task.pass = 1
  /\ task'.pass = 1 => task'.pc = "init"

\* A call for the same port, and the end of a port's.
LEMMA CallGoes ==
  ASSUME task \in TaskStates, NEW p \in Ports, task.at = p, NEW pc \in Calls, Call(pc)
  PROVE  Goes(p, pc)
BY DEF Call, Goes, TaskStates

LEMMA DoneMovesOn ==
  ASSUME task \in TaskStates, task.at \in Ports, Done
  PROVE  MovesOn
BY DEF Done, Task, Idle, TaskStates, Calls, MovesOn

\* A step of the task at port p may rewrite p's device object, but no other.
Rewrites(p) ==
  /\ DOMAIN dev' = Ports
  /\ DOMAIN dev'[p] = Fields
  /\ \A q \in Ports \ {p} : dev'[q] = dev[q]

\* Steps that leave the slot table, and the slot of p's device, as they are.
LEMMA SlotKept ==
  ASSUME IInv, NEW p \in Ports, Rewrites(p), UNCHANGED <<slots, enabled>>,
         dev'[p].slot = dev[p].slot, task.pc # "delete",
         task' \in TaskStates
  PROVE  Types' /\ SlotsOwned'
<1>1. Types'
  BY DEF IInv, Types, Rewrites
<1>2. \A q \in Ports : dev'[q].slot = dev[q].slot
  BY DEF Rewrites
<1>3. SlotsOwned'
  <2>1. enabled' = {s \in 1..Slots : slots'[s] # 0}
    BY DEF IInv, SlotsOwned
  <2>2. ASSUME NEW s \in enabled' PROVE dev'[slots'[s]].slot = s
    BY <1>2 DEF IInv, Types, SlotsOwned
  <2>3. ASSUME NEW q \in Ports, dev'[q].slot # 0 PROVE slots'[dev'[q].slot] = q
    BY <1>2, <2>3 DEF IInv, SlotsOwned, At
  <2>4. QED
    BY <2>1, <2>2, <2>3 DEF SlotsOwned
<1>4. QED
  BY <1>1, <1>3



\* What Progress asks of the device of the port the task goes on with.
Fit(p, pc) ==
  /\ pc \in {"init", "reset"} => dev'[p] = NoDevice
  /\ pc = "slot" => dev'[p].slot = 0
  /\ pc \in {"address", "describe", "start", "disable"} => dev'[p].slot # 0
  /\ pc = "delete" => \A s \in 1..Slots : slots'[s] # p
  /\ dev'[p] = NoDevice \/ dev'[p].slot # 0 \/ pc \in {"slot", "delete"}

\* Progress and BootOrder after a call that another call follows,
LEMMA Proceeds ==
  ASSUME IInv, NEW p \in Ports, task.at = p, Rewrites(p), NEW pc \in Calls, Goes(p, pc), Fit(p, pc)
  PROVE  Progress' /\ BootOrder'
<1>1. \A q \in Ports \ {p} : dev'[q] = dev[q] /\ (dev[q] = NoDevice \/ dev[q].slot # 0)
  BY DEF IInv, Progress, At, Rewrites
<1>2. Progress'
  BY <1>1 DEF Progress, At, Goes, Fit
<1>3. BootOrder'
  BY <1>1 DEF IInv, BootOrder, Goes
<1>4. QED
  BY <1>2, <1>3

\* and after the last one for a port.
LEMMA Finishes ==
  ASSUME IInv, NEW p \in Ports, task.at = p, Rewrites(p), MovesOn,
         dev'[p] = NoDevice \/ dev'[p].slot # 0
  PROVE  Progress' /\ BootOrder'
<1>1. \A q \in Ports \ {p} : dev'[q] = dev[q] /\ (dev[q] = NoDevice \/ dev[q].slot # 0)
  BY DEF IInv, Progress, At, Rewrites
<1>2. task'.pc = "init" => \A q \in Ports : q >= task'.at => dev'[q] = NoDevice
  BY <1>1 DEF IInv, Types, TaskStates, BootOrder, MovesOn
<1>3. Progress'
  BY <1>1, <1>2 DEF Progress, At, MovesOn, TaskStates
<1>4. BootOrder'
  BY <1>2 DEF BootOrder, MovesOn, TaskStates
<1>5. QED
  BY <1>3, <1>4

\* The two together, for the steps that leave the slots as they are.
LEMMA CallKeepsSlots ==
  ASSUME IInv, NEW p \in Ports, task.at = p, task.pc # "delete", Rewrites(p),
         UNCHANGED <<slots, enabled>>, dev'[p].slot = dev[p].slot,
         NEW pc \in Calls, Call(pc), Fit(p, pc)
  PROVE  IInv'
<1>1. Goes(p, pc)
  BY CallGoes DEF IInv, Types
<1>2. Types' /\ SlotsOwned'
  BY <1>1, SlotKept DEF Goes
<1>3. Progress' /\ BootOrder'
  BY <1>1, Proceeds
<1>4. QED
  BY <1>2, <1>3 DEF IInv

\* The same for a port's last call.
LEMMA DoneKeepsSlots ==
  ASSUME IInv, NEW p \in Ports, task.at = p, task.pc # "delete", Rewrites(p),
         UNCHANGED <<slots, enabled>>, dev'[p].slot = dev[p].slot,
         Done, dev'[p] = NoDevice \/ dev'[p].slot # 0
  PROVE  IInv'
<1>1. MovesOn
  BY DoneMovesOn DEF IInv, Types
<1>2. Types' /\ SlotsOwned'
  BY <1>1, SlotKept DEF MovesOn
<1>3. Progress' /\ BootOrder'
  BY <1>1, Finishes
<1>4. QED
  BY <1>2, <1>3 DEF IInv

-----------------------------------------------------------------------------
(* One lemma for each call of the task.                                     *)

\* CXHCIRootPort::Initialize touches no device.
LEMMA InitializeStep ==
  ASSUME IInv, NEW p \in Ports, Initialize(p)
  PROVE  IInv'
<1>1. /\ dev[p] = NoDevice /\ task.pc = "init" /\ task.at = p
      /\ UNCHANGED <<dev, slots, enabled>>
  BY DEF IInv, Progress, Initialize, At, objects
<1>2. Rewrites(p) /\ dev'[p].slot = dev[p].slot
  BY <1>1 DEF Rewrites, IInv, Types
<1>3. CASE Call("reset")
  BY <1>1, <1>2, <1>3, CallKeepsSlots DEF Fit, Calls
<1>4. CASE Done
  BY <1>1, <1>2, <1>4, DoneKeepsSlots
<1>5. QED
  BY <1>3, <1>4 DEF Initialize

\* The device object is made without a slot.
LEMMA ResetStep ==
  ASSUME IInv, NEW p \in Ports, Reset(p)
  PROVE  IInv'
<1> DEFINE made == [NoDevice EXCEPT !.session = world[p].session, !.kind = world[p].kind,
                                    !.endpoints = {"ep0"}, !.table = {"ep0"}]
<1>1. dev[p] = NoDevice /\ task.pc = "reset" /\ task.at = p /\ Types
  BY DEF IInv, Progress, Reset, At
<1>2. made.slot = 0 /\ DOMAIN made = Fields /\ NoDevice.slot = 0
  BY DEF NoDevice, Fields
<1>3. UNCHANGED <<slots, enabled>>
  BY DEF Reset
<1>4. CASE dev' = [dev EXCEPT ![p] = made] /\ Call("slot")
  <2> HIDE DEF made
  <2>1. Rewrites(p) /\ dev'[p].slot = dev[p].slot /\ dev'[p].slot = 0
    BY <1>1, <1>2, <1>4 DEF Rewrites, Types
  <2>2. QED
    BY <1>1, <1>3, <1>4, <2>1, CallKeepsSlots DEF Fit, Calls
<1>5. CASE UNCHANGED dev /\ Done
  <2>1. Rewrites(p) /\ dev'[p].slot = dev[p].slot
    BY <1>1, <1>5 DEF Rewrites, Types
  <2>2. QED
    BY <1>1, <1>3, <1>5, <2>1, DoneKeepsSlots
<1>6. QED
  BY <1>4, <1>5 DEF Reset

\* AddressDevice leaves the device as it is.
LEMMA AddressStep ==
  ASSUME IInv, NEW p \in Ports, AddressDevice(p)
  PROVE  IInv'
<1>1. /\ dev[p].slot # 0 /\ task.pc = "address" /\ task.at = p
      /\ UNCHANGED <<dev, slots, enabled>>
      /\ Call("describe") \/ Call("disable")
  BY DEF IInv, Progress, AddressDevice, At, objects
<1>2. Rewrites(p) /\ dev'[p].slot = dev[p].slot
  BY <1>1 DEF Rewrites, IInv, Types
<1>3. CASE Call("describe")
  BY <1>1, <1>2, <1>3, CallKeepsSlots DEF Fit, Calls
<1>4. CASE Call("disable")
  BY <1>1, <1>2, <1>4, CallKeepsSlots DEF Fit, Calls
<1>5. QED
  BY <1>1, <1>3, <1>4

\* A device object of which some field other than the slot is set.
LEMMA FieldsSet ==
  ASSUME Types, NEW p \in Ports, NEW d, DOMAIN d = Fields, d.slot = dev[p].slot,
         dev' = [dev EXCEPT ![p] = d]
  PROVE  Rewrites(p) /\ dev'[p].slot = dev[p].slot
BY DEF Types, Rewrites

\* Initialize of the device sets its function.
LEMMA DescribeStep ==
  ASSUME IInv, NEW p \in Ports, Describe(p)
  PROVE  IInv'
<1>1. /\ dev[p].slot # 0 /\ task.pc = "describe" /\ task.at = p /\ Types
      /\ UNCHANGED <<slots, enabled>>
  BY DEF IInv, Progress, Describe, At
<1>2. Rewrites(p) /\ dev'[p].slot = dev[p].slot
  <2>1. CASE UNCHANGED dev
    BY <1>1, <2>1 DEF Rewrites, Types
  <2>2. CASE dev' = [dev EXCEPT ![p].function = TRUE]
    <3> DEFINE d == [dev[p] EXCEPT !.function = TRUE]
    <3>1. DOMAIN d = Fields /\ d.slot = dev[p].slot
      BY <1>1 DEF Types, Fields
    <3>2. dev' = [dev EXCEPT ![p] = d]
      BY <2>2
    <3> HIDE DEF d
    <3>3. QED
      BY <1>1, <3>1, <3>2, FieldsSet
  <2>3. QED
    BY <2>1, <2>2 DEF Describe
<1>3. CASE Done
  BY <1>1, <1>2, <1>3, DoneKeepsSlots
<1>4. CASE Call("configure")
  BY <1>1, <1>2, <1>4, CallKeepsSlots DEF Fit, Calls
<1>5. CASE Call("disable")
  BY <1>1, <1>2, <1>5, CallKeepsSlots DEF Fit, Calls
<1>6. QED
  BY <1>3, <1>4, <1>5 DEF Describe

\* Configure sets endpoints and number, or gives the function up.
LEMMA ConfigureStep ==
  ASSUME IInv, NEW p \in Ports, ConfigureHID(p)
  PROVE  IInv'
<1> DEFINE more == EndpointsOf(dev[p].kind)
           made == [dev[p] EXCEPT !.endpoints = @ \cup more, !.table = @ \cup more,
                                  !.number = Free(dev[p].kind)]
           unmade == [dev[p] EXCEPT !.function = FALSE, !.table = @ \cup more]
<1>1. /\ dev[p] = NoDevice \/ dev[p].slot # 0
      /\ task.pc = "configure" /\ task.at = p /\ Types
      /\ UNCHANGED <<slots, enabled>>
  BY DEF IInv, Progress, ConfigureHID, At
<1>2. /\ DOMAIN made = Fields /\ made.slot = dev[p].slot
      /\ DOMAIN unmade = Fields /\ unmade.slot = dev[p].slot
  BY <1>1 DEF Types, Fields
<1>3. \/ UNCHANGED dev /\ Done
      \/ HasDevice(p) /\ dev' = [dev EXCEPT ![p] = made] /\ Call("start")
      \/ HasDevice(p) /\ dev' = [dev EXCEPT ![p] = unmade] /\ Call("disable")
  BY DEF ConfigureHID
<1> HIDE DEF made, unmade, more
<1>4. CASE UNCHANGED dev /\ Done
  <2>1. Rewrites(p) /\ dev'[p].slot = dev[p].slot
    BY <1>1, <1>4 DEF Rewrites, Types
  <2>2. QED
    BY <1>1, <1>4, <2>1, DoneKeepsSlots
<1>5. CASE HasDevice(p) /\ dev' = [dev EXCEPT ![p] = made] /\ Call("start")
  <2>1. Rewrites(p) /\ dev'[p].slot = dev[p].slot
    BY <1>1, <1>2, <1>5, FieldsSet
  <2>2. QED
    BY <1>1, <1>5, <2>1, CallKeepsSlots DEF Fit, Calls, HasDevice
<1>6. CASE HasDevice(p) /\ dev' = [dev EXCEPT ![p] = unmade] /\ Call("disable")
  <2>1. Rewrites(p) /\ dev'[p].slot = dev[p].slot
    BY <1>1, <1>2, <1>6, FieldsSet
  <2>2. QED
    BY <1>1, <1>6, <2>1, CallKeepsSlots DEF Fit, Calls, HasDevice
<1>7. QED
  BY <1>3, <1>4, <1>5, <1>6

\* Start makes the device live, or gives its function up.
LEMMA StartStep ==
  ASSUME IInv, NEW p \in Ports, Start(p)
  PROVE  IInv'
<1> DEFINE live == [dev[p] EXCEPT !.live = TRUE]
           bare == [dev[p] EXCEPT !.function = FALSE, !.endpoints = {"ep0"}, !.number = 0]
<1>1. /\ dev[p].slot # 0 /\ task.pc = "start" /\ task.at = p /\ Types
      /\ UNCHANGED <<slots, enabled>>
  BY DEF IInv, Progress, Start, At
<1>2. /\ DOMAIN live = Fields /\ live.slot = dev[p].slot
      /\ DOMAIN bare = Fields /\ bare.slot = dev[p].slot
  BY <1>1 DEF Types, Fields
<1>3. \/ dev' = [dev EXCEPT ![p] = live] /\ Done
      \/ dev' = [dev EXCEPT ![p] = bare] /\ Call("disable")
  BY DEF Start, DeleteFunction
<1> HIDE DEF live, bare
<1>4. Rewrites(p) /\ dev'[p].slot = dev[p].slot
  BY <1>1, <1>2, <1>3, FieldsSet
<1>5. CASE Done
  BY <1>1, <1>4, <1>5, DoneKeepsSlots
<1>6. CASE Call("disable")
  BY <1>1, <1>4, <1>6, CallKeepsSlots DEF Fit, Calls
<1>7. QED
  BY <1>3, <1>5, <1>6

\* The slot is entered in the table and in the device by the same step; the
\* controller hands out a slot only once.
LEMMA EnableSlotStep ==
  ASSUME IInv, NEW p \in Ports, EnableSlot(p)
  PROVE  IInv'
<1>1. dev[p].slot = 0 /\ task.pc = "slot" /\ task.at = p /\ Types /\ SlotsOwned
  BY DEF IInv, Progress, EnableSlot, At
<1>2. \A s \in 1..Slots : slots[s] # p
  BY <1>1 DEF Types, SlotsOwned
<1>3. CASE UNCHANGED <<enabled, slots, dev>> /\ Call("delete")
  <2>1. Rewrites(p) /\ dev'[p].slot = dev[p].slot
    BY <1>1, <1>3 DEF Rewrites, Types
  <2>2. QED
    BY <1>1, <1>2, <1>3, <2>1, CallKeepsSlots DEF Fit, Calls
<1>4. ASSUME NEW s \in (1..Slots) \ enabled,
             enabled' = enabled \cup {s}, slots' = [slots EXCEPT ![s] = p],
             dev' = [dev EXCEPT ![p].slot = s], Call("address")
      PROVE  IInv'
  <2> DEFINE d == [dev[p] EXCEPT !.slot = s]
  <2>1. DOMAIN d = Fields /\ d.slot = s
    BY <1>1 DEF Types, Fields
  <2>2. dev' = [dev EXCEPT ![p] = d]
    BY <1>4
  <2> HIDE DEF d
  <2>3. Rewrites(p) /\ dev'[p].slot = s
    BY <1>1, <2>1, <2>2 DEF Types, Rewrites
  <2>4. Goes(p, "address")
    BY <1>1, <1>4, CallGoes DEF Types, Calls
  <2>5. Types'
    BY <1>1, <1>4, <2>3, <2>4 DEF Types, Rewrites, Goes
  <2>6. SlotsOwned'
    <3>1. enabled' = {t \in 1..Slots : slots'[t] # 0}
      BY <1>1, <1>4 DEF Types, SlotsOwned
    <3>2. ASSUME NEW t \in enabled' PROVE dev'[slots'[t]].slot = t
      BY <1>1, <1>2, <1>4, <2>3 DEF Types, SlotsOwned, Rewrites
    <3>3. ASSUME NEW q \in Ports, dev'[q].slot # 0 PROVE slots'[dev'[q].slot] = q
      BY <1>1, <1>4, <2>3, <3>3 DEF Types, SlotsOwned, Rewrites, At
    <3>4. QED
      BY <3>1, <3>2, <3>3 DEF SlotsOwned
  <2>7. Progress' /\ BootOrder'
    BY <1>1, <2>3, <2>4, Proceeds DEF Fit, Calls
  <2>8. QED
    BY <2>5, <2>6, <2>7 DEF IInv
<1>5. QED
  BY <1>3, <1>4 DEF EnableSlot

\* The slot leaves the table before the device forgets it: only then may the
\* two disagree, and the next call deletes the device.
LEMMA DisableSlotStep ==
  ASSUME IInv, NEW p \in Ports, DisableSlot(p)
  PROVE  IInv'
<1>a. dev[p].slot # 0 /\ task.pc = "disable" /\ task.at = p /\ Types /\ SlotsOwned
  BY DEF IInv, Progress, DisableSlot, At
<1>b. dev[p].slot \in 1..Slots
  BY <1>a DEF Types
<1>1. /\ dev[p].slot \in 1..Slots /\ task.pc = "disable" /\ task.at = p /\ Types
      /\ slots[dev[p].slot] = p
      /\ \A s \in 1..Slots : slots[s] # 0 => dev[slots[s]].slot = s
  BY <1>a, <1>b DEF SlotsOwned, At
<1>2. /\ enabled' = enabled \ {dev[p].slot} /\ slots' = [slots EXCEPT ![dev[p].slot] = 0]
      /\ UNCHANGED dev /\ Call("delete")
  BY DEF DisableSlot
<1>3. Goes(p, "delete")
  BY <1>1, <1>2, CallGoes DEF Types, Calls
<1>4. Rewrites(p)
  BY <1>1, <1>2 DEF Types, Rewrites
<1>5. Types'
  <2>1. slots \in [1..Slots -> 0..NPorts] /\ 0 \in 0..NPorts
    BY <1>1 DEF Types
  <2>2. slots' \in [1..Slots -> 0..NPorts]
    BY <1>2, <2>1
  <2>3. enabled' \subseteq 1..Slots
    BY <1>1, <1>2 DEF Types
  <2>4. QED
    BY <1>1, <1>2, <1>3, <2>2, <2>3 DEF Types, Goes
<1>6. ASSUME NEW s \in 1..Slots PROVE slots'[s] # p
  <2>1. CASE s = dev[p].slot
    BY <1>1, <1>2, <2>1 DEF Types
  <2>2. CASE s # dev[p].slot
    <3>1. slots'[s] = slots[s]
      BY <1>1, <1>2, <2>2 DEF Types
    <3>2. slots[s] = p => dev[p].slot = s
      BY <1>1
    <3>3. QED
      BY <2>2, <3>1, <3>2
  <2>3. QED
    BY <2>1, <2>2
<1>7. SlotsOwned'
  <2>1. enabled' = {s \in 1..Slots : slots'[s] # 0}
    BY <1>1, <1>2, <1>a DEF Types, SlotsOwned
  <2>2. ASSUME NEW s \in enabled' PROVE dev'[slots'[s]].slot = s
    BY <1>1, <1>2, <1>a DEF Types, SlotsOwned
  <2>3. ASSUME NEW q \in Ports, dev'[q].slot # 0
        PROVE  slots'[dev'[q].slot] = q \/ At(q, "delete")'
    <3>1. CASE q = p
      BY <1>3, <3>1 DEF Goes, At
    <3>2. CASE q # p
      <4>1. slots[dev[q].slot] = q
        BY <1>1, <1>2, <1>a, <2>3, <3>2 DEF SlotsOwned, At
      <4>2. dev[q].slot # dev[p].slot
        BY <1>1, <4>1, <3>2
      <4>3. QED
        BY <1>1, <1>2, <4>1, <4>2, <2>3 DEF Types
    <3>3. QED
      BY <3>1, <3>2
  <2>4. QED
    BY <2>1, <2>2, <2>3 DEF SlotsOwned
<1>8. Progress' /\ BootOrder'
  BY <1>1, <1>2, <1>3, <1>4, <1>6, Proceeds DEF Fit, Calls
<1>9. QED
  BY <1>5, <1>7, <1>8 DEF IInv

\* The device object goes after its slot.
LEMMA DeleteStep ==
  ASSUME IInv, NEW p \in Ports, Delete(p)
  PROVE  IInv'
<1>1. /\ task.pc = "delete" /\ task.at = p /\ Types /\ SlotsOwned
      /\ \A s \in 1..Slots : slots[s] # p
  BY DEF IInv, Progress, Delete, At
<1>2. UNCHANGED <<slots, enabled>> /\ dev' = [dev EXCEPT ![p] = NoDevice] /\ Done
  BY DEF Delete
<1>3. NoDevice.slot = 0 /\ DOMAIN NoDevice = Fields
  BY DEF NoDevice, Fields
<1>4. Rewrites(p) /\ dev'[p] = NoDevice
  BY <1>1, <1>2, <1>3 DEF Types, Rewrites
<1>5. MovesOn
  BY <1>1, <1>2, DoneMovesOn DEF Types
<1>6. Types'
  BY <1>1, <1>2, <1>3, <1>4, <1>5 DEF Types, Rewrites, MovesOn
<1>7. SlotsOwned'
  <2>1. enabled' = {s \in 1..Slots : slots'[s] # 0}
    BY <1>1, <1>2 DEF SlotsOwned
  <2>2. ASSUME NEW s \in enabled' PROVE dev'[slots'[s]].slot = s
    BY <1>1, <1>2, <1>4 DEF Types, SlotsOwned, Rewrites
  <2>3. ASSUME NEW q \in Ports, dev'[q].slot # 0 PROVE slots'[dev'[q].slot] = q
    BY <1>1, <1>2, <1>3, <1>4, <2>3 DEF SlotsOwned, At, Rewrites
  <2>4. QED
    BY <2>1, <2>2, <2>3 DEF SlotsOwned
<1>8. Progress' /\ BootOrder'
  BY <1>1, <1>4, <1>5, Finishes
<1>9. QED
  BY <1>6, <1>7, <1>8 DEF IInv

\* The events that wait are the ports'.
Queue == hubList \in Seq(Ports)

\* An event starts the task on a port whose device fits it.
LEMMA HandlePortStep ==
  ASSUME IInv, Queue, HandlePortStatusChange
  PROVE  IInv'
<1> DEFINE p == Head(hubList)
<1>1. task.pc = "idle" /\ UNCHANGED <<dev, slots, enabled>> /\ Types
  BY DEF HandlePortStatusChange, IInv, objects
<1>2. p \in Ports
  BY DEF HandlePortStatusChange, Queue
<1>3. \A q \in Ports : dev[q] = NoDevice \/ dev[q].slot # 0
  BY <1>1 DEF IInv, Progress, At
<1>4. \/ task' = Task("init", p, 0) /\ dev[p] = NoDevice
      \/ task' = Task("disable", p, 0) /\ dev[p] # NoDevice
      \/ task' = Idle
  BY DEF HandlePortStatusChange, HasDevice
<1> HIDE DEF p
<1>5. task' \in TaskStates /\ task'.pass = 0
  BY <1>2, <1>4 DEF Task, Idle, TaskStates, Calls
<1>6. Rewrites(1) /\ dev'[1].slot = dev[1].slot
  BY <1>1 DEF Rewrites, Types
<1>7. Types' /\ SlotsOwned'
  BY <1>1, <1>5, <1>6, SlotKept
<1>8. Progress'
  BY <1>1, <1>2, <1>3, <1>4 DEF Progress, At, Task, Idle
<1>9. BootOrder'
  BY <1>5 DEF BootOrder
<1>10. QED
  BY <1>7, <1>8, <1>9 DEF IInv

-----------------------------------------------------------------------------
(* The theorem.                                                             *)

\* Neither the user nor the interrupt handler touches a slot.
LEMMA NextKeeps ==
  ASSUME IInv, Queue, [Next]_vars
  PROVE  IInv'
<1>1. CASE UNCHANGED <<dev, slots, enabled, task>>
  BY <1>1 DEF IInv, Types, SlotsOwned, Progress, BootOrder, At
<1>2. CASE User
  BY <1>1, <1>2 DEF User, Plug, Unplug, Change, objects
<1>3. CASE Handler
  BY <1>1, <1>3 DEF Handler, StatusChanged, TransferEvent, objects
<1>4. CASE Step
  <2>1. CASE HandlePortStatusChange
    BY <2>1, HandlePortStep
  <2>2. ASSUME NEW p \in Ports,
               \/ Initialize(p) \/ Reset(p) \/ EnableSlot(p) \/ AddressDevice(p)
               \/ Describe(p) \/ ConfigureHID(p) \/ Start(p) \/ DisableSlot(p) \/ Delete(p)
        PROVE  IInv'
    BY <2>2, InitializeStep, ResetStep, EnableSlotStep, AddressStep, DescribeStep,
       ConfigureStep, StartStep, DisableSlotStep, DeleteStep
  <2>3. QED
    BY <1>4, <2>1, <2>2 DEF Step
<1>5. CASE UNCHANGED vars
  BY <1>1, <1>5 DEF vars
<1>6. QED
  BY <1>2, <1>3, <1>4, <1>5 DEF Next

\* Events are appended by the handler and taken off by the task.
LEMMA QueueKept ==
  ASSUME Queue, [Next]_vars
  PROVE  Queue'
<1>1. CASE UNCHANGED hubList
  BY <1>1 DEF Queue
<1>2. ASSUME NEW p \in Ports, hubList' = Append(hubList, p) PROVE Queue'
  BY <1>2 DEF Queue
<1>3. CASE hubList # <<>> /\ hubList' = Tail(hubList)
  BY <1>3 DEF Queue
<1>4. CASE User
  BY <1>1, <1>4 DEF User, Plug, Unplug, Change
<1>5. CASE Handler
  BY <1>1, <1>2, <1>5 DEF Handler, StatusChanged, TransferEvent
<1>6. CASE Step
  BY <1>1, <1>3, <1>6 DEF Step, HandlePortStatusChange, Initialize, Reset, EnableSlot,
     AddressDevice, Describe, ConfigureHID, Start, DisableSlot, Delete
<1>7. QED
  BY <1>1, <1>4, <1>5, <1>6 DEF Next, vars

\* Every slot the controller has enabled belongs to one live device object
\* and is found in the table that transfer events are looked up in: in every
\* reachable state, for every number of ports and slots (SlotsOwned of the
\* xHCI driver's m_pUSBDevice[] and of ~CXHCIUSBDevice).
THEOREM SlotsOwnedHolds == Spec => []SlotsOwned
<1>a. Init => Queue
  BY DEF Init, Queue
<1>1. Init => IInv /\ Queue
  BY <1>a, InitEstablishes
<1>2. IInv /\ Queue /\ [Next]_vars => IInv' /\ Queue'
  BY NextKeeps, QueueKept
<1>3. IInv => SlotsOwned
  BY DEF IInv
<1>4. QED
  BY <1>1, <1>2, <1>3, PTL DEF Spec

-----------------------------------------------------------------------------
(* Transfer events find their endpoint.                                     *)

\* What the slots' invariant needs beside it: transfers belong to enabled
\* slots, a device keeps its control endpoint, and the endpoints of a function
\* outlive its transfers but in a device about to give its slot up.
Served(p, e) == e \in dev[p].endpoints \cup {"ep0"} \/ (~dev[p].function /\ At(p, "disable"))

Ends ==
  /\ \A t \in transfers : t \in enabled \X {"ep0", "in", "out"}
  /\ \A p \in Ports : dev[p] # NoDevice \/ At(p, "slot") => "ep0" \in dev[p].endpoints
  /\ \A p \in Ports : At(p, "start") =>
       "in" \in dev[p].endpoints /\ (dev[p].kind = "gamepad" => "out" \in dev[p].endpoints)
  /\ \A t \in transfers : Served(slots[t[1]], t[2])

\* A step at port p may add one transfer of p's device.
LEMMA EndsKept ==
  ASSUME IInv, Ends, NEW p \in Ports, task.at = p, task.pc # "delete", Rewrites(p),
         UNCHANGED <<slots, enabled>>,
         NEW e \in {"ep0", "in", "out"},
         transfers' \subseteq transfers \cup {<<dev[p].slot, e>>},
         transfers' # transfers => dev[p].slot # 0,
         dev'[p] # NoDevice \/ At(p, "slot")' => "ep0" \in dev'[p].endpoints,
         \A q \in Ports : At(q, "slot")' => q = p,
         \A x \in {"in", "out"} : <<dev[p].slot, x>> \in transfers' =>
            x \in dev'[p].endpoints \/ (~dev'[p].function /\ At(p, "disable")'),
         \A q \in Ports : At(q, "start")' => q = p /\ "in" \in dev'[p].endpoints
            /\ (dev'[p].kind = "gamepad" => "out" \in dev'[p].endpoints)
  PROVE  Ends'
<1>1. Types /\ SlotsOwned
  BY DEF IInv
<1>2. dev[p].slot # 0 => dev[p].slot \in enabled /\ slots[dev[p].slot] = p
  BY <1>1 DEF Types, SlotsOwned, At
<1>3. \A t \in transfers' : t \in enabled' \X {"ep0", "in", "out"}
  BY <1>2 DEF Ends
<1>4. \A q \in Ports : dev'[q] # NoDevice \/ At(q, "slot")' => "ep0" \in dev'[q].endpoints
  BY DEF Ends, Rewrites
<1>5. \A q \in Ports : At(q, "start")' =>
        "in" \in dev'[q].endpoints /\ (dev'[q].kind = "gamepad" => "out" \in dev'[q].endpoints)
  OBVIOUS
<1>6. ASSUME NEW t \in transfers'
      PROVE  Served(slots[t[1]], t[2])'
  <2> DEFINE q == slots[t[1]]
  <2>1. /\ t[1] \in enabled /\ t[2] \in {"ep0", "in", "out"} /\ t = <<t[1], t[2]>>
        /\ q \in Ports /\ dev[q].slot = t[1] /\ slots' = slots
    BY <1>1, <1>3 DEF Types, SlotsOwned
  <2>2. CASE q = p
    BY <2>1, <2>2 DEF Served
  <2>3. CASE q # p
    <3>1. t \in transfers
      BY <1>2, <2>1, <2>3
    <3>2. dev'[q] = dev[q] /\ ~At(q, "disable")
      BY <2>1, <2>3 DEF Rewrites, At
    <3>3. Served(q, t[2])
      BY <3>1 DEF Ends
    <3>4. QED
      BY <2>1, <3>2, <3>3 DEF Served
  <2>4. QED
    BY <2>2, <2>3
<1>7. QED
  BY <1>3, <1>4, <1>5, <1>6 DEF Ends

\* A step that makes or deletes no device and starts no transfer.
LEMMA QuietEnds ==
  ASSUME Ends, UNCHANGED <<dev, slots, enabled>>, transfers' \subseteq transfers,
         task' = task \/ (task.pc # "disable" /\ task'.pc \notin {"start", "slot"})
  PROVE  Ends'
BY DEF Ends, Served, At

\* Unless it is about to give up its slot, a device has every endpoint of its
\* transfers.
LEMMA Attached ==
  ASSUME IInv, Ends, NEW p \in Ports, dev[p].slot # 0, task.pc \notin {"disable", "delete"},
         NEW x \in {"in", "out"}, <<dev[p].slot, x>> \in transfers
  PROVE  x \in dev[p].endpoints
<1>1. slots[dev[p].slot] = p
  BY DEF IInv, SlotsOwned, At
<1>2. Served(p, x)
  BY <1>1 DEF Ends
<1>3. QED
  BY <1>2 DEF Served, At

\* The new device has its control endpoint and no transfers.
LEMMA ResetEnds ==
  ASSUME IInv, Ends, NEW p \in Ports, Reset(p)
  PROVE  Ends'
<1> DEFINE made == [NoDevice EXCEPT !.session = world[p].session, !.kind = world[p].kind,
                                    !.endpoints = {"ep0"}, !.table = {"ep0"}]
<1>1. /\ task.pc = "reset" /\ task.at = p /\ Types /\ dev[p].slot = 0
      /\ UNCHANGED <<slots, enabled, transfers>>
  BY DEF IInv, Progress, Reset, At, NoDevice
<1>2. made.endpoints = {"ep0"} /\ DOMAIN made = Fields
  BY DEF NoDevice, Fields
<1>3. CASE dev' = [dev EXCEPT ![p] = made] /\ Call("slot")
  <2> HIDE DEF made
  <2>1. Rewrites(p) /\ "ep0" \in dev'[p].endpoints
    BY <1>1, <1>2, <1>3 DEF Rewrites, Types
  <2>2. task'.pc = "slot" /\ task'.at = p
    BY <1>1, <1>3 DEF Call, Types, TaskStates
  <2>3. \A x \in {"in", "out"} : <<dev[p].slot, x>> \notin transfers'
    BY <1>1 DEF Ends, Types
  <2>4. \A q \in Ports : ~At(q, "start")' /\ (At(q, "slot")' => q = p)
    BY <2>2 DEF At
  <2>5. transfers' \subseteq transfers \cup {<<dev[p].slot, "ep0">>} /\ transfers' = transfers
    BY <1>1
  <2>6. QED
    BY <1>1, <2>1, <2>3, <2>4, <2>5, EndsKept
<1>4. CASE UNCHANGED dev /\ Done
  BY <1>1, <1>4, DoneMovesOn, QuietEnds DEF Types, MovesOn
<1>5. QED
  BY <1>3, <1>4 DEF Reset

\* A new slot has no transfers yet.
LEMMA EnableSlotEnds ==
  ASSUME IInv, Ends, NEW p \in Ports, EnableSlot(p)
  PROVE  Ends'
<1>1. task.pc = "slot" /\ task.at = p /\ Types /\ SlotsOwned /\ dev[p].slot = 0 /\ UNCHANGED transfers
  BY DEF IInv, Progress, EnableSlot, At
<1>2. task'.pc \in {"address", "delete"}
  BY <1>1 DEF EnableSlot, Call, Types, TaskStates
<1>3. CASE UNCHANGED <<enabled, slots, dev>>
  BY <1>1, <1>2, <1>3, QuietEnds
<1>4. ASSUME NEW s \in (1..Slots) \ enabled,
             enabled' = enabled \cup {s}, slots' = [slots EXCEPT ![s] = p],
             dev' = [dev EXCEPT ![p].slot = s]
      PROVE  Ends'
  <2>1. \A q \in Ports : /\ dev'[q].endpoints = dev[q].endpoints
                          /\ dev'[q].function = dev[q].function
    BY <1>1, <1>4 DEF Types, Fields
  <2>2. \A t \in transfers : /\ t[1] \in enabled /\ slots'[t[1]] = slots[t[1]]
                              /\ slots[t[1]] \in Ports
    BY <1>1, <1>4 DEF Ends, Types, SlotsOwned
  <2>3. ASSUME NEW t \in transfers PROVE Served(slots[t[1]], t[2])'
    <3>1. Served(slots[t[1]], t[2]) /\ ~At(slots[t[1]], "disable")
      BY <1>1 DEF Ends, At
    <3>2. QED
      BY <2>1, <2>2, <3>1 DEF Served
  <2>4. \A q \in Ports : dev'[q] # NoDevice => "ep0" \in dev'[q].endpoints
    <3>1. "ep0" \in dev[p].endpoints
      BY <1>1 DEF Ends, At
    <3>2. \A q \in Ports \ {p} : dev'[q] = dev[q]
      BY <1>1, <1>4 DEF Types
    <3>3. QED
      BY <2>1, <3>1, <3>2 DEF Ends
  <2>5. \A t \in transfers' : t \in enabled' \X {"ep0", "in", "out"}
    BY <1>1, <1>4 DEF Ends
  <2>6. QED
    BY <1>1, <1>2, <2>3, <2>4, <2>5 DEF Ends, At
<1>5. QED
  BY <1>3, <1>4 DEF EnableSlot

\* DisableSlot ends the transfers of the slot it gives up, so none of the
\* device's is left when its endpoints go.
LEMMA DisableSlotEnds ==
  ASSUME IInv, Ends, NEW p \in Ports, DisableSlot(p)
  PROVE  Ends'
<1>a. dev[p].slot # 0 /\ task.pc = "disable" /\ task.at = p /\ Types /\ SlotsOwned
  BY DEF IInv, Progress, DisableSlot, At
<1>1. /\ task.pc = "disable" /\ task.at = p /\ Types /\ SlotsOwned
      /\ slots[dev[p].slot] = p /\ dev[p].slot \in 1..Slots
  BY <1>a DEF Types, SlotsOwned, At
<1>2. /\ enabled' = enabled \ {dev[p].slot} /\ slots' = [slots EXCEPT ![dev[p].slot] = 0]
      /\ transfers' = {t \in transfers : t[1] # dev[p].slot}
      /\ UNCHANGED dev /\ task' = [task EXCEPT !.pc = "delete"]
  BY DEF DisableSlot, Call
<1>3. task'.pc = "delete"
  BY <1>1, <1>2 DEF Types, TaskStates
<1>4. ASSUME NEW t \in transfers' PROVE Served(slots[t[1]], t[2])'
  <2>1. /\ t \in transfers /\ t[1] # dev[p].slot /\ t[1] \in 1..Slots /\ t[1] \in enabled
    BY <1>1, <1>2 DEF Ends, Types
  <2>2. slots'[t[1]] = slots[t[1]]
    BY <1>1, <1>2, <2>1 DEF Types
  <2>3. slots[t[1]] # p
    BY <1>1, <2>1 DEF SlotsOwned
  <2>4. Served(slots[t[1]], t[2]) /\ ~At(slots[t[1]], "disable")
    BY <1>1, <2>1, <2>3 DEF Ends, At
  <2>5. QED
    BY <1>2, <2>2, <2>4 DEF Served
<1>5. \A t \in transfers' : t \in enabled' \X {"ep0", "in", "out"}
  BY <1>2 DEF Ends
<1>6. \A q \in Ports : dev'[q] # NoDevice => "ep0" \in dev'[q].endpoints
  BY <1>2 DEF Ends
<1>7. QED
  BY <1>3, <1>4, <1>5, <1>6 DEF Ends, At

\* A device that goes has no slot left and so no transfers.
LEMMA DeleteEnds ==
  ASSUME IInv, Ends, NEW p \in Ports, Delete(p)
  PROVE  Ends'
<1>1. /\ task.pc = "delete" /\ task.at = p /\ Types /\ SlotsOwned
      /\ \A s \in 1..Slots : slots[s] # p
  BY DEF IInv, Progress, Delete, At
<1>2. UNCHANGED <<slots, enabled, transfers>> /\ dev' = [dev EXCEPT ![p] = NoDevice] /\ Done
  BY DEF Delete
<1>3. task'.pc \notin {"start", "slot"}
  BY <1>1, <1>2, DoneMovesOn DEF Types, MovesOn
<1>4. dev'[p] = NoDevice /\ \A q \in Ports \ {p} : dev'[q] = dev[q]
  BY <1>1, <1>2 DEF Types
<1>5. ASSUME NEW t \in transfers' PROVE Served(slots[t[1]], t[2])'
  <2>1. slots[t[1]] \in Ports \ {p} /\ t \in transfers
    BY <1>1, <1>2 DEF Ends, Types, SlotsOwned
  <2>2. Served(slots[t[1]], t[2]) /\ ~At(slots[t[1]], "disable")
    BY <1>1, <2>1 DEF Ends, At
  <2>3. QED
    BY <1>2, <1>4, <2>1, <2>2 DEF Served
<1>6. \A q \in Ports : dev'[q] # NoDevice => "ep0" \in dev'[q].endpoints
  BY <1>4 DEF Ends
<1>7. QED
  BY <1>2, <1>3, <1>5, <1>6 DEF Ends, At

\* A descriptor that timed out may be answered later, on endpoint 0.
LEMMA DescribeEnds ==
  ASSUME IInv, Ends, NEW p \in Ports, Describe(p)
  PROVE  Ends'
<1>1. /\ dev[p].slot # 0 /\ task.pc = "describe" /\ task.at = p /\ Types
      /\ UNCHANGED <<slots, enabled>>
  BY DEF IInv, Progress, Describe, At
<1>2. CASE dev' = [dev EXCEPT ![p].function = TRUE] /\ UNCHANGED transfers
  <2> DEFINE d == [dev[p] EXCEPT !.function = TRUE]
  <2>1. DOMAIN d = Fields /\ d.slot = dev[p].slot /\ d.endpoints = dev[p].endpoints
    BY <1>1 DEF Types, Fields
  <2>2. dev' = [dev EXCEPT ![p] = d]
    BY <1>2
  <2> HIDE DEF d
  <2>3. Rewrites(p) /\ dev'[p].endpoints = dev[p].endpoints
    BY <1>1, <2>1, <2>2 DEF Rewrites, Types
  <2>4. task'.pc \notin {"start", "slot"}
    <3>1. CASE Done
      BY <1>1, <3>1, DoneMovesOn DEF Types, MovesOn
    <3>2. CASE Call("configure") \/ Call("disable")
      BY <1>1, <3>2 DEF Call, Types, TaskStates
    <3>3. QED
      BY <3>1, <3>2 DEF Describe
  <2>5. "ep0" \in dev[p].endpoints
    BY <1>1 DEF Ends, NoDevice
  <2>6. \A x \in {"in", "out"} : <<dev[p].slot, x>> \in transfers => x \in dev[p].endpoints
    BY <1>1, Attached
  <2>7. \A q \in Ports : ~At(q, "start")' /\ ~At(q, "slot")'
    BY <2>4 DEF At
  <2>8. transfers' \subseteq transfers \cup {<<dev[p].slot, "ep0">>} /\ transfers' = transfers
    BY <1>2
  <2>9. QED
    BY <1>1, <2>3, <2>5, <2>6, <2>7, <2>8, EndsKept
<1>3. CASE MayAnswerLate(p, "ep0") /\ UNCHANGED dev /\ Call("disable")
  <2>1. Rewrites(p)
    BY <1>1, <1>3 DEF Rewrites, Types
  <2>2. task'.pc = "disable" /\ transfers' \subseteq transfers \cup {<<dev[p].slot, "ep0">>}
    BY <1>1, <1>3 DEF Call, Types, TaskStates, MayAnswerLate
  <2>3. \A x \in {"in", "out"} : <<dev[p].slot, x>> \in transfers' => x \in dev'[p].endpoints
    BY <1>1, <1>3, <2>2, Attached
  <2>4. "ep0" \in dev'[p].endpoints
    BY <1>1, <1>3 DEF Ends, NoDevice
  <2>5. \A q \in Ports : ~At(q, "start")' /\ ~At(q, "slot")'
    BY <2>2 DEF At
  <2>6. QED
    BY <1>1, <2>1, <2>2, <2>3, <2>4, <2>5, EndsKept
<1>4. QED
  BY <1>2, <1>3 DEF Describe

\* What a configured device asks for in Start it has by then; one that failed
\* keeps the endpoints of its transfers, or is about to give up its slot.
LEMMA ConfigureEnds ==
  ASSUME IInv, Ends, NEW p \in Ports, ConfigureHID(p)
  PROVE  Ends'
<1> DEFINE more == EndpointsOf(dev[p].kind)
           made == [dev[p] EXCEPT !.endpoints = @ \cup more, !.table = @ \cup more,
                                  !.number = Free(dev[p].kind)]
           unmade == [dev[p] EXCEPT !.function = FALSE, !.table = @ \cup more]
<1>1. /\ dev[p] = NoDevice \/ dev[p].slot # 0
      /\ task.pc = "configure" /\ task.at = p /\ Types
      /\ UNCHANGED <<slots, enabled>>
  BY DEF IInv, Progress, ConfigureHID, At
<1>2. /\ DOMAIN made = Fields /\ made.endpoints = dev[p].endpoints \cup more
      /\ made.kind = dev[p].kind
      /\ DOMAIN unmade = Fields /\ unmade.endpoints = dev[p].endpoints /\ ~unmade.function
  BY <1>1 DEF Types, Fields
<1>3. more = {"in"} \/ more = {"in", "out"}
  BY DEF EndpointsOf
<1>4. dev[p].kind = "gamepad" => more = {"in", "out"}
  BY DEF EndpointsOf
<1>5. \/ UNCHANGED <<dev, transfers>> /\ Done
      \/ HasDevice(p) /\ dev' = [dev EXCEPT ![p] = made] /\ Call("start") /\ UNCHANGED transfers
      \/ HasDevice(p) /\ dev' = [dev EXCEPT ![p] = unmade] /\ Call("disable") /\ MayAnswerLate(p, "ep0")
  BY DEF ConfigureHID
<1> HIDE DEF made, unmade, more
<1>6. CASE UNCHANGED <<dev, transfers>> /\ Done
  BY <1>1, <1>6, DoneMovesOn, QuietEnds DEF Types, MovesOn
<1>7. CASE HasDevice(p) /\ dev' = [dev EXCEPT ![p] = made] /\ Call("start") /\ UNCHANGED transfers
  <2>1. Rewrites(p) /\ dev'[p].endpoints = dev[p].endpoints \cup more /\ dev'[p].kind = dev[p].kind
    BY <1>1, <1>2, <1>7 DEF Rewrites, Types
  <2>2. dev[p].slot # 0 /\ "ep0" \in dev[p].endpoints
    BY <1>1, <1>7 DEF HasDevice, Ends
  <2>3. \A x \in {"in", "out"} : <<dev[p].slot, x>> \in transfers => x \in dev[p].endpoints
    BY <1>1, <2>2, Attached
  <2>4. task'.pc = "start" /\ task'.at = p
    BY <1>1, <1>7 DEF Call, Types, TaskStates
  <2>5. /\ \A q \in Ports : (At(q, "start")' => q = p) /\ ~At(q, "slot")'
        /\ "in" \in dev'[p].endpoints /\ (dev'[p].kind = "gamepad" => "out" \in dev'[p].endpoints)
    BY <1>3, <1>4, <2>1, <2>4 DEF At
  <2>6. transfers' \subseteq transfers \cup {<<dev[p].slot, "ep0">>} /\ transfers' = transfers
    BY <1>7
  <2>7. QED
    BY <1>1, <2>1, <2>2, <2>3, <2>5, <2>6, EndsKept
<1>8. CASE HasDevice(p) /\ dev' = [dev EXCEPT ![p] = unmade] /\ Call("disable") /\ MayAnswerLate(p, "ep0")
  <2>1. Rewrites(p) /\ dev'[p].endpoints = dev[p].endpoints
    BY <1>1, <1>2, <1>8 DEF Rewrites, Types
  <2>2. dev[p].slot # 0 /\ "ep0" \in dev[p].endpoints
    BY <1>1, <1>8 DEF HasDevice, Ends
  <2>3. task'.pc = "disable" /\ transfers' \subseteq transfers \cup {<<dev[p].slot, "ep0">>}
    BY <1>1, <1>8 DEF Call, Types, TaskStates, MayAnswerLate
  <2>4. \A x \in {"in", "out"} : <<dev[p].slot, x>> \in transfers' => x \in dev'[p].endpoints
    BY <1>1, <2>1, <2>2, <2>3, Attached
  <2>5. \A q \in Ports : ~At(q, "start")' /\ ~At(q, "slot")'
    BY <2>3 DEF At
  <2>6. QED
    BY <1>1, <2>1, <2>2, <2>3, <2>4, <2>5, EndsKept
<1>9. QED
  BY <1>5, <1>6, <1>7, <1>8

\* The first report is asked for on an endpoint that exists.
LEMMA StartEnds ==
  ASSUME IInv, Ends, NEW p \in Ports, Start(p)
  PROVE  Ends'
<1> DEFINE live == [dev[p] EXCEPT !.live = TRUE]
           bare == [dev[p] EXCEPT !.function = FALSE, !.endpoints = {"ep0"}, !.number = 0]
<1>1. /\ dev[p].slot # 0 /\ task.pc = "start" /\ task.at = p /\ Types
      /\ UNCHANGED <<slots, enabled>>
  BY DEF IInv, Progress, Start, At
<1>2. /\ DOMAIN live = Fields /\ live.endpoints = dev[p].endpoints
      /\ DOMAIN bare = Fields /\ bare.endpoints = {"ep0"} /\ ~bare.function
  BY <1>1 DEF Types, Fields
<1>3. \/ dev' = [dev EXCEPT ![p] = live] /\ Done /\ transfers' = transfers \cup {<<dev[p].slot, "in">>}
      \/ dev' = [dev EXCEPT ![p] = bare] /\ Call("disable") /\ MayAnswerLate(p, "out")
  BY DEF Start, DeleteFunction
<1> HIDE DEF live, bare
<1>4. CASE dev' = [dev EXCEPT ![p] = live] /\ Done /\ transfers' = transfers \cup {<<dev[p].slot, "in">>}
  <2>1. Rewrites(p) /\ dev'[p].endpoints = dev[p].endpoints
    BY <1>1, <1>2, <1>4 DEF Rewrites, Types
  <2>2. "ep0" \in dev[p].endpoints /\ "in" \in dev[p].endpoints
    BY <1>1 DEF Ends, NoDevice, At
  <2>3. \A x \in {"in", "out"} : <<dev[p].slot, x>> \in transfers' => x \in dev'[p].endpoints
    <3>1. \A x \in {"in", "out"} : <<dev[p].slot, x>> \in transfers => x \in dev[p].endpoints
      BY <1>1, Attached
    <3>2. \A x \in {"in", "out"} : <<dev[p].slot, x>> \in transfers' =>
            x = "in" \/ <<dev[p].slot, x>> \in transfers
      BY <1>4
    <3>3. QED
      BY <2>1, <2>2, <3>1, <3>2
  <2>4. task'.pc \notin {"start", "slot"}
    BY <1>1, <1>4, DoneMovesOn DEF Types, MovesOn
  <2>5. \A q \in Ports : ~At(q, "start")' /\ ~At(q, "slot")'
    BY <2>4 DEF At
  <2>6. QED
    BY <1>1, <1>4, <2>1, <2>2, <2>3, <2>5, EndsKept
<1>5. CASE dev' = [dev EXCEPT ![p] = bare] /\ Call("disable") /\ MayAnswerLate(p, "out")
  <2>1. Rewrites(p) /\ dev'[p].endpoints = {"ep0"} /\ ~dev'[p].function
    BY <1>1, <1>2, <1>5 DEF Rewrites, Types
  <2>2. task'.pc = "disable" /\ task'.at = p /\ transfers' \subseteq transfers \cup {<<dev[p].slot, "out">>}
    BY <1>1, <1>5 DEF Call, Types, TaskStates, MayAnswerLate
  <2>3. At(p, "disable")' /\ \A q \in Ports : ~At(q, "start")' /\ ~At(q, "slot")'
    BY <2>2 DEF At
  <2>4. QED
    BY <1>1, <2>1, <2>2, <2>3, EndsKept
<1>6. QED
  BY <1>3, <1>4, <1>5

\* Every step keeps the transfers' invariant.
LEMMA EndsNext ==
  ASSUME IInv, Ends, [Next]_vars
  PROVE  Ends'
<1>1. CASE UNCHANGED <<dev, slots, enabled, task>> /\ transfers' \subseteq transfers
  BY <1>1, QuietEnds
<1>2. CASE User
  BY <1>1, <1>2 DEF User, Plug, Unplug, Change, objects
<1>3. CASE Handler
  BY <1>1, <1>3 DEF Handler, StatusChanged, TransferEvent, objects
<1>4. CASE HandlePortStatusChange
  <2>1. UNCHANGED <<dev, slots, enabled, transfers>> /\ task.pc = "idle"
    BY <1>4 DEF HandlePortStatusChange, objects
  <2>2. task'.pc \notin {"start", "slot"}
    BY <1>4 DEF HandlePortStatusChange, Task, Idle
  <2>3. QED
    BY <2>1, <2>2, QuietEnds
<1>5. ASSUME NEW p \in Ports, Initialize(p) \/ AddressDevice(p)
      PROVE  Ends'
  <2>1. /\ UNCHANGED <<dev, slots, enabled, transfers>> /\ task.pc \in {"init", "address"}
        /\ task.at = p /\ Types
    BY <1>5 DEF Initialize, AddressDevice, At, objects, IInv
  <2>2. task'.pc \notin {"start", "slot"}
    <3>1. CASE Done
      BY <2>1, <3>1, DoneMovesOn DEF Types, MovesOn
    <3>2. CASE Call("reset") \/ Call("describe") \/ Call("disable")
      BY <2>1, <3>2 DEF Call, Types, TaskStates
    <3>3. QED
      BY <1>5, <3>1, <3>2 DEF Initialize, AddressDevice
  <2>3. QED
    BY <2>1, <2>2, QuietEnds
<1>6. CASE Step
  BY <1>4, <1>5, <1>6, ResetEnds, EnableSlotEnds, DescribeEnds, ConfigureEnds, StartEnds,
     DisableSlotEnds, DeleteEnds DEF Step
<1>7. CASE UNCHANGED vars
  BY <1>1, <1>7 DEF vars
<1>8. QED
  BY <1>2, <1>3, <1>6, <1>7 DEF Next

\* A transfer event, whenever it comes, finds in its slot a device whose table
\* of endpoints points to an object that is still there, as long as the device
\* keeps its function (CXHCIUSBDevice::TransferEvent, CUSBDevice's destructor).
THEOREM EventsReachEndpointsHolds == Spec => []EventsReachEndpoints
<1>1. Init => IInv /\ Queue /\ Ends
  <2>1. Init => Queue
    BY DEF Init, Queue
  <2>2. Init => Ends
    BY DEF Init, Ends, At, Task, NoDevice
  <2>3. QED
    BY <2>1, <2>2, InitEstablishes
<1>2. IInv /\ Queue /\ Ends /\ [Next]_vars => IInv' /\ Queue' /\ Ends'
  BY NextKeeps, QueueKept, EndsNext
<1>3. IInv /\ Ends => EventsReachEndpoints
  <2> SUFFICES ASSUME IInv, Ends, NEW t \in transfers,
                      slots[t[1]] # 0, dev[slots[t[1]]].function \/ t[2] = "ep0"
               PROVE  t[2] \in dev[slots[t[1]]].endpoints
    BY DEF EventsReachEndpoints
  <2> DEFINE p == slots[t[1]]
  <2>1. t[1] \in enabled /\ p \in Ports /\ dev[p].slot = t[1] /\ t[1] # 0
    BY DEF Ends, IInv, Types, SlotsOwned
  <2>2. "ep0" \in dev[p].endpoints
    BY <2>1 DEF Ends, NoDevice
  <2>3. Served(p, t[2])
    BY DEF Ends
  <2>4. QED
    BY <2>2, <2>3 DEF Served
<1>4. QED
  BY <1>1, <1>2, <1>3, PTL DEF Spec

-----------------------------------------------------------------------------
(* Device numbers.                                                          *)

\* What may be plugged in, and the device objects made for it.
Outside ==
  /\ DOMAIN world = Ports /\ DOMAIN used = {"sessions", "faults"}
  /\ used.sessions \in 0..Sessions
  /\ \A p \in Ports : world[p] = Nothing \/ (world[p].session \in 0..Sessions /\ world[p].kind \in AllKinds)
  /\ csc \in [Ports -> BOOLEAN] /\ pse \in [Ports -> BOOLEAN]

Devices ==
  \A p \in Ports : /\ dev[p] = NoDevice \/ (dev[p].kind \in AllKinds /\ "ep0" \in dev[p].table)
                   /\ dev[p].number \in 0..NPorts
                   /\ dev[p].endpoints \subseteq dev[p].table

\* The pools and the devices' numbers agree, number by number.
Owned ==
  /\ pool \in [AllKinds -> SUBSET (1..NPorts)]
  /\ \A p \in Ports : dev[p].number # 0 => dev[p].number \in pool[dev[p].kind]
  /\ \A k \in AllKinds : \A n \in pool[k] : \E p \in Ports : dev[p].kind = k /\ dev[p].number = n
  /\ \A p, q \in Ports : p # q /\ dev[p].number # 0 /\ dev[p].kind = dev[q].kind
                         => dev[p].number # dev[q].number

\* A device that is still to be configured has no number; neither has any
\* before the root hub has initialised every port, nor those it has yet to
\* configure.
Early == {"init", "reset", "slot", "address", "describe", "configure"}
Unnumbered ==
  /\ task.pc \in Early => dev[task.at].number = 0
  /\ task.pc = "slot" => dev[task.at].kind \in AllKinds
  /\ task.pass = 1 => task.pc # "configure" /\ \A p \in Ports : dev[p].number = 0
  /\ task.pass = 2 => \A p \in Ports : p > task.at => dev[p].number = 0

NInv == Outside /\ Devices /\ Owned /\ Unnumbered

\* At boot no number is taken; what is plugged in is counted.
LEMMA NumbersInit == Init => NInv
<1> SUFFICES ASSUME Init PROVE NInv
  OBVIOUS
<1>0. Outside
  <2>1. PICK there \in SUBSET Ports, kind \in [Ports -> AllKinds] :
       /\ Cardinality(there) <= Sessions
       /\ world = [p \in Ports |-> IF p \in there
                    THEN [session |-> Cardinality({q \in there : q <= p}), kind |-> kind[p]] ELSE Nothing]
       /\ used = [sessions |-> Cardinality(there), faults |-> 0]
       /\ csc = [p \in Ports |-> p \in there] /\ pse = csc
    BY DEF Init
  <2>2. IsFiniteSet(there) /\ Cardinality(there) \in Nat
    <3>1. IsFiniteSet(1..NPorts)
      BY FS_Interval
    <3>2. IsFiniteSet(there)
      BY <3>1, FS_Subset
    <3>3. QED
      BY <3>2, FS_CardinalityType
  <2>3. ASSUME NEW p \in there PROVE Cardinality({q \in there : q <= p}) \in 0..Sessions
    BY <2>1, <2>2, FS_Subset, FS_CardinalityType
  <2>4. \A p \in Ports : world[p] = Nothing \/ (world[p].session \in 0..Sessions /\ world[p].kind \in AllKinds)
    BY <2>1, <2>3
  <2>5. csc \in [Ports -> BOOLEAN] /\ pse \in [Ports -> BOOLEAN]
    BY <2>1
  <2>6. used.sessions \in 0..Sessions /\ DOMAIN used = {"sessions", "faults"} /\ DOMAIN world = Ports
    BY <2>1, <2>2
  <2>7. QED
    BY <2>4, <2>5, <2>6 DEF Outside
<1>1. dev = [p \in Ports |-> NoDevice] /\ pool = [k \in AllKinds |-> {}] /\ task = Task("init", 1, 1)
  BY DEF Init
<1>2. NoDevice.number = 0 /\ NoDevice.endpoints = {}
  BY DEF NoDevice
<1>3. Devices
  BY <1>1, <1>2 DEF Devices
<1>4. Owned
  BY <1>1, <1>2 DEF Owned
<1>5. Unnumbered
  BY <1>1, <1>2 DEF Unnumbered, Task
<1>6. QED
  BY <1>0, <1>3, <1>4, <1>5 DEF NInv

\* The state outside the driver.
LEMMA OutsideNext ==
  ASSUME Outside, [Next]_vars
  PROVE  Outside'
<1> USE DEF Outside
<1>1. CASE UNCHANGED vars
  BY <1>1 DEF vars
<1>2. ASSUME NEW p \in Ports, Unplug(p) PROVE Outside'
  <2>1. world'[p] = Nothing /\ \A q \in Ports \ {p} : world'[q] = world[q]
    BY <1>2 DEF Unplug, Change
  <2>2. QED
    BY <1>2, <2>1 DEF Unplug, Change
<1>3. ASSUME NEW p \in Ports, NEW kind \in Kinds[p], Plug(p, kind) PROVE Outside'
  <2>1. used.sessions' = used.sessions + 1 /\ used.sessions < Sessions /\ DOMAIN used' = DOMAIN used
    BY <1>3 DEF Plug
  <2>2. kind \in AllKinds
    OBVIOUS
  <2>3. /\ world'[p].session = used.sessions + 1 /\ world'[p].kind = kind
        /\ \A q \in Ports \ {p} : world'[q] = world[q]
        /\ DOMAIN world' = Ports
    BY <1>3 DEF Plug, Change
  <2>4. csc' \in [Ports -> BOOLEAN] /\ pse' \in [Ports -> BOOLEAN]
    BY <1>3 DEF Plug, Change
  <2>5. QED
    BY <2>1, <2>2, <2>3, <2>4
<1>4. CASE Handler
  BY <1>4 DEF Handler, StatusChanged, TransferEvent, status
<1>5. CASE HandlePortStatusChange
  BY <1>5 DEF HandlePortStatusChange, status
<1>6. ASSUME NEW p \in Ports, UNCHANGED <<world, pse>>,
             csc' = csc \/ csc' = [csc EXCEPT ![p] = FALSE],
             used' = used \/ used' = [used EXCEPT !.faults = @ + 1]
      PROVE  Outside'
  BY <1>6
<1> HIDE DEF Outside
<1>7. ASSUME NEW p \in Ports,
             \/ Initialize(p) \/ Reset(p) \/ EnableSlot(p) \/ AddressDevice(p)
             \/ Describe(p) \/ ConfigureHID(p) \/ Start(p) \/ DisableSlot(p) \/ Delete(p)
      PROVE  Outside'
  <2>1. UNCHANGED <<world, pse>> /\ (csc' = csc \/ csc' = [csc EXCEPT ![p] = FALSE])
    BY <1>7 DEF Initialize, Reset, EnableSlot, AddressDevice, Describe, ConfigureHID, Start,
       DisableSlot, Delete, status
  <2>2. used' = used \/ used' = [used EXCEPT !.faults = @ + 1]
    BY <1>7 DEF Initialize, Reset, EnableSlot, AddressDevice, Describe, ConfigureHID, Start,
       DisableSlot, Delete, Fails, Mishap
  <2>3. QED
    BY <1>6, <2>1, <2>2
<1>8. QED
  BY <1>1, <1>2, <1>3, <1>4, <1>5, <1>7 DEF Next, User, Step

-----------------------------------------------------------------------------
(* What the calls of the task do to the numbers.                            *)

\* A call at port p keeps the other devices; and of p's device ...
Sound(p) ==
  /\ dev'[p] = NoDevice \/ (dev'[p].kind \in AllKinds /\ "ep0" \in dev'[p].table)
  /\ dev'[p].endpoints \subseteq dev'[p].table

\* ... it keeps the number,
Keeps(p) ==
  /\ Rewrites(p) /\ Sound(p) /\ pool' = pool
  /\ dev'[p].number = dev[p].number
  /\ dev[p].number # 0 => dev'[p].kind = dev[p].kind

\* or gives it back,
GivesBack(p) ==
  /\ Rewrites(p) /\ Sound(p) /\ pool' = [pool EXCEPT ![dev[p].kind] = @ \ {dev[p].number}]
  /\ dev'[p].number = 0

\* or takes one, as none but ConfigureHID does.
Takes(p) ==
  /\ Rewrites(p) /\ Sound(p) /\ dev[p].kind \in AllKinds /\ dev[p].number = 0
  /\ dev'[p].kind = dev[p].kind
  /\ dev'[p].number = Free(dev[p].kind)
  /\ pool' = [pool EXCEPT ![dev[p].kind] = @ \cup {Free(dev[p].kind)}]

\* A call that keeps the number,
LEMMA KeepsOwned ==
  ASSUME Types, Devices, Owned, NEW p \in Ports, Keeps(p)
  PROVE  Devices' /\ Owned'
<1>1. /\ \A q \in Ports \ {p} : dev'[q] = dev[q]
      /\ \A q \in Ports : dev'[q].number = dev[q].number /\ (dev[q].number # 0 => dev'[q].kind = dev[q].kind)
  BY DEF Keeps, Rewrites
<1>2. Devices'
  BY <1>1 DEF Devices, Keeps, Sound
<1>3. pool' = pool /\ \A k \in AllKinds : \A n \in pool[k] : n # 0
  BY DEF Keeps, Owned
<1>4. Owned'
  BY <1>1, <1>3 DEF Owned
<1>5. QED
  BY <1>2, <1>4

\* one that gives it back: no other device of the kind had it,
LEMMA GivesBackOwned ==
  ASSUME Types, Devices, Owned, NEW p \in Ports, GivesBack(p)
  PROVE  Devices' /\ Owned'
<1>1. \A q \in Ports \ {p} : dev'[q] = dev[q]
  BY DEF GivesBack, Rewrites
<1>2. dev'[p].number = 0
  BY DEF GivesBack
<1>3. Devices'
  BY <1>1, <1>2 DEF Devices, GivesBack, Sound
<1>4. /\ pool' \in [AllKinds -> SUBSET (1..NPorts)]
      /\ \A k \in AllKinds : pool'[k] = IF k = dev[p].kind THEN pool[k] \ {dev[p].number} ELSE pool[k]
  BY DEF GivesBack, Owned
<1>5. ASSUME NEW q \in Ports, dev'[q].number # 0 PROVE dev'[q].number \in pool'[dev'[q].kind]
  <2>1. q # p /\ dev'[q] = dev[q]
    BY <1>1, <1>2, <1>5
  <2>2. dev[q].number \in pool[dev[q].kind] /\ dev[q].kind \in AllKinds
    BY <1>5, <2>1 DEF Owned, Devices, NoDevice
  <2>3. dev[q].kind = dev[p].kind => dev[q].number # dev[p].number
    BY <1>5, <2>1 DEF Owned
  <2>4. QED
    BY <1>4, <2>1, <2>2, <2>3
<1>6. ASSUME NEW k \in AllKinds, NEW n \in pool'[k]
      PROVE  \E q \in Ports : dev'[q].kind = k /\ dev'[q].number = n
  <2>1. n \in pool[k] /\ (k = dev[p].kind => n # dev[p].number)
    BY <1>4
  <2>2. PICK q \in Ports : dev[q].kind = k /\ dev[q].number = n
    BY <2>1 DEF Owned
  <2>3. q # p
    BY <2>1, <2>2
  <2>4. QED
    BY <1>1, <2>2, <2>3
<1>7. ASSUME NEW q \in Ports, NEW r \in Ports, q # r, dev'[q].number # 0, dev'[q].kind = dev'[r].kind
      PROVE  dev'[q].number # dev'[r].number
  BY <1>1, <1>2, <1>7 DEF Owned
<1>8. QED
  BY <1>3, <1>4, <1>5, <1>6, <1>7 DEF Owned

\* Every non-empty set of numbers has a least one.
LEMMA Least ==
  ASSUME NEW T \in SUBSET Nat, T # {}
  PROVE  \E n \in T : \A m \in T : n <= m
<1> DEFINE R == OpToRel(<, Nat)
<1>1. IsWellFoundedOn(R, Nat)
  BY NatLessThanWellFounded
<1>2. PICK n \in T : \A m \in T : ~(<<m, n>> \in R)
  <2> HIDE DEF R
  <2>1. QED
    BY <1>1, WFMin
<1>3. \A m \in Nat : m < n => <<m, n>> \in R
  BY DEF OpToRel
<1> HIDE DEF R
<1>4. \A m \in Nat : ~(m < n) => n <= m
  OBVIOUS
<1>5. QED
  BY <1>2, <1>3, <1>4

\* AllocateNumber finds a number: while a device has none, the devices of a
\* kind that have one are fewer than the ports.
LEMMA FreeIsFree ==
  ASSUME Types, Devices, Owned, NEW p \in Ports, dev[p].number = 0, NEW k \in AllKinds
  PROVE  Free(k) \in 1..NPorts /\ Free(k) \notin pool[k]
<1> DEFINE others == Ports \ {p}
<1>1. IsFiniteSet(others) /\ Cardinality(others) = NPorts - 1
  <2>1. IsFiniteSet(Ports) /\ Cardinality(Ports) = NPorts
    BY FS_Interval
  <2>2. p \in Ports
    OBVIOUS
  <2> HIDE DEF Ports
  <2>3. QED
    BY <2>1, <2>2, FS_RemoveElement
<1>0. \A n \in pool[k] : \E q \in Ports : dev[q].kind = k /\ dev[q].number = n
  BY DEF Owned
<1>2. \E n \in 1..NPorts : n \notin pool[k]
  <2> SUFFICES ASSUME \A n \in 1..NPorts : n \in pool[k] PROVE FALSE
    OBVIOUS
  <2>1. \A n \in 1..NPorts : \E q \in others : dev[q].number = n
    <3>1. ASSUME NEW n \in 1..NPorts PROVE \E q \in others : dev[q].number = n
      <4>0. n \in pool[k] /\ n # 0
        OBVIOUS
      <4>1. PICK q \in Ports : dev[q].kind = k /\ dev[q].number = n
        BY <4>0, <1>0
      <4>2. q # p
        BY <4>0, <4>1
      <4>3. QED
        BY <4>1, <4>2
    <3>2. QED
      BY <3>1
  <2> DEFINE g == [n \in 1..NPorts |-> CHOOSE q \in others : dev[q].number = n]
  <2>2. \A n \in 1..NPorts : g[n] \in others /\ dev[g[n]].number = n
    BY <2>1
  <2>3. g \in [1..NPorts -> others]
    BY <2>2
  <2>4. IsFiniteSet(1..NPorts) /\ Cardinality(1..NPorts) = NPorts
    BY FS_Interval
  <2> HIDE DEF g, others
  <2>5. PICK m, n \in 1..NPorts : m # n /\ g[m] = g[n]
    BY <1>1, <2>3, <2>4, FS_PigeonHole
  <2>6. QED
    BY <2>2, <2>5
<1> DEFINE vacant == {x \in 1..NPorts : x \notin pool[k]}
<1>3. PICK n \in vacant : \A m \in vacant : n <= m
  <2>1. vacant \in SUBSET Nat /\ vacant # {}
    BY <1>2
  <2> HIDE DEF vacant
  <2>2. QED
    BY <2>1, Least
<1>4. n \in 1..NPorts + 1 /\ n \notin pool[k] /\ 1..n - 1 \subseteq pool[k]
  BY <1>3
<1>5. Free(k) \in 1..NPorts + 1 /\ Free(k) \notin pool[k] /\ 1..Free(k) - 1 \subseteq pool[k]
  BY <1>4 DEF Free
<1>6. Free(k) <= n
  BY <1>4, <1>5
<1>7. QED
  BY <1>4, <1>5, <1>6

\* and one that takes a number nobody has.
LEMMA TakesOwned ==
  ASSUME Types, Devices, Owned, NEW p \in Ports, Takes(p)
  PROVE  Devices' /\ Owned'
<1> DEFINE k == dev[p].kind
           new == Free(k)
<1>0. k \in AllKinds /\ dev[p].number = 0
  BY DEF Takes
<1>1. new \in 1..NPorts /\ new \notin pool[k]
  BY <1>0, FreeIsFree
<1>2. \A q \in Ports \ {p} : dev'[q] = dev[q]
  BY DEF Takes, Rewrites
<1>3. dev'[p].number = new /\ dev'[p].kind = k /\ new # 0
  BY <1>1 DEF Takes
<1> HIDE DEF new
<1>4. Devices'
  BY <1>1, <1>2, <1>3 DEF Devices, Takes, Sound
<1>5. pool' = [pool EXCEPT ![k] = @ \cup {new}]
  BY DEF Takes, new
<1>6. /\ pool' \in [AllKinds -> SUBSET (1..NPorts)]
      /\ \A j \in AllKinds : pool'[j] = IF j = k THEN pool[j] \cup {new} ELSE pool[j]
  BY <1>1, <1>5 DEF Owned
<1>7. ASSUME NEW q \in Ports, dev'[q].number # 0 PROVE dev'[q].number \in pool'[dev'[q].kind]
  <2>1. CASE q = p
    BY <1>0, <1>3, <1>6, <2>1
  <2>2. CASE q # p
    <3>1. dev'[q] = dev[q]
      BY <1>2, <2>2
    <3>2. dev[q].number \in pool[dev[q].kind] /\ dev[q].kind \in AllKinds
      BY <1>7, <3>1 DEF Owned, Devices, NoDevice
    <3>3. QED
      BY <1>6, <3>1, <3>2
  <2>3. QED
    BY <2>1, <2>2
<1>8. ASSUME NEW j \in AllKinds, NEW n \in pool'[j]
      PROVE  \E q \in Ports : dev'[q].kind = j /\ dev'[q].number = n
  <2>1. CASE n \in pool[j]
    <3>1. PICK q \in Ports : dev[q].kind = j /\ dev[q].number = n
      BY <2>1 DEF Owned
    <3>2. n # 0
      BY <2>1 DEF Owned
    <3>3. QED
      BY <1>0, <1>2, <3>1, <3>2
  <2>2. CASE n \notin pool[j]
    BY <1>3, <1>6, <2>2
  <2>3. QED
    BY <2>1, <2>2
<1>9. ASSUME NEW q \in Ports, NEW r \in Ports, q # r, dev'[q].number # 0, dev'[q].kind = dev'[r].kind,
             dev'[q].number = dev'[r].number
      PROVE  FALSE
  <2>1. CASE q # p /\ r # p
    BY <1>2, <1>9, <2>1 DEF Owned
  <2>2. CASE q = p
    <3>1. dev[r].number = new /\ dev[r].kind = k
      BY <1>2, <1>3, <1>9, <2>2
    <3>2. QED
      BY <1>1, <1>3, <3>1 DEF Owned
  <2>3. CASE r = p
    <3>1. dev[q].number = new /\ dev[q].kind = k
      BY <1>2, <1>3, <1>9, <2>3
    <3>2. QED
      BY <1>1, <1>3, <3>1 DEF Owned
  <2>4. QED
    BY <2>1, <2>2, <2>3
<1>10. QED
  BY <1>4, <1>6, <1>7, <1>8, <1>9 DEF Owned

\* Where the task goes next it finds a device that fits.
LEMMA CallUnnumbered ==
  ASSUME Types, Unnumbered, NEW p \in Ports, task.at = p, Rewrites(p), NEW pc \in Calls, Call(pc),
         pc \in Early => dev'[p].number = 0, pc = "slot" => dev'[p].kind \in AllKinds,
         task.pass = 1 => pc # "configure" /\ dev'[p].number = 0
  PROVE  Unnumbered'
<1>1. Goes(p, pc)
  BY CallGoes DEF Types
<1>2. task'.at = p /\ task'.pc = pc /\ task'.pass = task.pass
  BY <1>1 DEF Goes
<1>3. \A q \in Ports \ {p} : dev'[q].number = dev[q].number
  BY DEF Rewrites
<1>4. task.pass = 1 => \A q \in Ports : dev'[q].number = 0
  BY <1>3 DEF Unnumbered
<1>5. task.pass = 2 => \A q \in Ports : q > p => dev'[q].number = 0
  BY <1>3 DEF Unnumbered
<1>6. QED
  BY <1>2, <1>4, <1>5 DEF Unnumbered

\* After a port's last call, the root hub's order leads to a port without number.
LEMMA DoneUnnumbered ==
  ASSUME Types, Unnumbered, NEW p \in Ports, task.at = p, Rewrites(p), Done,
         task.pass = 1 => dev'[p].number = 0
  PROVE  Unnumbered'
<1>1. task.pass \in 0..2
  BY DEF Types, TaskStates
<1>2. CASE task.pass = 0
  <2>1. task' = Idle
    BY <1>2 DEF Done
  <2>2. task'.pc = "idle" /\ task'.pass = 0
    BY <2>1 DEF Idle, Task
  <2>3. QED
    BY <2>2 DEF Unnumbered, Early
<1>3. CASE task.pass = 1
  <2>1. \A q \in Ports : dev'[q].number = 0
    BY <1>3 DEF Unnumbered, Rewrites
  <2>2. \/ p < NPorts /\ task' = Task("init", p + 1, 1)
        \/ task' = Task("configure", 1, 2)
    BY <1>3 DEF Done
  <2>3. task'.at \in Ports /\ (task'.pass = 1 => task'.pc # "configure") /\ task'.pc # "slot"
    BY <2>2 DEF Task
  <2>4. QED
    BY <2>1, <2>3 DEF Unnumbered
<1>4. CASE task.pass = 2
  <2>1. \/ p < NPorts /\ task' = Task("configure", p + 1, 2)
        \/ task' = Idle
    BY <1>4 DEF Done
  <2>2. \A q \in Ports : q > p => dev'[q].number = 0
    BY <1>4 DEF Unnumbered, Rewrites
  <2>3. QED
    BY <2>1, <2>2 DEF Unnumbered, Task, Idle, Early
<1>5. QED
  BY <1>1, <1>2, <1>3, <1>4

\* A call that leaves the device objects alone.
LEMMA SameKeeps ==
  ASSUME Types, Devices, NEW p \in Ports, UNCHANGED <<dev, pool>>
  PROVE  Keeps(p)
BY DEF Types, Devices, Keeps, Rewrites, Sound

\* One that sets fields of p's device.
LEMMA FieldsSound ==
  ASSUME Types, NEW p \in Ports, NEW d, DOMAIN d = Fields, dev' = [dev EXCEPT ![p] = d],
         d = NoDevice \/ (d.kind \in AllKinds /\ "ep0" \in d.table), d.endpoints \subseteq d.table
  PROVE  Rewrites(p) /\ Sound(p) /\ dev'[p] = d
BY DEF Types, Rewrites, Sound

\* What the numbers' invariant says of the device of a call.
LEMMA AtCall ==
  ASSUME IInv, NInv, NEW p \in Ports, task.at = p
  PROVE  /\ Types /\ Devices /\ Owned /\ Unnumbered /\ DOMAIN dev[p] = Fields
         /\ task.pc \in Early => dev[p].number = 0
         /\ task.pass = 1 => dev[p].number = 0 /\ task.pc # "configure"
         /\ dev[p].kind \in AllKinds => "ep0" \in dev[p].table
         /\ dev[p].slot # 0 => dev[p].kind \in AllKinds
         /\ dev[p].endpoints \subseteq dev[p].table
<1>1. NoDevice.slot = 0 /\ NoDevice.kind \notin AllKinds
  BY DEF NoDevice, AllKinds
<1>2. QED
  BY <1>1 DEF IInv, NInv, Unnumbered, Devices, Types

Kept == Devices' /\ Owned' /\ Unnumbered'

\* Three calls that leave the device objects as they are.
LEMMA InitializeNumbers ==
  ASSUME IInv, NInv, NEW p \in Ports, Initialize(p) \/ AddressDevice(p) \/ DisableSlot(p)
  PROVE  Kept
<1>1. /\ task.at = p /\ UNCHANGED <<dev, pool>> /\ Types /\ Unnumbered /\ Devices /\ Owned
      /\ task.pc \in Early \cup {"disable"}
      /\ task.pc \in Early => dev[p].number = 0
      /\ task.pass = 1 => dev[p].number = 0
  BY AtCall DEF Initialize, AddressDevice, DisableSlot, At, objects, Early
<1>2. Keeps(p)
  BY <1>1, SameKeeps
<1>3. \/ Done
      \/ Call("reset") /\ task.pc \in Early
      \/ Call("describe") /\ task.pc \in Early
      \/ Call("disable") \/ Call("delete")
  BY DEF Initialize, AddressDevice, DisableSlot, At, Early
<1>4. Unnumbered'
  BY <1>1, <1>2, <1>3, CallUnnumbered, DoneUnnumbered DEF Keeps, Calls, Early
<1>5. QED
  BY <1>1, <1>2, <1>4, KeepsOwned DEF Kept

\* A new device has no number.
LEMMA ResetNumbers ==
  ASSUME IInv, NInv, NEW p \in Ports, Reset(p)
  PROVE  Kept
<1> DEFINE made == [NoDevice EXCEPT !.session = world[p].session, !.kind = world[p].kind,
                                    !.endpoints = {"ep0"}, !.table = {"ep0"}]
<1>1. /\ task.at = p /\ task.pc = "reset" /\ Types /\ Unnumbered /\ Devices /\ Owned
      /\ dev[p].number = 0 /\ UNCHANGED pool
  BY AtCall DEF Reset, At, Early
<1>2. /\ DOMAIN made = Fields /\ made.number = 0 /\ made.kind = world[p].kind
      /\ made.endpoints = {"ep0"} /\ made.table = {"ep0"}
  BY DEF NoDevice, Fields
<1> HIDE DEF made
<1>3. CASE IsConnected(p) /\ dev' = [dev EXCEPT ![p] = made] /\ Call("slot")
  <2>1. world[p].kind \in AllKinds
    BY <1>3 DEF NInv, Outside, IsConnected, Nothing
  <2>2. Rewrites(p) /\ Sound(p) /\ dev'[p] = made
    BY <1>1, <1>2, <1>3, <2>1, FieldsSound
  <2>3. Keeps(p)
    BY <1>1, <1>2, <2>2 DEF Keeps
  <2>4. Unnumbered'
    BY <1>1, <1>2, <1>3, <2>1, <2>2, CallUnnumbered DEF Calls, Unnumbered
  <2>5. QED
    BY <1>1, <2>3, <2>4, KeepsOwned DEF Kept
<1>4. CASE UNCHANGED dev /\ Done
  BY <1>1, <1>4, SameKeeps, KeepsOwned, DoneUnnumbered DEF Kept, Keeps
<1>5. QED
  BY <1>3, <1>4 DEF Reset, made

\* Nor has it when it gets a slot,
LEMMA EnableSlotNumbers ==
  ASSUME IInv, NInv, NEW p \in Ports, EnableSlot(p)
  PROVE  Kept
<1>1. /\ task.at = p /\ task.pc = "slot" /\ Types /\ Unnumbered /\ Devices /\ Owned
      /\ dev[p].number = 0 /\ UNCHANGED pool /\ DOMAIN dev[p] = Fields
  BY AtCall DEF EnableSlot, At, Early
<1>2. CASE UNCHANGED dev /\ Call("delete")
  BY <1>1, <1>2, SameKeeps, KeepsOwned, CallUnnumbered DEF Kept, Keeps, Calls, Early
<1>3. ASSUME NEW s \in 1..Slots, dev' = [dev EXCEPT ![p].slot = s], Call("address")
      PROVE  Kept
  <2> DEFINE d == [dev[p] EXCEPT !.slot = s]
  <2>1. /\ DOMAIN d = Fields /\ d.number = 0 /\ d.kind = dev[p].kind
        /\ d.endpoints = dev[p].endpoints /\ d.table = dev[p].table
    BY <1>1 DEF Fields
  <2>2. dev' = [dev EXCEPT ![p] = d]
    BY <1>3
  <2> HIDE DEF d
  <2>3. dev[p].kind \in AllKinds /\ "ep0" \in dev[p].table
    BY <1>1, AtCall DEF Unnumbered
  <2>4. Rewrites(p) /\ Sound(p) /\ dev'[p] = d
    BY <1>1, <2>1, <2>2, <2>3, FieldsSound DEF Devices
  <2>5. QED
    BY <1>1, <1>3, <2>1, <2>4, KeepsOwned, CallUnnumbered DEF Kept, Keeps, Calls, Early, Unnumbered
<1>4. QED
  BY <1>2, <1>3 DEF EnableSlot

\* or its functions.
LEMMA DescribeNumbers ==
  ASSUME IInv, NInv, NEW p \in Ports, Describe(p)
  PROVE  Kept
<1>1. /\ task.at = p /\ task.pc = "describe" /\ Types /\ Unnumbered /\ Devices /\ Owned
      /\ dev[p].number = 0 /\ UNCHANGED pool /\ DOMAIN dev[p] = Fields
      /\ dev[p].kind \in AllKinds /\ "ep0" \in dev[p].table /\ dev[p].endpoints \subseteq dev[p].table
  BY AtCall DEF Describe, At, Early, IInv, Progress
<1>2. Keeps(p)
  <2>1. CASE UNCHANGED dev
    BY <1>1, <2>1, SameKeeps
  <2>2. CASE dev' = [dev EXCEPT ![p].function = TRUE]
    <3> DEFINE d == [dev[p] EXCEPT !.function = TRUE]
    <3>1. /\ DOMAIN d = Fields /\ d.number = 0 /\ d.kind = dev[p].kind
          /\ d.endpoints = dev[p].endpoints /\ d.table = dev[p].table
      BY <1>1 DEF Fields
    <3>2. dev' = [dev EXCEPT ![p] = d]
      BY <2>2
    <3> HIDE DEF d
    <3>3. QED
      BY <1>1, <3>1, <3>2, FieldsSound DEF Keeps
  <2>3. QED
    BY <2>1, <2>2 DEF Describe
<1>3. Rewrites(p) /\ dev'[p].number = 0
  BY <1>1, <1>2 DEF Keeps
<1>4. Done \/ (task.pass # 1 /\ Call("configure")) \/ Call("disable")
  BY DEF Describe
<1>5. Unnumbered'
  BY <1>1, <1>3, <1>4, CallUnnumbered, DoneUnnumbered DEF Calls
<1>6. QED
  BY <1>1, <1>2, <1>5, KeepsOwned DEF Kept

\* Configure takes a number, or fails before it.
LEMMA ConfigureNumbers ==
  ASSUME IInv, NInv, NEW p \in Ports, ConfigureHID(p)
  PROVE  Kept
<1> DEFINE more == EndpointsOf(dev[p].kind)
           made == [dev[p] EXCEPT !.endpoints = @ \cup more, !.table = @ \cup more,
                                  !.number = Free(dev[p].kind)]
           unmade == [dev[p] EXCEPT !.function = FALSE, !.table = @ \cup more]
<1>1. /\ task.at = p /\ task.pc = "configure" /\ Types /\ Unnumbered /\ Devices /\ Owned
      /\ dev[p].number = 0 /\ DOMAIN dev[p] = Fields /\ task.pass # 1
      /\ dev[p].endpoints \subseteq dev[p].table
  BY AtCall DEF ConfigureHID, At, Early
<1>2. /\ DOMAIN made = Fields /\ made.number = Free(dev[p].kind) /\ made.kind = dev[p].kind
      /\ made.endpoints \subseteq made.table /\ dev[p].table \subseteq made.table
      /\ DOMAIN unmade = Fields /\ unmade.number = 0 /\ unmade.kind = dev[p].kind
      /\ unmade.endpoints \subseteq unmade.table /\ dev[p].table \subseteq unmade.table
  BY <1>1 DEF Fields
<1>3. \/ UNCHANGED <<dev, pool>> /\ Done
      \/ /\ HasDevice(p) /\ dev' = [dev EXCEPT ![p] = made] /\ Call("start")
         /\ pool' = [pool EXCEPT ![dev[p].kind] = @ \cup {Free(dev[p].kind)}]
      \/ HasDevice(p) /\ dev' = [dev EXCEPT ![p] = unmade] /\ Call("disable") /\ UNCHANGED pool
  BY DEF ConfigureHID
<1>4. HasDevice(p) => dev[p].kind \in AllKinds /\ "ep0" \in dev[p].table
  BY <1>1 DEF HasDevice, Devices
<1> HIDE DEF made, unmade, more
<1>5. CASE UNCHANGED <<dev, pool>> /\ Done
  BY <1>1, <1>5, SameKeeps, KeepsOwned, DoneUnnumbered DEF Kept, Keeps
<1>6. CASE /\ HasDevice(p) /\ dev' = [dev EXCEPT ![p] = made] /\ Call("start")
           /\ pool' = [pool EXCEPT ![dev[p].kind] = @ \cup {Free(dev[p].kind)}]
  <2>1. Rewrites(p) /\ Sound(p) /\ dev'[p] = made
    BY <1>1, <1>2, <1>4, <1>6, FieldsSound
  <2>2. Takes(p)
    BY <1>1, <1>2, <1>4, <1>6, <2>1 DEF Takes
  <2>3. Unnumbered'
    BY <1>1, <1>6, <2>1, CallUnnumbered DEF Calls, Early
  <2>4. QED
    BY <1>1, <2>2, <2>3, TakesOwned DEF Kept
<1>7. CASE HasDevice(p) /\ dev' = [dev EXCEPT ![p] = unmade] /\ Call("disable") /\ UNCHANGED pool
  <2>1. Rewrites(p) /\ Sound(p) /\ dev'[p] = unmade
    BY <1>1, <1>2, <1>4, <1>7, FieldsSound
  <2>2. Keeps(p)
    BY <1>1, <1>2, <1>7, <2>1 DEF Keeps
  <2>3. Unnumbered'
    BY <1>1, <1>7, <2>1, CallUnnumbered DEF Calls, Early
  <2>4. QED
    BY <1>1, <2>2, <2>3, KeepsOwned DEF Kept
<1>8. QED
  BY <1>3, <1>5, <1>6, <1>7

\* A function that cannot be started gives its number back.
LEMMA StartNumbers ==
  ASSUME IInv, NInv, NEW p \in Ports, Start(p)
  PROVE  Kept
<1> DEFINE live == [dev[p] EXCEPT !.live = TRUE]
           bare == [dev[p] EXCEPT !.function = FALSE, !.endpoints = {"ep0"}, !.number = 0]
<1>1. /\ task.at = p /\ task.pc = "start" /\ Types /\ Unnumbered /\ Devices /\ Owned
      /\ DOMAIN dev[p] = Fields /\ dev[p].kind \in AllKinds
      /\ task.pass = 1 => dev[p].number = 0
      /\ dev[p].endpoints \subseteq dev[p].table
  BY AtCall DEF Start, At, IInv, Progress
<1>2. "ep0" \in dev[p].table
  BY <1>1, AtCall
<1>3. /\ DOMAIN live = Fields /\ live.number = dev[p].number /\ live.kind = dev[p].kind
      /\ live.endpoints \subseteq live.table /\ live.table = dev[p].table
      /\ DOMAIN bare = Fields /\ bare.number = 0 /\ bare.kind = dev[p].kind
      /\ bare.endpoints \subseteq bare.table /\ bare.table = dev[p].table
  BY <1>1, <1>2 DEF Fields
<1>4. \/ dev' = [dev EXCEPT ![p] = live] /\ Done /\ UNCHANGED pool
      \/ /\ dev' = [dev EXCEPT ![p] = bare] /\ Call("disable")
         /\ pool' = [pool EXCEPT ![dev[p].kind] = @ \ {dev[p].number}]
  BY DEF Start, DeleteFunction
<1> HIDE DEF live, bare
<1>5. CASE dev' = [dev EXCEPT ![p] = live] /\ Done /\ UNCHANGED pool
  <2>1. Rewrites(p) /\ Sound(p) /\ dev'[p] = live
    BY <1>1, <1>2, <1>3, <1>5, FieldsSound
  <2>2. Keeps(p)
    BY <1>1, <1>3, <1>5, <2>1 DEF Keeps
  <2>3. Unnumbered'
    BY <1>1, <1>3, <1>5, <2>1, DoneUnnumbered
  <2>4. QED
    BY <1>1, <2>2, <2>3, KeepsOwned DEF Kept
<1>6. CASE /\ dev' = [dev EXCEPT ![p] = bare] /\ Call("disable")
           /\ pool' = [pool EXCEPT ![dev[p].kind] = @ \ {dev[p].number}]
  <2>1. Rewrites(p) /\ Sound(p) /\ dev'[p] = bare
    BY <1>1, <1>2, <1>3, <1>6, FieldsSound
  <2>2. GivesBack(p)
    BY <1>1, <1>3, <1>6, <2>1 DEF GivesBack
  <2>3. Unnumbered'
    BY <1>1, <1>3, <1>6, <2>1, CallUnnumbered DEF Calls, Early
  <2>4. QED
    BY <1>1, <2>2, <2>3, GivesBackOwned DEF Kept
<1>7. QED
  BY <1>4, <1>5, <1>6

\* So does a device that is deleted.
LEMMA DeleteNumbers ==
  ASSUME IInv, NInv, NEW p \in Ports, Delete(p)
  PROVE  Kept
<1>1. task.at = p /\ task.pc = "delete" /\ Types /\ Unnumbered /\ Devices /\ Owned
  BY AtCall DEF Delete, At
<1>2. /\ dev' = [dev EXCEPT ![p] = NoDevice] /\ Done
      /\ pool' = [pool EXCEPT ![dev[p].kind] = @ \ {dev[p].number}]
  BY DEF Delete
<1>3. /\ NoDevice.number = 0 /\ NoDevice.endpoints = {} /\ NoDevice.table = {}
      /\ DOMAIN NoDevice = Fields
  BY DEF NoDevice, Fields
<1>4. Rewrites(p) /\ Sound(p) /\ dev'[p] = NoDevice
  BY <1>1, <1>2, <1>3, FieldsSound
<1>5. GivesBack(p)
  BY <1>2, <1>3, <1>4 DEF GivesBack
<1>6. Unnumbered'
  BY <1>1, <1>2, <1>3, <1>4, DoneUnnumbered
<1>7. QED
  BY <1>1, <1>5, <1>6, GivesBackOwned DEF Kept

\* Every step keeps the numbers' invariant.
LEMMA NumbersNext ==
  ASSUME IInv, Queue, NInv, [Next]_vars
  PROVE  NInv'
<1>1. Outside'
  BY OutsideNext DEF NInv
<1>2. ASSUME UNCHANGED <<dev, pool, task>> PROVE Kept
  BY <1>2 DEF NInv, Devices, Owned, Unnumbered, Kept
<1>3. ASSUME User PROVE Kept
  BY <1>2, <1>3 DEF User, Plug, Unplug, Change, objects
<1>4. ASSUME Handler PROVE Kept
  BY <1>2, <1>4 DEF Handler, StatusChanged, TransferEvent, objects
<1>5. ASSUME HandlePortStatusChange PROVE Kept
  <2> DEFINE p == Head(hubList)
  <2>1. UNCHANGED <<dev, pool>> /\ p \in Ports
    BY <1>5 DEF HandlePortStatusChange, objects, Queue
  <2>2. \/ task' = Task("init", p, 0) /\ dev[p] = NoDevice
        \/ task' = Task("disable", p, 0)
        \/ task' = Idle
    BY <1>5 DEF HandlePortStatusChange, HasDevice
  <2>3. NoDevice.number = 0
    BY DEF NoDevice
  <2> HIDE DEF p
  <2>4. Unnumbered'
    BY <2>1, <2>2, <2>3 DEF Unnumbered, Task, Idle, Early
  <2>5. Devices' /\ Owned'
    BY <2>1 DEF NInv, Devices, Owned
  <2>6. QED
    BY <2>4, <2>5 DEF Kept
<1>6. ASSUME Step PROVE Kept
  BY <1>5, <1>6, InitializeNumbers, ResetNumbers, EnableSlotNumbers, DescribeNumbers, ConfigureNumbers,
     StartNumbers, DeleteNumbers DEF Step
<1>7. Kept
  BY <1>2, <1>3, <1>4, <1>6 DEF Next, vars
<1>8. QED
  BY <1>1, <1>7 DEF NInv, Kept

\* A pool holds as many numbers as there are devices that have one: numbers
\* and devices stand in one-to-one correspondence.
LEMMA PoolsCount ==
  ASSUME Devices, Owned, NEW k \in AllKinds,
         NEW owners, owners = {p \in Ports : dev[p].kind = k /\ dev[p].number # 0}
  PROVE  pool[k] = {dev[p].number : p \in owners} /\ Cardinality(pool[k]) = Cardinality(owners)
<1>1. \A p \in owners : p \in Ports /\ dev[p].kind = k /\ dev[p].number # 0 /\ dev[p].number \in pool[k]
  BY DEF Owned
<1>2. \A n \in pool[k] : \E p \in owners : dev[p].number = n
  <2>1. ASSUME NEW n \in pool[k] PROVE \E p \in owners : dev[p].number = n
    <3>1. PICK p \in Ports : dev[p].kind = k /\ dev[p].number = n
      BY DEF Owned
    <3>2. n # 0
      BY DEF Owned
    <3>3. QED
      BY <3>1, <3>2
  <2>2. QED
    BY <2>1
<1>3. pool[k] = {dev[p].number : p \in owners}
  BY <1>1, <1>2
<1> DEFINE f == [p \in owners |-> dev[p].number]
<1>4. f \in Surjection(owners, pool[k])
  BY <1>1, <1>2 DEF Surjection
<1>5. f \in Injection(owners, pool[k])
  <2>1. f \in [owners -> pool[k]]
    BY <1>1
  <2>2. \A p, q \in owners : f[p] = f[q] => p = q
    BY <1>1 DEF Owned
  <2>3. QED
    BY <2>1, <2>2 DEF Injection, IsInjective
<1>6. IsFiniteSet(owners)
  <2>1. IsFiniteSet(1..NPorts) /\ owners \subseteq 1..NPorts
    BY FS_Interval
  <2>2. QED
    BY <2>1, FS_Subset
<1> HIDE DEF f
<1>7. Cardinality(pool[k]) = Cardinality(owners)
  BY <1>4, <1>5, <1>6, FS_Surjection
<1>8. QED
  BY <1>3, <1>7

\* Every device number in use ("upad1", "upad2") belongs to one device of its
\* kind, and no two devices of a kind share one, whichever step of bringing a
\* device up fails: CNumberPool's AllocateNumber and FreeNumber are called in
\* pairs by the functions' constructors and destructors.
THEOREM NumbersOwnedHolds == Spec => []NumbersOwned
<1>1. Init => IInv /\ Queue /\ Ends /\ NInv
  <2>1. Init => Queue
    BY DEF Init, Queue
  <2>2. Init => Ends
    BY DEF Init, Ends, At, Task, NoDevice
  <2>3. QED
    BY <2>1, <2>2, InitEstablishes, NumbersInit
<1>2. IInv /\ Queue /\ Ends /\ NInv /\ [Next]_vars => IInv' /\ Queue' /\ Ends' /\ NInv'
  BY NextKeeps, QueueKept, EndsNext, NumbersNext
<1>3. IInv /\ Ends /\ NInv => NumbersOwned
  <2> SUFFICES ASSUME IInv, Ends, NInv PROVE NumbersOwned
    OBVIOUS
  <2>1. TypeOK
    <3>1. \A p \in Ports : world[p].session \in 0..Sessions /\ world[p].kind \in AllKinds \cup {"none"}
      BY DEF NInv, Outside, Nothing
    <3>2. \A p \in Ports : /\ dev[p].slot \in 0..Slots /\ dev[p].number \in 0..NPorts
                            /\ dev[p].endpoints \subseteq dev[p].table
      BY DEF IInv, Types, NInv, Devices
    <3>3. csc \in [Ports -> BOOLEAN] /\ pse \in [Ports -> BOOLEAN]
      BY DEF NInv, Outside
    <3>4. slots \in [1..Slots -> 0..NPorts] /\ enabled \subseteq 1..Slots
          /\ task.at \in 0..NPorts /\ task.pass \in 0..2
      BY DEF IInv, Types, TaskStates
    <3>5. transfers \subseteq (1..Slots) \X {"ep0", "in", "out"}
      BY <3>4 DEF Ends
    <3>6. QED
      BY <3>1, <3>2, <3>3, <3>4, <3>5 DEF TypeOK
  <2>2. QED
    BY <2>1, PoolsCount DEF NInv, NumbersOwned
<1>4. QED
  BY <1>1, <1>2, <1>3, PTL DEF Spec

=============================================================================
