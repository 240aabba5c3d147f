-------------------------------- MODULE Xhci --------------------------------
(* The xHCI driver of the USB stack (lib/src/circle/usb/xhci*.cpp): the     *)
(* command, transfer and event rings it shares with the controller, a task  *)
(* that issues commands and blocking transfers and waits for them with a    *)
(* three second limit, and the interrupt handler that completes requests,   *)
(* and submits new ones, between any two steps of that task.                *)
(*                                                                          *)
(* Three endpoints stand for the ones in use: "ep0" (control, task only),   *)
(* "out" (commands of the gamepad: the task sends rumble modes, the handler *)
(* acknowledges mode reports) and "in" (reports, resubmitted by the         *)
(* handler).  A TRB holds the request it belongs to; ids count the requests *)
(* of a ring and are what the properties compare.                           *)
EXTENDS Integers, Sequences, FiniteSets

CONSTANTS
  VectorDelivered,   \* does the controller's interrupt reach InterruptStub?
  Trbs,              \* TRBs of each ring, the link TRB included
  EventTrbs,         \* TRBs of the event ring
  MaxEventsPerIntr,  \* XHCI_CONFIG_MAX_EVENTS_PER_INTR
  Calls, Reports     \* bounds of the model: all requests but those for reports,
                     \* and requests for reports

Endpoints == {"ep0", "out", "in"}
Rings == Endpoints \cup {"cmd"}

ASSUME XhciAssumption ==
  /\ VectorDelivered \in BOOLEAN
  /\ Trbs \in [Rings -> Nat] /\ \A r \in Rings : Trbs[r] >= 3
  /\ EventTrbs \in Nat /\ EventTrbs >= 2
  /\ MaxEventsPerIntr \in Nat \ {0}
  /\ Calls \in Nat /\ Reports \in Nat

Link(r) == Trbs[r] - 1
Index(r) == 0..Link(r)

\* TRBs of a request: SETUP and STATUS on the control endpoint.
Stages(r) == IF r = "ep0" THEN 2 ELSE 1

VARIABLES
  drv,        \* the driver's memory, see Driver
  hc,         \* the controller's side of each ring, and of the event ring
  task,       \* the task: what it is doing, on which ring, for which request
  irq,        \* the interrupt handler
  disturbed   \* history: rings whose requests may no longer match their events

vars == <<drv, hc, task, irq, disturbed>>

Running == drv.panic = "none"

-----------------------------------------------------------------------------
(* xhciring.cpp: a ring whose producer marks the TRBs it fills with its     *)
(* cycle state, and whose last TRB is a link that toggles that state.       *)

CXHCIRing(n) == [cycle |-> [i \in 0..n - 1 |-> FALSE],
                 trb   |-> [i \in 0..n - 1 |-> [id |-> 0, ioc |-> FALSE]],
                 link  |-> n - 1,
                 enq   |-> 0,
                 state |-> TRUE]

\* The test for a full ring compares the TRB's cycle bit with the producer's
\* state: only a TRB filled in this pass is "in use".
IsFull(ring) == ring.cycle[ring.enq] = ring.state

Fill(ring, i, t) == [ring EXCEPT !.cycle[i] = ring.state, !.trb[i] = t]

\* IncrementEnqueue asserts that the TRB it leaves behind has been filled.
CycleStateSet(ring) == ring.cycle[ring.enq] = ring.state

\* Fault: the link TRB sends the controller back to the first TRB, but the
\* producer goes on with its old cycle state.
KeepCycleState(ring) ==
  IF ring.enq + 1 = ring.link
  THEN [ring EXCEPT !.enq = 0, !.cycle[ring.link] = ~@]
  ELSE [ring EXCEPT !.enq = @ + 1]

IncrementEnqueue(ring) ==
  IF ring.enq + 1 = ring.link
  THEN [ring EXCEPT !.enq = 0, !.cycle[ring.link] = ~@, !.state = ~@]
  ELSE [ring EXCEPT !.enq = @ + 1]

-----------------------------------------------------------------------------
(* The driver's memory.  "panic" is the assertion that stopped the machine. *)

Driver == [ring   |-> [r \in Rings |-> CXHCIRing(Trbs[r])],
           urb    |-> [e \in Endpoints |-> <<>>],     \* m_pURB
           done   |-> [r \in Rings |-> TRUE],         \* m_bTransferCompleted, m_bCommandCompleted
           trb    |-> Link("cmd"),                    \* m_pCurrentCommandTRB (the link: none)
           answer |-> [r \in Rings |-> 0],            \* the request whose result the waiter reads
           deq    |-> 0, state |-> TRUE,              \* event ring: m_nDequeueIndex, m_nCycleState
           made   |-> [r \in Rings |-> 0],            \* requests made
           panic  |-> "none"]

Assert(d, holds, what) ==
  IF holds \/ d.panic # "none" THEN d ELSE [d EXCEPT !.panic = what]

CallLeft(d) == d.made["cmd"] + d.made["ep0"] + d.made["out"] < Calls

\* TransferAsync's first half: the request takes its place in m_pURB.
QueueRequest(d, e) ==
  LET c == Assert(d, Len(d.urb[e]) < 2, "xhciendpoint.cpp:271")
      id == d.made[e] + 1
  IN [c EXCEPT !.urb[e] = IF Len(@) < 2 THEN Append(@, id) ELSE @, !.made[e] = id]

\* EnqueueError: the request that was queued last leaves again.
EnqueueError(d, e) == [d EXCEPT !.urb[e] = SubSeq(@, 1, Len(@) - 1)]

Increment(d, r) ==
  [Assert(d, CycleStateSet(d.ring[r]), "xhciring.cpp:139") EXCEPT !.ring[r] = IncrementEnqueue(@)]

EnqueueTRB(d, e, t) ==
  IF IsFull(d.ring[e]) THEN EnqueueError(d, e)
  ELSE Increment([d EXCEPT !.ring[e] = Fill(@, @.enq, t)], e)

\* A one-stage TransferAsync as the handler makes it: nothing comes between.
TransferAsync(d, e) ==
  EnqueueTRB(QueueRequest(d, e), e, [id |-> d.made[e] + 1, ioc |-> TRUE])

-----------------------------------------------------------------------------
(* The controller (external): it reads a ring up to the first TRB whose     *)
(* cycle bit is not its own state, follows links, and posts an event for a  *)
(* completed command, for the last TRB of a transfer and for a failed one.  *)

Controller == [ring |-> [r \in Rings |-> [deq |-> 0, state |-> TRUE, halted |-> FALSE]],
               ev   |-> [cycle |-> [i \in 0..EventTrbs - 1 |-> FALSE],
                         event |-> [i \in 0..EventTrbs - 1 |-> [ring |-> "none"]],
                         enq |-> 0, state |-> TRUE, erdp |-> 0]]

Follow(r) ==
  LET c == hc.ring[r] IN
  IF c.deq = Link(r) /\ drv.ring[r].cycle[Link(r)] = c.state
  THEN [c EXCEPT !.deq = 0, !.state = ~@] ELSE c

Visible(r) ==
  LET c == Follow(r) IN c.deq # Link(r) /\ drv.ring[r].cycle[c.deq] = c.state

RoomForEvent == (hc.ev.enq + 1) % EventTrbs # hc.ev.erdp

Posted(ev, e) ==
  [ev EXCEPT !.cycle[ev.enq] = ev.state, !.event[ev.enq] = e,
             !.enq = (ev.enq + 1) % EventTrbs,
             !.state = IF ev.enq + 1 = EventTrbs THEN ~@ ELSE @]

Codes(r) == CASE r = "cmd" -> {"ok"} [] r = "in" -> {"ok", "mode", "error"} [] OTHER -> {"ok", "error"}

\* The controller works on one TRB of ring r.
Execute(r) ==
  /\ Running /\ Visible(r) /\ ~hc.ring[r].halted
  /\ LET c == Follow(r)
         t == drv.ring[r].trb[c.deq]
         next == [c EXCEPT !.deq = @ + 1]
     IN \/ /\ ~t.ioc
           /\ hc' = [hc EXCEPT !.ring[r] = next]
        \/ \E code \in Codes(r) :
             /\ t.ioc \/ code = "error"
             /\ RoomForEvent
             /\ hc' = [ring |-> [hc.ring EXCEPT ![r] = [next EXCEPT !.halted = code = "error"]],
                       ev |-> Posted(hc.ev, [ring |-> r, trb |-> c.deq, id |-> t.id, code |-> code])]
  /\ UNCHANGED <<drv, task, irq, disturbed>>

-----------------------------------------------------------------------------
(* xhcieventmanager.cpp, xhcidevice.cpp: the event ring and the handler.    *)

\* Fault: any completion ends the wait.
AnyCompletion(d, e) ==
  IF d.done["cmd"] THEN d
  ELSE [d EXCEPT !.trb = Link("cmd"), !.answer["cmd"] = e.id, !.done["cmd"] = TRUE]

\* CommandCompleted ignores an answer nobody waits for any more.
CommandCompleted(d, e) ==
  IF d.done["cmd"] \/ d.trb # e.trb THEN d
  ELSE [d EXCEPT !.trb = Link("cmd"), !.answer["cmd"] = e.id, !.done["cmd"] = TRUE]

\* CompletionRoutine of a blocking transfer.
CompletionRoutine(d, e, ev) ==
  [Assert(d, ~d.done[e], "xhciendpoint.cpp:518")
     EXCEPT !.done[e] = TRUE, !.answer[e] = ev.id]

\* ReportHandler and CompletionRoutine of a HID device: a mode report is
\* acknowledged on the OUT endpoint, and the next report is asked for unless
\* this one failed (plug and play: the device is being removed).
ReportCompleted(d, ev) ==
  IF ev.code = "error" \/ d.made["in"] >= Reports THEN d
  ELSE TransferAsync(IF ev.code = "mode" /\ CallLeft(d)
                     THEN TransferAsync(d, "out") ELSE d, "in")

\* Fault: the completed request stays at the head of m_pURB.
KeepRequest(d, ev) ==
  LET e == ev.ring IN
  IF d.urb[e] = <<>> THEN d
  ELSE IF e = "in" THEN ReportCompleted([d EXCEPT !.urb[e] = Tail(@)], ev)
  ELSE IF task.ring = e /\ task.id = Head(d.urb[e]) THEN CompletionRoutine(d, e, ev)
  ELSE d

\* TransferEvent completes the oldest request of the endpoint, whichever TRB
\* the event is about.  The task's requests on "out" are the blocking ones.
TransferEvent(d, ev) ==
  LET e == ev.ring
      shifted == [d EXCEPT !.urb[e] = Tail(@)]
  IN IF d.urb[e] = <<>> THEN d
     ELSE IF e = "in" THEN ReportCompleted(shifted, ev)
     ELSE IF task.ring = e /\ task.id = Head(d.urb[e]) THEN CompletionRoutine(shifted, e, ev)
     ELSE shifted

EventWaiting == hc.ev.cycle[drv.deq] = drv.state

\* Fault: the consumer's cycle state survives the end of the ring.
SameCycleState(d) == [d EXCEPT !.deq = (@ + 1) % EventTrbs]

IncrementDequeue(d) ==
  [d EXCEPT !.deq = (@ + 1) % EventTrbs,
            !.state = IF d.deq + 1 = EventTrbs THEN ~@ ELSE @]

HandleEvents(d) ==
  LET e == hc.ev.event[d.deq] IN
  IncrementDequeue(IF e.ring = "cmd" THEN CommandCompleted(d, e) ELSE TransferEvent(d, e))

(* The events the driver will find, oldest first: those whose cycle bit is  *)
(* its own state, or the opposite one beyond the end of the ring.           *)

Found(j) ==
  IF drv.deq + j < EventTrbs THEN hc.ev.cycle[drv.deq + j] = drv.state
  ELSE hc.ev.cycle[drv.deq + j - EventTrbs] # drv.state

Pending ==
  LET n == CHOOSE k \in 0..EventTrbs : (\A j \in 0..k - 1 : Found(j)) /\ (k = EventTrbs \/ ~Found(k))
  IN [k \in 1..n |-> hc.ev.event[(drv.deq + k - 1) % EventTrbs]]

InterruptEntry ==
  /\ VectorDelivered /\ Running /\ ~irq.on /\ hc.ev.enq # hc.ev.erdp
  /\ irq' = [on |-> TRUE, tries |-> MaxEventsPerIntr, handled |-> FALSE]
  /\ UNCHANGED <<drv, hc, task, disturbed>>

\* TRBs the controller has not read.  The ring is overrun when it fills up:
\* the link then carries the next pass's cycle bit before it was followed.
Unread(r) ==
  LET c == hc.ring[r] IN
  IF c.state = drv.ring[r].state THEN c.deq..drv.ring[r].enq - 1
  ELSE (c.deq..Link(r) - 1) \cup 0..drv.ring[r].enq - 1

Overrun(r) == IF Cardinality(Unread(r)) + 1 >= Link(r) THEN {r} ELSE {}

\* The task's submission is under way: it has queued its request and not yet
\* filled the last TRB.
Submitting(e) == task.ring = e /\ task.pc \in {"take", "fill", "step"}

InterruptEvent ==
  /\ Running /\ irq.on /\ irq.tries > 0 /\ EventWaiting
  /\ drv' = HandleEvents(drv)
  /\ irq' = [irq EXCEPT !.tries = @ - 1, !.handled = TRUE]
  /\ disturbed' = disturbed \cup
       {e \in Endpoints : drv'.made[e] # drv.made[e] /\ (Submitting(e) \/ Overrun(e) # {})}
  /\ UNCHANGED <<hc, task>>

\* Fault: everything posted so far counts as handled.
ExitAtEnd ==
  /\ Running /\ irq.on /\ (irq.tries = 0 \/ ~EventWaiting)
  /\ irq' = [on |-> FALSE, tries |-> 0, handled |-> FALSE]
  /\ hc' = [hc EXCEPT !.ev.erdp = hc.ev.enq]
  /\ UNCHANGED <<drv, task, disturbed>>

\* The dequeue pointer register is written once, after the last event.
InterruptExit ==
  /\ Running /\ irq.on /\ (irq.tries = 0 \/ ~EventWaiting)
  /\ irq' = [on |-> FALSE, tries |-> 0, handled |-> FALSE]
  /\ hc' = IF irq.handled THEN [hc EXCEPT !.ev.erdp = drv.deq] ELSE hc
  /\ UNCHANGED <<drv, task, disturbed>>

-----------------------------------------------------------------------------
(* The task.  It runs while the interrupt handler does not.                 *)

Idle == [pc |-> "idle", ring |-> "none", id |-> 0, stage |-> 0, trb |-> 0]

TaskRuns == Running /\ ~irq.on

\* The TRB is used again although the answer to its last command is unread.
Reused(trb) ==
  IF \E k \in DOMAIN Pending : Pending[k].ring = "cmd" /\ Pending[k].trb = trb THEN {"cmd"} ELSE {}

\* DoCommand up to the doorbell; the handler never touches this ring.  A full
\* ring is reported at once.
DoCommand ==
  /\ TaskRuns /\ task.pc = "idle" /\ CallLeft(drv)
  /\ LET ring == drv.ring["cmd"]
         id == drv.made["cmd"] + 1
         d == [drv EXCEPT !.made["cmd"] = id, !.trb = ring.enq, !.done["cmd"] = FALSE,
                          !.ring["cmd"] = Fill(ring, ring.enq, [id |-> id, ioc |-> TRUE])]
     IN IF IsFull(ring)
        THEN drv' = [drv EXCEPT !.made["cmd"] = id] /\ UNCHANGED task
        ELSE /\ drv' = Increment(Assert(d, drv.done["cmd"], "xhcicommandmanager.cpp:187"), "cmd")
             /\ task' = [Idle EXCEPT !.pc = "wait", !.ring = "cmd", !.id = id]
  /\ disturbed' = disturbed \cup Overrun("cmd") \cup Reused(drv.ring["cmd"].enq)
  /\ UNCHANGED <<hc, irq>>

\* Transfer and the locked part of TransferAsync.
Transfer(e) ==
  /\ TaskRuns /\ task.pc = "idle" /\ CallLeft(drv)
  /\ drv' = QueueRequest([Assert(drv, drv.done[e], "xhciendpoint.cpp:213")
                            EXCEPT !.done[e] = FALSE], e)
  /\ task' = [pc |-> "take", ring |-> e, id |-> drv.made[e] + 1, stage |-> 1, trb |-> 0]
  /\ UNCHANGED <<hc, irq, disturbed>>

\* StartRequest in Configure: the first report is asked for, without waiting.
StartRequest ==
  /\ TaskRuns /\ task.pc = "idle" /\ drv.made["in"] = 0 /\ Reports > 0
  /\ drv' = TransferAsync(drv, "in")
  /\ UNCHANGED <<hc, task, irq, disturbed>>

\* EnqueueTRB, in the three steps an interrupt can fall between.
TakeTRB ==
  /\ TaskRuns /\ task.pc = "take"
  /\ IF IsFull(drv.ring[task.ring])
     THEN drv' = EnqueueError(drv, task.ring) /\ task' = Idle
     ELSE UNCHANGED drv /\ task' = [task EXCEPT !.pc = "fill", !.trb = drv.ring[task.ring].enq]
  /\ disturbed' = disturbed \cup Overrun(task.ring)
  /\ UNCHANGED <<hc, irq>>

FillTRB ==
  /\ TaskRuns /\ task.pc = "fill"
  /\ drv' = [drv EXCEPT !.ring[task.ring] =
               Fill(@, task.trb, [id |-> task.id, ioc |-> task.stage = Stages(task.ring)])]
  /\ task' = [task EXCEPT !.pc = "step"]
  /\ UNCHANGED <<hc, irq, disturbed>>

StepTRB ==
  /\ TaskRuns /\ task.pc = "step"
  /\ drv' = Increment(drv, task.ring)
  /\ task' = IF task.stage = Stages(task.ring) THEN [task EXCEPT !.pc = "wait"]
             ELSE [task EXCEPT !.pc = "take", !.stage = @ + 1]
  /\ UNCHANGED <<hc, irq, disturbed>>

\* The wait ends with an answer ...
Answered ==
  /\ TaskRuns /\ task.pc = "wait" /\ drv.done[task.ring]
  /\ drv' = [drv EXCEPT !.answer[task.ring] = 0]
  /\ task' = Idle
  /\ UNCHANGED <<hc, irq, disturbed>>

\* ... or three seconds after it began.  The test of the flag and what
\* follows from it are two steps: an answer may come in between.
Expire ==
  /\ TaskRuns /\ task.pc = "wait" /\ ~drv.done[task.ring]
  /\ task' = [task EXCEPT !.pc = "expired"]
  /\ UNCHANGED <<drv, hc, irq, disturbed>>

\* A command is forgotten; of a transfer, whatever is first in m_pURB.
GiveUp(d, r) ==
  IF r = "cmd" THEN [d EXCEPT !.done["cmd"] = TRUE, !.trb = Link("cmd")]
  ELSE [d EXCEPT !.urb[r] = IF @ = <<>> THEN @ ELSE Tail(@), !.done[r] = TRUE]

TimedOut ==
  /\ TaskRuns /\ task.pc = "expired"
  /\ drv' = GiveUp(drv, task.ring)
  /\ task' = Idle
  /\ disturbed' = disturbed \cup ({task.ring} \ {"cmd"})
  /\ UNCHANGED <<hc, irq>>

-----------------------------------------------------------------------------
Init ==
  /\ drv = Driver
  /\ hc = Controller
  /\ task = Idle
  /\ irq = [on |-> FALSE, tries |-> 0, handled |-> FALSE]
  /\ disturbed = {}

Task == DoCommand \/ StartRequest \/ TakeTRB \/ FillTRB \/ StepTRB
        \/ Answered \/ Expire \/ TimedOut \/ \E e \in {"ep0", "out"} : Transfer(e)

Handler == InterruptEntry \/ InterruptEvent \/ InterruptExit

Next == Task \/ Handler \/ \E r \in Rings : Execute(r)

\* The processor keeps running its code; nothing is assumed of the controller.
Fairness ==
  /\ WF_vars(Handler)
  /\ WF_vars(TakeTRB \/ FillTRB \/ StepTRB \/ Answered \/ Expire \/ TimedOut)

Spec == Init /\ [][Next]_vars /\ Fairness

-----------------------------------------------------------------------------

TypeOK ==
  /\ drv.panic \in {"none", "xhciendpoint.cpp:213", "xhciendpoint.cpp:271", "xhciendpoint.cpp:518",
                    "xhciring.cpp:139", "xhcicommandmanager.cpp:187"}
  /\ \A r \in Rings : /\ drv.ring[r].enq \in 0..Link(r) - 1 /\ drv.ring[r].cycle \in [Index(r) -> BOOLEAN]
                      /\ drv.answer[r] \in 0..drv.made[r]
                      /\ hc.ring[r].deq \in Index(r)
  /\ \A e \in Endpoints : drv.urb[e] \in UNION {[1..n -> 1..drv.made[e]] : n \in 0..2}
  /\ drv.deq \in 0..EventTrbs - 1 /\ hc.ev.enq \in 0..EventTrbs - 1
  /\ task.pc \in {"idle", "take", "fill", "step", "wait", "expired"}
  /\ disturbed \subseteq Rings

EventRing == INSTANCE EventQueue WITH queue <- Pending

\* The event ring is a queue: whatever the controller posts is handled once
\* and in order, although reader and writer share only cycle bits and a
\* register that is written once per interrupt.
EventsInOrder == EventRing!Spec

\* Handling does not stop while there are events, even when more come in than
\* one interrupt handles.
EventsHandled == []<>(Pending = <<>> \/ ~Running \/ ~VectorDelivered)

\* The answer a waiting command or transfer returns with is its own.  It
\* holds of commands even after others have timed out and are answered late;
\* of a transfer, as long as none has timed out on its endpoint and no
\* interrupt has submitted a request in the middle of its submission.
AnswerIsOwn ==
  task.pc = "wait" /\ drv.done[task.ring] /\ task.ring \notin disturbed
    => drv.answer[task.ring] = task.id

\* The TRBs the controller can read, by their cycle bits alone.
Readable(r) ==
  LET c == hc.ring[r]
      cycle == drv.ring[r].cycle
  IN {i \in c.deq..Link(r) - 1 : \A j \in c.deq..i : cycle[j] = c.state}
     \cup {i \in 0..c.deq - 1 : /\ \A j \in c.deq..Link(r) : cycle[j] = c.state
                                /\ \A j \in 0..i : cycle[j] # c.state}

\* Requests of an endpoint on their way: posted, in the ring, being filled in.
InFlight(e) ==
  {Pending[k].id : k \in {k \in DOMAIN Pending : Pending[k].ring = e}}
  \cup {drv.ring[e].trb[i].id : i \in Readable(e)}
  \cup (IF Submitting(e) /\ (task.pc # "step" \/ task.stage < Stages(e)) THEN {task.id} ELSE {})

\* m_pURB holds exactly the requests on their way, in the order in which the
\* controller will complete them: the driver attributes events by their
\* endpoint alone, so everything rests on this.  It ends with a time-out, a
\* submission from an interrupt within the task's, or a failed transfer.
QueueMatchesRing ==
  /\ TypeOK
  /\ \A e \in Endpoints : e \notin disturbed /\ ~hc.ring[e].halted /\ Running =>
       /\ {drv.urb[e][k] : k \in DOMAIN drv.urb[e]} = InFlight(e)
       /\ Len(drv.urb[e]) = 2 => drv.urb[e][1] < drv.urb[e][2]

=============================================================================
