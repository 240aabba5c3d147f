----------------------------- MODULE XhciProofs -----------------------------
(***************************************************************************)
(* Proofs about Xhci, for every size of the rings and any number of        *)
(* requests.                                                               *)
(*                                                                         *)
(* The controller and the driver share the event ring without ever telling *)
(* each other where they are: the controller fills TRBs with its cycle     *)
(* state, the driver takes TRBs that have its own, and only ERDP, written  *)
(* once per interrupt, keeps the one from overtaking the other.  EInv says *)
(* what the bits mean (CycleBits) and in which order ERDP, the driver and  *)
(* the controller go round the ring (Laps).  It follows what the driver    *)
(* will find, and that this is a queue.                                    *)
(*                                                                         *)
(* RInv accounts for every request on top of that.  A request of an        *)
(* endpoint is in m_pURB, and it is either in an event that is pending, in *)
(* TRBs that the controller has yet to read, or in TRBs that the task has  *)
(* yet to fill, in this order (Tracks): this is why TransferEvent may      *)
(* complete the oldest of m_pURB, whichever TRB the event is about.  The   *)
(* task's own progress between two interrupts is part of it: how many TRBs *)
(* of its request are filled, taken and missing.  Commands are told apart  *)
(* by the TRB (OwnCommand).                                                *)
(***************************************************************************)
EXTENDS Xhci, FiniteSetTheorems, TLAPS

\* The TRBs of the event ring.
Slots == 0..(EventTrbs - 1)

\* What the proof needs to know of the shapes of `drv` and `hc`.
Shapes ==
  /\ {"ring", "urb", "done", "trb", "answer", "deq", "state", "made", "panic"} = DOMAIN drv
  /\ drv.deq \in Slots /\ drv.state \in BOOLEAN
  /\ hc = [ring |-> hc.ring, ev |-> hc.ev]
  /\ hc.ev \in [cycle : [Slots -> BOOLEAN], event : [Slots -> UNION {{hc.ev.event[i]} : i \in Slots}],
                enq : Slots, state : BOOLEAN, erdp : Slots]

\* The TRBs that the controller has filled in this lap have its cycle state,
\* the others have the opposite one.
CycleBits ==
  \A i \in Slots : hc.ev.cycle[i] = IF i < hc.ev.enq THEN hc.ev.state ELSE ~hc.ev.state

\* The driver follows the controller, the register ERDP follows the driver,
\* and the controller stays behind ERDP.
Laps ==
  \/ hc.ev.erdp <= drv.deq /\ drv.deq <= hc.ev.enq /\ drv.state = hc.ev.state
  \/ drv.deq <= hc.ev.enq /\ hc.ev.enq < hc.ev.erdp /\ drv.state = hc.ev.state
  \/ hc.ev.enq < hc.ev.erdp /\ hc.ev.erdp <= drv.deq /\ drv.state = ~hc.ev.state

\* The inductive invariant.
EInv == Shapes /\ CycleBits /\ Laps

\* How many events are posted and not yet handled.
Outstanding == IF drv.deq <= hc.ev.enq THEN hc.ev.enq - drv.deq
               ELSE EventTrbs - drv.deq + hc.ev.enq

-----------------------------------------------------------------------------
(* What the driver will find in the event ring. *)

\* The events that GetDequeueTRB will yield are those between m_nDequeueIndex and
\* the controller's position, and there is always a TRB between the two laps.
LEMMA PendingIs ==
  ASSUME EInv
  PROVE  /\ Outstanding \in 0..(EventTrbs - 1)
         /\ Pending = [k \in 1..Outstanding |-> hc.ev.event[(drv.deq + k - 1) % EventTrbs]]
<1> USE DEF EInv
<1>1. /\ EventTrbs \in Nat /\ EventTrbs >= 2 /\ drv.deq \in Slots /\ hc.ev.enq \in Slots
      /\ drv.state \in BOOLEAN /\ hc.ev.state \in BOOLEAN /\ hc.ev.erdp \in Slots
  BY XhciAssumption DEF Shapes
<1>2. Outstanding \in 0..(EventTrbs - 1)
  BY <1>1 DEF Outstanding, Slots
<1>3. ASSUME NEW j \in 0..(Outstanding - 1) PROVE Found(j)
  <2>1. CASE drv.deq <= hc.ev.enq
    <3>1. drv.deq + j \in Slots /\ drv.deq + j < hc.ev.enq /\ drv.deq + j < EventTrbs
      BY <1>1, <2>1 DEF Outstanding, Slots
    <3>2. drv.state = hc.ev.state
      BY <1>1, <2>1 DEF Laps, Slots
    <3>3. hc.ev.cycle[drv.deq + j] = hc.ev.state
      BY <3>1 DEF CycleBits
    <3>4. QED
      BY <3>1, <3>2, <3>3 DEF Found
  <2>2. CASE ~(drv.deq <= hc.ev.enq)
    <3>1. drv.state = ~hc.ev.state
      BY <1>1, <2>2 DEF Laps, Slots
    <3>2. CASE drv.deq + j < EventTrbs
      <4>1. drv.deq + j \in Slots /\ ~(drv.deq + j < hc.ev.enq)
        BY <1>1, <2>2, <3>2 DEF Outstanding, Slots
      <4>2. hc.ev.cycle[drv.deq + j] = ~hc.ev.state
        BY <4>1 DEF CycleBits
      <4>3. QED
        BY <3>1, <3>2, <4>2 DEF Found
    <3>3. CASE ~(drv.deq + j < EventTrbs)
      <4>1. drv.deq + j - EventTrbs \in Slots /\ drv.deq + j - EventTrbs < hc.ev.enq
        BY <1>1, <2>2, <3>3 DEF Outstanding, Slots
      <4>2. hc.ev.cycle[drv.deq + j - EventTrbs] = hc.ev.state
        BY <4>1 DEF CycleBits
      <4>3. drv.state # hc.ev.state
        BY <1>1, <3>1
      <4>4. QED
        BY <3>3, <4>2, <4>3 DEF Found
    <3>4. QED
      BY <3>2, <3>3
  <2>3. QED
    BY <2>1, <2>2
<1>4. ~Found(Outstanding)
  <2>1. CASE drv.deq <= hc.ev.enq
    <3>1. drv.deq + Outstanding = hc.ev.enq /\ hc.ev.enq < EventTrbs
      BY <1>1, <2>1 DEF Outstanding, Slots
    <3>2. hc.ev.cycle[hc.ev.enq] = ~hc.ev.state
      BY <1>1 DEF CycleBits, Slots
    <3>3. drv.state = hc.ev.state
      BY <1>1, <2>1 DEF Laps, Slots
    <3>4. QED
      BY <1>1, <3>1, <3>2, <3>3 DEF Found
  <2>2. CASE ~(drv.deq <= hc.ev.enq)
    <3>1. ~(drv.deq + Outstanding < EventTrbs) /\ drv.deq + Outstanding - EventTrbs = hc.ev.enq
      BY <1>1, <2>2 DEF Outstanding, Slots
    <3>2. hc.ev.cycle[hc.ev.enq] = ~hc.ev.state
      BY <1>1 DEF CycleBits, Slots
    <3>3. drv.state = ~hc.ev.state
      BY <1>1, <2>2 DEF Laps, Slots
    <3>4. QED
      BY <1>1, <3>1, <3>2, <3>3 DEF Found
  <2>3. QED
    BY <2>1, <2>2
<1>5. ASSUME NEW k \in 0..EventTrbs,
             (\A j \in 0..k - 1 : Found(j)) /\ (k = EventTrbs \/ ~Found(k))
      PROVE  k = Outstanding
  <2>1. ~(k > Outstanding)
    BY <1>2, <1>4, <1>5
  <2>2. ~(k < Outstanding)
    BY <1>1, <1>2, <1>3, <1>5
  <2>3. QED
    BY <1>1, <1>2, <2>1, <2>2
<1>6. (\A j \in 0..Outstanding - 1 : Found(j)) /\ (Outstanding = EventTrbs \/ ~Found(Outstanding))
  BY <1>3, <1>4
<1>7. (CHOOSE k \in 0..EventTrbs : (\A j \in 0..k - 1 : Found(j)) /\ (k = EventTrbs \/ ~Found(k)))
        = Outstanding
  <2>1. Outstanding \in 0..EventTrbs
    BY <1>1, <1>2
  <2>2. QED
    BY <1>5, <1>6, <2>1
<1>8. QED
  BY <1>2, <1>7 DEF Pending

\* The fields of `drv`.
Fields == {"ring", "urb", "done", "trb", "answer", "deq", "state", "made", "panic"}

\* c is d but for what has nothing to do with the event ring.
SameReader(d, c) == DOMAIN c = Fields /\ c.deq = d.deq /\ c.state = d.state

-----------------------------------------------------------------------------
(* What touches the event ring, and what does not. *)

\* An assertion does not touch the event ring.
LEMMA AssertKeeps ==
  ASSUME NEW d, DOMAIN d = Fields, NEW holds, NEW what
  PROVE  SameReader(d, Assert(d, holds, what))
BY DEF SameReader, Assert, Fields

\* What does not touch the event ring twice does not touch it.
LEMMA SameAgain ==
  ASSUME NEW d, NEW c, NEW b, SameReader(d, c), SameReader(c, b)
  PROVE  SameReader(d, b)
BY DEF SameReader

\* Queueing a request does not touch the event ring.
LEMMA QueueRequestKeeps ==
  ASSUME NEW d, DOMAIN d = Fields, NEW e
  PROVE  SameReader(d, QueueRequest(d, e))
<1> DEFINE c == Assert(d, Len(d.urb[e]) < 2, "xhciendpoint.cpp:271")
<1>1. SameReader(d, c)
  BY AssertKeeps
<1>2. QueueRequest(d, e) = [c EXCEPT !.urb[e] = IF Len(@) < 2 THEN Append(@, d.made[e] + 1) ELSE @,
                                     !.made[e] = d.made[e] + 1]
  BY DEF QueueRequest
<1>3. QED
  BY <1>1, <1>2 DEF SameReader, Fields

\* Stepping another ring does not touch the event ring.
LEMMA IncrementKeeps ==
  ASSUME NEW d, DOMAIN d = Fields, NEW r
  PROVE  SameReader(d, Increment(d, r))
<1> DEFINE c == Assert(d, CycleStateSet(d.ring[r]), "xhciring.cpp:139")
<1>1. SameReader(d, c)
  BY AssertKeeps
<1>2. Increment(d, r) = [c EXCEPT !.ring[r] = IncrementEnqueue(@)]
  BY DEF Increment
<1>3. QED
  BY <1>1, <1>2 DEF SameReader, Fields

\* EnqueueTRB does not touch the event ring.
LEMMA EnqueueTRBKeeps ==
  ASSUME NEW d, DOMAIN d = Fields, NEW e, NEW t
  PROVE  SameReader(d, EnqueueTRB(d, e, t))
<1>1. CASE IsFull(d.ring[e])
  BY <1>1 DEF EnqueueTRB, EnqueueError, SameReader, Fields
<1>2. CASE ~IsFull(d.ring[e])
  <2> DEFINE c == [d EXCEPT !.ring[e] = Fill(@, @.enq, t)]
  <2>1. SameReader(d, c)
    BY DEF SameReader, Fields
  <2>2. SameReader(c, Increment(c, e))
    BY <2>1, IncrementKeeps DEF SameReader
  <2>3. QED
    BY <1>2, <2>1, <2>2, SameAgain DEF EnqueueTRB
<1>3. QED
  BY <1>1, <1>2

\* TransferAsync does not touch the event ring.
LEMMA TransferAsyncKeeps ==
  ASSUME NEW d, DOMAIN d = Fields, NEW e
  PROVE  SameReader(d, TransferAsync(d, e))
<1> DEFINE c == QueueRequest(d, e)
<1>1. SameReader(d, c)
  BY QueueRequestKeeps
<1>2. SameReader(c, TransferAsync(d, e))
  BY <1>1, EnqueueTRBKeeps DEF TransferAsync, SameReader
<1>3. QED
  BY <1>1, <1>2, SameAgain

\* The completion of a report does not touch the event ring.
LEMMA ReportCompletedKeeps ==
  ASSUME NEW d, DOMAIN d = Fields, NEW ev
  PROVE  SameReader(d, ReportCompleted(d, ev))
<1> DEFINE c == IF ev.code = "mode" /\ CallLeft(d) THEN TransferAsync(d, "out") ELSE d
<1>1. SameReader(d, d)
  BY DEF SameReader
<1>2. SameReader(d, c)
  BY <1>1, TransferAsyncKeeps
<1>3. SameReader(c, TransferAsync(c, "in"))
  BY <1>2, TransferAsyncKeeps DEF SameReader
<1>4. QED
  BY <1>1, <1>2, <1>3, SameAgain DEF ReportCompleted

\* TransferEvent does not touch the event ring.
LEMMA TransferEventKeeps ==
  ASSUME NEW d, DOMAIN d = Fields, NEW ev
  PROVE  SameReader(d, TransferEvent(d, ev))
<1> DEFINE e == ev.ring
<1> DEFINE shifted == [d EXCEPT !.urb[e] = Tail(@)]
<1>1. SameReader(d, shifted) /\ SameReader(d, d)
  BY DEF SameReader, Fields
<1>2. SameReader(shifted, ReportCompleted(shifted, ev))
  BY <1>1, ReportCompletedKeeps DEF SameReader
<1>3. SameReader(shifted, CompletionRoutine(shifted, e, ev))
  <2> DEFINE c == Assert(shifted, ~shifted.done[e], "xhciendpoint.cpp:518")
  <2>1. SameReader(shifted, c)
    <3>1. DOMAIN shifted = Fields
      BY <1>1 DEF SameReader
    <3>2. QED
      BY <3>1, AssertKeeps
  <2>2. CompletionRoutine(shifted, e, ev) = [c EXCEPT !.done[e] = TRUE, !.answer[e] = ev.id]
    BY DEF CompletionRoutine
  <2>3. QED
    BY <2>1, <2>2 DEF SameReader, Fields
<1>4. QED
  BY <1>1, <1>2, <1>3, SameAgain DEF TransferEvent

\* HandleEvents steps over one event and toggles the cycle state at the end of the ring.
LEMMA HandleEventsMoves ==
  ASSUME NEW d, DOMAIN d = Fields
  PROVE  /\ DOMAIN HandleEvents(d) = Fields
         /\ HandleEvents(d).deq = (d.deq + 1) % EventTrbs
         /\ HandleEvents(d).state = IF d.deq + 1 = EventTrbs THEN ~d.state ELSE d.state
<1> DEFINE e == hc.ev.event[d.deq]
<1> DEFINE c == IF e.ring = "cmd" THEN CommandCompleted(d, e) ELSE TransferEvent(d, e)
<1>1. SameReader(d, CommandCompleted(d, e))
  BY DEF SameReader, Fields, CommandCompleted
<1>2. SameReader(d, c)
  BY <1>1, TransferEventKeeps
<1>3. HandleEvents(d) = IncrementDequeue(c)
  BY DEF HandleEvents
<1>4. DOMAIN c = Fields /\ c.deq = d.deq /\ c.state = d.state
  BY <1>2 DEF SameReader
<1> HIDE DEF c
<1>5. DOMAIN IncrementDequeue(c) = Fields
  BY <1>4 DEF IncrementDequeue
<1>6. IncrementDequeue(c).deq = (d.deq + 1) % EventTrbs
  BY <1>4 DEF IncrementDequeue, Fields
<1>7. IncrementDequeue(c).state = IF d.deq + 1 = EventTrbs THEN ~d.state ELSE d.state
  BY <1>4 DEF IncrementDequeue, Fields
<1>8. QED
  BY <1>3, <1>5, <1>6, <1>7

\* A time-out does not touch the event ring.
LEMMA GiveUpKeeps ==
  ASSUME NEW d, DOMAIN d = Fields, NEW r
  PROVE  SameReader(d, GiveUp(d, r))
BY DEF GiveUp, SameReader, Fields

\* The task touches neither the event ring nor the controller.
LEMMA TaskReads ==
  ASSUME DOMAIN drv = Fields, Task
  PROVE  SameReader(drv, drv') /\ hc' = hc
<1>1. ASSUME DoCommand PROVE SameReader(drv, drv') /\ hc' = hc
  <2> DEFINE ring == drv.ring["cmd"]
  <2> DEFINE id == drv.made["cmd"] + 1
  <2> DEFINE d == [drv EXCEPT !.made["cmd"] = id, !.trb = ring.enq, !.done["cmd"] = FALSE,
                          !.ring["cmd"] = Fill(ring, ring.enq, [id |-> id, ioc |-> TRUE])]
  <2> DEFINE c == Assert(d, drv.done["cmd"], "xhcicommandmanager.cpp:187")
  <2>1. SameReader(drv, d)
    BY DEF SameReader, Fields
  <2>2. SameReader(d, c)
    <3>1. DOMAIN d = Fields
      BY <2>1 DEF SameReader
    <3> HIDE DEF d
    <3>2. QED
      BY <3>1, AssertKeeps
  <2>3. SameReader(c, Increment(c, "cmd"))
    BY <2>2, IncrementKeeps DEF SameReader
  <2>4. SameReader(drv, Increment(c, "cmd"))
    BY <2>1, <2>2, <2>3, SameAgain
  <2>5. SameReader(drv, [drv EXCEPT !.made["cmd"] = id])
    BY DEF SameReader, Fields
  <2>6. drv' = Increment(c, "cmd") \/ drv' = [drv EXCEPT !.made["cmd"] = id]
    BY <1>1 DEF DoCommand
  <2>7. QED
    BY <1>1, <2>4, <2>5, <2>6 DEF DoCommand
<1>2. ASSUME StartRequest PROVE SameReader(drv, drv') /\ hc' = hc
  BY <1>2, TransferAsyncKeeps DEF StartRequest
<1>3. ASSUME TakeTRB \/ FillTRB \/ Answered \/ Expire PROVE SameReader(drv, drv') /\ hc' = hc
  BY <1>3 DEF TakeTRB, FillTRB, Answered, Expire, EnqueueError, SameReader, Fields
<1>4. ASSUME StepTRB PROVE SameReader(drv, drv') /\ hc' = hc
  BY <1>4, IncrementKeeps DEF StepTRB
<1>5. ASSUME TimedOut PROVE SameReader(drv, drv') /\ hc' = hc
  BY <1>5, GiveUpKeeps DEF TimedOut
<1>6. ASSUME NEW e \in {"ep0", "out"}, Transfer(e) PROVE SameReader(drv, drv') /\ hc' = hc
  <2> DEFINE c == Assert(drv, drv.done[e], "xhciendpoint.cpp:213")
  <2> DEFINE d == [c EXCEPT !.done[e] = FALSE]
  <2>1. SameReader(drv, c)
    BY AssertKeeps
  <2>2. SameReader(drv, d)
    BY <2>1 DEF SameReader, Fields
  <2>3. SameReader(d, QueueRequest(d, e))
    BY <2>2, QueueRequestKeeps DEF SameReader
  <2>4. drv' = QueueRequest(d, e) /\ hc' = hc
    BY <1>6 DEF Transfer
  <2>5. QED
    BY <2>2, <2>3, <2>4, SameAgain
<1>7. QED
  BY <1>1, <1>2, <1>3, <1>4, <1>5, <1>6 DEF Task

-----------------------------------------------------------------------------
(* The steps. *)

\* What the invariant says of the types of `drv` and `hc`.
LEMMA Typed ==
  ASSUME EInv
  PROVE  /\ EventTrbs \in Nat /\ EventTrbs >= 2 /\ DOMAIN drv = Fields
         /\ drv.deq \in Slots /\ drv.state \in BOOLEAN
         /\ hc.ev.enq \in Slots /\ hc.ev.state \in BOOLEAN /\ hc.ev.erdp \in Slots
         /\ hc = [ring |-> hc.ring, ev |-> hc.ev]
         /\ hc.ev = [cycle |-> hc.ev.cycle, event |-> hc.ev.event, enq |-> hc.ev.enq,
                     state |-> hc.ev.state, erdp |-> hc.ev.erdp]
         /\ hc.ev.cycle \in [Slots -> BOOLEAN] /\ DOMAIN hc.ev.event = Slots
BY XhciAssumption DEF EInv, Shapes, Fields

\* The same of their numbers.
LEMMA Numbers ==
  ASSUME EInv
  PROVE  /\ EventTrbs \in Nat \ {0} /\ EventTrbs >= 2
         /\ drv.deq \in Nat /\ drv.deq < EventTrbs /\ drv.state \in BOOLEAN
         /\ hc.ev.enq \in Nat /\ hc.ev.enq < EventTrbs /\ hc.ev.state \in BOOLEAN
         /\ hc.ev.erdp \in Nat /\ hc.ev.erdp < EventTrbs
BY Typed DEF Slots

\* PendingIs as a state predicate.
PendingExact ==
  /\ Outstanding \in 0..(EventTrbs - 1)
  /\ Pending = [k \in 1..Outstanding |-> hc.ev.event[(drv.deq + k - 1) % EventTrbs]]

\* PendingIs, for the state before a step and the one after it.
LEMMA PendingIsExact == EInv => PendingExact
BY PendingIs DEF PendingExact

\* A step that leaves the event ring alone leaves the queue alone.
LEMMA SameEvents ==
  ASSUME EInv, SameReader(drv, drv'), hc'.ev = hc.ev, hc' = [ring |-> hc'.ring, ev |-> hc'.ev]
  PROVE  EInv' /\ Pending' = Pending
<1>1. Shapes'
  BY DEF EInv, Shapes, SameReader, Fields
<1>2. drv'.deq = drv.deq /\ drv'.state = drv.state
  BY DEF SameReader
<1>3. CycleBits' /\ Laps'
  BY <1>2 DEF EInv, CycleBits, Laps
<1>4. EInv'
  BY <1>1, <1>3 DEF EInv
<1>5. PendingExact'
  BY <1>4, PendingIsExact, PTL
<1>6. Pending' = Pending
  <2>1. Outstanding' = Outstanding
    BY <1>2 DEF Outstanding
  <2>2. Pending' = [k \in 1..Outstanding' |-> hc'.ev.event[(drv'.deq + k - 1) % EventTrbs]]
    BY <1>5 DEF PendingExact
  <2>3. QED
    BY <1>2, <2>1, <2>2, PendingIs
<1>7. QED
  BY <1>4, <1>6

\* The successor and the residue of an index of a ring.
LEMMA Wraps ==
  ASSUME NEW n \in Nat \ {0}, NEW i \in Nat, i < n
  PROVE  /\ (i + 1) % n = IF i + 1 = n THEN 0 ELSE i + 1
         /\ i % n = i
         /\ (i + n) % n = i
<1>1. n % n = 0
  OBVIOUS
<1>2. QED
  BY <1>1

\* The residue of a number below twice the size of a ring.
LEMMA WrapsOnce ==
  ASSUME NEW n \in Nat \ {0}, NEW i \in Nat, i < n + n
  PROVE  i % n = IF i < n THEN i ELSE i - n
<1>1. CASE i < n
  BY <1>1
<1>2. CASE ~(i < n)
  <2>1. PICK m \in Nat : m < n /\ m = i - n
    BY <1>2
  <2>2. (m + n) % n = m
    BY <2>1, Wraps
  <2>3. m + n = i
    BY <2>1
  <2>4. QED
    BY <1>2, <2>1, <2>2, <2>3
<1>3. QED
  BY <1>1, <1>2

\* The controller posts an event where the driver has room for it: it comes last.
LEMMA PostKeeps ==
  ASSUME EInv, NEW e, RoomForEvent, drv' = drv,
         hc' = [ring |-> hc'.ring, ev |-> Posted(hc.ev, e)]
  PROVE  EInv' /\ EventRing!Post
<1> DEFINE enq == hc.ev.enq
<1>1. (enq + 1) % EventTrbs = IF enq + 1 = EventTrbs THEN 0 ELSE enq + 1
  BY Numbers, Wraps
<1>2. hc'.ev = [cycle |-> [hc.ev.cycle EXCEPT ![enq] = hc.ev.state],
                 event |-> [hc.ev.event EXCEPT ![enq] = e],
                 enq |-> (enq + 1) % EventTrbs,
                 state |-> IF enq + 1 = EventTrbs THEN ~hc.ev.state ELSE hc.ev.state,
                 erdp |-> hc.ev.erdp]
  <2>1. hc'.ev = Posted(hc.ev, e)
    OBVIOUS
  <2>2. QED
    BY <2>1, Typed DEF Posted
<1>3. /\ hc'.ev.enq = (enq + 1) % EventTrbs
      /\ hc'.ev.state = IF enq + 1 = EventTrbs THEN ~hc.ev.state ELSE hc.ev.state
      /\ hc'.ev.erdp = hc.ev.erdp
  BY <1>2
<1>4. /\ hc'.ev.cycle = [hc.ev.cycle EXCEPT ![enq] = hc.ev.state]
      /\ hc'.ev.event = [hc.ev.event EXCEPT ![enq] = e]
  BY <1>2
<1>5. /\ hc'.ev = [cycle |-> hc'.ev.cycle, event |-> hc'.ev.event, enq |-> hc'.ev.enq,
                   state |-> hc'.ev.state, erdp |-> hc'.ev.erdp]
      /\ hc' = [ring |-> hc'.ring, ev |-> hc'.ev]
  <2>1. hc'.ev = Posted(hc.ev, e)
    OBVIOUS
  <2>2. QED
    BY <1>2, <2>1
<1>6. /\ hc'.ev.enq = IF enq + 1 = EventTrbs THEN 0 ELSE enq + 1
      /\ hc'.ev.enq \in Nat /\ hc'.ev.enq < EventTrbs /\ hc'.ev.state \in BOOLEAN
      /\ hc'.ev.enq # hc.ev.erdp
  <2>1. hc'.ev.enq = IF enq + 1 = EventTrbs THEN 0 ELSE enq + 1
    BY <1>1, <1>3
  <2>2. hc'.ev.enq \in Nat /\ hc'.ev.enq < EventTrbs
    BY <2>1, Numbers
  <2>3. hc'.ev.state \in BOOLEAN
    BY <1>3, Numbers
  <2>4. hc'.ev.enq # hc.ev.erdp
    BY <1>3 DEF RoomForEvent
  <2>5. QED
    BY <2>1, <2>2, <2>3, <2>4
<1>7. Shapes'
  <2>1. hc'.ev.cycle \in [Slots -> BOOLEAN]
    BY <1>4, Typed
  <2>2. DOMAIN hc'.ev.event = Slots
    BY <1>4, Typed
  <2>3. hc'.ev.event \in [Slots -> UNION {{hc'.ev.event[i]} : i \in Slots}]
    <3>1. hc'.ev.event = [i \in Slots |-> hc'.ev.event[i]]
      BY <1>4, <2>2, Typed
    <3>2. QED
      BY <3>1
  <2>4. hc'.ev.enq \in Slots /\ hc'.ev.state \in BOOLEAN /\ hc'.ev.erdp \in Slots
    BY <1>3, <1>6, Numbers DEF Slots
  <2>5. QED
    BY <1>5, <2>1, <2>3, <2>4 DEF EInv, Shapes
<1>8. CycleBits'
  <2> SUFFICES ASSUME NEW i \in Slots
               PROVE  hc'.ev.cycle[i] = IF i < hc'.ev.enq THEN hc'.ev.state ELSE ~hc'.ev.state
    BY DEF CycleBits
  <2>1. hc'.ev.cycle[i] = IF i < enq + 1 THEN hc.ev.state ELSE ~hc.ev.state
    BY <1>4, Typed, Numbers DEF EInv, CycleBits, Slots
  <2>2. CASE enq + 1 = EventTrbs
    <3>1. hc'.ev.state = ~hc.ev.state /\ hc'.ev.enq = 0
      BY <1>3, <1>6, <2>2
    <3>2. i < enq + 1 /\ ~(i < 0)
      BY <2>2, Numbers DEF Slots
    <3>3. hc'.ev.cycle[i] = hc.ev.state
      BY <2>1, <3>2
    <3>4. hc.ev.state = ~hc'.ev.state
      BY <3>1, Numbers
    <3>5. QED
      BY <3>1, <3>2, <3>3, <3>4
  <2>3. CASE enq + 1 # EventTrbs
    BY <1>3, <1>6, <2>1, <2>3, Numbers DEF Slots
  <2>4. QED
    BY <2>2, <2>3
<1>9. Laps' /\ Outstanding' = Outstanding + 1
  <2>1. CASE enq + 1 = EventTrbs
    <3>1. hc.ev.state = ~hc'.ev.state
      BY <1>3, <2>1, Numbers
    <3>2. /\ hc'.ev.enq = 0 /\ hc.ev.erdp > 0
          /\ hc.ev.erdp <= drv.deq /\ drv.deq <= enq /\ drv.state = hc.ev.state
      BY <1>6, <2>1, Numbers DEF EInv, Laps
    <3>3. Laps'
      BY <1>3, <3>1, <3>2 DEF Laps
    <3>4. Outstanding' = Outstanding + 1
      BY <2>1, <3>2, Numbers DEF Outstanding
    <3>5. QED
      BY <3>3, <3>4
  <2>2. CASE enq + 1 # EventTrbs
    BY <1>3, <1>6, <2>2, Numbers DEF EInv, Laps, Outstanding
  <2>3. QED
    BY <2>1, <2>2
<1>10. EInv'
  BY <1>7, <1>8, <1>9 DEF EInv
<1>11. PendingExact'
  BY <1>10, PendingIsExact, PTL
<1>12. EventRing!Post
  <2>1. Pending' = [k \in 1..Outstanding' |-> hc'.ev.event[(drv.deq + k - 1) % EventTrbs]]
    BY <1>3, <1>11 DEF PendingExact
  <2>2. Pending = [k \in 1..Outstanding |-> hc.ev.event[(drv.deq + k - 1) % EventTrbs]]
    BY PendingIs
  <2>3. Outstanding \in Nat /\ Outstanding < EventTrbs
    BY PendingIs, Numbers
  <2>4. Len(Pending) = Outstanding /\ Len(Pending') = Outstanding + 1
    BY <1>9, <2>1, <2>2, <2>3
  <2>5. \A k \in 1..Outstanding : Pending'[k] = Pending[k]
    <3> SUFFICES ASSUME NEW k \in 1..Outstanding PROVE Pending'[k] = Pending[k]
      OBVIOUS
    <3> DEFINE j == (drv.deq + k - 1) % EventTrbs
    <3>1. j \in Slots /\ j # enq
      <4>1. drv.deq + k - 1 \in Nat /\ drv.deq + k - 1 < EventTrbs + EventTrbs
        BY <2>3, Numbers DEF Slots
      <4>2. j = IF drv.deq + k - 1 < EventTrbs THEN drv.deq + k - 1 ELSE drv.deq + k - 1 - EventTrbs
        BY <4>1, WrapsOnce, Numbers
      <4>3. j \in Slots
        BY <4>1, <4>2, Numbers DEF Slots
      <4>4. j # enq
        BY <2>3, <4>1, <4>2, Numbers DEF Outstanding
      <4>5. QED
        BY <4>3, <4>4
    <3>2. hc'.ev.event[j] = hc.ev.event[j]
      BY <1>4, <3>1, Typed
    <3>3. QED
      BY <1>9, <2>1, <2>2, <2>3, <3>2
  <2>6. SubSeq(Pending', 1, Outstanding) = [k \in 1..Outstanding |-> Pending'[k]]
    BY <2>3
  <2>7. Pending = [k \in 1..Outstanding |-> Pending[k]]
    BY <2>2
  <2>8. SubSeq(Pending', 1, Outstanding) = Pending
    BY <2>5, <2>6, <2>7
  <2>9. QED
    BY <2>4, <2>8 DEF EventRing!Post
<1>13. QED
  BY <1>10, <1>12

\* HandleEvents takes the oldest event.
LEMMA HandleKeeps ==
  ASSUME EInv, InterruptEvent
  PROVE  EInv' /\ EventRing!Handle
<1>1. /\ drv'.deq = IF drv.deq + 1 = EventTrbs THEN 0 ELSE drv.deq + 1
      /\ drv'.state = IF drv.deq + 1 = EventTrbs THEN ~drv.state ELSE drv.state
      /\ DOMAIN drv' = Fields /\ hc' = hc
  BY HandleEventsMoves, Wraps, Numbers, Typed DEF InterruptEvent, Slots
<1>2. drv.deq # hc.ev.enq
  BY Typed DEF InterruptEvent, EventWaiting, EInv, CycleBits, Laps, Slots
<1>3. Shapes'
  <2>1. drv'.deq \in Slots /\ drv'.state \in BOOLEAN
    <3>1. drv'.state \in BOOLEAN
      BY <1>1, Numbers
    <3>2. drv'.deq \in Slots
      BY <1>1, Numbers DEF Slots
    <3>3. QED
      BY <3>1, <3>2
  <2>2. QED
    BY <1>1, <2>1 DEF EInv, Shapes, Fields
<1>4. Laps' /\ Outstanding = Outstanding' + 1
  <2>1. CASE drv.deq + 1 = EventTrbs
    BY <1>1, <1>2, <2>1, Numbers DEF EInv, Laps, Outstanding
  <2>2. CASE drv.deq + 1 # EventTrbs
    BY <1>1, <1>2, <2>2, Numbers DEF EInv, Laps, Outstanding
  <2>3. QED
    BY <2>1, <2>2
<1>5. EInv'
  BY <1>1, <1>3, <1>4 DEF EInv, CycleBits
<1>6. PendingExact'
  BY <1>5, PendingIsExact, PTL
<1>7. EventRing!Handle
  <2>1. Pending' = [k \in 1..Outstanding' |-> hc.ev.event[(drv'.deq + k - 1) % EventTrbs]]
    BY <1>1, <1>6 DEF PendingExact
  <2>2. Pending = [k \in 1..Outstanding |-> hc.ev.event[(drv.deq + k - 1) % EventTrbs]]
    BY PendingIs
  <2>3. Outstanding' \in Nat /\ Outstanding' + 1 < EventTrbs
    BY <1>4, <1>6, Numbers, PendingIs DEF PendingExact
  <2> DEFINE m == Outstanding'
  <2>4. m \in Nat /\ Outstanding = m + 1 /\ m + 1 < EventTrbs
    BY <1>4, <2>3
  <2>5. Pending' = [k \in 1..m |-> hc.ev.event[(drv'.deq + k - 1) % EventTrbs]]
    BY <2>1
  <2> HIDE DEF m
  <2>6. Pending # <<>> /\ Tail(Pending) = [k \in 1..m |-> Pending[k + 1]]
    <3>1. Pending = [k \in 1..(m + 1) |-> hc.ev.event[(drv.deq + k - 1) % EventTrbs]]
      BY <2>2, <2>4
    <3>2. Len(Pending) = m + 1
      BY <2>4, <3>1
    <3>3. QED
      BY <2>4, <3>1, <3>2
  <2>7. ASSUME NEW k \in 1..m
        PROVE  (drv.deq + k) % EventTrbs = (drv'.deq + k - 1) % EventTrbs
    <3> DEFINE a == drv.deq + k
    <3> DEFINE b == drv'.deq + k - 1
    <3>1. /\ a \in Nat /\ a < EventTrbs + EventTrbs
          /\ b \in Nat /\ b < EventTrbs + EventTrbs
      BY <1>1, <2>4, Numbers
    <3>2. a - b = IF drv.deq + 1 = EventTrbs THEN EventTrbs ELSE 0
      BY <1>1, Numbers
    <3>3. drv.deq + 1 = EventTrbs => a >= EventTrbs /\ b < EventTrbs
      BY <1>1, <2>4, Numbers
    <3> HIDE DEF a, b
    <3>4. a % EventTrbs = IF a < EventTrbs THEN a ELSE a - EventTrbs
      BY <3>1, WrapsOnce, Numbers
    <3>5. b % EventTrbs = IF b < EventTrbs THEN b ELSE b - EventTrbs
      BY <3>1, WrapsOnce, Numbers
    <3>6. a % EventTrbs = b % EventTrbs
      BY <3>1, <3>2, <3>3, <3>4, <3>5, Numbers
    <3>7. QED
      BY <3>6 DEF a, b
  <2>8. ASSUME NEW k \in 1..m
        PROVE  Pending[k + 1] = hc.ev.event[(drv'.deq + k - 1) % EventTrbs]
    <3>1. k + 1 \in 1..Outstanding
      BY <2>4
    <3>2. Pending[k + 1] = hc.ev.event[(drv.deq + (k + 1) - 1) % EventTrbs]
      BY <2>2, <3>1
    <3>3. drv.deq + (k + 1) - 1 = drv.deq + k
      BY Numbers
    <3>4. QED
      BY <2>7, <3>2, <3>3
  <2>9. Pending' = Tail(Pending)
    BY <2>5, <2>6, <2>8
  <2>10. QED
    BY <2>6, <2>9 DEF EventRing!Handle
<1>8. QED
  BY <1>5, <1>7

\* The controller works on a TRB: it posts at most one event.
LEMMA ExecuteKeeps ==
  ASSUME EInv, NEW r, Execute(r)
  PROVE  EInv' /\ (EventRing!Post \/ Pending' = Pending)
<1> DEFINE c == Follow(r)
<1> DEFINE t == drv.ring[r].trb[c.deq]
<1> DEFINE next == [c EXCEPT !.deq = @ + 1]
<1>1. drv' = drv
  BY DEF Execute
<1>2. CASE hc' = [hc EXCEPT !.ring[r] = next]
  <2> HIDE DEF next
  <2>1. hc'.ev = hc.ev /\ hc' = [ring |-> hc'.ring, ev |-> hc'.ev]
    BY <1>2, Typed
  <2>2. SameReader(drv, drv')
    BY <1>1, Typed DEF SameReader
  <2>3. QED
    BY <2>1, <2>2, SameEvents
<1>3. CASE \E code \in Codes(r) :
             /\ t.ioc \/ code = "error"
             /\ RoomForEvent
             /\ hc' = [ring |-> [hc.ring EXCEPT ![r] = [next EXCEPT !.halted = code = "error"]],
                       ev |-> Posted(hc.ev, [ring |-> r, trb |-> c.deq, id |-> t.id, code |-> code])]
  <2>1. PICK code \in Codes(r) :
             /\ t.ioc \/ code = "error"
             /\ RoomForEvent
             /\ hc' = [ring |-> [hc.ring EXCEPT ![r] = [next EXCEPT !.halted = code = "error"]],
                       ev |-> Posted(hc.ev, [ring |-> r, trb |-> c.deq, id |-> t.id, code |-> code])]
    BY <1>3
  <2> DEFINE e == [ring |-> r, trb |-> c.deq, id |-> t.id, code |-> code]
  <2>2. RoomForEvent /\ hc' = [ring |-> hc'.ring, ev |-> Posted(hc.ev, e)]
    BY <2>1
  <2> HIDE DEF e
  <2>3. QED
    BY <1>1, <2>2, PostKeeps
<1>4. QED
  BY <1>2, <1>3 DEF Execute

\* Writing ERDP frees TRBs for the controller, and no event is lost or repeated.
LEMMA ExitKeeps ==
  ASSUME EInv, InterruptExit
  PROVE  EInv' /\ Pending' = Pending
<1>1. SameReader(drv, drv') /\ drv' = drv
  BY Typed DEF InterruptExit, SameReader
<1>2. CASE ~irq.handled
  BY <1>1, <1>2, SameEvents, Typed DEF InterruptExit
<1>3. CASE irq.handled
  <2>1. /\ hc' = [ring |-> hc.ring, ev |-> hc'.ev]
        /\ hc'.ev = [cycle |-> hc.ev.cycle, event |-> hc.ev.event, enq |-> hc.ev.enq,
                     state |-> hc.ev.state, erdp |-> drv.deq]
    BY <1>3, Typed DEF InterruptExit
  <2>2. Shapes'
    <3>1. hc'.ev.event \in [Slots -> UNION {{hc'.ev.event[i]} : i \in Slots}]
      BY <2>1 DEF EInv, Shapes
    <3>2. hc'.ev.cycle \in [Slots -> BOOLEAN] /\ hc'.ev.enq \in Slots /\ hc'.ev.state \in BOOLEAN
          /\ hc'.ev.erdp \in Slots
      BY <2>1, Typed
    <3>3. QED
      BY <1>1, <2>1, <3>1, <3>2 DEF EInv, Shapes
  <2>3. CycleBits'
    BY <2>1 DEF EInv, CycleBits
  <2>4. Laps'
    BY <1>1, <2>1, Numbers DEF EInv, Laps
  <2>5. EInv'
    BY <2>2, <2>3, <2>4 DEF EInv
  <2>6. PendingExact'
    BY <2>5, PendingIsExact, PTL
  <2>7. Outstanding' = Outstanding
    BY <1>1, <2>1 DEF Outstanding
  <2>8. hc'.ev.event = hc.ev.event /\ drv'.deq = drv.deq
    BY <1>1, <2>1
  <2>9. QED
    BY <2>5, <2>6, <2>7, <2>8, PendingIs DEF PendingExact
<1>4. QED
  BY <1>2, <1>3

\* Every step keeps the invariant and is a step of the queue, or none.
LEMMA EventStep ==
  ASSUME EInv, [Next]_vars
  PROVE  EInv' /\ [EventRing!Next]_Pending
<1>1. CASE Task
  <2>1. SameReader(drv, drv') /\ hc' = hc
    BY <1>1, TaskReads, Typed
  <2>2. QED
    BY <2>1, SameEvents, Typed
<1>2. CASE InterruptEntry
  BY <1>2, SameEvents, Typed DEF InterruptEntry, SameReader
<1>3. CASE InterruptEvent
  BY <1>3, HandleKeeps DEF EventRing!Next
<1>4. CASE InterruptExit
  BY <1>4, ExitKeeps
<1>5. ASSUME NEW r \in Rings, Execute(r) PROVE EInv' /\ [EventRing!Next]_Pending
  BY <1>5, ExecuteKeeps DEF EventRing!Next
<1>6. CASE UNCHANGED vars
  BY <1>6, SameEvents, Typed DEF vars, SameReader
<1>7. QED
  BY <1>1, <1>2, <1>3, <1>4, <1>5, <1>6 DEF Next, Handler

\* The event ring starts empty.
LEMMA EventStart == Init => EInv /\ EventRing!Init
<1> SUFFICES ASSUME Init PROVE EInv /\ EventRing!Init
  OBVIOUS
<1>1. DOMAIN drv = Fields /\ drv.deq = 0 /\ drv.state = TRUE
  BY DEF Init, Driver, Fields
<1>2. hc.ev = [cycle |-> [i \in 0..EventTrbs - 1 |-> FALSE],
               event |-> [i \in 0..EventTrbs - 1 |-> [ring |-> "none"]],
               enq |-> 0, state |-> TRUE, erdp |-> 0]
      /\ hc = [ring |-> hc.ring, ev |-> hc.ev]
  BY DEF Init, Controller
<1>3. EventTrbs \in Nat /\ EventTrbs >= 2 /\ 0 \in Slots
  BY XhciAssumption DEF Slots
<1>4. hc.ev.enq = 0 /\ hc.ev.erdp = 0 /\ hc.ev.state = TRUE
  BY <1>2
<1>5. Shapes
  <2>1. hc.ev.event \in [Slots -> UNION {{hc.ev.event[i]} : i \in Slots}]
    BY <1>2 DEF Slots
  <2>2. hc.ev.cycle \in [Slots -> BOOLEAN]
    BY <1>2 DEF Slots
  <2>3. hc.ev \in [cycle : [Slots -> BOOLEAN], event : [Slots -> UNION {{hc.ev.event[i]} : i \in Slots}],
                   enq : Slots, state : BOOLEAN, erdp : Slots]
    <3>1. hc.ev = [cycle |-> hc.ev.cycle, event |-> hc.ev.event, enq |-> hc.ev.enq,
                   state |-> hc.ev.state, erdp |-> hc.ev.erdp]
      BY <1>2
    <3>2. hc.ev.enq \in Slots /\ hc.ev.erdp \in Slots /\ hc.ev.state \in BOOLEAN
      BY <1>3, <1>4
    <3>3. QED
      BY <2>1, <2>2, <3>1, <3>2
  <2>4. QED
    BY <1>1, <1>2, <1>3, <2>3 DEF Shapes, Fields
<1>6. CycleBits
  <2> SUFFICES ASSUME NEW i \in Slots
               PROVE  hc.ev.cycle[i] = IF i < hc.ev.enq THEN hc.ev.state ELSE ~hc.ev.state
    BY DEF CycleBits
  <2>1. hc.ev.cycle[i] = FALSE /\ ~(i < hc.ev.enq) /\ hc.ev.state = TRUE
    BY <1>2 DEF Slots
  <2>2. QED
    BY <2>1
<1>7. Laps
  <2>1. drv.state = hc.ev.state
    BY <1>1, <1>4
  <2>2. hc.ev.erdp <= drv.deq /\ drv.deq <= hc.ev.enq
    BY <1>1, <1>4
  <2>3. QED
    BY <2>1, <2>2, Zenon DEF Laps
<1>8. EInv
  BY <1>5, <1>6, <1>7 DEF EInv
<1>9. Outstanding = 0
  BY <1>1, <1>2 DEF Outstanding
<1>10. Pending = <<>>
  BY <1>8, <1>9, PendingIs
<1>11. QED
  BY <1>8, <1>10 DEF EventRing!Init

\* The event ring that CXHCIEventManager reads is a queue: every event that the
\* controller posts is handled once and in order, whatever the size of the ring.
THEOREM EventsInOrderHolds == Spec => EventsInOrder
<1>1. Init => EInv /\ EventRing!Init
  BY EventStart
<1>2. EInv /\ [Next]_vars => EInv' /\ [EventRing!Next]_Pending
  BY EventStep
<1>3. QED
  BY <1>1, <1>2, PTL DEF Spec, EventsInOrder, EventRing!Spec

-----------------------------------------------------------------------------
(* The rings of commands and transfers: what the producer has filled and the
   controller has not read. *)

\* TRBs, and the rings that hold them.
Trb == [id : Nat, ioc : BOOLEAN]
RingType(r) == [cycle : [Index(r) -> BOOLEAN], trb : [Index(r) -> Trb], link : {Link(r)},
                enq : 0..(Link(r) - 1), state : BOOLEAN]

\* The controller's side of a ring.
Side(r) == [deq : Index(r), state : BOOLEAN, halted : BOOLEAN]

\* The TRBs the producer has filled in this lap have its cycle state; f is 1
\* when the TRB at the enqueue index is filled already.
Bits(r, g, f) ==
  \A i \in Index(r) : g.cycle[i] = IF i < g.enq + f THEN g.state ELSE ~g.state

\* The controller follows the producer and is never lapped by it; k is 1 when
\* the TRB at the enqueue index is taken, filled or not.
Follows(r, g, h, f, k) ==
  \/ /\ h.state = g.state /\ h.deq <= g.enq + f
     /\ k = 1 => g.enq + 1 < Link(r) \/ h.deq > 0
  \/ h.state = ~g.state /\ g.enq + k < h.deq

\* The filled TRBs that the controller has not read: how many, and where.
Unseen(r, g, h, f) ==
  IF h.state = g.state THEN g.enq + f - h.deq ELSE Link(r) - h.deq + g.enq + f

At(r, h, j) == IF h.deq + j < Link(r) THEN h.deq + j ELSE h.deq + j - Link(r)

\* A ring is in order.
InOrder(r, g, h, f, k) ==
  /\ g \in RingType(r) /\ h \in Side(r) /\ f \in {0, 1} /\ k \in {0, 1} /\ f <= k
  /\ Bits(r, g, f) /\ Follows(r, g, h, f, k)

\* The sizes of the rings.
LEMMA Sizes ==
  ASSUME NEW r \in Rings
  PROVE  Link(r) \in Nat /\ Link(r) >= 2
BY XhciAssumption DEF Link

\* The components of a ring in order.
LEMMA RingTyped ==
  ASSUME NEW r \in Rings, NEW g \in RingType(r), NEW h \in Side(r)
  PROVE  /\ g = [cycle |-> g.cycle, trb |-> g.trb, link |-> g.link, enq |-> g.enq, state |-> g.state]
         /\ g.cycle \in [Index(r) -> BOOLEAN] /\ g.trb \in [Index(r) -> Trb] /\ g.link = Link(r)
         /\ g.enq \in Nat /\ g.enq < Link(r) /\ g.state \in BOOLEAN
         /\ h = [deq |-> h.deq, state |-> h.state, halted |-> h.halted]
         /\ h.deq \in Nat /\ h.deq <= Link(r) /\ h.state \in BOOLEAN /\ h.halted \in BOOLEAN
         /\ g.enq \in Index(r) /\ h.deq \in Index(r) /\ Link(r) \in Index(r)
BY Sizes DEF RingType, Side, Index

\* The number of unread TRBs, and where they are.
LEMMA UnseenIs ==
  ASSUME NEW r \in Rings, NEW g, NEW h, NEW f, NEW k, InOrder(r, g, h, f, k)
  PROVE  /\ Unseen(r, g, h, f) \in Nat
         /\ \A j \in Nat : j < Unseen(r, g, h, f) =>
              /\ At(r, h, j) \in Index(r) /\ At(r, h, j) < Link(r)
              /\ f = 0 => At(r, h, j) # g.enq
         /\ f = 0 => At(r, h, Unseen(r, g, h, f)) = g.enq
<1>1. /\ g.enq \in Nat /\ g.enq < Link(r) /\ g.state \in BOOLEAN /\ h.state \in BOOLEAN
      /\ h.deq \in Nat /\ h.deq <= Link(r) /\ Link(r) \in Nat /\ f \in {0, 1} /\ k \in {0, 1} /\ f <= k
  BY RingTyped, Sizes DEF InOrder
<1>2. CASE h.state = g.state
  <2>1. h.deq <= g.enq + f /\ (k = 1 => g.enq + 1 < Link(r) \/ h.deq > 0)
    BY <1>1, <1>2 DEF InOrder, Follows
  <2>2. Unseen(r, g, h, f) = g.enq + f - h.deq
    BY <1>2 DEF Unseen
  <2>3. QED
    BY <1>1, <2>1, <2>2 DEF At, Index
<1>3. CASE h.state # g.state
  <2>1. g.enq + k < h.deq
    BY <1>1, <1>3 DEF InOrder, Follows
  <2>2. Unseen(r, g, h, f) = Link(r) - h.deq + g.enq + f
    BY <1>3 DEF Unseen
  <2>3. QED
    BY <1>1, <2>1, <2>2 DEF At, Index
<1>4. QED
  BY <1>2, <1>3

\* The TRB the producer takes is free, and taking it does not lap the
\* controller unless that fills the ring up.
LEMMA TakeInOrder ==
  ASSUME NEW r \in Rings, NEW g, NEW h, InOrder(r, g, h, 0, 0)
  PROVE  /\ ~IsFull(g)
         /\ Unseen(r, g, h, 0) + 1 < Link(r) => InOrder(r, g, h, 0, 1)
<1>1. /\ g.enq \in Nat /\ g.enq < Link(r) /\ g.state \in BOOLEAN /\ h.state \in BOOLEAN
      /\ h.deq \in Nat /\ h.deq <= Link(r) /\ Link(r) \in Nat /\ g.enq \in Index(r)
  BY RingTyped, Sizes DEF InOrder
<1>2. g.cycle[g.enq] = ~g.state
  BY <1>1 DEF InOrder, Bits
<1>3. ~IsFull(g)
  BY <1>1, <1>2 DEF IsFull
<1>4. ASSUME Unseen(r, g, h, 0) + 1 < Link(r) PROVE Follows(r, g, h, 0, 1)
  BY <1>1, <1>4 DEF InOrder, Follows, Unseen
<1>5. QED
  BY <1>3, <1>4 DEF InOrder

\* Filling the TRB that was taken adds it to those the controller can read.
LEMMA FillInOrder ==
  ASSUME NEW r \in Rings, NEW g, NEW h, NEW x \in Trb, InOrder(r, g, h, 0, 1)
  PROVE  /\ InOrder(r, Fill(g, g.enq, x), h, 1, 1)
         /\ Unseen(r, Fill(g, g.enq, x), h, 1) = Unseen(r, g, h, 0) + 1
         /\ \A j \in Nat : j < Unseen(r, g, h, 0) =>
              Fill(g, g.enq, x).trb[At(r, h, j)] = g.trb[At(r, h, j)]
         /\ Fill(g, g.enq, x).trb[At(r, h, Unseen(r, g, h, 0))] = x
<1> DEFINE n == Fill(g, g.enq, x)
<1>1. /\ g.enq \in Nat /\ g.enq < Link(r) /\ g.state \in BOOLEAN /\ h.state \in BOOLEAN
      /\ h.deq \in Nat /\ h.deq <= Link(r) /\ Link(r) \in Nat /\ g.enq \in Index(r)
      /\ g.cycle \in [Index(r) -> BOOLEAN] /\ g.trb \in [Index(r) -> Trb] /\ g.link = Link(r)
  BY RingTyped, Sizes DEF InOrder
<1>2. /\ n.cycle = [g.cycle EXCEPT ![g.enq] = g.state] /\ n.trb = [g.trb EXCEPT ![g.enq] = x]
      /\ n.link = Link(r) /\ n.enq = g.enq /\ n.state = g.state
      /\ DOMAIN n = {"cycle", "trb", "link", "enq", "state"} /\ n = [i \in DOMAIN n |-> n[i]]
  <2>1. g \in RingType(r) /\ h \in Side(r)
    BY DEF InOrder
  <2>2. g = [cycle |-> g.cycle, trb |-> g.trb, link |-> Link(r), enq |-> g.enq, state |-> g.state]
    BY <2>1, RingTyped
  <2>3. n.cycle = [g.cycle EXCEPT ![g.enq] = g.state]
    BY <2>2 DEF Fill
  <2>4. n.trb = [g.trb EXCEPT ![g.enq] = x]
    BY <2>2 DEF Fill
  <2>5. n.link = Link(r) /\ n.enq = g.enq /\ n.state = g.state
    BY <2>2 DEF Fill
  <2>6. DOMAIN n = {"cycle", "trb", "link", "enq", "state"}
    BY <2>2 DEF Fill
  <2>7. n = [i \in DOMAIN n |-> n[i]]
    BY <2>2 DEF Fill
  <2>8. QED
    BY <2>3, <2>4, <2>5, <2>6, <2>7
<1> HIDE DEF n
<1>3. n \in RingType(r)
  <2>1. [g.cycle EXCEPT ![g.enq] = g.state] \in [Index(r) -> BOOLEAN]
    BY <1>1
  <2>2. [g.trb EXCEPT ![g.enq] = x] \in [Index(r) -> Trb]
    BY <1>1
  <2>3. g.enq \in 0..(Link(r) - 1)
    BY <1>1
  <2>4. QED
    BY <1>1, <1>2, <2>1, <2>2, <2>3 DEF RingType
<1>4. n.enq = g.enq /\ n.state = g.state
  BY <1>2
<1>5. Bits(r, n, 1)
  <2> SUFFICES ASSUME NEW i \in Index(r)
               PROVE  n.cycle[i] = IF i < n.enq + 1 THEN n.state ELSE ~n.state
    BY DEF Bits
  <2>1. n.cycle[i] = IF i = g.enq THEN g.state ELSE g.cycle[i]
    BY <1>1, <1>2
  <2>2. g.cycle[i] = IF i < g.enq THEN g.state ELSE ~g.state
    BY <1>1 DEF InOrder, Bits
  <2>3. QED
    BY <1>1, <1>4, <2>1, <2>2 DEF Index
<1>6. Follows(r, n, h, 1, 1)
  BY <1>1, <1>4 DEF InOrder, Follows
<1>7. InOrder(r, n, h, 1, 1)
  BY <1>3, <1>5, <1>6 DEF InOrder
<1>8. Unseen(r, n, h, 1) = Unseen(r, g, h, 0) + 1
  BY <1>1, <1>4 DEF Unseen
<1>9. ASSUME NEW j \in Nat, j < Unseen(r, g, h, 0)
      PROVE  n.trb[At(r, h, j)] = g.trb[At(r, h, j)]
  BY <1>1, <1>2, <1>9, UnseenIs
<1>10. n.trb[At(r, h, Unseen(r, g, h, 0))] = x
  BY <1>1, <1>2, UnseenIs
<1>11. QED
  BY <1>7, <1>8, <1>9, <1>10 DEF n

\* Stepping over the filled TRB changes nothing for the controller, even when
\* the link TRB toggles the producer's cycle state.
LEMMA StepInOrder ==
  ASSUME NEW r \in Rings, NEW g, NEW h, InOrder(r, g, h, 1, 1)
  PROVE  /\ CycleStateSet(g)
         /\ InOrder(r, IncrementEnqueue(g), h, 0, 0)
         /\ Unseen(r, IncrementEnqueue(g), h, 0) = Unseen(r, g, h, 1)
         /\ IncrementEnqueue(g).trb = g.trb
<1> DEFINE n == IncrementEnqueue(g)
<1>1. /\ g.enq \in Nat /\ g.enq < Link(r) /\ g.state \in BOOLEAN /\ h.state \in BOOLEAN
      /\ h.deq \in Nat /\ h.deq <= Link(r) /\ Link(r) \in Nat /\ Link(r) >= 2 /\ g.enq \in Index(r)
      /\ g.cycle \in [Index(r) -> BOOLEAN] /\ g.trb \in [Index(r) -> Trb] /\ g.link = Link(r)
      /\ Link(r) \in Index(r)
  BY RingTyped, Sizes DEF InOrder
<1>2. CycleStateSet(g)
  <2>1. g.enq < g.enq + 1
    BY <1>1
  <2>2. QED
    BY <1>1, <2>1 DEF InOrder, Bits, CycleStateSet
<1>3. CASE g.enq + 1 = Link(r)
  <2>1. /\ n.cycle = [g.cycle EXCEPT ![Link(r)] = ~g.cycle[Link(r)]] /\ n.trb = g.trb
        /\ n.link = Link(r) /\ n.enq = 0 /\ n.state = ~g.state
        /\ DOMAIN n = {"cycle", "trb", "link", "enq", "state"} /\ n = [i \in DOMAIN n |-> n[i]]
    <3>1. g \in RingType(r) /\ h \in Side(r)
      BY DEF InOrder
    <3>2. g = [cycle |-> g.cycle, trb |-> g.trb, link |-> Link(r), enq |-> g.enq, state |-> g.state]
      BY <3>1, RingTyped
    <3>3. n = [g EXCEPT !.enq = 0, !.cycle[g.link] = ~@, !.state = ~@]
      BY <1>1, <1>3 DEF IncrementEnqueue
    <3> HIDE DEF n
    <3>4. n.cycle = [g.cycle EXCEPT ![Link(r)] = ~g.cycle[Link(r)]]
      BY <1>1, <3>2, <3>3
    <3>5. n.trb = g.trb /\ n.link = Link(r) /\ n.enq = 0
      BY <3>2, <3>3
    <3>6. n.state = ~g.state
      BY <3>2, <3>3
    <3>7. DOMAIN n = {"cycle", "trb", "link", "enq", "state"}
      BY <3>2, <3>3
    <3>8. n = [i \in DOMAIN n |-> n[i]]
      BY <3>2, <3>3
    <3>9. QED
      BY <3>4, <3>5, <3>6, <3>7, <3>8
  <2> HIDE DEF n
  <2>2. n \in RingType(r)
    <3>1. [g.cycle EXCEPT ![Link(r)] = ~g.cycle[Link(r)]] \in [Index(r) -> BOOLEAN]
      BY <1>1
    <3>2. 0 \in 0..(Link(r) - 1)
      BY <1>1
    <3>3. QED
      BY <1>1, <2>1, <3>1, <3>2 DEF RingType
  <2>3. n.enq = 0 /\ n.state = ~g.state /\ n.trb = g.trb /\ g.state = ~n.state
    BY <1>1, <2>1
  <2>4. Bits(r, n, 0)
    <3> SUFFICES ASSUME NEW i \in Index(r) PROVE n.cycle[i] = ~n.state /\ ~(i < 0)
      BY <2>3 DEF Bits
    <3>1. n.cycle[i] = IF i = Link(r) THEN ~g.cycle[i] ELSE g.cycle[i]
      BY <1>1, <2>1
    <3>2. g.cycle[i] = IF i < Link(r) THEN g.state ELSE ~g.state
      BY <1>1, <1>3 DEF InOrder, Bits
    <3>3. ~(i < 0) /\ (i # Link(r) => i < Link(r)) /\ ~(Link(r) < Link(r))
      BY <1>1 DEF Index
    <3>4. QED
      BY <1>1, <2>3, <3>1, <3>2, <3>3
  <2>5. h.state = g.state /\ h.deq > 0
    BY <1>1, <1>3 DEF InOrder, Follows
  <2>6. Follows(r, n, h, 0, 0)
    <3>1. h.state = ~n.state /\ n.enq + 0 < h.deq
      BY <1>1, <2>3, <2>5
    <3>2. QED
      BY <3>1 DEF Follows
  <2>7. Unseen(r, n, h, 0) = Unseen(r, g, h, 1)
    <3>1. h.state # n.state
      BY <1>1, <2>3, <2>5
    <3>2. Unseen(r, n, h, 0) = Link(r) - h.deq
      BY <1>1, <2>3, <3>1 DEF Unseen
    <3>3. Unseen(r, g, h, 1) = Link(r) - h.deq
      BY <1>1, <1>3, <2>5 DEF Unseen
    <3>4. QED
      BY <3>2, <3>3
  <2>8. QED
    BY <1>2, <2>2, <2>3, <2>4, <2>6, <2>7 DEF InOrder, n
<1>4. CASE g.enq + 1 # Link(r)
  <2>1. n = [g EXCEPT !.enq = g.enq + 1]
    BY <1>1, <1>4 DEF IncrementEnqueue
  <2>2. n = [cycle |-> g.cycle, trb |-> g.trb, link |-> Link(r), enq |-> g.enq + 1, state |-> g.state]
    BY <1>1, <2>1, RingTyped DEF InOrder
  <2> HIDE DEF n
  <2>3. n \in RingType(r)
    <3>1. g.enq + 1 \in 0..(Link(r) - 1)
      BY <1>1, <1>4
    <3>2. QED
      BY <1>1, <2>2, <3>1 DEF RingType
  <2>4. n.enq = g.enq + 1 /\ n.state = g.state /\ n.cycle = g.cycle /\ n.trb = g.trb
    BY <2>2
  <2>5. Bits(r, n, 0)
    BY <1>1, <2>4 DEF InOrder, Bits, Index
  <2>6. Follows(r, n, h, 0, 0)
    BY <1>1, <2>4 DEF InOrder, Follows
  <2>7. Unseen(r, n, h, 0) = Unseen(r, g, h, 1)
    BY <1>1, <2>4 DEF Unseen
  <2>8. QED
    BY <1>2, <2>3, <2>4, <2>5, <2>6, <2>7 DEF InOrder, n
<1>5. QED
  BY <1>3, <1>4

\* The first m TRBs to read at h are the next ones at o.
Moved(r, o, h, m) == \A j \in Nat : j < m => At(r, h, j) = At(r, o, j + 1)

\* Reading a TRB takes the oldest of those the controller has not read.
LEMMA ReadInOrder ==
  ASSUME NEW r \in Rings, NEW f, NEW k, NEW h,
         InOrder(r, drv.ring[r], hc.ring[r], f, k), Visible(r),
         h \in Side(r), h.deq = Follow(r).deq + 1, h.state = Follow(r).state
  PROVE  /\ InOrder(r, drv.ring[r], h, f, k)
         /\ Unseen(r, drv.ring[r], hc.ring[r], f) = Unseen(r, drv.ring[r], h, f) + 1
         /\ Follow(r).deq = At(r, hc.ring[r], 0)
         /\ Moved(r, hc.ring[r], h, Unseen(r, drv.ring[r], h, f))
<1> DEFINE g == drv.ring[r]
<1> DEFINE o == hc.ring[r]
<1> DEFINE c == Follow(r)
<1>1. /\ g.enq \in Nat /\ g.enq < Link(r) /\ g.state \in BOOLEAN /\ o.state \in BOOLEAN
      /\ o.deq \in Nat /\ o.deq <= Link(r) /\ Link(r) \in Nat /\ Link(r) >= 2
      /\ f \in {0, 1} /\ k \in {0, 1} /\ f <= k
      /\ o = [deq |-> o.deq, state |-> o.state, halted |-> o.halted]
      /\ o.deq \in Index(r) /\ Link(r) \in Index(r) /\ 0 \in Index(r)
  BY RingTyped, Sizes DEF InOrder, Index
<1>2. g.cycle[Link(r)] = ~g.state
  BY <1>1 DEF InOrder, Bits
<1>3. CASE o.deq = Link(r) /\ o.state = ~g.state
  <2>1. g.enq + k < o.deq
    BY <1>1, <1>3 DEF InOrder, Follows
  <2>2. c.deq = 0 /\ c.state = g.state
    BY <1>1, <1>2, <1>3 DEF Follow
  <2>3. g.cycle[0] = g.state
    BY <2>2, <1>1 DEF Visible
  <2>4. 0 < g.enq + f
    BY <1>1, <2>3 DEF InOrder, Bits
  <2>5. h.deq = 1 /\ h.state = g.state
    BY <2>2
  <2>6. Follows(r, g, h, f, k)
    BY <1>1, <2>4, <2>5 DEF Follows
  <2>7. Unseen(r, g, h, f) = g.enq + f - 1
    BY <2>5 DEF Unseen
  <2>8. Unseen(r, g, o, f) = g.enq + f
    BY <1>1, <1>3 DEF Unseen
  <2>9. /\ Unseen(r, g, o, f) = Unseen(r, g, h, f) + 1
        /\ c.deq = At(r, o, 0)
        /\ \A j \in Nat : j < Unseen(r, g, h, f) => At(r, h, j) = At(r, o, j + 1)
    <3>1. c.deq = At(r, o, 0)
      BY <1>1, <1>3, <2>2 DEF At
    <3>2. ASSUME NEW j \in Nat, j < Unseen(r, g, h, f)
          PROVE  At(r, h, j) = At(r, o, j + 1)
      BY <1>1, <1>3, <2>5, <2>7, <3>2 DEF At
    <3>3. QED
      BY <1>1, <2>7, <2>8, <3>1, <3>2
  <2>10. QED
    BY <2>6, <2>9 DEF InOrder, Moved
<1>4. CASE ~(o.deq = Link(r) /\ o.state = ~g.state)
  <2>1. c = o
    BY <1>1, <1>2, <1>4 DEF Follow
  <2>2. o.deq # Link(r) /\ g.cycle[o.deq] = o.state
    BY <2>1 DEF Visible
  <2>3. o.deq < g.enq + f <=> o.state = g.state
    BY <1>1, <2>2 DEF InOrder, Bits
  <2>4. h.deq = o.deq + 1 /\ h.state = o.state
    BY <2>1
  <2>5. Follows(r, g, h, f, k)
    BY <1>1, <2>2, <2>3, <2>4 DEF InOrder, Follows
  <2>6. Unseen(r, g, o, f) = Unseen(r, g, h, f) + 1
    BY <1>1, <2>4 DEF Unseen
  <2>7. /\ c.deq = At(r, o, 0)
        /\ \A j \in Nat : At(r, h, j) = At(r, o, j + 1)
    <3>1. c.deq = At(r, o, 0)
      BY <1>1, <2>1, <2>2 DEF At
    <3>2. ASSUME NEW j \in Nat
          PROVE  At(r, h, j) = At(r, o, j + 1)
      <4>1. h.deq + j = o.deq + (j + 1)
        BY <1>1, <2>4
      <4>2. QED
        BY <1>1, <2>4, <4>1 DEF At
    <3>3. QED
      BY <3>1, <3>2
  <2>8. QED
    BY <2>5, <2>6, <2>7 DEF InOrder, Moved
<1>5. QED
  BY <1>3, <1>4

\* The TRBs the cycle bits make readable are those filled and not read.
LEMMA ReadableIs ==
  ASSUME NEW r \in Rings, NEW f, NEW k, InOrder(r, drv.ring[r], hc.ring[r], f, k)
  PROVE  Readable(r) = {At(r, hc.ring[r], j) :
                         j \in {j \in Nat : j < Unseen(r, drv.ring[r], hc.ring[r], f)}}
<1> DEFINE g == drv.ring[r]
<1> DEFINE o == hc.ring[r]
<1> DEFINE n == Unseen(r, g, o, f)
<1> DEFINE first == {i \in o.deq..Link(r) - 1 : \A j \in o.deq..i : g.cycle[j] = o.state}
<1> DEFINE second == {i \in 0..o.deq - 1 : /\ \A j \in o.deq..Link(r) : g.cycle[j] = o.state
                                           /\ \A j \in 0..i : g.cycle[j] # o.state}
<1>1. /\ g.enq \in Nat /\ g.enq < Link(r) /\ g.state \in BOOLEAN /\ o.state \in BOOLEAN
      /\ o.deq \in Nat /\ o.deq <= Link(r) /\ Link(r) \in Nat /\ Link(r) >= 2
      /\ f \in {0, 1} /\ k \in {0, 1} /\ f <= k
  BY RingTyped, Sizes DEF InOrder
<1>2. \A i \in 0..Link(r) : g.cycle[i] = IF i < g.enq + f THEN g.state ELSE ~g.state
  BY DEF InOrder, Bits, Index
<1>3. CASE o.state = g.state
  <2>1. o.deq <= g.enq + f /\ n = g.enq + f - o.deq
    BY <1>1, <1>3 DEF InOrder, Follows, Unseen
  <2>2. first = {i \in o.deq..Link(r) - 1 : i < g.enq + f}
    BY <1>1, <1>2, <1>3
  <2>3. second = {}
    <3>1. g.cycle[Link(r)] # o.state
      BY <1>1, <1>2, <1>3
    <3>2. QED
      BY <1>1, <3>1
  <2>4. \A i : i \in first <=> \E j \in Nat : j < n /\ i = At(r, o, j)
    <3> SUFFICES ASSUME NEW i
                 PROVE  i \in first <=> \E j \in Nat : j < n /\ i = At(r, o, j)
      OBVIOUS
    <3>1. ASSUME i \in first PROVE i - o.deq \in Nat /\ i - o.deq < n /\ i = At(r, o, i - o.deq)
      BY <1>1, <2>1, <2>2, <3>1 DEF At
    <3>2. ASSUME NEW j \in Nat, j < n, i = At(r, o, j) PROVE i \in first
      BY <1>1, <2>1, <2>2, <3>2 DEF At
    <3>3. QED
      BY <3>1, <3>2
  <2>5. QED
    BY <2>3, <2>4 DEF Readable
<1>4. CASE o.state # g.state
  <2>1. g.enq + f < o.deq /\ n = Link(r) - o.deq + g.enq + f
    BY <1>1, <1>4 DEF InOrder, Follows, Unseen
  <2>2. \A j \in o.deq..Link(r) : g.cycle[j] = o.state
    BY <1>1, <1>2, <1>4, <2>1
  <2>3. first = o.deq..Link(r) - 1
    BY <1>1, <2>2
  <2>4. second = {i \in 0..o.deq - 1 : i < g.enq + f}
    BY <1>1, <1>2, <1>4, <2>2
  <2>5. \A i : i \in first \cup second <=> \E j \in Nat : j < n /\ i = At(r, o, j)
    <3> SUFFICES ASSUME NEW i
                 PROVE  i \in first \cup second <=> \E j \in Nat : j < n /\ i = At(r, o, j)
      OBVIOUS
    <3>1. ASSUME i \in first PROVE i - o.deq \in Nat /\ i - o.deq < n /\ i = At(r, o, i - o.deq)
      BY <1>1, <2>1, <2>3, <3>1 DEF At
    <3>2. ASSUME i \in second
          PROVE  i - o.deq + Link(r) \in Nat /\ i - o.deq + Link(r) < n /\ i = At(r, o, i - o.deq + Link(r))
      BY <1>1, <2>1, <2>4, <3>2 DEF At
    <3>3. ASSUME NEW j \in Nat, j < n, i = At(r, o, j) PROVE i \in first \cup second
      <4>1. CASE o.deq + j < Link(r)
        BY <1>1, <2>1, <2>3, <3>3, <4>1 DEF At
      <4>2. CASE ~(o.deq + j < Link(r))
        <5>1. i = o.deq + j - Link(r)
          BY <3>3, <4>2 DEF At
        <5>2. i \in 0..o.deq - 1 /\ i < g.enq + f
          BY <1>1, <2>1, <3>3, <4>2, <5>1
        <5>3. QED
          BY <2>4, <5>2
      <4>3. QED
        BY <4>1, <4>2
    <3>4. QED
      BY <3>1, <3>2, <3>3
  <2>6. QED
    BY <2>5 DEF Readable
<1>5. QED
  BY <1>3, <1>4

\* Unless the ring is overrun, there is room for one more TRB.
LEMMA RoomUnlessOverrun ==
  ASSUME NEW r \in Rings, InOrder(r, drv.ring[r], hc.ring[r], 0, 0), Overrun(r) = {}
  PROVE  Unseen(r, drv.ring[r], hc.ring[r], 0) + 1 < Link(r)
<1> DEFINE g == drv.ring[r]
<1> DEFINE o == hc.ring[r]
<1>1. /\ g.enq \in Nat /\ g.enq < Link(r) /\ g.state \in BOOLEAN /\ o.state \in BOOLEAN
      /\ o.deq \in Nat /\ o.deq <= Link(r) /\ Link(r) \in Nat /\ Link(r) >= 2
  BY RingTyped, Sizes DEF InOrder
<1>2. ~(Cardinality(Unread(r)) + 1 >= Link(r))
  BY DEF Overrun
<1>3. Cardinality(Unread(r)) = Unseen(r, g, o, 0)
  <2>1. CASE o.state = g.state
    <3>1. o.deq <= g.enq /\ Unseen(r, g, o, 0) = g.enq - o.deq
      BY <1>1, <2>1 DEF InOrder, Follows, Unseen
    <3>2. Unread(r) = o.deq..(g.enq - 1)
      BY <2>1 DEF Unread
    <3>3. Cardinality(o.deq..(g.enq - 1)) = IF o.deq > g.enq - 1 THEN 0 ELSE (g.enq - 1) - o.deq + 1
      BY <1>1, FS_Interval
    <3>4. QED
      BY <1>1, <3>1, <3>2, <3>3
  <2>2. CASE o.state # g.state
    <3> DEFINE A == o.deq..(Link(r) - 1)
    <3> DEFINE B == 0..(g.enq - 1)
    <3>1. g.enq < o.deq /\ Unseen(r, g, o, 0) = Link(r) - o.deq + g.enq
      BY <1>1, <2>2 DEF InOrder, Follows, Unseen
    <3>2. Unread(r) = A \cup B
      BY <2>2 DEF Unread
    <3>3. IsFiniteSet(A) /\ Cardinality(A) = Link(r) - o.deq
      <4>0. o.deq \in Int /\ (Link(r) - 1) \in Int
        BY <1>1
      <4>1. IsFiniteSet(A) /\ Cardinality(A) = IF o.deq > Link(r) - 1 THEN 0 ELSE (Link(r) - 1) - o.deq + 1
        BY <4>0, FS_Interval
      <4>2. QED
        BY <1>1, <4>1
    <3>4. IsFiniteSet(B) /\ Cardinality(B) = g.enq
      <4>0. 0 \in Int /\ (g.enq - 1) \in Int
        BY <1>1
      <4>1. IsFiniteSet(B) /\ Cardinality(B) = IF 0 > g.enq - 1 THEN 0 ELSE (g.enq - 1) - 0 + 1
        BY <4>0, FS_Interval
      <4>2. QED
        BY <1>1, <4>1
    <3>5. A \cap B = {}
      BY <1>1, <3>1
    <3>6. Cardinality(A \cap B) = 0
      BY <3>5, FS_EmptySet
    <3> HIDE DEF A, B
    <3>7. Cardinality(A \cup B) = Cardinality(A) + Cardinality(B) - Cardinality(A \cap B)
      BY <3>3, <3>4, FS_Union
    <3>8. QED
      BY <1>1, <3>1, <3>2, <3>3, <3>4, <3>6, <3>7
  <2>3. QED
    BY <2>1, <2>2
<1>4. Unseen(r, g, o, 0) \in Nat
  BY UnseenIs
<1>5. QED
  BY <1>1, <1>2, <1>3, <1>4

-----------------------------------------------------------------------------
(* The pending events of a ring, and the requests they are about. *)

\* An event of the event ring.
Event == [ring : Rings, trb : Nat, id : Nat, code : {"ok", "mode", "error"}]

\* The events of ring r among those pending.
Posts(r, p) == {k \in DOMAIN p : p[k].ring = r}

\* The requests b+1 to y of ring r, and no others, have one event each, in this order.
Reported(r, b, y, p) ==
  /\ \A k \in Posts(r, p) : b < p[k].id /\ p[k].id <= y
  /\ \A n \in Nat : b < n /\ n <= y => \E k \in Posts(r, p) : p[k].id = n
  /\ \A k, l \in Posts(r, p) : k < l => p[k].id < p[l].id

\* The elements of a sequence with one more at its end.
LEMMA Appended ==
  ASSUME NEW p \in Seq(Event), NEW e \in Event
  PROVE  /\ Append(p, e) \in Seq(Event) /\ Len(Append(p, e)) = Len(p) + 1
         /\ DOMAIN p = 1..Len(p) /\ Len(p) \in Nat
         /\ DOMAIN Append(p, e) = 1..(Len(p) + 1)
         /\ \A k \in DOMAIN p : Append(p, e)[k] = p[k]
         /\ Append(p, e)[Len(p) + 1] = e
OBVIOUS

\* The elements of a sequence without its first.
LEMMA Behead ==
  ASSUME NEW p \in Seq(Event), p # <<>>
  PROVE  /\ Tail(p) \in Seq(Event) /\ DOMAIN p = 1..Len(p) /\ Len(p) \in Nat /\ Len(p) >= 1
         /\ DOMAIN Tail(p) = 1..(Len(p) - 1)
         /\ \A k \in DOMAIN Tail(p) : Tail(p)[k] = p[k + 1]
         /\ p[1] = Head(p) /\ Head(p) \in Event /\ \A k \in DOMAIN p : p[k] \in Event
OBVIOUS

\* An event of another ring posted.
LEMMA PostOther ==
  ASSUME NEW r \in Rings, NEW b, NEW y, NEW p \in Seq(Event), NEW e \in Event, e.ring # r,
         Reported(r, b, y, p)
  PROVE  Reported(r, b, y, Append(p, e))
<1> DEFINE q == Append(p, e)
<1>1. /\ DOMAIN p = 1..Len(p) /\ Len(p) \in Nat /\ DOMAIN q = 1..(Len(p) + 1)
      /\ (\A k \in DOMAIN p : q[k] = p[k]) /\ q[Len(p) + 1] = e
  BY Appended
<1> HIDE DEF q
<1>2. Posts(r, q) = Posts(r, p)
  BY <1>1 DEF Posts
<1>3. \A k \in Posts(r, p) : q[k] = p[k]
  BY <1>1 DEF Posts
<1>4. QED
  BY <1>2, <1>3 DEF Reported, q

\* The event of the next request posted.
LEMMA PostNext ==
  ASSUME NEW r \in Rings, NEW b \in Nat, NEW y \in Nat, b <= y, NEW p \in Seq(Event), NEW e \in Event,
         e.ring = r, e.id = y + 1, Reported(r, b, y, p)
  PROVE  Reported(r, b, y + 1, Append(p, e))
<1> DEFINE q == Append(p, e)
<1>1. /\ DOMAIN p = 1..Len(p) /\ Len(p) \in Nat /\ DOMAIN q = 1..(Len(p) + 1)
      /\ (\A k \in DOMAIN p : q[k] = p[k]) /\ q[Len(p) + 1] = e
  BY Appended
<1> HIDE DEF q
<1>2. Posts(r, q) = Posts(r, p) \cup {Len(p) + 1}
  BY <1>1 DEF Posts
<1>3. \A k \in Posts(r, p) : q[k] = p[k] /\ k < Len(p) + 1 /\ k \in Nat /\ p[k] \in Event
  BY <1>1 DEF Posts
<1>4. \A k \in Posts(r, q) : b < q[k].id /\ q[k].id <= y + 1
  <2> SUFFICES ASSUME NEW k \in Posts(r, q) PROVE b < q[k].id /\ q[k].id <= y + 1
    OBVIOUS
  <2>1. CASE k \in Posts(r, p)
    <3>1. b < p[k].id /\ p[k].id <= y /\ p[k].id \in Nat
      BY <1>3, <2>1 DEF Reported, Event
    <3>2. QED
      BY <1>3, <2>1, <3>1
  <2>2. CASE k = Len(p) + 1
    BY <1>1, <2>2
  <2>3. QED
    BY <1>2, <2>1, <2>2
<1>5. \A n \in Nat : b < n /\ n <= y + 1 => \E k \in Posts(r, q) : q[k].id = n
  <2> SUFFICES ASSUME NEW n \in Nat, b < n, n <= y + 1 PROVE \E k \in Posts(r, q) : q[k].id = n
    OBVIOUS
  <2>1. CASE n <= y
    BY <1>2, <1>3, <2>1 DEF Reported
  <2>2. CASE n = y + 1
    BY <1>1, <1>2, <2>2
  <2>3. QED
    BY <2>1, <2>2
<1>6. \A k, l \in Posts(r, q) : k < l => q[k].id < q[l].id
  <2> SUFFICES ASSUME NEW k \in Posts(r, q), NEW l \in Posts(r, q), k < l PROVE q[k].id < q[l].id
    OBVIOUS
  <2>1. k \in Posts(r, p)
    <3>1. k # Len(p) + 1
      BY <1>1, <1>2, <1>3
    <3>2. QED
      BY <1>2, <3>1
  <2>2. CASE l \in Posts(r, p)
    BY <1>3, <2>1, <2>2 DEF Reported
  <2>3. CASE l = Len(p) + 1
    <3>1. p[k].id <= y /\ p[k].id \in Nat
      BY <1>3, <2>1 DEF Reported, Event
    <3>2. q[k].id = p[k].id
      BY <1>3, <2>1
    <3>3. QED
      BY <1>1, <2>3, <3>1, <3>2
  <2>4. QED
    BY <1>2, <2>2, <2>3
<1>7. QED
  BY <1>4, <1>5, <1>6 DEF Reported, q

\* An event of another ring handled.
LEMMA TakeOther ==
  ASSUME NEW r \in Rings, NEW b, NEW y, NEW p \in Seq(Event), p # <<>>, Head(p).ring # r,
         Reported(r, b, y, p)
  PROVE  Reported(r, b, y, Tail(p))
<1> DEFINE q == Tail(p)
<1>1. /\ DOMAIN p = 1..Len(p) /\ Len(p) \in Nat /\ Len(p) >= 1
      /\ DOMAIN q = 1..(Len(p) - 1)
      /\ \A k \in DOMAIN q : q[k] = p[k + 1]
      /\ p[1].ring # r
  BY Behead
<1> HIDE DEF q
<1>2. \A k \in Posts(r, q) : k + 1 \in Posts(r, p) /\ q[k] = p[k + 1] /\ k \in Nat
  BY <1>1 DEF Posts
<1>3. \A k \in Posts(r, p) : k - 1 \in Posts(r, q) /\ q[k - 1] = p[k]
  <2> SUFFICES ASSUME NEW k \in Posts(r, p) PROVE k - 1 \in Posts(r, q) /\ q[k - 1] = p[k]
    OBVIOUS
  <2>1. k \in 1..Len(p) /\ k # 1 /\ p[k].ring = r
    BY <1>1 DEF Posts
  <2>2. k - 1 \in DOMAIN q /\ (k - 1) + 1 = k
    BY <1>1, <2>1
  <2>3. q[k - 1] = p[k]
    BY <1>1, <2>2
  <2>4. QED
    BY <2>1, <2>2, <2>3 DEF Posts
<1>4. \A k \in Posts(r, q) : b < q[k].id /\ q[k].id <= y
  BY <1>2 DEF Reported
<1>5. \A n \in Nat : b < n /\ n <= y => \E k \in Posts(r, q) : q[k].id = n
  BY <1>3 DEF Reported
<1>6. \A k, l \in Posts(r, q) : k < l => q[k].id < q[l].id
  <2> SUFFICES ASSUME NEW k \in Posts(r, q), NEW l \in Posts(r, q), k < l PROVE q[k].id < q[l].id
    OBVIOUS
  <2>1. k + 1 < l + 1
    BY <1>2
  <2>2. QED
    BY <1>2, <2>1 DEF Reported
<1>7. QED
  BY <1>4, <1>5, <1>6 DEF Reported, q

\* The event of the oldest request handled.
LEMMA TakeOldest ==
  ASSUME NEW r \in Rings, NEW b \in Nat, NEW y \in Nat, b <= y, NEW p \in Seq(Event), p # <<>>,
         Head(p).ring = r, Reported(r, b, y, p)
  PROVE  /\ Head(p).id = b + 1 /\ b + 1 <= y
         /\ Reported(r, b + 1, y, Tail(p))
<1> DEFINE q == Tail(p)
<1>1. /\ DOMAIN p = 1..Len(p) /\ Len(p) \in Nat /\ Len(p) >= 1
      /\ DOMAIN q = 1..(Len(p) - 1)
      /\ \A k \in DOMAIN q : q[k] = p[k + 1]
      /\ p[1] = Head(p) /\ Head(p) \in Event /\ \A k \in DOMAIN p : p[k] \in Event
  BY Behead
<1> HIDE DEF q
<1>2. \A k \in Posts(r, p) : k \in 1..Len(p) /\ p[k] \in Event /\ p[k].id \in Nat
  BY <1>1 DEF Posts, Event
<1>3. 1 \in Posts(r, p)
  BY <1>1 DEF Posts
<1>4. b < p[1].id /\ p[1].id <= y
  BY <1>3 DEF Reported
<1>5. \E k \in Posts(r, p) : p[k].id = b + 1
  <2>1. b + 1 \in Nat /\ b < b + 1 /\ b + 1 <= y
    BY <1>2, <1>3, <1>4
  <2>2. QED
    BY <2>1 DEF Reported
<1>6. p[1].id = b + 1
  <2>1. PICK k \in Posts(r, p) : p[k].id = b + 1
    BY <1>5
  <2>2. CASE k = 1
    BY <2>1, <2>2
  <2>3. CASE k # 1
    <3>1. 1 < k
      BY <1>2, <2>3
    <3>2. p[1].id < p[k].id
      BY <1>3, <3>1 DEF Reported
    <3>3. QED
      BY <1>2, <1>3, <1>4, <2>1, <3>2
  <2>4. QED
    BY <2>2, <2>3
<1>7. \A k \in Posts(r, q) : k + 1 \in Posts(r, p) /\ q[k] = p[k + 1] /\ k \in Nat /\ k >= 1
  BY <1>1 DEF Posts
<1>8. ASSUME NEW k \in Posts(r, p), k # 1 PROVE k - 1 \in Posts(r, q) /\ q[k - 1] = p[k]
  <2>1. k \in 1..Len(p) /\ k # 1 /\ p[k].ring = r
    BY <1>1, <1>8 DEF Posts
  <2>2. k - 1 \in DOMAIN q /\ (k - 1) + 1 = k
    BY <1>1, <2>1
  <2>3. q[k - 1] = p[k]
    BY <1>1, <2>2
  <2>4. QED
    BY <2>1, <2>2, <2>3 DEF Posts
<1>9. \A k \in Posts(r, q) : b + 1 < q[k].id /\ q[k].id <= y
  <2> SUFFICES ASSUME NEW k \in Posts(r, q) PROVE b + 1 < q[k].id /\ q[k].id <= y
    OBVIOUS
  <2>1. 1 < k + 1 /\ k + 1 \in Posts(r, p) /\ q[k] = p[k + 1]
    BY <1>7
  <2>2. p[1].id < p[k + 1].id /\ p[k + 1].id <= y
    BY <1>3, <2>1 DEF Reported
  <2>3. QED
    BY <1>6, <2>1, <2>2
<1>10. \A n \in Nat : b + 1 < n /\ n <= y => \E k \in Posts(r, q) : q[k].id = n
  <2> SUFFICES ASSUME NEW n \in Nat, b + 1 < n, n <= y PROVE \E k \in Posts(r, q) : q[k].id = n
    OBVIOUS
  <2>1. b < n
    OBVIOUS
  <2>2. PICK k \in Posts(r, p) : p[k].id = n
    BY <2>1 DEF Reported
  <2>3. k # 1
    BY <1>6, <2>2
  <2>4. QED
    BY <1>8, <2>2, <2>3
<1>11. \A k, l \in Posts(r, q) : k < l => q[k].id < q[l].id
  <2> SUFFICES ASSUME NEW k \in Posts(r, q), NEW l \in Posts(r, q), k < l PROVE q[k].id < q[l].id
    OBVIOUS
  <2>1. k + 1 < l + 1
    BY <1>7
  <2>2. QED
    BY <1>7, <2>1 DEF Reported
<1>12. Reported(r, b + 1, y, q)
  BY <1>9, <1>10, <1>11 DEF Reported
<1>13. QED
  BY <1>1, <1>2, <1>3, <1>4, <1>6, <1>12 DEF q

-----------------------------------------------------------------------------
(* The requests of an endpoint: in m_pURB, in the ring, in pending events. *)

\* The task.
TaskType == [pc : {"idle", "take", "fill", "step", "wait", "expired"}, ring : Rings \cup {"none"},
             id : Nat, stage : {0, 1, 2}, trb : Nat]

\* The task submits a request to ring r: how many TRBs it has filled and not
\* stepped over, taken, and not filled yet.
Working(r, t) == t.ring = r /\ t.pc \in {"take", "fill", "step"}
Filled(r, t) == IF t.ring = r /\ t.pc = "step" THEN 1 ELSE 0
Taken(r, t) == IF t.ring = r /\ t.pc \in {"fill", "step"} THEN 1 ELSE 0
Missing(r, t) ==
  IF ~Working(r, t) THEN 0
  ELSE IF t.pc = "step" THEN Stages(r) - t.stage ELSE Stages(r) - t.stage + 1

\* TRBs of the requests made that the controller has not read, and the requests
\* these are; the TRB of request n, or before it, with l-1-j TRBs to follow.
Ready(r, d, h, t) == Unseen(r, d.ring[r], h, Filled(r, t))
Left(r, d, h, t) == Ready(r, d, h, t) + Missing(r, t)
Owed(r, l) == IF r # "ep0" THEN l ELSE IF l = 0 THEN 0 ELSE 1
Request(r, n, l, j) == [id  |-> IF r = "ep0" THEN n ELSE n - (l - 1 - j),
                        ioc |-> r = "ep0" => j = l - 1]

\* The requests of an endpoint up to this one are handled, the others are in m_pURB.
Base(r, d) == d.made[r] - Len(d.urb[r])

Queued(r, d) ==
  /\ d.made[r] \in Nat /\ d.urb[r] \in Seq(Nat) /\ Len(d.urb[r]) <= 2 /\ Len(d.urb[r]) <= d.made[r]
  /\ \A k \in 1..Len(d.urb[r]) : d.urb[r][k] = Base(r, d) + k

\* Those that the controller has completed have their events, in order.
Answers(r, d, h, t, p) ==
  \E y \in Nat :
    /\ Base(r, d) <= y /\ y <= d.made[r]
    /\ IF h.halted THEN y # 0 ELSE y = d.made[r] - Owed(r, Left(r, d, h, t))
    /\ Reported(r, Base(r, d), y, p)

\* The task that submits or waits.
Waiter(r, d, t) ==
  t.ring = r =>
    /\ d.done[r] <=> t.id <= Base(r, d)
    /\ Working(r, t) => t.id = d.made[r] /\ t.stage \in 1..Stages(r)
    /\ Taken(r, t) = 1 => t.trb = d.ring[r].enq

\* The control endpoint has one request at a time.
Control(r, d, h, t) ==
  r = "ep0" =>
    /\ t.ring # r => Base(r, d) = d.made[r]
    /\ t.ring = r => t.id = d.made[r] /\ d.made[r] <= Base(r, d) + 1
    /\ ~h.halted => Left(r, d, h, t) <= 2

\* The TRBs that the controller will read belong to the last requests made.
Content(r, d, h, t) ==
  \A j \in Nat : j < Ready(r, d, h, t) =>
    d.ring[r].trb[At(r, h, j)] = Request(r, d.made[r], Left(r, d, h, t), j)

\* The requests of an endpoint are accounted for.
Tracks(r, d, h, t, p) ==
  /\ InOrder(r, d.ring[r], h, Filled(r, t), Taken(r, t))
  /\ Queued(r, d) /\ Answers(r, d, h, t, p)
  /\ Waiter(r, d, t) /\ Control(r, d, h, t)
  /\ ~h.halted => Content(r, d, h, t)

\* The driver's memory of ring r is the same in d and in c.
Like(r, d, c) ==
  /\ c.ring[r] = d.ring[r] /\ c.urb[r] = d.urb[r]
  /\ c.done[r] = d.done[r] /\ c.made[r] = d.made[r]

\* The numbers that Tracks speaks of.
LEMMA TrackNumbers ==
  ASSUME NEW r \in Endpoints, NEW d, NEW h, NEW t \in TaskType, NEW p, Tracks(r, d, h, t, p)
  PROVE  /\ Ready(r, d, h, t) \in Nat /\ Missing(r, t) \in {0, 1, 2}
         /\ Left(r, d, h, t) \in Nat /\ Ready(r, d, h, t) <= Left(r, d, h, t)
         /\ d.made[r] \in Nat /\ Base(r, d) \in Nat /\ Base(r, d) <= d.made[r]
         /\ Len(d.urb[r]) \in Nat /\ Base(r, d) = d.made[r] - Len(d.urb[r])
         /\ t.id \in Nat /\ r \in Rings
<1>1. Ready(r, d, h, t) \in Nat
  BY UnseenIs DEF Tracks, Ready, Rings
<1>2. Missing(r, t) \in {0, 1, 2}
  <2>1. CASE Working(r, t)
    <3>1. t.stage \in 1..Stages(r) /\ Stages(r) \in {1, 2} /\ t.stage \in {0, 1, 2}
      BY <2>1 DEF Tracks, Waiter, Working, Stages, TaskType
    <3>2. Missing(r, t) = IF t.pc = "step" THEN Stages(r) - t.stage ELSE Stages(r) - t.stage + 1
      BY <2>1 DEF Missing
    <3>3. QED
      BY <3>1, <3>2
  <2>2. CASE ~Working(r, t)
    BY <2>2 DEF Missing
  <2>3. QED
    BY <2>1, <2>2
<1>3. Left(r, d, h, t) \in Nat /\ Ready(r, d, h, t) <= Left(r, d, h, t)
  BY <1>1, <1>2 DEF Left
<1>4. d.made[r] \in Nat /\ Len(d.urb[r]) \in Nat /\ Len(d.urb[r]) <= d.made[r]
  BY DEF Tracks, Queued
<1>5. Base(r, d) \in Nat /\ Base(r, d) <= d.made[r]
  BY <1>4 DEF Base
<1>6. QED
  BY <1>1, <1>2, <1>3, <1>4, <1>5 DEF TaskType, Rings, Base

\* Nothing changes where the driver's memory of the ring does not.
LEMMA TracksLike ==
  ASSUME NEW r, NEW d, NEW h, NEW t, NEW p, NEW c, Tracks(r, d, h, t, p), Like(r, d, c)
  PROVE  Tracks(r, c, h, t, p)
<1>1. Base(r, c) = Base(r, d)
  BY DEF Like, Base
<1>2. Ready(r, c, h, t) = Ready(r, d, h, t)
  BY DEF Like, Ready
<1>3. Left(r, c, h, t) = Left(r, d, h, t)
  BY <1>2 DEF Left
<1>4. Queued(r, c)
  BY <1>1 DEF Like, Tracks, Queued
<1>5. Answers(r, c, h, t, p)
  BY <1>1, <1>3 DEF Like, Tracks, Answers
<1>6. Waiter(r, c, t)
  BY <1>1 DEF Like, Tracks, Waiter
<1>7. Control(r, c, h, t)
  BY <1>1, <1>3 DEF Like, Tracks, Control
<1>8. ~h.halted => Content(r, c, h, t)
  BY <1>2, <1>3 DEF Like, Tracks, Content
<1>9. QED
  BY <1>4, <1>5, <1>6, <1>7, <1>8 DEF Like, Tracks

\* What the task does on another ring changes nothing.
LEMMA TracksElsewhere ==
  ASSUME NEW r, NEW d, NEW h, NEW t, NEW u, NEW p, Tracks(r, d, h, t, p), t.ring # r, u.ring # r
  PROVE  Tracks(r, d, h, u, p)
<1>1. /\ Filled(r, t) = Filled(r, u) /\ Taken(r, t) = Taken(r, u) /\ Missing(r, t) = Missing(r, u)
  BY DEF Filled, Taken, Missing, Working
<1>2. Ready(r, d, h, u) = Ready(r, d, h, t)
  BY <1>1 DEF Ready
<1>3. Left(r, d, h, u) = Left(r, d, h, t)
  BY <1>1, <1>2 DEF Left
<1>4. Answers(r, d, h, u, p)
  BY <1>3 DEF Tracks, Answers
<1>5. Waiter(r, d, u)
  BY DEF Waiter
<1>6. Control(r, d, h, u)
  BY <1>3 DEF Tracks, Control
<1>7. ~h.halted => Content(r, d, h, u)
  BY <1>2, <1>3 DEF Tracks, Content
<1>8. QED
  BY <1>1, <1>4, <1>5, <1>6, <1>7 DEF Tracks

\* An event of another ring changes nothing when it is posted ...
LEMMA TracksOtherPost ==
  ASSUME NEW r \in Rings, NEW d, NEW h, NEW t, NEW p \in Seq(Event), NEW e \in Event, e.ring # r,
         Tracks(r, d, h, t, p)
  PROVE  Tracks(r, d, h, t, Append(p, e))
<1>1. Answers(r, d, h, t, Append(p, e))
  BY PostOther DEF Tracks, Answers
<1>2. QED
  BY <1>1 DEF Tracks

\* ... and when it is handled.
LEMMA TracksOtherTake ==
  ASSUME NEW r \in Rings, NEW d, NEW h, NEW t, NEW p \in Seq(Event), p # <<>>, Head(p).ring # r,
         Tracks(r, d, h, t, p)
  PROVE  Tracks(r, d, h, t, Tail(p))
<1>1. Answers(r, d, h, t, Tail(p))
  BY TakeOther DEF Tracks, Answers
<1>2. QED
  BY <1>1 DEF Tracks

\* The event handled first is about the oldest request of m_pURB.
LEMMA OldestMatches ==
  ASSUME NEW r \in Endpoints, NEW d, NEW h, NEW t \in TaskType, NEW p \in Seq(Event), p # <<>>,
         Head(p).ring = r, Tracks(r, d, h, t, p)
  PROVE  /\ d.urb[r] # <<>> /\ Len(d.urb[r]) >= 1
         /\ Head(p).id = Base(r, d) + 1 /\ Head(d.urb[r]) = Base(r, d) + 1
         /\ Base(r, d) + 1 <= d.made[r]
<1>0. /\ d.made[r] \in Nat /\ Base(r, d) \in Nat /\ Base(r, d) <= d.made[r]
      /\ Len(d.urb[r]) \in Nat /\ Base(r, d) = d.made[r] - Len(d.urb[r]) /\ r \in Rings
  BY TrackNumbers
<1>1. PICK y \in Nat : Base(r, d) <= y /\ y <= d.made[r] /\ Reported(r, Base(r, d), y, p)
  BY DEF Tracks, Answers
<1>2. Head(p).id = Base(r, d) + 1 /\ Base(r, d) + 1 <= y
  BY <1>0, <1>1, TakeOldest
<1>3. Base(r, d) + 1 <= d.made[r]
  BY <1>0, <1>1, <1>2
<1>4. Len(d.urb[r]) >= 1
  BY <1>0, <1>3
<1>5. d.urb[r] \in Seq(Nat) /\ d.urb[r][1] = Base(r, d) + 1
  BY <1>4 DEF Tracks, Queued
<1>6. d.urb[r] # <<>> /\ Head(d.urb[r]) = d.urb[r][1]
  BY <1>4, <1>5
<1>7. QED
  BY <1>2, <1>3, <1>4, <1>5, <1>6

\* A request queued is the newest in m_pURB.
LEMMA QueueMore ==
  ASSUME NEW r, NEW d, NEW c, Queued(r, d), Len(d.urb[r]) < 2,
         c.urb[r] = Append(d.urb[r], d.made[r] + 1), c.made[r] = d.made[r] + 1
  PROVE  Queued(r, c) /\ Base(r, c) = Base(r, d)
<1> DEFINE q == d.urb[r]
<1> DEFINE n == d.made[r]
<1> DEFINE s == c.urb[r]
<1>1. n \in Nat /\ q \in Seq(Nat) /\ Len(q) \in Nat /\ Len(q) <= n /\ Len(q) < 2
  BY DEF Queued
<1>2. \A k \in 1..Len(q) : q[k] = n - Len(q) + k
  BY DEF Queued, Base
<1>3. s = Append(q, n + 1) /\ c.made[r] = n + 1
  OBVIOUS
<1> HIDE DEF q, n, s
<1>4. s \in Seq(Nat) /\ Len(s) = Len(q) + 1
  BY <1>1, <1>3
<1>5. \A k \in 1..Len(s) : s[k] = IF k = Len(q) + 1 THEN n + 1 ELSE q[k]
  BY <1>1, <1>3
<1>6. \A k \in 1..Len(s) : s[k] = (n + 1) - Len(s) + k
  BY <1>1, <1>2, <1>4, <1>5
<1>7. (n + 1) - Len(s) = n - Len(q)
  BY <1>1, <1>4
<1>8. Base(r, c) = (n + 1) - Len(s)
  BY <1>3 DEF Base, s
<1>9. Base(r, d) = n - Len(q)
  BY DEF Base, n, q
<1>10. c.made[r] \in Nat /\ s \in Seq(Nat) /\ Len(s) <= 2 /\ Len(s) <= c.made[r]
  BY <1>1, <1>3, <1>4
<1>11. Queued(r, c)
  BY <1>6, <1>8, <1>10 DEF Queued, s
<1>12. QED
  BY <1>7, <1>8, <1>9, <1>11

\* A request completed was the oldest in m_pURB.
LEMMA QueueLess ==
  ASSUME NEW r, NEW d, NEW c, Queued(r, d), Len(d.urb[r]) >= 1,
         c.urb[r] = Tail(d.urb[r]), c.made[r] = d.made[r]
  PROVE  Queued(r, c) /\ Base(r, c) = Base(r, d) + 1
<1> DEFINE q == d.urb[r]
<1> DEFINE n == d.made[r]
<1> DEFINE s == c.urb[r]
<1>1. n \in Nat /\ q \in Seq(Nat) /\ Len(q) \in Nat /\ Len(q) <= n /\ Len(q) >= 1 /\ Len(q) <= 2
  BY DEF Queued
<1>2. \A k \in 1..Len(q) : q[k] = n - Len(q) + k
  BY DEF Queued, Base
<1>3. s = Tail(q) /\ c.made[r] = n
  OBVIOUS
<1> HIDE DEF q, n, s
<1>4. s \in Seq(Nat) /\ Len(s) = Len(q) - 1
  BY <1>1, <1>3
<1>5. \A k \in 1..Len(s) : s[k] = q[k + 1]
  BY <1>1, <1>3
<1>6. \A k \in 1..Len(s) : s[k] = n - Len(s) + k
  BY <1>1, <1>2, <1>4, <1>5
<1>7. n - Len(s) = n - Len(q) + 1
  BY <1>1, <1>4
<1>8. Base(r, c) = n - Len(s)
  BY <1>3 DEF Base, s
<1>9. Base(r, d) = n - Len(q)
  BY DEF Base, n, q
<1>10. c.made[r] \in Nat /\ s \in Seq(Nat) /\ Len(s) <= 2 /\ Len(s) <= c.made[r]
  BY <1>1, <1>3, <1>4
<1>11. Queued(r, c)
  BY <1>6, <1>8, <1>10 DEF Queued, s
<1>12. QED
  BY <1>7, <1>8, <1>9, <1>11

\* A request more, and the TRBs of the others are still theirs.
LEMMA RequestOfOther ==
  ASSUME NEW r, r # "ep0", NEW n \in Nat, NEW l \in Nat, NEW j \in Nat
  PROVE  Request(r, n + 1, l + 1, j) = Request(r, n, l, j)
<1>1. n + 1 - (l + 1 - 1 - j) = n - (l - 1 - j)
  OBVIOUS
<1>2. QED
  BY <1>1 DEF Request

\* A TRB less, and the others are still those of their requests.
LEMMA RequestAfter ==
  ASSUME NEW r, NEW n \in Nat, NEW l \in Nat, NEW j \in Nat
  PROVE  Request(r, n, l, j) = Request(r, n, l + 1, j + 1)
<1>1. n - (l - 1 - j) = n - (l + 1 - 1 - (j + 1))
  OBVIOUS
<1>2. j = l - 1 <=> j + 1 = l + 1 - 1
  OBVIOUS
<1>3. QED
  BY <1>1, <1>2 DEF Request

\* A request of one TRB asks for an event.
LEMMA RequestOfOneTRB ==
  ASSUME NEW r, r # "ep0", NEW n \in Nat, NEW l \in Nat, NEW j \in Nat
  PROVE  Request(r, n, l, j) = [id |-> n - (l - 1 - j), ioc |-> TRUE]
BY DEF Request

\* The numbers of Tracks, where the task does not submit.
LEMMA NotWorking ==
  ASSUME NEW r, NEW d, NEW h, NEW t, ~Working(r, t)
  PROVE  /\ Filled(r, t) = 0 /\ Taken(r, t) = 0 /\ Missing(r, t) = 0
         /\ Ready(r, d, h, t) = Unseen(r, d.ring[r], h, 0)
         /\ Left(r, d, h, t) = Ready(r, d, h, t) + 0
BY DEF Filled, Taken, Missing, Ready, Left, Working

\* A request submitted in one go, while the task does not submit to this
\* endpoint and the ring has room.
LEMMA TracksSubmit ==
  ASSUME NEW r \in {"out", "in"}, NEW d, NEW h, NEW t \in TaskType, NEW p, NEW c,
         Tracks(r, d, h, t, p), ~Working(r, t),
         Unseen(r, d.ring[r], h, 0) + 1 < Link(r), Len(d.urb[r]) < 2,
         c.urb[r] = Append(d.urb[r], d.made[r] + 1), c.made[r] = d.made[r] + 1,
         c.done[r] = d.done[r],
         c.ring[r] = IncrementEnqueue(Fill(d.ring[r], d.ring[r].enq, [id |-> d.made[r] + 1, ioc |-> TRUE]))
  PROVE  Tracks(r, c, h, t, p)
<1> DEFINE g == d.ring[r]
<1> DEFINE x == [id |-> d.made[r] + 1, ioc |-> TRUE]
<1> DEFINE g1 == Fill(g, g.enq, x)
<1> DEFINE n == d.made[r]
<1>1. r \in Rings /\ r # "ep0" /\ r \in Endpoints
  BY DEF Rings, Endpoints
<1>2. /\ Ready(r, d, h, t) \in Nat /\ n \in Nat /\ Base(r, d) \in Nat
  BY <1>1, TrackNumbers
<1>3. x \in Trb
  BY <1>2 DEF Trb
<1>4. /\ Filled(r, t) = 0 /\ Taken(r, t) = 0 /\ Missing(r, t) = 0
      /\ Ready(r, d, h, t) = Unseen(r, g, h, 0) /\ Ready(r, c, h, t) = Unseen(r, c.ring[r], h, 0)
      /\ Left(r, d, h, t) = Ready(r, d, h, t) + 0 /\ Left(r, c, h, t) = Ready(r, c, h, t) + 0
  BY NotWorking
<1>5. InOrder(r, g, h, 0, 1)
  BY <1>1, <1>4, TakeInOrder DEF Tracks
<1> HIDE DEF x
<1>6. /\ InOrder(r, g1, h, 1, 1)
      /\ Unseen(r, g1, h, 1) = Unseen(r, g, h, 0) + 1
      /\ \A j \in Nat : j < Unseen(r, g, h, 0) => g1.trb[At(r, h, j)] = g.trb[At(r, h, j)]
      /\ g1.trb[At(r, h, Unseen(r, g, h, 0))] = x
  BY <1>1, <1>3, <1>5, FillInOrder
<1> HIDE DEF g1
<1>7. /\ InOrder(r, c.ring[r], h, 0, 0)
      /\ Unseen(r, c.ring[r], h, 0) = Unseen(r, g1, h, 1)
      /\ c.ring[r].trb = g1.trb
  BY <1>1, <1>6, StepInOrder DEF g1, x
<1>8. Queued(r, c) /\ Base(r, c) = Base(r, d)
  BY QueueMore DEF Tracks
<1> DEFINE m == Ready(r, d, h, t)
<1>9. Ready(r, c, h, t) = m + 1
  BY <1>4, <1>6, <1>7
<1>10. Left(r, d, h, t) = m /\ Left(r, c, h, t) = m + 1
  BY <1>2, <1>4, <1>9
<1>11. Answers(r, c, h, t, p)
  <2>1. PICK y \in Nat :
          /\ Base(r, d) <= y /\ y <= n
          /\ IF h.halted THEN y # 0 ELSE y = n - Owed(r, Left(r, d, h, t))
          /\ Reported(r, Base(r, d), y, p)
    BY DEF Tracks, Answers
  <2>2. ~h.halted => y = (n + 1) - Owed(r, Left(r, c, h, t))
    BY <1>1, <1>2, <1>10, <2>1 DEF Owed
  <2>3. y <= n + 1
    BY <1>2, <2>1
  <2>4. QED
    BY <1>8, <2>1, <2>2, <2>3 DEF Answers
<1>12. Waiter(r, c, t)
  <2>1. t.ring = r => (d.done[r] <=> t.id <= Base(r, d))
    BY DEF Tracks, Waiter
  <2>2. QED
    BY <1>4, <1>8, <2>1 DEF Waiter
<1>13. Control(r, c, h, t)
  BY <1>1 DEF Control
<1>14. ~h.halted => Content(r, c, h, t)
  <2> SUFFICES ASSUME ~h.halted, NEW j \in Nat, j < m + 1
               PROVE  g1.trb[At(r, h, j)] = Request(r, n + 1, m + 1, j)
    BY <1>7, <1>9, <1>10 DEF Content
  <2>1. CASE j < m
    <3>1. g.trb[At(r, h, j)] = Request(r, n, m, j)
      BY <1>10, <2>1 DEF Tracks, Content
    <3>2. g1.trb[At(r, h, j)] = g.trb[At(r, h, j)]
      BY <1>4, <1>6, <2>1
    <3>3. Request(r, n + 1, m + 1, j) = Request(r, n, m, j)
      BY <1>1, <1>2, RequestOfOther
    <3>4. QED
      BY <3>1, <3>2, <3>3
  <2>2. CASE j = m
    <3>1. g1.trb[At(r, h, j)] = x
      BY <1>4, <1>6, <2>2
    <3> DEFINE a == n + 1
    <3> DEFINE b == m + 1
    <3>2. a \in Nat /\ b \in Nat /\ b - 1 - j = 0 /\ a - (b - 1 - j) = a
      BY <1>2, <2>2
    <3>3. x = [id |-> a, ioc |-> TRUE]
      BY DEF x
    <3> HIDE DEF a, b
    <3>4. Request(r, a, b, j) = [id |-> a - (b - 1 - j), ioc |-> TRUE]
      BY <1>1, <3>2, RequestOfOneTRB
    <3>5. Request(r, a, b, j) = x
      BY <3>2, <3>3, <3>4
    <3>6. QED
      BY <3>1, <3>5 DEF a, b
  <2>3. QED
    BY <1>2, <2>1, <2>2
<1>15. QED
  BY <1>4, <1>7, <1>8, <1>11, <1>12, <1>13, <1>14 DEF Tracks

\* The oldest request completed: TransferEvent takes it from m_pURB, and wakes
\* the task if that is the request it waits for.
LEMMA TracksHandled ==
  ASSUME NEW r \in Endpoints, NEW d, NEW h, NEW t \in TaskType, NEW p \in Seq(Event), p # <<>>,
         Head(p).ring = r, Tracks(r, d, h, t, p), NEW c,
         c.urb[r] = Tail(d.urb[r]), c.made[r] = d.made[r], c.ring[r] = d.ring[r],
         d.done[r] \in BOOLEAN,
         c.done[r] = IF t.ring = r /\ t.id = Head(d.urb[r]) THEN TRUE ELSE d.done[r]
  PROVE  Tracks(r, c, h, t, Tail(p))
<1>1. /\ d.made[r] \in Nat /\ Base(r, d) \in Nat /\ Base(r, d) <= d.made[r] /\ t.id \in Nat
      /\ r \in Rings
  BY TrackNumbers
<1>2. /\ Len(d.urb[r]) >= 1 /\ Head(d.urb[r]) = Base(r, d) + 1 /\ Base(r, d) + 1 <= d.made[r]
  BY OldestMatches
<1>3. Queued(r, c) /\ Base(r, c) = Base(r, d) + 1
  BY <1>2, QueueLess DEF Tracks
<1>4. Ready(r, c, h, t) = Ready(r, d, h, t)
  BY DEF Ready
<1>5. Left(r, c, h, t) = Left(r, d, h, t)
  BY <1>4 DEF Left
<1>6. Answers(r, c, h, t, Tail(p))
  <2>1. PICK y \in Nat :
          /\ Base(r, d) <= y /\ y <= d.made[r]
          /\ IF h.halted THEN y # 0 ELSE y = d.made[r] - Owed(r, Left(r, d, h, t))
          /\ Reported(r, Base(r, d), y, p)
    BY DEF Tracks, Answers
  <2>2. Base(r, d) + 1 <= y /\ Reported(r, Base(r, d) + 1, y, Tail(p))
    BY <1>1, <2>1, TakeOldest
  <2>3. QED
    BY <1>3, <1>5, <2>1, <2>2 DEF Answers
<1>7. Waiter(r, c, t)
  <2> SUFFICES ASSUME t.ring = r
               PROVE  /\ c.done[r] <=> t.id <= Base(r, c)
                      /\ Working(r, t) => t.id = c.made[r] /\ t.stage \in 1..Stages(r)
                      /\ Taken(r, t) = 1 => t.trb = c.ring[r].enq
    BY DEF Waiter
  <2>1. d.done[r] <=> t.id <= Base(r, d)
    BY DEF Tracks, Waiter
  <2>2. c.done[r] <=> (t.id = Base(r, d) + 1 \/ t.id <= Base(r, d))
    <3>1. CASE t.id = Head(d.urb[r])
      BY <1>2, <3>1
    <3>2. CASE t.id # Head(d.urb[r])
      <4>1. c.done[r] = d.done[r] /\ t.id # Base(r, d) + 1
        BY <1>2, <3>2
      <4>2. QED
        BY <2>1, <4>1
    <3>3. QED
      BY <3>1, <3>2
  <2>3. (t.id = Base(r, d) + 1 \/ t.id <= Base(r, d)) <=> t.id <= Base(r, c)
    BY <1>1, <1>3
  <2>4. QED
    BY <2>2, <2>3 DEF Tracks, Waiter
<1>8. Control(r, c, h, t)
  <2> SUFFICES ASSUME r = "ep0"
               PROVE  /\ t.ring # r => Base(r, c) = c.made[r]
                      /\ t.ring = r => t.id = c.made[r] /\ c.made[r] <= Base(r, c) + 1
                      /\ ~h.halted => Left(r, c, h, t) <= 2
    BY DEF Control
  <2>1. /\ t.ring # r => Base(r, d) = d.made[r]
        /\ t.ring = r => t.id = d.made[r] /\ d.made[r] <= Base(r, d) + 1
        /\ ~h.halted => Left(r, d, h, t) <= 2
    BY DEF Tracks, Control
  <2>2. QED
    BY <1>1, <1>2, <1>3, <1>5, <2>1
<1>9. ~h.halted => Content(r, c, h, t)
  BY <1>4, <1>5 DEF Tracks, Content
<1>10. QED
  BY <1>3, <1>6, <1>7, <1>8, <1>9 DEF Tracks

\* The task waits, is told that the time is up, or returns: no request changes.
LEMMA TracksWaiting ==
  ASSUME NEW r \in Endpoints, NEW d, NEW h, NEW t \in TaskType, NEW u, NEW p,
         Tracks(r, d, h, t, p), t.ring = r, ~Working(r, t), ~Working(r, u),
         (u.ring = r /\ u.id = t.id) \/ (u.ring # r /\ d.done[r])
  PROVE  Tracks(r, d, h, u, p)
<1>1. /\ d.made[r] \in Nat /\ Base(r, d) \in Nat /\ Base(r, d) <= d.made[r] /\ t.id \in Nat
  BY TrackNumbers
<1>2. /\ Filled(r, t) = 0 /\ Taken(r, t) = 0 /\ Filled(r, u) = 0 /\ Taken(r, u) = 0
      /\ Ready(r, d, h, t) = Unseen(r, d.ring[r], h, 0) /\ Ready(r, d, h, u) = Unseen(r, d.ring[r], h, 0)
      /\ Left(r, d, h, t) = Ready(r, d, h, t) + 0 /\ Left(r, d, h, u) = Ready(r, d, h, u) + 0
  BY NotWorking
<1>3. Left(r, d, h, u) = Left(r, d, h, t) /\ Ready(r, d, h, u) = Ready(r, d, h, t)
  BY <1>2
<1>4. Answers(r, d, h, u, p)
  BY <1>3 DEF Tracks, Answers
<1>5. d.done[r] <=> t.id <= Base(r, d)
  BY DEF Tracks, Waiter
<1>6. Waiter(r, d, u)
  BY <1>2, <1>5 DEF Waiter
<1>7. Control(r, d, h, u)
  <2> SUFFICES ASSUME r = "ep0"
               PROVE  /\ u.ring # r => Base(r, d) = d.made[r]
                      /\ u.ring = r => u.id = d.made[r] /\ d.made[r] <= Base(r, d) + 1
                      /\ ~h.halted => Left(r, d, h, u) <= 2
    BY DEF Control
  <2>1. t.id = d.made[r] /\ d.made[r] <= Base(r, d) + 1 /\ (~h.halted => Left(r, d, h, t) <= 2)
    BY DEF Tracks, Control
  <2>2. QED
    BY <1>1, <1>3, <1>5, <2>1
<1>8. ~h.halted => Content(r, d, h, u)
  BY <1>3 DEF Tracks, Content
<1>9. QED
  BY <1>2, <1>4, <1>6, <1>7, <1>8 DEF Tracks

\* The task makes a request, of which no TRB is in the ring yet.
LEMMA TracksBegin ==
  ASSUME NEW r \in {"ep0", "out"}, NEW d, NEW h, NEW t \in TaskType, NEW u, NEW p, NEW c,
         Tracks(r, d, h, t, p), t.ring # r,
         u = [pc |-> "take", ring |-> r, id |-> d.made[r] + 1, stage |-> 1, trb |-> 0],
         Len(d.urb[r]) < 2, c.urb[r] = Append(d.urb[r], d.made[r] + 1), c.made[r] = d.made[r] + 1,
         c.done[r] = FALSE, c.ring[r] = d.ring[r]
  PROVE  Tracks(r, c, h, u, p)
<1> DEFINE n == d.made[r]
<1> DEFINE m == Ready(r, d, h, t)
<1>0. r \in Endpoints /\ ~Working(r, t)
  BY DEF Endpoints, Working
<1>1. /\ n \in Nat /\ Base(r, d) \in Nat /\ Base(r, d) <= n /\ m \in Nat /\ r \in Rings
  BY <1>0, TrackNumbers
<1>2. Queued(r, c) /\ Base(r, c) = Base(r, d)
  BY QueueMore DEF Tracks
<1>3. /\ Filled(r, t) = 0 /\ Taken(r, t) = 0 /\ m = Unseen(r, d.ring[r], h, 0)
      /\ Left(r, d, h, t) = m + 0
  BY <1>0, NotWorking
<1>4. u.ring = r /\ u.pc = "take" /\ u.id = n + 1 /\ u.stage = 1 /\ Working(r, u)
  BY DEF Working
<1>5. Filled(r, u) = 0 /\ Taken(r, u) = 0 /\ Missing(r, u) = Stages(r)
  BY <1>4 DEF Filled, Taken, Missing, Stages
<1>6. Ready(r, c, h, u) = m
  BY <1>3, <1>5 DEF Ready
<1>7. Left(r, d, h, t) = m /\ Left(r, c, h, u) = m + Stages(r)
  BY <1>1, <1>3, <1>5, <1>6 DEF Left
<1>8. PICK y \in Nat :
          /\ Base(r, d) <= y /\ y <= n
          /\ IF h.halted THEN y # 0 ELSE y = n - Owed(r, m)
          /\ Reported(r, Base(r, d), y, p)
  BY <1>7 DEF Tracks, Answers
<1>9. r = "ep0" => Base(r, d) = n
  BY DEF Tracks, Control
<1>10. r = "ep0" /\ ~h.halted => m = 0
  BY <1>1, <1>8, <1>9 DEF Owed
<1>11. Answers(r, c, h, u, p)
  <2>1. ~h.halted => y = (n + 1) - Owed(r, m + Stages(r))
    <3>1. CASE r = "ep0"
      <4>1. ~h.halted => m = 0
        BY <1>10, <3>1
      <4>2. Stages(r) = 2 /\ Owed(r, 0) = 0 /\ Owed(r, 0 + 2) = 1
        BY <3>1 DEF Owed, Stages
      <4>3. QED
        BY <1>1, <1>8, <4>1, <4>2
    <3>2. CASE r # "ep0"
      <4>1. Stages(r) = 1 /\ Owed(r, m) = m /\ Owed(r, m + 1) = m + 1
        BY <3>2 DEF Owed, Stages
      <4>2. QED
        BY <1>1, <1>8, <4>1
    <3>3. QED
      BY <3>1, <3>2
  <2>2. y <= n + 1
    BY <1>1, <1>8
  <2>3. QED
    BY <1>2, <1>7, <1>8, <2>1, <2>2 DEF Answers
<1>12. Waiter(r, c, u)
  <2>1. ~(u.id <= Base(r, c)) /\ u.id = c.made[r] /\ u.stage \in 1..Stages(r)
    BY <1>1, <1>2, <1>4 DEF Stages
  <2>2. QED
    BY <1>5, <2>1 DEF Waiter
<1>13. Control(r, c, h, u)
  <2> SUFFICES ASSUME r = "ep0"
               PROVE  /\ u.ring # r => Base(r, c) = c.made[r]
                      /\ u.ring = r => u.id = c.made[r] /\ c.made[r] <= Base(r, c) + 1
                      /\ ~h.halted => Left(r, c, h, u) <= 2
    BY DEF Control
  <2>1. c.made[r] <= Base(r, c) + 1
    BY <1>1, <1>2, <1>9
  <2>2. ~h.halted => Left(r, c, h, u) <= 2
    BY <1>7, <1>10 DEF Stages
  <2>3. QED
    BY <1>4, <2>1, <2>2
<1>14. ~h.halted => Content(r, c, h, u)
  <2> SUFFICES ASSUME ~h.halted, NEW j \in Nat, j < m
               PROVE  d.ring[r].trb[At(r, h, j)] = Request(r, n + 1, m + Stages(r), j)
    BY <1>6, <1>7 DEF Content
  <2>1. r # "ep0"
    BY <1>10
  <2>2. d.ring[r].trb[At(r, h, j)] = Request(r, n, m, j)
    BY <1>7 DEF Tracks, Content
  <2>3. Request(r, n + 1, m + 1, j) = Request(r, n, m, j)
    BY <1>1, <2>1, RequestOfOther
  <2>4. Stages(r) = 1
    BY <2>1 DEF Stages
  <2>5. QED
    BY <2>2, <2>3, <2>4
<1>15. QED
  BY <1>2, <1>3, <1>5, <1>11, <1>12, <1>13, <1>14 DEF Tracks

\* EnqueueTRB takes a TRB of a ring that has room.
LEMMA TracksTake ==
  ASSUME NEW r \in Endpoints, NEW d, NEW h, NEW t \in TaskType, NEW u, NEW p,
         Tracks(r, d, h, t, p), t.ring = r, t.pc = "take",
         u = [t EXCEPT !.pc = "fill", !.trb = d.ring[r].enq],
         Unseen(r, d.ring[r], h, 0) + 1 < Link(r)
  PROVE  Tracks(r, d, h, u, p)
<1>1. /\ u.ring = r /\ u.pc = "fill" /\ u.id = t.id /\ u.stage = t.stage /\ u.trb = d.ring[r].enq
  BY DEF TaskType
<1>2. /\ Filled(r, t) = 0 /\ Taken(r, t) = 0 /\ Filled(r, u) = 0 /\ Taken(r, u) = 1
      /\ Working(r, t) /\ Working(r, u) /\ Missing(r, u) = Missing(r, t) /\ r \in Rings
  BY <1>1 DEF Filled, Taken, Working, Missing, Rings
<1>3. InOrder(r, d.ring[r], h, 0, 1)
  BY <1>2, TakeInOrder DEF Tracks
<1>4. Ready(r, d, h, u) = Ready(r, d, h, t)
  BY <1>2 DEF Ready
<1>5. Left(r, d, h, u) = Left(r, d, h, t)
  BY <1>2, <1>4 DEF Left
<1>6. Answers(r, d, h, u, p)
  BY <1>5 DEF Tracks, Answers
<1>7. Waiter(r, d, u)
  BY <1>1, <1>2 DEF Tracks, Waiter
<1>8. Control(r, d, h, u)
  BY <1>1, <1>5 DEF Tracks, Control
<1>9. ~h.halted => Content(r, d, h, u)
  BY <1>4, <1>5 DEF Tracks, Content
<1>10. QED
  BY <1>2, <1>3, <1>6, <1>7, <1>8, <1>9 DEF Tracks

\* The task fills the TRB it took: the controller has one more to read.
LEMMA TracksFill ==
  ASSUME NEW r \in Endpoints, NEW d, NEW h, NEW t \in TaskType, NEW u, NEW p, NEW c,
         Tracks(r, d, h, t, p), t.ring = r, t.pc = "fill", u = [t EXCEPT !.pc = "step"],
         c.urb[r] = d.urb[r], c.made[r] = d.made[r], c.done[r] = d.done[r],
         c.ring[r] = Fill(d.ring[r], t.trb, [id |-> t.id, ioc |-> t.stage = Stages(r)])
  PROVE  Tracks(r, c, h, u, p)
<1> DEFINE g == d.ring[r]
<1> DEFINE x == [id |-> t.id, ioc |-> t.stage = Stages(r)]
<1> DEFINE n == d.made[r]
<1> DEFINE m == Ready(r, d, h, t)
<1> DEFINE l == Left(r, d, h, t)
<1>1. /\ u.ring = r /\ u.pc = "step" /\ u.id = t.id /\ u.stage = t.stage /\ u.trb = t.trb
      /\ t.id \in Nat /\ t.stage \in {0, 1, 2} /\ r \in Rings
  BY DEF TaskType, Rings
<1>2. /\ Filled(r, t) = 0 /\ Taken(r, t) = 1 /\ Filled(r, u) = 1 /\ Taken(r, u) = 1
      /\ Working(r, t) /\ Working(r, u)
      /\ Missing(r, t) = Stages(r) - t.stage + 1 /\ Missing(r, u) = Stages(r) - t.stage
  BY <1>1 DEF Filled, Taken, Working, Missing
<1>3. t.trb = g.enq /\ t.id = n /\ t.stage \in 1..Stages(r) /\ Stages(r) \in {1, 2}
  BY <1>2 DEF Tracks, Waiter, Stages
<1>4. x \in Trb
  BY <1>1 DEF Trb
<1> HIDE DEF x
<1>5. c.ring[r] = Fill(g, g.enq, x)
  BY <1>3 DEF x
<1>6. m = Unseen(r, g, h, 0) /\ Ready(r, c, h, u) = Unseen(r, c.ring[r], h, 1)
  BY <1>2 DEF Ready
<1>7. /\ InOrder(r, Fill(g, g.enq, x), h, 1, 1)
      /\ Unseen(r, Fill(g, g.enq, x), h, 1) = Unseen(r, g, h, 0) + 1
      /\ \A j \in Nat : j < Unseen(r, g, h, 0) => Fill(g, g.enq, x).trb[At(r, h, j)] = g.trb[At(r, h, j)]
      /\ Fill(g, g.enq, x).trb[At(r, h, Unseen(r, g, h, 0))] = x
  BY <1>1, <1>2, <1>4, FillInOrder DEF Tracks
<1>8. /\ InOrder(r, c.ring[r], h, 1, 1)
      /\ Ready(r, c, h, u) = m + 1
      /\ \A j \in Nat : j < m => c.ring[r].trb[At(r, h, j)] = g.trb[At(r, h, j)]
      /\ c.ring[r].trb[At(r, h, m)] = x
  BY <1>5, <1>6, <1>7
<1>9. m \in Nat /\ l \in Nat /\ n \in Nat
  BY TrackNumbers
<1>10. l = m + (Stages(r) - t.stage + 1)
  BY <1>2 DEF Left
<1>11. Left(r, c, h, u) = l
  <2>1. Left(r, c, h, u) = (m + 1) + (Stages(r) - t.stage)
    BY <1>2, <1>8 DEF Left
  <2>2. QED
    BY <1>3, <1>9, <1>10, <2>1
<1>12. Base(r, c) = Base(r, d)
  BY DEF Base
<1>13. Queued(r, c)
  BY <1>12 DEF Tracks, Queued
<1>14. Answers(r, c, h, u, p)
  BY <1>11, <1>12 DEF Tracks, Answers
<1>15. Waiter(r, c, u)
  <2>1. c.ring[r].enq = g.enq
    <3>1. g = [cycle |-> g.cycle, trb |-> g.trb, link |-> g.link, enq |-> g.enq, state |-> g.state]
      BY <1>1, RingTyped DEF Tracks, InOrder
    <3>2. QED
      BY <1>5, <3>1 DEF Fill
  <2>2. QED
    BY <1>1, <1>2, <1>3, <1>12, <2>1 DEF Tracks, Waiter
<1>16. Control(r, c, h, u)
  BY <1>1, <1>11, <1>12 DEF Tracks, Control
<1>17. ~h.halted => Content(r, c, h, u)
  <2> SUFFICES ASSUME ~h.halted, NEW j \in Nat, j < m + 1
               PROVE  c.ring[r].trb[At(r, h, j)] = Request(r, n, l, j)
    BY <1>8, <1>11 DEF Content
  <2>1. CASE j < m
    BY <1>8, <2>1 DEF Tracks, Content
  <2>2. CASE j = m
    <3>1. c.ring[r].trb[At(r, h, j)] = x
      BY <1>8, <2>2
    <3>2. CASE r = "ep0"
      <4>1. (t.stage = Stages(r)) <=> j = l - 1
        BY <1>3, <1>9, <1>10, <2>2
      <4>2. Request(r, n, l, j) = [id |-> n, ioc |-> j = l - 1]
        BY <3>2 DEF Request
      <4>3. QED
        BY <1>3, <3>1, <4>1, <4>2 DEF x
    <3>3. CASE r # "ep0"
      <4>1. t.stage = Stages(r) /\ l - 1 - j = 0 /\ n - (l - 1 - j) = n
        BY <1>3, <1>9, <1>10, <2>2, <3>3 DEF Stages
      <4> HIDE DEF l, n, m
      <4>2. Request(r, n, l, j) = [id |-> n - (l - 1 - j), ioc |-> TRUE]
        BY <1>9, <3>3, RequestOfOneTRB
      <4>3. Request(r, n, l, j) = [id |-> n, ioc |-> TRUE]
        BY <4>1, <4>2
      <4>4. x = [id |-> n, ioc |-> TRUE]
        BY <1>3, <4>1 DEF x
      <4>5. QED
        BY <3>1, <4>3, <4>4
    <3>4. QED
      BY <3>2, <3>3
  <2>3. QED
    BY <1>9, <2>1, <2>2
<1>18. QED
  BY <1>2, <1>8, <1>13, <1>14, <1>15, <1>16, <1>17 DEF Tracks

\* After a TRB: the last one of a request was filled, or the next one is due.
Stepped(r, t) == IF t.stage = Stages(r) THEN [t EXCEPT !.pc = "wait"]
                 ELSE [t EXCEPT !.pc = "take", !.stage = t.stage + 1]

\* IncrementEnqueue steps over it: the task goes on with the next TRB, or waits.
LEMMA TracksStep ==
  ASSUME NEW r \in Endpoints, NEW d, NEW h, NEW t \in TaskType, NEW u, NEW p, NEW c,
         Tracks(r, d, h, t, p), t.ring = r, t.pc = "step",
         u = Stepped(r, t),
         c.urb[r] = d.urb[r], c.made[r] = d.made[r], c.done[r] = d.done[r],
         c.ring[r] = IncrementEnqueue(d.ring[r])
  PROVE  Tracks(r, c, h, u, p)
<1> DEFINE g == d.ring[r]
<1> DEFINE m == Ready(r, d, h, t)
<1>0. Working(r, t) /\ Taken(r, t) = 1 /\ Filled(r, t) = 1 /\ r \in Rings /\ t.stage \in {0, 1, 2}
  BY DEF Working, Taken, Filled, Rings, TaskType
<1>1. t.id = d.made[r] /\ t.stage \in 1..Stages(r) /\ Stages(r) \in {1, 2}
  BY <1>0 DEF Tracks, Waiter, Stages
<1>2. /\ u.ring = r /\ u.id = t.id
      /\ \/ u.pc = "wait" /\ t.stage = Stages(r)
         \/ u.pc = "take" /\ t.stage # Stages(r) /\ u.stage = t.stage + 1
  BY DEF TaskType, Stepped
<1>3. Filled(r, u) = 0 /\ Taken(r, u) = 0
  BY <1>2 DEF Filled, Taken
<1>4. Missing(r, u) = Missing(r, t)
  <2>1. Missing(r, t) = Stages(r) - t.stage
    BY <1>0 DEF Missing
  <2>2. CASE u.pc = "wait" /\ t.stage = Stages(r)
    BY <1>1, <2>1, <2>2 DEF Missing, Working
  <2>3. CASE u.pc = "take" /\ t.stage # Stages(r) /\ u.stage = t.stage + 1
    <3>1. Missing(r, u) = Stages(r) - (t.stage + 1) + 1
      BY <1>2, <2>3 DEF Missing, Working
    <3>2. QED
      BY <1>1, <2>1, <3>1
  <2>4. QED
    BY <1>2, <2>2, <2>3
<1>5. /\ InOrder(r, c.ring[r], h, 0, 0)
      /\ Unseen(r, c.ring[r], h, 0) = Unseen(r, g, h, 1)
      /\ c.ring[r].trb = g.trb
  BY <1>0, StepInOrder DEF Tracks
<1>6. Ready(r, c, h, u) = m
  BY <1>0, <1>3, <1>5 DEF Ready
<1>7. Left(r, c, h, u) = Left(r, d, h, t)
  BY <1>4, <1>6 DEF Left
<1>8. Base(r, c) = Base(r, d)
  BY DEF Base
<1>9. Queued(r, c)
  BY <1>8 DEF Tracks, Queued
<1>10. Answers(r, c, h, u, p)
  BY <1>7, <1>8 DEF Tracks, Answers
<1>11. Waiter(r, c, u)
  <2>1. d.done[r] <=> t.id <= Base(r, d)
    BY DEF Tracks, Waiter
  <2>2. ASSUME Working(r, u) PROVE u.id = c.made[r] /\ u.stage \in 1..Stages(r)
    <3>1. u.stage = t.stage + 1 /\ t.stage # Stages(r)
      BY <1>2, <2>2 DEF Working
    <3>2. QED
      BY <1>1, <1>2, <3>1
  <2>3. QED
    BY <1>2, <1>3, <1>8, <2>1, <2>2 DEF Waiter
<1>12. Control(r, c, h, u)
  BY <1>2, <1>7, <1>8 DEF Tracks, Control
<1>13. ~h.halted => Content(r, c, h, u)
  BY <1>5, <1>6, <1>7 DEF Tracks, Content
<1>14. QED
  BY <1>3, <1>5, <1>9, <1>10, <1>11, <1>12, <1>13 DEF Tracks

\* The controller reads a TRB: it belongs to the oldest request that has no event
\* yet, and asks for one if it is the last of that request.
LEMMA TracksRead ==
  ASSUME NEW r \in Endpoints, task \in TaskType, NEW p \in Seq(Event), NEW h \in Side(r),
         Tracks(r, drv, hc.ring[r], task, p), Visible(r), ~hc.ring[r].halted,
         h.deq = Follow(r).deq + 1, h.state = Follow(r).state
  PROVE  /\ ~drv.ring[r].trb[Follow(r).deq].ioc /\ ~h.halted => Tracks(r, drv, h, task, p)
         /\ \A e \in Event :
              /\ e.ring = r /\ e.id = drv.ring[r].trb[Follow(r).deq].id
              /\ drv.ring[r].trb[Follow(r).deq].ioc \/ h.halted
              => Tracks(r, drv, h, task, Append(p, e))
<1> DEFINE o == hc.ring[r]
<1> DEFINE x == drv.ring[r].trb[Follow(r).deq]
<1> DEFINE n == drv.made[r]
<1> DEFINE b == Base(r, drv)
<1> DEFINE m == Ready(r, drv, h, task)
<1> DEFINE l == Left(r, drv, h, task)
<1>1. /\ n \in Nat /\ b \in Nat /\ b <= n /\ r \in Rings
      /\ Ready(r, drv, o, task) \in Nat /\ Missing(r, task) \in {0, 1, 2}
      /\ Left(r, drv, o, task) = Ready(r, drv, o, task) + Missing(r, task)
  BY TrackNumbers DEF Left
<1>2. /\ InOrder(r, drv.ring[r], h, Filled(r, task), Taken(r, task))
      /\ Ready(r, drv, o, task) = m + 1
      /\ Follow(r).deq = At(r, o, 0)
      /\ \A j \in Nat : j < m => At(r, h, j) = At(r, o, j + 1)
  <2> DEFINE f == Filled(r, task)
  <2> DEFINE k == Taken(r, task)
  <2>1. InOrder(r, drv.ring[r], hc.ring[r], f, k)
    BY DEF Tracks
  <2>2. /\ Ready(r, drv, o, task) = Unseen(r, drv.ring[r], hc.ring[r], f)
        /\ m = Unseen(r, drv.ring[r], h, f)
    BY DEF Ready
  <2> HIDE DEF f, k, m
  <2>3. /\ InOrder(r, drv.ring[r], h, f, k)
        /\ Unseen(r, drv.ring[r], hc.ring[r], f) = Unseen(r, drv.ring[r], h, f) + 1
        /\ Follow(r).deq = At(r, hc.ring[r], 0)
        /\ Moved(r, hc.ring[r], h, Unseen(r, drv.ring[r], h, f))
    BY <1>1, <2>1, ReadInOrder
  <2>4. QED
    BY <2>2, <2>3 DEF f, k, Moved
<1>3. m \in Nat
  BY <1>1, <1>2, UnseenIs DEF Ready
<1>4. l = m + Missing(r, task)
  BY DEF Left
<1>5. l \in Nat /\ Left(r, drv, o, task) = l + 1 /\ m <= l
  BY <1>1, <1>2, <1>3, <1>4
<1>6. \A j \in Nat : j < m + 1 => drv.ring[r].trb[At(r, o, j)] = Request(r, n, l + 1, j)
  BY <1>2, <1>5 DEF Tracks, Content
<1>7. x = Request(r, n, l + 1, 0)
  BY <1>2, <1>3, <1>6
<1> HIDE DEF x, m, l
<1>8. /\ r = "ep0" => x.id = n /\ (x.ioc <=> l = 0)
      /\ r # "ep0" => x.id = n - l /\ x.ioc
  <2> DEFINE a == l + 1
  <2>1. a - 1 = l /\ n - (a - 1 - 0) = n - l /\ (0 = a - 1 <=> l = 0)
    BY <1>5
  <2>2. x = Request(r, n, a, 0)
    BY <1>7
  <2> HIDE DEF a
  <2>3. x.id = IF r = "ep0" THEN n ELSE n - (a - 1 - 0)
    BY <2>2 DEF Request
  <2>4. x.ioc = (r = "ep0" => 0 = a - 1)
    BY <2>2 DEF Request
  <2>5. QED
    BY <2>1, <2>3, <2>4
<1>9. Content(r, drv, h, task)
  <2> SUFFICES ASSUME NEW j \in Nat, j < m
               PROVE  drv.ring[r].trb[At(r, h, j)] = Request(r, n, l, j)
    BY DEF Content, m, l
  <2>1. drv.ring[r].trb[At(r, o, j + 1)] = Request(r, n, l + 1, j + 1)
    <3>1. j + 1 \in Nat /\ j + 1 < m + 1
      BY <1>3
    <3>2. QED
      BY <1>6, <3>1
  <2>2. Request(r, n, l, j) = Request(r, n, l + 1, j + 1)
    <3>1. n \in Nat
      BY <1>1
    <3> HIDE DEF n
    <3>2. QED
      BY <1>5, <3>1, RequestAfter
  <2>3. QED
    BY <1>2, <2>1, <2>2
<1>10. Control(r, drv, h, task)
  <2>1. r = "ep0" => l <= 2
    <3>1. r = "ep0" => l + 1 <= 2
      BY <1>5 DEF Tracks, Control
    <3>2. QED
      BY <1>5, <3>1
  <2>2. QED
    BY <2>1 DEF Tracks, Control, l
<1>11. PICK y \in Nat : /\ b <= y /\ y <= n /\ y = n - Owed(r, l + 1)
                        /\ Reported(r, b, y, p)
  BY <1>5 DEF Tracks, Answers
<1>12. y = IF r = "ep0" THEN n - 1 ELSE n - (l + 1)
  <2>1. Owed(r, l + 1) = IF r = "ep0" THEN 1 ELSE l + 1
    BY <1>5 DEF Owed
  <2>2. QED
    BY <1>11, <2>1
<1>13. ASSUME ~x.ioc, ~h.halted PROVE Tracks(r, drv, h, task, p)
  <2>1. r = "ep0" /\ l # 0
    BY <1>8, <1>13
  <2>2. y = n - Owed(r, l)
    BY <1>12, <2>1 DEF Owed
  <2>3. Answers(r, drv, h, task, p)
    BY <1>11, <1>13, <2>2 DEF Answers, l
  <2>4. QED
    BY <1>2, <1>9, <1>10, <2>3 DEF Tracks
<1>14. ASSUME NEW e \in Event, e.ring = r, e.id = x.id, x.ioc \/ h.halted
       PROVE  Tracks(r, drv, h, task, Append(p, e))
  <2>1. e.id = y + 1
    <3>1. CASE r = "ep0"
      BY <1>1, <1>8, <1>12, <1>14, <3>1
    <3>2. CASE r # "ep0"
      BY <1>1, <1>5, <1>8, <1>12, <1>14, <3>2
    <3>3. QED
      BY <3>1, <3>2
  <2>2. Reported(r, b, y + 1, Append(p, e))
    BY <1>1, <1>11, <1>14, <2>1, PostNext
  <2>3. y + 1 <= n
    BY <1>1, <1>5, <1>12
  <2>4. ~h.halted => y + 1 = n - Owed(r, l)
    <3>1. CASE r = "ep0"
      <4>1. ~h.halted => l = 0
        BY <1>8, <1>14, <3>1
      <4>2. Owed(r, 0) = 0
        BY <3>1 DEF Owed
      <4>3. QED
        BY <1>1, <1>12, <3>1, <4>1, <4>2
    <3>2. CASE r # "ep0"
      <4>1. Owed(r, l) = l
        BY <3>2 DEF Owed
      <4>2. QED
        BY <1>1, <1>5, <1>12, <3>2, <4>1
    <3>3. QED
      BY <3>1, <3>2
  <2>5. Answers(r, drv, h, task, Append(p, e))
    <3>1. y + 1 \in Nat /\ b <= y + 1
      BY <1>1, <1>11
    <3>2. QED
      BY <2>2, <2>3, <2>4, <3>1 DEF Answers, l
  <2>6. QED
    BY <1>2, <1>9, <1>10, <2>5 DEF Tracks
<1>15. QED
  BY <1>13, <1>14 DEF x

-----------------------------------------------------------------------------
(* The driver's memory. *)

\* The assertions that stop the machine, or none of them.
Panics == {"none", "xhciendpoint.cpp:213", "xhciendpoint.cpp:271", "xhciendpoint.cpp:518",
           "xhciring.cpp:139", "xhcicommandmanager.cpp:187"}

\* The driver's memory: m_pURB holds requests that were made, and so do the TRBs.
DriverType(d) ==
  /\ DOMAIN d = Fields
  /\ DOMAIN d.ring = Rings /\ \A r \in Rings : d.ring[r] \in RingType(r)
  /\ \A r \in Rings : \A i \in Index(r) : d.ring[r].trb[i].id <= d.made[r]
  /\ d.urb \in [Endpoints -> Seq(Nat)] /\ \A r \in Endpoints : Len(d.urb[r]) <= 2
  /\ \A r \in Endpoints : \A k \in 1..Len(d.urb[r]) : d.urb[r][k] \in 1..d.made[r]
  /\ d.made \in [Rings -> Nat] /\ d.done \in [Rings -> BOOLEAN] /\ d.trb \in Index("cmd")
  /\ d.answer \in [Rings -> Nat] /\ \A r \in Rings : d.answer[r] <= d.made[r]
  /\ d.panic \in Panics

\* c has the rings and the requests of d.
SameRequests(d, c) ==
  /\ c.ring = d.ring /\ c.urb = d.urb /\ c.made = d.made
  /\ c.done = d.done /\ c.answer = d.answer /\ c.trb = d.trb

\* An assertion changes "panic" alone, and that only if it fails.
LEMMA AssertIs ==
  ASSUME NEW d, DriverType(d), NEW holds, NEW what \in Panics, what # "none"
  PROVE  /\ DriverType(Assert(d, holds, what)) /\ SameRequests(d, Assert(d, holds, what))
         /\ Assert(d, holds, what).panic = "none" => d.panic = "none" /\ holds
<1> DEFINE c == Assert(d, holds, what)
<1>1. CASE holds \/ d.panic # "none"
  <2>1. c = d
    BY <1>1 DEF Assert
  <2>2. QED
    BY <1>1, <2>1 DEF SameRequests
<1>2. CASE ~(holds \/ d.panic # "none")
  <2>1. c = [d EXCEPT !.panic = what]
    BY <1>2 DEF Assert
  <2>2. DOMAIN c = Fields /\ SameRequests(d, c) /\ c.panic = what
    BY <2>1 DEF SameRequests, DriverType, Fields
  <2> HIDE DEF c
  <2>3. DriverType(c)
    BY <2>2 DEF DriverType, SameRequests
  <2>4. QED
    BY <2>2, <2>3 DEF c
<1>3. QED
  BY <1>1, <1>2

\* A ring after Fill, and after IncrementEnqueue, whatever the state of the ring.
LEMMA FillTyped ==
  ASSUME NEW r \in Rings, NEW g \in RingType(r), NEW i \in Index(r), NEW x \in Trb
  PROVE  /\ Fill(g, i, x) \in RingType(r)
         /\ Fill(g, i, x).trb = [g.trb EXCEPT ![i] = x]
<1> DEFINE n == Fill(g, i, x)
<1>1. /\ DOMAIN g = {"cycle", "trb", "link", "enq", "state"}
      /\ g.cycle \in [Index(r) -> BOOLEAN] /\ g.trb \in [Index(r) -> Trb] /\ g.link = Link(r)
      /\ g.enq \in 0..(Link(r) - 1) /\ g.state \in BOOLEAN
  BY DEF RingType
<1>2. n.cycle = [g.cycle EXCEPT ![i] = g.state]
  BY <1>1 DEF Fill
<1>3. n.trb = [g.trb EXCEPT ![i] = x]
  BY <1>1 DEF Fill
<1>4. n.link = Link(r) /\ n.enq = g.enq /\ n.state = g.state
  BY <1>1 DEF Fill
<1>5. DOMAIN n = {"cycle", "trb", "link", "enq", "state"}
  BY <1>1 DEF Fill
<1>6. n = [j \in DOMAIN n |-> n[j]]
  BY <1>1 DEF Fill
<1> HIDE DEF n
<1>7. n.cycle \in [Index(r) -> BOOLEAN] /\ n.trb \in [Index(r) -> Trb]
  BY <1>1, <1>2, <1>3
<1>8. n \in RingType(r)
  BY <1>1, <1>4, <1>5, <1>6, <1>7 DEF RingType
<1>9. QED
  BY <1>3, <1>8 DEF n

\* IncrementEnqueue keeps a ring a ring.
LEMMA IncrementTyped ==
  ASSUME NEW r \in Rings, NEW g \in RingType(r)
  PROVE  /\ IncrementEnqueue(g) \in RingType(r)
         /\ IncrementEnqueue(g).trb = g.trb
<1> DEFINE n == IncrementEnqueue(g)
<1>1. /\ DOMAIN g = {"cycle", "trb", "link", "enq", "state"}
      /\ g.cycle \in [Index(r) -> BOOLEAN] /\ g.trb \in [Index(r) -> Trb] /\ g.link = Link(r)
      /\ g.enq \in 0..(Link(r) - 1) /\ g.state \in BOOLEAN
  BY DEF RingType
<1>2. Link(r) \in Nat /\ Link(r) >= 2 /\ Link(r) \in Index(r)
  BY Sizes DEF Index
<1>3. DOMAIN n = {"cycle", "trb", "link", "enq", "state"}
  BY <1>1 DEF IncrementEnqueue
<1>4. n = [j \in DOMAIN n |-> n[j]]
  BY <1>1 DEF IncrementEnqueue
<1>5. n.trb = g.trb /\ n.link = Link(r)
  BY <1>1 DEF IncrementEnqueue
<1>6. n.enq = IF g.enq + 1 = g.link THEN 0 ELSE g.enq + 1
  BY <1>1 DEF IncrementEnqueue
<1>7. n.state \in BOOLEAN
  BY <1>1 DEF IncrementEnqueue
<1>8. n.cycle = g.cycle \/ n.cycle = [g.cycle EXCEPT ![g.link] = ~g.cycle[g.link]]
  BY <1>1 DEF IncrementEnqueue
<1> HIDE DEF n
<1>9. n.cycle \in [Index(r) -> BOOLEAN]
  BY <1>1, <1>2, <1>8
<1>10. n.enq \in 0..(Link(r) - 1)
  BY <1>1, <1>2, <1>6
<1>11. n \in RingType(r)
  BY <1>1, <1>3, <1>4, <1>5, <1>7, <1>9, <1>10 DEF RingType
<1>12. QED
  BY <1>5, <1>11 DEF n

\* Queueing a request makes it, and changes only m_pURB.
LEMMA QueueRequestIs ==
  ASSUME NEW d, DriverType(d), NEW e \in Endpoints
  PROVE  LET c == QueueRequest(d, e) IN
         /\ DriverType(c)
         /\ c.ring = d.ring /\ c.done = d.done /\ c.answer = d.answer /\ c.trb = d.trb
         /\ c.made = [d.made EXCEPT ![e] = d.made[e] + 1]
         /\ \A r \in Endpoints \ {e} : c.urb[r] = d.urb[r]
         /\ Len(c.urb[e]) >= 1
         /\ c.panic = "none" => /\ d.panic = "none" /\ Len(d.urb[e]) < 2
                                /\ c.urb[e] = Append(d.urb[e], d.made[e] + 1)
<1> DEFINE a == Assert(d, Len(d.urb[e]) < 2, "xhciendpoint.cpp:271")
<1> DEFINE q == IF Len(d.urb[e]) < 2 THEN Append(d.urb[e], d.made[e] + 1) ELSE d.urb[e]
<1> DEFINE c == QueueRequest(d, e)
<1>1. DriverType(a) /\ SameRequests(d, a) /\ (a.panic = "none" => d.panic = "none" /\ Len(d.urb[e]) < 2)
  <2>0. "xhciendpoint.cpp:271" # "none"
    OBVIOUS
  <2>1. "xhciendpoint.cpp:271" \in Panics
    BY DEF Panics
  <2> DEFINE holds == Len(d.urb[e]) < 2
  <2> HIDE DEF holds
  <2>2. /\ DriverType(Assert(d, holds, "xhciendpoint.cpp:271"))
        /\ SameRequests(d, Assert(d, holds, "xhciendpoint.cpp:271"))
        /\ Assert(d, holds, "xhciendpoint.cpp:271").panic = "none" => d.panic = "none" /\ holds
    BY <2>0, <2>1, AssertIs
  <2>3. QED
    BY <2>2 DEF holds
<1>2. c = [a EXCEPT !.urb[e] = IF Len(@) < 2 THEN Append(@, d.made[e] + 1) ELSE @,
                    !.made[e] = d.made[e] + 1]
  BY DEF QueueRequest
<1> HIDE DEF a, c
<1>3. DOMAIN a = Fields /\ a.urb = d.urb /\ a.made = d.made /\ d.urb \in [Endpoints -> Seq(Nat)]
      /\ d.made \in [Rings -> Nat] /\ e \in Rings
  BY <1>1 DEF DriverType, SameRequests, Rings
<1>4. DOMAIN c = Fields
  BY <1>2, <1>3
<1>5. c.urb = [d.urb EXCEPT ![e] = q]
  BY <1>2, <1>3 DEF Fields
<1>6. c.made = [d.made EXCEPT ![e] = d.made[e] + 1]
  BY <1>2, <1>3 DEF Fields
<1>7. c.ring = a.ring /\ c.done = a.done /\ c.answer = a.answer /\ c.trb = a.trb /\ c.panic = a.panic
  BY <1>2, <1>3 DEF Fields
<1>8. /\ d.urb[e] \in Seq(Nat) /\ Len(d.urb[e]) \in Nat /\ Len(d.urb[e]) <= 2 /\ d.made[e] \in Nat
      /\ \A k \in 1..Len(d.urb[e]) : d.urb[e][k] \in 1..d.made[e]
  BY <1>3 DEF DriverType
<1>9. q \in Seq(Nat) /\ Len(q) <= 2 /\ Len(q) >= 1
  BY <1>8
<1>10. \A k \in 1..Len(q) : q[k] \in 1..(d.made[e] + 1)
  <2>1. CASE Len(d.urb[e]) < 2
    <3> SUFFICES ASSUME NEW k \in 1..Len(q) PROVE q[k] \in 1..(d.made[e] + 1)
      OBVIOUS
    <3>1. q = Append(d.urb[e], d.made[e] + 1) /\ Len(q) = Len(d.urb[e]) + 1
      BY <1>8, <2>1
    <3>2. CASE k = Len(d.urb[e]) + 1
      <4>1. q[k] = d.made[e] + 1
        BY <1>8, <3>1, <3>2
      <4>2. QED
        BY <1>8, <4>1
    <3>3. CASE k # Len(d.urb[e]) + 1
      <4>1. k \in 1..Len(d.urb[e])
        BY <1>8, <3>1, <3>3
      <4>2. q[k] = d.urb[e][k] /\ d.urb[e][k] \in 1..d.made[e]
        BY <1>8, <3>1, <4>1
      <4> HIDE DEF q
      <4>3. QED
        BY <1>8, <4>2
    <3>4. QED
      BY <3>2, <3>3
  <2>2. CASE ~(Len(d.urb[e]) < 2)
    <3>1. q = d.urb[e]
      BY <2>2
    <3> HIDE DEF q
    <3>2. QED
      BY <1>8, <3>1
  <2>3. QED
    BY <2>1, <2>2
<1> HIDE DEF q
<1>11. /\ c.urb \in [Endpoints -> Seq(Nat)]
       /\ \A r \in Endpoints : c.urb[r] = IF r = e THEN q ELSE d.urb[r]
       /\ \A r \in Rings : c.made[r] = IF r = e THEN d.made[e] + 1 ELSE d.made[r]
       /\ c.made \in [Rings -> Nat]
  BY <1>3, <1>5, <1>6, <1>8, <1>9
<1>12. \A r \in Rings : d.made[r] \in Nat /\ d.made[r] <= c.made[r]
  <2> SUFFICES ASSUME NEW r \in Rings PROVE d.made[r] \in Nat /\ d.made[r] <= c.made[r]
    OBVIOUS
  <2>1. d.made[r] \in Nat /\ d.made[e] \in Nat
    BY <1>3
  <2>2. c.made[r] = IF r = e THEN d.made[e] + 1 ELSE d.made[r]
    BY <1>11
  <2>3. QED
    BY <2>1, <2>2
<1>13. DriverType(c)
  <2>1. \A r \in Endpoints : Len(c.urb[r]) <= 2
    BY <1>9, <1>11 DEF DriverType
  <2>2. \A r \in Endpoints : \A k \in 1..Len(c.urb[r]) : c.urb[r][k] \in 1..c.made[r]
    BY <1>10, <1>11 DEF DriverType, Rings
  <2>3. DOMAIN c.ring = Rings /\ \A r \in Rings : c.ring[r] \in RingType(r)
    BY <1>1, <1>7 DEF DriverType
  <2>4. \A r \in Rings : \A i \in Index(r) : c.ring[r].trb[i].id <= c.made[r]
    <3> SUFFICES ASSUME NEW r \in Rings, NEW i \in Index(r) PROVE c.ring[r].trb[i].id <= c.made[r]
      OBVIOUS
    <3>1. c.ring[r] = d.ring[r] /\ d.ring[r].trb[i].id <= d.made[r] /\ d.ring[r] \in RingType(r)
      BY <1>1, <1>7 DEF DriverType, SameRequests
    <3>2. d.ring[r].trb[i].id \in Nat
      BY <3>1 DEF RingType, Trb
    <3>3. QED
      BY <1>11, <1>12, <3>1, <3>2
  <2>5. \A r \in Rings : c.answer[r] <= c.made[r]
    <3> SUFFICES ASSUME NEW r \in Rings PROVE c.answer[r] <= c.made[r]
      OBVIOUS
    <3>1. c.answer[r] = d.answer[r] /\ d.answer[r] \in Nat /\ d.answer[r] <= d.made[r]
      BY <1>1, <1>7 DEF DriverType, SameRequests
    <3>2. QED
      BY <1>11, <1>12, <3>1
  <2>6. c.done \in [Rings -> BOOLEAN] /\ c.trb \in Index("cmd") /\ c.answer \in [Rings -> Nat] /\ c.panic \in Panics
    BY <1>1, <1>7 DEF DriverType
  <2>7. QED
    BY <1>4, <1>11, <2>1, <2>2, <2>3, <2>4, <2>5, <2>6 DEF DriverType
<1>14. c.panic = "none" => /\ d.panic = "none" /\ Len(d.urb[e]) < 2
                           /\ c.urb[e] = Append(d.urb[e], d.made[e] + 1)
  BY <1>1, <1>7, <1>11 DEF q
<1>15. c.ring = d.ring /\ c.done = d.done /\ c.answer = d.answer /\ c.trb = d.trb
  BY <1>1, <1>7 DEF SameRequests
<1>16. Len(c.urb[e]) >= 1 /\ \A r \in Endpoints \ {e} : c.urb[r] = d.urb[r]
  BY <1>9, <1>11
<1>17. QED
  BY <1>6, <1>13, <1>14, <1>15, <1>16 DEF c

\* c differs from d in the ring r alone, which is g.
OtherRing(d, c, r, g) ==
  /\ DOMAIN c = Fields /\ c.ring = [d.ring EXCEPT ![r] = g]
  /\ c.urb = d.urb /\ c.made = d.made /\ c.done = d.done /\ c.answer = d.answer /\ c.trb = d.trb

\* Another ring in the driver's memory, with TRBs of requests made.
LEMMA OtherRingTyped ==
  ASSUME NEW d, DriverType(d), NEW r \in Rings, NEW g \in RingType(r),
         \A i \in Index(r) : g.trb[i].id <= d.made[r],
         NEW c, OtherRing(d, c, r, g), c.panic \in Panics
  PROVE  DriverType(c)
<1>1. DOMAIN c.ring = Rings /\ \A q \in Rings : c.ring[q] = IF q = r THEN g ELSE d.ring[q]
  BY DEF OtherRing, DriverType
<1>2. \A q \in Rings : c.ring[q] \in RingType(q)
  BY <1>1 DEF DriverType
<1>3. \A q \in Rings : \A i \in Index(q) : c.ring[q].trb[i].id <= c.made[q]
  BY <1>1 DEF OtherRing, DriverType
<1>4. QED
  BY <1>1, <1>2, <1>3 DEF OtherRing, DriverType

\* Stepping a ring changes that ring alone.
LEMMA IncrementIs ==
  ASSUME NEW d, DriverType(d), NEW r \in Rings
  PROVE  LET c == Increment(d, r) IN
         /\ DriverType(c) /\ OtherRing(d, c, r, IncrementEnqueue(d.ring[r]))
         /\ c.panic = "none" => d.panic = "none"
<1> DEFINE a == Assert(d, CycleStateSet(d.ring[r]), "xhciring.cpp:139")
<1> DEFINE c == Increment(d, r)
<1> DEFINE g == IncrementEnqueue(d.ring[r])
<1>1. DriverType(a) /\ SameRequests(d, a) /\ (a.panic = "none" => d.panic = "none")
  <2>1. "xhciring.cpp:139" # "none"
    OBVIOUS
  <2>2. "xhciring.cpp:139" \in Panics
    BY DEF Panics
  <2> DEFINE holds == CycleStateSet(d.ring[r])
  <2> HIDE DEF holds
  <2>3. /\ DriverType(Assert(d, holds, "xhciring.cpp:139"))
        /\ SameRequests(d, Assert(d, holds, "xhciring.cpp:139"))
        /\ Assert(d, holds, "xhciring.cpp:139").panic = "none" => d.panic = "none"
    BY <2>1, <2>2, AssertIs
  <2>4. QED
    BY <2>3 DEF holds
<1>2. c = [a EXCEPT !.ring[r] = IncrementEnqueue(@)]
  BY DEF Increment
<1> HIDE DEF a, c
<1>3. DOMAIN a = Fields /\ a.ring = d.ring /\ DOMAIN d.ring = Rings
  BY <1>1 DEF DriverType, SameRequests
<1>4. c.panic = a.panic
  BY <1>2, <1>3 DEF Fields
<1>5. OtherRing(d, c, r, g)
  <2>1. DOMAIN c = Fields
    BY <1>2, <1>3
  <2>2. c.ring = [d.ring EXCEPT ![r] = g]
    BY <1>2, <1>3 DEF Fields
  <2>3. c.urb = a.urb /\ c.made = a.made /\ c.done = a.done /\ c.answer = a.answer /\ c.trb = a.trb
    BY <1>2, <1>3 DEF Fields
  <2>4. QED
    BY <1>1, <2>1, <2>2, <2>3 DEF OtherRing, SameRequests
<1>6. DriverType(c)
  <2>1. d.ring[r] \in RingType(r) /\ \A i \in Index(r) : d.ring[r].trb[i].id <= d.made[r]
    BY DEF DriverType
  <2>2. g \in RingType(r) /\ g.trb = d.ring[r].trb
    BY <2>1, IncrementTyped
  <2>3. c.panic \in Panics
    BY <1>1, <1>4 DEF DriverType
  <2> HIDE DEF g
  <2>4. QED
    BY <1>5, <2>1, <2>2, <2>3, OtherRingTyped
<1>7. QED
  BY <1>1, <1>4, <1>5, <1>6 DEF c

\* Filling a TRB changes that ring alone.
LEMMA FillIs ==
  ASSUME NEW d, DriverType(d), NEW r \in Rings, NEW i \in Index(r), NEW x \in Trb, x.id <= d.made[r],
         NEW c, c = [d EXCEPT !.ring[r] = Fill(d.ring[r], i, x)]
  PROVE  /\ DriverType(c) /\ OtherRing(d, c, r, Fill(d.ring[r], i, x))
         /\ c.panic = d.panic
<1> DEFINE g == Fill(d.ring[r], i, x)
<1>1. /\ d.ring[r] \in RingType(r) /\ DOMAIN d = Fields /\ DOMAIN d.ring = Rings
      /\ \A j \in Index(r) : d.ring[r].trb[j].id <= d.made[r]
  BY DEF DriverType
<1>2. g \in RingType(r) /\ g.trb = [d.ring[r].trb EXCEPT ![i] = x]
  BY <1>1, FillTyped
<1>3. c = [d EXCEPT !.ring[r] = g]
  OBVIOUS
<1> HIDE DEF g
<1>4. OtherRing(d, c, r, g) /\ c.panic = d.panic
  BY <1>1, <1>3 DEF OtherRing, Fields
<1>5. \A j \in Index(r) : g.trb[j].id <= d.made[r]
  <2>1. DOMAIN d.ring[r].trb = Index(r)
    BY <1>1 DEF RingType
  <2>2. QED
    BY <1>1, <1>2, <2>1
<1>6. DriverType(c)
  <2>1. c.panic \in Panics
    BY <1>4 DEF DriverType
  <2>2. QED
    BY <1>2, <1>4, <1>5, <2>1, OtherRingTyped
<1>7. QED
  BY <1>4, <1>6 DEF g

\* TransferAsync as the handler makes it: one request more, and unless the ring
\* is full or an assertion fails, it is in m_pURB and in the ring.
LEMMA TransferAsyncIs ==
  ASSUME NEW d, DriverType(d), NEW e \in Endpoints
  PROVE  LET c == TransferAsync(d, e)
             x == [id |-> d.made[e] + 1, ioc |-> TRUE]
         IN /\ DriverType(c)
            /\ c.done = d.done /\ c.answer = d.answer /\ c.trb = d.trb
            /\ c.made = [d.made EXCEPT ![e] = d.made[e] + 1]
            /\ \A r \in Endpoints \ {e} : c.urb[r] = d.urb[r]
            /\ \A r \in Rings \ {e} : c.ring[r] = d.ring[r]
            /\ c.panic = "none" => d.panic = "none" /\ Len(d.urb[e]) < 2
            /\ c.panic = "none" /\ ~IsFull(d.ring[e]) =>
                 /\ c.urb[e] = Append(d.urb[e], d.made[e] + 1)
                 /\ c.ring[e] = IncrementEnqueue(Fill(d.ring[e], d.ring[e].enq, x))
<1> DEFINE b == QueueRequest(d, e)
<1> DEFINE x == [id |-> d.made[e] + 1, ioc |-> TRUE]
<1> DEFINE c == TransferAsync(d, e)
<1>1. /\ DriverType(b)
      /\ b.ring = d.ring /\ b.done = d.done /\ b.answer = d.answer /\ b.trb = d.trb
      /\ b.made = [d.made EXCEPT ![e] = d.made[e] + 1]
      /\ \A r \in Endpoints \ {e} : b.urb[r] = d.urb[r]
      /\ Len(b.urb[e]) >= 1
      /\ b.panic = "none" => /\ d.panic = "none" /\ Len(d.urb[e]) < 2
                             /\ b.urb[e] = Append(d.urb[e], d.made[e] + 1)
  BY QueueRequestIs
<1>2. c = IF IsFull(b.ring[e]) THEN EnqueueError(b, e)
          ELSE Increment([b EXCEPT !.ring[e] = Fill(@, @.enq, x)], e)
  BY DEF TransferAsync, EnqueueTRB
<1> HIDE DEF b, c
<1>3. /\ e \in Rings /\ DOMAIN b = Fields /\ b.ring[e] \in RingType(e) /\ DOMAIN b.ring = Rings
      /\ DOMAIN b.urb = Endpoints /\ d.made \in [Rings -> Nat]
  BY <1>1 DEF DriverType, Rings
<1>4. CASE IsFull(b.ring[e])
  <2> DEFINE q == SubSeq(b.urb[e], 1, Len(b.urb[e]) - 1)
  <2>1. c = [b EXCEPT !.urb[e] = q]
    BY <1>2, <1>4 DEF EnqueueError
  <2>2. /\ b.urb[e] \in Seq(Nat) /\ Len(b.urb[e]) \in Nat /\ Len(b.urb[e]) <= 2 /\ Len(b.urb[e]) >= 1
        /\ \A k \in 1..Len(b.urb[e]) : b.urb[e][k] \in 1..b.made[e]
    BY <1>1 DEF DriverType
  <2>3. q \in Seq(Nat) /\ Len(q) = Len(b.urb[e]) - 1 /\ \A k \in 1..Len(q) : q[k] = b.urb[e][k]
    BY <2>2
  <2>4. Len(q) <= 2 /\ \A k \in 1..Len(q) : q[k] \in 1..b.made[e]
    <3>1. 1..Len(q) \subseteq 1..Len(b.urb[e]) /\ Len(q) <= 2
      BY <2>2, <2>3
    <3> HIDE DEF q
    <3>2. QED
      BY <2>2, <2>3, <3>1
  <2> HIDE DEF q
  <2>5. DOMAIN c = Fields
    BY <1>3, <2>1
  <2>6. c.urb = [b.urb EXCEPT ![e] = q]
    BY <1>3, <2>1 DEF Fields
  <2>7. /\ c.ring = b.ring /\ c.made = b.made /\ c.done = b.done /\ c.answer = b.answer /\ c.trb = b.trb
        /\ c.panic = b.panic
    BY <1>3, <2>1 DEF Fields
  <2>8. \A r \in Endpoints : c.urb[r] = IF r = e THEN q ELSE b.urb[r]
    BY <1>3, <2>6
  <2>9. c.urb \in [Endpoints -> Seq(Nat)]
    <3>1. b.urb \in [Endpoints -> Seq(Nat)]
      BY <1>1 DEF DriverType
    <3>2. QED
      BY <2>3, <2>6, <3>1
  <2>10. DriverType(c)
    <3>1. \A r \in Endpoints : Len(c.urb[r]) <= 2
      BY <1>1, <2>4, <2>8 DEF DriverType
    <3>2. \A r \in Endpoints : \A k \in 1..Len(c.urb[r]) : c.urb[r][k] \in 1..c.made[r]
      BY <1>1, <2>4, <2>7, <2>8 DEF DriverType
    <3>3. QED
      BY <1>1, <2>5, <2>7, <2>9, <3>1, <3>2 DEF DriverType
  <2>11. IsFull(d.ring[e])
    BY <1>1, <1>4
  <2>12. QED
    BY <1>1, <2>7, <2>8, <2>10, <2>11 DEF c
<1>5. CASE ~IsFull(b.ring[e])
  <2> DEFINE g == Fill(b.ring[e], b.ring[e].enq, x)
  <2> DEFINE a == [b EXCEPT !.ring[e] = g]
  <2>1. c = Increment(a, e)
    BY <1>2, <1>5
  <2>2. x \in Trb /\ x.id <= b.made[e]
    <3>1. d.made[e] \in Nat /\ b.made[e] = d.made[e] + 1
      BY <1>1, <1>3
    <3>2. QED
      BY <3>1 DEF Trb
  <2>3. b.ring[e].enq \in Index(e)
    BY <1>3, Sizes DEF RingType, Index
  <2> HIDE DEF x
  <2>4. DriverType(a) /\ OtherRing(b, a, e, g) /\ a.panic = b.panic
    BY <1>1, <1>3, <2>2, <2>3, FillIs
  <2> HIDE DEF a, g
  <2>5. /\ DriverType(c) /\ OtherRing(a, c, e, IncrementEnqueue(a.ring[e]))
        /\ c.panic = "none" => a.panic = "none"
    BY <1>3, <2>1, <2>4, IncrementIs
  <2>6. a.ring[e] = g /\ \A r \in Rings \ {e} : a.ring[r] = b.ring[r]
    BY <1>3, <2>4 DEF OtherRing
  <2>7. c.ring[e] = IncrementEnqueue(g) /\ \A r \in Rings \ {e} : c.ring[r] = b.ring[r]
    BY <1>3, <2>4, <2>5, <2>6 DEF OtherRing, DriverType
  <2>8. /\ c.urb = b.urb /\ c.made = b.made /\ c.done = b.done /\ c.answer = b.answer /\ c.trb = b.trb
    BY <2>4, <2>5 DEF OtherRing
  <2>9. c.panic = "none" => b.panic = "none"
    BY <2>4, <2>5
  <2>10. g = Fill(d.ring[e], d.ring[e].enq, x)
    BY <1>1 DEF g
  <2>11. QED
    BY <1>1, <2>5, <2>7, <2>8, <2>9, <2>10 DEF c, x
<1>6. QED
  BY <1>4, <1>5

-----------------------------------------------------------------------------
(* The invariant. *)

\* The task is somewhere in DoCommand, Transfer or TransferAsync.
TaskSound(t, d) ==
  /\ t \in TaskType
  /\ t.pc = "idle" <=> t.ring = "none"
  /\ t.ring = "cmd" => t.pc \in {"wait", "expired"}
  /\ t.ring # "in"
  /\ t.ring # "none" => 1 <= t.id /\ t.id <= d.made[t.ring]
  /\ t.pc \in {"fill", "step"} => t.trb \in Index(t.ring)
  /\ t.pc \in {"take", "fill", "step"} => t.stage \in 1..Stages(t.ring)

\* Events are about requests made.
Named(p, d) == \A k \in DOMAIN p : p[k].id <= d.made[p[k].ring]

Typing ==
  /\ EInv /\ DriverType(drv)
  /\ DOMAIN hc.ring = Rings /\ \A r \in Rings : hc.ring[r] \in Side(r)
  /\ TaskSound(task, drv)
  /\ Pending \in Seq(Event) /\ Named(Pending, drv)
  /\ disturbed \subseteq Rings

\* The answer to the task's transfer is its own, and so is that to its command,
\* whose TRB nobody uses again while an event about it is pending.
OwnTransfer ==
  task.ring \in Endpoints \ disturbed /\ drv.done[task.ring] => drv.answer[task.ring] = task.id

OwnCommand ==
  task.ring = "cmd" /\ task.pc = "wait" /\ "cmd" \notin disturbed =>
    /\ drv.done["cmd"] => drv.answer["cmd"] = task.id
    /\ ~drv.done["cmd"] =>
         /\ drv.ring["cmd"].trb[drv.trb].id = task.id
         /\ \A k \in Posts("cmd", Pending) : Pending[k].trb = drv.trb => Pending[k].id = task.id

Tracked ==
  Running => \A r \in Endpoints \ disturbed : Tracks(r, drv, hc.ring[r], task, Pending)

\* The inductive invariant.
RInv == Typing /\ OwnTransfer /\ OwnCommand /\ Tracked

-----------------------------------------------------------------------------
(* The task. *)

\* The types of the task.
LEMMA TaskTyped ==
  ASSUME NEW t, NEW d, DriverType(d), TaskSound(t, d)
  PROVE  /\ t \in TaskType /\ t.id \in Nat /\ t.trb \in Nat /\ t.stage \in {0, 1, 2}
         /\ t = [pc |-> t.pc, ring |-> t.ring, id |-> t.id, stage |-> t.stage, trb |-> t.trb]
         /\ t.ring \in Rings \cup {"none"}
         /\ t.pc = "idle" => t.ring = "none"
         /\ t.pc \in {"take", "fill", "step"} => t.ring \in {"ep0", "out"}
         /\ t.pc \in {"wait", "expired"} => t.ring \in {"ep0", "out", "cmd"}
         /\ \A r \in Rings : d.made[r] \in Nat
BY DEF TaskSound, TaskType, DriverType, Rings, Endpoints

\* The idle task.
LEMMA IdleSound ==
  ASSUME NEW d
  PROVE  TaskSound(Idle, d) /\ Idle.ring = "none" /\ Idle.pc = "idle"
<1>1. Idle \in TaskType
  BY DEF Idle, TaskType
<1>2. Idle.ring = "none" /\ Idle.pc = "idle"
  BY DEF Idle
<1>3. QED
  BY <1>1, <1>2 DEF TaskSound

\* The task leaves the events and the controller alone.
LEMMA TaskEvents ==
  ASSUME EInv, Task
  PROVE  EInv' /\ Pending' = Pending /\ hc' = hc
<1>1. SameReader(drv, drv') /\ hc' = hc
  BY TaskReads, Typed
<1>2. QED
  BY <1>1, SameEvents, Typed

\* More requests made, and the events are still about requests made.
LEMMA NamedStill ==
  ASSUME NEW p \in Seq(Event), NEW d, NEW c, DriverType(d), DriverType(c), Named(p, d),
         \A r \in Rings : d.made[r] <= c.made[r]
  PROVE  Named(p, c)
<1> SUFFICES ASSUME NEW k \in DOMAIN p PROVE p[k].id <= c.made[p[k].ring]
  BY DEF Named
<1>1. p[k] \in Event
  OBVIOUS
<1>2. p[k].ring \in Rings /\ p[k].id \in Nat
  BY <1>1 DEF Event
<1>3. d.made[p[k].ring] \in Nat /\ c.made[p[k].ring] \in Nat /\ d.made[p[k].ring] <= c.made[p[k].ring]
  BY <1>2 DEF DriverType
<1>4. p[k].id <= d.made[p[k].ring]
  BY DEF Named
<1>5. QED
  BY <1>2, <1>3, <1>4

\* What a step of the task has to show.
LEMMA TaskTypes ==
  ASSUME Typing, Task, DriverType(drv'), \A r \in Rings : drv.made[r] <= drv'.made[r],
         TaskSound(task', drv'), disturbed' \subseteq Rings
  PROVE  Typing'
<1>1. EInv' /\ Pending' = Pending /\ hc' = hc
  BY TaskEvents DEF Typing
<1>2. Named(Pending, drv')
  BY NamedStill DEF Typing
<1>3. QED
  BY <1>1, <1>2 DEF Typing

\* The rings that a step of the task is not about.
LEMMA OthersTracked ==
  ASSUME RInv, Running, Task, disturbed \subseteq disturbed', NEW e,
         \A r \in Endpoints \ {e} : Like(r, drv, drv') /\ task.ring # r /\ task'.ring # r
  PROVE  \A r \in Endpoints \ (disturbed' \cup {e}) : Tracks(r, drv', hc'.ring[r], task', Pending')
<1> SUFFICES ASSUME NEW r \in Endpoints \ (disturbed' \cup {e})
             PROVE  Tracks(r, drv', hc'.ring[r], task', Pending')
  OBVIOUS
<1>1. Pending' = Pending /\ hc' = hc
  BY TaskEvents DEF RInv, Typing
<1>2. Tracks(r, drv, hc.ring[r], task, Pending)
  BY DEF RInv, Tracked
<1>3. Tracks(r, drv', hc.ring[r], task, Pending)
  BY <1>2, TracksLike
<1>4. Tracks(r, drv', hc.ring[r], task', Pending)
  BY <1>3, TracksElsewhere
<1>5. QED
  BY <1>1, <1>4

\* DoCommand sends a command in a TRB about which no event is pending.
LEMMA DoCommandKeeps ==
  ASSUME RInv, DoCommand
  PROVE  RInv'
<1> DEFINE ring == drv.ring["cmd"]
<1> DEFINE id == drv.made["cmd"] + 1
<1> DEFINE x == [id |-> id, ioc |-> TRUE]
<1>0. Running /\ Task /\ task.pc = "idle"
  BY DEF DoCommand, TaskRuns, Task
<1>1. /\ DriverType(drv) /\ task.ring = "none" /\ disturbed \subseteq Rings /\ "cmd" \in Rings
      /\ "cmd" \notin Endpoints /\ Pending' = Pending /\ hc' = hc
      /\ drv.made["cmd"] \in Nat /\ id \in Nat /\ "none" \notin Rings
  <2>1. DriverType(drv) /\ TaskSound(task, drv) /\ disturbed \subseteq Rings /\ EInv
    BY DEF RInv, Typing
  <2>2. task.ring = "none"
    BY <1>0, <2>1, TaskTyped
  <2>3. Pending' = Pending /\ hc' = hc
    BY <1>0, <2>1, TaskEvents
  <2>4. "cmd" \in Rings /\ "cmd" \notin Endpoints /\ "none" \notin Rings
    BY DEF Rings, Endpoints
  <2>5. drv.made["cmd"] \in Nat
    BY <2>1, <2>4 DEF DriverType
  <2>6. QED
    BY <2>1, <2>2, <2>3, <2>4, <2>5
<1>2. disturbed' = disturbed \cup Overrun("cmd") \cup Reused(ring.enq)
  BY DEF DoCommand
<1>3. disturbed' \subseteq Rings /\ disturbed \subseteq disturbed'
  BY <1>1, <1>2 DEF Overrun, Reused
<1>4. CASE IsFull(ring)
  <2>1. drv' = [drv EXCEPT !.made["cmd"] = id] /\ task' = task
    BY <1>4 DEF DoCommand
  <2>2. /\ DOMAIN drv' = Fields /\ drv'.made = [drv.made EXCEPT !["cmd"] = id]
        /\ drv'.ring = drv.ring /\ drv'.urb = drv.urb /\ drv'.done = drv.done /\ drv'.answer = drv.answer
        /\ drv'.trb = drv.trb /\ drv'.panic = drv.panic
    BY <1>1, <2>1 DEF DriverType, Fields
  <2>3. \A r \in Rings : /\ drv'.made[r] = IF r = "cmd" THEN id ELSE drv.made[r]
                         /\ drv.made[r] \in Nat /\ drv.made[r] <= drv'.made[r]
    BY <1>1, <2>2 DEF DriverType
  <2>4. DriverType(drv')
    <3>1. drv'.made \in [Rings -> Nat]
      BY <1>1, <2>2 DEF DriverType
    <3>2. \A r \in Rings : \A i \in Index(r) : drv'.ring[r].trb[i].id <= drv'.made[r]
      <4> SUFFICES ASSUME NEW r \in Rings, NEW i \in Index(r) PROVE drv'.ring[r].trb[i].id <= drv'.made[r]
        OBVIOUS
      <4>1. drv.ring[r].trb[i].id <= drv.made[r] /\ drv.ring[r] \in RingType(r)
        BY <1>1 DEF DriverType
      <4>2. drv.ring[r].trb[i].id \in Nat
        BY <4>1 DEF RingType, Trb
      <4>3. QED
        BY <1>1, <2>2, <2>3, <4>1, <4>2
    <3>3. \A r \in Rings : drv'.answer[r] <= drv'.made[r]
      <4> SUFFICES ASSUME NEW r \in Rings PROVE drv'.answer[r] <= drv'.made[r]
        OBVIOUS
      <4>1. drv.answer[r] <= drv.made[r] /\ drv.answer[r] \in Nat
        BY <1>1 DEF DriverType
      <4>2. QED
        BY <1>1, <2>2, <2>3, <4>1
    <3>4. \A r \in Endpoints : drv'.made[r] = drv.made[r]
      BY <1>1, <2>3 DEF Rings
    <3>5. QED
      BY <1>1, <2>2, <3>1, <3>2, <3>3, <3>4 DEF DriverType
  <2>5. TaskSound(task', drv')
    BY <1>1, <2>1 DEF RInv, Typing, TaskSound
  <2>6. Typing'
    BY <1>0, <1>3, <2>3, <2>4, <2>5, TaskTypes DEF RInv
  <2>7. OwnTransfer' /\ OwnCommand'
    BY <1>1, <2>1 DEF OwnTransfer, OwnCommand, Rings
  <2>8. \A r \in Endpoints : Like(r, drv, drv') /\ task.ring # r /\ task'.ring # r
    BY <1>1, <2>1, <2>2, <2>3 DEF Like, Rings
  <2>9. \A r \in Endpoints \ (disturbed' \cup {"cmd"}) : Tracks(r, drv', hc'.ring[r], task', Pending')
    BY <1>0, <1>3, <2>8, OthersTracked
  <2>10. Tracked'
    BY <1>1, <2>9 DEF Tracked
  <2>11. QED
    BY <2>6, <2>7, <2>10 DEF RInv
<1>5. CASE ~IsFull(ring)
  <2> DEFINE d == [drv EXCEPT !.made["cmd"] = id, !.trb = ring.enq, !.done["cmd"] = FALSE,
                          !.ring["cmd"] = Fill(ring, ring.enq, x)]
  <2> DEFINE a == Assert(d, drv.done["cmd"], "xhcicommandmanager.cpp:187")
  <2> DEFINE g == Fill(ring, ring.enq, x)
  <2>1. drv' = Increment(a, "cmd") /\ task' = [Idle EXCEPT !.pc = "wait", !.ring = "cmd", !.id = id]
    BY <1>5 DEF DoCommand
  <2>2. /\ ring \in RingType("cmd") /\ ring.enq \in Index("cmd") /\ x \in Trb
    <3>1. ring \in RingType("cmd")
      BY <1>1 DEF DriverType
    <3>2. ring.enq \in Index("cmd")
      BY <1>1, <3>1, Sizes DEF RingType, Index
    <3>3. x \in Trb
      BY <1>1 DEF Trb
    <3>4. QED
      BY <3>1, <3>2, <3>3
  <2>3. /\ DOMAIN d = Fields /\ d.made = [drv.made EXCEPT !["cmd"] = id] /\ d.trb = ring.enq
        /\ d.done = [drv.done EXCEPT !["cmd"] = FALSE] /\ d.ring = [drv.ring EXCEPT !["cmd"] = g]
        /\ d.urb = drv.urb /\ d.answer = drv.answer /\ d.panic = drv.panic
    BY <1>1 DEF DriverType, Fields
  <2> HIDE DEF d
  <2>4. \A r \in Rings : /\ d.made[r] = IF r = "cmd" THEN id ELSE drv.made[r]
                         /\ drv.made[r] \in Nat /\ drv.made[r] <= d.made[r]
    BY <1>1, <2>3 DEF DriverType
  <2>5. g \in RingType("cmd") /\ g.trb = [ring.trb EXCEPT ![ring.enq] = x]
    <3> HIDE DEF x
    <3>1. QED
      BY <1>1, <2>2, FillTyped
  <2>6. g.trb[ring.enq] = x /\ \A i \in Index("cmd") : g.trb[i].id <= id
    <3>1. ring.trb \in [Index("cmd") -> Trb]
      BY <2>2 DEF RingType
    <3>2. \A i \in Index("cmd") : ring.trb[i].id \in Nat /\ ring.trb[i].id <= drv.made["cmd"]
      BY <1>1, <3>1 DEF DriverType, Trb
    <3> HIDE DEF g
    <3>3. g.trb[ring.enq] = x
      BY <2>2, <2>5, <3>1
    <3>4. ASSUME NEW i \in Index("cmd") PROVE g.trb[i].id <= id
      <4>1. CASE i = ring.enq
        BY <1>1, <3>3, <4>1
      <4>2. CASE i # ring.enq
        <5>1. g.trb[i] = ring.trb[i]
          BY <2>5, <3>1, <4>2
        <5>2. QED
          BY <1>1, <3>2, <5>1
      <4>3. QED
        BY <4>1, <4>2
    <3>5. QED
      BY <3>3, <3>4
  <2> HIDE DEF g
  <2>7. \A r \in Rings : d.ring[r] = IF r = "cmd" THEN g ELSE drv.ring[r]
    BY <1>1, <2>3 DEF DriverType
  <2>8. DriverType(d)
    <3>1. d.made \in [Rings -> Nat] /\ d.done \in [Rings -> BOOLEAN] /\ DOMAIN d.ring = Rings
      BY <1>1, <2>3 DEF DriverType
    <3>2. \A r \in Rings : d.ring[r] \in RingType(r)
      BY <1>1, <2>5, <2>7 DEF DriverType
    <3>3. \A r \in Rings : \A i \in Index(r) : d.ring[r].trb[i].id <= d.made[r]
      BY <1>1, <2>4, <2>6, <2>7 DEF DriverType
    <3>4. \A r \in Rings : d.answer[r] <= d.made[r]
      <4> SUFFICES ASSUME NEW r \in Rings PROVE d.answer[r] <= d.made[r]
        OBVIOUS
      <4>1. drv.answer[r] <= drv.made[r] /\ drv.answer[r] \in Nat
        BY <1>1 DEF DriverType
      <4>2. QED
        BY <1>1, <2>3, <2>4, <4>1
    <3>5. \A r \in Endpoints : d.made[r] = drv.made[r]
      BY <1>1, <2>4 DEF Rings
    <3>6. d.trb \in Index("cmd")
      BY <2>2, <2>3
    <3>7. QED
      BY <1>1, <2>3, <3>1, <3>2, <3>3, <3>4, <3>5, <3>6 DEF DriverType
  <2>9. DriverType(a) /\ SameRequests(d, a)
    <3>1. "xhcicommandmanager.cpp:187" # "none"
      OBVIOUS
    <3>2. "xhcicommandmanager.cpp:187" \in Panics
      BY DEF Panics
    <3> DEFINE holds == drv.done["cmd"]
    <3> HIDE DEF holds
    <3>3. DriverType(Assert(d, holds, "xhcicommandmanager.cpp:187"))
          /\ SameRequests(d, Assert(d, holds, "xhcicommandmanager.cpp:187"))
      BY <2>8, <3>1, <3>2, AssertIs
    <3>4. QED
      BY <3>3 DEF holds
  <2> HIDE DEF a
  <2>10. DriverType(drv') /\ OtherRing(a, drv', "cmd", IncrementEnqueue(a.ring["cmd"]))
    BY <1>1, <2>1, <2>9, IncrementIs
  <2>11. /\ drv'.urb = drv.urb /\ drv'.made = d.made /\ drv'.done = d.done /\ drv'.answer = drv.answer
         /\ drv'.trb = ring.enq
    BY <2>3, <2>9, <2>10 DEF OtherRing, SameRequests
  <2>12. /\ drv'.ring["cmd"].trb = g.trb
         /\ \A r \in Endpoints : drv'.ring[r] = drv.ring[r]
    <3>1. a.ring["cmd"] = g
      BY <1>1, <2>7, <2>9 DEF SameRequests
    <3>2. IncrementEnqueue(g).trb = g.trb
      BY <1>1, <2>5, IncrementTyped
    <3>3. \A r \in Rings : drv'.ring[r] = IF r = "cmd" THEN IncrementEnqueue(g) ELSE a.ring[r]
      BY <2>9, <2>10, <3>1 DEF OtherRing, DriverType
    <3>4. QED
      BY <1>1, <2>7, <2>9, <3>2, <3>3 DEF SameRequests, Rings
  <2>13. task'.pc = "wait" /\ task'.ring = "cmd" /\ task'.id = id /\ task' \in TaskType
    BY <1>1, <2>1 DEF Idle, TaskType
  <2>14. TaskSound(task', drv')
    <3>1. drv'.made["cmd"] = id /\ 1 <= id
      BY <1>1, <2>4, <2>11
    <3>2. QED
      BY <1>1, <2>13, <3>1 DEF TaskSound
  <2>15. Typing'
    BY <1>0, <1>3, <2>4, <2>10, <2>11, <2>14, TaskTypes DEF RInv
  <2>16. OwnTransfer'
    BY <1>1, <2>13 DEF OwnTransfer
  <2>17. OwnCommand'
    <3> SUFFICES ASSUME "cmd" \notin disturbed'
                 PROVE  /\ ~drv'.done["cmd"]
                        /\ drv'.ring["cmd"].trb[drv'.trb].id = id
                        /\ \A k \in Posts("cmd", Pending) : Pending[k].trb # ring.enq
      BY <1>1, <2>11, <2>13 DEF OwnCommand
    <3>1. ~drv'.done["cmd"]
      BY <1>1, <2>3, <2>11 DEF DriverType
    <3>2. drv'.ring["cmd"].trb[drv'.trb].id = id
      BY <2>6, <2>11, <2>12
    <3>3. Reused(ring.enq) = {}
      BY <1>2 DEF Reused
    <3>4. QED
      BY <3>1, <3>2, <3>3 DEF Reused, Posts
  <2>18. \A r \in Endpoints : Like(r, drv, drv') /\ task.ring # r /\ task'.ring # r
    <3> SUFFICES ASSUME NEW r \in Endpoints PROVE Like(r, drv, drv') /\ task.ring # r /\ task'.ring # r
      OBVIOUS
    <3>1. r \in Rings /\ r # "cmd"
      BY <1>1 DEF Rings
    <3>2. drv'.made[r] = drv.made[r] /\ drv'.done[r] = drv.done[r]
      BY <1>1, <2>3, <2>4, <2>11, <3>1 DEF DriverType
    <3>3. QED
      BY <1>1, <2>11, <2>12, <2>13, <3>1, <3>2 DEF Like
  <2>19. \A r \in Endpoints \ (disturbed' \cup {"cmd"}) : Tracks(r, drv', hc'.ring[r], task', Pending')
    BY <1>0, <1>3, <2>18, OthersTracked
  <2>20. Tracked'
    BY <1>1, <2>19 DEF Tracked
  <2>21. QED
    BY <2>15, <2>16, <2>17, <2>20 DEF RInv
<1>6. QED
  BY <1>4, <1>5

\* What every step of the task starts from.
LEMMA TaskStep ==
  ASSUME RInv, Task
  PROVE  /\ DriverType(drv) /\ TaskSound(task, drv) /\ disturbed \subseteq Rings /\ DOMAIN drv = Fields
         /\ Pending' = Pending /\ hc' = hc /\ Running
         /\ \A r \in Endpoints \ disturbed : Tracks(r, drv, hc.ring[r], task, Pending)
         /\ \A r \in Rings : drv.made[r] \in Nat
         /\ Endpoints \subseteq Rings /\ "cmd" \in Rings /\ "cmd" \notin Endpoints /\ "none" \notin Rings
         /\ "ep0" \in Endpoints /\ "out" \in Endpoints /\ "in" \in Endpoints
<1>1. Running
  BY DEF Task, DoCommand, StartRequest, TakeTRB, FillTRB, StepTRB, Answered, Expire, TimedOut,
         Transfer, TaskRuns
<1>2. Pending' = Pending /\ hc' = hc
  BY TaskEvents DEF RInv, Typing
<1>3. DriverType(drv) /\ TaskSound(task, drv) /\ disturbed \subseteq Rings
  BY DEF RInv, Typing
<1>4. \A r \in Rings : drv.made[r] \in Nat
  BY <1>3 DEF DriverType
<1>5. \A r \in Endpoints \ disturbed : Tracks(r, drv, hc.ring[r], task, Pending)
  BY <1>1 DEF RInv, Tracked
<1>6. QED
  BY <1>1, <1>2, <1>3, <1>4, <1>5 DEF DriverType, Rings, Endpoints

\* The task returns with the answer.
LEMMA AnsweredKeeps ==
  ASSUME RInv, Answered
  PROVE  RInv'
<1> DEFINE e == task.ring
<1>0. Task /\ Running /\ task.pc = "wait" /\ drv.done[e] /\ task' = Idle /\ disturbed' = disturbed
      /\ drv' = [drv EXCEPT !.answer[e] = 0]
  BY DEF Answered, Task, TaskRuns
<1>1. /\ DriverType(drv) /\ TaskSound(task, drv) /\ DOMAIN drv = Fields /\ disturbed \subseteq Rings
      /\ Pending' = Pending /\ hc' = hc /\ \A r \in Rings : drv.made[r] \in Nat
  BY <1>0, TaskStep
<1>2. e \in {"ep0", "out", "cmd"} /\ e \in Rings /\ task \in TaskType
  BY <1>0, <1>1, TaskTyped DEF Rings, Endpoints
<1>3. /\ DOMAIN drv' = Fields /\ drv'.answer = [drv.answer EXCEPT ![e] = 0]
      /\ drv'.ring = drv.ring /\ drv'.urb = drv.urb /\ drv'.made = drv.made /\ drv'.done = drv.done
      /\ drv'.trb = drv.trb /\ drv'.panic = drv.panic
  BY <1>0, <1>1 DEF Fields
<1>4. DriverType(drv')
  <2>1. drv.answer \in [Rings -> Nat] /\ \A r \in Rings : drv.answer[r] <= drv.made[r]
    BY <1>1 DEF DriverType
  <2> HIDE DEF e
  <2>2. drv'.answer \in [Rings -> Nat]
    <3>1. drv'.answer = [drv.answer EXCEPT ![e] = 0]
      BY <1>3
    <3>2. drv.answer \in [Rings -> Nat]
      BY <2>1
    <3> DEFINE f == drv.answer
    <3>3. f \in [Rings -> Nat] /\ [f EXCEPT ![e] = 0] \in [Rings -> Nat]
      <4>1. f \in [Rings -> Nat]
        BY <3>2
      <4> HIDE DEF f
      <4>2. QED
        BY <4>1
    <3>4. QED
      BY <3>1, <3>3
  <2>3. \A r \in Rings : drv'.answer[r] <= drv'.made[r]
    <3> SUFFICES ASSUME NEW r \in Rings PROVE drv'.answer[r] <= drv'.made[r]
      OBVIOUS
    <3>1. drv'.answer[r] = IF r = e THEN 0 ELSE drv.answer[r]
      BY <1>3, <2>1
    <3>2. drv.made[r] \in Nat /\ drv'.made[r] = drv.made[r] /\ drv.answer[r] <= drv.made[r]
      BY <1>1, <1>3, <2>1
    <3>3. QED
      BY <3>1, <3>2
  <2>4. QED
    BY <1>1, <1>3, <2>2, <2>3 DEF DriverType
<1>5. TaskSound(task', drv') /\ task'.ring = "none" /\ task'.pc = "idle"
  BY <1>0, IdleSound
<1>6. Typing'
  <2>1. \A r \in Rings : drv.made[r] <= drv'.made[r]
    BY <1>1, <1>3
  <2>2. QED
    BY <1>0, <1>1, <1>4, <1>5, <2>1, TaskTypes DEF RInv
<1>7. OwnTransfer' /\ OwnCommand'
  BY <1>5 DEF OwnTransfer, OwnCommand, Endpoints
<1>8. \A r \in Endpoints : Like(r, drv, drv')
  BY <1>3 DEF Like
<1>9. \A r \in Endpoints \ (disturbed' \cup {e}) : Tracks(r, drv', hc'.ring[r], task', Pending')
  <2>1. \A r \in Endpoints \ {e} : Like(r, drv, drv') /\ task.ring # r /\ task'.ring # r
    BY <1>5, <1>8 DEF Endpoints
  <2>2. disturbed \subseteq disturbed'
    BY <1>0
  <2> HIDE DEF e
  <2>3. QED
    BY <1>0, <2>1, <2>2, OthersTracked
<1>10. ASSUME e \in Endpoints \ disturbed' PROVE Tracks(e, drv', hc'.ring[e], task', Pending')
  <2>1. Tracks(e, drv, hc.ring[e], task, Pending)
    BY <1>0, <1>10, TaskStep
  <2>2. ~Working(e, task) /\ ~Working(e, task')
    BY <1>0, <1>5 DEF Working
  <2>3. task'.ring # e
    BY <1>5, <1>10 DEF Endpoints
  <2>4. Tracks(e, drv, hc.ring[e], task', Pending)
    BY <1>0, <1>2, <1>10, <2>1, <2>2, <2>3, TracksWaiting
  <2>5. Tracks(e, drv', hc.ring[e], task', Pending)
    BY <1>8, <1>10, <2>4, TracksLike
  <2>6. QED
    BY <1>1, <2>5
<1>11. Tracked'
  BY <1>9, <1>10 DEF Tracked
<1>12. QED
  BY <1>6, <1>7, <1>11 DEF RInv

\* The task is told that the time is up.
LEMMA ExpireKeeps ==
  ASSUME RInv, Expire
  PROVE  RInv'
<1> DEFINE e == task.ring
<1>0. Task /\ Running /\ task.pc = "wait" /\ disturbed' = disturbed /\ drv' = drv
      /\ task' = [task EXCEPT !.pc = "expired"]
  BY DEF Expire, Task, TaskRuns
<1>1. /\ DriverType(drv) /\ TaskSound(task, drv) /\ DOMAIN drv = Fields /\ disturbed \subseteq Rings
      /\ Pending' = Pending /\ hc' = hc /\ \A r \in Rings : drv.made[r] \in Nat
  BY <1>0, TaskStep
<1>2. e \in {"ep0", "out", "cmd"} /\ e \in Rings /\ task \in TaskType
  BY <1>0, <1>1, TaskTyped DEF Rings, Endpoints
<1>3. task'.ring = e /\ task'.pc = "expired" /\ task'.id = task.id /\ task' \in TaskType
  BY <1>0, <1>2 DEF TaskType
<1>4. TaskSound(task', drv')
  BY <1>0, <1>1, <1>2, <1>3 DEF TaskSound, Rings, Endpoints
<1>5. Typing'
  <2>1. \A r \in Rings : drv.made[r] <= drv'.made[r]
    BY <1>0, <1>1
  <2>2. QED
    BY <1>0, <1>1, <1>4, <2>1, TaskTypes DEF RInv
<1>6. OwnTransfer' /\ OwnCommand'
  BY <1>0, <1>3 DEF RInv, OwnTransfer, OwnCommand
<1>7. \A r \in Endpoints : Like(r, drv, drv')
  BY <1>0 DEF Like
<1>8. \A r \in Endpoints \ (disturbed' \cup {e}) : Tracks(r, drv', hc'.ring[r], task', Pending')
  <2>1. \A r \in Endpoints \ {e} : Like(r, drv, drv') /\ task.ring # r /\ task'.ring # r
    BY <1>3, <1>7
  <2>2. disturbed \subseteq disturbed'
    BY <1>0
  <2> HIDE DEF e
  <2>3. QED
    BY <1>0, <2>1, <2>2, OthersTracked
<1>9. ASSUME e \in Endpoints \ disturbed' PROVE Tracks(e, drv', hc'.ring[e], task', Pending')
  <2>1. Tracks(e, drv, hc.ring[e], task, Pending)
    BY <1>0, <1>9, TaskStep
  <2>2. ~Working(e, task) /\ ~Working(e, task')
    BY <1>0, <1>3 DEF Working
  <2>3. Tracks(e, drv, hc.ring[e], task', Pending)
    BY <1>2, <1>3, <1>9, <2>1, <2>2, TracksWaiting
  <2>4. QED
    BY <1>0, <1>1, <2>3
<1>10. Tracked'
  BY <1>8, <1>9 DEF Tracked
<1>11. QED
  BY <1>5, <1>6, <1>10 DEF RInv

\* The task gives up: nothing more is claimed of its endpoint.
LEMMA TimedOutKeeps ==
  ASSUME RInv, TimedOut
  PROVE  RInv'
<1> DEFINE e == task.ring
<1>0. Task /\ Running /\ task.pc = "expired" /\ disturbed' = disturbed \cup ({e} \ {"cmd"})
      /\ drv' = GiveUp(drv, e) /\ task' = Idle
  BY DEF TimedOut, Task, TaskRuns
<1>1. /\ DriverType(drv) /\ TaskSound(task, drv) /\ DOMAIN drv = Fields /\ disturbed \subseteq Rings
      /\ Pending' = Pending /\ hc' = hc /\ \A r \in Rings : drv.made[r] \in Nat
  BY <1>0, TaskStep
<1>2. e \in {"ep0", "out", "cmd"} /\ e \in Rings /\ (e # "cmd" => e \in Endpoints)
  BY <1>0, <1>1, TaskTyped DEF Rings, Endpoints
<1>3. Link("cmd") \in Index("cmd")
  BY Sizes DEF Index, Rings
<1> HIDE DEF e
<1>4. /\ DOMAIN drv' = Fields /\ drv'.ring = drv.ring /\ drv'.made = drv.made
      /\ drv'.done = [drv.done EXCEPT ![e] = TRUE] /\ drv'.answer = drv.answer /\ drv'.panic = drv.panic
      /\ drv'.trb \in Index("cmd")
      /\ IF e = "cmd" THEN drv'.urb = drv.urb
         ELSE drv'.urb = [drv.urb EXCEPT ![e] = IF drv.urb[e] = <<>> THEN drv.urb[e] ELSE Tail(drv.urb[e])]
  <2>1. CASE e = "cmd"
    <3>1. drv' = [drv EXCEPT !.done["cmd"] = TRUE, !.trb = Link("cmd")]
      BY <1>0, <2>1 DEF GiveUp
    <3>2. QED
      BY <1>1, <1>3, <2>1, <3>1 DEF Fields
  <2>2. CASE e # "cmd"
    <3>1. drv' = [drv EXCEPT !.urb[e] = IF @ = <<>> THEN @ ELSE Tail(@), !.done[e] = TRUE]
      BY <1>0, <2>2 DEF GiveUp
    <3>2. drv.trb \in Index("cmd")
      BY <1>1 DEF DriverType
    <3>3. QED
      BY <1>1, <2>2, <3>1, <3>2 DEF Fields
  <2>3. QED
    BY <2>1, <2>2
<1>5. DriverType(drv')
  <2>1. /\ drv'.urb \in [Endpoints -> Seq(Nat)]
        /\ \A r \in Endpoints : Len(drv'.urb[r]) <= 2
        /\ \A r \in Endpoints : \A k \in 1..Len(drv'.urb[r]) : drv'.urb[r][k] \in 1..drv'.made[r]
    <3>1. CASE drv'.urb = drv.urb
      BY <1>1, <1>4, <3>1 DEF DriverType
    <3>2. CASE e # "cmd" /\ drv.urb[e] # <<>>
      <4> DEFINE q == Tail(drv.urb[e])
      <4>1. drv'.urb = [drv.urb EXCEPT ![e] = q]
        BY <1>4, <3>2
      <4>2. /\ drv.urb[e] \in Seq(Nat) /\ Len(drv.urb[e]) <= 2 /\ drv.urb \in [Endpoints -> Seq(Nat)]
            /\ \A k \in 1..Len(drv.urb[e]) : drv.urb[e][k] \in 1..drv.made[e]
        BY <1>1, <1>2, <3>2 DEF DriverType
      <4>3. q \in Seq(Nat) /\ Len(q) = Len(drv.urb[e]) - 1 /\ Len(q) \in Nat
            /\ \A k \in 1..Len(q) : q[k] = drv.urb[e][k + 1]
        BY <3>2, <4>2
      <4> HIDE DEF q
      <4>4. \A k \in 1..Len(q) : q[k] \in 1..drv.made[e]
        <5> SUFFICES ASSUME NEW k \in 1..Len(q) PROVE q[k] \in 1..drv.made[e]
          OBVIOUS
        <5>1. k + 1 \in 1..Len(drv.urb[e])
          BY <4>2, <4>3
        <5>2. QED
          BY <4>2, <4>3, <5>1
      <4>5. \A r \in Endpoints : drv'.urb[r] = IF r = e THEN q ELSE drv.urb[r]
        BY <4>1, <4>2
      <4>6. drv'.urb \in [Endpoints -> Seq(Nat)]
        BY <4>1, <4>2, <4>3
      <4>7. Len(q) <= 2
        BY <4>2, <4>3
      <4>8. QED
        BY <1>1, <1>4, <4>4, <4>5, <4>6, <4>7 DEF DriverType
    <3>3. CASE e # "cmd" /\ drv.urb[e] = <<>>
      <4>1. drv'.urb = drv.urb
        <5>1. drv.urb \in [Endpoints -> Seq(Nat)]
          BY <1>1 DEF DriverType
        <5>2. QED
          BY <1>4, <3>3, <5>1
      <4>2. QED
        BY <3>1, <4>1
    <3>4. QED
      BY <1>4, <3>1, <3>2, <3>3
  <2>2. drv'.done \in [Rings -> BOOLEAN]
    BY <1>1, <1>4 DEF DriverType
  <2>3. QED
    BY <1>1, <1>4, <2>1, <2>2 DEF DriverType
<1>6. TaskSound(task', drv') /\ task'.ring = "none" /\ task'.pc = "idle"
  BY <1>0, IdleSound
<1>7. Typing'
  <2>1. \A r \in Rings : drv.made[r] <= drv'.made[r]
    BY <1>1, <1>4
  <2>2. disturbed' \subseteq Rings
    BY <1>0, <1>1, <1>2
  <2>3. QED
    BY <1>0, <1>5, <1>6, <2>1, <2>2, TaskTypes DEF RInv
<1>8. OwnTransfer' /\ OwnCommand'
  BY <1>6 DEF OwnTransfer, OwnCommand, Endpoints
<1>9. \A r \in Endpoints \ {e} : Like(r, drv, drv') /\ task.ring # r /\ task'.ring # r
  <2> SUFFICES ASSUME NEW r \in Endpoints \ {e}
               PROVE  Like(r, drv, drv') /\ task.ring # r /\ task'.ring # r
    OBVIOUS
  <2>1. r \in Rings
    BY DEF Rings
  <2>2. drv'.urb[r] = drv.urb[r] /\ drv'.done[r] = drv.done[r]
    BY <1>1, <1>4, <2>1 DEF DriverType
  <2>3. task.ring # r /\ task'.ring # r
    BY <1>6 DEF e, Endpoints
  <2>4. QED
    BY <1>4, <2>2, <2>3 DEF Like
<1>10. \A r \in Endpoints \ (disturbed' \cup {e}) : Tracks(r, drv', hc'.ring[r], task', Pending')
  <2>1. disturbed \subseteq disturbed'
    BY <1>0
  <2>2. QED
    BY <1>0, <1>9, <2>1, OthersTracked
<1>11. Tracked'
  <2>1. \A r \in Endpoints \ disturbed' : r # e
    BY <1>0 DEF Endpoints
  <2>2. QED
    BY <1>10, <2>1 DEF Tracked
<1>12. QED
  BY <1>7, <1>8, <1>11 DEF RInv

\* Transfer queues the task's request, and from here on the task submits it.
LEMMA TransferKeeps ==
  ASSUME RInv, NEW e \in {"ep0", "out"}, Transfer(e)
  PROVE  RInv'
<1> DEFINE a == Assert(drv, drv.done[e], "xhciendpoint.cpp:213")
<1> DEFINE b == [a EXCEPT !.done[e] = FALSE]
<1>0. /\ Task /\ Running /\ task.pc = "idle" /\ disturbed' = disturbed /\ drv' = QueueRequest(b, e)
      /\ task' = [pc |-> "take", ring |-> e, id |-> drv.made[e] + 1, stage |-> 1, trb |-> 0]
  BY DEF Transfer, Task, TaskRuns
<1>1. /\ DriverType(drv) /\ TaskSound(task, drv) /\ DOMAIN drv = Fields /\ disturbed \subseteq Rings
      /\ Pending' = Pending /\ hc' = hc /\ \A r \in Rings : drv.made[r] \in Nat
  BY <1>0, TaskStep
<1>2. e \in Endpoints /\ e \in Rings /\ e # "cmd" /\ task.ring = "none" /\ task \in TaskType
      /\ task.ring # e /\ e # "none"
  BY <1>0, <1>1, TaskTyped DEF Rings, Endpoints
<1>3. DriverType(a) /\ SameRequests(drv, a) /\ (a.panic = "none" => drv.panic = "none")
  <2>1. "xhciendpoint.cpp:213" # "none"
    OBVIOUS
  <2>2. "xhciendpoint.cpp:213" \in Panics
    BY DEF Panics
  <2> DEFINE holds == drv.done[e]
  <2> HIDE DEF holds
  <2>3. /\ DriverType(Assert(drv, holds, "xhciendpoint.cpp:213"))
        /\ SameRequests(drv, Assert(drv, holds, "xhciendpoint.cpp:213"))
        /\ Assert(drv, holds, "xhciendpoint.cpp:213").panic = "none" => drv.panic = "none"
    BY <1>1, <2>1, <2>2, AssertIs
  <2>4. QED
    BY <2>3 DEF holds
<1> HIDE DEF a
<1>4. /\ DOMAIN b = Fields /\ b.ring = drv.ring /\ b.urb = drv.urb /\ b.made = drv.made
      /\ b.done = [drv.done EXCEPT ![e] = FALSE] /\ b.answer = drv.answer /\ b.trb = drv.trb
      /\ b.panic = a.panic
  <2>1. DOMAIN a = Fields /\ a.done = drv.done
    BY <1>3 DEF DriverType, SameRequests
  <2>2. /\ DOMAIN b = Fields /\ b.ring = a.ring /\ b.urb = a.urb /\ b.made = a.made
        /\ b.done = [a.done EXCEPT ![e] = FALSE] /\ b.answer = a.answer /\ b.trb = a.trb
        /\ b.panic = a.panic
    BY <2>1 DEF Fields
  <2>3. QED
    BY <1>3, <2>1, <2>2 DEF SameRequests
<1> HIDE DEF b
<1>5. DriverType(b)
  <2>1. b.done \in [Rings -> BOOLEAN] /\ b.panic \in Panics
    BY <1>1, <1>3, <1>4 DEF DriverType
  <2>2. QED
    BY <1>1, <1>4, <2>1 DEF DriverType
<1>6. /\ DriverType(drv')
      /\ drv'.ring = drv.ring /\ drv'.done = [drv.done EXCEPT ![e] = FALSE]
      /\ drv'.answer = drv.answer /\ drv'.trb = drv.trb
      /\ drv'.made = [drv.made EXCEPT ![e] = drv.made[e] + 1]
      /\ \A r \in Endpoints \ {e} : drv'.urb[r] = drv.urb[r]
      /\ drv'.panic = "none" => /\ drv.panic = "none" /\ Len(drv.urb[e]) < 2
                                /\ drv'.urb[e] = Append(drv.urb[e], drv.made[e] + 1)
  <2> DEFINE c == QueueRequest(b, e)
  <2>1. /\ DriverType(c)
        /\ c.ring = b.ring /\ c.done = b.done /\ c.answer = b.answer /\ c.trb = b.trb
        /\ c.made = [b.made EXCEPT ![e] = b.made[e] + 1]
        /\ \A r \in Endpoints \ {e} : c.urb[r] = b.urb[r]
        /\ Len(c.urb[e]) >= 1
        /\ c.panic = "none" => /\ b.panic = "none" /\ Len(b.urb[e]) < 2
                               /\ c.urb[e] = Append(b.urb[e], b.made[e] + 1)
    BY <1>2, <1>5, QueueRequestIs
  <2> HIDE DEF c
  <2>2. drv' = c
    BY <1>0 DEF c
  <2>3. QED
    BY <1>3, <1>4, <2>1, <2>2
<1>7. \A r \in Rings : /\ drv'.made[r] = IF r = e THEN drv.made[r] + 1 ELSE drv.made[r]
                       /\ drv'.done[r] = IF r = e THEN FALSE ELSE drv.done[r]
                       /\ drv.made[r] \in Nat /\ drv.made[r] <= drv'.made[r]
  <2> SUFFICES ASSUME NEW r \in Rings
               PROVE  /\ drv'.made[r] = IF r = e THEN drv.made[r] + 1 ELSE drv.made[r]
                      /\ drv'.done[r] = IF r = e THEN FALSE ELSE drv.done[r]
                      /\ drv.made[r] \in Nat /\ drv.made[r] <= drv'.made[r]
    OBVIOUS
  <2>1. DOMAIN drv.made = Rings /\ DOMAIN drv.done = Rings
    BY <1>1 DEF DriverType
  <2>2. drv'.made[r] = IF r = e THEN drv.made[r] + 1 ELSE drv.made[r]
    BY <1>6, <2>1
  <2>3. drv'.done[r] = IF r = e THEN FALSE ELSE drv.done[r]
    BY <1>6, <2>1
  <2>4. drv.made[r] \in Nat
    BY <1>1
  <2>5. QED
    BY <2>2, <2>3, <2>4
<1>8. /\ task'.pc = "take" /\ task'.ring = e /\ task'.id = drv.made[e] + 1 /\ task'.stage = 1
      /\ task' \in TaskType
  BY <1>0, <1>1, <1>2 DEF TaskType
<1>9. TaskSound(task', drv')
  <2>1. 1 <= task'.id /\ task'.id <= drv'.made[e]
    <3>1. drv.made[e] \in Nat /\ drv'.made[e] = drv.made[e] + 1
      BY <1>2, <1>7
    <3>2. QED
      BY <1>8, <3>1
  <2>2. 1 \in 1..Stages(e)
    BY DEF Stages
  <2>3. QED
    BY <1>2, <1>8, <2>1, <2>2 DEF TaskSound
<1>10. Typing'
  BY <1>0, <1>1, <1>6, <1>7, <1>9, TaskTypes DEF RInv
<1>11. OwnTransfer' /\ OwnCommand'
  BY <1>2, <1>7, <1>8 DEF OwnTransfer, OwnCommand
<1>12. \A r \in Endpoints \ {e} : Like(r, drv, drv') /\ task.ring # r /\ task'.ring # r
  <2> SUFFICES ASSUME NEW r \in Endpoints \ {e}
               PROVE  Like(r, drv, drv') /\ task.ring # r /\ task'.ring # r
    OBVIOUS
  <2>1. r \in Rings /\ r # "none"
    BY DEF Rings, Endpoints
  <2>2. drv'.made[r] = drv.made[r] /\ drv'.done[r] = drv.done[r]
    BY <1>7, <2>1
  <2>3. QED
    BY <1>2, <1>6, <1>8, <2>1, <2>2 DEF Like
<1>13. \A r \in Endpoints \ (disturbed' \cup {e}) : Tracks(r, drv', hc'.ring[r], task', Pending')
  <2>1. disturbed \subseteq disturbed'
    BY <1>0
  <2>2. QED
    BY <1>0, <1>12, <2>1, OthersTracked
<1>14. ASSUME Running', e \notin disturbed' PROVE Tracks(e, drv', hc'.ring[e], task', Pending')
  <2>1. Tracks(e, drv, hc.ring[e], task, Pending)
    BY <1>0, <1>2, <1>14, TaskStep
  <2>2. /\ Len(drv.urb[e]) < 2
        /\ drv'.urb[e] = Append(drv.urb[e], drv.made[e] + 1)
    BY <1>6, <1>14 DEF Running
  <2>3. drv'.made[e] = drv.made[e] + 1 /\ drv'.done[e] = FALSE /\ drv'.ring[e] = drv.ring[e]
    BY <1>2, <1>6, <1>7
  <2>4. /\ task.ring # e /\ task \in TaskType
        /\ task' = [pc |-> "take", ring |-> e, id |-> drv.made[e] + 1, stage |-> 1, trb |-> 0]
    BY <1>0, <1>2
  <2> DEFINE c == drv'
  <2> DEFINE u == task'
  <2> DEFINE h == hc.ring[e]
  <2> DEFINE p == Pending
  <2> HIDE DEF c, u, h, p
  <2>6. Tracks(e, c, h, u, p)
    <3>1. Tracks(e, drv, h, task, p)
      BY <2>1 DEF h, p
    <3>2. u = [pc |-> "take", ring |-> e, id |-> drv.made[e] + 1, stage |-> 1, trb |-> 0]
      BY <2>4 DEF u
    <3>3. /\ Len(drv.urb[e]) < 2 /\ c.urb[e] = Append(drv.urb[e], drv.made[e] + 1)
          /\ c.made[e] = drv.made[e] + 1 /\ c.done[e] = FALSE /\ c.ring[e] = drv.ring[e]
      BY <2>2, <2>3 DEF c
    <3>4. QED
      BY <2>4, <3>1, <3>2, <3>3, TracksBegin
  <2>7. QED
    BY <1>1, <2>6 DEF c, u, h, p
<1>15. Tracked'
  <2>1. e \in Endpoints
    BY <1>2
  <2>2. QED
    BY <1>13, <1>14, <2>1 DEF Tracked, Endpoints
<1>16. QED
  BY <1>10, <1>11, <1>15 DEF RInv

\* Another m_pURB of endpoint e in the driver's memory.
OtherQueue(d, c, e, q) ==
  /\ DOMAIN c = Fields /\ c.urb = [d.urb EXCEPT ![e] = q]
  /\ c.ring = d.ring /\ c.made = d.made /\ c.done = d.done /\ c.answer = d.answer /\ c.trb = d.trb
  /\ c.panic = d.panic

\* m_pURB without one of its requests is still one of requests made.
LEMMA OtherQueueTyped ==
  ASSUME NEW d, DriverType(d), NEW e \in Endpoints, NEW q \in Seq(Nat), Len(q) <= 2,
         \A k \in 1..Len(q) : q[k] \in 1..d.made[e], NEW c, OtherQueue(d, c, e, q)
  PROVE  DriverType(c) /\ \A r \in Endpoints : c.urb[r] = IF r = e THEN q ELSE d.urb[r]
<1>1. d.urb \in [Endpoints -> Seq(Nat)] /\ c.urb = [d.urb EXCEPT ![e] = q]
  BY DEF OtherQueue, DriverType
<1>2. \A r \in Endpoints : c.urb[r] = IF r = e THEN q ELSE d.urb[r]
  BY <1>1
<1>3. c.urb \in [Endpoints -> Seq(Nat)]
  BY <1>1
<1>4. \A r \in Endpoints : Len(c.urb[r]) <= 2
  BY <1>2 DEF DriverType
<1>5. \A r \in Endpoints : \A k \in 1..Len(c.urb[r]) : c.urb[r][k] \in 1..c.made[r]
  BY <1>2 DEF OtherQueue, DriverType
<1>6. QED
  BY <1>2, <1>3, <1>4, <1>5 DEF OtherQueue, DriverType

\* The task takes the TRB at the enqueue index, or gives its request up when the
\* ring is full: it is not, unless the driver has overrun the controller.
LEMMA TakeTRBKeeps ==
  ASSUME RInv, TakeTRB
  PROVE  RInv'
<1> DEFINE e == task.ring
<1>0. Task /\ Running /\ task.pc = "take" /\ disturbed' = disturbed \cup Overrun(e)
  BY DEF TakeTRB, Task, TaskRuns
<1>1. /\ DriverType(drv) /\ TaskSound(task, drv) /\ DOMAIN drv = Fields /\ disturbed \subseteq Rings
      /\ Pending' = Pending /\ hc' = hc /\ \A r \in Rings : drv.made[r] \in Nat
  BY <1>0, TaskStep
<1>2. e \in Endpoints /\ e \in Rings /\ e # "cmd" /\ task \in TaskType /\ e # "none"
  BY <1>0, <1>1, TaskTyped DEF Rings, Endpoints
<1>3. disturbed' \subseteq Rings /\ disturbed \subseteq disturbed'
  BY <1>0, <1>1, <1>2 DEF Overrun
<1>4. ASSUME e \notin disturbed'
      PROVE  /\ Tracks(e, drv, hc.ring[e], task, Pending) /\ ~IsFull(drv.ring[e])
             /\ Unseen(e, drv.ring[e], hc.ring[e], 0) + 1 < Link(e)
  <2>1. Tracks(e, drv, hc.ring[e], task, Pending)
    BY <1>0, <1>2, <1>3, <1>4, TaskStep
  <2>2. Filled(e, task) = 0 /\ Taken(e, task) = 0
    BY <1>0 DEF Filled, Taken
  <2>3. InOrder(e, drv.ring[e], hc.ring[e], 0, 0)
    BY <2>1, <2>2 DEF Tracks
  <2>4. Overrun(e) = {}
    BY <1>0, <1>4 DEF Overrun
  <2> HIDE DEF e
  <2>5. QED
    BY <1>2, <2>1, <2>3, <2>4, TakeInOrder, RoomUnlessOverrun
<1>5. CASE IsFull(drv.ring[e])
  <2> DEFINE o == drv.urb[e]
  <2> DEFINE q == SubSeq(o, 1, Len(o) - 1)
  <2>1. drv' = [drv EXCEPT !.urb[e] = q] /\ task' = Idle
    BY <1>5 DEF TakeTRB, EnqueueError
  <2>2. OtherQueue(drv, drv', e, q)
    BY <1>1, <2>1 DEF OtherQueue, Fields
  <2>3. o \in Seq(Nat) /\ Len(o) <= 2 /\ \A k \in 1..Len(o) : o[k] \in 1..drv.made[e]
    BY <1>1, <1>2 DEF DriverType
  <2> HIDE DEF o
  <2>4. q \in Seq(Nat) /\ Len(q) <= 2 /\ \A k \in 1..Len(q) : q[k] \in 1..drv.made[e]
    <3>1. CASE Len(o) >= 1
      <4>0. o \in Seq(Nat) /\ Len(o) \in Nat /\ Len(o) >= 1
        BY <2>3, <3>1
      <4>1. q \in Seq(Nat) /\ Len(q) = Len(o) - 1 /\ \A k \in 1..Len(q) : q[k] = o[k]
        <5> DEFINE n == Len(o) - 1
        <5>1. n \in Nat /\ n <= Len(o)
          BY <4>0
        <5> HIDE DEF n
        <5>2. /\ SubSeq(o, 1, n) \in Seq(Nat) /\ SubSeq(o, 1, n) = [k \in 1..n |-> o[k]]
              /\ Len(SubSeq(o, 1, n)) = n
          BY <4>0, <5>1
        <5>3. \A k \in 1..n : SubSeq(o, 1, n)[k] = o[k]
          BY <5>2
        <5>4. QED
          BY <5>2, <5>3 DEF n
      <4>2. 1..Len(q) \subseteq 1..Len(o) /\ Len(q) <= 2
        BY <2>3, <4>1
      <4> HIDE DEF q
      <4>3. QED
        BY <2>3, <4>1, <4>2
    <3>2. CASE ~(Len(o) >= 1)
      <4>1. Len(o) = 0
        BY <2>3, <3>2
      <4>2. q = <<>>
        BY <2>3, <4>1
      <4> HIDE DEF q
      <4>3. QED
        BY <4>2
    <3>3. QED
      BY <3>1, <3>2
  <2> HIDE DEF q, e
  <2>5. DriverType(drv') /\ \A r \in Endpoints : drv'.urb[r] = IF r = e THEN q ELSE drv.urb[r]
    BY <1>1, <1>2, <2>2, <2>4, OtherQueueTyped
  <2>6. TaskSound(task', drv') /\ task'.ring = "none" /\ task'.pc = "idle"
    BY <2>1, IdleSound
  <2>7. Typing'
    <3>1. \A r \in Rings : drv.made[r] <= drv'.made[r]
      BY <1>1, <2>2 DEF OtherQueue
    <3>2. QED
      BY <1>0, <1>1, <1>3, <2>5, <2>6, <3>1, TaskTypes DEF RInv
  <2>8. OwnTransfer' /\ OwnCommand'
    BY <2>6 DEF OwnTransfer, OwnCommand, Endpoints
  <2>9. \A r \in Endpoints \ {e} : Like(r, drv, drv') /\ task.ring # r /\ task'.ring # r
    <3> SUFFICES ASSUME NEW r \in Endpoints \ {e}
                 PROVE  Like(r, drv, drv') /\ task.ring # r /\ task'.ring # r
      OBVIOUS
    <3>1. drv'.urb[r] = drv.urb[r]
      BY <2>5
    <3>2. task.ring # r /\ task'.ring # r
      BY <2>6 DEF e, Endpoints
    <3>3. QED
      BY <2>2, <3>1, <3>2 DEF Like, OtherQueue
  <2>10. \A r \in Endpoints \ (disturbed' \cup {e}) : Tracks(r, drv', hc'.ring[r], task', Pending')
    BY <1>0, <1>3, <2>9, OthersTracked
  <2>11. e \in disturbed'
    BY <1>4, <1>5
  <2>12. Tracked'
    BY <2>10, <2>11 DEF Tracked
  <2>13. QED
    BY <2>7, <2>8, <2>12 DEF RInv
<1>6. CASE ~IsFull(drv.ring[e])
  <2>1. drv' = drv /\ task' = [task EXCEPT !.pc = "fill", !.trb = drv.ring[e].enq]
    BY <1>6 DEF TakeTRB
  <2>2. drv.ring[e].enq \in Index(e) /\ drv.ring[e].enq \in Nat
    <3>1. drv.ring[e] \in RingType(e) /\ Link(e) \in Nat /\ Link(e) >= 2
      BY <1>1, <1>2, Sizes DEF DriverType
    <3>2. QED
      BY <3>1 DEF RingType, Index
  <2>3. /\ task'.pc = "fill" /\ task'.ring = e /\ task'.id = task.id /\ task'.stage = task.stage
        /\ task'.trb = drv.ring[e].enq /\ task' \in TaskType
    BY <1>2, <2>1, <2>2 DEF TaskType
  <2>4. TaskSound(task', drv')
    <3>1. /\ 1 <= task.id /\ task.id <= drv.made[e] /\ task.stage \in 1..Stages(e) /\ e # "in"
      BY <1>0, <1>1, <1>2 DEF TaskSound
    <3>2. QED
      BY <1>2, <2>1, <2>2, <2>3, <3>1 DEF TaskSound
  <2>5. Typing'
    <3>1. \A r \in Rings : drv.made[r] <= drv'.made[r]
      BY <1>1, <2>1
    <3>2. DriverType(drv')
      BY <1>1, <2>1
    <3>3. QED
      BY <1>0, <1>3, <2>4, <3>1, <3>2, TaskTypes DEF RInv
  <2>6. OwnTransfer' /\ OwnCommand'
    <3>1. OwnTransfer
      BY DEF RInv
    <3>2. QED
      BY <1>2, <1>3, <2>1, <2>3, <3>1 DEF OwnTransfer, OwnCommand
  <2>7. \A r \in Endpoints \ {e} : Like(r, drv, drv') /\ task.ring # r /\ task'.ring # r
    BY <2>1, <2>3 DEF Like
  <2>8. \A r \in Endpoints \ (disturbed' \cup {e}) : Tracks(r, drv', hc'.ring[r], task', Pending')
    <3> HIDE DEF e
    <3>1. QED
      BY <1>0, <1>3, <2>7, OthersTracked
  <2>9. ASSUME e \notin disturbed' PROVE Tracks(e, drv', hc'.ring[e], task', Pending')
    <3>1. /\ Tracks(e, drv, hc.ring[e], task, Pending)
          /\ Unseen(e, drv.ring[e], hc.ring[e], 0) + 1 < Link(e)
      BY <1>4, <2>9
    <3> DEFINE u == task'
    <3> DEFINE r == e
    <3>2. u = [task EXCEPT !.pc = "fill", !.trb = drv.ring[r].enq] /\ task.ring = r
      BY <2>1
    <3> HIDE DEF u, r
    <3>3. /\ Tracks(r, drv, hc.ring[r], task, Pending) /\ r \in Endpoints
          /\ Unseen(r, drv.ring[r], hc.ring[r], 0) + 1 < Link(r)
      BY <1>2, <3>1 DEF r
    <3>4. Tracks(r, drv, hc.ring[r], u, Pending)
      BY <1>0, <1>2, <3>2, <3>3, TracksTake
    <3>5. QED
      BY <1>1, <2>1, <3>4 DEF u, r
  <2>10. Tracked'
    BY <2>8, <2>9 DEF Tracked
  <2>11. QED
    BY <2>5, <2>6, <2>10 DEF RInv
<1>7. QED
  BY <1>5, <1>6

\* The task fills the TRB it has taken.
LEMMA FillTRBKeeps ==
  ASSUME RInv, FillTRB
  PROVE  RInv'
<1> DEFINE e == task.ring
<1> DEFINE x == [id |-> task.id, ioc |-> task.stage = Stages(e)]
<1>0. /\ Task /\ Running /\ task.pc = "fill" /\ disturbed' = disturbed
      /\ drv' = [drv EXCEPT !.ring[e] = Fill(drv.ring[e], task.trb, x)]
      /\ task' = [task EXCEPT !.pc = "step"]
  BY DEF FillTRB, Task, TaskRuns
<1>1. /\ DriverType(drv) /\ TaskSound(task, drv) /\ DOMAIN drv = Fields /\ disturbed \subseteq Rings
      /\ Pending' = Pending /\ hc' = hc /\ \A r \in Rings : drv.made[r] \in Nat
  BY <1>0, TaskStep
<1>2. e \in Endpoints /\ e \in Rings /\ e # "cmd" /\ task \in TaskType /\ e # "none"
  BY <1>0, <1>1, TaskTyped DEF Rings, Endpoints
<1>3. /\ 1 <= task.id /\ task.id <= drv.made[e] /\ task.trb \in Index(e) /\ x \in Trb
      /\ x.id <= drv.made[e] /\ task.stage \in 1..Stages(e) /\ e # "in"
  <2>1. /\ 1 <= task.id /\ task.id <= drv.made[e] /\ task.trb \in Index(e)
        /\ task.stage \in 1..Stages(e) /\ e # "in"
    BY <1>0, <1>1, <1>2 DEF TaskSound
  <2>2. x \in Trb /\ x.id = task.id
    BY <1>2 DEF Trb, TaskType
  <2>3. QED
    BY <2>1, <2>2
<1> HIDE DEF e, x
<1>4. DriverType(drv') /\ OtherRing(drv, drv', e, Fill(drv.ring[e], task.trb, x))
  BY <1>0, <1>1, <1>2, <1>3, FillIs
<1>5. \A r \in Rings : drv'.ring[r] = IF r = e THEN Fill(drv.ring[e], task.trb, x) ELSE drv.ring[r]
  BY <1>1, <1>4 DEF OtherRing, DriverType
<1>6. /\ task'.pc = "step" /\ task'.ring = e /\ task'.id = task.id /\ task'.stage = task.stage
      /\ task'.trb = task.trb /\ task' \in TaskType
  BY <1>0, <1>2 DEF TaskType, e
<1>7. TaskSound(task', drv')
  BY <1>2, <1>3, <1>4, <1>6 DEF TaskSound, OtherRing
<1>8. Typing'
  <2>1. \A r \in Rings : drv.made[r] <= drv'.made[r]
    BY <1>1, <1>4 DEF OtherRing
  <2>2. QED
    BY <1>0, <1>1, <1>4, <1>7, <2>1, TaskTypes DEF RInv
<1>9. OwnTransfer' /\ OwnCommand'
  <2>1. OwnTransfer /\ task.ring = e
    BY DEF RInv, e
  <2>2. QED
    BY <1>0, <1>2, <1>4, <1>6, <2>1 DEF OwnTransfer, OwnCommand, OtherRing
<1>10. \A r \in Endpoints \ {e} : Like(r, drv, drv') /\ task.ring # r /\ task'.ring # r
  BY <1>4, <1>5, <1>6 DEF Like, OtherRing, Rings, e
<1>11. \A r \in Endpoints \ (disturbed' \cup {e}) : Tracks(r, drv', hc'.ring[r], task', Pending')
  <2>1. disturbed \subseteq disturbed'
    BY <1>0
  <2>2. QED
    BY <1>0, <1>10, <2>1, OthersTracked
<1>12. ASSUME e \notin disturbed' PROVE Tracks(e, drv', hc'.ring[e], task', Pending')
  <2> DEFINE u == task'
  <2> DEFINE c == drv'
  <2>1. Tracks(e, drv, hc.ring[e], task, Pending)
    BY <1>0, <1>2, <1>12, TaskStep
  <2>2. task.ring = e /\ u = [task EXCEPT !.pc = "step"]
    BY <1>0 DEF e
  <2>3. /\ c.urb[e] = drv.urb[e] /\ c.made[e] = drv.made[e] /\ c.done[e] = drv.done[e]
        /\ c.ring[e] = Fill(drv.ring[e], task.trb, [id |-> task.id, ioc |-> task.stage = Stages(e)])
    BY <1>2, <1>4, <1>5 DEF OtherRing, x
  <2> HIDE DEF u, c
  <2>4. Tracks(e, c, hc.ring[e], u, Pending)
    BY <1>0, <1>2, <2>1, <2>2, <2>3, TracksFill
  <2>5. QED
    BY <1>1, <2>4 DEF u, c
<1>13. Tracked'
  BY <1>11, <1>12 DEF Tracked
<1>14. QED
  BY <1>8, <1>9, <1>13 DEF RInv

\* The task steps over the TRB it has filled.
LEMMA StepTRBKeeps ==
  ASSUME RInv, StepTRB
  PROVE  RInv'
<1> DEFINE e == task.ring
<1> DEFINE last == task.stage = Stages(e)
<1>0. /\ Task /\ Running /\ task.pc = "step" /\ disturbed' = disturbed
      /\ drv' = Increment(drv, e)
      /\ task' = IF last THEN [task EXCEPT !.pc = "wait"]
                 ELSE [task EXCEPT !.pc = "take", !.stage = task.stage + 1]
  BY DEF StepTRB, Task, TaskRuns
<1>1. /\ DriverType(drv) /\ TaskSound(task, drv) /\ DOMAIN drv = Fields /\ disturbed \subseteq Rings
      /\ Pending' = Pending /\ hc' = hc /\ \A r \in Rings : drv.made[r] \in Nat
  BY <1>0, TaskStep
<1>2. /\ e \in Endpoints /\ e \in Rings /\ e # "cmd" /\ task \in TaskType /\ e # "none"
      /\ e \in {"ep0", "out"}
  BY <1>0, <1>1, TaskTyped DEF Rings, Endpoints
<1>3. /\ 1 <= task.id /\ task.id <= drv.made[e] /\ task.stage \in 1..Stages(e)
      /\ task.stage \in {1, 2} /\ Stages(e) \in {1, 2}
  <2>1. 1 <= task.id /\ task.id <= drv.made[e] /\ task.stage \in 1..Stages(e)
    BY <1>0, <1>1, <1>2 DEF TaskSound
  <2>2. Stages(e) \in {1, 2}
    BY DEF Stages
  <2>3. QED
    BY <2>1, <2>2
<1> HIDE DEF e
<1>4. DriverType(drv') /\ OtherRing(drv, drv', e, IncrementEnqueue(drv.ring[e]))
  BY <1>0, <1>1, <1>2, IncrementIs
<1>5. \A r \in Rings : drv'.ring[r] = IF r = e THEN IncrementEnqueue(drv.ring[e]) ELSE drv.ring[r]
  BY <1>1, <1>4 DEF OtherRing, DriverType
<1>6. /\ task'.ring = e /\ task'.id = task.id /\ task'.trb = task.trb /\ task' \in TaskType
      /\ task'.pc = IF last THEN "wait" ELSE "take"
      /\ task'.stage = IF last THEN task.stage ELSE task.stage + 1
  <2>1. CASE last
    <3>1. task' = [task EXCEPT !.pc = "wait"]
      BY <1>0, <2>1
    <3>2. QED
      BY <1>2, <2>1, <3>1 DEF TaskType, e
  <2>2. CASE ~last
    <3>1. task' = [task EXCEPT !.pc = "take", !.stage = task.stage + 1] /\ task.stage + 1 \in {1, 2}
      BY <1>0, <1>3, <2>2
    <3>2. QED
      BY <1>2, <2>2, <3>1 DEF TaskType, e
  <2>3. QED
    BY <2>1, <2>2
<1>7. TaskSound(task', drv')
  <2>1. task'.pc = "take" => task'.stage \in 1..Stages(e)
    BY <1>3, <1>6
  <2>2. task'.pc \in {"wait", "take"} /\ e # "in" /\ drv'.made = drv.made
    BY <1>2, <1>4, <1>6 DEF OtherRing
  <2>3. QED
    BY <1>2, <1>3, <1>6, <2>1, <2>2 DEF TaskSound
<1>8. Typing'
  <2>1. \A r \in Rings : drv.made[r] <= drv'.made[r]
    BY <1>1, <1>4 DEF OtherRing
  <2>2. QED
    BY <1>0, <1>1, <1>4, <1>7, <2>1, TaskTypes DEF RInv
<1>9. OwnTransfer' /\ OwnCommand'
  <2>1. OwnTransfer /\ task.ring = e
    BY DEF RInv, e
  <2>2. QED
    BY <1>0, <1>2, <1>4, <1>6, <2>1 DEF OwnTransfer, OwnCommand, OtherRing
<1>10. \A r \in Endpoints \ {e} : Like(r, drv, drv') /\ task.ring # r /\ task'.ring # r
  BY <1>4, <1>5, <1>6 DEF Like, OtherRing, Rings, e
<1>11. \A r \in Endpoints \ (disturbed' \cup {e}) : Tracks(r, drv', hc'.ring[r], task', Pending')
  <2>1. disturbed \subseteq disturbed'
    BY <1>0
  <2>2. QED
    BY <1>0, <1>10, <2>1, OthersTracked
<1>12. ASSUME e \notin disturbed' PROVE Tracks(e, drv', hc'.ring[e], task', Pending')
  <2> DEFINE u == task'
  <2> DEFINE c == drv'
  <2>1. Tracks(e, drv, hc.ring[e], task, Pending)
    BY <1>0, <1>2, <1>12, TaskStep
  <2>2. task.ring = e /\ u = Stepped(e, task)
    BY <1>0 DEF e, Stepped
  <2>3. /\ c.urb[e] = drv.urb[e] /\ c.made[e] = drv.made[e] /\ c.done[e] = drv.done[e]
        /\ c.ring[e] = IncrementEnqueue(drv.ring[e])
    BY <1>2, <1>4, <1>5 DEF OtherRing
  <2> DEFINE h == hc.ring[e]
  <2> DEFINE p == Pending
  <2>4. Tracks(e, drv, h, task, p) /\ task.pc = "step" /\ task \in TaskType /\ e \in Endpoints
    BY <1>0, <1>2, <2>1
  <2> HIDE DEF u, c, h, p
  <2>5. Tracks(e, c, h, u, p)
    BY <2>2, <2>3, <2>4, TracksStep
  <2>6. QED
    BY <1>1, <2>5 DEF u, c, h, p
<1>13. Tracked'
  BY <1>11, <1>12 DEF Tracked
<1>14. QED
  BY <1>8, <1>9, <1>13 DEF RInv

\* TransferAsync on one endpoint leaves the others alone.
LEMMA SubmitLike ==
  ASSUME NEW d, DriverType(d), NEW e \in Endpoints, NEW r \in Endpoints \ {e}
  PROVE  Like(r, d, TransferAsync(d, e))
<1> DEFINE c == TransferAsync(d, e)
<1> DEFINE x == [id |-> d.made[e] + 1, ioc |-> TRUE]
<1>1. /\ DriverType(c)
      /\ c.done = d.done /\ c.answer = d.answer /\ c.trb = d.trb
      /\ c.made = [d.made EXCEPT ![e] = d.made[e] + 1]
      /\ \A q \in Endpoints \ {e} : c.urb[q] = d.urb[q]
      /\ \A q \in Rings \ {e} : c.ring[q] = d.ring[q]
      /\ c.panic = "none" => d.panic = "none" /\ Len(d.urb[e]) < 2
      /\ c.panic = "none" /\ ~IsFull(d.ring[e]) =>
           /\ c.urb[e] = Append(d.urb[e], d.made[e] + 1)
           /\ c.ring[e] = IncrementEnqueue(Fill(d.ring[e], d.ring[e].enq, x))
  BY TransferAsyncIs
<1> HIDE DEF c
<1>2. r \in Rings /\ d.made \in [Rings -> Nat]
  BY DEF Rings, DriverType
<1>3. c.made[r] = d.made[r]
  BY <1>1, <1>2
<1>4. Like(r, d, c)
  BY <1>1, <1>2, <1>3 DEF Like
<1>5. QED
  BY <1>4 DEF c

\* TransferAsync in the handler, or outside of any wait: if there is room for its TRB,
\* the request is accounted for.
LEMMA SubmitTracks ==
  ASSUME NEW d, DriverType(d), NEW e \in {"out", "in"}, NEW h, NEW t \in TaskType, NEW p,
         Tracks(e, d, h, t, p), ~Working(e, t), Unseen(e, d.ring[e], h, 0) + 1 < Link(e),
         TransferAsync(d, e).panic = "none"
  PROVE  Tracks(e, TransferAsync(d, e), h, t, p)
<1> DEFINE c == TransferAsync(d, e)
<1> DEFINE x == [id |-> d.made[e] + 1, ioc |-> TRUE]
<1>0. e \in Endpoints /\ e \in Rings
  BY DEF Endpoints, Rings
<1>1. /\ DriverType(c)
      /\ c.done = d.done /\ c.answer = d.answer /\ c.trb = d.trb
      /\ c.made = [d.made EXCEPT ![e] = d.made[e] + 1]
      /\ \A q \in Endpoints \ {e} : c.urb[q] = d.urb[q]
      /\ \A q \in Rings \ {e} : c.ring[q] = d.ring[q]
      /\ c.panic = "none" => d.panic = "none" /\ Len(d.urb[e]) < 2
      /\ c.panic = "none" /\ ~IsFull(d.ring[e]) =>
           /\ c.urb[e] = Append(d.urb[e], d.made[e] + 1)
           /\ c.ring[e] = IncrementEnqueue(Fill(d.ring[e], d.ring[e].enq, x))
  BY <1>0, TransferAsyncIs
<1>2. InOrder(e, d.ring[e], h, 0, 0)
  <2>1. Filled(e, t) = 0 /\ Taken(e, t) = 0
    BY NotWorking
  <2>2. QED
    BY <2>1 DEF Tracks
<1>3. ~IsFull(d.ring[e])
  BY <1>0, <1>2, TakeInOrder
<1>4. c.panic = "none"
  OBVIOUS
<1> HIDE DEF c
<1>5. /\ Len(d.urb[e]) < 2 /\ c.urb[e] = Append(d.urb[e], d.made[e] + 1)
      /\ c.ring[e] = IncrementEnqueue(Fill(d.ring[e], d.ring[e].enq, [id |-> d.made[e] + 1, ioc |-> TRUE]))
  BY <1>1, <1>3, <1>4
<1>6. c.made[e] = d.made[e] + 1 /\ c.done[e] = d.done[e]
  <2>1. d.made \in [Rings -> Nat]
    BY DEF DriverType
  <2>2. QED
    BY <1>0, <1>1, <2>1
<1>7. Tracks(e, c, h, t, p)
  BY <1>5, <1>6, TracksSubmit
<1>8. QED
  BY <1>7 DEF c

\* The first report is asked for on a ring that nobody has used.
LEMMA StartRequestKeeps ==
  ASSUME RInv, StartRequest
  PROVE  RInv'
<1> DEFINE e == "in"
<1>0. /\ Task /\ Running /\ task.pc = "idle" /\ disturbed' = disturbed /\ task' = task
      /\ drv' = TransferAsync(drv, e) /\ drv.made[e] = 0
  BY DEF StartRequest, Task, TaskRuns
<1>1. /\ DriverType(drv) /\ TaskSound(task, drv) /\ DOMAIN drv = Fields /\ disturbed \subseteq Rings
      /\ Pending' = Pending /\ hc' = hc /\ \A r \in Rings : drv.made[r] \in Nat
  BY <1>0, TaskStep
<1>2. e \in Endpoints /\ e \in Rings /\ task.ring = "none" /\ task \in TaskType
  BY <1>0, <1>1, TaskTyped DEF Rings, Endpoints
<1>3. /\ DriverType(drv') /\ drv'.done = drv.done /\ drv'.answer = drv.answer /\ drv'.trb = drv.trb
      /\ drv'.made = [drv.made EXCEPT ![e] = drv.made[e] + 1]
  <2> DEFINE c == TransferAsync(drv, e)
  <2>1. /\ DriverType(c)
        /\ c.done = drv.done /\ c.answer = drv.answer /\ c.trb = drv.trb
        /\ c.made = [drv.made EXCEPT ![e] = drv.made[e] + 1]
    BY <1>1, <1>2, TransferAsyncIs
  <2>2. QED
    BY <1>0, <2>1
<1>4. \A r \in Rings : drv.made[r] <= drv'.made[r]
  <2> SUFFICES ASSUME NEW r \in Rings PROVE drv.made[r] <= drv'.made[r]
    OBVIOUS
  <2>1. drv.made \in [Rings -> Nat]
    BY <1>1 DEF DriverType
  <2>2. drv'.made[r] = IF r = e THEN drv.made[r] + 1 ELSE drv.made[r]
    BY <1>3, <2>1
  <2>3. drv.made[r] \in Nat
    BY <2>1
  <2>4. QED
    BY <2>2, <2>3
<1>5. TaskSound(task', drv')
  BY <1>0, <1>1, <1>2 DEF TaskSound, Rings, Endpoints
<1>6. Typing'
  BY <1>0, <1>1, <1>3, <1>4, <1>5, TaskTypes DEF RInv
<1>7. OwnTransfer' /\ OwnCommand'
  BY <1>0, <1>2 DEF OwnTransfer, OwnCommand, Endpoints
<1>8. \A r \in Endpoints \ {e} : Like(r, drv, drv') /\ task.ring # r /\ task'.ring # r
  <2> SUFFICES ASSUME NEW r \in Endpoints \ {e}
               PROVE  Like(r, drv, drv') /\ task.ring # r /\ task'.ring # r
    OBVIOUS
  <2>1. Like(r, drv, TransferAsync(drv, e))
    BY <1>1, <1>2, SubmitLike
  <2>2. task.ring # r /\ task'.ring # r
    BY <1>0, <1>2 DEF Endpoints
  <2>3. QED
    BY <1>0, <2>1, <2>2
<1>9. \A r \in Endpoints \ (disturbed' \cup {e}) : Tracks(r, drv', hc'.ring[r], task', Pending')
  <2>1. disturbed \subseteq disturbed'
    BY <1>0
  <2>2. QED
    BY <1>0, <1>8, <2>1, OthersTracked
<1>10. ASSUME Running', e \notin disturbed' PROVE Tracks(e, drv', hc'.ring[e], task', Pending')
  <2> DEFINE h == hc.ring[e]
  <2> DEFINE p == Pending
  <2>1. Tracks(e, drv, h, task, p)
    BY <1>0, <1>2, <1>10, TaskStep
  <2>2. ~Working(e, task)
    BY <1>0 DEF Working
  <2> HIDE DEF h, p
  <2>3. Unseen(e, drv.ring[e], h, 0) + 1 < Link(e)
    <3>1. /\ Base(e, drv) \in Nat /\ Base(e, drv) <= 0 /\ Left(e, drv, h, task) \in Nat
          /\ Ready(e, drv, h, task) \in Nat /\ Ready(e, drv, h, task) <= Left(e, drv, h, task)
      BY <1>0, <1>2, <2>1, TrackNumbers
    <3>2. PICK y \in Nat : /\ Base(e, drv) <= y /\ y <= drv.made[e]
                           /\ IF h.halted THEN y # 0
                              ELSE y = drv.made[e] - Owed(e, Left(e, drv, h, task))
      BY <2>1 DEF Tracks, Answers
    <3>3. Owed(e, Left(e, drv, h, task)) = Left(e, drv, h, task)
      BY DEF Owed
    <3>4. Left(e, drv, h, task) = 0
      BY <1>0, <3>1, <3>2, <3>3
    <3>5. Ready(e, drv, h, task) = 0
      BY <3>1, <3>4
    <3>6. Ready(e, drv, h, task) = Unseen(e, drv.ring[e], h, 0)
      BY <2>2, NotWorking
    <3>7. QED
      BY <1>2, <3>5, <3>6, Sizes
  <2>4. TransferAsync(drv, e).panic = "none"
    BY <1>0, <1>10 DEF Running
  <2>5. e \in {"out", "in"}
    OBVIOUS
  <2>6. Tracks(e, TransferAsync(drv, e), h, task, p)
    BY <1>1, <1>2, <2>1, <2>2, <2>3, <2>4, <2>5, SubmitTracks
  <2>7. QED
    BY <1>0, <1>1, <2>6 DEF h, p
<1>11. Tracked'
  BY <1>9, <1>10 DEF Tracked
<1>12. QED
  BY <1>6, <1>7, <1>11 DEF RInv

\* Every step of the task keeps the requests accounted for.
LEMMA TaskKeeps ==
  ASSUME RInv, Task
  PROVE  RInv'
BY DoCommandKeeps, StartRequestKeeps, TakeTRBKeeps, FillTRBKeeps, StepTRBKeeps, AnsweredKeeps,
   ExpireKeeps, TimedOutKeeps, TransferKeeps DEF Task

-----------------------------------------------------------------------------
(* The controller. *)

\* The event that the controller posts is the last one the driver will find.
LEMMA PostAppends ==
  ASSUME EInv, Pending \in Seq(Event), NEW e \in Event, RoomForEvent, drv' = drv,
         hc' = [ring |-> hc'.ring, ev |-> Posted(hc.ev, e)]
  PROVE  EInv' /\ Pending' = Append(Pending, e)
<1>1. EInv' /\ EventRing!Post
  BY PostKeeps
<1>2. PendingExact'
  BY <1>1, PendingIsExact, PTL
<1>3. Len(Pending') = Len(Pending) + 1 /\ SubSeq(Pending', 1, Len(Pending)) = Pending
  BY <1>1 DEF EventRing!Post
<1> DEFINE n == Len(Pending)
<1>4. n = Outstanding /\ n \in Nat /\ n < EventTrbs
  BY PendingIs, Numbers
<1>5. /\ Outstanding' \in 0..(EventTrbs - 1)
      /\ Pending' = [k \in 1..Outstanding' |-> hc'.ev.event[(drv.deq + k - 1) % EventTrbs]]
  BY <1>2 DEF PendingExact
<1>6. Outstanding' = n + 1
  <2>1. Outstanding' \in Nat
    BY <1>5, Numbers
  <2>2. Len(Pending') = Outstanding'
    BY <1>5, <2>1
  <2>3. QED
    BY <1>3, <2>2
<1>7. Pending'[n + 1] = e
  <2>1. (drv.deq + (n + 1) - 1) % EventTrbs = hc.ev.enq
    <3> DEFINE m == drv.deq + (n + 1) - 1
    <3>1. m \in Nat /\ m < EventTrbs + EventTrbs
          /\ hc.ev.enq = IF m < EventTrbs THEN m ELSE m - EventTrbs
      <4> HIDE DEF n
      <4>1. n \in Nat /\ n < EventTrbs /\ n = Outstanding
        BY <1>4
      <4>2. m = drv.deq + n
        BY <4>1, Numbers
      <4> HIDE DEF m
      <4>3. CASE drv.deq <= hc.ev.enq
        <5>1. n = hc.ev.enq - drv.deq
          BY <4>1, <4>3 DEF Outstanding
        <5>2. QED
          BY <4>1, <4>2, <5>1, Numbers
      <4>4. CASE ~(drv.deq <= hc.ev.enq)
        <5>1. n = EventTrbs - drv.deq + hc.ev.enq
          BY <4>1, <4>4 DEF Outstanding
        <5>2. QED
          BY <4>1, <4>2, <4>4, <5>1, Numbers
      <4>5. QED
        BY <4>3, <4>4
    <3> HIDE DEF m
    <3>2. m % EventTrbs = IF m < EventTrbs THEN m ELSE m - EventTrbs
      BY <3>1, WrapsOnce, Numbers
    <3>3. m % EventTrbs = hc.ev.enq
      BY <3>1, <3>2
    <3>4. QED
      BY <3>3 DEF m
  <2>2. hc'.ev.event[hc.ev.enq] = e
    <3>1. hc'.ev = Posted(hc.ev, e)
      OBVIOUS
    <3>2. DOMAIN hc.ev.event = Slots /\ hc.ev.enq \in Slots
      BY Typed
    <3>3. hc'.ev.event = [hc.ev.event EXCEPT ![hc.ev.enq] = e]
      BY <3>1, Typed DEF Posted
    <3>4. QED
      BY <3>2, <3>3
  <2>3. n + 1 \in 1..(n + 1)
    BY <1>4
  <2>4. Pending'[n + 1] = hc'.ev.event[(drv.deq + (n + 1) - 1) % EventTrbs]
    BY <1>5, <1>6, <2>3
  <2>5. QED
    BY <2>1, <2>2, <2>4
<1>8. Pending' = Append(Pending, e)
  <2> DEFINE p == Pending
  <2> DEFINE q == Pending'
  <2>1. /\ q = [k \in 1..(n + 1) |-> q[k]] /\ q[n + 1] = e
        /\ SubSeq(q, 1, n) = p /\ p \in Seq(Event) /\ n = Len(p) /\ n \in Nat
    BY <1>3, <1>4, <1>5, <1>6, <1>7
  <2> HIDE DEF p, q, n
  <2>2. SubSeq(q, 1, n) = [k \in 1..n |-> q[k]]
    BY <2>1
  <2>3. \A k \in 1..n : q[k] = p[k]
    BY <2>1, <2>2
  <2>4. q = [k \in 1..(n + 1) |-> IF k = n + 1 THEN e ELSE p[k]]
    <3>1. \A k \in 1..(n + 1) : q[k] = IF k = n + 1 THEN e ELSE p[k]
      <4> SUFFICES ASSUME NEW k \in 1..(n + 1) PROVE q[k] = IF k = n + 1 THEN e ELSE p[k]
        OBVIOUS
      <4>1. k # n + 1 => k \in 1..n
        BY <2>1
      <4>2. QED
        BY <2>1, <2>3, <4>1
    <3>2. QED
      BY <2>1, <3>1
  <2>5. /\ Append(p, e) \in Seq(Event) /\ Len(Append(p, e)) = n + 1
        /\ DOMAIN Append(p, e) = 1..(n + 1) /\ DOMAIN p = 1..n
        /\ \A k \in DOMAIN p : Append(p, e)[k] = p[k]
        /\ Append(p, e)[n + 1] = e
    BY <2>1, Appended
  <2>6. Append(p, e) = [k \in 1..(n + 1) |-> Append(p, e)[k]]
    <3> DEFINE a == Append(p, e)
    <3>1. a \in Seq(Event) /\ Len(a) = n + 1 /\ n + 1 \in Nat
      BY <2>1, <2>5
    <3> HIDE DEF a
    <3>2. a = [k \in 1..(n + 1) |-> a[k]]
      BY <3>1
    <3>3. QED
      BY <3>2 DEF a
  <2>7. \A k \in 1..(n + 1) : Append(p, e)[k] = IF k = n + 1 THEN e ELSE p[k]
    BY <2>1, <2>5
  <2>8. q = Append(p, e)
    BY <2>4, <2>6, <2>7
  <2>9. QED
    BY <2>8 DEF p, q
<1>9. QED
  BY <1>1, <1>8

\* The event that the handler takes is the oldest of them.
LEMMA HandleTakes ==
  ASSUME EInv, InterruptEvent
  PROVE  EInv' /\ Pending # <<>> /\ Pending' = Tail(Pending) /\ Head(Pending) = hc.ev.event[drv.deq]
<1>1. EInv' /\ Pending # <<>> /\ Pending' = Tail(Pending)
  BY HandleKeeps DEF EventRing!Handle
<1>2. Head(Pending) = hc.ev.event[drv.deq]
  <2>1. Pending = [k \in 1..Outstanding |-> hc.ev.event[(drv.deq + k - 1) % EventTrbs]]
        /\ Outstanding \in Nat
    BY PendingIs, Numbers
  <2>2. Outstanding >= 1
    BY <1>1, <2>1
  <2>3. Head(Pending) = Pending[1]
    BY <1>1
  <2>4. (drv.deq + 1 - 1) % EventTrbs = drv.deq
    <3>1. drv.deq % EventTrbs = drv.deq
      BY Wraps, Numbers
    <3>2. drv.deq + 1 - 1 = drv.deq
      BY Numbers
    <3>3. QED
      BY <3>1, <3>2
  <2>5. Pending[1] = hc.ev.event[(drv.deq + 1 - 1) % EventTrbs]
    BY <2>1, <2>2
  <2>6. QED
    BY <2>3, <2>4, <2>5
<1>3. QED
  BY <1>1, <1>2

\* Where the controller reads next.
LEMMA FollowTyped ==
  ASSUME NEW r \in Rings, hc.ring[r] \in Side(r), drv.ring[r] \in RingType(r), Visible(r)
  PROVE  /\ Follow(r) \in Side(r) /\ Follow(r).halted = hc.ring[r].halted
         /\ Follow(r).deq \in Index(r) /\ Follow(r).deq \in Nat /\ Follow(r).deq + 1 \in Index(r)
<1> DEFINE o == hc.ring[r]
<1> DEFINE c == Follow(r)
<1>1. /\ o = [deq |-> o.deq, state |-> o.state, halted |-> o.halted] /\ o.deq \in Index(r)
      /\ o.state \in BOOLEAN /\ o.halted \in BOOLEAN
  BY DEF Side
<1>2. Link(r) \in Nat /\ Link(r) >= 2
  BY Sizes
<1>3. c = o \/ c = [o EXCEPT !.deq = 0, !.state = ~o.state]
  BY DEF Follow
<1>4. CASE c = o
  <2>1. c.deq # Link(r)
    BY DEF Visible
  <2> HIDE DEF c, o
  <2>2. c \in Side(r) /\ c.halted = o.halted /\ c.deq \in Index(r)
    BY <1>1, <1>4 DEF o
  <2>3. c.deq \in Nat /\ c.deq + 1 \in Index(r)
    BY <1>2, <2>1, <2>2 DEF Index
  <2>4. QED
    BY <2>2, <2>3 DEF c, o
<1>5. CASE c = [o EXCEPT !.deq = 0, !.state = ~o.state]
  <2> HIDE DEF c, o
  <2>1. c.deq = 0 /\ c.state = ~o.state /\ c.halted = o.halted
        /\ c = [deq |-> c.deq, state |-> c.state, halted |-> c.halted]
    BY <1>1, <1>5
  <2>2. 0 \in Index(r) /\ 0 + 1 \in Index(r)
    BY <1>2 DEF Index
  <2>3. c.state \in BOOLEAN
    BY <1>1, <2>1
  <2>4. c \in Side(r)
    BY <1>1, <2>1, <2>2, <2>3 DEF Side
  <2>5. QED
    BY <2>1, <2>2, <2>4 DEF c, o
<1>6. QED
  BY <1>3, <1>4, <1>5

\* The controller works on a TRB.
LEMMA ExecuteTracked ==
  ASSUME RInv, NEW r \in Rings, Execute(r)
  PROVE  RInv'
<1> DEFINE c == Follow(r)
<1> DEFINE x == drv.ring[r].trb[c.deq]
<1> DEFINE next == [c EXCEPT !.deq = @ + 1]
<1>0. /\ Running /\ Visible(r) /\ ~hc.ring[r].halted
      /\ drv' = drv /\ task' = task /\ irq' = irq /\ disturbed' = disturbed
  BY DEF Execute
<1>1. /\ EInv /\ DriverType(drv) /\ DOMAIN hc.ring = Rings /\ \A q \in Rings : hc.ring[q] \in Side(q)
      /\ TaskSound(task, drv) /\ Pending \in Seq(Event) /\ Named(Pending, drv) /\ disturbed \subseteq Rings
      /\ OwnTransfer /\ OwnCommand
      /\ \A q \in Endpoints \ disturbed : Tracks(q, drv, hc.ring[q], task, Pending)
  BY <1>0 DEF RInv, Typing, Tracked
<1>2. drv.ring[r] \in RingType(r) /\ hc.ring[r] \in Side(r) /\ drv.made[r] \in Nat /\ task \in TaskType
      /\ "cmd" \in Rings /\ Endpoints \subseteq Rings
  BY <1>1 DEF DriverType, TaskSound, Rings
<1>3. /\ c \in Side(r) /\ c.halted = FALSE
      /\ c.deq \in Index(r) /\ c.deq \in Nat /\ c.deq + 1 \in Index(r)
  BY <1>0, <1>2, FollowTyped DEF Side
<1>4. x \in Trb /\ x.id \in Nat /\ x.id <= drv.made[r]
  <2>1. drv.ring[r].trb \in [Index(r) -> Trb]
    BY <1>2 DEF RingType
  <2>2. x \in Trb
    BY <1>3, <2>1
  <2>3. QED
    BY <1>1, <1>3, <2>2 DEF DriverType, Trb
<1>5. /\ next \in Side(r) /\ next.deq = c.deq + 1 /\ next.state = c.state /\ next.halted = FALSE
  <2> HIDE DEF c
  <2>1. QED
    BY <1>3 DEF Side
<1>6. CASE ~x.ioc /\ hc' = [hc EXCEPT !.ring[r] = next]
  <2> HIDE DEF next
  <2>1. /\ hc'.ev = hc.ev /\ hc' = [ring |-> hc'.ring, ev |-> hc'.ev]
        /\ hc'.ring = [hc.ring EXCEPT ![r] = next]
    BY <1>1, <1>6, Typed
  <2>2. EInv' /\ Pending' = Pending
    <3>1. SameReader(drv, drv')
      BY <1>0, <1>1 DEF SameReader, DriverType
    <3>2. QED
      BY <1>1, <2>1, <3>1, SameEvents
  <2>3. \A q \in Rings : hc'.ring[q] = IF q = r THEN next ELSE hc.ring[q]
    BY <1>1, <2>1
  <2>4. Typing'
    <3>1. DOMAIN hc'.ring = Rings
      BY <1>1, <2>1
    <3>2. \A q \in Rings : hc'.ring[q] \in Side(q)
      BY <1>1, <1>5, <2>3
    <3>3. QED
      BY <1>0, <1>1, <2>2, <3>1, <3>2 DEF Typing
  <2>5. OwnTransfer' /\ OwnCommand'
    BY <1>0, <1>1, <2>2 DEF OwnTransfer, OwnCommand
  <2>6. ASSUME NEW q \in Endpoints \ disturbed
        PROVE  Tracks(q, drv, hc'.ring[q], task, Pending)
    <3>0. q \in Rings /\ Tracks(q, drv, hc.ring[q], task, Pending)
      BY <1>1, <1>2, <2>6
    <3>1. CASE q # r
      <4>1. hc'.ring[q] = hc.ring[q]
        BY <2>3, <3>0, <3>1
      <4>2. QED
        BY <3>0, <4>1
    <3>2. CASE q = r
      <4>1. ~drv.ring[r].trb[Follow(r).deq].ioc /\ ~next.halted
        BY <1>5, <1>6
      <4>2. Tracks(r, drv, next, task, Pending)
        <5>1. r \in Endpoints /\ Tracks(r, drv, hc.ring[r], task, Pending)
          BY <2>6, <3>0, <3>2
        <5>2. next.deq = Follow(r).deq + 1 /\ next.state = Follow(r).state /\ next \in Side(r)
          BY <1>5
        <5>3. QED
          BY <1>0, <1>1, <1>2, <4>1, <5>1, <5>2, TracksRead
      <4>3. hc'.ring[q] = next
        BY <2>3, <3>0, <3>2
      <4>4. QED
        BY <3>2, <4>2, <4>3
    <3>3. QED
      BY <3>1, <3>2
  <2>7. Tracked'
    BY <1>0, <2>2, <2>6 DEF Tracked
  <2>8. QED
    BY <2>4, <2>5, <2>7 DEF RInv
<1>7. ASSUME NEW code \in Codes(r), x.ioc \/ code = "error", RoomForEvent,
             hc' = [ring |-> [hc.ring EXCEPT ![r] = [next EXCEPT !.halted = code = "error"]],
                    ev |-> Posted(hc.ev, [ring |-> r, trb |-> c.deq, id |-> x.id, code |-> code])]
      PROVE  RInv'
  <2> DEFINE e == [ring |-> r, trb |-> c.deq, id |-> x.id, code |-> code]
  <2> DEFINE h == [next EXCEPT !.halted = (code = "error")]
  <2>1. e \in Event /\ e.ring = r /\ e.trb = c.deq /\ e.id = x.id
    <3>1. code \in {"ok", "mode", "error"}
      BY DEF Codes
    <3>2. QED
      BY <1>3, <1>4, <3>1 DEF Event
  <2>2. h \in Side(r) /\ h.deq = c.deq + 1 /\ h.state = c.state /\ h.halted = (code = "error")
    <3> HIDE DEF next
    <3>1. next = [deq |-> next.deq, state |-> next.state, halted |-> next.halted]
          /\ next.deq \in Index(r) /\ next.state \in BOOLEAN
      BY <1>5 DEF Side
    <3>2. h = [deq |-> next.deq, state |-> next.state, halted |-> (code = "error")]
      BY <3>1
    <3>3. QED
      BY <1>5, <3>1, <3>2 DEF Side
  <2>3. hc'.ring = [hc.ring EXCEPT ![r] = h] /\ hc' = [ring |-> hc'.ring, ev |-> Posted(hc.ev, e)]
    BY <1>7
  <2> HIDE DEF e, h, next
  <2>4. EInv' /\ Pending' = Append(Pending, e)
    BY <1>0, <1>1, <1>7, <2>1, <2>3, PostAppends
  <2>5. \A q \in Rings : hc'.ring[q] = IF q = r THEN h ELSE hc.ring[q]
    BY <1>1, <2>3
  <2> DEFINE n == Len(Pending)
  <2> DEFINE p == Append(Pending, e)
  <2>6. /\ p \in Seq(Event) /\ DOMAIN Pending = 1..n /\ DOMAIN p = 1..(n + 1) /\ n \in Nat
        /\ (\A k \in DOMAIN Pending : p[k] = Pending[k]) /\ p[n + 1] = e
    BY <1>1, <2>1, Appended
  <2> HIDE DEF p, n
  <2>7. \A k \in DOMAIN p : (k \in DOMAIN Pending /\ p[k] = Pending[k]) \/ p[k] = e
    BY <2>6
  <2>8. Typing'
    <3>1. DOMAIN hc'.ring = Rings
      BY <1>1, <2>3
    <3>2. \A q \in Rings : hc'.ring[q] \in Side(q)
      BY <1>1, <2>2, <2>5
    <3>3. Named(p, drv)
      <4>1. e.id <= drv.made[e.ring]
        BY <1>4, <2>1
      <4>2. QED
        BY <1>1, <2>7, <4>1 DEF Named
    <3>4. Pending' = p
      BY <2>4 DEF p
    <3>5. QED
      BY <1>0, <1>1, <2>4, <2>6, <3>1, <3>2, <3>3, <3>4 DEF Typing
  <2>9. OwnTransfer'
    BY <1>0, <1>1 DEF OwnTransfer
  <2>10. OwnCommand'
    <3> SUFFICES ASSUME task.ring = "cmd", task.pc = "wait", "cmd" \notin disturbed
                 PROVE  /\ drv.done["cmd"] => drv.answer["cmd"] = task.id
                        /\ ~drv.done["cmd"] =>
                             /\ drv.ring["cmd"].trb[drv.trb].id = task.id
                             /\ \A k \in Posts("cmd", p) : p[k].trb = drv.trb => p[k].id = task.id
      BY <1>0, <2>4 DEF OwnCommand, p
    <3>1. drv.done["cmd"] => drv.answer["cmd"] = task.id
      BY <1>1 DEF OwnCommand
    <3>2. ASSUME ~drv.done["cmd"], NEW k \in Posts("cmd", p), p[k].trb = drv.trb
          PROVE  p[k].id = task.id
      <4>1. drv.ring["cmd"].trb[drv.trb].id = task.id
        BY <1>1, <3>2 DEF OwnCommand
      <4>2. k \in DOMAIN p /\ p[k].ring = "cmd"
        BY <3>2 DEF Posts
      <4>3. CASE k \in DOMAIN Pending /\ p[k] = Pending[k]
        <5>1. k \in Posts("cmd", Pending)
          BY <4>2, <4>3 DEF Posts
        <5>2. QED
          BY <1>1, <3>2, <4>3, <5>1 DEF OwnCommand
      <4>4. CASE p[k] = e
        <5>1. r = "cmd" /\ c.deq = drv.trb
          BY <2>1, <3>2, <4>2, <4>4
        <5>2. QED
          BY <2>1, <4>1, <4>4, <5>1
      <4>5. QED
        BY <2>7, <4>2, <4>3, <4>4
    <3>3. ~drv.done["cmd"] => drv.ring["cmd"].trb[drv.trb].id = task.id
      BY <1>1 DEF OwnCommand
    <3>4. QED
      BY <3>1, <3>2, <3>3
  <2>11. ASSUME NEW q \in Endpoints \ disturbed
         PROVE  Tracks(q, drv, hc'.ring[q], task, p)
    <3>0. q \in Rings /\ q \in Endpoints /\ Tracks(q, drv, hc.ring[q], task, Pending)
      BY <1>1, <1>2, <2>11
    <3>1. CASE q # r
      <4>1. hc'.ring[q] = hc.ring[q]
        BY <2>5, <3>0, <3>1
      <4>2. Tracks(q, drv, hc.ring[q], task, p)
        BY <1>1, <2>1, <3>0, <3>1, TracksOtherPost DEF p
      <4>3. QED
        BY <4>1, <4>2
    <3>2. CASE q = r
      <4>1. Tracks(r, drv, h, task, p)
        <5>1. r \in Endpoints /\ Tracks(r, drv, hc.ring[r], task, Pending)
          BY <3>0, <3>2
        <5>2. h.deq = Follow(r).deq + 1 /\ h.state = Follow(r).state /\ h \in Side(r)
          BY <2>2
        <5>3. \A f \in Event :
                 /\ f.ring = r /\ f.id = drv.ring[r].trb[Follow(r).deq].id
                 /\ drv.ring[r].trb[Follow(r).deq].ioc \/ h.halted
                 => Tracks(r, drv, h, task, Append(Pending, f))
          BY <1>0, <1>1, <1>2, <5>1, <5>2, TracksRead
        <5>4. drv.ring[r].trb[Follow(r).deq].ioc \/ h.halted
          BY <1>7, <2>2
        <5>5. QED
          BY <2>1, <5>3, <5>4 DEF p
      <4>2. hc'.ring[q] = h
        BY <2>5, <3>0, <3>2
      <4>3. QED
        BY <3>2, <4>1, <4>2
    <3>3. QED
      BY <3>1, <3>2
  <2>12. Tracked'
    BY <1>0, <2>4, <2>11 DEF Tracked, p
  <2>13. QED
    BY <2>8, <2>9, <2>10, <2>12 DEF RInv
<1>8. \/ ~x.ioc /\ hc' = [hc EXCEPT !.ring[r] = next]
      \/ \E code \in Codes(r) :
           /\ x.ioc \/ code = "error"
           /\ RoomForEvent
           /\ hc' = [ring |-> [hc.ring EXCEPT ![r] = [next EXCEPT !.halted = code = "error"]],
                     ev |-> Posted(hc.ev, [ring |-> r, trb |-> c.deq, id |-> x.id, code |-> code])]
  BY DEF Execute
<1>9. QED
  BY <1>6, <1>7, <1>8

-----------------------------------------------------------------------------
(* The interrupt handler. *)

\* What the handler has made of the driver's memory, when the events p are left and
\* nothing is claimed of the rings X.
Accounted(d, p, X) ==
  /\ DriverType(d) /\ \A r \in Rings : drv.made[r] <= d.made[r]
  /\ task.ring \in Endpoints \ X /\ d.done[task.ring] => d.answer[task.ring] = task.id
  /\ task.ring = "cmd" /\ task.pc = "wait" /\ "cmd" \notin X =>
       /\ d.done["cmd"] => d.answer["cmd"] = task.id
       /\ ~d.done["cmd"] => /\ d.ring["cmd"].trb[d.trb].id = task.id
                            /\ \A k \in Posts("cmd", p) : p[k].trb = d.trb => p[k].id = task.id
  /\ d.panic = "none" => \A r \in Endpoints \ X : Tracks(r, d, hc.ring[r], task, p)

\* Before the handler has done anything.
LEMMA AccountedFirst ==
  ASSUME RInv, Running
  PROVE  Accounted(drv, Pending, disturbed)
<1>1. DriverType(drv) /\ \A r \in Rings : drv.made[r] <= drv.made[r]
  BY DEF RInv, Typing, DriverType
<1>2. QED
  BY <1>1 DEF RInv, OwnTransfer, OwnCommand, Tracked, Accounted

\* Less may be claimed.
LEMMA AccountedLess ==
  ASSUME NEW d, NEW p, NEW X, NEW Y, X \subseteq Y, Accounted(d, p, X)
  PROVE  Accounted(d, p, Y)
BY DEF Accounted

\* What was handled about another ring leaves this ring's requests as they were.
LEMMA TailOfPosts ==
  ASSUME NEW p \in Seq(Event), p # <<>>, NEW r, NEW k \in Posts(r, Tail(p))
  PROVE  k + 1 \in Posts(r, p) /\ Tail(p)[k] = p[k + 1]
<1>1. /\ DOMAIN p = 1..Len(p) /\ Len(p) \in Nat /\ DOMAIN Tail(p) = 1..(Len(p) - 1)
      /\ \A j \in DOMAIN Tail(p) : Tail(p)[j] = p[j + 1]
  BY Behead
<1>2. k \in DOMAIN Tail(p) /\ Tail(p)[k].ring = r
  BY DEF Posts
<1>3. k + 1 \in DOMAIN p
  BY <1>1, <1>2
<1>4. QED
  BY <1>1, <1>2, <1>3 DEF Posts

\* What the handler leaves is the next state.
LEMMA AccountedLast ==
  ASSUME RInv, Running, EInv', hc' = hc, task' = task, NEW m, Accounted(m, Tail(Pending), disturbed'),
         Pending # <<>>, Pending' = Tail(Pending), drv' = IncrementDequeue(m), disturbed' \subseteq Rings
  PROVE  RInv'
<1>1. DriverType(m) /\ DOMAIN m = Fields
  BY DEF Accounted, DriverType
<1>2. /\ DOMAIN drv' = Fields /\ drv'.ring = m.ring /\ drv'.urb = m.urb /\ drv'.made = m.made
      /\ drv'.done = m.done /\ drv'.answer = m.answer /\ drv'.trb = m.trb /\ drv'.panic = m.panic
  BY <1>1 DEF IncrementDequeue, Fields
<1>3. DriverType(drv')
  BY <1>1, <1>2 DEF DriverType
<1>4. \A r \in Rings : drv.made[r] <= drv'.made[r]
  BY <1>2 DEF Accounted
<1>5. /\ DriverType(drv) /\ TaskSound(task, drv) /\ Pending \in Seq(Event) /\ Named(Pending, drv)
  BY DEF RInv, Typing
<1>6. /\ Tail(Pending) \in Seq(Event) /\ DOMAIN Pending = 1..Len(Pending) /\ Len(Pending) \in Nat
      /\ DOMAIN Tail(Pending) = 1..(Len(Pending) - 1)
      /\ \A k \in DOMAIN Tail(Pending) : Tail(Pending)[k] = Pending[k + 1]
  BY <1>5, Behead
<1>7. Named(Tail(Pending), drv')
  <2>1. Named(Tail(Pending), drv)
    <3> SUFFICES ASSUME NEW k \in DOMAIN Tail(Pending)
                 PROVE  Tail(Pending)[k].id <= drv.made[Tail(Pending)[k].ring]
      BY DEF Named
    <3>1. k + 1 \in DOMAIN Pending
      BY <1>6
    <3>2. QED
      BY <1>5, <1>6, <3>1 DEF Named
  <2>2. QED
    BY <1>3, <1>4, <1>5, <1>6, <2>1, NamedStill
<1>8. TaskSound(task, drv')
  <2>1. task.ring # "none" => task.id <= drv'.made[task.ring]
    <3> SUFFICES ASSUME task.ring # "none" PROVE task.id <= drv'.made[task.ring]
      OBVIOUS
    <3>1. task.ring \in Rings /\ task.id \in Nat /\ task.id <= drv.made[task.ring]
      BY <1>5 DEF TaskSound, TaskType
    <3>2. drv.made[task.ring] \in Nat /\ drv'.made[task.ring] \in Nat
      BY <1>3, <1>5, <3>1 DEF DriverType
    <3>3. QED
      BY <1>4, <3>1, <3>2
  <2>2. QED
    BY <1>5, <2>1 DEF TaskSound
<1>9. Typing'
  BY <1>3, <1>6, <1>7, <1>8 DEF RInv, Typing
<1>10. OwnTransfer' /\ OwnCommand'
  BY <1>2 DEF Accounted, OwnTransfer, OwnCommand
<1>11. Tracked'
  <2> SUFFICES ASSUME Running', NEW r \in Endpoints \ disturbed'
               PROVE  Tracks(r, drv', hc.ring[r], task, Tail(Pending))
    BY DEF Tracked
  <2>1. Tracks(r, m, hc.ring[r], task, Tail(Pending))
    BY <1>2 DEF Accounted, Running
  <2>2. Like(r, m, drv')
    BY <1>2 DEF Like
  <2>3. QED
    BY <2>1, <2>2, TracksLike
<1>12. QED
  BY <1>9, <1>10, <1>11 DEF RInv

\* CommandCompleted: the answer is the command's own.
LEMMA CommandHandled ==
  ASSUME RInv, Running, Pending # <<>>, NEW e, e = Head(Pending), e.ring = "cmd"
  PROVE  Accounted(CommandCompleted(drv, e), Tail(Pending), disturbed)
<1> DEFINE m == CommandCompleted(drv, e)
<1> DEFINE p == Tail(Pending)
<1>1. /\ DriverType(drv) /\ Pending \in Seq(Event) /\ Named(Pending, drv)
      /\ OwnTransfer /\ OwnCommand /\ "cmd" \in Rings /\ "cmd" \notin Endpoints
      /\ \A r \in Endpoints \ disturbed : Tracks(r, drv, hc.ring[r], task, Pending)
  BY DEF RInv, Typing, Tracked, Rings, Endpoints
<1>2. /\ 1 \in DOMAIN Pending /\ Pending[1] = e /\ e \in Event /\ 1 \in Posts("cmd", Pending)
  <2>1. DOMAIN Pending = 1..Len(Pending) /\ Len(Pending) \in Nat /\ Len(Pending) >= 1
        /\ Pending[1] = Head(Pending) /\ Head(Pending) \in Event
    BY <1>1, Behead
  <2>2. QED
    BY <2>1 DEF Posts
<1>3. e.id \in Nat /\ e.id <= drv.made["cmd"]
  <2>1. e.id \in Nat
    BY <1>2 DEF Event
  <2>2. QED
    BY <1>1, <1>2, <2>1 DEF Named
<1>4. \A r \in Endpoints \ disturbed : Tracks(r, drv, hc.ring[r], task, p)
  <2> SUFFICES ASSUME NEW r \in Endpoints \ disturbed PROVE Tracks(r, drv, hc.ring[r], task, p)
    OBVIOUS
  <2>1. r \in Rings /\ Head(Pending).ring # r
    BY <1>1 DEF Rings
  <2>2. QED
    BY <1>1, <2>1, TracksOtherTake
<1>5. Accounted(drv, Pending, disturbed)
  BY AccountedFirst
<1>6. \A k \in Posts("cmd", p) : k + 1 \in Posts("cmd", Pending) /\ p[k] = Pending[k + 1]
  BY <1>1, TailOfPosts
<1>7. CASE drv.done["cmd"] \/ drv.trb # e.trb
  <2>1. m = drv
    BY <1>7 DEF CommandCompleted
  <2> HIDE DEF m, p
  <2>2. Accounted(drv, p, disturbed)
    BY <1>4, <1>5, <1>6 DEF Accounted
  <2>3. QED
    BY <2>1, <2>2 DEF m, p
<1>8. CASE ~(drv.done["cmd"] \/ drv.trb # e.trb)
  <2>1. m = [drv EXCEPT !.trb = Link("cmd"), !.answer["cmd"] = e.id, !.done["cmd"] = TRUE]
    BY <1>8 DEF CommandCompleted
  <2>2. DOMAIN drv = Fields /\ Link("cmd") \in Index("cmd")
    BY <1>1, Sizes DEF DriverType, Index
  <2>3. /\ DOMAIN m = Fields /\ m.ring = drv.ring /\ m.urb = drv.urb /\ m.made = drv.made
        /\ m.done = [drv.done EXCEPT !["cmd"] = TRUE] /\ m.answer = [drv.answer EXCEPT !["cmd"] = e.id]
        /\ m.trb = Link("cmd") /\ m.panic = drv.panic
    BY <2>1, <2>2 DEF Fields
  <2> HIDE DEF m, p
  <2>4. \A r \in Rings : /\ m.done[r] = IF r = "cmd" THEN TRUE ELSE drv.done[r]
                         /\ m.answer[r] = IF r = "cmd" THEN e.id ELSE drv.answer[r]
    BY <1>1, <2>3 DEF DriverType
  <2>5. DriverType(m)
    <3>1. m.done \in [Rings -> BOOLEAN]
      BY <1>1, <2>3 DEF DriverType
    <3>2. m.answer \in [Rings -> Nat]
      <4>1. drv.answer \in [Rings -> Nat] /\ m.answer = [drv.answer EXCEPT !["cmd"] = e.id]
        BY <1>1, <2>3 DEF DriverType
      <4> DEFINE f == drv.answer
      <4>2. f \in [Rings -> Nat]
        BY <4>1
      <4> HIDE DEF f
      <4>3. [f EXCEPT !["cmd"] = e.id] \in [Rings -> Nat]
        BY <1>3, <4>2
      <4>4. QED
        BY <4>1, <4>3 DEF f
    <3>3. \A r \in Rings : m.answer[r] <= m.made[r]
      BY <1>1, <1>3, <2>3, <2>4 DEF DriverType
    <3>4. QED
      BY <1>1, <2>2, <2>3, <3>1, <3>2, <3>3 DEF DriverType
  <2>6. \A r \in Rings : drv.made[r] <= m.made[r]
    BY <1>5, <2>3 DEF Accounted
  <2>7. task.ring \in Endpoints \ disturbed /\ m.done[task.ring] => m.answer[task.ring] = task.id
    BY <1>1, <2>4 DEF OwnTransfer, Rings
  <2>8. task.ring = "cmd" /\ task.pc = "wait" /\ "cmd" \notin disturbed =>
          /\ m.done["cmd"] => m.answer["cmd"] = task.id
          /\ m.done["cmd"]
    BY <1>1, <1>2, <1>8, <2>4 DEF OwnCommand
  <2>9. \A r \in Endpoints \ disturbed : Tracks(r, m, hc.ring[r], task, p)
    <3> SUFFICES ASSUME NEW r \in Endpoints \ disturbed PROVE Tracks(r, m, hc.ring[r], task, p)
      OBVIOUS
    <3>1. Like(r, drv, m)
      BY <1>1, <2>3, <2>4 DEF Like, Rings
    <3>2. Tracks(r, drv, hc.ring[r], task, p)
      BY <1>4
    <3>3. QED
      BY <3>1, <3>2, TracksLike
  <2>10. Accounted(m, p, disturbed)
    BY <2>5, <2>6, <2>7, <2>8, <2>9 DEF Accounted
  <2>11. QED
    BY <2>10 DEF m, p
<1>9. QED
  BY <1>7, <1>8

\* The event that the handler has taken is about endpoint q.
Oldest(e, q) == Pending # <<>> /\ e = Head(Pending) /\ e.ring = q /\ q \in Endpoints

\* The event is about a request made, and the endpoints it is not about keep their requests.
LEMMA OldestIs ==
  ASSUME RInv, Running, NEW e, NEW q, Oldest(e, q)
  PROVE  /\ DriverType(drv) /\ TaskSound(task, drv) /\ task \in TaskType /\ Pending \in Seq(Event)
         /\ DOMAIN drv = Fields /\ q \in Rings /\ q # "cmd" /\ q \in Endpoints
         /\ e \in Event /\ e.id \in Nat /\ e.id <= drv.made[q] /\ drv.made[q] \in Nat
         /\ \A r \in Endpoints \ (disturbed \cup {q}) : Tracks(r, drv, hc.ring[r], task, Tail(Pending))
         /\ q \notin disturbed => Tracks(q, drv, hc.ring[q], task, Pending)
         /\ \A k \in Posts("cmd", Tail(Pending)) :
              k + 1 \in Posts("cmd", Pending) /\ Tail(Pending)[k] = Pending[k + 1]
<1>1. /\ DriverType(drv) /\ TaskSound(task, drv) /\ Pending \in Seq(Event) /\ Named(Pending, drv)
      /\ \A r \in Endpoints \ disturbed : Tracks(r, drv, hc.ring[r], task, Pending)
  BY DEF RInv, Typing, Tracked
<1>2. q \in Rings /\ q # "cmd" /\ q \in Endpoints /\ Pending # <<>> /\ e = Head(Pending) /\ e.ring = q
  BY DEF Oldest, Rings, Endpoints
<1>3. task \in TaskType /\ DOMAIN drv = Fields /\ drv.made[q] \in Nat
  BY <1>1, <1>2 DEF TaskSound, DriverType
<1>4. e \in Event /\ e.id \in Nat /\ e.id <= drv.made[q]
  <2>1. DOMAIN Pending = 1..Len(Pending) /\ Len(Pending) \in Nat /\ Len(Pending) >= 1
        /\ Pending[1] = Head(Pending) /\ Head(Pending) \in Event
    BY <1>1, <1>2, Behead
  <2>2. 1 \in DOMAIN Pending /\ Pending[1] = e /\ e \in Event
    BY <1>2, <2>1
  <2>3. e.id \in Nat
    BY <2>2 DEF Event
  <2>4. QED
    BY <1>1, <1>2, <2>2, <2>3 DEF Named
<1>5. \A r \in Endpoints \ (disturbed \cup {q}) : Tracks(r, drv, hc.ring[r], task, Tail(Pending))
  <2> SUFFICES ASSUME NEW r \in Endpoints \ (disturbed \cup {q})
               PROVE  Tracks(r, drv, hc.ring[r], task, Tail(Pending))
    OBVIOUS
  <2>1. r \in Rings /\ Head(Pending).ring # r /\ Tracks(r, drv, hc.ring[r], task, Pending)
    BY <1>1, <1>2 DEF Rings
  <2>2. QED
    BY <1>1, <1>2, <2>1, TracksOtherTake
<1>6. \A k \in Posts("cmd", Tail(Pending)) :
        k + 1 \in Posts("cmd", Pending) /\ Tail(Pending)[k] = Pending[k + 1]
  BY <1>1, <1>2, TailOfPosts
<1>7. q \notin disturbed => Tracks(q, drv, hc.ring[q], task, Pending)
  BY <1>1, <1>2
<1>8. QED
  BY <1>1, <1>2, <1>3, <1>4, <1>5, <1>6, <1>7

\* An event about an endpoint without a request is dropped.
LEMMA NoRequestHandled ==
  ASSUME RInv, Running, NEW e, NEW q, Oldest(e, q), drv.urb[q] = <<>>
  PROVE  Accounted(drv, Tail(Pending), disturbed)
<1>1. /\ \A r \in Endpoints \ (disturbed \cup {q}) : Tracks(r, drv, hc.ring[r], task, Tail(Pending))
      /\ q \notin disturbed => Tracks(q, drv, hc.ring[q], task, Pending)
      /\ \A k \in Posts("cmd", Tail(Pending)) :
           k + 1 \in Posts("cmd", Pending) /\ Tail(Pending)[k] = Pending[k + 1]
      /\ task \in TaskType /\ Pending \in Seq(Event) /\ q \in Endpoints
  BY OldestIs
<1>2. q \in disturbed
  <2> SUFFICES ASSUME q \notin disturbed PROVE FALSE
    OBVIOUS
  <2>1. Tracks(q, drv, hc.ring[q], task, Pending)
    BY <1>1
  <2>2. Pending # <<>> /\ Head(Pending).ring = q
    BY DEF Oldest
  <2>3. drv.urb[q] # <<>>
    BY <1>1, <2>1, <2>2, OldestMatches
  <2>4. QED
    BY <2>3
<1>3. \A r \in Endpoints \ disturbed : Tracks(r, drv, hc.ring[r], task, Tail(Pending))
  BY <1>1, <1>2
<1>4. Accounted(drv, Pending, disturbed)
  BY AccountedFirst
<1>5. QED
  BY <1>1, <1>3, <1>4 DEF Accounted

\* The driver's memory with endpoint q's oldest request taken from m_pURB.
Shifted(s, q) ==
  /\ OtherQueue(drv, s, q, Tail(drv.urb[q])) /\ DriverType(s)
  /\ s.urb[q] = Tail(drv.urb[q]) /\ \A r \in Endpoints \ {q} : s.urb[r] = drv.urb[r]

\* Taking the oldest request from m_pURB gives just that.
LEMMA ShiftedIs ==
  ASSUME RInv, Running, NEW q \in Endpoints, drv.urb[q] # <<>>
  PROVE  Shifted([drv EXCEPT !.urb[q] = Tail(@)], q)
<1> DEFINE s == [drv EXCEPT !.urb[q] = Tail(@)]
<1> DEFINE o == drv.urb[q]
<1> DEFINE t == Tail(o)
<1>1. DriverType(drv) /\ DOMAIN drv = Fields
  BY DEF RInv, Typing, DriverType
<1>2. OtherQueue(drv, s, q, t)
  BY <1>1 DEF OtherQueue, Fields
<1> HIDE DEF s
<1>3. o \in Seq(Nat) /\ o # <<>> /\ Len(o) <= 2 /\ \A k \in 1..Len(o) : o[k] \in 1..drv.made[q]
  BY <1>1 DEF DriverType
<1> HIDE DEF o
<1>4. t \in Seq(Nat) /\ Len(t) = Len(o) - 1 /\ Len(o) \in Nat /\ Len(t) \in Nat
      /\ \A k \in 1..Len(t) : t[k] = o[k + 1]
  BY <1>3
<1> HIDE DEF t
<1>5. Len(t) <= 2 /\ \A k \in 1..Len(t) : t[k] \in 1..drv.made[q]
  <2>1. \A k \in 1..Len(t) : k + 1 \in 1..Len(o)
    BY <1>4
  <2>2. \A k \in 1..Len(t) : t[k] \in 1..drv.made[q]
    BY <1>3, <1>4, <2>1
  <2>3. QED
    BY <1>3, <1>4, <2>2
<1>6. DriverType(s) /\ \A r \in Endpoints : s.urb[r] = IF r = q THEN t ELSE drv.urb[r]
  BY <1>1, <1>2, <1>4, <1>5, OtherQueueTyped
<1>7. QED
  BY <1>2, <1>6 DEF Shifted, s, t, o

\* A request that nobody waits for leaves m_pURB.
LEMMA ShiftHandled ==
  ASSUME RInv, Running, NEW e, NEW q, Oldest(e, q), drv.urb[q] # <<>>, NEW s, Shifted(s, q),
         ~(task.ring = q /\ task.id = Head(drv.urb[q]))
  PROVE  Accounted(s, Tail(Pending), disturbed)
<1>1. /\ DriverType(drv) /\ task \in TaskType /\ Pending \in Seq(Event) /\ q \in Endpoints /\ q \in Rings
      /\ \A r \in Endpoints \ (disturbed \cup {q}) : Tracks(r, drv, hc.ring[r], task, Tail(Pending))
      /\ q \notin disturbed => Tracks(q, drv, hc.ring[q], task, Pending)
      /\ \A k \in Posts("cmd", Tail(Pending)) :
           k + 1 \in Posts("cmd", Pending) /\ Tail(Pending)[k] = Pending[k + 1]
  BY OldestIs
<1>2. /\ DriverType(s) /\ s.urb[q] = Tail(drv.urb[q]) /\ \A r \in Endpoints \ {q} : s.urb[r] = drv.urb[r]
      /\ s.ring = drv.ring /\ s.made = drv.made /\ s.done = drv.done /\ s.answer = drv.answer
      /\ s.trb = drv.trb /\ s.panic = drv.panic
  BY DEF Shifted, OtherQueue
<1>3. Accounted(drv, Pending, disturbed)
  BY AccountedFirst
<1>4. \A r \in Endpoints \ disturbed : Tracks(r, s, hc.ring[r], task, Tail(Pending))
  <2> SUFFICES ASSUME NEW r \in Endpoints \ disturbed PROVE Tracks(r, s, hc.ring[r], task, Tail(Pending))
    OBVIOUS
  <2>1. CASE r # q
    <3>1. Like(r, drv, s)
      BY <1>2, <2>1 DEF Like
    <3>2. Tracks(r, drv, hc.ring[r], task, Tail(Pending))
      BY <1>1, <2>1
    <3>3. QED
      BY <3>1, <3>2, TracksLike
  <2>2. CASE r = q
    <3>1. Tracks(q, drv, hc.ring[q], task, Pending)
      BY <1>1, <2>2
    <3>2. Pending # <<>> /\ Head(Pending).ring = q
      BY DEF Oldest
    <3>3. s.ring[q] = drv.ring[q] /\ s.made[q] = drv.made[q] /\ drv.done[q] \in BOOLEAN
      BY <1>1, <1>2 DEF DriverType
    <3>4. s.done[q] = IF task.ring = q /\ task.id = Head(drv.urb[q]) THEN TRUE ELSE drv.done[q]
      BY <1>2
    <3>5. Tracks(q, s, hc.ring[q], task, Tail(Pending))
      BY <1>1, <1>2, <3>1, <3>2, <3>3, <3>4, TracksHandled
    <3>6. QED
      BY <2>2, <3>5
  <2>3. QED
    BY <2>1, <2>2
<1>5. QED
  BY <1>1, <1>2, <1>3, <1>4 DEF Accounted

\* The request that the task waits for leaves m_pURB, with its own answer.
LEMMA CompletionHandled ==
  ASSUME RInv, Running, NEW e, NEW q, Oldest(e, q), drv.urb[q] # <<>>, NEW s, Shifted(s, q),
         task.ring = q, task.id = Head(drv.urb[q])
  PROVE  Accounted(CompletionRoutine(s, q, e), Tail(Pending), disturbed)
<1> DEFINE a == Assert(s, ~s.done[q], "xhciendpoint.cpp:518")
<1> DEFINE m == [a EXCEPT !.done[q] = TRUE, !.answer[q] = e.id]
<1>0. CompletionRoutine(s, q, e) = m
  BY DEF CompletionRoutine
<1>1. /\ DriverType(drv) /\ task \in TaskType /\ Pending \in Seq(Event) /\ q \in Endpoints /\ q \in Rings
      /\ \A r \in Endpoints \ (disturbed \cup {q}) : Tracks(r, drv, hc.ring[r], task, Tail(Pending))
      /\ q \notin disturbed => Tracks(q, drv, hc.ring[q], task, Pending)
      /\ e \in Event /\ e.id \in Nat /\ e.id <= drv.made[q] /\ drv.made[q] \in Nat /\ q # "cmd"
  BY OldestIs
<1>2. /\ DriverType(s) /\ s.urb[q] = Tail(drv.urb[q]) /\ \A r \in Endpoints \ {q} : s.urb[r] = drv.urb[r]
      /\ s.ring = drv.ring /\ s.made = drv.made /\ s.done = drv.done /\ s.answer = drv.answer
      /\ s.trb = drv.trb /\ s.panic = drv.panic
  BY DEF Shifted, OtherQueue
<1>3. DriverType(a) /\ SameRequests(s, a)
  <2>1. "xhciendpoint.cpp:518" # "none"
    OBVIOUS
  <2>2. "xhciendpoint.cpp:518" \in Panics
    BY DEF Panics
  <2> DEFINE holds == ~s.done[q]
  <2> HIDE DEF holds
  <2>3. /\ DriverType(Assert(s, holds, "xhciendpoint.cpp:518"))
        /\ SameRequests(s, Assert(s, holds, "xhciendpoint.cpp:518"))
    BY <1>2, <2>1, <2>2, AssertIs
  <2>4. QED
    BY <2>3 DEF holds
<1> HIDE DEF a
<1>4. /\ DOMAIN m = Fields /\ m.ring = drv.ring /\ m.urb = s.urb /\ m.made = drv.made
      /\ m.done = [drv.done EXCEPT ![q] = TRUE] /\ m.answer = [drv.answer EXCEPT ![q] = e.id]
      /\ m.trb = drv.trb /\ m.panic = a.panic
  <2>1. DOMAIN a = Fields /\ a.done = drv.done /\ a.answer = drv.answer
    BY <1>2, <1>3 DEF DriverType, SameRequests
  <2>2. /\ DOMAIN m = Fields /\ m.ring = a.ring /\ m.urb = a.urb /\ m.made = a.made
        /\ m.done = [a.done EXCEPT ![q] = TRUE] /\ m.answer = [a.answer EXCEPT ![q] = e.id]
        /\ m.trb = a.trb /\ m.panic = a.panic
    BY <2>1 DEF Fields
  <2>3. QED
    BY <1>2, <1>3, <2>1, <2>2 DEF SameRequests
<1> HIDE DEF m
<1>5. \A r \in Rings : /\ m.done[r] = IF r = q THEN TRUE ELSE drv.done[r]
                       /\ m.answer[r] = IF r = q THEN e.id ELSE drv.answer[r]
  BY <1>1, <1>4 DEF DriverType
<1>6. DriverType(m)
  <2>1. m.done \in [Rings -> BOOLEAN]
    BY <1>1, <1>4 DEF DriverType
  <2>2. m.answer \in [Rings -> Nat]
    <3> DEFINE f == drv.answer
    <3>1. f \in [Rings -> Nat]
      BY <1>1 DEF DriverType
    <3> HIDE DEF f
    <3>2. [f EXCEPT ![q] = e.id] \in [Rings -> Nat]
      BY <1>1, <3>1
    <3>3. QED
      BY <1>4, <3>2 DEF f
  <2>3. \A r \in Rings : m.answer[r] <= m.made[r]
    BY <1>1, <1>4, <1>5 DEF DriverType
  <2>4. m.panic \in Panics
    BY <1>3, <1>4 DEF DriverType
  <2>5. QED
    BY <1>2, <1>4, <2>1, <2>2, <2>3, <2>4 DEF DriverType
<1>7. \A r \in Rings : drv.made[r] <= m.made[r]
  <2>1. Accounted(drv, Pending, disturbed)
    BY AccountedFirst
  <2>2. QED
    BY <1>4, <2>1 DEF Accounted
<1>8. ASSUME q \notin disturbed
      PROVE  /\ e.id = task.id
             /\ Tracks(q, m, hc.ring[q], task, Tail(Pending))
  <2>1. Tracks(q, drv, hc.ring[q], task, Pending)
    BY <1>1, <1>8
  <2>2. Pending # <<>> /\ Head(Pending).ring = q /\ e = Head(Pending)
    BY DEF Oldest
  <2>3. e.id = Base(q, drv) + 1 /\ Head(drv.urb[q]) = Base(q, drv) + 1
    BY <1>1, <2>1, <2>2, OldestMatches
  <2>4. m.urb[q] = Tail(drv.urb[q]) /\ m.ring[q] = drv.ring[q] /\ m.made[q] = drv.made[q]
        /\ drv.done[q] \in BOOLEAN
    BY <1>1, <1>2, <1>4 DEF DriverType
  <2>5. m.done[q] = IF task.ring = q /\ task.id = Head(drv.urb[q]) THEN TRUE ELSE drv.done[q]
    BY <1>1, <1>5
  <2>6. Tracks(q, m, hc.ring[q], task, Tail(Pending))
    BY <1>1, <2>1, <2>2, <2>4, <2>5, TracksHandled
  <2>7. QED
    BY <2>3, <2>6
<1>9. \A r \in Endpoints \ disturbed : Tracks(r, m, hc.ring[r], task, Tail(Pending))
  <2> SUFFICES ASSUME NEW r \in Endpoints \ disturbed, r # q
               PROVE  Tracks(r, m, hc.ring[r], task, Tail(Pending))
    BY <1>8
  <2>1. Like(r, drv, m)
    BY <1>2, <1>4, <1>5 DEF Like, Rings
  <2>2. Tracks(r, drv, hc.ring[r], task, Tail(Pending))
    BY <1>1
  <2>3. QED
    BY <2>1, <2>2, TracksLike
<1>10. task.ring \in Endpoints \ disturbed => m.answer[task.ring] = task.id
  BY <1>1, <1>5, <1>8
<1>11. Accounted(m, Tail(Pending), disturbed)
  BY <1>1, <1>6, <1>7, <1>9, <1>10 DEF Accounted
<1>12. QED
  BY <1>0, <1>11

\* A request made in the handler is accounted for, unless it falls into a submission
\* of the task's or overruns the controller.
LEMMA SubmitHandled ==
  ASSUME NEW d, NEW p, NEW X, Accounted(d, p, X), NEW e \in {"out", "in"}, task \in TaskType, DriverType(drv),
         d.ring[e] = drv.ring[e], e \notin X => ~Submitting(e) /\ Overrun(e) = {}
  PROVE  Accounted(TransferAsync(d, e), p, X)
<1> DEFINE c == TransferAsync(d, e)
<1> DEFINE x == [id |-> d.made[e] + 1, ioc |-> TRUE]
<1>0. e \in Endpoints /\ e \in Rings /\ "cmd" \in Rings \ {e} /\ DriverType(d)
  BY DEF Endpoints, Rings, Accounted
<1>1. /\ DriverType(c)
      /\ c.done = d.done /\ c.answer = d.answer /\ c.trb = d.trb
      /\ c.made = [d.made EXCEPT ![e] = d.made[e] + 1]
      /\ \A r \in Endpoints \ {e} : c.urb[r] = d.urb[r]
      /\ \A r \in Rings \ {e} : c.ring[r] = d.ring[r]
      /\ c.panic = "none" => d.panic = "none" /\ Len(d.urb[e]) < 2
      /\ c.panic = "none" /\ ~IsFull(d.ring[e]) =>
           /\ c.urb[e] = Append(d.urb[e], d.made[e] + 1)
           /\ c.ring[e] = IncrementEnqueue(Fill(d.ring[e], d.ring[e].enq, x))
  BY <1>0, TransferAsyncIs
<1>2. \A r \in Endpoints \ {e} : Like(r, d, c)
  BY <1>0, SubmitLike
<1>3. ASSUME c.panic = "none", e \notin X PROVE Tracks(e, c, hc.ring[e], task, p)
  <2> DEFINE h == hc.ring[e]
  <2>1. Tracks(e, d, h, task, p)
    BY <1>0, <1>1, <1>3 DEF Accounted
  <2>2. ~Working(e, task)
    BY <1>3 DEF Submitting, Working
  <2>3. InOrder(e, drv.ring[e], hc.ring[e], 0, 0)
    <3>1. Filled(e, task) = 0 /\ Taken(e, task) = 0
      BY <2>2, NotWorking
    <3>2. QED
      BY <2>1, <3>1 DEF Tracks
  <2>4. Unseen(e, drv.ring[e], hc.ring[e], 0) + 1 < Link(e)
    BY <1>0, <1>3, <2>3, RoomUnlessOverrun
  <2>5. Unseen(e, d.ring[e], h, 0) + 1 < Link(e)
    BY <2>4
  <2>6. TransferAsync(d, e).panic = "none"
    BY <1>3
  <2> HIDE DEF c, h
  <2>7. Tracks(e, TransferAsync(d, e), h, task, p)
    BY <1>0, <2>1, <2>2, <2>5, <2>6, SubmitTracks
  <2>8. QED
    BY <2>7 DEF c, h
<1> HIDE DEF c
<1>4. \A r \in Rings : drv.made[r] <= c.made[r]
  <2> SUFFICES ASSUME NEW r \in Rings PROVE drv.made[r] <= c.made[r]
    OBVIOUS
  <2>1. d.made \in [Rings -> Nat] /\ drv.made[r] <= d.made[r]
    BY DEF Accounted, DriverType
  <2>2. c.made[r] = IF r = e THEN d.made[r] + 1 ELSE d.made[r]
    BY <1>1, <2>1
  <2>3. CASE r = e
    <3>1. d.made[r] \in Nat /\ c.made[r] = d.made[r] + 1 /\ d.made[r] <= c.made[r]
      BY <2>1, <2>2, <2>3
    <3>2. drv.made[r] \in Nat
      BY DEF DriverType
    <3>3. QED
      BY <2>1, <3>1, <3>2
  <2>4. CASE r # e
    BY <2>1, <2>2, <2>4
  <2>5. QED
    BY <2>3, <2>4
<1>5. ASSUME c.panic = "none", NEW r \in Endpoints \ X PROVE Tracks(r, c, hc.ring[r], task, p)
  <2>1. CASE r # e
    <3>1. Tracks(r, d, hc.ring[r], task, p) /\ Like(r, d, c)
      BY <1>1, <1>2, <1>5, <2>1 DEF Accounted
    <3>2. QED
      BY <3>1, TracksLike
  <2>2. CASE r = e
    BY <1>3, <1>5, <2>2
  <2>3. QED
    BY <2>1, <2>2
<1>6. Accounted(c, p, X)
  BY <1>0, <1>1, <1>4, <1>5 DEF Accounted
<1>7. QED
  BY <1>6 DEF c

\* TransferAsync makes one request.
LEMMA SubmitMakes ==
  ASSUME NEW d, DriverType(d), NEW e \in Endpoints
  PROVE  /\ DriverType(TransferAsync(d, e))
         /\ \A r \in Rings : TransferAsync(d, e).made[r] = IF r = e THEN d.made[r] + 1 ELSE d.made[r]
         /\ \A r \in Rings \ {e} : TransferAsync(d, e).ring[r] = d.ring[r]
<1> DEFINE c == TransferAsync(d, e)
<1> DEFINE x == [id |-> d.made[e] + 1, ioc |-> TRUE]
<1>1. /\ DriverType(c)
      /\ c.done = d.done /\ c.answer = d.answer /\ c.trb = d.trb
      /\ c.made = [d.made EXCEPT ![e] = d.made[e] + 1]
      /\ \A r \in Endpoints \ {e} : c.urb[r] = d.urb[r]
      /\ \A r \in Rings \ {e} : c.ring[r] = d.ring[r]
      /\ c.panic = "none" => d.panic = "none" /\ Len(d.urb[e]) < 2
      /\ c.panic = "none" /\ ~IsFull(d.ring[e]) =>
           /\ c.urb[e] = Append(d.urb[e], d.made[e] + 1)
           /\ c.ring[e] = IncrementEnqueue(Fill(d.ring[e], d.ring[e].enq, x))
  BY TransferAsyncIs
<1> HIDE DEF c
<1>2. d.made \in [Rings -> Nat]
  BY DEF DriverType
<1>3. \A r \in Rings : c.made[r] = IF r = e THEN d.made[r] + 1 ELSE d.made[r]
  BY <1>1, <1>2
<1>4. QED
  BY <1>1, <1>3 DEF c

\* The handler of a report: a mode report is acknowledged, and the next report asked for.
LEMMA ReportHandled ==
  ASSUME RInv, Running, NEW e, Oldest(e, "in"), drv.urb["in"] # <<>>, NEW s, Shifted(s, "in"),
         NEW X, disturbed \subseteq X,
         \A r \in {"out", "in"} :
           /\ ReportCompleted(s, e).made[r] # drv.made[r]
           /\ Submitting(r) \/ Overrun(r) # {}
           => r \in X
  PROVE  Accounted(ReportCompleted(s, e), Tail(Pending), X)
<1> DEFINE p == Tail(Pending)
<1> DEFINE m == ReportCompleted(s, e)
<1> DEFINE ack == e.code = "mode" /\ CallLeft(s)
<1> DEFINE b == IF ack THEN TransferAsync(s, "out") ELSE s
<1>1. /\ DriverType(drv) /\ TaskSound(task, drv) /\ task \in TaskType
      /\ "in" \in Endpoints /\ "out" \in Endpoints /\ "in" \in Rings /\ "out" \in Rings
  BY OldestIs DEF Endpoints, Rings
<1>2. DriverType(s) /\ s.ring = drv.ring /\ s.made = drv.made
  BY DEF Shifted, OtherQueue
<1>3. Accounted(s, p, X)
  <2>1. task.ring # "in"
    BY <1>1 DEF TaskSound
  <2>2. Accounted(s, p, disturbed)
    BY <2>1, ShiftHandled
  <2> HIDE DEF p
  <2>3. QED
    BY <2>2, AccountedLess
<1>4. m = s \/ m = TransferAsync(b, "in")
  BY DEF ReportCompleted
<1>5. CASE m = s
  BY <1>3, <1>5
<1>6. CASE m = TransferAsync(b, "in")
  <2> HIDE DEF p, m, ack
  <2>1. /\ DriverType(b) /\ b.ring["in"] = drv.ring["in"] /\ b.made["in"] = drv.made["in"]
        /\ b.made["out"] = IF ack THEN drv.made["out"] + 1 ELSE drv.made["out"]
    <3>1. CASE ack
      <4>1. b = TransferAsync(s, "out")
        BY <3>1
      <4> HIDE DEF b
      <4>2. /\ DriverType(b)
            /\ \A r \in Rings : b.made[r] = IF r = "out" THEN s.made[r] + 1 ELSE s.made[r]
            /\ \A r \in Rings \ {"out"} : b.ring[r] = s.ring[r]
        BY <1>1, <1>2, <4>1, SubmitMakes
      <4>3. QED
        BY <1>1, <1>2, <3>1, <4>2
    <3>2. CASE ~ack
      BY <1>2, <3>2
    <3>3. QED
      BY <3>1, <3>2
  <2>2. \A r \in Rings : m.made[r] = IF r = "in" THEN b.made[r] + 1 ELSE b.made[r]
    <3> HIDE DEF b
    <3>1. QED
      BY <1>1, <1>6, <2>1, SubmitMakes
  <2>3. drv.made["in"] \in Nat /\ drv.made["out"] \in Nat
    BY <1>1 DEF DriverType
  <2>4. m.made["in"] # drv.made["in"] /\ (ack => m.made["out"] # drv.made["out"])
    BY <1>1, <2>1, <2>2, <2>3
  <2>5. "in" \notin X => ~Submitting("in") /\ Overrun("in") = {}
    BY <2>4 DEF m
  <2>6. ack /\ "out" \notin X => ~Submitting("out") /\ Overrun("out") = {}
    BY <2>4 DEF m
  <2>7. Accounted(b, p, X)
    <3>1. CASE ack
      <4>1. Accounted(TransferAsync(s, "out"), p, X)
        BY <1>1, <1>2, <1>3, <2>6, <3>1, SubmitHandled
      <4>2. QED
        BY <3>1, <4>1
    <3>2. CASE ~ack
      BY <1>3, <3>2
    <3>3. QED
      BY <3>1, <3>2
  <2> HIDE DEF b
  <2>8. Accounted(TransferAsync(b, "in"), p, X)
    BY <1>1, <2>1, <2>5, <2>7, SubmitHandled
  <2>9. QED
    BY <1>6, <2>8 DEF m, p
<1>7. QED
  BY <1>4, <1>5, <1>6

\* TransferEvent completes the oldest request of the endpoint.
LEMMA TransferHandled ==
  ASSUME RInv, Running, NEW e, NEW q, Oldest(e, q), NEW X, disturbed \subseteq X,
         \A r \in Endpoints :
           /\ TransferEvent(drv, e).made[r] # drv.made[r]
           /\ Submitting(r) \/ Overrun(r) # {}
           => r \in X
  PROVE  Accounted(TransferEvent(drv, e), Tail(Pending), X)
<1> DEFINE s == [drv EXCEPT !.urb[q] = Tail(@)]
<1> DEFINE p == Tail(Pending)
<1>1. e.ring = q /\ q \in Endpoints
  BY DEF Oldest
<1>2. CASE drv.urb[q] = <<>>
  <2>1. TransferEvent(drv, e) = drv
    BY <1>1, <1>2 DEF TransferEvent
  <2>2. Accounted(drv, p, disturbed)
    BY <1>2, NoRequestHandled
  <2> HIDE DEF p
  <2>3. Accounted(drv, p, X)
    BY <2>2, AccountedLess
  <2>4. QED
    BY <2>1, <2>3 DEF p
<1>3. CASE drv.urb[q] # <<>>
  <2>1. Shifted(s, q)
    BY <1>1, <1>3, ShiftedIs
  <2>2. TransferEvent(drv, e) =
          IF q = "in" THEN ReportCompleted(s, e)
          ELSE IF task.ring = q /\ task.id = Head(drv.urb[q]) THEN CompletionRoutine(s, q, e)
          ELSE s
    BY <1>1, <1>3 DEF TransferEvent
  <2> HIDE DEF s
  <2>3. CASE q = "in"
    <3>1. TransferEvent(drv, e) = ReportCompleted(s, e)
      BY <2>2, <2>3
    <3>2. \A r \in {"out", "in"} :
            /\ ReportCompleted(s, e).made[r] # drv.made[r]
            /\ Submitting(r) \/ Overrun(r) # {}
            => r \in X
      BY <3>1 DEF Endpoints
    <3>3. Accounted(ReportCompleted(s, e), Tail(Pending), X)
      BY <1>3, <2>1, <2>3, <3>2, ReportHandled
    <3>4. QED
      BY <3>1, <3>3
  <2>4. CASE q # "in" /\ task.ring = q /\ task.id = Head(drv.urb[q])
    <3>1. TransferEvent(drv, e) = CompletionRoutine(s, q, e)
      BY <2>2, <2>4
    <3>2. Accounted(CompletionRoutine(s, q, e), p, disturbed)
      BY <1>3, <2>1, <2>4, CompletionHandled
    <3> DEFINE m == CompletionRoutine(s, q, e)
    <3> HIDE DEF p, m
    <3>3. Accounted(m, p, X)
      BY <3>2, AccountedLess DEF m
    <3>4. QED
      BY <3>1, <3>3 DEF p, m
  <2>5. CASE q # "in" /\ ~(task.ring = q /\ task.id = Head(drv.urb[q]))
    <3>1. TransferEvent(drv, e) = s
      BY <2>2, <2>5
    <3>2. Accounted(s, p, disturbed)
      BY <1>3, <2>1, <2>5, ShiftHandled
    <3> HIDE DEF p
    <3>3. Accounted(s, p, X)
      BY <3>2, AccountedLess
    <3>4. QED
      BY <3>1, <3>3 DEF p
  <2>6. QED
    BY <2>3, <2>4, <2>5
<1>4. QED
  BY <1>2, <1>3

\* The handler handles an event.
LEMMA InterruptEventKeeps ==
  ASSUME RInv, InterruptEvent
  PROVE  RInv'
<1> DEFINE e == hc.ev.event[drv.deq]
<1> DEFINE m == IF e.ring = "cmd" THEN CommandCompleted(drv, e) ELSE TransferEvent(drv, e)
<1>0. Running /\ hc' = hc /\ task' = task /\ drv' = IncrementDequeue(m)
  BY DEF InterruptEvent, HandleEvents
<1>1. /\ EInv /\ DriverType(drv) /\ DOMAIN drv = Fields /\ Pending \in Seq(Event) /\ disturbed \subseteq Rings
      /\ Endpoints \subseteq Rings /\ Rings = Endpoints \cup {"cmd"}
  BY DEF RInv, Typing, DriverType, Rings
<1>2. EInv' /\ Pending # <<>> /\ Pending' = Tail(Pending) /\ Head(Pending) = e
  BY <1>1, HandleTakes
<1>3. e.ring \in Rings
  <2>1. Head(Pending) \in Event
    BY <1>1, <1>2, Behead
  <2>2. QED
    BY <1>2, <2>1 DEF Event
<1> HIDE DEF e
<1>4. DOMAIN m = Fields
  <2>1. DOMAIN CommandCompleted(drv, e) = Fields
    BY <1>1 DEF CommandCompleted, Fields
  <2>2. DOMAIN TransferEvent(drv, e) = Fields
    BY <1>1, TransferEventKeeps DEF SameReader
  <2>3. QED
    BY <2>1, <2>2
<1>5. drv'.made = m.made
  <2> HIDE DEF m
  <2>1. QED
    BY <1>0, <1>4 DEF IncrementDequeue, Fields
<1>6. /\ disturbed \subseteq disturbed' /\ disturbed' \subseteq Rings
      /\ \A r \in Endpoints : m.made[r] # drv.made[r] /\ (Submitting(r) \/ Overrun(r) # {}) => r \in disturbed'
  <2>1. disturbed' = disturbed \cup
          {r \in Endpoints : drv'.made[r] # drv.made[r] /\ (Submitting(r) \/ Overrun(r) # {})}
    BY DEF InterruptEvent
  <2> HIDE DEF m
  <2>2. QED
    BY <1>1, <1>5, <2>1
<1> DEFINE p == Tail(Pending)
<1> DEFINE X == disturbed'
<1>7. Accounted(m, p, X)
  <2>1. CASE e.ring = "cmd"
    <3>1. m = CommandCompleted(drv, e)
      BY <2>1
    <3> DEFINE c == CommandCompleted(drv, e)
    <3>2. Accounted(c, p, disturbed)
      BY <1>0, <1>2, <2>1, CommandHandled
    <3>3. disturbed \subseteq X
      BY <1>6
    <3> HIDE DEF p, m, c, X
    <3>4. Accounted(c, p, X)
      BY <3>2, <3>3, AccountedLess
    <3>5. QED
      BY <3>1, <3>4 DEF c
  <2>2. CASE e.ring # "cmd"
    <3>1. m = TransferEvent(drv, e)
      BY <2>2
    <3> DEFINE q == e.ring
    <3>2. Oldest(e, q)
      BY <1>1, <1>2, <1>3, <2>2 DEF Oldest
    <3>3. /\ disturbed \subseteq X
          /\ \A r \in Endpoints :
               /\ TransferEvent(drv, e).made[r] # drv.made[r]
               /\ Submitting(r) \/ Overrun(r) # {}
               => r \in X
      BY <1>6, <3>1
    <3> HIDE DEF m, X, q
    <3>4. Accounted(TransferEvent(drv, e), Tail(Pending), X)
      BY <1>0, <3>2, <3>3, TransferHandled
    <3>5. QED
      BY <3>1, <3>4
  <2>3. QED
    BY <2>1, <2>2
<1> HIDE DEF m
<1>8. QED
  BY <1>0, <1>2, <1>6, <1>7, AccountedLast

\* A step that leaves the driver, the task and the rings as they are.
LEMMA NothingKeeps ==
  ASSUME RInv, EInv', drv' = drv, task' = task, hc'.ring = hc.ring, disturbed' = disturbed,
         Pending' = Pending
  PROVE  RInv'
BY DEF RInv, Typing, OwnTransfer, OwnCommand, Tracked, Running

\* Every step keeps the requests accounted for.
LEMMA RInvStep ==
  ASSUME RInv, [Next]_vars
  PROVE  RInv'
<1>0. EInv /\ DOMAIN drv = Fields
  BY DEF RInv, Typing, DriverType
<1>1. CASE Task
  BY <1>1, TaskKeeps
<1>2. CASE InterruptEntry
  <2>1. drv' = drv /\ hc' = hc /\ task' = task /\ disturbed' = disturbed
    BY <1>2 DEF InterruptEntry
  <2>2. SameReader(drv, drv')
    BY <1>0, <2>1 DEF SameReader
  <2>3. EInv' /\ Pending' = Pending
    BY <1>0, <2>1, <2>2, SameEvents, Typed
  <2>4. QED
    BY <2>1, <2>3, NothingKeeps
<1>3. CASE InterruptEvent
  BY <1>3, InterruptEventKeeps
<1>4. CASE InterruptExit
  <2>1. drv' = drv /\ task' = task /\ disturbed' = disturbed
    BY <1>4 DEF InterruptExit
  <2>2. hc'.ring = hc.ring
    BY <1>0, <1>4, Typed DEF InterruptExit
  <2>3. EInv' /\ Pending' = Pending
    BY <1>0, <1>4, ExitKeeps
  <2>4. QED
    BY <2>1, <2>2, <2>3, NothingKeeps
<1>5. ASSUME NEW r \in Rings, Execute(r) PROVE RInv'
  BY <1>5, ExecuteTracked
<1>6. CASE UNCHANGED vars
  <2>1. drv' = drv /\ hc' = hc /\ task' = task /\ disturbed' = disturbed
    BY <1>6 DEF vars
  <2>2. SameReader(drv, drv')
    BY <1>0, <2>1 DEF SameReader
  <2>3. EInv' /\ Pending' = Pending
    BY <1>0, <2>1, <2>2, SameEvents, Typed
  <2>4. QED
    BY <2>1, <2>3, NothingKeeps
<1>7. QED
  BY <1>1, <1>2, <1>3, <1>4, <1>5, <1>6 DEF Next, Handler

-----------------------------------------------------------------------------
(* Every reachable state. *)

\* Nothing is requested at first.
LEMMA RInvStart == Init => RInv
<1> SUFFICES ASSUME Init PROVE RInv
  OBVIOUS
<1>1. EInv /\ Pending = <<>>
  BY EventStart DEF EventRing!Init
<1>2. /\ DOMAIN drv = Fields /\ drv.ring = [r \in Rings |-> CXHCIRing(Trbs[r])]
      /\ drv.urb = [e \in Endpoints |-> <<>>] /\ drv.done = [r \in Rings |-> TRUE]
      /\ drv.trb = Link("cmd") /\ drv.answer = [r \in Rings |-> 0] /\ drv.made = [r \in Rings |-> 0]
      /\ drv.panic = "none"
  BY DEF Init, Driver, Fields
<1>3. hc.ring = [r \in Rings |-> [deq |-> 0, state |-> TRUE, halted |-> FALSE]]
  BY DEF Init, Controller
<1>4. task = Idle /\ disturbed = {} /\ task.ring = "none" /\ task.pc = "idle" /\ TaskSound(task, drv)
      /\ task \in TaskType
  BY IdleSound DEF Init, TaskSound
<1>5. ASSUME NEW r \in Rings
      PROVE  /\ drv.ring[r] \in RingType(r)
             /\ hc.ring[r] \in Side(r) /\ hc.ring[r].deq = 0 /\ hc.ring[r].state = TRUE
             /\ hc.ring[r].halted = FALSE
             /\ drv.ring[r].enq = 0 /\ drv.ring[r].state = TRUE
             /\ \A i \in Index(r) : drv.ring[r].cycle[i] = FALSE /\ drv.ring[r].trb[i].id = 0
             /\ Link(r) \in Nat /\ Link(r) >= 2
  <2>1. Link(r) \in Nat /\ Link(r) >= 2 /\ Index(r) = 0..Trbs[r] - 1 /\ 0 \in Index(r)
    BY Sizes DEF Index, Link
  <2>2. drv.ring[r] = [cycle |-> [i \in Index(r) |-> FALSE],
                       trb   |-> [i \in Index(r) |-> [id |-> 0, ioc |-> FALSE]],
                       link  |-> Link(r), enq |-> 0, state |-> TRUE]
    BY <1>2, <2>1 DEF CXHCIRing, Link
  <2>3. [i \in Index(r) |-> [id |-> 0, ioc |-> FALSE]] \in [Index(r) -> Trb]
    <3>1. [id |-> 0, ioc |-> FALSE] \in Trb
      BY DEF Trb
    <3>2. QED
      BY <3>1
  <2>4. drv.ring[r] \in RingType(r)
    <3>1. 0 \in 0..(Link(r) - 1)
      BY <2>1
    <3>2. QED
      BY <2>2, <2>3, <3>1 DEF RingType
  <2>5. hc.ring[r] = [deq |-> 0, state |-> TRUE, halted |-> FALSE]
    BY <1>3
  <2>6. hc.ring[r] \in Side(r) /\ hc.ring[r].deq = 0 /\ hc.ring[r].state = TRUE /\ hc.ring[r].halted = FALSE
    BY <2>1, <2>5 DEF Side
  <2>7. /\ drv.ring[r].enq = 0 /\ drv.ring[r].state = TRUE
        /\ drv.ring[r].cycle = [i \in Index(r) |-> FALSE]
        /\ drv.ring[r].trb = [i \in Index(r) |-> [id |-> 0, ioc |-> FALSE]]
    BY <2>2
  <2>8. ASSUME NEW i \in Index(r) PROVE drv.ring[r].cycle[i] = FALSE /\ drv.ring[r].trb[i].id = 0
    BY <2>7, <2>8
  <2>9. QED
    BY <2>1, <2>4, <2>6, <2>7, <2>8
<1>6. DriverType(drv)
  <2>1. \A r \in Endpoints : drv.urb[r] = <<>>
    BY <1>2
  <2>2. drv.urb \in [Endpoints -> Seq(Nat)]
    BY <1>2
  <2>3. drv.made \in [Rings -> Nat] /\ drv.answer \in [Rings -> Nat] /\ drv.done \in [Rings -> BOOLEAN]
        /\ \A r \in Rings : drv.made[r] = 0 /\ drv.answer[r] = 0
    BY <1>2
  <2>4. drv.trb \in Index("cmd")
    <3>1. "cmd" \in Rings
      BY DEF Rings
    <3>2. QED
      BY <1>2, <3>1, Sizes DEF Index
  <2>5. drv.panic \in Panics
    BY <1>2 DEF Panics
  <2>6. DOMAIN drv.ring = Rings
    BY <1>2
  <2>7. \A r \in Endpoints : Len(drv.urb[r]) = 0 /\ 1..Len(drv.urb[r]) = {}
    BY <2>1
  <2>8. \A r \in Rings : \A i \in Index(r) : drv.ring[r].trb[i].id <= drv.made[r]
    <3> SUFFICES ASSUME NEW r \in Rings, NEW i \in Index(r) PROVE drv.ring[r].trb[i].id <= drv.made[r]
      OBVIOUS
    <3>1. drv.ring[r].trb[i].id = 0 /\ drv.made[r] = 0
      BY <1>5, <2>3
    <3>2. QED
      BY <3>1
  <2>9. \A r \in Rings : drv.answer[r] <= drv.made[r]
    BY <2>3
  <2>10. \A r \in Endpoints : Len(drv.urb[r]) <= 2
    BY <2>7
  <2>11. \A r \in Endpoints : \A k \in 1..Len(drv.urb[r]) : drv.urb[r][k] \in 1..drv.made[r]
    BY <2>7
  <2>12. \A r \in Rings : drv.ring[r] \in RingType(r)
    BY <1>5
  <2>13. QED
    BY <1>2, <2>2, <2>3, <2>4, <2>5, <2>6, <2>8, <2>9, <2>10, <2>11, <2>12 DEF DriverType
<1>7. Typing
  <2>1. Pending \in Seq(Event) /\ Named(Pending, drv)
    BY <1>1 DEF Named
  <2>2. DOMAIN hc.ring = Rings /\ \A r \in Rings : hc.ring[r] \in Side(r)
    BY <1>3, <1>5
  <2>3. QED
    BY <1>1, <1>4, <1>6, <2>1, <2>2 DEF Typing
<1>8. OwnTransfer /\ OwnCommand
  BY <1>4 DEF OwnTransfer, OwnCommand, Endpoints
<1>9. ASSUME NEW r \in Endpoints PROVE Tracks(r, drv, hc.ring[r], task, Pending)
  <2> DEFINE h == hc.ring[r]
  <2> DEFINE g == drv.ring[r]
  <2>1. /\ r \in Rings /\ drv.made[r] = 0 /\ drv.urb[r] = <<>> /\ Len(drv.urb[r]) = 0
    BY <1>2 DEF Rings
  <2> HIDE DEF g, h
  <2>2. /\ g \in RingType(r) /\ h \in Side(r) /\ h.deq = 0 /\ h.state = TRUE /\ h.halted = FALSE
        /\ g.enq = 0 /\ g.state = TRUE /\ (\A i \in Index(r) : g.cycle[i] = FALSE)
    BY <1>5, <2>1 DEF g, h
  <2>3. ~Working(r, task) /\ task.ring # r
    BY <1>4 DEF Working, Endpoints
  <2>4. InOrder(r, g, h, 0, 0)
    <3>1. Bits(r, g, 0)
      <4> SUFFICES ASSUME NEW i \in Index(r) PROVE g.cycle[i] = IF i < g.enq + 0 THEN g.state ELSE ~g.state
        BY DEF Bits
      <4>1. ~(i < g.enq + 0)
        BY <2>2 DEF Index
      <4>2. QED
        BY <2>2, <4>1
    <3>2. Follows(r, g, h, 0, 0)
      <4>1. h.state = g.state
        BY <2>2, Zenon
      <4>2. h.deq = 0 /\ g.enq = 0
        BY <2>2
      <4>3. h.deq <= g.enq + 0
        BY <4>2
      <4>4. QED
        BY <4>1, <4>3 DEF Follows
    <3>3. QED
      BY <2>2, <3>1, <3>2 DEF InOrder
  <2>5. /\ Filled(r, task) = 0 /\ Taken(r, task) = 0
        /\ Ready(r, drv, h, task) = 0 /\ Left(r, drv, h, task) = 0
    <3>1. Unseen(r, drv.ring[r], h, 0) = 0
      <4>1. Unseen(r, g, h, 0) = 0
        <5>1. Unseen(r, g, h, 0) = g.enq + 0 - h.deq
          BY <2>2 DEF Unseen
        <5>2. QED
          BY <2>2, <5>1
      <4>2. QED
        BY <4>1 DEF g
    <3>2. QED
      BY <2>3, <3>1, NotWorking
  <2>6. Base(r, drv) = 0
    <3>1. Base(r, drv) = drv.made[r] - Len(drv.urb[r])
      BY DEF Base
    <3>2. drv.made[r] - Len(drv.urb[r]) = 0 - 0
      BY <2>1
    <3>3. QED
      BY <3>1, <3>2
  <2>7. Queued(r, drv)
    <3>1. <<>> \in Seq(Nat) /\ 1..0 = {}
      OBVIOUS
    <3>2. QED
      BY <2>1, <2>6, <3>1 DEF Queued
  <2>8. Answers(r, drv, h, task, Pending)
    <3>1. Reported(r, 0, 0, Pending)
      BY <1>1 DEF Reported, Posts
    <3>2. Owed(r, 0) = 0
      BY DEF Owed
    <3>3. /\ Base(r, drv) <= 0 /\ 0 <= drv.made[r]
          /\ IF h.halted THEN 0 # 0 ELSE 0 = drv.made[r] - Owed(r, Left(r, drv, h, task))
          /\ Reported(r, Base(r, drv), 0, Pending)
      BY <2>1, <2>2, <2>5, <2>6, <3>1, <3>2
    <3>4. QED
      BY <3>3 DEF Answers
  <2>9. Waiter(r, drv, task) /\ Control(r, drv, h, task) /\ Content(r, drv, h, task)
    BY <2>1, <2>3, <2>5, <2>6 DEF Waiter, Control, Content
  <2>10. Tracks(r, drv, h, task, Pending)
    BY <2>4, <2>5, <2>7, <2>8, <2>9 DEF Tracks, g
  <2>11. QED
    BY <2>10 DEF h
<1>10. QED
  BY <1>7, <1>8, <1>9 DEF RInv, Tracked

\* In every reachable state each request is accounted for.
THEOREM RInvHolds == Spec => []RInv
BY RInvStart, RInvStep, PTL DEF Spec

\* What a waiting command or transfer returns with is its own answer.
LEMMA AnswerIsOwnFollows == RInv => AnswerIsOwn
<1> SUFFICES ASSUME RInv, task.pc = "wait", drv.done[task.ring], task.ring \notin disturbed
             PROVE  drv.answer[task.ring] = task.id
  BY DEF AnswerIsOwn
<1>1. DriverType(drv) /\ TaskSound(task, drv) /\ OwnTransfer /\ OwnCommand
  BY DEF RInv, Typing
<1>2. task.ring \in {"ep0", "out", "cmd"}
  BY <1>1, TaskTyped
<1>3. CASE task.ring = "cmd"
  BY <1>1, <1>3 DEF OwnCommand
<1>4. CASE task.ring # "cmd"
  BY <1>1, <1>2, <1>4 DEF OwnTransfer, Endpoints
<1>5. QED
  BY <1>3, <1>4

\* The answer a command or a transfer returns with is its own, for every size of the
\* rings, however late or in whichever interrupt the answers to others come.
THEOREM AnswerIsOwnHolds == Spec => []AnswerIsOwn
BY RInvHolds, AnswerIsOwnFollows, PTL

-----------------------------------------------------------------------------
(* m_pURB and the rings. *)

\* The types of TypeOK follow from those of the invariant.
LEMMA TypesFollow == RInv => TypeOK
<1> SUFFICES ASSUME RInv PROVE TypeOK
  OBVIOUS
<1>1. /\ EInv /\ DriverType(drv) /\ \A r \in Rings : hc.ring[r] \in Side(r)
      /\ TaskSound(task, drv) /\ disturbed \subseteq Rings
  BY DEF RInv, Typing
<1>2. drv.panic \in {"none", "xhciendpoint.cpp:213", "xhciendpoint.cpp:271", "xhciendpoint.cpp:518",
                     "xhciring.cpp:139", "xhcicommandmanager.cpp:187"}
  BY <1>1 DEF DriverType, Panics
<1>3. \A r \in Rings : /\ drv.ring[r].enq \in 0..Link(r) - 1 /\ drv.ring[r].cycle \in [Index(r) -> BOOLEAN]
                       /\ drv.answer[r] \in 0..drv.made[r]
                       /\ hc.ring[r].deq \in Index(r)
  <2> SUFFICES ASSUME NEW r \in Rings
               PROVE  /\ drv.ring[r].enq \in 0..Link(r) - 1 /\ drv.ring[r].cycle \in [Index(r) -> BOOLEAN]
                      /\ drv.answer[r] \in 0..drv.made[r]
                      /\ hc.ring[r].deq \in Index(r)
    OBVIOUS
  <2>1. drv.ring[r] \in RingType(r) /\ hc.ring[r] \in Side(r)
    BY <1>1 DEF DriverType
  <2>2. drv.answer[r] \in 0..drv.made[r]
    <3>1. drv.answer[r] \in Nat /\ drv.made[r] \in Nat /\ drv.answer[r] <= drv.made[r]
      BY <1>1 DEF DriverType
    <3>2. QED
      BY <3>1
  <2>3. QED
    BY <2>1, <2>2 DEF RingType, Side
<1>4. ASSUME NEW e \in Endpoints
      PROVE  drv.urb[e] \in UNION {[1..n -> 1..drv.made[e]] : n \in 0..2}
  <2> DEFINE q == drv.urb[e]
  <2>1. q \in Seq(Nat) /\ Len(q) <= 2 /\ \A k \in 1..Len(q) : q[k] \in 1..drv.made[e]
    BY <1>1 DEF DriverType
  <2> HIDE DEF q
  <2>2. Len(q) \in 0..2 /\ q = [k \in 1..Len(q) |-> q[k]]
    <3> DEFINE n == Len(q)
    <3>1. n \in Nat /\ n <= 2
      BY <2>1
    <3>2. q = [k \in 1..n |-> q[k]]
      BY <2>1
    <3> HIDE DEF n
    <3>3. n \in 0..2
      BY <3>1
    <3>4. QED
      BY <3>2, <3>3 DEF n
  <2>3. q \in [1..Len(q) -> 1..drv.made[e]]
    BY <2>1, <2>2
  <2>4. q \in UNION {[1..n -> 1..drv.made[e]] : n \in 0..2}
    BY <2>2, <2>3
  <2>5. QED
    BY <2>4 DEF q
<1>5. drv.deq \in 0..EventTrbs - 1 /\ hc.ev.enq \in 0..EventTrbs - 1
  BY <1>1, Typed DEF Slots
<1>6. task.pc \in {"idle", "take", "fill", "step", "wait", "expired"}
  BY <1>1 DEF TaskSound, TaskType
<1>7. QED
  BY <1>1, <1>2, <1>3, <1>4, <1>5, <1>6 DEF TypeOK

\* The numbers from l + 1 to n.
Span(l, n) == {v \in Nat : l < v /\ v <= n}

\* The requests in m_pURB.
LEMMA QueueIs ==
  ASSUME NEW r, NEW d, Queued(r, d)
  PROVE  {d.urb[r][k] : k \in DOMAIN d.urb[r]} = Span(Base(r, d), d.made[r])
<1> DEFINE q == d.urb[r]
<1> DEFINE b == Base(r, d)
<1> DEFINE n == d.made[r]
<1>1. /\ n \in Nat /\ q \in Seq(Nat) /\ Len(q) \in Nat /\ Len(q) <= n /\ b = n - Len(q)
      /\ \A k \in 1..Len(q) : q[k] = b + k
  BY DEF Queued, Base
<1> HIDE DEF q, b, n
<1>2. DOMAIN q = 1..Len(q) /\ b \in Nat
  BY <1>1
<1>3. ASSUME NEW v \in Span(b, n) PROVE v \in {q[k] : k \in DOMAIN q}
  <2>1. v - b \in 1..Len(q) /\ b + (v - b) = v
    BY <1>1, <1>2 DEF Span
  <2>2. q[v - b] = v
    BY <1>1, <2>1
  <2>3. QED
    BY <1>2, <2>1, <2>2
<1>4. ASSUME NEW k \in DOMAIN q PROVE q[k] \in Span(b, n)
  <2>1. q[k] = b + k /\ k \in 1..Len(q)
    BY <1>1, <1>2
  <2>2. QED
    BY <1>1, <1>2, <2>1 DEF Span
<1>5. {q[k] : k \in DOMAIN q} = Span(b, n)
  BY <1>3, <1>4
<1>6. QED
  BY <1>5 DEF q, b, n

\* The requests that pending events are about.
LEMMA ReportedIs ==
  ASSUME NEW r \in Rings, NEW b \in Nat, NEW y \in Nat, NEW p \in Seq(Event), Reported(r, b, y, p)
  PROVE  {p[k].id : k \in {k \in DOMAIN p : p[k].ring = r}} = Span(b, y)
<1>1. {k \in DOMAIN p : p[k].ring = r} = Posts(r, p)
  BY DEF Posts
<1>2. ASSUME NEW k \in Posts(r, p) PROVE p[k].id \in Span(b, y)
  <2>1. p[k] \in Event
    BY DEF Posts
  <2>2. p[k].id \in Nat
    BY <2>1 DEF Event
  <2>3. QED
    BY <2>2 DEF Reported, Span
<1>3. ASSUME NEW v \in Span(b, y) PROVE \E k \in Posts(r, p) : p[k].id = v
  BY DEF Reported, Span
<1>4. {p[k].id : k \in Posts(r, p)} = Span(b, y)
  BY <1>2, <1>3
<1>5. QED
  BY <1>1, <1>4

\* The requests whose TRBs the controller has yet to read (m of l), or the task
\* to fill (k).
ToCome(r, n, l, m, k) ==
  {Request(r, n, l, j).id : j \in {j \in Nat : j < m}} \cup (IF k = 0 THEN {} ELSE {n})

\* They are the last requests made.
LEMMA ToComeIs ==
  ASSUME NEW r \in Endpoints, NEW n \in Nat, NEW m \in Nat, NEW k \in {0, 1, 2},
         r # "ep0" => k \in {0, 1}, Owed(r, m + k) <= n
  PROVE  ToCome(r, n, m + k, m, k) = Span(n - Owed(r, m + k), n)
<1> DEFINE ids == {Request(r, n, m + k, j).id : j \in {j \in Nat : j < m}}
<1> DEFINE due == IF k = 0 THEN {} ELSE {n}
<1> DEFINE y == n - Owed(r, m + k)
<1> SUFFICES ids \cup due = Span(y, n)
  BY DEF ToCome
<1>1. CASE r = "ep0"
  <2>1. \A j \in Nat : Request(r, n, m + k, j).id = n
    BY <1>1 DEF Request
  <2>2. ids = IF m = 0 THEN {} ELSE {n}
    <3>1. m = 0 => ids = {}
      OBVIOUS
    <3>2. m # 0 => 0 \in {j \in Nat : j < m}
      OBVIOUS
    <3>3. m # 0 => ids = {n}
      BY <2>1, <3>2
    <3>4. QED
      BY <3>1, <3>3
  <2>3. CASE m = 0 /\ k = 0
    <3>1. y = n
      BY <1>1, <2>3 DEF Owed
    <3>2. Span(n, n) = {}
      BY DEF Span
    <3>3. QED
      BY <2>2, <2>3, <3>1, <3>2
  <2>4. CASE ~(m = 0 /\ k = 0)
    <3>1. m + k # 0
      BY <2>4
    <3>2. Owed(r, m + k) = 1
      BY <1>1, <3>1 DEF Owed
    <3>3. y = n - 1 /\ n >= 1
      BY <3>2
    <3>4. Span(n - 1, n) = {n}
      BY <3>3 DEF Span
    <3>5. ids \cup due = {n}
      BY <2>2, <2>4
    <3>6. QED
      BY <3>3, <3>4, <3>5
  <2>5. QED
    BY <2>3, <2>4
<1>2. CASE r # "ep0"
  <2>1. \A j \in Nat : Request(r, n, m + k, j).id = n - (m + k - 1 - j)
    BY <1>2 DEF Request
  <2>2. k \in {0, 1} /\ y = n - (m + k) /\ y \in Nat
    BY <1>2 DEF Owed
  <2> HIDE DEF y
  <2>3. ASSUME NEW v \in Span(y, n) PROVE v \in ids \cup due
    <3>1. v \in Nat /\ y < v /\ v <= n
      BY DEF Span
    <3> DEFINE j == v - y - 1
    <3>2. j \in Nat /\ v = n - (m + k - 1 - j)
      BY <2>2, <3>1
    <3>3. CASE j < m
      <4> HIDE DEF j
      <4>1. Request(r, n, m + k, j).id = v
        BY <2>1, <3>2
      <4>2. QED
        BY <3>2, <3>3, <4>1
    <3>4. CASE ~(j < m)
      <4>1. k = 1 /\ v = n
        BY <2>2, <3>1, <3>4
      <4>2. QED
        BY <4>1
    <3>5. QED
      BY <3>3, <3>4
  <2>4. ASSUME NEW v \in ids PROVE v \in Span(y, n)
    <3>1. PICK j \in Nat : j < m /\ v = Request(r, n, m + k, j).id
      BY <2>4
    <3>2. v = n - (m + k - 1 - j)
      BY <2>1, <3>1
    <3>3. QED
      BY <2>2, <3>1, <3>2 DEF Span
  <2>5. ASSUME NEW v \in due PROVE v \in Span(y, n)
    <3>1. v = n /\ k = 1
      BY <2>2, <2>5
    <3>2. QED
      BY <2>2, <3>1 DEF Span
  <2> HIDE DEF ids, due
  <2>6. ids \cup due = Span(y, n)
    BY <2>3, <2>4, <2>5
  <2>7. QED
    BY <2>6 DEF ids, due, y
<1>3. QED
  BY <1>1, <1>2

\* The task's request is under way exactly while TRBs of it are missing.
LEMMA DueIs ==
  ASSUME NEW e \in Endpoints, NEW d, Waiter(e, d, task)
  PROVE  /\ (IF Submitting(e) /\ (task.pc # "step" \/ task.stage < Stages(e)) THEN {task.id} ELSE {})
              = (IF Missing(e, task) = 0 THEN {} ELSE {d.made[e]})
         /\ e # "ep0" => Missing(e, task) \in {0, 1}
<1>1. CASE Working(e, task)
  <2>1. Submitting(e) /\ task.id = d.made[e] /\ task.stage \in 1..Stages(e) /\ Stages(e) \in {1, 2}
    BY <1>1 DEF Working, Submitting, Waiter, Stages
  <2>2. Missing(e, task) = IF task.pc = "step" THEN Stages(e) - task.stage ELSE Stages(e) - task.stage + 1
    BY <1>1 DEF Missing
  <2>3. e # "ep0" => Stages(e) = 1
    BY DEF Stages
  <2>4. Missing(e, task) = 0 <=> task.pc = "step" /\ ~(task.stage < Stages(e))
    BY <2>1, <2>2
  <2>5. e # "ep0" => Missing(e, task) \in {0, 1}
    BY <2>1, <2>2, <2>3
  <2>6. QED
    BY <2>1, <2>4, <2>5
<1>2. CASE ~Working(e, task)
  <2>1. ~Submitting(e) /\ Missing(e, task) = 0
    BY <1>2 DEF Working, Submitting, Missing
  <2>2. QED
    BY <2>1
<1>3. QED
  BY <1>1, <1>2

\* The requests of the TRBs that the controller can read.
LEMMA ContentIs ==
  ASSUME NEW e \in Endpoints, Tracks(e, drv, hc.ring[e], task, Pending), ~hc.ring[e].halted
  PROVE  {drv.ring[e].trb[i].id : i \in Readable(e)}
           = {Request(e, drv.made[e], Left(e, drv, hc.ring[e], task), j).id :
                j \in {j \in Nat : j < Ready(e, drv, hc.ring[e], task)}}
<1> DEFINE h == hc.ring[e]
<1> DEFINE R == {j \in Nat : j < Ready(e, drv, h, task)}
<1> DEFINE a(j) == At(e, h, j)
<1> DEFINE x(j) == Request(e, drv.made[e], Left(e, drv, h, task), j)
<1>1. Readable(e) = {a(j) : j \in R}
  BY ReadableIs DEF Tracks, Ready, Rings
<1>2. \A j \in R : drv.ring[e].trb[a(j)] = x(j)
  BY DEF Tracks, Content
<1> HIDE DEF R, a, x
<1>3. {drv.ring[e].trb[i].id : i \in Readable(e)} = {x(j).id : j \in R}
  BY <1>1, <1>2
<1>4. QED
  BY <1>3 DEF R, x, h

\* m_pURB matches the ring as long as its requests are accounted for.
LEMMA TracksMatch ==
  ASSUME NEW e \in Endpoints, task \in TaskType, Pending \in Seq(Event),
         Tracks(e, drv, hc.ring[e], task, Pending), ~hc.ring[e].halted
  PROVE  /\ {drv.urb[e][k] : k \in DOMAIN drv.urb[e]} = InFlight(e)
         /\ Len(drv.urb[e]) = 2 => drv.urb[e][1] < drv.urb[e][2]
<1> DEFINE h == hc.ring[e]
<1> DEFINE b == Base(e, drv)
<1> DEFINE n == drv.made[e]
<1> DEFINE m == Ready(e, drv, h, task)
<1> DEFINE k == Missing(e, task)
<1> DEFINE posted == {Pending[i].id : i \in {i \in DOMAIN Pending : Pending[i].ring = e}}
<1> DEFINE filled == {drv.ring[e].trb[i].id : i \in Readable(e)}
<1> DEFINE due == IF Submitting(e) /\ (task.pc # "step" \/ task.stage < Stages(e)) THEN {task.id} ELSE {}
<1>1. /\ m \in Nat /\ k \in {0, 1, 2} /\ n \in Nat /\ b \in Nat /\ b <= n /\ e \in Rings
      /\ Left(e, drv, h, task) = m + k
  BY TrackNumbers DEF Left
<1>2. PICK y \in Nat : b <= y /\ y <= n /\ y = n - Owed(e, m + k) /\ Reported(e, b, y, Pending)
  BY <1>1 DEF Tracks, Answers
<1>3. Owed(e, m + k) \in Nat
  <2>1. m + k \in Nat
    BY <1>1
  <2> HIDE DEF m, k
  <2>2. QED
    BY <2>1 DEF Owed
<1>4. posted = Span(b, y)
  <2> HIDE DEF b
  <2>1. QED
    BY <1>1, <1>2, ReportedIs
<1>5. /\ due = IF k = 0 THEN {} ELSE {n}
      /\ e # "ep0" => k \in {0, 1}
  BY DueIs DEF Tracks
<1>6. filled = {Request(e, n, m + k, j).id : j \in {j \in Nat : j < m}}
  <2>1. filled = {Request(e, n, Left(e, drv, h, task), j).id : j \in {j \in Nat : j < m}}
    BY ContentIs
  <2> DEFINE l == Left(e, drv, h, task)
  <2>2. l = m + k /\ filled = {Request(e, n, l, j).id : j \in {j \in Nat : j < m}}
    BY <1>1, <2>1
  <2> HIDE DEF l, n, m, k, filled
  <2>3. QED
    BY <2>2
<1>7. {drv.urb[e][i] : i \in DOMAIN drv.urb[e]} = Span(b, n)
  BY QueueIs DEF Tracks
<1>8. InFlight(e) = posted \cup filled \cup due
  BY DEF InFlight
<1> HIDE DEF h, b, n, m, k, posted, filled, due
<1>9. filled \cup due = Span(y, n)
  <2>1. Owed(e, m + k) <= n
    BY <1>1, <1>2, <1>3
  <2>2. y = n - Owed(e, m + k)
    BY <1>2
  <2>3. ToCome(e, n, m + k, m, k) = Span(n - Owed(e, m + k), n)
    <3>1. n \in Nat /\ m \in Nat /\ k \in {0, 1, 2} /\ (e # "ep0" => k \in {0, 1})
      BY <1>1, <1>5
    <3>2. QED
      BY <2>1, <3>1, ToComeIs
  <2>4. QED
    BY <1>5, <1>6, <2>2, <2>3 DEF ToCome
<1>10. Span(b, y) \cup Span(y, n) = Span(b, n)
  BY <1>1, <1>2 DEF Span
<1>11. {drv.urb[e][i] : i \in DOMAIN drv.urb[e]} = InFlight(e)
  BY <1>4, <1>7, <1>8, <1>9, <1>10
<1>12. ASSUME Len(drv.urb[e]) = 2 PROVE drv.urb[e][1] < drv.urb[e][2]
  <2>1. drv.urb[e][1] = b + 1 /\ drv.urb[e][2] = b + 2
    BY <1>12 DEF Tracks, Queued, b
  <2>2. QED
    BY <1>1, <2>1
<1>13. QED
  BY <1>11, <1>12

\* The invariant implies that m_pURB matches the rings.
LEMMA QueueMatchesRingFollows == RInv => QueueMatchesRing
<1> SUFFICES ASSUME RInv PROVE QueueMatchesRing
  OBVIOUS
<1>1. TypeOK
  BY TypesFollow
<1>2. task \in TaskType /\ Pending \in Seq(Event)
  BY DEF RInv, Typing, TaskSound
<1>3. ASSUME NEW e \in Endpoints, e \notin disturbed, ~hc.ring[e].halted, Running
      PROVE  /\ {drv.urb[e][k] : k \in DOMAIN drv.urb[e]} = InFlight(e)
             /\ Len(drv.urb[e]) = 2 => drv.urb[e][1] < drv.urb[e][2]
  <2>1. Tracks(e, drv, hc.ring[e], task, Pending)
    BY <1>3 DEF RInv, Tracked
  <2>2. QED
    BY <1>2, <1>3, <2>1, TracksMatch
<1>4. QED
  BY <1>1, <1>3 DEF QueueMatchesRing

\* m_pURB holds exactly the requests on their way, in the order in which the
\* controller completes them, until a time-out, a submission from an interrupt
\* within the task's, or a failed transfer: TransferEvent may take the oldest.
THEOREM QueueMatchesRingHolds == Spec => []QueueMatchesRing
<1>1. QED
  BY RInvHolds, QueueMatchesRingFollows, PTL

=============================================================================
