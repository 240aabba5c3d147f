---------------------------- MODULE SdHostProofs ----------------------------
(***************************************************************************)
(* Proofs about SdHost, for every set of cards and of published addresses  *)
(* and every longest transfer.                                             *)
(*                                                                         *)
(* What the driver may conclude from a bit depends on who last touched the *)
(* lines: a Command Complete is an answer to the command on the wire only  *)
(* if the one before it was collected or reset, and a block in the buffer  *)
(* is the next one only if no earlier transfer is still on the DAT lines.  *)
(* IInv says so: Line for the CMD line, Dat for what may be left on the    *)
(* DAT lines at each place of the driver, Buffer for the two ready bits,   *)
(* Blocks for the block loop, and Selection for the card behind it all.    *)
(* Each action has one lemma; the last section puts them together.         *)
(***************************************************************************)
EXTENDS SdHost, TLAPS

USE KindsAssumption, SizesAssumption

-----------------------------------------------------------------------------
(* The inductive invariant                                                  *)

Cards == [in : BOOLEAN, kind : Kinds, saw8 : BOOLEAN, app : BOOLEAN, rca : Rcas,
          state : {"idle", "ready", "ident", "stby", "tran", "data", "rcv"}]
Ocrs == [ready : BOOLEAN, ccs : BOOLEAN, s18a : BOOLEAN]
Responses == [of : Sites \cup {"none"}, ok : BOOLEAN, ocr : Ocrs, rca : Rcas \cup {0}]
Hosts == [power : BOOLEAN, intclk : BOOLEAN, sdclk : BOOLEAN, enabled : BOOLEAN,
          status : SUBSET StatusBits, errors : SUBSET Errors, inhibit : SUBSET {"CMD", "DAT"},
          response : Responses]
Transfers == [read : BOOLEAN, count : 0..MaxBlocks, sent : 0..MaxBlocks, full : BOOLEAN]
Ops == [read : BOOLEAN, count : 0..MaxBlocks]

Types ==
  /\ card \in Cards /\ host \in Hosts /\ wire \in Sites \cup {"none"} /\ data \in Transfers
  /\ at \in Sites \cup {"idle"}
  /\ step \in {"check", "inhibit", "wait", "buffer", "finish"}
  /\ op \in Ops /\ done \in 0..MaxBlocks
  /\ same \in BOOLEAN /\ lastOk \in BOOLEAN

Locals ==
  /\ attempt \in 0..1 /\ f8 \in 0..1 /\ poll \in {"none", "v1", "first", "retry"} /\ resp \in Ocrs
  /\ rca \in Rcas \cup {0} /\ ccs \in 0..1 /\ card_inserted \in 0..1
  /\ init_status \in {"noinit", "nodisk", "ready"} /\ mount \in {"no", "mounting", "yes"}

\* The block loop belongs to a transfer, the test of the second to the poll.
Steps ==
  /\ step \in {"buffer", "finish"} => at = "data"
  /\ step = "check" => at = "poll55"
  /\ at = "idle" => step = "inhibit"

\* The CMD line: no command is under way and no Command Complete is set unless
\* the driver waits for it, and then both are of its own command.  CMD16's may
\* be left over, from an initialisation that CMD7's busy or an error of the
\* DAT lines ended: the next call then starts over.
Line ==
  /\ step # "wait" => \/ (wire = "none" /\ "CommandComplete" \notin host.status)
                      \/ (at = "idle" /\ mount = "no" /\ wire \in {"none", "cmd16"})
  /\ step = "wait" => at \in Sites
  /\ step = "wait" /\ wire # "none" =>
       wire = at /\ "CommandComplete" \notin host.status /\ (host.errors = {} \/ at = "cmd16")
  /\ step = "wait" /\ "CommandComplete" \in host.status => at = "cmd0" \/ host.response.of = at

\* The DAT lines: sdio_init leaves at most CMD7's busy on them, a transfer
\* starts on free lines, and an error that is left over from the last one
\* leaves them inhibited.
Dat ==
  /\ host.sdclk => host.enabled
  /\ data # NoData => "DAT" \in host.inhibit
  /\ at \in InitSites =>
       /\ data \in {NoData, Busy} /\ op = NoOp /\ got = << >>
       /\ "ReadReady" \notin host.status /\ "WriteReady" \notin host.status
  /\ at \in InitSites \ {"cmd7", "cmd16"} \/ (at = "cmd7" /\ (step = "inhibit" \/ wire = "cmd7"))
       => data = NoData
  /\ at \in InitSites \ {"cmd16"} /\ step # "wait" => host.errors = {}
  /\ (at = "idle" /\ mount # "no") \/ (at = "data" /\ step = "inhibit") =>
       host.errors = {} \/ (data = NoData /\ "DAT" \in host.inhibit)
  /\ at = "data" /\ wire = "data" => data = NoData /\ host.inhibit = {"CMD"}
  /\ at = "data" => mount # "no"

\* A ready bit means a block in the buffer, or room for one.
Buffer ==
  /\ "ReadReady" \in host.status =>
       "DAT" \in host.inhibit /\ (data = NoData \/ (data.read /\ data.full /\ data.sent >= 1))
  /\ "WriteReady" \in host.status =>
       "DAT" \in host.inhibit /\ (data = NoData \/ (~data.read /\ ~data.full /\ data.sent < data.count))
  /\ ~data.read /\ data.full => data.sent < data.count
  /\ data.sent <= data.count

\* The data command has been answered.
Answered == step \in {"buffer", "finish"} \/ (step = "wait" /\ "CommandComplete" \in host.status)

\* The block loop: as long as nothing has failed, controller and driver are at
\* most one block apart, and the blocks read are the first `done`.
Blocks ==
  /\ done <= op.count
  /\ at = "data" => /\ op.count >= 1
                    /\ step \in {"inhibit", "wait"} => done = 0
                    /\ step = "buffer" => done < op.count
                    /\ step = "finish" => done = op.count
  /\ at = "data" /\ Answered /\ host.errors = {} =>
       IF data = NoData THEN done = op.count
       ELSE /\ data.read = op.read /\ data.count = op.count
            /\ IF ~data.full THEN data.sent = done
               ELSE IF op.read THEN data.sent = done + 1 ELSE data.sent + 1 = done
  /\ at = "data" /\ op.read => got = [i \in 1..done |-> i]
  /\ at = "idle" /\ lastOk /\ op.read => got = [i \in 1..op.count |-> i]

Chosen == card.state = "tran" /\ card.rca = rca

\* A card that has stayed in the slot is selected from CMD7's answer on, under
\* the address that CMD3 published, and back in `tran` after each transfer.
Selection ==
  /\ same => card.in
  /\ same /\ at = "cmd7" /\ "CommandComplete" \in host.status => Chosen
  /\ same /\ at = "cmd16" => Chosen
  /\ same /\ at \in {"idle", "data"} /\ mount # "no" => card.rca = rca
  /\ same /\ at = "idle" /\ mount # "no" /\ lastOk /\ data \in {NoData, Busy} /\ host.errors = {}
       => card.state = "tran"
  /\ same /\ at = "data" /\ Answered /\ host.errors = {} /\ data = NoData => card.state = "tran"

IInv == Types /\ Locals /\ Steps /\ Line /\ Dat /\ Buffer /\ Blocks /\ Selection

-----------------------------------------------------------------------------
(* Helper lemmas: what the record updates of card, controller and transfer leave. *)
\* What state a card can be in.
CardStates == {"idle", "ready", "ident", "stby", "tran", "data", "rcv"}

\* A card that changes its state stays a card, in the slot, at its address.
LEMMA CardStateChanged ==
  ASSUME NEW c \in Cards, NEW st \in CardStates
  PROVE  /\ [c EXCEPT !.state = st] \in Cards
         /\ [c EXCEPT !.state = st].in = c.in
         /\ [c EXCEPT !.state = st].state = st
         /\ [c EXCEPT !.state = st].rca = c.rca
BY DEF Cards, CardStates

\* So does one that answers a command of the identification.
LEMMA Identified ==
  ASSUME NEW c \in Cards, NEW st \in CardStates
  PROVE  /\ Ident(c, st) \in Cards /\ Ident(c, st).in = c.in
         /\ Ident(c, st).state = st /\ Ident(c, st).rca = c.rca
BY DEF Ident, Cards, CardStates

\* Its flags, and its being in the slot, are fields apart.
LEMMA CardFlags ==
  ASSUME NEW c \in Cards, NEW b \in BOOLEAN
  PROVE  /\ [c EXCEPT !.saw8 = b] \in Cards /\ [c EXCEPT !.saw8 = b].in = c.in
         /\ [c EXCEPT !.saw8 = b].rca = c.rca
         /\ [c EXCEPT !.app = b] \in Cards /\ [c EXCEPT !.app = b].in = c.in
         /\ [c EXCEPT !.app = b].rca = c.rca
         /\ [c EXCEPT !.in = b] \in Cards /\ [c EXCEPT !.in = b].in = b
<1>1. [c EXCEPT !.saw8 = b] \in Cards /\ [c EXCEPT !.saw8 = b].in = c.in
         /\ [c EXCEPT !.saw8 = b].rca = c.rca
  BY DEF Cards
<1>2. [c EXCEPT !.app = b] \in Cards /\ [c EXCEPT !.app = b].in = c.in
         /\ [c EXCEPT !.app = b].rca = c.rca
  BY DEF Cards
<1>4. [c EXCEPT !.in = b] \in Cards /\ [c EXCEPT !.in = b].in = b
  BY DEF Cards
<1>6. QED
  BY <1>1, <1>2, <1>4

\* The address a card publishes with CMD3.
LEMMA Published ==
  ASSUME NEW c \in Cards, NEW r \in Rcas
  PROVE  [c EXCEPT !.rca = r] \in Cards /\ [c EXCEPT !.rca = r].in = c.in
BY DEF Cards

\* A card of any kind put in.
LEMMA Inserted ==
  ASSUME NEW c \in Cards, NEW k \in Kinds
  PROVE  [c EXCEPT !.in = TRUE, !.kind = k] \in Cards
BY DEF Cards

\* CMD0, a power cut and a reset of the bus leave a card idle.
LEMMA IdleCardSound ==
  ASSUME card \in Cards
  PROVE  IdleCard \in Cards /\ IdleCard.in = card.in
BY DEF IdleCard, Cards

\* The OCR a card answers with.
LEMMA OcrsGiven ==
  ASSUME NEW s
  PROVE  NoOcr \in Ocrs /\ Ocr(s) \subseteq Ocrs
<1>1. NoOcr \in Ocrs
  BY DEF NoOcr, Ocrs
<1>2. Ocr(s) \subseteq Ocrs
  BY <1>1 DEF Ocr, Ocrs, HighCapacity
<1>3. QED
  BY <1>1, <1>2

\* What a card answers, and what state it is in then: only CMD3 changes its
\* address, CMD7 selects it only under the address the driver holds.
LEMMA AnswerSound ==
  ASSUME card \in Cards, op \in Ops, NEW s \in Sites, NEW a \in Answer(s)
  PROVE  /\ a.card \in Cards /\ a.response \in Responses /\ a.response.of = s
         /\ card.in /\ a.card.in
         /\ s # "cmd3" => a.card.rca = card.rca
         /\ s = "cmd7" => a.card.state = "tran" /\ card.rca = rca
         /\ s = "cmd16" => a.card.state = "tran"
<1> DEFINE Sound(b) ==
             /\ b.card \in Cards /\ b.response \in Responses /\ b.response.of = s
             /\ b.card.in = card.in /\ b.card.rca = card.rca
<1>0. card.in
  BY DEF Answer
<1>1. CASE s = "cmd8"
  <2> DEFINE c == [Ident(card, "idle") EXCEPT !.saw8 = TRUE]
  <2>1. PICK b \in BOOLEAN : a = Answers(c, s, b)
    BY <1>1 DEF Answer
  <2>2. Ident(card, "idle") \in Cards /\ Ident(card, "idle").in = card.in /\ Ident(card, "idle").rca = card.rca
    BY Identified DEF CardStates
  <2>3. c \in Cards /\ c.in = card.in /\ c.rca = card.rca
    BY <2>2, CardFlags
  <2> HIDE DEF c
  <2>4. Sound(a)
    BY <2>1, <2>3, OcrsGiven DEF Answers, Reply, Responses
  <2>5. QED
    BY <1>0, <1>1, <2>4
<1>2. CASE s \in {"inq55", "poll55"}
  <2> DEFINE c(b) == [card EXCEPT !.app = b]
  <2>1. PICK b \in BOOLEAN : a = Answers(c(b), s, b)
    BY <1>2 DEF Answer
  <2>2. c(b) \in Cards /\ c(b).in = card.in /\ c(b).rca = card.rca
    BY CardFlags
  <2> HIDE DEF c
  <2>3. Sound(a)
    BY <2>1, <2>2, OcrsGiven DEF Answers, Reply, Responses
  <2>4. QED
    BY <1>0, <1>2, <2>3
<1>3. CASE s \in {"inq41", "poll41"}
  <2> DEFINE c(o) == Ident(card, IF o.ready THEN "ready" ELSE "idle")
  <2>1. PICK o \in Ocr(s) : a = Reply(c(o), s, TRUE, o, 0)
    BY <1>3 DEF Answer
  <2>2. c(o) \in Cards /\ c(o).in = card.in /\ c(o).rca = card.rca
    BY Identified DEF CardStates
  <2>3. o \in Ocrs /\ 0 \in Rcas \cup {0}
    BY OcrsGiven
  <2> HIDE DEF c
  <2>4. a.card = c(o) /\ a.response \in Responses /\ a.response.of = s
    BY <2>1, <2>2, <2>3 DEF Reply, Responses
  <2>5. QED
    BY <1>0, <1>3, <2>2, <2>4
<1>4. CASE s = "cmd11"
  <2>1. a = Answers(card, s, TRUE)
    BY <1>4 DEF Answer
  <2>2. a.card = card /\ a.response \in Responses /\ a.response.of = s
    BY <2>1, OcrsGiven DEF Answers, Reply, Responses
  <2>3. QED
    BY <1>0, <1>4, <2>2
<1>5. CASE s = "cmd2"
  <2> DEFINE c == Ident(card, "ident")
  <2>1. a = Answers(c, s, TRUE)
    BY <1>5 DEF Answer
  <2>2. c \in Cards /\ c.in = card.in /\ c.rca = card.rca
    BY Identified DEF CardStates
  <2> HIDE DEF c
  <2>3. a.card = c /\ a.response \in Responses /\ a.response.of = s
    BY <2>1, <2>2, OcrsGiven DEF Answers, Reply, Responses
  <2>4. QED
    BY <1>0, <1>5, <2>2, <2>3
<1>6. CASE s = "cmd3"
  <2> DEFINE c(r) == [Ident(card, "stby") EXCEPT !.rca = r]
  <2>1. PICK r \in Rcas : a = Reply(c(r), s, TRUE, NoOcr, r)
    BY <1>6 DEF Answer
  <2>2. Ident(card, "stby") \in Cards /\ Ident(card, "stby").in = card.in
    BY Identified DEF CardStates
  <2>3. c(r) \in Cards /\ c(r).in = card.in
    BY <2>2, Published
  <2> HIDE DEF c
  <2>4. a.card = c(r) /\ a.response \in Responses /\ a.response.of = s
    BY <2>1, <2>3, OcrsGiven DEF Reply, Responses
  <2>5. QED
    BY <1>0, <1>6, <2>3, <2>4
<1>7. CASE s = "cmd7"
  <2> DEFINE c == Ident(card, "tran")
  <2>1. a = Answers(c, s, TRUE) /\ card.rca = rca
    BY <1>7 DEF Answer
  <2>2. c \in Cards /\ c.in = card.in /\ c.rca = card.rca /\ c.state = "tran"
    BY Identified DEF CardStates
  <2> HIDE DEF c
  <2>3. a.card = c /\ a.response \in Responses /\ a.response.of = s
    BY <2>1, <2>2, OcrsGiven DEF Answers, Reply, Responses
  <2>4. QED
    BY <1>0, <1>7, <2>1, <2>2, <2>3
<1>8. CASE s = "cmd16"
  <2>1. a = Answers(card, s, TRUE) /\ card.state = "tran"
    BY <1>8 DEF Answer
  <2>2. a.card = card /\ a.response \in Responses /\ a.response.of = s
    BY <2>1, OcrsGiven DEF Answers, Reply, Responses
  <2>3. QED
    BY <1>0, <1>8, <2>1, <2>2
<1>9. CASE s = "data"
  <2> DEFINE moving == Ident(card, IF op.read THEN "data" ELSE "rcv")
  <2>1. PICK c \in {card, moving}, b \in BOOLEAN : a = Answers(c, s, b)
    BY <1>9 DEF Answer
  <2>2. moving \in Cards /\ moving.in = card.in /\ moving.rca = card.rca
    BY Identified DEF CardStates
  <2> HIDE DEF moving
  <2>3. c \in Cards /\ c.in = card.in /\ c.rca = card.rca
    BY <2>2
  <2>4. a.card = c /\ a.response \in Responses /\ a.response.of = s
    BY <2>1, <2>3, OcrsGiven DEF Answers, Reply, Responses
  <2>5. QED
    BY <1>0, <1>9, <2>3, <2>4
<1>10. s # "cmd0"
  BY DEF Answer
<1>11. QED
  BY <1>1, <1>2, <1>3, <1>4, <1>5, <1>6, <1>7, <1>8, <1>9, <1>10 DEF Sites, InitSites

\* Latching a status bit changes no other register.
LEMMA Latched ==
  ASSUME NEW h \in Hosts, NEW bits \in SUBSET StatusBits
  PROVE  /\ Latch(h, bits) \in Hosts
         /\ Latch(h, bits).status = IF h.enabled THEN h.status \cup bits ELSE h.status
         /\ Latch(h, bits).power = h.power /\ Latch(h, bits).intclk = h.intclk
         /\ Latch(h, bits).sdclk = h.sdclk /\ Latch(h, bits).enabled = h.enabled
         /\ Latch(h, bits).errors = h.errors /\ Latch(h, bits).inhibit = h.inhibit
         /\ Latch(h, bits).response = h.response
BY DEF Latch, Hosts

\* Nor does latching an error bit.
LEMMA ErrorLatched ==
  ASSUME NEW h \in Hosts, NEW e \in Errors
  PROVE  /\ LatchError(h, e) \in Hosts
         /\ LatchError(h, e).errors = IF h.enabled THEN h.errors \cup {e} ELSE h.errors
         /\ LatchError(h, e).power = h.power /\ LatchError(h, e).intclk = h.intclk
         /\ LatchError(h, e).sdclk = h.sdclk /\ LatchError(h, e).enabled = h.enabled
         /\ LatchError(h, e).status = h.status /\ LatchError(h, e).inhibit = h.inhibit
         /\ LatchError(h, e).response = h.response
BY DEF LatchError, Hosts

\* Freeing a line changes no other register.
LEMMA Uninhibited ==
  ASSUME NEW h \in Hosts, NEW line \in {"CMD", "DAT"},
         NEW g, g = [h EXCEPT !.inhibit = @ \ {line}]
  PROVE  /\ g \in Hosts /\ g.inhibit = h.inhibit \ {line}
         /\ g.power = h.power /\ g.intclk = h.intclk /\ g.sdclk = h.sdclk /\ g.enabled = h.enabled
         /\ g.errors = h.errors /\ g.status = h.status /\ g.response = h.response
BY DEF Hosts

\* The two states of the DAT lines in which no block moves.
LEMMA Transfers0 ==
  /\ NoData \in Transfers /\ Busy \in Transfers /\ Busy # NoData
  /\ NoData.read /\ NoData.count = 0 /\ NoData.sent = 0 /\ ~NoData.full
  /\ Busy.read /\ Busy.count = 0 /\ Busy.sent = 0 /\ Busy.full
<1>1. /\ NoData.read /\ NoData.count = 0 /\ NoData.sent = 0 /\ ~NoData.full
      /\ NoData \in Transfers
  BY DEF NoData, Transfers
<1>2. /\ Busy = [read |-> TRUE, count |-> 0, sent |-> 0, full |-> TRUE]
  BY DEF Busy, NoData
<1>3. Busy.read /\ Busy.count = 0 /\ Busy.sent = 0 /\ Busy.full /\ Busy \in Transfers
  BY <1>2 DEF Transfers
<1>4. QED
  BY <1>1, <1>3

\* A block on the DAT lines moves the count of blocks and the buffer.
LEMMA Moved ==
  ASSUME NEW d \in Transfers, NEW k \in 0..MaxBlocks, NEW b \in BOOLEAN
  PROVE  /\ [d EXCEPT !.sent = k, !.full = b] \in Transfers
         /\ [d EXCEPT !.sent = k, !.full = b].read = d.read
         /\ [d EXCEPT !.sent = k, !.full = b].count = d.count
         /\ [d EXCEPT !.sent = k, !.full = b].sent = k
         /\ [d EXCEPT !.sent = k, !.full = b].full = b
BY DEF Transfers

\* The driver's access to the buffer moves the buffer alone.
LEMMA Filled ==
  ASSUME NEW d \in Transfers, NEW b \in BOOLEAN
  PROVE  /\ [d EXCEPT !.full = b] \in Transfers
         /\ [d EXCEPT !.full = b].read = d.read
         /\ [d EXCEPT !.full = b].count = d.count
         /\ [d EXCEPT !.full = b].sent = d.sent
         /\ [d EXCEPT !.full = b].full = b
BY DEF Transfers

\* _send_command saw Command Complete and no error: it clears the bit.
LEMMA Succeeded ==
  ASSUME host \in Hosts, NEW s, Success(s)
  PROVE  /\ at = s /\ step = "wait" /\ host.errors = {} /\ "CommandComplete" \in host.status
         /\ host' \in Hosts /\ host'.status = host.status \ {"CommandComplete"}
         /\ host'.errors = {} /\ host'.inhibit = host.inhibit
         /\ host'.sdclk = host.sdclk /\ host'.enabled = host.enabled /\ host'.response = host.response
<1> DEFINE h == [host EXCEPT !.status = @ \ {"CommandComplete"}]
<1>1. /\ at = s /\ step = "wait" /\ host.errors = {} /\ "CommandComplete" \in host.status
      /\ host' = h
  BY DEF Success, Waiting
<1>2. /\ h \in Hosts /\ h.status = host.status \ {"CommandComplete"}
      /\ h.errors = host.errors /\ h.inhibit = host.inhibit
      /\ h.sdclk = host.sdclk /\ h.enabled = host.enabled /\ h.response = host.response
  BY DEF Hosts
<1> HIDE DEF h
<1>3. QED
  BY <1>1, <1>2

\* _send_command saw an error: it clears the errors and resets the CMD line.
LEMMA Failed ==
  ASSUME host \in Hosts, NEW s, Failure(s)
  PROVE  /\ at = s /\ step = "wait" /\ host.errors # {}
         /\ host' \in Hosts /\ host'.status = host.status \ {"CommandComplete"}
         /\ host'.errors = {} /\ host'.inhibit = host.inhibit \ {"CMD"}
         /\ host'.sdclk = host.sdclk /\ host'.enabled = host.enabled /\ host'.response = host.response
<1> DEFINE g == [host EXCEPT !.errors = {}]
           h == [g EXCEPT !.inhibit = @ \ {"CMD"}, !.status = @ \ {"CommandComplete"}]
<1>1. at = s /\ step = "wait" /\ host.errors # {} /\ host' = h
  BY DEF Failure, Failing, Waiting, _sdio_reset_cmd_line
<1>2. /\ g \in Hosts /\ g.errors = {} /\ g.inhibit = host.inhibit /\ g.status = host.status
      /\ g.sdclk = host.sdclk /\ g.enabled = host.enabled /\ g.response = host.response
  BY DEF Hosts
<1> HIDE DEF g
<1>3. /\ h \in Hosts /\ h.status = g.status \ {"CommandComplete"}
      /\ h.errors = g.errors /\ h.inhibit = g.inhibit \ {"CMD"}
      /\ h.sdclk = g.sdclk /\ h.enabled = g.enabled /\ h.response = g.response
  BY <1>2 DEF Hosts
<1> HIDE DEF h
<1>4. QED
  BY <1>1, <1>2, <1>3

\* sdio_init returns to disk_initialize.
LEMMA Returned ==
  ASSUME NEW ok \in BOOLEAN, Return(ok), same \in BOOLEAN
  PROVE  /\ at' = "idle" /\ step' = "inhibit" /\ attempt' = 0 /\ f8' = 1 /\ poll' = "none"
         /\ resp' \in Ocrs /\ elapsed' = FALSE
         /\ init_status' \in {"noinit", "nodisk", "ready"} /\ mount' \in {"no", "mounting"}
         /\ same' \in BOOLEAN /\ lastOk' \in BOOLEAN
         /\ mount' = "mounting" <=> ok
         /\ lastOk' <=> ok
         /\ same' => same
<1>1. at' = "idle" /\ step' = "inhibit"
  BY DEF Return, Goto
<1>2. /\ attempt' = 0 /\ f8' = 1 /\ poll' = "none" /\ resp' = NoOcr /\ elapsed' = FALSE
      /\ init_status' \in {"noinit", "nodisk", "ready"} /\ mount' \in {"no", "mounting"}
      /\ mount' = "mounting" <=> ok
  BY DEF Return
<1>3. same' \in BOOLEAN /\ lastOk' \in BOOLEAN /\ (same' => same) /\ (lastOk' <=> ok)
  BY DEF Return
<1>4. resp' \in Ocrs
  BY <1>2, OcrsGiven
<1>5. QED
  BY <1>1, <1>2, <1>3, <1>4

\* _sdio_clock_init leaves a controller with nothing on its lines.
LEMMA Clocked ==
  ASSUME card \in Cards, card_inserted \in 0..1, NEW o, _sdio_clock_init(o)
  PROVE  /\ host' \in Hosts /\ host'.errors = {} /\ host'.status = {} /\ host'.inhibit = {}
         /\ (host'.sdclk => host'.enabled)
         /\ card_inserted' \in 0..1 /\ wire' = "none" /\ data' = NoData
         /\ card' \in Cards /\ card'.in = card.in
<1>1. NoResponse \in Responses
  BY OcrsGiven DEF NoResponse, Responses
<1>2. \/ o = [ok |-> FALSE, host |-> ResetRegisters, inserted |-> card_inserted]
      \/ o = [ok |-> FALSE, host |-> ResetRegisters, inserted |-> 0]
      \/ o = [ok |-> FALSE, host |-> Registers(TRUE, TRUE, FALSE), inserted |-> 1]
      \/ o = [ok |-> TRUE, host |-> Registers(TRUE, TRUE, TRUE), inserted |-> 1]
  BY DEF _sdio_clock_init, ClockInit
<1>3. /\ o.host \in Hosts /\ o.host.errors = {} /\ o.host.status = {} /\ o.host.inhibit = {}
      /\ o.host.sdclk => o.host.enabled
      /\ o.inserted \in {0, 1, card_inserted}
  <2> DEFINE Sound(h) == /\ h \in Hosts /\ h.errors = {} /\ h.status = {} /\ h.inhibit = {}
                         /\ h.sdclk => h.enabled
  <2>1. Sound(ResetRegisters)
    BY <1>1 DEF ResetRegisters, Registers, Hosts
  <2>2. Sound(Registers(TRUE, TRUE, FALSE))
    BY <1>1 DEF Registers, Hosts
  <2>3. Sound(Registers(TRUE, TRUE, TRUE))
    BY <1>1 DEF Registers, Hosts
  <2> DEFINE A == Registers(TRUE, TRUE, FALSE)
             B == Registers(TRUE, TRUE, TRUE)
  <2>4. o.host \in {ResetRegisters, A, B} /\ o.inserted \in {0, 1, card_inserted}
    <3> HIDE DEF A, B
    <3>1. CASE o = [ok |-> FALSE, host |-> ResetRegisters, inserted |-> card_inserted]
      BY <3>1
    <3>2. CASE o = [ok |-> FALSE, host |-> ResetRegisters, inserted |-> 0]
      BY <3>2
    <3>3. CASE o = [ok |-> FALSE, host |-> A, inserted |-> 1]
      BY <3>3
    <3>4. CASE o = [ok |-> TRUE, host |-> B, inserted |-> 1]
      BY <3>4
    <3>5. QED
      BY <1>2, <3>1, <3>2, <3>3, <3>4 DEF A, B
  <2>5. QED
    BY <2>1, <2>2, <2>3, <2>4, Zenon
<1>4. host' = o.host /\ card_inserted' = o.inserted /\ wire' = "none" /\ data' = NoData
      /\ card' \in {card, IdleCard}
  BY DEF _sdio_clock_init
<1>5. card' \in Cards /\ card'.in = card.in
  BY <1>4, IdleCardSound
<1>6. QED
  BY <1>2, <1>3, <1>4, <1>5

\* The next block appended to the first n.
LEMMA OneMore ==
  ASSUME NEW n \in Nat
  PROVE  Append([i \in 1..n |-> i], n + 1) = [i \in 1..(n + 1) |-> i]
<1> DEFINE s == [i \in 1..n |-> i]
<1>1. s \in Seq(Nat) /\ Len(s) = n
  OBVIOUS
<1>2. QED
  BY <1>1

-----------------------------------------------------------------------------
(* The controller, the card and the slot *)

\* CMD0 is complete when it is sent.
LEMMA SendCmd0Keeps ==
  ASSUME IInv, SendCmd0
  PROVE  IInv'
<1> USE DEF IInv
<1>1. /\ host' = Latch([host EXCEPT !.inhibit = @ \ {"CMD"}], {"CommandComplete"})
      /\ card' = IdleCard /\ wire' = "none"
      /\ UNCHANGED <<data, at, step, locals, transfer, globals, client>>
  BY DEF SendCmd0
<1>2. host' \in Hosts
  <2> DEFINE freed == [host EXCEPT !.inhibit = @ \ {"CMD"}]
  <2>1. freed \in Hosts /\ {"CommandComplete"} \in SUBSET StatusBits
    BY Uninhibited DEF Types, StatusBits
  <2> HIDE DEF freed
  <2>2. Latch(freed, {"CommandComplete"}) \in Hosts
    BY <2>1, Latched
  <2>3. QED
    BY <1>1, <2>2 DEF freed
<1>3. Types'
  BY <1>1, <1>2, IdleCardSound DEF Types, transfer, client
<1>4. Locals'
  BY DEF SendCmd0, Locals, locals, transfer, globals, client
<1>5. Steps'
  BY DEF SendCmd0, Steps, transfer, globals, client
<1>6. Line'
  BY DEF SendCmd0, Line, transfer, globals, client
<1>7. Dat'
  BY DEF SendCmd0, Dat, Sdclk, Latch, IdleCard, transfer, globals, client, NoData,
         Busy, NoOp
<1>8. Buffer'
  BY DEF SendCmd0, Buffer, Sdclk, Latch, IdleCard, transfer, globals, client, NoData
<1>9. Blocks'
  BY DEF SendCmd0, Types, Steps, Line, Blocks, Sdclk, Latch, IdleCard, transfer,
         globals, client, Answered, NoData
<1>10. Selection'
  BY DEF SendCmd0, Types, Steps, Line, Selection, Sdclk, Latch, IdleCard, transfer,
         globals, client, Chosen, NoData, Busy, Answered
<1>11. QED
  BY <1>3, <1>4, <1>5, <1>6, <1>7, <1>8, <1>9, <1>10

\* An answer: Command Complete belongs to the command that was on the wire, and
\* CMD7 and the data command leave the DAT lines inhibited.
LEMMA CommandCompletesKeeps ==
  ASSUME IInv, CommandCompletes
  PROVE  IInv'
<1> USE DEF IInv
<1>1. PICK a \in Answer(wire) :
        /\ wire \in Sites /\ Sdclk(host)
        /\ card' = a.card
        /\ host' = Latch([host EXCEPT !.response = a.response,
                                      !.inhibit = IF wire \in {"cmd7", "data"}
                                                  THEN {"DAT"} ELSE @ \ {"CMD"}],
                         {"CommandComplete"}
                         \cup (IF wire = "data" /\ ~op.read THEN {"WriteReady"} ELSE {}))
        /\ data' = CASE wire = "data" -> [read |-> op.read, count |-> op.count, sent |-> 0, full |-> FALSE]
                     [] wire = "cmd7" -> Busy
                     [] OTHER -> data
        /\ wire' = "none"
        /\ UNCHANGED <<at, step, locals, transfer, globals, client>>
  BY DEF CommandCompletes
<1>2. /\ a.card \in Cards /\ a.response \in Responses /\ a.response.of = wire
      /\ a.card.in /\ card.in
      /\ wire # "cmd3" => a.card.rca = card.rca
      /\ wire = "cmd7" => a.card.state = "tran" /\ card.rca = rca
      /\ wire = "cmd16" => a.card.state = "tran"
  BY <1>1, AnswerSound DEF Types
<1> DEFINE h0 == [host EXCEPT !.response = a.response,
                              !.inhibit = IF wire \in {"cmd7", "data"}
                                          THEN {"DAT"} ELSE @ \ {"CMD"}]
           bits == {"CommandComplete"} \cup (IF wire = "data" /\ ~op.read THEN {"WriteReady"} ELSE {})
<1>3. /\ h0 \in Hosts
      /\ h0.status = host.status /\ h0.sdclk = host.sdclk /\ h0.enabled = host.enabled
      /\ h0.errors = host.errors /\ h0.response = a.response
      /\ h0.inhibit = IF wire \in {"cmd7", "data"} THEN {"DAT"} ELSE host.inhibit \ {"CMD"}
  BY <1>2 DEF Types, Hosts
<1>4. bits \in SUBSET StatusBits
  BY DEF StatusBits
<1>5. host.enabled
  BY <1>1 DEF Dat, Sdclk
<1>6. host' = Latch(h0, bits)
  BY <1>1
<1> HIDE DEF h0
<1>7. /\ host' \in Hosts
      /\ host'.status = host.status \cup bits
      /\ host'.sdclk = host.sdclk /\ host'.enabled
      /\ host'.errors = host.errors /\ host'.response = a.response
      /\ host'.inhibit = IF wire \in {"cmd7", "data"} THEN {"DAT"} ELSE host.inhibit \ {"CMD"}
  <2> HIDE DEF bits
  <2> DEFINE L == Latch(h0, bits)
  <2>1. /\ L \in Hosts
        /\ L.status = IF h0.enabled THEN h0.status \cup bits ELSE h0.status
        /\ L.sdclk = h0.sdclk /\ L.enabled = h0.enabled
        /\ L.errors = h0.errors /\ L.inhibit = h0.inhibit
        /\ L.response = h0.response
    BY <1>3, <1>4, Latched
  <2>2. host' = L
    BY <1>6
  <2> HIDE DEF L
  <2>3. QED
    BY <1>3, <1>5, <2>1, <2>2
<1>8. /\ wire = "data" => /\ data' \in Transfers /\ data'.read = op.read /\ data'.count = op.count
                          /\ data'.sent = 0 /\ data'.full = FALSE
      /\ wire = "cmd7" => data' = Busy
      /\ wire \notin {"cmd7", "data"} => data' = data
  BY <1>1 DEF Types, Transfers, Ops
<1>9. /\ op' = op /\ done' = done /\ got' = got /\ rca' = rca /\ card' = a.card
      /\ mount' = mount /\ same' = same /\ lastOk' = lastOk /\ at' = at /\ step' = step /\ wire' = "none"
      /\ wire \in Sites
  BY <1>1 DEF transfer, client, globals
<1>10. (step = "wait" /\ wire = at) \/ (at = "idle" /\ mount = "no" /\ wire = "cmd16" /\ step # "wait")
  BY <1>9 DEF Line, Sites, InitSites
<1>11. Types'
  BY <1>2, <1>7, <1>8, <1>9, Transfers0 DEF Types
<1>12. Locals' /\ Steps'
  BY <1>1 DEF Locals, Steps, locals, globals, client
<1>13. Line'
  BY <1>2, <1>7, <1>9, <1>10 DEF Line
<1>14. Dat'
  <2>1. host'.sdclk => host'.enabled
    BY <1>7
  <2>2. data' # NoData => "DAT" \in host'.inhibit
    BY <1>7, <1>8 DEF Dat
  <2>3. at' \in InitSites => /\ data' \in {NoData, Busy} /\ "ReadReady" \notin host'.status
                             /\ "WriteReady" \notin host'.status /\ op' = NoOp /\ got' = << >>
    BY <1>7, <1>8, <1>9, <1>10 DEF Dat, InitSites
  <2>4. at' \in InitSites \ {"cmd7", "cmd16"} \/ (at' = "cmd7" /\ (step' = "inhibit" \/ wire' = "cmd7"))
          => data' = NoData
    BY <1>7, <1>8, <1>9, <1>10 DEF Dat, InitSites
  <2>5. at' \in InitSites \ {"cmd16"} /\ step' # "wait" => host'.errors = {}
    BY <1>7, <1>9 DEF Dat
  <2>6. (at' = "idle" /\ mount' # "no") \/ (at' = "data" /\ step' = "inhibit") =>
          host'.errors = {} \/ (data' = NoData /\ "DAT" \in host'.inhibit)
    BY <1>7, <1>8, <1>9, <1>10 DEF Dat, Sites, InitSites
  <2>7. at' = "data" /\ wire' = "data" => data' = NoData /\ host'.inhibit = {"CMD"}
    BY <1>9
  <2>8. at' = "data" => mount' # "no"
    BY <1>9 DEF Dat
  <2>9. QED
    BY <2>1, <2>2, <2>3, <2>4, <2>5, <2>6, <2>7, <2>8 DEF Dat
<1>15. Buffer'
  <2>1. wire = "data" => host.status \cap {"ReadReady", "WriteReady"} = {}
    BY <1>9, <1>10 DEF Dat, Buffer
  <2>2. wire = "data" => op.count >= 1
    BY <1>9, <1>10 DEF Blocks
  <2>3. wire # "data" => host'.status \cap {"ReadReady", "WriteReady"} = host.status \cap {"ReadReady", "WriteReady"}
    BY <1>7
  <2>4. CASE wire = "data"
    BY <1>7, <1>8, <2>1, <2>2, <2>4 DEF Buffer, Types, Ops
  <2>5. CASE wire = "cmd7"
    BY <1>7, <1>8, <1>9, <1>10, <2>3, <2>5, Transfers0 DEF Buffer, Dat, InitSites
  <2>6. CASE wire \notin {"data", "cmd7"}
    BY <1>7, <1>8, <2>3, <2>6 DEF Buffer
  <2>7. QED
    BY <2>4, <2>5, <2>6
<1>16. Blocks'
  BY <1>2, <1>7, <1>8, <1>9, <1>10, Transfers0 DEF Blocks, Answered, Types, Ops
<1>17. Selection'
  <2>1. same' => card'.in
    BY <1>2, <1>9 DEF Selection
  <2>2. same' /\ at' = "cmd7" /\ "CommandComplete" \in host'.status => Chosen'
    BY <1>2, <1>9, <1>10 DEF Chosen
  <2>3. same' /\ at' = "cmd16" => Chosen'
    BY <1>2, <1>9, <1>10 DEF Chosen, Selection
  <2>4. same' /\ at' \in {"idle", "data"} /\ mount' # "no" => card'.rca = rca'
    BY <1>2, <1>9, <1>10 DEF Selection
  <2>5. same' /\ at' = "idle" /\ mount' # "no" /\ lastOk' /\ data' \in {NoData, Busy} /\ host'.errors = {}
          => card'.state = "tran"
    BY <1>9, <1>10 DEF Sites, InitSites
  <2>6. at = "data" => op.count >= 1 /\ wire = "data"
    BY <1>9, <1>10 DEF Blocks
  <2>7. at = "data" => data' # NoData
    BY <1>8, <2>6, Transfers0
  <2>8. QED
    BY <1>9, <2>1, <2>2, <2>3, <2>4, <2>5, <2>7 DEF Selection
<1>18. QED
  BY <1>11, <1>12, <1>13, <1>14, <1>15, <1>16, <1>17

\* A command without a sound answer: an error, and the card may have acted.
LEMMA CommandFailsKeeps ==
  ASSUME IInv, CommandFails
  PROVE  IInv'
<1> USE DEF IInv
<1>1. PICK e \in {"Timeout", "Broken"} : host' = LatchError(host, e)
  BY DEF CommandFails
<1>2. /\ wire # "none" /\ wire' = "none" /\ Sdclk(host)
      /\ card' \in {card} \cup {a.card : a \in Answer(wire)}
      /\ UNCHANGED <<data, at, step, locals, transfer, globals, client>>
  BY DEF CommandFails
<1>3. /\ op' = op /\ done' = done /\ got' = got /\ rca' = rca /\ data' = data
      /\ mount' = mount /\ same' = same /\ lastOk' = lastOk /\ at' = at /\ step' = step
  BY <1>2 DEF transfer, client, globals
<1>4. wire \in Sites
  BY <1>2 DEF Types
<1>5. /\ card' \in Cards /\ (card.in => card'.in)
      /\ wire # "cmd3" => card'.rca = card.rca
      /\ wire = "cmd16" => card' = card \/ card'.state = "tran"
  BY <1>2, <1>4, AnswerSound DEF Types
<1>6. host.enabled
  BY <1>2 DEF Dat, Sdclk
<1>7. /\ host' \in Hosts /\ host'.errors = host.errors \cup {e}
      /\ host'.sdclk = host.sdclk /\ host'.enabled
      /\ host'.status = host.status /\ host'.inhibit = host.inhibit
      /\ host'.response = host.response
  <2>0. host \in Hosts /\ e \in Errors
    BY DEF Errors, Types
  <2> DEFINE L == LatchError(host, e)
  <2>1. /\ L \in Hosts
        /\ L.errors = IF host.enabled THEN host.errors \cup {e} ELSE host.errors
        /\ L.sdclk = host.sdclk /\ L.enabled = host.enabled
        /\ L.status = host.status /\ L.inhibit = host.inhibit
        /\ L.response = host.response
    BY <2>0, ErrorLatched
  <2>2. host' = L
    BY <1>1
  <2> HIDE DEF L
  <2>3. QED
    BY <1>6, <2>1, <2>2
<1>8. host'.errors # {}
  BY <1>7
<1>9. \/ step = "wait" /\ wire = at /\ at # "idle" /\ "CommandComplete" \notin host.status
      \/ at = "idle" /\ mount = "no" /\ wire = "cmd16" /\ step # "wait"
  BY <1>2, <1>4 DEF Line, Sites, InitSites
<1>10. Types'
  BY <1>2, <1>3, <1>5, <1>7 DEF Types
<1>11. Locals' /\ Steps'
  BY <1>2 DEF Locals, Steps, locals, globals, client
<1>12. Line'
  BY <1>2, <1>3, <1>7, <1>9 DEF Line
<1>13. Dat'
  <2>1. at \in InitSites => wire # "data"
    BY <1>9 DEF InitSites
  <2>2. at = "cmd7" /\ (step' = "inhibit" \/ wire' = "cmd7") => FALSE
    BY <1>2, <1>3, <1>9
  <2>3. QED
    BY <1>2, <1>3, <1>7, <1>9, <2>2 DEF Dat, InitSites
<1>14. Buffer'
  BY <1>3, <1>7 DEF Buffer
<1>15. Blocks'
  BY <1>3, <1>7, <1>8 DEF Blocks, Answered
<1>16. Selection'
  <2>1. same' => card'.in
    BY <1>3, <1>5 DEF Selection
  <2>2. same' /\ at' = "cmd16" => Chosen'
    BY <1>3, <1>5, <1>9 DEF Chosen, Selection
  <2>3. same' /\ at' \in {"idle", "data"} /\ mount' # "no" => card'.rca = rca'
    BY <1>3, <1>5, <1>9 DEF Selection
  <2>4. at' = "cmd7" => "CommandComplete" \notin host'.status
    BY <1>3, <1>7, <1>9
  <2>5. QED
    BY <1>3, <1>8, <2>1, <2>2, <2>3, <2>4 DEF Selection
<1>17. QED
  BY <1>10, <1>11, <1>12, <1>13, <1>14, <1>15, <1>16

\* The end of CMD7's busy.
LEMMA BusyEndsKeeps ==
  ASSUME IInv, BusyEnds
  PROVE  IInv'
<1> USE DEF IInv
<1> DEFINE freed == [host EXCEPT !.inhibit = @ \ {"DAT"}]
<1>1. /\ freed \in Hosts /\ freed.inhibit = host.inhibit \ {"DAT"}
      /\ freed.power = host.power /\ freed.intclk = host.intclk /\ freed.sdclk = host.sdclk
      /\ freed.enabled = host.enabled
      /\ freed.errors = host.errors /\ freed.status = host.status /\ freed.response = host.response
  BY Uninhibited DEF Types
<1>2. host' = Latch(freed, {"TransferComplete"}) /\ data' = NoData /\ data = Busy
      /\ UNCHANGED <<card, wire, at, step, locals, transfer, globals, client>>
  BY DEF BusyEnds
<1> HIDE DEF freed
<1>3. /\ host' \in Hosts /\ host'.inhibit = host.inhibit \ {"DAT"}
      /\ host'.sdclk = host.sdclk /\ host'.enabled = host.enabled
      /\ host'.errors = host.errors /\ host'.response = host.response
      /\ host'.status \in {host.status, host.status \cup {"TransferComplete"}}
  <2>1. {"TransferComplete"} \in SUBSET StatusBits
    BY DEF StatusBits
  <2> DEFINE L == Latch(freed, {"TransferComplete"})
  <2>2. /\ L \in Hosts
        /\ L.status = IF freed.enabled THEN freed.status \cup {"TransferComplete"} ELSE freed.status
        /\ L.sdclk = freed.sdclk /\ L.enabled = freed.enabled
        /\ L.errors = freed.errors /\ L.inhibit = freed.inhibit
        /\ L.response = freed.response
    BY <1>1, <2>1, Latched
  <2>3. host' = L
    BY <1>2
  <2> HIDE DEF L
  <2>4. QED
    BY <1>1, <2>2, <2>3
<1>4. /\ op' = op /\ done' = done /\ got' = got /\ rca' = rca /\ card' = card
     /\ mount' = mount /\ same' = same /\ lastOk' = lastOk /\ at' = at /\ step' = step /\ wire' = wire
  BY <1>2 DEF transfer, client, globals
<1>5. Answered' <=> Answered
  BY <1>4, <1>3 DEF Answered
<1>6. ~(at = "data" /\ Answered /\ host.errors = {})
  <2> SUFFICES ASSUME at = "data", Answered, host.errors = {} PROVE FALSE
    OBVIOUS
  <2>1. op.count >= 1
    BY DEF Blocks
  <2>2. data.count = op.count
    BY <1>2, Transfers0 DEF Blocks
  <2>3. QED
    BY <1>2, <2>1, <2>2, Transfers0
<1>7. Types'
  BY <1>2, <1>3, <1>4, Transfers0 DEF Types
<1>8. Locals' /\ Steps'
  BY <1>2 DEF Locals, Steps, locals, globals, client
<1>9. Line'
  BY <1>4, <1>3 DEF Line
<1>10. Dat'
  BY <1>4, <1>2, <1>3, Transfers0 DEF Dat
<1>11. Buffer'
  BY <1>2, <1>3, Transfers0 DEF Buffer
<1>12. Blocks'
  BY <1>2, <1>3, <1>4, <1>5, <1>6 DEF Blocks
<1>13. Selection'
  BY <1>2, <1>3, <1>4, <1>5, <1>6 DEF Selection, Chosen
<1>14. QED
  BY <1>7, <1>8, <1>9, <1>10, <1>11, <1>12, <1>13

\* A block read into the buffer is the next one.
LEMMA BlockArrivesKeeps ==
  ASSUME IInv, BlockArrives
  PROVE  IInv'
<1> USE DEF IInv
<1>1. /\ data.read /\ ~data.full /\ data.sent < data.count
      /\ data' = [data EXCEPT !.sent = @ + 1, !.full = TRUE]
      /\ host' = Latch(host, {"ReadReady"})
      /\ UNCHANGED <<card, wire, at, step, locals, transfer, globals, client>>
  BY DEF BlockArrives
<1>2. /\ data' \in Transfers /\ data'.read /\ data'.full
      /\ data'.count = data.count /\ data'.sent = data.sent + 1
  <2>1. data \in Transfers /\ data.sent + 1 \in 0..MaxBlocks
    BY <1>1 DEF Types, Transfers
  <2> DEFINE k == data.sent + 1
             d == [data EXCEPT !.sent = k, !.full = TRUE]
  <2>2. data' = d
    BY <1>1
  <2>3. d \in Transfers /\ d.read = data.read /\ d.count = data.count /\ d.sent = k /\ d.full = TRUE
    BY <2>1, Moved
  <2> HIDE DEF d
  <2>4. QED
    BY <1>1, <2>2, <2>3
<1>3. host' \in Hosts /\ host'.errors = host.errors
      /\ host'.status \in {host.status, host.status \cup {"ReadReady"}}
  <2>1. host \in Hosts /\ {"ReadReady"} \in SUBSET StatusBits
    BY DEF Types, StatusBits
  <2> DEFINE L == Latch(host, {"ReadReady"})
  <2>2. /\ L \in Hosts /\ L.errors = host.errors
        /\ L.status = IF host.enabled THEN host.status \cup {"ReadReady"} ELSE host.status
    BY <2>1, Latched
  <2>3. host' = L
    BY <1>1
  <2> HIDE DEF L
  <2>4. QED
    BY <2>2, <2>3
<1>4. /\ op' = op /\ done' = done /\ got' = got
      /\ lastOk' = lastOk /\ same' = same /\ at' = at /\ step' = step /\ card' = card /\ wire' = wire
  BY <1>1 DEF transfer, client
<1>5. data # NoData /\ data' # NoData /\ data' # Busy
  <2>1. data.sent \in Nat /\ data.count \in Nat
    BY DEF Types, Transfers
  <2>2. data # NoData
    BY <1>1, <2>1, Transfers0
  <2>3. data' # NoData
    BY <1>2, Transfers0
  <2>4. data' # Busy
    BY <1>2, <2>1, Transfers0
  <2>5. QED
    BY <2>2, <2>3, <2>4
<1>6. Types'
  BY <1>2, <1>3, <1>4 DEF Types
<1>7. Answered' <=> Answered
  BY <1>3, <1>4 DEF Answered
<1>8. Blocks'
  <2>1. ASSUME at = "data", Answered, host.errors = {}
        PROVE  data'.read = op.read /\ data'.count = op.count /\ data'.sent = done + 1 /\ op.read
    BY <1>1, <1>2, <1>5, <2>1 DEF Blocks
  <2>2. QED
    BY <1>2, <1>3, <1>4, <1>5, <1>7, <2>1 DEF Blocks
<1>9. Selection'
  BY <1>1, <1>3, <1>4, <1>5, <1>7 DEF Selection, Chosen, globals, client
<1>10. Locals'
  BY DEF BlockArrives, Locals, locals, transfer, globals, client
<1>11. Steps'
  BY DEF BlockArrives, Steps, transfer, globals, client
<1>12. Line'
  BY DEF BlockArrives, Line, Sdclk, Latch, transfer, globals, client
<1>13. Dat'
  BY DEF BlockArrives, Dat, Sdclk, Latch, transfer, globals, client, NoData, Busy, NoOp
<1>14. Buffer'
  BY DEF BlockArrives, Types, Steps, Line, Dat, Buffer, Sdclk, Latch, transfer,
         globals, client, Transfers, NoData, Busy, NoOp
<1>15. QED
  BY <1>6, <1>8, <1>9, <1>10, <1>11, <1>12, <1>13, <1>14

\* A block written from the buffer makes room for the next, if there is one.
LEMMA BlockSentKeeps ==
  ASSUME IInv, BlockSent
  PROVE  IInv'
<1> USE DEF IInv
<1>1. /\ ~data.read /\ data.full
      /\ data' = [data EXCEPT !.sent = @ + 1, !.full = FALSE]
      /\ host' = Latch(host, IF data.sent + 1 < data.count THEN {"WriteReady"} ELSE {})
      /\ UNCHANGED <<card, wire, at, step, locals, transfer, globals, client>>
  BY DEF BlockSent
<1>2. data.sent < data.count
  BY <1>1 DEF Buffer
<1>3. /\ data' \in Transfers /\ data'.read = FALSE /\ data'.full = FALSE
      /\ data'.count = data.count /\ data'.sent = data.sent + 1
  <2>1. data \in Transfers /\ data.sent + 1 \in 0..MaxBlocks
    BY <1>2 DEF Types, Transfers
  <2> DEFINE k == data.sent + 1
             d == [data EXCEPT !.sent = k, !.full = FALSE]
  <2>2. data' = d
    BY <1>1
  <2>3. d \in Transfers /\ d.read = data.read /\ d.count = data.count /\ d.sent = k /\ d.full = FALSE
    BY <2>1, Moved
  <2> HIDE DEF d
  <2>4. QED
    BY <1>1, <2>2, <2>3
<1>4. host' \in Hosts /\ host'.errors = host.errors
      /\ host'.status \in {host.status, host.status \cup {"WriteReady"}}
  <2> DEFINE bits == IF data.sent + 1 < data.count THEN {"WriteReady"} ELSE {}
  <2>1. host \in Hosts /\ bits \in SUBSET StatusBits
    BY DEF Types, StatusBits
  <2>2. bits \in {{}, {"WriteReady"}}
    OBVIOUS
  <2> DEFINE L == Latch(host, bits)
  <2>3. host' = L
    BY <1>1
  <2> HIDE DEF bits
  <2>4. /\ L \in Hosts /\ L.errors = host.errors
        /\ L.status = IF host.enabled THEN host.status \cup bits ELSE host.status
    BY <2>1, Latched
  <2> HIDE DEF L
  <2>5. QED
    BY <2>2, <2>3, <2>4
<1>5. /\ op' = op /\ done' = done /\ got' = got
      /\ lastOk' = lastOk /\ same' = same /\ at' = at /\ step' = step /\ card' = card /\ wire' = wire
  BY <1>1 DEF transfer, client
<1>6. data # NoData /\ data' # NoData
  BY <1>1, <1>3, Transfers0 DEF Types, Transfers
<1>7. Types'
  BY <1>3, <1>4, <1>5 DEF Types
<1>8. Answered' <=> Answered
  BY <1>4, <1>5 DEF Answered
<1>9. Blocks'
  <2>1. ASSUME at = "data", Answered, host.errors = {}
        PROVE  data'.read = op.read /\ data'.count = op.count /\ data'.sent = done /\ ~op.read
    BY <1>1, <1>3, <1>6, <2>1 DEF Blocks
  <2>2. QED
    BY <1>3, <1>4, <1>5, <1>6, <1>8, <2>1 DEF Blocks
<1>10. Locals'
  BY DEF BlockSent, Locals, locals, transfer, globals, client
<1>11. Steps'
  BY DEF BlockSent, Steps, transfer, globals, client
<1>12. Line'
  BY DEF BlockSent, Line, Sdclk, Latch, transfer, globals, client
<1>13. Dat'
  BY DEF BlockSent, Dat, Sdclk, Latch, transfer, globals, client, NoData, Busy, NoOp
<1>14. Buffer'
  BY DEF BlockSent, Types, Steps, Line, Dat, Buffer, Sdclk, Latch, transfer, globals,
         client, Transfers, NoData, Busy, NoOp
<1>15. Selection'
  BY DEF BlockSent, Selection, Types, Sdclk, Latch, transfer, globals, client, Chosen,
         NoData, Busy, Answered, Hosts
<1>16. QED
  BY <1>7, <1>9, <1>10, <1>11, <1>12, <1>13, <1>14, <1>15

\* The last block is through: the card is back in `tran`.
LEMMA TransferCompletesKeeps ==
  ASSUME IInv, TransferCompletes
  PROVE  IInv'
<1> USE DEF IInv
<1>1. /\ card' = [card EXCEPT !.state = "tran"]
      /\ host' = Latch([host EXCEPT !.inhibit = @ \ {"DAT"}], {"TransferComplete"})
      /\ data' = NoData
      /\ UNCHANGED <<wire, at, step, locals, transfer, globals, client>>
  BY DEF TransferCompletes
<1>2. card' \in Cards
  BY <1>1, CardStateChanged DEF Types, CardStates
<1>3. host' \in Hosts
  <2> DEFINE freed == [host EXCEPT !.inhibit = @ \ {"DAT"}]
  <2>1. freed \in Hosts /\ {"TransferComplete"} \in SUBSET StatusBits
    BY Uninhibited DEF Types, StatusBits
  <2> HIDE DEF freed
  <2>2. Latch(freed, {"TransferComplete"}) \in Hosts
    BY <2>1, Latched
  <2>3. QED
    BY <1>1, <2>2 DEF freed
<1>4. Types'
  BY <1>1, <1>2, <1>3, Transfers0 DEF Types, transfer, client
<1>5. Locals'
  BY DEF TransferCompletes, Locals, locals, transfer, globals, client
<1>6. Steps'
  BY DEF TransferCompletes, Steps, transfer, globals, client
<1>7. Line'
  BY DEF TransferCompletes, Line, NoData, Sdclk, Latch, transfer, globals, client
<1>8. Dat'
  BY DEF TransferCompletes, Dat, NoData, Sdclk, Latch, transfer, globals, client, Busy,
         NoOp
<1>9. Buffer'
  BY DEF TransferCompletes, Buffer, Types, NoData, Sdclk, Latch, transfer, globals,
         client, Transfers
<1>10. Blocks'
  BY DEF TransferCompletes, Blocks, NoData, Sdclk, Latch, transfer, globals, client,
         Answered
<1>11. Selection'
  BY DEF TransferCompletes, Selection, NoData, Sdclk, Latch, transfer, globals, client,
         Chosen, Busy, Answered
<1>12. QED
  BY <1>4, <1>5, <1>6, <1>7, <1>8, <1>9, <1>10, <1>11

\* A data error leaves the DAT line inhibited.
LEMMA TransferFailsKeeps ==
  ASSUME IInv, TransferFails
  PROVE  IInv'
<1> USE DEF IInv
<1>1. Types'
  BY DEF TransferFails, Types, NoData, Sdclk, LatchError, transfer, globals, client,
         Cards, Hosts, Transfers, Errors
<1>2. Locals'
  BY DEF TransferFails, Locals, locals, transfer, globals, client
<1>3. Steps'
  BY DEF TransferFails, Steps, transfer, globals, client
<1>4. Line'
  BY DEF TransferFails, Types, Steps, Line, Dat, NoData, Sdclk, LatchError, transfer,
         globals, client, Sites, Busy, NoOp
<1>5. Dat'
  BY DEF TransferFails, Types, Steps, Line, Dat, NoData, Sdclk, LatchError, transfer,
         globals, client, Busy, NoOp
<1>6. Buffer'
  BY DEF TransferFails, Buffer, NoData, Sdclk, LatchError, transfer, globals, client
<1>7. Blocks'
  BY DEF TransferFails, Types, Steps, Line, Dat, Blocks, NoData, Sdclk, LatchError,
         transfer, globals, client, Busy, NoOp, Answered
<1>8. Selection'
  BY DEF TransferFails, Types, Steps, Line, Dat, Selection, NoData, Sdclk, LatchError,
         transfer, globals, client, Busy, NoOp, Chosen, Answered
<1>9. QED
  BY <1>1, <1>2, <1>3, <1>4, <1>5, <1>6, <1>7, <1>8

\* The card is pulled out.
LEMMA RemoveCardKeeps ==
  ASSUME IInv, RemoveCard
  PROVE  IInv'
<1> USE DEF IInv
<1>1. PICK p \in {host.power, FALSE} : host' = [host EXCEPT !.power = p]
  BY DEF RemoveCard
<1>2. /\ card' = [IdleCard EXCEPT !.in = FALSE] /\ same' = FALSE
      /\ UNCHANGED <<wire, data, at, step, transfer, lastOk>>
  BY DEF RemoveCard
<1>3. card' \in Cards
  BY <1>2, IdleCardSound, CardFlags DEF Types
<1>4. host' \in Hosts
  BY <1>1 DEF Types, Hosts
<1>5. Types'
  BY <1>2, <1>3, <1>4 DEF Types, transfer
<1>6. Locals'
  BY DEF RemoveCard, Locals, locals, transfer, globals
<1>7. Steps'
  BY DEF RemoveCard, Steps, transfer, globals
<1>8. Line'
  BY DEF RemoveCard, Line, transfer, globals
<1>9. Dat'
  BY DEF RemoveCard, Dat, transfer, globals
<1>10. Buffer'
  BY DEF RemoveCard, Buffer, transfer, globals
<1>11. Blocks'
  BY DEF RemoveCard, Blocks, transfer, globals, Answered
<1>12. Selection'
  BY DEF RemoveCard, Selection, transfer, globals
<1>13. QED
  BY <1>5, <1>6, <1>7, <1>8, <1>9, <1>10, <1>11, <1>12

\* A card is put in.
LEMMA InsertCardKeeps ==
  ASSUME IInv, InsertCard
  PROVE  IInv'
<1> USE DEF IInv
<1>1. PICK k \in Kinds : card' = [card EXCEPT !.in = TRUE, !.kind = k]
  BY DEF InsertCard
<1>2. card' \in Cards
  BY <1>1, Inserted DEF Types
<1>3. UNCHANGED <<host, wire, data, at, step, transfer, client>>
  BY DEF InsertCard
<1>4. Types'
  BY <1>2, <1>3 DEF Types, transfer, client
<1>5. Locals'
  BY DEF InsertCard, Locals, locals, transfer, globals, client
<1>6. Steps'
  BY DEF InsertCard, Steps, transfer, globals, client
<1>7. Line'
  BY DEF InsertCard, Line, transfer, globals, client
<1>8. Dat'
  BY DEF InsertCard, Dat, transfer, globals, client
<1>9. Buffer'
  BY DEF InsertCard, Buffer, transfer, globals, client
<1>10. Blocks'
  BY DEF InsertCard, Blocks, transfer, globals, client, Answered
<1>11. Selection'
  BY DEF InsertCard, Selection, transfer, globals, client
<1>12. QED
  BY <1>4, <1>5, <1>6, <1>7, <1>8, <1>9, <1>10, <1>11

-----------------------------------------------------------------------------
(* sdio_init *)

\* A command of the identification goes on the wire.
LEMMA IssueKeeps ==
  ASSUME IInv, Issue
  PROVE  IInv'
<1> USE DEF IInv
<1>1. Types'
  BY DEF Issue, Types, InitSites, transfer, globals, client, Hosts
<1>2. Locals'
  BY DEF Issue, Locals, locals, transfer, globals, client
<1>3. Steps'
  BY DEF Issue, Steps, InitSites, transfer, globals, client
<1>4. Line'
  BY DEF Issue, Types, Steps, Line, Dat, InitSites, transfer, globals, client, NoData,
         Busy, NoOp
<1>5. Dat'
  BY DEF Issue, Dat, InitSites, transfer, globals, client, NoData, Busy, NoOp
<1>6. Buffer'
  BY DEF Issue, Buffer, transfer, globals, client
<1>7. Blocks'
  BY DEF Issue, Blocks, InitSites, transfer, globals, client, Answered, NoData
<1>8. Selection'
  BY DEF Issue, Selection, InitSites, transfer, globals, client, Chosen, NoData, Busy,
         Answered
<1>9. QED
  BY <1>1, <1>2, <1>3, <1>4, <1>5, <1>6, <1>7, <1>8

\* CMD0's result is ignored.
LEMMA Cmd0DoneKeeps ==
  ASSUME IInv, Cmd0Done
  PROVE  IInv'
<1> USE DEF IInv
<1>1. /\ at = "cmd0" /\ step = "wait" /\ host' \in Hosts /\ host'.errors = {}
      /\ host'.status = host.status \ {"CommandComplete"}
      /\ host'.inhibit \in {host.inhibit, host.inhibit \ {"CMD"}}
      /\ host'.sdclk = host.sdclk /\ host'.enabled = host.enabled
      /\ host.errors # {} \/ "CommandComplete" \in host.status
  <2>1. CASE Success("cmd0")
    BY <2>1, Succeeded DEF Types
  <2>2. CASE Failure("cmd0")
    BY <2>2, Failed DEF Types
  <2>3. QED
    BY <2>1, <2>2 DEF Cmd0Done
<1>2. /\ at' = "cmd8" /\ step' = "inhibit"
      /\ UNCHANGED <<card, wire, data, transfer, globals, locals, client>>
  BY DEF Cmd0Done, Continue, Goto
<1>3. op' = op /\ done' = done /\ got' = got /\ same' = same /\ lastOk' = lastOk /\ mount' = mount
  BY <1>2 DEF transfer, client
<1>4. wire = "none"
  BY <1>1 DEF Line
<1>5. data = NoData /\ host.status \cap {"ReadReady", "WriteReady"} = {} /\ op = NoOp /\ got = << >>
  BY <1>1 DEF Dat, InitSites
<1>6. Types'
  BY <1>1, <1>2, <1>3 DEF Types, Sites, InitSites
<1>7. Line'
  BY <1>1, <1>2, <1>4 DEF Line
<1>8. Dat'
  BY <1>1, <1>2, <1>3, <1>4, <1>5 DEF Dat, InitSites
<1>9. Buffer'
  BY <1>1, <1>2, <1>5 DEF Buffer
<1>10. Locals'
  BY DEF Cmd0Done, Locals, Success, Failure, Continue, transfer, globals, Waiting,
         Failing, Goto, locals, client
<1>11. Steps'
  BY DEF Cmd0Done, Steps, Success, Failure, Continue, transfer, globals, Waiting,
         Failing, Goto, client
<1>12. Blocks'
  BY DEF Cmd0Done, Blocks, Success, Failure, Continue, transfer, globals, Answered,
         Waiting, Failing, Goto, client
<1>13. Selection'
  BY DEF Cmd0Done, Selection, Success, Failure, Continue, transfer, globals, Chosen,
         Answered, Waiting, Failing, Goto, client
<1>14. QED
  BY <1>6, <1>7, <1>8, <1>9, <1>10, <1>11, <1>12, <1>13

\* No answer to CMD8: a legacy card.
LEMMA Cmd8TimeoutKeeps ==
  ASSUME IInv, Cmd8Timeout
  PROVE  IInv'
<1> USE DEF IInv
<1>1. host' \in Hosts
  BY Failed DEF Cmd8Timeout, Types
<1>2. Types'
  BY <1>1 DEF Types, Cmd8Timeout, Goto, transfer, client, Sites, InitSites
<1>3. Locals'
  BY DEF Cmd8Timeout, Locals, transfer, globals, client
<1>4. Steps'
  BY DEF Cmd8Timeout, Steps, Failure, Goto, transfer, globals, client, Failing, Waiting
<1>5. Line'
  BY DEF Cmd8Timeout, Line, Failure, CommandStatus, Goto, transfer, globals, client,
         Failing, _sdio_reset_cmd_line, Waiting
<1>6. Dat'
  BY DEF Cmd8Timeout, Dat, Failure, CommandStatus, Goto, transfer, globals, client,
         NoData, InitSites, Busy, NoOp, Failing, _sdio_reset_cmd_line, Waiting
<1>7. Buffer'
  BY DEF Cmd8Timeout, Buffer, Failure, CommandStatus, Goto, transfer, globals, client,
         NoData, Failing, _sdio_reset_cmd_line, Waiting
<1>8. Blocks'
  BY DEF Cmd8Timeout, Blocks, Failure, Goto, transfer, globals, client, Answered,
         Failing, Waiting
<1>9. Selection'
  BY DEF Cmd8Timeout, Selection, Failure, Goto, transfer, globals, client, Chosen,
         Answered, Failing, Waiting
<1>10. QED
  BY <1>2, <1>3, <1>4, <1>5, <1>6, <1>7, <1>8, <1>9

\* A broken answer to CMD8: the clock again, and from the start, or the end.
LEMMA Cmd8BrokenKeeps ==
  ASSUME IInv, Cmd8Broken
  PROVE  IInv'
<1> USE DEF IInv
<1>1. PICK o \in ClockInit :
        /\ _sdio_clock_init(o)
        /\ \/ /\ attempt' = 1 /\ at' = "cmd0" /\ step' = "inhibit"
              /\ UNCHANGED <<f8, poll, resp, elapsed, client>>
           \/ Return(FALSE)
  BY DEF Cmd8Broken, Goto
<1>2. op' = op /\ done' = done /\ rca' = rca /\ ccs' = ccs
  BY DEF Cmd8Broken, transfer
<1>3. /\ host' \in Hosts /\ host'.errors = {} /\ host'.status = {}
      /\ card_inserted' \in 0..1 /\ wire' = "none" /\ data' = NoData
      /\ card' \in Cards /\ card'.in = card.in
  BY <1>1, Clocked DEF Types, Locals
<1>4. /\ step' = "inhibit" /\ attempt' \in 0..1 /\ f8' \in 0..1 /\ resp' \in Ocrs
      /\ poll' \in {"none", "v1", "first", "retry"}
      /\ init_status' \in {"noinit", "nodisk", "ready"} /\ mount' \in {"no", "mounting", "yes"}
      /\ same' \in BOOLEAN /\ lastOk' \in BOOLEAN
      /\ \/ at' = "cmd0" /\ same' = same
         \/ at' = "idle" /\ mount' = "no" /\ (same' => same)
  <2>1. CASE Return(FALSE)
    <3>1. /\ at' = "idle" /\ step' = "inhibit" /\ attempt' = 0 /\ f8' = 1 /\ poll' = "none"
          /\ resp' \in Ocrs /\ same' \in BOOLEAN /\ lastOk' \in BOOLEAN /\ (same' => same)
      BY <2>1, Returned DEF Types
    <3>2. mount' = "no" /\ init_status' \in {"noinit", "nodisk", "ready"}
      BY <2>1 DEF Return
    <3>3. QED
      BY <3>1, <3>2
  <2>2. CASE /\ attempt' = 1 /\ at' = "cmd0" /\ step' = "inhibit"
             /\ UNCHANGED <<f8, poll, resp, elapsed, client>>
    BY <2>2 DEF Types, Locals, client
  <2>3. QED
    BY <1>1, <2>1, <2>2
<1>5. Types'
  <2>1. at' \in Sites \cup {"idle"}
    BY <1>4 DEF Sites, InitSites
  <2>2. QED
    BY <1>2, <1>3, <1>4, <2>1, Transfers0 DEF Types
<1>6. Locals'
  BY <1>2, <1>3, <1>4 DEF Locals
<1>7. Selection'
  BY <1>3, <1>4 DEF Selection
<1>8. Steps'
  BY DEF Cmd8Broken, Steps, Failing, _sdio_clock_init, Goto, client, Return, transfer,
         Waiting
<1>9. Line'
  BY DEF Cmd8Broken, Line, Failing, CommandStatus, ClockInit, _sdio_clock_init, Goto,
         client, Return, transfer, Waiting, ResetRegisters, Registers, NoData,
         IdleCard, NoOcr, NoResponse
<1>10. Dat'
  BY DEF Cmd8Broken, Dat, Failing, CommandStatus, ClockInit, _sdio_clock_init, Goto,
         client, Return, transfer, NoData, InitSites, Busy, NoOp, Waiting,
         ResetRegisters, Registers, IdleCard, NoOcr, NoResponse
<1>11. Buffer'
  BY DEF Cmd8Broken, Buffer, Failing, CommandStatus, ClockInit, _sdio_clock_init, Goto,
         client, Return, transfer, NoData, Waiting, ResetRegisters, Registers,
         IdleCard, NoOcr, NoResponse
<1>12. Blocks'
  BY DEF Cmd8Broken, Blocks, Failing, _sdio_clock_init, Goto, client, Return, transfer,
         Answered, Waiting
<1>13. QED
  BY <1>5, <1>6, <1>7, <1>8, <1>9, <1>10, <1>11, <1>12

\* CMD8 answered.
LEMMA Cmd8AnsweredKeeps ==
  ASSUME IInv, Cmd8Answered
  PROVE  IInv'
<1> USE DEF IInv
<1>1. /\ at = "cmd8" /\ host' \in Hosts
      /\ UNCHANGED <<card, wire, data, transfer, globals>>
  BY Succeeded DEF Cmd8Answered, Types
<1>2. op' = op /\ done' = done /\ rca' = rca /\ ccs' = ccs /\ card_inserted' = card_inserted
  BY <1>1 DEF transfer, globals
<1>3. Continue("inq55") \/ Return(FALSE)
  BY DEF Cmd8Answered
<1>4. Types'
  <2>1. CASE Continue("inq55")
    BY <1>1, <1>2, <2>1 DEF Types, Continue, Goto, client, Sites, InitSites
  <2>2. CASE Return(FALSE)
    <3>1. at' = "idle" /\ step' = "inhibit" /\ same' \in BOOLEAN /\ lastOk' \in BOOLEAN
      BY <2>2, Returned DEF Types
    <3>2. QED
      BY <1>1, <1>2, <3>1 DEF Types
  <2>3. QED
    BY <1>3, <2>1, <2>2
<1>5. Locals'
  <2>1. CASE Continue("inq55")
    BY <1>2, <2>1 DEF Locals, Continue, locals, client
  <2>2. CASE Return(FALSE)
    <3>1. /\ attempt' = 0 /\ f8' = 1 /\ poll' = "none" /\ resp' \in Ocrs
          /\ init_status' \in {"noinit", "nodisk", "ready"} /\ mount' \in {"no", "mounting"}
      BY <2>2, Returned DEF Types
    <3>2. QED
      BY <1>2, <3>1 DEF Locals
  <2>3. QED
    BY <1>3, <2>1, <2>2
<1>6. Steps'
  BY DEF Cmd8Answered, Steps, Success, transfer, globals, Continue, Return, Waiting,
         Goto, client
<1>7. Line'
  BY DEF Cmd8Answered, Line, Success, transfer, globals, Continue, Return, Waiting,
         Goto, client
<1>8. Dat'
  BY DEF Cmd8Answered, Dat, Success, transfer, globals, Continue, Return, NoData,
         InitSites, Busy, NoOp, Waiting, Goto, client, NoOcr
<1>9. Buffer'
  BY DEF Cmd8Answered, Buffer, Success, transfer, globals, Continue, Return, Waiting,
         Goto, client
<1>10. Blocks'
  BY DEF Cmd8Answered, Blocks, Success, transfer, globals, Continue, Return, Answered,
         Waiting, Goto, client
<1>11. Selection'
  BY DEF Cmd8Answered, Selection, Success, transfer, globals, Continue, Return, Chosen,
         Answered, Waiting, Goto, client
<1>12. QED
  BY <1>4, <1>5, <1>6, <1>7, <1>8, <1>9, <1>10, <1>11

\* CMD55 of the inquiry answered.
LEMMA Inquiry55Keeps ==
  ASSUME IInv, Inquiry55
  PROVE  IInv'
<1> USE DEF IInv
<1>1. Types'
  BY DEF Inquiry55, Types, Success, Continue, FirstPoll, transfer, globals, Hosts,
         Sites, Waiting, Goto, client, StartPoll, InitSites
<1>2. Locals'
  BY DEF Inquiry55, Locals, Success, Continue, FirstPoll, transfer, globals, Waiting,
         Goto, locals, client, StartPoll
<1>3. Steps'
  BY DEF Inquiry55, Steps, Success, Continue, FirstPoll, transfer, globals, Waiting,
         Goto, client, StartPoll
<1>4. Line'
  BY DEF Inquiry55, Line, Success, Continue, FirstPoll, transfer, globals, Waiting,
         Goto, client, StartPoll
<1>5. Dat'
  BY DEF Inquiry55, Dat, Success, Continue, FirstPoll, transfer, globals, NoData,
         InitSites, Busy, NoOp, Waiting, Goto, client, StartPoll
<1>6. Buffer'
  BY DEF Inquiry55, Buffer, Success, Continue, FirstPoll, transfer, globals, Waiting,
         Goto, client, StartPoll
<1>7. Blocks'
  BY DEF Inquiry55, Blocks, Success, Continue, FirstPoll, transfer, globals, Answered,
         Waiting, Goto, client, StartPoll
<1>8. Selection'
  BY DEF Inquiry55, Selection, Success, Continue, FirstPoll, transfer, globals, Chosen,
         Answered, Waiting, Goto, client, StartPoll
<1>9. QED
  BY <1>1, <1>2, <1>3, <1>4, <1>5, <1>6, <1>7, <1>8

\* The inquiry ACMD41 answered.
LEMMA Inquiry41Keeps ==
  ASSUME IInv, Inquiry41
  PROVE  IInv'
<1> USE DEF IInv
<1>1. Types'
  BY DEF Inquiry41, Types, Success, FirstPoll, transfer, globals, Hosts, Sites,
         Waiting, StartPoll, InitSites, client
<1>2. Locals'
  BY DEF Inquiry41, Locals, Types, Success, FirstPoll, transfer, globals, Hosts,
         Waiting, StartPoll, Responses, client
<1>3. Steps'
  BY DEF Inquiry41, Steps, Success, FirstPoll, transfer, globals, Waiting, StartPoll,
         client
<1>4. Line'
  BY DEF Inquiry41, Line, Success, FirstPoll, transfer, globals, Waiting, StartPoll,
         client
<1>5. Dat'
  BY DEF Inquiry41, Dat, Success, FirstPoll, transfer, globals, NoData, InitSites,
         Busy, NoOp, Waiting, StartPoll, client
<1>6. Buffer'
  BY DEF Inquiry41, Buffer, Success, FirstPoll, transfer, globals, Waiting, StartPoll,
         client
<1>7. Blocks'
  BY DEF Inquiry41, Blocks, Success, FirstPoll, transfer, globals, Answered, Waiting,
         StartPoll, client
<1>8. Selection'
  BY DEF Inquiry41, Selection, Success, FirstPoll, transfer, globals, Chosen, Answered,
         Waiting, StartPoll, client
<1>9. QED
  BY <1>1, <1>2, <1>3, <1>4, <1>5, <1>6, <1>7, <1>8

\* Another round of the poll.
LEMMA PollOnceKeeps ==
  ASSUME IInv, PollOnce
  PROVE  IInv'
<1> USE DEF IInv
<1>1. Types'
  BY DEF PollOnce, Types, hardware, transfer, globals, client
<1>2. Locals'
  BY DEF PollOnce, Locals, hardware, locals, transfer, globals, client
<1>3. Steps'
  BY DEF PollOnce, Steps, hardware, transfer, globals, client
<1>4. Line'
  BY DEF PollOnce, Line, hardware, transfer, globals, client
<1>5. Dat'
  BY DEF PollOnce, Dat, hardware, transfer, globals, client
<1>6. Buffer'
  BY DEF PollOnce, Buffer, hardware, transfer, globals, client
<1>7. Blocks'
  BY DEF PollOnce, Blocks, hardware, transfer, globals, client
<1>8. Selection'
  BY DEF PollOnce, Selection, hardware, transfer, globals, client
<1>9. QED
  BY <1>1, <1>2, <1>3, <1>4, <1>5, <1>6, <1>7, <1>8

\* The poll's second is over.
LEMMA PollTimeoutKeeps ==
  ASSUME IInv, PollTimeout
  PROVE  IInv'
<1> USE DEF IInv
<1>1. Return(FALSE) /\ UNCHANGED <<hardware, transfer, globals>>
  BY DEF PollTimeout
<1>2. at' = "idle" /\ step' = "inhibit" /\ same' \in BOOLEAN /\ lastOk' \in BOOLEAN
  BY <1>1, Returned DEF Types
<1>3. Types'
  BY <1>1, <1>2 DEF Types, hardware, transfer
<1>4. Locals'
  BY DEF PollTimeout, Locals, hardware, transfer, globals, Return, Ocrs, Goto, NoOcr
<1>5. Steps'
  BY DEF PollTimeout, Steps, hardware, transfer, globals, Return, Goto
<1>6. Line'
  BY DEF PollTimeout, Line, hardware, transfer, globals, Return, Goto
<1>7. Dat'
  BY DEF PollTimeout, Dat, hardware, transfer, globals, Return, NoData, InitSites,
         Busy, NoOp, Goto, NoOcr
<1>8. Buffer'
  BY DEF PollTimeout, Buffer, hardware, transfer, globals
<1>9. Blocks'
  BY DEF PollTimeout, Blocks, hardware, transfer, globals, Return, Answered, Goto
<1>10. Selection'
  BY DEF PollTimeout, Selection, hardware, transfer, globals, Return, Chosen, Answered,
         Goto
<1>11. QED
  BY <1>3, <1>4, <1>5, <1>6, <1>7, <1>8, <1>9, <1>10

\* A second passes.
LEMMA SecondElapsesKeeps ==
  ASSUME IInv, SecondElapses
  PROVE  IInv'
<1> USE DEF IInv
<1>1. Types'
  BY DEF SecondElapses, Types, hardware, transfer, globals, client
<1>2. Locals'
  BY DEF SecondElapses, Locals, hardware, transfer, globals, client
<1>3. Steps'
  BY DEF SecondElapses, Steps, hardware, transfer, globals, client
<1>4. Line'
  BY DEF SecondElapses, Line, hardware, transfer, globals, client
<1>5. Dat'
  BY DEF SecondElapses, Dat, hardware, transfer, globals, client
<1>6. Buffer'
  BY DEF SecondElapses, Buffer, hardware, transfer, globals, client
<1>7. Blocks'
  BY DEF SecondElapses, Blocks, hardware, transfer, globals, client
<1>8. Selection'
  BY DEF SecondElapses, Selection, hardware, transfer, globals, client
<1>9. QED
  BY <1>1, <1>2, <1>3, <1>4, <1>5, <1>6, <1>7, <1>8

\* CMD55 of the poll answered.
LEMMA Poll55Keeps ==
  ASSUME IInv, Poll55
  PROVE  IInv'
<1> USE DEF IInv
<1>1. Types'
  BY DEF Poll55, Types, Success, Goto, Polled, transfer, client, Hosts, Sites, Waiting,
         InitSites
<1>2. Locals'
  BY DEF Poll55, Locals, Success, Goto, Polled, transfer, client, Waiting
<1>3. Steps'
  BY DEF Poll55, Steps, Success, Goto, Polled, transfer, client, Waiting
<1>4. Line'
  BY DEF Poll55, Line, Success, Goto, Polled, transfer, client, Waiting
<1>5. Dat'
  BY DEF Poll55, Dat, Success, Goto, Polled, transfer, client, NoData, InitSites, Busy,
         NoOp, Waiting
<1>6. Buffer'
  BY DEF Poll55, Buffer, Success, Goto, Polled, transfer, client, Waiting
<1>7. Blocks'
  BY DEF Poll55, Blocks, Success, Goto, Polled, transfer, client, Answered, Waiting
<1>8. Selection'
  BY DEF Poll55, Selection, Success, Goto, Polled, transfer, client, Chosen, Answered,
         Waiting
<1>9. QED
  BY <1>1, <1>2, <1>3, <1>4, <1>5, <1>6, <1>7, <1>8

\* ACMD41 of the poll answered: ready, or not yet.
LEMMA Poll41Keeps ==
  ASSUME IInv, Poll41
  PROVE  IInv'
<1> USE DEF IInv
<1>1. Types'
  BY DEF Poll41, Types, Success, Polled, transfer, client, Hosts, Sites, Waiting, Goto,
         InitSites
<1>2. Locals'
  BY DEF Poll41, Locals, Types, Success, Polled, transfer, client, Hosts, Waiting,
         Goto, Responses
<1>3. Steps'
  BY DEF Poll41, Steps, Success, Polled, transfer, client, Waiting, Goto
<1>4. Line'
  BY DEF Poll41, Line, Success, Polled, transfer, client, Waiting, Goto
<1>5. Dat'
  BY DEF Poll41, Dat, Success, Polled, transfer, client, NoData, InitSites, Busy, NoOp,
         Waiting, Goto
<1>6. Buffer'
  BY DEF Poll41, Buffer, Success, Polled, transfer, client, Waiting, Goto
<1>7. Blocks'
  BY DEF Poll41, Blocks, Success, Polled, transfer, client, Answered, Waiting, Goto
<1>8. Selection'
  BY DEF Poll41, Selection, Success, Polled, transfer, client, Chosen, Answered,
         Waiting, Goto
<1>9. QED
  BY <1>1, <1>2, <1>3, <1>4, <1>5, <1>6, <1>7, <1>8

\* CMD11 failed: poll again without S18R.
LEMMA SwitchRefusedKeeps ==
  ASSUME IInv, SwitchRefused
  PROVE  IInv'
<1> USE DEF IInv
<1>1. host' \in Hosts
  BY Failed DEF SwitchRefused, Types
<1>2. Types'
  BY <1>1 DEF Types, SwitchRefused, StartPoll, transfer, client, Sites, InitSites
<1>3. Locals'
  BY DEF SwitchRefused, Locals, Failure, StartPoll, transfer, globals, Failing, client,
         Waiting
<1>4. Steps'
  BY DEF SwitchRefused, Steps, Failure, StartPoll, transfer, globals, Failing, client,
         Waiting
<1>5. Line'
  BY DEF SwitchRefused, Line, Failure, StartPoll, transfer, globals, Failing,
         _sdio_reset_cmd_line, client, Waiting
<1>6. Dat'
  BY DEF SwitchRefused, Dat, Failure, StartPoll, transfer, globals, NoData, InitSites,
         Busy, NoOp, Failing, _sdio_reset_cmd_line, client, Waiting
<1>7. Buffer'
  BY DEF SwitchRefused, Buffer, Failure, StartPoll, transfer, globals, NoData, Failing,
         _sdio_reset_cmd_line, client, Waiting
<1>8. Blocks'
  BY DEF SwitchRefused, Blocks, Failure, StartPoll, transfer, globals, Answered,
         Failing, client, Waiting
<1>9. Selection'
  BY DEF SwitchRefused, Selection, Failure, StartPoll, transfer, globals, Chosen,
         Answered, Failing, client, Waiting
<1>10. QED
  BY <1>2, <1>3, <1>4, <1>5, <1>6, <1>7, <1>8, <1>9

\* The DAT levels or the 1.8V enable are not as they should be.
LEMMA SwitchFailsKeeps ==
  ASSUME IInv, SwitchFails
  PROVE  IInv'
<1> USE DEF IInv
<1>1. PICK clocked \in BOOLEAN :
        host' = [host EXCEPT !.status = @ \ {"CommandComplete"}, !.intclk = clocked]
  BY DEF SwitchFails
<1>2. host' \in Hosts
  BY <1>1 DEF Types, Hosts
<1>3. Types'
  BY <1>2 DEF Types, SwitchFails, StartPoll, transfer, client, Sites, InitSites
<1>4. Locals'
  BY DEF SwitchFails, Locals, Waiting, StartPoll, transfer, globals, client
<1>5. Steps'
  BY DEF SwitchFails, Steps, Waiting, StartPoll, transfer, globals, client
<1>6. Line'
  BY DEF SwitchFails, Line, Waiting, StartPoll, transfer, globals, client
<1>7. Dat'
  BY DEF SwitchFails, Dat, Waiting, StartPoll, transfer, globals, NoData, InitSites,
         Busy, NoOp, client
<1>8. Buffer'
  BY DEF SwitchFails, Buffer, transfer, globals, client
<1>9. Blocks'
  BY DEF SwitchFails, Blocks, Waiting, StartPoll, transfer, globals, Answered, client
<1>10. Selection'
  BY DEF SwitchFails, Selection, Waiting, StartPoll, transfer, globals, Chosen,
         Answered, client
<1>11. QED
  BY <1>3, <1>4, <1>5, <1>6, <1>7, <1>8, <1>9, <1>10

\* The voltage switch worked.
LEMMA SwitchSucceedsKeeps ==
  ASSUME IInv, SwitchSucceeds
  PROVE  IInv'
<1> USE DEF IInv
<1>1. Types'
  BY DEF SwitchSucceeds, Types, Success, Continue, transfer, Hosts, Sites, Waiting,
         Goto, client, InitSites
<1>2. Locals'
  BY DEF SwitchSucceeds, Locals, Success, Continue, transfer, Waiting, Goto, locals,
         client
<1>3. Steps'
  BY DEF SwitchSucceeds, Steps, Success, Continue, transfer, Waiting, Goto, client
<1>4. Line'
  BY DEF SwitchSucceeds, Line, Success, Continue, transfer, Waiting, Goto, client
<1>5. Dat'
  BY DEF SwitchSucceeds, Dat, Success, Continue, transfer, NoData, InitSites, Busy,
         NoOp, Waiting, Goto, client
<1>6. Buffer'
  BY DEF SwitchSucceeds, Buffer, Success, Continue, transfer, Waiting, Goto, client
<1>7. Blocks'
  BY DEF SwitchSucceeds, Blocks, Success, Continue, transfer, Answered, Waiting, Goto,
         client
<1>8. Selection'
  BY DEF SwitchSucceeds, Selection, Success, Continue, transfer, Chosen, Answered,
         Waiting, Goto, client
<1>9. QED
  BY <1>1, <1>2, <1>3, <1>4, <1>5, <1>6, <1>7, <1>8

\* The errors of the other commands end sdio_init.
LEMMA IdentificationFailsKeeps ==
  ASSUME IInv, IdentificationFails
  PROVE  IInv'
<1> USE DEF IInv
<1>1. host' \in Hosts
  BY Failed DEF IdentificationFails, Types
<1>2. Return(FALSE) /\ UNCHANGED <<card, wire, data, transfer, globals>>
  BY DEF IdentificationFails
<1>3. at' = "idle" /\ step' = "inhibit" /\ same' \in BOOLEAN /\ lastOk' \in BOOLEAN
  BY <1>2, Returned DEF Types
<1>4. Types'
  BY <1>1, <1>2, <1>3 DEF Types, transfer
<1>5. Locals'
  BY DEF IdentificationFails, Locals, Failure, transfer, globals, Return, Ocrs,
         Failing, _sdio_reset_cmd_line, Goto, NoOcr, Waiting
<1>6. Steps'
  BY DEF IdentificationFails, Steps, Failure, transfer, globals, Return, Failing, Goto,
         Waiting
<1>7. Line'
  BY DEF IdentificationFails, Line, Failure, transfer, globals, Return, Failing, Goto,
         Waiting
<1>8. Dat'
  BY DEF IdentificationFails, Dat, InitSites, Failure, transfer, globals, Return,
         NoData, Busy, NoOp, Failing, _sdio_reset_cmd_line, Goto, NoOcr, Waiting
<1>9. Buffer'
  BY DEF IdentificationFails, Buffer, Failure, transfer, globals, Return, NoData,
         Failing, _sdio_reset_cmd_line, Goto, NoOcr, Waiting
<1>10. Blocks'
  BY DEF IdentificationFails, Blocks, Failure, transfer, globals, Return, Answered,
         Failing, Goto, Waiting
<1>11. Selection'
  BY DEF IdentificationFails, Selection, Failure, transfer, globals, Return, Chosen,
         Answered, Failing, Goto, Waiting
<1>12. QED
  BY <1>4, <1>5, <1>6, <1>7, <1>8, <1>9, <1>10, <1>11

\* CMD2 answered.
LEMMA Sdio_read_cidKeeps ==
  ASSUME IInv, _sdio_read_cid
  PROVE  IInv'
<1> USE DEF IInv
<1>1. Types'
  BY DEF _sdio_read_cid, Types, Success, Continue, transfer, globals, Hosts, Sites,
         Waiting, Goto, client, InitSites
<1>2. Locals'
  BY DEF _sdio_read_cid, Locals, Success, Continue, transfer, globals, Waiting, Goto,
         locals, client
<1>3. Steps'
  BY DEF _sdio_read_cid, Steps, Success, Continue, transfer, globals, Waiting, Goto,
         client
<1>4. Line'
  BY DEF _sdio_read_cid, Line, Success, Continue, transfer, globals, Waiting, Goto,
         client
<1>5. Dat'
  BY DEF _sdio_read_cid, Dat, Success, Continue, transfer, globals, NoData, InitSites,
         Busy, NoOp, Waiting, Goto, client
<1>6. Buffer'
  BY DEF _sdio_read_cid, Buffer, Success, Continue, transfer, globals, Waiting, Goto,
         client
<1>7. Blocks'
  BY DEF _sdio_read_cid, Blocks, Success, Continue, transfer, globals, Answered,
         Waiting, Goto, client
<1>8. Selection'
  BY DEF _sdio_read_cid, Selection, Success, Continue, transfer, globals, Chosen,
         Answered, Waiting, Goto, client
<1>9. QED
  BY <1>1, <1>2, <1>3, <1>4, <1>5, <1>6, <1>7, <1>8

\* CMD3 answered: the driver takes the address.
LEMMA RcaPublishedKeeps ==
  ASSUME IInv, RcaPublished
  PROVE  IInv'
<1> USE DEF IInv
<1>1. Types'
  BY DEF RcaPublished, Types, Success, Continue, transfer, Hosts, Sites, Waiting, Goto,
         client, InitSites
<1>2. Locals'
  BY DEF RcaPublished, Locals, Types, Success, Continue, transfer, Hosts, Waiting,
         Goto, locals, client, Responses
<1>3. Steps'
  BY DEF RcaPublished, Steps, Success, Continue, transfer, Waiting, Goto, client
<1>4. Line'
  BY DEF RcaPublished, Line, Success, Continue, transfer, Waiting, Goto, client
<1>5. Dat'
  BY DEF RcaPublished, Dat, Success, Continue, transfer, NoData, InitSites, Busy, NoOp,
         Waiting, Goto, client
<1>6. Buffer'
  BY DEF RcaPublished, Buffer, Success, Continue, transfer, Waiting, Goto, client
<1>7. Blocks'
  BY DEF RcaPublished, Blocks, Success, Continue, transfer, Answered, Waiting, Goto,
         client
<1>8. Selection'
  BY DEF RcaPublished, Selection, Success, Continue, transfer, Chosen, Answered,
         Waiting, Goto, client
<1>9. QED
  BY <1>1, <1>2, <1>3, <1>4, <1>5, <1>6, <1>7, <1>8

\* CMD7 answered: the card is selected.
LEMMA CardSelectedKeeps ==
  ASSUME IInv, CardSelected
  PROVE  IInv'
<1> USE DEF IInv
<1>1. Types'
  BY DEF CardSelected, Types, Success, Continue, transfer, globals, Hosts, Sites,
         Waiting, Goto, client, InitSites
<1>2. Locals'
  BY DEF CardSelected, Locals, Success, Continue, transfer, globals, Waiting, Goto,
         locals, client
<1>3. Steps'
  BY DEF CardSelected, Steps, Success, Continue, transfer, globals, Waiting, Goto,
         client
<1>4. Line'
  BY DEF CardSelected, Line, Success, Continue, transfer, globals, Waiting, Goto, client
<1>5. Dat'
  BY DEF CardSelected, Dat, Success, Continue, transfer, globals, NoData, InitSites,
         Busy, NoOp, Waiting, Goto, client
<1>6. Buffer'
  BY DEF CardSelected, Buffer, Success, Continue, transfer, globals, Waiting, Goto,
         client
<1>7. Blocks'
  BY DEF CardSelected, Blocks, Success, Continue, transfer, globals, Answered, Waiting,
         Goto, client
<1>8. Selection'
  BY DEF CardSelected, Selection, Success, Continue, transfer, globals, Chosen,
         Answered, Waiting, Goto, client
<1>9. QED
  BY <1>1, <1>2, <1>3, <1>4, <1>5, <1>6, <1>7, <1>8

\* CMD16 answered: sdio_init returns true.
LEMMA InitializedKeeps ==
  ASSUME IInv, Initialized
  PROVE  IInv'
<1> USE DEF IInv
<1>1. Types'
  BY DEF Initialized, Types, Success, transfer, globals, Return, Hosts, Waiting, Goto,
         NoOcr
<1>2. Locals'
  BY DEF Initialized, Locals, Success, transfer, globals, Return, Ocrs, Waiting, Goto,
         NoOcr
<1>3. Steps'
  BY DEF Initialized, Steps, Success, transfer, globals, Return, Waiting, Goto
<1>4. Line'
  BY DEF Initialized, Line, Success, transfer, globals, Return, Waiting, Goto
<1>5. Dat'
  BY DEF Initialized, Dat, Success, transfer, globals, Return, NoData, InitSites, Busy,
         NoOp, Waiting, Goto, NoOcr
<1>6. Buffer'
  BY DEF Initialized, Buffer, Success, transfer, globals, Return, Waiting, Goto
<1>7. Blocks'
  BY DEF Initialized, Types, Steps, Line, Dat, Blocks, Success, transfer, globals,
         Return, NoData, InitSites, Busy, NoOp, Answered, Waiting, Goto, NoOcr
<1>8. Selection'
  BY DEF Initialized, Selection, Success, transfer, globals, Return, Chosen, Answered,
         Waiting, Goto
<1>9. QED
  BY <1>1, <1>2, <1>3, <1>4, <1>5, <1>6, <1>7, <1>8

-----------------------------------------------------------------------------
(* The transfers, and the calls that start both *)

\* The data command goes on the wire only when both lines are free, so nothing of
\* an earlier transfer is left.
LEMMA IssueDataKeeps ==
  ASSUME IInv, IssueData
  PROVE  IInv'
<1> USE DEF IInv
<1>1. Types'
  BY DEF IssueData, Types, transfer, globals, client, Hosts
<1>2. Locals'
  BY DEF IssueData, Locals, locals, transfer, globals, client
<1>3. Steps'
  BY DEF IssueData, Steps, transfer, globals, client
<1>4. Line'
  BY DEF IssueData, Types, Steps, Line, Dat, transfer, globals, client, NoData, Busy,
         NoOp
<1>5. Dat'
  BY DEF IssueData, Dat, transfer, globals, client
<1>6. Buffer'
  BY DEF IssueData, Buffer, transfer, globals, client
<1>7. Blocks'
  BY DEF IssueData, Types, Steps, Line, Blocks, transfer, globals, client, Answered,
         NoData
<1>8. Selection'
  BY DEF IssueData, Types, Steps, Line, Selection, transfer, globals, client, Chosen,
         NoData, Busy, Answered
<1>9. QED
  BY <1>1, <1>2, <1>3, <1>4, <1>5, <1>6, <1>7, <1>8

\* The data command failed.
LEMMA DataCommandFailsKeeps ==
  ASSUME IInv, DataCommandFails
  PROVE  IInv'
<1> USE DEF IInv
<1>1. Types'
  BY DEF DataCommandFails, Types, Steps, Line, Failure, TransferReturns, transfer,
         globals, Hosts, Failing, _sdio_reset_cmd_line, Goto, StatusBits, Errors,
         Responses, Waiting, Ocrs
<1>2. Locals'
  BY DEF DataCommandFails, Locals, Failure, TransferReturns, locals, transfer, globals,
         Failing, Goto, Waiting
<1>3. Steps'
  BY DEF DataCommandFails, Steps, Failure, TransferReturns, transfer, globals, Failing,
         Goto, Waiting
<1>4. Line'
  BY DEF DataCommandFails, Line, Failure, TransferReturns, transfer, globals, Failing,
         _sdio_reset_cmd_line, Goto, Waiting
<1>5. Dat'
  BY DEF DataCommandFails, Dat, Failure, TransferReturns, transfer, globals, NoData,
         InitSites, Busy, NoOp, Failing, _sdio_reset_cmd_line, Goto, Waiting
<1>6. Buffer'
  BY DEF DataCommandFails, Buffer, Failure, TransferReturns, transfer, globals, NoData,
         Failing, _sdio_reset_cmd_line, Goto, Waiting
<1>7. Blocks'
  BY DEF DataCommandFails, Blocks, Failure, TransferReturns, transfer, globals,
         Answered, Failing, Goto, Waiting
<1>8. Selection'
  BY DEF DataCommandFails, Selection, Failure, TransferReturns, transfer, globals,
         Chosen, Answered, Failing, Goto, Waiting
<1>9. QED
  BY <1>1, <1>2, <1>3, <1>4, <1>5, <1>6, <1>7, <1>8

\* The data command was answered.
LEMMA DataCommandAnsweredKeeps ==
  ASSUME IInv, DataCommandAnswered
  PROVE  IInv'
<1> USE DEF IInv
<1>1. Types'
  BY DEF DataCommandAnswered, Types, Success, transfer, globals, client, Hosts, Waiting
<1>2. Locals'
  BY DEF DataCommandAnswered, Locals, locals, transfer, globals, client
<1>3. Steps'
  BY DEF DataCommandAnswered, Steps, Success, transfer, globals, client, Waiting
<1>4. Line'
  BY DEF DataCommandAnswered, Line, Success, transfer, globals, client, Waiting
<1>5. Dat'
  BY DEF DataCommandAnswered, Dat, Success, transfer, globals, client, NoOp, Waiting
<1>6. Buffer'
  BY DEF DataCommandAnswered, Buffer, Success, transfer, globals, client, Waiting
<1>7. Blocks'
  BY DEF DataCommandAnswered, Blocks, Types, Success, transfer, globals, client,
         Answered, NoData, Ops, Waiting
<1>8. Selection'
  BY DEF DataCommandAnswered, Selection, Success, transfer, globals, client, Chosen,
         Answered, Waiting
<1>9. QED
  BY <1>1, <1>2, <1>3, <1>4, <1>5, <1>6, <1>7, <1>8

\* The driver moves a block when its ready bit is set: in a read the next one.
LEMMA MoveBlockKeeps ==
  ASSUME IInv, MoveBlock
  PROVE  IInv'
<1> USE DEF IInv
<1>1. /\ at = "data" /\ step = "buffer" /\ host.errors = {} /\ ReadyBit \in host.status
      /\ host' = [host EXCEPT !.status = @ \ {ReadyBit}]
      /\ got' = IF ~op.read THEN got ELSE Append(got, IF data.full THEN data.sent ELSE 0)
      /\ data' = [data EXCEPT !.full = ~op.read]
      /\ done' = done + 1
      /\ step' = IF done + 1 = op.count THEN "finish" ELSE "buffer"
      /\ UNCHANGED <<card, wire, at, locals, op, globals, client>>
  BY DEF MoveBlock
<1>2. /\ op' = op /\ at' = at /\ wire' = wire /\ card' = card /\ same' = same /\ lastOk' = lastOk
      /\ mount' = mount /\ rca' = rca
  BY <1>1 DEF client, globals
<1>3. /\ host' \in Hosts /\ host'.status = host.status \ {ReadyBit} /\ host'.errors = {}
      /\ host'.inhibit = host.inhibit /\ host'.sdclk = host.sdclk /\ host'.enabled = host.enabled
      /\ host'.response = host.response
  <2> HIDE DEF ReadyBit
  <2> DEFINE h == [host EXCEPT !.status = @ \ {ReadyBit}]
  <2>1. /\ h \in Hosts /\ h.status = host.status \ {ReadyBit} /\ h.errors = host.errors
        /\ h.inhibit = host.inhibit /\ h.sdclk = host.sdclk /\ h.enabled = host.enabled
        /\ h.response = host.response
    BY DEF Types, Hosts
  <2>2. host' = h
    BY <1>1
  <2> HIDE DEF h
  <2>3. QED
    BY <1>1, <2>1, <2>2
<1>4. /\ done \in Nat /\ op.count \in 0..MaxBlocks /\ done < op.count
      /\ op.read \in BOOLEAN
  BY <1>1 DEF Types, Ops, Blocks
<1>5. data # NoData /\ data.read = op.read /\ data.count = op.count
      /\ IF ~data.full THEN data.sent = done
         ELSE IF op.read THEN data.sent = done + 1 ELSE data.sent + 1 = done
  BY <1>1, <1>4 DEF Blocks, Answered
<1>6. data.full = op.read
  BY <1>1, <1>5 DEF Buffer, ReadyBit, Types, Transfers
<1>7. /\ data' \in Transfers /\ data'.read = op.read /\ data'.count = op.count
      /\ data'.sent = data.sent /\ data'.full = ~op.read
  <2> DEFINE d == [data EXCEPT !.full = ~op.read]
  <2>1. /\ d \in Transfers /\ d.read = data.read /\ d.count = data.count
        /\ d.sent = data.sent /\ d.full = ~op.read
    BY <1>4, Filled DEF Types
  <2>2. data' = d
    BY <1>1
  <2> HIDE DEF d
  <2>3. QED
    BY <1>5, <2>1, <2>2
<1>8. data' # NoData /\ data' # Busy
  BY <1>4, <1>7, Transfers0
<1>9. done' \in 1..op.count /\ done' \in 0..MaxBlocks
  BY <1>1, <1>4
<1>10. Types'
  BY <1>1, <1>2, <1>3, <1>7, <1>9 DEF Types
<1>11. Dat'
  <2>1. wire' = "none"
    BY <1>1, <1>2 DEF Line
  <2>2. QED
    BY <1>1, <1>2, <1>3, <1>5, <1>8, <2>1 DEF Dat, InitSites
<1>12. Buffer'
  BY <1>3, <1>4, <1>5, <1>6, <1>7 DEF Buffer, ReadyBit
<1>13. op.read => got' = [i \in 1..done' |-> i]
  BY <1>1, <1>4, <1>5, <1>6, OneMore DEF Blocks
<1>14. Blocks'
  <2>1. done' <= op'.count /\ op'.count >= 1
    BY <1>2, <1>4, <1>9
  <2>2. /\ step' \notin {"inhibit", "wait"}
        /\ (step' = "buffer" => done' < op'.count)
        /\ (step' = "finish" => done' = op'.count)
    BY <1>1, <1>2, <1>4
  <2>3. /\ data'.read = op'.read /\ data'.count = op'.count
        /\ IF ~data'.full THEN data'.sent = done'
           ELSE IF op'.read THEN data'.sent = done' + 1 ELSE data'.sent + 1 = done'
    BY <1>1, <1>2, <1>4, <1>5, <1>6, <1>7
  <2>4. at' = "data" /\ (op'.read => got' = [i \in 1..done' |-> i])
    BY <1>1, <1>2, <1>13
  <2>5. QED
    BY <1>8, <2>1, <2>2, <2>3, <2>4 DEF Blocks
<1>15. Selection'
  BY <1>1, <1>2, <1>3, <1>8 DEF Selection, Chosen
<1>16. Locals'
  BY DEF MoveBlock, Locals, locals, globals, client
<1>17. Steps'
  BY DEF MoveBlock, Steps, globals, client
<1>18. Line'
  BY DEF MoveBlock, Line, globals, client
<1>19. QED
  BY <1>10, <1>11, <1>12, <1>14, <1>15, <1>16, <1>17, <1>18

\* An error in the block loop: the DAT line is reset and the call fails.
LEMMA DataPhaseFailsKeeps ==
  ASSUME IInv, DataPhaseFails
  PROVE  IInv'
<1> USE DEF IInv
<1>1. host' \in Hosts
  <2> DEFINE g == [host EXCEPT !.errors = {}]
             h == [g EXCEPT !.inhibit = @ \ {"DAT"},
                            !.status = @ \ {"ReadReady", "WriteReady", "TransferComplete"}]
  <2>1. host' = h
    BY DEF DataPhaseFails, _sdio_reset_dat_line
  <2>2. g \in Hosts
    BY DEF Types, Hosts
  <2> HIDE DEF g
  <2>3. h \in Hosts
    BY <2>2 DEF Hosts
  <2>4. QED
    BY <2>1, <2>3
<1>2. Types'
  BY <1>1, Transfers0 DEF Types, DataPhaseFails, TransferReturns, Goto, transfer
<1>3. Locals'
  BY DEF DataPhaseFails, Locals, TransferReturns, locals, transfer, globals, Goto
<1>4. Steps'
  BY DEF DataPhaseFails, Steps, TransferReturns, transfer, globals, Goto
<1>5. Line'
  BY DEF DataPhaseFails, Line, _sdio_reset_dat_line, NoData, TransferReturns, transfer,
         globals, Goto
<1>6. Dat'
  BY DEF DataPhaseFails, Dat, _sdio_reset_dat_line, NoData, TransferReturns, transfer,
         globals, InitSites, Busy, NoOp, Goto
<1>7. Buffer'
  BY DEF DataPhaseFails, Buffer, _sdio_reset_dat_line, NoData, TransferReturns,
         transfer, globals, Goto
<1>8. Blocks'
  BY DEF DataPhaseFails, Blocks, TransferReturns, transfer, globals, Answered, Goto
<1>9. Selection'
  BY DEF DataPhaseFails, Selection, TransferReturns, transfer, globals, Chosen,
         Answered, Goto
<1>10. QED
  BY <1>2, <1>3, <1>4, <1>5, <1>6, <1>7, <1>8, <1>9

\* Transfer Complete: the call returns what the answer said.
LEMMA TransferDoneKeeps ==
  ASSUME IInv, TransferDone
  PROVE  IInv'
<1> USE DEF IInv
<1>1. /\ at = "data" /\ step = "finish" /\ host.errors = {} /\ at' = "idle"
      /\ card' = card /\ data' = data /\ same' = same /\ rca' = rca
  BY DEF TransferDone, TransferReturns, Goto, globals
<1>2. mount # "no" /\ Answered
  BY <1>1 DEF Dat, Answered
<1>3. data # Busy
  <2>1. op.count >= 1
    BY <1>1 DEF Blocks
  <2>2. data # NoData => data.count = op.count
    BY <1>1, <1>2 DEF Blocks
  <2>3. QED
    BY <2>1, <2>2, Transfers0
<1>4. Selection'
  BY <1>1, <1>2, <1>3 DEF Selection
<1>5. Types'
  BY DEF TransferDone, Types, TransferReturns, transfer, globals, Hosts, Goto, Responses
<1>6. Locals'
  BY DEF TransferDone, Locals, TransferReturns, locals, transfer, globals, Goto
<1>7. Steps'
  BY DEF TransferDone, Steps, TransferReturns, transfer, globals, Goto
<1>8. Line'
  BY DEF TransferDone, Line, TransferReturns, transfer, globals, Goto
<1>9. Dat'
  BY DEF TransferDone, Dat, TransferReturns, transfer, globals, NoData, InitSites,
         Busy, NoOp, Goto
<1>10. Buffer'
  BY DEF TransferDone, Buffer, transfer, globals
<1>11. Blocks'
  BY DEF TransferDone, Blocks, TransferReturns, transfer, globals, Answered, Goto
<1>12. QED
  BY <1>4, <1>5, <1>6, <1>7, <1>8, <1>9, <1>10, <1>11

\* disk_initialize starts over with a clocked controller.
LEMMA Disk_initializeKeeps ==
  ASSUME IInv, disk_initialize
  PROVE  IInv'
<1> USE DEF IInv
<1>1. PICK o \in ClockInit : _sdio_clock_init(o)
  BY DEF disk_initialize
<1>2. /\ at' = "cmd0" /\ step' = "inhibit" /\ same' = card.in
      /\ op' = NoOp /\ done' = 0 /\ lastOk' = lastOk
  BY DEF disk_initialize, Goto
<1>3. /\ host' \in Hosts /\ wire' = "none" /\ data' = NoData
      /\ card' \in Cards /\ card'.in = card.in
  BY <1>1, Clocked DEF Types, Locals
<1>4. card.in \in BOOLEAN
  BY DEF Types, Cards
<1>5. NoOp \in Ops
  BY DEF NoOp, Ops
<1>6. Types'
  BY <1>2, <1>3, <1>4, <1>5, Transfers0 DEF Types, Sites, InitSites
<1>7. Selection'
  BY <1>2, <1>3 DEF Selection
<1>8. Locals'
  BY DEF disk_initialize, Locals, disk_status, ClockInit, _sdio_clock_init, Goto, NoOp,
         locals, ResetRegisters, Registers, NoData, IdleCard, NoResponse, NoOcr
<1>9. Steps'
  BY DEF disk_initialize, Steps, _sdio_clock_init, Goto, NoOp
<1>10. Line'
  BY DEF disk_initialize, Line, disk_status, ClockInit, _sdio_clock_init, Goto, NoOp,
         ResetRegisters, Registers, NoData, IdleCard, NoResponse, NoOcr
<1>11. Dat'
  BY DEF disk_initialize, Dat, disk_status, ClockInit, _sdio_clock_init, Goto, NoOp,
         NoData, Busy, ResetRegisters, Registers, IdleCard, NoResponse, NoOcr
<1>12. Buffer'
  BY DEF disk_initialize, Buffer, disk_status, ClockInit, _sdio_clock_init, Goto, NoOp,
         NoData, ResetRegisters, Registers, IdleCard, NoResponse, NoOcr
<1>13. Blocks'
  BY DEF disk_initialize, Blocks, _sdio_clock_init, Goto, NoOp, Answered
<1>14. QED
  BY <1>6, <1>7, <1>8, <1>9, <1>10, <1>11, <1>12, <1>13

\* disk_read or disk_write of a mounted volume, or a read while mounting.
LEMMA Disk_transferKeeps ==
  ASSUME IInv, NEW read \in BOOLEAN, NEW n \in 1..MaxBlocks, disk_transfer(read, n)
  PROVE  IInv'
<1> USE DEF IInv
<1>1. Types'
  BY DEF disk_transfer, Types, disk_status, Goto, hardware, globals, client, Sites, Ops
<1>2. Locals'
  BY DEF disk_transfer, Locals, hardware, locals, globals, client
<1>3. Steps'
  BY DEF disk_transfer, Steps, Goto, hardware, globals, client
<1>4. Line'
  BY DEF disk_transfer, Line, disk_status, Goto, hardware, globals, client, Sites,
         InitSites
<1>5. Dat'
  BY DEF disk_transfer, Types, Steps, Line, Dat, disk_status, Goto, hardware, globals,
         client, NoData, InitSites, Busy, NoOp
<1>6. Buffer'
  BY DEF disk_transfer, Buffer, hardware, globals, client
<1>7. Blocks'
  BY DEF disk_transfer, Blocks, Goto, hardware, globals, client, Answered
<1>8. Selection'
  BY DEF disk_transfer, Selection, Goto, hardware, globals, client, Chosen, Answered
<1>9. QED
  BY <1>1, <1>2, <1>3, <1>4, <1>5, <1>6, <1>7, <1>8

-----------------------------------------------------------------------------
(* The theorems                                                             *)

\* The boot state: nothing on the lines, no volume.
LEMMA InitSound == Init => IInv
<1> SUFFICES ASSUME Init PROVE IInv
  OBVIOUS
<1>1. card \in Cards
  BY DEF Init, Cards
<1>2. NoResponse \in Responses /\ NoOcr \in Ocrs
  BY OcrsGiven DEF NoResponse, Responses
<1>3. /\ host \in Hosts /\ host.status = {} /\ host.errors = {} /\ host.inhibit = {}
      /\ ~host.sdclk
  BY <1>2 DEF Init, ResetRegisters, Registers, Hosts
<1>4. NoOp \in Ops /\ NoOp.count = 0
  BY DEF NoOp, Ops
<1>5. data \in Transfers /\ op \in Ops
  BY <1>4, Transfers0 DEF Init
<1>6. Types
  <2>1. wire \in Sites \cup {"none"} /\ at \in Sites \cup {"idle"} /\ done \in 0..MaxBlocks
    BY DEF Init
  <2>2. step \in {"check", "inhibit", "wait", "buffer", "finish"} /\ same \in BOOLEAN /\ lastOk \in BOOLEAN
    BY DEF Init
  <2>3. QED
    BY <1>1, <1>3, <1>5, <2>1, <2>2 DEF Types
<1>7. Locals /\ Steps
  BY <1>2 DEF Init, Locals, Steps
<1>8. Line /\ Dat
  BY <1>3 DEF Init, Line, Dat, InitSites
<1>9. Buffer /\ Blocks /\ Selection
  BY <1>3, <1>4, Transfers0 DEF Init, Buffer, Blocks, Selection, InitSites
<1>10. QED
  BY <1>6, <1>7, <1>8, <1>9 DEF IInv

\* A step that changes nothing.
LEMMA StutterKeeps ==
  ASSUME IInv, UNCHANGED vars
  PROVE  IInv'
<1> USE DEF IInv, vars, hardware, locals, transfer, globals, client
<1>1. Types' /\ Locals' /\ Steps'
  BY DEF Types, Locals, Steps
<1>2. Line' /\ Dat' /\ Buffer'
  BY DEF Line, Dat, Buffer
<1>3. Blocks' /\ Selection'
  BY DEF Blocks, Selection, Answered, Chosen
<1>4. QED
  BY <1>1, <1>2, <1>3

\* The driver's own steps.
LEMMA DriverKeeps ==
  ASSUME IInv, Driver
  PROVE  IInv'
BY IssueKeeps, Cmd0DoneKeeps, Cmd8TimeoutKeeps, Cmd8BrokenKeeps, Cmd8AnsweredKeeps,
   Inquiry55Keeps, Inquiry41Keeps, PollOnceKeeps, PollTimeoutKeeps, Poll55Keeps,
   Poll41Keeps, SwitchRefusedKeeps, SwitchFailsKeeps, SwitchSucceedsKeeps,
   IdentificationFailsKeeps, Sdio_read_cidKeeps, RcaPublishedKeeps, CardSelectedKeeps,
   InitializedKeeps, IssueDataKeeps, DataCommandFailsKeeps, DataCommandAnsweredKeeps,
   MoveBlockKeeps, DataPhaseFailsKeeps, TransferDoneKeeps, Zenon
   DEF Driver

\* Whatever driver, caller, controller and card do.
LEMMA NextKeeps ==
  ASSUME IInv, [Next]_vars
  PROVE  IInv'
<1>1. ASSUME Calls PROVE IInv'
  BY <1>1, Disk_initializeKeeps, Disk_transferKeeps DEF Calls
<1>2. ASSUME Hardware PROVE IInv'
  BY <1>2, SendCmd0Keeps, CommandCompletesKeeps, CommandFailsKeeps, BusyEndsKeeps,
     BlockArrivesKeeps, BlockSentKeeps, TransferCompletesKeeps, TransferFailsKeeps, Zenon
     DEF Hardware
<1>3. ASSUME Slot PROVE IInv'
  BY <1>3, RemoveCardKeeps, InsertCardKeeps DEF Slot
<1>4. QED
  BY <1>1, <1>2, <1>3, DriverKeeps, SecondElapsesKeeps, StutterKeeps, Zenon DEF Next

\* The invariant holds of every behaviour, whatever fails and whenever.
THEOREM Inductive == Spec => []IInv
<1>1. Init => IInv
  BY InitSound
<1>2. IInv /\ [Next]_vars => IInv'
  BY NextKeeps
<1>3. QED
  BY <1>1, <1>2, PTL DEF Spec

\* _send_command: the RESPONSE0 read after a Command Complete answers the
\* command that was sent, so no answer of a command that timed out or was cut
\* short by a reset is ever taken for the next one's.
THEOREM AnswersTheCommandHolds == Spec => []AnswersTheCommand
<1>1. IInv => AnswersTheCommand
  BY DEF IInv, Line, AnswersTheCommand
<1>2. QED
  BY <1>1, Inductive, PTL

\* sdio_read: after a read that returned true the buffer holds the blocks of
\* the transfer, each once and in order.
THEOREM ReadsDeliveredHolds == Spec => []ReadsDelivered
<1>1. IInv => ReadsDelivered
  BY DEF IInv, Blocks, ReadsDelivered
<1>2. QED
  BY <1>1, Inductive, PTL

\* After calls that all succeeded the card that was identified is selected
\* under the address the driver holds, and no register, counter or local has
\* left its range.
THEOREM SelectedWhenReadyHolds == Spec => []SelectedWhenReady
<1>1. IInv => TypeOK
  <2> SUFFICES ASSUME IInv PROVE TypeOK
    OBVIOUS
  <2>1. card \in Cards /\ host \in Hosts /\ data \in Transfers /\ op \in Ops /\ done \in 0..MaxBlocks
    BY DEF IInv, Types
  <2>2. /\ host.status \subseteq StatusBits /\ host.errors \subseteq Errors
        /\ host.inhibit \subseteq {"CMD", "DAT"}
    BY <2>1 DEF Hosts
  <2>3. data.count \in 0..MaxBlocks /\ data.sent \in 0..data.count
    BY <2>1 DEF IInv, Buffer, Transfers
  <2>4. op.count \in 0..MaxBlocks /\ done \in 0..op.count
    BY <2>1 DEF IInv, Blocks, Ops
  <2>5. QED
    BY <2>1, <2>2, <2>3, <2>4 DEF IInv, Types, Locals, Cards, TypeOK
<1>2. IInv => SelectedWhenReady
  BY <1>1 DEF IInv, Selection, SelectedWhenReady
<1>3. QED
  BY <1>2, Inductive, PTL
=============================================================================
