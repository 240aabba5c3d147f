-------------------------------- MODULE SdHost --------------------------------
(***************************************************************************)
(* The SD card driver (src/src/sd/sd.cpp) under its FatFs port             *)
(* (src/src/kernel/fatfs_retarget/diskio.c), with the host controller and  *)
(* the card it polls.  One thread drives the controller; the interleaving  *)
(* is between its polling loops and what controller and card do.           *)
(*                                                                         *)
(* The controller and the card are external: they do what sd.cpp and the   *)
(* paragraphs of the Host Controller and Physical Layer specifications it  *)
(* cites rely on.  Software resets of the CMD and DAT lines are taken to   *)
(* clear within their 100 ms.  A command is one of the places in the       *)
(* driver that sends one, because the argument is fixed there.             *)
(***************************************************************************)
EXTENDS Naturals, Sequences, FiniteSets

CONSTANTS Kinds,      \* cards that may be in the slot: SD 1.x, SDSC 2.00, SDHC/SDXC
          MaxBlocks,  \* longest transfer, in 512-byte blocks
          Rcas        \* addresses a card may publish, 0 not among them

ASSUME KindsAssumption == Kinds \subseteq {"v1", "sc", "hc"}
ASSUME SizesAssumption == MaxBlocks \in Nat \ {0} /\ Rcas \subseteq Nat \ {0}

VARIABLES
  card,   \* the card: in the slot, what it is, its state, its address
  host,   \* the controller's registers
  wire,   \* the command on the CMD line, or "none"
  data,   \* the transfer on the DAT lines, or NoData
  at,     \* the _send_command call the driver is in, or "idle"
  step,   \* where in _send_command or _send_data_command it is
  attempt, f8, poll, resp, elapsed,   \* locals of sdio_init and its helpers
  op, done,                           \* arguments and loop of _send_data_command
  rca, ccs, card_inserted,            \* globals of sd.cpp
  init_status,                        \* diskio.c
  mount,  \* FatFs: no volume, mounting it, or mounted
  got, same, lastOk   \* history: blocks read, card unchanged since its
                      \* identification, result of the last call

hardware == <<card, host, wire, data>>
locals   == <<attempt, f8, poll, resp, elapsed>>
transfer == <<op, done, got>>
globals  == <<rca, ccs, card_inserted>>
client   == <<init_status, mount, same, lastOk>>
vars == <<hardware, at, step, locals, transfer, globals, client>>

InitSites == {"cmd0", "cmd8", "inq55", "inq41", "poll55", "poll41", "cmd11",
              "cmd2", "cmd3", "cmd7", "cmd16"}
Sites == InitSites \cup {"data"}
\* What callers tell apart: no answer, a broken one (CRC or index), and any
\* error of the data phase.
Errors == {"Timeout", "Broken", "Data"}
StatusBits == {"CommandComplete", "TransferComplete", "ReadReady", "WriteReady"}

NoData == [read |-> TRUE, count |-> 0, sent |-> 0, full |-> FALSE]
Busy == [read |-> TRUE, count |-> 0, sent |-> 0, full |-> TRUE]
NoOp == [read |-> TRUE, count |-> 0]
NoOcr == [ready |-> FALSE, ccs |-> FALSE, s18a |-> FALSE]
NoResponse == [of |-> "none", ok |-> FALSE, ocr |-> NoOcr, rca |-> 0]
Registers(on, intclk, sdclk) ==
  [power |-> on, intclk |-> intclk, sdclk |-> sdclk, enabled |-> on,
   status |-> {}, errors |-> {}, inhibit |-> {}, response |-> NoResponse]
ResetRegisters == Registers(FALSE, FALSE, FALSE)

(* SDCLK reaches the card only with bus power, internal clock and SD clock. *)
Sdclk(h) == h.power /\ h.intclk /\ h.sdclk

(* Status bits latch only while Status Enable is set (sd.cpp:154-167). *)
Latch(h, bits) == IF h.enabled THEN [h EXCEPT !.status = @ \cup bits] ELSE h
LatchError(h, e) == IF h.enabled THEN [h EXCEPT !.errors = @ \cup {e}] ELSE h

(* At boot the firmware has used the card, if there is one, and sd.cpp     *)
(* resets the controller before it looks at any other register.            *)
Init == /\ card \in [in : BOOLEAN, kind : Kinds, state : {"idle", "tran"},
                     rca : Rcas, saw8 : {FALSE}, app : {FALSE}]
        /\ host = ResetRegisters /\ wire = "none" /\ data = NoData
        /\ at = "idle" /\ step = "inhibit"
        /\ attempt = 0 /\ f8 = 1 /\ poll = "none" /\ resp = NoOcr /\ elapsed = FALSE
        /\ op = NoOp /\ done = 0 /\ got = << >>
        /\ rca = 0 /\ ccs = 0 /\ card_inserted = 0
        /\ init_status = "noinit" /\ mount = "no" /\ same = FALSE /\ lastOk = FALSE

-----------------------------------------------------------------------------
(* The card.  Answer(s) is the set of [card, response] with which it may   *)
(* answer the command of site s; none when the command is illegal in its   *)
(* state, is addressed to another card, or there is no card.               *)

Ident(c, st) == [c EXCEPT !.state = st, !.app = FALSE]
IdleCard == [card EXCEPT !.state = "idle", !.saw8 = FALSE, !.app = FALSE]
Reply(c, s, ok, ocr, r) == [card |-> c, response |-> [of |-> s, ok |-> ok, ocr |-> ocr, rca |-> r]]
Answers(c, s, ok) == Reply(c, s, ok, NoOcr, 0)

HighCapacity == card.kind = "hc"

(* ACMD41: an inquiry never starts the card; a card of high capacity gets  *)
(* ready only when it has seen CMD8.                                       *)
Ocr(s) ==
  {NoOcr} \cup
  {o \in [ready : {s = "poll41"}, ccs : {HighCapacity},
          s18a : {FALSE, HighCapacity /\ poll = "first"}] :
     HighCapacity => card.saw8}

Answer(s) ==
  IF ~card.in THEN {}
  ELSE CASE s = "cmd8" /\ card.state = "idle" /\ card.kind # "v1" ->
              {Answers([Ident(card, "idle") EXCEPT !.saw8 = TRUE], s, b) : b \in BOOLEAN}
         [] s \in {"inq55", "poll55"} /\ card.state = "idle" ->
              {Answers([card EXCEPT !.app = b], s, b) : b \in BOOLEAN}
         [] s \in {"inq41", "poll41"} /\ card.state = "idle" /\ card.app ->
              {Reply(Ident(card, IF o.ready THEN "ready" ELSE "idle"), s, TRUE, o, 0) : o \in Ocr(s)}
         [] s = "cmd11" /\ card.state = "ready" /\ HighCapacity -> {Answers(card, s, TRUE)}
         [] s = "cmd2" /\ card.state = "ready" -> {Answers(Ident(card, "ident"), s, TRUE)}
         [] s = "cmd3" /\ card.state = "ident" ->
              {Reply([Ident(card, "stby") EXCEPT !.rca = r], s, TRUE, NoOcr, r) : r \in Rcas}
         [] s = "cmd7" /\ card.state = "stby" /\ card.rca = rca ->
              {Answers(Ident(card, "tran"), s, TRUE)}
         [] s = "cmd16" /\ card.state = "tran" -> {Answers(card, s, TRUE)}
         [] s = "data" /\ card.state = "tran" ->
              LET moving == Ident(card, IF op.read THEN "data" ELSE "rcv")
              IN {Answers(moving, s, TRUE), Answers(moving, s, FALSE), Answers(card, s, FALSE)}
         [] OTHER -> {}

(* CMD0 has no response: the controller is done when it is sent.           *)
SendCmd0 ==
  /\ wire = "cmd0" /\ Sdclk(host)
  /\ host' = Latch([host EXCEPT !.inhibit = @ \ {"CMD"}], {"CommandComplete"})
  /\ card' = IdleCard
  /\ wire' = "none"
  /\ UNCHANGED <<data, at, step, locals, transfer, globals, client>>

(* CMD7 answers with busy (R1b) and a data command starts the DAT lines.   *)
CommandCompletes ==
  /\ wire \in Sites /\ Sdclk(host)
  /\ \E a \in Answer(wire) :
       /\ card' = a.card
       /\ host' = Latch([host EXCEPT !.response = a.response,
                                     !.inhibit = IF wire \in {"cmd7", "data"}
                                                 THEN {"DAT"} ELSE @ \ {"CMD"}],
                        {"CommandComplete"}
                        \cup (IF wire = "data" /\ ~op.read THEN {"WriteReady"} ELSE {}))
  /\ data' = CASE wire = "data" -> [read |-> op.read, count |-> op.count, sent |-> 0, full |-> FALSE]
               [] wire = "cmd7" -> Busy
               [] OTHER -> data
  /\ wire' = "none"
  /\ UNCHANGED <<at, step, locals, transfer, globals, client>>

(* A command fails: no answer reaches the host, or a broken one.  The card *)
(* may have acted on it; of a single read it comes back by itself.  The    *)
(* CMD line stays inhibited (sd.cpp:275-282).                              *)
CommandFails ==
  /\ wire # "none" /\ Sdclk(host)
  /\ \E e \in {"Timeout", "Broken"} :
       /\ e = "Broken" => Answer(wire) # {} \/ wire = "cmd0"
       /\ wire = "cmd0" => e = "Broken"
       /\ host' = LatchError(host, e)
  /\ card' \in {card} \cup IF wire = "data" /\ op.read /\ op.count = 1 THEN {}
                           ELSE {a.card : a \in Answer(wire)}
  /\ wire' = "none"
  /\ UNCHANGED <<data, at, step, locals, transfer, globals, client>>

(* The end of the busy signal of R1b sets Transfer Complete.               *)
BusyEnds ==
  /\ data = Busy /\ Sdclk(host)
  /\ host' = Latch([host EXCEPT !.inhibit = @ \ {"DAT"}], {"TransferComplete"})
  /\ data' = NoData
  /\ UNCHANGED <<card, wire, at, step, locals, transfer, globals, client>>

BlockArrives ==
  /\ data.read /\ ~data.full /\ data.sent < data.count
  /\ card.in /\ card.state = "data" /\ Sdclk(host)
  /\ data' = [data EXCEPT !.sent = @ + 1, !.full = TRUE]
  /\ host' = Latch(host, {"ReadReady"})
  /\ UNCHANGED <<card, wire, at, step, locals, transfer, globals, client>>

BlockSent ==
  /\ ~data.read /\ data.full
  /\ card.in /\ card.state = "rcv" /\ Sdclk(host)
  /\ data' = [data EXCEPT !.sent = @ + 1, !.full = FALSE]
  /\ host' = Latch(host, IF data.sent + 1 < data.count THEN {"WriteReady"} ELSE {})
  /\ UNCHANGED <<card, wire, at, step, locals, transfer, globals, client>>

(* The last block is through (and Auto CMD12 sent, the card programmed).   *)
TransferCompletes ==
  /\ data # NoData /\ data.sent = data.count /\ ~data.full
  /\ card.in /\ card.state \in {"data", "rcv"} /\ Sdclk(host)
  /\ card' = [card EXCEPT !.state = "tran"]
  /\ host' = Latch([host EXCEPT !.inhibit = @ \ {"DAT"}], {"TransferComplete"})
  /\ data' = NoData
  /\ UNCHANGED <<wire, at, step, locals, transfer, globals, client>>

(* A data error (or a failed Auto CMD12) leaves the DAT line inhibited     *)
(* (sd.cpp:309-320); nobody sends CMD12, so the card stays in an open      *)
(* multi-block transfer.                                                   *)
TransferFails ==
  /\ data # NoData /\ Sdclk(host)
  /\ host' = LatchError(host, "Data")
  /\ card' = IF card.in /\ card.state \in {"data", "rcv"} /\ data.count = 1
             THEN [card EXCEPT !.state = "tran"] ELSE card
  /\ data' = NoData
  /\ UNCHANGED <<wire, at, step, locals, transfer, globals, client>>

(* The card is pulled out, and the controller may cut the bus power with   *)
(* it; a card put in is in its idle state.                                 *)
RemoveCard ==
  /\ card.in
  /\ card' = [IdleCard EXCEPT !.in = FALSE]
  /\ \E p \in {host.power, FALSE} : host' = [host EXCEPT !.power = p]
  /\ same' = FALSE
  /\ UNCHANGED <<wire, data, at, step, locals, transfer, globals, init_status, mount, lastOk>>

InsertCard ==
  /\ ~card.in
  /\ \E k \in Kinds : card' = [card EXCEPT !.in = TRUE, !.kind = k]
  /\ UNCHANGED <<host, wire, data, at, step, locals, transfer, globals, client>>

Hardware ==
  \/ SendCmd0 \/ CommandCompletes \/ CommandFails \/ BusyEnds
  \/ BlockArrives \/ BlockSent \/ TransferCompletes \/ TransferFails

Slot == RemoveCard \/ InsertCard

-----------------------------------------------------------------------------
(* _send_command: wait for the CMD line, write COMMAND, wait for Command   *)
(* Complete or an error.  The three ways it ends leave host' and leave the *)
(* rest to its caller.                                                     *)

Issue ==
  /\ at \in InitSites /\ step = "inhibit"
  /\ "CMD" \notin host.inhibit
  /\ host' = [host EXCEPT !.inhibit = @ \cup {"CMD"}]
  /\ wire' = at /\ step' = "wait"
  /\ UNCHANGED <<card, data, at, locals, transfer, globals, client>>

Waiting(s) == at = s /\ step = "wait"

\* Fault: Command Complete is not cleared.
SuccessKept(s) ==
  /\ Waiting(s)
  /\ host.errors = {} /\ "CommandComplete" \in host.status
  /\ UNCHANGED host

Success(s) ==
  /\ Waiting(s)
  /\ host.errors = {} /\ "CommandComplete" \in host.status
  /\ host' = [host EXCEPT !.status = @ \ {"CommandComplete"}]

\* Fault: the line is not reset after an error.
NoCmdReset(h) == h

(* Software Reset For CMD Line clears the inhibit and Command Complete.    *)
_sdio_reset_cmd_line(h) ==
  [h EXCEPT !.inhibit = @ \ {"CMD"}, !.status = @ \ {"CommandComplete"}]

CommandStatus == IF "Broken" \in host.errors THEN "Broken" ELSE "Timeout"

Failing(s) == Waiting(s) /\ host.errors # {}
Failure(s) == Failing(s) /\ host' = _sdio_reset_cmd_line([host EXCEPT !.errors = {}])

Goto(s) == at' = s /\ step' = "inhibit"

\* Fault: disk_initialize does not look at what sdio_init returned.
ReturnUnchecked(ok) ==
  /\ Goto("idle")
  /\ init_status' = "ready" /\ mount' = "mounting" /\ lastOk' = TRUE
  /\ UNCHANGED same
  /\ attempt' = 0 /\ f8' = 1 /\ poll' = "none" /\ resp' = NoOcr /\ elapsed' = FALSE

(* sdio_init returns to disk_initialize, and that to FatFs's mount_volume. *)
Return(ok) ==
  /\ Goto("idle")
  /\ init_status' = IF ok THEN "ready" ELSE IF card_inserted' = 0 THEN "nodisk" ELSE "noinit"
  /\ mount' = IF ok THEN "mounting" ELSE "no"
  /\ same' = (same /\ ok) /\ lastOk' = ok
  /\ attempt' = 0 /\ f8' = 1 /\ poll' = "none" /\ resp' = NoOcr /\ elapsed' = FALSE

Continue(s) == Goto(s) /\ UNCHANGED <<locals, client>>

(* Software Reset For All, card detection, power, status enables, clock:   *)
(* the result is one of four, and each leaves the registers as far as it   *)
(* came.  A reset that never clears leaves card_inserted alone.  The drop  *)
(* in bus power may or may not reset the card.                             *)
ClockInit ==
  {[ok |-> FALSE, host |-> ResetRegisters, inserted |-> card_inserted]}
  \cup IF ~card.in
       THEN {[ok |-> FALSE, host |-> ResetRegisters, inserted |-> 0]}
       ELSE {[ok |-> FALSE, host |-> Registers(TRUE, TRUE, FALSE), inserted |-> 1],
             [ok |-> TRUE, host |-> Registers(TRUE, TRUE, TRUE),
              inserted |-> 1]}

_sdio_clock_init(o) ==
  /\ o \in ClockInit
  /\ host' = o.host /\ card_inserted' = o.inserted
  /\ wire' = "none" /\ data' = NoData
  /\ card' \in {card, IdleCard}

(* mount_volume calls disk_initialize when no volume is mounted or         *)
(* disk_status reports the drive not initialised; sdio_init ignores what   *)
(* _sdio_clock_init returns.                                               *)
disk_status == IF card_inserted = 0 THEN "nodisk" ELSE init_status

disk_initialize ==
  /\ at = "idle" /\ mount # "mounting"
  /\ mount = "no" \/ disk_status # "ready"
  /\ \E o \in ClockInit : _sdio_clock_init(o)
  /\ Goto("cmd0")
  /\ mount' = "no" /\ same' = card.in
  /\ op' = NoOp /\ done' = 0 /\ got' = << >>
  /\ UNCHANGED <<locals, rca, ccs, init_status, lastOk>>

(* _sdio_identify_stage1: CMD0's result is ignored; a broken answer to     *)
(* CMD8 redoes the clock and starts over once; no answer means a legacy    *)
(* card; an answer that does not match means an unusable one.              *)
Cmd0Done ==
  /\ Success("cmd0") \/ Failure("cmd0")
  /\ Continue("cmd8")
  /\ UNCHANGED <<card, wire, data, transfer, globals>>

Cmd8Timeout ==
  /\ Failure("cmd8") /\ CommandStatus = "Timeout"
  /\ f8' = 0 /\ Goto("inq55")
  /\ UNCHANGED <<card, wire, data, attempt, poll, resp, elapsed, transfer, globals, client>>

Cmd8Broken ==
  /\ Failing("cmd8") /\ CommandStatus = "Broken"
  /\ \E o \in ClockInit :
       /\ _sdio_clock_init(o)
       /\ IF o.ok /\ attempt = 0
          THEN /\ attempt' = 1 /\ Goto("cmd0")
               /\ UNCHANGED <<f8, poll, resp, elapsed, client>>
          ELSE Return(FALSE)
  /\ UNCHANGED <<transfer, rca, ccs>>

Cmd8Answered ==
  /\ Success("cmd8")
  /\ UNCHANGED <<card, wire, data, transfer, globals>>
  /\ IF host.response.ok THEN Continue("inq55") ELSE Return(FALSE)

(* The inquiry ACMD41.  An answer to CMD55 without APP_CMD (NotExpected)   *)
(* is no error here: response stays 0.                                     *)
StartPoll(p) ==
  /\ poll' = p /\ elapsed' = FALSE
  /\ at' = "poll55" /\ step' = "check"
  /\ UNCHANGED <<attempt, f8, client>>

FirstPoll == StartPoll(IF f8 = 0 THEN "v1" ELSE "first")

Inquiry55 ==
  /\ Success("inq55")
  /\ IF host.response.ok THEN Continue("inq41") ELSE FirstPoll /\ UNCHANGED resp
  /\ UNCHANGED <<card, wire, data, transfer, globals>>

Inquiry41 ==
  /\ Success("inq41")
  /\ resp' = host.response.ocr /\ FirstPoll
  /\ UNCHANGED <<card, wire, data, transfer, globals>>

(* _sdio_acmd41_poll, at most a second.                                    *)
PollOnce ==
  /\ at = "poll55" /\ step = "check" /\ ~elapsed
  /\ step' = "inhibit"
  /\ UNCHANGED <<hardware, at, locals, transfer, globals, client>>

PollTimeout ==
  /\ at = "poll55" /\ step = "check" /\ elapsed
  /\ UNCHANGED <<hardware, transfer, globals>>
  /\ Return(FALSE)

SecondElapses ==
  /\ at \in {"poll55", "poll41"} /\ ~elapsed
  /\ elapsed' = TRUE
  /\ UNCHANGED <<hardware, at, step, attempt, f8, poll, resp, transfer, globals, client>>

(* The loop tests *response_out, which an answer without APP_CMD leaves as *)
(* the previous handshake set it.                                          *)
Polled(ocr) ==
  IF ~ocr.ready THEN /\ step' = "check" /\ at' = "poll55"
                     /\ UNCHANGED <<poll, elapsed, ccs>>
  ELSE /\ CASE poll = "v1" \/ (poll = "first" /\ ~ocr.ccs) -> Goto("cmd2") /\ ccs' = 0
             [] poll = "first" /\ ocr.ccs /\ ocr.s18a -> Goto("cmd11") /\ UNCHANGED ccs
             [] OTHER -> Goto("cmd2") /\ ccs' = 1
       /\ UNCHANGED <<poll, elapsed>>

Poll55 ==
  /\ Success("poll55")
  /\ IF host.response.ok THEN Goto("poll41") /\ UNCHANGED <<poll, elapsed, ccs>>
                         ELSE Polled(resp)
  /\ UNCHANGED <<card, wire, data, attempt, f8, resp, transfer, rca, card_inserted, client>>

Poll41 ==
  /\ Success("poll41")
  /\ resp' = host.response.ocr /\ Polled(resp')
  /\ UNCHANGED <<card, wire, data, attempt, f8, transfer, rca, card_inserted, client>>

(* _sdio_voltage_switch: every failure goes on to a poll with S18R = 0.    *)
(* The DAT levels and the 1.8V enable are read back from the hardware.     *)
SwitchRefused ==
  /\ Failure("cmd11")
  /\ StartPoll("retry")
  /\ UNCHANGED <<card, wire, data, resp, transfer, globals>>

SwitchFails ==
  /\ Waiting("cmd11") /\ host.errors = {} /\ "CommandComplete" \in host.status
  /\ \E clocked \in BOOLEAN :
       host' = [host EXCEPT !.status = @ \ {"CommandComplete"}, !.intclk = clocked]
  /\ StartPoll("retry")
  /\ UNCHANGED <<card, wire, data, resp, transfer, globals>>

SwitchSucceeds ==
  /\ Success("cmd11")
  /\ ccs' = 1 /\ Continue("cmd2")
  /\ UNCHANGED <<card, wire, data, transfer, rca, card_inserted>>

(* The errors of the other identification commands end sdio_init.          *)
IdentificationFails ==
  /\ \E s \in InitSites \ {"cmd0", "cmd8", "cmd11"} : Failure(s)
  /\ UNCHANGED <<card, wire, data, transfer, globals>>
  /\ Return(FALSE)

(* _sdio_finish_identification                                             *)
_sdio_read_cid ==
  /\ Success("cmd2")
  /\ Continue("cmd3")
  /\ UNCHANGED <<card, wire, data, transfer, globals>>

RcaPublished ==
  /\ Success("cmd3")
  /\ rca' = host.response.rca /\ Continue("cmd7")
  /\ UNCHANGED <<card, wire, data, transfer, ccs, card_inserted>>

CardSelected ==
  /\ Success("cmd7")
  /\ Continue("cmd16")
  /\ UNCHANGED <<card, wire, data, transfer, globals>>

Initialized ==
  /\ Success("cmd16")
  /\ UNCHANGED <<card, wire, data, transfer, globals>>
  /\ Return(TRUE)

-----------------------------------------------------------------------------
(* disk_read and disk_write: sdio_read and sdio_write through              *)
(* _send_data_command.  FatFs asks disk_status first, reads only while it  *)
(* mounts, and always asks for a block or more.                            *)

disk_transfer(read, count) ==
  /\ at = "idle" /\ mount # "no" /\ disk_status = "ready"
  /\ mount = "mounting" => read
  /\ op' = [read |-> read, count |-> count] /\ done' = 0 /\ got' = << >>
  /\ Goto("data")
  /\ UNCHANGED <<hardware, locals, globals, client>>

IssueData ==
  /\ at = "data" /\ step = "inhibit"
  /\ host.inhibit = {}
  /\ host' = [host EXCEPT !.inhibit = {"CMD"}]
  /\ wire' = "data" /\ step' = "wait"
  /\ UNCHANGED <<card, data, at, locals, transfer, globals, client>>

(* A call of FatFs that fails while mounting leaves the volume unmounted;  *)
(* one that succeeds may have been the last, or have found no file system. *)
TransferReturns(ok) ==
  /\ Goto("idle") /\ lastOk' = ok
  /\ IF mount # "mounting" THEN UNCHANGED mount
     ELSE mount' \in IF ok THEN {"mounting", "yes", "no"} ELSE {"no"}
  /\ UNCHANGED <<init_status, same>>

DataCommandFails ==
  /\ Failure("data")
  /\ TransferReturns(FALSE)
  /\ UNCHANGED <<card, wire, data, locals, transfer, globals>>

DataCommandAnswered ==
  /\ Success("data")
  /\ step' = "buffer"
  /\ UNCHANGED <<card, wire, data, at, locals, transfer, globals, client>>

ReadyBit == IF op.read THEN "ReadReady" ELSE "WriteReady"

(* The block loop: the 128 words of a block follow a ready bit.            *)
\* Fault: only the first block waits for its ready bit.
MoveBlockUnready ==
  /\ at = "data" /\ step = "buffer"
  /\ host.errors = {} /\ (done > 0 \/ ReadyBit \in host.status)
  /\ host' = [host EXCEPT !.status = @ \ {ReadyBit}]
  /\ got' = IF ~op.read THEN got ELSE Append(got, IF data.full THEN data.sent ELSE 0)
  /\ data' = [data EXCEPT !.full = ~op.read]
  /\ done' = done + 1
  /\ step' = IF done + 1 = op.count THEN "finish" ELSE "buffer"
  /\ UNCHANGED <<card, wire, at, locals, op, globals, client>>

MoveBlock ==
  /\ at = "data" /\ step = "buffer"
  /\ host.errors = {} /\ ReadyBit \in host.status
  /\ host' = [host EXCEPT !.status = @ \ {ReadyBit}]
  /\ got' = IF ~op.read THEN got ELSE Append(got, IF data.full THEN data.sent ELSE 0)
  /\ data' = [data EXCEPT !.full = ~op.read]
  /\ done' = done + 1
  /\ step' = IF done + 1 = op.count THEN "finish" ELSE "buffer"
  /\ UNCHANGED <<card, wire, at, locals, op, globals, client>>

(* Software Reset For DAT Line clears the inhibit, the buffer's bits and   *)
(* Transfer Complete, and stops the transfer.                              *)
_sdio_reset_dat_line(h) ==
  [h EXCEPT !.inhibit = @ \ {"DAT"},
            !.status = @ \ {"ReadReady", "WriteReady", "TransferComplete"}]

DataPhaseFails ==
  /\ at = "data" /\ step \in {"buffer", "finish"}
  /\ host.errors # {}
  /\ host' = _sdio_reset_dat_line([host EXCEPT !.errors = {}])
  /\ data' = NoData
  /\ TransferReturns(FALSE)
  /\ UNCHANGED <<card, wire, locals, transfer, globals>>

(* The R1 answer's card errors fail the call after the transfer.           *)
TransferDone ==
  /\ at = "data" /\ step = "finish"
  /\ host.errors = {} /\ "TransferComplete" \in host.status
  /\ host' = [host EXCEPT !.status = @ \ {"TransferComplete"}]
  /\ TransferReturns(host.response.ok)
  /\ UNCHANGED <<card, wire, data, locals, transfer, globals>>

-----------------------------------------------------------------------------
(* sdio_init and the transfers, without the calls that start them          *)
Driver ==
  \/ Issue \/ Cmd0Done \/ Cmd8Timeout \/ Cmd8Broken \/ Cmd8Answered
  \/ Inquiry55 \/ Inquiry41 \/ PollOnce \/ PollTimeout \/ Poll55 \/ Poll41
  \/ SwitchRefused \/ SwitchFails \/ SwitchSucceeds \/ IdentificationFails
  \/ _sdio_read_cid \/ RcaPublished \/ CardSelected \/ Initialized
  \/ IssueData \/ DataCommandFails \/ DataCommandAnswered
  \/ MoveBlock \/ DataPhaseFails \/ TransferDone

Calls ==
  \/ disk_initialize
  \/ \E read \in BOOLEAN, n \in 1..MaxBlocks : disk_transfer(read, n)

Next == Driver \/ Calls \/ Hardware \/ SecondElapses \/ Slot

(* The driver runs, a clocked controller finishes or times out what it was *)
(* given, and the counter reaches the second.                              *)
Spec == /\ Init /\ [][Next]_vars
        /\ WF_vars(Driver) /\ WF_vars(Hardware) /\ WF_vars(SecondElapses)

-----------------------------------------------------------------------------
(* Properties *)

\* Registers, card, control and locals stay what the code can put in them.
TypeOK ==
  /\ card \in [in : BOOLEAN, kind : Kinds, saw8 : BOOLEAN, app : BOOLEAN, rca : Rcas,
               state : {"idle", "ready", "ident", "stby", "tran", "data", "rcv"}]
  /\ host.status \subseteq StatusBits /\ host.errors \subseteq Errors
  /\ host.inhibit \subseteq {"CMD", "DAT"}
  /\ wire \in Sites \cup {"none"}
  /\ data.count \in 0..MaxBlocks /\ data.sent \in 0..data.count
  /\ at \in Sites \cup {"idle"}
  /\ step \in {"check", "inhibit", "wait", "buffer", "finish"}
  /\ attempt \in 0..1 /\ f8 \in 0..1 /\ poll \in {"none", "v1", "first", "retry"}
  /\ op.count \in 0..MaxBlocks /\ done \in 0..op.count
  /\ rca \in Rcas \cup {0} /\ ccs \in 0..1 /\ card_inserted \in 0..1
  /\ init_status \in {"noinit", "nodisk", "ready"}
  /\ mount \in {"no", "mounting", "yes"}

\* When disk_initialize has reported success and the calls since have too,
\* the card that was identified is selected under the address the driver
\* holds, whatever errors and retries came before (sd.cpp:837-840); and no
\* retry takes a register, a counter or a local out of its range.
SelectedWhenReady ==
  /\ TypeOK
  /\ at = "idle" /\ init_status = "ready" /\ mount # "no" /\ same /\ lastOk
       /\ data = NoData /\ host.errors = {}
     => card.state = "tran" /\ card.rca = rca

\* sdio_read returns true only when buf holds the blocks of the transfer,
\* each once and in order (sd.cpp:1003-1014).
ReadsDelivered ==
  at = "idle" /\ lastOk /\ op.read /\ init_status = "ready"
    => got = [i \in 1..op.count |-> i]

\* A Command Complete the driver acts on belongs to the command it has
\* sent, so RESPONSE0 answers that command (sd.cpp:422-425).
AnswersTheCommand ==
  step = "wait" /\ host.errors = {} /\ "CommandComplete" \in host.status
    => wire = "none" /\ (at = "cmd0" \/ host.response.of = at)

\* The DAT line is inhibited and no transfer will free it.
DatStuck == "DAT" \in host.inhibit /\ data = NoData

\* Every call into the driver returns, however commands and blocks fail and
\* the card comes and goes -- as long as SDCLK runs and the DAT line is not
\* left inhibited, which its polling loops do not survive.
CallsReturn == at # "idle" ~> (at = "idle" \/ ~Sdclk(host) \/ DatStuck)

\* kernel.cpp:17-19: without a card the mount fails and the boot goes on.
MountFailureReturns == (card_inserted = 0 /\ at # "idle") ~> at = "idle"
=============================================================================
