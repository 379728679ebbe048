-------------------------------- MODULE Mmc --------------------------------
(***************************************************************************)
(* The polled MMC driver of drivers/mmc/mmc.c against the controller and   *)
(* the card.  The driver is one process: between two accesses to a         *)
(* controller register it runs undisturbed, and the controller may move    *)
(* between any two accesses.  A word is the unit of data (`sz' counts      *)
(* bytes in the code, four per word).                                      *)
(*                                                                         *)
(* The controller and the card are external: they are modelled from the    *)
(* registers the driver reads and writes.  Starting an operation clears    *)
(* the status and interrupt registers; a read timeout stops the transfer;  *)
(* a CRC error is raised beside the data and does not stop it.             *)
(***************************************************************************)
EXTENDS Integers, Sequences

CONSTANTS PollLimit,      \* iterations of mmc_poll_status (50 million)
          FifoDepth,      \* words the receive FIFO holds
          WordsPerBlock,  \* words per block (512 bytes: 128)
          Requests,       \* block counts the loader asks for
          Retries,        \* `timeout' of mmc_send_status (10)
          KeepFifo,       \* may START_OP leave old words in the FIFO?
          MaxCalls        \* bound of the model: calls of the driver

ASSUME MmcAssumption ==
    /\ PollLimit \in Nat
    /\ FifoDepth \in Nat \ {0}
    /\ WordsPerBlock \in Nat \ {0}
    /\ Requests \subseteq Nat \ {0}
    /\ Retries \in Nat
    /\ KeepFifo \subseteq BOOLEAN /\ KeepFifo # {}
    /\ MaxCalls \in Nat

VARIABLES
    pc,        \* where the driver is
    op,        \* the entry point called last: mmc_read_data, mmc_send_status
    cmd,       \* the command being executed, or executed last
    timeout,   \* iterations mmc_poll_status has left
    tries,     \* retries mmc_send_status has left
    want,      \* words requested by the current or last read
    sz,        \* words _mmc_read_data still expects
    buf,       \* words stored in the destination, in store order
    resp,      \* the local `resp' of mmc_send_status
    ret,       \* what the last call returned
    calls,     \* calls made so far
    stat,      \* MMC_STAT, without the FIFO bit
    irq,       \* the DATA_TRAN_DONE bit of MMC_IFLG
    res,       \* the card status in MMC_RES
    exec,      \* the command the controller was started with last
    phase,     \* what the controller is doing
    card,      \* state of the card: tran or data
    sent,      \* words of this operation put in the FIFO
    taken,     \* words of this operation popped from the FIFO
    stale,     \* words of earlier operations in the FIFO
    fault,     \* history: the current call has met a fault
    cmdFault   \* history: the current command has met a fault

driver == <<pc, op, cmd, timeout, tries, want, sz, buf, resp, ret, calls>>
device == <<stat, irq, res, exec, phase, card, sent, taken, stale>>
history == <<fault, cmdFault>>
vars == <<driver, device, history>>

Commands == {"SET_BLOCKLEN", "READ_MULTIPLE", "STOP", "SEND_STATUS"}
ErrorStat == {"TIME_OUT_READ", "CRC_READ_ERROR", "TIME_OUT_RES"}
Flags == ErrorStat \cup {"END_CMD_RES", "DATA_TRAN_DONE", "PRG_DONE"}
\* The bits of a card status that mmc_send_status looks at.
CardStatus == [rdy : BOOLEAN, prg : BOOLEAN, err : BOOLEAN]
NoStatus == [rdy |-> FALSE, prg |-> FALSE, err |-> FALSE]

\* A word is its index in the transfer; 0 is a word of an earlier operation.
StaleWord == 0
Fifo == stale + (sent - taken)
FifoEmpty == Fifo = 0

TypeOK ==
    /\ pc \in {"idle", "issue", "await", "busy", "stat", "pop", "restat", "flag"}
    /\ op \in {"none", "read", "status"}
    /\ cmd \in Commands
    /\ timeout \in 0 .. PollLimit
    /\ tries \in 0 .. Retries
    /\ want \in Nat
    /\ sz \in Int
    /\ buf \in Seq(Nat)
    /\ resp \in CardStatus
    /\ ret \in {0, -1}
    /\ calls \in 0 .. MaxCalls
    /\ stat \subseteq Flags
    /\ irq \in BOOLEAN
    /\ res \in CardStatus
    /\ exec \in Commands
    /\ phase \in {"off", "cmd", "data", "busy"}
    /\ card \in {"tran", "data"}
    /\ sent \in Nat /\ taken \in 0 .. sent /\ stale \in Nat
    /\ Fifo \in 0 .. FifoDepth
    /\ fault \in BOOLEAN /\ cmdFault \in BOOLEAN

Init ==
    /\ pc = "idle" /\ op = "none" /\ cmd = "SEND_STATUS"
    /\ timeout = 0 /\ tries = 0 /\ want = 0 /\ sz = 0 /\ buf = <<>>
    /\ resp = NoStatus /\ ret = 0 /\ calls = 0
    /\ stat = {} /\ irq = FALSE /\ res = NoStatus
    /\ exec = "SEND_STATUS" /\ phase = "off" /\ card = "tran"
    /\ sent = 0 /\ taken = 0 /\ stale = 0
    /\ fault = FALSE /\ cmdFault = FALSE

-----------------------------------------------------------------------------
(* Entry points. *)

mmc_read_data(n) ==
    /\ pc = "idle" /\ calls < MaxCalls
    /\ pc' = "issue" /\ op' = "read" /\ cmd' = "SET_BLOCKLEN"
    /\ want' = n * WordsPerBlock /\ buf' = <<>>
    /\ calls' = calls + 1
    /\ fault' = FALSE
    /\ UNCHANGED <<timeout, tries, sz, resp, ret, device, cmdFault>>

\* `resp' is not initialised: it holds whatever the stack held.
mmc_send_status ==
    /\ pc = "idle" /\ calls < MaxCalls
    /\ pc' = "issue" /\ op' = "status" /\ cmd' = "SEND_STATUS"
    /\ tries' = Retries
    /\ resp' \in CardStatus
    /\ calls' = calls + 1
    /\ UNCHANGED <<timeout, want, sz, buf, ret, device, history>>

(* The return of a command to its caller.  mmc_read_data ignores the       *)
(* result and goes on with the next command; mmc_send_status looks at the  *)
(* response only when there is one.                                        *)
ReadSequence == [SET_BLOCKLEN |-> "READ_MULTIPLE", READ_MULTIPLE |-> "STOP"]

\* Mutant: a failed read returns at once, without STOP_TRANSMISSION.
ReadCallNext_NoStop(ok) ==
    /\ op = "read"
    /\ UNCHANGED <<tries, resp>>
    /\ \/ /\ ok /\ cmd \in DOMAIN ReadSequence
          /\ cmd' = ReadSequence[cmd] /\ pc' = "issue"
          /\ UNCHANGED ret
       \/ /\ ok => cmd \notin DOMAIN ReadSequence
          /\ ret' = 0 /\ pc' = "idle"
          /\ UNCHANGED cmd

ReadCallNext(ok) ==
    /\ op = "read"
    /\ UNCHANGED <<tries, resp>>
    /\ \/ /\ cmd \in DOMAIN ReadSequence
          /\ cmd' = ReadSequence[cmd] /\ pc' = "issue"
          /\ UNCHANGED ret
       \/ /\ cmd \notin DOMAIN ReadSequence
          /\ ret' = 0 /\ pc' = "idle"
          /\ UNCHANGED cmd

CardReady(r) == r.rdy /\ ~r.prg

StatusReturn(v) == pc' = "idle" /\ ret' = v /\ UNCHANGED tries

StatusRetry ==
    \/ tries = 0 /\ StatusReturn(-1)
    \/ tries > 0 /\ tries' = tries - 1 /\ pc' = "issue" /\ UNCHANGED ret

\* Mutant: the response is looked at even when the command failed.
StatusCallNext_AnyResp(ok) ==
    /\ op = "status"
    /\ UNCHANGED cmd
    /\ resp' = IF ok THEN res ELSE resp
    /\ \/ CardReady(resp') /\ StatusReturn(0)
       \/ ~CardReady(resp') /\ resp'.err /\ StatusReturn(-1)
       \/ ~CardReady(resp') /\ ~resp'.err /\ StatusRetry

StatusCallNext(ok) ==
    /\ op = "status"
    /\ UNCHANGED cmd
    /\ resp' = IF ok THEN res ELSE resp
    /\ \/ ok /\ CardReady(resp') /\ StatusReturn(0)
       \/ ok /\ ~CardReady(resp') /\ resp'.err /\ StatusReturn(-1)
       \/ (ok => ~CardReady(resp') /\ ~resp'.err) /\ StatusRetry

CommandReturns(ok) == ReadCallNext(ok) \/ StatusCallNext(ok)

-----------------------------------------------------------------------------
(* mmc_send_cmd: issue, wait for the response, wait while busy, read data. *)

\* What executing command c does to the card, which ignores a command that
\* is not legal in its state.
Legal(c) == /\ c = "READ_MULTIPLE" => card = "tran"
            /\ c = "STOP" => card = "data"
CardAfter(c) == CASE c = "READ_MULTIPLE" -> "data"
                  [] c = "STOP" -> "tran"
                  [] OTHER -> card

\* Where the card may be when command c was sent and no answer was seen.
CardMaybe(c) == {card} \cup {CardAfter(d) : d \in {e \in {c} : Legal(e)}}

\* START_OP.  A command whose answer the driver gave up waiting for is
\* abandoned.
StartOp ==
    /\ pc = "issue"
    /\ pc' = "await" /\ timeout' = PollLimit
    /\ stat' = {} /\ irq' = FALSE /\ res' = NoStatus
    /\ exec' = cmd /\ phase' = "cmd"
    /\ card' \in IF phase = "cmd" THEN CardMaybe(exec) ELSE {card}
    /\ sent' = 0 /\ taken' = 0
    /\ \E keep \in KeepFifo :
          /\ stale' = IF keep THEN Fifo ELSE 0
          /\ fault' = (fault \/ stale' > 0)
    /\ cmdFault' = FALSE
    /\ UNCHANGED <<op, cmd, tries, want, sz, buf, resp, ret, calls>>

\* mmc_poll_status: one iteration that neither sees an error nor the flag.
Polled == IF pc = "await" THEN "END_CMD_RES" ELSE "PRG_DONE"

\* Mutant: the poll loop does not look at its counter.
PollAgain_NoLimit ==
    /\ pc \in {"await", "busy"}
    /\ timeout' = timeout - 1
    /\ stat \cap (ErrorStat \cup {Polled}) = {}
    /\ UNCHANGED <<pc, op, cmd, tries, want, sz, buf, resp, ret, calls>>
    /\ UNCHANGED <<device, history>>

PollAgain ==
    /\ pc \in {"await", "busy"}
    /\ timeout > 0 /\ timeout' = timeout - 1
    /\ stat \cap (ErrorStat \cup {Polled}) = {}
    /\ UNCHANGED <<pc, op, cmd, tries, want, sz, buf, resp, ret, calls>>
    /\ UNCHANGED <<device, history>>

PollError ==
    /\ pc \in {"await", "busy"}
    /\ timeout > 0 /\ timeout' = timeout - 1
    /\ stat \cap ErrorStat # {}
    /\ CommandReturns(FALSE)
    /\ UNCHANGED <<op, want, sz, buf, calls, device, history>>

PollTimeout ==
    /\ pc \in {"await", "busy"}
    /\ timeout = 0
    /\ fault' = TRUE /\ cmdFault' = TRUE
    /\ CommandReturns(FALSE)
    /\ UNCHANGED <<op, timeout, want, sz, buf, calls, device>>

PollHit == /\ timeout > 0
           /\ stat \cap ErrorStat = {}
           /\ Polled \in stat

\* The response is in: an R1b command waits for the card to be free, a
\* command with data reads it, the others are done.
AwaitHit ==
    /\ pc = "await" /\ PollHit
    /\ \/ /\ cmd = "STOP"
          /\ pc' = "busy" /\ timeout' = PollLimit
          /\ UNCHANGED <<cmd, tries, sz, resp, ret>>
       \/ /\ cmd = "READ_MULTIPLE"
          /\ pc' = "stat" /\ timeout' = timeout - 1 /\ sz' = want
          /\ UNCHANGED <<cmd, tries, resp, ret>>
       \/ /\ cmd \notin {"STOP", "READ_MULTIPLE"}
          /\ timeout' = timeout - 1
          /\ CommandReturns(TRUE)
          /\ UNCHANGED sz
    /\ UNCHANGED <<op, want, buf, calls, device, history>>

BusyHit ==
    /\ pc = "busy" /\ PollHit
    /\ timeout' = timeout - 1
    /\ CommandReturns(TRUE)
    /\ UNCHANGED <<op, want, sz, buf, calls, device, history>>

-----------------------------------------------------------------------------
(* _mmc_read_data.  Each action is one access to MMC_STAT, MMC_RXFIFO or   *)
(* MMC_IFLG and the code up to the next one.                               *)

\* Mutant: the data loop ignores the controller's timeout.
ReadErrors_NoTimeout == {"CRC_READ_ERROR"}
ReadErrors == {"TIME_OUT_READ", "CRC_READ_ERROR"}

\* The condition of the outer loop, on the status just read.
OuterNext == IF "DATA_TRAN_DONE" \notin stat /\ sz' > 0 THEN "stat" ELSE "flag"
\* Mutant: the inner loop stops once the controller has sent everything.
InnerNext_UntilDone == IF ~FifoEmpty /\ sz > 0 /\ "DATA_TRAN_DONE" \notin stat
                       THEN "pop" ELSE OuterNext
InnerNext == IF ~FifoEmpty /\ sz > 0 THEN "pop" ELSE OuterNext

ReadFails ==
    /\ pc = "stat" /\ stat \cap ReadErrors # {}
    /\ CommandReturns(FALSE)
    /\ UNCHANGED <<op, timeout, want, sz, buf, calls, device, history>>

ReadStat ==
    /\ pc = "stat" /\ stat \cap ReadErrors = {}
    /\ UNCHANGED sz
    /\ pc' = IF FifoEmpty THEN OuterNext ELSE "pop"
    /\ UNCHANGED <<op, cmd, timeout, tries, want, buf, resp, ret, calls>>
    /\ UNCHANGED <<device, history>>

Stored(word) == IF sz > 0 THEN Append(buf, word) ELSE buf

ReadFifo ==
    /\ pc = "pop"
    /\ IF stale > 0
       THEN /\ buf' = Stored(StaleWord)
            /\ stale' = stale - 1 /\ UNCHANGED taken
       ELSE /\ buf' = Stored(taken + 1)
            /\ taken' = taken + 1 /\ UNCHANGED stale
    /\ sz' = sz - 1 /\ pc' = "restat"
    /\ UNCHANGED <<op, cmd, timeout, tries, want, resp, ret, calls>>
    /\ UNCHANGED <<stat, irq, res, exec, phase, card, sent, history>>

RereadStat ==
    /\ pc = "restat"
    /\ UNCHANGED sz
    /\ pc' = InnerNext
    /\ UNCHANGED <<op, cmd, timeout, tries, want, buf, resp, ret, calls>>
    /\ UNCHANGED <<device, history>>

\* The loop of line 84 has no bound: without the flag it spins for ever.
TransferDone ==
    /\ pc = "flag" /\ irq
    /\ irq' = FALSE
    /\ CommandReturns(TRUE)
    /\ UNCHANGED <<op, timeout, want, sz, buf, calls, history>>
    /\ UNCHANGED <<stat, res, exec, phase, card, sent, taken, stale>>

Driver == \/ StartOp
          \/ PollAgain \/ PollError \/ PollTimeout \/ AwaitHit \/ BusyHit
          \/ ReadFails \/ ReadStat \/ ReadFifo \/ RereadStat \/ TransferDone

-----------------------------------------------------------------------------
(* The controller and the card. *)

Respond ==
    /\ phase = "cmd" /\ Legal(exec)
    /\ stat' = stat \cup {"END_CMD_RES"}
    /\ card' = CardAfter(exec)
    /\ phase' = CASE exec = "READ_MULTIPLE" -> "data"
                  [] exec = "STOP" -> "busy"
                  [] OTHER -> "off"
    /\ IF exec = "SEND_STATUS" THEN res' \in CardStatus ELSE UNCHANGED res
    /\ UNCHANGED <<driver, irq, exec, sent, taken, stale, history>>

\* No response, or one with a CRC error: the card may have executed the
\* command all the same.
ResponseError ==
    /\ phase = "cmd"
    /\ stat' = stat \cup {"TIME_OUT_RES"}
    /\ card' \in CardMaybe(exec)
    /\ phase' = "off"
    /\ fault' = TRUE /\ cmdFault' = TRUE
    /\ UNCHANGED <<driver, irq, res, exec, sent, taken, stale>>

Free ==
    /\ phase = "busy"
    /\ stat' = stat \cup {"PRG_DONE"}
    /\ phase' = "off"
    /\ UNCHANGED <<driver, irq, res, exec, card, sent, taken, stale, history>>

Receive ==
    /\ phase = "data" /\ sent < want /\ Fifo < FifoDepth
    /\ sent' = sent + 1
    /\ UNCHANGED <<driver, stat, irq, res, exec, phase, card, taken, stale>>
    /\ UNCHANGED history

ReceiveDone ==
    /\ phase = "data" /\ sent = want
    /\ stat' = stat \cup {"DATA_TRAN_DONE"} /\ irq' = TRUE
    /\ phase' = "off"
    /\ UNCHANGED <<driver, res, exec, card, sent, taken, stale, history>>

ReadTimeout ==
    /\ phase = "data" /\ sent < want
    /\ stat' = stat \cup {"TIME_OUT_READ"}
    /\ phase' = "off"
    /\ fault' = TRUE /\ cmdFault' = TRUE
    /\ UNCHANGED <<driver, irq, res, exec, card, sent, taken, stale>>

CrcError ==
    /\ phase = "data" /\ sent > 0 /\ "CRC_READ_ERROR" \notin stat
    /\ stat' = stat \cup {"CRC_READ_ERROR"}
    /\ fault' = TRUE /\ cmdFault' = TRUE
    /\ UNCHANGED <<driver, irq, res, exec, phase, card, sent, taken, stale>>

Device == \/ Respond \/ ResponseError \/ Free
          \/ Receive \/ ReceiveDone \/ ReadTimeout \/ CrcError

Next == \/ \E n \in Requests : mmc_read_data(n)
        \/ mmc_send_status
        \/ Driver
        \/ Device

Spec == Init /\ [][Next]_vars

\* The driver never stops between two accesses, and a transfer ends: RDTO is
\* programmed (mmc.c:140), so a card that sends nothing raises a timeout.
Fairness == /\ WF_vars(Driver)
            /\ WF_vars(Receive \/ ReadTimeout)
            /\ WF_vars(ReceiveDone)

FairSpec == Spec /\ Fairness

-----------------------------------------------------------------------------
(* Properties. *)

\* What the driver promises its callers: words arrive in order and never
\* beyond the request, and a call without a fault fills the destination
\* (drivers/mmc/mmc.c:46-89, 216-239).
Sectors == INSTANCE SectorRead
               WITH busy <- op = "read" /\ pc # "idle",
                    dest <- buf

ReadsSectors == Sectors!Spec

\* After mmc_read_data the card is back in its transfer state, ready for the
\* next read, unless STOP_TRANSMISSION itself went wrong: this is what the
\* driver gains by sending it whatever became of the read (mmc.c:228-234).
CardLeftReady ==
    pc = "idle" /\ op = "read" /\ card = "data" => cmd = "STOP" /\ cmdFault

\* mmc_send_status reports the card ready only on the answer to the last
\* command it sent, and gives up early only on a card error it was told of:
\* an old value of `resp' decides nothing (mmc.c:192-205).
StatusTruthful ==
    pc = "idle" /\ op = "status" =>
        /\ ret = 0 => CardReady(res)
        /\ ret = -1 => tries = 0 \/ (res.err /\ ~CardReady(res))

\* Every call returns, though two of the driver's three loops have no bound
\* of their own (mmc.c:51-84), provided START_OP finds or leaves the FIFO
\* empty.
CallsTerminate == [](stale = 0) => (pc # "idle" ~> pc = "idle")

\* "Read full image" (boot/boot.c:102): what the loader takes the return of
\* mmc_read_data to mean.  It returns 0 whatever happened (mmc.c:228-238).
FullImageRead ==
    pc = "idle" /\ op = "read" /\ ret = 0 => Len(buf) = want
=============================================================================
