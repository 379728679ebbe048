----------------------------- MODULE MmcProofs -----------------------------
(***************************************************************************)
(* Proofs about the MMC driver: its type invariant, that it implements     *)
(* SectorRead, that a read leaves the card ready and that the status it    *)
(* reports is the card's, for any poll limit, FIFO depth, sector size, set *)
(* of requests, retry count and FIFO behaviour.                            *)
(***************************************************************************)
EXTENDS Mmc, TLAPS

Running == pc \notin {"idle", "issue"}
Reading == op = "read" /\ pc # "idle"
Draining == pc \in {"stat", "pop", "restat", "flag"}

\* The command fits the entry point, and the phase of the driver the command.
Control ==
    /\ pc # "idle" => \/ op = "read" /\ cmd # "SEND_STATUS"
                      \/ op = "status" /\ cmd = "SEND_STATUS"
    /\ Draining => cmd = "READ_MULTIPLE"
    /\ pc = "busy" => cmd = "STOP"
    /\ pc = "pop" => Fifo > 0
    /\ pc \in {"stat", "pop"} => sz > 0

\* Nothing is popped before the response; then `sz' counts down exactly as
\* the destination fills.
Counting ==
    /\ Reading => want > 0
    /\ pc = "await" => taken = 0
    /\ Reading /\ cmd = "SET_BLOCKLEN" => buf = <<>>
    /\ pc \in {"issue", "await"} /\ cmd = "READ_MULTIPLE" => buf = <<>>
    /\ Draining => sz = want - Len(buf) /\ sz >= 0

\* What the controller's flags mean while a command runs.
Flagged ==
    /\ Running /\ stat \cap ErrorStat # {} => fault
    /\ Running /\ "DATA_TRAN_DONE" \in stat => sent = want /\ phase = "off"

\* As long as nothing has gone wrong the destination mirrors the transfer.
Clean ==
    /\ Reading /\ ~fault /\ (Running \/ cmd # "SET_BLOCKLEN") => stale = 0
    /\ Draining /\ ~fault => /\ taken = Len(buf)
                             /\ \A i \in 1 .. Len(buf) : buf[i] = i
    /\ pc = "flag" /\ ~fault => sz = 0
    /\ Reading /\ cmd = "STOP" /\ ~fault => Len(buf) = want

IInv == TypeOK /\ Control /\ Counting /\ Flagged /\ Clean

-----------------------------------------------------------------------------
LEMMA InitIInv == Init => IInv
<1> SUFFICES ASSUME Init PROVE IInv
  OBVIOUS
<1> USE MmcAssumption DEF Init
<1>1. fault \in BOOLEAN /\ cmdFault \in BOOLEAN /\ irq \in BOOLEAN
  OBVIOUS
<1>2. resp \in CardStatus /\ res \in CardStatus /\ buf \in Seq(Nat)
  BY DEF CardStatus, NoStatus
<1>3. TypeOK
  BY <1>1, <1>2 DEF TypeOK, Fifo, Commands
<1>4. Control /\ Counting /\ Clean
  BY DEF Control, Counting, Clean, Reading, Draining
<1>5. Flagged
  BY DEF Flagged
<1> QED
  BY <1>3, <1>4, <1>5 DEF IInv

LEMMA NextType == IInv /\ [Next]_vars => TypeOK'
<1> SUFFICES ASSUME IInv, [Next]_vars PROVE TypeOK'
  OBVIOUS
<1> USE MmcAssumption DEF IInv, TypeOK, driver, device, history
<1>1. ASSUME NEW n \in Requests, mmc_read_data(n) PROVE TypeOK'
  <2>1. want' \in Nat /\ buf' \in Seq(Nat)
    <3>1. n * WordsPerBlock \in Nat
      OBVIOUS
    <3> QED
      BY <1>1 DEF mmc_read_data
  <2>2. calls' \in 0 .. MaxCalls /\ Fifo' = Fifo
    BY <1>1 DEF mmc_read_data, Fifo
  <2> QED
    BY <1>1, <2>1, <2>2 DEF mmc_read_data, Commands
<1>2. ASSUME mmc_send_status PROVE TypeOK'
  BY <1>2 DEF mmc_send_status, Commands, Fifo
<1>3. ASSUME StartOp PROVE TypeOK'
  <2>1. res' \in CardStatus /\ fault' \in BOOLEAN
    BY <1>3 DEF StartOp, CardStatus, NoStatus
  <2>2. stale' \in Nat /\ stale' <= FifoDepth
    BY <1>3 DEF StartOp
  <2>3. card' \in {"tran", "data"}
    BY <1>3 DEF StartOp, CardMaybe, CardAfter
  <2>4. sent' = 0 /\ taken' = 0 /\ Fifo' = stale' /\ cmdFault' = FALSE
    BY <1>3 DEF StartOp, Fifo
  <2>5. /\ pc' = "await" /\ timeout' = PollLimit /\ phase' = "cmd"
        /\ stat' = {} /\ irq' = FALSE /\ exec' = cmd
    BY <1>3 DEF StartOp
  <2>6. UNCHANGED <<op, cmd, tries, want, sz, buf, resp, ret, calls>>
    BY <1>3 DEF StartOp
  <2>7. irq' \in BOOLEAN /\ fault' \in BOOLEAN /\ cmdFault' \in BOOLEAN
    BY <2>1, <2>4, <2>5
  <2> QED
    BY <2>1, <2>2, <2>3, <2>4, <2>5, <2>6, <2>7
<1>4. ASSUME PollAgain PROVE TypeOK'
  BY <1>4 DEF PollAgain, Fifo
<1>5. ASSUME PollError PROVE TypeOK'
  BY SMTT(60), <1>5
     DEF PollError, CommandReturns, ReadCallNext, StatusCallNext,
         StatusReturn, StatusRetry, ReadSequence, Commands, Fifo
<1>6. ASSUME PollTimeout PROVE TypeOK'
  BY SMTT(60), <1>6
     DEF PollTimeout, CommandReturns, ReadCallNext, StatusCallNext,
         StatusReturn, StatusRetry, ReadSequence, Commands, Fifo
<1>7. ASSUME AwaitHit PROVE TypeOK'
  BY SMTT(60), <1>7
     DEF AwaitHit, PollHit, CommandReturns, ReadCallNext, StatusCallNext,
         StatusReturn, StatusRetry, ReadSequence, Commands, Fifo
<1>8. ASSUME BusyHit PROVE TypeOK'
  BY SMTT(60), <1>8
     DEF BusyHit, PollHit, CommandReturns, ReadCallNext, StatusCallNext,
         ReadSequence, Fifo, Control
<1>9. ASSUME ReadFails PROVE TypeOK'
  BY SMTT(60), <1>9
     DEF ReadFails, CommandReturns, ReadCallNext, StatusCallNext,
         StatusReturn, StatusRetry, ReadSequence, Commands, Fifo
<1>10. ASSUME ReadStat PROVE TypeOK'
  BY <1>10 DEF ReadStat, OuterNext, Fifo
<1>11. ASSUME ReadFifo PROVE TypeOK'
  <2>1. stale' \in Nat /\ taken' \in 0 .. sent' /\ Fifo' \in 0 .. FifoDepth
    BY <1>11 DEF ReadFifo, Fifo, Control
  <2>2. buf' \in Seq(Nat)
    <3>1. \A w \in Nat : Stored(w) \in Seq(Nat)
      BY DEF Stored
    <3> QED
      BY <1>11, <3>1 DEF ReadFifo, StaleWord
  <2> QED
    BY <1>11, <2>1, <2>2 DEF ReadFifo
<1>12. ASSUME RereadStat PROVE TypeOK'
  BY <1>12 DEF RereadStat, InnerNext, OuterNext, Fifo
<1>13. ASSUME TransferDone PROVE TypeOK'
  <2>1. /\ pc' \in {"idle", "issue"} /\ cmd' \in Commands /\ ret' \in {0, -1}
        /\ tries' \in 0 .. Retries /\ resp' \in CardStatus
    BY <1>13
       DEF TransferDone, CommandReturns, ReadCallNext, StatusCallNext,
           StatusReturn, StatusRetry, ReadSequence, Commands
  <2> QED
    BY <1>13, <2>1 DEF TransferDone, Fifo
<1>14. ASSUME Respond PROVE TypeOK'
  BY ZenonT(60), <1>14 DEF Respond, CardAfter, Fifo, Flags
<1>15. ASSUME ResponseError PROVE TypeOK'
  BY <1>15 DEF ResponseError, CardMaybe, CardAfter, Fifo, Flags, ErrorStat
<1>16. ASSUME Free PROVE TypeOK'
  BY <1>16 DEF Free, Fifo, Flags
<1>17. ASSUME Receive PROVE TypeOK'
  BY <1>17 DEF Receive, Fifo
<1>18. ASSUME ReceiveDone PROVE TypeOK'
  BY <1>18 DEF ReceiveDone, Fifo, Flags
<1>19. ASSUME ReadTimeout PROVE TypeOK'
  BY <1>19 DEF ReadTimeout, Fifo, Flags, ErrorStat
<1>20. ASSUME CrcError PROVE TypeOK'
  BY <1>20 DEF CrcError, Fifo, Flags, ErrorStat
<1>21. ASSUME UNCHANGED vars PROVE TypeOK'
  BY <1>21 DEF vars, Fifo
<1> QED
  BY <1>1, <1>2, <1>3, <1>4, <1>5, <1>6, <1>7, <1>8, <1>9, <1>10, <1>11,
     <1>12, <1>13, <1>14, <1>15, <1>16, <1>17, <1>18, <1>19, <1>20, <1>21
     DEF Next, Driver, Device
LEMMA NextControl == IInv /\ [Next]_vars => Control'
<1> SUFFICES ASSUME IInv, [Next]_vars PROVE Control'
  OBVIOUS
<1>0. TypeOK /\ TypeOK'
  BY NextType DEF IInv
<1> USE DEF IInv, Control, Draining, Counting, Reading, TypeOK, driver,
            device, history
<1>1. ASSUME NEW n \in Requests, mmc_read_data(n) PROVE Control'
  BY <1>1 DEF mmc_read_data
<1>2. ASSUME mmc_send_status PROVE Control'
  BY <1>2 DEF mmc_send_status
<1>3. ASSUME StartOp PROVE Control'
  BY <1>3 DEF StartOp
<1>4. ASSUME PollAgain PROVE Control'
  BY <1>4 DEF PollAgain
<1>5. ASSUME PollError PROVE Control'
  BY <1>5
     DEF PollError, CommandReturns, ReadCallNext, StatusCallNext,
         StatusReturn, StatusRetry, ReadSequence
<1>6. ASSUME PollTimeout PROVE Control'
  BY <1>6
     DEF PollTimeout, CommandReturns, ReadCallNext, StatusCallNext,
         StatusReturn, StatusRetry, ReadSequence
<1>7. ASSUME AwaitHit PROVE Control'
  BY <1>7
     DEF AwaitHit, CommandReturns, ReadCallNext, StatusCallNext, StatusReturn,
         StatusRetry, ReadSequence
<1>8. ASSUME BusyHit PROVE Control'
  BY <1>8
     DEF BusyHit, CommandReturns, ReadCallNext, StatusCallNext, ReadSequence
<1>9. ASSUME ReadFails PROVE Control'
  BY <1>9
     DEF ReadFails, CommandReturns, ReadCallNext, StatusCallNext, ReadSequence
<1>10. ASSUME ReadStat PROVE Control'
  BY <1>10 DEF ReadStat, OuterNext, FifoEmpty, Fifo
<1>11. ASSUME ReadFifo PROVE Control'
  BY <1>11 DEF ReadFifo
<1>12. ASSUME RereadStat PROVE Control'
  BY <1>12 DEF RereadStat, InnerNext, OuterNext, FifoEmpty, Fifo
<1>13. ASSUME TransferDone PROVE Control'
  BY <1>13
     DEF TransferDone, CommandReturns, ReadCallNext, StatusCallNext,
         ReadSequence
<1>14. ASSUME Respond PROVE Control'
  BY <1>14 DEF Respond, Fifo
<1>15. ASSUME ResponseError PROVE Control'
  BY <1>15 DEF ResponseError, Fifo
<1>16. ASSUME Free PROVE Control'
  BY <1>16 DEF Free, Fifo
<1>17. ASSUME Receive PROVE Control'
  BY <1>17 DEF Receive, Fifo
<1>18. ASSUME ReceiveDone PROVE Control'
  BY <1>18 DEF ReceiveDone, Fifo
<1>19. ASSUME ReadTimeout PROVE Control'
  BY <1>19 DEF ReadTimeout, Fifo
<1>20. ASSUME CrcError PROVE Control'
  BY <1>20 DEF CrcError, Fifo
<1>21. ASSUME UNCHANGED vars PROVE Control'
  BY <1>21 DEF vars, Fifo
<1> QED
  BY <1>1, <1>2, <1>3, <1>4, <1>5, <1>6, <1>7, <1>8, <1>9, <1>10, <1>11,
     <1>12, <1>13, <1>14, <1>15, <1>16, <1>17, <1>18, <1>19, <1>20, <1>21
     DEF Next, Driver, Device

LEMMA NextCounting == IInv /\ [Next]_vars => Counting'
<1> SUFFICES ASSUME IInv, [Next]_vars PROVE Counting'
  OBVIOUS
<1>0. TypeOK /\ TypeOK'
  BY NextType DEF IInv
<1> USE DEF IInv, Counting, Reading, Draining, Control, Running, TypeOK,
            driver, device, history
<1>1. ASSUME NEW n \in Requests, mmc_read_data(n) PROVE Counting'
  <2>1. n * WordsPerBlock > 0
    BY MmcAssumption
  <2> QED
    BY <1>1, <2>1 DEF mmc_read_data
<1>2. ASSUME mmc_send_status PROVE Counting'
  BY <1>2 DEF mmc_send_status
<1>3. ASSUME StartOp PROVE Counting'
  BY <1>3 DEF StartOp
<1>4. ASSUME PollAgain PROVE Counting'
  BY <1>4 DEF PollAgain
<1>5. ASSUME PollError PROVE Counting'
  BY <1>5
     DEF PollError, CommandReturns, ReadCallNext, StatusCallNext,
         StatusReturn, StatusRetry, ReadSequence
<1>6. ASSUME PollTimeout PROVE Counting'
  BY <1>6
     DEF PollTimeout, CommandReturns, ReadCallNext, StatusCallNext,
         StatusReturn, StatusRetry, ReadSequence
<1>7. ASSUME AwaitHit PROVE Counting'
  BY <1>7
     DEF AwaitHit, CommandReturns, ReadCallNext, StatusCallNext, StatusReturn,
         StatusRetry, ReadSequence
<1>8. ASSUME BusyHit PROVE Counting'
  BY <1>8
     DEF BusyHit, CommandReturns, ReadCallNext, StatusCallNext, ReadSequence
<1>9. ASSUME ReadFails PROVE Counting'
  BY <1>9
     DEF ReadFails, CommandReturns, ReadCallNext, StatusCallNext, ReadSequence
<1>10. ASSUME ReadStat PROVE Counting'
  BY <1>10 DEF ReadStat, OuterNext
<1>11. ASSUME ReadFifo PROVE Counting'
  <2>1. sz > 0 /\ sz' = sz - 1 /\ Len(buf') = Len(buf) + 1
    <3>1. \A w \in Nat : Len(Append(buf, w)) = Len(buf) + 1
      BY <1>0
    <3> QED
      BY <1>11 DEF ReadFifo, Stored
  <2> QED
    BY <1>11, <2>1 DEF ReadFifo
<1>12. ASSUME RereadStat PROVE Counting'
  BY <1>12 DEF RereadStat, InnerNext, OuterNext
<1>13. ASSUME TransferDone PROVE Counting'
  BY <1>13
     DEF TransferDone, CommandReturns, ReadCallNext, StatusCallNext,
         ReadSequence
<1>14. ASSUME Respond PROVE Counting'
  BY <1>14 DEF Respond
<1>15. ASSUME ResponseError PROVE Counting'
  BY <1>15 DEF ResponseError
<1>16. ASSUME Free PROVE Counting'
  BY <1>16 DEF Free
<1>17. ASSUME Receive PROVE Counting'
  BY <1>17 DEF Receive
<1>18. ASSUME ReceiveDone PROVE Counting'
  BY <1>18 DEF ReceiveDone
<1>19. ASSUME ReadTimeout PROVE Counting'
  BY <1>19 DEF ReadTimeout
<1>20. ASSUME CrcError PROVE Counting'
  BY <1>20 DEF CrcError
<1>21. ASSUME UNCHANGED vars PROVE Counting'
  BY <1>21 DEF vars
<1> QED
  BY <1>1, <1>2, <1>3, <1>4, <1>5, <1>6, <1>7, <1>8, <1>9, <1>10, <1>11,
     <1>12, <1>13, <1>14, <1>15, <1>16, <1>17, <1>18, <1>19, <1>20, <1>21
     DEF Next, Driver, Device

LEMMA NextFlagged == IInv /\ [Next]_vars => Flagged'
<1> SUFFICES ASSUME IInv, [Next]_vars PROVE Flagged'
  OBVIOUS
<1>0. TypeOK /\ TypeOK'
  BY NextType DEF IInv
<1> USE DEF IInv, Flagged, Running, Control, Draining, TypeOK, driver, device,
            history
<1>1. ASSUME NEW n \in Requests, mmc_read_data(n) PROVE Flagged'
  BY <1>1 DEF mmc_read_data
<1>2. ASSUME mmc_send_status PROVE Flagged'
  BY <1>2 DEF mmc_send_status
<1>3. ASSUME StartOp PROVE Flagged'
  BY <1>3 DEF StartOp
<1>4. ASSUME PollAgain PROVE Flagged'
  BY <1>4 DEF PollAgain
<1>5. ASSUME PollError PROVE Flagged'
  BY <1>5 DEF PollError
<1>6. ASSUME PollTimeout PROVE Flagged'
  BY <1>6 DEF PollTimeout
<1>7. ASSUME AwaitHit PROVE Flagged'
  BY <1>7 DEF AwaitHit
<1>8. ASSUME BusyHit PROVE Flagged'
  BY <1>8 DEF BusyHit
<1>9. ASSUME ReadFails PROVE Flagged'
  BY <1>9 DEF ReadFails
<1>10. ASSUME ReadStat PROVE Flagged'
  BY <1>10 DEF ReadStat
<1>11. ASSUME ReadFifo PROVE Flagged'
  BY <1>11 DEF ReadFifo
<1>12. ASSUME RereadStat PROVE Flagged'
  BY <1>12 DEF RereadStat
<1>13. ASSUME TransferDone PROVE Flagged'
  BY <1>13 DEF TransferDone
<1>14. ASSUME Respond PROVE Flagged'
  BY <1>14 DEF Respond, ErrorStat
<1>15. ASSUME ResponseError PROVE Flagged'
  BY <1>15 DEF ResponseError
<1>16. ASSUME Free PROVE Flagged'
  BY <1>16 DEF Free, ErrorStat
<1>17. ASSUME Receive PROVE Flagged'
  BY <1>17 DEF Receive
<1>18. ASSUME ReceiveDone PROVE Flagged'
  BY <1>18 DEF ReceiveDone, ErrorStat
<1>19. ASSUME ReadTimeout PROVE Flagged'
  BY <1>19 DEF ReadTimeout
<1>20. ASSUME CrcError PROVE Flagged'
  BY <1>20 DEF CrcError
<1>21. ASSUME UNCHANGED vars PROVE Flagged'
  BY <1>21 DEF vars
<1> QED
  BY <1>1, <1>2, <1>3, <1>4, <1>5, <1>6, <1>7, <1>8, <1>9, <1>10, <1>11,
     <1>12, <1>13, <1>14, <1>15, <1>16, <1>17, <1>18, <1>19, <1>20, <1>21
     DEF Next, Driver, Device

LEMMA NextClean == IInv /\ [Next]_vars => Clean'
<1> SUFFICES ASSUME IInv, [Next]_vars PROVE Clean'
  OBVIOUS
<1>0. TypeOK /\ TypeOK'
  BY NextType DEF IInv
<1> USE DEF IInv, Clean, Reading, Running, Draining, Control, Counting,
            Flagged, TypeOK, driver, device, history
<1>1. ASSUME NEW n \in Requests, mmc_read_data(n) PROVE Clean'
  BY <1>1 DEF mmc_read_data
<1>2. ASSUME mmc_send_status PROVE Clean'
  BY <1>2 DEF mmc_send_status
<1>3. ASSUME StartOp PROVE Clean'
  <2>1. stale' = 0 \/ fault'
    <3>1. stale' \in Nat /\ fault' = (fault \/ stale' > 0)
      BY <1>3 DEF StartOp
    <3>2. stale' > 0 => fault'
      BY <3>1
    <3> QED
      BY <3>1, <3>2
  <2>2. pc' = "await" /\ UNCHANGED <<op, cmd, want, buf>> /\ (fault => fault')
    BY <1>3 DEF StartOp
  <2>3. ~Draining' /\ Running' /\ (Reading' => Reading)
    BY <1>3 DEF StartOp
  <2>4. Reading' /\ cmd' = "STOP" /\ ~fault' => Len(buf') = want'
    BY <2>2, <2>3
  <2> QED
    BY <2>1, <2>3, <2>4
<1>4. ASSUME PollAgain PROVE Clean'
  BY <1>4 DEF PollAgain
<1>5. ASSUME PollError PROVE Clean'
  BY <1>5 DEF PollError
<1>6. ASSUME PollTimeout PROVE Clean'
  BY <1>6 DEF PollTimeout
<1>7. ASSUME AwaitHit PROVE Clean'
  BY <1>7
     DEF AwaitHit, CommandReturns, ReadCallNext, StatusCallNext, StatusReturn,
         StatusRetry, ReadSequence
<1>8. ASSUME BusyHit PROVE Clean'
  BY <1>8 DEF BusyHit, CommandReturns, ReadCallNext, StatusCallNext
<1>9. ASSUME ReadFails PROVE Clean'
  BY <1>9 DEF ReadFails, ReadErrors, ErrorStat
<1>10. ASSUME ReadStat PROVE Clean'
  BY <1>10 DEF ReadStat, OuterNext, FifoEmpty, Fifo
<1>11. ASSUME ReadFifo PROVE Clean'
  <2>1. CASE stale > 0
    BY <1>11, <2>1 DEF ReadFifo
  <2>2. CASE stale = 0
    <3>1. /\ buf' = Append(buf, taken + 1) /\ taken' = taken + 1
          /\ pc' = "restat"
          /\ UNCHANGED <<op, cmd, want, stale, fault>>
      BY <1>11, <2>2 DEF ReadFifo, Stored
    <3>2. /\ Len(buf') = Len(buf) + 1 /\ buf'[Len(buf) + 1] = taken + 1
          /\ \A i \in 1 .. Len(buf) : buf'[i] = buf[i]
      BY <3>1
    <3>3. ~fault => /\ taken' = Len(buf')
                    /\ \A i \in 1 .. Len(buf') : buf'[i] = i
      BY <1>11, <3>1 DEF ReadFifo
    <3> QED
      BY <1>11, <3>3 DEF ReadFifo
  <2> QED
    BY <2>1, <2>2
<1>12. ASSUME RereadStat PROVE Clean'
  BY <1>12 DEF RereadStat, InnerNext, OuterNext, FifoEmpty, Fifo
<1>13. ASSUME TransferDone PROVE Clean'
  BY <1>13 DEF TransferDone
<1>14. ASSUME Respond PROVE Clean'
  BY <1>14 DEF Respond
<1>15. ASSUME ResponseError PROVE Clean'
  BY <1>15 DEF ResponseError
<1>16. ASSUME Free PROVE Clean'
  BY <1>16 DEF Free
<1>17. ASSUME Receive PROVE Clean'
  BY <1>17 DEF Receive
<1>18. ASSUME ReceiveDone PROVE Clean'
  BY <1>18 DEF ReceiveDone
<1>19. ASSUME ReadTimeout PROVE Clean'
  BY <1>19 DEF ReadTimeout
<1>20. ASSUME CrcError PROVE Clean'
  BY <1>20 DEF CrcError
<1>21. ASSUME UNCHANGED vars PROVE Clean'
  BY <1>21 DEF vars
<1> QED
  BY <1>1, <1>2, <1>3, <1>4, <1>5, <1>6, <1>7, <1>8, <1>9, <1>10, <1>11,
     <1>12, <1>13, <1>14, <1>15, <1>16, <1>17, <1>18, <1>19, <1>20, <1>21
     DEF Next, Driver, Device

-----------------------------------------------------------------------------
\* IInv holds in every state of every behaviour of the driver and controller
\* (drivers/mmc/mmc.c:7-239).
THEOREM Invariance == Spec => []IInv
<1>1. IInv /\ [Next]_vars => IInv'
  BY NextType, NextControl, NextCounting, NextFlagged, NextClean DEF IInv
<1> QED
  BY InitIInv, <1>1, PTL DEF Spec

\* The type invariant: in particular the poll loop never counts below zero
\* and the FIFO never holds more than its depth (mmc.c:10-24, 46-89).
THEOREM TypeCorrect == Spec => []TypeOK
<1>1. IInv => TypeOK
  BY DEF IInv
<1> QED
  BY Invariance, <1>1, PTL

-----------------------------------------------------------------------------
(* The driver implements SectorRead. *)

LEMMA InitSectors == Init => Sectors!Init
  BY DEF Init, Sectors!Init

LEMMA NextSectors == IInv /\ [Next]_vars => [Sectors!Next]_(Sectors!vars)
<1> SUFFICES ASSUME IInv, [Next]_vars
             PROVE  [Sectors!Next]_(Sectors!vars)
  OBVIOUS
<1>0. TypeOK
  BY DEF IInv
<1> USE DEF IInv, TypeOK, Control, Counting, Flagged, Clean, Reading, Running,
            Draining, driver, device, history, Sectors!vars
<1>1. ASSUME NEW n \in Requests, mmc_read_data(n)
       PROVE  [Sectors!Next]_(Sectors!vars)
  BY <1>1 DEF mmc_read_data, Sectors!Next, Sectors!Begin
<1>2. ASSUME mmc_send_status PROVE [Sectors!Next]_(Sectors!vars)
  BY <1>2 DEF mmc_send_status
<1>3. ASSUME StartOp PROVE [Sectors!Next]_(Sectors!vars)
  BY <1>3 DEF StartOp, Sectors!Next, Sectors!Fault
<1>4. ASSUME PollAgain PROVE [Sectors!Next]_(Sectors!vars)
  BY <1>4 DEF PollAgain
<1>5. ASSUME PollError PROVE [Sectors!Next]_(Sectors!vars)
  BY <1>5 DEF PollError, Sectors!Next, Sectors!Finish
<1>6. ASSUME PollTimeout PROVE [Sectors!Next]_(Sectors!vars)
  BY <1>6 DEF PollTimeout, Sectors!Next, Sectors!Fault, Sectors!Finish
<1>7. ASSUME AwaitHit PROVE [Sectors!Next]_(Sectors!vars)
  <2>1. /\ UNCHANGED <<op, want, buf, fault>> /\ pc # "idle"
        /\ op = "read" => pc' # "idle"
    <3>1. UNCHANGED <<op, want, buf, fault>> /\ pc # "idle"
      BY <1>7 DEF AwaitHit
    <3>2. ASSUME op = "read", cmd \notin {"STOP", "READ_MULTIPLE"}
          PROVE  cmd = "SET_BLOCKLEN"
      BY <3>1, <3>2 DEF Commands
    <3>3. op = "read" => pc' # "idle"
      BY <1>7, <3>2
         DEF AwaitHit, CommandReturns, ReadCallNext, StatusCallNext,
             ReadSequence
    <3> QED
      BY <3>1, <3>3
  <2> QED
    BY <2>1
<1>8. ASSUME BusyHit PROVE [Sectors!Next]_(Sectors!vars)
  BY <1>8 DEF BusyHit, Sectors!Next, Sectors!Finish, Sectors!Complete
<1>9. ASSUME ReadFails PROVE [Sectors!Next]_(Sectors!vars)
  BY <1>9
     DEF ReadFails, CommandReturns, ReadCallNext, StatusCallNext, ReadSequence
<1>10. ASSUME ReadStat PROVE [Sectors!Next]_(Sectors!vars)
  BY <1>10 DEF ReadStat, OuterNext
<1>11. ASSUME ReadFifo PROVE [Sectors!Next]_(Sectors!vars)
  BY <1>11 DEF ReadFifo, Stored, Sectors!Next, Sectors!Store
<1>12. ASSUME RereadStat PROVE [Sectors!Next]_(Sectors!vars)
  BY <1>12 DEF RereadStat, InnerNext, OuterNext
<1>13. ASSUME TransferDone PROVE [Sectors!Next]_(Sectors!vars)
  BY <1>13 DEF TransferDone, Sectors!Next, Sectors!Finish, Sectors!Complete
<1>14. ASSUME Respond PROVE [Sectors!Next]_(Sectors!vars)
  BY <1>14 DEF Respond
<1>15. ASSUME ResponseError PROVE [Sectors!Next]_(Sectors!vars)
  BY <1>15 DEF ResponseError, Sectors!Next, Sectors!Fault
<1>16. ASSUME Free PROVE [Sectors!Next]_(Sectors!vars)
  BY <1>16 DEF Free
<1>17. ASSUME Receive PROVE [Sectors!Next]_(Sectors!vars)
  BY <1>17 DEF Receive
<1>18. ASSUME ReceiveDone PROVE [Sectors!Next]_(Sectors!vars)
  BY <1>18 DEF ReceiveDone
<1>19. ASSUME ReadTimeout PROVE [Sectors!Next]_(Sectors!vars)
  BY <1>19 DEF ReadTimeout, Sectors!Next, Sectors!Fault
<1>20. ASSUME CrcError PROVE [Sectors!Next]_(Sectors!vars)
  BY <1>20 DEF CrcError, Sectors!Next, Sectors!Fault
<1>21. ASSUME UNCHANGED vars PROVE [Sectors!Next]_(Sectors!vars)
  BY <1>21 DEF vars
<1> QED
  BY <1>1, <1>2, <1>3, <1>4, <1>5, <1>6, <1>7, <1>8, <1>9, <1>10, <1>11,
     <1>12, <1>13, <1>14, <1>15, <1>16, <1>17, <1>18, <1>19, <1>20, <1>21
     DEF Next, Driver, Device

\* The driver implements the abstract sector read: in-order delivery, no
\* word beyond the request, completeness of a call without faults.
THEOREM Implements == Spec => ReadsSectors
  BY Invariance, InitSectors, NextSectors, PTL
     DEF Spec, ReadsSectors, Sectors!Spec

-----------------------------------------------------------------------------
(* The card is left ready. *)

CardInv ==
    /\ pc # "issue" => exec = cmd
    /\ Running /\ stat \cap ErrorStat # {} => cmdFault
    /\ Running /\ "END_CMD_RES" \in stat => phase # "cmd"
    /\ pc = "busy" => "END_CMD_RES" \in stat
    /\ Running /\ exec = "STOP" /\ card = "data" => phase = "cmd" \/ cmdFault
    /\ pc = "idle" /\ op = "read" => cmd = "STOP"
    /\ CardLeftReady

LEMMA NextCard == IInv /\ CardInv /\ [Next]_vars => CardInv'
<1> SUFFICES ASSUME IInv, CardInv, [Next]_vars PROVE CardInv'
  OBVIOUS
<1>0. TypeOK
  BY DEF IInv
<1> USE DEF IInv, TypeOK, Control, Running, Draining, CardInv, CardLeftReady,
            driver, device, history
<1>1. ASSUME NEW n \in Requests, mmc_read_data(n) PROVE CardInv'
  BY <1>1 DEF mmc_read_data
<1>2. ASSUME mmc_send_status PROVE CardInv'
  BY <1>2 DEF mmc_send_status
<1>3. ASSUME StartOp PROVE CardInv'
  BY <1>3 DEF StartOp
<1>4. ASSUME PollAgain PROVE CardInv'
  BY <1>4 DEF PollAgain
<1>5. ASSUME PollError PROVE CardInv'
  BY <1>5
     DEF PollError, CommandReturns, ReadCallNext, StatusCallNext,
         StatusReturn, StatusRetry, ReadSequence, Commands
<1>6. ASSUME PollTimeout PROVE CardInv'
  BY <1>6
     DEF PollTimeout, CommandReturns, ReadCallNext, StatusCallNext,
         StatusReturn, StatusRetry, ReadSequence, Commands
<1>7. ASSUME AwaitHit PROVE CardInv'
  BY <1>7
     DEF AwaitHit, PollHit, Polled, CommandReturns, ReadCallNext,
         StatusCallNext, ReadSequence, Commands
<1>8. ASSUME BusyHit PROVE CardInv'
  BY <1>8 DEF BusyHit, CommandReturns, ReadCallNext, StatusCallNext
<1>9. ASSUME ReadFails PROVE CardInv'
  BY <1>9
     DEF ReadFails, CommandReturns, ReadCallNext, StatusCallNext, ReadSequence
<1>10. ASSUME ReadStat PROVE CardInv'
  BY <1>10 DEF ReadStat, OuterNext
<1>11. ASSUME ReadFifo PROVE CardInv'
  BY <1>11 DEF ReadFifo
<1>12. ASSUME RereadStat PROVE CardInv'
  BY <1>12 DEF RereadStat, InnerNext, OuterNext
<1>13. ASSUME TransferDone PROVE CardInv'
  BY <1>13
     DEF TransferDone, CommandReturns, ReadCallNext, StatusCallNext,
         ReadSequence
<1>14. ASSUME Respond PROVE CardInv'
  <2>1. /\ stat' \cap ErrorStat = stat \cap ErrorStat
        /\ exec = "STOP" => card' = "tran"
        /\ phase' # "cmd" /\ UNCHANGED <<pc, op, cmd, exec, cmdFault>>
    BY <1>14 DEF Respond, CardAfter, ErrorStat
  <2>2. card' = "data" => card = "data" \/ exec = "READ_MULTIPLE"
    BY <1>14 DEF Respond, CardAfter
  <2>3. "END_CMD_RES" \in stat'
    BY <1>14 DEF Respond
  <2> QED
    BY <2>1, <2>3
<1>15. ASSUME ResponseError PROVE CardInv'
  BY <1>15 DEF ResponseError
<1>16. ASSUME Free PROVE CardInv'
  BY <1>16 DEF Free, ErrorStat
<1>17. ASSUME Receive PROVE CardInv'
  BY <1>17 DEF Receive
<1>18. ASSUME ReceiveDone PROVE CardInv'
  BY <1>18 DEF ReceiveDone, ErrorStat
<1>19. ASSUME ReadTimeout PROVE CardInv'
  BY <1>19 DEF ReadTimeout
<1>20. ASSUME CrcError PROVE CardInv'
  BY <1>20 DEF CrcError
<1>21. ASSUME UNCHANGED vars PROVE CardInv'
  BY <1>21 DEF vars
<1> QED
  BY <1>1, <1>2, <1>3, <1>4, <1>5, <1>6, <1>7, <1>8, <1>9, <1>10, <1>11,
     <1>12, <1>13, <1>14, <1>15, <1>16, <1>17, <1>18, <1>19, <1>20, <1>21
     DEF Next, Driver, Device

\* After mmc_read_data the card is in its transfer state unless
\* STOP_TRANSMISSION itself met a fault (mmc.c:216-239).
THEOREM CardReadyAfterRead == Spec => []CardLeftReady
<1>1. Init => CardInv
  BY DEF Init, CardInv, CardLeftReady
<1>2. CardInv => CardLeftReady
  BY DEF CardInv
<1> QED
  BY Invariance, <1>1, NextCard, <1>2, PTL DEF Spec

-----------------------------------------------------------------------------
(* mmc_send_status tells the truth. *)

\* What the last call of mmc_send_status went by does not change any more: the
\* controller writes a card status only while it executes a command.
StatusInv ==
    /\ "END_CMD_RES" \in stat => phase # "cmd"
    /\ pc = "idle" /\ op = "status" /\ (ret = 0 \/ tries # 0) => phase # "cmd"
    /\ StatusTruthful

LEMMA NextStatus == IInv /\ StatusInv /\ [Next]_vars => StatusInv'
<1> SUFFICES ASSUME IInv, StatusInv, [Next]_vars PROVE StatusInv'
  OBVIOUS
<1> USE DEF IInv, Control, Draining, StatusInv, StatusTruthful, driver, device,
            history
<1>1. ASSUME NEW n \in Requests, mmc_read_data(n) PROVE StatusInv'
  BY <1>1 DEF mmc_read_data
<1>2. ASSUME mmc_send_status PROVE StatusInv'
  BY <1>2 DEF mmc_send_status
<1>3. ASSUME StartOp PROVE StatusInv'
  BY <1>3 DEF StartOp
<1>4. ASSUME PollAgain PROVE StatusInv'
  BY <1>4 DEF PollAgain
<1>5. ASSUME PollError PROVE StatusInv'
  BY <1>5
     DEF PollError, CommandReturns, ReadCallNext, StatusCallNext,
         StatusReturn, StatusRetry
<1>6. ASSUME PollTimeout PROVE StatusInv'
  BY <1>6
     DEF PollTimeout, CommandReturns, ReadCallNext, StatusCallNext,
         StatusReturn, StatusRetry
<1>7. ASSUME AwaitHit PROVE StatusInv'
  BY <1>7
     DEF AwaitHit, PollHit, Polled, CommandReturns, ReadCallNext,
         StatusCallNext, StatusReturn, StatusRetry, CardReady
<1>8. ASSUME BusyHit PROVE StatusInv'
  BY <1>8 DEF BusyHit, CommandReturns, ReadCallNext, StatusCallNext
<1>9. ASSUME ReadFails PROVE StatusInv'
  BY <1>9 DEF ReadFails, CommandReturns, ReadCallNext, StatusCallNext
<1>10. ASSUME ReadStat PROVE StatusInv'
  BY <1>10 DEF ReadStat, OuterNext
<1>11. ASSUME ReadFifo PROVE StatusInv'
  BY <1>11 DEF ReadFifo
<1>12. ASSUME RereadStat PROVE StatusInv'
  BY <1>12 DEF RereadStat, InnerNext, OuterNext
<1>13. ASSUME TransferDone PROVE StatusInv'
  BY <1>13 DEF TransferDone, CommandReturns, ReadCallNext, StatusCallNext
<1>14. ASSUME Respond PROVE StatusInv'
  <2>1. phase = "cmd" /\ phase' # "cmd" /\ UNCHANGED <<pc, op, ret, tries>>
    BY <1>14 DEF Respond
  <2> QED
    BY <2>1
<1>15. ASSUME ResponseError PROVE StatusInv'
  BY <1>15 DEF ResponseError
<1>16. ASSUME Free PROVE StatusInv'
  BY <1>16 DEF Free
<1>17. ASSUME Receive PROVE StatusInv'
  BY <1>17 DEF Receive
<1>18. ASSUME ReceiveDone PROVE StatusInv'
  BY <1>18 DEF ReceiveDone
<1>19. ASSUME ReadTimeout PROVE StatusInv'
  BY <1>19 DEF ReadTimeout
<1>20. ASSUME CrcError PROVE StatusInv'
  BY <1>20 DEF CrcError
<1>21. ASSUME UNCHANGED vars PROVE StatusInv'
  BY <1>21 DEF vars
<1> QED
  BY <1>1, <1>2, <1>3, <1>4, <1>5, <1>6, <1>7, <1>8, <1>9, <1>10, <1>11,
     <1>12, <1>13, <1>14, <1>15, <1>16, <1>17, <1>18, <1>19, <1>20, <1>21
     DEF Next, Driver, Device

\* mmc_send_status reports the card ready only on the answer to its last
\* command, and gives up early only on an error it was told of, for every
\* number of retries and whatever the stack held in `resp' (mmc.c:192-205).
THEOREM StatusIsTruthful == Spec => []StatusTruthful
<1>1. Init => StatusInv
  BY DEF Init, StatusInv, StatusTruthful
<1>2. StatusInv => StatusTruthful
  BY DEF StatusInv
<1> QED
  BY Invariance, <1>1, NextStatus, <1>2, PTL DEF Spec

=============================================================================
