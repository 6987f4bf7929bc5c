-------------------------- MODULE EmailOutboxProofs --------------------------
(***************************************************************************)
(* Proofs about EmailOutbox, for all sets of patches and any number of     *)
(* crashes and failed acknowledgements.                                    *)
(***************************************************************************)
EXTENDS EmailOutbox, TLAPS

Holding(p) == worker.at \in {"send", "sent", "failed"} /\ worker.p = p
Tried(p)   == worker.at \in {"sent", "failed"} /\ worker.p = p

\* Without a process there is no worker.
DownInv == smtp = "down" => worker = Off

\* The row the worker has in hand is locked.
HandInv == \A p \in Patches : Holding(p) => mail[p] = "Sending"

\* A mail that may be delivered again is already paid for: the worker has not
\* tried it since it was last claimed.
PaidInv ==
  \A p \in Patches :
    mail[p] \in {"none", "Pending"} \/ (mail[p] = "Sending" /\ ~Tried(p))
      => delivered[p] <= crashes + dbErrors

\* A mail the worker is about to mark as sent was accepted or logged.
TriedInv ==
  \A p \in Patches : worker.at = "sent" /\ worker.p = p
    => delivered[p] > 0 \/ p \in logged

Inv == /\ TypeOK
       /\ DownInv
       /\ HandInv
       /\ PaidInv
       /\ RedeliveryIsPaidFor
       /\ TriedInv
       /\ SentIsAccepted

-----------------------------------------------------------------------------
\* A worker at work has the patch of a row in hand.
LEMMA WorkerHolds ==
  ASSUME worker \in Worker, worker.at \in {"send", "sent", "failed"}
  PROVE  /\ worker.p \in Patches
         /\ worker = [at |-> worker.at, p |-> worker.p]
BY DEF Worker

\* Everything holds at the start.
THEOREM InvInit == Init => Inv
BY OutboxConstants DEF Init, Inv, TypeOK, DownInv, Off, HandInv, PaidInv, TriedInv,
   RedeliveryIsPaidFor, SentIsAccepted, Worker, Holding, Tried, Rows, Final

\* Every step keeps the invariant.
THEOREM InvNext == Inv /\ [Next]_vars => Inv'
<1> SUFFICES ASSUME Inv, [Next]_vars PROVE Inv'
  OBVIOUS
<1> USE OutboxConstants
    DEF Inv, TypeOK, DownInv, Off, HandInv, PaidInv, TriedInv, RedeliveryIsPaidFor,
        SentIsAccepted, Worker, Holding, Tried
<1>1. CASE Start
  BY <1>1 DEF Start
<1>2. ASSUME NEW p \in Patches, Queue(p) PROVE Inv'
  <2>1. PICK st \in {"Pending", "Skipped", "Muted", "Disabled", "Dry-Run"} :
          mail' = [mail EXCEPT ![p] = st]
    BY <1>2 DEF Queue, Verdict, Policy
  <2>2. mail[p] = "none" /\ UNCHANGED <<age, smtp, worker, delivered, logged, crashes, dbErrors>>
    BY <1>2 DEF Queue
  <2>3. TypeOK'
    BY <2>1, <2>2 DEF Rows, Final
  <2>4. HandInv' /\ PaidInv'
    BY <2>1, <2>2
  <2> QED BY <2>1, <2>2, <2>3, <2>4
<1>3. CASE Sweep
  BY <1>3 DEF Sweep, Ghost, Rows, Final
<1>4. ASSUME NEW p \in Patches, Lock(p) PROVE Inv'
  BY <1>4 DEF Lock, Claimable, Rows, Final
<1>5. CASE NothingToSend
  BY <1>5 DEF NothingToSend
<1>6. CASE SendDry
  BY <1>6, WorkerHolds DEF SendDry
<1>7. CASE Deliver
  BY <1>7, WorkerHolds DEF Deliver
<1>8. CASE Refuse
  BY <1>8, WorkerHolds DEF Refuse
<1>9. CASE Acknowledge
  BY <1>9, WorkerHolds DEF Acknowledge, Acknowledged, Rows, Final
<1>10. CASE AcknowledgeFails
  BY <1>10, WorkerHolds DEF AcknowledgeFails
<1>11. CASE Crash
  BY <1>11 DEF Crash
<1>12. CASE Tick
  BY <1>12 DEF Tick
<1>13. CASE UNCHANGED vars
  BY <1>13 DEF vars
<1>14. QED
  BY <1>1, <1>2, <1>3, <1>4, <1>5, <1>6, <1>7, <1>8, <1>9, <1>10, <1>11, <1>12,
     <1>13 DEF Next, WorkerStep

\* The invariant always holds.
THEOREM InvAlways == Spec => []Inv
<1>1. Init => Inv
  BY InvInit
<1>2. Inv /\ [Next]_vars => Inv'
  BY InvNext
<1> QED
  BY <1>1, <1>2, PTL DEF Spec

-----------------------------------------------------------------------------
(***************************************************************************)
(* The properties                                                          *)
(***************************************************************************)
\* Every variable keeps its type, whatever crashes and fails.
THEOREM OutboxTypeCorrect == Spec => []TypeOK
<1>1. Inv => TypeOK
  BY DEF Inv
<1> QED
  BY <1>1, InvAlways, PTL

\* Each delivery after the first one is paid for by a crash or a failed UPDATE.
THEOREM RedeliveryCorrect == Spec => []RedeliveryIsPaidFor
<1>1. Inv => RedeliveryIsPaidFor
  BY DEF Inv
<1> QED
  BY <1>1, InvAlways, PTL

\* What is shown as Sent was accepted by the server or logged by a dry run.
THEOREM SentCorrect == Spec => []SentIsAccepted
<1>1. Inv => SentIsAccepted
  BY DEF Inv
<1> QED
  BY <1>1, InvAlways, PTL

\* No step changes the status of a row that has its verdict.
THEOREM VerdictStep ==
  ASSUME Inv, [Next]_vars, NEW p \in Patches, mail[p] \in Final
  PROVE  mail'[p] = mail[p]
<1> USE DEF Inv, TypeOK, Final, Rows
<1>1. CASE Sweep
  BY <1>1 DEF Sweep, Ghost
<1>2. ASSUME NEW q \in Patches, Queue(q) \/ Lock(q) PROVE mail'[p] = mail[p]
  <2>1. mail[q] \notin Final
    BY <1>2 DEF Queue, Lock, Claimable
  <2>2. p # q
    BY <2>1
  <2> QED
    BY <1>2, <2>2 DEF Queue, Lock
<1>3. CASE Acknowledge
  <2>1. worker.p \in Patches /\ mail[worker.p] = "Sending"
    BY <1>3, WorkerHolds DEF Acknowledge, HandInv, Holding
  <2>2. p # worker.p
    BY <2>1
  <2> QED
    BY <1>3, <2>2 DEF Acknowledge
<1>4. CASE UNCHANGED mail
  BY <1>4
<1> QED
  BY <1>1, <1>2, <1>3, <1>4 DEF Next, WorkerStep, Start, NothingToSend, SendDry, Deliver,
     Refuse, AcknowledgeFails, Crash, Tick, vars

\* A verdict is final, whatever settings later starts of the daemon read.
THEOREM VerdictCorrect == Spec => VerdictIsFinal
<1>1. Inv /\ [Next]_vars =>
        [\A p \in Patches : mail[p] \in Final => mail'[p] = mail[p]]_vars
  BY VerdictStep
<1> QED
  BY <1>1, InvAlways, PTL DEF Spec, VerdictIsFinal
=============================================================================
