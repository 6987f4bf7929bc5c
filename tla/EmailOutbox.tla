----------------------------- MODULE EmailOutbox -----------------------------
(***************************************************************************)
(* The outbox of src/db.rs between queue_notifications of src/reviewer.rs, *)
(* which decides whether a review is mailed, and the EmailWorker of        *)
(* src/worker/email.rs, which sends the rows one at a time.                *)
(*                                                                         *)
(* The worker claims a row, talks to the SMTP server and acknowledges the  *)
(* row in separate steps.  The process may crash between any two of them,  *)
(* an UPDATE may fail, and the server may accept a mail and lose the       *)
(* answer.  Each start of the daemon reads its SMTP settings anew.         *)
(*                                                                         *)
(* ReviewDaemon shows who calls queue_notifications and when; here a patch *)
(* has one such call, so mail[p] is its only row.                          *)
(***************************************************************************)
EXTENDS Naturals

CONSTANTS
  Patches,      \* patches with a finished review
  Settings,     \* SMTP settings a start may find: "none", "dry" (dry_run), "live"
  GhostAge,     \* the 600 seconds of sweep_ghost_emails, in ticks
  MaxCrashes,   \* how often the process may crash
  MaxDbErrors   \* how often an acknowledgement may fail

VARIABLES
  mail,         \* mail[p]: status of the email_outbox row of p; "none" without one
  age,          \* age[p]: ticks since locked_at of a row in Sending
  smtp,         \* settings.smtp of the running process; "down" without one
  worker,       \* step of the EmailWorker and the patch it has in hand
  delivered,    \* history: how often the server accepted the mail of p
  logged,       \* history: the patches whose mail a dry run logged
  crashes,      \* history: crashes so far
  dbErrors      \* history: failed acknowledgements so far

vars == <<mail, age, smtp, worker, delivered, logged, crashes, dbErrors>>

Final == {"Skipped", "Muted", "Disabled", "Dry-Run", "Sent", "Failed"}
Rows  == Final \cup {"Pending", "Sending"}

\* The worker off, at the top of its loop, at the claim, or with a row in hand.
Worker == [at : {"off", "sweep", "lock"}]
            \cup [at : {"send", "sent", "failed"}, p : Patches]

ASSUME OutboxConstants ==
  /\ Settings \subseteq {"none", "dry", "live"}
  /\ GhostAge \in Nat
  /\ MaxCrashes \in Nat
  /\ MaxDbErrors \in Nat

TypeOK ==
  /\ mail \in [Patches -> Rows \cup {"none"}]
  /\ age \in [Patches -> 0 .. GhostAge + 1]
  /\ smtp \in Settings \cup {"down"}
  /\ worker \in Worker
  /\ delivered \in [Patches -> Nat]
  /\ logged \subseteq Patches
  /\ crashes \in 0 .. MaxCrashes
  /\ dbErrors \in 0 .. MaxDbErrors

Off == [at |-> "off"]

Init ==
  /\ mail = [p \in Patches |-> "none"]
  /\ age = [p \in Patches |-> 0]
  /\ smtp = "down"
  /\ worker = Off
  /\ delivered = [p \in Patches |-> 0]
  /\ logged = {}
  /\ crashes = 0
  /\ dbErrors = 0

\* The daemon spawns the worker when there is an [smtp] section.
Start ==
  /\ smtp = "down"
  /\ smtp' \in Settings
  /\ worker' = IF smtp' = "none" THEN Off ELSE [at |-> "sweep"]
  /\ UNCHANGED <<mail, age, delivered, logged, crashes, dbErrors>>

(***************************************************************************)
(* queue_notifications                                                     *)
(***************************************************************************)
\* What the email policy resolves to: nobody to write to (Mute), or recipients,
\* with or without send_positive_review.
Policy == {"mute", "send", "send positive"}

\* The status of the new row.  A positive review is queued as Pending without a
\* look at the SMTP settings.  (The bug: a status no reader knows.)
Verdict_Unknown(findings, policy, settings) == "Queued"

Verdict(findings, policy, settings) ==
  CASE ~findings -> IF policy = "send positive" THEN "Pending" ELSE "Skipped"
    [] findings /\ policy = "mute" -> "Muted"
    [] findings /\ policy # "mute" /\ settings = "none" -> "Disabled"
    [] findings /\ policy # "mute" /\ settings = "dry"  -> "Dry-Run"
    [] OTHER -> "Pending"

Queue(p) ==
  /\ smtp # "down"
  /\ mail[p] = "none"
  /\ \E findings \in BOOLEAN, policy \in Policy :
       mail' = [mail EXCEPT ![p] = Verdict(findings, policy, smtp)]
  /\ UNCHANGED <<age, smtp, worker, delivered, logged, crashes, dbErrors>>

(***************************************************************************)
(* EmailWorker::run                                                        *)
(***************************************************************************)
\* sweep_ghost_emails: a row locked for more than GhostAge is Pending again.
\* (Bug for the mutants: nothing is ever old enough.)
Ghost_Never(p) == FALSE
Ghost(p)       == mail[p] = "Sending" /\ age[p] > GhostAge

Sweep ==
  /\ worker.at = "sweep"
  /\ mail' = [p \in Patches |-> IF Ghost(p) THEN "Pending" ELSE mail[p]]
  /\ worker' = [at |-> "lock"]
  /\ UNCHANGED <<age, smtp, delivered, logged, crashes, dbErrors>>

\* lock_pending_email claims any Pending row.  (The bug: any row but Sent.)
Claimable_Unsent(p) == mail[p] \notin {"none", "Sent"}
Claimable(p)        == mail[p] = "Pending"

Lock(p) ==
  /\ worker.at = "lock"
  /\ Claimable(p)
  /\ mail' = [mail EXCEPT ![p] = "Sending"]
  /\ age' = [age EXCEPT ![p] = 0]
  /\ worker' = [at |-> "send", p |-> p]
  /\ UNCHANGED <<smtp, delivered, logged, crashes, dbErrors>>

\* Nothing to claim: the worker sleeps and sweeps again.
NothingToSend ==
  /\ worker.at = "lock"
  /\ \A p \in Patches : ~Claimable(p)
  /\ worker' = [at |-> "sweep"]
  /\ UNCHANGED <<mail, age, smtp, delivered, logged, crashes, dbErrors>>

\* send_email in a dry run logs the mail and reports success.
SendDry ==
  /\ worker.at = "send"
  /\ smtp = "dry"
  /\ worker' = [worker EXCEPT !.at = "sent"]
  /\ logged' = logged \cup {worker.p}
  /\ UNCHANGED <<mail, age, smtp, delivered, crashes, dbErrors>>

\* The server takes the mail; its answer arrives, or is lost.
Deliver ==
  /\ worker.at = "send"
  /\ smtp = "live"
  /\ delivered' = [delivered EXCEPT ![worker.p] = @ + 1]
  /\ \E answer \in {"sent", "failed"} : worker' = [worker EXCEPT !.at = answer]
  /\ UNCHANGED <<mail, age, smtp, logged, crashes, dbErrors>>

\* An address does not parse, the connection fails, the server refuses.
Refuse ==
  /\ worker.at = "send"
  /\ smtp = "live"
  /\ worker' = [worker EXCEPT !.at = "failed"]
  /\ UNCHANGED <<mail, age, smtp, delivered, logged, crashes, dbErrors>>

\* mark_email_sent or mark_email_failed.  (The bugs: what failed is retried; a
\* failure is recorded as Sent.)
Acknowledged_Retry(at) == IF at = "sent" THEN "Sent" ELSE "Pending"
Acknowledged_Sent(at)  == "Sent"
Acknowledged(at)       == IF at = "sent" THEN "Sent" ELSE "Failed"

Acknowledge ==
  /\ worker.at \in {"sent", "failed"}
  /\ mail' = [mail EXCEPT ![worker.p] = Acknowledged(worker.at)]
  /\ worker' = [at |-> "sweep"]
  /\ UNCHANGED <<age, smtp, delivered, logged, crashes, dbErrors>>

\* The UPDATE fails: the error is logged and the row stays in Sending.
AcknowledgeFails ==
  /\ worker.at \in {"sent", "failed"}
  /\ dbErrors < MaxDbErrors
  /\ dbErrors' = dbErrors + 1
  /\ worker' = [at |-> "sweep"]
  /\ UNCHANGED <<mail, age, smtp, delivered, logged, crashes>>

Crash ==
  /\ smtp # "down"
  /\ crashes < MaxCrashes
  /\ crashes' = crashes + 1
  /\ smtp' = "down"
  /\ worker' = Off
  /\ UNCHANGED <<mail, age, delivered, logged, dbErrors>>

Tick ==
  /\ \E p \in Patches : mail[p] = "Sending" /\ age[p] <= GhostAge
  /\ age' = [p \in Patches |-> IF mail[p] = "Sending" /\ age[p] <= GhostAge
                               THEN age[p] + 1 ELSE age[p]]
  /\ UNCHANGED <<mail, smtp, worker, delivered, logged, crashes, dbErrors>>

-----------------------------------------------------------------------------
WorkerStep == \/ Sweep \/ (\E p \in Patches : Lock(p)) \/ NothingToSend
              \/ SendDry \/ Deliver \/ Refuse \/ Acknowledge \/ AcknowledgeFails

Next == \/ Start \/ WorkerStep \/ Crash \/ Tick
        \/ \E p \in Patches : Queue(p)

Spec == Init /\ [][Next]_vars

(***************************************************************************)
(* A supervisor starts the daemon again, its runtime schedules the worker, *)
(* every SMTP exchange ends, and time passes.  Nobody has to queue a mail. *)
(***************************************************************************)
FairSpec == Spec /\ WF_vars(Start) /\ WF_vars(WorkerStep) /\ WF_vars(Tick)
-----------------------------------------------------------------------------
(***************************************************************************)
(* Properties                                                              *)
(***************************************************************************)
\* "prevent duplicate emails during crashes" (designs/email_interface.md:4), as
\* far as it goes: each delivery of a mail after the first one is the price of
\* a crash or of a failed UPDATE between the server and the acknowledgement.
RedeliveryIsPaidFor == \A p \in Patches : delivered[p] <= 1 + crashes + dbErrors

\* A verdict is final: what was skipped, muted, recorded under a disabled or a
\* dry-run SMTP, sent or given up stays so, whatever settings later starts read.
VerdictIsFinal ==
  [][\A p \in Patches : mail[p] \in Final => mail'[p] = mail[p]]_vars

\* A mail shown as Sent was accepted by the server or logged by a dry run.
SentIsAccepted ==
  \A p \in Patches : mail[p] = "Sent" => delivered[p] > 0 \/ p \in logged

\* A row that is Pending or claimed reaches a verdict, also when its sender died
\* or could not acknowledge it, unless the daemon now runs without SMTP.
QueuedIsSettled ==
  \A p \in Patches :
    mail[p] \in {"Pending", "Sending"} ~> (mail[p] \in Final \/ smtp = "none")
=============================================================================
