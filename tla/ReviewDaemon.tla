---------------------------- MODULE ReviewDaemon ----------------------------
(***************************************************************************)
(* The review daemon of src/reviewer.rs over the patchsets, reviews and    *)
(* email_outbox tables of src/db.rs.                                       *)
(*                                                                         *)
(* One loop polls the database for Pending patchsets and spawns a task per *)
(* patchset, each holding a permit of the semaphore; between polls it      *)
(* releases the results whose embargo expired.  Tasks, the HTTP handlers   *)
(* (cancel, rerun, submit), the fetches a submission asks for, the         *)
(* restart-failed command and the night schedule interleave at every       *)
(* database call, and the process may crash between any two of them.  A    *)
(* statement of SQLite is atomic and the daemon puts no two of them in a   *)
(* transaction.                                                            *)
(*                                                                         *)
(* What a review says is left out: a review row keeps its status, whether  *)
(* the model was reached (interaction_id) and whether it has a text to     *)
(* mail (inline_review).                                                   *)
(***************************************************************************)
EXTENDS Naturals, Sequences, FiniteSets

CONSTANTS
  Patchsets,     \* rows of the table patchsets
  Patches,       \* rows of the table patches, numbered by date, then part_index
  Of,            \* Of[p]: the patchset of patch p
  Permits,       \* permits of the semaphore: settings.review.concurrency
  NoPatchset,    \* the patchset of a permit nobody holds
  Filtered,      \* patches the skip/only filters or the size limits leave out
  Ignored,       \* patches that touch only settings.review.ignore_files
  Embargoed,     \* patchsets stored with an embargo_until
  Arriving,      \* patchsets still Incomplete at the start
  BatchLimit,    \* the 10 of get_pending_patchsets(10)
  ReleaseLimit,  \* the 10 of get_expired_embargoed_patchsets(now, 10)
  MaxRetries,    \* settings.review.max_retries
  Outcomes,      \* how run_review_tool may end (see Outcome)
  Limit          \* Limit[e]: how often the environment event e may happen

VARIABLES
  status,        \* patchsets.status
  target,        \* patchsets.target_review_count
  reviews,       \* reviews[p]: the rows of patch p, in the order of their ids
  outbox,        \* outbox[p]: the number of email_outbox rows of patch p
  embargo,       \* embargo_until against the clock: "none", "active", "expired"
  window,        \* should_process_reviews_now
  loop,          \* where Reviewer::start is: boot, poll, dispatch, release, mail
  batch,         \* rows of get_pending_patchsets that wait for a permit
  rel,           \* patches of expired patchsets still to notify
  task,          \* task[k]: the review task that holds permit k
  rerunning,     \* patchsets between the two UPDATEs of rerun_patchset
  fetching,      \* patchsets submitted again whose fetch has not come back
  owed,          \* history: patchsets to which a rerun or restart owes an attempt
  disturbed,     \* history: patchsets whose review or whose result a rerun or a
                 \* failed fetch wrote over
  used           \* history: used[e] counts the environment event e

vars == <<status, target, reviews, outbox, embargo, window, loop, batch, rel,
          task, rerunning, fetching, owed, disturbed, used>>

\* What submissions write besides the status, and what no task writes.
fetchVars == <<fetching, disturbed>>
noTask == <<target, embargo, window, loop, batch, rel, rerunning, fetchVars, used>>

(***************************************************************************)
(* Types                                                                   *)
(***************************************************************************)
Status == {"Fetching", "Incomplete", "Pending", "In Review", "Cancelled",
           "Reviewed", "Failed", "Failed To Apply"}

Event == {"cancel", "rerun", "restart", "submit", "crash", "close"}

\* ok, silent: a review with / without inline_review; retry: a failure that
\* reached the model; hard: a tool error that did not; missing: a reply with
\* no review; noai: --no-ai.
Outcome == {"ok", "silent", "retry", "hard", "missing", "noai"}

Row == [st : {"Pending", "In Review", "Reviewed", "Failed", "Skipped"},
        ai : BOOLEAN, inline : BOOLEAN]
NewRow == [st |-> "Pending", ai |-> FALSE, inline |-> FALSE]

Pc == {"free", "spawned", "setup", "next", "attempt", "take", "running",
       "notify", "insert", "paused", "final"}

Task == [pc : Pc, ps : Patchsets \cup {NoPatchset}, goal : Nat,
         todo : SUBSET Patches, patch : Nat, tries : Nat, row : Nat,
         failed : BOOLEAN]

Free == [pc |-> "free", ps |-> NoPatchset, goal |-> 0, todo |-> {},
         patch |-> 0, tries |-> 0, row |-> 0, failed |-> FALSE]

PatchesOf(s) == {p \in Patches : Of[p] = s}
Jobs(s)      == PatchesOf(s) \ Filtered

\* The order of patchsets.date.
Older(s, t) == \E p \in PatchesOf(s) : \A q \in PatchesOf(t) : p < q

ASSUME ConstantsOK ==
  /\ Patches \subseteq Nat \ {0}
  /\ Of \in [Patches -> Patchsets]
  /\ NoPatchset \notin Patchsets
  /\ Embargoed \subseteq Patchsets
  /\ BatchLimit \in Nat \ {0}
  /\ ReleaseLimit \in Nat \ {0}
  /\ MaxRetries \in Nat
  /\ Outcomes \subseteq Outcome
  /\ Limit \in [Event -> Nat]

TypeOK ==
  /\ status \in [Patchsets -> Status]
  /\ target \in [Patchsets -> Nat]
  /\ reviews \in [Patches -> Seq(Row)]
  /\ outbox \in [Patches -> Nat]
  /\ embargo \in [Patchsets -> {"none", "active", "expired"}]
  /\ window \in BOOLEAN
  /\ loop \in {"boot", "poll", "dispatch", "release", "mail"}
  /\ batch \subseteq [ps : Patchsets, goal : Nat]
  /\ rel \subseteq Patches
  /\ task \in [Permits -> Task]
  /\ rerunning \subseteq Patchsets
  /\ fetching \subseteq Patchsets
  /\ owed \subseteq Patchsets
  /\ disturbed \subseteq Patchsets
  /\ used \in [Event -> Nat]

Init ==
  /\ status = [s \in Patchsets |-> IF s \in Arriving THEN "Incomplete"
                                                    ELSE "Pending"]
  /\ target = [s \in Patchsets |-> 1]
  /\ reviews = [p \in Patches |-> <<>>]
  /\ outbox = [p \in Patches |-> 0]
  /\ embargo = [s \in Patchsets |-> IF s \in Embargoed THEN "active" ELSE "none"]
  /\ window = TRUE
  /\ loop = "boot"
  /\ batch = {}
  /\ rel = {}
  /\ task = [k \in Permits |-> Free]
  /\ rerunning = {}
  /\ fetching = {}
  /\ owed = {}
  /\ disturbed = {}
  /\ used = [e \in Event |-> 0]

(***************************************************************************)
(* The loop of Reviewer::start                                             *)
(***************************************************************************)
\* Bugs for the mutants: nothing is reset; a name no reader knows is written;
\* every row is reset.
ResetStatus_Forgotten(st) == st
ResetStatus_Unknown(st)   == IF st = "In Review" THEN "Reviewing" ELSE st
ResetRow_Forgotten(r)     == r
ResetRow_Every(r)         == [r EXCEPT !.st = "Pending"]

ResetStatus(st) == IF st = "In Review" THEN "Pending" ELSE st
ResetRow(r)     == IF r.st = "In Review" THEN [r EXCEPT !.st = "Pending"] ELSE r

\* reset_reviewing_status: what the previous process left in review is Pending.
Boot ==
  /\ loop = "boot"
  /\ loop' = "poll"
  /\ status' = [s \in Patchsets |-> ResetStatus(status[s])]
  /\ reviews' = [p \in Patches |->
                 [n \in DOMAIN reviews[p] |-> ResetRow(reviews[p][n])]]
  /\ UNCHANGED <<target, outbox, embargo, window, batch, rel, task, rerunning,
                 owed, used, fetchVars>>

\* Bugs for the mutants: the poller also takes what is in review, or what failed.
Pollable_InReview(s) == status[s] \in {"Pending", "In Review"}
Pollable_Failed(s)   == status[s] \in {"Pending", "Failed"}

Pollable(s) == status[s] = "Pending"
PendingRows     == {s \in Patchsets : Pollable(s)}
NewestPending   == {s \in PendingRows :
                      Cardinality({x \in PendingRows : Older(s, x)}) < BatchLimit}

\* process_pending_patchsets reads a snapshot of at most BatchLimit rows.  The
\* ten seconds the loop sleeps cover the first UPDATE of the tasks it spawned.
Poll ==
  /\ loop = "poll"
  /\ \A k \in Permits : task[k].pc # "spawned"
  /\ loop' = "dispatch"
  /\ batch' = IF window THEN {[ps |-> s, goal |-> target[s]] : s \in NewestPending}
                        ELSE {}
  /\ UNCHANGED <<status, target, reviews, outbox, embargo, window, rel, task,
                 rerunning, owed, used, fetchVars>>

Become(k, t) == task' = [task EXCEPT ![k] = t]

\* semaphore.acquire_owned().await, then tokio::spawn with the row of the snapshot.
Dispatch(k) ==
  /\ loop = "dispatch"
  /\ task[k].pc = "free"
  /\ \E r \in batch :
       /\ batch' = batch \ {r}
       /\ Become(k, [Free EXCEPT !.pc = "spawned", !.ps = r.ps, !.goal = r.goal])
  /\ UNCHANGED <<status, target, reviews, outbox, embargo, window, loop, rel,
                 rerunning, owed, used, fetchVars>>

HasReviewed(p) == \E n \in DOMAIN reviews[p] : reviews[p][n].st = "Reviewed"

\* SELECT 1 FROM email_outbox WHERE patch_id = ?, and a query that finds nothing.
Queued_Never(p) == FALSE
Queued(p)       == outbox[p] > 0

\* Bug for the mutants: a patchset still in review.
Releasable_Early(s) == /\ status[s] = "In Review"
                       /\ embargo[s] = "expired"
                       /\ \A p \in PatchesOf(s) : ~Queued(p)

\* get_expired_embargoed_patchsets: no patch of the set has an outbox row yet.
Releasable(s) == /\ status[s] = "Reviewed"
                 /\ embargo[s] = "expired"
                 /\ \A p \in PatchesOf(s) : ~Queued(p)

ReleaseRows     == {s \in Patchsets : Releasable(s)}
OldestExpired   == {s \in ReleaseRows :
                      Cardinality({x \in ReleaseRows : Older(x, s)}) < ReleaseLimit}

\* The batch is spawned: list the reviews of the patchsets to release.
ReleaseScan ==
  /\ loop = "dispatch"
  /\ batch = {}
  /\ loop' = "release"
  /\ rel' = {p \in Patches : Of[p] \in OldestExpired /\ HasReviewed(p)}
  /\ UNCHANGED <<status, target, reviews, outbox, embargo, window, batch, task,
                 rerunning, owed, used, fetchVars>>

\* queue_notifications of one patch: its SELECT, then the INSERT.
ReleaseCheck ==
  /\ loop = "release"
  /\ \E p \in rel :
       /\ \A q \in rel : p <= q
       /\ IF Queued(p)
            THEN rel' = rel \ {p} /\ UNCHANGED loop
            ELSE loop' = "mail" /\ UNCHANGED rel
  /\ UNCHANGED <<status, target, reviews, outbox, embargo, window, batch, task,
                 rerunning, owed, used, fetchVars>>

ReleaseInsert ==
  /\ loop = "mail"
  /\ \E p \in rel :
       /\ \A q \in rel : p <= q
       /\ outbox' = [outbox EXCEPT ![p] = @ + 1]
       /\ rel' = rel \ {p}
  /\ loop' = "release"
  /\ UNCHANGED <<status, target, reviews, embargo, window, batch, task,
                 rerunning, owed, used, fetchVars>>

ReleaseEnd ==
  /\ loop = "release"
  /\ rel = {}
  /\ loop' = "poll"
  /\ UNCHANGED <<status, target, reviews, outbox, embargo, window, batch, rel,
                 task, rerunning, owed, used, fetchVars>>

(***************************************************************************)
(* review_patchset_task                                                    *)
(***************************************************************************)
At(k, pc) == task[k].pc = pc

\* The first statement writes In Review over whatever the status is by now.
Begin(k) ==
  /\ At(k, "spawned")
  /\ status' = [status EXCEPT ![task[k].ps] = "In Review"]
  /\ Become(k, [task[k] EXCEPT !.pc = "setup"])
  /\ UNCHANGED <<reviews, outbox, owed, noTask>>

\* get_patch_diffs fails, or the series applies to no candidate baseline.
SetupFails(k) ==
  /\ At(k, "setup")
  /\ \E st \in {"Failed", "Failed To Apply"} :
       status' = [status EXCEPT ![task[k].ps] = st]
  /\ Become(k, Free)
  /\ UNCHANGED <<reviews, outbox, owed, noTask>>

\* prepare_baseline_worktree found a baseline: queue the patches to review.
BaselineFound(k) ==
  /\ At(k, "setup")
  /\ Become(k, [task[k] EXCEPT !.pc = "next", !.todo = Jobs(task[k].ps)])
  /\ UNCHANGED <<status, reviews, outbox, owed, noTask>>

(***************************************************************************)
(* process_patch_review                                                    *)
(***************************************************************************)
\* The job at the head of valid_jobs_queue.
Turn(k, p) == /\ At(k, "next")
              /\ p \in task[k].todo
              /\ \A q \in task[k].todo : p <= q

Successes(p)     == {n \in DOMAIN reviews[p] : reviews[p][n].st = "Reviewed"}
EnoughReviews(k, p) == Cardinality(Successes(p)) >= task[k].goal

\* has_failed_review: a failure that never reached the model.
HardFailure(p) == \E n \in DOMAIN reviews[p] :
                    reviews[p][n].st = "Failed" /\ ~reviews[p][n].ai

\* get_pending_review_id; 0 when there is none (LIMIT 1: any of them).
PendingIds(p) == {n \in DOMAIN reviews[p] : reviews[p][n].st = "Pending"}
ClaimIds(p)   == IF PendingIds(p) = {} THEN {0} ELSE PendingIds(p)

AlreadyReviewed(k, p) ==
  /\ Turn(k, p)
  /\ EnoughReviews(k, p)
  /\ Become(k, [task[k] EXCEPT !.todo = @ \ {p}])
  /\ UNCHANGED <<status, reviews, outbox, owed, noTask>>

BlockedByFailure(k, p) ==
  /\ Turn(k, p)
  /\ ~EnoughReviews(k, p)
  /\ HardFailure(p)
  /\ Become(k, [task[k] EXCEPT !.todo = @ \ {p}, !.failed = TRUE])
  /\ UNCHANGED <<status, reviews, outbox, owed, noTask>>

\* The rows with r for row n, or with r as a new row when there is none to claim.
WithRow(rows, n, r) == IF n = 0 THEN Append(rows, r) ELSE [rows EXCEPT ![n] = r]

SkipIgnored(k, p) ==
  /\ Turn(k, p)
  /\ ~EnoughReviews(k, p)
  /\ ~HardFailure(p)
  /\ p \in Ignored
  /\ \E n \in ClaimIds(p) :
       reviews' = [reviews EXCEPT ![p] = WithRow(@, n, [NewRow EXCEPT !.st = "Skipped"])]
  /\ Become(k, [task[k] EXCEPT !.todo = @ \ {p}])
  /\ UNCHANGED <<status, outbox, owed, noTask>>

StartPatch(k, p) ==
  /\ Turn(k, p)
  /\ ~EnoughReviews(k, p)
  /\ ~HardFailure(p)
  /\ p \notin Ignored
  /\ \E n \in ClaimIds(p) :
       Become(k, [task[k] EXCEPT !.pc = "attempt", !.patch = p, !.todo = @ \ {p},
                                 !.row = n, !.tries = 0])
  /\ UNCHANGED <<status, reviews, outbox, owed, noTask>>

\* Top of the retry loop: the claimed row is used once, a retry creates a new
\* one, Pending like a row that another task may claim.
Attempt(k) ==
  /\ At(k, "attempt")
  /\ window
  /\ LET p == task[k].patch
         n == task[k].row
     IN  /\ reviews' = [reviews EXCEPT ![p] =
                          IF n = 0 THEN Append(@, NewRow) ELSE @]
         /\ Become(k, [task[k] EXCEPT !.pc = "take",
                                   !.row = IF n = 0 THEN Len(reviews[p]) + 1 ELSE n])
  /\ UNCHANGED <<status, outbox, owed, noTask>>

\* update_review_status of the row the task works on.
Mark(k, st) == reviews' = [reviews EXCEPT ![task[k].patch] =
                             [@ EXCEPT ![task[k].row].st = st]]

\* The row goes In Review and the tool runs, unless the window closed meanwhile
\* (PauseReview stands for the second test of the schedule too).
TakeRow(k) ==
  /\ At(k, "take")
  /\ Mark(k, "In Review")
  /\ Become(k, [task[k] EXCEPT !.pc = "running"])
  /\ owed' = owed \ {task[k].ps}
  /\ UNCHANGED <<status, outbox, noTask>>

PauseBeforeAttempt(k) ==
  /\ At(k, "attempt")
  /\ ~window
  /\ Become(k, [task[k] EXCEPT !.pc = "paused"])
  /\ UNCHANGED <<status, reviews, outbox, owed, noTask>>

\* complete_review writes every column of the row the task works on.
Complete(k, st, ai, inline) ==
  reviews' = [reviews EXCEPT ![task[k].patch] =
                [@ EXCEPT ![task[k].row] = [st |-> st, ai |-> ai, inline |-> inline]]]

\* The embargo of the patchset is over or was never there (and two wrong tests).
MayMail_Always(s)  == TRUE
MayMail_Expired(s) == embargo[s] = "expired"
MayMail(s)         == embargo[s] # "active"

\* A review came back.  An embargoed one, or one without a text, queues no mail.
Succeed(k) ==
  /\ At(k, "running")
  /\ \E o \in Outcomes \cap {"ok", "silent"} :
       /\ Complete(k, "Reviewed", TRUE, o = "ok")
       /\ Become(k, [task[k] EXCEPT !.pc = IF o = "ok" /\ MayMail(task[k].ps)
                                           THEN "notify" ELSE "next"])
  /\ UNCHANGED <<status, outbox, owed, noTask>>

\* A failure is retried with a new row while retries are left; a reply without
\* a review is not.  (The bug: what is not retried is not counted either.)
AfterFailure_Uncounted(t, o) ==
  IF o # "missing" /\ t.tries < MaxRetries
    THEN [t EXCEPT !.pc = "attempt", !.tries = @ + 1, !.row = 0]
    ELSE [t EXCEPT !.pc = "next"]

AfterFailure(t, o) ==
  IF o # "missing" /\ t.tries < MaxRetries
    THEN [t EXCEPT !.pc = "attempt", !.tries = @ + 1, !.row = 0]
    ELSE [t EXCEPT !.pc = "next", !.failed = TRUE]

Fail(k) ==
  /\ At(k, "running")
  /\ \E o \in Outcomes \cap {"retry", "hard", "missing"} :
       /\ Complete(k, "Failed", o # "hard", FALSE)
       /\ Become(k, AfterFailure(task[k], o))
  /\ UNCHANGED <<status, outbox, owed, noTask>>

SkipNoAi(k) ==
  /\ At(k, "running")
  /\ "noai" \in Outcomes
  /\ Complete(k, "Skipped", TRUE, FALSE)
  /\ Become(k, [task[k] EXCEPT !.pc = "next"])
  /\ UNCHANGED <<status, outbox, owed, noTask>>

\* The schedule closes under the tool: the row waits for the next window.
PauseReview(k) ==
  /\ At(k, "running")
  /\ ~window
  /\ Mark(k, "Pending")
  /\ Become(k, [task[k] EXCEPT !.pc = "paused"])
  /\ UNCHANGED <<status, outbox, owed, noTask>>

\* queue_notifications: SELECT FROM email_outbox, then the INSERT.
NotifyCheck(k) ==
  /\ At(k, "notify")
  /\ Become(k, [task[k] EXCEPT !.pc = IF Queued(task[k].patch) THEN "next"
                                                               ELSE "insert"])
  /\ UNCHANGED <<status, reviews, outbox, owed, noTask>>

NotifyInsert(k) ==
  /\ At(k, "insert")
  /\ outbox' = [outbox EXCEPT ![task[k].patch] = @ + 1]
  /\ Become(k, [task[k] EXCEPT !.pc = "next"])
  /\ UNCHANGED <<status, reviews, owed, noTask>>

(***************************************************************************)
(* The end of review_patchset_task                                         *)
(***************************************************************************)
\* Paused by the schedule: back to Pending, whatever the status is by now.
Park(k) ==
  /\ At(k, "paused")
  /\ status' = [status EXCEPT ![task[k].ps] = "Pending"]
  /\ Become(k, Free)
  /\ UNCHANGED <<reviews, outbox, owed, noTask>>

\* get_patchset_status: a cancelled patchset keeps its status ...
ReadBack(k) ==
  /\ At(k, "next")
  /\ task[k].todo = {}
  /\ Become(k, IF status[task[k].ps] = "Cancelled"
                 THEN Free ELSE [task[k] EXCEPT !.pc = "final"])
  /\ UNCHANGED <<status, reviews, outbox, owed, noTask>>

\* ... and any other gets the outcome in a statement of its own.
WriteFinal(k) ==
  /\ At(k, "final")
  /\ status' = [status EXCEPT ![task[k].ps] =
                  IF task[k].failed THEN "Failed" ELSE "Reviewed"]
  /\ Become(k, Free)
  /\ UNCHANGED <<reviews, outbox, owed, noTask>>

(***************************************************************************)
(* Requests, commands, the clock and crashes                               *)
(***************************************************************************)
Spend(e) == /\ used[e] < Limit[e]
            /\ used' = [used EXCEPT ![e] = @ + 1]

\* cancel_patchset, with force or without.
Cancel(s, force) ==
  /\ Spend("cancel")
  /\ status[s] \in {"Pending", "Incomplete"} \cup (IF force THEN {"In Review"} ELSE {})
  /\ status' = [status EXCEPT ![s] = "Cancelled"]
  /\ UNCHANGED <<target, reviews, outbox, embargo, window, loop, batch, rel, task,
                 rerunning, owed, fetchVars>>

Completed == {"Reviewed", "Failed", "Failed To Apply"}

\* rerun_patchset is two statements: the status first ...
RerunStatus(s) ==
  /\ Spend("rerun")
  /\ s \notin rerunning
  /\ status' = [status EXCEPT ![s] = "Pending"]
  /\ rerunning' = rerunning \cup {s}
  /\ owed' = IF status[s] \in Completed THEN owed \cup {s} ELSE owed
  /\ disturbed' = disturbed \cup {s}
  /\ UNCHANGED <<target, reviews, outbox, embargo, window, loop, batch, rel, task,
                 fetching>>

\* ... then the number of reviews it asks for.
RerunTarget(s) ==
  /\ s \in rerunning
  /\ target' = [target EXCEPT ![s] = @ + 1]
  /\ rerunning' = rerunning \ {s}
  /\ UNCHANGED <<status, reviews, outbox, embargo, window, loop, batch, rel, task,
                 owed, used, fetchVars>>

FailedSets == {s \in Patchsets : status[s] \in {"Failed", "Failed To Apply"}}

\* The restart-failed command, a process of its own on the same database.
RestartFailed ==
  /\ Spend("restart")
  /\ FailedSets # {}
  /\ status' = [s \in Patchsets |-> IF s \in FailedSets THEN "Pending" ELSE status[s]]
  /\ owed' = owed \cup FailedSets
  /\ UNCHANGED <<target, reviews, outbox, embargo, window, loop, batch, rel, task,
                 rerunning, fetchVars>>

\* Ingestion stores the last part of the series (create_patch).
LastPartArrives(s) ==
  /\ status[s] = "Incomplete"
  /\ status' = [status EXCEPT ![s] = "Pending"]
  /\ UNCHANGED <<target, reviews, outbox, embargo, window, loop, batch, rel, task,
                 rerunning, owed, used, fetchVars>>

\* The states of a patchset that a task, a snapshot row or the release holds, or
\* may have reviewed.
Taken == {"Pending", "In Review", "Cancelled", "Reviewed"}

\* The commit or the thread of a known patchset is submitted again: only what
\* failed becomes a placeholder again (create_fetching_patchset), but whatever
\* its status the fetch is asked for.
Resubmit(s) ==
  /\ Spend("submit")
  /\ status' = [status EXCEPT ![s] = IF @ = "Failed" THEN "Fetching" ELSE @]
  /\ fetching' = fetching \cup {s}
  /\ UNCHANGED <<target, reviews, outbox, embargo, window, loop, batch, rel, task,
                 rerunning, owed, disturbed>>

\* The fetch comes back: create_patchset makes the placeholder Incomplete again
\* and leaves any other status alone.
FetchArrives(s) ==
  /\ s \in fetching
  /\ status' = [status EXCEPT ![s] = IF @ = "Fetching" THEN "Incomplete" ELSE @]
  /\ fetching' = fetching \ {s}
  /\ UNCHANGED <<target, reviews, outbox, embargo, window, loop, batch, rel, task,
                 rerunning, owed, disturbed, used>>

\* It fails: update_patchset_error writes Failed over any status, In Review too.
FetchFails(s) ==
  /\ s \in fetching
  /\ status' = [status EXCEPT ![s] = "Failed"]
  /\ fetching' = fetching \ {s}
  /\ disturbed' = IF status[s] \in Taken THEN disturbed \cup {s} ELSE disturbed
  /\ UNCHANGED <<target, reviews, outbox, embargo, window, loop, batch, rel, task,
                 rerunning, owed, used>>

CloseWindow ==
  /\ window
  /\ Spend("close")
  /\ window' = FALSE
  /\ UNCHANGED <<status, target, reviews, outbox, embargo, loop, batch, rel, task,
                 rerunning, owed, fetchVars>>

OpenWindow ==
  /\ ~window
  /\ window' = TRUE
  /\ UNCHANGED <<status, target, reviews, outbox, embargo, loop, batch, rel, task,
                 rerunning, owed, used, fetchVars>>

EmbargoEnds(s) ==
  /\ embargo[s] = "active"
  /\ embargo' = [embargo EXCEPT ![s] = "expired"]
  /\ UNCHANGED <<status, target, reviews, outbox, window, loop, batch, rel, task,
                 rerunning, owed, used, fetchVars>>

\* The process dies with its tasks, its loop and its requests; the tables stay.
Crash ==
  /\ Spend("crash")
  /\ task' = [k \in Permits |-> Free]
  /\ loop' = "boot"
  /\ batch' = {}
  /\ rel' = {}
  /\ rerunning' = {}
  /\ fetching' = {}
  /\ UNCHANGED <<status, target, reviews, outbox, embargo, window, owed, disturbed>>

-----------------------------------------------------------------------------
Loop == \/ Boot \/ Poll \/ (\E k \in Permits : Dispatch(k))
        \/ ReleaseScan \/ ReleaseCheck \/ ReleaseInsert \/ ReleaseEnd

PatchStep(k) == \E p \in Patches :
  \/ AlreadyReviewed(k, p) \/ BlockedByFailure(k, p)
  \/ SkipIgnored(k, p) \/ StartPatch(k, p)

TaskStep(k) ==
  \/ Begin(k) \/ SetupFails(k) \/ BaselineFound(k) \/ PatchStep(k)
  \/ Attempt(k) \/ TakeRow(k) \/ PauseBeforeAttempt(k) \/ Succeed(k) \/ Fail(k) \/ SkipNoAi(k)
  \/ PauseReview(k) \/ NotifyCheck(k) \/ NotifyInsert(k)
  \/ Park(k) \/ ReadBack(k) \/ WriteFinal(k)

Submits(s) == Resubmit(s) \/ FetchArrives(s) \/ FetchFails(s)

Requests == \E s \in Patchsets :
  \/ \E force \in BOOLEAN : Cancel(s, force)
  \/ RerunStatus(s) \/ RerunTarget(s) \/ LastPartArrives(s) \/ EmbargoEnds(s)
  \/ Submits(s)

Next == \/ Loop
        \/ \E k \in Permits : TaskStep(k)
        \/ Requests
        \/ RestartFailed \/ CloseWindow \/ OpenWindow \/ Crash

Spec == Init /\ [][Next]_vars

(***************************************************************************)
(* The runtime schedules every spawned task and the loop; the tool has a   *)
(* timeout, so a running review ends; the window opens again every day; a  *)
(* request that was accepted runs to its end.  Nobody has to cancel, rerun *)
(* or crash anything.                                                      *)
(***************************************************************************)
Fairness == /\ WF_vars(Loop)
            /\ \A k \in Permits : WF_vars(TaskStep(k))
            /\ \A s \in Patchsets : WF_vars(RerunTarget(s)) /\ WF_vars(EmbargoEnds(s))
            /\ WF_vars(OpenWindow)

FairSpec == Spec /\ Fairness
-----------------------------------------------------------------------------
(***************************************************************************)
(* Properties                                                              *)
(***************************************************************************)
Busy(k, s)    == task[k].ps = s /\ task[k].pc \notin {"free", "spawned"}
Settled       == {"Fetching", "Incomplete", "Cancelled"} \cup Completed

\* A patchset shown In Review is being reviewed: some task of this process is
\* past its first statement and will write another status.  Only between a
\* crash and reset_reviewing_status may one be left behind.
InReviewIsOwned ==
  loop # "boot" =>
    \A s \in Patchsets : status[s] = "In Review" => \E k \in Permits : Busy(k, s)

\* A review row shown In Review is the row some task is running right now, so
\* neither a retry, a pause nor two tasks on one patchset leave one behind.
RunningRowIsOwned ==
  loop # "boot" =>
    \A p \in Patches : \A n \in DOMAIN reviews[p] :
      reviews[p][n].st = "In Review" =>
        \E k \in Permits : At(k, "running") /\ task[k].patch = p /\ task[k].row = n

\* Nothing is mailed about a patch while its embargo lasts, whichever of the
\* tasks and the release loop reviewed it and whatever crashed in between.
NoMailUnderEmbargo ==
  \A p \in Patches : embargo[Of[p]] = "active" => outbox[p] = 0

\* A patchset has one task: the snapshot of the poller never gives it to two,
\* not by crash, cancel, restart, pause or a submission that comes back or fails
\* before the review.  A rerun, or a failed fetch that writes Failed over a review
\* (restart-failed then makes it Pending again), does give it to a second one.
OneTaskPerPatchset ==
  \A k, l \in Permits :
    /\ task[k].pc # "free" /\ task[k].ps = task[l].ps
    /\ task[k].ps \notin disturbed
    => k = l

\* A final status is final: no task and no snapshot row still works on a patchset
\* that shows its outcome, again but for the two that write over a review.
OutcomeIsQuiet ==
  \A s \in Patchsets \ disturbed : status[s] \in Completed =>
    /\ \A k \in Permits : task[k].ps # s
    /\ \A r \in batch : r.ps # s

\* Reviewed means that every patch that was to be reviewed has a row that says
\* so, across retries and restarts, unless a rerun or a failed fetch wrote over
\* the review.
ReviewedIsReviewed ==
  \A s \in Patchsets \ disturbed : status[s] = "Reviewed" =>
    \A p \in Jobs(s) : \E n \in DOMAIN reviews[p] :
      reviews[p][n].st \in {"Reviewed", "Skipped"}

Undisturbed == {p \in Patches : Of[p] \notin disturbed}

\* At most one row of email_outbox per patch, whoever of the tasks and the
\* release loop checks and inserts, unless a rerun or a failed fetch wrote over
\* its review.
OneMailPerReview == \A p \in Undisturbed : outbox[p] <= 1

\* "Prevent duplicate emails for the same patch" (src/db.rs:3999): at most one
\* row of email_outbox per patch, reruns included.
OneMailPerPatch == \A p \in Patches : outbox[p] <= 1

\* "was cancelled during review, preserving status" (src/reviewer.rs:755): once
\* Cancelled, only a rerun request may change the status.
CancelIsKept ==
  [][\A s \in Patchsets :
       status[s] = "Cancelled" => status'[s] = "Cancelled" \/ s \in rerunning']_vars

\* A completed review is never taken back: a row that says Reviewed keeps
\* saying so, unless a rerun or a failed fetch wrote over the review.
ReviewIsKept ==
  [][\A p \in Undisturbed : \A n \in DOMAIN reviews[p] :
       reviews[p][n].st = "Reviewed" =>
         n \in DOMAIN reviews'[p] /\ reviews'[p][n].st = "Reviewed"]_vars

\* Once requests and crashes stop, every patchset gets an outcome: none stays
\* Pending or In Review for ever, whatever was interrupted before.
EverythingSettles == <>[](\A s \in Patchsets : status[s] \in Settled)

Mailable(p) == \E n \in DOMAIN reviews[p] :
                 reviews[p][n].st = "Reviewed" /\ reviews[p][n].inline

Crashed     == used["crash"] > 0

\* A finished review that is under no embargo ends in the outbox, as long as
\* the process lives: a crash between complete_review and the INSERT loses it.
ReviewIsMailed ==
  \A p \in Patches :
    (embargo[Of[p]] = "none" /\ Mailable(p)) ~> (outbox[p] > 0 \/ Crashed)

\* "Hours to wait before sending a review" (docs/configuration.md:172): when
\* the embargo is over, the reviews of a patchset that stays Reviewed are sent.
EmbargoedIsMailed ==
  \A p \in Patches :
    (embargo[Of[p]] = "expired" /\ status[Of[p]] = "Reviewed" /\ Mailable(p))
      ~> (outbox[p] > 0 \/ status[Of[p]] # "Reviewed")

\* "Request a re-review of a completed patchset" (docs/sashiko-cli.md:131) and
\* "Restart failed reviews" (src/main.rs:69): a patchset that was completed
\* when the request came is attempted again.
OwedIsAttempted == \A s \in Patchsets : s \in owed ~> s \notin owed
=============================================================================
