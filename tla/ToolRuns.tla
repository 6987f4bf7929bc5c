------------------------------ MODULE ToolRuns ------------------------------
(***************************************************************************)
(* run_review_tool of src/reviewer.rs, one per running review, and the     *)
(* QuotaManager of src/ai/quota.rs they share.                             *)
(*                                                                         *)
(* A run starts the review binary and reads its output line by line.  A    *)
(* request to the model goes through the loop that waits for the global    *)
(* rate limit, asks the provider and classifies what comes back.  The run  *)
(* ends with a result, at its deadline, over its token budget, or when the *)
(* schedule closes.                                                        *)
(*                                                                         *)
(* Time is discrete.  Deadlines, blocks and sleeps are what is left of     *)
(* them, and a tick takes one unit off each.  A step that only computes    *)
(* takes no time: no tick passes while one is due.                         *)
(***************************************************************************)
EXTENDS Integers

CONSTANTS
  Runs,           \* reviews that run at once
  Timeout,        \* settings.review.timeout_seconds
  MaxRetryAfter,  \* the five minutes of src/ai/quota.rs
  Delays,         \* the Retry-After values a provider may send
  BackoffCap,     \* the 60 seconds a transient error backs off at most
  Budget,         \* settings.review.max_total_tokens; 0 is no budget
  Costs,          \* tokens an answer may cost
  MaxTurns,       \* requests the review binary makes at most
  MaxRateLimits   \* rate-limit errors the provider sends at most

VARIABLES
  run,            \* run[w]: the state of run w (see Run)
  block,          \* what is left of blocked_until; 0 when requests may go out
  window,         \* should_process_reviews_now
  limits,         \* rate-limit errors so far
  pause           \* history: what is left of the longest delay a provider asked
                  \* for, until a request sent after it succeeds

vars == <<run, block, window, limits, pause>>

Smaller(a, b) == IF a <= b THEN a ELSE b
Larger(a, b)  == IF a >= b THEN a ELSE b

Pc == {"line", "wait", "asleep", "call", "backoff", "reap", "ended"}
Result == {"none", "ok", "error", "timeout", "budget", "paused"}

\* left: until the deadline, negative once it passed; sleep: until the timer
\* fires; slept: length of the sleep; backoff: length of the next sleep after a
\* transient error, doubled each time; active: history, time not spent on the
\* global block; early: history, the request went out before the delay in force
\* was asked for.
Run == [pc : Pc, result : Result, left : -(MaxRetryAfter + 1) .. Timeout,
        sleep : Nat, slept : Nat, backoff : 1 .. BackoffCap, tokens : Nat,
        turns : 0 .. MaxTurns, active : 0 .. Timeout, early : BOOLEAN]

ASSUME ToolConstants ==
  /\ Timeout \in Nat \ {0}
  /\ MaxRetryAfter \in Nat \ {0}
  /\ Delays \subseteq Nat \ {0}
  /\ BackoffCap \in Nat \ {0}
  /\ Budget \in Nat
  /\ Costs \subseteq Nat
  /\ MaxTurns \in Nat
  /\ MaxRateLimits \in Nat

TypeOK ==
  /\ run \in [Runs -> Run]
  /\ block \in 0 .. MaxRetryAfter
  /\ window \in BOOLEAN
  /\ limits \in 0 .. MaxRateLimits
  /\ pause \in 0 .. MaxRetryAfter

Started == [pc |-> "line", result |-> "none", left |-> Timeout, sleep |-> 0,
            slept |-> 0, backoff |-> 1, tokens |-> 0, turns |-> 0, active |-> 0,
            early |-> FALSE]

Init ==
  /\ run = [w \in Runs |-> Started]
  /\ block = 0
  /\ window = TRUE
  /\ limits = 0
  /\ pause = 0

Become(w, r) == run' = [run EXCEPT ![w] = r]
At(w, pc)    == run[w].pc = pc

\* The loop is left with a result; its locals are gone.
Over(r, pc, result) ==
  [Started EXCEPT !.pc = pc, !.result = result, !.left = 0, !.tokens = r.tokens,
                  !.active = r.active]

\* The run is over: the child is killed, or left to exit by itself.
EndKilled(w, result)  == Become(w, Over(run[w], "ended", result))
EndReaping(w, result) == Become(w, Over(run[w], "reap", result))

(***************************************************************************)
(* The lines of the review binary                                          *)
(***************************************************************************)
Request(w) ==
  /\ At(w, "line")
  /\ run[w].turns < MaxTurns
  /\ Become(w, [run[w] EXCEPT !.pc = "wait", !.turns = @ + 1])
  /\ UNCHANGED <<block, window, limits, pause>>

\* A line with the result, or the end of the output without one.
LastLine(w) ==
  /\ At(w, "line")
  /\ \E result \in {"ok", "error"} : EndReaping(w, result)
  /\ UNCHANGED <<block, window, limits, pause>>

\* timeout_at fires; a line that is ready at that moment may still win.
Expire(w) ==
  /\ At(w, "line")
  /\ run[w].left <= 0
  /\ EndKilled(w, "timeout")
  /\ UNCHANGED <<block, window, limits, pause>>

\* The test of the schedule, before the first line and every five seconds.
ScheduleEnds(w) ==
  /\ At(w, "line")
  /\ ~window
  /\ EndKilled(w, "paused")
  /\ UNCHANGED <<block, window, limits, pause>>

\* child.wait: nothing bounds it after a result, an error or a spent budget.
ChildExits(w) ==
  /\ At(w, "reap")
  /\ Become(w, [run[w] EXCEPT !.pc = "ended"])
  /\ UNCHANGED <<block, window, limits, pause>>

(***************************************************************************)
(* The loop of one request                                                 *)
(***************************************************************************)
\* wait_for_access sees a block and sleeps.
Sleep(w) ==
  /\ At(w, "wait")
  /\ block > 0
  /\ Become(w, [run[w] EXCEPT !.pc = "asleep", !.sleep = block, !.slept = block])
  /\ UNCHANGED <<block, window, limits, pause>>

\* deadline += slept.  (The bug: the block is charged to the review.)
Extended_Not(left, slept) == left
Extended(left, slept)     == left + slept

\* ... and looks again when it wakes: the block may be longer by now.
Wake(w) ==
  /\ At(w, "asleep")
  /\ run[w].sleep = 0
  /\ Become(w, [run[w] EXCEPT !.pc = "wait", !.slept = 0,
                              !.left = Extended(@, run[w].slept)])
  /\ UNCHANGED <<block, window, limits, pause>>

\* No block and time left: the request goes out.
Send(w) ==
  /\ At(w, "wait")
  /\ block = 0
  /\ run[w].left >= 0
  /\ Become(w, [run[w] EXCEPT !.pc = "call", !.early = FALSE])
  /\ UNCHANGED <<block, window, limits, pause>>

\* The answer is written to the child, which may be gone.
Replied(r) == {[r EXCEPT !.pc = "line", !.backoff = 1, !.early = FALSE],
               Over(r, "reap", "error")}

\* Past the deadline, or refused for good: the child gets an error for an answer.
ReplyError(w) ==
  /\ \/ At(w, "wait") /\ block = 0 /\ run[w].left < 0
     \/ At(w, "call")
  /\ \E r \in Replied(run[w]) : Become(w, r)
  /\ UNCHANGED <<block, window, limits, pause>>

\* The two budgets of the settings are counters of one kind.  (The bug: the test
\* comes before the answer is counted.)
Overspent_Late(before, after) == Budget > 0 /\ before > Budget
Overspent(before, after)      == Budget > 0 /\ after > Budget

\* report_success lifts the block, whoever set it and when; then the answer is
\* counted and goes to the child, unless the budget is spent.
Answer(w) ==
  /\ At(w, "call")
  /\ \E c \in Costs :
       LET before == run[w].tokens
           counted == [run[w] EXCEPT !.tokens = before + c]
       IN  \E r \in IF Overspent(before, before + c)
                      THEN {Over(counted, "reap", "budget")} ELSE Replied(counted) :
             Become(w, r)
  /\ block' = 0
  /\ pause' = IF run[w].early THEN pause ELSE 0
  /\ UNCHANGED <<window, limits>>

\* report_quota_error: a block never gets shorter.  (The bugs: it does; the
\* delay is not capped.)
Blocked_Last(now, delay)     == Smaller(delay, MaxRetryAfter)
Blocked_Uncapped(now, delay) == Larger(now, delay)
Blocked(now, delay)          == Larger(now, Smaller(delay, MaxRetryAfter))

RateLimited(w) ==
  /\ At(w, "call")
  /\ limits < MaxRateLimits
  /\ limits' = limits + 1
  /\ \E d \in Delays :
       /\ block' = Blocked(block, d)
       /\ pause' = Larger(pause, Smaller(d, MaxRetryAfter))
  /\ run' = [v \in Runs |-> IF v = w THEN [run[w] EXCEPT !.pc = "wait", !.early = FALSE]
                                     ELSE [run[v] EXCEPT !.early = At(v, "call")]]
  /\ UNCHANGED window

\* A transient error backs off in the run alone: 1, 2, 4, ... up to the cap, or
\* longer if the provider says so.
Transient(w) ==
  /\ At(w, "call")
  /\ \E d \in Delays \cup {0} :
       LET sleep == Larger(run[w].backoff, d)
       IN  Become(w, [run[w] EXCEPT !.pc = "backoff", !.early = FALSE,
                                    !.sleep = sleep, !.slept = sleep,
                                    !.backoff = Smaller(2 * @, BackoffCap)])
  /\ UNCHANGED <<block, window, limits, pause>>

\* The time backed off is not added to the deadline.  (The bug is to add it.)
Recharged_Exempt(left, slept) == left + slept
Recharged(left, slept)        == left

Retry(w) ==
  /\ At(w, "backoff")
  /\ run[w].sleep = 0
  /\ Become(w, [run[w] EXCEPT !.pc = "wait", !.slept = 0,
                              !.left = Recharged(@, run[w].slept)])
  /\ UNCHANGED <<block, window, limits, pause>>

(***************************************************************************)
(* Time                                                                    *)
(***************************************************************************)
Due(w) == \/ At(w, "wait")
          \/ At(w, "line") /\ run[w].left <= 0
          \/ run[w].pc \in {"asleep", "backoff"} /\ run[w].sleep = 0

Down(n) == IF n = 0 THEN 0 ELSE n - 1

\* One unit passes for a run that is not over.
Aged(r) ==
  IF r.pc \in {"reap", "ended"} THEN r
  ELSE [r EXCEPT !.left = Larger(@ - 1, -(MaxRetryAfter + 1)),
                 !.sleep = Down(@),
                 !.active = IF r.pc = "asleep" THEN @ ELSE Smaller(@ + 1, Timeout)]

Tick ==
  /\ \A w \in Runs : ~Due(w)
  /\ \E w \in Runs : ~At(w, "ended")
  /\ run' = [w \in Runs |-> Aged(run[w])]
  /\ block' = Down(block)
  /\ pause' = Down(pause)
  /\ UNCHANGED <<window, limits>>

CloseWindow == window /\ window' = FALSE /\ UNCHANGED <<run, block, limits, pause>>

-----------------------------------------------------------------------------
ChildStep(w)    == Request(w) \/ LastLine(w)
ProviderStep(w) == Answer(w) \/ RateLimited(w) \/ Transient(w)
                     \/ (At(w, "call") /\ ReplyError(w))
DaemonStep(w)   == \/ Expire(w) \/ ScheduleEnds(w) \/ ChildExits(w)
                   \/ Sleep(w) \/ Wake(w) \/ Send(w) \/ Retry(w)
                   \/ (At(w, "wait") /\ ReplyError(w))

Next == \/ \E w \in Runs : ChildStep(w) \/ ProviderStep(w) \/ DaemonStep(w)
        \/ Tick \/ CloseWindow

Spec == Init /\ [][Next]_vars

(***************************************************************************)
(* The runtime runs what is due, time passes, a child whose pipes are      *)
(* closed exits, and the HTTP client of the provider has a timeout, so a   *)
(* call is answered.  The child need never say a word.                     *)
(***************************************************************************)
FairSpec == /\ Spec
            /\ \A w \in Runs : WF_vars(DaemonStep(w)) /\ WF_vars(ProviderStep(w))
            /\ WF_vars(Tick)
-----------------------------------------------------------------------------
(***************************************************************************)
(* Properties                                                              *)
(***************************************************************************)
\* A review is timed out only for time of its own: waiting for the rate limit
\* that all reviews share is never charged to it, however often and long it is
\* woken into another block.
TimeoutIsActive ==
  \A w \in Runs : run[w].result = "timeout" => run[w].active >= Timeout

\* A run overspends by less than one answer, and asks nothing after it: the
\* tokens before the last answer were within the budget.
OverspendsOnce ==
  Budget > 0 => \A w \in Runs : \E c \in Costs \cup {0} : run[w].tokens <= Budget + c

\* A short Retry-After never cuts a longer block short: no step of a run (the
\* clock changes no pc) leaves less of the block, unless an answer lifts it.
BlockIsNotShortened ==
  [][(\E w \in Runs : run[w].pc # run'[w].pc) => block' = 0 \/ block' >= block]_vars

\* Every run ends, though the child may be silent and the provider may answer
\* every request with a transient error.
EveryRunEnds == \A w \in Runs : <>At(w, "ended")

\* "Blocking all LLM requests for {:.2}s" (src/ai/quota.rs:90): no request goes
\* out before the delay a provider asked for is over, or a request sent after
\* it succeeded.
BlockedRequestsWait ==
  [][\A w \in Runs : ~At(w, "call") /\ At(w, "call")' => pause = 0]_vars
=============================================================================
