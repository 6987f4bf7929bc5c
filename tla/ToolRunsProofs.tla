--------------------------- MODULE ToolRunsProofs ---------------------------
(***************************************************************************)
(* Proofs about ToolRuns, for any number of runs, any timeout, delays,     *)
(* backoff and budget.                                                     *)
(***************************************************************************)
EXTENDS ToolRuns, TLAPS

Ended(r) == r.pc \in {"reap", "ended"}

\* How long a run has slept on the global block without having it added to its
\* deadline yet.
Uncharged(r) == IF r.pc = "asleep" THEN r.slept - r.sleep ELSE 0

\* A sleep on the global block is no longer than a block, and the deadline stays
\* within reach of Timeout once it is added.
SleepOK(r) == r.pc = "asleep" =>
  /\ r.sleep <= r.slept
  /\ r.slept <= MaxRetryAfter
  /\ r.left + r.slept - r.sleep <= Timeout

\* The deadline is as far away as there is active time left.
DeadlineOK(r) ==
  Ended(r) \/ r.active >= Timeout \/ r.left + Uncharged(r) >= Timeout - r.active

\* Only a run that is over has a result, a timeout that of a full active time.
ResultOK(r) == /\ ~Ended(r) => r.result = "none"
               /\ r.result = "timeout" => r.active >= Timeout

\* A run that goes on is within its budget, and one answer took it over.
BudgetOK(r) == Budget > 0 =>
  /\ ~Ended(r) => r.tokens <= Budget
  /\ \E c \in Costs \cup {0} : r.tokens <= Budget + c

RunOK(r) == r \in Run /\ SleepOK(r) /\ DeadlineOK(r) /\ ResultOK(r) /\ BudgetOK(r)

SharedOK == /\ block \in 0 .. MaxRetryAfter
            /\ window \in BOOLEAN
            /\ limits \in 0 .. MaxRateLimits
            /\ pause \in 0 .. MaxRetryAfter

Inv == /\ run \in [Runs -> Run]
       /\ \A w \in Runs : RunOK(run[w])
       /\ SharedOK

-----------------------------------------------------------------------------
(***************************************************************************)
(* One run                                                                 *)
(***************************************************************************)
\* What happens in one run leaves the others alone.
LEMMA BecomeOK ==
  ASSUME Inv, NEW w \in Runs, NEW r, RunOK(r), Become(w, r)
  PROVE  run' \in [Runs -> Run] /\ \A v \in Runs : RunOK(run'[v])
<1>1. r \in Run
  BY DEF RunOK
<1>2. run' = [run EXCEPT ![w] = r]
  BY DEF Become
<1> QED
  BY <1>1, <1>2 DEF Inv

\* The values a field is set to are of its type.
LEMMA Origins == /\ 0 \in -(MaxRetryAfter + 1) .. Timeout
                 /\ Timeout \in -(MaxRetryAfter + 1) .. Timeout
                 /\ 1 \in 1 .. BackoffCap
                 /\ 0 \in 0 .. MaxTurns /\ 0 \in 0 .. Timeout
BY ToolConstants

\* A run that is over is sound if its result and its tokens are.
LEMMA OverRun ==
  ASSUME NEW r \in Run, NEW pc \in {"reap", "ended"}, NEW result \in Result,
         result = "timeout" => r.active >= Timeout,
         Budget > 0 => \E c \in Costs \cup {0} : r.tokens <= Budget + c
  PROVE  RunOK(Over(r, pc, result))
<1> DEFINE o == Over(r, pc, result)
<1>1. o \in Run
  BY Origins DEF Over, Started, Run, Pc, Result
<1>2. /\ o.pc = pc /\ o.result = result
      /\ o.tokens = r.tokens /\ o.active = r.active
  BY DEF Over, Started, Run
<1>3. SleepOK(o) /\ DeadlineOK(o) /\ ResultOK(o)
  BY <1>2 DEF SleepOK, DeadlineOK, ResultOK, Ended
<1>4. BudgetOK(o)
  BY <1>2 DEF BudgetOK, Ended
<1> QED
  BY <1>1, <1>3, <1>4 DEF RunOK

\* The same, for a run whose tokens are.
LEMMA OverOK ==
  ASSUME NEW r \in Run, RunOK(r), NEW pc \in {"reap", "ended"}, NEW result \in Result,
         result = "timeout" => r.active >= Timeout
  PROVE  RunOK(Over(r, pc, result))
BY OverRun DEF RunOK, BudgetOK

\* The run waits, calls, backs off or reads with the deadline it had.
LEMMA SameDeadline ==
  ASSUME NEW r \in Run, RunOK(r), r.pc \notin {"asleep", "reap", "ended"},
         NEW q \in Run, q.pc \in {"line", "wait", "call", "backoff"},
         q.result = r.result, q.left = r.left, q.tokens = r.tokens, q.active = r.active
  PROVE  RunOK(q)
<1>1. SleepOK(q) /\ ResultOK(q)
  BY DEF SleepOK, ResultOK, RunOK, Ended
<1>2. DeadlineOK(q)
  BY DEF DeadlineOK, RunOK, Ended, Uncharged
<1>3. BudgetOK(q)
  BY DEF BudgetOK, RunOK, Ended
<1> QED
  BY <1>1, <1>2, <1>3 DEF RunOK

\* The child gets its reply, or is gone.
LEMMA RepliedOK ==
  ASSUME NEW r \in Run, RunOK(r), r.pc \in {"wait", "call"}, NEW q \in Replied(r)
  PROVE  RunOK(q)
<1>1. CASE q = [r EXCEPT !.pc = "line", !.backoff = 1, !.early = FALSE]
  <2>1. q \in Run
    BY <1>1, Origins DEF Run, Pc
  <2>2. /\ q.pc = "line" /\ q.result = r.result /\ q.left = r.left
        /\ q.tokens = r.tokens /\ q.active = r.active
    BY <1>1 DEF Run
  <2> QED
    BY <2>1, <2>2, SameDeadline
<1>2. CASE q = Over(r, "reap", "error")
  BY <1>2, OverOK DEF Result
<1> QED
  BY <1>1, <1>2 DEF Replied

-----------------------------------------------------------------------------
(***************************************************************************)
(* The steps of a run                                                      *)
(***************************************************************************)
\* A step of one run that leaves a sound run and sound shared variables is sound.
LEMMA StepOK ==
  ASSUME Inv, NEW w \in Runs, NEW r, RunOK(r), Become(w, r), SharedOK'
  PROVE  Inv'
BY BecomeOK DEF Inv

\* The shared variables stay as they were.
LEMMA SharedSame ==
  ASSUME SharedOK, UNCHANGED <<block, window, limits, pause>>
  PROVE  SharedOK'
BY DEF SharedOK

\* A line of the child.
LEMMA ChildOK ==
  ASSUME Inv, NEW w \in Runs, ChildStep(w)
  PROVE  Inv'
<1> DEFINE r == run[w]
<1>1. r \in Run /\ RunOK(r) /\ SharedOK
  BY DEF Inv, RunOK
<1>2. CASE Request(w)
  <2> DEFINE q == [r EXCEPT !.pc = "wait", !.turns = @ + 1]
  <2>1. r.turns + 1 \in 0 .. MaxTurns
    BY <1>1, <1>2, ToolConstants DEF Request, Run
  <2>2. q \in Run
    BY <1>1, <2>1 DEF Run, Pc
  <2>3. /\ q.pc = "wait" /\ q.result = r.result /\ q.left = r.left
        /\ q.tokens = r.tokens /\ q.active = r.active
    BY <1>1 DEF Run
  <2>4. r.pc = "line" /\ Become(w, q) /\ SharedOK'
    BY <1>1, <1>2, SharedSame DEF Request, At
  <2>5. RunOK(q)
    BY <1>1, <2>2, <2>3, <2>4, SameDeadline
  <2> HIDE DEF q
  <2> QED
    BY <2>4, <2>5, StepOK
<1>3. CASE LastLine(w)
  <2>1. PICK result \in {"ok", "error"} : EndReaping(w, result)
    BY <1>3 DEF LastLine
  <2>2. RunOK(Over(r, "reap", result))
    BY <1>1, OverOK DEF Result
  <2>3. SharedOK'
    BY <1>1, <1>3, SharedSame DEF LastLine
  <2> QED
    BY <2>1, <2>2, <2>3, StepOK DEF EndReaping
<1> QED
  BY <1>2, <1>3 DEF ChildStep

\* Past the deadline the active time is used up.
LEMMA ExpiredIsActive ==
  ASSUME NEW r \in Run, RunOK(r), r.pc = "line", r.left <= 0
  PROVE  r.active >= Timeout
BY ToolConstants DEF RunOK, DeadlineOK, Ended, Uncharged, Run

\* A reply.
LEMMA ReplyErrorOK ==
  ASSUME Inv, NEW w \in Runs, ReplyError(w)
  PROVE  Inv'
<1>1. run[w] \in Run /\ RunOK(run[w]) /\ SharedOK
  BY DEF Inv, RunOK
<1>2. PICK q \in Replied(run[w]) : Become(w, q)
  BY DEF ReplyError
<1>3. run[w].pc \in {"wait", "call"}
  BY DEF ReplyError, At
<1>4. RunOK(q)
  BY <1>1, <1>3, RepliedOK
<1>5. SharedOK'
  BY <1>1, SharedSame DEF ReplyError
<1> QED
  BY <1>2, <1>4, <1>5, StepOK

\* What the daemon does for a run.
LEMMA DaemonOK ==
  ASSUME Inv, NEW w \in Runs, DaemonStep(w)
  PROVE  Inv'
<1> DEFINE r == run[w]
<1>1. r \in Run /\ RunOK(r) /\ SharedOK
  BY DEF Inv, RunOK
<1>2. CASE Expire(w)
  <2>1. r.active >= Timeout
    BY <1>1, <1>2, ExpiredIsActive DEF Expire, At
  <2>2. RunOK(Over(r, "ended", "timeout"))
    BY <1>1, <2>1, OverOK DEF Result
  <2>3. SharedOK'
    BY <1>1, <1>2, SharedSame DEF Expire
  <2> QED
    BY <1>2, <2>2, <2>3, StepOK DEF Expire, EndKilled
<1>3. CASE ScheduleEnds(w)
  <2>1. RunOK(Over(r, "ended", "paused"))
    BY <1>1, OverOK DEF Result
  <2>2. SharedOK'
    BY <1>1, <1>3, SharedSame DEF ScheduleEnds
  <2> QED
    BY <1>3, <2>1, <2>2, StepOK DEF ScheduleEnds, EndKilled
<1>4. CASE ChildExits(w)
  <2> DEFINE q == [r EXCEPT !.pc = "ended"]
  <2>1. q \in Run
    BY <1>1 DEF Run, Pc
  <2>2. /\ q.pc = "ended" /\ q.result = r.result
        /\ q.tokens = r.tokens /\ q.active = r.active
    BY <1>1 DEF Run
  <2>3. r.pc = "reap" /\ Become(w, q) /\ SharedOK'
    BY <1>1, <1>4, SharedSame DEF ChildExits, At
  <2> HIDE DEF q
  <2>4. RunOK(q)
    BY <1>1, <2>1, <2>2, <2>3 DEF RunOK, SleepOK, DeadlineOK, ResultOK, BudgetOK, Ended
  <2> QED
    BY <2>3, <2>4, StepOK
<1>5. CASE Sleep(w)
  <2> DEFINE q == [r EXCEPT !.pc = "asleep", !.sleep = block, !.slept = block]
  <2>0. block \in Nat /\ block <= MaxRetryAfter
    BY <1>1, ToolConstants DEF SharedOK
  <2>1. q \in Run
    BY <1>1, <2>0 DEF Run, Pc
  <2>2. /\ q.pc = "asleep" /\ q.result = r.result /\ q.left = r.left
        /\ q.tokens = r.tokens /\ q.active = r.active
        /\ q.sleep = block /\ q.slept = block
    BY <1>1 DEF Run
  <2>3. r.pc = "wait" /\ Become(w, q) /\ SharedOK'
    BY <1>1, <1>5, SharedSame DEF Sleep, At
  <2> HIDE DEF q
  <2>4. r.left <= Timeout /\ r.left \in Int /\ r.active \in Int
    BY <1>1, ToolConstants DEF Run
  <2>5. SleepOK(q) /\ DeadlineOK(q)
    BY <1>1, <2>0, <2>2, <2>3, <2>4, ToolConstants
       DEF RunOK, SleepOK, DeadlineOK, Ended, Uncharged
  <2>6. ResultOK(q) /\ BudgetOK(q)
    BY <1>1, <2>2, <2>3 DEF RunOK, ResultOK, BudgetOK, Ended
  <2> QED
    BY <2>1, <2>3, <2>5, <2>6, StepOK DEF RunOK
<1>6. CASE Wake(w)
  <2> DEFINE left == r.left + r.slept
  <2> DEFINE q == [r EXCEPT !.pc = "wait", !.slept = 0, !.left = left]
  <2>0. /\ r.left \in -(MaxRetryAfter + 1) .. Timeout /\ r.slept \in Nat
        /\ r.active \in 0 .. Timeout
    BY <1>1 DEF Run
  <2>1. r.pc = "asleep" /\ r.sleep = 0 /\ Become(w, q) /\ SharedOK'
    BY <1>1, <1>6, SharedSame DEF Wake, At, Extended
  <2>2. left \in -(MaxRetryAfter + 1) .. Timeout
    BY <1>1, <2>0, <2>1, ToolConstants DEF RunOK, SleepOK
  <2>3. q \in Run
    BY <1>1, <2>2 DEF Run, Pc
  <2>4. /\ q.pc = "wait" /\ q.result = r.result /\ q.left = left
        /\ q.tokens = r.tokens /\ q.active = r.active
    BY <1>1 DEF Run
  <2> HIDE DEF q
  <2>5. DeadlineOK(q)
    BY <1>1, <2>0, <2>1, <2>4, ToolConstants DEF RunOK, DeadlineOK, Ended, Uncharged
  <2>6. SleepOK(q) /\ ResultOK(q) /\ BudgetOK(q)
    BY <1>1, <2>1, <2>4 DEF RunOK, SleepOK, ResultOK, BudgetOK, Ended
  <2> QED
    BY <2>1, <2>3, <2>5, <2>6, StepOK DEF RunOK
<1>7. CASE Send(w)
  <2> DEFINE q == [r EXCEPT !.pc = "call", !.early = FALSE]
  <2>1. q \in Run
    BY <1>1 DEF Run, Pc
  <2>2. /\ q.pc = "call" /\ q.result = r.result /\ q.left = r.left
        /\ q.tokens = r.tokens /\ q.active = r.active
    BY <1>1 DEF Run
  <2>3. r.pc = "wait" /\ Become(w, q) /\ SharedOK'
    BY <1>1, <1>7, SharedSame DEF Send, At
  <2>4. RunOK(q)
    BY <1>1, <2>1, <2>2, <2>3, SameDeadline
  <2> HIDE DEF q
  <2> QED
    BY <2>3, <2>4, StepOK
<1>8. CASE Retry(w)
  <2> DEFINE q == [r EXCEPT !.pc = "wait", !.slept = 0, !.left = r.left]
  <2>1. q \in Run
    BY <1>1 DEF Run, Pc
  <2>2. /\ q.pc = "wait" /\ q.result = r.result /\ q.left = r.left
        /\ q.tokens = r.tokens /\ q.active = r.active
    BY <1>1 DEF Run
  <2>3. r.pc = "backoff" /\ Become(w, q) /\ SharedOK'
    BY <1>1, <1>8, SharedSame DEF Retry, At, Recharged
  <2>4. RunOK(q)
    BY <1>1, <2>1, <2>2, <2>3, SameDeadline
  <2> HIDE DEF q
  <2> QED
    BY <2>3, <2>4, StepOK
<1>9. CASE ReplyError(w)
  BY <1>9, ReplyErrorOK
<1> QED
  BY <1>2, <1>3, <1>4, <1>5, <1>6, <1>7, <1>8, <1>9 DEF DaemonStep

\* An answer is counted.
LEMMA AnswerOK ==
  ASSUME Inv, NEW w \in Runs, Answer(w)
  PROVE  Inv'
<1> DEFINE r == run[w]
<1>1. r \in Run /\ RunOK(r) /\ SharedOK /\ r.pc = "call"
  BY DEF Inv, RunOK, Answer, At
<1>2. PICK c \in Costs :
        \E q \in IF Overspent(r.tokens, r.tokens + c)
                 THEN {Over([r EXCEPT !.tokens = r.tokens + c], "reap", "budget")}
                 ELSE Replied([r EXCEPT !.tokens = r.tokens + c]) :
          Become(w, q)
  BY DEF Answer
<1> DEFINE counted == [r EXCEPT !.tokens = r.tokens + c]
<1>3. c \in Nat /\ r.tokens \in Nat /\ r.tokens + c \in Nat
  BY <1>1, ToolConstants DEF Run
<1>4. counted \in Run
  BY <1>1, <1>3 DEF Run
<1>5. /\ counted.pc = r.pc /\ counted.result = r.result /\ counted.left = r.left
      /\ counted.active = r.active /\ counted.tokens = r.tokens + c
  BY <1>1 DEF Run
<1>6. PICK q \in IF Overspent(r.tokens, r.tokens + c)
                  THEN {Over(counted, "reap", "budget")} ELSE Replied(counted) :
         Become(w, q)
  BY <1>2
<1> HIDE DEF counted
<1>7. ASSUME Overspent(r.tokens, r.tokens + c) PROVE RunOK(q)
  <2>1. Budget > 0 => counted.tokens <= Budget + c
    BY <1>1, <1>3, <1>5, ToolConstants DEF RunOK, BudgetOK, Ended
  <2>2. RunOK(Over(counted, "reap", "budget"))
    BY <1>4, <2>1, OverRun DEF Result
  <2> QED
    BY <1>6, <1>7, <2>2
<1>8. ASSUME ~Overspent(r.tokens, r.tokens + c) PROVE RunOK(q)
  <2>1. SleepOK(counted) /\ DeadlineOK(counted) /\ ResultOK(counted)
    BY <1>1, <1>5 DEF RunOK, SleepOK, DeadlineOK, ResultOK, Ended, Uncharged
  <2>2. BudgetOK(counted)
    BY <1>3, <1>5, <1>8, ToolConstants DEF Overspent, BudgetOK
  <2>3. RunOK(counted)
    BY <1>4, <2>1, <2>2 DEF RunOK
  <2>4. RunOK(q)
    BY <1>1, <1>4, <1>5, <1>6, <1>8, <2>3, RepliedOK
  <2> QED
    BY <2>4
<1>9. RunOK(q)
  BY <1>6, <1>7, <1>8
<1>10. SharedOK'
  BY <1>1, ToolConstants DEF Answer, SharedOK
<1> QED
  BY <1>6, <1>9, <1>10, StepOK

\* A rate limit: the other runs only learn that their requests are early.
LEMMA RateLimitedOK ==
  ASSUME Inv, NEW w \in Runs, RateLimited(w)
  PROVE  Inv'
<1>1. PICK d \in Delays : /\ block' = Blocked(block, d)
                          /\ pause' = Larger(pause, Smaller(d, MaxRetryAfter))
  BY DEF RateLimited
<1>2. SharedOK'
  BY <1>1, ToolConstants DEF Inv, SharedOK, RateLimited, Blocked, Larger, Smaller
<1>3. run' = [v \in Runs |-> IF v = w THEN [run[w] EXCEPT !.pc = "wait", !.early = FALSE]
                                     ELSE [run[v] EXCEPT !.early = At(v, "call")]]
  BY DEF RateLimited
<1>4. ASSUME NEW v \in Runs PROVE RunOK(run'[v])
  <2>1. run[v] \in Run /\ RunOK(run[v])
    BY DEF Inv
  <2>2. CASE v = w
    <3> DEFINE q == [run[v] EXCEPT !.pc = "wait", !.early = FALSE]
    <3>1. run'[v] = q
      BY <1>3, <2>2
    <3>2. q \in Run
      BY <2>1 DEF Run, Pc
    <3>3. /\ q.pc = "wait" /\ q.result = run[v].result /\ q.left = run[v].left
          /\ q.tokens = run[v].tokens /\ q.active = run[v].active
      BY <2>1 DEF Run
    <3>4. run[v].pc = "call"
      BY <2>2 DEF RateLimited, At
    <3>5. RunOK(q)
      BY <2>1, <3>2, <3>3, <3>4, SameDeadline
    <3> QED
      BY <3>1, <3>5
  <2>3. CASE v # w
    <3> DEFINE q == [run[v] EXCEPT !.early = At(v, "call")]
    <3>1. run'[v] = q
      BY <1>3, <2>3
    <3>2. At(v, "call") \in BOOLEAN
      BY DEF At
    <3>3. q \in Run
      BY <2>1, <3>2 DEF Run
    <3>4. /\ q.pc = run[v].pc /\ q.result = run[v].result /\ q.left = run[v].left
          /\ q.tokens = run[v].tokens /\ q.active = run[v].active
          /\ q.sleep = run[v].sleep /\ q.slept = run[v].slept
      BY <2>1 DEF Run
    <3> HIDE DEF q
    <3>5. RunOK(q)
      BY <2>1, <3>3, <3>4
         DEF RunOK, SleepOK, DeadlineOK, ResultOK, BudgetOK, Ended, Uncharged
    <3> QED
      BY <3>1, <3>5
  <2> QED
    BY <2>2, <2>3
<1>5. run' \in [Runs -> Run]
  BY <1>3, <1>4 DEF RunOK
<1> QED
  BY <1>2, <1>4, <1>5 DEF Inv

\* A transient error: the run backs off on its own time.
LEMMA TransientOK ==
  ASSUME Inv, NEW w \in Runs, Transient(w)
  PROVE  Inv'
<1> DEFINE r == run[w]
<1>1. r \in Run /\ RunOK(r) /\ SharedOK
  BY DEF Inv, RunOK
<1>2. PICK d \in Delays \cup {0} :
        LET sleep == Larger(r.backoff, d)
        IN  Become(w, [r EXCEPT !.pc = "backoff", !.early = FALSE, !.sleep = sleep,
                                !.slept = sleep, !.backoff = Smaller(2 * @, BackoffCap)])
  BY DEF Transient
<1> DEFINE sleep == Larger(r.backoff, d)
           twice == Smaller(2 * r.backoff, BackoffCap)
           q == [r EXCEPT !.pc = "backoff", !.early = FALSE, !.sleep = sleep,
                          !.slept = sleep, !.backoff = twice]
<1>3. Become(w, q)
  BY <1>2
<1>4. sleep \in Nat /\ twice \in 1 .. BackoffCap
  BY <1>1, ToolConstants DEF Run, Larger, Smaller
<1> HIDE DEF sleep, twice
<1>5. q \in Run
  BY <1>1, <1>4 DEF Run, Pc
<1>6. /\ q.pc = "backoff" /\ q.result = r.result /\ q.left = r.left
      /\ q.tokens = r.tokens /\ q.active = r.active
  BY <1>1 DEF Run
<1>7. r.pc = "call" /\ SharedOK'
  BY <1>1, SharedSame DEF Transient, At
<1>8. RunOK(q)
  BY <1>1, <1>5, <1>6, <1>7, SameDeadline
<1> HIDE DEF q
<1> QED
  BY <1>3, <1>7, <1>8, StepOK

\* One unit of time for a run for which nothing is due.
LEMMA AgedOK ==
  ASSUME NEW r \in Run, RunOK(r), r.pc = "asleep" => r.sleep # 0
  PROVE  RunOK(Aged(r))
<1>1. CASE Ended(r)
  BY <1>1 DEF Aged, Ended
<1>2. CASE ~Ended(r)
  <2> DEFINE left == Larger(r.left - 1, -(MaxRetryAfter + 1))
             active == IF r.pc = "asleep" THEN r.active ELSE Smaller(r.active + 1, Timeout)
             q == [r EXCEPT !.left = left, !.sleep = Down(r.sleep), !.active = active]
  <2>1. Aged(r) = q
    BY <1>2 DEF Aged, Ended
  <2>2. /\ r.left \in -(MaxRetryAfter + 1) .. Timeout /\ r.sleep \in Nat
        /\ r.slept \in Nat /\ r.active \in 0 .. Timeout
    BY DEF Run
  <2>3. /\ left \in -(MaxRetryAfter + 1) .. Timeout /\ left >= r.left - 1
        /\ left <= r.left \/ left = -(MaxRetryAfter + 1)
        /\ left = r.left - 1 \/ left = -(MaxRetryAfter + 1)
    BY <2>2, ToolConstants DEF Larger
  <2>4. /\ active \in 0 .. Timeout
        /\ r.pc = "asleep" => active = r.active
        /\ r.pc # "asleep" => active = Timeout \/ active = r.active + 1
    BY <2>2, ToolConstants DEF Smaller
  <2>5. Down(r.sleep) \in Nat /\ (r.sleep # 0 => Down(r.sleep) = r.sleep - 1)
    BY <2>2 DEF Down
  <2> HIDE DEF left, active
  <2>6. q \in Run
    BY <2>3, <2>4, <2>5 DEF Run
  <2>7. /\ q.pc = r.pc /\ q.result = r.result /\ q.left = left /\ q.slept = r.slept
        /\ q.tokens = r.tokens /\ q.active = active /\ q.sleep = Down(r.sleep)
    BY DEF Run
  <2> HIDE DEF q
  <2>8. SleepOK(q)
    BY <2>2, <2>3, <2>5, <2>7, ToolConstants DEF RunOK, SleepOK
  <2>9. DeadlineOK(q)
    <3>1. CASE r.pc = "asleep"
      BY <1>2, <2>2, <2>3, <2>4, <2>5, <2>7, <3>1, ToolConstants
         DEF RunOK, DeadlineOK, Ended, Uncharged
    <3>2. CASE r.pc # "asleep"
      BY <1>2, <2>2, <2>3, <2>4, <2>7, <3>2, ToolConstants
         DEF RunOK, DeadlineOK, Ended, Uncharged
    <3> QED
      BY <3>1, <3>2
  <2>10. ResultOK(q) /\ BudgetOK(q)
    BY <1>2, <2>7 DEF RunOK, ResultOK, BudgetOK, Ended
  <2> QED
    BY <2>1, <2>6, <2>8, <2>9, <2>10 DEF RunOK
<1> QED
  BY <1>1, <1>2

\* One unit of time for all.
LEMMA TickOK ==
  ASSUME Inv, Tick
  PROVE  Inv'
<1>1. SharedOK'
  BY ToolConstants DEF Inv, SharedOK, Tick, Down
<1>2. ASSUME NEW v \in Runs PROVE RunOK(run'[v])
  <2>1. run[v] \in Run /\ RunOK(run[v])
    BY DEF Inv
  <2>2. run[v].pc = "asleep" => run[v].sleep # 0
    BY DEF Tick, Due, At
  <2>3. run'[v] = Aged(run[v])
    BY DEF Tick
  <2> QED
    BY <2>1, <2>2, <2>3, AgedOK
<1>3. run' \in [Runs -> Run]
  BY <1>2 DEF Tick, RunOK
<1> QED
  BY <1>1, <1>2, <1>3 DEF Inv

-----------------------------------------------------------------------------
(***************************************************************************)
(* The invariant and the properties                                        *)
(***************************************************************************)
\* A run that starts is sound.
LEMMA InvInit == Init => Inv
<1> SUFFICES ASSUME Init PROVE Inv
  OBVIOUS
<1>1. Started \in Run
  BY Origins DEF Started, Run, Pc, Result
<1>2. RunOK(Started)
  BY <1>1, ToolConstants
     DEF Started, RunOK, SleepOK, DeadlineOK, ResultOK, BudgetOK, Ended, Uncharged
<1>3. SharedOK
  BY ToolConstants DEF Init, SharedOK
<1> QED
  BY <1>1, <1>2, <1>3 DEF Init, Inv

\* Every step keeps the invariant.
LEMMA InvNext == Inv /\ [Next]_vars => Inv'
<1> SUFFICES ASSUME Inv, [Next]_vars PROVE Inv'
  OBVIOUS
<1>1. ASSUME NEW w \in Runs, ProviderStep(w) PROVE Inv'
  BY <1>1, AnswerOK, RateLimitedOK, TransientOK, ReplyErrorOK DEF ProviderStep
<1>2. CASE CloseWindow
  BY <1>2 DEF CloseWindow, Inv, SharedOK
<1>3. CASE UNCHANGED vars
  BY <1>3 DEF vars, Inv, SharedOK
<1> QED
  BY <1>1, <1>2, <1>3, ChildOK, DaemonOK, TickOK DEF Next

\* The invariant always holds.
THEOREM InvAlways == Spec => []Inv
BY InvInit, InvNext, PTL DEF Spec

\* Every variable keeps its type; in particular extending the deadline never takes
\* it beyond the timeout.
THEOREM ToolTypeCorrect == Spec => []TypeOK
<1>1. Inv => TypeOK
  BY DEF Inv, SharedOK, TypeOK
<1> QED
  BY <1>1, InvAlways, PTL

\* A timeout is never charged for the time on the global block.
THEOREM TimeoutCorrect == Spec => []TimeoutIsActive
<1>1. Inv => TimeoutIsActive
  BY DEF Inv, RunOK, ResultOK, TimeoutIsActive
<1> QED
  BY <1>1, InvAlways, PTL

\* A run overspends its budget by one answer at most.
THEOREM BudgetCorrect == Spec => []OverspendsOnce
<1>1. Inv => OverspendsOnce
  BY DEF Inv, RunOK, BudgetOK, OverspendsOnce
<1> QED
  BY <1>1, InvAlways, PTL

\* No step of a run shortens the block of the others, except to lift it.
LEMMA BlockStep ==
  ASSUME Inv, [Next]_vars, \E w \in Runs : run[w].pc # run'[w].pc
  PROVE  block' = 0 \/ block' >= block
<1> USE ToolConstants DEF Inv, SharedOK
<1>1. CASE Tick
  <2>1. ASSUME NEW w \in Runs PROVE run'[w].pc = run[w].pc
    <3>1. run'[w] = Aged(run[w]) /\ run[w] \in Run
      BY <1>1 DEF Tick
    <3> QED
      BY <3>1 DEF Aged, Run
  <2> QED
    BY <2>1
<1>2. ASSUME NEW w \in Runs, RateLimited(w) PROVE block' >= block
  BY <1>2 DEF RateLimited, Blocked, Larger, Smaller
<1>3. ASSUME NEW w \in Runs, Answer(w) PROVE block' = 0
  BY <1>3 DEF Answer
<1>4. CASE UNCHANGED block
  BY <1>4
<1>5. ASSUME NEW w \in Runs, ChildStep(w) \/ DaemonStep(w) PROVE UNCHANGED block
  BY <1>5 DEF ChildStep, DaemonStep, Request, LastLine, Expire, ScheduleEnds, ChildExits,
     Sleep, Wake, Send, Retry, ReplyError
<1>6. ASSUME NEW w \in Runs, Transient(w) \/ ReplyError(w) PROVE UNCHANGED block
  BY <1>6 DEF Transient, ReplyError
<1>7. CASE CloseWindow \/ UNCHANGED vars
  BY <1>7 DEF CloseWindow, vars
<1> QED
  BY <1>1, <1>2, <1>3, <1>4, <1>5, <1>6, <1>7 DEF Next, ProviderStep

\* A short Retry-After never cuts a longer block short.
THEOREM BlockCorrect == Spec => BlockIsNotShortened
<1>1. Inv /\ [Next]_vars =>
        [(\E w \in Runs : run[w].pc # run'[w].pc) => block' = 0 \/ block' >= block]_vars
  BY BlockStep
<1> QED
  BY <1>1, InvAlways, PTL DEF Spec, BlockIsNotShortened
=============================================================================
