--------------------------- MODULE ReviewToolProofs ---------------------------
(***************************************************************************)
(* Proofs about ReviewTool, for series of any size, any choice of stages   *)
(* and any number of turns, and that it keeps the contract of ReviewChild. *)
(***************************************************************************)
EXTENDS ReviewTool, TLAPS

\* The tree t is that of the patches up to the n-th, but for what git left out
\* of a commit of the series.
AllBut(t, n, in) == t \subseteq 1..n /\ (1..n) \ t \subseteq LeftOut(in)

\* How far the worktree is, up to the tree the model explores.
TreeInv ==
  /\ input \in Inputs
  /\ pc = "start" => tree \subseteq 1..input.size /\ next = 1 /\ applied
  /\ pc = "checkout" => input.direct
  /\ pc = "apply" => /\ next \in 1..input.size + 1 /\ tree \subseteq 1..input.size
                     /\ applied => (1..next - 1) \ tree \subseteq LeftOut(input)
  /\ pc = "again" => Midway /\ next \in 1..input.target + 1 /\ AllBut(tree, next - 1, input)
  /\ pc = "decide" => AllBut(tree, Last(input), input) \/ input.target > input.size
  /\ pc \in {"begin", "asked"} => AllBut(tree, Last(input), input) /\ ~Nothing

\* What of the stages was answered so far: all that were chosen and are behind,
\* and from stage 8 on there is a concern.
StageInv ==
  pc \in {"begin", "asked"} =>
    /\ Selected(input) \ todo \subseteq answered
    /\ at = "plan" => input.plan
    /\ at = "stage" =>
         /\ \A s \in todo : stage <= s
         /\ stage > 8 => concerns /\ 8..stage - 1 \subseteq answered
         /\ pc = "asked" /\ stage = 8 => concerns
         /\ stage = 11 => round < Tries

\* There is no verdict before the result is printed.
VerdictInv == pc \notin {"printed", "exited"} => verdict = "none"

ToolInv == ToolTypeOK /\ TreeInv /\ StageInv /\ VerdictInv /\ CleanIsEarned

Outside  == UNCHANGED <<input, place>> /\ limit' \in BOOLEAN
Exchange == pc \in {"begin", "asked"}

-----------------------------------------------------------------------------
(***************************************************************************)
(* What becomes of an attempt                                              *)
(***************************************************************************)
\* A commit holds patches up to its own, and what it lacks git left out.
LEMMA CommitHolds ==
  ASSUME NEW in \in Inputs, NEW i \in in.named
  PROVE  /\ i \in 1..in.size /\ in.holds[i] \subseteq 1..i
         /\ (1..i) \ in.holds[i] \subseteq LeftOut(in)
<1>1. OfItsSeries(in)
  BY ReviewToolAssumption
<1>2. (1..i) \ in.holds[i] \subseteq LeftOut(in)
  BY DEF LeftOut
<1> QED
  BY <1>1, <1>2 DEF OfItsSeries

\* Another patch in the worktree, by its commit or by itself.
Added(t, i, in) == IF i \in in.named THEN in.holds[i] ELSE t \cup {i}

LEMMA NextIsAdded ==
  ASSUME NEW in \in Inputs, NEW i \in 1..in.size, NEW t \in SUBSET (1..in.size)
  PROVE  /\ Added(t, i, in) \subseteq 1..in.size
         /\ (1..i - 1) \ t \subseteq LeftOut(in) => (1..i) \ Added(t, i, in) \subseteq LeftOut(in)
         /\ t \subseteq 1..i - 1 => Added(t, i, in) \subseteq 1..i
<1>0. in.size \in Nat
  BY ReviewToolAssumption DEF Input
<1>1. CASE i \in in.named
  <2>1. /\ Added(t, i, in) \subseteq 1..i /\ (1..i) \ Added(t, i, in) \subseteq LeftOut(in)
    BY <1>1, CommitHolds DEF Added
  <2> QED
    BY <1>0, <2>1
<1>2. CASE i \notin in.named
  <2>1. Added(t, i, in) = t \cup {i}
    BY <1>2 DEF Added
  <2>2. 1..i = (1..i - 1) \cup {i}
    BY <1>0
  <2> QED
    BY <2>1, <2>2
<1> QED
  BY <1>1, <1>2

\* The stages chosen are some of the stages that explore.
LEMMA SelectedType ==
  ASSUME ToolTypeOK
  PROVE  /\ Selected(input) \subseteq Explore /\ Selected(input) \subseteq Fresh(input)
         /\ Fresh(input) \subseteq Explore
BY DEF ToolTypeOK, Input, Selected, Fresh, Core, Explore

\* An attempt that begins has everything before it.
LEMMA WorkerStarts ==
  ASSUME ToolInv, NEW n \in 1..Attempts, StartWorker(n), Outside, UNCHANGED verdict,
         ~Nothing, AllBut(tree, Last(input), input), verdict = "none"
  PROVE  ToolInv'
<1>1. ToolTypeOK'
  <2>1. todo' \subseteq Explore
    BY SelectedType DEF ToolInv, StartWorker
  <2>2. at' \in {"guides", "plan", "stage"}
    BY DEF StartWorker
  <2>3. stage' \in Stage /\ turn' \in Nat /\ round' \in 0..(Rounds * Rounds - 1)
    BY DEF StartWorker, Stage, Rounds
  <2>4. /\ pc' = "begin" /\ free' = FALSE /\ answered' = {} /\ concerns' = FALSE
        /\ attempt' \in 1..Attempts
    BY DEF StartWorker
  <2> QED
    BY <2>1, <2>2, <2>3, <2>4 DEF ToolInv, ToolTypeOK, Outside, place
<1>2. TreeInv'
  BY DEF ToolInv, TreeInv, StartWorker, Outside, place, Nothing, Last
<1>3. StageInv'
  <2>1. Selected(input') \subseteq todo'
    BY SelectedType DEF ToolInv, StartWorker, Outside
  <2>2. at' = "plan" => input'.plan
    BY DEF StartWorker, Outside
  <2>3. stage' = 1 /\ todo' \subseteq Explore
    BY SelectedType DEF ToolInv, StartWorker
  <2> QED
    BY <2>1, <2>2, <2>3 DEF StageInv, Explore
<1>4. VerdictInv' /\ CleanIsEarned'
  BY DEF VerdictInv, CleanIsEarned
<1> QED
  BY <1>1, <1>2, <1>3, <1>4 DEF ToolInv

\* A result that does not say the patch is reviewed may come at any time.
LEMMA OtherResult ==
  ASSUME ToolInv, NEW v \in {"error", "unreviewed"}, PrintResult(v), Outside, UNCHANGED review
  PROVE  ToolInv'
<1>1. ToolTypeOK'
  BY DEF ToolInv, ToolTypeOK, PrintResult, Outside, place, review
<1>2. TreeInv' /\ StageInv' /\ VerdictInv' /\ CleanIsEarned'
  BY DEF ToolInv, TreeInv, StageInv, VerdictInv, CleanIsEarned, PrintResult, Outside
<1> QED
  BY <1>1, <1>2 DEF ToolInv

\* A failed attempt is followed by another, or by an error as the result.
LEMMA AbortKeeps ==
  ASSUME ToolInv, Exchange, Abort, Outside
  PROVE  ToolInv'
<1>1. AllBut(tree, Last(input), input) /\ ~Nothing /\ verdict = "none" /\ attempt \in 1..Attempts
  BY DEF ToolInv, TreeInv, VerdictInv, ToolTypeOK, Exchange
<1>2. CASE attempt < Attempts /\ StartWorker(attempt + 1) /\ UNCHANGED verdict
  <2>1. attempt + 1 \in 1..Attempts
    BY <1>1, <1>2 DEF Attempts
  <2> QED
    BY <1>1, <1>2, <2>1, WorkerStarts
<1>3. CASE PrintResult("error") /\ UNCHANGED review
  BY <1>3, OtherResult
<1> QED
  BY <1>2, <1>3 DEF Abort

\* Another try of the same exchange.
LEMMA AgainKeeps ==
  ASSUME ToolInv, Exchange, MoreTries, Again, Outside
  PROVE  ToolInv'
<1>1. ToolTypeOK'
  <2>1. round + 1 \in 0..(Rounds * Rounds - 1)
    BY DEF ToolInv, ToolTypeOK, MoreTries, Explore, Rounds, Tries
  <2> QED
    BY <2>1 DEF ToolInv, ToolTypeOK, Again, Outside, place
<1>2. TreeInv'
  BY DEF ToolInv, TreeInv, Again, Outside, place, Exchange, Nothing, Last
<1>3. StageInv'
  <2>1. stage = 11 => round + 1 < Tries
    BY DEF MoreTries, Explore
  <2> QED
    BY <2>1 DEF ToolInv, StageInv, Again, Outside, Exchange
<1>4. VerdictInv' /\ CleanIsEarned'
  BY DEF ToolInv, VerdictInv, CleanIsEarned, Again, Exchange
<1> QED
  BY <1>1, <1>2, <1>3, <1>4 DEF ToolInv

\* A failure leads to another try or ends the attempt.
LEMMA FailedKeeps ==
  ASSUME ToolInv, Exchange, Failed, Outside
  PROVE  ToolInv'
BY AgainKeeps, AbortKeeps DEF Failed

\* The next exchange: what is left behind was answered.
LEMMA GoToKeeps ==
  ASSUME ToolInv, Exchange, Outside,
         NEW where \in {"plan", "stage"}, NEW s \in Stage, GoTo(where, s),
         todo' \subseteq Explore, answered' \subseteq Stage, concerns' \in BOOLEAN,
         Selected(input) \ todo' \subseteq answered',
         where = "plan" => input.plan,
         where = "stage" => /\ \A e \in todo' : s <= e
                            /\ s > 8 => concerns' /\ 8..s - 1 \subseteq answered'
  PROVE  ToolInv'
<1>1. ToolTypeOK'
  BY DEF ToolInv, ToolTypeOK, GoTo, Outside, place, Rounds
<1>2. TreeInv'
  BY DEF ToolInv, TreeInv, GoTo, Outside, place, Exchange, Nothing, Last
<1>3. StageInv'
  BY DEF StageInv, GoTo, Outside, Tries
<1>4. VerdictInv' /\ CleanIsEarned'
  BY DEF ToolInv, VerdictInv, CleanIsEarned, GoTo, Exchange
<1> QED
  BY <1>1, <1>2, <1>3, <1>4 DEF ToolInv

\* Guides and stages are chosen; those that must not be left out are not.
LEMMA ChosenKeeps ==
  ASSUME ToolInv, Exchange, Outside, at # "stage", NEW plan \in SUBSET Explore, Chosen(plan),
         plan = todo \/ (at = "plan" /\ Core \subseteq plan)
  PROVE  ToolInv'
<1>1. Selected(input) \ plan \subseteq answered
  BY DEF ToolInv, StageInv, Exchange, Selected
<1>2. /\ todo' \subseteq Explore /\ answered' \subseteq Stage /\ concerns' \in BOOLEAN
      /\ Selected(input) \ todo' \subseteq answered' /\ 1 \in Stage
      /\ \A e \in todo' : 1 <= e
  BY <1>1 DEF Chosen, ToolInv, ToolTypeOK, Stage, Explore
<1>3. CASE input.plan /\ GoTo("plan", 1)
  BY <1>2, <1>3, GoToKeeps
<1>4. CASE GoTo("stage", 1)
  BY <1>2, <1>4, GoToKeeps
<1> QED
  BY <1>3, <1>4 DEF Chosen

\* A valid answer settles its stage, and the last one the review.
LEMMA ValidKeeps ==
  ASSUME ToolInv, pc = "asked", at = "stage", NEW some \in BOOLEAN, Valid(some), Outside
  PROVE  ToolInv'
<1>1. /\ stage \in Stage /\ todo \subseteq Explore /\ answered \subseteq Stage
      /\ concerns \in BOOLEAN /\ Selected(input) \subseteq Explore
      /\ Selected(input) \ todo \subseteq answered
      /\ \A s \in todo : stage <= s
      /\ stage > 8 => concerns /\ 8..stage - 1 \subseteq answered
      /\ stage = 8 => concerns
  BY SelectedType DEF ToolInv, ToolTypeOK, StageInv
<1>2. /\ answered' = answered \cup {stage} /\ todo' = todo \ {stage}
      /\ concerns' \in BOOLEAN /\ (concerns => concerns')
      /\ stage \notin Explore => concerns' = concerns
  BY <1>1 DEF Valid
<1>3. /\ todo' \subseteq Explore /\ answered' \subseteq Stage
      /\ Selected(input) \ todo' \subseteq answered'
  BY <1>1, <1>2
<1>4. CASE (stage \in Explore \/ (stage < 11 /\ some)) /\ GoTo("stage", stage + 1)
  <2>1. stage + 1 \in Stage
    BY <1>1, <1>4 DEF Stage, Explore
  <2>2. \A e \in todo' : stage + 1 <= e
    BY <1>1, <1>2 DEF Stage, Explore
  <2>3. stage + 1 > 8 => concerns' /\ 8..(stage + 1) - 1 \subseteq answered'
    BY <1>1, <1>2 DEF Stage, Explore
  <2> QED
    BY <1>2, <1>3, <1>4, <2>1, <2>2, <2>3, GoToKeeps DEF Exchange
<1>5. CASE /\ ~(stage \in Explore \/ (stage < 11 /\ some))
           /\ PrintResult(IF stage < 11 THEN "clean" ELSE "findings")
           /\ UNCHANGED <<attempt, at, stage, turn, round, free>>
  <2>1. ToolTypeOK'
    BY <1>2, <1>3, <1>5 DEF ToolInv, ToolTypeOK, PrintResult, Outside, place
  <2>2. Selected(input) \subseteq answered'
    BY <1>1, <1>2, <1>3, <1>5 DEF Stage, Explore
  <2>3. concerns' /\ 8..stage \subseteq answered' /\ 8 <= stage /\ stage <= 11
    BY <1>1, <1>2, <1>5 DEF Stage, Explore
  <2>4. CleanIsEarned'
    <3>1. input' = input
      BY DEF Outside
    <3>2. CASE stage < 11
      BY <1>5, <2>2, <2>3, <3>1, <3>2 DEF CleanIsEarned, PrintResult
    <3>3. CASE stage = 11
      BY <1>5, <2>2, <2>3, <3>1, <3>3 DEF CleanIsEarned, PrintResult
    <3> QED
      BY <1>1, <2>3, <3>2, <3>3 DEF Stage
  <2> QED
    BY <1>5, <2>1, <2>4 DEF ToolInv, TreeInv, StageInv, VerdictInv, PrintResult, Outside
<1> QED
  BY <1>4, <1>5 DEF Valid

\* A recitation error costs the report a try, but not its last one.
LEMMA RecitedKeeps ==
  ASSUME ToolInv, pc = "asked", at = "stage", Recited, Outside
  PROVE  ToolInv'
<1>1. CASE stage = 11 /\ ~free
  <2>1. round \in 0..(Rounds * Rounds - 1) /\ round < Tries
    BY <1>1 DEF ToolInv, ToolTypeOK, StageInv
  <2>2. /\ round' \in 0..(Rounds * Rounds - 1) /\ round' < Tries /\ free' = TRUE /\ turn' = 0
        /\ pc' = "begin"
        /\ UNCHANGED <<attempt, at, stage, todo, answered, concerns, verdict>>
    BY <1>1, <2>1 DEF Recited, Free, Rounds, Tries
  <2>3. ToolTypeOK'
    BY <2>2 DEF ToolInv, ToolTypeOK, Outside, place
  <2>4. TreeInv'
    BY <2>2 DEF ToolInv, TreeInv, Outside, place, Nothing, Last
  <2>5. StageInv'
    BY <2>2 DEF ToolInv, StageInv, Outside
  <2>6. VerdictInv' /\ CleanIsEarned'
    BY <2>2 DEF ToolInv, VerdictInv, CleanIsEarned
  <2> QED
    BY <2>3, <2>4, <2>5, <2>6 DEF ToolInv
<1>2. CASE Failed
  BY <1>2, FailedKeeps DEF Exchange
<1> QED
  BY <1>1, <1>2 DEF Recited

\* The limits end the attempt, or lead to another try of the report.
LEMMA LimitKeeps ==
  ASSUME ToolInv, Exchange, LimitHit, UNCHANGED <<input, place>>
  PROVE  ToolInv' /\ (Failed \/ Abort) /\ limit' = TRUE
<1>1. Outside /\ (Failed \/ Abort) /\ limit' = TRUE
  BY DEF LimitHit, Outside
<1> QED
  BY <1>1, FailedKeeps, AbortKeeps

-----------------------------------------------------------------------------
\* Everything holds at the start.
THEOREM ToolInvInit == ToolInit => ToolInv
<1> SUFFICES ASSUME ToolInit PROVE ToolInv
  OBVIOUS
<1>1. ToolTypeOK
  <2>1. /\ input \in Input /\ 1 \in 1..Attempts /\ 1 \in Stage /\ 1 \in Nat /\ 0 \in Nat
        /\ 0 \in 0..(Rounds * Rounds - 1) /\ input.left \subseteq Nat
    BY ReviewToolAssumption DEF ToolInit, Input, Attempts, Stage, Rounds
  <2> QED
    BY <2>1 DEF ToolInit, ToolTypeOK
<1>2. TreeInv
  <2>1. OfItsSeries(input)
    BY ReviewToolAssumption DEF ToolInit
  <2> QED
    BY <2>1 DEF ToolInit, TreeInv, OfItsSeries
<1> QED
  BY <1>1, <1>2 DEF ToolInit, ToolInv, StageInv, VerdictInv, CleanIsEarned

\* The steps that prepare the worktree.
LEMMA PlaceNext ==
  ASSUME ToolInv,
         StartBinary \/ Checkout \/ ApplyNext \/ SeriesIsApplied \/ ApplyAgain \/ TreeIsReady
  PROVE  ToolInv'
<1> USE DEF ToolInv
<1>0. /\ input \in Input /\ input \in Inputs /\ input.size \in Nat /\ input.target \in Nat /\ next \in Nat
      /\ limit \in BOOLEAN /\ verdict = "none"
  BY DEF ToolTypeOK, TreeInv, Input, VerdictInv, StartBinary, Checkout, ApplyNext, SeriesIsApplied,
     ApplyAgain, TreeIsReady
<1>1. ASSUME PrintResult("error"), UNCHANGED <<input, place, review, limit>> PROVE ToolInv'
  BY <1>0, <1>1, OtherResult DEF Outside
<1>2. ASSUME pc' \in {"checkout", "apply", "again", "decide"}, tree' \subseteq Nat,
             next' \in Nat, applied' \in BOOLEAN,
             TreeInv', UNCHANGED <<input, review, verdict, limit>>
      PROVE  ToolInv'
  <2>1. ToolTypeOK'
    BY <1>2 DEF ToolTypeOK, review
  <2> QED
    BY <1>0, <1>2, <2>1 DEF StageInv, VerdictInv, CleanIsEarned
<1>3. CASE StartBinary
  <2>1. CASE pc' = (IF input.direct THEN "checkout" ELSE "apply") /\ UNCHANGED verdict
    <3>1. pc' \in {"checkout", "apply"} /\ UNCHANGED <<input, place, review, verdict, limit>>
      BY <1>3, <2>1 DEF StartBinary
    <3>2. /\ pc' = "checkout" => input.direct
          /\ pc' \in {"checkout", "apply"} /\ UNCHANGED <<input, tree, next, applied>>
          /\ tree \subseteq 1..input.size /\ next = 1 /\ applied
      BY <1>3, <2>1, <3>1 DEF StartBinary, TreeInv, place
    <3>3. 1 \in 1..input.size + 1 /\ 1..1 - 1 = {}
      BY <1>0
    <3>4. TreeInv'
      BY <1>0, <3>2, <3>3 DEF TreeInv
    <3> QED
      BY <1>2, <3>1, <3>4 DEF ToolTypeOK, place
  <2> QED
    BY <1>1, <1>3, <2>1 DEF StartBinary
<1>4. CASE Checkout
  <2>1. CASE pc' = "decide" /\ tree' = input.holds[input.target] /\ UNCHANGED verdict
    <3>1. UNCHANGED <<input, next, applied, review, verdict, limit>> /\ input.direct
      BY <1>4, <2>1 DEF Checkout, TreeInv
    <3>2. input.target \in input.named
      BY <1>0, <3>1, ReviewToolAssumption DEF OfItsSeries
    <3>3. /\ input.target \in 1..input.size /\ tree' \subseteq 1..input.target
          /\ (1..input.target) \ tree' \subseteq LeftOut(input)
      BY <1>0, <2>1, <3>2, CommitHolds
    <3>4. Last(input) = input.target
      BY <1>0, <3>3 DEF Last
    <3>5. TreeInv' /\ tree' \subseteq Nat
      BY <1>0, <2>1, <3>1, <3>3, <3>4 DEF TreeInv, AllBut
    <3> QED
      BY <1>2, <2>1, <3>1, <3>5 DEF ToolTypeOK
  <2> QED
    BY <1>1, <1>4, <2>1 DEF Checkout, place
<1>5. CASE ApplyNext
  <2>1. /\ pc = "apply" /\ pc' = pc /\ next' = next + 1 /\ next <= input.size
        /\ UNCHANGED <<input, review, verdict, limit>>
        /\ \/ tree' = WithNext /\ applied' = applied
           \/ applied' = FALSE /\ tree' = tree
    BY <1>5 DEF ApplyNext
  <2>2. /\ next \in 1..input.size /\ tree \in SUBSET (1..input.size)
        /\ applied => (1..next - 1) \ tree \subseteq LeftOut(input)
    BY <1>0, <2>1 DEF TreeInv
  <2>3. next + 1 \in 1..input.size + 1 /\ (next + 1) - 1 = next
    BY <1>0, <2>2
  <2>4. /\ WithNext \subseteq 1..input.size
        /\ applied => (1..next) \ WithNext \subseteq LeftOut(input)
    <3>1. /\ Added(tree, next, input) \subseteq 1..input.size
          /\ (1..next - 1) \ tree \subseteq LeftOut(input)
               => (1..next) \ Added(tree, next, input) \subseteq LeftOut(input)
      BY <1>0, <2>2, NextIsAdded
    <3>2. WithNext = Added(tree, next, input)
      BY DEF WithNext, Added
    <3> QED
      BY <2>2, <3>1, <3>2
  <2>5. TreeInv'
    <3>1. tree' \subseteq 1..input.size /\ (applied' => (1..next) \ tree' \subseteq LeftOut(input))
      <4>1. CASE tree' = WithNext /\ applied' = applied
        BY <2>4, <4>1
      <4>2. CASE applied' = FALSE /\ tree' = tree
        BY <2>2, <4>2
      <4> QED
        BY <2>1, <4>1, <4>2
    <3>2. pc' = "apply" /\ input' = input /\ next' \in 1..input.size + 1 /\ next' - 1 = next
      BY <2>1, <2>3
    <3>3. tree' \subseteq 1..input'.size /\ next' \in 1..input'.size + 1
      BY <3>1, <3>2
    <3>4. applied' => (1..next' - 1) \ tree' \subseteq LeftOut(input')
      BY <3>1, <3>2
    <3>5. pc' = "apply" /\ input' \in Inputs
      BY <1>0, <3>2
    <3> QED
      BY <3>3, <3>4, <3>5 DEF TreeInv
  <2>6. tree' \subseteq Nat /\ next' \in Nat /\ applied' \in BOOLEAN
    <3>1. applied' \in {applied, FALSE} /\ tree' \subseteq 1..input.size
      BY <2>1, <2>2, <2>4
    <3>2. applied' \in BOOLEAN
      BY <3>1 DEF ToolTypeOK
    <3> QED
      BY <1>0, <2>1, <3>1, <3>2
  <2> QED
    BY <1>2, <2>1, <2>5, <2>6
<1>6. CASE SeriesIsApplied
  <2>0. /\ pc = "apply" /\ UNCHANGED <<input, review, limit>> /\ next = input.size + 1
        /\ applied => AllBut(tree, input.size, input)
    <3>1. /\ pc = "apply" /\ UNCHANGED <<input, review, limit>> /\ next = input.size + 1
          /\ tree \subseteq 1..input.size
          /\ applied => (1..next - 1) \ tree \subseteq LeftOut(input)
      BY <1>0, <1>6 DEF SeriesIsApplied, TreeInv
    <3> QED
      BY <1>0, <3>1 DEF AllBut
  <2>1. CASE Midway /\ pc' = "again" /\ tree' = {} /\ next' = 1 /\ UNCHANGED <<applied, verdict>>
    <3>1. TreeInv'
      BY <1>0, <2>0, <2>1 DEF TreeInv, Midway, AllBut
    <3> QED
      BY <1>2, <2>0, <2>1, <3>1 DEF ToolTypeOK
  <2>2. CASE applied /\ ~Midway /\ pc' = "decide" /\ UNCHANGED <<place, verdict>>
    <3>1. TreeInv'
      BY <1>0, <2>0, <2>2 DEF TreeInv, Midway, Last, place
    <3> QED
      BY <1>2, <2>0, <2>2, <3>1 DEF ToolTypeOK, place
  <2> QED
    BY <1>1, <1>6, <2>0, <2>1, <2>2 DEF SeriesIsApplied
<1>7. CASE ApplyAgain
  <2>1. CASE tree' = WithNext /\ next' = next + 1 /\ UNCHANGED <<pc, verdict>>
    <3>1. pc = "again" /\ next <= input.target /\ UNCHANGED <<input, applied, review, limit>>
      BY <1>7, <2>1 DEF ApplyAgain
    <3>2. /\ Midway /\ input.target < input.size /\ next \in 1..input.target
          /\ next \in 1..input.size /\ tree \in SUBSET (1..input.size)
          /\ tree \subseteq 1..next - 1 /\ (1..next - 1) \ tree \subseteq LeftOut(input)
      BY <1>0, <3>1 DEF TreeInv, Midway, AllBut
    <3>3. WithNext = Added(tree, next, input)
      BY DEF WithNext, Added
    <3>4. WithNext \subseteq 1..next /\ (1..next) \ WithNext \subseteq LeftOut(input)
      BY <1>0, <3>2, <3>3, NextIsAdded
    <3>5. /\ tree' = WithNext /\ next + 1 \in 1..input.target + 1 /\ (next + 1) - 1 = next
          /\ tree' \subseteq Nat
      BY <1>0, <2>1, <3>2, <3>4
    <3>6. AllBut(tree', next' - 1, input')
      BY <2>1, <3>1, <3>4, <3>5 DEF AllBut
    <3>7. TreeInv'
      BY <1>0, <2>1, <3>1, <3>2, <3>5, <3>6 DEF TreeInv, Midway
    <3> QED
      BY <1>0, <1>2, <2>1, <3>1, <3>5, <3>7 DEF ToolTypeOK
  <2> QED
    BY <1>1, <1>7, <2>1 DEF ApplyAgain, place
<1>8. CASE TreeIsReady
  <2>1. pc = "again" /\ next > input.target /\ pc' = "decide"
        /\ UNCHANGED <<input, place, review, verdict, limit>>
    BY <1>8 DEF TreeIsReady
  <2>2. TreeInv'
    BY <1>0, <2>1 DEF TreeInv, Midway, Last, place
  <2> QED
    BY <1>2, <2>1, <2>2 DEF ToolTypeOK, place
<1> QED
  BY <1>3, <1>4, <1>5, <1>6, <1>7, <1>8

\* The steps of the review itself.
LEMMA ReviewNext ==
  ASSUME ToolInv,
         \/ Decide \/ AskModel \/ OverBudget \/ TurnsAreUp \/ PromptFails \/ SkipStage
         \/ NothingFound
         \/ \E where \in {"guides", "plan"} : ChoiceComes(where) \/ ChoiceFails(where)
         \/ ToolsAreCalled \/ AnswerIsValid \/ AnswerIsInvalid \/ AnswerIsRecited
  PROVE  ToolInv'
<1> USE DEF ToolInv
<1>0. /\ limit \in BOOLEAN /\ todo \in SUBSET Explore /\ stage \in Stage
      /\ at \in {"guides", "plan", "stage"}
  BY DEF ToolTypeOK
<1>1. CASE Decide
  <2>1. pc = "decide" /\ Outside
    BY <1>0, <1>1 DEF Decide, Outside
  <2>2. CASE Nothing /\ PrintResult("unreviewed") /\ UNCHANGED review
    BY <2>1, <2>2, OtherResult
  <2>3. CASE ~Nothing /\ StartWorker(1) /\ UNCHANGED verdict
    <3>1. AllBut(tree, Last(input), input) /\ verdict = "none"
      BY <2>1, <2>3 DEF TreeInv, VerdictInv, Nothing
    <3> QED
      BY <2>1, <2>3, <3>1, WorkerStarts DEF Attempts
  <2> QED
    BY <1>1, <2>2, <2>3 DEF Decide
<1>2. ASSUME pc = "begin" \/ pc = "asked", pc' \in {"begin", "asked"},
             pc' = "asked" => ~NoConcern, turn' \in Nat,
             UNCHANGED <<input, place, attempt, at, stage, round, free, todo, answered,
                         concerns, verdict, limit>>
      PROVE  ToolInv'
  <2>1. ToolTypeOK'
    BY <1>2 DEF ToolTypeOK, place
  <2>2. TreeInv'
    BY <1>2 DEF TreeInv, place, Nothing, Last
  <2>3. StageInv'
    BY <1>2 DEF StageInv, NoConcern
  <2>4. VerdictInv' /\ CleanIsEarned'
    BY <1>2 DEF VerdictInv, CleanIsEarned
  <2> QED
    BY <2>1, <2>2, <2>3, <2>4
<1>3. CASE AskModel
  <2>1. turn + 1 \in Nat
    BY DEF ToolTypeOK
  <2> QED
    BY <1>2, <1>3, <2>1 DEF AskModel, Working, Begins
<1>4. CASE OverBudget
  <2>1. Exchange /\ UNCHANGED <<input, place>>
    BY <1>4 DEF OverBudget, Working, Begins, Exchange
  <2>2. CASE LimitHit
    BY <2>1, <2>2, LimitKeeps
  <2>3. CASE at # "stage" /\ Chosen(todo) /\ UNCHANGED limit
    BY <1>0, <2>1, <2>3, ChosenKeeps DEF Outside
  <2> QED
    BY <1>4, <2>2, <2>3 DEF OverBudget
<1>5. CASE TurnsAreUp
  BY <1>5, LimitKeeps DEF TurnsAreUp, Working, Begins, Exchange
<1>6. CASE PromptFails
  BY <1>0, <1>6, AbortKeeps DEF PromptFails, Working, Begins, Exchange, Outside
<1>7. CASE SkipStage
  <2>1. /\ pc = "begin" /\ at = "stage" /\ stage \in Explore /\ stage \notin todo
        /\ GoTo("stage", stage + 1) /\ Outside /\ UNCHANGED <<todo, answered, concerns>>
    BY <1>0, <1>7 DEF SkipStage, Begins, Skipped, Outside
  <2>2. /\ \A s \in todo : stage <= s
        /\ Selected(input) \ todo \subseteq answered
        /\ todo \subseteq Explore /\ answered \subseteq Stage /\ concerns \in BOOLEAN
    BY <2>1 DEF StageInv, ToolTypeOK
  <2>3. stage + 1 \in Stage /\ (\A s \in todo : stage + 1 <= s) /\ ~(stage + 1 > 8)
    BY <2>1, <2>2 DEF Stage, Explore
  <2> QED
    BY <2>1, <2>2, <2>3, GoToKeeps DEF Exchange
<1>8. CASE NothingFound
  <2>1. /\ pc = "begin" /\ at = "stage" /\ stage = 8 /\ ~concerns
        /\ pc' = "printed" /\ verdict' = "clean"
        /\ UNCHANGED <<input, place, review, limit>>
    BY <1>8 DEF NothingFound, NoConcern, Begins, PrintResult
  <2>2. Selected(input) \subseteq answered
    <3>1. Selected(input) \subseteq Explore /\ Selected(input) \ todo \subseteq answered
          /\ (\A s \in todo : 8 <= s)
      BY <2>1, SelectedType DEF StageInv
    <3> QED
      BY <1>0, <3>1 DEF Explore
  <2>3. ToolTypeOK'
    BY <2>1 DEF ToolTypeOK, place, review
  <2>4. CleanIsEarned'
    BY <2>1, <2>2 DEF CleanIsEarned, review
  <2> QED
    BY <2>1, <2>3, <2>4 DEF TreeInv, StageInv, VerdictInv
<1>9. ASSUME NEW where \in {"guides", "plan"}, ChoiceComes(where) PROVE ToolInv'
  <2>1. at = where /\ Exchange /\ Outside
    BY <1>0, <1>9 DEF ChoiceComes, Asked, Exchange, Outside
  <2>2. PICK plan \in (IF where = "plan" THEN Plans ELSE {todo}) : Chosen(plan)
    BY <1>9 DEF ChoiceComes
  <2>3. /\ plan \in SUBSET Explore
        /\ plan = todo \/ (at = "plan" /\ Core \subseteq plan)
    <3>1. \A p \in Plans : p \in SUBSET Explore /\ Core \subseteq p
      <4>1. ASSUME NEW more \in SUBSET (Explore \ Core)
            PROVE  Core \cup more \subseteq Explore
        BY DEF Core, Explore
      <4> QED
        BY <4>1 DEF Plans
    <3> QED
      BY <1>0, <2>1, <2>2, <3>1
  <2> QED
    BY <2>1, <2>2, <2>3, ChosenKeeps
<1>10. ASSUME NEW where \in {"guides", "plan"}, ChoiceFails(where) PROVE ToolInv'
  <2>1. at = where /\ pc = "asked" /\ UNCHANGED <<input, place, limit>>
    BY <1>10 DEF ChoiceFails, Asked
  <2>2. CASE Chosen(todo)
    BY <1>0, <2>1, <2>2, ChosenKeeps DEF Exchange, Outside
  <2>3. CASE turn = 1 /\ pc' = "begin" /\ UNCHANGED <<review, verdict>>
    BY <1>2, <2>1, <2>3 DEF review, ToolTypeOK
  <2> QED
    BY <1>10, <2>2, <2>3 DEF ChoiceFails
<1>11. CASE ToolsAreCalled
  <2>1. pc = "asked" /\ pc' = "begin" /\ UNCHANGED <<input, place, review, verdict, limit>>
    BY <1>11 DEF ToolsAreCalled, Asked
  <2> QED
    BY <1>2, <2>1 DEF review, ToolTypeOK
<1>12. CASE AnswerIsValid
  BY <1>0, <1>12, ValidKeeps DEF AnswerIsValid, Asked, Outside
<1>13. CASE AnswerIsInvalid
  BY <1>0, <1>13, FailedKeeps, AbortKeeps DEF AnswerIsInvalid, Asked, Exchange, Outside
<1>14. CASE AnswerIsRecited
  BY <1>0, <1>14, RecitedKeeps DEF AnswerIsRecited, Asked, Outside
<1> QED
  BY <1>1, <1>3, <1>4, <1>5, <1>6, <1>7, <1>8, <1>9, <1>10, <1>11, <1>12, <1>13, <1>14

\* Every step keeps the invariant.
THEOREM ToolInvNext == ToolInv /\ [ToolNext]_toolVars => ToolInv'
<1> SUFFICES ASSUME ToolInv, [ToolNext]_toolVars PROVE ToolInv'
  OBVIOUS
<1> USE DEF ToolInv
<1>1. CASE Exit \/ Die
  <2>1. /\ pc' = "exited" /\ UNCHANGED <<input, place, review, verdict, limit>>
    BY <1>1 DEF Exit, Die
  <2>2. ToolTypeOK'
    BY <2>1 DEF ToolTypeOK, place, review
  <2>3. CleanIsEarned'
    BY <2>1 DEF CleanIsEarned, review
  <2> QED
    BY <2>1, <2>2, <2>3 DEF TreeInv, StageInv, VerdictInv
<1>2. CASE UNCHANGED toolVars
  <2>1. ToolTypeOK' /\ CleanIsEarned' /\ VerdictInv'
    BY <1>2 DEF toolVars, ToolTypeOK, CleanIsEarned, VerdictInv
  <2>2. TreeInv' /\ StageInv'
    BY <1>2 DEF toolVars, TreeInv, StageInv, Midway, Nothing, Last
  <2> QED
    BY <2>1, <2>2
<1> QED
  BY <1>1, <1>2, PlaceNext, ReviewNext DEF ToolNext, ToolStep

\* The invariant always holds.
THEOREM ToolInvAlways == ToolSpec => []ToolInv
<1> QED
  BY ToolInvInit, ToolInvNext, PTL DEF ToolSpec

-----------------------------------------------------------------------------
(***************************************************************************)
(* The properties                                                          *)
(***************************************************************************)
\* Every variable keeps its type.
THEOREM ReviewTypeCorrect == ToolSpec => []ToolTypeOK
<1>1. ToolInv => ToolTypeOK
  BY DEF ToolInv
<1> QED
  BY <1>1, ToolInvAlways, PTL

\* A patch is clean, or has findings, only after valid answers to its stages.
THEOREM CleanCorrect == ToolSpec => []CleanIsEarned
<1>1. ToolInv => CleanIsEarned
  BY DEF ToolInv
<1> QED
  BY <1>1, ToolInvAlways, PTL

\* The model explores the series up to the patch under review, and nothing of
\* it is missing but what a failed git commit left out.
THEOREM TreeCorrect == ToolSpec => []TreeIsOfTarget
<1>1. ToolInv => TreeIsOfTarget
  BY DEF ToolInv, TreeInv, AllBut, TreeIsOfTarget
<1> QED
  BY <1>1, ToolInvAlways, PTL

-----------------------------------------------------------------------------
(***************************************************************************)
(* The contract                                                            *)
(***************************************************************************)
Orderly == [Contract!ChildNext]_(Contract!childVars)

\* The binary goes on computing; an answer is of use for at most one stage.
Proceeds ==
  /\ pc' \notin {"asked", "printed", "exited"} /\ UNCHANGED verdict
  /\ \/ answered' \in {answered, {}}
     \/ pc = "asked" /\ \E s \in Stage : answered' = answered \cup {s}

\* The binary prints its result.
Concludes ==
  /\ pc' = "printed" /\ verdict' \in {"error", "unreviewed", "clean", "findings"}
  /\ \/ answered' = answered
     \/ pc = "asked" /\ \E s \in Stage : answered' = answered \cup {s}

\* The phases of the binary.
LEMMA PhaseIs ==
  /\ pc = "asked" => Phase = "asked"
  /\ pc = "printed" => Phase = "done"
  /\ pc = "exited" => Phase = "gone"
  /\ pc \notin {"asked", "printed", "exited"} => Phase = "busy"
BY DEF Phase

\* To proceed, whatever led to it, is a step of the contract.
LEMMA ProceedsIsOrderly ==
  ASSUME pc \notin {"printed", "exited"}, Proceeds, UNCHANGED input
  PROVE  Orderly
<1>1. Phase' = "busy" /\ (pc = "asked" => Phase = "asked") /\ (pc # "asked" => Phase = "busy")
  BY PhaseIs DEF Proceeds, Phase
<1>2. Selected(input)' = Selected(input)
  OBVIOUS
<1>3. CASE pc = "asked"
  <2>1. answered' \in Contract!Answered
    BY <1>3 DEF Proceeds, Contract!Answered
  <2>2. Contract!Answer
    BY <1>1, <1>2, <1>3, <2>1 DEF Contract!Answer, Proceeds
  <2> QED
    BY <2>2 DEF Orderly, Contract!ChildNext
<1>4. CASE pc # "asked" /\ answered' = {}
  <2>1. Contract!StartOver
    BY <1>1, <1>2, <1>4 DEF Contract!StartOver, Proceeds
  <2> QED
    BY <2>1 DEF Orderly, Contract!ChildNext
<1>5. CASE pc # "asked" /\ answered' = answered
  BY <1>1, <1>2, <1>5 DEF Orderly, Contract!childVars, Proceeds
<1> QED
  BY <1>3, <1>4, <1>5 DEF Proceeds

\* A result is earned, so printing it is a step of the contract.
LEMMA ConcludesIsOrderly ==
  ASSUME pc \notin {"printed", "exited"}, Concludes, UNCHANGED input, CleanIsEarned'
  PROVE  Orderly
<1>1. Phase' = "done" /\ (pc = "asked" => Phase = "asked") /\ (pc # "asked" => Phase = "busy")
  BY PhaseIs DEF Concludes, Phase
<1>2. Selected(input)' = Selected(input)
  OBVIOUS
<1>3. verdict' \in Contract!Reviewed => Selected(input) \subseteq answered'
  BY <1>2 DEF CleanIsEarned, Contract!Reviewed
<1>4. \/ Phase = "busy" /\ UNCHANGED answered
      \/ Phase = "asked" /\ answered' \in Contract!Answered
  BY <1>1 DEF Concludes, Contract!Answered
<1>5. verdict' \in Contract!Verdicts \ {"none"}
  BY DEF Concludes, Contract!Verdicts
<1>6. Contract!Conclude(verdict')
  BY <1>1, <1>2, <1>3, <1>4 DEF Contract!Conclude
<1> QED
  BY <1>5, <1>6 DEF Orderly, Contract!ChildNext

\* An attempt that is given up starts over, or its error is the result.
LEMMA AbortIs == Abort => Proceeds \/ Concludes
BY DEF Abort, StartWorker, PrintResult, Proceeds, Concludes, review

\* A stage that failed is tried again or gives up the attempt.
LEMMA FailedIs == Failed => Proceeds \/ Concludes
BY AbortIs DEF Failed, Again, Proceeds

\* The next exchange asks nothing yet.
LEMMA GoToIs ==
  ASSUME NEW where, NEW s, GoTo(where, s), UNCHANGED answered
  PROVE  Proceeds
BY DEF GoTo, Proceeds

\* Nor does the choice of guides and stages.
LEMMA ChosenIs == ASSUME NEW plan, Chosen(plan) PROVE Proceeds
BY GoToIs DEF Chosen

\* A valid answer counts for the stage that asked, and may be the last.
LEMMA ValidIs ==
  ASSUME ToolInv, pc = "asked", NEW some, Valid(some)
  PROVE  Proceeds \/ Concludes
<1>1. stage \in Stage /\ answered' = answered \cup {stage}
  BY DEF Valid, ToolInv, ToolTypeOK
<1>2. CASE GoTo("stage", stage + 1)
  BY <1>1, <1>2 DEF GoTo, Proceeds
<1>3. CASE PrintResult(IF stage < 11 THEN "clean" ELSE "findings")
  BY <1>1, <1>3 DEF PrintResult, Concludes
<1> QED
  BY <1>2, <1>3 DEF Valid

\* A recited answer is asked for again or is a failure.
LEMMA RecitedIs == Recited => Proceeds \/ Concludes
BY FailedIs DEF Recited, Proceeds

\* Every step of the binary is one of the contract, or none.
LEMMA StepIsOrderly ==
  ASSUME ToolInv, ToolInv', [ToolNext]_toolVars
  PROVE  Orderly
<1>1. ASSUME Proceeds \/ Concludes, pc \notin {"printed", "exited"}, UNCHANGED input
      PROVE  Orderly
  BY <1>1, ProceedsIsOrderly, ConcludesIsOrderly DEF ToolInv
<1>2. ASSUME \/ StartBinary \/ Checkout \/ ApplyNext \/ SeriesIsApplied \/ ApplyAgain
             \/ TreeIsReady \/ Decide
      PROVE  Orderly
  <2>1. pc \notin {"printed", "exited"} /\ UNCHANGED input
    BY <1>2 DEF StartBinary, Checkout, ApplyNext, SeriesIsApplied, ApplyAgain, TreeIsReady,
       Decide
  <2>2. Proceeds \/ Concludes
    BY <1>2 DEF StartBinary, Checkout, ApplyNext, SeriesIsApplied, ApplyAgain, TreeIsReady,
       Decide, StartWorker, PrintResult, review, Proceeds, Concludes
  <2> QED
    BY <1>1, <2>1, <2>2
<1>3. CASE AskModel
  <2>1. /\ Phase = "busy" /\ Phase' = "asked" /\ UNCHANGED <<verdict, answered, input>>
    BY <1>3, PhaseIs DEF AskModel, Working, Begins, Phase
  <2>2. Contract!Ask
    BY <2>1 DEF Contract!Ask
  <2> QED
    BY <2>2 DEF Orderly, Contract!ChildNext
<1>4. ASSUME \/ OverBudget \/ TurnsAreUp \/ PromptFails \/ SkipStage \/ NothingFound
      PROVE  Orderly
  <2>1. pc \notin {"printed", "exited"} /\ UNCHANGED input
    BY <1>4 DEF OverBudget, TurnsAreUp, PromptFails, SkipStage, NothingFound, Working, Begins
  <2>2. LimitHit => Proceeds \/ Concludes
    BY FailedIs, AbortIs DEF LimitHit
  <2>3. SkipStage => Proceeds
    BY GoToIs DEF SkipStage
  <2>4. NothingFound => Concludes
    BY DEF NothingFound, PrintResult, review, Concludes
  <2>5. Proceeds \/ Concludes
    BY <1>4, <2>2, <2>3, <2>4, AbortIs, ChosenIs DEF OverBudget, TurnsAreUp, PromptFails
  <2> QED
    BY <1>1, <2>1, <2>5
<1>5. ASSUME NEW where \in {"guides", "plan"}, ChoiceComes(where) \/ ChoiceFails(where)
      PROVE  Orderly
  <2>1. pc \notin {"printed", "exited"} /\ UNCHANGED input
    BY <1>5 DEF ChoiceComes, ChoiceFails, Asked
  <2>2. CASE \E plan : Chosen(plan)
    BY <1>1, <2>1, <2>2, ChosenIs
  <2>3. CASE pc' = "begin" /\ UNCHANGED <<review, verdict>>
    BY <1>1, <2>1, <2>3 DEF review, Proceeds
  <2> QED
    BY <1>5, <2>2, <2>3 DEF ChoiceComes, ChoiceFails
<1>6. ASSUME ToolsAreCalled \/ AnswerIsValid \/ AnswerIsInvalid \/ AnswerIsRecited
      PROVE  Orderly
  <2>1. pc = "asked" /\ UNCHANGED input
    BY <1>6 DEF ToolsAreCalled, AnswerIsValid, AnswerIsInvalid, AnswerIsRecited, Asked
  <2>2. ToolsAreCalled => Proceeds
    BY DEF ToolsAreCalled, review, Proceeds
  <2>3. Proceeds \/ Concludes
    BY <1>6, <2>1, <2>2, ValidIs, FailedIs, AbortIs, RecitedIs
    DEF AnswerIsValid, AnswerIsInvalid, AnswerIsRecited
  <2> QED
    BY <1>1, <2>1, <2>3
<1>7. CASE Exit \/ Die
  <2>1. Phase # "gone" /\ Phase' = "gone" /\ UNCHANGED <<verdict, answered, input>>
    BY <1>7, PhaseIs DEF Exit, Die, review, Phase
  <2>2. Contract!Leave
    BY <2>1 DEF Contract!Leave
  <2> QED
    BY <2>2 DEF Orderly, Contract!ChildNext
<1>8. CASE UNCHANGED toolVars
  BY <1>8 DEF toolVars, Orderly, Contract!childVars, Phase
<1> QED
  BY <1>2, <1>3, <1>4, <1>5, <1>6, <1>7, <1>8 DEF ToolNext, ToolStep

\* The binary begins as the contract says.
LEMMA InitIsOrderly == ToolInit => Contract!ChildInit
<1> SUFFICES ASSUME ToolInit PROVE Contract!ChildInit
  OBVIOUS
<1>1. Phase = "busy" /\ verdict = "none" /\ answered = {}
  BY PhaseIs DEF ToolInit
<1>2. Selected(input) \subseteq Stage
  <2>1. Selected(input) \subseteq Explore
    BY ToolInvInit, SelectedType DEF ToolInv
  <2> QED
    BY <2>1 DEF Explore, Stage
<1> QED
  BY <1>1, <1>2 DEF Contract!ChildInit

\* The review binary implements its contract with the daemon.
THEOREM ToolImplementsChild == ToolSpec => ChildIsOrderly
<1>1. ToolInv /\ ToolInv' /\ [ToolNext]_toolVars => [Contract!ChildNext]_(Contract!childVars)
  BY StepIsOrderly DEF Orderly
<1> QED
  BY <1>1, InitIsOrderly, ToolInvAlways, PTL DEF ToolSpec, ChildIsOrderly, Contract!ChildSpec
=============================================================================
