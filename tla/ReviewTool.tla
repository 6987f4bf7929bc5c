----------------------------- MODULE ReviewTool ------------------------------
(***************************************************************************)
(* The review binary: src/src/bin/review.rs around Worker::run of          *)
(* src/src/worker/prompts.rs.  It applies the series in a worktree, lets   *)
(* the model choose guides and stages, asks each of the stages 1 to 7 for  *)
(* concerns, then deduplicates (8), resolves conflicts (9), verifies (10)  *)
(* and writes the report (11), and prints one line with the result.        *)
(*                                                                         *)
(* Prompts and answers are what the code tells apart: valid or not, with   *)
(* or without concerns.  Only the daemon answers; it may answer anything.  *)
(***************************************************************************)
EXTENDS Naturals, Sequences, FiniteSets

CONSTANTS
  Inputs,    \* the calls of the daemon: a set of Input records
  MaxTurns   \* settings.ai.max_interactions

Stage   == 1..11
Explore == 1..7   \* the stages that look for concerns
Core    == 1..3   \* those the planning may not leave out
Attempts == 3     \* of the whole review
Rounds   == 3     \* of a stage that explores, and of the tries in each
Tries    == 3     \* of the report

(* size: patches of the series; target: the one to review, 0 for all; direct:*)
(* it was applied before and is reviewed at its commit; named: patches that  *)
(* come with a commit; holds: the patches of the series each commit holds;   *)
(* left: those in the worktree before; plan: the settings choose no stages;  *)
(* guides: there is an index of guides to choose from.                       *)
Input == [size : Nat \ {0}, target : Nat, direct : BOOLEAN, named : SUBSET Nat,
          holds : Seq(SUBSET Nat), left : SUBSET Nat, ai : BOOLEAN,
          guides : BOOLEAN, plan : BOOLEAN, stages : SUBSET Explore]

(* The commit of a patch was made on those before it; where git commit       *)
(* failed it is an earlier one, and lacks the patch.                         *)
OfItsSeries(in) ==
  /\ in.left \subseteq 1..in.size
  /\ in.named \subseteq 1..in.size /\ Len(in.holds) = in.size
  /\ \A i \in in.named : in.holds[i] \subseteq 1..i
  /\ in.direct => in.target \in in.named

ASSUME ReviewToolAssumption ==
  /\ Inputs \subseteq Input /\ \A in \in Inputs : OfItsSeries(in)
  /\ MaxTurns \in Nat

VARIABLES
  input,
  pc,        \* where the binary is
  tree,      \* patches of the series in the worktree
  next,      \* the patch that is applied next
  applied,   \* every patch so far could be applied
  attempt,   \* of the review
  at,        \* the exchange: choosing "guides", the "plan", or a "stage"
  stage,
  turn,      \* requests of the exchange
  round,     \* attempts of the stage, from 0
  free,      \* the report need not be formatted
  todo,      \* stages 1 to 7 still to run
  answered,  \* stages with a valid answer in this attempt
  concerns,  \* some stage raised a concern
  verdict,   \* of the result that was printed
  limit      \* history: a stage hit the turn limit or the input budget

toolVars == <<input, pc, tree, next, applied, attempt, at, stage, turn, round, free,
              todo, answered, concerns, verdict, limit>>
place   == <<tree, next, applied>>
review  == <<attempt, at, stage, turn, round, free, todo, answered, concerns>>

Last(in)      == IF in.target = 0 THEN in.size ELSE in.target
Selected(in)  == IF in.plan THEN Core ELSE in.stages
Fresh(in)     == IF in.plan THEN Explore ELSE in.stages

ToolInit ==
  /\ input \in Inputs
  /\ pc = "start" /\ tree = input.left /\ next = 1 /\ applied = TRUE
  /\ attempt = 1 /\ at = "guides" /\ stage = 1 /\ turn = 0 /\ round = 0 /\ free = FALSE
  /\ todo = {} /\ answered = {} /\ concerns = FALSE
  /\ verdict = "none" /\ limit = FALSE

PrintResult(v) == pc' = "printed" /\ verdict' = v

-----------------------------------------------------------------------------
(* The worktree.                                                             *)

(* The baseline is resolved, and checked out unless a worktree is reused; a  *)
(* failure is the result.                                                    *)
StartBinary ==
  /\ pc = "start"
  /\ \/ pc' = (IF input.direct THEN "checkout" ELSE "apply") /\ UNCHANGED verdict
     \/ PrintResult("error")
  /\ UNCHANGED <<input, place, review, limit>>

(* reset --hard to the commit that was recorded, whatever it holds. *)
Checkout ==
  /\ pc = "checkout"
  /\ \/ pc' = "decide" /\ tree' = input.holds[input.target] /\ UNCHANGED verdict
     \/ PrintResult("error") /\ UNCHANGED tree
  /\ UNCHANGED <<input, next, applied, review, limit>>

(* Its commit is checked out, if it has one; or else git am or git apply.    *)
WithNext == IF next \in input.named THEN input.holds[next] ELSE tree \cup {next}

(* The next is tried even when this one fails. *)
ApplyNext ==
  /\ pc = "apply" /\ next <= input.size
  /\ next' = next + 1
  /\ \/ tree' = WithNext /\ UNCHANGED applied
     \/ applied' = FALSE /\ UNCHANGED tree
  /\ UNCHANGED <<input, pc, review, verdict, limit>>

(* mutant: the tree is left as the validation of the series made it. *)
Midway_Never == FALSE

(* A patch in the middle is reviewed in a tree without the later ones. *)
Midway == input.target # 0 /\ input.target < input.size

SeriesIsApplied ==
  /\ pc = "apply" /\ next > input.size
  /\ \/ ~applied /\ PrintResult("error") /\ UNCHANGED place
     \/ /\ applied /\ Midway /\ pc' = "again" /\ tree' = {} /\ next' = 1
        /\ UNCHANGED <<applied, verdict>>
     \/ applied /\ Midway /\ PrintResult("error") /\ UNCHANGED place
     \/ applied /\ ~Midway /\ pc' = "decide" /\ UNCHANGED <<place, verdict>>
  /\ UNCHANGED <<input, review, limit>>

ApplyAgain ==
  /\ pc = "again" /\ next <= input.target
  /\ \/ tree' = WithNext /\ next' = next + 1 /\ UNCHANGED <<pc, verdict>>
     \/ PrintResult("error") /\ UNCHANGED <<tree, next>>
  /\ UNCHANGED <<input, applied, review, limit>>

TreeIsReady ==
  /\ pc = "again" /\ next > input.target
  /\ pc' = "decide"
  /\ UNCHANGED <<input, place, review, verdict, limit>>

-----------------------------------------------------------------------------
(* An attempt: the worker starts from nothing.                               *)

Nothing == ~input.ai \/ (input.target > input.size)

StartWorker(n) ==
  /\ pc' = "begin" /\ attempt' = n
  /\ at' = (IF input.guides THEN "guides" ELSE IF input.plan THEN "plan" ELSE "stage")
  /\ todo' = Fresh(input)
  /\ stage' = 1 /\ turn' = 0 /\ round' = 0 /\ free' = FALSE
  /\ answered' = {} /\ concerns' = FALSE

Decide ==
  /\ pc = "decide"
  /\ \/ Nothing /\ PrintResult("unreviewed") /\ UNCHANGED review
     \/ ~Nothing /\ StartWorker(1) /\ UNCHANGED verdict
  /\ UNCHANGED <<input, place, limit>>

(* Any error of the worker, the typed ones included, is retried. *)
Abort ==
  \/ attempt < Attempts /\ StartWorker(attempt + 1) /\ UNCHANGED verdict
  \/ attempt = Attempts /\ PrintResult("error") /\ UNCHANGED review

(* The next exchange, from its first turn. *)
GoTo(where, s) ==
  /\ pc' = "begin" /\ at' = where /\ stage' = s
  /\ turn' = 0 /\ round' = 0 /\ UNCHANGED <<attempt, free, verdict>>

-----------------------------------------------------------------------------
(* What becomes of the exchange.                                             *)

Again ==
  /\ pc' = "begin" /\ turn' = 0 /\ round' = round + 1
  /\ UNCHANGED <<attempt, at, stage, free, todo, answered, concerns, verdict>>

(* Stages 1 to 7 are tried nine times, the report three times, the others once. *)
MoreTries ==
  \/ stage \in Explore /\ round + 1 < Rounds * Rounds
  \/ stage = 11 /\ round + 1 < Tries

(* mutant: a stage that never answers validly is passed over. *)
Failed_Skips ==
  IF MoreTries THEN Again
  ELSE IF stage \in Explore
  THEN GoTo("stage", stage + 1) /\ todo' = todo \ {stage} /\ UNCHANGED <<answered, concerns>>
  ELSE Abort

Failed == IF MoreTries THEN Again ELSE Abort

(* The turn limit and the input budget end the attempt at once; the report   *)
(* is tried again.                                                           *)
LimitHit == limit' = TRUE /\ IF stage = 11 THEN Failed ELSE Abort

(* An empty answer of the stages 8 to 10 leaves nothing to report. *)
Valid(some) ==
  /\ answered' = answered \cup {stage} /\ todo' = todo \ {stage}
  /\ concerns' = (IF stage \in Explore THEN concerns \/ some ELSE concerns)
  /\ IF stage \in Explore \/ (stage < 11 /\ some)
     THEN GoTo("stage", stage + 1)
     ELSE /\ PrintResult(IF stage < 11 THEN "clean" ELSE "findings")
          /\ UNCHANGED <<attempt, at, stage, turn, round, free>>

(* mutant: the report is not made free, so nothing ends its retries. *)
Free_Not == free

Free == TRUE

(* A recitation error makes the report free, and does not cost its last try. *)
Recited ==
  IF stage = 11 /\ ~free
  THEN /\ free' = Free /\ turn' = 0 /\ pc' = "begin"
       /\ round' = (IF round + 1 = Tries THEN round ELSE round + 1)
       /\ UNCHANGED <<attempt, at, stage, todo, answered, concerns, verdict>>
  ELSE Failed

(* Guides are chosen, then stages; without an answer all are taken. *)
Chosen(plan) ==
  /\ IF at = "guides" /\ input.plan THEN GoTo("plan", 1) ELSE GoTo("stage", 1)
  /\ todo' = plan
  /\ UNCHANGED <<answered, concerns>>

(* mutant: the planning may leave out any stage. *)
Plans_Any == SUBSET Explore

Plans == {Core \cup more : more \in SUBSET (Explore \ Core)}

-----------------------------------------------------------------------------
(* The exchanges: each request is cut down to the input budget, if it can be.*)

Begins == pc = "begin"
(* Without a concern of the stages 1 to 7 there is no stage 8. *)
NoConcern == at = "stage" /\ stage = 8 /\ ~concerns
Skipped   == at = "stage" /\ stage \in Explore \ todo
Working   == Begins /\ ~NoConcern /\ ~Skipped
TurnLimit == IF at = "stage" THEN MaxTurns ELSE 2

AskModel ==
  /\ Working /\ turn < TurnLimit
  /\ pc' = "asked" /\ turn' = turn + 1
  /\ UNCHANGED <<input, place, attempt, at, stage, round, free, todo, answered,
                 concerns, verdict, limit>>

OverBudget ==
  /\ Working
  /\ IF at = "stage" THEN LimitHit ELSE Chosen(todo) /\ UNCHANGED limit
  /\ UNCHANGED <<input, place>>

TurnsAreUp ==
  /\ Working /\ at = "stage" /\ turn = TurnLimit
  /\ LimitHit
  /\ UNCHANGED <<input, place>>

(* A file of the prompts cannot be read. *)
PromptFails ==
  /\ Working /\ at # "guides" /\ turn = 0 /\ round = 0
  /\ Abort
  /\ UNCHANGED <<input, place, limit>>

SkipStage ==
  /\ Begins /\ Skipped
  /\ GoTo("stage", stage + 1)
  /\ UNCHANGED <<input, place, todo, answered, concerns, limit>>

NothingFound ==
  /\ Begins /\ NoConcern
  /\ PrintResult("clean")
  /\ UNCHANGED <<input, place, review, limit>>

Asked(where) == pc = "asked" /\ at = where

(* The choice of guides and stages: one correction, and no answer is fine.   *)
ChoiceComes(where) ==
  /\ Asked(where)
  /\ \E plan \in (IF where = "plan" THEN Plans ELSE {todo}) : Chosen(plan)
  /\ UNCHANGED <<input, place, limit>>

ChoiceFails(where) ==
  /\ Asked(where)
  /\ \/ Chosen(todo)
     \/ /\ turn = 1 /\ pc' = "begin"
        /\ UNCHANGED <<review, verdict>>
  /\ UNCHANGED <<input, place, limit>>

(* The model calls tools; their results are part of the next request. *)
ToolsAreCalled ==
  /\ Asked("stage")
  /\ pc' = "begin"
  /\ UNCHANGED <<input, place, review, verdict, limit>>

AnswerIsValid ==
  /\ Asked("stage")
  /\ \E some \in BOOLEAN : Valid(some)
  /\ UNCHANGED <<input, place, limit>>

(* Invalid, without content, or an error of the provider. *)
AnswerIsInvalid ==
  /\ Asked("stage")
  /\ \/ Failed
     \/ stage = 11 /\ free /\ Abort      \* a free report without a word
  /\ UNCHANGED <<input, place, limit>>

AnswerIsRecited ==
  /\ Asked("stage")
  /\ Recited
  /\ UNCHANGED <<input, place, limit>>

(* The worktree is removed and the process ends; or it is killed, or panics. *)
Exit ==
  /\ pc = "printed" /\ pc' = "exited"
  /\ UNCHANGED <<input, place, review, verdict, limit>>
Die ==
  /\ pc \notin {"printed", "exited"} /\ pc' = "exited"
  /\ UNCHANGED <<input, place, review, verdict, limit>>

-----------------------------------------------------------------------------
ToolStep ==
  \/ StartBinary \/ Checkout \/ ApplyNext \/ SeriesIsApplied \/ ApplyAgain \/ TreeIsReady
  \/ Decide \/ AskModel \/ OverBudget \/ TurnsAreUp \/ PromptFails \/ SkipStage
  \/ NothingFound
  \/ \E where \in {"guides", "plan"} : ChoiceComes(where) \/ ChoiceFails(where)
  \/ ToolsAreCalled \/ AnswerIsValid \/ AnswerIsInvalid \/ AnswerIsRecited
  \/ Exit

ToolNext == ToolStep \/ Die
ToolSpec == ToolInit /\ [][ToolNext]_toolVars

(* The daemon answers every request or kills the binary. *)
ToolFairSpec == ToolSpec /\ WF_toolVars(ToolStep)

-----------------------------------------------------------------------------
ToolTypeOK ==
  /\ input \in Input
  /\ pc \in {"start", "checkout", "apply", "again", "decide", "begin", "asked",
             "printed", "exited"}
  /\ tree \subseteq Nat /\ next \in Nat /\ applied \in BOOLEAN
  /\ attempt \in 1..Attempts
  /\ at \in {"guides", "plan", "stage"} /\ stage \in Stage
  /\ turn \in Nat /\ round \in 0..(Rounds * Rounds - 1) /\ free \in BOOLEAN
  /\ todo \subseteq Explore /\ answered \subseteq Stage /\ concerns \in BOOLEAN
  /\ verdict \in {"none", "error", "unreviewed", "clean", "findings"}
  /\ limit \in BOOLEAN

(* A patch is said to be clean, or to have findings, only when every stage   *)
(* of the settings, or at least the stages 1 to 3, answered validly in the   *)
(* attempt that ends with it: no failure of the model, the budget or the     *)
(* limit turns into a review without issues. Findings come of a concern.     *)
CleanIsEarned ==
  /\ verdict \in {"clean", "findings"} => Selected(input) \subseteq answered
  /\ verdict = "findings" => concerns /\ {8, 9, 10, 11} \subseteq answered
  /\ verdict = "clean" /\ concerns => 8 \in answered

(* The model explores the series up to the patch under review, however the   *)
(* tree got there and whatever was in it before: no later patch is in it,    *)
(* and none is missing but what git left out of a commit of the series.      *)
LeftOut(in) == UNION {(1..i) \ in.holds[i] : i \in in.named}
TreeIsOfTarget ==
  pc = "asked" => /\ tree \subseteq 1..Last(input)
                  /\ (1..Last(input)) \ tree \subseteq LeftOut(input)

(* The binary comes to an end whatever the model answers. *)
ReviewEnds == pc # "start" ~> pc = "exited"

(* What the daemon sees of the binary, and the contract with it: requests    *)
(* and answers alternate, nothing follows the one result, and a result that  *)
(* says the patch is reviewed is earned.                                     *)
Phase == CASE pc = "asked" -> "asked" [] pc = "printed" -> "done"
           [] pc = "exited" -> "gone" [] OTHER -> "busy"
Contract == INSTANCE ReviewChild WITH child <- Phase, required <- Selected(input)
ChildIsOrderly == Contract!ChildSpec

(* "Typed errors that must not be silently retried": once a stage hit the    *)
(* turn limit or the budget, nothing more is asked.                          *)
LimitIsFinal == limit => pc # "asked"
=============================================================================
