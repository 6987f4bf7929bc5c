---------------------------- MODULE MCWorkbench -----------------------------
(* What a review is made with, the checkout its task prepares, the binary    *)
(* that runs the stages and a request of the binary to the model, and how    *)
(* its result gets out, by mail and through the caches and the dashboard.    *)
(* They share no state, so a behaviour has one subject and the others stay   *)
(* as they begin.                                                            *)
(*                                                                           *)
(* Checkouts: a mailed series that names a base commit only origin has, and  *)
(* then a remote, at once with a series of commits with a mail at its end,   *)
(* whose tag is missing, with another remote of the same name; or a series   *)
(* submitted with a repository of its own, long enough for a pool, at once   *)
(* with one submitted with a tag that only origin has; or the first at once  *)
(* with an abbreviation of a commit that its remote brings.                  *)
(* Reviews: all of a series of two patches, its first and its last, applied  *)
(* by the binary or before, with commits that hold what they should or lack  *)
(* a patch; with and without a model, guides and a plan.                     *)
(* Requests: two at once that ask the same, of every kind of provider.       *)
EXTENDS Checkouts, ReviewTool, ModelCall, ReadCache, Dashboard, EmailOutbox

CONSTANTS mails, commits, local, tagged, short, m1, m2

VARIABLE subject
workbenchVars == <<subject, checkoutVars, toolVars, callVars, CacheVars, dashboardVars,
  vars>>

Cand(kind, ref, repo) == [kind |-> kind, ref |-> ref, repo |-> repo]
MCIds == [s \in {mails, commits, local, tagged, short} |->
            CASE s = commits -> <<"p1", "p2", "mail">> [] s = short -> <<"mail">>
              [] OTHER -> <<"mail", "mail">>]
MCCandidates == [s \in {mails, commits, local, tagged, short} |->
  CASE s = mails   -> <<Cand("commit", "base", "linux"), Cand("remote", "u1", "linux")>>
    [] s = commits -> <<Cand("local", "v9", "linux"), Cand("remote", "u2", "linux")>>
    [] s = local   -> <<Cand("inrepo", "base", "other")>>
    [] s = tagged  -> <<Cand("commit", "v9", "linux")>>
    [] s = short   -> <<Cand("commit", "b", "linux")>>]
MCTip     == [u \in {"u1", "u2"} |-> IF u = "u1" THEN "h1" ELSE "h2"]
MCUrlName == [u \in {"u1", "u2"} |-> "net"]
MCLocal   == [r \in {"HEAD", "v9", "b"} |->
                CASE r = "HEAD" -> "master" [] r = "v9" -> "base" [] r = "b" -> "h1"]
MCForeign == [r \in {"other"} |-> [objects |-> {"base"}, known |-> {}]]

MCPending == {{mails, commits}, {local, tagged}, {mails, short}}

(* All mailed, in a worktree of its own; or recorded, in the one of the      *)
(* patch before or one that is new.  git commit may fail for either.         *)
Mail(target) ==
  [size |-> 2, target |-> target, direct |-> FALSE, named |-> {}, holds |-> <<{}, {}>>,
   left |-> {}, ai |-> TRUE, guides |-> FALSE, plan |-> FALSE, stages |-> {2, 5}]
Recorded(target, holds, before) ==
  [Mail(target) EXCEPT !.direct = TRUE, !.named = {1, 2}, !.holds = holds, !.left = before]
MCInputs ==
  {Mail(0), Mail(1), Mail(3), [Mail(2) EXCEPT !.ai = FALSE],
   [Mail(1) EXCEPT !.guides = TRUE, !.plan = TRUE, !.stages = {}],
   Recorded(1, <<{1}, {1, 2}>>, {1, 2}), Recorded(2, <<{1}, {1}>>, {}),
   [Recorded(1, <<{1}, {1, 2}>>, {}) EXCEPT !.direct = FALSE],
   [Recorded(2, <<{}, {1, 2}>>, {1}) EXCEPT !.direct = FALSE, !.named = {1}]}

MCKey == [c \in {m1, m2} |-> "question"]

MCInvalidated == <<"timeline", "findings">>

WorkbenchInit ==
  /\ subject \in {"checkouts", "review", "request", "cache", "dashboard", "mail"}
  /\ CheckoutInit /\ ToolInit /\ ModelInit /\ CacheInit /\ DashboardInit /\ Init
  /\ {s \in Series : task[s].pc = "waiting"} \in
       (IF subject = "checkouts" THEN MCPending ELSE {{}})
  /\ subject # "review" => input = Mail(0)
  /\ subject # "request" => provider = "stream"
  /\ subject # "dashboard" => servers = {}

OfCheckouts(step) ==
  /\ subject = "checkouts" /\ step
  /\ UNCHANGED <<subject, toolVars, callVars, CacheVars, dashboardVars, vars>>
OfReview(step) ==
  /\ subject = "review" /\ step
  /\ UNCHANGED <<subject, checkoutVars, callVars, CacheVars, dashboardVars, vars>>
OfRequest(step) ==
  /\ subject = "request" /\ step
  /\ UNCHANGED <<subject, checkoutVars, toolVars, CacheVars, dashboardVars, vars>>
OfCache(step) ==
  /\ subject = "cache" /\ step
  /\ UNCHANGED <<subject, checkoutVars, toolVars, callVars, dashboardVars, vars>>
OfDashboard(step) ==
  /\ subject = "dashboard" /\ step
  /\ UNCHANGED <<subject, checkoutVars, toolVars, callVars, CacheVars, vars>>

OfMail(step) ==
  /\ subject = "mail" /\ step
  /\ UNCHANGED <<subject, checkoutVars, toolVars, callVars, CacheVars, dashboardVars>>

WorkbenchNext ==
  \/ OfCheckouts(CheckoutNext) \/ OfReview(ToolNext) \/ OfRequest(ModelNext)
  \/ OfCache(CacheNext) \/ OfDashboard(DashboardNext)
  \/ OfMail(Next)

(* The daemon answers every request of the binary or kills it; it is started *)
(* again, its email worker goes on, and time passes.                         *)
WorkbenchSpec ==
  /\ WorkbenchInit /\ [][WorkbenchNext]_workbenchVars
  /\ WF_workbenchVars(OfReview(ToolStep))
  /\ WF_workbenchVars(OfMail(Start)) /\ WF_workbenchVars(OfMail(WorkerStep))
  /\ WF_workbenchVars(OfMail(Tick))
=============================================================================
