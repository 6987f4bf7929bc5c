----------------------------- MODULE ReviewChild -----------------------------
(***************************************************************************)
(* What the daemon relies on when it runs the review binary, whatever      *)
(* happens inside: requests and answers alternate, at most one result is   *)
(* printed and no request follows it, and a result that says the patch is  *)
(* reviewed comes only after a valid answer to each required stage.        *)
(***************************************************************************)
EXTENDS Naturals

CONSTANT Stage  \* the stages of a review

VARIABLES
  child,     \* "busy" computing, "asked" and waiting, "done" printing, "gone"
  verdict,   \* what the result says
  answered,  \* stages with a valid answer since the review last started over
  required   \* stages without which no patch counts as reviewed

childVars == <<child, verdict, answered, required>>

Verdicts == {"none", "error", "unreviewed", "clean", "findings"}
Reviewed == {"clean", "findings"}

ChildInit ==
  /\ child = "busy" /\ verdict = "none" /\ answered = {}
  /\ required \subseteq Stage

Ask ==
  /\ child = "busy" /\ child' = "asked"
  /\ UNCHANGED <<verdict, answered, required>>

(* An answer is of use for at most one stage; without one of use the review  *)
(* may have to start over.                                                   *)
Answered == {answered, {}} \cup {answered \cup {s} : s \in Stage}

Answer ==
  /\ child = "asked" /\ child' = "busy"
  /\ answered' \in Answered
  /\ UNCHANGED <<verdict, required>>

StartOver ==
  /\ child = "busy" /\ answered' = {}
  /\ UNCHANGED <<child, verdict, required>>

(* The result is printed, perhaps as soon as the last answer is there. *)
Conclude(v) ==
  /\ \/ child = "busy" /\ UNCHANGED answered
     \/ child = "asked" /\ answered' \in Answered
  /\ child' = "done" /\ verdict' = v
  /\ v \in Reviewed => required \subseteq answered'
  /\ UNCHANGED required

(* The end of the process, expected or not. *)
Leave ==
  /\ child # "gone" /\ child' = "gone"
  /\ UNCHANGED <<verdict, answered, required>>

ChildNext ==
  \/ Ask \/ Answer \/ StartOver \/ Leave
  \/ \E v \in Verdicts \ {"none"} : Conclude(v)

ChildSpec == ChildInit /\ [][ChildNext]_childVars
=============================================================================
