------------------------------ MODULE MCIntake ------------------------------
(* What comes into the daemon: the mailing lists, the submissions, and the   *)
(* monitor that submits commits.  They share no state, so a behaviour has    *)
(* one subject and the others stay as they begin.                            *)
(*                                                                           *)
(* Mailing lists: a group whose first article is missing on the server, and  *)
(* one with an article in its git archive and an article with an odd number. *)
(* Submissions: a commit, a range that contains it, and a thread whose first *)
(* message the archive has.                                                  *)
(* Monitor: one branch, of a history with an old commit, a fork, and a merge *)
(* of its sides.                                                             *)
EXTENDS Ingest, Submissions, RepoMonitor

CONSTANTS g1, g2, c1, r1, t1, x1, x2, y1, y2, local, remote

VARIABLE subject
intakeVars ==
  <<subject, IngestVars, SubmitVars, MonitorVars>>

MCTracked == <<g1, g2>>
MCEarlier == [g \in {g1, g2} |-> 1]
MCLatest  == [g \in {g1, g2} |-> IF g = g1 THEN 2 ELSE 1]
MCMissing == {<<g1, 1>>}
MCOdd     == {<<g2, 1>>}
MCArchive == [g \in {g1, g2} |-> IF g = g2 THEN <<{1}>> ELSE <<>>]

MCIds     == {c1, r1, t1}
MCKind    == [id \in MCIds |-> CASE id = c1 -> "single" [] id = r1 -> "range" [] id = t1 -> "thread"]
MCCommits == [id \in MCIds |-> CASE id = c1 -> <<x1>> [] id = r1 -> <<x1, x2>> [] id = t1 -> <<y1, y2>>]

MCParents == [c \in History |-> CASE c = "c0" -> {} [] c = "c3" -> {"c1", "c2"}
                                  [] OTHER -> {"c0"}]

IntakeInit ==
  /\ subject \in {"ingest", "submissions", "monitor"}
  /\ IngestInit /\ SubmitInit /\ MonitorInit
  /\ subject # "monitor" => tip = [b \in Branches |-> "c0"]

OfIngest(step) ==
  /\ subject = "ingest" /\ step
  /\ UNCHANGED <<subject, SubmitVars, MonitorVars>>
OfSubmissions(step) ==
  /\ subject = "submissions" /\ step
  /\ UNCHANGED <<subject, IngestVars, MonitorVars>>
OfMonitor(step) ==
  /\ subject = "monitor" /\ step
  /\ UNCHANGED <<subject, IngestVars, SubmitVars>>
IntakeNext ==
  \/ OfIngest(IngestNext) \/ OfSubmissions(SubmitNext) \/ OfMonitor(MonitorNext)

(* Every task of the daemon goes on, and a daemon that crashed is started    *)
(* again; the handlers, the agent and the worker never stop for good; the    *)
(* monitor polls on, its client may go on failing.                           *)
IngestFair ==
  /\ WF_intakeVars(OfIngest(\E dl \in BOOLEAN : IngestBoot(dl)))
  /\ WF_intakeVars(OfIngest(IngestorStep)) /\ WF_intakeVars(OfIngest(WorkerStep))
  /\ WF_intakeVars(OfIngest(Receive))
  /\ \A p \in Parsers : WF_intakeVars(OfIngest(SpawnParser(p) \/ Parse(p)))
SubmitFair ==
  /\ \A r \in Requests : WF_intakeVars(OfSubmissions(HandlerStep(r)))
  /\ WF_intakeVars(OfSubmissions(AgentStep))
  /\ \A id \in MCIds : WF_intakeVars(OfSubmissions(StoreOf(id)))
MonitorFair ==
  /\ \A b \in Branches : WF_intakeVars(OfMonitor(Poll(b)))
  /\ WF_intakeVars(OfMonitor(MonitorStep))

IntakeSpec == IntakeInit /\ [][IntakeNext]_intakeVars /\ IngestFair /\ SubmitFair /\ MonitorFair

(* The monitor alone. *)
MonitorFairSpec ==
  /\ IntakeInit /\ subject = "monitor"
  /\ [][OfMonitor(MonitorNext)]_intakeVars /\ MonitorFair
=============================================================================
