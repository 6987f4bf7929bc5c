---------------------------- MODULE RepoMonitor ----------------------------
(***************************************************************************)
(* The repository monitor, a daemon of its own: it polls the upstreams of  *)
(* its branches, submits every new commit with the command line client,    *)
(* and keeps in a file, per branch, the last commit it submitted and how   *)
(* often it failed.                                                        *)
(*                                                                         *)
(* A poll that cannot fetch, resolve an upstream or list commits changes   *)
(* nothing and is a stuttering step.                                       *)
(***************************************************************************)
EXTENDS Naturals, FiniteSets

CONSTANTS
  Branches,       \* the branches of the configuration
  History,        \* the commits upstream branches ever show
  Parents,        \* [History -> SUBSET History]
  Old,            \* commits before max_history_days
  MaxTries,       \* max_retries, of a submission and of a branch
  MaxPushes, MaxMonitorCrashes, MaxSaveErrors, \* bounds on pushes, crashes, failed saves
  NoCommit

VARIABLES
  tip,        \* [Branches -> the commit of its upstream]
  memory,     \* [Branches -> BranchState]: the MonitorState in memory
  onDisk,     \* the MonitorState in the file
  sync,       \* what the poller does
  submitted,  \* history: the commits the server has accepted
  untried,    \* history: branches with a commit that came after the last try
  pushes, monitorCrashes, saveErrors

MonitorVars == <<tip, memory, onDisk, sync, submitted, untried,
                 pushes, monitorCrashes, saveErrors>>

(* The commits a commit is made from, itself included: what every set that   *)
(* holds it and the parents of its members has in common.                    *)
WithParents == {S \in SUBSET History : \A x \in S : Parents[x] \subseteq S}
Past == [c \in History |-> {x \in History : \A S \in WithParents : c \in S => x \in S}]
Ancestors(c) == IF c = NoCommit THEN {} ELSE Past[c]

ASSUME MonitorAssumption ==
  /\ IsFiniteSet(Branches) /\ IsFiniteSet(History)
  /\ Parents \in [History -> SUBSET History] /\ NoCommit \notin History
  /\ Old \subseteq History /\ \A c \in Old : Parents[c] \subseteq Old
  /\ MaxTries \in Nat \ {0} /\ {MaxPushes, MaxMonitorCrashes, MaxSaveErrors} \subseteq Nat

Unsynced == [last |-> NoCommit, retries |-> 0]
NoState  == [b \in Branches |-> Unsynced]
Resting  == [pc |-> "idle", todo |-> {}, attempts |-> 0]
Stopped  == [Resting EXCEPT !.pc = "down"]

MonitorInit ==
  /\ tip \in [Branches -> {c \in History : Parents[c] \subseteq Old}]
  /\ memory = NoState /\ onDisk = NoState
  /\ sync = Stopped
  /\ submitted = {} /\ untried = Branches
  /\ pushes = 0 /\ monitorCrashes = 0 /\ saveErrors = 0

(* MonitorState::load; without a readable file the state is new.             *)
MonitorStarts ==
  /\ sync.pc = "down"
  /\ sync' = Resting /\ memory' = onDisk
  /\ UNCHANGED <<tip, onDisk, submitted, untried, pushes, monitorCrashes, saveErrors>>

(* save writes a temporary file and renames it: all or nothing; an error is  *)
(* only printed.                                                             *)
Save ==
  \/ onDisk' = memory' /\ UNCHANGED saveErrors
  \/ /\ saveErrors < MaxSaveErrors /\ saveErrors' = saveErrors + 1
     /\ UNCHANGED onDisk

(* rev-list start..end since max_history_days. *)
NewCommits(start, end) == Ancestors(end) \ (Ancestors(start) \cup Old)

GivenUp(b) == memory[b].retries >= MaxTries

Poll(b) ==
  /\ sync.pc = "idle"
  /\ tip[b] # memory[b].last /\ ~GivenUp(b)
  /\ sync' = [pc |-> "syncing", branch |-> b, target |-> tip[b], attempts |-> 0,
              todo |-> NewCommits(memory[b].last, tip[b])]
  /\ untried' = untried \ {b}
  /\ UNCHANGED <<tip, memory, onDisk, submitted, pushes, monitorCrashes, saveErrors>>

PollUnchanged(b) ==
  /\ sync.pc = "idle"
  /\ tip[b] = memory[b].last /\ memory[b].retries > 0
  /\ memory' = [memory EXCEPT ![b].retries = 0]
  /\ untried' = untried \ {b}
  /\ Save
  /\ UNCHANGED <<tip, sync, submitted, pushes, monitorCrashes>>

(* The next commit of rev-list --reverse: parents come first. *)
NextCommits == {c \in sync.todo : Parents[c] \cap sync.todo = {}}

Synced(b, c) == [memory EXCEPT ![b].last = c]

(* A failed submission ends the branch's turn; a mutation goes on with the   *)
(* next commit.                                                              *)
AfterFailedSync_Next(c) == [sync EXCEPT !.todo = @ \ {c}, !.attempts = 0]
AfterFailedSync(c) == Resting

(* execute_sync runs the client; it may fail after the server accepted.      *)
SyncSucceeds(c) ==
  /\ sync.pc = "syncing" /\ c \in NextCommits
  /\ submitted' = submitted \cup {c}
  /\ memory' = Synced(sync.branch, c)
  /\ sync' = [sync EXCEPT !.todo = @ \ {c}, !.attempts = 0]
  /\ UNCHANGED <<tip, onDisk, untried, pushes, monitorCrashes, saveErrors>>

SyncFails(c) ==
  /\ sync.pc = "syncing" /\ c \in NextCommits
  /\ submitted' \in {submitted, submitted \cup {c}}
  /\ IF sync.attempts + 1 < MaxTries
     THEN /\ sync' = [sync EXCEPT !.attempts = @ + 1]
          /\ UNCHANGED <<memory, onDisk, saveErrors>>
     ELSE /\ memory' = [memory EXCEPT ![sync.branch].retries = @ + 1]
          /\ sync' = AfterFailedSync(c)
          /\ Save
  /\ UNCHANGED <<tip, untried, pushes, monitorCrashes>>

BranchIsSynced ==
  /\ sync.pc = "syncing" /\ sync.todo = {}
  /\ memory' = [memory EXCEPT ![sync.branch] = [last |-> sync.target, retries |-> 0]]
  /\ sync' = Resting
  /\ Save
  /\ UNCHANGED <<tip, submitted, untried, pushes, monitorCrashes>>

(* A commit, a merge or a forced push upstream. *)
Push(b, c) ==
  /\ c # tip[b] /\ pushes < MaxPushes
  /\ pushes' = pushes + 1
  /\ tip' = [tip EXCEPT ![b] = c]
  /\ untried' = untried \cup {b}
  /\ UNCHANGED <<memory, onDisk, sync, submitted, monitorCrashes, saveErrors>>

MonitorCrashes ==
  /\ sync.pc # "down" /\ monitorCrashes < MaxMonitorCrashes
  /\ monitorCrashes' = monitorCrashes + 1
  /\ sync' = Stopped /\ memory' = NoState
  /\ UNCHANGED <<tip, onDisk, submitted, untried, pushes, saveErrors>>

MonitorStep ==
  \/ MonitorStarts
  \/ \E b \in Branches : Poll(b) \/ PollUnchanged(b)
  \/ \E c \in History : SyncSucceeds(c) \/ SyncFails(c)
  \/ BranchIsSynced

MonitorNext ==
  \/ MonitorStep
  \/ \E b \in Branches, c \in History : Push(b, c)
  \/ MonitorCrashes

MonitorSpec == MonitorInit /\ [][MonitorNext]_MonitorVars

-----------------------------------------------------------------------------
MonitorTypeOK ==
  /\ tip \in [Branches -> History]
  /\ memory \in [Branches -> [last : History \cup {NoCommit}, retries : 0..MaxTries]]
  /\ onDisk \in [Branches -> [last : History \cup {NoCommit}, retries : 0..MaxTries]]
  /\ sync.pc \in {"down", "idle", "syncing"} /\ sync.todo \subseteq History
  /\ submitted \subseteq History /\ untried \subseteq Branches
  /\ {pushes, monitorCrashes, saveErrors} \subseteq Nat

(* The state, in memory and on disk, never runs ahead: every commit behind   *)
(* the last one, within max_history_days, was accepted by the server,        *)
(* whatever merges and forced pushes come between the polls, whichever       *)
(* submission fails in the middle of a branch, and across crashes.           *)
Covered(state) ==
  \A b \in Branches : Ancestors(state[b].last) \ Old \subseteq submitted
NoCommitIsSkipped == Covered(memory) /\ Covered(onDisk)

(* A branch that reached max_retries is skipped until a new commit comes:    *)
(* one that has been given up, and shows a commit that came after the last   *)
(* try and that the server does not have, is tried again.                    *)
NewCommit(b) == b \in untried /\ tip[b] \notin submitted \cup Old
NewCommitIsTried == \A b \in Branches : GivenUp(b) /\ NewCommit(b) ~> b \notin untried
=============================================================================
