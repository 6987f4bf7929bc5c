----------------------------- MODULE Checkouts ------------------------------
(***************************************************************************)
(* Finding a baseline for a series and keeping a checkout of it: the       *)
(* candidates of baseline.rs in their order, the remotes and worktrees of  *)
(* git_ops.rs, prepare_baseline_worktree of reviewer.rs, and what a start  *)
(* of the daemon cleans up.                                                *)
(*                                                                         *)
(* Git's own behaviour is external: rev-parse accepts every full object    *)
(* name, whether the object is there or not, and any other name only if it *)
(* is known; git am refuses an index that differs from HEAD.  The metadata *)
(* of a worktree lives in its repository, which is the daemon's own or one *)
(* that a submission names, its directory in that of the settings.         *)
(***************************************************************************)
EXTENDS Naturals, Sequences, FiniteSets

CONSTANTS
  Series,        \* patchsets whose tasks run at once
  Commits,       \* object names, of commits that exist or that a mail names
  Ids,           \* [Series -> Seq of message ids]: a full commit name, or "mail"
  Candidates,    \* [Series -> Seq of [kind, ref, repo]]: a forced baseline, or what
                 \* resolve_candidates returns
  Names,         \* remote names
  Tip,           \* [urls of remotes -> the commit of their HEAD]
  UrlName,       \* [urls -> Names]: the name remote_map or suggest_remote_name gives
  Local,         \* [names of commits that are not full object names -> Commits]
  Short,         \* those among them that abbreviate an object name
  Here, Origin,  \* commits in the repository at first, and those origin can give
  Known,         \* names the repository has at first
  Foreign,       \* [other repositories -> [objects, known]], which nobody changes
  Pooled,        \* series of ten and more patches
  MaxCheckoutCrashes, \* bound on crashes
  Main,          \* settings.git.repository_path
  NoSeries, NoUrl, NoCheckout

Urls == DOMAIN Tip
Refs == DOMAIN Local

(* A base commit the mail or the submission names, the latter in a directory *)
(* that may be a repository of its own; a remote; a tag of the version.      *)
Candidacy ==
  [kind : {"commit"}, ref : Commits \cup Refs, repo : {Main}]
    \cup [kind : {"inrepo"}, ref : Commits \cup Refs, repo : {Main} \cup DOMAIN Foreign]
    \cup [kind : {"remote"}, ref : Urls, repo : {Main}]
    \cup [kind : {"local"}, ref : Refs, repo : {Main}]

ASSUME CheckoutsAssumption ==
  /\ IsFiniteSet(Series) /\ Pooled \subseteq Series /\ MaxCheckoutCrashes \in Nat
  /\ Here \cup Origin \subseteq Commits /\ "mail" \notin Commits
  /\ Tip \in [Urls -> Commits] /\ UrlName \in [Urls -> Names]
  /\ Local \in [Refs -> Commits] /\ Short \subseteq Refs /\ Known \subseteq Refs
  /\ Refs \cap Commits = {} /\ Main \notin DOMAIN Foreign
  /\ DOMAIN Ids = Series /\ \A s \in Series : Ids[s] \in Seq(Commits \cup {"mail"})
  /\ DOMAIN Candidates = Series
  /\ \A s \in Series : Candidates[s] \in Seq(Candidacy)
  /\ NoSeries \notin Series /\ NoUrl \notin Urls
  /\ NoCheckout \notin Commits \cup (Series \X Nat \X Nat)

VARIABLES
  task,       \* [Series -> the state of its review task]
  objects,    \* commits in the repository
  known,      \* names it has
  remotes,    \* [Names -> the url configured for it]
  heads,      \* [Names -> the url whose HEAD refs/remotes/<name>/HEAD shows]
  recent,     \* names fetched within the interval
  lock,       \* [Names -> who holds the lock of the remote]
  registered, \* worktrees their repository knows
  dirs,       \* worktree directories
  daemon,     \* "down", "pruned" or "unpruned" (in main), "up" (the reviewer runs)
  checkoutCrashes, \* crashes so far
  left        \* history: directories a crash or a kill left behind

checkoutVars == <<task, objects, known, remotes, heads, recent, lock, registered, dirs,
                  daemon, checkoutCrashes, left>>

(* at: the candidate; seen: commits tried; head and tree: the commit and the *)
(* index of the checkout, as a base and the patches on it; sha: what is      *)
(* recorded for each patch; unsaved: patches whose commit git refused.       *)
Unbegun == [pc |-> "waiting", at |-> 0, seen |-> {}, dir |-> NoCheckout,
            base |-> NoCheckout, head |-> {}, tree |-> {}, sha |-> <<>>, unsaved |-> {},
            pool |-> {}]

(* Some of the series are not up for a review. *)
CheckoutInit ==
  /\ \E pending \in SUBSET Series :
       task = [s \in Series |-> IF s \in pending THEN Unbegun ELSE [Unbegun EXCEPT !.pc = "none"]]
  /\ objects = Here /\ known = Known
  /\ remotes = [n \in Names |-> NoUrl] /\ heads = [n \in Names |-> NoUrl]
  /\ recent = {} /\ lock = [n \in Names |-> NoSeries]
  /\ registered = {} /\ dirs = {}
  /\ daemon = "down" /\ checkoutCrashes = 0 /\ left = {}

Up(s, pc) == daemon = "up" /\ task[s].pc = pc
Goes(s, pc) == task' = [task EXCEPT ![s].pc = pc]

Candidate(s) == Candidates[s][task[s].at]
Tried(s) == task[s].at = Len(Candidates[s])

(* The next candidate, or the end of the search. *)
NextCandidate(s) ==
  IF Tried(s) THEN [task[s] EXCEPT !.pc = "none", !.dir = NoCheckout]
  ELSE LET c == Candidates[s][task[s].at + 1] IN
       [task[s] EXCEPT !.at = @ + 1, !.dir = NoCheckout, !.sha = <<>>, !.unsaved = {},
                       !.pc = IF c.kind = "remote" THEN "remote" ELSE "resolve"]
TryNext(s) == task' = [task EXCEPT ![s] = NextCandidate(s)]

RepoOnly  == UNCHANGED <<registered, dirs, daemon, checkoutCrashes, left>>
RepoSame  == UNCHANGED <<objects, known, remotes, heads, recent, lock>>
TreesSame == UNCHANGED <<registered, dirs, left>>

-----------------------------------------------------------------------------
(* main prunes the worktrees its repository knows and whose directory is     *)
(* gone; then the reviewer empties the worktree directory.                   *)

(* The checkouts of a task are in the repository of their candidate, those   *)
(* of the pool in the daemon's own.                                          *)
RepoOf(d) == IF d[2] = 0 THEN Main ELSE Candidates[d[1]][d[2]].repo

PruneWorktrees ==
  /\ daemon = "down"
  /\ \/ registered' = {d \in registered : d \in dirs \/ RepoOf(d) # Main}
        /\ daemon' = "pruned"
     \/ UNCHANGED registered /\ daemon' = "unpruned"   \* only logged
  /\ UNCHANGED <<task, dirs, checkoutCrashes, left>> /\ RepoSame

StartReviewer ==
  /\ daemon \in {"pruned", "unpruned"}
  /\ dirs' = {} /\ left' = {}
  /\ daemon' = "up"
  /\ UNCHANGED <<task, registered, checkoutCrashes>> /\ RepoSame

CrashDaemon ==
  /\ daemon = "up" /\ checkoutCrashes < MaxCheckoutCrashes
  /\ checkoutCrashes' = checkoutCrashes + 1
  /\ daemon' = "down"
  /\ task' = [s \in Series |-> IF task[s].pc \in {"none", "reviewed"} THEN task[s] ELSE Unbegun]
  /\ lock' = [n \in Names |-> NoSeries]
  /\ left' = dirs
  /\ UNCHANGED <<objects, known, remotes, heads, recent, registered, dirs>>

-----------------------------------------------------------------------------
(* ensure_remote, under the lock of the name.  A remote that is there keeps  *)
(* its url.                                                                  *)

BeginSearch(s) == /\ Up(s, "waiting") /\ TryNext(s) /\ RepoSame
             /\ UNCHANGED <<daemon, checkoutCrashes>> /\ TreesSame

NameOf(s) == UrlName[Candidate(s).ref]

LockRemote(s) ==
  /\ Up(s, "remote") /\ lock[NameOf(s)] = NoSeries
  /\ LET n == NameOf(s)
         added == remotes[n] = NoUrl
         fetch == added \/ heads[n] = NoUrl \/ n \notin recent IN
     /\ remotes' = IF added THEN [remotes EXCEPT ![n] = Candidate(s).ref] ELSE remotes
     /\ lock' = IF fetch THEN [lock EXCEPT ![n] = s] ELSE lock
     /\ Goes(s, IF fetch THEN "fetch" ELSE "resolve")
  /\ UNCHANGED <<objects, known, heads, recent>> /\ RepoOnly

(* The command fails: the remote is not added and the candidate is dropped.  *)
AddRemoteFails(s) ==
  /\ Up(s, "remote") /\ lock[NameOf(s)] = NoSeries /\ remotes[NameOf(s)] = NoUrl
  /\ TryNext(s) /\ RepoSame /\ RepoOnly

(* A fetch that fails leaves no timestamp and is only logged. *)
FetchRemote(s) ==
  /\ Up(s, "fetch")
  /\ LET n == NameOf(s) IN
     \/ objects' = objects \cup {Tip[remotes[n]]} /\ recent' = recent \cup {n}
     \/ UNCHANGED <<objects, recent>>
  /\ Goes(s, "set-head")
  /\ UNCHANGED <<known, remotes, heads, lock>> /\ RepoOnly

(* set-head asks the server; the branch it shows must have been fetched.     *)
SetHead(s) ==
  /\ Up(s, "set-head")
  /\ LET n == NameOf(s) IN
     /\ \/ Tip[remotes[n]] \in objects /\ heads' = [heads EXCEPT ![n] = remotes[n]]
        \/ UNCHANGED heads
     /\ lock' = [lock EXCEPT ![n] = NoSeries]
  /\ Goes(s, "resolve")
  /\ UNCHANGED <<objects, known, remotes, recent>> /\ RepoOnly

(* The fetch interval of a remote passes. *)
Outdate(n) ==
  /\ n \in recent /\ recent' = recent \ {n}
  /\ UNCHANGED <<task, objects, known, remotes, heads, lock>> /\ RepoOnly

-----------------------------------------------------------------------------
(* get_commit_hash: a set of at most one commit. *)

Objects(repo) == IF repo = Main THEN objects ELSE Foreign[repo].objects
IsKnown(ref, repo) ==
  IF ref \in Short THEN Local[ref] \in Objects(repo)
  ELSE ref \in (IF repo = Main THEN known ELSE Foreign[repo].known)

RevParse(c) ==
  IF c.kind = "remote"
  THEN LET u == heads[UrlName[c.ref]] IN IF u = NoUrl THEN {} ELSE {Tip[u]}
  ELSE IF c.ref \in Commits THEN {c.ref}
  ELSE IF IsKnown(c.ref, c.repo) THEN {Local[c.ref]} ELSE {}

(* A candidate whose commit is not found is dropped; an explicit base commit *)
(* is first fetched from origin, which a full name never is, since rev-parse *)
(* takes it for found.  A commit is tried once.                              *)
ResolveCandidate(s, from) ==
  /\ Up(s, from)
  /\ LET found == RevParse(Candidate(s)) IN
     IF from = "resolve" /\ found = {} /\ Candidate(s).kind = "commit"
     THEN Goes(s, "origin")
     ELSE IF found \subseteq task[s].seen
     THEN TryNext(s)
     ELSE LET c == CHOOSE x \in found : TRUE IN
          task' = [task EXCEPT ![s].pc = "add", ![s].base = c, ![s].seen = @ \cup {c}]
  /\ RepoSame /\ RepoOnly

(* Origin may not know the name; whether the repository then has it, and not *)
(* the commit alone, is a matter of what origin is configured to fetch.      *)
FetchFromOrigin(s) ==
  LET ref == Candidate(s).ref IN
  /\ Up(s, "origin")
  /\ \/ UNCHANGED <<objects, known>>
     \/ /\ ref \in Refs \ Short /\ Local[ref] \in Origin
        /\ objects' = objects \cup {Local[ref]}
        /\ known' \in {known, known \cup {ref}}
  /\ Goes(s, "retry")
  /\ UNCHANGED <<remotes, heads, recent, lock>> /\ RepoOnly

-----------------------------------------------------------------------------
(* GitWorktree: make a directory, add the metadata under the lock, then fill *)
(* the directory.  A TempDir that is dropped takes the directory with it.    *)

MakeDirectory(s) ==
  LET d == <<s, task[s].at, checkoutCrashes>> IN
  /\ Up(s, "add")
  /\ \/ /\ dirs' = dirs \cup {d}
        /\ task' = [task EXCEPT ![s].pc = "register", ![s].dir = d]
     \/ TryNext(s) /\ UNCHANGED dirs
  /\ UNCHANGED <<registered, daemon, checkoutCrashes, left>> /\ RepoSame

RegisterWorktree(s) ==
  /\ Up(s, "register")
  /\ \/ /\ task[s].base \in Objects(Candidate(s).repo)
        /\ registered' = registered \cup {task[s].dir} /\ Goes(s, "populate")
        /\ UNCHANGED dirs
     \/ TryNext(s) /\ dirs' = dirs \ {task[s].dir} /\ UNCHANGED registered
  /\ UNCHANGED <<daemon, checkoutCrashes, left>> /\ RepoSame

PopulateWorktree(s) ==
  /\ Up(s, "populate")
  /\ \/ /\ task' = [task EXCEPT ![s].pc = "apply", ![s].head = {}, ![s].tree = {}]
        /\ UNCHANGED dirs
     \/ TryNext(s) /\ dirs' = dirs \ {task[s].dir}
  /\ UNCHANGED <<registered, daemon, checkoutCrashes, left>> /\ RepoSame

RemoveDirectory_Not(s) == dirs
RemoveDirectory(s) == dirs \ {task[s].dir}

(* remove: the directory, then the metadata under the lock; its error is     *)
(* ignored.                                                                  *)
RemoveWorktree(s, from, to) ==
  /\ Up(s, from)
  /\ dirs' = RemoveDirectory(s)
  /\ Goes(s, to)
  /\ UNCHANGED <<registered, daemon, checkoutCrashes, left>> /\ RepoSame
Unregister(s) == registered' \in {registered, registered \ {task[s].dir}}

DropCandidate(s) == RemoveWorktree(s, "drop", "dropped")
CandidateIsDropped(s) ==
  /\ Up(s, "dropped") /\ Unregister(s) /\ TryNext(s)
  /\ UNCHANGED <<dirs, daemon, checkoutCrashes, left>> /\ RepoSame

-----------------------------------------------------------------------------
(* The patches, in order.                                                    *)

Turn(s) == Len(task[s].sha) + 1
IsCommit(s, i) == Ids[s][i] # "mail"
AllApplied(s) == Turn(s) > Len(Ids[s])
MailFollows(s) == Turn(s) < Len(Ids[s]) /\ ~IsCommit(s, Turn(s) + 1)
NeedsDiff(s) == ~IsCommit(s, Turn(s)) \/ MailFollows(s)
Own(s, i) == [base |-> Ids[s][i], patches |-> {}]
Record(t, sha) == [t EXCEPT !.sha = Append(@, sha)]
HeadOf(t) == [base |-> t.base, patches |-> t.head]

(* The message id is a commit and so is the next one, if there is one: the   *)
(* commit is looked up and recorded, the checkout stays where it is.         *)
LookUpCommit(s) ==
  /\ Up(s, "apply") /\ ~AllApplied(s) /\ IsCommit(s, Turn(s)) /\ ~MailFollows(s)
  /\ task' = [task EXCEPT ![s] = Record(@, Own(s, Turn(s)))]
  /\ RepoSame /\ RepoOnly

(* A message follows: the checkout moves to the commit, if it can. *)
ResetToCommit(s) ==
  /\ Up(s, "apply") /\ ~AllApplied(s) /\ IsCommit(s, Turn(s)) /\ MailFollows(s)
  /\ task' = [task EXCEPT ![s] =
                Record([@ EXCEPT !.base = Ids[s][Turn(s)], !.head = {}, !.tree = {}], Own(s, Turn(s)))]
  /\ RepoSame /\ RepoOnly

(* git am; or else git apply, git add and git commit, whose error is ignored.*)
ApplyMail(s) ==
  LET i == Turn(s)  t == task[s]
      all == [t EXCEPT !.head = t.tree \cup {i}, !.tree = @ \cup {i}]
      staged == [t EXCEPT !.tree = @ \cup {i}, !.unsaved = @ \cup {i}] IN
  /\ Up(s, "apply") /\ ~AllApplied(s) /\ NeedsDiff(s)
  /\ \E next \in {all, staged} : task' = [task EXCEPT ![s] = Record(next, HeadOf(next))]
  /\ RepoSame /\ RepoOnly

AfterFailedPatch_Next(s) == Record([task[s] EXCEPT !.pc = "apply"], HeadOf(task[s]))
AfterFailedPatch(s) == [task[s] EXCEPT !.pc = "drop"]

ApplyFails(s) ==
  /\ Up(s, "apply") /\ ~AllApplied(s) /\ NeedsDiff(s)
  /\ task' = [task EXCEPT ![s] = AfterFailedPatch(s)]
  /\ RepoSame /\ RepoOnly

(* create_baseline; if it fails the checkout is dropped. *)
RecordBaseline(s) ==
  /\ Up(s, "apply") /\ AllApplied(s)
  /\ Goes(s, "kept") \/ Goes(s, "drop")
  /\ RepoSame /\ RepoOnly

-----------------------------------------------------------------------------
(* The reviews of the kept checkout.  A long series has workers besides,     *)
(* whose review binary makes a checkout of its own, always in the daemon's   *)
(* repository; killed, it leaves it.                                         *)

PoolDir(s) == <<s, 0, checkoutCrashes>>

InMain(s) == RevParse([Candidate(s) EXCEPT !.repo = Main])

PoolReview(s) ==
  /\ Up(s, "kept") /\ s \in Pooled /\ PoolDir(s) \notin dirs \cup registered
  /\ InMain(s) # {} /\ task[s].pool = {}
  /\ dirs' = dirs \cup {PoolDir(s)}
  /\ task' = [task EXCEPT ![s].pool = {PoolDir(s)}]
  /\ UNCHANGED <<registered, daemon, checkoutCrashes, left>> /\ RepoSame

PoolRegisters(s) ==
  /\ Up(s, "kept") /\ task[s].pool # {} /\ task[s].pool \subseteq dirs \ registered
  /\ InMain(s) \subseteq objects
  /\ registered' = registered \cup task[s].pool
  /\ UNCHANGED <<task, dirs, daemon, checkoutCrashes, left>> /\ RepoSame

(* Removed when the binary ends, the directory before the metadata. *)
PoolRemoves(s) ==
  /\ Up(s, "kept") /\ task[s].pool # {} /\ task[s].pool \subseteq dirs
  /\ dirs' = dirs \ task[s].pool
  /\ UNCHANGED <<task, registered, daemon, checkoutCrashes, left>> /\ RepoSame

PoolReviewEnds(s) ==
  /\ Up(s, "kept") /\ task[s].pool # {}
  /\ \/ /\ task[s].pool \cap dirs = {}
        /\ registered' \in {registered, registered \ task[s].pool}
        /\ UNCHANGED left
     \/ left' = left \cup (task[s].pool \cap dirs) /\ UNCHANGED registered
  /\ task' = [task EXCEPT ![s].pool = {}]
  /\ UNCHANGED <<dirs, daemon, checkoutCrashes>> /\ RepoSame

(* The handles of the pool are awaited first. *)
ReviewsEnd(s) == task[s].pool = {} /\ RemoveWorktree(s, "kept", "removed")
SeriesIsReviewed(s) ==
  /\ Up(s, "removed") /\ Unregister(s)
  /\ task' = [task EXCEPT ![s].pc = "reviewed", ![s].dir = NoCheckout]
  /\ UNCHANGED <<dirs, daemon, checkoutCrashes, left>> /\ RepoSame

TaskStep(s) ==
  \/ BeginSearch(s) \/ LockRemote(s) \/ AddRemoteFails(s) \/ FetchRemote(s) \/ SetHead(s)
  \/ ResolveCandidate(s, "resolve") \/ FetchFromOrigin(s) \/ ResolveCandidate(s, "retry")
  \/ MakeDirectory(s) \/ RegisterWorktree(s) \/ PopulateWorktree(s)
  \/ DropCandidate(s) \/ CandidateIsDropped(s)
  \/ LookUpCommit(s) \/ ResetToCommit(s) \/ ApplyMail(s) \/ ApplyFails(s)
  \/ RecordBaseline(s)
  \/ PoolReview(s) \/ PoolRegisters(s) \/ PoolRemoves(s) \/ PoolReviewEnds(s)
  \/ ReviewsEnd(s) \/ SeriesIsReviewed(s)

CheckoutNext ==
  \/ \E s \in Series : TaskStep(s)
  \/ \E n \in Names : Outdate(n)
  \/ PruneWorktrees \/ StartReviewer \/ CrashDaemon

CheckoutSpec == CheckoutInit /\ [][CheckoutNext]_checkoutVars

-----------------------------------------------------------------------------
Places == Series \X Nat \X Nat
Held   == Places \cup {NoCheckout}
Bases  == Commits \cup {NoCheckout}
Sha    == [base : Bases, patches : SUBSET Nat]
Task   == [pc : {"waiting", "remote", "fetch", "set-head", "resolve", "origin", "retry",
                 "add", "register", "populate", "apply", "drop", "dropped", "kept", "removed",
                 "reviewed", "none"},
           at : Nat, seen : SUBSET Commits, dir : Held,
           base : Bases, head : SUBSET Nat, tree : SUBSET Nat,
           sha : Seq(Sha), unsaved : SUBSET Nat,
           pool : SUBSET Places]

CheckoutTypeOK ==
  /\ task \in [Series -> Task]
  /\ objects \subseteq Commits /\ known \subseteq Refs /\ recent \subseteq Names
  /\ remotes \in [Names -> Urls \cup {NoUrl}] /\ heads \in [Names -> Urls \cup {NoUrl}]
  /\ lock \in [Names -> Series \cup {NoSeries}]
  /\ registered \subseteq Places /\ dirs \subseteq Places /\ left \subseteq dirs
  /\ daemon \in {"down", "pruned", "unpruned", "up"} /\ checkoutCrashes \in 0..MaxCheckoutCrashes

(* No path of the search and of the reviews leaves a checkout behind: every  *)
(* directory is in use by a task or its pool, unless a crash or a kill left  *)
(* it there; and what a task works in is there, in its repository's metadata *)
(* from the moment that git added it.                                        *)
Added == {"populate", "apply", "drop", "kept"}
Uses(t) == IF t.pc \in Added \cup {"register"} THEN {t.dir} ELSE {}
NothingIsLeftBehind ==
  /\ dirs \ left \subseteq UNION {Uses(task[s]) \cup task[s].pool : s \in Series}
  /\ \A s \in Series : /\ Uses(task[s]) \subseteq dirs
                       /\ task[s].pc \in Added => task[s].dir \in registered

(* The commits a kept checkout was recorded with are the series on the       *)
(* baseline: the one of a mailed patch has every patch before it and no      *)
(* later one, as far as git commit took them.                                *)
Mailed(s) == \A i \in DOMAIN Ids[s] : ~IsCommit(s, i)
SeriesIsOnBaseline ==
  \A s \in Series : task[s].pc = "kept" /\ Mailed(s) =>
    \A i \in DOMAIN Ids[s] :
      /\ task[s].sha[i].base = task[s].base
      /\ task[s].sha[i].patches \subseteq 1..i
      /\ i \notin task[s].unsaved => task[s].sha[i].patches = 1..i

(* A start prunes stale worktrees: when the prune succeeded and the reviewer *)
(* begins, the repository knows no worktree that is not there.               *)
StaleIsPruned ==
  [][daemon = "pruned" /\ daemon' = "up" => registered' \subseteq dirs']_checkoutVars

(* A base commit that is named and missing is fetched from origin before the *)
(* search goes on.                                                           *)
NamedBaseIsFetched ==
  \A s \in Series : \A k \in DOMAIN Candidates[s] :
    LET c == Candidates[s][k] IN
    c.kind = "commit" /\ c.ref \in Origin /\ task[s].at > k => c.ref \in objects
=============================================================================
