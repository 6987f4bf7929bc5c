-------------------------- MODULE RepositoryProofs --------------------------
(***************************************************************************)
(* Proofs about Checkouts and RepoMonitor: for all series, candidates,     *)
(* remotes and crashes; for all branches, histories, forced pushes and     *)
(* crashes of the monitor.                                                 *)
(***************************************************************************)
EXTENDS Checkouts, RepoMonitor, SequenceTheorems, TLAPS

(***************************************************************************)
(* The checkouts of the reviewer                                           *)
(***************************************************************************)
Pcs == {"waiting", "remote", "fetch", "set-head", "resolve", "origin", "retry", "add",
        "register", "populate", "apply", "drop", "dropped", "kept", "removed", "reviewed",
        "none"}

\* A task before a search and after it, one that uses no checkout, one with nothing
\* applied yet.
Rest  == {"waiting", "none", "reviewed"}
Idle  == {"waiting", "remote", "fetch", "set-head", "resolve", "origin", "retry", "add",
          "dropped", "removed", "reviewed", "none"}
Fresh == {"remote", "fetch", "set-head", "resolve", "origin", "retry", "add", "register",
          "populate"}

\* What is recorded for the patches so far, in a series of mails.
Applied(s, t) ==
  /\ Len(t.sha) <= Len(Ids[s]) /\ (t.pc = "kept" => Len(t.sha) = Len(Ids[s]))
  /\ t.tree = 1..Len(t.sha) /\ t.head \subseteq t.tree /\ t.unsaved \subseteq t.tree
  /\ \A i \in 1..Len(t.sha) :
       /\ t.sha[i].base = t.base /\ t.sha[i].patches \subseteq 1..i
       /\ i \notin t.unsaved => t.sha[i].patches = 1..i

\* The task of a series: its candidate, the names of its directories, its patches.
Shape(s, t) ==
  /\ t.at <= Len(Candidates[s]) /\ (t.pc \notin Rest => t.at >= 1)
  /\ t.pc \in {"remote", "fetch", "set-head"} => Candidates[s][t.at].kind = "remote"
  /\ t.dir # NoCheckout => t.dir[1] = s /\ t.dir[2] > 0
  /\ \A d \in t.pool : d[1] = s /\ d[2] = 0
  /\ t.pool # {} => t.pc = "kept"
  /\ t.pc \in Fresh => t.sha = <<>> /\ t.unsaved = {}
  /\ Mailed(s) /\ t.pc \in {"apply", "kept"} => Applied(s, t)

\* What a task relies on: its remote is configured, its checkout is there and, once
\* git added it, registered; its pool has one directory, which is not left behind;
\* while the daemon is down no task is at work.
RemoteIsThere(s, t) ==
  t.pc \in {"fetch", "set-head"} => remotes[UrlName[Candidates[s][t.at].ref]] # NoUrl
Placed(s, t) == /\ Uses(t) \subseteq dirs /\ (t.pc \in Added => t.dir \in registered)
                /\ t.pool \subseteq {PoolDir(s)} /\ t.pool \cap left = {}
                /\ daemon # "up" => t.pc \in Rest

CheckoutInv ==
  /\ CheckoutTypeOK
  /\ \A s \in Series : /\ Shape(s, task[s]) /\ RemoteIsThere(s, task[s])
                       /\ Placed(s, task[s])
  /\ daemon = "up" => \A d \in left : d[2] = 0
  /\ dirs \ left \subseteq UNION {Uses(task[s]) \cup task[s].pool : s \in Series}

-----------------------------------------------------------------------------
\* What a series is looked for at, and what its patches are.
LEMMA SeriesAre ==
  ASSUME NEW s \in Series
  PROVE  /\ Len(Candidates[s]) \in Nat /\ Len(Ids[s]) \in Nat /\ DOMAIN Ids[s] = 1..Len(Ids[s])
         /\ \A i \in 1..Len(Ids[s]) : Ids[s][i] \in Commits \cup {"mail"}
         /\ \A k \in 1..Len(Candidates[s]) : LET c == Candidates[s][k] IN
              /\ c.kind \in {"commit", "inrepo", "remote", "local"}
              /\ c.kind # "remote" => c.ref \in Commits \cup Refs
              /\ c.kind = "remote" => c.ref \in Urls /\ UrlName[c.ref] \in Names
<1>1. Ids[s] \in Seq(Commits \cup {"mail"}) /\ Candidates[s] \in Seq(Candidacy)
      /\ UrlName \in [Urls -> Names]
  BY CheckoutsAssumption
<1>2. \A k \in 1..Len(Candidates[s]) : Candidates[s][k] \in Candidacy
  BY <1>1
<1>3. \A c \in Candidacy : /\ c.kind \in {"commit", "inrepo", "remote", "local"}
                           /\ c.kind # "remote" => c.ref \in Commits \cup Refs
                           /\ c.kind = "remote" => c.ref \in Urls
  BY DEF Candidacy
<1>4. QED
  BY <1>1, <1>2, <1>3

LEMMA TaskIs ==
  ASSUME NEW t \in Task
  PROVE  /\ t.pc \in Pcs /\ t.at \in Nat /\ t.seen \subseteq Commits
         /\ t.dir \in Held /\ t.base \in Bases
         /\ t.head \subseteq Nat /\ t.tree \subseteq Nat /\ t.unsaved \subseteq Nat
         /\ t.sha \in Seq(Sha) /\ Len(t.sha) \in Nat /\ t.pool \subseteq Places
         /\ \A i \in 1..Len(t.sha) : t.sha[i] \in Sha
<1>1. /\ t.pc \in Pcs /\ t.at \in Nat /\ t.seen \subseteq Commits
      /\ t.dir \in Held /\ t.base \in Bases
      /\ t.head \subseteq Nat /\ t.tree \subseteq Nat /\ t.unsaved \subseteq Nat
      /\ t.sha \in Seq(Sha) /\ t.pool \subseteq Places
  BY DEF Task, Pcs
<1>2. QED
  BY <1>1

\* A task goes somewhere.
LEMMA GoesDoes ==
  ASSUME NEW t \in Task, NEW pc \in Pcs
  PROVE  LET u == [t EXCEPT !.pc = pc] IN
         /\ u \in Task /\ u.pc = pc /\ u.at = t.at /\ u.seen = t.seen /\ u.dir = t.dir
         /\ u.base = t.base /\ u.head = t.head /\ u.tree = t.tree /\ u.sha = t.sha
         /\ u.unsaved = t.unsaved /\ u.pool = t.pool
BY DEF Task, Pcs

LEMMA NoCheckoutIs == NoCheckout \notin Places /\ NoCheckout \in Bases /\ NoCheckout \in Held
BY CheckoutsAssumption DEF Places, Bases, Held

LEMMA UnbegunIs ==
  ASSUME NEW s \in Series
  PROVE  /\ Unbegun \in Task /\ Shape(s, Unbegun) /\ RemoteIsThere(s, Unbegun)
         /\ Unbegun.pc = "waiting" /\ Unbegun.pool = {}
<1>1. <<>> \in Seq(Sha)
  OBVIOUS
<1>2. Unbegun \in Task
  BY <1>1, NoCheckoutIs DEF Unbegun, Task
<1>3. /\ Unbegun.pc = "waiting" /\ Unbegun.pool = {} /\ Unbegun.dir = NoCheckout /\ Unbegun.at = 0
  BY DEF Unbegun
<1>4. Shape(s, Unbegun)
  BY <1>3, SeriesAre DEF Shape, Rest, Fresh
<1>5. QED
  BY <1>2, <1>3, <1>4 DEF RemoteIsThere

\* The candidate after this one, or the end of the search.
LEMMA NextIs ==
  ASSUME CheckoutTypeOK, NEW s \in Series, Shape(s, task[s]), task[s].pool = {}
  PROVE  LET t == NextCandidate(s) IN
         /\ t \in Task /\ Shape(s, t) /\ t.pool = {} /\ t.dir = NoCheckout
         /\ t.pc \in {"none", "remote", "resolve"}
<1> DEFINE t == task[s]
<1>1. t \in Task /\ t.at \in Nat /\ t.at <= Len(Candidates[s]) /\ t.pool = {}
  BY TaskIs DEF CheckoutTypeOK, Shape
<1>2. CASE Tried(s)
  <2> DEFINE u == [t EXCEPT !.pc = "none", !.dir = NoCheckout]
  <2>1. u \in Task /\ u.pc = "none" /\ u.dir = NoCheckout /\ u.pool = {} /\ u.at = t.at
    BY <1>1, NoCheckoutIs DEF Task
  <2>2. NextCandidate(s) = u
    BY <1>2 DEF NextCandidate
  <2> HIDE DEF u, t
  <2>3. Shape(s, u)
    BY <1>1, <2>1 DEF Shape, Rest, Fresh
  <2>4. QED
    BY <2>1, <2>2, <2>3
<1>3. CASE ~Tried(s)
  <2> DEFINE k == t.at + 1
             c == Candidates[s][k]
             p == IF c.kind = "remote" THEN "remote" ELSE "resolve"
             u == [t EXCEPT !.at = k, !.dir = NoCheckout, !.sha = <<>>, !.unsaved = {}, !.pc = p]
  <2>1. k \in Nat /\ k >= 1 /\ k <= Len(Candidates[s])
    BY <1>1, <1>3, SeriesAre DEF Tried
  <2>2. NextCandidate(s) = u
    BY <1>3 DEF NextCandidate
  <2>3. /\ p \in {"remote", "resolve"} /\ (p = "remote" => Candidates[s][k].kind = "remote")
        /\ <<>> \in Seq(Sha)
    OBVIOUS
  <2> HIDE DEF k, p, t
  <2>4. /\ u \in Task /\ u.pc = p /\ u.dir = NoCheckout /\ u.pool = {} /\ u.at = k
        /\ u.sha = <<>> /\ u.unsaved = {}
    BY <1>1, <2>1, <2>3, NoCheckoutIs DEF Task
  <2> HIDE DEF u
  <2>5. Shape(s, u)
    BY <2>1, <2>3, <2>4 DEF Shape, Rest, Fresh
  <2>6. QED
    BY <2>2, <2>3, <2>4, <2>5
<1>4. QED
  BY <1>2, <1>3

-----------------------------------------------------------------------------
\* What a task uses, by where it is.
LEMMA UsesIs ==
  ASSUME NEW t \in Task
  PROVE  /\ t.pc \in Idle <=> t.pc \notin Added \cup {"register"}
         /\ t.pc \in Idle => Uses(t) = {}
         /\ t.pc \in Added \cup {"register"} => Uses(t) = {t.dir}
BY TaskIs DEF Pcs, Idle, Added, Uses

\* One task moves: what it finds and what it leaves behind are its own.
LEMMA OneMoves ==
  ASSUME CheckoutInv, NEW s \in Series, NEW t \in Task,
         task' = [task EXCEPT ![s] = t], Shape(s, t), RemoteIsThere(s, t)', Placed(s, t)',
         objects' \subseteq Commits, known' \subseteq Refs, recent' \subseteq Names,
         remotes' \in [Names -> Urls \cup {NoUrl}], heads' \in [Names -> Urls \cup {NoUrl}],
         \A n \in Names : remotes[n] # NoUrl => remotes'[n] # NoUrl,
         lock' \in [Names -> Series \cup {NoSeries}],
         UNCHANGED <<daemon, checkoutCrashes>>,
         registered' \subseteq Places, dirs' \subseteq Places, left' \subseteq dirs',
         \A d \in left' : d \in left \/ (d[1] = s /\ d[2] = 0),
         \A d \in dirs : d \in dirs' \/ d[1] = s,
         \A d \in registered : d \in registered' \/ d[1] = s,
         \A d \in dirs' \ left' : \/ d \in Uses(t) \cup t.pool
                                  \/ /\ d \in dirs \ left
                                     /\ d \notin Uses(task[s]) \cup task[s].pool
  PROVE  CheckoutInv'
<1>1. task \in [Series -> Task] /\ task' \in [Series -> Task] /\ task'[s] = t
      /\ \A x \in Series : x # s => task'[x] = task[x]
  BY DEF CheckoutInv, CheckoutTypeOK
<1>2. CheckoutTypeOK'
  BY <1>1 DEF CheckoutInv, CheckoutTypeOK
<1>3. daemon' = "up" => \A d \in left' : d[2] = 0
  BY DEF CheckoutInv
<1>4. ASSUME NEW x \in Series
      PROVE  /\ Shape(x, task'[x]) /\ RemoteIsThere(x, task[x])' /\ Placed(x, task[x])'
  <2>1. CASE x = s
    BY <1>1, <2>1 DEF RemoteIsThere, Placed, PoolDir
  <2>2. CASE x # s
    <3>1. task'[x] = task[x] /\ task[x] \in Task /\ Shape(x, task[x])
          /\ RemoteIsThere(x, task[x]) /\ Placed(x, task[x])
      BY <1>1, <2>2 DEF CheckoutInv
    <3>2. RemoteIsThere(x, task[x])'
      <4>1. task[x].pc \in {"fetch", "set-head"} => UrlName[Candidates[x][task[x].at].ref] \in Names
        <5>1. task[x].pc \in {"fetch", "set-head"} =>
                task[x].at \in 1..Len(Candidates[x]) /\ Candidates[x][task[x].at].kind = "remote"
          BY <3>1, TaskIs, SeriesAre DEF Shape, Rest
        <5>2. QED
          BY <5>1, SeriesAre
      <4>2. QED
        BY <3>1, <4>1 DEF RemoteIsThere
    <3>3. Placed(x, task[x])'
      <4>1. Uses(task[x]) \subseteq dirs' /\ (task[x].pc \in Added => task[x].dir \in registered')
        <5>1. CASE task[x].pc \in Idle
          BY <3>1, <5>1, UsesIs
        <5>2. CASE task[x].pc \in Added \cup {"register"}
          <6>1. Uses(task[x]) = {task[x].dir} /\ task[x].dir \in dirs
                /\ (task[x].pc \in Added => task[x].dir \in registered)
            BY <3>1, <5>2, UsesIs DEF Placed
          <6>2. task[x].dir[1] # s
            BY <2>2, <3>1, <6>1, NoCheckoutIs DEF Shape, CheckoutInv, CheckoutTypeOK
          <6>3. QED
            BY <6>1, <6>2
        <5>3. QED
          BY <3>1, <5>1, <5>2, UsesIs
      <4>2. task[x].pool \cap left' = {} /\ task[x].pool \subseteq {PoolDir(x)}'
        BY <2>2, <3>1 DEF Placed, Shape, PoolDir
      <4>3. QED
        BY <3>1, <4>1, <4>2 DEF Placed
    <3>4. QED
      BY <3>1, <3>2, <3>3
  <2>3. QED
    BY <2>1, <2>2
<1>5. ASSUME NEW d \in dirs' \ left'
      PROVE  \E x \in Series : d \in Uses(task'[x]) \cup task'[x].pool
  <2>1. CASE d \in Uses(t) \cup t.pool
    BY <1>1, <2>1
  <2>2. CASE d \in dirs \ left /\ d \notin Uses(task[s]) \cup task[s].pool
    <3>1. PICK x \in Series : d \in Uses(task[x]) \cup task[x].pool
      BY <2>2 DEF CheckoutInv
    <3>2. x # s /\ task'[x] = task[x]
      BY <1>1, <2>2, <3>1
    <3>3. QED
      BY <3>1, <3>2
  <2>3. QED
    BY <1>5, <2>1, <2>2
<1>6. (dirs \ left \subseteq UNION {Uses(task[x]) \cup task[x].pool : x \in Series})'
  BY <1>5
<1>7. QED
  BY <1>2, <1>3, <1>4, <1>6 DEF CheckoutInv

\* A step that changes the task and the repository only, not what is on disk.
LEMMA SearchMoves ==
  ASSUME CheckoutInv, NEW s \in Series, NEW t \in Task,
         task' = [task EXCEPT ![s] = t], Shape(s, t), RemoteIsThere(s, t)',
         objects' \subseteq Commits, known' \subseteq Refs, recent' \subseteq Names,
         remotes' \in [Names -> Urls \cup {NoUrl}], heads' \in [Names -> Urls \cup {NoUrl}],
         \A n \in Names : remotes[n] # NoUrl => remotes'[n] # NoUrl,
         lock' \in [Names -> Series \cup {NoSeries}],
         UNCHANGED <<registered, dirs, daemon, checkoutCrashes, left>>,
         daemon = "up", t.pool = task[s].pool,
         \/ t.pc \in Idle /\ task[s].pc \in Idle
         \/ t.pc \in Added /\ task[s].pc \in Added /\ t.dir = task[s].dir
  PROVE  CheckoutInv'
<1>1. /\ Uses(t) = Uses(task[s]) /\ task[s] \in Task /\ Placed(s, task[s])
      /\ (t.pc \in Added => task[s].pc \in Added /\ t.dir = task[s].dir)
  BY UsesIs DEF CheckoutInv, CheckoutTypeOK
<1>2. Placed(s, t)'
  BY <1>1 DEF Placed, PoolDir
<1>3. /\ registered' \subseteq Places /\ dirs' \subseteq Places /\ left' \subseteq dirs'
      /\ left' = left /\ dirs' = dirs /\ registered' = registered
  BY DEF CheckoutInv, CheckoutTypeOK
<1>4. \A d \in dirs' \ left' : \/ d \in Uses(t) \cup t.pool
                               \/ /\ d \in dirs \ left
                                  /\ d \notin Uses(task[s]) \cup task[s].pool
  BY <1>1, <1>3
<1>5. QED
  BY <1>2, <1>3, <1>4, OneMoves

\* What is known of a task that moves.
LEMMA MoverIs ==
  ASSUME CheckoutInv, NEW s \in Series
  PROVE  /\ task[s] \in Task /\ Shape(s, task[s]) /\ RemoteIsThere(s, task[s])
         /\ Placed(s, task[s])
         /\ task[s].pc # "kept" => task[s].pool = {}
BY DEF CheckoutInv, CheckoutTypeOK, Shape

\* The repository as it is.
LEMMA RepoIs ==
  ASSUME CheckoutInv
  PROVE  /\ objects \subseteq Commits /\ known \subseteq Refs /\ recent \subseteq Names
         /\ remotes \in [Names -> Urls \cup {NoUrl}] /\ heads \in [Names -> Urls \cup {NoUrl}]
         /\ lock \in [Names -> Series \cup {NoSeries}]
         /\ registered \subseteq Places /\ dirs \subseteq Places /\ left \subseteq dirs
BY DEF CheckoutInv, CheckoutTypeOK

\* The search goes on with the next candidate, without a checkout.
LEMMA TryNextKeeps ==
  ASSUME CheckoutInv, NEW s \in Series, TryNext(s), RepoSame, daemon = "up",
         task[s].pc \in Idle,
         UNCHANGED <<registered, dirs, daemon, checkoutCrashes, left>>
  PROVE  CheckoutInv'
<1>1. task[s].pool = {}
  BY MoverIs DEF Idle
<1>2. PICK t \in Task : t = NextCandidate(s)
  BY <1>1, MoverIs, NextIs DEF CheckoutInv
<1>3. /\ task' = [task EXCEPT ![s] = t]
      /\ Shape(s, t) /\ t.pool = {} /\ t.pc \in {"none", "remote", "resolve"}
  BY <1>1, <1>2, MoverIs, NextIs DEF CheckoutInv, TryNext
<1>4. RemoteIsThere(s, t)' /\ t.pc \in Idle
  BY <1>3 DEF RemoteIsThere, Idle
<1>5. QED
  BY <1>1, <1>3, <1>4, SearchMoves, RepoIs DEF RepoSame

-----------------------------------------------------------------------------
\* A task that only goes on keeps what it is, unless that decides.
LEMMA GoesMoves ==
  ASSUME CheckoutInv, NEW s \in Series, NEW pc \in Pcs, Goes(s, pc)
  PROVE  \E t \in Task :
           /\ t = [task[s] EXCEPT !.pc = pc] /\ task' = [task EXCEPT ![s] = t]
           /\ t.pc = pc /\ t.at = task[s].at /\ t.dir = task[s].dir /\ t.pool = task[s].pool
           /\ t.sha = task[s].sha /\ t.unsaved = task[s].unsaved /\ t.tree = task[s].tree
           /\ t.head = task[s].head /\ t.base = task[s].base
<1>1. task[s] \in Task
  BY MoverIs
<1>2. PICK t : t = [task[s] EXCEPT !.pc = pc]
  OBVIOUS
<1>3. task' = [task EXCEPT ![s] = t]
  BY <1>2 DEF Goes
<1>4. /\ t \in Task /\ t.pc = pc /\ t.at = task[s].at /\ t.dir = task[s].dir
      /\ t.pool = task[s].pool /\ t.sha = task[s].sha /\ t.unsaved = task[s].unsaved
      /\ t.tree = task[s].tree /\ t.head = task[s].head /\ t.base = task[s].base
  BY <1>1, <1>2, GoesDoes
<1>5. QED
  BY <1>2, <1>3, <1>4

\* ensure_remote: a remote that is added or there has a url.
LEMMA LockRemoteKeeps ==
  ASSUME CheckoutInv, NEW s \in Series, LockRemote(s)
  PROVE  CheckoutInv'
<1> DEFINE n == NameOf(s)
           fetch == remotes[n] = NoUrl \/ heads[n] = NoUrl \/ n \notin recent
           pc == IF fetch THEN "fetch" ELSE "resolve"
<1>1. /\ task[s].pc = "remote" /\ daemon = "up" /\ Goes(s, pc)
      /\ remotes' = IF remotes[n] = NoUrl THEN [remotes EXCEPT ![n] = Candidate(s).ref] ELSE remotes
      /\ lock' = IF fetch THEN [lock EXCEPT ![n] = s] ELSE lock
      /\ UNCHANGED <<objects, known, heads, recent, registered, dirs, daemon, checkoutCrashes, left>>
  BY DEF LockRemote, Up, RepoOnly
<1>2. /\ task[s] \in Task /\ Shape(s, task[s]) /\ task[s].pool = {}
      /\ task[s].at \in 1..Len(Candidates[s]) /\ Candidate(s).kind = "remote"
      /\ Candidate(s).ref \in Urls /\ n \in Names
      /\ NoUrl \notin Urls /\ n = UrlName[Candidates[s][task[s].at].ref]
  <2>1. /\ task[s] \in Task /\ Shape(s, task[s]) /\ task[s].pool = {}
        /\ task[s].at \in 1..Len(Candidates[s]) /\ Candidate(s).kind = "remote"
    BY <1>1, MoverIs, TaskIs, SeriesAre DEF Shape, Rest, Candidate
  <2>2. QED
    BY <2>1, SeriesAre, CheckoutsAssumption DEF Candidate, NameOf
<1>3. pc \in Pcs /\ pc \in {"fetch", "resolve"}
  BY DEF Pcs
<1> HIDE DEF pc, fetch, n
<1>4. PICK t \in Task :
        /\ task' = [task EXCEPT ![s] = t] /\ t.pc \in {"fetch", "resolve"}
        /\ t.at = task[s].at /\ t.dir = task[s].dir /\ t.pool = task[s].pool
        /\ t.sha = task[s].sha /\ t.unsaved = task[s].unsaved
  BY <1>1, <1>3, GoesMoves
<1>5. Shape(s, t)
  BY <1>1, <1>2, <1>4 DEF Shape, Rest, Fresh
<1>6. /\ remotes' \in [Names -> Urls \cup {NoUrl}] /\ remotes'[n] # NoUrl
      /\ \A x \in Names : remotes[x] # NoUrl => remotes'[x] # NoUrl
      /\ lock' \in [Names -> Series \cup {NoSeries}]
  BY <1>1, <1>2, RepoIs
<1>7. RemoteIsThere(s, t)' /\ t.pc \in Idle
  BY <1>2, <1>4, <1>6 DEF RemoteIsThere, Idle
<1>8. QED
  BY <1>1, <1>4, <1>5, <1>6, <1>7, RepoIs, SearchMoves DEF Idle

LEMMA FetchRemoteKeeps ==
  ASSUME CheckoutInv, NEW s \in Series, FetchRemote(s)
  PROVE  CheckoutInv'
<1>1. /\ task[s].pc = "fetch" /\ daemon = "up" /\ Goes(s, "set-head")
      /\ \/ /\ objects' = objects \cup {Tip[remotes[NameOf(s)]]}
            /\ recent' = recent \cup {NameOf(s)}
         \/ UNCHANGED <<objects, recent>>
      /\ UNCHANGED <<known, remotes, heads, lock, registered, dirs, daemon, checkoutCrashes, left>>
  BY DEF FetchRemote, Up, RepoOnly
<1>2. /\ task[s] \in Task /\ Shape(s, task[s])
      /\ NameOf(s) \in Names /\ remotes[NameOf(s)] \in Urls
  <2>1. /\ task[s] \in Task /\ Shape(s, task[s]) /\ RemoteIsThere(s, task[s])
        /\ task[s].at \in 1..Len(Candidates[s]) /\ Candidate(s).kind = "remote"
    BY <1>1, MoverIs, TaskIs, SeriesAre DEF Shape, Rest, Candidate
  <2>2. NameOf(s) \in Names /\ remotes[NameOf(s)] # NoUrl
    BY <1>1, <2>1, SeriesAre DEF Candidate, NameOf, RemoteIsThere
  <2>3. QED
    BY <2>1, <2>2, RepoIs
<1>3. objects' \subseteq Commits /\ recent' \subseteq Names
  BY <1>1, <1>2, RepoIs, CheckoutsAssumption
<1>4. PICK t \in Task :
        /\ task' = [task EXCEPT ![s] = t] /\ t.pc = "set-head"
        /\ t.at = task[s].at /\ t.dir = task[s].dir /\ t.pool = task[s].pool
        /\ t.sha = task[s].sha /\ t.unsaved = task[s].unsaved
  BY <1>1, GoesMoves DEF Pcs
<1>5. Shape(s, t)
  BY <1>1, <1>2, <1>4 DEF Shape, Rest, Fresh
<1>6. RemoteIsThere(s, t)' /\ t.pc \in Idle
  BY <1>1, <1>4, MoverIs DEF RemoteIsThere, Idle
<1>7. QED
  BY <1>1, <1>3, <1>4, <1>5, <1>6, RepoIs, SearchMoves DEF Idle

LEMMA SetHeadKeeps ==
  ASSUME CheckoutInv, NEW s \in Series, SetHead(s)
  PROVE  CheckoutInv'
<1>1. /\ task[s].pc = "set-head" /\ daemon = "up" /\ Goes(s, "resolve")
      /\ heads' = [heads EXCEPT ![NameOf(s)] = remotes[NameOf(s)]] \/ UNCHANGED heads
      /\ lock' = [lock EXCEPT ![NameOf(s)] = NoSeries]
      /\ UNCHANGED <<objects, known, remotes, recent, registered, dirs, daemon, checkoutCrashes, left>>
  BY DEF SetHead, Up, RepoOnly
<1>2. /\ task[s] \in Task /\ Shape(s, task[s]) /\ NameOf(s) \in Names
  <2>1. /\ task[s] \in Task /\ Shape(s, task[s])
        /\ task[s].at \in 1..Len(Candidates[s]) /\ Candidate(s).kind = "remote"
    BY <1>1, MoverIs, TaskIs, SeriesAre DEF Shape, Rest, Candidate
  <2>2. QED
    BY <2>1, SeriesAre DEF Candidate, NameOf
<1>3. /\ heads' \in [Names -> Urls \cup {NoUrl}] /\ lock' \in [Names -> Series \cup {NoSeries}]
  BY <1>1, <1>2, RepoIs
<1>4. PICK t \in Task :
        /\ task' = [task EXCEPT ![s] = t] /\ t.pc = "resolve"
        /\ t.at = task[s].at /\ t.dir = task[s].dir /\ t.pool = task[s].pool
        /\ t.sha = task[s].sha /\ t.unsaved = task[s].unsaved
  BY <1>1, GoesMoves DEF Pcs
<1>5. Shape(s, t)
  BY <1>1, <1>2, <1>4 DEF Shape, Rest, Fresh
<1>6. RemoteIsThere(s, t)' /\ t.pc \in Idle
  BY <1>4 DEF RemoteIsThere, Idle
<1>7. QED
  BY <1>1, <1>3, <1>4, <1>5, <1>6, RepoIs, SearchMoves DEF Idle

\* A commit that is found is one.
LEMMA RevParseIs ==
  ASSUME CheckoutInv, NEW s \in Series, task[s].at \in 1..Len(Candidates[s])
  PROVE  RevParse(Candidate(s)) \subseteq Commits
<1> DEFINE c == Candidate(s)
<1>1. /\ c.kind # "remote" => c.ref \in Commits \cup Refs
      /\ c.kind = "remote" => c.ref \in Urls /\ UrlName[c.ref] \in Names
  BY SeriesAre DEF Candidate
<1>2. CASE c.kind = "remote"
  <2>1. /\ heads[UrlName[c.ref]] \in Urls \cup {NoUrl} /\ \A u \in Urls : Tip[u] \in Commits
    BY <1>1, <1>2, RepoIs, CheckoutsAssumption
  <2>2. RevParse(c) = IF heads[UrlName[c.ref]] = NoUrl THEN {} ELSE {Tip[heads[UrlName[c.ref]]]}
    BY <1>2 DEF RevParse
  <2>3. QED
    BY <2>1, <2>2
<1>3. CASE c.kind # "remote"
  <2>1. RevParse(c) \subseteq {c.ref} \cap Commits \/ (c.ref \in Refs /\ RevParse(c) \subseteq {Local[c.ref]})
    BY <1>1, <1>3 DEF RevParse
  <2>2. \A r \in Refs : Local[r] \in Commits
    BY CheckoutsAssumption
  <2>3. QED
    BY <2>1, <2>2
<1>4. QED
  BY <1>2, <1>3

LEMMA ResolveKeeps ==
  ASSUME CheckoutInv, NEW s \in Series, NEW from \in {"resolve", "retry"},
         ResolveCandidate(s, from)
  PROVE  CheckoutInv'
<1>1. /\ task[s].pc = from /\ daemon = "up" /\ RepoSame
      /\ UNCHANGED <<registered, dirs, daemon, checkoutCrashes, left>>
  BY DEF ResolveCandidate, Up, RepoOnly
<1>2. /\ task[s] \in Task /\ Shape(s, task[s]) /\ task[s].pool = {} /\ task[s].pc \in Idle
      /\ task[s].at \in 1..Len(Candidates[s])
  BY <1>1, MoverIs, TaskIs, SeriesAre DEF Shape, Rest, Idle
<1>3. CASE TryNext(s)
  BY <1>1, <1>2, <1>3, TryNextKeeps
<1>4. CASE Goes(s, "origin")
  <2>1. PICK t \in Task :
          /\ task' = [task EXCEPT ![s] = t] /\ t.pc = "origin"
          /\ t.at = task[s].at /\ t.dir = task[s].dir /\ t.pool = task[s].pool
          /\ t.sha = task[s].sha /\ t.unsaved = task[s].unsaved
    BY <1>4, GoesMoves DEF Pcs
  <2>2. Shape(s, t)
    BY <1>1, <1>2, <2>1 DEF Shape, Rest, Fresh
  <2>3. RemoteIsThere(s, t)' /\ t.pc \in Idle
    BY <2>1 DEF RemoteIsThere, Idle
  <2>4. QED
    BY <1>1, <1>2, <2>1, <2>2, <2>3, RepoIs, SearchMoves DEF RepoSame
<1>5. CASE /\ ~(RevParse(Candidate(s)) \subseteq task[s].seen)
           /\ task' = [task EXCEPT ![s].pc = "add",
                         ![s].base = CHOOSE x \in RevParse(Candidate(s)) : TRUE,
                         ![s].seen = @ \cup {CHOOSE x \in RevParse(Candidate(s)) : TRUE}]
  <2>1. PICK c \in Commits : c = CHOOSE x \in RevParse(Candidate(s)) : TRUE
    BY <1>2, <1>5, RevParseIs
  <2>2. task' = [task EXCEPT ![s].pc = "add", ![s].base = c, ![s].seen = @ \cup {c}]
    BY <1>5, <2>1
  <2>3. PICK t : t = [task[s] EXCEPT !.pc = "add", !.base = c, !.seen = @ \cup {c}]
    OBVIOUS
  <2>4. task' = [task EXCEPT ![s] = t]
    BY <2>2, <2>3
  <2>5. t \in Task
    <3> DEFINE seen == task[s].seen \cup {c}
    <3>1. seen \in SUBSET Commits /\ c \in Bases
      BY <1>2, TaskIs DEF Bases
    <3> HIDE DEF seen
    <3>2. [task[s] EXCEPT !.pc = "add", !.base = c, !.seen = seen] \in Task
      BY <1>2, <3>1 DEF Task
    <3>3. QED
      BY <2>3, <3>2 DEF seen
  <2>6. /\ t.pc = "add" /\ t.at = task[s].at /\ t.dir = task[s].dir /\ t.pool = {}
        /\ t.sha = task[s].sha /\ t.unsaved = task[s].unsaved
    BY <1>2, <2>3 DEF Task
  <2>7. Shape(s, t)
    BY <1>1, <1>2, <2>6 DEF Shape, Rest, Fresh
  <2>8. RemoteIsThere(s, t)' /\ t.pc \in Idle
    BY <2>6 DEF RemoteIsThere, Idle
  <2>9. QED
    BY <1>1, <1>2, <2>4, <2>5, <2>6, <2>7, <2>8, RepoIs, SearchMoves DEF RepoSame
<1>6. QED
  BY <1>3, <1>4, <1>5 DEF ResolveCandidate

\* What origin gives is a commit, and the name of one.
LEMMA OriginKeeps ==
  ASSUME CheckoutInv, NEW s \in Series, FetchFromOrigin(s)
  PROVE  CheckoutInv'
<1>1. /\ task[s].pc = "origin" /\ daemon = "up" /\ Goes(s, "retry")
      /\ UNCHANGED <<remotes, heads, recent, lock, registered, dirs, daemon, checkoutCrashes, left>>
      /\ \/ UNCHANGED <<objects, known>>
         \/ /\ Candidate(s).ref \in Refs /\ Local[Candidate(s).ref] \in Origin
            /\ objects' = objects \cup {Local[Candidate(s).ref]}
            /\ known' \in {known, known \cup {Candidate(s).ref}}
  BY DEF FetchFromOrigin, Up, RepoOnly
<1>2. task[s] \in Task /\ Shape(s, task[s]) /\ task[s].pool = {}
  BY <1>1, MoverIs
<1>3. PICK t \in Task :
        /\ task' = [task EXCEPT ![s] = t] /\ t.pc = "retry"
        /\ t.at = task[s].at /\ t.dir = task[s].dir /\ t.pool = task[s].pool
        /\ t.sha = task[s].sha /\ t.unsaved = task[s].unsaved
  BY <1>1, GoesMoves DEF Pcs
<1>4. Shape(s, t)
  BY <1>1, <1>2, <1>3 DEF Shape, Rest, Fresh
<1>5. RemoteIsThere(s, t)' /\ t.pc \in Idle /\ task[s].pc \in Idle
  BY <1>1, <1>3 DEF RemoteIsThere, Idle
<1>6. objects' \subseteq Commits /\ known' \subseteq Refs
  BY <1>1, RepoIs, CheckoutsAssumption
<1>7. QED
  BY <1>1, <1>3, <1>4, <1>5, <1>6, RepoIs, SearchMoves

\* The task has a directory of its own.
LEMMA MakeKeeps ==
  ASSUME CheckoutInv, NEW s \in Series, MakeDirectory(s)
  PROVE  CheckoutInv'
<1>1. /\ task[s].pc = "add" /\ daemon = "up" /\ RepoSame
      /\ UNCHANGED <<registered, daemon, checkoutCrashes, left>>
  BY DEF MakeDirectory, Up
<1>2. /\ task[s] \in Task /\ Shape(s, task[s]) /\ task[s].pool = {} /\ task[s].pc \in Idle
      /\ task[s].at \in Nat /\ task[s].at > 0 /\ checkoutCrashes \in Nat
  <2>1. task[s] \in Task /\ Shape(s, task[s]) /\ task[s].pool = {} /\ task[s].pc \in Idle
    BY <1>1, MoverIs DEF Idle
  <2>2. task[s].at \in Nat /\ task[s].at >= 1
    BY <1>1, <2>1, TaskIs DEF Shape, Rest
  <2>3. checkoutCrashes \in Nat
    BY CheckoutsAssumption DEF CheckoutInv, CheckoutTypeOK
  <2>4. QED
    BY <2>1, <2>2, <2>3
<1>3. PICK d : d = <<s, task[s].at, checkoutCrashes>>
  OBVIOUS
<1>4. CASE dirs' = dirs \cup {d} /\ task' = [task EXCEPT ![s].pc = "register", ![s].dir = d]
  <2>1. d \in Places /\ d[1] = s /\ d[2] > 0
    BY <1>2, <1>3 DEF Places
  <2>2. PICK t : t = [task[s] EXCEPT !.pc = "register", !.dir = d]
    OBVIOUS
  <2>3. /\ t \in Task /\ t.pc = "register" /\ t.at = task[s].at /\ t.dir = d /\ t.pool = {}
        /\ t.sha = task[s].sha /\ t.unsaved = task[s].unsaved
    <3>1. d \in Held
      BY <2>1 DEF Held
    <3>2. t \in Task
      BY <1>2, <2>2, <3>1 DEF Task
    <3>3. QED
      BY <1>2, <2>2, <3>1, <3>2 DEF Task
  <2>4. task' = [task EXCEPT ![s] = t]
    BY <1>4, <2>2
  <2>5. Shape(s, t)
    BY <1>1, <1>2, <2>1, <2>3 DEF Shape, Rest, Fresh
  <2>6. RemoteIsThere(s, t)' /\ Uses(t) = {d} /\ Uses(task[s]) = {} /\ t.pc \notin Added
    BY <1>2, <2>3, UsesIs DEF RemoteIsThere, Added
  <2>7. Placed(s, t)'
    BY <1>1, <1>4, <2>3, <2>6 DEF Placed
  <2>8. /\ dirs' \subseteq Places /\ left' \subseteq dirs' /\ left' = left /\ registered' = registered
        /\ registered' \subseteq Places
    BY <1>1, <1>4, <2>1, RepoIs
  <2>9. \A e \in dirs' \ left' : \/ e \in Uses(t) \cup t.pool
                                 \/ /\ e \in dirs \ left
                                    /\ e \notin Uses(task[s]) \cup task[s].pool
    BY <1>2, <1>4, <2>6, <2>8
  <2>10. QED
    BY <1>1, <1>4, <2>3, <2>4, <2>5, <2>6, <2>7, <2>8, <2>9, RepoIs, OneMoves DEF RepoSame
<1>5. CASE TryNext(s) /\ UNCHANGED dirs
  BY <1>1, <1>2, <1>5, TryNextKeeps
<1>6. QED
  BY <1>3, <1>4, <1>5 DEF MakeDirectory

\* What is left behind is what a pool had.
LEMMA LeftIs ==
  ASSUME CheckoutInv, daemon = "up", NEW s \in Series
  PROVE  task[s].dir \notin left
<1>1. task[s].dir # NoCheckout => task[s].dir[2] > 0
  BY MoverIs DEF Shape
<1>2. \A d \in left : d \in Places /\ d[2] = 0
  BY DEF CheckoutInv, CheckoutTypeOK
<1>3. QED
  BY <1>1, <1>2, NoCheckoutIs

\* A task that uses a checkout has it, with its own name.
LEMMA UserIs ==
  ASSUME CheckoutInv, NEW s \in Series, task[s].pc \in Added \cup {"register"}
  PROVE  /\ Uses(task[s]) = {task[s].dir} /\ task[s].dir \in dirs /\ task[s].dir \in Places
         /\ task[s].dir[1] = s
<1>1. Uses(task[s]) = {task[s].dir} /\ task[s].dir \in dirs
  BY MoverIs, UsesIs DEF Placed
<1>2. QED
  BY <1>1, MoverIs, RepoIs, NoCheckoutIs DEF Shape

\* Where the directory of the task goes, with the task that leaves it.
LEMMA RemovalKeeps ==
  ASSUME CheckoutInv, NEW s \in Series, NEW t \in Task, daemon = "up",
         task' = [task EXCEPT ![s] = t], Shape(s, t), t.pc \in Idle,
         t.pc \notin {"fetch", "set-head"}, task[s].pc \in Added \cup {"register"},
         t.pool = {}, task[s].pool = {},
         dirs' = dirs \ {task[s].dir}, RepoSame,
         UNCHANGED <<registered, daemon, checkoutCrashes, left>>
  PROVE  CheckoutInv'
<1>1. /\ Uses(t) = {} /\ t.pc \notin Added
      /\ Uses(task[s]) = {task[s].dir} /\ task[s].dir[1] = s
  BY UsesIs, UserIs
<1>2. RemoteIsThere(s, t)' /\ Placed(s, t)'
  BY <1>1 DEF RemoteIsThere, Placed
<1>3. /\ registered' \subseteq Places /\ dirs' \subseteq Places /\ left' \subseteq dirs'
      /\ left' = left /\ registered' = registered
  BY LeftIs, RepoIs
<1>4. /\ \A e \in dirs : e \in dirs' \/ e[1] = s
      /\ \A e \in dirs' \ left' : \/ e \in Uses(t) \cup t.pool
                                  \/ /\ e \in dirs \ left
                                     /\ e \notin Uses(task[s]) \cup task[s].pool
  BY <1>1, <1>3
<1>5. QED
  BY <1>2, <1>3, <1>4, RepoIs, OneMoves DEF RepoSame

\* The directory is dropped on the way to the next candidate.
LEMMA DropKeeps ==
  ASSUME CheckoutInv, NEW s \in Series, TryNext(s), daemon = "up",
         task[s].pc \in {"register", "populate"}, dirs' = dirs \ {task[s].dir}, RepoSame,
         UNCHANGED <<registered, daemon, checkoutCrashes, left>>
  PROVE  CheckoutInv'
<1>1. task[s].pool = {} /\ Shape(s, task[s]) /\ task[s].pc \in Added \cup {"register"}
  BY MoverIs DEF Added
<1>2. PICK t \in Task : t = NextCandidate(s)
  BY <1>1, NextIs DEF CheckoutInv
<1>3. /\ task' = [task EXCEPT ![s] = t] /\ Shape(s, t) /\ t.pool = {}
      /\ t.pc \in {"none", "remote", "resolve"}
  BY <1>1, <1>2, NextIs DEF CheckoutInv, TryNext
<1>4. t.pc \in Idle
  BY <1>3 DEF Idle
<1>5. QED
  BY <1>1, <1>3, <1>4, RemovalKeeps

\* git knows the directory from here on.
LEMMA RegisterKeeps ==
  ASSUME CheckoutInv, NEW s \in Series, RegisterWorktree(s)
  PROVE  CheckoutInv'
<1>1. /\ task[s].pc = "register" /\ daemon = "up" /\ RepoSame
      /\ UNCHANGED <<daemon, checkoutCrashes, left>>
  BY DEF RegisterWorktree, Up
<1>2. /\ task[s] \in Task /\ Shape(s, task[s]) /\ task[s].pool = {} /\ Placed(s, task[s])
  BY <1>1, MoverIs
<1>3. /\ Uses(task[s]) = {task[s].dir} /\ task[s].dir \in dirs /\ task[s].dir \in Places
      /\ task[s].dir[1] = s
  BY <1>1, UserIs
<1>4. CASE /\ registered' = registered \cup {task[s].dir} /\ Goes(s, "populate")
           /\ UNCHANGED dirs
  <2>1. PICK t \in Task :
          /\ task' = [task EXCEPT ![s] = t] /\ t.pc = "populate"
          /\ t.at = task[s].at /\ t.dir = task[s].dir /\ t.pool = task[s].pool
          /\ t.sha = task[s].sha /\ t.unsaved = task[s].unsaved
    BY <1>4, GoesMoves DEF Pcs
  <2>2. Shape(s, t)
    BY <1>1, <1>2, <2>1 DEF Shape, Rest, Fresh
  <2>3. RemoteIsThere(s, t)' /\ Uses(t) = {task[s].dir}
    BY <2>1, UsesIs DEF RemoteIsThere, Added
  <2>4. Placed(s, t)'
    BY <1>1, <1>2, <1>3, <1>4, <2>1, <2>3 DEF Placed
  <2>5. /\ registered' \subseteq Places /\ dirs' = dirs /\ left' = left
        /\ dirs' \subseteq Places /\ left' \subseteq dirs'
    BY <1>1, <1>3, <1>4, RepoIs
  <2>6. \A e \in dirs' \ left' : \/ e \in Uses(t) \cup t.pool
                                 \/ /\ e \in dirs \ left
                                    /\ e \notin Uses(task[s]) \cup task[s].pool
    BY <1>2, <1>3, <2>1, <2>3, <2>5
  <2>7. QED
    BY <1>1, <1>4, <2>1, <2>2, <2>3, <2>4, <2>5, <2>6, RepoIs, OneMoves DEF RepoSame
<1>5. CASE TryNext(s) /\ dirs' = dirs \ {task[s].dir} /\ UNCHANGED registered
  BY <1>1, <1>5, DropKeeps
<1>6. QED
  BY <1>4, <1>5 DEF RegisterWorktree

LEMMA PopulateKeeps ==
  ASSUME CheckoutInv, NEW s \in Series, PopulateWorktree(s)
  PROVE  CheckoutInv'
<1>1. /\ task[s].pc = "populate" /\ daemon = "up" /\ RepoSame
      /\ UNCHANGED <<registered, daemon, checkoutCrashes, left>>
  BY DEF PopulateWorktree, Up
<1>2. /\ task[s] \in Task /\ Shape(s, task[s]) /\ task[s].pool = {}
      /\ task[s].sha = <<>> /\ task[s].unsaved = {}
  BY <1>1, MoverIs DEF Shape, Fresh
<1>3. CASE /\ task' = [task EXCEPT ![s].pc = "apply", ![s].head = {}, ![s].tree = {}]
           /\ UNCHANGED dirs
  <2>1. PICK t : t = [task[s] EXCEPT !.pc = "apply", !.head = {}, !.tree = {}]
    OBVIOUS
  <2>2. /\ t \in Task /\ t.pc = "apply" /\ t.at = task[s].at /\ t.dir = task[s].dir /\ t.pool = {}
        /\ t.sha = <<>> /\ t.unsaved = {} /\ t.head = {} /\ t.tree = {}
    BY <1>2, <2>1 DEF Task
  <2>3. task' = [task EXCEPT ![s] = t]
    BY <1>3, <2>1
  <2>4. Applied(s, t)
    BY <2>2, SeriesAre DEF Applied
  <2>5. Shape(s, t)
    BY <1>1, <1>2, <2>2, <2>4 DEF Shape, Rest, Fresh
  <2>6. RemoteIsThere(s, t)' /\ t.pc \in Added /\ task[s].pc \in Added
    BY <1>1, <2>2 DEF RemoteIsThere, Added
  <2>7. QED
    BY <1>1, <1>2, <1>3, <2>2, <2>3, <2>5, <2>6, RepoIs, SearchMoves DEF RepoSame
<1>4. CASE TryNext(s) /\ dirs' = dirs \ {task[s].dir}
  BY <1>1, <1>4, DropKeeps
<1>5. QED
  BY <1>3, <1>4 DEF PopulateWorktree

LEMMA RemoveKeeps ==
  ASSUME CheckoutInv, NEW s \in Series, NEW from \in {"drop", "kept"},
         NEW to \in {"dropped", "removed"}, RemoveWorktree(s, from, to), task[s].pool = {}
  PROVE  CheckoutInv'
<1>1. /\ task[s].pc = from /\ daemon = "up" /\ RepoSame /\ dirs' = dirs \ {task[s].dir}
      /\ Goes(s, to) /\ UNCHANGED <<registered, daemon, checkoutCrashes, left>>
  BY DEF RemoveWorktree, RemoveDirectory, Up
<1>2. PICK t \in Task :
        /\ task' = [task EXCEPT ![s] = t] /\ t.pc = to
        /\ t.at = task[s].at /\ t.dir = task[s].dir /\ t.pool = task[s].pool
        /\ t.sha = task[s].sha /\ t.unsaved = task[s].unsaved
  BY <1>1, GoesMoves DEF Pcs
<1>3. Shape(s, t)
  BY <1>1, <1>2, MoverIs DEF Shape, Rest, Fresh
<1>4. t.pc \in Idle /\ task[s].pc \in Added
  BY <1>1, <1>2 DEF Idle, Added
<1>5. QED
  BY <1>1, <1>2, <1>3, <1>4, RemovalKeeps

\* The metadata goes when the task uses the checkout no more.
LEMMA UnregisterKeeps ==
  ASSUME CheckoutInv, NEW s \in Series, NEW t \in Task, daemon = "up",
         task' = [task EXCEPT ![s] = t], Shape(s, t), t.pc \in Idle,
         t.pc \notin {"fetch", "set-head"}, task[s].pc \in Idle, t.pool = {},
         task[s].pool = {}, Unregister(s), RepoSame,
         UNCHANGED <<dirs, daemon, checkoutCrashes, left>>
  PROVE  CheckoutInv'
<1>1. Uses(t) = {} /\ t.pc \notin Added /\ Uses(task[s]) = {}
  BY MoverIs, UsesIs
<1>2. RemoteIsThere(s, t)' /\ Placed(s, t)'
  BY <1>1 DEF RemoteIsThere, Placed
<1>3. /\ registered' \subseteq Places /\ dirs' = dirs /\ left' = left
      /\ dirs' \subseteq Places /\ left' \subseteq dirs'
  BY RepoIs DEF Unregister
<1>4. \A d \in registered : d \in registered' \/ d[1] = s
  <2>1. task[s].dir = NoCheckout \/ task[s].dir[1] = s
    BY MoverIs DEF Shape
  <2>2. NoCheckout \notin registered
    BY RepoIs, NoCheckoutIs
  <2>3. registered' \in {registered, registered \ {task[s].dir}}
    BY DEF Unregister
  <2>4. QED
    BY <2>1, <2>2, <2>3
<1>5. \A e \in dirs' \ left' : \/ e \in Uses(t) \cup t.pool
                               \/ /\ e \in dirs \ left
                                  /\ e \notin Uses(task[s]) \cup task[s].pool
  BY <1>1, <1>3
<1>6. QED
  BY <1>2, <1>3, <1>4, <1>5, RepoIs, OneMoves DEF RepoSame

LEMMA DroppedKeeps ==
  ASSUME CheckoutInv, NEW s \in Series, CandidateIsDropped(s)
  PROVE  CheckoutInv'
<1>1. /\ task[s].pc = "dropped" /\ daemon = "up" /\ Unregister(s) /\ RepoSame /\ TryNext(s)
      /\ UNCHANGED <<dirs, daemon, checkoutCrashes, left>>
  BY DEF CandidateIsDropped, Up
<1>2. task[s].pool = {} /\ Shape(s, task[s]) /\ task[s].pc \in Idle
  BY <1>1, MoverIs DEF Idle
<1>3. PICK t \in Task : t = NextCandidate(s)
  BY <1>2, NextIs DEF CheckoutInv
<1>4. /\ task' = [task EXCEPT ![s] = t] /\ Shape(s, t) /\ t.pool = {}
      /\ t.pc \in {"none", "remote", "resolve"}
  BY <1>1, <1>2, <1>3, NextIs DEF CheckoutInv, TryNext
<1>5. t.pc \in Idle
  BY <1>4 DEF Idle
<1>6. QED
  BY <1>1, <1>2, <1>4, <1>5, UnregisterKeeps

LEMMA ReviewedKeeps ==
  ASSUME CheckoutInv, NEW s \in Series, SeriesIsReviewed(s)
  PROVE  CheckoutInv'
<1>1. /\ task[s].pc = "removed" /\ daemon = "up" /\ Unregister(s) /\ RepoSame
      /\ task' = [task EXCEPT ![s].pc = "reviewed", ![s].dir = NoCheckout]
      /\ UNCHANGED <<dirs, daemon, checkoutCrashes, left>>
  BY DEF SeriesIsReviewed, Up
<1>2. task[s] \in Task /\ task[s].pool = {} /\ Shape(s, task[s]) /\ task[s].pc \in Idle
  BY <1>1, MoverIs DEF Idle
<1>3. PICK t : t = [task[s] EXCEPT !.pc = "reviewed", !.dir = NoCheckout]
  OBVIOUS
<1>4. /\ t \in Task /\ t.pc = "reviewed" /\ t.at = task[s].at /\ t.dir = NoCheckout
      /\ t.pool = {} /\ t.sha = task[s].sha /\ t.unsaved = task[s].unsaved
  BY <1>2, <1>3, NoCheckoutIs DEF Task
<1>5. task' = [task EXCEPT ![s] = t]
  BY <1>1, <1>3
<1>6. Shape(s, t) /\ t.pc \in Idle
  BY <1>2, <1>4 DEF Shape, Rest, Fresh, Idle
<1>7. QED
  BY <1>1, <1>2, <1>4, <1>5, <1>6, UnregisterKeeps

-----------------------------------------------------------------------------
\* A commit of the series: it is recorded, and the checkout may move to it; no
\* series of mails has one.
LEMMA RecordIs ==
  ASSUME NEW s \in Series, NEW t \in Task, NEW sha \in Sha
  PROVE  /\ Record(t, sha) \in Task /\ Record(t, sha).pc = t.pc /\ Record(t, sha).at = t.at
         /\ Record(t, sha).dir = t.dir /\ Record(t, sha).pool = t.pool
         /\ Record(t, sha).base = t.base /\ Record(t, sha).head = t.head
         /\ Record(t, sha).tree = t.tree /\ Record(t, sha).unsaved = t.unsaved
         /\ Record(t, sha).sha = Append(t.sha, sha)
<1> DEFINE shas == Append(t.sha, sha)
<1>1. shas \in Seq(Sha)
  BY TaskIs, AppendProperties
<1>2. Record(t, sha) = [t EXCEPT !.sha = shas]
  BY DEF Record
<1> HIDE DEF shas
<1>3. /\ [t EXCEPT !.sha = shas] \in Task /\ [t EXCEPT !.sha = shas].pc = t.pc
      /\ [t EXCEPT !.sha = shas].at = t.at /\ [t EXCEPT !.sha = shas].dir = t.dir
      /\ [t EXCEPT !.sha = shas].pool = t.pool /\ [t EXCEPT !.sha = shas].base = t.base
      /\ [t EXCEPT !.sha = shas].head = t.head /\ [t EXCEPT !.sha = shas].tree = t.tree
      /\ [t EXCEPT !.sha = shas].unsaved = t.unsaved /\ [t EXCEPT !.sha = shas].sha = shas
  BY <1>1 DEF Task
<1>4. QED
  BY <1>2, <1>3 DEF shas

LEMMA TurnIsOne ==
  ASSUME CheckoutInv, NEW s \in Series, task[s].pc = "apply", ~AllApplied(s)
  PROVE  /\ Turn(s) = Len(task[s].sha) + 1 /\ Turn(s) \in 1..Len(Ids[s])
         /\ Ids[s][Turn(s)] \in Commits \cup {"mail"}
         /\ IsCommit(s, Turn(s)) => ~Mailed(s) /\ Own(s, Turn(s)) \in Sha
<1>1. Turn(s) = Len(task[s].sha) + 1 /\ Turn(s) \in 1..Len(Ids[s])
  BY MoverIs, TaskIs, SeriesAre DEF Turn, AllApplied
<1>2. Ids[s][Turn(s)] \in Commits \cup {"mail"} /\ Turn(s) \in DOMAIN Ids[s]
  BY <1>1, SeriesAre
<1>3. ASSUME IsCommit(s, Turn(s))
      PROVE  ~Mailed(s) /\ Own(s, Turn(s)) \in Sha
  <2>1. ~Mailed(s)
    BY <1>2, <1>3 DEF Mailed
  <2>2. Ids[s][Turn(s)] \in Bases
    BY <1>2, <1>3 DEF IsCommit, Bases
  <2>3. QED
    BY <2>1, <2>2 DEF Own, Sha
<1>4. QED
  BY <1>1, <1>2, <1>3

LEMMA AppliesMoves ==
  ASSUME CheckoutInv, NEW s \in Series, NEW t \in Task, task[s].pc = "apply", t.pc = "apply",
         task' = [task EXCEPT ![s] = t], t.at = task[s].at, t.dir = task[s].dir,
         t.pool = task[s].pool, Mailed(s) => Applied(s, t), RepoSame, RepoOnly, daemon = "up"
  PROVE  CheckoutInv'
<1>1. Shape(s, t)
  BY MoverIs DEF Shape, Rest, Fresh
<1>2. RemoteIsThere(s, t)' /\ t.pc \in Added /\ task[s].pc \in Added
  BY DEF RemoteIsThere, Added
<1>3. QED
  BY <1>1, <1>2, RepoIs, SearchMoves DEF RepoSame, RepoOnly

LEMMA LookUpKeeps ==
  ASSUME CheckoutInv, NEW s \in Series, LookUpCommit(s)
  PROVE  CheckoutInv'
<1>1. /\ task[s].pc = "apply" /\ daemon = "up" /\ ~AllApplied(s) /\ IsCommit(s, Turn(s)) /\ RepoSame /\ RepoOnly
      /\ task' = [task EXCEPT ![s] = Record(@, Own(s, Turn(s)))]
  BY DEF LookUpCommit, Up
<1>2. task[s] \in Task /\ ~Mailed(s) /\ Own(s, Turn(s)) \in Sha
  BY <1>1, MoverIs, TurnIsOne
<1>3. PICK t \in Task : t = Record(task[s], Own(s, Turn(s)))
  BY <1>2, RecordIs
<1>4. t.pc = "apply" /\ t.at = task[s].at /\ t.dir = task[s].dir /\ t.pool = task[s].pool
  BY <1>1, <1>2, <1>3, RecordIs
<1>5. task' = [task EXCEPT ![s] = t]
  BY <1>1, <1>3
<1>6. QED
  BY <1>1, <1>2, <1>4, <1>5, AppliesMoves

LEMMA ResetKeeps ==
  ASSUME CheckoutInv, NEW s \in Series, ResetToCommit(s)
  PROVE  CheckoutInv'
<1> DEFINE c == Ids[s][Turn(s)]
           r == [task[s] EXCEPT !.base = c, !.head = {}, !.tree = {}]
<1>1. /\ task[s].pc = "apply" /\ daemon = "up" /\ ~AllApplied(s) /\ IsCommit(s, Turn(s)) /\ RepoSame /\ RepoOnly
      /\ task' = [task EXCEPT ![s] = Record(r, Own(s, Turn(s)))]
  BY DEF ResetToCommit, Up
<1>2. task[s] \in Task /\ ~Mailed(s) /\ Own(s, Turn(s)) \in Sha /\ c \in Bases
  BY <1>1, MoverIs, TurnIsOne DEF IsCommit, Bases
<1>3. r \in Task /\ r.pc = task[s].pc /\ r.at = task[s].at /\ r.dir = task[s].dir
      /\ r.pool = task[s].pool
  <2> HIDE DEF c
  <2>1. QED
    BY <1>2 DEF Task
<1> HIDE DEF r
<1>4. PICK t \in Task : t = Record(r, Own(s, Turn(s)))
  BY <1>2, <1>3, RecordIs
<1>5. t.pc = "apply" /\ t.at = task[s].at /\ t.dir = task[s].dir /\ t.pool = task[s].pool
  BY <1>1, <1>2, <1>3, <1>4, RecordIs
<1>6. task' = [task EXCEPT ![s] = t]
  BY <1>1, <1>4
<1>7. QED
  BY <1>1, <1>2, <1>5, <1>6, AppliesMoves

\* One patch more, on all before it; when git refused the commit it stays staged.
LEMMA PatchIsApplied ==
  ASSUME NEW s \in Series, NEW t \in Task, NEW u \in Task, t.pc = "apply", u.pc = "apply",
         Applied(s, t), Len(t.sha) < Len(Ids[s]),
         NEW i \in Nat, i = Len(t.sha) + 1, u.base = t.base, u.tree = t.tree \cup {i},
         \/ u.head = t.tree \cup {i} /\ u.unsaved = t.unsaved
         \/ u.head = t.head /\ u.unsaved = t.unsaved \cup {i},
         u.sha = Append(t.sha, [base |-> t.base, patches |-> u.head])
  PROVE  Applied(s, u)
<1>1. /\ t.sha \in Seq(Sha) /\ Len(t.sha) \in Nat
      /\ t.tree = 1..Len(t.sha) /\ t.head \subseteq t.tree /\ t.unsaved \subseteq t.tree
  BY TaskIs DEF Applied
<1>2. /\ Len(u.sha) = i /\ u.sha[i] = [base |-> t.base, patches |-> u.head]
      /\ \A j \in 1..Len(t.sha) : u.sha[j] = t.sha[j]
  <2> DEFINE sha == [base |-> t.base, patches |-> u.head]
  <2>1. sha \in Sha
    BY TaskIs DEF Sha
  <2> HIDE DEF sha
  <2>2. QED
    BY <1>1, <2>1, AppendProperties DEF sha
<1>3. u.tree = 1..i /\ u.head \subseteq u.tree /\ u.unsaved \subseteq u.tree
      /\ (i \notin u.unsaved => u.head = 1..i)
  <2>1. t.tree \cup {i} = 1..i
    BY <1>1
  <2>2. QED
    BY <1>1, <2>1
<1>4. ASSUME NEW j \in 1..i
      PROVE  /\ u.sha[j].base = u.base /\ u.sha[j].patches \subseteq 1..j
             /\ j \notin u.unsaved => u.sha[j].patches = 1..j
  <2>1. CASE j = i
    BY <1>2, <1>3, <2>1
  <2>2. CASE j \in 1..Len(t.sha)
    BY <1>2, <2>2 DEF Applied
  <2>3. QED
    BY <1>1, <2>1, <2>2
<1>5. QED
  BY <1>2, <1>3, <1>4, SeriesAre DEF Applied

LEMMA ApplyKeeps ==
  ASSUME CheckoutInv, NEW s \in Series, ApplyMail(s)
  PROVE  CheckoutInv'
<1>1. PICK i, t : i = Turn(s) /\ t = task[s]
  OBVIOUS
<1>2. /\ t.pc = "apply" /\ daemon = "up" /\ ~AllApplied(s) /\ RepoSame /\ RepoOnly
      /\ \E next \in {[t EXCEPT !.head = t.tree \cup {i}, !.tree = @ \cup {i}],
                      [t EXCEPT !.tree = @ \cup {i}, !.unsaved = @ \cup {i}]} :
           task' = [task EXCEPT ![s] = Record(next, HeadOf(next))]
  BY <1>1 DEF ApplyMail, Up
<1>3. /\ t \in Task /\ i \in Nat /\ i = Len(t.sha) + 1 /\ Len(t.sha) < Len(Ids[s])
      /\ Shape(s, t) /\ t.tree \subseteq Nat /\ t.unsaved \subseteq Nat
  BY <1>1, <1>2, MoverIs, TurnIsOne, SeriesAre, TaskIs
<1>4. PICK next \in Task :
        /\ task' = [task EXCEPT ![s] = Record(next, HeadOf(next))]
        /\ next.pc = t.pc /\ next.at = t.at /\ next.dir = t.dir /\ next.pool = t.pool
        /\ next.sha = t.sha /\ next.base = t.base /\ next.tree = t.tree \cup {i}
        /\ \/ next.head = t.tree \cup {i} /\ next.unsaved = t.unsaved
           \/ next.head = t.head /\ next.unsaved = t.unsaved \cup {i}
  <2> DEFINE tree == t.tree \cup {i}
             unsaved == t.unsaved \cup {i}
             all == [t EXCEPT !.head = tree, !.tree = tree]
             staged == [t EXCEPT !.tree = tree, !.unsaved = unsaved]
  <2>1. tree \in SUBSET Nat /\ unsaved \in SUBSET Nat
    BY <1>3
  <2>2. \E next \in {all, staged} : task' = [task EXCEPT ![s] = Record(next, HeadOf(next))]
    BY <1>2
  <2> HIDE DEF tree, unsaved
  <2>3. /\ all \in Task /\ all.pc = t.pc /\ all.at = t.at /\ all.dir = t.dir
        /\ all.pool = t.pool /\ all.sha = t.sha /\ all.base = t.base
        /\ all.tree = tree /\ all.head = tree /\ all.unsaved = t.unsaved
    BY <1>3, <2>1 DEF Task
  <2>4. /\ staged \in Task /\ staged.pc = t.pc /\ staged.at = t.at /\ staged.dir = t.dir
        /\ staged.pool = t.pool /\ staged.sha = t.sha /\ staged.base = t.base
        /\ staged.tree = tree /\ staged.head = t.head /\ staged.unsaved = unsaved
    BY <1>3, <2>1 DEF Task
  <2> HIDE DEF all, staged
  <2>5. QED
    BY <2>2, <2>3, <2>4 DEF tree, unsaved
<1>5. HeadOf(next) \in Sha /\ HeadOf(next) = [base |-> t.base, patches |-> next.head]
  BY <1>4, TaskIs DEF HeadOf, Sha
<1>6. PICK u \in Task : u = Record(next, HeadOf(next))
  BY <1>5, RecordIs
<1>7. /\ u.pc = "apply" /\ u.at = t.at /\ u.dir = t.dir /\ u.pool = t.pool /\ u.base = t.base
      /\ u.tree = next.tree /\ u.head = next.head /\ u.unsaved = next.unsaved
      /\ u.sha = Append(t.sha, [base |-> t.base, patches |-> u.head])
  BY <1>2, <1>4, <1>5, <1>6, RecordIs
<1>8. Mailed(s) => Applied(s, u)
  <2>1. ASSUME Mailed(s) PROVE Applied(s, u)
    <3>1. Applied(s, t)
      BY <1>2, <1>3, <2>1 DEF Shape
    <3>2. QED
      BY <1>2, <1>3, <1>4, <1>7, <3>1, PatchIsApplied
  <2>2. QED
    BY <2>1
<1>9. task' = [task EXCEPT ![s] = u]
  BY <1>4, <1>6
<1>10. QED
  BY <1>1, <1>2, <1>7, <1>8, <1>9, AppliesMoves

\* A task that gives the candidate up, or keeps the checkout.
LEMMA AppliesEnds ==
  ASSUME CheckoutInv, NEW s \in Series, NEW pc \in {"drop", "kept"}, task[s].pc = "apply",
         Goes(s, pc), pc = "kept" => AllApplied(s), RepoSame, RepoOnly, daemon = "up"
  PROVE  CheckoutInv'
<1>1. PICK t \in Task :
        /\ task' = [task EXCEPT ![s] = t] /\ t.pc = pc
        /\ t.at = task[s].at /\ t.dir = task[s].dir /\ t.pool = task[s].pool
        /\ t.sha = task[s].sha /\ t.unsaved = task[s].unsaved /\ t.tree = task[s].tree
        /\ t.head = task[s].head /\ t.base = task[s].base
  BY GoesMoves DEF Pcs
<1>2. pc = "kept" /\ Mailed(s) => Applied(s, t)
  <2>1. ASSUME pc = "kept", Mailed(s) PROVE Applied(s, t)
    <3>1. Applied(s, task[s]) /\ Len(task[s].sha) >= Len(Ids[s])
      BY <2>1, MoverIs, TaskIs, SeriesAre DEF Shape, AllApplied, Turn
    <3>2. QED
      BY <1>1, <3>1, TaskIs, SeriesAre DEF Applied
  <2>2. QED
    BY <2>1
<1>3. Shape(s, t)
  BY <1>1, <1>2, MoverIs DEF Shape, Rest, Fresh
<1>4. RemoteIsThere(s, t)' /\ t.pc \in Added /\ task[s].pc \in Added
  BY <1>1 DEF RemoteIsThere, Added
<1>5. QED
  BY <1>1, <1>3, <1>4, RepoIs, SearchMoves DEF RepoSame, RepoOnly

LEMMA AppliedKeeps ==
  ASSUME CheckoutInv, NEW s \in Series, ApplyFails(s) \/ RecordBaseline(s)
  PROVE  CheckoutInv'
<1>1. CASE ApplyFails(s)
  <2>1. task[s].pc = "apply" /\ daemon = "up" /\ Goes(s, "drop") /\ RepoSame /\ RepoOnly
    BY <1>1 DEF ApplyFails, AfterFailedPatch, Goes, Up
  <2>2. QED
    BY <2>1, AppliesEnds
<1>2. CASE RecordBaseline(s)
  <2>1. task[s].pc = "apply" /\ daemon = "up" /\ AllApplied(s) /\ RepoSame /\ RepoOnly
        /\ (Goes(s, "kept") \/ Goes(s, "drop"))
    BY <1>2 DEF RecordBaseline, Up
  <2>2. QED
    BY <2>1, AppliesEnds
<1>3. QED
  BY <1>1, <1>2

-----------------------------------------------------------------------------
\* A worker of the pool makes a checkout of its own; killed, it leaves it.
LEMMA PoolIs ==
  ASSUME NEW t \in Task, NEW pool \in SUBSET Places
  PROVE  LET u == [t EXCEPT !.pool = pool] IN
         /\ u \in Task /\ u.pc = t.pc /\ u.at = t.at /\ u.dir = t.dir /\ u.sha = t.sha
         /\ u.unsaved = t.unsaved /\ u.tree = t.tree /\ u.head = t.head /\ u.base = t.base
         /\ u.pool = pool
BY DEF Task

LEMMA PoolShape ==
  ASSUME NEW s \in Series, NEW t, NEW u, t.pc = "kept", Shape(s, t), u.pc = t.pc, u.at = t.at,
         u.dir = t.dir, u.sha = t.sha, u.unsaved = t.unsaved, u.tree = t.tree,
         u.head = t.head, u.base = t.base, \A d \in u.pool : d[1] = s /\ d[2] = 0
  PROVE  Shape(s, u)
<1>1. Applied(s, t) => Applied(s, u)
  BY DEF Applied
<1>2. QED
  BY <1>1 DEF Shape, Rest, Fresh

\* A kept checkout, and what it is not: one of the pool.
LEMMA KeptIs ==
  ASSUME CheckoutInv, NEW s \in Series, task[s].pc = "kept"
  PROVE  /\ task[s] \in Task /\ Shape(s, task[s]) /\ Uses(task[s]) = {task[s].dir}
         /\ task[s].dir \in dirs /\ task[s].dir \in registered /\ task[s].dir \notin task[s].pool
         /\ task[s].pool \subseteq {PoolDir(s)} /\ task[s].pool \cap left = {}
         /\ \A d \in task[s].pool : d[1] = s /\ d[2] = 0
<1>1. /\ task[s] \in Task /\ Shape(s, task[s]) /\ Placed(s, task[s])
      /\ Uses(task[s]) = {task[s].dir} /\ task[s].dir \in dirs /\ task[s].dir \in Places
  BY MoverIs, UserIs DEF Added
<1>2. task[s].dir[2] > 0 /\ task[s].dir \in registered
  BY <1>1, NoCheckoutIs DEF Shape, Placed, Added
<1>3. \A d \in task[s].pool : d[1] = s /\ d[2] = 0
  BY <1>1 DEF Shape
<1>4. QED
  BY <1>1, <1>2, <1>3 DEF Placed

\* The pool of a kept checkout changes, with its directory, its metadata or neither.
LEMMA PoolMoves ==
  ASSUME CheckoutInv, NEW s \in Series, NEW t \in Task, daemon = "up", task[s].pc = "kept",
         task' = [task EXCEPT ![s] = t], t.pc = "kept", t.dir = task[s].dir, Shape(s, t),
         NEW own \in SUBSET Places, \A d \in own : d[1] = s /\ d[2] = 0,
         t.pool \subseteq {PoolDir(s)}, t.pool \cap left' = {}, RepoSame,
         UNCHANGED <<daemon, checkoutCrashes>>, left' \subseteq dirs',
         dirs \ own \subseteq dirs', dirs' \subseteq dirs \cup own,
         registered \ own \subseteq registered', registered' \subseteq registered \cup own,
         left' \subseteq left \cup own,
         \A d \in dirs' \ left' : \/ d \in t.pool
                                  \/ d \in dirs \ left /\ d \notin task[s].pool
  PROVE  CheckoutInv'
<1>1. /\ Uses(task[s]) = {task[s].dir} /\ Uses(t) = {task[s].dir}
      /\ task[s].dir \in dirs /\ task[s].dir \in registered /\ task[s].dir \notin own
  <2>1. /\ Uses(task[s]) = {task[s].dir} /\ task[s].dir \in dirs /\ task[s].dir \in registered
        /\ task[s].dir \in Places /\ Shape(s, task[s])
    BY KeptIs, UserIs DEF Added
  <2>2. task[s].dir[2] > 0
    BY <2>1, NoCheckoutIs DEF Shape
  <2>3. QED
    BY <2>1, <2>2, UsesIs DEF Added
<1>2. RemoteIsThere(s, t)' /\ Placed(s, t)'
  BY <1>1 DEF RemoteIsThere, Placed, PoolDir
<1>3. registered' \subseteq Places /\ dirs' \subseteq Places
  BY RepoIs
<1>4. /\ \A d \in left' : d \in left \/ (d[1] = s /\ d[2] = 0)
      /\ \A d \in dirs : d \in dirs' \/ d[1] = s
      /\ \A d \in registered : d \in registered' \/ d[1] = s
  OBVIOUS
<1>5. \A d \in dirs' \ left' : \/ d \in Uses(t) \cup t.pool
                               \/ /\ d \in dirs \ left
                                  /\ d \notin Uses(task[s]) \cup task[s].pool
  BY <1>1
<1>6. QED
  BY <1>2, <1>3, <1>4, <1>5, RepoIs, OneMoves DEF RepoSame

LEMMA PoolReviewKeeps ==
  ASSUME CheckoutInv, NEW s \in Series, PoolReview(s)
  PROVE  CheckoutInv'
<1>1. PICK d : d = PoolDir(s)
  OBVIOUS
<1>2. /\ task[s].pc = "kept" /\ d \notin dirs /\ daemon = "up" /\ RepoSame
      /\ task[s].pool = {} /\ dirs' = dirs \cup {d}
      /\ task' = [task EXCEPT ![s].pool = {d}]
      /\ UNCHANGED <<registered, daemon, checkoutCrashes, left>>
  BY <1>1 DEF PoolReview, Up
<1>3. d \in Places /\ d[1] = s /\ d[2] = 0
  <2>1. checkoutCrashes \in Nat
    BY CheckoutsAssumption DEF CheckoutInv, CheckoutTypeOK
  <2>2. QED
    BY <1>1, <2>1 DEF PoolDir, Places
<1>4. PICK t : t = [task[s] EXCEPT !.pool = {d}]
  OBVIOUS
<1>5. /\ t \in Task /\ t.pc = "kept" /\ t.at = task[s].at /\ t.dir = task[s].dir
      /\ t.sha = task[s].sha /\ t.unsaved = task[s].unsaved /\ t.tree = task[s].tree
      /\ t.head = task[s].head /\ t.base = task[s].base /\ t.pool = {d}
  BY <1>2, <1>3, <1>4, MoverIs, PoolIs
<1>6. task' = [task EXCEPT ![s] = t]
  BY <1>2, <1>4
<1>7. Shape(s, t)
  BY <1>2, <1>3, <1>5, MoverIs, PoolShape
<1>8. d \notin left /\ left' \subseteq dirs'
  BY <1>2, RepoIs
<1>9. PICK own \in SUBSET Places : own = {d}
  BY <1>3
<1>10. /\ \A e \in own : e[1] = s /\ e[2] = 0
       /\ t.pool \subseteq {PoolDir(s)} /\ t.pool \cap left' = {}
       /\ dirs \ own \subseteq dirs' /\ dirs' \subseteq dirs \cup own
       /\ registered \ own \subseteq registered' /\ registered' \subseteq registered \cup own
       /\ left' \subseteq left \cup own
       /\ \A e \in dirs' \ left' : \/ e \in t.pool
                                   \/ e \in dirs \ left /\ e \notin task[s].pool
  BY <1>1, <1>2, <1>3, <1>5, <1>8, <1>9
<1>11. QED
  BY <1>2, <1>5, <1>6, <1>7, <1>8, <1>10, PoolMoves

LEMMA PoolKeeps ==
  ASSUME CheckoutInv, NEW s \in Series, PoolRegisters(s) \/ PoolRemoves(s)
  PROVE  CheckoutInv'
<1>1. /\ task[s].pc = "kept" /\ daemon = "up" /\ RepoSame
      /\ \/ registered' = registered \cup task[s].pool /\ dirs' = dirs
         \/ registered' = registered /\ dirs' = dirs \ task[s].pool
      /\ UNCHANGED <<task, daemon, checkoutCrashes, left>>
  BY DEF PoolRegisters, PoolRemoves, Up
<1>2. PICK t \in Task : t = task[s]
  BY MoverIs
<1>3. task' = [task EXCEPT ![s] = t]
  BY <1>1, <1>2 DEF CheckoutInv, CheckoutTypeOK
<1>4. /\ Shape(s, t) /\ t.pool \subseteq {PoolDir(s)} /\ t.pool \cap left = {}
      /\ \A d \in t.pool : d[1] = s /\ d[2] = 0
  BY <1>1, <1>2, KeptIs
<1>5. PICK own \in SUBSET Places : own = t.pool
  BY TaskIs
<1>6. left' \subseteq dirs'
  BY <1>1, <1>2, <1>4, RepoIs
<1>7. \A d \in dirs' \ left' : \/ d \in t.pool
                               \/ d \in dirs \ left /\ d \notin task[s].pool
  BY <1>1, <1>2
<1>8. QED
  BY <1>1, <1>2, <1>3, <1>4, <1>5, <1>6, <1>7, PoolMoves

LEMMA PoolEndsKeeps ==
  ASSUME CheckoutInv, NEW s \in Series, PoolReviewEnds(s)
  PROVE  CheckoutInv'
<1>1. /\ task[s].pc = "kept" /\ daemon = "up" /\ RepoSame /\ dirs' = dirs
      /\ \/ /\ task[s].pool \cap dirs = {} /\ left' = left
            /\ registered' \in {registered, registered \ task[s].pool}
         \/ left' = left \cup (task[s].pool \cap dirs) /\ registered' = registered
      /\ task' = [task EXCEPT ![s].pool = {}] /\ UNCHANGED <<daemon, checkoutCrashes>>
  BY DEF PoolReviewEnds, Up
<1>2. PICK t : t = [task[s] EXCEPT !.pool = {}]
  OBVIOUS
<1>3. /\ t \in Task /\ t.pc = "kept" /\ t.at = task[s].at /\ t.dir = task[s].dir
      /\ t.sha = task[s].sha /\ t.unsaved = task[s].unsaved /\ t.tree = task[s].tree
      /\ t.head = task[s].head /\ t.base = task[s].base /\ t.pool = {}
  <2>1. task[s] \in Task /\ {} \in SUBSET Places
    BY MoverIs
  <2>2. QED
    BY <1>1, <1>2, <2>1, PoolIs
<1>4. task' = [task EXCEPT ![s] = t]
  BY <1>1, <1>2
<1>5. Shape(s, t) /\ \A d \in task[s].pool : d[1] = s /\ d[2] = 0
  BY <1>1, <1>3, KeptIs, PoolShape
<1>6. PICK own \in SUBSET Places : own = task[s].pool
  BY MoverIs, TaskIs
<1>7. left' \subseteq dirs' /\ left' \subseteq left \cup own
  BY <1>1, <1>6, RepoIs
<1>8. \A d \in dirs' \ left' : d \in dirs \ left /\ d \notin task[s].pool
  BY <1>1
<1>9. /\ registered \ own \subseteq registered' /\ registered' \subseteq registered \cup own
      /\ dirs \ own \subseteq dirs' /\ dirs' \subseteq dirs \cup own
  BY <1>1, <1>6
<1>10. /\ \A d \in own : d[1] = s /\ d[2] = 0
       /\ t.pool \subseteq {PoolDir(s)} /\ t.pool \cap left' = {}
       /\ \A d \in dirs' \ left' : \/ d \in t.pool
                                   \/ d \in dirs \ left /\ d \notin task[s].pool
  BY <1>3, <1>5, <1>6, <1>8
<1>11. /\ task[s].pc = "kept" /\ daemon = "up" /\ RepoSame
       /\ UNCHANGED <<daemon, checkoutCrashes>> /\ t.pc = "kept" /\ t.dir = task[s].dir
  BY <1>1, <1>3
<1>12. QED
  BY <1>3, <1>4, <1>5, <1>7, <1>9, <1>10, <1>11, PoolMoves

-----------------------------------------------------------------------------
LEMMA BeginKeeps ==
  ASSUME CheckoutInv, NEW s \in Series, BeginSearch(s) \/ AddRemoteFails(s)
  PROVE  CheckoutInv'
<1>1. /\ task[s].pc \in {"waiting", "remote"} /\ TryNext(s) /\ RepoSame /\ daemon = "up"
      /\ UNCHANGED <<registered, dirs, daemon, checkoutCrashes, left>>
  BY DEF BeginSearch, AddRemoteFails, Up, TreesSame, RepoOnly
<1>2. task[s].pc \in Idle
  BY <1>1 DEF Idle
<1>3. QED
  BY <1>1, <1>2, TryNextKeeps

LEMMA RemovesKeep ==
  ASSUME CheckoutInv, NEW s \in Series, DropCandidate(s) \/ ReviewsEnd(s)
  PROVE  CheckoutInv'
<1>1. CASE DropCandidate(s)
  <2>1. RemoveWorktree(s, "drop", "dropped") /\ task[s].pc = "drop"
    BY <1>1 DEF DropCandidate, RemoveWorktree, Up
  <2>2. QED
    BY <2>1, MoverIs, RemoveKeeps
<1>2. CASE ReviewsEnd(s)
  BY <1>2, RemoveKeeps DEF ReviewsEnd
<1>3. QED
  BY <1>1, <1>2

\* A task is set back, what is on disk and registered stays or is cleaned up.
LEMMA CrashKeeps ==
  ASSUME CheckoutInv, CrashDaemon
  PROVE  CheckoutInv'
<1>1. /\ checkoutCrashes < MaxCheckoutCrashes /\ checkoutCrashes' = checkoutCrashes + 1
      /\ daemon' = "down"
      /\ task' = [s \in Series |-> IF task[s].pc \in {"none", "reviewed"} THEN task[s] ELSE Unbegun]
      /\ lock' = [n \in Names |-> NoSeries] /\ left' = dirs
      /\ UNCHANGED <<objects, known, remotes, heads, recent, registered, dirs>>
  BY DEF CrashDaemon
<1>2. checkoutCrashes' \in 0..MaxCheckoutCrashes
  BY <1>1, CheckoutsAssumption DEF CheckoutInv, CheckoutTypeOK
<1>3. ASSUME NEW s \in Series
      PROVE  /\ task'[s] \in Task /\ Shape(s, task'[s])
             /\ RemoteIsThere(s, task[s])' /\ Placed(s, task[s])'
  <2>1. PICK t : t = task'[s]
    OBVIOUS
  <2>2. t \in Task /\ Shape(s, t) /\ t.pool = {} /\ t.pc \in Rest
    <3>1. CASE task[s].pc \in {"none", "reviewed"}
      BY <1>1, <2>1, <3>1, MoverIs DEF Rest
    <3>2. CASE task[s].pc \notin {"none", "reviewed"}
      BY <1>1, <2>1, <3>2, UnbegunIs DEF Rest
    <3>3. QED
      BY <3>1, <3>2
  <2>3. Uses(t) = {} /\ t.pc \notin Added
    BY <2>2, UsesIs DEF Rest, Idle
  <2>4. RemoteIsThere(s, t)' /\ Placed(s, t)'
    BY <2>2, <2>3 DEF RemoteIsThere, Placed, Rest
  <2>5. QED
    BY <2>1, <2>2, <2>4 DEF RemoteIsThere, Placed, PoolDir
<1>4. CheckoutTypeOK'
  <2>1. task' \in [Series -> Task]
    BY <1>1, <1>3
  <2>2. QED
    BY <1>1, <1>2, <2>1 DEF CheckoutInv, CheckoutTypeOK
<1>5. QED
  BY <1>1, <1>3, <1>4 DEF CheckoutInv

LEMMA StartKeeps ==
  ASSUME CheckoutInv, PruneWorktrees \/ StartReviewer
  PROVE  CheckoutInv'
<1>1. /\ daemon # "up" /\ daemon' \in {"pruned", "unpruned", "up"}
      /\ \/ UNCHANGED <<dirs, left>> /\ daemon' # "up"
         \/ dirs' = {} /\ left' = {}
      /\ registered' \subseteq registered
      /\ UNCHANGED <<task, checkoutCrashes, objects, known, remotes, heads, recent, lock>>
  BY DEF PruneWorktrees, StartReviewer, RepoSame
<1>2. /\ registered' \subseteq Places /\ dirs' \subseteq Places
      /\ left' \subseteq dirs' /\ left' \subseteq left /\ dirs' \ left' \subseteq dirs \ left
  BY <1>1, RepoIs
<1>3. CheckoutTypeOK'
  BY <1>1, <1>2 DEF CheckoutInv, CheckoutTypeOK
<1>4. ASSUME NEW s \in Series
      PROVE  Shape(s, task[s])' /\ RemoteIsThere(s, task[s])' /\ Placed(s, task[s])'
  <2>1. PICK t : t = task[s]
    OBVIOUS
  <2>2. /\ t \in Task /\ t.pc \in Rest /\ t.pool = {} /\ Shape(s, t) /\ task'[s] = t
    BY <1>1, <2>1, MoverIs DEF Placed, Rest
  <2>3. Uses(t) = {} /\ t.pc \notin Added
    BY <2>2, UsesIs DEF Rest, Idle
  <2>4. RemoteIsThere(s, t)' /\ Placed(s, t)'
    BY <2>2, <2>3 DEF RemoteIsThere, Placed, Rest
  <2>5. QED
    BY <2>1, <2>2, <2>4 DEF RemoteIsThere, Placed, PoolDir, Shape, Applied
<1>5. daemon' = "up" => \A d \in left' : d[2] = 0
  BY <1>1
<1>6. (dirs \ left \subseteq UNION {Uses(task[s]) \cup task[s].pool : s \in Series})'
  BY <1>1, <1>2 DEF CheckoutInv
<1>7. QED
  BY <1>3, <1>4, <1>5, <1>6 DEF CheckoutInv

-----------------------------------------------------------------------------
THEOREM CheckoutInvInit == CheckoutInit => CheckoutInv
<1> SUFFICES ASSUME CheckoutInit PROVE CheckoutInv
  OBVIOUS
<1>1. ASSUME NEW s \in Series
      PROVE  /\ task[s] \in Task /\ Shape(s, task[s]) /\ RemoteIsThere(s, task[s])
             /\ task[s].pool = {} /\ task[s].pc \in Rest
  <2>1. task[s] = Unbegun \/ task[s] = [Unbegun EXCEPT !.pc = "none"]
    BY DEF CheckoutInit
  <2>2. CASE task[s] = Unbegun
    BY <2>2, UnbegunIs DEF Rest
  <2>3. CASE task[s] = [Unbegun EXCEPT !.pc = "none"]
    <3>1. PICK t : t = [Unbegun EXCEPT !.pc = "none"]
      OBVIOUS
    <3>2. /\ t \in Task /\ t.pc = "none" /\ t.pool = {} /\ t.at = 0 /\ t.dir = NoCheckout
      <4>1. /\ t \in Task /\ t.pc = "none" /\ t.pool = Unbegun.pool /\ t.at = Unbegun.at
            /\ t.dir = Unbegun.dir
        BY <3>1, UnbegunIs, GoesDoes DEF Pcs
      <4>2. QED
        BY <4>1 DEF Unbegun
    <3>3. Shape(s, t)
      BY <3>2, SeriesAre DEF Shape, Rest, Fresh
    <3>4. QED
      BY <2>3, <3>1, <3>2, <3>3 DEF RemoteIsThere, Rest
  <2>4. QED
    BY <2>1, <2>2, <2>3
<1>2. CheckoutTypeOK
  <2>1. task \in [Series -> Task]
    BY <1>1 DEF CheckoutInit
  <2>2. /\ objects = Here /\ known = Known /\ recent = {}
        /\ remotes = [n \in Names |-> NoUrl] /\ heads = [n \in Names |-> NoUrl]
        /\ lock = [n \in Names |-> NoSeries] /\ registered = {} /\ dirs = {} /\ left = {}
        /\ daemon = "down" /\ checkoutCrashes = 0
    BY DEF CheckoutInit
  <2>3. Here \subseteq Commits /\ Known \subseteq Refs /\ 0 \in 0..MaxCheckoutCrashes
    BY CheckoutsAssumption
  <2>4. QED
    BY <2>1, <2>2, <2>3 DEF CheckoutTypeOK
<1>3. ASSUME NEW s \in Series PROVE Placed(s, task[s])
  BY <1>1, UsesIs DEF Placed, Rest, Idle
<1>4. dirs = {} /\ daemon # "up"
  BY DEF CheckoutInit
<1>5. QED
  BY <1>1, <1>2, <1>3, <1>4 DEF CheckoutInv

LEMMA TaskStepKeeps ==
  ASSUME CheckoutInv, NEW s \in Series, TaskStep(s)
  PROVE  CheckoutInv'
<1>1. CASE BeginSearch(s) \/ AddRemoteFails(s)
  BY <1>1, BeginKeeps
<1>2. CASE LockRemote(s) \/ FetchRemote(s) \/ SetHead(s)
  BY <1>2, LockRemoteKeeps, FetchRemoteKeeps, SetHeadKeeps
<1>3. CASE ResolveCandidate(s, "resolve") \/ ResolveCandidate(s, "retry")
  BY <1>3, ResolveKeeps
<1>4. CASE FetchFromOrigin(s) \/ MakeDirectory(s) \/ RegisterWorktree(s) \/ PopulateWorktree(s)
  BY <1>4, OriginKeeps, MakeKeeps, RegisterKeeps, PopulateKeeps
<1>5. CASE DropCandidate(s) \/ CandidateIsDropped(s)
  BY <1>5, RemovesKeep, DroppedKeeps
<1>6. CASE LookUpCommit(s) \/ ResetToCommit(s) \/ ApplyMail(s)
  BY <1>6, LookUpKeeps, ResetKeeps, ApplyKeeps
<1>7. CASE ApplyFails(s) \/ RecordBaseline(s)
  BY <1>7, AppliedKeeps
<1>8. CASE PoolReview(s) \/ PoolRegisters(s) \/ PoolRemoves(s) \/ PoolReviewEnds(s)
  BY <1>8, PoolReviewKeeps, PoolKeeps, PoolEndsKeeps
<1>9. CASE ReviewsEnd(s) \/ SeriesIsReviewed(s)
  BY <1>9, RemovesKeep, ReviewedKeeps
<1>10. QED
  BY <1>1, <1>2, <1>3, <1>4, <1>5, <1>6, <1>7, <1>8, <1>9 DEF TaskStep

LEMMA CheckoutInvNext ==
  ASSUME CheckoutInv, [CheckoutNext]_checkoutVars
  PROVE  CheckoutInv'
<1>1. CASE \E s \in Series : TaskStep(s)
  BY <1>1, TaskStepKeeps
<1>2. CASE \/ \E n \in Names : Outdate(n)
           \/ UNCHANGED checkoutVars
  <2>1. /\ recent' \subseteq Names
        /\ UNCHANGED <<task, objects, known, remotes, heads, lock, registered, dirs, daemon,
                       checkoutCrashes, left>>
    BY <1>2, RepoIs DEF Outdate, RepoOnly, checkoutVars
  <2>2. CheckoutTypeOK'
    BY <2>1 DEF CheckoutInv, CheckoutTypeOK
  <2>3. ASSUME NEW s \in Series
        PROVE  Shape(s, task[s])' /\ RemoteIsThere(s, task[s])' /\ Placed(s, task[s])'
    BY <2>1, MoverIs DEF Shape, Applied, RemoteIsThere, Placed, PoolDir, Uses
  <2>4. (dirs \ left \subseteq UNION {Uses(task[s]) \cup task[s].pool : s \in Series})'
    BY <2>1 DEF CheckoutInv, Uses
  <2>5. QED
    BY <2>1, <2>2, <2>3, <2>4 DEF CheckoutInv
<1>3. CASE PruneWorktrees \/ StartReviewer
  BY <1>3, StartKeeps
<1>4. CASE CrashDaemon
  BY <1>4, CrashKeeps
<1>5. QED
  BY <1>1, <1>2, <1>3, <1>4 DEF CheckoutNext

THEOREM CheckoutInvAlways == CheckoutSpec => []CheckoutInv
<1>1. CheckoutInit => CheckoutInv
  BY CheckoutInvInit
<1>2. CheckoutInv /\ [CheckoutNext]_checkoutVars => CheckoutInv'
  BY CheckoutInvNext
<1>3. QED
  BY <1>1, <1>2, PTL DEF CheckoutSpec

\* Type correctness of the checkouts.
THEOREM CheckoutTypeCorrect == CheckoutSpec => []CheckoutTypeOK
<1>1. CheckoutInv => CheckoutTypeOK
  BY DEF CheckoutInv
<1>2. QED
  BY <1>1, CheckoutInvAlways, PTL

\* Every directory has a user, and what a task works in is there and registered.
THEOREM CheckoutsAreOwned == CheckoutSpec => []NothingIsLeftBehind
<1>1. CheckoutInv => NothingIsLeftBehind
  BY DEF CheckoutInv, Placed, NothingIsLeftBehind
<1>2. QED
  BY <1>1, CheckoutInvAlways, PTL

\* The recorded commits are the series on its baseline.
THEOREM SeriesCorrect == CheckoutSpec => []SeriesIsOnBaseline
<1>1. ASSUME CheckoutInv, NEW s \in Series, task[s].pc = "kept", Mailed(s),
             NEW i \in DOMAIN Ids[s]
      PROVE  /\ task[s].sha[i].base = task[s].base
             /\ task[s].sha[i].patches \subseteq 1..i
             /\ i \notin task[s].unsaved => task[s].sha[i].patches = 1..i
  <2>1. Applied(s, task[s]) /\ i \in 1..Len(task[s].sha)
    BY <1>1, MoverIs, SeriesAre DEF Shape, Applied
  <2>2. QED
    BY <2>1 DEF Applied
<1>2. CheckoutInv => SeriesIsOnBaseline
  BY <1>1 DEF SeriesIsOnBaseline
<1>3. QED
  BY <1>2, CheckoutInvAlways, PTL

(***************************************************************************)
(* The repository monitor                                                  *)
(***************************************************************************)
\* A turn of a branch: what it submits, of which branch, up to which commit.
Turns == [pc : {"syncing"}, branch : Branches, target : History,
          attempts : 0..(MaxTries - 1), todo : SUBSET History]

SyncOK ==
  /\ sync \in {Resting, Stopped} \cup Turns
  /\ sync.pc = "syncing" => memory[sync.branch].retries < MaxTries

\* What a turn still has to submit is all that is missing of its target, and
\* whatever is made from a commit it has to submit it has to submit, too.
Upward(c, todo) == \A d \in Ancestors(c) : Parents[d] \cap todo # {} => d \in todo
TurnInv ==
  sync.pc = "syncing" =>
    /\ sync.todo \subseteq Ancestors(sync.target) \ Old
    /\ Ancestors(sync.target) \ Old \subseteq submitted \cup sync.todo
    /\ Upward(sync.target, sync.todo)

MonitorInv == MonitorTypeOK /\ SyncOK /\ TurnInv /\ NoCommitIsSkipped

-----------------------------------------------------------------------------
\* The commits a commit is made from.
LEMMA AncestorsAre ==
  ASSUME NEW c \in History
  PROVE  /\ Ancestors(c) = {x \in History : \A S \in WithParents : c \in S => x \in S}
         /\ Ancestors(c) \subseteq History /\ c \in Ancestors(c)
         /\ \A S \in WithParents : c \in S => Ancestors(c) \subseteq S
<1>1. c # NoCommit
  BY MonitorAssumption
<1>2. Ancestors(c) = {x \in History : \A S \in WithParents : c \in S => x \in S}
  BY <1>1 DEF Ancestors, Past
<1>3. QED
  BY <1>2

\* They hold the parents of each of them, and so all it is made from.
LEMMA AncestorsHold ==
  ASSUME NEW c \in History
  PROVE  /\ Ancestors(c) \in WithParents
         /\ \A d \in Ancestors(c) : /\ Parents[d] \subseteq Ancestors(c)
                                    /\ Ancestors(d) \subseteq Ancestors(c)
<1>1. ASSUME NEW d \in Ancestors(c), NEW p \in Parents[d]
      PROVE  p \in Ancestors(c)
  <2>1. d \in History /\ p \in History
    BY AncestorsAre, MonitorAssumption
  <2>2. ASSUME NEW S \in WithParents, c \in S
        PROVE  p \in S
    BY <2>2, AncestorsAre DEF WithParents
  <2>3. QED
    BY <2>1, <2>2, AncestorsAre
<1>2. Ancestors(c) \in WithParents
  BY <1>1, AncestorsAre DEF WithParents
<1>3. ASSUME NEW d \in Ancestors(c)
      PROVE  Ancestors(d) \subseteq Ancestors(c)
  BY <1>2, AncestorsAre
<1>4. QED
  BY <1>1, <1>2, <1>3

LEMMA NoneOfNoCommit == Ancestors(NoCommit) = {}
BY DEF Ancestors

\* What is not yet submitted of a commit is missing upward from its oldest.
LEMMA NewAreUpward ==
  ASSUME NEW start \in History \cup {NoCommit}, NEW end \in History
  PROVE  Upward(end, NewCommits(start, end))
<1> SUFFICES ASSUME NEW d \in Ancestors(end), NEW p \in Parents[d],
                    p \in NewCommits(start, end)
             PROVE  d \in NewCommits(start, end)
  BY DEF Upward
<1>1. d \in History /\ p \notin Old /\ p \notin Ancestors(start)
  BY AncestorsAre DEF NewCommits
<1>2. d \notin Old
  BY <1>1, MonitorAssumption
<1>3. d \notin Ancestors(start)
  <2>1. CASE start = NoCommit
    BY <2>1, NoneOfNoCommit
  <2>2. CASE start \in History
    BY <1>1, <2>2, AncestorsHold
  <2>3. QED
    BY <2>1, <2>2
<1>4. QED
  BY <1>2, <1>3 DEF NewCommits

\* When the next commit is submitted, all it is made from is.
LEMMA NextIsWhole ==
  ASSUME NEW end \in History, NEW todo, NEW c \in todo,
         todo \subseteq Ancestors(end), Upward(end, todo), Parents[c] \cap todo = {}
  PROVE  /\ Ancestors(c) \subseteq Ancestors(end)
         /\ Ancestors(c) \cap todo = {c}
         /\ Upward(end, todo \ {c})
<1> DEFINE S == (Ancestors(end) \ todo) \cup {c}
<1>1. c \in History /\ Ancestors(c) \subseteq Ancestors(end)
  BY AncestorsAre, AncestorsHold
<1>2. S \in WithParents
  <2>1. ASSUME NEW d \in S, NEW p \in Parents[d]
        PROVE  p \in S
    <3>1. p \in Ancestors(end)
      BY <1>1, AncestorsHold
    <3>2. p \notin todo
      BY DEF Upward
    <3>3. QED
      BY <3>1, <3>2
  <2>2. S \subseteq History
    BY <1>1, AncestorsAre
  <2>3. QED
    BY <2>1, <2>2 DEF WithParents
<1>3. Ancestors(c) \subseteq S
  BY <1>1, <1>2, AncestorsAre
<1>4. Ancestors(c) \cap todo = {c}
  BY <1>1, <1>3, AncestorsAre
<1>5. Upward(end, todo \ {c})
  BY DEF Upward
<1>6. QED
  BY <1>1, <1>4, <1>5

-----------------------------------------------------------------------------
\* The file takes what is in memory, or keeps what it has.
LEMMA SaveDoes ==
  ASSUME MonitorTypeOK, Save
  PROVE  (onDisk' = memory' \/ onDisk' = onDisk) /\ saveErrors' \in Nat
BY DEF Save, MonitorTypeOK

LEMMA RestingIs ==
  /\ Resting.pc = "idle" /\ Stopped.pc = "down" /\ Resting.todo = {} /\ Stopped.todo = {}
BY DEF Resting, Stopped

LEMMA NoStateIs ==
  /\ NoState \in [Branches -> [last : History \cup {NoCommit}, retries : 0..MaxTries]]
  /\ \A b \in Branches : NoState[b].last = NoCommit
BY MonitorAssumption DEF NoState, Unsynced

\* What was covered stays so as the server accepts more; nothing is behind no commit.
LEMMA CoveredStays ==
  ASSUME NEW state, Covered(state), submitted \subseteq submitted'
  PROVE  \A b \in Branches : Ancestors(state[b].last) \ Old \subseteq submitted'
BY DEF Covered

THEOREM MonitorInvInit == MonitorInit => MonitorInv
<1> SUFFICES ASSUME MonitorInit PROVE MonitorInv
  OBVIOUS
<1>1. tip \in [Branches -> History]
  BY DEF MonitorInit
<1>2. MonitorTypeOK
  BY <1>1, NoStateIs, RestingIs DEF MonitorInit, MonitorTypeOK
<1>3. SyncOK /\ TurnInv
  BY RestingIs DEF MonitorInit, SyncOK, TurnInv
<1>4. NoCommitIsSkipped
  BY NoStateIs, NoneOfNoCommit DEF MonitorInit, NoCommitIsSkipped, Covered
<1>5. QED
  BY <1>2, <1>3, <1>4 DEF MonitorInv

\* A turn begins with all that is new in its branch.
LEMMA PollKeeps ==
  ASSUME MonitorInv, NEW b \in Branches, Poll(b)
  PROVE  MonitorInv'
<1> DEFINE turn == [pc |-> "syncing", branch |-> b, target |-> tip[b], attempts |-> 0,
                    todo |-> NewCommits(memory[b].last, tip[b])]
<1>1. /\ sync' = turn /\ untried' = untried \ {b} /\ memory[b].retries < MaxTries
      /\ UNCHANGED <<tip, memory, onDisk, submitted, pushes, monitorCrashes, saveErrors>>
  BY MonitorAssumption DEF Poll, GivenUp, MonitorInv, MonitorTypeOK
<1>2. tip[b] \in History /\ memory[b].last \in History \cup {NoCommit}
  BY DEF MonitorInv, MonitorTypeOK
<1>3. NewCommits(memory[b].last, tip[b]) \subseteq Ancestors(tip[b]) \ Old
      /\ Ancestors(tip[b]) \subseteq History
  BY <1>2, AncestorsAre DEF NewCommits
<1>4. turn \in Turns
  BY <1>2, <1>3, MonitorAssumption DEF Turns
<1>5. MonitorTypeOK' /\ SyncOK'
  BY <1>1, <1>4 DEF MonitorInv, MonitorTypeOK, SyncOK, Turns
<1>6. TurnInv'
  <2>1. Ancestors(memory[b].last) \ Old \subseteq submitted
    BY DEF MonitorInv, NoCommitIsSkipped, Covered
  <2>2. Ancestors(tip[b]) \ Old \subseteq submitted \cup NewCommits(memory[b].last, tip[b])
    BY <2>1 DEF NewCommits
  <2>3. Upward(tip[b], NewCommits(memory[b].last, tip[b]))
    BY <1>2, NewAreUpward
  <2>4. QED
    BY <1>1, <1>3, <2>2, <2>3 DEF TurnInv
<1>7. NoCommitIsSkipped'
  BY <1>1 DEF MonitorInv, NoCommitIsSkipped, Covered
<1>8. QED
  BY <1>5, <1>6, <1>7 DEF MonitorInv

LEMMA UnchangedKeeps ==
  ASSUME MonitorInv, NEW b \in Branches, PollUnchanged(b)
  PROVE  MonitorInv'
<1>1. /\ sync.pc = "idle" /\ memory' = [memory EXCEPT ![b].retries = 0] /\ Save
      /\ untried' = untried \ {b} /\ UNCHANGED <<tip, sync, submitted, pushes, monitorCrashes>>
  BY DEF PollUnchanged
<1>2. /\ memory' \in [Branches -> [last : History \cup {NoCommit}, retries : 0..MaxTries]]
      /\ \A x \in Branches : memory'[x].last = memory[x].last
  BY <1>1, MonitorAssumption DEF MonitorInv, MonitorTypeOK
<1>3. (onDisk' = memory' \/ onDisk' = onDisk) /\ saveErrors' \in Nat
  BY <1>1, SaveDoes DEF MonitorInv
<1>4. MonitorTypeOK'
  BY <1>1, <1>2, <1>3 DEF MonitorInv, MonitorTypeOK
<1>5. SyncOK' /\ TurnInv'
  BY <1>1 DEF MonitorInv, SyncOK, TurnInv
<1>6. NoCommitIsSkipped'
  <2>1. Covered(memory)'
    BY <1>1, <1>2 DEF MonitorInv, NoCommitIsSkipped, Covered
  <2>2. Covered(onDisk)'
    BY <1>1, <1>2, <1>3 DEF MonitorInv, NoCommitIsSkipped, Covered
  <2>3. QED
    BY <2>1, <2>2 DEF NoCommitIsSkipped
<1>7. QED
  BY <1>4, <1>5, <1>6 DEF MonitorInv

\* What is known of a turn.
LEMMA TurnIs ==
  ASSUME MonitorInv, sync.pc = "syncing"
  PROVE  /\ sync \in Turns /\ sync.branch \in Branches /\ sync.target \in History
         /\ sync.attempts \in 0..(MaxTries - 1) /\ sync.todo \subseteq History
         /\ memory[sync.branch].retries \in 0..(MaxTries - 1)
         /\ sync.todo \subseteq Ancestors(sync.target) \ Old
         /\ Ancestors(sync.target) \ Old \subseteq submitted \cup sync.todo
         /\ Upward(sync.target, sync.todo)
<1>1. sync \in Turns /\ memory[sync.branch].retries < MaxTries
  BY RestingIs DEF MonitorInv, SyncOK
<1>2. /\ sync.branch \in Branches /\ sync.target \in History
      /\ sync.attempts \in 0..(MaxTries - 1) /\ sync.todo \subseteq History
  BY <1>1 DEF Turns
<1>3. memory[sync.branch].retries \in 0..MaxTries
  BY <1>2 DEF MonitorInv, MonitorTypeOK
<1>4. memory[sync.branch].retries \in 0..(MaxTries - 1)
  BY <1>1, <1>3, MonitorAssumption
<1>5. QED
  BY <1>1, <1>2, <1>4 DEF MonitorInv, TurnInv

\* One commit less to submit.
LEMMA TurnTakes ==
  ASSUME NEW t \in Turns, NEW c
  PROVE  LET u == [t EXCEPT !.todo = @ \ {c}, !.attempts = 0] IN
         /\ u \in Turns /\ u.pc = "syncing" /\ u.branch = t.branch
         /\ u.target = t.target /\ u.todo = t.todo \ {c}
<1> DEFINE rest == t.todo \ {c}
<1>1. 0 \in 0..(MaxTries - 1)
  BY MonitorAssumption
<1>2. t.todo \in SUBSET History
  BY DEF Turns
<1>3. rest \in SUBSET History
  BY <1>2
<1> HIDE DEF rest
<1>4. /\ [t EXCEPT !.todo = rest, !.attempts = 0] \in Turns
      /\ [t EXCEPT !.todo = rest, !.attempts = 0].pc = "syncing"
      /\ [t EXCEPT !.todo = rest, !.attempts = 0].branch = t.branch
      /\ [t EXCEPT !.todo = rest, !.attempts = 0].target = t.target
      /\ [t EXCEPT !.todo = rest, !.attempts = 0].todo = rest
  BY <1>1, <1>3 DEF Turns
<1>5. QED
  BY <1>4 DEF rest

\* A commit the server accepted is the last one when all behind it is accepted.
LEMMA SucceedsKeeps ==
  ASSUME MonitorInv, NEW c \in History, SyncSucceeds(c)
  PROVE  MonitorInv'
<1> DEFINE b == sync.branch
           turn == [sync EXCEPT !.todo = @ \ {c}, !.attempts = 0]
<1>1. /\ sync.pc = "syncing" /\ c \in sync.todo /\ Parents[c] \cap sync.todo = {}
      /\ submitted' = submitted \cup {c} /\ memory' = Synced(b, c) /\ sync' = turn
      /\ UNCHANGED <<tip, onDisk, untried, pushes, monitorCrashes, saveErrors>>
  BY DEF SyncSucceeds, NextCommits
<1>2. /\ sync \in Turns /\ b \in Branches /\ sync.target \in History
      /\ memory[b].retries \in 0..(MaxTries - 1)
      /\ sync.todo \subseteq Ancestors(sync.target) \ Old
      /\ Ancestors(sync.target) \ Old \subseteq submitted \cup sync.todo
      /\ Upward(sync.target, sync.todo)
  BY <1>1, TurnIs
<1>3. /\ Ancestors(c) \subseteq Ancestors(sync.target)
      /\ Ancestors(c) \cap sync.todo = {c}
      /\ Upward(sync.target, sync.todo \ {c})
  BY <1>1, <1>2, NextIsWhole
<1>4. /\ turn \in Turns /\ turn.pc = "syncing" /\ turn.branch = b
      /\ turn.target = sync.target /\ turn.todo = sync.todo \ {c}
  BY <1>2, TurnTakes
<1>5. /\ memory' \in [Branches -> [last : History \cup {NoCommit}, retries : 0..MaxTries]]
      /\ \A x \in Branches : /\ memory'[x].last = IF x = b THEN c ELSE memory[x].last
                             /\ memory'[x].retries = memory[x].retries
  <2> DEFINE e == [memory[b] EXCEPT !.last = c]
  <2>1. memory \in [Branches -> [last : History \cup {NoCommit}, retries : 0..MaxTries]]
    BY DEF MonitorInv, MonitorTypeOK
  <2>2. /\ e \in [last : History \cup {NoCommit}, retries : 0..MaxTries]
        /\ e.last = c /\ e.retries = memory[b].retries
    BY <1>2, <2>1
  <2>3. memory' = [memory EXCEPT ![b] = e]
    BY <1>1 DEF Synced
  <2> HIDE DEF e
  <2>4. QED
    BY <1>2, <2>1, <2>2, <2>3
<1> HIDE DEF b, turn
<1>6. MonitorTypeOK' /\ SyncOK'
  <2>1. MonitorTypeOK'
    <3>1. sync'.pc = "syncing" /\ sync'.todo \subseteq History
      BY <1>1, <1>2, <1>4, AncestorsAre
    <3>2. submitted' \subseteq History
      BY <1>1 DEF MonitorInv, MonitorTypeOK
    <3>3. QED
      BY <1>1, <1>5, <3>1, <3>2 DEF MonitorInv, MonitorTypeOK
  <2>2. SyncOK'
    BY <1>1, <1>2, <1>4, <1>5, MonitorAssumption DEF SyncOK
  <2>3. QED
    BY <2>1, <2>2
<1>7. TurnInv'
  <2>1. sync'.todo = sync.todo \ {c} /\ sync'.target = sync.target
    BY <1>1, <1>4
  <2>2. QED
    BY <1>1, <1>2, <1>3, <2>1 DEF TurnInv
<1>8. NoCommitIsSkipped'
  <2>1. Ancestors(c) \ Old \subseteq submitted'
    BY <1>1, <1>2, <1>3
  <2>2. Covered(memory)'
    BY <1>1, <1>5, <2>1 DEF MonitorInv, NoCommitIsSkipped, Covered
  <2>3. Covered(onDisk)'
    BY <1>1 DEF MonitorInv, NoCommitIsSkipped, Covered
  <2>4. QED
    BY <2>2, <2>3 DEF NoCommitIsSkipped
<1>9. QED
  BY <1>6, <1>7, <1>8 DEF MonitorInv

\* A try that failed may have been accepted; a turn that is given up leaves the
\* last commit where it was.
LEMMA FailsKeeps ==
  ASSUME MonitorInv, NEW c \in History, SyncFails(c)
  PROVE  MonitorInv'
<1>1. /\ sync.pc = "syncing" /\ c \in sync.todo
      /\ submitted' \in {submitted, submitted \cup {c}}
      /\ UNCHANGED <<tip, untried, pushes, monitorCrashes>>
  BY DEF SyncFails, NextCommits
<1>2. /\ sync \in Turns /\ sync.branch \in Branches /\ sync.target \in History
      /\ sync.attempts \in 0..(MaxTries - 1)
      /\ memory[sync.branch].retries \in 0..(MaxTries - 1)
      /\ Ancestors(sync.target) \ Old \subseteq submitted \cup sync.todo
  BY <1>1, TurnIs
<1>3. submitted \subseteq submitted' /\ submitted' \subseteq History
  BY <1>1 DEF MonitorInv, MonitorTypeOK
<1>4. CASE /\ sync.attempts + 1 < MaxTries
           /\ sync' = [sync EXCEPT !.attempts = @ + 1]
           /\ UNCHANGED <<memory, onDisk, saveErrors>>
  <2>1. /\ sync' \in Turns /\ sync'.branch = sync.branch /\ sync'.target = sync.target
        /\ sync'.todo = sync.todo /\ sync'.pc = "syncing"
    BY <1>2, <1>4, MonitorAssumption DEF Turns
  <2>2. MonitorTypeOK'
    BY <1>1, <1>3, <1>4, <2>1 DEF MonitorInv, MonitorTypeOK, Turns
  <2>3. SyncOK'
    BY <1>4, <2>1, <1>1 DEF MonitorInv, SyncOK
  <2>4. TurnInv'
    BY <1>1, <1>3, <2>1 DEF MonitorInv, TurnInv
  <2>5. NoCommitIsSkipped'
    BY <1>3, <1>4 DEF MonitorInv, NoCommitIsSkipped, Covered
  <2>6. QED
    BY <2>2, <2>3, <2>4, <2>5 DEF MonitorInv
<1>5. CASE /\ memory' = [memory EXCEPT ![sync.branch].retries = @ + 1]
           /\ sync' = Resting /\ Save
  <2>1. /\ memory' \in [Branches -> [last : History \cup {NoCommit}, retries : 0..MaxTries]]
        /\ \A x \in Branches : memory'[x].last = memory[x].last
    BY <1>2, <1>5, MonitorAssumption DEF MonitorInv, MonitorTypeOK
  <2>2. (onDisk' = memory' \/ onDisk' = onDisk) /\ saveErrors' \in Nat
    BY <1>5, SaveDoes DEF MonitorInv
  <2>3. MonitorTypeOK'
    BY <1>1, <1>3, <1>5, <2>1, <2>2, RestingIs DEF MonitorInv, MonitorTypeOK
  <2>4. SyncOK' /\ TurnInv'
    BY <1>5, RestingIs DEF SyncOK, TurnInv
  <2>5. Covered(memory)'
    BY <1>3, <2>1 DEF MonitorInv, NoCommitIsSkipped, Covered
  <2>6. Covered(onDisk)'
    BY <1>3, <2>1, <2>2 DEF MonitorInv, NoCommitIsSkipped, Covered
  <2>7. QED
    BY <2>3, <2>4, <2>5, <2>6 DEF MonitorInv, NoCommitIsSkipped
<1>6. QED
  BY <1>4, <1>5 DEF SyncFails, AfterFailedSync

\* When a turn has nothing left to submit, all of its target is accepted.
LEMMA SyncedKeeps ==
  ASSUME MonitorInv, BranchIsSynced
  PROVE  MonitorInv'
<1> DEFINE done == [last |-> sync.target, retries |-> 0]
<1>1. /\ sync.pc = "syncing" /\ sync.todo = {} /\ sync' = Resting /\ Save
      /\ memory' = [memory EXCEPT ![sync.branch] = done]
      /\ UNCHANGED <<tip, submitted, untried, pushes, monitorCrashes>>
  BY DEF BranchIsSynced
<1>2. /\ sync.branch \in Branches /\ sync.target \in History
      /\ Ancestors(sync.target) \ Old \subseteq submitted
  BY <1>1, TurnIs
<1>3. /\ memory' \in [Branches -> [last : History \cup {NoCommit}, retries : 0..MaxTries]]
      /\ \A x \in Branches : memory'[x].last = IF x = sync.branch THEN sync.target
                                               ELSE memory[x].last
  BY <1>1, <1>2, MonitorAssumption DEF MonitorInv, MonitorTypeOK
<1>4. (onDisk' = memory' \/ onDisk' = onDisk) /\ saveErrors' \in Nat
  BY <1>1, SaveDoes DEF MonitorInv
<1>5. MonitorTypeOK'
  BY <1>1, <1>3, <1>4, RestingIs DEF MonitorInv, MonitorTypeOK
<1>6. SyncOK' /\ TurnInv'
  BY <1>1, RestingIs DEF SyncOK, TurnInv
<1>7. Covered(memory)'
  BY <1>1, <1>2, <1>3 DEF MonitorInv, NoCommitIsSkipped, Covered
<1>8. Covered(onDisk)'
  <2>1. CASE onDisk' = memory'
    BY <1>7, <2>1 DEF Covered
  <2>2. CASE onDisk' = onDisk
    BY <1>1, <2>2 DEF MonitorInv, NoCommitIsSkipped, Covered
  <2>3. QED
    BY <1>4, <2>1, <2>2
<1>9. QED
  BY <1>5, <1>6, <1>7, <1>8 DEF MonitorInv, NoCommitIsSkipped

LEMMA MonitorInvNext ==
  ASSUME MonitorInv, [MonitorNext]_MonitorVars
  PROVE  MonitorInv'
<1>1. CASE MonitorStarts
  <2>1. /\ sync' = Resting /\ memory' = onDisk
        /\ UNCHANGED <<tip, onDisk, submitted, untried, pushes, monitorCrashes, saveErrors>>
    BY <1>1 DEF MonitorStarts
  <2>2. MonitorTypeOK'
    BY <2>1, RestingIs DEF MonitorInv, MonitorTypeOK
  <2>3. SyncOK' /\ TurnInv'
    BY <2>1, RestingIs DEF SyncOK, TurnInv
  <2>4. NoCommitIsSkipped'
    BY <2>1 DEF MonitorInv, NoCommitIsSkipped, Covered
  <2>5. QED
    BY <2>2, <2>3, <2>4 DEF MonitorInv
<1>2. CASE \E b \in Branches : Poll(b) \/ PollUnchanged(b)
  BY <1>2, PollKeeps, UnchangedKeeps
<1>3. CASE \E c \in History : SyncSucceeds(c) \/ SyncFails(c)
  BY <1>3, SucceedsKeeps, FailsKeeps
<1>4. CASE BranchIsSynced
  BY <1>4, SyncedKeeps
<1>5. ASSUME NEW b \in Branches, NEW c \in History, Push(b, c)
      PROVE  MonitorInv'
  <2>1. /\ pushes' = pushes + 1 /\ tip' = [tip EXCEPT ![b] = c] /\ untried' = untried \cup {b}
        /\ UNCHANGED <<memory, onDisk, sync, submitted, monitorCrashes, saveErrors>>
    BY <1>5 DEF Push
  <2>2. MonitorTypeOK'
    BY <2>1 DEF MonitorInv, MonitorTypeOK
  <2>3. SyncOK' /\ TurnInv' /\ NoCommitIsSkipped'
    BY <2>1 DEF MonitorInv, SyncOK, TurnInv, NoCommitIsSkipped, Covered
  <2>4. QED
    BY <2>2, <2>3 DEF MonitorInv
<1>6. CASE MonitorCrashes
  <2>1. /\ monitorCrashes' = monitorCrashes + 1 /\ sync' = Stopped /\ memory' = NoState
        /\ UNCHANGED <<tip, onDisk, submitted, untried, pushes, saveErrors>>
    BY <1>6 DEF MonitorCrashes
  <2>2. MonitorTypeOK'
    BY <2>1, NoStateIs, RestingIs DEF MonitorInv, MonitorTypeOK
  <2>3. SyncOK' /\ TurnInv'
    BY <2>1, RestingIs DEF SyncOK, TurnInv
  <2>4. NoCommitIsSkipped'
    BY <2>1, NoStateIs, NoneOfNoCommit DEF MonitorInv, NoCommitIsSkipped, Covered
  <2>5. QED
    BY <2>2, <2>3, <2>4 DEF MonitorInv
<1>7. CASE UNCHANGED MonitorVars
  BY <1>7 DEF MonitorVars, MonitorInv, MonitorTypeOK, SyncOK, TurnInv, NoCommitIsSkipped, Covered
<1>8. QED
  BY <1>1, <1>2, <1>3, <1>4, <1>5, <1>6, <1>7 DEF MonitorNext, MonitorStep

THEOREM MonitorInvAlways == MonitorSpec => []MonitorInv
<1>1. MonitorInit => MonitorInv
  BY MonitorInvInit
<1>2. MonitorInv /\ [MonitorNext]_MonitorVars => MonitorInv'
  BY MonitorInvNext
<1>3. QED
  BY <1>1, <1>2, PTL DEF MonitorSpec

\* Type correctness of the monitor.
THEOREM MonitorTypeCorrect == MonitorSpec => []MonitorTypeOK
<1>1. MonitorInv => MonitorTypeOK
  BY DEF MonitorInv
<1>2. QED
  BY <1>1, MonitorInvAlways, PTL

\* No commit is skipped.
THEOREM NoCommitCorrect == MonitorSpec => []NoCommitIsSkipped
<1>1. MonitorInv => NoCommitIsSkipped
  BY DEF MonitorInv
<1>2. QED
  BY <1>1, MonitorInvAlways, PTL
=============================================================================
