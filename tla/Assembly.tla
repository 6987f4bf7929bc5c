------------------------------ MODULE Assembly ------------------------------
(***************************************************************************)
(* How the database worker of src/main.rs puts patchsets together from     *)
(* articles: thread resolution, create_message, create_patchset and        *)
(* create_patch of src/db.rs.                                              *)
(*                                                                         *)
(* Articles of the mailing lists, and of submitted mboxes, come in any     *)
(* order: up to fifty are parsed at once and a list is not ordered either. *)
(* One may come twice: it is posted to two lists, or fetched again after a *)
(* crash.  The worker handles one at a time: the message, the patchset,    *)
(* the patch.  No transaction holds their statements together, so a crash  *)
(* may fall between any two that change which patches a patchset has, how  *)
(* many it counts or its status; the UPDATEs of a row's other columns, and *)
(* those of the threads, are one step.                                     *)
(*                                                                         *)
(* Mail is what a sender sent.  It all lies within the 24 hours in which   *)
(* an author's articles are matched.  Reviewing changes the status of a    *)
(* patchset and nothing create_patchset reads, so Pending stands for every *)
(* later status.                                                           *)
(***************************************************************************)
EXTENDS Integers, FiniteSets

CONSTANTS
  Msgs,           \* message ids
  Mail,           \* Mail[m]: the parsed article (see Article)
  Series,         \* the patches of each series sent, for the properties
  MaxDuplicates,  \* articles that come again, at most
  MaxCrashes      \* crashes of the daemon, at most

VARIABLES
  thread,   \* messages: the thread of each message that has a row; a thread is
            \* named by its root_message_id, which had no row before
  sets,     \* patchsets by id, each with its patches
  worker,   \* step of process_parsed_article and the article it is at
  came,     \* came[m]: how often m came
  done,     \* history: articles handled to the end
  torn,     \* history: patchsets a crash kept from being counted, until they are
  crashes   \* history: crashes so far

vars == <<thread, sets, worker, came, done, torn, crashes>>

\* re: In-Reply-To; patch: is_patch_or_cover; title, version, tag: clean_subject,
\* parse_subject_version (1 without one) and get_subject_prefixes of the subject;
\* batch: the Message-ID up to its first dash, "none" if that is no longer than
\* ten characters; index, total: the M/N of the subject.
Article == [re : Msgs \cup {"none"}, author : STRING, patch : BOOLEAN, diff : BOOLEAN,
            index : Nat, total : Nat \ {0}, version : Nat, title : STRING,
            tag : STRING, batch : STRING]

ASSUME MailIsParsed ==
  /\ "none" \notin Msgs /\ Series \subseteq (SUBSET Msgs) \ {{}}
  /\ Mail \in [Msgs -> Article]
  /\ MaxDuplicates \in Nat /\ MaxCrashes \in Nat

\* head is the message whose subject the patchset bears.
Patchset == [thread : Msgs, cover : Msgs \cup {"none"}, head : Msgs, author : STRING,
             total : Nat \ {0}, received : Nat, parts : SUBSET Msgs,
             status : {"Incomplete", "Pending"}]

\* What the worker is at: resolve m's patchset; make the patchsets from part of
\* the one with that id (leads: m has the lowest index of all); count those that
\* are due and settle the one with that id (stored: after its patch); store m in it.
Idle == [at |-> "idle"]
At(step, m) == [at |-> step, msg |-> m]
Merging(step, m, i, from, leads) ==
  [at |-> step, msg |-> m, id |-> i, from |-> from, leads |-> leads]
Counting(m, i, due, stored) ==
  [at |-> "count", msg |-> m, id |-> i, due |-> due, stored |-> stored]

Jobs(ids) ==
  {Idle} \cup [at : {"set"}, msg : Msgs]
         \cup [at : {"merge", "drop"}, msg : Msgs, id : ids, from : SUBSET ids, leads : BOOLEAN]
         \cup [at : {"count"}, msg : Msgs, id : ids, due : SUBSET ids, stored : BOOLEAN]
         \cup [at : {"patch"}, msg : Msgs, id : ids]

TypeOK ==
  /\ DOMAIN thread \subseteq Msgs /\ thread \in [DOMAIN thread -> Msgs]
  /\ DOMAIN sets \subseteq Nat \ {0} /\ sets \in [DOMAIN sets -> Patchset]
  /\ worker \in Jobs(DOMAIN sets)
  /\ came \in [Msgs -> Nat]
  /\ done \subseteq Msgs /\ torn \subseteq DOMAIN sets
  /\ crashes \in 0 .. MaxCrashes

Init ==
  /\ thread = [m \in {} |-> m]
  /\ sets = [i \in {} |-> i]
  /\ worker = Idle
  /\ came = [m \in Msgs |-> 0]
  /\ done = {}
  /\ torn = {}
  /\ crashes = 0

(***************************************************************************)
(* The thread of an article                                                *)
(***************************************************************************)
Parent(m) == IF Mail[m].re = "none" THEN m ELSE Mail[m].re

\* ensure_thread_for_message: a message without a row is the root of a thread.
Ensured(m) ==
  IF m \in DOMAIN thread THEN thread
  ELSE [x \in DOMAIN thread \cup {m} |-> IF x = m THEN m ELSE thread[x]]

\* create_message puts m in the thread of its parent, and the thread m was in, if
\* a reply of m had opened one, with it.  (The bug: it stays.)
Joined_Split(x, old, new) == x
Joined(x, old, new)       == IF x = old THEN new ELSE x

Duplicates == {m \in Msgs : came[m] > 1}

Receive(m) ==
  /\ worker = Idle
  /\ came[m] = 0 \/ (came[m] = 1 /\ Cardinality(Duplicates) < MaxDuplicates)
  /\ came' = [came EXCEPT ![m] = @ + 1]
  /\ LET known == Ensured(Parent(m))
         new == known[Parent(m)]
         old == IF m \in DOMAIN known THEN known[m] ELSE new
     IN  /\ thread' = [x \in DOMAIN known \cup {m} |->
                         IF x = m THEN new ELSE Joined(known[x], old, new)]
         /\ sets' = [i \in DOMAIN sets |->
                       [sets[i] EXCEPT !.thread = Joined(@, old, new)]]
  /\ IF Mail[m].patch THEN worker' = At("set", m) /\ UNCHANGED done
                      ELSE worker' = Idle /\ done' = done \cup {m}
  /\ UNCHANGED <<torn, crashes>>

(***************************************************************************)
(* create_patchset                                                         *)
(***************************************************************************)
CoverOf(m) == IF Mail[m].index = 0 \/ Mail[m].total = 1 THEN m ELSE Mail[m].re

SameVersion(s, m) == Mail[s.head].version = Mail[m].version

\* Another patch of s has the index of m.
IndexTaken(s, m) ==
  /\ Mail[m].index # 0
  /\ \E p \in s.parts : p # m /\ Mail[p].index = Mail[m].index

\* By the cover letter.
Named(m) ==
  {i \in DOMAIN sets : /\ sets[i].cover = CoverOf(m)
                       /\ CoverOf(m) # "none"
                       /\ ~IndexTaken(sets[i], m)
                       /\ SameVersion(sets[i], m)}

\* m is in the patchset already.  (The bug: only its cover letter is.)
Holds_Cover(s, m) == s.cover = m
Holds(s, m)       == s.cover = m \/ m \in s.parts

\* Nothing but a cover letter joins a full patchset.
Full(s, m) == s.received >= s.total /\ ~Holds(s, m) /\ Mail[m].index # 0

SubjectsFit(s, m) ==
  LET sameTitle == Mail[m].title = Mail[s.head].title
      pair == {Mail[m].index, Mail[s.head].index}
  IN  IF Mail[m].total = 1 THEN sameTitle \/ pair = {0, 1}
      ELSE Mail[m].index = Mail[s.head].index => sameTitle

\* A second cover letter, or a second patch with the same index.
Collides(s, m) ==
  \/ IndexTaken(s, m)
  \/ Mail[m].index = 0 /\ s.cover \notin {"none", m} /\ Mail[s.head].index = 0

SentTogether(s, m) ==
  /\ Mail[m].batch # "none"
  /\ IF s.cover # "none" THEN Mail[s.cover].batch = Mail[m].batch
     ELSE \E p \in s.parts : Mail[p].batch = Mail[m].batch

\* By what it looks like; strict_author, as for every article of a list.  (The
\* bug: a series need not be of the same thread.)
Fits_AnyThread(s, m) ==
  /\ ~Full(s, m)
  /\ s.author = Mail[m].author
  /\ SameVersion(s, m) \/ s.thread = thread[m]
  /\ Mail[m].total \in {1, s.total} \/ s.total = 1
  /\ SubjectsFit(s, m)
  /\ s.thread = thread[m] \/ Mail[s.head].tag = Mail[m].tag
  /\ ~Collides(s, m)
Fits(s, m) ==
  /\ ~Full(s, m)
  /\ s.author = Mail[m].author
  /\ SameVersion(s, m) \/ s.thread = thread[m]
  /\ Mail[m].total \in {1, s.total} \/ s.total = 1
  /\ SubjectsFit(s, m)
  /\ s.thread = thread[m] \/ Mail[s.head].tag = Mail[m].tag
  /\ s.thread = thread[m] \/ Mail[m].total = 1 \/ SentTogether(s, m)
  /\ ~Collides(s, m)

Fitting(m) == {i \in DOMAIN sets : Fits(sets[i], m)}

\* The last UPDATE of create_patchset and create_patch.  (The bugs: the cover letter
\* counts as a part; a status the poller does not know.)
Settled_Cover(s) ==
  IF s.received + 1 >= s.total THEN [s EXCEPT !.status = "Pending"] ELSE s
Settled_Unknown(s) ==
  IF s.received >= s.total THEN [s EXCEPT !.status = "Ready"] ELSE s
Settled(s) == IF s.received >= s.total THEN [s EXCEPT !.status = "Pending"] ELSE s

\* The subject is that of the lowest index.
Headed(s, m, leads) == IF leads THEN [s EXCEPT !.head = m] ELSE s
Leads(m, heads) == \A h \in heads : Mail[m].index < Mail[h].index

Oldest(i, ids) == i \in ids /\ \A j \in ids : i <= j

\* A named patchset takes the data of m; a singleton does not shrink a series.
Renamed(s, m) ==
  LET total == IF Mail[m].total = 1 THEN s.total ELSE Mail[m].total
  IN  Headed([s EXCEPT !.thread = thread[m], !.author = Mail[m].author,
                       !.total = total, !.cover = CoverOf(m)],
             m, Leads(m, {s.head}))

\* So does the oldest of those that fit.
Updated(s, m, leads) ==
  Headed([s EXCEPT !.author = Mail[m].author, !.total = Mail[m].total,
                   !.cover = IF CoverOf(m) = "none" THEN @ ELSE CoverOf(m)],
         m, leads)

Fresh(m) == [thread |-> thread[m], cover |-> CoverOf(m), head |-> m,
             author |-> Mail[m].author, total |-> Mail[m].total, received |-> 0,
             parts |-> {}, status |-> "Incomplete"]

\* create_patch is called when the article has a diff.
ThenPatch(m, i) ==
  IF Mail[m].diff THEN worker' = [at |-> "patch", msg |-> m, id |-> i] /\ UNCHANGED done
                  ELSE worker' = Idle /\ done' = done \cup {m}

FindByCover(m) ==
  /\ worker = At("set", m)
  /\ \E i \in Named(m) :
       /\ Oldest(i, Named(m))
       /\ sets' = [sets EXCEPT ![i] = Renamed(@, m)]
       /\ worker' = Counting(m, i, {}, FALSE)
  /\ UNCHANGED <<thread, came, done, torn, crashes>>

FindByLooks(m) ==
  /\ worker = At("set", m)
  /\ Named(m) = {}
  /\ \E i \in Fitting(m) :
       /\ Oldest(i, Fitting(m))
       /\ worker' = Merging("merge", m, i, Fitting(m) \ {i},
                            Leads(m, {sets[j].head : j \in Fitting(m)}))
  /\ UNCHANGED <<thread, sets, came, done, torn, crashes>>

\* The patches of the others become those of the oldest, one after the other.
MoveParts(m) ==
  /\ worker.at = "merge"
  /\ worker.msg = m
  /\ \E j \in worker.from :
       /\ Oldest(j, worker.from)
       /\ sets' = [sets EXCEPT ![worker.id].parts = @ \cup sets[j].parts, ![j].parts = {}]
  /\ worker' = [worker EXCEPT !.at = "drop"]
  /\ UNCHANGED <<thread, came, done, torn, crashes>>

DropMerged(m) ==
  /\ worker.at = "drop"
  /\ worker.msg = m
  /\ \E j \in worker.from :
       /\ Oldest(j, worker.from)
       /\ sets' = [i \in DOMAIN sets \ {j} |-> sets[i]]
       /\ torn' = torn \ {j}
       /\ worker' = [worker EXCEPT !.at = "merge", !.from = @ \ {j}]
  /\ UNCHANGED <<thread, came, done, crashes>>

UpdateSet(m) ==
  /\ worker.at = "merge"
  /\ worker.msg = m
  /\ worker.from = {}
  /\ sets' = [sets EXCEPT ![worker.id] = Updated(@, m, worker.leads)]
  /\ worker' = Counting(m, worker.id, {worker.id}, FALSE)
  /\ UNCHANGED <<thread, came, done, torn, crashes>>

\* A new row has the id after the highest.
CreatePatchset(m) ==
  /\ worker = At("set", m)
  /\ Named(m) \cup Fitting(m) = {}
  /\ \E i \in {j + 1 : j \in DOMAIN sets \cup {0}} :
       /\ \A j \in DOMAIN sets : j < i
       /\ sets' = [j \in DOMAIN sets \cup {i} |-> IF j = i THEN Fresh(m) ELSE sets[j]]
       /\ ThenPatch(m, i)
  /\ UNCHANGED <<thread, came, torn, crashes>>

(***************************************************************************)
(* create_patch                                                            *)
(***************************************************************************)
\* The patch moves to the patchset; both are to be counted again.
WithPart(s, m, here) == [s EXCEPT !.parts = IF here THEN @ \cup {m} ELSE @ \ {m}]

InsertPatch(m) ==
  /\ worker.at = "patch"
  /\ worker.msg = m
  /\ IF IndexTaken(sets[worker.id], m) THEN worker' = Idle /\ UNCHANGED sets
     ELSE /\ sets' = [i \in DOMAIN sets |-> WithPart(sets[i], m, i = worker.id)]
          /\ worker' = Counting(m, worker.id,
                                {worker.id} \cup {i \in DOMAIN sets : m \in sets[i].parts}, TRUE)
  /\ UNCHANGED <<thread, came, done, torn, crashes>>

\* UPDATE patchsets SET received_parts = (SELECT COUNT(*) ...), the patchset the
\* worker is at first.  (The bug: the old count stays.)
Count_Stale(s) == s.received
Count(s)       == Cardinality(s.parts)

CountParts(m) ==
  /\ worker.at = "count"
  /\ worker.msg = m
  /\ \E i \in worker.due :
       /\ worker.id \in worker.due => i = worker.id
       /\ sets' = [sets EXCEPT ![i].received = Count(sets[i])]
       /\ torn' = torn \ {i}
       /\ worker' = [worker EXCEPT !.due = @ \ {i}]
  /\ UNCHANGED <<thread, came, done, crashes>>

Settle(m) ==
  /\ worker.at = "count"
  /\ worker.msg = m
  /\ worker.due = {}
  /\ sets' = [sets EXCEPT ![worker.id] = Settled(@)]
  /\ IF worker.stored THEN worker' = Idle /\ done' = done \cup {m}
                      ELSE ThenPatch(m, worker.id)
  /\ UNCHANGED <<thread, came, torn, crashes>>

\* What the worker has begun to change and not counted.
Uncounted(w) ==
  CASE w.at = "merge" -> {w.id}
    [] w.at = "drop"  -> {w.id} \cup {j \in w.from : Oldest(j, w.from)}
    [] w.at = "count" -> w.due
    [] OTHER          -> {}

\* The daemon dies; what is written stays, the article is lost unless it comes
\* again.
Crash ==
  /\ worker # Idle
  /\ crashes < MaxCrashes
  /\ crashes' = crashes + 1
  /\ worker' = Idle
  /\ torn' = torn \cup Uncounted(worker)
  /\ UNCHANGED <<thread, sets, came, done>>

Next == \/ \E m \in Msgs : \/ Receive(m)
                           \/ FindByCover(m) \/ FindByLooks(m) \/ CreatePatchset(m)
                           \/ MoveParts(m) \/ DropMerged(m) \/ UpdateSet(m)
                           \/ InsertPatch(m) \/ CountParts(m) \/ Settle(m)
        \/ Crash

Spec == Init /\ [][Next]_vars
-----------------------------------------------------------------------------
(***************************************************************************)
(* How senders send.  home[m] is the series message m belongs to, replies  *)
(* and cover letter included.                                              *)
(***************************************************************************)
\* A series has its own threads, its Message-IDs begin like those of no other
\* series, and a patch is never sent by itself.
KeepsApart(home, mail) ==
  \A m \in DOMAIN mail :
    /\ mail[m].re # "none" => home[mail[m].re] = home[m]
    /\ \A p \in DOMAIN mail :
         mail[m].batch = mail[p].batch /\ mail[m].batch # "none" => home[m] = home[p]
    /\ mail[m].patch => mail[m].total > 1 /\ (mail[m].diff => m \in home[m])

SentApart(mail, series) == \E home \in [DOMAIN mail -> series] : KeepsApart(home, mail)

\* As git send-email does it with a cover letter: every patch of a series is a
\* reply to one letter, and the patches bear the numbers of one version.
Threaded(home, letter, mail, series) ==
  /\ \A S \in series : IsFiniteSet(S) /\ \A m \in S : /\ mail[m].patch /\ mail[m].diff
                                                     /\ home[m] = S
  /\ \A m \in DOMAIN mail : mail[m].patch =>
       /\ letter[home[m]] = IF mail[m].index = 0 THEN m ELSE mail[m].re
       /\ mail[m].total = Cardinality(home[m])
       /\ \A p \in DOMAIN mail : mail[p].patch /\ home[p] = home[m] =>
            /\ mail[p].version = mail[m].version
            /\ mail[p].index = mail[m].index => p = m

SentWithLetter(mail, series) ==
  \E home \in [DOMAIN mail -> series], letter \in [series -> DOMAIN mail] :
    KeepsApart(home, mail) /\ Threaded(home, letter, mail, series)

(***************************************************************************)
(* Properties                                                              *)
(***************************************************************************)
\* Whatever the order, the copies and the crashes: once every patch of a series
\* was handled to the end, one patchset holds exactly that series and is ready
\* for review.
SeriesIsAssembled ==
  \A series \in Series : series \subseteq done =>
    \E i \in DOMAIN sets : sets[i].parts = series /\ sets[i].status = "Pending"

\* No patchset mixes the patches of two series.
SeriesAreApart ==
  \A i \in DOMAIN sets : \E series \in Series : sets[i].parts \subseteq series

\* A patchset is not reviewed before all its patches are there.
NoEarlyReview ==
  \A i \in DOMAIN sets : sets[i].status = "Pending" => sets[i].parts \in Series

\* When nothing is being handled, received_parts is the number of patches of every
\* patchset, but for one that a crash kept from being counted after its patches
\* changed: the next article that is stored in it counts it again.
PartsAreCounted ==
  worker = Idle =>
    \A i \in DOMAIN sets \ torn : sets[i].received = Cardinality(sets[i].parts)

\* What is being reviewed is not taken apart: patches are neither added to a
\* patchset that became Pending nor taken from it.
ReviewedIsFrozen ==
  [][\A series \in Series :
       (\E i \in DOMAIN sets : sets[i].parts = series /\ sets[i].status = "Pending")
       => (\E i \in DOMAIN sets' : sets'[i].parts = series /\ sets'[i].status = "Pending")]_vars
=============================================================================
