--------------------------- MODULE AssemblyProofs ----------------------------
(***************************************************************************)
(* Theorems about Assembly.  For any mail the types are kept and the parts *)
(* of a patchset are counted, unless a crash keeps them from it; series    *)
(* that are sent apart stay apart; and series that are sent with a cover   *)
(* letter are assembled, whole before they are reviewed and for good, in   *)
(* whatever order their articles come, however often, and between whatever *)
(* statements the daemon dies.                                             *)
(***************************************************************************)
EXTENDS Assembly, FiniteSetTheorems, TLAPS

\* What the worker has in hand has a row and is a patch; a patchset is not made part
\* of itself, and one whose patch is stored is about to be counted, or has been.
WorkerInv ==
  /\ worker.at = "set" => worker.msg \in DOMAIN thread
  /\ worker.at # "idle" => Mail[worker.msg].patch
  /\ worker.at \in {"merge", "drop"} => worker.id \notin worker.from
  /\ worker.at = "count" /\ worker.stored =>
       /\ Mail[worker.msg].diff
       /\ worker.id \notin worker.due => worker.id \notin torn
  /\ worker.at = "patch" => Mail[worker.msg].diff

CountedOr(excused, s) ==
  IsFiniteSet(s.parts) /\ (excused \/ s.received = Cardinality(s.parts))

SetsInv ==
  /\ TypeOK /\ WorkerInv
  /\ IsFiniteSet(DOMAIN sets)
  /\ \A i \in DOMAIN sets : CountedOr(i \in torn \cup Uncounted(worker), sets[i])

-----------------------------------------------------------------------------
\* What an article says.
LEMMA ArticleIs ==
  ASSUME NEW m \in Msgs
  PROVE  /\ Mail[m].re \in Msgs \cup {"none"} /\ Mail[m].author \in STRING
         /\ Mail[m].patch \in BOOLEAN /\ Mail[m].diff \in BOOLEAN
         /\ Mail[m].total \in Nat \ {0} /\ Mail[m].index \in Nat
         /\ CoverOf(m) \in Msgs \cup {"none"} /\ Parent(m) \in Msgs
<1>1. Mail[m] \in Article
  BY MailIsParsed
<1>2. /\ Mail[m].re \in Msgs \cup {"none"} /\ Mail[m].author \in STRING
      /\ Mail[m].patch \in BOOLEAN /\ Mail[m].diff \in BOOLEAN
      /\ Mail[m].total \in Nat \ {0} /\ Mail[m].index \in Nat
  BY <1>1 DEF Article
<1> QED BY <1>2 DEF CoverOf, Parent

\* The last UPDATE of a patchset changes its status only.
LEMMA SettledIs ==
  ASSUME NEW s \in Patchset
  PROVE  /\ Settled(s) \in Patchset
         /\ Settled(s).thread = s.thread /\ Settled(s).cover = s.cover
         /\ Settled(s).head = s.head /\ Settled(s).total = s.total
         /\ Settled(s).received = s.received /\ Settled(s).parts = s.parts
         /\ Settled(s).status = "Pending" <=> s.status = "Pending" \/ s.received >= s.total
BY DEF Settled, Patchset

\* The subject changes only.
LEMMA HeadedIs ==
  ASSUME NEW s \in Patchset, NEW m \in Msgs, NEW leads \in BOOLEAN
  PROVE  /\ Headed(s, m, leads) \in Patchset
         /\ Headed(s, m, leads) = [s EXCEPT !.head = Headed(s, m, leads).head]
         /\ Headed(s, m, leads).head \in {s.head, m}
<1>1. CASE leads
  BY <1>1 DEF Headed, Patchset
<1>2. CASE ~leads
  BY <1>2 DEF Headed, Patchset
<1> QED BY <1>1, <1>2

\* A patchset that is found takes over what an article says of its series.
LEMMA RenamedIs ==
  ASSUME NEW s \in Patchset, NEW m \in Msgs, thread[m] \in Msgs
  PROVE  LET r == Renamed(s, m) IN
         /\ r \in Patchset
         /\ r.thread = thread[m] /\ r.cover = CoverOf(m) /\ r.head \in {s.head, m}
         /\ r.total \in {s.total, Mail[m].total}
         /\ Mail[m].total # 1 => r.total = Mail[m].total
         /\ r.parts = s.parts /\ r.received = s.received /\ r.status = s.status
<1> DEFINE total == IF Mail[m].total = 1 THEN s.total ELSE Mail[m].total
           t == [s EXCEPT !.thread = thread[m], !.author = Mail[m].author,
                          !.total = total, !.cover = CoverOf(m)]
           leads == Leads(m, {s.head})
           h == Headed(t, m, leads)
<1>1. /\ t \in Patchset /\ t.thread = thread[m] /\ t.cover = CoverOf(m) /\ t.head = s.head
      /\ t.total = total /\ t.parts = s.parts /\ t.received = s.received
      /\ t.status = s.status
  BY ArticleIs DEF Patchset
<1>2. leads \in BOOLEAN
  BY DEF Leads
<1> HIDE DEF t, leads
<1>3. h \in Patchset /\ h = [t EXCEPT !.head = h.head] /\ h.head \in {t.head, m}
  BY <1>1, <1>2, HeadedIs
<1>4. Renamed(s, m) = h
  BY DEF Renamed, t, leads
<1> HIDE DEF h
<1>5. /\ h.thread = t.thread /\ h.cover = t.cover /\ h.total = t.total
      /\ h.parts = t.parts /\ h.received = t.received /\ h.status = t.status
  BY <1>1, <1>3 DEF Patchset
<1> QED BY <1>1, <1>3, <1>4, <1>5

LEMMA UpdatedIs ==
  ASSUME NEW s \in Patchset, NEW m \in Msgs, NEW leads \in BOOLEAN
  PROVE  LET r == Updated(s, m, leads) IN
         /\ r \in Patchset
         /\ r.thread = s.thread /\ r.head \in {s.head, m} /\ r.total = Mail[m].total
         /\ r.cover = IF CoverOf(m) = "none" THEN s.cover ELSE CoverOf(m)
         /\ r.parts = s.parts /\ r.received = s.received /\ r.status = s.status
<1> DEFINE t == [s EXCEPT !.author = Mail[m].author, !.total = Mail[m].total,
                          !.cover = IF CoverOf(m) = "none" THEN @ ELSE CoverOf(m)]
           h == Headed(t, m, leads)
<1>1. /\ t \in Patchset /\ t.thread = s.thread /\ t.head = s.head /\ t.total = Mail[m].total
      /\ t.cover = (IF CoverOf(m) = "none" THEN s.cover ELSE CoverOf(m))
      /\ t.parts = s.parts /\ t.received = s.received /\ t.status = s.status
  BY ArticleIs DEF Patchset
<1> HIDE DEF t
<1>2. h \in Patchset /\ h = [t EXCEPT !.head = h.head] /\ h.head \in {t.head, m}
  BY <1>1, HeadedIs
<1>3. Updated(s, m, leads) = h
  BY DEF Updated, t
<1> HIDE DEF h
<1>4. /\ h.thread = t.thread /\ h.cover = t.cover /\ h.total = t.total
      /\ h.parts = t.parts /\ h.received = t.received /\ h.status = t.status
  BY <1>1, <1>2 DEF Patchset
<1> QED BY <1>1, <1>2, <1>3, <1>4

\* A patchset with other parts, and one with another count, are as they were else.
LEMMA PartedIs ==
  ASSUME NEW s \in Patchset, NEW parts \in SUBSET Msgs
  PROVE  LET r == [s EXCEPT !.parts = parts] IN
         /\ r \in Patchset /\ r.parts = parts
         /\ r.thread = s.thread /\ r.cover = s.cover /\ r.head = s.head
         /\ r.total = s.total /\ r.received = s.received /\ r.status = s.status
BY DEF Patchset

LEMMA CountIs ==
  ASSUME NEW s \in Patchset, IsFiniteSet(s.parts)
  PROVE  LET r == [s EXCEPT !.received = Count(s)] IN
         /\ r \in Patchset /\ r.received = Cardinality(s.parts)
         /\ r.thread = s.thread /\ r.cover = s.cover /\ r.head = s.head
         /\ r.total = s.total /\ r.parts = s.parts /\ r.status = s.status
<1>1. Cardinality(s.parts) \in Nat
  BY FS_CardinalityType
<1> QED BY <1>1 DEF Count, Patchset

-----------------------------------------------------------------------------
(***************************************************************************)
(* The types, and the count of the parts                                   *)
(***************************************************************************)
\* What an article does to the threads: those of its parent and of itself become
\* one, and the patchsets follow.
LEMMA ReceiveIs ==
  ASSUME SetsInv, NEW m \in Msgs, Receive(m)
  PROVE  \E new, old \in Msgs :
           /\ \A x \in DOMAIN thread' : x = m \/ x = Parent(m) \/ x \in DOMAIN thread
           /\ {m} \cup DOMAIN thread \subseteq DOMAIN thread'
           /\ thread' \in [DOMAIN thread' -> Msgs]
           /\ new = IF Parent(m) \in DOMAIN thread THEN thread[Parent(m)] ELSE Parent(m)
           /\ old \in {m, new} \/ (m \in DOMAIN thread /\ old = thread[m])
           /\ \A x \in DOMAIN thread' :
                \/ x \in {m, Parent(m)} /\ thread'[x] \in {new, Parent(m)}
                \/ x \in DOMAIN thread /\ thread'[x] \in {thread[x], new}
                                       /\ (thread'[x] # thread[x] => x = m \/ thread[x] = old)
           /\ sets' = [i \in DOMAIN sets |->
                         [sets[i] EXCEPT !.thread = Joined(@, old, new)]]
<1> DEFINE known == Ensured(Parent(m))
           new == known[Parent(m)]
           old == IF m \in DOMAIN known THEN known[m] ELSE new
<1>1. /\ DOMAIN thread \subseteq Msgs /\ thread \in [DOMAIN thread -> Msgs]
      /\ Parent(m) \in Msgs
  BY ArticleIs DEF SetsInv, TypeOK
<1>2. /\ DOMAIN known = DOMAIN thread \cup {Parent(m)}
      /\ known \in [DOMAIN known -> Msgs]
      /\ \A x \in DOMAIN known : known[x] = IF x \in DOMAIN thread THEN thread[x] ELSE Parent(m)
  BY <1>1 DEF Ensured
<1>3. /\ thread' = [x \in DOMAIN known \cup {m} |->
                     IF x = m THEN new ELSE Joined(known[x], old, new)]
      /\ sets' = [i \in DOMAIN sets |-> [sets[i] EXCEPT !.thread = Joined(@, old, new)]]
  BY DEF Receive
<1> HIDE DEF known
<1>4. new \in Msgs /\ old \in Msgs
  BY <1>2
<1>5. /\ new = IF Parent(m) \in DOMAIN thread THEN thread[Parent(m)] ELSE Parent(m)
      /\ old \in {m, new} \/ (m \in DOMAIN thread /\ old = thread[m])
  BY <1>2
<1>6. thread' \in [DOMAIN thread' -> Msgs] /\ DOMAIN thread' = DOMAIN known \cup {m}
  BY <1>2, <1>3, <1>4 DEF Joined
<1>7. ASSUME NEW x \in DOMAIN thread'
      PROVE  \/ x \in {m, Parent(m)} /\ thread'[x] \in {new, Parent(m)}
             \/ x \in DOMAIN thread /\ thread'[x] \in {thread[x], new}
                                    /\ (thread'[x] # thread[x] => x = m \/ thread[x] = old)
  <2> HIDE DEF new, old
  <2>1. CASE x = m
    BY <1>3, <1>6, <2>1
  <2>2. CASE x # m
    <3>1. x \in DOMAIN known /\ thread'[x] = Joined(known[x], old, new)
      BY <1>3, <1>6, <2>2
    <3> QED BY <1>2, <3>1 DEF Joined
  <2> QED BY <2>1, <2>2
<1> HIDE DEF new, old
<1>8. sets' = [i \in DOMAIN sets |-> [sets[i] EXCEPT !.thread = Joined(@, old, new)]]
  BY <1>3
<1>9. /\ \A x \in DOMAIN thread' : x = m \/ x = Parent(m) \/ x \in DOMAIN thread
      /\ {m} \cup DOMAIN thread \subseteq DOMAIN thread'
  BY <1>2, <1>6
<1> USE <1>4
<1> WITNESS new \in Msgs, old \in Msgs
<1> QED BY <1>5, <1>6, <1>7, <1>8, <1>9

\* A patchset that follows its thread changes nothing else.
LEMMA RethreadedIs ==
  ASSUME NEW s \in Patchset, NEW new \in Msgs, NEW old
  PROVE  LET r == [s EXCEPT !.thread = Joined(@, old, new)] IN
         /\ r \in Patchset /\ r.thread \in {s.thread, new}
         /\ (r.thread # s.thread => s.thread = old)
         /\ r.cover = s.cover /\ r.head = s.head /\ r.total = s.total
         /\ r.parts = s.parts /\ r.received = s.received /\ r.status = s.status
BY DEF Joined, Patchset

LEMMA SetsAreTyped ==
  ASSUME SetsInv
  PROVE  /\ DOMAIN thread \subseteq Msgs /\ thread \in [DOMAIN thread -> Msgs]
         /\ DOMAIN sets \subseteq Nat \ {0} /\ sets \in [DOMAIN sets -> Patchset]
         /\ IsFiniteSet(DOMAIN sets)
         /\ \A i \in DOMAIN sets : /\ sets[i] \in Patchset
                                   /\ CountedOr(i \in torn \cup Uncounted(worker), sets[i])
         /\ came \in [Msgs -> Nat] /\ done \subseteq Msgs /\ torn \subseteq DOMAIN sets
         /\ crashes \in 0 .. MaxCrashes
BY DEF SetsInv, TypeOK

\* The worker's record, by the step it is at.
LEMMA WorkerIs ==
  ASSUME SetsInv
  PROVE  /\ worker.at \in {"merge", "drop"} =>
              /\ worker \in [at : {"merge", "drop"}, msg : Msgs, id : DOMAIN sets,
                             from : SUBSET DOMAIN sets, leads : BOOLEAN]
              /\ Mail[worker.msg].patch /\ worker.id \notin worker.from
         /\ worker.at = "count" =>
              /\ worker \in [at : {"count"}, msg : Msgs, id : DOMAIN sets,
                             due : SUBSET DOMAIN sets, stored : BOOLEAN]
              /\ Mail[worker.msg].patch
         /\ worker.at = "patch" =>
              /\ worker \in [at : {"patch"}, msg : Msgs, id : DOMAIN sets]
              /\ Mail[worker.msg].patch /\ Mail[worker.msg].diff
<1>1. worker \in Jobs(DOMAIN sets) /\ WorkerInv
  BY DEF SetsInv, TypeOK
<1> QED BY <1>1 DEF Jobs, Idle, WorkerInv

LEMMA SetIs ==
  ASSUME SetsInv, NEW m \in Msgs, worker = At("set", m)
  PROVE  Mail[m].patch /\ m \in DOMAIN thread /\ thread[m] \in Msgs
BY DEF SetsInv, TypeOK, WorkerInv, At

\* What is at the step of no other job is neither merging nor counting.
LEMMA NothingUncounted ==
  ASSUME NEW w, w.at \in {"idle", "set", "patch"}
  PROVE  Uncounted(w) = {}
BY DEF Uncounted

LEMMA OldestIsOne ==
  ASSUME NEW ids \in SUBSET Nat, NEW i, NEW j, Oldest(i, ids), Oldest(j, ids)
  PROVE  i = j
BY DEF Oldest

\* A patchset that is found or made is handed on for its patch.
LEMMA HandedOn ==
  ASSUME SetsInv, NEW m \in Msgs, Mail[m].patch, NEW i, ThenPatch(m, i), i \in DOMAIN sets'
  PROVE  /\ worker' \in Jobs(DOMAIN sets') /\ WorkerInv' /\ Uncounted(worker') = {}
         /\ done' \subseteq Msgs
<1>1. done \subseteq Msgs
  BY SetsAreTyped
<1>2. CASE Mail[m].diff
  <2>1. PICK w : w = [at |-> "patch", msg |-> m, id |-> i] /\ worker' = w
    BY <1>2 DEF ThenPatch
  <2>2. w.at = "patch" /\ w.msg = m /\ w \in [at : {"patch"}, msg : Msgs, id : DOMAIN sets']
    BY <2>1
  <2>3. WorkerInv'
    BY <1>2, <2>1, <2>2 DEF WorkerInv
  <2>4. Uncounted(w) = {}
    BY <2>2, NothingUncounted
  <2> QED BY <1>1, <1>2, <2>1, <2>2, <2>3, <2>4 DEF ThenPatch, Jobs
<1>3. CASE ~Mail[m].diff
  <2>1. worker' = Idle /\ done' = done \cup {m} /\ Idle.at = "idle"
    BY <1>3 DEF ThenPatch, Idle
  <2>2. WorkerInv' /\ Uncounted(Idle) = {}
    BY <2>1, NothingUncounted DEF WorkerInv
  <2> QED BY <1>1, <2>1, <2>2 DEF Jobs
<1> QED BY <1>2, <1>3

LEMMA NewSetIs ==
  ASSUME SetsInv, NEW m \in Msgs, worker = At("set", m)
  PROVE  /\ thread[m] \in Msgs /\ Fresh(m) \in Patchset /\ CountedOr(FALSE, Fresh(m))
         /\ Fresh(m).thread = thread[m] /\ Fresh(m).cover = CoverOf(m)
         /\ Fresh(m).head = m /\ Fresh(m).total = Mail[m].total
         /\ Fresh(m).parts = {} /\ Fresh(m).received = 0
         /\ Fresh(m).status = "Incomplete"
<1>1. thread[m] \in Msgs
  BY SetIs
<1> QED BY <1>1, ArticleIs, FS_EmptySet DEF Fresh, Patchset, CountedOr

-----------------------------------------------------------------------------
(***************************************************************************)
(* What each statement does to the patchsets                               *)
(***************************************************************************)
LEMMA MovePartsIs ==
  ASSUME SetsInv, NEW m \in Msgs, MoveParts(m)
  PROVE  \E w, j \in DOMAIN sets :
           /\ worker.at = "merge" /\ w = worker.id /\ Oldest(j, worker.from) /\ j # w
           /\ j \in worker.from
           /\ DOMAIN sets' = DOMAIN sets
           /\ sets'[w] = [sets[w] EXCEPT !.parts = sets[w].parts \cup sets[j].parts]
           /\ sets'[j] = [sets[j] EXCEPT !.parts = {}]
           /\ \A i \in DOMAIN sets : i # w /\ i # j => sets'[i] = sets[i]
           /\ worker' = [worker EXCEPT !.at = "drop"]
           /\ UNCHANGED <<thread, came, done, torn, crashes>>
<1>1. /\ worker.id \in DOMAIN sets /\ worker.from \in SUBSET DOMAIN sets
      /\ worker.id \notin worker.from
  BY WorkerIs DEF MoveParts
<1>2. PICK j \in worker.from : /\ Oldest(j, worker.from)
        /\ sets' = [sets EXCEPT ![worker.id].parts = @ \cup sets[j].parts, ![j].parts = {}]
  BY DEF MoveParts
<1>3. j \in DOMAIN sets /\ j # worker.id
  BY <1>1, <1>2
<1>4. /\ DOMAIN sets' = DOMAIN sets
      /\ sets'[worker.id] = [sets[worker.id] EXCEPT !.parts = sets[worker.id].parts \cup sets[j].parts]
      /\ sets'[j] = [sets[j] EXCEPT !.parts = {}]
      /\ \A i \in DOMAIN sets : i # worker.id /\ i # j => sets'[i] = sets[i]
  BY <1>1, <1>2, <1>3
<1> QED BY <1>1, <1>2, <1>3, <1>4 DEF MoveParts

LEMMA InsertPatchIs ==
  ASSUME SetsInv, NEW m \in Msgs, InsertPatch(m)
  PROVE  /\ worker.at = "patch" /\ worker.msg = m /\ worker.id \in DOMAIN sets
         /\ Mail[m].patch /\ Mail[m].diff
         /\ \/ IndexTaken(sets[worker.id], m) /\ UNCHANGED sets /\ worker' = Idle
            \/ /\ sets' = [i \in DOMAIN sets |-> WithPart(sets[i], m, i = worker.id)]
               /\ worker' = Counting(m, worker.id, {worker.id} \cup
                                       {i \in DOMAIN sets : m \in sets[i].parts}, TRUE)
         /\ UNCHANGED <<thread, came, done, torn, crashes>>
BY WorkerIs DEF InsertPatch

LEMMA CountPartsIs ==
  ASSUME SetsInv, NEW m \in Msgs, CountParts(m)
  PROVE  \E i \in DOMAIN sets :
           /\ worker.at = "count" /\ i \in worker.due
           /\ worker.id \in worker.due => i = worker.id
           /\ sets' = [sets EXCEPT ![i] = [sets[i] EXCEPT !.received = Count(sets[i])]]
           /\ torn' = torn \ {i} /\ worker' = [worker EXCEPT !.due = @ \ {i}]
           /\ UNCHANGED <<thread, came, done, crashes>>
<1>1. worker.at = "count" /\ worker.due \subseteq DOMAIN sets
  BY WorkerIs DEF CountParts
<1>2. PICK i \in worker.due :
        /\ worker.id \in worker.due => i = worker.id
        /\ sets' = [sets EXCEPT ![i].received = Count(sets[i])]
        /\ torn' = torn \ {i} /\ worker' = [worker EXCEPT !.due = @ \ {i}]
  BY DEF CountParts
<1>3. i \in DOMAIN sets
  BY <1>1, <1>2
<1> QED BY <1>1, <1>2, <1>3 DEF CountParts

LEMMA SettleIs ==
  ASSUME SetsInv, NEW m \in Msgs, Settle(m)
  PROVE  /\ worker.at = "count" /\ worker.msg = m /\ worker.due = {}
         /\ worker.id \in DOMAIN sets /\ Mail[m].patch
         /\ sets' = [sets EXCEPT ![worker.id] = Settled(sets[worker.id])]
         /\ \/ worker.stored /\ worker' = Idle /\ done' = done \cup {m}
            \/ ~worker.stored /\ ThenPatch(m, worker.id)
         /\ UNCHANGED <<thread, came, torn, crashes>>
<1>1. worker.stored \in BOOLEAN /\ worker.id \in DOMAIN sets /\ Mail[worker.msg].patch
  BY WorkerIs DEF Settle
<1> QED BY <1>1 DEF Settle

\* With the patch of an article put in or taken out.
LEMMA WithPartIs ==
  ASSUME NEW s \in Patchset, IsFiniteSet(s.parts), NEW m \in Msgs, NEW here \in BOOLEAN
  PROVE  LET r == WithPart(s, m, here) IN
         /\ r \in Patchset /\ IsFiniteSet(r.parts)
         /\ r.parts = IF here THEN s.parts \cup {m} ELSE s.parts \ {m}
         /\ r.thread = s.thread /\ r.cover = s.cover /\ r.head = s.head
         /\ r.total = s.total /\ r.received = s.received /\ r.status = s.status
<1> DEFINE parts == IF here THEN s.parts \cup {m} ELSE s.parts \ {m}
<1>1. IsFiniteSet(parts) /\ parts \in SUBSET Msgs
  BY FS_AddElement, FS_RemoveElement DEF Patchset
<1>2. WithPart(s, m, here) = [s EXCEPT !.parts = parts]
  BY DEF WithPart, Patchset
<1> HIDE DEF parts
<1>3. LET r == [s EXCEPT !.parts = parts] IN
      /\ r \in Patchset /\ r.parts = parts
      /\ r.thread = s.thread /\ r.cover = s.cover /\ r.head = s.head
      /\ r.total = s.total /\ r.received = s.received /\ r.status = s.status
  BY <1>1, PartedIs
<1> QED BY <1>1, <1>2, <1>3 DEF parts

LEMMA SetsInit ==
  ASSUME Init
  PROVE  SetsInv
<1>1. /\ DOMAIN thread = {} /\ thread \in [{} -> Msgs]
      /\ DOMAIN sets = {} /\ sets \in [{} -> Patchset]
  BY DEF Init
<1>2. /\ worker = Idle /\ came \in [Msgs -> Nat] /\ done = {} /\ torn = {}
      /\ crashes \in 0 .. MaxCrashes
  BY MailIsParsed DEF Init
<1>3. WorkerInv /\ worker \in Jobs(DOMAIN sets)
  BY <1>2 DEF WorkerInv, Idle, Jobs
<1> QED BY <1>1, <1>2, <1>3, FS_EmptySet DEF SetsInv, TypeOK

\* What is left to show of a step: the patchsets, the worker, the sets cut off.
LEMMA SetsStep ==
  ASSUME DOMAIN thread' \subseteq Msgs, thread' \in [DOMAIN thread' -> Msgs],
         DOMAIN sets' \subseteq Nat \ {0}, sets' \in [DOMAIN sets' -> Patchset],
         IsFiniteSet(DOMAIN sets'), worker' \in Jobs(DOMAIN sets'), WorkerInv',
         came' \in [Msgs -> Nat], done' \subseteq Msgs, torn' \subseteq DOMAIN sets',
         crashes' \in 0 .. MaxCrashes,
         \A i \in DOMAIN sets' : CountedOr(i \in torn' \cup Uncounted(worker'), sets'[i])
  PROVE  SetsInv'
BY DEF SetsInv, TypeOK, CountedOr, Uncounted

LEMMA SetsReceive ==
  ASSUME SetsInv, NEW m \in Msgs, Receive(m)
  PROVE  SetsInv'
<1>0. Uncounted(worker) = {}
  BY NothingUncounted DEF Receive, Idle
<1>1. PICK new, old \in Msgs :
        /\ thread' \in [DOMAIN thread' -> Msgs]
        /\ \A x \in DOMAIN thread' : x = m \/ x = Parent(m) \/ x \in DOMAIN thread
        /\ {m} \cup DOMAIN thread \subseteq DOMAIN thread'
        /\ sets' = [i \in DOMAIN sets |-> [sets[i] EXCEPT !.thread = Joined(@, old, new)]]
  BY ReceiveIs
<1>2. DOMAIN thread' \subseteq Msgs /\ DOMAIN sets' = DOMAIN sets
  BY <1>1, ArticleIs, SetsAreTyped
<1>3. came' \in [Msgs -> Nat] /\ torn' = torn /\ crashes' = crashes
  BY SetsAreTyped DEF Receive
<1>4. ASSUME NEW i \in DOMAIN sets'
      PROVE  sets'[i] \in Patchset /\ CountedOr(i \in torn, sets'[i])
  <2>1. PICK s \in Patchset : s = sets[i] /\ CountedOr(i \in torn, s)
    BY <1>0, <1>2, SetsAreTyped
  <2>2. PICK r : r = [s EXCEPT !.thread = Joined(@, old, new)] /\ sets'[i] = r
    BY <1>1, <1>2, <2>1
  <2>3. r \in Patchset /\ r.parts = s.parts /\ r.received = s.received
    BY <2>2, RethreadedIs
  <2> QED BY <2>1, <2>2, <2>3 DEF CountedOr
<1>5. /\ worker' \in Jobs(DOMAIN sets') /\ WorkerInv' /\ Uncounted(worker') = {}
      /\ done' \subseteq Msgs
  <2>1. CASE Mail[m].patch
    <3>1. PICK w : w = At("set", m) /\ worker' = w /\ done' = done
      BY <2>1 DEF Receive
    <3>2. w.at = "set" /\ w.msg = m /\ w \in [at : {"set"}, msg : Msgs]
      BY <3>1 DEF At
    <3>3. WorkerInv'
      BY <1>1, <2>1, <3>1, <3>2 DEF WorkerInv
    <3> QED BY <3>1, <3>2, <3>3, NothingUncounted, SetsAreTyped DEF Jobs
  <2>2. CASE ~Mail[m].patch
    <3>1. worker' = Idle /\ Idle.at = "idle" /\ done' = done \cup {m}
      BY <2>2 DEF Receive, Idle
    <3> QED BY <3>1, NothingUncounted, SetsAreTyped DEF Jobs, WorkerInv
  <2> QED BY <2>1, <2>2
<1>6. sets' \in [DOMAIN sets' -> Patchset]
  BY <1>1, <1>4
<1> QED BY <1>1, <1>2, <1>3, <1>4, <1>5, <1>6, SetsStep, SetsAreTyped

LEMMA SetsFindByCover ==
  ASSUME SetsInv, NEW m \in Msgs, FindByCover(m)
  PROVE  SetsInv'
<1>1. PICK w \in Named(m) : /\ sets' = [sets EXCEPT ![w] = Renamed(@, m)]
                            /\ worker' = Counting(m, w, {}, FALSE)
  BY DEF FindByCover
<1>2. /\ w \in DOMAIN sets /\ worker = At("set", m) /\ DOMAIN sets' = DOMAIN sets
      /\ UNCHANGED <<thread, came, done, torn, crashes>>
  BY <1>1 DEF FindByCover, Named
<1>3. Uncounted(worker) = {}
  BY <1>2, NothingUncounted DEF At
<1>4. ASSUME NEW i \in DOMAIN sets'
      PROVE  sets'[i] \in Patchset /\ CountedOr(i \in torn, sets'[i])
  <2>1. PICK s \in Patchset : s = sets[i] /\ CountedOr(i \in torn, s)
    BY <1>2, <1>3, SetsAreTyped
  <2>2. /\ Renamed(s, m) \in Patchset /\ Renamed(s, m).parts = s.parts
        /\ Renamed(s, m).received = s.received
    BY <1>2, SetIs, RenamedIs
  <2>3. sets'[i] = IF i = w THEN Renamed(s, m) ELSE s
    BY <1>1, <1>2, <2>1
  <2> QED BY <2>1, <2>2, <2>3 DEF CountedOr
<1>5. PICK v : v = Counting(m, w, {}, FALSE) /\ worker' = v
  BY <1>1
<1>6. /\ v \in [at : {"count"}, msg : Msgs, id : DOMAIN sets', due : SUBSET DOMAIN sets',
                stored : BOOLEAN]
      /\ v.at = "count" /\ v.msg = m /\ v.due = {} /\ ~v.stored
  BY <1>2, <1>5 DEF Counting
<1>7. WorkerInv'
  BY <1>2, <1>5, <1>6, SetIs DEF WorkerInv
<1>8. Uncounted(v) = {} /\ sets' \in [DOMAIN sets' -> Patchset]
  BY <1>1, <1>4, <1>6 DEF Uncounted
<1> QED BY <1>2, <1>4, <1>5, <1>6, <1>7, <1>8, SetsStep, SetsAreTyped DEF Jobs

LEMMA SetsFindByLooks ==
  ASSUME SetsInv, NEW m \in Msgs, FindByLooks(m)
  PROVE  SetsInv'
<1>1. PICK w \in Fitting(m) :
        worker' = Merging("merge", m, w, Fitting(m) \ {w},
                          Leads(m, {sets[j].head : j \in Fitting(m)}))
  BY DEF FindByLooks
<1>2. /\ Fitting(m) \subseteq DOMAIN sets /\ worker = At("set", m)
      /\ UNCHANGED <<thread, sets, came, done, torn, crashes>>
  BY DEF FindByLooks, Fitting
<1>3. Uncounted(worker) = {}
  BY <1>2, NothingUncounted DEF At
<1>4. PICK leads \in BOOLEAN : worker' = Merging("merge", m, w, Fitting(m) \ {w}, leads)
  BY <1>1 DEF Leads
<1> DEFINE v == Merging("merge", m, w, Fitting(m) \ {w}, leads)
<1>5. /\ v \in [at : {"merge", "drop"}, msg : Msgs, id : DOMAIN sets', from : SUBSET DOMAIN sets',
                leads : BOOLEAN]
      /\ v.at = "merge" /\ v.msg = m /\ v.id \notin v.from
  BY <1>1, <1>2, <1>4 DEF Merging
<1>6. WorkerInv'
  BY <1>2, <1>4, <1>5, SetIs DEF WorkerInv
<1>7. \A i \in DOMAIN sets' : CountedOr(i \in torn' \cup Uncounted(worker'), sets'[i])
  BY <1>2, <1>3, SetsAreTyped DEF CountedOr
<1> QED BY <1>2, <1>4, <1>5, <1>6, <1>7, SetsStep, SetsAreTyped DEF Jobs

LEMMA SetsMoveParts ==
  ASSUME SetsInv, NEW m \in Msgs, MoveParts(m)
  PROVE  SetsInv'
<1>1. PICK w, j \in DOMAIN sets :
        /\ worker.at = "merge" /\ w = worker.id /\ Oldest(j, worker.from) /\ j # w
        /\ j \in worker.from
        /\ DOMAIN sets' = DOMAIN sets
        /\ sets'[w] = [sets[w] EXCEPT !.parts = sets[w].parts \cup sets[j].parts]
        /\ sets'[j] = [sets[j] EXCEPT !.parts = {}]
        /\ \A i \in DOMAIN sets : i # w /\ i # j => sets'[i] = sets[i]
        /\ worker' = [worker EXCEPT !.at = "drop"]
        /\ UNCHANGED <<thread, came, done, torn, crashes>>
  BY MovePartsIs
<1>2. PICK v : v = [worker EXCEPT !.at = "drop"] /\ worker' = v
  BY <1>1
<1>3. /\ v \in [at : {"merge", "drop"}, msg : Msgs, id : DOMAIN sets, from : SUBSET DOMAIN sets,
                leads : BOOLEAN]
      /\ v.at = "drop" /\ v.msg = worker.msg /\ v.id = worker.id /\ v.from = worker.from
      /\ Mail[v.msg].patch /\ v.id \notin v.from
  BY <1>1, <1>2, WorkerIs
<1>4. WorkerInv'
  BY <1>1, <1>2, <1>3 DEF WorkerInv
<1>5. Uncounted(worker) = {w} /\ w \in Uncounted(v) /\ j \in Uncounted(v)
  BY <1>1, <1>3 DEF Uncounted
<1>6. \A i \in DOMAIN sets : /\ sets[i] \in Patchset /\ IsFiniteSet(sets[i].parts)
                             /\ i \notin torn \cup {w} => CountedOr(FALSE, sets[i])
  BY <1>5, SetsAreTyped DEF CountedOr
<1>7. ASSUME NEW i \in DOMAIN sets'
      PROVE  sets'[i] \in Patchset /\ CountedOr(i \in torn' \cup Uncounted(v), sets'[i])
  <2>1. PICK s \in Patchset : s = sets[i] /\ IsFiniteSet(s.parts)
    BY <1>1, <1>6
  <2>2. CASE i = w
    <3>1. PICK parts : parts = s.parts \cup sets[j].parts
      OBVIOUS
    <3>2. parts \in SUBSET Msgs /\ IsFiniteSet(parts)
      <4>1. sets[j].parts \subseteq Msgs /\ IsFiniteSet(sets[j].parts)
        BY <1>1, <1>6 DEF Patchset
      <4> QED BY <2>1, <3>1, <4>1, FS_Union DEF Patchset
    <3>3. sets'[i] = [s EXCEPT !.parts = parts]
      BY <1>1, <2>1, <2>2, <3>1
    <3> QED BY <1>5, <2>2, <3>2, <3>3, PartedIs DEF CountedOr
  <2>3. CASE i = j
    <3>1. sets'[i] = [s EXCEPT !.parts = {}]
      BY <1>1, <2>1, <2>3
    <3> QED BY <1>5, <2>3, <3>1, PartedIs, FS_EmptySet DEF CountedOr
  <2>4. CASE i # w /\ i # j
    BY <1>1, <1>6, <2>4 DEF CountedOr
  <2> QED BY <2>2, <2>3, <2>4
<1>8. sets' \in [DOMAIN sets' -> Patchset]
  <2>1. sets' = [i \in DOMAIN sets' |-> sets'[i]]
    BY DEF MoveParts
  <2> QED BY <1>7, <2>1
<1> QED BY <1>1, <1>2, <1>3, <1>4, <1>7, <1>8, SetsStep, SetsAreTyped DEF Jobs

LEMMA SetsDropMerged ==
  ASSUME SetsInv, NEW m \in Msgs, DropMerged(m)
  PROVE  SetsInv'
<1>1. PICK j \in worker.from :
        /\ Oldest(j, worker.from) /\ worker.at = "drop"
        /\ sets' = [i \in DOMAIN sets \ {j} |-> sets[i]]
        /\ torn' = torn \ {j}
        /\ worker' = [worker EXCEPT !.at = "merge", !.from = @ \ {j}]
        /\ UNCHANGED <<thread, came, done, crashes>>
  BY DEF DropMerged
<1>2. /\ worker \in [at : {"merge", "drop"}, msg : Msgs, id : DOMAIN sets,
                     from : SUBSET DOMAIN sets, leads : BOOLEAN]
      /\ Mail[worker.msg].patch /\ worker.id \notin worker.from
  BY <1>1, WorkerIs
<1>3. PICK v : v = [worker EXCEPT !.at = "merge", !.from = @ \ {j}] /\ worker' = v
  BY <1>1
<1>4. DOMAIN sets' = DOMAIN sets \ {j} /\ \A i \in DOMAIN sets' : sets'[i] = sets[i]
  BY <1>1
<1>5. /\ v \in [at : {"merge", "drop"}, msg : Msgs, id : DOMAIN sets', from : SUBSET DOMAIN sets',
                leads : BOOLEAN]
      /\ v.at = "merge" /\ v.msg = worker.msg /\ v.id = worker.id
      /\ v.from = worker.from \ {j}
  BY <1>1, <1>2, <1>3, <1>4
<1>6. WorkerInv'
  BY <1>2, <1>3, <1>5 DEF WorkerInv
<1>7. Uncounted(worker) \subseteq {worker.id, j} /\ Uncounted(v) = {worker.id}
  BY <1>1, <1>2, <1>5, OldestIsOne, SetsAreTyped DEF Uncounted
<1>8. ASSUME NEW i \in DOMAIN sets'
      PROVE  CountedOr(i \in torn' \cup Uncounted(worker'), sets'[i])
  <2>1. CountedOr(i \in torn \cup Uncounted(worker), sets[i])
    BY <1>4, SetsAreTyped
  <2> QED BY <1>1, <1>3, <1>4, <1>7, <2>1 DEF CountedOr
<1>9. IsFiniteSet(DOMAIN sets') /\ sets' \in [DOMAIN sets' -> Patchset]
  BY <1>1, <1>4, SetsAreTyped, FS_Subset
<1> QED BY <1>1, <1>3, <1>4, <1>5, <1>6, <1>8, <1>9, SetsStep, SetsAreTyped DEF Jobs

LEMMA SetsUpdateSet ==
  ASSUME SetsInv, NEW m \in Msgs, UpdateSet(m)
  PROVE  SetsInv'
<1>1. /\ worker.at = "merge" /\ worker.msg = m /\ worker.from = {}
      /\ worker.id \in DOMAIN sets /\ worker.leads \in BOOLEAN /\ Mail[m].patch
      /\ sets' = [sets EXCEPT ![worker.id] = Updated(@, m, worker.leads)]
      /\ worker' = Counting(m, worker.id, {worker.id}, FALSE)
      /\ UNCHANGED <<thread, came, done, torn, crashes>>
  BY WorkerIs DEF UpdateSet
<1>2. PICK v : v = Counting(m, worker.id, {worker.id}, FALSE) /\ worker' = v
  BY <1>1
<1>3. DOMAIN sets' = DOMAIN sets
  BY <1>1
<1>4. /\ v \in [at : {"count"}, msg : Msgs, id : DOMAIN sets', due : SUBSET DOMAIN sets',
                stored : BOOLEAN]
      /\ v.at = "count" /\ v.msg = m /\ v.due = {worker.id} /\ ~v.stored
  BY <1>1, <1>2, <1>3 DEF Counting
<1>5. WorkerInv'
  BY <1>1, <1>2, <1>4 DEF WorkerInv
<1>6. Uncounted(worker) = {worker.id} /\ Uncounted(v) = {worker.id}
  BY <1>1, <1>4 DEF Uncounted
<1>7. ASSUME NEW i \in DOMAIN sets'
      PROVE  sets'[i] \in Patchset /\ CountedOr(i \in torn' \cup Uncounted(worker'), sets'[i])
  <2>1. PICK s \in Patchset : s = sets[i] /\ CountedOr(i \in torn \cup Uncounted(worker), s)
    BY <1>3, SetsAreTyped
  <2>2. /\ Updated(s, m, worker.leads) \in Patchset
        /\ Updated(s, m, worker.leads).parts = s.parts
        /\ Updated(s, m, worker.leads).received = s.received
    BY <1>1, UpdatedIs
  <2>3. sets'[i] = IF i = worker.id THEN Updated(s, m, worker.leads) ELSE s
    BY <1>1, <1>3, <2>1
  <2> QED BY <1>1, <1>2, <1>6, <2>1, <2>2, <2>3 DEF CountedOr
<1> QED BY <1>1, <1>2, <1>3, <1>4, <1>5, <1>7, SetsStep, SetsAreTyped DEF Jobs

LEMMA SetsCreatePatchset ==
  ASSUME SetsInv, NEW m \in Msgs, CreatePatchset(m)
  PROVE  SetsInv'
<1>1. PICK n \in {j + 1 : j \in DOMAIN sets \cup {0}} :
        /\ sets' = [j \in DOMAIN sets \cup {n} |-> IF j = n THEN Fresh(m) ELSE sets[j]]
        /\ ThenPatch(m, n)
  BY DEF CreatePatchset
<1>2. n \in Nat \ {0}
  BY <1>1, SetsAreTyped
<1>3. worker = At("set", m) /\ UNCHANGED <<thread, came, torn, crashes>>
  BY DEF CreatePatchset
<1>4. Uncounted(worker) = {}
  BY <1>3, NothingUncounted DEF At
<1>5. /\ DOMAIN sets' = DOMAIN sets \cup {n}
      /\ \A j \in DOMAIN sets' : sets'[j] = IF j = n THEN Fresh(m) ELSE sets[j]
  BY <1>1
<1>6. \A j \in DOMAIN sets' : sets'[j] \in Patchset /\ CountedOr(j \in torn, sets'[j])
  BY <1>3, <1>4, <1>5, NewSetIs, SetsAreTyped DEF CountedOr
<1>7. /\ worker' \in Jobs(DOMAIN sets') /\ WorkerInv' /\ Uncounted(worker') = {}
      /\ done' \subseteq Msgs
  BY <1>1, <1>3, <1>5, HandedOn, SetIs
<1>8. IsFiniteSet(DOMAIN sets') /\ sets' \in [DOMAIN sets' -> Patchset]
  BY <1>1, <1>5, <1>6, FS_AddElement, SetsAreTyped
<1> QED BY <1>2, <1>3, <1>5, <1>6, <1>7, <1>8, SetsStep, SetsAreTyped

LEMMA SetsInsertPatch ==
  ASSUME SetsInv, NEW m \in Msgs, InsertPatch(m)
  PROVE  SetsInv'
<1>1. /\ worker.at = "patch" /\ worker.id \in DOMAIN sets
      /\ Mail[m].patch /\ Mail[m].diff
      /\ UNCHANGED <<thread, came, done, torn, crashes>>
  BY InsertPatchIs
<1>2. Uncounted(worker) = {}
  BY <1>1, NothingUncounted
<1>3. CASE UNCHANGED sets /\ worker' = Idle
  <2>1. WorkerInv' /\ Idle.at = "idle" /\ Idle \in Jobs(DOMAIN sets)
    BY <1>3 DEF WorkerInv, Idle, Jobs
  <2>2. Uncounted(worker') = {}
    BY <1>3, <2>1, NothingUncounted
  <2> QED BY <1>1, <1>2, <1>3, <2>1, <2>2, SetsStep, SetsAreTyped
<1>4. ASSUME NEW due, due = {worker.id} \cup {i \in DOMAIN sets : m \in sets[i].parts},
             sets' = [i \in DOMAIN sets |-> WithPart(sets[i], m, i = worker.id)],
             worker' = Counting(m, worker.id, due, TRUE)
      PROVE  SetsInv'
  <2>1. PICK v : v = Counting(m, worker.id, due, TRUE) /\ worker' = v
    BY <1>4
  <2>2. DOMAIN sets' = DOMAIN sets /\ due \in SUBSET DOMAIN sets
    BY <1>1, <1>4
  <2>3. /\ v \in [at : {"count"}, msg : Msgs, id : DOMAIN sets', due : SUBSET DOMAIN sets',
                  stored : BOOLEAN]
        /\ v.at = "count" /\ v.msg = m /\ v.id = worker.id /\ v.due = due
    BY <1>1, <2>1, <2>2 DEF Counting
  <2>4. WorkerInv'
    BY <1>1, <1>4, <2>1, <2>3 DEF WorkerInv
  <2>5. ASSUME NEW i \in DOMAIN sets'
        PROVE  sets'[i] \in Patchset /\ CountedOr(i \in torn \cup due, sets'[i])
    <3>1. PICK s \in Patchset : s = sets[i] /\ CountedOr(i \in torn, s)
      BY <1>2, <2>2, SetsAreTyped
    <3>2. PICK here \in BOOLEAN : here <=> i = worker.id
      OBVIOUS
    <3>3. sets'[i] = WithPart(s, m, here)
      BY <1>4, <2>2, <3>1, <3>2
    <3>4. LET r == WithPart(s, m, here) IN
          /\ r \in Patchset /\ IsFiniteSet(r.parts)
          /\ r.parts = (IF here THEN s.parts \cup {m} ELSE s.parts \ {m})
          /\ r.received = s.received
      BY <3>1, WithPartIs DEF CountedOr
    <3>5. i \notin due => s.parts \ {m} = s.parts /\ ~here
      BY <1>4, <2>2, <3>1, <3>2
    <3> QED BY <3>1, <3>3, <3>4, <3>5 DEF CountedOr
  <2>6. Uncounted(v) = due
    BY <2>3 DEF Uncounted
  <2>7. sets' \in [DOMAIN sets' -> Patchset]
    BY <1>4, <2>5
  <2> QED BY <1>1, <2>1, <2>2, <2>3, <2>4, <2>5, <2>6, <2>7, SetsStep, SetsAreTyped DEF Jobs
<1> QED BY <1>3, <1>4, InsertPatchIs

LEMMA SetsCountParts ==
  ASSUME SetsInv, NEW m \in Msgs, CountParts(m)
  PROVE  SetsInv'
<1>1. PICK j \in DOMAIN sets :
           /\ worker.at = "count" /\ j \in worker.due
           /\ worker.id \in worker.due => j = worker.id
           /\ sets' = [sets EXCEPT ![j] = [sets[j] EXCEPT !.received = Count(sets[j])]]
           /\ torn' = torn \ {j} /\ worker' = [worker EXCEPT !.due = @ \ {j}]
           /\ UNCHANGED <<thread, came, done, crashes>>
  BY CountPartsIs
<1>2. /\ worker \in [at : {"count"}, msg : Msgs, id : DOMAIN sets,
                     due : SUBSET DOMAIN sets, stored : BOOLEAN]
      /\ Mail[worker.msg].patch
  BY <1>1, WorkerIs
<1>3. PICK v : v = [worker EXCEPT !.due = @ \ {j}] /\ worker' = v
  BY <1>1
<1>4. /\ v \in [at : {"count"}, msg : Msgs, id : DOMAIN sets,
                due : SUBSET DOMAIN sets, stored : BOOLEAN]
      /\ v.at = "count" /\ v.msg = worker.msg /\ v.id = worker.id
      /\ v.due = worker.due \ {j} /\ v.stored = worker.stored
  BY <1>2, <1>3
<1>5. WorkerInv'
  BY <1>1, <1>2, <1>3, <1>4 DEF WorkerInv, SetsInv
<1>6. Uncounted(worker) = worker.due /\ Uncounted(v) = worker.due \ {j}
  BY <1>1, <1>4 DEF Uncounted
<1>7. DOMAIN sets' = DOMAIN sets
  BY <1>1
<1>8. ASSUME NEW i \in DOMAIN sets'
      PROVE  sets'[i] \in Patchset /\ CountedOr(i \in torn' \cup Uncounted(worker'), sets'[i])
  <2>1. PICK s \in Patchset : s = sets[i] /\ CountedOr(i \in torn \cup worker.due, s)
    BY <1>6, <1>7, SetsAreTyped
  <2>2. CASE i = j
    <3>1. PICK r : r = [s EXCEPT !.received = Count(s)] /\ sets'[i] = r
      BY <1>1, <1>7, <2>1, <2>2
    <3>2. r \in Patchset /\ r.received = Cardinality(s.parts) /\ r.parts = s.parts
      BY <2>1, <3>1, CountIs DEF CountedOr
    <3> QED BY <2>1, <3>1, <3>2 DEF CountedOr
  <2>3. CASE i # j
    BY <1>1, <1>3, <1>6, <1>7, <2>1, <2>3 DEF CountedOr
  <2> QED BY <2>2, <2>3
<1> QED BY <1>1, <1>3, <1>4, <1>5, <1>7, <1>8, SetsStep, SetsAreTyped DEF Jobs

LEMMA SetsSettle ==
  ASSUME SetsInv, NEW m \in Msgs, Settle(m)
  PROVE  SetsInv'
<1>1. /\ worker.at = "count" /\ worker.msg = m /\ worker.due = {}
      /\ worker.id \in DOMAIN sets /\ Mail[m].patch
      /\ sets' = [sets EXCEPT ![worker.id] = Settled(sets[worker.id])]
      /\ \/ worker.stored /\ worker' = Idle /\ done' = done \cup {m}
         \/ ~worker.stored /\ ThenPatch(m, worker.id)
      /\ UNCHANGED <<thread, came, torn, crashes>>
  BY SettleIs
<1>2. Uncounted(worker) = {} /\ DOMAIN sets' = DOMAIN sets
  BY <1>1 DEF Uncounted
<1>3. ASSUME NEW i \in DOMAIN sets'
      PROVE  sets'[i] \in Patchset /\ CountedOr(i \in torn, sets'[i])
  <2>1. PICK s \in Patchset : s = sets[i] /\ CountedOr(i \in torn, s)
    BY <1>2, SetsAreTyped
  <2>2. sets'[i] = IF i = worker.id THEN Settled(s) ELSE s
    BY <1>1, <1>2, <2>1
  <2> QED BY <2>1, <2>2, SettledIs DEF CountedOr
<1>4. /\ worker' \in Jobs(DOMAIN sets') /\ WorkerInv' /\ Uncounted(worker') = {}
      /\ done' \subseteq Msgs
  <2>1. CASE worker' = Idle /\ done' = done \cup {m}
    <3>1. Idle.at = "idle"
      BY DEF Idle
    <3> QED BY <2>1, <3>1, NothingUncounted, SetsAreTyped DEF WorkerInv, Jobs
  <2>2. CASE ThenPatch(m, worker.id)
    BY <1>1, <1>2, <2>2, HandedOn
  <2> QED BY <1>1, <2>1, <2>2
<1>5. sets' \in [DOMAIN sets' -> Patchset]
  BY <1>1, <1>3
<1> QED BY <1>1, <1>2, <1>3, <1>4, <1>5, SetsStep, SetsAreTyped

LEMMA SetsCrash ==
  ASSUME SetsInv, Crash
  PROVE  SetsInv'
<1>1. /\ worker' = Idle /\ torn' = torn \cup Uncounted(worker)
      /\ UNCHANGED <<thread, sets, came, done>> /\ Idle.at = "idle"
  BY DEF Crash, Idle
<1>2. crashes' \in 0 .. MaxCrashes
  BY MailIsParsed, SetsAreTyped DEF Crash
<1>3. WorkerInv' /\ worker' \in Jobs(DOMAIN sets')
  BY <1>1 DEF WorkerInv, Jobs
<1>4. Uncounted(worker) \subseteq DOMAIN sets
  <2>1. CASE worker.at \in {"merge", "drop", "count"}
    BY <2>1, WorkerIs DEF Uncounted
  <2>2. CASE worker.at \notin {"merge", "drop", "count"}
    BY <2>2 DEF Uncounted
  <2> QED BY <2>1, <2>2
<1>5. \A i \in DOMAIN sets' : CountedOr(i \in torn' \cup Uncounted(worker'), sets'[i])
  BY <1>1, SetsAreTyped DEF CountedOr
<1> QED BY <1>1, <1>2, <1>3, <1>4, <1>5, SetsStep, SetsAreTyped

LEMMA SetsNext ==
  ASSUME SetsInv, [Next]_vars
  PROVE  SetsInv'
<1>1. CASE UNCHANGED vars
  BY <1>1 DEF vars, SetsInv, TypeOK, WorkerInv, CountedOr, Uncounted
<1> QED BY <1>1, SetsReceive, SetsFindByCover, SetsFindByLooks, SetsMoveParts, SetsDropMerged,
           SetsUpdateSet, SetsCreatePatchset, SetsInsertPatch, SetsCountParts, SetsSettle,
           SetsCrash DEF Next

\* Every variable keeps its type, for any mail, copies and crashes.
THEOREM AssemblyTypeCorrect == Spec => []TypeOK
<1>1. SetsInv => TypeOK
  BY DEF SetsInv
<1> QED BY <1>1, SetsInit, SetsNext, PTL DEF Spec

\* received_parts is what SELECT COUNT would say, whatever patches come twice,
\* move to another patchset or are merged into one; a crash, wherever it falls, leaves
\* it wrong for what the worker was changing and had not counted, until it is counted.
THEOREM PartsCorrect == Spec => []PartsAreCounted
<1>1. SetsInv => PartsAreCounted
  <2> SUFFICES ASSUME SetsInv, worker = Idle, NEW i \in DOMAIN sets \ torn
               PROVE  sets[i].received = Cardinality(sets[i].parts)
    BY DEF PartsAreCounted
  <2>1. Uncounted(worker) = {}
    BY NothingUncounted DEF Idle
  <2> QED BY <2>1, SetsAreTyped DEF CountedOr
<1> QED BY <1>1, SetsInit, SetsNext, PTL DEF Spec

-----------------------------------------------------------------------------
(***************************************************************************)
(* Series that are sent apart.  A thread, a patchset and what the worker   *)
(* has in hand are all of one series, for replies stay within a series,    *)
(* and what is found by its looks shares its thread or the beginning of    *)
(* its Message-ID, unless it is a patch by itself.                         *)
(***************************************************************************)
OfOne(home, s) ==
  /\ home[s.thread] = home[s.head] /\ s.total > 1
  /\ s.cover # "none" => home[s.cover] = home[s.head]
  /\ \A p \in s.parts : home[p] = home[s.head] /\ Mail[p].patch /\ Mail[p].diff

HomeOfWorker(home) ==
  /\ worker.at \in {"merge", "drop", "count", "patch"} =>
       home[sets[worker.id].head] = home[worker.msg]
  /\ worker.at \in {"merge", "drop"} =>
       \A j \in worker.from : home[sets[j].head] = home[worker.msg]

HomeInv(home) ==
  /\ \A x \in DOMAIN thread : home[thread[x]] = home[x]
  /\ \A i \in DOMAIN sets : OfOne(home, sets[i])
  /\ HomeOfWorker(home)

LEMMA SentIs ==
  ASSUME NEW home \in [Msgs -> Series], KeepsApart(home, Mail), NEW m \in Msgs
  PROVE  /\ home[m] \in Series /\ home[Parent(m)] = home[m]
         /\ CoverOf(m) # "none" => home[CoverOf(m)] = home[m]
         /\ \A p \in Msgs : Mail[m].batch = Mail[p].batch /\ Mail[m].batch # "none"
                              => home[m] = home[p]
         /\ Mail[m].patch => Mail[m].total > 1 /\ (Mail[m].diff => m \in home[m])
<1>1. DOMAIN Mail = Msgs
  BY MailIsParsed
<1> QED BY <1>1 DEF KeepsApart, CoverOf, Parent

\* A patchset that is found for an article is one of its series.
LEMMA FoundIsAtHome ==
  ASSUME NEW home \in [Msgs -> Series], KeepsApart(home, Mail), SetsInv, HomeInv(home),
         NEW m \in Msgs, worker = At("set", m), NEW i \in Named(m) \cup Fitting(m)
  PROVE  i \in DOMAIN sets /\ home[sets[i].head] = home[m]
<1>1. i \in DOMAIN sets
  BY DEF Named, Fitting
<1>2. PICK s \in Patchset : s = sets[i] /\ OfOne(home, s)
  BY <1>1 DEF SetsInv, TypeOK, HomeInv
<1>3. CASE i \in Named(m)
  BY <1>1, <1>2, <1>3, SentIs DEF Named, OfOne
<1>4. CASE Fits(s, m)
  <2>1. m \in DOMAIN thread /\ Mail[m].patch /\ home[thread[m]] = home[m]
    BY SetIs DEF HomeInv
  <2>2. Mail[m].total # 1
    BY <2>1, SentIs, ArticleIs
  <2>3. CASE s.thread = thread[m]
    BY <1>1, <1>2, <2>1, <2>3 DEF OfOne
  <2>4. CASE SentTogether(s, m)
    <3>1. CASE s.cover # "none"
      <4>1. s.cover \in Msgs
        BY <1>2, <3>1 DEF Patchset
      <4> QED BY <1>1, <1>2, <2>4, <3>1, <4>1, SentIs DEF SentTogether, OfOne
    <3>2. CASE s.cover = "none"
      <4>1. PICK p \in s.parts : Mail[p].batch = Mail[m].batch /\ Mail[m].batch # "none"
        BY <2>4, <3>2 DEF SentTogether
      <4>2. p \in Msgs
        BY <1>2, <4>1 DEF Patchset
      <4> QED BY <1>1, <1>2, <4>1, <4>2, SentIs DEF OfOne
    <3> QED BY <3>1, <3>2
  <2> QED BY <1>4, <2>2, <2>3, <2>4 DEF Fits
<1> QED BY <1>1, <1>2, <1>3, <1>4 DEF Fitting

\* A patchset that is handed on keeps the worker at home.
LEMMA HandedHome ==
  ASSUME NEW home, NEW m \in Msgs, NEW i, ThenPatch(m, i), home[sets'[i].head] = home[m]
  PROVE  HomeOfWorker(home)'
<1>1. CASE Mail[m].diff
  <2>1. PICK w : w = [at |-> "patch", msg |-> m, id |-> i] /\ worker' = w
    BY <1>1 DEF ThenPatch
  <2> QED BY <2>1 DEF HomeOfWorker
<1>2. CASE ~Mail[m].diff
  BY <1>2 DEF ThenPatch, Idle, HomeOfWorker
<1> QED BY <1>1, <1>2

LEMMA HomeIs ==
  ASSUME NEW home, SetsInv, HomeInv(home)
  PROVE  /\ \A i \in DOMAIN sets : /\ sets[i] \in Patchset /\ IsFiniteSet(sets[i].parts)
                                   /\ OfOne(home, sets[i])
         /\ DOMAIN thread \subseteq Msgs /\ thread \in [DOMAIN thread -> Msgs]
         /\ \A x \in DOMAIN thread : home[thread[x]] = home[x]
BY DEF SetsInv, TypeOK, HomeInv, CountedOr

LEMMA HomeReceive ==
  ASSUME NEW home \in [Msgs -> Series], KeepsApart(home, Mail), SetsInv, HomeInv(home),
         NEW m \in Msgs, Receive(m)
  PROVE  HomeInv(home)'
<1>1. PICK new, old \in Msgs :
         /\ new = IF Parent(m) \in DOMAIN thread THEN thread[Parent(m)] ELSE Parent(m)
         /\ old \in {m, new} \/ (m \in DOMAIN thread /\ old = thread[m])
         /\ \A x \in DOMAIN thread' :
              \/ x \in {m, Parent(m)} /\ thread'[x] \in {new, Parent(m)}
              \/ x \in DOMAIN thread /\ thread'[x] \in {thread[x], new}
                                     /\ (thread'[x] # thread[x] => x = m \/ thread[x] = old)
         /\ sets' = [i \in DOMAIN sets |->
                       [sets[i] EXCEPT !.thread = Joined(@, old, new)]]
  BY ReceiveIs
<1>2. home[Parent(m)] = home[m] /\ home[new] = home[m] /\ home[old] = home[m]
  BY <1>1, HomeIs, SentIs
<1>3. \A x \in DOMAIN thread' : home[thread'[x]] = home[x]
  BY <1>1, <1>2, HomeIs
<1>4. ASSUME NEW i \in DOMAIN sets' PROVE OfOne(home, sets'[i])
  <2>1. PICK s \in Patchset : s = sets[i] /\ OfOne(home, s)
    BY <1>1, HomeIs
  <2>2. PICK r : r = [s EXCEPT !.thread = Joined(@, old, new)] /\ sets'[i] = r
    BY <1>1, <2>1
  <2>3. /\ r.thread \in {s.thread, new} /\ (r.thread # s.thread => s.thread = old)
        /\ r.cover = s.cover /\ r.head = s.head /\ r.total = s.total /\ r.parts = s.parts
    BY <2>2, RethreadedIs
  <2> QED BY <1>2, <2>1, <2>2, <2>3 DEF OfOne
<1>5. HomeOfWorker(home)'
  BY DEF Receive, At, Idle, HomeOfWorker
<1> QED BY <1>3, <1>4, <1>5 DEF HomeInv

LEMMA HomeFindByCover ==
  ASSUME NEW home \in [Msgs -> Series], KeepsApart(home, Mail), SetsInv, HomeInv(home),
         NEW m \in Msgs, FindByCover(m)
  PROVE  HomeInv(home)'
<1>1. PICK w \in Named(m) : /\ sets' = [sets EXCEPT ![w] = Renamed(@, m)]
                            /\ worker' = Counting(m, w, {}, FALSE)
  BY DEF FindByCover
<1>2. worker = At("set", m) /\ UNCHANGED thread
  BY DEF FindByCover
<1>3. PICK s \in Patchset : /\ w \in DOMAIN sets /\ s = sets[w] /\ OfOne(home, s)
                            /\ home[s.head] = home[m]
  BY <1>2, FoundIsAtHome, HomeIs
<1>4. thread[m] \in Msgs /\ home[thread[m]] = home[m] /\ Mail[m].total > 1
  BY <1>2, SentIs, SetIs, HomeIs
<1>5. PICK r : r = Renamed(s, m)
  OBVIOUS
<1>6. /\ r.thread = thread[m] /\ r.cover = CoverOf(m) /\ r.head \in {s.head, m}
      /\ r.total \in {s.total, Mail[m].total} /\ r.parts = s.parts
  BY <1>4, <1>5, RenamedIs
<1>7. OfOne(home, r) /\ home[r.head] = home[m]
  BY <1>3, <1>4, <1>6, SentIs DEF OfOne
<1>8. /\ DOMAIN sets' = DOMAIN sets /\ sets'[w] = r
      /\ \A j \in DOMAIN sets' : j # w => sets'[j] = sets[j]
  BY <1>1, <1>3, <1>5
<1>9. PICK v : v = Counting(m, w, {}, FALSE) /\ worker' = v
  BY <1>1
<1>10. v.at = "count" /\ v.id = w /\ v.msg = m
  BY <1>9 DEF Counting
<1>11. HomeOfWorker(home)'
  BY <1>7, <1>8, <1>9, <1>10 DEF HomeOfWorker
<1>12. \A i \in DOMAIN sets' : OfOne(home, sets'[i])
  BY <1>7, <1>8, HomeIs
<1>13. \A x \in DOMAIN thread' : home[thread'[x]] = home[x]
  BY <1>2, HomeIs
<1> QED BY <1>11, <1>12, <1>13 DEF HomeInv

LEMMA HomeFindByLooks ==
  ASSUME NEW home \in [Msgs -> Series], KeepsApart(home, Mail), SetsInv, HomeInv(home),
         NEW m \in Msgs, FindByLooks(m)
  PROVE  HomeInv(home)'
<1>1. PICK w \in Fitting(m), leads \in BOOLEAN :
        worker' = Merging("merge", m, w, Fitting(m) \ {w}, leads)
  BY DEF FindByLooks, Leads
<1>2. worker = At("set", m) /\ UNCHANGED <<thread, sets>>
  BY DEF FindByLooks
<1>3. \A j \in Fitting(m) : home[sets[j].head] = home[m]
  BY <1>2, FoundIsAtHome
<1>4. PICK v : v = Merging("merge", m, w, Fitting(m) \ {w}, leads) /\ worker' = v
  BY <1>1
<1>5. v.msg = m /\ v.id = w /\ v.from = Fitting(m) \ {w}
  BY <1>4 DEF Merging
<1>6. HomeOfWorker(home)'
  BY <1>1, <1>2, <1>3, <1>4, <1>5 DEF HomeOfWorker
<1>7. /\ \A x \in DOMAIN thread' : home[thread'[x]] = home[x]
      /\ \A i \in DOMAIN sets' : OfOne(home, sets'[i])
  BY <1>2, HomeIs
<1> QED BY <1>6, <1>7 DEF HomeInv

\* The worker goes on with what it had in hand, and no patchset changes its head.
LEMMA HomeGoesOn ==
  ASSUME NEW home, HomeOfWorker(home),
         worker.at \in {"merge", "drop", "count", "patch"},
         worker'.msg = worker.msg, worker'.id = worker.id, worker.id \in DOMAIN sets',
         worker'.at \in {"merge", "drop"} =>
           /\ worker.at \in {"merge", "drop"} /\ worker'.from \subseteq worker.from
           /\ worker'.from \subseteq DOMAIN sets',
         \A i \in DOMAIN sets' : sets'[i].head = sets[i].head
  PROVE  HomeOfWorker(home)'
BY DEF HomeOfWorker

LEMMA HomeMoveParts ==
  ASSUME NEW home \in [Msgs -> Series], KeepsApart(home, Mail), SetsInv, HomeInv(home),
         NEW m \in Msgs, MoveParts(m)
  PROVE  HomeInv(home)'
<1>1. PICK w, j \in DOMAIN sets :
        /\ worker.at = "merge" /\ w = worker.id /\ j \in worker.from /\ j # w
        /\ DOMAIN sets' = DOMAIN sets
        /\ sets'[w] = [sets[w] EXCEPT !.parts = sets[w].parts \cup sets[j].parts]
        /\ sets'[j] = [sets[j] EXCEPT !.parts = {}]
        /\ \A i \in DOMAIN sets : i # w /\ i # j => sets'[i] = sets[i]
        /\ worker' = [worker EXCEPT !.at = "drop"]
        /\ UNCHANGED thread
  BY MovePartsIs
<1>2. /\ worker \in [at : {"merge", "drop"}, msg : Msgs, id : DOMAIN sets,
                     from : SUBSET DOMAIN sets, leads : BOOLEAN]
      /\ home[sets[w].head] = home[sets[j].head]
  BY <1>1, WorkerIs DEF HomeInv, HomeOfWorker
<1>3. ASSUME NEW i \in DOMAIN sets'
      PROVE  OfOne(home, sets'[i]) /\ sets'[i].head = sets[i].head
  <2>1. PICK s \in Patchset : s = sets[i] /\ OfOne(home, s)
    BY <1>1, HomeIs
  <2>2. CASE i = w
    <3>1. PICK parts : parts = s.parts \cup sets[j].parts
      OBVIOUS
    <3>2. /\ \A p \in sets[j].parts : home[p] = home[s.head] /\ Mail[p].patch /\ Mail[p].diff
          /\ sets[j].parts \subseteq Msgs
      BY <1>1, <1>2, <2>1, <2>2, HomeIs DEF OfOne, Patchset
    <3>3. parts \in SUBSET Msgs
      BY <2>1, <3>1, <3>2 DEF Patchset
    <3>4. PICK r : r = [s EXCEPT !.parts = parts] /\ sets'[i] = r
      BY <1>1, <2>1, <2>2, <3>1
    <3>5. /\ r.parts = parts /\ r.thread = s.thread /\ r.cover = s.cover /\ r.head = s.head
          /\ r.total = s.total
      BY <3>3, <3>4, PartedIs
    <3> QED BY <2>1, <3>1, <3>2, <3>4, <3>5 DEF OfOne
  <2>3. CASE i = j
    <3>1. PICK r : r = [s EXCEPT !.parts = {}] /\ sets'[i] = r
      BY <1>1, <2>1, <2>3
    <3>2. /\ r.parts = {} /\ r.thread = s.thread /\ r.cover = s.cover /\ r.head = s.head
          /\ r.total = s.total
      BY <3>1, PartedIs
    <3> QED BY <2>1, <3>1, <3>2 DEF OfOne
  <2>4. CASE i # w /\ i # j
    BY <1>1, <2>1, <2>4
  <2> QED BY <2>2, <2>3, <2>4
<1>4. HomeOfWorker(home)'
  BY <1>1, <1>2, <1>3, HomeGoesOn DEF HomeInv
<1> QED BY <1>1, <1>3, <1>4, HomeIs DEF HomeInv

LEMMA HomeDropMerged ==
  ASSUME NEW home, SetsInv, HomeInv(home), NEW m \in Msgs, DropMerged(m)
  PROVE  HomeInv(home)'
<1>1. PICK j \in worker.from :
        /\ worker.at = "drop" /\ sets' = [i \in DOMAIN sets \ {j} |-> sets[i]]
        /\ worker' = [worker EXCEPT !.at = "merge", !.from = @ \ {j}]
        /\ UNCHANGED thread
  BY DEF DropMerged
<1>2. /\ worker \in [at : {"merge", "drop"}, msg : Msgs, id : DOMAIN sets,
                     from : SUBSET DOMAIN sets, leads : BOOLEAN]
      /\ worker.id \notin worker.from
  BY <1>1, WorkerIs
<1>3. DOMAIN sets' = DOMAIN sets \ {j} /\ \A i \in DOMAIN sets' : sets'[i] = sets[i]
  BY <1>1
<1>4. HomeOfWorker(home)'
  BY <1>1, <1>2, <1>3, HomeGoesOn DEF HomeInv
<1> QED BY <1>1, <1>3, <1>4, HomeIs DEF HomeInv

LEMMA HomeUpdateSet ==
  ASSUME NEW home \in [Msgs -> Series], KeepsApart(home, Mail), SetsInv, HomeInv(home),
         NEW m \in Msgs, UpdateSet(m)
  PROVE  HomeInv(home)'
<1>1. /\ worker.at = "merge" /\ worker.msg = m
      /\ worker.id \in DOMAIN sets /\ worker.leads \in BOOLEAN /\ Mail[m].patch
      /\ sets' = [sets EXCEPT ![worker.id] = Updated(@, m, worker.leads)]
      /\ worker' = Counting(m, worker.id, {worker.id}, FALSE)
      /\ UNCHANGED thread
  BY WorkerIs DEF UpdateSet
<1>2. PICK w, leads : leads \in BOOLEAN /\ w = worker.id /\ leads = worker.leads /\ w \in DOMAIN sets
  BY <1>1
<1>3. PICK s \in Patchset : s = sets[w] /\ OfOne(home, s) /\ home[s.head] = home[m]
  BY <1>1, <1>2, HomeIs DEF HomeInv, HomeOfWorker
<1>4. PICK r : r = Updated(s, m, leads)
  OBVIOUS
<1>5. /\ r.thread = s.thread /\ r.head \in {s.head, m} /\ r.total = Mail[m].total
      /\ r.cover = (IF CoverOf(m) = "none" THEN s.cover ELSE CoverOf(m))
      /\ r.parts = s.parts
  BY <1>2, <1>4, UpdatedIs
<1>6. OfOne(home, r) /\ home[r.head] = home[m]
  BY <1>1, <1>3, <1>5, SentIs DEF OfOne
<1>7. /\ DOMAIN sets' = DOMAIN sets /\ sets'[w] = r
      /\ \A j \in DOMAIN sets' : j # w => sets'[j] = sets[j]
  BY <1>1, <1>2, <1>3, <1>4
<1>8. PICK v : v = Counting(m, w, {w}, FALSE) /\ worker' = v
  BY <1>1, <1>2
<1>9. v.at = "count" /\ v.id = w /\ v.msg = m
  BY <1>8 DEF Counting
<1>10. HomeOfWorker(home)'
  BY <1>6, <1>7, <1>8, <1>9 DEF HomeOfWorker
<1>11. \A i \in DOMAIN sets' : OfOne(home, sets'[i])
  BY <1>6, <1>7, HomeIs
<1>12. \A x \in DOMAIN thread' : home[thread'[x]] = home[x]
  BY <1>1, HomeIs
<1> QED BY <1>10, <1>11, <1>12 DEF HomeInv

LEMMA HomeCreatePatchset ==
  ASSUME NEW home \in [Msgs -> Series], KeepsApart(home, Mail), SetsInv, HomeInv(home),
         NEW m \in Msgs, CreatePatchset(m)
  PROVE  HomeInv(home)'
<1>1. PICK i : /\ sets' = [j \in DOMAIN sets \cup {i} |-> IF j = i THEN Fresh(m) ELSE sets[j]]
               /\ ThenPatch(m, i)
  BY DEF CreatePatchset
<1>2. worker = At("set", m) /\ UNCHANGED thread
  BY DEF CreatePatchset
<1>3. PICK r : r = Fresh(m)
  OBVIOUS
<1>4. /\ r.thread = thread[m] /\ r.cover = CoverOf(m) /\ r.head = m
      /\ r.total = Mail[m].total /\ r.parts = {}
  BY <1>2, <1>3, NewSetIs
<1>5. home[thread[m]] = home[m] /\ Mail[m].total > 1
  BY <1>2, SentIs, SetIs, HomeIs
<1>6. OfOne(home, r)
  BY <1>4, <1>5, SentIs DEF OfOne
<1>7. /\ \A j \in DOMAIN sets' : j = i \/ (j \in DOMAIN sets /\ sets'[j] = sets[j])
      /\ sets'[i] = r
  BY <1>1, <1>3
<1>8. HomeOfWorker(home)'
  BY <1>1, <1>4, <1>7, HandedHome
<1>9. \A j \in DOMAIN sets' : OfOne(home, sets'[j])
  BY <1>6, <1>7, HomeIs
<1>10. \A x \in DOMAIN thread' : home[thread'[x]] = home[x]
  BY <1>2, HomeIs
<1> QED BY <1>8, <1>9, <1>10 DEF HomeInv

LEMMA HomeInsertPatch ==
  ASSUME NEW home, SetsInv, HomeInv(home), NEW m \in Msgs, InsertPatch(m)
  PROVE  HomeInv(home)'
<1>1. /\ worker.at = "patch" /\ worker.msg = m /\ worker.id \in DOMAIN sets
      /\ Mail[m].patch /\ Mail[m].diff /\ UNCHANGED thread
      /\ home[sets[worker.id].head] = home[m]
  BY InsertPatchIs DEF HomeInv, HomeOfWorker
<1>2. CASE UNCHANGED sets /\ worker' = Idle
  <2>1. HomeOfWorker(home)'
    BY <1>2 DEF HomeOfWorker, Idle
  <2> QED BY <1>1, <1>2, <2>1, HomeIs DEF HomeInv
<1>3. ASSUME NEW due,
             sets' = [i \in DOMAIN sets |-> WithPart(sets[i], m, i = worker.id)],
             worker' = Counting(m, worker.id, due, TRUE)
      PROVE  HomeInv(home)'
  <2>1. ASSUME NEW i \in DOMAIN sets'
        PROVE  OfOne(home, sets'[i]) /\ sets'[i].head = sets[i].head
    <3>1. PICK s \in Patchset : s = sets[i] /\ IsFiniteSet(s.parts) /\ OfOne(home, s)
      BY <1>3, HomeIs
    <3>2. PICK here \in BOOLEAN : here = (i = worker.id)
      OBVIOUS
    <3>3. PICK r : r = WithPart(s, m, here)
      OBVIOUS
    <3>4. sets'[i] = r
      <4>1. i \in DOMAIN sets /\ sets'[i] = WithPart(sets[i], m, i = worker.id)
        BY <1>3
      <4> QED BY <3>1, <3>2, <3>3, <4>1
    <3>5. IsFiniteSet(s.parts)
      BY <3>1
    <3>6. /\ r.parts = (IF here THEN s.parts \cup {m} ELSE s.parts \ {m})
          /\ r.thread = s.thread /\ r.cover = s.cover /\ r.head = s.head
          /\ r.total = s.total
      <4>1. LET t == WithPart(s, m, here) IN
            /\ t \in Patchset /\ IsFiniteSet(t.parts)
            /\ t.parts = IF here THEN s.parts \cup {m} ELSE s.parts \ {m}
            /\ t.thread = s.thread /\ t.cover = s.cover /\ t.head = s.head
            /\ t.total = s.total /\ t.received = s.received /\ t.status = s.status
        BY <3>5, WithPartIs
      <4> QED BY <3>3, <4>1
    <3>7. here => home[s.head] = home[m]
      BY <1>1, <3>1, <3>2
    <3>8. CASE here
      BY <1>1, <3>1, <3>4, <3>6, <3>7, <3>8 DEF OfOne
    <3>9. CASE ~here
      BY <3>1, <3>4, <3>6, <3>9 DEF OfOne
    <3> QED BY <3>8, <3>9
  <2>2. PICK v, w : w = worker.id /\ v = Counting(m, w, due, TRUE) /\ worker' = v
    BY <1>3
  <2>3. v.at = "count" /\ v.id = w /\ v.msg = m
    BY <2>2 DEF Counting
  <2>4. w \in DOMAIN sets' /\ home[sets'[w].head] = home[m]
    BY <1>1, <1>3, <2>1, <2>2
  <2>5. HomeOfWorker(home)'
    BY <2>2, <2>3, <2>4 DEF HomeOfWorker
  <2> QED BY <1>1, <2>1, <2>5, HomeIs DEF HomeInv
<1> QED BY <1>2, <1>3, InsertPatchIs

LEMMA HomeCountParts ==
  ASSUME NEW home, SetsInv, HomeInv(home), NEW m \in Msgs, CountParts(m)
  PROVE  HomeInv(home)'
<1>1. PICK j \in DOMAIN sets :
           /\ worker.at = "count"
           /\ sets' = [sets EXCEPT ![j] = [sets[j] EXCEPT !.received = Count(sets[j])]]
           /\ worker' = [worker EXCEPT !.due = @ \ {j}]
           /\ UNCHANGED thread
  BY CountPartsIs
<1>2. worker \in [at : {"count"}, msg : Msgs, id : DOMAIN sets,
                  due : SUBSET DOMAIN sets, stored : BOOLEAN]
  BY <1>1, WorkerIs
<1>3. ASSUME NEW i \in DOMAIN sets'
      PROVE  OfOne(home, sets'[i]) /\ sets'[i].head = sets[i].head
  <2>1. PICK s \in Patchset : s = sets[i] /\ IsFiniteSet(s.parts) /\ OfOne(home, s)
    BY <1>1, HomeIs
  <2>2. CASE i = j
    <3>1. PICK r : r = [s EXCEPT !.received = Count(s)] /\ sets'[i] = r
      BY <1>1, <2>1, <2>2
    <3>2. /\ r.parts = s.parts /\ r.thread = s.thread /\ r.cover = s.cover
          /\ r.head = s.head /\ r.total = s.total
      BY <2>1, <3>1, CountIs
    <3> QED BY <2>1, <3>1, <3>2 DEF OfOne
  <2>3. CASE i # j
    BY <1>1, <2>1, <2>3
  <2> QED BY <2>2, <2>3
<1>4. HomeOfWorker(home)'
  BY <1>1, <1>2, <1>3, HomeGoesOn DEF HomeInv
<1> QED BY <1>1, <1>3, <1>4, HomeIs DEF HomeInv

LEMMA HomeSettle ==
  ASSUME NEW home, SetsInv, HomeInv(home), NEW m \in Msgs, Settle(m)
  PROVE  HomeInv(home)'
<1>1. /\ worker.at = "count" /\ worker.msg = m /\ worker.id \in DOMAIN sets
      /\ sets' = [sets EXCEPT ![worker.id] = Settled(sets[worker.id])]
      /\ (worker' = Idle \/ ThenPatch(m, worker.id)) /\ UNCHANGED thread
  BY SettleIs
<1>2. ASSUME NEW i \in DOMAIN sets'
      PROVE  OfOne(home, sets'[i]) /\ sets'[i].head = sets[i].head
  <2>1. PICK s \in Patchset : s = sets[i] /\ OfOne(home, s)
    BY <1>1, HomeIs
  <2>2. sets'[i] = IF i = worker.id THEN Settled(s) ELSE s
    BY <1>1, <2>1
  <2> QED BY <2>1, <2>2, SettledIs DEF OfOne
<1>3. CASE worker' = Idle
  <2>1. HomeOfWorker(home)'
    BY <1>3 DEF HomeOfWorker, Idle
  <2> QED BY <1>1, <1>2, <2>1, HomeIs DEF HomeInv
<1>4. CASE ThenPatch(m, worker.id)
  <2>1. home[sets'[worker.id].head] = home[m]
    BY <1>1, <1>2 DEF HomeInv, HomeOfWorker
  <2>2. PICK w : w = worker.id /\ ThenPatch(m, w) /\ home[sets'[w].head] = home[m]
    BY <1>4, <2>1
  <2>3. HomeOfWorker(home)'
    BY <2>2, HandedHome
  <2> QED BY <1>1, <1>2, <2>3, HomeIs DEF HomeInv
<1> QED BY <1>1, <1>3, <1>4

LEMMA HomeNext ==
  ASSUME NEW home \in [Msgs -> Series], KeepsApart(home, Mail), SetsInv, HomeInv(home),
         [Next]_vars
  PROVE  HomeInv(home)'
<1>1. CASE Crash
  BY <1>1 DEF Crash, HomeInv, HomeOfWorker, Idle, OfOne
<1>2. CASE UNCHANGED vars
  BY <1>2 DEF vars, HomeInv, HomeOfWorker, OfOne
<1> QED BY <1>1, <1>2, HomeReceive, HomeFindByCover, HomeFindByLooks, HomeMoveParts,
           HomeDropMerged, HomeUpdateSet, HomeCreatePatchset, HomeInsertPatch,
           HomeCountParts, HomeSettle DEF Next

LEMMA HomeInit ==
  ASSUME NEW home, Init
  PROVE  HomeInv(home)
BY DEF Init, HomeInv, HomeOfWorker, Idle

\* However the articles of a mailing list come, no patchset mixes the patches of
\* two series that were sent apart: in threads of their own, with Message-IDs
\* that begin differently, and none of them a single patch.
THEOREM ApartCorrect == ASSUME SentApart(Mail, Series) PROVE Spec => []SeriesAreApart
<1>1. PICK home \in [Msgs -> Series] : KeepsApart(home, Mail)
  BY MailIsParsed DEF SentApart
<1>2. SetsInv /\ HomeInv(home) => SeriesAreApart
  <2> SUFFICES ASSUME SetsInv, HomeInv(home), NEW i \in DOMAIN sets
               PROVE  \E series \in Series : sets[i].parts \subseteq series
    BY DEF SeriesAreApart
  <2>1. PICK s \in Patchset : s = sets[i] /\ OfOne(home, s)
    BY HomeIs
  <2>2. \A p \in s.parts : p \in home[s.head]
    BY <1>1, <2>1, SentIs DEF OfOne, Patchset
  <2>3. home[s.head] \in Series
    BY <2>1 DEF Patchset
  <2> QED BY <2>1, <2>2, <2>3
<1>3. SetsInv /\ HomeInv(home) /\ [Next]_vars => (SetsInv /\ HomeInv(home))'
  BY <1>1, SetsNext, HomeNext
<1>4. Init => SetsInv /\ HomeInv(home)
  BY SetsInit, HomeInit
<1> QED BY <1>2, <1>3, <1>4, PTL DEF Spec

-----------------------------------------------------------------------------
(***************************************************************************)
(* Series that are sent with a cover letter.  Every article of such a      *)
(* series names the letter, so that it has one patchset, from the article  *)
(* that came first on, which grows until it is the series.  Nothing is     *)
(* found by its looks, so that a crash may leave a count short and never   *)
(* too high; and the last article that is handled to the end counts all.   *)
(***************************************************************************)
WholeOf(home, letter, s) ==
  /\ s.cover = letter[home[s.head]] /\ Mail[s.head].patch
  /\ s.total = Cardinality(home[s.head])
  /\ s.received <= Cardinality(s.parts)
  /\ s.status = "Pending" => s.parts = home[s.head]

LetterInv(home, letter) ==
  /\ \A i \in DOMAIN sets : WholeOf(home, letter, sets[i])
  /\ \A i \in DOMAIN sets : home[sets[i].head] \subseteq done => sets[i].status = "Pending"
  /\ \A i, j \in DOMAIN sets : home[sets[i].head] = home[sets[j].head] => i = j
  /\ \A m \in done : Mail[m].patch /\ Mail[m].diff =>
       \E i \in DOMAIN sets : m \in sets[i].parts
  /\ worker.at \notin {"merge", "drop"}
  /\ worker.at = "count" /\ worker.stored => worker.msg \in sets[worker.id].parts

Sent(home, letter) ==
  /\ home \in [Msgs -> Series] /\ letter \in [Series -> Msgs]
  /\ KeepsApart(home, Mail) /\ Threaded(home, letter, Mail, Series)

LEMMA ThreadedIs ==
  ASSUME NEW home, NEW letter, Sent(home, letter), NEW m \in Msgs, Mail[m].patch
  PROVE  /\ CoverOf(m) = letter[home[m]] /\ CoverOf(m) # "none"
         /\ Mail[m].total = Cardinality(home[m]) /\ IsFiniteSet(home[m])
         /\ \A p \in Msgs : Mail[p].patch /\ home[p] = home[m] =>
              /\ Mail[p].version = Mail[m].version
              /\ Mail[p].index = Mail[m].index => p = m
<1>1. DOMAIN Mail = Msgs /\ home[m] \in Series /\ letter[home[m]] \in Msgs
  BY MailIsParsed DEF Sent
<1>2. Mail[m].total > 1 /\ Mail[m].total # 1
  BY SentIs, ArticleIs DEF Sent
<1>3. letter[home[m]] = IF Mail[m].index = 0 THEN m ELSE Mail[m].re
  BY <1>1 DEF Sent, Threaded
<1>4. CoverOf(m) = letter[home[m]]
  BY <1>2, <1>3 DEF CoverOf
<1>5. Mail[m].total = Cardinality(home[m]) /\ IsFiniteSet(home[m])
  BY <1>1 DEF Sent, Threaded
<1>6. ASSUME NEW p \in Msgs, Mail[p].patch, home[p] = home[m]
      PROVE  Mail[p].version = Mail[m].version /\ (Mail[p].index = Mail[m].index => p = m)
  BY <1>1, <1>6 DEF Sent, Threaded
<1> QED BY <1>1, <1>4, <1>5, <1>6, MailIsParsed

\* The patches of a series are sent for it, and there is one.
LEMMA SeriesIs ==
  ASSUME NEW home, NEW letter, Sent(home, letter), NEW S \in Series
  PROVE  /\ S # {} /\ S \subseteq Msgs
         /\ \A p \in S : Mail[p].patch /\ Mail[p].diff /\ home[p] = S
BY MailIsParsed DEF Sent, Threaded

\* A patchset has nothing but patches of its series, so it is full when it has all,
\* and no count can say more than that.
LEMMA FullIs ==
  ASSUME NEW home, NEW letter, Sent(home, letter), NEW s \in Patchset, IsFiniteSet(s.parts),
         OfOne(home, s), Mail[s.head].patch, s.total = Cardinality(home[s.head])
  PROVE  /\ s.parts \subseteq home[s.head]
         /\ s.received <= Cardinality(s.parts) /\ s.received >= s.total
              => s.parts = home[s.head]
         /\ s.received = Cardinality(s.parts) /\ s.parts = home[s.head]
              => s.received >= s.total
<1>1. s.head \in Msgs /\ s.parts \subseteq Msgs /\ s.received \in Nat
  BY DEF Patchset
<1>2. IsFiniteSet(home[s.head])
  BY <1>1, ThreadedIs
<1>3. \A p \in s.parts : p \in home[s.head]
  BY <1>1, SentIs DEF OfOne, Sent
<1>4. /\ Cardinality(s.parts) <= Cardinality(home[s.head])
      /\ Cardinality(s.parts) = Cardinality(home[s.head]) => s.parts = home[s.head]
  BY <1>2, <1>3, FS_Subset
<1>5. Cardinality(s.parts) \in Nat /\ Cardinality(home[s.head]) \in Nat
  BY <1>2, <1>3, FS_Subset, FS_CardinalityType
<1> QED BY <1>1, <1>3, <1>4, <1>5

\* The patchset of its series is found by the cover letter, whatever is in it.
LEMMA AtHomeIsNamed ==
  ASSUME NEW home, NEW letter, Sent(home, letter), SetsInv, HomeInv(home),
         LetterInv(home, letter), NEW m \in Msgs, Mail[m].patch,
         NEW i \in DOMAIN sets, home[sets[i].head] = home[m]
  PROVE  ~IndexTaken(sets[i], m) /\ i \in Named(m)
<1>1. PICK s \in Patchset : s = sets[i] /\ OfOne(home, s) /\ WholeOf(home, letter, s)
  BY HomeIs DEF LetterInv
<1>2. s.head \in Msgs /\ s.parts \subseteq Msgs
  BY DEF Patchset
<1>3. s.cover = CoverOf(m) /\ CoverOf(m) # "none"
  BY <1>1, ThreadedIs DEF WholeOf
<1>4. Mail[s.head].version = Mail[m].version
  BY <1>1, <1>2, ThreadedIs DEF WholeOf
<1>5. ASSUME NEW p \in s.parts, p # m PROVE Mail[p].index # Mail[m].index
  BY <1>1, <1>2, <1>5, ThreadedIs DEF OfOne
<1> QED BY <1>1, <1>3, <1>4, <1>5 DEF Named, IndexTaken, SameVersion

\* What a step may do to a patchset: it grows, stays Pending, and becomes so only when
\* it counts as full.
GrowsTo(home, s, r) ==
  /\ home[r.head] = home[s.head] /\ Mail[r.head].patch /\ s.parts \subseteq r.parts
  /\ r.cover = s.cover /\ r.total = s.total
  /\ r.received <= Cardinality(r.parts)
  /\ s.status = "Pending" => r.status = "Pending"
  /\ r.status = "Pending" => s.status = "Pending" \/ r.received >= r.total

Grows(home) ==
  /\ DOMAIN sets \subseteq DOMAIN sets'
  /\ \A i \in DOMAIN sets : GrowsTo(home, sets[i], sets'[i])

\* A patchset that a step makes is that of the article in hand, and has no other.
Begins(home) ==
  \A i \in DOMAIN sets' \ DOMAIN sets : \E m \in Msgs :
    /\ worker = At("set", m) /\ Mail[m].patch /\ sets'[i] = Fresh(m)
    /\ DOMAIN sets' = DOMAIN sets \cup {i}
    /\ \A j \in DOMAIN sets : home[sets[j].head] # home[m]

\* The patch whose article a step brings to its end is stored, counted and settled.
Ends(s) == /\ s.received = Cardinality(s.parts)
           /\ s.received >= s.total => s.status = "Pending"

Stores ==
  \A m \in done' : \/ m \in done \/ ~Mail[m].patch \/ ~Mail[m].diff
                   \/ \E i \in DOMAIN sets : m \in sets'[i].parts /\ Ends(sets'[i])

\* What the worker does next.
GoesOn ==
  /\ worker'.at \notin {"merge", "drop"}
  /\ worker'.at = "count" /\ worker'.stored => worker'.msg \in sets'[worker'.id].parts

LetterStep(home) == Grows(home) /\ Begins(home) /\ Stores /\ GoesOn

LEMMA SetsAre ==
  ASSUME NEW home, NEW letter, SetsInv, HomeInv(home), LetterInv(home, letter),
         NEW i \in DOMAIN sets
  PROVE  \E s \in Patchset : /\ s = sets[i] /\ IsFiniteSet(s.parts)
                             /\ CountedOr(i \in torn \cup Uncounted(worker), s)
                             /\ OfOne(home, s) /\ WholeOf(home, letter, s)
BY HomeIs, SetsAreTyped DEF LetterInv

\* A step that leaves alone what a patchset holds.
LEMMA SameGrows ==
  ASSUME NEW home, NEW letter, NEW s, WholeOf(home, letter, s), NEW r,
         r.head = s.head, r.parts = s.parts, r.cover = s.cover, r.total = s.total,
         r.status = s.status, r.received = s.received
  PROVE  GrowsTo(home, s, r)
BY DEF GrowsTo, WholeOf

LEMMA NothingGrows ==
  ASSUME NEW home, NEW letter, LetterInv(home, letter), UNCHANGED sets
  PROVE  Grows(home) /\ Begins(home)
<1>1. ASSUME NEW i \in DOMAIN sets PROVE GrowsTo(home, sets[i], sets[i])
  <2>1. WholeOf(home, letter, sets[i])
    BY DEF LetterInv
  <2> QED BY <2>1, SameGrows
<1> QED BY <1>1 DEF Grows, Begins

LEMMA HandedStep ==
  ASSUME NEW m \in Msgs, Mail[m].patch, NEW i, ThenPatch(m, i)
  PROVE  Stores /\ GoesOn
<1>1. CASE Mail[m].diff
  <2>1. PICK w : w = [at |-> "patch", msg |-> m, id |-> i] /\ worker' = w /\ done' = done
    BY <1>1 DEF ThenPatch
  <2> QED BY <2>1 DEF Stores, GoesOn
<1>2. CASE ~Mail[m].diff
  <2>1. worker' = Idle /\ Idle.at = "idle" /\ done' = done \cup {m}
    BY <1>2 DEF ThenPatch, Idle
  <2> QED BY <1>2, <2>1 DEF Stores, GoesOn
<1> QED BY <1>1, <1>2

LEMMA LetterReceive ==
  ASSUME NEW home, NEW letter, Sent(home, letter), SetsInv, HomeInv(home),
         LetterInv(home, letter), NEW m \in Msgs, Receive(m)
  PROVE  LetterStep(home)
<1>1. PICK new, old \in Msgs :
        sets' = [i \in DOMAIN sets |-> [sets[i] EXCEPT !.thread = Joined(@, old, new)]]
  BY ReceiveIs
<1>2. DOMAIN sets' = DOMAIN sets
  BY <1>1
<1>3. ASSUME NEW i \in DOMAIN sets PROVE GrowsTo(home, sets[i], sets'[i])
  <2>1. PICK s \in Patchset : s = sets[i] /\ WholeOf(home, letter, s)
    BY SetsAre
  <2>2. PICK r : r = [s EXCEPT !.thread = Joined(@, old, new)] /\ r = sets'[i]
    BY <1>1, <2>1
  <2>3. /\ r.cover = s.cover /\ r.head = s.head /\ r.total = s.total
        /\ r.parts = s.parts /\ r.received = s.received /\ r.status = s.status
    BY <2>2, RethreadedIs
  <2> QED BY <2>1, <2>2, <2>3, SameGrows
<1>4. Stores
  BY DEF Receive, Stores
<1>5. GoesOn
  BY DEF Receive, GoesOn, At, Idle
<1> QED BY <1>2, <1>3, <1>4, <1>5 DEF LetterStep, Grows, Begins

LEMMA LetterFindByCover ==
  ASSUME NEW home, NEW letter, Sent(home, letter), SetsInv, HomeInv(home),
         LetterInv(home, letter), NEW m \in Msgs, FindByCover(m)
  PROVE  LetterStep(home)
<1>1. PICK i \in Named(m) : /\ sets' = [sets EXCEPT ![i] = Renamed(@, m)]
                            /\ worker' = Counting(m, i, {}, FALSE)
  BY DEF FindByCover
<1>2. worker = At("set", m) /\ Mail[m].patch /\ thread[m] \in Msgs /\ done' = done
  BY SetIs DEF FindByCover
<1>3. i \in DOMAIN sets /\ home[sets[i].head] = home[m]
  BY <1>2, FoundIsAtHome DEF Sent
<1>4. PICK s \in Patchset : s = sets[i] /\ WholeOf(home, letter, s)
  BY <1>3, SetsAre
<1>5. PICK r : r = Renamed(s, m)
  OBVIOUS
<1>6. /\ r.cover = CoverOf(m) /\ r.head \in {s.head, m} /\ r.parts = s.parts
      /\ Mail[m].total # 1 => r.total = Mail[m].total
      /\ r.received = s.received /\ r.status = s.status
  BY <1>2, <1>5, RenamedIs
<1>7. /\ Mail[m].total # 1 /\ Mail[m].total = Cardinality(home[m])
      /\ CoverOf(m) = letter[home[m]]
  BY <1>2, SentIs, ThreadedIs, ArticleIs DEF Sent
<1>8. GrowsTo(home, s, r)
  BY <1>2, <1>3, <1>4, <1>6, <1>7 DEF GrowsTo, WholeOf
<1>9. /\ DOMAIN sets' = DOMAIN sets /\ sets'[i] = r
      /\ \A j \in DOMAIN sets' : j # i => sets'[j] = sets[j]
  BY <1>1, <1>3, <1>4, <1>5
<1>10. ASSUME NEW j \in DOMAIN sets PROVE GrowsTo(home, sets[j], sets'[j])
  <2>1. WholeOf(home, letter, sets[j])
    BY DEF LetterInv
  <2> QED BY <1>4, <1>8, <1>9, <2>1, SameGrows
<1>11. GoesOn
  BY <1>1 DEF GoesOn, Counting
<1> QED BY <1>2, <1>9, <1>10, <1>11 DEF LetterStep, Grows, Begins, Stores

LEMMA LetterFindByLooks ==
  ASSUME NEW home, NEW letter, Sent(home, letter), SetsInv, HomeInv(home),
         LetterInv(home, letter), NEW m \in Msgs, FindByLooks(m)
  PROVE  FALSE
<1>1. PICK i \in Fitting(m) : Named(m) = {} /\ worker = At("set", m)
  BY DEF FindByLooks
<1>2. Mail[m].patch
  BY <1>1, SetIs
<1>3. i \in DOMAIN sets /\ home[sets[i].head] = home[m]
  BY <1>1, FoundIsAtHome DEF Sent
<1> QED BY <1>1, <1>2, <1>3, AtHomeIsNamed

LEMMA LetterCreatePatchset ==
  ASSUME NEW home, NEW letter, Sent(home, letter), SetsInv, HomeInv(home),
         LetterInv(home, letter), NEW m \in Msgs, CreatePatchset(m)
  PROVE  LetterStep(home)
<1>1. PICK i \in {j + 1 : j \in DOMAIN sets \cup {0}} :
        /\ \A j \in DOMAIN sets : j < i
        /\ sets' = [j \in DOMAIN sets \cup {i} |-> IF j = i THEN Fresh(m) ELSE sets[j]]
        /\ ThenPatch(m, i)
  BY DEF CreatePatchset
<1>2. worker = At("set", m) /\ Mail[m].patch /\ Named(m) = {}
  BY SetIs DEF CreatePatchset
<1>3. i \notin DOMAIN sets
  <2>1. DOMAIN sets \subseteq Nat
    BY SetsAreTyped
  <2> QED BY <1>1, <2>1
<1>4. \A j \in DOMAIN sets : home[sets[j].head] # home[m]
  BY <1>2, AtHomeIsNamed
<1>5. /\ DOMAIN sets' = DOMAIN sets \cup {i} /\ sets'[i] = Fresh(m)
      /\ \A j \in DOMAIN sets : sets'[j] = sets[j]
  BY <1>1, <1>3
<1>6. Begins(home)
  BY <1>2, <1>3, <1>4, <1>5 DEF Begins
<1>7. ASSUME NEW j \in DOMAIN sets PROVE GrowsTo(home, sets[j], sets'[j])
  <2>1. WholeOf(home, letter, sets[j])
    BY DEF LetterInv
  <2> QED BY <1>5, <2>1, SameGrows
<1>8. Stores /\ GoesOn
  BY <1>1, <1>2, HandedStep
<1> QED BY <1>5, <1>6, <1>7, <1>8 DEF LetterStep, Grows

LEMMA LetterInsertPatch ==
  ASSUME NEW home, NEW letter, Sent(home, letter), SetsInv, HomeInv(home),
         LetterInv(home, letter), NEW m \in Msgs, InsertPatch(m)
  PROVE  LetterStep(home)
<1>1. PICK w \in DOMAIN sets : w = worker.id
  BY InsertPatchIs
<1>2. /\ worker.at = "patch" /\ worker.msg = m /\ Mail[m].patch /\ Mail[m].diff
      /\ done' = done
      /\ \/ IndexTaken(sets[w], m)
         \/ /\ sets' = [i \in DOMAIN sets |-> WithPart(sets[i], m, i = w)]
            /\ worker' = Counting(m, w, {w} \cup {i \in DOMAIN sets : m \in sets[i].parts}, TRUE)
  BY <1>1, InsertPatchIs
<1>3. home[sets[w].head] = home[m]
  BY <1>1, <1>2 DEF HomeInv, HomeOfWorker
<1>4. ~IndexTaken(sets[w], m)
  BY <1>2, <1>3, AtHomeIsNamed
<1>5. DOMAIN sets' = DOMAIN sets
  BY <1>2, <1>4
<1>6. ASSUME NEW i \in DOMAIN sets
      PROVE  GrowsTo(home, sets[i], sets'[i]) /\ (i = w => m \in sets'[i].parts)
  <2>1. PICK s \in Patchset : /\ s = sets[i] /\ IsFiniteSet(s.parts) /\ OfOne(home, s)
                              /\ WholeOf(home, letter, s)
    BY SetsAre
  <2>2. PICK here \in BOOLEAN : here = (i = w)
    OBVIOUS
  <2>3. PICK r : r = WithPart(s, m, here)
    OBVIOUS
  <2>4. sets'[i] = r
    <3>1. sets'[i] = WithPart(sets[i], m, i = w)
      BY <1>2, <1>4
    <3> QED BY <2>1, <2>2, <2>3, <3>1
  <2>5. IsFiniteSet(s.parts)
    BY <2>1
  <2>6. LET t == WithPart(s, m, here) IN
        /\ t \in Patchset /\ IsFiniteSet(t.parts)
        /\ t.parts = IF here THEN s.parts \cup {m} ELSE s.parts \ {m}
        /\ t.thread = s.thread /\ t.cover = s.cover /\ t.head = s.head
        /\ t.total = s.total /\ t.received = s.received /\ t.status = s.status
    BY <2>5, WithPartIs
  <2>7. /\ IsFiniteSet(r.parts) /\ r.cover = s.cover /\ r.head = s.head
        /\ r.total = s.total /\ r.received = s.received /\ r.status = s.status
        /\ r.parts = IF here THEN s.parts \cup {m} ELSE s.parts \ {m}
    BY <2>3, <2>6
  <2>8. m \in s.parts => here
    <3>1. ASSUME m \in s.parts PROVE i = w
      <4>1. home[s.head] = home[m]
        BY <2>1, <3>1 DEF OfOne
      <4> QED BY <1>3, <2>1, <4>1 DEF LetterInv
    <3> QED BY <2>2, <3>1
  <2>9. s.parts \subseteq r.parts /\ (here => m \in r.parts)
    BY <2>7, <2>8
  <2>10. Cardinality(s.parts) <= Cardinality(r.parts) /\ Cardinality(s.parts) \in Nat
         /\ Cardinality(r.parts) \in Nat
    BY <2>7, <2>9, FS_Subset, FS_CardinalityType
  <2>11. s.received <= Cardinality(s.parts) /\ s.received \in Nat
    BY <2>1 DEF WholeOf, Patchset
  <2>12. GrowsTo(home, s, r)
    BY <2>1, <2>7, <2>9, <2>10, <2>11 DEF GrowsTo, WholeOf
  <2> QED BY <2>1, <2>2, <2>4, <2>9, <2>12
<1>7. PICK v, due : v = Counting(m, w, due, TRUE) /\ worker' = v
  BY <1>2, <1>4
<1>8. v.at = "count" /\ v.id = w /\ v.msg = m
  BY <1>7 DEF Counting
<1>9. GoesOn
  BY <1>6, <1>7, <1>8 DEF GoesOn
<1> QED BY <1>2, <1>5, <1>6, <1>9 DEF LetterStep, Grows, Begins, Stores

LEMMA LetterCountParts ==
  ASSUME NEW home, NEW letter, Sent(home, letter), SetsInv, HomeInv(home),
         LetterInv(home, letter), NEW m \in Msgs, CountParts(m)
  PROVE  LetterStep(home)
<1>1. PICK j \in DOMAIN sets :
           /\ worker.at = "count"
           /\ sets' = [sets EXCEPT ![j] = [sets[j] EXCEPT !.received = Count(sets[j])]]
           /\ worker' = [worker EXCEPT !.due = @ \ {j}] /\ done' = done
  BY CountPartsIs
<1>2. worker \in [at : {"count"}, msg : Msgs, id : DOMAIN sets,
                  due : SUBSET DOMAIN sets, stored : BOOLEAN]
  BY <1>1, WorkerIs
<1>3. ASSUME NEW i \in DOMAIN sets
      PROVE  GrowsTo(home, sets[i], sets'[i]) /\ sets'[i].parts = sets[i].parts
  <2>1. PICK s \in Patchset : /\ s = sets[i] /\ IsFiniteSet(s.parts)
                              /\ WholeOf(home, letter, s)
    BY SetsAre
  <2>2. CASE i = j
    <3>1. PICK r : r = [s EXCEPT !.received = Count(s)] /\ sets'[i] = r
      BY <1>1, <2>1, <2>2
    <3>2. IsFiniteSet(s.parts)
      BY <2>1
    <3>3. /\ r.received = Cardinality(s.parts) /\ r.parts = s.parts /\ r.cover = s.cover
          /\ r.head = s.head /\ r.total = s.total /\ r.status = s.status
      BY <3>1, <3>2, CountIs
    <3>4. Cardinality(s.parts) \in Nat
      BY <3>2, FS_CardinalityType
    <3> QED BY <2>1, <3>1, <3>3, <3>4 DEF GrowsTo, WholeOf
  <2>3. CASE i # j
    BY <1>1, <2>1, <2>3, SameGrows
  <2> QED BY <2>2, <2>3
<1>4. GoesOn
  <2>1. PICK v : v = [worker EXCEPT !.due = @ \ {j}] /\ worker' = v
    BY <1>1
  <2>2. v.at = "count" /\ v.msg = worker.msg /\ v.id = worker.id /\ v.stored = worker.stored
    BY <1>2, <2>1
  <2> QED BY <1>1, <1>2, <1>3, <2>1, <2>2 DEF GoesOn, LetterInv
<1>5. DOMAIN sets' = DOMAIN sets
  BY <1>1
<1> QED BY <1>1, <1>3, <1>4, <1>5 DEF LetterStep, Grows, Begins, Stores

LEMMA LetterSettle ==
  ASSUME NEW home, NEW letter, Sent(home, letter), SetsInv, HomeInv(home),
         LetterInv(home, letter), NEW m \in Msgs, Settle(m)
  PROVE  LetterStep(home)
<1>1. PICK w \in DOMAIN sets : w = worker.id
  BY SettleIs
<1>2. /\ worker.at = "count" /\ worker.msg = m /\ worker.due = {} /\ Mail[m].patch
      /\ sets' = [sets EXCEPT ![w] = Settled(sets[w])]
      /\ \/ worker.stored /\ worker' = Idle /\ done' = done \cup {m}
         \/ ~worker.stored /\ ThenPatch(m, w)
  BY <1>1, SettleIs
<1>3. DOMAIN sets' = DOMAIN sets
  BY <1>2
<1>4. PICK s \in Patchset : /\ s = sets[w] /\ WholeOf(home, letter, s)
                            /\ CountedOr(w \in torn \cup Uncounted(worker), s)
  BY SetsAre
<1>5. PICK r : r = Settled(s) /\ sets'[w] = r
  BY <1>2, <1>4
<1>6. /\ r.received = s.received /\ r.parts = s.parts /\ r.cover = s.cover
      /\ r.head = s.head /\ r.total = s.total
      /\ r.status = "Pending" <=> s.status = "Pending" \/ s.received >= s.total
  BY <1>5, SettledIs
<1>7. GrowsTo(home, s, r)
  BY <1>4, <1>6 DEF GrowsTo, WholeOf
<1>8. ASSUME NEW i \in DOMAIN sets PROVE GrowsTo(home, sets[i], sets'[i])
  <2>1. WholeOf(home, letter, sets[i])
    BY DEF LetterInv
  <2> QED BY <1>2, <1>4, <1>5, <1>7, <2>1, SameGrows
<1>9. Stores /\ GoesOn
  <2>1. CASE worker.stored /\ worker' = Idle /\ done' = done \cup {m}
    <3>1. m \in r.parts
      BY <1>1, <1>2, <1>4, <1>6, <2>1 DEF LetterInv
    <3>2. w \notin torn /\ Uncounted(worker) = {}
      BY <1>1, <1>2, <2>1 DEF SetsInv, WorkerInv, Uncounted
    <3>3. Ends(r)
      BY <1>4, <1>6, <3>2 DEF CountedOr, Ends
    <3>4. Stores
      BY <1>5, <2>1, <3>1, <3>3 DEF Stores
    <3> QED BY <2>1, <3>4 DEF GoesOn, Idle
  <2>2. CASE ThenPatch(m, w)
    BY <1>2, <2>2, HandedStep
  <2> QED BY <1>2, <2>1, <2>2
<1> QED BY <1>3, <1>8, <1>9 DEF LetterStep, Grows, Begins

LEMMA LetterSteps ==
  ASSUME NEW home, NEW letter, Sent(home, letter), SetsInv, HomeInv(home),
         LetterInv(home, letter), [Next]_vars
  PROVE  LetterStep(home)
<1>1. \A m \in Msgs : ~MoveParts(m) /\ ~DropMerged(m) /\ ~UpdateSet(m)
  BY DEF LetterInv, MoveParts, DropMerged, UpdateSet
<1>2. CASE Crash
  <2>1. worker' = Idle /\ UNCHANGED <<sets, done>>
    BY <1>2 DEF Crash
  <2> QED BY <2>1, NothingGrows DEF LetterStep, Stores, GoesOn, Idle
<1>3. CASE UNCHANGED vars
  <2>1. UNCHANGED <<sets, done, worker>>
    BY <1>3 DEF vars
  <2> QED BY <2>1, NothingGrows DEF LetterStep, Stores, GoesOn, LetterInv
<1> QED BY <1>1, <1>2, <1>3, LetterReceive, LetterFindByCover, LetterFindByLooks,
           LetterCreatePatchset, LetterInsertPatch, LetterCountParts, LetterSettle DEF Next

LEMMA LetterInit ==
  ASSUME NEW home, NEW letter, Init
  PROVE  LetterInv(home, letter)
BY DEF Init, LetterInv, Idle

LEMMA LetterNext ==
  ASSUME NEW home, NEW letter, Sent(home, letter), SetsInv, HomeInv(home),
         LetterInv(home, letter), [Next]_vars
  PROVE  LetterInv(home, letter)'
<1>1. /\ home \in [Msgs -> Series] /\ KeepsApart(home, Mail)
      /\ Grows(home) /\ Begins(home) /\ Stores /\ GoesOn
  BY LetterSteps DEF Sent, LetterStep
<1>2. \A i \in DOMAIN sets' : /\ sets'[i] \in Patchset /\ IsFiniteSet(sets'[i].parts)
                              /\ OfOne(home, sets'[i])
  <2>1. SetsInv' /\ HomeInv(home)'
    BY <1>1, SetsNext, HomeNext
  <2> QED BY <2>1 DEF SetsInv, TypeOK, HomeInv, CountedOr
<1>3. ASSUME NEW i \in DOMAIN sets', i \notin DOMAIN sets
      PROVE  \E m \in Msgs : /\ WholeOf(home, letter, sets'[i]) /\ Mail[m].patch
                             /\ home[sets'[i].head] = home[m]
                             /\ \A j \in DOMAIN sets : home[sets[j].head] # home[m]
  <2>1. PICK m \in Msgs : /\ worker = At("set", m) /\ Mail[m].patch
                          /\ sets'[i] = Fresh(m)
                          /\ \A j \in DOMAIN sets : home[sets[j].head] # home[m]
    BY <1>1, <1>3 DEF Begins
  <2>2. PICK s : s = sets'[i] /\ s = Fresh(m)
    BY <2>1
  <2>3. /\ s.cover = CoverOf(m) /\ s.head = m /\ s.total = Mail[m].total
        /\ s.received = 0 /\ s.status = "Incomplete" /\ s.parts = {}
    BY <2>1, <2>2, NewSetIs
  <2>4. CoverOf(m) = letter[home[m]] /\ Mail[m].total = Cardinality(home[m])
    BY <2>1, ThreadedIs
  <2>5. WholeOf(home, letter, s)
    BY <2>1, <2>3, <2>4, FS_EmptySet DEF WholeOf
  <2> QED BY <2>1, <2>2, <2>3, <2>5
<1>4. ASSUME NEW i \in DOMAIN sets
      PROVE  WholeOf(home, letter, sets'[i])
  <2>1. PICK s \in Patchset : s = sets[i] /\ WholeOf(home, letter, s)
    BY SetsAre
  <2>2. PICK r \in Patchset : /\ r = sets'[i] /\ IsFiniteSet(r.parts) /\ OfOne(home, r)
                              /\ GrowsTo(home, s, r)
    BY <1>1, <1>2, <2>1 DEF Grows
  <2>3. /\ home[r.head] = home[s.head] /\ Mail[r.head].patch /\ s.parts \subseteq r.parts
        /\ r.cover = s.cover /\ r.total = s.total /\ r.received <= Cardinality(r.parts)
        /\ r.status = "Pending" => s.status = "Pending" \/ r.received >= r.total
    BY <2>2 DEF GrowsTo
  <2>4. /\ r.cover = letter[home[r.head]] /\ r.total = Cardinality(home[r.head])
        /\ s.status = "Pending" => s.parts = home[r.head]
    BY <2>1, <2>3 DEF WholeOf
  <2>5. /\ r.parts \subseteq home[r.head]
        /\ r.received >= r.total => r.parts = home[r.head]
    BY <2>2, <2>3, <2>4, FullIs
  <2>6. r.status = "Pending" => r.parts = home[r.head]
    BY <2>3, <2>4, <2>5
  <2> QED BY <2>2, <2>3, <2>4, <2>6 DEF WholeOf
<1>5. ASSUME NEW i \in DOMAIN sets', NEW j \in DOMAIN sets',
             home[sets'[i].head] = home[sets'[j].head]
      PROVE  i = j
  <2>1. \A n \in DOMAIN sets : home[sets'[n].head] = home[sets[n].head]
    BY <1>1 DEF Grows, GrowsTo
  <2>2. ASSUME NEW n \in DOMAIN sets' \ DOMAIN sets
        PROVE  /\ DOMAIN sets' = DOMAIN sets \cup {n}
               /\ \A k \in DOMAIN sets : home[sets[k].head] # home[sets'[n].head]
    <3>1. PICK m \in Msgs : /\ sets'[n] = Fresh(m) /\ DOMAIN sets' = DOMAIN sets \cup {n}
                            /\ \A k \in DOMAIN sets : home[sets[k].head] # home[m]
      BY <1>1 DEF Begins
    <3> QED BY <3>1 DEF Fresh
  <2>3. CASE i \in DOMAIN sets /\ j \in DOMAIN sets
    BY <1>5, <2>1, <2>3 DEF LetterInv
  <2>4. CASE i \notin DOMAIN sets
    <3>1. /\ DOMAIN sets' = DOMAIN sets \cup {i}
          /\ \A k \in DOMAIN sets : home[sets[k].head] # home[sets'[i].head]
      BY <2>2, <2>4
    <3> QED BY <1>5, <2>1, <3>1
  <2>5. CASE j \notin DOMAIN sets
    <3>1. /\ DOMAIN sets' = DOMAIN sets \cup {j}
          /\ \A k \in DOMAIN sets : home[sets[k].head] # home[sets'[j].head]
      BY <2>2, <2>5
    <3> QED BY <1>5, <2>1, <3>1
  <2> QED BY <2>3, <2>4, <2>5
<1>6. ASSUME NEW m \in done', Mail[m].patch, Mail[m].diff
      PROVE  \E i \in DOMAIN sets : m \in sets'[i].parts /\ (m \notin done => Ends(sets'[i]))
  <2>1. CASE m \in done
    <3>1. PICK i \in DOMAIN sets : m \in sets[i].parts
      BY <1>6, <2>1 DEF LetterInv
    <3>2. sets[i].parts \subseteq sets'[i].parts
      BY <1>1 DEF Grows, GrowsTo
    <3> QED BY <2>1, <3>1, <3>2
  <2>2. CASE m \notin done
    BY <1>1, <1>6, <2>2 DEF Stores
  <2> QED BY <2>1, <2>2
<1>7. ASSUME NEW i \in DOMAIN sets', home[sets'[i].head] \subseteq done'
      PROVE  sets'[i].status = "Pending"
  <2>1. PICK r \in Patchset : r = sets'[i] /\ IsFiniteSet(r.parts) /\ OfOne(home, r)
    BY <1>2
  <2>2. PICK S \in Series : S = home[r.head] /\ S \subseteq done'
    BY <1>1, <1>7, <2>1 DEF Patchset
  <2>3. ASSUME NEW p \in S, NEW j \in DOMAIN sets, p \in sets'[j].parts
        PROVE  j = i
    <3>1. home[p] = S
      BY SeriesIs
    <3>2. j \in DOMAIN sets'
      BY <1>1 DEF Grows
    <3>3. home[p] = home[sets'[j].head]
      BY <1>2, <2>3, <3>2 DEF OfOne
    <3> QED BY <1>5, <2>1, <2>2, <3>1, <3>2, <3>3
  <2>4. \A p \in S : i \in DOMAIN sets /\ p \in r.parts /\ (p \notin done => Ends(r))
    <3>1. ASSUME NEW p \in S
          PROVE  i \in DOMAIN sets /\ p \in r.parts /\ (p \notin done => Ends(r))
      <4>1. Mail[p].patch /\ Mail[p].diff /\ p \in done'
        BY <2>2, SeriesIs
      <4>2. PICK j \in DOMAIN sets : p \in sets'[j].parts /\ (p \notin done => Ends(sets'[j]))
        BY <1>6, <4>1
      <4>3. j = i
        BY <2>3, <4>2
      <4> QED BY <2>1, <4>2, <4>3
    <3> QED BY <3>1
  <2>5. i \in DOMAIN sets
    BY <2>4, SeriesIs
  <2>6. CASE S \subseteq done
    <3>1. GrowsTo(home, sets[i], r)
      BY <1>1, <2>1, <2>5 DEF Grows
    <3>2. home[sets[i].head] = S
      BY <2>2, <3>1 DEF GrowsTo
    <3> QED BY <2>1, <2>5, <2>6, <3>1, <3>2 DEF LetterInv, GrowsTo
  <2>7. CASE ~(S \subseteq done)
    <3>1. Ends(r) /\ S \subseteq r.parts
      BY <2>4, <2>7
    <3>2. WholeOf(home, letter, r)
      BY <1>4, <2>1, <2>5
    <3>3. /\ r.parts \subseteq home[r.head]
          /\ r.received = Cardinality(r.parts) /\ r.parts = home[r.head]
               => r.received >= r.total
      <4>1. Mail[r.head].patch /\ r.total = Cardinality(home[r.head])
        BY <3>2 DEF WholeOf
      <4> QED BY <2>1, <4>1, FullIs
    <3> QED BY <2>1, <2>2, <3>1, <3>3 DEF Ends
  <2> QED BY <2>6, <2>7
<1>8. \A i \in DOMAIN sets' : WholeOf(home, letter, sets'[i])
  BY <1>3, <1>4
<1>9. \A m \in done' : Mail[m].patch /\ Mail[m].diff =>
        \E i \in DOMAIN sets' : m \in sets'[i].parts
  <2>1. DOMAIN sets \subseteq DOMAIN sets'
    BY <1>1 DEF Grows
  <2> QED BY <1>6, <2>1
<1> QED BY <1>1, <1>5, <1>7, <1>8, <1>9 DEF LetterInv, GoesOn, WholeOf

\* A patchset of a series that was sent with a letter is the part of it that came.
LEMMA PartsAreOfSeries ==
  ASSUME NEW home, NEW letter, Sent(home, letter), SetsInv, HomeInv(home),
         LetterInv(home, letter), NEW i \in DOMAIN sets
  PROVE  sets[i].parts \subseteq home[sets[i].head] /\ home[sets[i].head] \in Series
<1>1. PICK s \in Patchset : /\ s = sets[i] /\ IsFiniteSet(s.parts) /\ OfOne(home, s)
                            /\ WholeOf(home, letter, s)
  BY SetsAre
<1>2. s.parts \subseteq home[s.head]
  BY <1>1, FullIs DEF WholeOf
<1> QED BY <1>1, <1>2 DEF Sent, Patchset

LEMMA SentTypes ==
  ASSUME SentWithLetter(Mail, Series)
  PROVE  \E home, letter : Sent(home, letter)
BY MailIsParsed DEF SentWithLetter, Sent

LEMMA LettersAreKept ==
  ASSUME NEW home, NEW letter, Sent(home, letter)
  PROVE  Spec => [](SetsInv /\ HomeInv(home) /\ LetterInv(home, letter))
<1>1. Init => SetsInv /\ HomeInv(home) /\ LetterInv(home, letter)
  BY SetsInit, HomeInit, LetterInit
<1>2. SetsInv /\ HomeInv(home) /\ LetterInv(home, letter) /\ [Next]_vars
        => (SetsInv /\ HomeInv(home) /\ LetterInv(home, letter))'
  BY SetsNext, HomeNext, LetterNext DEF Sent
<1> QED BY <1>1, <1>2, PTL DEF Spec

\* Series sent with a cover letter are assembled: once every patch of a series was
\* handled to the end, one patchset is exactly the series and Pending, in whatever
\* order they came, twice or not, and wherever the daemon died before.
THEOREM AssembledCorrect ==
  ASSUME SentWithLetter(Mail, Series) PROVE Spec => []SeriesIsAssembled
<1>1. PICK home, letter : Sent(home, letter)
  BY SentTypes
<1>2. SetsInv /\ HomeInv(home) /\ LetterInv(home, letter) => SeriesIsAssembled
  <2> SUFFICES ASSUME SetsInv, HomeInv(home), LetterInv(home, letter),
                      NEW S \in Series, S \subseteq done
               PROVE  \E i \in DOMAIN sets : sets[i].parts = S /\ sets[i].status = "Pending"
    BY DEF SeriesIsAssembled
  <2>1. \A p \in S : /\ Mail[p].patch /\ Mail[p].diff /\ home[p] = S
                     /\ \E i \in DOMAIN sets : p \in sets[i].parts
    BY <1>1 DEF Sent, Threaded, LetterInv
  <2>2. PICK m \in S : TRUE
    BY MailIsParsed
  <2>3. PICK i \in DOMAIN sets : m \in sets[i].parts
    BY <2>1
  <2>4. ASSUME NEW p \in S, NEW j \in DOMAIN sets, p \in sets[j].parts
        PROVE  home[sets[j].head] = S
    BY <2>1, <2>4 DEF HomeInv, OfOne
  <2>5. S \subseteq sets[i].parts
    BY <2>1, <2>3, <2>4 DEF LetterInv
  <2>6. sets[i].parts = S
    BY <1>1, <2>3, <2>4, <2>5, PartsAreOfSeries
  <2>7. sets[i].status = "Pending"
    BY <2>3, <2>4 DEF LetterInv
  <2> QED BY <2>6, <2>7
<1> QED BY <1>1, <1>2, LettersAreKept, PTL

\* No patchset of a series sent with a cover letter is Pending before it is whole.
THEOREM EarlyCorrect ==
  ASSUME SentWithLetter(Mail, Series) PROVE Spec => []NoEarlyReview
<1>1. PICK home, letter : Sent(home, letter)
  BY SentTypes
<1>2. SetsInv /\ HomeInv(home) /\ LetterInv(home, letter) => NoEarlyReview
  BY <1>1, PartsAreOfSeries DEF NoEarlyReview, LetterInv, WholeOf
<1> QED BY <1>1, <1>2, LettersAreKept, PTL

LEMMA FrozenStep ==
  ASSUME NEW home, NEW letter, Sent(home, letter), SetsInv, HomeInv(home),
         LetterInv(home, letter), [Next]_vars,
         NEW S \in Series, NEW i \in DOMAIN sets,
         sets[i].parts = S, sets[i].status = "Pending"
  PROVE  i \in DOMAIN sets' /\ sets'[i].parts = S /\ sets'[i].status = "Pending"
<1>1. LetterInv(home, letter)'
  BY LetterNext
<1>2. home[sets[i].head] = S
  BY DEF LetterInv, WholeOf
<1>3. /\ i \in DOMAIN sets' /\ home[sets'[i].head] = S /\ sets'[i].status = "Pending"
  BY <1>2, LetterSteps DEF LetterStep, Grows, GrowsTo
<1> QED BY <1>1, <1>3 DEF LetterInv, WholeOf

\* And none is taken apart, or added to, once it is Pending.
THEOREM FrozenCorrect ==
  ASSUME SentWithLetter(Mail, Series) PROVE Spec => ReviewedIsFrozen
<1>1. PICK home, letter : Sent(home, letter)
  BY SentTypes
<1>2. SetsInv /\ HomeInv(home) /\ LetterInv(home, letter) /\ [Next]_vars =>
        [\A series \in Series :
           (\E i \in DOMAIN sets : sets[i].parts = series /\ sets[i].status = "Pending")
           => (\E i \in DOMAIN sets' : sets'[i].parts = series /\ sets'[i].status = "Pending")]_vars
  BY <1>1, FrozenStep
<1> QED BY <1>1, <1>2, LettersAreKept, PTL DEF Spec, ReviewedIsFrozen
=============================================================================
