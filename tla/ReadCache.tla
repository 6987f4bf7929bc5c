----------------------------- MODULE ReadCache -----------------------------
(***************************************************************************)
(* The caches of the HTTP API: lists, counts and statistics read from the  *)
(* database are kept for a while, and an update of the triage of a finding *)
(* invalidates those that show findings.  Every cache has a read-write     *)
(* lock; who fetches holds it for writing.                                 *)
(*                                                                         *)
(* What a cache holds is abstracted to the number of triage updates it     *)
(* reflects.  A handler ends early when its client leaves.                 *)
(***************************************************************************)
EXTENDS Naturals, Sequences

CONSTANTS
  Invalidated,  \* the caches an update invalidates, in this order
  Lifetime,     \* ticks until a cached value expires
  Readers, Triagers,  \* requests at work at once
  MaxUpdates,   \* bound on updates of a triage
  NoTask

Caches == {Invalidated[i] : i \in DOMAIN Invalidated}

ASSUME ReadCacheAssumption ==
  /\ Invalidated \in Seq(Caches)
  /\ Lifetime \in Nat /\ MaxUpdates \in Nat
  /\ NoTask \notin Readers

VARIABLES
  triage,   \* the updates in the database
  cached,   \* [Caches -> set of at most one value with its age]
  locked,   \* [Caches -> the reader that holds the write lock, or NoTask]
  reader,   \* [Readers -> where its get_or_fetch is]
  triager,  \* [Triagers -> where its update_finding_triage is]
  acknowledged \* history: the updates whose requests were answered

CacheVars == <<triage, cached, locked, reader, triager, acknowledged>>

NoReader  == [at |-> "free", of |-> NoTask, value |-> 0, since |-> 0]
NoTriager == [at |-> "free", next |-> 1, value |-> 0]

CacheInit ==
  /\ triage = 0 /\ acknowledged = 0
  /\ cached = [c \in Caches |-> {}]
  /\ locked = [c \in Caches |-> NoTask]
  /\ reader = [r \in Readers |-> NoReader]
  /\ triager = [t \in Triagers |-> NoTriager]

Unexpired(c) == {v \in cached[c] : v.age < Lifetime}
Returns(r, v) == reader' = [reader EXCEPT ![r].at = "done", ![r].value = v]

(* The write lock, held while fetching; a mutation fetches without it. *)
LockedBy_Nobody(c, r) == locked
LockedBy(c, r) == [locked EXCEPT ![c] = r]
Unlocked(c) == [locked EXCEPT ![c] = NoTask]

Ask(r, c) ==
  /\ reader[r].at = "free"
  /\ reader' = [reader EXCEPT ![r] = [at |-> "read", of |-> c, value |-> 0,
                                      since |-> acknowledged]]
  /\ UNCHANGED <<triage, cached, locked, triager, acknowledged>>

(* The first look, under the read lock. *)
Look(r) ==
  LET c == reader[r].of IN
  /\ reader[r].at = "read" /\ locked[c] = NoTask
  /\ \/ \E v \in Unexpired(c) : Returns(r, v.value)
     \/ Unexpired(c) = {} /\ reader' = [reader EXCEPT ![r].at = "lock"]
  /\ UNCHANGED <<triage, cached, locked, triager, acknowledged>>

(* The second look, under the write lock. *)
LookAgain(r) ==
  LET c == reader[r].of IN
  /\ reader[r].at = "lock" /\ locked[c] = NoTask
  /\ \/ \E v \in Unexpired(c) : Returns(r, v.value) /\ UNCHANGED locked
     \/ /\ Unexpired(c) = {} /\ locked' = LockedBy(c, r)
        /\ reader' = [reader EXCEPT ![r].at = "fetch"]
  /\ UNCHANGED <<triage, cached, triager, acknowledged>>

(* The query sees the database at some moment, and takes time to answer. *)
Query(r) ==
  /\ reader[r].at = "fetch"
  /\ reader' = [reader EXCEPT ![r].at = "keep", ![r].value = triage]
  /\ UNCHANGED <<triage, cached, locked, triager, acknowledged>>

KeepValue(r) ==
  LET c == reader[r].of IN
  /\ reader[r].at = "keep"
  /\ cached' = [cached EXCEPT ![c] = {[value |-> reader[r].value, age |-> 0]}]
  /\ Returns(r, reader[r].value)
  /\ locked' = Unlocked(c)
  /\ UNCHANGED <<triage, triager, acknowledged>>

(* The query fails, or the client leaves: the guard of the lock is dropped. *)
ReadEnds(r) ==
  /\ reader[r].at # "free"
  /\ reader' = [reader EXCEPT ![r] = NoReader]
  /\ locked' = [c \in Caches |-> IF locked[c] = r THEN NoTask ELSE locked[c]]
  /\ UNCHANGED <<triage, cached, triager, acknowledged>>

UpdateTriage(t) ==
  /\ triager[t].at = "free" /\ triage < MaxUpdates
  /\ triage' = triage + 1
  /\ triager' = [triager EXCEPT ![t] = [at |-> "invalidate", next |-> 1,
                                        value |-> triage + 1]]
  /\ UNCHANGED <<cached, locked, reader, acknowledged>>

Invalidate(t) ==
  LET i == triager[t].next
      c == Invalidated[i] IN
  /\ triager[t].at = "invalidate" /\ i \in DOMAIN Invalidated
  /\ locked[c] = NoTask
  /\ cached' = [cached EXCEPT ![c] = {}]
  /\ triager' = [triager EXCEPT ![t].next = i + 1]
  /\ UNCHANGED <<triage, locked, reader, acknowledged>>

AnswerUpdate(t) ==
  /\ triager[t].at = "invalidate" /\ triager[t].next > Len(Invalidated)
  /\ acknowledged' = IF acknowledged < triager[t].value THEN triager[t].value
                     ELSE acknowledged
  /\ triager' = [triager EXCEPT ![t] = NoTriager]
  /\ UNCHANGED <<triage, cached, locked, reader>>

UpdateEnds(t) ==
  /\ triager[t].at = "invalidate"
  /\ triager' = [triager EXCEPT ![t] = NoTriager]
  /\ UNCHANGED <<triage, cached, locked, reader, acknowledged>>

Older(v) == [v EXCEPT !.age = IF @ < Lifetime THEN @ + 1 ELSE @]
CacheTick ==
  /\ cached' = [c \in Caches |-> {Older(v) : v \in cached[c]}]
  /\ UNCHANGED <<triage, locked, reader, triager, acknowledged>>

CacheNext ==
  \/ \E r \in Readers, c \in Caches : Ask(r, c)
  \/ \E r \in Readers : Look(r) \/ LookAgain(r) \/ Query(r) \/ KeepValue(r) \/ ReadEnds(r)
  \/ \E t \in Triagers : UpdateTriage(t) \/ Invalidate(t) \/ AnswerUpdate(t) \/ UpdateEnds(t)
  \/ CacheTick

CacheSpec == CacheInit /\ [][CacheNext]_CacheVars

-----------------------------------------------------------------------------
CachedValue == [value : 0..MaxUpdates, age : 0..Lifetime]
Reader  == [at : {"free", "read", "lock", "fetch", "keep", "done"},
            of : Caches \cup {NoTask}, value : 0..MaxUpdates, since : 0..MaxUpdates]
Triager == [at : {"free", "invalidate"}, next : 1..Len(Invalidated) + 1,
            value : 0..MaxUpdates]

CacheTypeOK ==
  /\ triage \in 0..MaxUpdates /\ acknowledged \in 0..MaxUpdates
  /\ cached \in [Caches -> SUBSET CachedValue]
  /\ locked \in [Caches -> Readers \cup {NoTask}]
  /\ reader \in [Readers -> Reader]
  /\ triager \in [Triagers -> Triager]

(* Whoever asks after an update was answered sees that update, from every    *)
(* cache it concerns, though readers that began before the update fetch and  *)
(* store what they fetched at any time.                                      *)
NoStaleRead == \A r \in Readers : reader[r].at = "done" => reader[r].since <= reader[r].value
=============================================================================
