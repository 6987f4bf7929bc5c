--------------------------- MODULE ServingProofs ----------------------------
(***************************************************************************)
(* Proofs about ReadCache, Dashboard and ModelCall: for all readers,       *)
(* triagers and invalidated caches; for all servers, watchers and          *)
(* durations; for all requests, keys, providers and bounds of a stream.    *)
(***************************************************************************)
EXTENDS ReadCache, Dashboard, ModelCall, FiniteSetTheorems, SequenceTheorems, TLAPS

(***************************************************************************)
(* The caches of the HTTP API                                              *)
(***************************************************************************)
\* Who fetches or keeps a value holds the lock of its cache.
Fetching(r) == reader[r].at \in {"fetch", "keep"}
LockInv == \A r \in Readers : Fetching(r) => locked[reader[r].of] = r

\* A reader that began knows its cache and no later update than was answered.
ReaderInv == \A r \in Readers : reader[r].at # "free" =>
  reader[r].of \in Caches /\ reader[r].since <= acknowledged

\* Neither the cache nor a reader about to fill it has a value older than n.
Reflects(c, n) ==
  /\ \A v \in cached[c] : n <= v.value
  /\ \A r \in Readers : reader[r].at = "keep" /\ reader[r].of = c => n <= reader[r].value

\* The caches an update went through reflect it, all of them once it is answered.
UpdateInv ==
  \A t \in Triagers, n \in Nat : triager[t].at = "invalidate" /\ triager[t].value = n =>
    /\ n <= triage
    /\ \A i \in DOMAIN Invalidated : i < triager[t].next => Reflects(Invalidated[i], n)
AnswerInv ==
  \A n \in Nat : acknowledged = n => n <= triage /\ \A c \in Caches : Reflects(c, n)

CacheInv == CacheTypeOK /\ LockInv /\ ReaderInv /\ UpdateInv /\ AnswerInv /\ NoStaleRead

-----------------------------------------------------------------------------
(***************************************************************************)
(* What the steps do                                                       *)
(***************************************************************************)
DatabaseSame == UNCHANGED <<triage, triager, acknowledged>>
ReadersSame  == UNCHANGED <<locked, reader>>
SomeReader   == \E r \in Readers : Look(r) \/ LookAgain(r) \/ Query(r) \/ KeepValue(r)
                                   \/ ReadEnds(r) \/ \E c \in Caches : Ask(r, c)
SomeTriager(t) == UpdateTriage(t) \/ Invalidate(t) \/ AnswerUpdate(t) \/ UpdateEnds(t)

\* A look returns an unexpired value or goes on to the write lock.
LEMMA LookDoes ==
  ASSUME NEW r \in Readers, Look(r)
  PROVE  /\ reader[r].at = "read" /\ DatabaseSame /\ UNCHANGED <<cached, locked>>
         /\ \/ \E v \in cached[reader[r].of] : Returns(r, v.value)
            \/ reader' = [reader EXCEPT ![r].at = "lock"]
BY DEF Look, Unexpired, DatabaseSame

\* The second look returns a value or takes the lock, which was free.
LEMMA LookAgainDoes ==
  ASSUME NEW r \in Readers, LookAgain(r)
  PROVE  /\ reader[r].at = "lock" /\ locked[reader[r].of] = NoTask
         /\ DatabaseSame /\ UNCHANGED cached
         /\ \/ (\E v \in cached[reader[r].of] : Returns(r, v.value)) /\ UNCHANGED locked
            \/ /\ locked' = [locked EXCEPT ![reader[r].of] = r]
               /\ reader' = [reader EXCEPT ![r].at = "fetch"]
BY DEF LookAgain, LockedBy, Unexpired, DatabaseSame

\* What was read replaces the value of the cache.
LEMMA KeepDoes ==
  ASSUME NEW r \in Readers, KeepValue(r)
  PROVE  /\ reader[r].at = "keep" /\ DatabaseSame /\ Returns(r, reader[r].value)
         /\ cached' = [cached EXCEPT ![reader[r].of] =
                         {[value |-> reader[r].value, age |-> 0]}]
         /\ locked' = [locked EXCEPT ![reader[r].of] = NoTask]
BY DEF KeepValue, Unlocked, DatabaseSame

\* A step is a reader's or a triager's, or time passes.
LEMMA StepCases ==
  ASSUME [CacheNext]_CacheVars
  PROVE  \/ SomeReader
         \/ \E t \in Triagers : SomeTriager(t)
         \/ CacheTick
         \/ UNCHANGED CacheVars
BY DEF CacheNext, SomeReader, SomeTriager

\* The readers leave the database alone.
LEMMA ReaderDoes == SomeReader => DatabaseSame
BY DEF SomeReader, Ask, Look, LookAgain, Query, KeepValue, ReadEnds, DatabaseSame

\* The triagers leave the readers alone, and fill no cache.
LEMMA TriagerDoes ==
  ASSUME CacheInv, NEW t \in Triagers, SomeTriager(t)
  PROVE  /\ ReadersSame
         /\ \A c \in Caches : cached'[c] \subseteq cached[c]
         /\ \A u \in Triagers \ {t} : triager'[u] = triager[u]
BY DEF SomeTriager, UpdateTriage, Invalidate, AnswerUpdate, UpdateEnds, ReadersSame, CacheInv,
   CacheTypeOK

\* Only an answer changes what was answered.
LEMMA AnsweredDoes ==
  ASSUME NEW t \in Triagers, SomeTriager(t)
  PROVE  \/ acknowledged' = acknowledged
         \/ acknowledged < triager[t].value /\ acknowledged' = triager[t].value
<1>1. CASE AnswerUpdate(t)
  BY <1>1 DEF AnswerUpdate
<1>2. CASE UpdateTriage(t) \/ Invalidate(t) \/ UpdateEnds(t)
  BY <1>2 DEF UpdateTriage, Invalidate, UpdateEnds
<1> QED
  BY <1>1, <1>2 DEF SomeTriager

\* Time changes no value.
LEMMA TickDoes ==
  ASSUME CacheInv, CacheTick
  PROVE  /\ DatabaseSame /\ ReadersSame
         /\ \A c \in Caches : cached'[c] = {Older(v) : v \in cached[c]}
         /\ \A v \in CachedValue : Older(v) \in CachedValue /\ Older(v).value = v.value
BY ReadCacheAssumption DEF CacheTick, DatabaseSame, ReadersSame, Older, CachedValue

-----------------------------------------------------------------------------
\* Everything holds at the start.
THEOREM CacheInvInit == CacheInit => CacheInv
<1> SUFFICES ASSUME CacheInit PROVE CacheInv
  OBVIOUS
<1>1. Len(Invalidated) \in Nat
  BY ReadCacheAssumption
<1>2. CacheTypeOK
  <2>1. NoReader \in Reader /\ NoTriager \in Triager
    BY <1>1, ReadCacheAssumption DEF NoReader, NoTriager, Reader, Triager
  <2> QED
    BY <2>1, ReadCacheAssumption DEF CacheInit, CacheTypeOK
<1>3. LockInv /\ ReaderInv /\ UpdateInv /\ AnswerInv /\ NoStaleRead
  BY DEF CacheInit, LockInv, Fetching, ReaderInv, Reflects, UpdateInv, AnswerInv,
     NoStaleRead, NoReader, NoTriager
<1> QED
  BY <1>2, <1>3 DEF CacheInv

\* A reader that returns a value keeps its type.
LEMMA ReturnsType ==
  ASSUME CacheTypeOK, NEW r \in Readers, NEW v \in 0..MaxUpdates, Returns(r, v)
  PROVE  reader' \in [Readers -> Reader]
BY DEF CacheTypeOK, Returns, Reader

\* The steps of the readers keep the type.
LEMMA ReaderType == ASSUME CacheInv, SomeReader PROVE CacheTypeOK'
<1> USE DEF CacheInv
<1>0. UNCHANGED <<triage, triager, acknowledged>>
  BY ReaderDoes DEF DatabaseSame
<1> SUFFICES /\ reader' \in [Readers -> Reader]
             /\ cached' \in [Caches -> SUBSET CachedValue]
             /\ locked' \in [Caches -> Readers \cup {NoTask}]
  BY <1>0 DEF CacheTypeOK
<1>1. ASSUME NEW r \in Readers, NEW c \in Caches, Ask(r, c)
      PROVE  reader' \in [Readers -> Reader] /\ UNCHANGED <<cached, locked>>
  BY <1>1, ReadCacheAssumption DEF Ask, CacheTypeOK, Reader
<1>2. ASSUME NEW r \in Readers, NEW v \in cached[reader[r].of], Returns(r, v.value),
             reader[r].of \in Caches
      PROVE  reader' \in [Readers -> Reader]
  <2>1. v.value \in 0..MaxUpdates
    BY <1>2 DEF CacheTypeOK, CachedValue
  <2> QED
    BY <1>2, <2>1, ReturnsType
<1>3. ASSUME NEW r \in Readers, NEW a \in {"lock", "fetch"},
             reader' = [reader EXCEPT ![r].at = a]
      PROVE  reader' \in [Readers -> Reader]
  BY <1>3 DEF CacheTypeOK, Reader
<1>4. ASSUME NEW r \in Readers, Look(r)
      PROVE  reader' \in [Readers -> Reader] /\ UNCHANGED <<cached, locked>>
  <2>1. reader[r].of \in Caches
    BY <1>4, LookDoes DEF ReaderInv
  <2> QED
    BY <1>2, <1>3, <1>4, <2>1, LookDoes
<1>5. ASSUME NEW r \in Readers, LookAgain(r)
      PROVE  /\ reader' \in [Readers -> Reader] /\ UNCHANGED cached
             /\ locked' \in [Caches -> Readers \cup {NoTask}]
  <2>1. reader[r].of \in Caches
    BY <1>5, LookAgainDoes DEF ReaderInv
  <2>2. locked' = locked \/ locked' = [locked EXCEPT ![reader[r].of] = r]
    BY <1>5, LookAgainDoes
  <2>3. locked' \in [Caches -> Readers \cup {NoTask}]
    BY <2>1, <2>2 DEF CacheTypeOK
  <2>4. reader' \in [Readers -> Reader]
    <3>1. CASE \E v \in cached[reader[r].of] : Returns(r, v.value)
      BY <1>2, <1>3, <2>1, <3>1
    <3>2. CASE reader' = [reader EXCEPT ![r].at = "fetch"]
      BY <1>3, <3>2
    <3> QED
      BY <1>5, <3>1, <3>2, LookAgainDoes
  <2> QED
    BY <1>5, <2>3, <2>4, LookAgainDoes
<1>6. ASSUME NEW r \in Readers, Query(r)
      PROVE  reader' \in [Readers -> Reader] /\ UNCHANGED <<cached, locked>>
  BY <1>6 DEF Query, CacheTypeOK, Reader
<1>7. ASSUME NEW r \in Readers, KeepValue(r)
      PROVE  /\ reader' \in [Readers -> Reader] /\ cached' \in [Caches -> SUBSET CachedValue]
             /\ locked' \in [Caches -> Readers \cup {NoTask}]
  <2>1. reader[r].of \in Caches
    BY <1>7, KeepDoes DEF ReaderInv
  <2>2. reader[r].value \in 0..MaxUpdates
    BY DEF CacheTypeOK, Reader
  <2>3. [value |-> reader[r].value, age |-> 0] \in CachedValue
    BY <2>2, ReadCacheAssumption DEF CachedValue
  <2>4. reader' \in [Readers -> Reader]
    BY <1>7, <2>2, KeepDoes, ReturnsType
  <2>5. cached' \in [Caches -> SUBSET CachedValue]
    BY <1>7, <2>1, <2>3, KeepDoes DEF CacheTypeOK
  <2>6. locked' \in [Caches -> Readers \cup {NoTask}]
    BY <1>7, <2>1, KeepDoes DEF CacheTypeOK
  <2> QED
    BY <2>4, <2>5, <2>6
<1>8. ASSUME NEW r \in Readers, ReadEnds(r)
      PROVE  /\ reader' \in [Readers -> Reader] /\ UNCHANGED cached
             /\ locked' \in [Caches -> Readers \cup {NoTask}]
  BY <1>8, ReadCacheAssumption DEF ReadEnds, NoReader, CacheTypeOK, Reader
<1> QED
  BY <1>1, <1>4, <1>5, <1>6, <1>7, <1>8 DEF SomeReader, CacheTypeOK

\* Every step keeps the type.
LEMMA CacheTypeNext == ASSUME CacheInv, [CacheNext]_CacheVars PROVE CacheTypeOK'
<1> USE DEF CacheInv
<1>1. ASSUME NEW t \in Triagers, SomeTriager(t) PROVE CacheTypeOK'
  <2>1. Len(Invalidated) \in Nat /\ DOMAIN Invalidated = 1..Len(Invalidated)
    BY ReadCacheAssumption
  <2>2. cached' \in [Caches -> SUBSET CachedValue]
    BY <1>1 DEF SomeTriager, UpdateTriage, Invalidate, AnswerUpdate, UpdateEnds, CacheTypeOK
  <2>3. triage' \in 0..MaxUpdates /\ acknowledged' \in 0..MaxUpdates
    BY <1>1, ReadCacheAssumption DEF SomeTriager, UpdateTriage, Invalidate, AnswerUpdate,
       UpdateEnds, CacheTypeOK, Triager
  <2>4. triager' \in [Triagers -> Triager]
    <3>1. CASE triager' = [triager EXCEPT ![t] = NoTriager]
      <4>1. NoTriager \in Triager
        BY <2>1, ReadCacheAssumption DEF NoTriager, Triager
      <4> QED
        BY <3>1, <4>1 DEF CacheTypeOK
    <3>2. CASE UpdateTriage(t)
      <4>1. [at |-> "invalidate", next |-> 1, value |-> triage + 1] \in Triager
        BY <2>1, <3>2, ReadCacheAssumption DEF UpdateTriage, CacheTypeOK, Triager
      <4> QED
        BY <3>2, <4>1 DEF UpdateTriage, CacheTypeOK
    <3>3. CASE Invalidate(t)
      <4>1. triager[t].next + 1 \in 1..Len(Invalidated) + 1
        BY <2>1, <3>3 DEF Invalidate, CacheTypeOK, Triager
      <4>2. triager' = [triager EXCEPT ![t].next = triager[t].next + 1]
        BY <3>3 DEF Invalidate
      <4> QED
        BY <4>1, <4>2 DEF CacheTypeOK, Triager
    <3> QED
      BY <1>1, <3>1, <3>2, <3>3 DEF SomeTriager, AnswerUpdate, UpdateEnds
  <2> QED
    BY <1>1, <2>2, <2>3, <2>4, TriagerDoes DEF CacheTypeOK, ReadersSame
<1>2. CASE CacheTick
  <2>1. \A c \in Caches : {Older(v) : v \in cached[c]} \subseteq CachedValue
    BY <1>2, TickDoes DEF CacheTypeOK
  <2>2. cached' \in [Caches -> SUBSET CachedValue]
    BY <1>2, <2>1 DEF CacheTick
  <2> QED
    BY <1>2, <2>2 DEF CacheTypeOK, CacheTick
<1>3. CASE UNCHANGED CacheVars
  BY <1>3 DEF CacheVars, CacheTypeOK
<1> QED
  BY <1>1, <1>2, <1>3, StepCases, ReaderType

\* A lock is only taken when it is free, and given back by its holder.
LEMMA LockNext == ASSUME CacheInv, [CacheNext]_CacheVars PROVE LockInv'
<1> USE DEF CacheInv, LockInv, Fetching
<1>0. /\ reader \in [Readers -> Reader] /\ locked \in [Caches -> Readers \cup {NoTask}]
      /\ NoTask \notin Readers
      /\ \A r \in Readers : reader[r].at # "free" => reader[r].of \in Caches
  BY ReadCacheAssumption DEF CacheTypeOK, ReaderInv
<1>1. ASSUME NEW r \in Readers, NEW c \in Caches, Ask(r, c) PROVE LockInv'
  BY <1>0, <1>1 DEF Ask
<1>2. ASSUME NEW r \in Readers, NEW n, Returns(r, n), UNCHANGED locked PROVE LockInv'
  BY <1>0, <1>2 DEF Returns, Reader
<1>3. ASSUME NEW r \in Readers, Look(r) PROVE LockInv'
  <2>1. CASE reader' = [reader EXCEPT ![r].at = "lock"] /\ UNCHANGED locked
    BY <1>0, <2>1 DEF Reader
  <2> QED
    BY <1>2, <1>3, <2>1, LookDoes
<1>4. ASSUME NEW r \in Readers, LookAgain(r) PROVE LockInv'
  <2>1. locked[reader[r].of] = NoTask /\ reader[r].of \in Caches
    BY <1>0, <1>4, LookAgainDoes
  <2>2. CASE /\ locked' = [locked EXCEPT ![reader[r].of] = r]
             /\ reader' = [reader EXCEPT ![r].at = "fetch"]
    BY <1>0, <2>1, <2>2 DEF Reader
  <2> QED
    BY <1>2, <1>4, <2>2, LookAgainDoes
<1>5. ASSUME NEW r \in Readers, Query(r) PROVE LockInv'
  BY <1>0, <1>5 DEF Query, Reader
<1>6. ASSUME NEW r \in Readers, KeepValue(r) PROVE LockInv'
  <2>1. /\ locked[reader[r].of] = r /\ reader[r].of \in Caches
        /\ locked' = [locked EXCEPT ![reader[r].of] = NoTask]
        /\ reader' = [reader EXCEPT ![r].at = "done", ![r].value = reader[r].value]
    BY <1>0, <1>6, KeepDoes DEF Returns
  <2> QED
    BY <1>0, <2>1 DEF Reader
<1>7. ASSUME NEW r \in Readers, ReadEnds(r) PROVE LockInv'
  BY <1>0, <1>7 DEF ReadEnds, NoReader
<1>8. CASE ReadersSame
  BY <1>8 DEF ReadersSame
<1> QED
  BY <1>1, <1>3, <1>4, <1>5, <1>6, <1>7, <1>8, StepCases, TriagerDoes, TickDoes
  DEF SomeReader, ReadersSame, CacheVars

\* What was answered only grows.
LEMMA ReaderNext == ASSUME CacheInv, [CacheNext]_CacheVars PROVE ReaderInv'
<1> USE DEF CacheInv, ReaderInv
<1>0. reader \in [Readers -> Reader] /\ acknowledged \in Nat
  BY ReadCacheAssumption DEF CacheTypeOK
<1>1. ASSUME NEW r \in Readers, NEW c \in Caches, Ask(r, c) PROVE ReaderInv'
  BY <1>0, <1>1 DEF Ask
<1>2. ASSUME NEW r \in Readers, NEW n, Returns(r, n), reader[r].at # "free",
             UNCHANGED acknowledged
      PROVE  ReaderInv'
  BY <1>0, <1>2 DEF Returns, Reader
<1>3. ASSUME NEW r \in Readers, NEW a, reader' = [reader EXCEPT ![r].at = a],
             reader[r].at # "free", UNCHANGED acknowledged
      PROVE  ReaderInv'
  BY <1>0, <1>3 DEF Reader
<1>4. ASSUME NEW r \in Readers, Look(r) \/ LookAgain(r) \/ KeepValue(r) PROVE ReaderInv'
  <2>1. reader[r].at # "free" /\ UNCHANGED acknowledged
    BY <1>4, LookDoes, LookAgainDoes, KeepDoes DEF DatabaseSame
  <2>2. (\E n : Returns(r, n)) \/ (\E a : reader' = [reader EXCEPT ![r].at = a])
    BY <1>4, LookDoes, LookAgainDoes, KeepDoes
  <2> QED
    BY <1>2, <1>3, <2>1, <2>2
<1>5. ASSUME NEW r \in Readers, Query(r) PROVE ReaderInv'
  BY <1>0, <1>5 DEF Query, Reader
<1>6. ASSUME NEW r \in Readers, ReadEnds(r) PROVE ReaderInv'
  BY <1>0, <1>6 DEF ReadEnds, NoReader
<1>7. CASE reader' = reader /\ acknowledged' \in Nat /\ acknowledged <= acknowledged'
  BY <1>0, <1>7 DEF Reader
<1>8. ASSUME NEW t \in Triagers, SomeTriager(t)
      PROVE  reader' = reader /\ acknowledged' \in Nat /\ acknowledged <= acknowledged'
  <2>1. triager[t].value \in Nat
    BY ReadCacheAssumption DEF CacheTypeOK, Triager
  <2>2. \/ acknowledged' = acknowledged
        \/ acknowledged < triager[t].value /\ acknowledged' = triager[t].value
    BY <1>8, AnsweredDoes
  <2> QED
    BY <1>0, <1>8, <2>1, <2>2, TriagerDoes DEF ReadersSame
<1> QED
  BY <1>0, <1>1, <1>4, <1>5, <1>6, <1>7, <1>8, StepCases, TickDoes
  DEF SomeReader, ReadersSame, DatabaseSame, CacheVars

-----------------------------------------------------------------------------
\* No step brings back a value older than an update of the database its cache reflects.
LEMMA ReflectsStays ==
  ASSUME CacheInv, [CacheNext]_CacheVars, NEW c \in Caches, NEW n \in Nat, n <= triage,
         Reflects(c, n)
  PROVE  Reflects(c, n)'
<1> USE DEF CacheInv, Reflects
<1>0. /\ reader \in [Readers -> Reader] /\ cached \in [Caches -> SUBSET CachedValue]
      /\ \A r \in Readers : reader[r].at # "free" => reader[r].of \in Caches
  BY DEF CacheTypeOK, ReaderInv
<1>1. ASSUME NEW r \in Readers, NEW d \in Caches, Ask(r, d) PROVE Reflects(c, n)'
  BY <1>0, <1>1 DEF Ask
<1>2. ASSUME NEW r \in Readers, NEW m, Returns(r, m), UNCHANGED cached
      PROVE  Reflects(c, n)'
  BY <1>0, <1>2 DEF Returns, Reader
<1>3. ASSUME NEW r \in Readers, NEW a \in {"lock", "fetch"},
             reader' = [reader EXCEPT ![r].at = a], UNCHANGED cached
      PROVE  Reflects(c, n)'
  BY <1>0, <1>3 DEF Reader
<1>4. ASSUME NEW r \in Readers, Look(r) \/ LookAgain(r) PROVE Reflects(c, n)'
  BY <1>2, <1>3, <1>4, LookDoes, LookAgainDoes
<1>5. ASSUME NEW r \in Readers, Query(r) PROVE Reflects(c, n)'
  BY <1>0, <1>5 DEF Query, Reader
<1>6. ASSUME NEW r \in Readers, KeepValue(r) PROVE Reflects(c, n)'
  <2>1. /\ reader[r].at = "keep" /\ reader[r].of \in Caches
        /\ cached' = [cached EXCEPT ![reader[r].of] =
                        {[value |-> reader[r].value, age |-> 0]}]
        /\ reader' = [reader EXCEPT ![r].at = "done", ![r].value = reader[r].value]
    BY <1>0, <1>6, KeepDoes DEF Returns
  <2> QED
    BY <1>0, <2>1 DEF Reader
<1>7. ASSUME NEW r \in Readers, ReadEnds(r) PROVE Reflects(c, n)'
  BY <1>0, <1>7 DEF ReadEnds, NoReader
<1>8. ASSUME NEW t \in Triagers, SomeTriager(t) PROVE Reflects(c, n)'
  BY <1>8, TriagerDoes DEF ReadersSame
<1>9. CASE CacheTick
  <2>1. /\ cached'[c] = {Older(v) : v \in cached[c]} /\ reader' = reader
        /\ \A v \in cached[c] : Older(v).value = v.value
    BY <1>0, <1>9, TickDoes DEF ReadersSame
  <2> QED
    BY <2>1
<1>10. CASE UNCHANGED CacheVars
  BY <1>10 DEF CacheVars
<1> QED
  BY <1>1, <1>4, <1>5, <1>6, <1>7, <1>8, <1>9, <1>10, StepCases DEF SomeReader

\* A cache that is invalidated is locked by nobody, so nobody is about to fill it.
LEMMA InvalidatedReflects ==
  ASSUME CacheInv, NEW t \in Triagers, Invalidate(t), NEW n,
         NEW i \in DOMAIN Invalidated, i = triager[t].next
  PROVE  Reflects(Invalidated[i], n)'
<1>1. /\ locked[Invalidated[i]] = NoTask /\ UNCHANGED <<locked, reader>>
      /\ cached' = [cached EXCEPT ![Invalidated[i]] = {}]
  BY DEF Invalidate
<1>2. ASSUME NEW r \in Readers, reader[r].at = "keep", reader[r].of = Invalidated[i]
      PROVE  FALSE
  BY <1>1, <1>2, ReadCacheAssumption DEF CacheInv, LockInv, Fetching
<1>3. cached'[Invalidated[i]] = {}
  BY <1>1 DEF CacheInv, CacheTypeOK, Caches
<1> QED
  BY <1>1, <1>2, <1>3 DEF Reflects

\* The database only moves on.
LEMMA TriageGrows ==
  ASSUME CacheInv, [CacheNext]_CacheVars
  PROVE  triage \in Nat /\ triage' \in Nat /\ triage <= triage'
<1>1. triage \in Nat
  BY ReadCacheAssumption DEF CacheInv, CacheTypeOK
<1>2. triage' = triage \/ triage' = triage + 1
  BY StepCases, ReaderDoes, TickDoes DEF SomeTriager, UpdateTriage, Invalidate, AnswerUpdate,
     UpdateEnds, DatabaseSame, CacheVars
<1> QED
  BY <1>1, <1>2

\* Every sequence of caches has caches as its elements.
LEMMA CachesOf ==
  /\ Len(Invalidated) \in Nat /\ DOMAIN Invalidated = 1..Len(Invalidated)
  /\ \A i \in DOMAIN Invalidated : Invalidated[i] \in Caches
BY ReadCacheAssumption DEF Caches

\* An update goes on through the caches.
LEMMA UpdateNext == ASSUME CacheInv, [CacheNext]_CacheVars PROVE UpdateInv'
<1> SUFFICES ASSUME NEW t \in Triagers, NEW n \in Nat,
                    triager'[t].at = "invalidate", triager'[t].value = n
             PROVE  /\ n <= triage'
                    /\ \A i \in DOMAIN Invalidated :
                         i < triager'[t].next => Reflects(Invalidated[i], n)'
  BY DEF UpdateInv
<1> USE DEF CacheInv
<1>0. triager \in [Triagers -> Triager] /\ triager[t].next \in Nat
  BY CachesOf DEF CacheTypeOK, Triager
<1>1. ASSUME triager[t].at = "invalidate", triager[t].value = n
      PROVE  /\ n <= triage'
             /\ \A i \in DOMAIN Invalidated :
                  i < triager[t].next => Reflects(Invalidated[i], n)'
  <2>1. n <= triage
    BY <1>1 DEF UpdateInv
  <2>2. ASSUME NEW i \in DOMAIN Invalidated, i < triager[t].next
        PROVE  Reflects(Invalidated[i], n)'
    BY <1>1, <2>1, <2>2, CachesOf, ReflectsStays DEF UpdateInv
  <2> QED
    BY <2>1, <2>2, TriageGrows
<1>2. CASE triager'[t] = triager[t]
  BY <1>1, <1>2
<1>3. CASE UpdateTriage(t)
  <2>1. triager'[t].next = 1 /\ n = triage'
    BY <1>0, <1>3 DEF UpdateTriage, Triager
  <2> QED
    BY <2>1, CachesOf, TriageGrows
<1>4. CASE Invalidate(t)
  <2>1. /\ triager[t].at = "invalidate" /\ triager[t].value = n
        /\ triager'[t].next = triager[t].next + 1
    BY <1>0, <1>4 DEF Invalidate, Triager
  <2>2. ASSUME NEW i \in DOMAIN Invalidated, i = triager[t].next
        PROVE  Reflects(Invalidated[i], n)'
    BY <1>4, <2>2, InvalidatedReflects
  <2>3. \A i \in DOMAIN Invalidated :
          i < triager[t].next + 1 => i = triager[t].next \/ i < triager[t].next
    BY <1>0, CachesOf
  <2> QED
    BY <1>1, <2>1, <2>2, <2>3
<1>5. CASE AnswerUpdate(t) \/ UpdateEnds(t)
  BY <1>0, <1>5 DEF AnswerUpdate, UpdateEnds, NoTriager
<1>6. \/ triager'[t] = triager[t] \/ UpdateTriage(t) \/ Invalidate(t)
      \/ AnswerUpdate(t) \/ UpdateEnds(t)
  BY StepCases, ReaderDoes, TriagerDoes, TickDoes DEF DatabaseSame, SomeTriager, CacheVars
<1> QED
  BY <1>2, <1>3, <1>4, <1>5, <1>6

\* An update is answered when all caches reflect it.
LEMMA AnswerNext == ASSUME CacheInv, [CacheNext]_CacheVars PROVE AnswerInv'
<1> SUFFICES ASSUME NEW n \in Nat, acknowledged' = n
             PROVE  n <= triage' /\ \A c \in Caches : Reflects(c, n)'
  BY DEF AnswerInv
<1> USE DEF CacheInv
<1>1. CASE acknowledged = n
  <2>1. n <= triage /\ \A c \in Caches : Reflects(c, n)
    BY <1>1 DEF AnswerInv
  <2> QED
    BY <2>1, ReflectsStays, TriageGrows
<1>2. ASSUME NEW t \in Triagers, AnswerUpdate(t), triager[t].value = n
      PROVE  n <= triage' /\ \A c \in Caches : Reflects(c, n)'
  <2>1. triager[t].at = "invalidate" /\ Len(Invalidated) < triager[t].next
        /\ triager[t].next \in Nat
    BY <1>2, CachesOf DEF AnswerUpdate, CacheTypeOK, Triager
  <2>2. n <= triage
    BY <1>2, <2>1 DEF UpdateInv
  <2>3. ASSUME NEW c \in Caches PROVE Reflects(c, n)'
    <3>1. PICK i \in DOMAIN Invalidated : c = Invalidated[i]
      BY DEF Caches
    <3>2. i < triager[t].next
      BY <2>1, CachesOf
    <3>3. Reflects(c, n)
      BY <1>2, <2>1, <3>1, <3>2 DEF UpdateInv
    <3> QED
      BY <2>2, <3>3, ReflectsStays
  <2> QED
    BY <2>2, <2>3, TriageGrows
<1>3. acknowledged = n
      \/ \E t \in Triagers : AnswerUpdate(t) /\ triager[t].value = n
  BY StepCases, ReaderDoes, TickDoes
  DEF DatabaseSame, SomeTriager, UpdateTriage, Invalidate, AnswerUpdate, UpdateEnds, CacheVars
<1> QED
  BY <1>1, <1>2, <1>3

\* What a reader gets reflects what was answered before it asked.
LEMMA ReadNext == ASSUME CacheInv, [CacheNext]_CacheVars PROVE NoStaleRead'
<1> USE DEF CacheInv, NoStaleRead
<1>0. reader \in [Readers -> Reader] /\ acknowledged \in Nat
  BY ReadCacheAssumption DEF CacheTypeOK
<1>1. ASSUME NEW r \in Readers, NEW c \in Caches, Ask(r, c) PROVE NoStaleRead'
  BY <1>0, <1>1 DEF Ask
<1>2. ASSUME NEW r \in Readers, NEW m, Returns(r, m), reader[r].since <= m
      PROVE  NoStaleRead'
  BY <1>0, <1>2 DEF Returns, Reader
<1>3. ASSUME NEW r \in Readers, NEW a \in {"lock", "fetch"},
             reader' = [reader EXCEPT ![r].at = a]
      PROVE  NoStaleRead'
  BY <1>0, <1>3 DEF Reader
<1>4. ASSUME NEW r \in Readers, reader[r].at # "free"
      PROVE  /\ \A v \in cached[reader[r].of] : reader[r].since <= v.value
             /\ reader[r].at = "keep" => reader[r].since <= reader[r].value
  <2>1. /\ reader[r].of \in Caches /\ reader[r].since <= acknowledged
        /\ reader[r].since \in Nat /\ reader[r].value \in Nat
        /\ cached[reader[r].of] \subseteq CachedValue
    BY <1>4, ReadCacheAssumption DEF ReaderInv, CacheTypeOK, Reader
  <2>2. Reflects(reader[r].of, acknowledged)
    BY <1>0, <2>1 DEF AnswerInv
  <2>3. \A v \in CachedValue : v.value \in Nat
    BY ReadCacheAssumption DEF CachedValue
  <2> QED
    BY <1>0, <2>1, <2>2, <2>3 DEF Reflects
<1>5. ASSUME NEW r \in Readers, Look(r) \/ LookAgain(r) \/ KeepValue(r) PROVE NoStaleRead'
  <2>1. \/ \E m : Returns(r, m) /\ reader[r].since <= m
        \/ \E a \in {"lock", "fetch"} : reader' = [reader EXCEPT ![r].at = a]
    BY <1>4, <1>5, LookDoes, LookAgainDoes, KeepDoes
  <2> QED
    BY <1>2, <1>3, <2>1
<1>6. ASSUME NEW r \in Readers, Query(r) \/ ReadEnds(r) PROVE NoStaleRead'
  BY <1>0, <1>6 DEF Query, ReadEnds, NoReader, Reader
<1>7. CASE reader' = reader
  BY <1>7
<1> QED
  BY <1>1, <1>5, <1>6, <1>7, StepCases, TriagerDoes, TickDoes
  DEF SomeReader, ReadersSame, CacheVars

-----------------------------------------------------------------------------
\* The invariant always holds.
THEOREM CacheInvAlways == CacheSpec => []CacheInv
<1>1. CacheInv /\ [CacheNext]_CacheVars => CacheInv'
  BY CacheTypeNext, LockNext, ReaderNext, UpdateNext, AnswerNext, ReadNext DEF CacheInv
<1> QED
  BY <1>1, CacheInvInit, PTL DEF CacheSpec

\* Every variable keeps its type.
THEOREM CacheTypeCorrect == CacheSpec => []CacheTypeOK
<1>1. CacheInv => CacheTypeOK
  BY DEF CacheInv
<1> QED
  BY <1>1, CacheInvAlways, PTL

\* Whoever asks after an update of a triage was answered sees the update.
THEOREM NoStaleReadCorrect == CacheSpec => []NoStaleRead
<1>1. CacheInv => NoStaleRead
  BY DEF CacheInv
<1> QED
  BY <1>1, CacheInvAlways, PTL

(***************************************************************************)
(* The multi-server dashboard                                              *)
(***************************************************************************)
\* A list is at most n ticks old, or it shows no server.
Within(list, n) == list = {} \/ past[list] <= n

\* How old is what a request has in hand, where it is.
InHand(w) ==
  /\ watcher[w].at = "look" => Within(watcher[w].list, 0)
  /\ watcher[w].at = "fetch" => Within(watcher[w].list, watcher[w].waited)
  /\ watcher[w].at = "keep" => Within(watcher[w].cards, Patience)
  /\ watcher[w].at = "shown" => Within(watcher[w].cards, Shown + Patience)

\* The table is its own list now; an aggregate that is served ages with its list.
AgesInv ==
  /\ past[servers] = 0
  /\ \A w \in Watchers : InHand(w)
  /\ \A a \in aggregate : a.age < Shown => Within(a.cards, Patience + a.age)

DashboardInv == DashboardTypeOK /\ AgesInv

-----------------------------------------------------------------------------
\* The durations are numbers.
LEMMA DurationsAre ==
  /\ Shown \in Nat \ {0} /\ Patience \in Nat /\ Long \in Nat
  /\ Long = Shown + Patience + 1
BY DashboardAssumption DEF Long

\* An edit replaces the table; its list is new.
LEMMA EditDoes ==
  ASSUME CreateServer \/ DeleteServer \/ UpdateServer, DashboardTypeOK
  PROVE  /\ servers' \in Lists /\ past' = [past EXCEPT ![servers'] = 0]
         /\ UNCHANGED <<aggregate, watcher>>
BY DEF CreateServer, DeleteServer, UpdateServer, Edit, Lists, DashboardTypeOK

\* A request that was not begun is one.
LEMMA AwayIs ==
  /\ Away \in Watcher
  /\ \A list \in Lists : /\ [Away EXCEPT !.at = "look", !.list = list] \in Watcher
                        /\ [Away EXCEPT !.at = "keep", !.cards = list] \in Watcher
<1>1. {} \in Lists /\ 0 \in 0..Patience
  BY DurationsAre DEF Lists
<1>2. Away \in Watcher
  BY <1>1 DEF Away, Watcher
<1>3. ASSUME NEW list \in Lists
      PROVE  /\ [Away EXCEPT !.at = "look", !.list = list] \in Watcher
             /\ [Away EXCEPT !.at = "keep", !.cards = list] \in Watcher
  BY <1>1, <1>3 DEF Away, Watcher
<1>4. QED
  BY <1>2, <1>3

\* What a request does changes its own place only; none touches the table.
LEMMA WatcherDoes ==
  ASSUME DashboardTypeOK, NEW w \in Watchers,
         ListServers(w) \/ LookUpAggregate(w) \/ FetchAll(w) \/ KeepAggregate(w)
         \/ LeaveDashboard(w)
  PROVE  /\ UNCHANGED <<servers, past>>
         /\ \A v \in Watchers : v # w => watcher'[v] = watcher[v]
         /\ KeepAggregate(w) \/ UNCHANGED aggregate
<1>1. watcher \in [Watchers -> Watcher]
  BY DEF DashboardTypeOK
<1>2. CASE ListServers(w)
  BY <1>1, <1>2 DEF ListServers
<1>3. CASE LookUpAggregate(w)
  BY <1>1, <1>3 DEF LookUpAggregate, Go
<1>4. CASE FetchAll(w)
  BY <1>1, <1>4 DEF FetchAll, Has
<1>5. CASE KeepAggregate(w)
  BY <1>1, <1>5 DEF KeepAggregate, Go
<1>6. CASE LeaveDashboard(w)
  BY <1>1, <1>6 DEF LeaveDashboard
<1>7. QED
  BY <1>2, <1>3, <1>4, <1>5, <1>6

\* Every step keeps the types.
LEMMA TypeNext ==
  ASSUME DashboardTypeOK, [DashboardNext]_dashboardVars
  PROVE  DashboardTypeOK'
<1> USE DurationsAre DEF DashboardTypeOK
<1>1. CASE CreateServer \/ DeleteServer \/ UpdateServer
  BY <1>1, EditDoes
<1>2. ASSUME NEW w \in Watchers, ListServers(w) PROVE DashboardTypeOK'
  <2>1. PICK list \in Lists :
          watcher' = [watcher EXCEPT ![w] = [Away EXCEPT !.at = "look", !.list = list]]
    BY <1>2 DEF ListServers, Lists
  <2>2. watcher' \in [Watchers -> Watcher]
    BY <2>1, AwayIs
  <2>3. QED
    BY <1>2, <2>2 DEF ListServers
<1>3. ASSUME NEW w \in Watchers, LookUpAggregate(w) PROVE DashboardTypeOK'
  BY <1>3 DEF LookUpAggregate, Go, Watcher
<1>4. ASSUME NEW w \in Watchers, FetchAll(w) PROVE DashboardTypeOK'
  <2>1. watcher[w].list \in Lists
    BY DEF Watcher
  <2>2. watcher' = [watcher EXCEPT ![w] =
                     [Away EXCEPT !.at = "keep", !.cards = watcher[w].list]]
    BY <1>4 DEF FetchAll, Has
  <2>3. watcher' \in [Watchers -> Watcher]
    BY <2>1, <2>2, AwayIs
  <2>4. QED
    BY <1>4, <2>3 DEF FetchAll
<1>5. ASSUME NEW w \in Watchers, KeepAggregate(w) PROVE DashboardTypeOK'
  BY <1>5 DEF KeepAggregate, Go, Watcher
<1>6. ASSUME NEW w \in Watchers, LeaveDashboard(w) PROVE DashboardTypeOK'
  BY <1>6, AwayIs DEF LeaveDashboard
<1>7. CASE DashboardTick
  <2>1. watcher' \in [Watchers -> Watcher]
    BY <1>7 DEF DashboardTick, Patient, Watcher
  <2>2. aggregate' \subseteq [cards : Lists, age : 0..Shown]
    BY <1>7 DEF DashboardTick
  <2>3. past' \in [Lists -> 0..Long]
    BY <1>7 DEF DashboardTick
  <2>4. QED
    BY <1>7, <2>1, <2>2, <2>3 DEF DashboardTick
<1>8. CASE UNCHANGED dashboardVars
  BY <1>8 DEF dashboardVars
<1>9. QED
  BY <1>1, <1>2, <1>3, <1>4, <1>5, <1>6, <1>7, <1>8 DEF DashboardNext

\* If one request moves on in order and no aggregate changes, the ages are kept.
LEMMA OneMoves ==
  ASSUME DashboardTypeOK, AgesInv, NEW w \in Watchers, InHand(w)',
         ListServers(w) \/ LookUpAggregate(w) \/ FetchAll(w) \/ LeaveDashboard(w),
         UNCHANGED aggregate
  PROVE  AgesInv'
<1>1. UNCHANGED <<servers, past>> /\ \A v \in Watchers : v # w => watcher'[v] = watcher[v]
  BY WatcherDoes
<1>2. \A v \in Watchers : InHand(v)'
  BY <1>1 DEF AgesInv, InHand, Within
<1>3. QED
  BY <1>1, <1>2 DEF AgesInv, Within

\* Every step keeps the ages.
LEMMA AgesNext ==
  ASSUME DashboardTypeOK, AgesInv, [DashboardNext]_dashboardVars
  PROVE  AgesInv'
<1> USE DurationsAre
<1>1. CASE CreateServer \/ DeleteServer \/ UpdateServer
  <2>1. /\ servers' \in Lists /\ past' = [past EXCEPT ![servers'] = 0]
        /\ UNCHANGED <<aggregate, watcher>>
    BY <1>1, EditDoes
  <2>2. past'[servers'] = 0
    BY <2>1 DEF DashboardTypeOK
  <2>3. \A l \in Lists : past'[l] <= past[l]
    BY <2>1 DEF DashboardTypeOK
  <2>4. \A l \in Lists, n \in Nat : Within(l, n) => Within(l, n)'
    BY <2>1, <2>3 DEF Within, DashboardTypeOK
  <2>5. QED
    BY <2>1, <2>2, <2>4 DEF AgesInv, InHand, DashboardTypeOK, Watcher
<1>2. ASSUME NEW w \in Watchers, ListServers(w) PROVE AgesInv'
  <2>1. PICK list \in {servers, {}} :
          watcher' = [watcher EXCEPT ![w] = [Away EXCEPT !.at = "look", !.list = list]]
    BY <1>2 DEF ListServers
  <2>2. watcher'[w].at = "look" /\ watcher'[w].list = list
    BY <2>1 DEF Away, DashboardTypeOK
  <2>3. InHand(w)'
    BY <1>2, <2>2 DEF ListServers, InHand, Within, AgesInv
  <2>4. QED
    BY <1>2, <2>3, OneMoves DEF ListServers
<1>3. ASSUME NEW w \in Watchers, LookUpAggregate(w) PROVE AgesInv'
  <2>1. watcher[w] \in Watcher /\ watcher[w].at = "look" /\ past' = past
    BY <1>3 DEF LookUpAggregate, DashboardTypeOK
  <2>2. ASSUME NEW a \in aggregate, IsFresh(a), watcher' =
                 [watcher EXCEPT ![w].at = "shown", ![w].cards = a.cards]
        PROVE  InHand(w)'
    <3>1. watcher'[w].at = "shown" /\ watcher'[w].cards = a.cards
      BY <2>1, <2>2 DEF DashboardTypeOK, Watcher
    <3>2. Within(a.cards, Patience + a.age) /\ a.age \in Nat /\ a.age < Shown
          /\ a.cards \in Lists
      BY <2>2 DEF AgesInv, IsFresh, DashboardTypeOK
    <3>3. Within(a.cards, Shown + Patience)
      BY <3>2 DEF Within, DashboardTypeOK
    <3>4. QED
      BY <2>1, <3>1, <3>3 DEF InHand, Within
  <2>3. ASSUME watcher' = [watcher EXCEPT ![w].at = "fetch"] PROVE InHand(w)'
    <3>1. /\ watcher'[w].at = "fetch" /\ watcher'[w].list = watcher[w].list
          /\ watcher'[w].waited = watcher[w].waited /\ watcher[w].waited \in Nat
          /\ watcher[w].list \in Lists
      BY <2>1, <2>3 DEF DashboardTypeOK, Watcher
    <3>2. Within(watcher[w].list, watcher[w].waited)
      BY <2>1, <3>1 DEF AgesInv, InHand, Within, DashboardTypeOK
    <3>3. QED
      BY <2>1, <3>1, <3>2 DEF InHand, Within
  <2>4. InHand(w)'
    BY <1>3, <2>2, <2>3 DEF LookUpAggregate, Go
  <2>5. QED
    BY <1>3, <2>4, OneMoves DEF LookUpAggregate
<1>4. ASSUME NEW w \in Watchers, FetchAll(w) PROVE AgesInv'
  <2>1. /\ watcher[w] \in Watcher /\ watcher[w].at = "fetch" /\ past' = past
        /\ watcher' = [watcher EXCEPT ![w] =
                         [Away EXCEPT !.at = "keep", !.cards = watcher[w].list]]
    BY <1>4 DEF FetchAll, Has, DashboardTypeOK
  <2>2. watcher'[w].at = "keep" /\ watcher'[w].cards = watcher[w].list
    BY <2>1 DEF Away, DashboardTypeOK
  <2>3. Within(watcher[w].list, Patience)
    <3>1. /\ watcher[w].list \in Lists /\ watcher[w].waited \in 0..Patience
          /\ past[watcher[w].list] \in Nat
      BY <2>1 DEF DashboardTypeOK, Watcher
    <3>2. Within(watcher[w].list, watcher[w].waited)
      BY <2>1 DEF AgesInv, InHand
    <3>3. QED
      BY <3>1, <3>2 DEF Within
  <2>4. InHand(w)'
    BY <2>1, <2>2, <2>3 DEF InHand, Within
  <2>5. QED
    BY <1>4, <2>4, OneMoves DEF FetchAll
<1>5. ASSUME NEW w \in Watchers, KeepAggregate(w) PROVE AgesInv'
  <2>1. /\ watcher[w] \in Watcher /\ watcher[w].at = "keep" /\ UNCHANGED <<past, servers>>
        /\ watcher' = [watcher EXCEPT ![w].at = "shown"]
        /\ aggregate' = {[cards |-> watcher[w].cards, age |-> 0]}
    BY <1>5 DEF KeepAggregate, Go, DashboardTypeOK
  <2>2. /\ watcher'[w].at = "shown" /\ watcher'[w].cards = watcher[w].cards
        /\ watcher[w].cards \in Lists
    BY <2>1 DEF Watcher, DashboardTypeOK
  <2>3. Within(watcher[w].cards, Patience)
    BY <2>1 DEF AgesInv, InHand
  <2>4. Within(watcher[w].cards, Shown + Patience)
    BY <2>2, <2>3 DEF Within, DashboardTypeOK
  <2>5. InHand(w)'
    BY <2>1, <2>2, <2>4 DEF InHand, Within
  <2>6. \A v \in Watchers : InHand(v)'
    BY <1>5, <2>1, <2>5, WatcherDoes DEF AgesInv, InHand, Within
  <2>7. \A a \in aggregate' : Within(a.cards, Patience + a.age)'
    BY <2>1, <2>3 DEF Within
  <2>8. QED
    BY <2>1, <2>6, <2>7 DEF AgesInv
<1>6. ASSUME NEW w \in Watchers, LeaveDashboard(w) PROVE AgesInv'
  <2>1. watcher'[w].at = "away"
    BY <1>6 DEF LeaveDashboard, Away, DashboardTypeOK
  <2>2. InHand(w)'
    BY <2>1 DEF InHand
  <2>3. QED
    BY <1>6, <2>2, OneMoves DEF LeaveDashboard
<1>7. CASE DashboardTick
  <2>1. /\ \A l \in Lists : past'[l] <= past[l] + 1 /\ past'[l] \in Nat /\ past[l] \in Nat
        /\ past'[servers'] = past[servers]
    BY <1>7 DEF DashboardTick, DashboardTypeOK
  <2>2. \A l \in Lists, n \in Nat : Within(l, n) => Within(l, n + 1)'
    BY <2>1 DEF Within
  <2>3. ASSUME NEW w \in Watchers PROVE InHand(w)'
    <3>1. watcher[w] \in Watcher /\ Patient(w)
          /\ watcher'[w] = IF watcher[w].at = "fetch"
                           THEN [watcher[w] EXCEPT !.waited = @ + 1] ELSE watcher[w]
      BY <1>7 DEF DashboardTick, DashboardTypeOK
    <3>2. CASE watcher[w].at = "away"
      BY <3>1, <3>2 DEF InHand
    <3>3. CASE watcher[w].at = "fetch"
      <4>1. /\ watcher'[w].at = "fetch" /\ watcher'[w].list = watcher[w].list
            /\ watcher'[w].waited = watcher[w].waited + 1 /\ watcher[w].waited \in Nat
            /\ watcher[w].list \in Lists
        BY <3>1, <3>3 DEF Watcher
      <4>2. Within(watcher[w].list, watcher[w].waited)
        BY <3>3 DEF AgesInv, InHand
      <4>3. \A l \in Lists, n \in Nat : Within(l, n) => l = {} \/ past'[l] <= n + 1
        BY <2>2 DEF Within
      <4>4. QED
        BY <4>1, <4>2, <4>3 DEF InHand, Within
    <3>4. QED
      BY <3>1, <3>2, <3>3 DEF Patient
  <2>4. ASSUME NEW b \in aggregate', b.age < Shown PROVE Within(b.cards, Patience + b.age)'
    <3>1. PICK a \in aggregate : b = [a EXCEPT !.age = IF @ < Shown THEN @ + 1 ELSE @]
      BY <1>7 DEF DashboardTick
    <3>2. a.cards \in Lists /\ a.age \in Nat /\ a \in [cards : Lists, age : 0..Shown]
      BY DEF DashboardTypeOK
    <3>3. b.cards = a.cards /\ b.age = a.age + 1 /\ a.age < Shown
      BY <2>4, <3>1, <3>2
    <3>4. a.cards = {} \/ past[a.cards] <= Patience + a.age
      BY <3>3 DEF AgesInv, Within
    <3>5. b.cards = {} \/ past'[b.cards] <= Patience + b.age
      BY <2>1, <3>2, <3>3, <3>4
    <3>6. QED
      BY <3>5 DEF Within
  <2>5. QED
    BY <2>1, <2>3, <2>4 DEF AgesInv
<1>8. CASE UNCHANGED dashboardVars
  BY <1>8 DEF dashboardVars, AgesInv, InHand, Within
<1>9. QED
  BY <1>1, <1>2, <1>3, <1>4, <1>5, <1>6, <1>7, <1>8 DEF DashboardNext

-----------------------------------------------------------------------------
\* Everything holds when the service starts.
THEOREM DashboardInvInit == DashboardInit => DashboardInv
BY DurationsAre DEF DashboardInit, DashboardInv, DashboardTypeOK, AgesInv, InHand, Within, Away,
   Watcher, Lists

\* Every step keeps it, so it always holds.
THEOREM DashboardInvAlways == DashboardSpec => []DashboardInv
<1>1. DashboardInv /\ [DashboardNext]_dashboardVars => DashboardInv'
  BY TypeNext, AgesNext DEF DashboardInv
<1>2. QED
  BY <1>1, DashboardInvInit, PTL DEF DashboardSpec

\* The dashboard is type correct.
THEOREM DashboardTypeCorrect == DashboardSpec => []DashboardTypeOK
<1>1. DashboardInv => DashboardTypeOK
  BY DEF DashboardInv
<1>2. QED
  BY <1>1, DashboardInvAlways, PTL

\* What a dashboard shows was configured not longer ago than an aggregate is
\* served and the servers are waited for.
THEOREM DashboardCorrect == DashboardSpec => []DashboardIsRecent
<1>1. DashboardInv => DashboardIsRecent
  BY DEF DashboardInv, AgesInv, InHand, Within, DashboardIsRecent
<1>2. QED
  BY <1>1, DashboardInvAlways, PTL

(***************************************************************************)
(* A request to the model                                                  *)
(***************************************************************************)
\* What the server said of a stream that is read is what the parser has and what
\* the buffer still says; in the buffer that waits for more no event ends.
Heard(t, s) ==
  /\ WellFormed(t.buffer)
  /\ t.at = "read" => Lines(t.buffer) = {}
  /\ s.parts = t.parts + Cardinality(Parts(t.buffer))
  /\ s.last = LastOf(t.buffer)
  /\ IsOver(t.buffer, s.over)

\* A stream that is not read is silent; what [DONE] ended was given.
StreamInv ==
  \A c \in Calls :
    IF call[c].at \in {"read", "push"}
    THEN /\ Heard(call[c], server[c])
         /\ server[c].over = "done" => Whole(c, server[c].parts) \subseteq given
    ELSE server[c] = Silence

ModelInv == ModelTypeOK /\ AnswerIsWhole /\ StreamInv

States  == {"idle", "look", "send", "read", "push", "whole", "hit", "answer"} \cup Class
CallRec == [at : States, options : BOOLEAN, buffer : Seq(Piece), parts : Nat]
Speech  == [parts : Nat, last : Piece, over : {"no", "error", "done"}]

-----------------------------------------------------------------------------
(***************************************************************************)
(* The texts of a stream                                                   *)
(***************************************************************************)
\* The first event of a buffer ends at i; the rest of it, in what is drained.
IsFirst(b, i) == i \in Lines(b) /\ \A j \in Lines(b) : i <= j
Rest(b, i) == SubSeq(b, i + 1, Len(b))

\* What is left of a buffer when its first i pieces are taken.
LEMMA RestIs ==
  ASSUME NEW b \in Seq(Piece), NEW i \in 1..Len(b)
  PROVE  /\ Rest(b, i) \in Seq(Piece) /\ Len(Rest(b, i)) = Len(b) - i
         /\ \A k \in 1..Len(Rest(b, i)) : Rest(b, i)[k] = b[i + k]
BY DEF Rest

\* Taken the first event, the others end where they did and say what they said.
LEMMA EventsAreLeft ==
  ASSUME NEW b \in Seq(Piece), NEW i, IsFirst(b, i),
         NEW r, r = Rest(b, i)
  PROVE  /\ r \in Seq(Piece) /\ i \in Lines(b) /\ i \in 1..Len(b) /\ Len(r) = Len(b) - i
         /\ Lines(r) \subseteq 1..Len(r) /\ Lines(b) \subseteq 1..Len(b)
         /\ i \in Nat /\ Lines(r) \subseteq Nat /\ Lines(b) \subseteq Nat
         /\ \A k \in Lines(r) : i + k \in Lines(b) /\ Event(r, k) = Event(b, i + k)
         /\ \A j \in Lines(b) : j = i \/ (j > i /\ j - i \in Lines(r))
<1>1. /\ i \in 1..Len(b) /\ b[i] = "end"
      /\ \A j \in Lines(b) : i <= j
  BY DEF Lines, IsFirst
<1>2. /\ r \in Seq(Piece) /\ Len(r) = Len(b) - i
      /\ \A k \in 1..Len(r) : r[k] = b[i + k]
  BY <1>1, RestIs
<1>3. \A k \in Lines(r) : i + k \in Lines(b)
  BY <1>1, <1>2 DEF Lines
<1>4. \A j \in Lines(b) : j = i \/ (j > i /\ j - i \in Lines(r))
  <2>1. SUFFICES ASSUME NEW j \in Lines(b), j # i
                 PROVE  j > i /\ j - i \in Lines(r)
    OBVIOUS
  <2>2. j \in 1..Len(b) /\ b[j] = "end" /\ j > i
    BY <1>1, <2>1 DEF Lines
  <2>3. j - i \in 1..Len(r) /\ i + (j - i) = j
    BY <1>1, <1>2, <2>2
  <2>4. r[j - i] = "end"
    BY <1>2, <2>2, <2>3
  <2> QED
    BY <1>2, <2>2, <2>3, <2>4 DEF Lines
<1>5. ASSUME NEW k \in Lines(r)
      PROVE  Event(r, k) = Event(b, i + k)
  <2>1. k \in 1..Len(r)
    BY <1>2 DEF Lines
  <2>2. CASE k = 1
    BY <1>1, <2>2 DEF Event
  <2>3. CASE k > 1
    <3>1. k - 1 \in 1..Len(r) /\ i + (k - 1) = (i + k) - 1 /\ i + k > 1
      BY <1>1, <1>2, <2>1, <2>3
    <3>2. r[k - 1] = b[(i + k) - 1]
      BY <1>2, <3>1
    <3> QED
      BY <2>3, <3>1, <3>2 DEF Event
  <2> QED
    BY <2>1, <2>2, <2>3
<1> QED
  BY <1>1, <1>2, <1>3, <1>4, <1>5 DEF Lines

\* The parts of a text are finitely many.
LEMMA PartsAreFinite ==
  ASSUME NEW b \in Seq(Piece)
  PROVE  IsFiniteSet(Parts(b)) /\ Cardinality(Parts(b)) \in Nat
<1>1. IsFiniteSet(1..Len(b))
  BY FS_Interval
<1>2. Parts(b) \in SUBSET (1..Len(b))
  BY DEF Parts, Lines
<1> QED
  BY <1>1, <1>2, FS_Subset, FS_CardinalityType

\* Unless the first event is the last that counts, the others are over as before.
LEMMA OverIsLeft ==
  ASSUME NEW b \in Seq(Piece), NEW i, IsFirst(b, i),
         Event(b, i) \notin {"done", "error"},
         NEW r, r = Rest(b, i), NEW how, IsOver(b, how)
  PROVE  /\ IsOver(r, how)
         /\ \A k \in Overs(r) : i + k \in Overs(b)
         /\ \A j \in Overs(b) : j > i /\ j - i \in Overs(r)
<1>1. /\ i \in Nat /\ i \in Lines(b) /\ Lines(r) \subseteq Nat /\ Lines(b) \subseteq Nat
      /\ \A k \in Lines(r) : i + k \in Lines(b) /\ Event(r, k) = Event(b, i + k)
      /\ \A j \in Lines(b) : j = i \/ (j > i /\ j - i \in Lines(r))
  BY EventsAreLeft
<1>2. \A k \in Overs(r) : i + k \in Overs(b)
  BY <1>1 DEF Overs
<1>3. \A j \in Overs(b) : j > i /\ j - i \in Overs(r)
  <2>1. SUFFICES ASSUME NEW j \in Overs(b)
                 PROVE  j > i /\ j - i \in Overs(r)
    OBVIOUS
  <2>2. j \in Lines(b) /\ j # i /\ Event(b, j) \in {"done", "error"}
    BY DEF Overs
  <2>3. j \in Nat /\ j > i /\ j - i \in Lines(r) /\ i + (j - i) = j
    BY <1>1, <2>2
  <2>4. Event(r, j - i) = Event(b, j)
    BY <1>1, <2>3
  <2> QED
    BY <2>2, <2>3, <2>4 DEF Overs
<1>4. IsOver(r, how)
  <2>1. CASE Overs(b) = {}
    BY <1>2, <2>1 DEF IsOver
  <2>2. CASE Overs(b) # {}
    <3>1. PICK j \in Overs(b) : Event(b, j) = how /\ \A m \in Overs(b) : j <= m
      BY <2>2 DEF IsOver
    <3>2. j - i \in Overs(r) /\ j > i /\ j \in Nat
      BY <1>1, <1>3 DEF Overs
    <3>3. Event(r, j - i) = how
      BY <1>1, <3>1, <3>2 DEF Overs
    <3>4. \A k \in Overs(r) : j - i <= k
      BY <1>1, <1>2, <3>1, <3>2 DEF Overs
    <3> QED
      BY <3>2, <3>3, <3>4 DEF IsOver
  <2> QED
    BY <2>1, <2>2
<1> QED
  BY <1>2, <1>3, <1>4

\* And its parts are the first event, if it is one, and the parts of the rest.
LEMMA PartsAreLeft ==
  ASSUME NEW b \in Seq(Piece), NEW i, IsFirst(b, i),
         Event(b, i) \notin {"done", "error"},
         NEW r, r = Rest(b, i), NEW how, IsOver(b, how)
  PROVE  Cardinality(Parts(b)) = Cardinality(Parts(r)) + (IF Event(b, i) = "part" THEN 1 ELSE 0)
<1>1. /\ i \in Nat /\ i \in Lines(b) /\ Lines(r) \subseteq Nat /\ Lines(b) \subseteq Nat
      /\ \A k \in Lines(r) : i + k \in Lines(b) /\ Event(r, k) = Event(b, i + k)
      /\ \A j \in Lines(b) : j = i \/ (j > i /\ j - i \in Lines(r))
      /\ r \in Seq(Piece)
  BY EventsAreLeft
<1>2. /\ \A k \in Overs(r) : i + k \in Overs(b)
      /\ \A j \in Overs(b) : j > i /\ j - i \in Overs(r)
      /\ Overs(b) \subseteq Nat /\ Overs(r) \subseteq Nat
  BY <1>1, OverIsLeft DEF Overs
<1>3. \A k \in Parts(r) : k \in Nat /\ i + k \in Parts(b) \ {i}
  <2>1. SUFFICES ASSUME NEW k \in Parts(r)
                 PROVE  k \in Nat /\ i + k \in Parts(b) \ {i}
    OBVIOUS
  <2>2. /\ k \in Lines(r) /\ k \in Nat /\ Event(r, k) = "part"
        /\ \A m \in Overs(r) : k < m
    BY <1>1 DEF Parts
  <2>3. i + k \in Lines(b) /\ Event(b, i + k) = "part"
    BY <1>1, <2>2
  <2>4. \A j \in Overs(b) : i + k < j
    BY <1>1, <1>2, <2>2
  <2>5. k # 0
    <3>1. 0 \notin Lines(r)
      BY <1>1 DEF Lines
    <3> QED
      BY <2>2, <3>1
  <2> QED
    BY <1>1, <2>2, <2>3, <2>4, <2>5 DEF Parts
<1>4. \A j \in Parts(b) \ {i} : j \in Nat /\ j > i /\ j - i \in Parts(r)
  <2>1. SUFFICES ASSUME NEW j \in Parts(b) \ {i}
                 PROVE  j \in Nat /\ j > i /\ j - i \in Parts(r)
    OBVIOUS
  <2>2. j \in Lines(b) /\ Event(b, j) = "part" /\ \A m \in Overs(b) : j < m
    BY DEF Parts
  <2>3. j \in Nat /\ j > i /\ j - i \in Lines(r) /\ i + (j - i) = j
    BY <1>1, <2>1, <2>2
  <2>4. Event(r, j - i) = "part"
    BY <1>1, <2>2, <2>3
  <2>5. \A m \in Overs(r) : j - i < m
    BY <1>1, <1>2, <2>2, <2>3
  <2> QED
    BY <2>3, <2>4, <2>5 DEF Parts
<1>5. Cardinality(Parts(b) \ {i}) = Cardinality(Parts(r))
  <2> DEFINE f == [k \in Parts(r) |-> i + k]
  <2>1. f \in [Parts(r) -> Parts(b) \ {i}]
    BY <1>3
  <2>2. \A k, m \in Parts(r) : f[k] = f[m] => k = m
    BY <1>1, <1>3
  <2>3. \A j \in Parts(b) \ {i} : \E k \in Parts(r) : f[k] = j
    <3>1. SUFFICES ASSUME NEW j \in Parts(b) \ {i}
                   PROVE  \E k \in Parts(r) : f[k] = j
      OBVIOUS
    <3>2. j - i \in Parts(r) /\ i + (j - i) = j
      BY <1>1, <1>4
    <3> QED
      BY <3>2
  <2>4. f \in Bijection(Parts(r), Parts(b) \ {i})
    <3>1. f \in Injection(Parts(r), Parts(b) \ {i})
      <4> HIDE DEF f
      <4> QED
        BY <2>1, <2>2 DEF Injection, IsInjective
    <3>2. f \in Surjection(Parts(r), Parts(b) \ {i})
      <4> HIDE DEF f
      <4> QED
        BY <2>1, <2>3 DEF Surjection
    <3> QED
      BY <3>1, <3>2 DEF Bijection
  <2> QED
    BY <1>1, <2>4, PartsAreFinite, FS_Bijection DEF ExistsBijection
<1>6. i \in Parts(b) <=> Event(b, i) = "part"
  <2>1. \A j \in Overs(b) : i < j
    BY <1>1, <1>2
  <2> QED
    BY <1>1, <2>1 DEF Parts
<1>7. /\ IsFiniteSet(Parts(b)) /\ Cardinality(Parts(b)) \in Nat
      /\ Cardinality(Parts(r)) \in Nat
  BY <1>1, PartsAreFinite
<1>8. Cardinality(Parts(b) \ {i}) = IF i \in Parts(b) THEN Cardinality(Parts(b)) - 1
                                                      ELSE Cardinality(Parts(b))
  BY <1>7, FS_RemoveElement
<1> QED
  BY <1>5, <1>6, <1>7, <1>8

\* If the first event is the last that counts, the text says no more.
LEMMA OverIsFirst ==
  ASSUME NEW b \in Seq(Piece), NEW i, IsFirst(b, i),
         Event(b, i) \in {"done", "error"}, NEW how, IsOver(b, how)
  PROVE  how = Event(b, i) /\ Cardinality(Parts(b)) = 0
<1>1. /\ i \in Overs(b) /\ Overs(b) \subseteq Lines(b) /\ Lines(b) \subseteq Nat
      /\ \A j \in Lines(b) : i <= j
  BY DEF Overs, Lines, IsFirst
<1>2. how = Event(b, i)
  <2>1. PICK j \in Overs(b) : Event(b, j) = how /\ \A m \in Overs(b) : j <= m
    BY <1>1 DEF IsOver
  <2>2. i <= j /\ j <= i
    BY <1>1, <2>1
  <2> QED
    BY <1>1, <2>1, <2>2
<1>3. Parts(b) = {}
  <2>1. SUFFICES ASSUME NEW j \in Parts(b)
                 PROVE  FALSE
    OBVIOUS
  <2>2. j \in Lines(b) /\ j < i
    BY <1>1 DEF Parts
  <2> QED
    BY <1>1, <2>2
<1> QED
  BY <1>2, <1>3, FS_EmptySet

\* What is left is well formed, and ends as it did.
LEMMA RestIsFormed ==
  ASSUME NEW b \in Seq(Piece), NEW i \in Lines(b), WellFormed(b),
         NEW r, r = Rest(b, i)
  PROVE  WellFormed(r) /\ LastOf(r) = LastOf(b)
<1>1. i \in 1..Len(b) /\ b[i] = "end"
  BY DEF Lines
<1>2. /\ r \in Seq(Piece) /\ Len(r) = Len(b) - i
      /\ \A k \in 1..Len(r) : r[k] = b[i + k]
  BY <1>1, RestIs
<1>3. WellFormed(r)
  <2>1. SUFFICES ASSUME NEW k \in 1..Len(r), k > 1
                 PROVE  "end" \in {r[k - 1], r[k]}
    BY <1>2 DEF WellFormed
  <2>2. k - 1 \in 1..Len(r) /\ i + (k - 1) = (i + k) - 1 /\ i + k \in 1..Len(b) /\ i + k > 1
    BY <1>1, <1>2, <2>1
  <2>3. r[k - 1] = b[(i + k) - 1] /\ r[k] = b[i + k]
    BY <1>2, <2>2
  <2>4. DOMAIN b = 1..Len(b)
    OBVIOUS
  <2>5. "end" \in {b[(i + k) - 1], b[i + k]}
    BY <2>2, <2>4 DEF WellFormed
  <2> QED
    BY <2>3, <2>5
<1>4. LastOf(r) = LastOf(b)
  <2>1. CASE i = Len(b)
    <3>1. r = <<>> /\ b # <<>>
      BY <1>1, <1>2, <2>1
    <3> QED
      BY <1>1, <2>1, <3>1 DEF LastOf
  <2>2. CASE i < Len(b)
    <3>1. Len(r) \in 1..Len(r) /\ i + Len(r) = Len(b)
      BY <1>1, <1>2, <2>2
    <3>2. r # <<>> /\ b # <<>>
      <4>1. Len(r) # 0 /\ Len(b) # 0
        BY <1>1, <1>2, <2>2
      <4> QED
        BY <4>1, EmptySeq
    <3>3. r[Len(r)] = b[Len(b)]
      BY <1>2, <3>1
    <3> QED
      BY <3>2, <3>3 DEF LastOf
  <2> QED
    BY <1>1, <2>1, <2>2
<1> QED
  BY <1>3, <1>4

\* A well-formed text in which no event ends is what is pending.
LEMMA PendingIs ==
  ASSUME NEW b \in Seq(Piece), WellFormed(b), Lines(b) = {},
         NEW said \in Speech, said.last = LastOf(b)
  PROVE  Pending(said) = b
<1>1. Len(b) \in Nat /\ DOMAIN b = 1..Len(b)
  OBVIOUS
<1>2. Len(b) <= 1
  <2>1. SUFFICES ASSUME Len(b) > 1
                 PROVE  FALSE
    BY <1>1
  <2>2. 2 \in DOMAIN b /\ 1 \in DOMAIN b
    BY <1>1, <2>1
  <2>3. b[1] # "end" /\ b[2] # "end"
    BY <2>2 DEF Lines
  <2>4. \A k \in DOMAIN b : k > 1 => b[k - 1] = "end" \/ b[k] = "end"
    BY DEF WellFormed
  <2>5. b[2 - 1] = "end" \/ b[2] = "end"
    BY <2>2, <2>4
  <2> QED
    BY <2>3, <2>5
<1>3. CASE Len(b) = 0
  <2>1. b = <<>>
    BY <1>3, EmptySeq
  <2> QED
    BY <2>1 DEF LastOf, Pending
<1>4. CASE Len(b) = 1
  <2>1. 1 \in DOMAIN b /\ b # <<>>
    <3>1. 1 \in DOMAIN b
      BY <1>1, <1>4
    <3>2. Len(b) # 0
      BY <1>4
    <3>3. b # <<>>
      BY <3>2, EmptySeq
    <3> QED
      BY <3>1, <3>3
  <2>2. b[1] # "end" /\ b[1] \in Piece
    BY <1>4, <2>1, ElementOfSeq DEF Lines
  <2>3. said.last = b[1]
    BY <1>4, <2>1 DEF LastOf
  <2>4. Pending(said) = <<b[1]>>
    BY <2>2, <2>3 DEF Pending
  <2>5. <<b[1]>> = b
    BY <1>1, <1>4, <2>2, SeqEqual
  <2> QED
    BY <2>4, <2>5
<1> QED
  BY <1>1, <1>2, <1>3, <1>4

-----------------------------------------------------------------------------
(***************************************************************************)
(* What the steps do                                                       *)
(***************************************************************************)
LEMMA TypesAre ==
  ASSUME ModelTypeOK
  PROVE  /\ call \in [Calls -> CallRec] /\ server \in [Calls -> Speech]
         /\ kept \subseteq {Key[c] : c \in Calls} \X Nat
         /\ given \subseteq {Key[c] : c \in Calls} \X Nat
BY DEF ModelTypeOK, CallRec, States, Speech

\* A request that begins, ends or is given parts.
LEMMA IdleIs ==
  ASSUME NEW c
  PROVE  /\ Idle(c) \in CallRec /\ Idle(c).at = "idle"
         /\ Idle(c).parts = 0 /\ Idle(c).buffer = <<>>
<1>1. <<>> \in Seq(Piece)
  OBVIOUS
<1> QED
  BY <1>1 DEF Idle, CallRec, States

LEMMA EndedIs ==
  ASSUME NEW c, NEW at \in States, NEW t, t = [Idle(c) EXCEPT !.at = at]
  PROVE  t \in CallRec /\ t.at = at /\ t.parts = 0 /\ t.buffer = <<>>
BY IdleIs DEF CallRec

LEMMA SilenceIs == Silence \in Speech
BY DEF Silence, Speech, Piece, EventText

\* Every failure has a class.
LEMMA ClassIs ==
  ASSUME provider \in Providers, NEW why
  PROVE  ClassOf(why) \in Class /\ OpenAiClass(why) \in Class
<1>1. provider \in AllProviders
  BY ModelCallAssumption
<1>2. HttpClass(why) \in Class
  BY DEF HttpClass, Class
<1>3. OpenAiClass(why) \in Class /\ GeminiClass(why) \in Class
  BY <1>2 DEF OpenAiClass, GeminiClass, Class
<1>4. ClaudeClass(why) \in Class /\ VertexClass(why) \in Class
  BY <1>2 DEF ClaudeClass, VertexClass
<1>5. BedrockClass(why) \in Class /\ CommandClass(why) \in Class
  BY DEF BedrockClass, CommandClass, Class
<1> QED
  BY <1>1, <1>3, <1>4, <1>5 DEF ClassOf, AllProviders

\* What a step makes of one request keeps the invariant, if the server is silent
\* for a request that is not read, what is given stays, and an answer is given.
LEMMA RequestKeeps ==
  ASSUME ModelInv, NEW c \in Calls, NEW t \in CallRec, NEW s \in Speech,
         call' = [call EXCEPT ![c] = t], server' = [server EXCEPT ![c] = s],
         given \subseteq given', given' \subseteq {Key[x] : x \in Calls} \X Nat,
         kept' \subseteq given', provider' \in Providers, rounds' \in Nat,
         t.at \in {"whole", "hit", "answer"} => <<Key[c], t.parts>> \in given',
         IF t.at \in {"read", "push"}
         THEN Heard(t, s) /\ (s.over = "done" => Whole(c, s.parts) \subseteq given')
         ELSE s = Silence
  PROVE  ModelInv'
<1>1. /\ call \in [Calls -> CallRec] /\ server \in [Calls -> Speech]
  BY TypesAre DEF ModelInv
<1>2. /\ call' \in [Calls -> CallRec] /\ server' \in [Calls -> Speech]
      /\ call'[c] = t /\ server'[c] = s
      /\ \A d \in Calls : d # c => call'[d] = call[d] /\ server'[d] = server[d]
  BY <1>1
<1>3. ModelTypeOK'
  BY <1>2 DEF ModelTypeOK, CallRec, States, Speech
<1>4. AnswerIsWhole'
  BY <1>2 DEF ModelInv, AnswerIsWhole
<1>5. StreamInv'
  <2>1. ASSUME NEW d \in Calls, d # c
        PROVE  IF call'[d].at \in {"read", "push"}
               THEN /\ Heard(call'[d], server'[d])
                    /\ server'[d].over = "done" => Whole(d, server'[d].parts) \subseteq given'
               ELSE server'[d] = Silence
    <3>1. call'[d] = call[d] /\ server'[d] = server[d]
      BY <1>2, <2>1
    <3>2. IF call[d].at \in {"read", "push"}
          THEN /\ Heard(call[d], server[d])
               /\ server[d].over = "done" => Whole(d, server[d].parts) \subseteq given
          ELSE server[d] = Silence
      BY DEF ModelInv, StreamInv
    <3> QED
      BY <3>1, <3>2
  <2> QED
    BY <1>2, <2>1 DEF StreamInv
<1> QED
  BY <1>3, <1>4, <1>5 DEF ModelInv

\* A step that moves no stream and gives nothing keeps it.
LEMMA PlainKeeps ==
  ASSUME ModelInv, NEW c \in Calls, call[c].at \notin {"read", "push"},
         NEW t \in CallRec, call' = [call EXCEPT ![c] = t],
         t.at \notin {"read", "push"},
         t.at \in {"whole", "hit", "answer"} => <<Key[c], t.parts>> \in given',
         given \subseteq given', given' \subseteq {Key[x] : x \in Calls} \X Nat,
         kept' \subseteq given', rounds' \in Nat, UNCHANGED <<provider, server>>
  PROVE  ModelInv'
<1>1. server[c] = Silence
  BY DEF ModelInv, StreamInv
<1>2. server \in [Calls -> Speech]
  BY TypesAre DEF ModelInv
<1>3. server' = [server EXCEPT ![c] = Silence]
  BY <1>1, <1>2
<1>4. provider' \in Providers
  BY DEF ModelInv, ModelTypeOK
<1> QED
  BY <1>3, <1>4, RequestKeeps, SilenceIs

\* A request that ends before or without a stream.
LEMMA EndsKeeps ==
  ASSUME ModelInv, NEW c \in Calls, call[c].at \notin {"read", "push"},
         NEW at \in States \ {"read", "push", "whole", "hit", "answer"}, Ends(c, at),
         rounds' \in Nat, UNCHANGED <<provider, kept, server, given>>
  PROVE  ModelInv'
<1>1. PICK t : t = [Idle(c) EXCEPT !.at = at]
  OBVIOUS
<1>2. t \in CallRec /\ t.at = at
  BY <1>1, EndedIs
<1>3. call' = [call EXCEPT ![c] = t]
  BY <1>1 DEF Ends
<1>4. /\ kept' \subseteq given' /\ given \subseteq given'
      /\ given' \subseteq {Key[x] : x \in Calls} \X Nat
  BY TypesAre DEF ModelInv, AnswerIsWhole
<1> QED
  BY <1>2, <1>3, <1>4, PlainKeeps

\* A request that gets the answer that many parts are.
LEMMA GivesKeeps ==
  ASSUME ModelInv, NEW c \in Calls, call[c].at \notin {"read", "push"},
         NEW at \in {"whole", "hit", "answer"}, NEW n \in Nat, Gives(c, at, n),
         <<Key[c], n>> \in given', given' \subseteq given \cup {<<Key[c], n>>},
         given \subseteq given', kept' \subseteq given',
         UNCHANGED <<provider, server, rounds>>
  PROVE  ModelInv'
<1>1. PICK t : t = [Idle(c) EXCEPT !.at = at, !.parts = n]
  OBVIOUS
<1>2. t \in CallRec /\ t.at = at /\ t.parts = n
  <2>1. at \in States
    BY DEF States
  <2> QED
    BY <1>1, <2>1, IdleIs DEF CallRec
<1>3. call' = [call EXCEPT ![c] = t]
  BY <1>1 DEF Gives
<1>4. given' \subseteq {Key[x] : x \in Calls} \X Nat /\ rounds' \in Nat
  BY TypesAre DEF ModelInv, ModelTypeOK
<1> QED
  BY <1>2, <1>3, <1>4, PlainKeeps

LEMMA BeginKeeps ==
  ASSUME ModelInv, NEW c \in Calls, Begin(c)
  PROVE  ModelInv'
<1>1. call \in [Calls -> CallRec] /\ rounds' \in Nat
  BY TypesAre DEF ModelInv, ModelTypeOK, Begin
<1>2. PICK t : t = [call[c] EXCEPT !.at = IF Cached THEN "look" ELSE "send"]
  OBVIOUS
<1>3. t \in CallRec /\ t.at \in {"look", "send"}
  BY <1>1, <1>2 DEF CallRec, States
<1>4. call' = [call EXCEPT ![c] = t] /\ call[c].at = "idle"
  BY <1>2 DEF Begin
<1>5. /\ kept' \subseteq given' /\ given \subseteq given'
      /\ given' \subseteq {Key[x] : x \in Calls} \X Nat /\ UNCHANGED <<provider, server>>
  BY TypesAre DEF ModelInv, AnswerIsWhole, Begin
<1> QED
  BY <1>1, <1>3, <1>4, <1>5, PlainKeeps

\* A row of the cache is a whole answer for the key.
LEMMA RowsAre ==
  ASSUME ModelInv, NEW c \in Calls, NEW row \in CachedRows(c)
  PROVE  row[2] \in Nat /\ row = <<Key[c], row[2]>> /\ row \in given
BY TypesAre DEF ModelInv, AnswerIsWhole, CachedRows

LEMMA LookUpKeeps ==
  ASSUME ModelInv, NEW c \in Calls, LookUp(c)
  PROVE  ModelInv'
<1>1. call[c].at = "look" /\ UNCHANGED <<provider, kept, server, given, rounds>>
  BY DEF LookUp
<1>2. kept' \subseteq given' /\ rounds' \in Nat
  BY <1>1 DEF ModelInv, AnswerIsWhole, ModelTypeOK
<1>3. ASSUME NEW row \in CachedRows(c), Gives(c, "hit", row[2])
      PROVE  ModelInv'
  <2>1. row[2] \in Nat /\ <<Key[c], row[2]>> \in given
    BY RowsAre
  <2> QED
    BY <1>1, <1>2, <1>3, <2>1, GivesKeeps
<1>4. ASSUME Ends(c, "send") \/ Ends(c, "fatal")
      PROVE  ModelInv'
  BY <1>1, <1>2, <1>4, EndsKeeps DEF States, Class
<1> QED
  BY <1>3, <1>4 DEF LookUp

LEMMA KeepKeeps ==
  ASSUME ModelInv, NEW c \in Calls, Keep(c) \/ KeepFails(c)
  PROVE  ModelInv'
<1>1. call \in [Calls -> CallRec] /\ call[c].at = "whole"
  BY TypesAre DEF ModelInv, Keep, KeepFails
<1>2. PICK n : n = call[c].parts
  OBVIOUS
<1>3. n \in Nat /\ <<Key[c], n>> \in given
  BY <1>1, <1>2 DEF CallRec, ModelInv, AnswerIsWhole
<1>4. Gives(c, "answer", n) /\ UNCHANGED <<provider, server, given, rounds>>
  BY <1>2 DEF Keep, KeepFails
<1>5. kept' \subseteq kept \cup {<<Key[c], n>>}
  BY <1>2 DEF Keep, KeepFails
<1>6. kept' \subseteq given'
  BY <1>3, <1>4, <1>5 DEF ModelInv, AnswerIsWhole
<1> QED
  BY <1>1, <1>3, <1>4, <1>6, GivesKeeps

\* Idle again, the server says no more.
LEMMA IdleKeeps ==
  ASSUME ModelInv, NEW c \in Calls, call' = [call EXCEPT ![c] = Idle(c)],
         server' = [server EXCEPT ![c] = Silence],
         UNCHANGED <<provider, kept, given, rounds>>
  PROVE  ModelInv'
<1>1. /\ kept' \subseteq given' /\ given \subseteq given'
      /\ given' \subseteq {Key[x] : x \in Calls} \X Nat
      /\ provider' \in Providers /\ rounds' \in Nat
  BY TypesAre DEF ModelInv, AnswerIsWhole, ModelTypeOK
<1>2. Idle(c) \in CallRec /\ Idle(c).at = "idle"
  BY IdleIs
<1> QED
  BY <1>1, <1>2, SilenceIs, RequestKeeps

LEMMA ReturnKeeps ==
  ASSUME ModelInv, NEW c \in Calls, Return(c)
  PROVE  ModelInv'
<1>1. call[c].at \notin {"read", "push"}
  BY DEF Return, Done, Class
<1>2. server[c] = Silence /\ server \in [Calls -> Speech]
  BY <1>1, TypesAre DEF ModelInv, StreamInv
<1>3. server' = [server EXCEPT ![c] = Silence]
  BY <1>2 DEF Return
<1> QED
  BY <1>3, IdleKeeps DEF Return

LEMMA AbandonKeeps ==
  ASSUME ModelInv, NEW c \in Calls, Abandon(c)
  PROVE  ModelInv'
BY IdleKeeps DEF Abandon

LEMMA RestartKeeps ==
  ASSUME ModelInv, Restart
  PROVE  ModelInv'
<1>1. /\ call' = [c \in Calls |-> Idle(c)] /\ server' = [c \in Calls |-> Silence]
      /\ provider' \in Providers /\ kept' \subseteq kept /\ given' = given
      /\ rounds' = rounds + 1
  BY DEF Restart
<1>2. \A c \in Calls : Idle(c) \in CallRec /\ Idle(c).at = "idle"
  BY IdleIs
<1>3. call' \in [Calls -> CallRec] /\ server' \in [Calls -> Speech]
  BY <1>1, <1>2, SilenceIs
<1>4. ModelTypeOK'
  BY <1>1, <1>3 DEF ModelInv, ModelTypeOK, CallRec, States, Speech
<1>5. AnswerIsWhole' /\ StreamInv'
  BY <1>1, <1>2 DEF ModelInv, AnswerIsWhole, StreamInv
<1> QED
  BY <1>4, <1>5 DEF ModelInv

LEMMA FailKeeps ==
  ASSUME ModelInv, NEW c \in Calls, Fail(c)
  PROVE  ModelInv'
<1>1. PICK why \in Failure : Ends(c, ClassOf(why))
  BY DEF Fail
<1>2. ClassOf(why) \in Class
  BY ClassIs DEF ModelInv, ModelTypeOK
<1>3. /\ call[c].at = "send" /\ rounds' \in Nat
      /\ UNCHANGED <<provider, kept, server, given>>
  BY DEF Fail, ModelInv, ModelTypeOK
<1> QED
  BY <1>1, <1>2, <1>3, EndsKeeps DEF States, Class

LEMMA AnswerKeeps ==
  ASSUME ModelInv, NEW c \in Calls, Answer(c)
  PROVE  ModelInv'
<1>1. call[c].at = "send" /\ UNCHANGED <<provider, kept, server, rounds>>
  BY DEF Answer
<1>2. rounds' \in Nat /\ kept \subseteq given
  BY <1>1 DEF ModelInv, ModelTypeOK, AnswerIsWhole
<1>3. PICK body \in Body :
        \/ /\ Gives(c, "whole", body.parts)
           /\ given' = given \cup {<<Key[c], body.parts>>}
        \/ Ends(c, "fatal") /\ given' = given
  BY DEF Answer
<1>4. body.parts \in Nat
  BY DEF Body
<1>5. CASE Gives(c, "whole", body.parts) /\ given' = given \cup {<<Key[c], body.parts>>}
  BY <1>1, <1>2, <1>4, <1>5, GivesKeeps
<1>6. CASE Ends(c, "fatal") /\ given' = given
  BY <1>1, <1>2, <1>6, EndsKeeps DEF States, Class
<1> QED
  BY <1>3, <1>5, <1>6

LEMMA OptionsRefusedKeeps ==
  ASSUME ModelInv, NEW c \in Calls, OptionsRefused(c)
  PROVE  ModelInv'
<1>1. call \in [Calls -> CallRec] /\ call[c].at = "send"
  BY TypesAre DEF ModelInv, OptionsRefused
<1>2. PICK t : t = [call[c] EXCEPT !.options = FALSE]
  OBVIOUS
<1>3. t \in CallRec /\ t.at = "send"
  BY <1>1, <1>2 DEF CallRec
<1>4. call' = [call EXCEPT ![c] = t]
  BY <1>2 DEF OptionsRefused
<1>5. /\ kept' \subseteq given' /\ given \subseteq given' /\ rounds' \in Nat
      /\ given' \subseteq {Key[x] : x \in Calls} \X Nat /\ UNCHANGED <<provider, server>>
  BY TypesAre DEF ModelInv, ModelTypeOK, AnswerIsWhole, OptionsRefused
<1> QED
  BY <1>1, <1>3, <1>4, <1>5, PlainKeeps

-----------------------------------------------------------------------------
(***************************************************************************)
(* The steps of a stream                                                   *)
(***************************************************************************)
\* A text ends in a piece, or says nothing.
LEMMA LastIs ==
  ASSUME NEW b \in Seq(Piece)
  PROVE  LastOf(b) \in Piece
<1>1. CASE b = <<>>
  BY <1>1 DEF LastOf, Piece
<1>2. CASE b # <<>>
  <2>1. Len(b) \in 1..Len(b)
    BY <1>2, EmptySeq
  <2> QED
    BY <1>2, <2>1, ElementOfSeq DEF LastOf
<1> QED
  BY <1>1, <1>2

\* In the empty text no event ends.
LEMMA NothingIsSaid ==
  ASSUME NEW b, Lines(b) = {}
  PROVE  Parts(b) = {} /\ Cardinality(Parts(b)) = 0 /\ Overs(b) = {} /\ IsOver(b, "no")
BY FS_EmptySet DEF Parts, Overs, IsOver

LEMMA OpenKeeps ==
  ASSUME ModelInv, NEW c \in Calls, Open(c)
  PROVE  ModelInv'
<1>1. call[c].at = "send" /\ UNCHANGED <<provider, kept, server, given, rounds>>
  BY DEF Open
<1>2. PICK t : t = [Idle(c) EXCEPT !.at = "read"]
  OBVIOUS
<1>3. t \in CallRec /\ t.at = "read" /\ t.parts = 0 /\ t.buffer = <<>>
  <2>1. "read" \in States
    BY DEF States
  <2> QED
    BY <1>2, <2>1, IdleIs DEF CallRec
<1>4. call' = [call EXCEPT ![c] = t]
  BY <1>2 DEF Open, Ends
<1>5. server[c] = Silence /\ server' = [server EXCEPT ![c] = Silence]
  BY <1>1, TypesAre DEF ModelInv, StreamInv
<1>6. Heard(t, Silence) /\ Silence.over = "no"
  <2>1. Lines(<<>>) = {} /\ WellFormed(<<>>) /\ LastOf(<<>>) = "end"
    BY DEF Lines, WellFormed, LastOf
  <2>2. Cardinality(Parts(<<>>)) = 0 /\ IsOver(<<>>, "no")
    BY <2>1, NothingIsSaid
  <2>3. Silence.parts = 0 /\ Silence.last = "end" /\ Silence.over = "no"
    BY DEF Silence
  <2> QED
    BY <1>3, <2>1, <2>2, <2>3 DEF Heard
<1>7. /\ kept' \subseteq given' /\ given \subseteq given'
      /\ given' \subseteq {Key[x] : x \in Calls} \X Nat
      /\ provider' \in Providers /\ rounds' \in Nat
  BY <1>1, TypesAre DEF ModelInv, AnswerIsWhole, ModelTypeOK
<1> QED
  BY <1>3, <1>4, <1>5, <1>6, <1>7, SilenceIs, RequestKeeps

\* The answer that many parts are is one, and for the key.
LEMMA WholeIs ==
  ASSUME NEW c \in Calls, NEW n \in Nat
  PROVE  /\ Whole(c, n) \subseteq {Key[x] : x \in Calls} \X Nat
         /\ n # 0 => <<Key[c], n>> \in Whole(c, n)
BY DEF Whole

LEMMA ReceiveKeeps ==
  ASSUME ModelInv, NEW c \in Calls, Receive(c)
  PROVE  ModelInv'
<1>1. PICK t0 \in CallRec, s0 \in Speech : t0 = call[c] /\ s0 = server[c]
  BY TypesAre DEF ModelInv
<1>2. t0.at = "read" /\ Heard(t0, s0)
  BY <1>1 DEF Receive, ModelInv, StreamInv
<1>3. PICK b \in Seq(Piece) : b = t0.buffer
  BY DEF CallRec
<1>4. WellFormed(b) /\ Lines(b) = {} /\ s0.last = LastOf(b)
  BY <1>2, <1>3 DEF Heard
<1>5. Pending(s0) = b
  BY <1>4, PendingIs
<1>6. s0.parts = t0.parts /\ t0.parts \in Nat
  <2>1. Cardinality(Parts(b)) = 0 /\ t0.parts \in Nat
    BY <1>4, NothingIsSaid DEF CallRec
  <2> QED
    BY <1>2, <1>3, <2>1 DEF Heard
<1>7. PICK chunk \in Chunk, how \in {"no", "error", "done"} :
        /\ WellFormed(b \o chunk) /\ IsOver(b \o chunk, how)
        /\ server' = [server EXCEPT ![c] = Say(s0, b \o chunk, how)]
        /\ call' = [call EXCEPT ![c].at = Reading(b \o chunk), ![c].buffer = b \o chunk]
        /\ given' = IF how = "done" THEN given \cup Whole(c, Say(s0, b \o chunk, how).parts)
                                    ELSE given
  BY <1>1, <1>3, <1>5 DEF Receive
<1>8. PICK text \in Seq(Piece) : text = b \o chunk
  <2>1. PICK n \in Nat : chunk \in [1..n -> Piece]
    BY DEF Chunk
  <2>2. chunk \in Seq(Piece)
    BY <2>1, IsASeq
  <2> QED
    BY <2>2, ConcatProperties
<1>9. PICK t : t = [t0 EXCEPT !.at = Reading(text), !.buffer = text]
  OBVIOUS
<1>10. /\ t \in CallRec /\ t.at = Reading(text) /\ t.buffer = text /\ t.parts = t0.parts
       /\ t.at \in {"read", "push"} /\ (t.at = "read" => Lines(text) = {})
  BY <1>9 DEF CallRec, States, Reading
<1>11. PICK s : s = Say(s0, text, how)
  OBVIOUS
<1>12. /\ s \in Speech /\ s.parts = t0.parts + Cardinality(Parts(text)) /\ s.parts \in Nat
       /\ s.last = LastOf(text) /\ s.over = how
  BY <1>6, <1>11, PartsAreFinite, LastIs DEF Say, Speech
<1>13. Heard(t, s)
  BY <1>7, <1>8, <1>10, <1>12 DEF Heard
<1>14. call' = [call EXCEPT ![c] = t]
  BY <1>1, <1>7, <1>8, <1>9, TypesAre DEF ModelInv
<1>15. server' = [server EXCEPT ![c] = s]
  BY <1>7, <1>8, <1>11
<1>16. /\ given' = given \/ given' = given \cup Whole(c, s.parts)
       /\ s.over = "done" => Whole(c, s.parts) \subseteq given'
  BY <1>7, <1>8, <1>11, <1>12
<1>17. /\ given \subseteq given' /\ given' \subseteq {Key[x] : x \in Calls} \X Nat
  BY <1>12, <1>16, WholeIs, TypesAre DEF ModelInv
<1>18. kept' \subseteq given' /\ provider' \in Providers /\ rounds' \in Nat
  BY <1>17 DEF Receive, ModelInv, AnswerIsWhole, ModelTypeOK
<1> QED
  BY <1>10, <1>12, <1>13, <1>14, <1>15, <1>16, <1>17, <1>18, RequestKeeps

\* A stream that is over goes on with no more of it, in a request that ends so.
LEMMA StreamEnds ==
  ASSUME ModelInv, NEW c \in Calls, NEW t \in CallRec, call' = [call EXCEPT ![c] = t],
         server' = [server EXCEPT ![c] = Silence], t.at \in Class \cup {"whole"},
         t.at = "whole" => <<Key[c], t.parts>> \in given',
         \/ given' = given
         \/ \E n \in Nat : given' = given \cup Whole(c, n),
         UNCHANGED <<provider, kept, rounds>>
  PROVE  ModelInv'
<1>1. /\ given \subseteq given' /\ given' \subseteq {Key[x] : x \in Calls} \X Nat
  BY WholeIs, TypesAre DEF ModelInv
<1>2. kept' \subseteq given' /\ provider' \in Providers /\ rounds' \in Nat
  BY <1>1 DEF ModelInv, AnswerIsWhole, ModelTypeOK
<1>3. t.at \notin {"read", "push", "hit", "answer"}
  BY DEF Class
<1> QED
  BY <1>1, <1>2, <1>3, SilenceIs, RequestKeeps

\* The answer that is made of what a request has.
LEMMA ResponseIs ==
  ASSUME NEW state \in CallRec, NEW t, t = IntoResponse(state)
  PROVE  /\ t \in CallRec /\ t.parts = state.parts /\ t.at \in {"whole", "fatal"}
         /\ t.at = "whole" => t.parts # 0
<1>1. <<>> \in Seq(Piece)
  OBVIOUS
<1> QED
  BY <1>1 DEF IntoResponse, CallRec, States, Class

LEMMA CloseKeeps ==
  ASSUME ModelInv, NEW c \in Calls, Close(c)
  PROVE  ModelInv'
<1>1. PICK t0 \in CallRec, s0 \in Speech : t0 = call[c] /\ s0 = server[c]
  BY TypesAre DEF ModelInv
<1>2. t0.at = "read" /\ Heard(t0, s0)
  BY <1>1 DEF Close, ModelInv, StreamInv
<1>3. s0.parts = t0.parts /\ t0.parts \in Nat
  <2>1. Lines(t0.buffer) = {} /\ s0.parts = t0.parts + Cardinality(Parts(t0.buffer))
    BY <1>2 DEF Heard
  <2>2. Cardinality(Parts(t0.buffer)) = 0 /\ t0.parts \in Nat
    BY <2>1, NothingIsSaid DEF CallRec
  <2> QED
    BY <2>1, <2>2
<1>4. PICK t : t = IntoResponse(t0)
  OBVIOUS
<1>5. /\ t \in CallRec /\ t.parts = t0.parts /\ t.at \in {"whole", "fatal"}
      /\ t.at = "whole" => t.parts # 0
  BY <1>4, ResponseIs
<1>6. /\ call' = [call EXCEPT ![c] = t] /\ server' = [server EXCEPT ![c] = Silence]
      /\ given' = given \cup Whole(c, s0.parts) /\ UNCHANGED <<provider, kept, rounds>>
  BY <1>1, <1>4 DEF Close
<1>7. t.at = "whole" => <<Key[c], t.parts>> \in given'
  BY <1>3, <1>5, <1>6, WholeIs
<1>8. t.at \in Class \cup {"whole"} /\ \E n \in Nat : given' = given \cup Whole(c, n)
  BY <1>3, <1>5, <1>6 DEF Class
<1> QED
  BY <1>5, <1>6, <1>7, <1>8, StreamEnds

\* A stream that fails leaves nothing.
LEMMA StreamFails ==
  ASSUME ModelInv, NEW c \in Calls, NEW class \in Class, Ends(c, class),
         server' = [server EXCEPT ![c] = Silence], UNCHANGED <<provider, kept, given, rounds>>
  PROVE  ModelInv'
<1>1. PICK t : t = [Idle(c) EXCEPT !.at = class]
  OBVIOUS
<1>2. t \in CallRec /\ t.at = class
  <2>1. class \in States
    BY DEF States
  <2> QED
    BY <1>1, <2>1, EndedIs
<1>3. call' = [call EXCEPT ![c] = t] /\ t.at # "whole"
  BY <1>1, <1>2 DEF Ends, Class
<1> QED
  BY <1>2, <1>3, StreamEnds

LEMMA BreakKeeps ==
  ASSUME ModelInv, NEW c \in Calls, Break(c)
  PROVE  ModelInv'
<1>1. OpenAiClass("body") \in Class
  BY ClassIs DEF ModelInv, ModelTypeOK
<1> QED
  BY <1>1, StreamFails DEF Break

\* What an event can say.
LEMMA EventIs ==
  ASSUME NEW b \in Seq(Piece), NEW i \in Lines(b)
  PROVE  Event(b, i) \in {"part", "done", "error", "none"}
<1>1. i \in 1..Len(b)
  BY DEF Lines
<1>2. CASE i > 1
  <2>1. i - 1 \in 1..Len(b)
    BY <1>1, <1>2
  <2>2. b[i - 1] \in Piece
    BY <2>1, ElementOfSeq
  <2> QED
    BY <2>2 DEF Event, Piece, EventText
<1>3. CASE ~(i > 1)
  BY <1>3 DEF Event
<1> QED
  BY <1>2, <1>3

\* An event that is none, or one more part, leaves the request as it heard it.
LEMMA DrainKeeps ==
  ASSUME NEW t0 \in CallRec, NEW s0 \in Speech, Heard(t0, s0),
         NEW i, IsFirst(t0.buffer, i), Event(t0.buffer, i) \in {"part", "none"},
         NEW t, t = [Drain(t0, i) EXCEPT !.parts =
                       IF Event(t0.buffer, i) = "part" THEN @ + 1 ELSE @]
  PROVE  t \in CallRec /\ t.at \in {"read", "push"} /\ Heard(t, s0)
<1>1. PICK b \in Seq(Piece) : b = t0.buffer
  BY DEF CallRec
<1>2. PICK r : r = Rest(b, i)
  OBVIOUS
<1>3. i \in Lines(b) /\ r \in Seq(Piece) /\ IsFirst(b, i)
  BY <1>1, <1>2, EventsAreLeft
<1>4. WellFormed(b) /\ s0.last = LastOf(b) /\ IsOver(b, s0.over)
      /\ s0.parts = t0.parts + Cardinality(Parts(b))
  BY <1>1 DEF Heard
<1>5. WellFormed(r) /\ LastOf(r) = s0.last
  BY <1>2, <1>3, <1>4, RestIsFormed
<1>6. Event(b, i) \notin {"done", "error"} /\ Event(b, i) \in {"part", "none"}
  BY <1>1
<1>7. IsOver(r, s0.over)
  BY <1>2, <1>3, <1>4, <1>6, OverIsLeft
<1>8. Cardinality(Parts(b)) = Cardinality(Parts(r)) + (IF Event(b, i) = "part" THEN 1 ELSE 0)
  BY <1>2, <1>3, <1>4, <1>6, PartsAreLeft
<1>9. PICK d : d = Drain(t0, i)
  OBVIOUS
<1>10. d \in CallRec /\ d.buffer = r /\ d.at = Reading(r) /\ d.parts = t0.parts
  BY <1>1, <1>2, <1>3, <1>9 DEF Drain, Rest, CallRec, Reading, States
<1>11. /\ t \in CallRec /\ t.buffer = r /\ t.at = Reading(r)
       /\ t.parts = t0.parts + (IF Event(b, i) = "part" THEN 1 ELSE 0)
  BY <1>1, <1>9, <1>10 DEF CallRec
<1>12. t0.parts \in Nat /\ Cardinality(Parts(r)) \in Nat
  BY <1>3, PartsAreFinite DEF CallRec
<1>13. s0.parts = t.parts + Cardinality(Parts(r))
  BY <1>4, <1>8, <1>11, <1>12
<1>14. t.at \in {"read", "push"} /\ (t.at = "read" => Lines(r) = {})
  BY <1>11 DEF Reading
<1> QED
  BY <1>5, <1>7, <1>11, <1>13, <1>14 DEF Heard

LEMMA PushBytesKeeps ==
  ASSUME ModelInv, NEW c \in Calls, PushBytes(c)
  PROVE  ModelInv'
<1>1. PICK t0 \in CallRec, s0 \in Speech : t0 = call[c] /\ s0 = server[c]
  BY TypesAre DEF ModelInv
<1>2. /\ t0.at = "push" /\ Heard(t0, s0)
      /\ s0.over = "done" => Whole(c, s0.parts) \subseteq given
  BY <1>1 DEF PushBytes, ModelInv, StreamInv
<1>3. PICK i : IsFirst(t0.buffer, i) /\ Apply(c, Event(t0.buffer, i), Drain(t0, i))
  BY <1>1 DEF PushBytes, IsFirst
<1>4. PICK b \in Seq(Piece) : b = t0.buffer
  BY DEF CallRec
<1>5. PICK event : event = Event(b, i)
  OBVIOUS
<1>6. event \in {"part", "done", "error", "none"} /\ i \in Lines(b)
  BY <1>3, <1>4, <1>5, EventIs DEF IsFirst
<1>7. /\ UNCHANGED <<provider, kept, given, rounds>>
      /\ server' = IF call'[c].at \in {"read", "push"} THEN server
                   ELSE [server EXCEPT ![c] = Silence]
      /\ call \in [Calls -> CallRec] /\ server \in [Calls -> Speech]
  BY TypesAre DEF PushBytes, ModelInv
<1>8. PICK d : d = Drain(t0, i)
  OBVIOUS
<1>9. Apply(c, event, d)
  BY <1>3, <1>4, <1>5, <1>8
<1>10. d.parts = t0.parts /\ d \in CallRec
  <2>1. Rest(b, i) \in Seq(Piece)
    BY <1>3, <1>4, EventsAreLeft
  <2> QED
    BY <1>4, <1>8, <2>1 DEF Drain, Rest, CallRec, Reading, States
<1>11. CASE event = "done"
  <2>1. s0.over = "done" /\ Cardinality(Parts(b)) = 0
    BY <1>2, <1>3, <1>4, <1>5, <1>6, <1>11, OverIsFirst DEF Heard
  <2>2. s0.parts = t0.parts /\ t0.parts \in Nat
    BY <1>2, <1>4, <2>1 DEF Heard, CallRec
  <2>3. PICK t : t = IntoResponse(d)
    OBVIOUS
  <2>4. /\ t \in CallRec /\ t.parts = t0.parts /\ t.at \in {"whole", "fatal"}
        /\ t.at = "whole" => t.parts # 0
    BY <1>10, <2>3, ResponseIs
  <2>5. call' = [call EXCEPT ![c] = t]
    BY <1>9, <1>11, <2>3 DEF Apply
  <2>6. server' = [server EXCEPT ![c] = Silence]
    BY <1>7, <2>4, <2>5
  <2>7. t.at = "whole" => <<Key[c], t.parts>> \in given'
    BY <1>2, <1>7, <2>1, <2>2, <2>4, WholeIs
  <2>8. t.at \in Class \cup {"whole"}
    BY <2>4 DEF Class
  <2> QED
    BY <1>7, <2>4, <2>5, <2>6, <2>7, <2>8, StreamEnds
<1>12. CASE event = "error"
  <2>1. PICK class \in Class : Ends(c, class)
    BY <1>9, <1>12 DEF Apply
  <2>2. PICK t : t = [Idle(c) EXCEPT !.at = class]
    OBVIOUS
  <2>3. t.at = class
    <3>1. class \in States
      BY DEF States
    <3> QED
      BY <2>2, <3>1, EndedIs
  <2>4. call'[c] = t /\ t.at \notin {"read", "push"}
    BY <1>7, <2>1, <2>2, <2>3 DEF Ends, Class
  <2>5. server' = [server EXCEPT ![c] = Silence]
    BY <1>7, <2>4
  <2> QED
    BY <1>7, <2>1, <2>5, StreamFails
<1>13. CASE event \in {"part", "none"}
  <2>1. PICK t : t = [d EXCEPT !.parts = IF event = "part" THEN @ + 1 ELSE @]
    OBVIOUS
  <2>2. t \in CallRec /\ t.at \in {"read", "push"} /\ Heard(t, s0)
    BY <1>2, <1>3, <1>4, <1>5, <1>8, <1>13, <2>1, DrainKeeps
  <2>3. call' = [call EXCEPT ![c] = t]
    <3>1. CASE event = "part"
      BY <1>9, <2>1, <3>1 DEF Apply
    <3>2. CASE event = "none"
      <4>1. t = d
        BY <1>10, <2>1, <3>2 DEF CallRec
      <4> QED
        BY <1>9, <3>2, <4>1 DEF Apply
    <3> QED
      BY <1>13, <3>1, <3>2
  <2>4. server' = [server EXCEPT ![c] = s0]
    BY <1>1, <1>7, <2>2, <2>3
  <2>5. /\ kept' \subseteq given' /\ given \subseteq given'
        /\ given' \subseteq {Key[x] : x \in Calls} \X Nat
        /\ provider' \in Providers /\ rounds' \in Nat
    BY <1>7, TypesAre DEF ModelInv, AnswerIsWhole, ModelTypeOK
  <2> QED
    BY <1>2, <1>7, <2>2, <2>3, <2>4, <2>5, RequestKeeps
<1> QED
  BY <1>6, <1>11, <1>12, <1>13

-----------------------------------------------------------------------------
(***************************************************************************)
(* The invariant                                                           *)
(***************************************************************************)
\* At first nothing is asked, kept or given.
THEOREM ModelInvInit == ModelInit => ModelInv
<1>1. SUFFICES ASSUME ModelInit PROVE ModelInv
  OBVIOUS
<1>2. \A c \in Calls : Idle(c) \in CallRec /\ Idle(c).at = "idle"
  BY IdleIs
<1>3. call \in [Calls -> CallRec] /\ server \in [Calls -> Speech]
  BY <1>1, <1>2, SilenceIs DEF ModelInit
<1>4. ModelTypeOK
  BY <1>1, <1>3 DEF ModelInit, ModelTypeOK, CallRec, States, Speech
<1>5. AnswerIsWhole /\ StreamInv
  BY <1>1, <1>2 DEF ModelInit, AnswerIsWhole, StreamInv
<1> QED
  BY <1>4, <1>5 DEF ModelInv

\* Every step of a request, and a restart, keeps what is proved of them all.
THEOREM ModelInvNext == ModelInv /\ [ModelNext]_callVars => ModelInv'
<1>1. SUFFICES ASSUME ModelInv, [ModelNext]_callVars PROVE ModelInv'
  OBVIOUS
<1>2. ASSUME NEW c \in Calls, Begin(c) \/ LookUp(c) \/ Keep(c) \/ KeepFails(c)
      PROVE  ModelInv'
  BY <1>1, <1>2, BeginKeeps, LookUpKeeps, KeepKeeps
<1>3. ASSUME NEW c \in Calls, Return(c) \/ Abandon(c) \/ Fail(c) \/ Answer(c)
      PROVE  ModelInv'
  BY <1>1, <1>3, ReturnKeeps, AbandonKeeps, FailKeeps, AnswerKeeps
<1>4. ASSUME NEW c \in Calls, Open(c) \/ OptionsRefused(c) \/ Receive(c)
      PROVE  ModelInv'
  BY <1>1, <1>4, OpenKeeps, OptionsRefusedKeeps, ReceiveKeeps
<1>5. ASSUME NEW c \in Calls, PushBytes(c) \/ Close(c) \/ Break(c)
      PROVE  ModelInv'
  BY <1>1, <1>5, PushBytesKeeps, CloseKeeps, BreakKeeps
<1>6. CASE Restart
  BY <1>1, <1>6, RestartKeeps
<1>7. CASE UNCHANGED callVars
  BY <1>1, <1>7 DEF callVars, ModelInv, ModelTypeOK, AnswerIsWhole, StreamInv
<1> QED
  BY <1>1, <1>2, <1>3, <1>4, <1>5, <1>6, <1>7 DEF ModelNext

\* The inductive invariant, for all requests, providers and texts.
THEOREM ModelInvAlways == ModelSpec => []ModelInv
<1>1. ModelInit => ModelInv
  BY ModelInvInit
<1>2. ModelInv /\ [ModelNext]_callVars => ModelInv'
  BY ModelInvNext
<1> QED
  BY <1>1, <1>2, PTL DEF ModelSpec

\* The types of requests, streams and rows of the cache (ai/cache.rs, ai/openai.rs).
THEOREM ModelTypeCorrect == ModelSpec => []ModelTypeOK
<1>1. ModelInv => ModelTypeOK
  BY DEF ModelInv
<1> QED
  BY <1>1, ModelInvAlways, PTL

\* AnswerIsWhole: however a stream is cut into reads of the body (push_bytes), and
\* whoever asks the same at the same time, an answer is one that a provider gave in
\* full for that request, and the response cache has no other.
THEOREM WholeAnswerCorrect == ModelSpec => []AnswerIsWhole
<1>1. ModelInv => AnswerIsWhole
  BY DEF ModelInv
<1> QED
  BY <1>1, ModelInvAlways, PTL
=============================================================================
