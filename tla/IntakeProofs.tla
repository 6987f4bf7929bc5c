---------------------------- MODULE IntakeProofs -----------------------------
(***************************************************************************)
(* Theorems about how patches come in: Ingest, for all groups, articles    *)
(* and archives, and Submissions, for all submissions, requests and urls;  *)
(* any number of starts, crashes and failures.                             *)
(***************************************************************************)
EXTENDS Ingest, Submissions, FiniteSetTheorems, SequenceTheorems, TLAPS

-----------------------------------------------------------------------------
(***************************************************************************)
(* Articles                                                                *)
(***************************************************************************)
Item == Groups \X Nat
Task == [pc : {"down", "git", "asleep", "select", "fetch", "send", "save"},
         todo : Seq(Groups), cur : Nat, high : Nat, sent : SUBSET Nat, left : Nat]

\* What the ingestor works with, without the articles' dates.
TaskInv ==
  /\ dates \in [Groups -> Seq(Nat)] /\ boots \in Nat
  /\ mark \in [Groups -> Nat] /\ first \in [Groups -> Nat]
  /\ ingestor \in Task
  /\ IsFiniteSet(ingestor.sent) /\ Cardinality(ingestor.sent) <= ingestor.left

\* What is on its way to the database.
PipeInv ==
  /\ raw \in Seq(Item) /\ parsed \in Seq(Item) /\ batch \in Seq(Item)
  /\ held \in Item \cup {Nobody} /\ parsing \in [Parsers -> Item \cup {Nobody}]

\* The mark never passes the newest article; while a group is read the ingestor
\* knows its mark.
AtWork == ingestor.pc \in {"fetch", "send", "save"}
MarkInv ==
  /\ \A g \in Groups : mark[g] <= High(g)
  /\ AtWork => /\ ingestor.todo # <<>> /\ ingestor.cur = mark[Here]
               /\ ingestor.high <= High(Here)
  /\ ingestor.pc \in {"send", "save"} => ingestor.cur < ingestor.high

\* An article is stored, on its way, or one of the known losses; the article whose
\* mark is about to be saved is.
Handled(a) ==
  \/ a \in stored \/ a \in lost \/ a \in dropped \/ a \in failed
  \/ a \in Elems(raw) \/ a \in Elems(parsed) \/ a \in Elems(batch)
  \/ a = held \/ \E p \in Parsers : a = parsing[p]
SavedInv == \A a \in Article : ingestor.pc = "save" /\ a = Wanted => Handled(a)

IngestInv == TaskInv /\ PipeInv /\ MarkInv /\ SavedInv /\ NothingIsSkipped

-----------------------------------------------------------------------------
(***************************************************************************)
(* Sequences and sets                                                      *)
(***************************************************************************)
\* What is appended to a sequence is in it, like all there was.
LEMMA ElemsOfAppend ==
  ASSUME NEW S, NEW s \in Seq(S), NEW x \in S
  PROVE  /\ Append(s, x) \in Seq(S)
         /\ x \in Elems(Append(s, x)) /\ Elems(s) \subseteq Elems(Append(s, x))
<1>1. Append(s, x) \in Seq(S) /\ Len(Append(s, x)) = Len(s) + 1
  OBVIOUS
<1>2. Append(s, x)[Len(s) + 1] = x /\ \A i \in 1..Len(s) : Append(s, x)[i] = s[i]
  OBVIOUS
<1>3. DOMAIN s = 1..Len(s) /\ DOMAIN Append(s, x) = 1..(Len(s) + 1) /\ Len(s) \in Nat
  BY <1>1
<1>4. QED
  BY <1>1, <1>2, <1>3 DEF Elems

\* An element of a sequence is its head or in its tail.
LEMMA ElemsOfTail ==
  ASSUME NEW S, NEW s \in Seq(S), s # <<>>
  PROVE  /\ Head(s) \in S /\ Tail(s) \in Seq(S)
         /\ \A x \in Elems(s) : x = Head(s) \/ x \in Elems(Tail(s))
<1>1. Head(s) = s[1] /\ Head(s) \in S /\ Tail(s) \in Seq(S) /\ Len(Tail(s)) = Len(s) - 1
  OBVIOUS
<1>2. \A i \in 1..(Len(s) - 1) : Tail(s)[i] = s[i + 1]
  OBVIOUS
<1>3. ASSUME NEW i \in DOMAIN s, i # 1 PROVE s[i] \in Elems(Tail(s))
  <2>1. i - 1 \in 1..(Len(s) - 1) /\ DOMAIN Tail(s) = 1..(Len(s) - 1)
    BY <1>1, <1>3
  <2>2. Tail(s)[i - 1] = s[i]
    BY <1>2, <2>1
  <2>3. QED
    BY <2>1, <2>2 DEF Elems
<1>4. QED
  BY <1>1, <1>3 DEF Elems

\* An element of a sequence is in the first or in the second part of it.
LEMMA ElemsOfParts ==
  ASSUME NEW S, NEW s \in Seq(S), NEW n \in 0..Len(s)
  PROVE  /\ SubSeq(s, 1, n) \in Seq(S) /\ SubSeq(s, n + 1, Len(s)) \in Seq(S)
         /\ \A x \in Elems(s) :
              x \in Elems(SubSeq(s, 1, n)) \/ x \in Elems(SubSeq(s, n + 1, Len(s)))
<1>1. Len(s) \in Nat /\ DOMAIN s = 1..Len(s) /\ \A i \in 1..Len(s) : s[i] \in S
  OBVIOUS
<1>2. /\ SubSeq(s, 1, n) \in Seq(S) /\ Len(SubSeq(s, 1, n)) = n
      /\ \A i \in 1..n : SubSeq(s, 1, n)[i] = s[i]
  BY <1>1
<1>3. /\ SubSeq(s, n + 1, Len(s)) \in Seq(S) /\ Len(SubSeq(s, n + 1, Len(s))) = Len(s) - n
      /\ \A i \in 1..(Len(s) - n) : SubSeq(s, n + 1, Len(s))[i] = s[n + i]
  <2>1. \A i \in (n + 1) .. Len(s) : s[i] \in S
    BY <1>1
  <2>2. /\ SubSeq(s, n + 1, Len(s)) \in Seq(S)
        /\ Len(SubSeq(s, n + 1, Len(s)))
             = IF n + 1 <= Len(s) THEN Len(s) - (n + 1) + 1 ELSE 0
        /\ \A i \in 1 .. Len(s) - (n + 1) + 1 :
             SubSeq(s, n + 1, Len(s))[i] = s[n + 1 + i - 1]
    BY <1>1, <2>1, SubSeqProperties
  <2>3. PICK l \in Nat : l = Len(s)
    BY <1>1
  <2>4. n \in Nat /\ n <= l
    BY <2>3
  <2>5. (IF n + 1 <= l THEN l - (n + 1) + 1 ELSE 0) = l - n
    BY <2>4
  <2>6. Len(SubSeq(s, n + 1, Len(s))) = Len(s) - n
    <3>1. Len(SubSeq(s, n + 1, Len(s))) = IF n + 1 <= l THEN l - (n + 1) + 1 ELSE 0
      BY <2>2, <2>3
    <3> QED BY <2>3, <2>5, <3>1
  <2>7. ASSUME NEW i \in 1..(l - n)
        PROVE  SubSeq(s, n + 1, Len(s))[i] = s[n + i]
    <3>1. i \in 1 .. l - (n + 1) + 1 /\ n + 1 + i - 1 = n + i
      BY <2>4
    <3>2. SubSeq(s, n + 1, Len(s))[i] = s[n + 1 + i - 1]
      BY <2>2, <2>3, <3>1, Zenon
    <3> QED BY <3>1, <3>2, Zenon
  <2> QED BY <2>2, <2>3, <2>6, <2>7, Zenon
<1>4. ASSUME NEW i \in 1..Len(s)
      PROVE  s[i] \in Elems(SubSeq(s, 1, n)) \/ s[i] \in Elems(SubSeq(s, n + 1, Len(s)))
  <2>1. CASE i <= n
    <3> DEFINE t == SubSeq(s, 1, n)
    <3>1. i \in 1..n
      BY <1>1, <2>1
    <3>2. t \in Seq(S) /\ Len(t) = n /\ \A k \in 1..n : t[k] = s[k]
      BY <1>2
    <3> HIDE DEF t
    <3>3. i \in DOMAIN t /\ t[i] = s[i]
      BY <3>1, <3>2
    <3>4. s[i] \in Elems(t)
      BY <3>3 DEF Elems
    <3>5. QED
      BY <3>4 DEF t
  <2>2. CASE i > n
    <3> DEFINE t == SubSeq(s, n + 1, Len(s))
    <3>1. i - n \in 1..(Len(s) - n) /\ n + (i - n) = i
      BY <1>1, <2>2
    <3>2. t \in Seq(S) /\ Len(t) = Len(s) - n /\ \A k \in 1..(Len(s) - n) : t[k] = s[n + k]
      BY <1>3
    <3> HIDE DEF t
    <3>3. i - n \in DOMAIN t /\ t[i - n] = s[i]
      BY <3>1, <3>2
    <3>4. s[i] \in Elems(t)
      BY <3>3 DEF Elems
    <3>5. QED
      BY <3>4 DEF t
  <2>3. QED
    BY <1>1, <2>1, <2>2
<1>5. QED
  BY <1>1, <1>2, <1>3, <1>4 DEF Elems

\* The assumptions the proofs use.
LEMMA ConstantsAre ==
  /\ Tracked \in Seq(Groups) /\ Earlier \in [Groups -> Nat]
  /\ DownloadLimit \in Nat /\ FreshOverlap \in Nat /\ ShortOverlap \in Nat
  /\ ParsedCap \in Nat \ {0} /\ BatchCap \in Nat \ {0} /\ Nobody \notin Article
BY IngestAssumption

\* The group at hand is one of the groups.
LEMMA HereIs ==
  ASSUME TaskInv, ingestor.todo # <<>>
  PROVE  /\ Here \in Groups /\ Tail(ingestor.todo) \in Seq(Groups)
         /\ Wanted \in Item /\ Wanted = <<Here, ingestor.cur + 1>>
         /\ High(Here) \in Nat /\ mark[Here] \in Nat
<1>1. ingestor.todo \in Seq(Groups) /\ ingestor.cur \in Nat
  BY DEF TaskInv, Task
<1>2. Here \in Groups /\ Tail(ingestor.todo) \in Seq(Groups)
  BY <1>1, ElemsOfTail DEF Here
<1>3. dates[Here] \in Seq(Nat) /\ mark[Here] \in Nat
  BY <1>2 DEF TaskInv
<1>4. QED
  BY <1>1, <1>2, <1>3 DEF Wanted, Item, High

-----------------------------------------------------------------------------
(***************************************************************************)
(* The way to the database                                                 *)
(***************************************************************************)
PipeSame == UNCHANGED <<outcomes, pipeline>>
TaskSame == UNCHANGED <<dates, mark, first, ingestor, boots>>
PipeStep == Receive \/ (\E p \in Parsers : SpawnParser(p) \/ Parse(p)) \/ TakeBatch \/ Store

\* Every step but those that send or crash belongs to one side.
LEMMA Sides ==
  ASSUME [IngestNext]_IngestVars
  PROVE  \/ PipeSame
         \/ TaskSame /\ PipeStep
         \/ SendBlob \/ SendArticle \/ IngestCrash
<1>1. CASE IngestorStep
  BY <1>1 DEF IngestorStep, EpochEnds, GroupEndsInGit, GitEnds, StartCycle, EndCycle,
     SelectGroup, SkipGroup, GroupIsRead, Fetch, SaveMark, SkipArticle, LeaveGroup, NoArticle, PipeSame,
     pipeline, outcomes
<1>2. CASE ParserStep \/ WorkerStep
  BY <1>2 DEF ParserStep, WorkerStep, PipeStep, TaskSame, Receive, SpawnParser, Parse,
     TakeBatch, Store
<1>3. CASE (\E dl \in BOOLEAN : IngestBoot(dl)) \/ (\E g \in Groups : Post(g))
  BY <1>3 DEF IngestBoot, Post, PipeSame
<1>4. CASE UNCHANGED IngestVars
  BY <1>4 DEF IngestVars, PipeSame
<1>5. QED
  BY <1>1, <1>2, <1>3, <1>4 DEF IngestNext

\* What is sent is appended to the channel; the rest stays as it is.
LEMMA SendDoes ==
  ASSUME TaskInv, MarkInv, SendBlob \/ SendArticle
  PROVE  \E x \in Item :
           /\ raw' = Append(raw, x)
           /\ UNCHANGED <<outcomes, held, parsing, parsed, batch>>
           /\ SendArticle => x = Wanted
<1>1. CASE SendBlob
  <2>1. ingestor.todo # <<>>
    BY <1>1 DEF SendBlob, InGit
  <2>2. \A n \in Unsent : <<Here, n>> \in Item
    BY <2>1, HereIs DEF Unsent, TaskInv, Item
  <2>3. ~SendArticle
    BY <1>1 DEF SendBlob, InGit, SendArticle, At
  <2>4. QED
    BY <1>1, <2>2, <2>3 DEF SendBlob, outcomes
<1>2. CASE SendArticle
  <2>1. ingestor.todo # <<>>
    BY <1>2 DEF SendArticle, MarkInv, AtWork, At
  <2>2. QED
    BY <1>2, <2>1, HereIs DEF SendArticle, outcomes
<1>3. QED
  BY <1>1, <1>2

\* Every step keeps what is on its way in order, and loses nothing that is handled.
LEMMA PipeNext ==
  ASSUME TaskInv, MarkInv, PipeInv, [IngestNext]_IngestVars
  PROVE  PipeInv' /\ \A a \in Article : Handled(a) => Handled(a)'
<1>1. CASE PipeSame
  BY <1>1 DEF PipeSame, PipeInv, Handled, outcomes, pipeline
<1>2. CASE SendBlob \/ SendArticle
  <2>1. PICK x \in Item : raw' = Append(raw, x)
                          /\ UNCHANGED <<outcomes, held, parsing, parsed, batch>>
    BY <1>2, SendDoes
  <2>2. raw' \in Seq(Item) /\ Elems(raw) \subseteq Elems(raw')
    BY <2>1, ElemsOfAppend DEF PipeInv
  <2>3. QED
    BY <2>1, <2>2 DEF PipeInv, Handled, outcomes
<1>3. CASE IngestCrash
  <2>1. PipeInv'
    BY <1>3 DEF IngestCrash, PipeInv, Empty
  <2>2. ASSUME NEW a \in Article, Handled(a) PROVE Handled(a)'
    <3>1. a \in InFlight \/ a \in stored \/ a \in lost \/ a \in dropped \/ a \in failed
      BY <2>2, ConstantsAre DEF Handled, InFlight
    <3>2. QED
      BY <1>3, <3>1 DEF IngestCrash, Handled
  <2>3. QED
    BY <2>1, <2>2
<1>4. CASE Receive
  <2>1. Head(raw) \in Item /\ Tail(raw) \in Seq(Item)
        /\ \A x \in Elems(raw) : x = Head(raw) \/ x \in Elems(Tail(raw))
    BY <1>4, ElemsOfTail DEF Receive, PipeInv
  <2>2. held = Nobody /\ held' = Head(raw) /\ raw' = Tail(raw)
        /\ UNCHANGED <<outcomes, parsing, parsed, batch>>
    BY <1>4 DEF Receive
  <2>3. QED
    BY <2>1, <2>2, ConstantsAre DEF PipeInv, Handled, outcomes
<1>5. ASSUME NEW p \in Parsers, SpawnParser(p)
      PROVE  PipeInv' /\ \A a \in Article : Handled(a) => Handled(a)'
  <2>1. /\ parsing[p] = Nobody /\ held # Nobody /\ held' = Nobody
        /\ parsing' = [parsing EXCEPT ![p] = held]
        /\ UNCHANGED <<outcomes, raw, parsed, batch>>
    BY <1>5 DEF SpawnParser
  <2>2. parsing'[p] = held /\ \A q \in Parsers : q # p => parsing'[q] = parsing[q]
    BY <2>1 DEF PipeInv
  <2>3. QED
    BY <2>1, <2>2, ConstantsAre DEF PipeInv, Handled, outcomes
<1>6. ASSUME NEW p \in Parsers, Parse(p)
      PROVE  PipeInv' /\ \A a \in Article : Handled(a) => Handled(a)'
  <2>1. /\ parsing[p] \in Item /\ parsing' = [parsing EXCEPT ![p] = Nobody]
        /\ UNCHANGED <<stored, lost, failed, raw, held, batch>>
        /\ \A q \in Parsers : q # p => parsing'[q] = parsing[q]
    BY <1>6 DEF Parse, PipeInv, outcomes
  <2>2. \/ parsed' = Append(parsed, parsing[p]) /\ dropped' = dropped
        \/ dropped' = dropped \cup {parsing[p]} /\ parsed' = parsed
    BY <1>6 DEF Parse
  <2>3. /\ parsed' \in Seq(Item)
        /\ Elems(parsed) \subseteq Elems(parsed')
        /\ parsing[p] \in Elems(parsed') \/ parsing[p] \in dropped'
        /\ dropped \subseteq dropped'
    <3>1. CASE parsed' = Append(parsed, parsing[p]) /\ dropped' = dropped
      <4>1. /\ Append(parsed, parsing[p]) \in Seq(Item)
            /\ parsing[p] \in Elems(Append(parsed, parsing[p]))
            /\ Elems(parsed) \subseteq Elems(Append(parsed, parsing[p]))
        BY <2>1, ElemsOfAppend DEF PipeInv
      <4>2. QED
        BY <3>1, <4>1
    <3>2. CASE dropped' = dropped \cup {parsing[p]} /\ parsed' = parsed
      BY <3>2 DEF PipeInv
    <3>3. QED
      BY <2>2, <3>1, <3>2
  <2>4. PipeInv'
    BY <2>1, <2>3 DEF PipeInv
  <2>5. \A a \in Article : Handled(a) => Handled(a)'
    BY <2>1, <2>3 DEF Handled
  <2>6. QED
    BY <2>4, <2>5
<1>7. CASE TakeBatch
  <2>1. Taken \in 0..Len(parsed)
    BY ConstantsAre DEF Taken, PipeInv
  <2>2. /\ batch = <<>> /\ batch' = SubSeq(parsed, 1, Taken)
        /\ parsed' = SubSeq(parsed, Taken + 1, Len(parsed))
        /\ UNCHANGED <<outcomes, raw, held, parsing>>
    BY <1>7 DEF TakeBatch
  <2>3. parsed' \in Seq(Item) /\ batch' \in Seq(Item)
        /\ \A x \in Elems(parsed) : x \in Elems(batch') \/ x \in Elems(parsed')
    BY <2>1, <2>2, ElemsOfParts DEF PipeInv
  <2>4. Elems(batch) = {}
    BY <2>2 DEF Elems
  <2>5. QED
    BY <2>2, <2>3, <2>4 DEF PipeInv, Handled, outcomes
<1>8. CASE Store
  <2>1. /\ batch # <<>> /\ batch' = Tail(batch)
        /\ UNCHANGED <<lost, dropped, raw, held, parsing, parsed>>
        /\ stored \subseteq stored' /\ failed \subseteq failed'
        /\ Head(batch) \in stored' \/ Head(batch) \in failed'
    BY <1>8 DEF Store
  <2>2. Tail(batch) \in Seq(Item)
        /\ \A x \in Elems(batch) : x = Head(batch) \/ x \in Elems(Tail(batch))
    BY <2>1, ElemsOfTail DEF PipeInv
  <2>3. QED
    BY <2>1, <2>2 DEF PipeInv, Handled
<1>9. QED
  BY <1>1, <1>2, <1>3, <1>4, <1>5, <1>6, <1>7, <1>8, Sides DEF PipeStep

-----------------------------------------------------------------------------
(***************************************************************************)
(* The ingestor and its marks                                              *)
(***************************************************************************)
\* What sending a blob of an archive does to the share that is left.
LEMMA BlobIsCounted ==
  ASSUME TaskInv, SendBlob
  PROVE  TaskInv'
<1>1. PICK n \in Unsent : ingestor' = [ingestor EXCEPT !.sent = @ \cup {n}]
  BY DEF SendBlob
<1>2. n \in Nat /\ n \notin ingestor.sent
  <2>1. ingestor.todo # <<>>
    BY DEF SendBlob, InGit
  <2>2. dates[Here] \in Seq(Nat)
    BY <2>1, HereIs DEF TaskInv
  <2>3. QED
    BY <2>2 DEF Unsent
<1>3. ingestor.left - Cardinality(ingestor.sent) > 0 /\ ingestor.left \in Nat
  BY DEF SendBlob, Left, TaskInv, Task
<1>4. /\ IsFiniteSet(ingestor.sent \cup {n})
      /\ Cardinality(ingestor.sent \cup {n}) = Cardinality(ingestor.sent) + 1
      /\ Cardinality(ingestor.sent) \in Nat
  BY <1>2, FS_AddElement, FS_CardinalityType DEF TaskInv
<1>5. /\ ingestor' \in Task
      /\ ingestor'.sent = ingestor.sent \cup {n} /\ ingestor'.left = ingestor.left
  BY <1>1, <1>2 DEF TaskInv, Task
<1>6. UNCHANGED <<dates, mark, first, boots>>
  BY DEF SendBlob
<1>7. QED
  BY <1>3, <1>4, <1>5, <1>6 DEF TaskInv

\* While the ingestor goes on without sending, the set of sent blobs is empty or kept.
LEMMA TaskGoesOn ==
  ASSUME TaskInv, ingestor' \in Task, UNCHANGED <<dates, boots>>,
         mark' \in [Groups -> Nat], first' \in [Groups -> Nat],
         \/ ingestor'.sent = {}
         \/ ingestor'.sent = ingestor.sent /\ ingestor'.left = ingestor.left
  PROVE  TaskInv'
<1>1. CASE ingestor'.sent = {}
  BY <1>1, FS_EmptySet DEF TaskInv, Task
<1>2. CASE ingestor'.sent = ingestor.sent /\ ingestor'.left = ingestor.left
  BY <1>2 DEF TaskInv
<1>3. QED
  BY <1>1, <1>2

\* The window of a new group begins at or before its newest article.
LEMMA BeginIs ==
  ASSUME TaskInv, MarkInv, NEW g \in Groups
  PROVE  Begin(g) \in Nat /\ Begin(g) <= High(g) /\ (mark[g] # 0 => Begin(g) = mark[g])
<1>1. mark[g] \in Nat /\ High(g) \in Nat /\ mark[g] <= High(g) /\ Window \in Nat
  BY ConstantsAre DEF TaskInv, MarkInv, High, Window
<1>2. QED
  BY <1>1 DEF Begin

\* Where the ingestor is after a step over the news server, and the marks it leaves.
LEMMA CycleKeepsMarks ==
  ASSUME TaskInv, MarkInv,
         \/ StartCycle \/ EndCycle \/ SelectGroup \/ SkipGroup \/ GroupIsRead
         \/ Fetch \/ SendArticle \/ SaveMark \/ SkipArticle \/ LeaveGroup
  PROVE  TaskInv' /\ MarkInv'
<1>0. /\ ingestor \in Task /\ mark \in [Groups -> Nat] /\ first \in [Groups -> Nat]
      /\ \A g \in Groups : mark[g] <= High(g) /\ High(g) \in Nat
  BY DEF TaskInv, MarkInv, High
<1>1. ASSUME ingestor' \in Task, ingestor'.pc \notin {"fetch", "send", "save"},
             UNCHANGED <<dates, mark, first, boots>>,
             ingestor'.sent = ingestor.sent /\ ingestor'.left = ingestor.left
      PROVE  TaskInv' /\ MarkInv'
  <2>1. TaskInv'
    BY <1>0, <1>1, TaskGoesOn
  <2>2. QED
    BY <1>0, <1>1, <2>1 DEF MarkInv, AtWork, High
<1>2. CASE StartCycle
  BY <1>0, <1>1, <1>2, ConstantsAre DEF StartCycle, Task
<1>3. CASE EndCycle
  BY <1>0, <1>1, <1>3 DEF EndCycle, Task
<1>4. CASE SkipGroup \/ GroupIsRead \/ LeaveGroup
  <2>1. ingestor.todo # <<>>
    BY <1>4 DEF SkipGroup, GroupIsRead, LeaveGroup, NoArticle, MarkInv, AtWork, At, Reading
  <2>2. ingestor' = NextGroup /\ UNCHANGED <<dates, mark, first, boots>>
    BY <1>4 DEF SkipGroup, GroupIsRead, LeaveGroup
  <2>3. Tail(ingestor.todo) \in Seq(Groups)
    BY <2>1, HereIs
  <2>4. QED
    BY <1>0, <1>1, <2>2, <2>3 DEF NextGroup, Task
<1>5. CASE SelectGroup
  <2>1. /\ ingestor.todo # <<>> /\ UNCHANGED <<dates, boots>>
        /\ mark' = [mark EXCEPT ![Here] = Begin(Here)]
        /\ first' = IF mark[Here] = 0 THEN [first EXCEPT ![Here] = Begin(Here)] ELSE first
        /\ ingestor' = [ingestor EXCEPT !.pc = "fetch", !.cur = Begin(Here),
                                        !.high = High(Here)]
    BY <1>5 DEF SelectGroup
  <2>2. /\ Here \in Groups /\ High(Here) \in Nat
        /\ Begin(Here) \in Nat /\ Begin(Here) <= High(Here)
    BY <2>1, HereIs, BeginIs
  <2>3. /\ ingestor' \in Task /\ ingestor'.todo = ingestor.todo /\ ingestor'.pc = "fetch"
        /\ ingestor'.cur = Begin(Here) /\ ingestor'.high = High(Here)
        /\ ingestor'.sent = ingestor.sent /\ ingestor'.left = ingestor.left
    BY <1>0, <2>1, <2>2 DEF Task
  <2>4. mark' \in [Groups -> Nat] /\ first' \in [Groups -> Nat] /\ mark'[Here] = Begin(Here)
        /\ \A g \in Groups : mark'[g] <= High(g)
    BY <1>0, <2>1, <2>2
  <2>5. TaskInv'
    BY <2>1, <2>3, <2>4, TaskGoesOn
  <2>6. Here' = Here /\ \A g \in Groups : High(g)' = High(g)
    BY <2>1, <2>3 DEF Here, High
  <2>7. QED
    BY <2>1, <2>2, <2>3, <2>4, <2>5, <2>6 DEF MarkInv
<1>6. CASE Fetch \/ SendArticle
  <2>1. /\ AtWork /\ ingestor.pc \in {"fetch", "send"} /\ UNCHANGED <<dates, mark, first, boots>>
        /\ ingestor.cur < ingestor.high
        /\ \E pc \in {"send", "save"} : ingestor' = [ingestor EXCEPT !.pc = pc]
    BY <1>6 DEF Fetch, SendArticle, At, Reading, MarkInv, AtWork
  <2>2. /\ ingestor' \in Task /\ ingestor'.todo = ingestor.todo /\ ingestor'.cur = ingestor.cur
        /\ ingestor'.high = ingestor.high
        /\ ingestor'.sent = ingestor.sent /\ ingestor'.left = ingestor.left
    BY <1>0, <2>1 DEF Task
  <2>3. TaskInv'
    BY <1>0, <2>1, <2>2, TaskGoesOn
  <2>4. QED
    BY <2>1, <2>2, <2>3 DEF MarkInv, AtWork, Here, High
<1>7. CASE SaveMark \/ SkipArticle
  <2>1. /\ AtWork /\ ingestor.todo # <<>> /\ ingestor.cur < ingestor.high
        /\ ingestor.high <= High(Here) /\ UNCHANGED <<dates, first, boots>>
        /\ \/ Advance
           \/ mark' = mark /\ ingestor' = [ingestor EXCEPT !.pc = "asleep", !.todo = <<>>]
    BY <1>7 DEF SaveMark, SkipArticle, NoArticle, At, Reading, MarkInv, AtWork
  <2>2. CASE Advance
    <3>1. /\ mark' = [mark EXCEPT ![Here] = ingestor.cur + 1]
          /\ ingestor' = [ingestor EXCEPT !.pc = "fetch", !.cur = @ + 1]
          /\ ingestor.cur \in Nat /\ ingestor.high \in Nat /\ Here \in Groups
      BY <1>0, <2>1, <2>2, HereIs DEF Advance, Task
    <3>2. /\ ingestor' \in Task /\ ingestor'.todo = ingestor.todo /\ ingestor'.pc = "fetch"
          /\ ingestor'.cur = ingestor.cur + 1 /\ ingestor'.high = ingestor.high
          /\ ingestor'.sent = ingestor.sent /\ ingestor'.left = ingestor.left
      <4>1. ingestor' = [ingestor EXCEPT !.pc = "fetch", !.cur = ingestor.cur + 1]
            /\ ingestor.cur + 1 \in Nat /\ ingestor \in Task
        BY <1>0, <3>1
      <4>2. QED
        BY <4>1 DEF Task
    <3>3. mark' \in [Groups -> Nat] /\ mark'[Here] = ingestor.cur + 1
          /\ \A g \in Groups : mark'[g] <= High(g)
      BY <1>0, <2>1, <3>1
    <3>4. TaskInv'
      BY <1>0, <2>1, <3>2, <3>3, TaskGoesOn
    <3>5. Here' = Here /\ \A g \in Groups : High(g)' = High(g)
      BY <2>1, <3>2 DEF Here, High
    <3>6. QED
      BY <2>1, <3>1, <3>2, <3>3, <3>4, <3>5 DEF MarkInv
  <2>3. CASE mark' = mark /\ ingestor' = [ingestor EXCEPT !.pc = "asleep", !.todo = <<>>]
    <3>1. /\ ingestor' \in Task /\ ingestor'.pc = "asleep"
          /\ ingestor'.sent = ingestor.sent /\ ingestor'.left = ingestor.left
      <4>1. <<>> \in Seq(Groups)
        OBVIOUS
      <4>2. QED
        BY <1>0, <2>3, <4>1 DEF Task
    <3>2. QED
      BY <1>1, <2>1, <2>3, <3>1
  <2>4. QED
    BY <2>1, <2>2, <2>3
<1>8. QED
  BY <1>2, <1>3, <1>4, <1>5, <1>6, <1>7

\* The ingestor in the archives, a start, a crash and a post.
LEMMA OthersKeepMarks ==
  ASSUME TaskInv, MarkInv,
         \/ SendBlob \/ EpochEnds \/ GroupEndsInGit \/ GitEnds \/ IngestCrash
         \/ \E dl \in BOOLEAN : IngestBoot(dl)
         \/ \E g \in Groups : Post(g)
  PROVE  TaskInv' /\ MarkInv'
<1>0. /\ ingestor \in Task /\ mark \in [Groups -> Nat] /\ first \in [Groups -> Nat]
      /\ \A g \in Groups : mark[g] <= High(g) /\ High(g) \in Nat
  BY DEF TaskInv, MarkInv, High
<1>1. ASSUME ingestor'.pc \notin {"fetch", "send", "save"}, UNCHANGED <<dates, mark>>
      PROVE  MarkInv'
  BY <1>0, <1>1 DEF MarkInv, AtWork, High
<1>2. CASE SendBlob
  <2>1. ingestor'.pc = "git" /\ UNCHANGED <<dates, mark>>
    BY <1>0, <1>2 DEF SendBlob, InGit, Task
  <2>2. QED
    BY <1>1, <1>2, <2>1, BlobIsCounted
<1>3. CASE EpochEnds
  <2>1. /\ ingestor.left \in Nat /\ Left \in Nat
    <3>1. Cardinality(ingestor.sent) \in Nat
      BY FS_CardinalityType DEF TaskInv
    <3>2. QED
      BY <1>0, <3>1 DEF Left, TaskInv, Task
  <2>2. PICK left \in Nat : ingestor' = NextEpoch(left)
    BY <1>3, <2>1 DEF EpochEnds
  <2>3. ingestor.pc = "git" /\ UNCHANGED <<dates, mark, first, boots>>
    BY <1>3 DEF EpochEnds, InGit
  <2>4. ingestor' \in Task /\ ingestor'.pc = "git" /\ ingestor'.sent = {}
    <3>1. ingestor' = [ingestor EXCEPT !.cur = ingestor.cur + 1, !.sent = {}, !.left = left]
      BY <2>2 DEF NextEpoch
    <3>2. ingestor.cur + 1 \in Nat /\ {} \in SUBSET Nat /\ ingestor.pc = "git"
      BY <1>0, <2>3 DEF Task
    <3>3. QED
      BY <1>0, <3>1, <3>2 DEF Task
  <2>5. QED
    BY <1>0, <1>1, <2>3, <2>4, TaskGoesOn
<1>4. CASE GroupEndsInGit
  <2>1. /\ ingestor.pc = "git" /\ UNCHANGED <<dates, mark, first, boots>>
        /\ ingestor' = NextGroupInGit /\ Tail(ingestor.todo) \in Seq(Groups)
    BY <1>4, HereIs DEF GroupEndsInGit, InGit
  <2>2. ingestor' \in Task /\ ingestor'.pc = "git" /\ ingestor'.sent = {}
    BY <1>0, <2>1, ConstantsAre DEF NextGroupInGit, Task
  <2>3. QED
    BY <1>0, <1>1, <2>1, <2>2, TaskGoesOn
<1>5. Asleep \in Task /\ Asleep.sent = {} /\ Asleep.pc = "asleep"
      /\ Down \in Task /\ Down.sent = {} /\ Down.pc = "down"
  <2>1. <<>> \in Seq(Groups) /\ {} \in SUBSET Nat /\ 0 \in Nat
    OBVIOUS
  <2>2. Asleep \in Task /\ Asleep.sent = {} /\ Asleep.pc = "asleep"
    BY <2>1 DEF Asleep, Task
  <2>3. QED
    BY <2>2 DEF Down, Task
<1>6. CASE GitEnds
  <2>1. UNCHANGED <<dates, mark, first, boots>> /\ ingestor' = Asleep
    BY <1>6 DEF GitEnds
  <2>2. QED
    BY <1>0, <1>1, <1>5, <2>1, TaskGoesOn
<1>7. CASE IngestCrash
  <2>1. UNCHANGED <<dates, mark, first, boots>> /\ ingestor' = Down
    BY <1>7 DEF IngestCrash
  <2>2. QED
    BY <1>0, <1>1, <1>5, <2>1, TaskGoesOn
<1>8. ASSUME NEW dl \in BOOLEAN, IngestBoot(dl) PROVE TaskInv' /\ MarkInv'
  <2>1. /\ UNCHANGED <<dates, mark, first>> /\ boots' = boots + 1 /\ boots \in Nat
        /\ \/ ingestor' = Asleep
           \/ ingestor' = [Asleep EXCEPT !.pc = "git", !.todo = Tracked, !.cur = 1,
                                         !.left = DownloadLimit]
    BY <1>8 DEF IngestBoot, TaskInv
  <2>2. /\ ingestor' \in Task /\ ingestor'.sent = {} /\ ingestor'.pc \in {"asleep", "git"}
    <3>1. CASE ingestor' = Asleep
      BY <1>5, <3>1
    <3>2. CASE ingestor' = [Asleep EXCEPT !.pc = "git", !.todo = Tracked, !.cur = 1,
                                         !.left = DownloadLimit]
      BY <1>5, <3>2, ConstantsAre DEF Task
    <3>3. QED
      BY <2>1, <3>1, <3>2
  <2>3. TaskInv'
    BY <2>1, <2>2, FS_EmptySet DEF TaskInv, Task
  <2>4. QED
    BY <1>1, <2>1, <2>2, <2>3
<1>9. ASSUME NEW g \in Groups, Post(g) PROVE TaskInv' /\ MarkInv'
  <2>1. /\ dates' = [dates EXCEPT ![g] = Append(@, boots)] /\ dates[g] \in Seq(Nat)
        /\ UNCHANGED <<mark, first, ingestor, boots>>
    BY <1>9 DEF Post, TaskInv
  <2>2. /\ dates' \in [Groups -> Seq(Nat)]
        /\ \A h \in Groups : Len(dates[h]) <= Len(dates'[h]) /\ Len(dates'[h]) \in Nat
    BY <2>1 DEF TaskInv
  <2>3. AtWork => Here \in Groups /\ Here' = Here
    BY <2>1, HereIs DEF MarkInv, Here
  <2>4. AtWork => ingestor.high \in Nat
    BY <1>0 DEF Task
  <2>5. TaskInv'
    BY <2>1, <2>2 DEF TaskInv
  <2>6. \A h \in Groups : High(h) <= High(h)' /\ High(h)' \in Nat /\ mark[h] \in Nat
    BY <1>0, <2>2 DEF High
  <2>7. \A h \in Groups : mark'[h] <= High(h)'
    BY <1>0, <2>1, <2>6
  <2>8. AtWork => ingestor'.high <= High(Here)'
    BY <1>0, <2>1, <2>2, <2>3, <2>4 DEF MarkInv, High
  <2>9. QED
    BY <2>1, <2>3, <2>5, <2>7, <2>8 DEF MarkInv, AtWork
<1>10. QED
  BY <1>2, <1>3, <1>4, <1>6, <1>7, <1>8, <1>9

\* Every step keeps the task and its marks.
LEMMA TaskNext ==
  ASSUME TaskInv, MarkInv, [IngestNext]_IngestVars
  PROVE  TaskInv' /\ MarkInv'
<1>1. CASE ParserStep \/ WorkerStep \/ UNCHANGED IngestVars
  <2>1. TaskSame
    BY <1>1 DEF ParserStep, WorkerStep, IngestVars, TaskSame, Receive, SpawnParser, Parse,
       TakeBatch, Store
  <2>2. QED
    BY <2>1 DEF TaskSame, TaskInv, MarkInv, AtWork, Here, High
<1>2. QED
  BY <1>1, CycleKeepsMarks, OthersKeepMarks DEF IngestNext, IngestorStep

-----------------------------------------------------------------------------
(***************************************************************************)
(* Nothing is skipped                                                      *)
(***************************************************************************)
\* The property, in terms of what is handled.
LEMMA AccountedIs ==
  ASSUME NEW a \in Article
  PROVE  Accounted(a) <=> ((Posted(a) /\ a \notin Missing /\ first[a[1]] < a[2]
                            /\ a[2] <= mark[a[1]]) => Handled(a))
BY ConstantsAre DEF Accounted, Handled, InFlight

\* The article whose mark is saved next went into the channel, and stays handled.
LEMMA SavedNext ==
  ASSUME TaskInv, MarkInv, PipeInv, SavedInv, [IngestNext]_IngestVars
  PROVE  SavedInv'
<1> SUFFICES ASSUME NEW a \in Article, ingestor'.pc = "save", a = Wanted'
             PROVE  Handled(a)'
  BY DEF SavedInv
<1>1. CASE SendArticle
  <2>1. ingestor' = [ingestor EXCEPT !.pc = "save"] /\ ingestor \in Task
    BY <1>1 DEF SendArticle, TaskInv
  <2>2. ingestor'.todo = ingestor.todo /\ ingestor'.cur = ingestor.cur
    BY <2>1 DEF Task
  <2>3. Wanted' = Wanted
    BY <2>2 DEF Wanted, Here
  <2>4. PICK x \in Item : raw' = Append(raw, x) /\ x = Wanted
    BY <1>1, SendDoes
  <2>5. a \in Elems(raw')
    BY <2>3, <2>4, ElemsOfAppend DEF PipeInv
  <2>6. QED
    BY <2>5 DEF Handled
<1>2. CASE ingestor' = ingestor
  <2>1. Wanted' = Wanted
    BY <1>2 DEF Wanted, Here
  <2>2. Handled(a)
    BY <1>2, <2>1 DEF SavedInv
  <2>3. QED
    BY <2>2, PipeNext
<1>3. ASSUME ~SendArticle PROVE ingestor' = ingestor
  <2>1. ingestor \in Task
    BY DEF TaskInv
  <2>2. ~SendBlob /\ ~EpochEnds /\ ~GroupEndsInGit /\ ~GitEnds
    <3>1. ~SendBlob
      BY <2>1 DEF SendBlob, InGit, Task
    <3>2. ~EpochEnds
      <4>1. ASSUME NEW left, ingestor' = NextEpoch(left), ingestor.pc = "git" PROVE FALSE
        <5>1. ingestor' = [ingestor EXCEPT !.cur = ingestor.cur + 1, !.sent = {}, !.left = left]
          BY <4>1 DEF NextEpoch
        <5>2. ingestor'.pc = "git"
          BY <2>1, <4>1, <5>1 DEF Task
        <5>3. QED
          BY <5>2
      <4>2. QED
        BY <4>1 DEF EpochEnds, InGit
    <3>3. ~GroupEndsInGit
      BY <2>1 DEF GroupEndsInGit, NextGroupInGit, InGit, Task
    <3>4. ~GitEnds
      BY DEF GitEnds, Asleep
    <3>5. QED
      BY <3>1, <3>2, <3>3, <3>4
  <2>3. ~StartCycle /\ ~EndCycle /\ ~SelectGroup /\ ~SkipGroup /\ ~GroupIsRead
    BY <2>1 DEF StartCycle, EndCycle, SelectGroup, SkipGroup, GroupIsRead, NextGroup, Task
  <2>4. ~Fetch /\ ~SaveMark /\ ~SkipArticle /\ ~LeaveGroup
    <3>1. ~Fetch
      BY <2>1 DEF Fetch, Task
    <3>2. ~Advance
      <4>1. ASSUME Advance PROVE FALSE
        <5>1. ingestor' = [ingestor EXCEPT !.pc = "fetch", !.cur = ingestor.cur + 1]
          BY <4>1 DEF Advance
        <5>2. ingestor'.pc = "fetch"
          BY <2>1, <5>1 DEF Task
        <5>3. QED
          BY <5>2
      <4>2. QED
        BY <4>1
    <3>3. ~SaveMark /\ ~SkipArticle
      BY <2>1, <3>2 DEF SaveMark, SkipArticle, Task
    <3>4. ~LeaveGroup
      BY <2>1 DEF LeaveGroup, NextGroup, Task
    <3>5. QED
      BY <3>1, <3>3, <3>4
  <2>5. ~IngestCrash /\ ~(\E dl \in BOOLEAN : IngestBoot(dl))
    <3>1. Asleep.pc = "asleep" /\ Down.pc = "down"
          /\ [Asleep EXCEPT !.pc = "git", !.todo = Tracked, !.cur = 1,
                             !.left = DownloadLimit].pc = "git"
      BY DEF Asleep, Down
    <3>2. QED
      BY <3>1 DEF IngestCrash, IngestBoot
  <2>6. CASE \E g \in Groups : Post(g)
    BY <2>6 DEF Post
  <2>7. CASE ParserStep \/ WorkerStep \/ UNCHANGED IngestVars
    BY <2>7 DEF ParserStep, WorkerStep, IngestVars, Receive, SpawnParser, Parse, TakeBatch, Store
  <2>8. QED
    BY <1>3, <2>2, <2>3, <2>4, <2>5, <2>6, <2>7 DEF IngestNext, IngestorStep
<1>4. QED
  BY <1>1, <1>2, <1>3

\* The marks move when a group is selected or an article is passed, nowhere else.
LEMMA MarksMove ==
  ASSUME [IngestNext]_IngestVars
  PROVE  \/ UNCHANGED <<dates, mark, first>>
         \/ SelectGroup
         \/ (SaveMark \/ SkipArticle) /\ Advance
         \/ \E g \in Groups : Post(g)
BY DEF IngestNext, IngestVars, IngestBoot, IngestCrash, IngestorStep, SendBlob, EpochEnds,
   GroupEndsInGit, GitEnds, StartCycle, EndCycle, SkipGroup, GroupIsRead, Fetch, SendArticle,
   SaveMark, SkipArticle, LeaveGroup, NoArticle, ParserStep, WorkerStep, Receive, SpawnParser, Parse,
   TakeBatch, Store

\* A step passes no article that is not handled.
LEMMA SkippedNext ==
  ASSUME TaskInv, MarkInv, PipeInv, SavedInv, NothingIsSkipped, [IngestNext]_IngestVars
  PROVE  NothingIsSkipped'
<1> SUFFICES ASSUME NEW a \in Article \ Odd PROVE Accounted(a)'
  BY DEF NothingIsSkipped
<1> DEFINE g == a[1]
<1>1. g \in Groups /\ a[2] \in Nat /\ a = <<a[1], a[2]>>
  BY ConstantsAre DEF Article
<1>2. /\ mark[g] \in Nat /\ first[g] \in Nat /\ mark[g] <= High(g)
      /\ dates[g] \in Seq(Nat) /\ Len(dates[g]) \in Nat
  BY <1>1 DEF TaskInv, MarkInv
<1>3. (Posted(a) /\ a \notin Missing /\ first[g] < a[2] /\ a[2] <= mark[g]) => Handled(a)
  BY AccountedIs DEF NothingIsSkipped
<1>4. Handled(a) => Handled(a)'
  BY PipeNext
<1> SUFFICES ASSUME Posted(a)', a \notin Missing, first'[g] < a[2], a[2] <= mark'[g]
             PROVE  Handled(a)'
  BY ConstantsAre DEF Accounted, Handled, InFlight
<1>5. CASE UNCHANGED <<dates, mark, first>>
  BY <1>3, <1>4, <1>5 DEF Posted
<1>6. CASE SelectGroup
  <2>1. /\ ingestor.todo # <<>> /\ dates' = dates
        /\ mark' = [mark EXCEPT ![Here] = Begin(Here)]
        /\ first' = IF mark[Here] = 0 THEN [first EXCEPT ![Here] = Begin(Here)] ELSE first
    BY <1>6 DEF SelectGroup
  <2>2. /\ Here \in Groups /\ Begin(Here) \in Nat /\ (mark[Here] # 0 => Begin(Here) = mark[Here])
    BY <2>1, HereIs, BeginIs
  <2>3. CASE g # Here \/ mark[Here] # 0
    <3>1. mark'[g] = mark[g] /\ first'[g] = first[g]
      BY <1>1, <2>1, <2>2, <2>3 DEF TaskInv
    <3>2. QED
      BY <1>3, <1>4, <2>1, <3>1 DEF Posted
  <2>4. CASE g = Here /\ mark[Here] = 0
    <3>1. mark'[g] = Begin(Here) /\ first'[g] = Begin(Here)
      BY <2>1, <2>2, <2>4 DEF TaskInv
    <3>2. QED
      BY <1>1, <2>2, <3>1
  <2>5. QED
    BY <2>3, <2>4
<1>7. CASE (SaveMark \/ SkipArticle) /\ Advance
  <2>1. AtWork /\ ingestor.todo # <<>> /\ ingestor.cur = mark[Here]
    BY <1>7 DEF SaveMark, SkipArticle, NoArticle, At, Reading, MarkInv, AtWork
  <2>2. /\ Here \in Groups /\ Wanted = <<Here, ingestor.cur + 1>> /\ mark[Here] \in Nat
    BY <2>1, HereIs
  <2>3. mark' = [mark EXCEPT ![Here] = mark[Here] + 1] /\ UNCHANGED <<dates, first>>
    BY <1>7, <2>1 DEF Advance, SaveMark, SkipArticle
  <2>4. CASE a = Wanted
    <3>1. CASE SaveMark
      BY <1>4, <2>4, <3>1 DEF SaveMark, At, SavedInv
    <3>2. CASE SkipArticle
      BY <2>4, <3>2 DEF SkipArticle, NoArticle, Says423
    <3>3. QED
      BY <1>7, <3>1, <3>2
  <2>5. CASE a # Wanted
    <3>1. g = Here => a[2] # mark[Here] + 1
      BY <1>1, <2>1, <2>2, <2>5
    <3>2. a[2] <= mark[g]
      <4>1. CASE g = Here
        BY <1>1, <2>2, <2>3, <3>1, <4>1 DEF TaskInv
      <4>2. CASE g # Here
        BY <1>1, <2>3, <4>2 DEF TaskInv
      <4>3. QED
        BY <4>1, <4>2
    <3>3. QED
      BY <1>3, <1>4, <2>3, <3>2 DEF Posted
  <2>6. QED
    BY <2>4, <2>5
<1>8. ASSUME NEW h \in Groups, Post(h) PROVE Handled(a)'
  <2>1. UNCHANGED <<mark, first>>
    BY <1>8 DEF Post
  <2>2. a[2] \in DOMAIN dates[g]
    <3>1. a[2] <= Len(dates[g]) /\ 0 < a[2]
      BY <1>1, <1>2, <2>1 DEF High
    <3>2. QED
      BY <1>1, <1>2, <3>1
  <2>3. QED
    BY <1>3, <1>4, <2>1, <2>2 DEF Posted
<1>9. QED
  BY <1>5, <1>6, <1>7, <1>8, MarksMove

-----------------------------------------------------------------------------
(***************************************************************************)
(* The theorems                                                            *)
(***************************************************************************)
\* Everything holds before the first start.
THEOREM IngestInvInit == IngestInit => IngestInv
<1> SUFFICES ASSUME IngestInit PROVE IngestInv
  OBVIOUS
<1>1. <<>> \in Seq(Groups) /\ {} \in SUBSET Nat /\ <<>> \in Seq(Item)
  OBVIOUS
<1>2. ingestor \in Task /\ ingestor.pc = "down" /\ ingestor.sent = {} /\ ingestor.left = 0
  <2>1. Asleep \in Task /\ Asleep.sent = {} /\ Asleep.left = 0
    BY <1>1 DEF Asleep, Task
  <2>2. QED
    BY <2>1 DEF IngestInit, Down, Task
<1>3. ASSUME NEW g \in Groups PROVE dates[g] \in Seq(Nat) /\ Len(dates[g]) \in Nat
  <2>1. Earlier[g] \in Nat /\ dates[g] = [n \in 1..Earlier[g] |-> 0]
    BY ConstantsAre DEF IngestInit
  <2>2. QED
    BY <2>1
<1>4. TaskInv
  <2>1. dates \in [Groups -> Seq(Nat)]
    BY <1>3 DEF IngestInit
  <2>2. mark \in [Groups -> Nat] /\ first \in [Groups -> Nat] /\ boots \in Nat
    BY DEF IngestInit
  <2>3. IsFiniteSet(ingestor.sent) /\ Cardinality(ingestor.sent) <= ingestor.left
    BY <1>2, FS_EmptySet
  <2>4. QED
    BY <1>2, <2>1, <2>2, <2>3 DEF TaskInv
<1>5. PipeInv
  <2>1. Empty \in [Parsers -> Item \cup {Nobody}]
    BY DEF Empty
  <2>2. QED
    BY <1>1, <2>1 DEF IngestInit, PipeInv
<1>6. MarkInv
  <2>1. \A g \in Groups : mark[g] = 0 /\ High(g) \in Nat
    BY <1>3 DEF IngestInit, High
  <2>2. QED
    BY <1>2, <2>1 DEF MarkInv, AtWork
<1>7. SavedInv
  BY <1>2 DEF SavedInv
<1>8. NothingIsSkipped
  <2>1. ASSUME NEW a \in Article \ Odd PROVE Accounted(a)
    <3>1. a[1] \in Groups /\ a[2] \in Nat
      BY ConstantsAre DEF Article
    <3>2. mark[a[1]] = 0 /\ first[a[1]] = 0
      BY <3>1 DEF IngestInit
    <3>3. QED
      BY <3>1, <3>2 DEF Accounted
  <2>2. QED
    BY <2>1 DEF NothingIsSkipped
<1>9. QED
  BY <1>4, <1>5, <1>6, <1>7, <1>8 DEF IngestInv

\* Every step keeps it, so it always holds.
THEOREM IngestInvAlways == IngestSpec => []IngestInv
<1>1. IngestInv /\ [IngestNext]_IngestVars => IngestInv'
  BY TaskNext, PipeNext, SavedNext, SkippedNext DEF IngestInv
<1>2. QED
  BY <1>1, IngestInvInit, PTL DEF IngestSpec

\* No error of the server and no crash makes the mark pass an article that is not
\* stored, on its way, or lost in a known way, but for the numbers with 423.
THEOREM SkippedCorrect == IngestSpec => []NothingIsSkipped
<1>1. IngestInv => NothingIsSkipped
  BY DEF IngestInv
<1>2. QED
  BY <1>1, IngestInvAlways, PTL

\* The mark of a group never passes the newest article of its server.
THEOREM MarkCorrect == IngestSpec => [](\A g \in Groups : mark[g] <= High(g))
<1>1. IngestInv => \A g \in Groups : mark[g] <= High(g)
  BY DEF IngestInv, MarkInv
<1>2. QED
  BY <1>1, IngestInvAlways, PTL

-----------------------------------------------------------------------------
(***************************************************************************)
(* Submissions                                                             *)
(***************************************************************************)
\* Between two urls nothing is in hand, while a patch is shown its part exists;
\* the agent never holds a thread.
AgentInv ==
  /\ agent.pc \in {"idle", "next"} => agent.ids = {}
  /\ agent.pc = "show" => agent.id \in Ids /\ agent.part \in 1..Size(agent.id)
                          /\ ~Thread(agent.id)
  /\ \A id \in agent.ids : ~Thread(id)
  /\ \A u \in Urls : \A id \in agent.work[u] : ~Thread(id)
  /\ \A r \in Requests : request[r].at = "channel" => ~Thread(request[r].id)

\* A patchset holds its own commits only.
Of(id) == {Commits[id][i] : i \in 1..Size(id)}
OwnerInv == \A c \in Commit : owner[c] # NoId => c \in Of(owner[c])

SubmitInv == SubmitTypeOK /\ AgentInv /\ OwnerInv /\ FetchingIsAwaited /\ ReadyIsComplete

-----------------------------------------------------------------------------
(***************************************************************************)
(* The constants                                                           *)
(***************************************************************************)
\* A submission stands for one commit or more.
LEMMA SizeIs ==
  ASSUME NEW id \in Ids
  PROVE  /\ Size(id) \in Nat \ {0}
         /\ DOMAIN Commits[id] = 1..Size(id)
         /\ \A i \in 1..Size(id) : Commits[id][i] \in Commit
<1>1. Commits[id] \in Seq(Commit) /\ Commits[id] # <<>>
  BY SubmissionsAssumption
<1>2. QED
  BY <1>1 DEF Size

\* A request may name no repository; no submission is called NoId.
LEMMA NamesAre == Local \in Urls /\ NoId \notin Ids /\ MaxSubmitCrashes \in Nat
BY SubmissionsAssumption

\* The commits of a submission are at most as many as its parts.
LEMMA OfIsSmall ==
  ASSUME NEW id \in Ids
  PROVE  IsFiniteSet(Of(id)) /\ Cardinality(Of(id)) <= Size(id)
<1> DEFINE f == [i \in 1..Size(id) |-> Commits[id][i]]
<1>1. f \in Surjection(1..Size(id), Of(id))
  BY DEF Surjection, Of
<1>2. IsFiniteSet(1..Size(id)) /\ Cardinality(1..Size(id)) = Size(id)
  BY SizeIs, FS_Interval
<1>3. QED
  BY <1>1, <1>2, FS_Surjection

\* An event belongs to one submission.
LEMMA EventIs ==
  ASSUME NEW id \in Ids, NEW e \in EventsOf(id)
  PROVE  e \in EventSet /\ e[2] = id
BY DEF EventsOf, EventSet

\* The events of a submission.
LEMMA EventsAre ==
  ASSUME NEW id \in Ids
  PROVE  /\ <<"failed", id, 0>> \in EventsOf(id)
         /\ <<"mbox", id, 0>> \in EventsOf(id)
         /\ <<"patch", id, 0>> \in EventsOf(id)
         /\ \A i \in 1..Size(id) : <<"patch", id, i>> \in EventsOf(id)
         /\ \A i \in 0..Size(id) : <<"patch", id, i>> \in EventsOf(id)
<1>1. Size(id) \in Nat
  BY SizeIs
<1>2. QED
  BY <1>1 DEF EventsOf

-----------------------------------------------------------------------------
(***************************************************************************)
(* Type correctness                                                        *)
(***************************************************************************)
\* What is emitted is on its way, and nothing else is lost by it.
LEMMA EmitDoes ==
  ASSUME NEW es, Emit(es), events \in [EventSet -> Nat]
  PROVE  /\ events' \in [EventSet -> Nat]
         /\ \A e \in EventSet : events[e] > 0 => events'[e] > 0
         /\ \A e \in EventSet : e \in es => events'[e] > 0
BY DEF Emit

\* An event that is taken is one less, what it leads to is on its way.
LEMMA TakeDoes ==
  ASSUME NEW x \in EventSet, NEW es, Take(x, es), events \in [EventSet -> Nat]
  PROVE  /\ events' \in [EventSet -> Nat]
         /\ \A e \in EventSet : e # x /\ events[e] > 0 => events'[e] > 0
         /\ \A e \in EventSet : e # x /\ e \in es => events'[e] > 0
BY DEF Take

\* The agent goes on to the next part of what it shows, or to the next id.
LEMMA AfterPartIs ==
  ASSUME agent \in Agent PROVE AfterPart \in Agent
<1>1. agent.part \in Nat
  BY DEF Agent
<1>2. [agent EXCEPT !.part = agent.part + 1] \in Agent
  BY <1>1 DEF Agent
<1>3. [agent EXCEPT !.pc = "each", !.id = NoId, !.part = 0] \in Agent
  BY DEF Agent
<1>4. QED
  BY <1>2, <1>3 DEF AfterPart

\* Every step keeps the types.
LEMMA TypeNext ==
  ASSUME SubmitTypeOK, AgentInv, [SubmitNext]_SubmitVars
  PROVE  SubmitTypeOK'
<1> USE NamesAre DEF SubmitTypeOK, Statuses
<1>1. ASSUME NEW r \in Requests, NEW id \in Ids, NEW u \in Urls, Submit(r, id, u)
      PROVE SubmitTypeOK'
  BY <1>1 DEF Submit, Placeholder, Request
<1>2. ASSUME NEW r \in Requests, NEW id \in Ids, SubmitUnplaced(r, id)
      PROVE SubmitTypeOK'
  BY <1>2 DEF SubmitUnplaced, Request
<1>3. ASSUME NEW r \in Requests, HandlerStep(r) PROVE SubmitTypeOK'
  <2>1. CASE Enqueue(r)
    BY <2>1 DEF Enqueue, Move, Request
  <2>2. CASE FetchThread(r)
    BY <2>2, EmitDoes DEF FetchThread, Move, Request
  <2>3. QED
    BY <1>3, <2>1, <2>2 DEF HandlerStep
<1>4. CASE AgentStep
  <2>1. ASSUME NEW r \in Requests, ReceiveRequest(r) PROVE SubmitTypeOK'
    BY <2>1 DEF ReceiveRequest, Move, Agent, Request
  <2>2. ASSUME NEW u \in Urls, TakeUrl(u) PROVE SubmitTypeOK'
    <3>1. PICK missing \in SUBSET agent.work[u] :
            agent' = [agent EXCEPT
              !.pc = IF missing = {} \/ u = Local THEN "each" ELSE "remote",
              !.url = u, !.ids = agent.work[u], !.missing = missing, !.work[u] = {}]
      BY <2>2 DEF TakeUrl
    <3>2. agent.work[u] \in SUBSET Ids /\ missing \in SUBSET Ids
          /\ [agent.work EXCEPT ![u] = {}] \in [Urls -> SUBSET Ids]
      BY DEF Agent
    <3>3. agent' \in Agent
      BY <3>1, <3>2 DEF Agent
    <3>4. QED
      BY <2>2, <3>3 DEF TakeUrl
  <2>3. CASE QueueIsDone
    BY <2>3 DEF QueueIsDone, Idle, NoWork, Agent
  <2>4. CASE Fetched
    BY <2>4 DEF Fetched, Agent
  <2>5. CASE RemoteFails
    BY <2>5, EmitDoes DEF RemoteFails, Agent
  <2>6. CASE UrlIsDone
    BY <2>6 DEF UrlIsDone, Agent
  <2>7. CASE Show
    <3>1. events' \in [EventSet -> Nat]
      BY <2>7, EmitDoes DEF Show
    <3>2. agent' \in Agent
      BY <2>7, AfterPartIs DEF Show
    <3>3. QED
      BY <2>7, <3>1, <3>2 DEF Show
  <2>8. CASE ShowFails
    <3>1. events' \in [EventSet -> Nat]
      BY <2>8, EmitDoes DEF ShowFails
    <3>2. stranded' \subseteq Ids
      BY <2>8 DEF ShowFails, AgentInv, Agent
    <3>3. agent' \in Agent
      BY <2>8, AfterPartIs DEF ShowFails
    <3>4. QED
      BY <2>8, <3>1, <3>2, <3>3 DEF ShowFails
  <2>9. ASSUME NEW id \in Ids, Resolve(id) PROVE SubmitTypeOK'
    BY <2>9 DEF Resolve, Agent
  <2>10. ASSUME NEW id \in Ids, ResolveFails(id) PROVE SubmitTypeOK'
    BY <2>10, EmitDoes DEF ResolveFails, Agent
  <2>11. QED
    BY <1>4, <2>1, <2>2, <2>3, <2>4, <2>5, <2>6, <2>7, <2>8, <2>9, <2>10 DEF AgentStep
<1>5. ASSUME NEW id \in Ids, StoreOf(id) PROVE SubmitTypeOK'
  <2>1. CASE SplitMbox(id)
    <3>1. PICK got \in SUBSET MessagesOf(id) : Take(<<"mbox", id, 0>>, got)
      BY <2>1 DEF SplitMbox
    <3>2. events' \in [EventSet -> Nat]
      BY <3>1, TakeDoes, EventsAre, EventIs
    <3>3. QED
      BY <2>1, <3>2 DEF SplitMbox
  <2>2. CASE FailPlaceholder(id)
    BY <2>2, TakeDoes, EventsAre, EventIs DEF FailPlaceholder
  <2>3. CASE AdoptCover(id)
    <3>1. <<"patch", id, 0>> \in EventSet
      BY EventsAre, EventIs
    <3>2. events' \in [EventSet -> Nat]
      BY <2>3, <3>1, TakeDoes DEF AdoptCover
    <3>3. QED
      BY <2>3, <3>2 DEF AdoptCover, Adopts, Adopted
  <2>4. ASSUME NEW i \in 1..Size(id), StorePatch(id, i) PROVE SubmitTypeOK'
    <3>1. <<"patch", id, i>> \in EventSet
      BY SizeIs, EventsAre, EventIs
    <3>2. events' \in [EventSet -> Nat]
      BY <2>4, <3>1, TakeDoes DEF StorePatch
    <3>3. QED
      BY <2>4, <3>2 DEF StorePatch, Adopts, Adopted, Moved
  <2>5. ASSUME NEW i \in 0..Size(id), LosePart(id, i) PROVE SubmitTypeOK'
    <3>1. <<"patch", id, i>> \in EventSet
      BY EventsAre, EventIs
    <3>2. events' \in [EventSet -> Nat]
      BY <2>5, <3>1, TakeDoes DEF LosePart
    <3>3. row' \in [Ids -> Statuses] /\ owner' \in [Commit -> Ids \cup {NoId}]
      BY <2>5 DEF LosePart, Adopted, Moved
    <3>4. QED
      BY <2>5, <3>2, <3>3 DEF LosePart
  <2>6. QED
    BY <1>5, <2>1, <2>2, <2>3, <2>4, <2>5 DEF StoreOf
<1>6. ASSUME NEW id \in Ids, Review(id) PROVE SubmitTypeOK'
  BY <1>6 DEF Review
<1>7. CASE SubmitCrash
  <2>1. agent' \in Agent
    BY <1>7 DEF SubmitCrash, Idle, NoWork, Agent
  <2>2. row' \in [Ids -> Statuses] /\ stranded' \subseteq Ids
    BY <1>7 DEF SubmitCrash
  <2>3. request' = [r \in Requests |-> IF request[r].at = "new" THEN New
                                       ELSE [request[r] EXCEPT !.at = "over"]]
    BY <1>7 DEF SubmitCrash
  <2>4. ASSUME NEW r \in Requests
        PROVE request'[r] \in Request /\ (request'[r].at # "new" => request'[r].id \in Ids)
    <3>1. CASE request[r].at = "new"
      BY <2>3, <3>1 DEF New, Request
    <3>2. CASE request[r].at # "new"
      <4>1. request[r] \in Request /\ request[r].id \in Ids
        BY <3>2
      <4>2. request'[r] = [request[r] EXCEPT !.at = "over"]
        BY <2>3, <3>2
      <4>3. QED
        BY <4>1, <4>2 DEF Request
    <3>3. QED
      BY <3>1, <3>2
  <2>5. request' \in [Requests -> Request]
    BY <2>3, <2>4
  <2>6. events' \in [EventSet -> Nat]
    <3>1. events' = [e \in EventSet |-> 0]
      BY <1>7 DEF SubmitCrash
    <3>2. QED
      BY <3>1
  <2>7. owner' \in [Commit -> Ids \cup {NoId}]
    <3>1. owner' = owner
      BY <1>7 DEF SubmitCrash
    <3>2. QED
      BY <3>1
  <2>8. submitCrashes' \in Nat
    <3>1. submitCrashes' = submitCrashes + 1
      BY <1>7 DEF SubmitCrash
    <3>2. submitCrashes \in Nat
      OBVIOUS
    <3> HIDE DEF SubmitTypeOK
    <3>3. QED
      BY <3>1, <3>2
  <2>9. QED
    BY <2>1, <2>2, <2>4, <2>5, <2>6, <2>7, <2>8
<1>8. CASE UNCHANGED SubmitVars
  BY <1>8 DEF SubmitVars
<1>9. QED
  BY <1>1, <1>2, <1>3, <1>4, <1>5, <1>6, <1>7, <1>8 DEF SubmitNext

-----------------------------------------------------------------------------
(***************************************************************************)
(* What the agent has in hand                                              *)
(***************************************************************************)
\* The next part of what is shown exists, or nothing is shown any more.
LEMMA AfterPartDoes ==
  ASSUME SubmitTypeOK, AgentInv, agent.pc = "show"
  PROVE  /\ AfterPart.ids = agent.ids /\ AfterPart.work = agent.work
         /\ AfterPart.pc \in {"show", "each"}
         /\ AfterPart.pc = "show" => AfterPart.id = agent.id
                                     /\ AfterPart.part \in 1..Size(agent.id)
<1>1. agent \in Agent /\ agent.part \in 1..Size(agent.id) /\ Size(agent.id) \in Nat
  BY SizeIs DEF SubmitTypeOK, AgentInv
<1>2. CASE agent.part < Size(agent.id)
  BY <1>1, <1>2 DEF AfterPart, Agent
<1>3. CASE ~(agent.part < Size(agent.id))
  BY <1>1, <1>3 DEF AfterPart, Agent
<1>4. QED
  BY <1>2, <1>3

\* Every step of the agent keeps what it has in hand in order.
LEMMA AgentStepKeepsHand ==
  ASSUME SubmitTypeOK, AgentInv, AgentStep
  PROVE  AgentInv'
<1> USE DEF SubmitTypeOK, AgentInv
<1>1. ASSUME NEW r \in Requests, ReceiveRequest(r) PROVE AgentInv'
  BY <1>1 DEF ReceiveRequest, Move, Agent, Request
<1>2. ASSUME NEW u \in Urls, TakeUrl(u) PROVE AgentInv'
  <2>1. PICK missing \in SUBSET agent.work[u] :
          agent' = [agent EXCEPT
            !.pc = IF missing = {} \/ u = Local THEN "each" ELSE "remote",
            !.url = u, !.ids = agent.work[u], !.missing = missing, !.work[u] = {}]
    BY <1>2 DEF TakeUrl
  <2>2. /\ agent'.pc \in {"each", "remote"} /\ agent'.ids = agent.work[u]
        /\ agent'.work = [agent.work EXCEPT ![u] = {}]
    BY <2>1 DEF Agent
  <2>3. \A v \in Urls : agent'.work[v] \subseteq agent.work[v]
    BY <2>2 DEF Agent
  <2>4. QED
    BY <1>2, <2>2, <2>3 DEF TakeUrl
<1>3. CASE QueueIsDone
  BY <1>3 DEF QueueIsDone, Idle, NoWork
<1>4. CASE Fetched
  BY <1>4 DEF Fetched, Agent
<1>5. CASE RemoteFails
  BY <1>5 DEF RemoteFails, Agent
<1>6. CASE UrlIsDone
  BY <1>6 DEF UrlIsDone, Agent
<1>7. CASE Show \/ ShowFails
  <2>1. agent.pc = "show" /\ agent' = AfterPart /\ request' = request
    BY <1>7 DEF Show, ShowFails
  <2>2. /\ agent'.ids = agent.ids /\ agent'.work = agent.work
        /\ agent'.pc \in {"show", "each"}
        /\ agent'.pc = "show" => agent'.id = agent.id /\ agent'.part \in 1..Size(agent.id)
    BY <2>1, AfterPartDoes
  <2>3. QED
    BY <2>1, <2>2
<1>8. ASSUME NEW id \in Ids, Resolve(id) PROVE AgentInv'
  <2>1. 1 \in 1..Size(id)
    BY SizeIs
  <2>2. /\ agent'.pc = "show" /\ agent'.ids = agent.ids \ {id} /\ agent'.id = id
        /\ agent'.part = 1 /\ agent'.work = agent.work /\ request' = request
        /\ id \in agent.ids
    BY <1>8 DEF Resolve, Agent
  <2>3. QED
    BY <2>1, <2>2
<1>9. ASSUME NEW id \in Ids, ResolveFails(id) PROVE AgentInv'
  BY <1>9 DEF ResolveFails, Agent
<1>10. QED
  BY <1>1, <1>2, <1>3, <1>4, <1>5, <1>6, <1>7, <1>8, <1>9 DEF AgentStep

\* Every step does.
LEMMA AgentInvNext ==
  ASSUME SubmitTypeOK, AgentInv, [SubmitNext]_SubmitVars
  PROVE  AgentInv'
<1>1. ASSUME NEW r \in Requests, NEW id \in Ids, NEW u \in Urls, Submit(r, id, u)
      PROVE AgentInv'
  BY <1>1 DEF Submit, SubmitTypeOK, AgentInv
<1>2. ASSUME NEW r \in Requests, NEW id \in Ids, SubmitUnplaced(r, id) PROVE AgentInv'
  BY <1>2 DEF SubmitUnplaced, SubmitTypeOK, AgentInv
<1>3. ASSUME NEW r \in Requests, HandlerStep(r) PROVE AgentInv'
  <2>1. CASE Enqueue(r)
    BY <2>1 DEF Enqueue, Move, SubmitTypeOK, AgentInv, Request
  <2>2. CASE FetchThread(r)
    BY <2>2 DEF FetchThread, Move, SubmitTypeOK, AgentInv, Request
  <2>3. QED
    BY <1>3, <2>1, <2>2 DEF HandlerStep
<1>4. CASE AgentStep
  BY <1>4, AgentStepKeepsHand
<1>5. ASSUME NEW id \in Ids, StoreOf(id) \/ Review(id) PROVE AgentInv'
  <2>1. UNCHANGED <<agent, request>>
    BY <1>5 DEF StoreOf, SplitMbox, FailPlaceholder, AdoptCover, StorePatch, LosePart, Review
  <2>2. QED
    BY <2>1 DEF AgentInv
<1>6. CASE SubmitCrash
  <2>1. \A r \in Requests : request'[r].at # "channel"
    BY <1>6 DEF SubmitCrash, New, SubmitTypeOK, Request
  <2>2. QED
    BY <1>6, <2>1 DEF SubmitCrash, AgentInv, Idle, NoWork
<1>7. CASE UNCHANGED SubmitVars
  BY <1>7 DEF SubmitVars, AgentInv
<1>8. QED
  BY <1>1, <1>2, <1>3, <1>4, <1>5, <1>6, <1>7 DEF SubmitNext

-----------------------------------------------------------------------------
(***************************************************************************)
(* Patchsets and their commits                                             *)
(***************************************************************************)
\* A step stores one patch of a submission, or leaves the patches alone.
Stores(id, i) == StorePatch(id, i) \/ (LosePart(id, i) /\ owner' = Moved(id, i))
LEMMA OwnersAre ==
  ASSUME [SubmitNext]_SubmitVars
  PROVE  \/ owner' = owner
         \/ \E id \in Ids : \E i \in 1..Size(id) : Stores(id, i)
<1>1. ASSUME NEW id \in Ids, NEW i \in 0..Size(id), LosePart(id, i), owner' # owner
      PROVE  i \in 1..Size(id) /\ Stores(id, i)
  BY <1>1, SizeIs DEF LosePart, Stores
<1>2. \/ owner' = owner
      \/ \E id \in Ids : \E i \in 1..Size(id) : StorePatch(id, i)
      \/ \E id \in Ids : \E i \in 0..Size(id) : LosePart(id, i)
  BY DEF SubmitNext, SubmitVars, Submit, SubmitUnplaced, HandlerStep, Enqueue, FetchThread,
     AgentStep, ReceiveRequest, TakeUrl, QueueIsDone, Fetched, RemoteFails, UrlIsDone, Show,
     ShowFails, Resolve, ResolveFails, StoreOf, SplitMbox, FailPlaceholder, AdoptCover,
     Review, SubmitCrash
<1>3. QED
  BY <1>1, <1>2 DEF Stores

\* A patch that is stored belongs to the patchset of its submission from then on.
LEMMA StoreDoes ==
  ASSUME SubmitTypeOK, NEW id \in Ids, NEW i \in 1..Size(id), Stores(id, i)
  PROVE  /\ Commits[id][i] \in Commit
         /\ owner' = [owner EXCEPT ![Commits[id][i]] = id]
         /\ \A c \in Commit : owner[c] # NoId => owner'[c] # NoId
<1>1. Commits[id][i] \in Commit
  BY SizeIs
<1>2. owner' = [owner EXCEPT ![Commits[id][i]] = id]
  BY DEF Stores, StorePatch, Moved
<1>3. QED
  BY <1>1, <1>2, NamesAre DEF SubmitTypeOK

\* A patchset never holds a commit that is not its own.
LEMMA OwnerInvNext ==
  ASSUME SubmitTypeOK, OwnerInv, [SubmitNext]_SubmitVars
  PROVE  OwnerInv'
<1>1. CASE owner' = owner
  BY <1>1 DEF OwnerInv
<1>2. ASSUME NEW id \in Ids, NEW i \in 1..Size(id), Stores(id, i) PROVE OwnerInv'
  <2>1. Commits[id][i] \in Of(id)
    BY DEF Of
  <2>2. QED
    BY <1>2, <2>1, StoreDoes DEF OwnerInv, SubmitTypeOK
<1>3. QED
  BY <1>1, <1>2, OwnersAre

\* Who holds as many patches as there are parts holds them all.
LEMMA CompleteWhenCounted ==
  ASSUME NEW id \in Ids, NEW own \in [Commit -> Ids \cup {NoId}],
         \A c \in Commit : own[c] = id => c \in Of(id),
         Received(id, own) >= Size(id)
  PROVE  \A i \in DOMAIN Commits[id] : own[Commits[id][i]] = id
<1> DEFINE S == {c \in Commit : own[c] = id}
<1>1. S \in SUBSET Of(id)
  OBVIOUS
<1>2. /\ IsFiniteSet(Of(id)) /\ IsFiniteSet(S)
      /\ Cardinality(S) <= Cardinality(Of(id)) /\ Cardinality(Of(id)) <= Size(id)
      /\ Cardinality(Of(id)) = Cardinality(S) => Of(id) = S
  BY <1>1, OfIsSmall, FS_Subset
<1>3. Cardinality(S) \in Nat /\ Cardinality(Of(id)) \in Nat /\ Size(id) \in Nat
  BY <1>2, FS_CardinalityType, SizeIs
<1>4. Cardinality(S) >= Size(id)
  BY DEF Received
<1>5. Of(id) = S
  BY <1>2, <1>3, <1>4
<1>6. QED
  BY <1>5, SizeIs DEF Of

Ready == {"Pending", "In Review", "Reviewed"}

\* A row becomes ready when its patches are counted; others were ready before.
LEMMA ReadyComes ==
  ASSUME SubmitTypeOK, [SubmitNext]_SubmitVars, NEW id \in Ids, row'[id] \in Ready
  PROVE  row[id] \in Ready \/ Received(id, owner') >= Size(id)
<1>1. CASE row' = row
  BY <1>1
<1>2. ASSUME NEW r \in Requests, NEW x \in Ids, NEW u \in Urls, Submit(r, x, u)
      PROVE  row[id] \in Ready
  BY <1>2 DEF Submit, Placeholder, SubmitTypeOK, Ready
<1>3. ASSUME NEW x \in Ids, FailPlaceholder(x) PROVE row[id] \in Ready
  BY <1>3 DEF FailPlaceholder, SubmitTypeOK, Ready
<1>4. ASSUME NEW x \in Ids, AdoptCover(x)
      PROVE  row[id] \in Ready \/ Received(id, owner') >= Size(id)
  BY <1>4 DEF AdoptCover, Adopts, Adopted, SubmitTypeOK, Ready
<1>5. ASSUME NEW x \in Ids, NEW i \in 1..Size(x), StorePatch(x, i)
      PROVE  row[id] \in Ready \/ Received(id, owner') >= Size(id)
  BY <1>5 DEF StorePatch, Adopts, Adopted, SubmitTypeOK, Ready
<1>6. ASSUME NEW x \in Ids, Review(x) PROVE row[id] \in Ready
  BY <1>6 DEF Review, SubmitTypeOK, Ready
<1>7. CASE SubmitCrash
  BY <1>7 DEF SubmitCrash, SubmitTypeOK, Ready
<1>8. ASSUME NEW x \in Ids, NEW i \in 0..Size(x), LosePart(x, i) PROVE row[id] \in Ready
  BY <1>8 DEF LosePart, Adopted, SubmitTypeOK, Ready
<1>9. \/ row' = row
      \/ \E r \in Requests, x \in Ids, u \in Urls : Submit(r, x, u)
      \/ \E x \in Ids : FailPlaceholder(x) \/ AdoptCover(x) \/ Review(x)
      \/ \E x \in Ids : \E i \in 1..Size(x) : StorePatch(x, i)
      \/ \E x \in Ids : \E i \in 0..Size(x) : LosePart(x, i)
      \/ SubmitCrash
  BY DEF SubmitNext, SubmitVars, SubmitUnplaced, HandlerStep, Enqueue, FetchThread,
     AgentStep, ReceiveRequest, TakeUrl, QueueIsDone, Fetched, RemoteFails, UrlIsDone,
     Show, ShowFails, Resolve, ResolveFails, StoreOf, SplitMbox
<1>10. QED
  BY <1>1, <1>2, <1>3, <1>4, <1>5, <1>6, <1>7, <1>8, <1>9

\* What is ready is complete and stays so.
LEMMA ReadyNext ==
  ASSUME SubmitTypeOK, SubmitTypeOK', OwnerInv', ReadyIsComplete, [SubmitNext]_SubmitVars
  PROVE  ReadyIsComplete'
<1> SUFFICES ASSUME NEW id \in Ids, row'[id] \in Ready, NEW i \in DOMAIN Commits[id]
             PROVE  owner'[Commits[id][i]] # NoId
  BY DEF ReadyIsComplete, Ready
<1>1. i \in 1..Size(id) /\ Commits[id][i] \in Commit
  BY SizeIs
<1>2. CASE row[id] \in Ready
  <2>1. owner[Commits[id][i]] # NoId
    BY <1>2 DEF ReadyIsComplete, Ready
  <2>2. QED
    BY <1>1, <2>1, OwnersAre, StoreDoes
<1>3. CASE Received(id, owner') >= Size(id)
  <2>1. /\ owner' \in [Commit -> Ids \cup {NoId}]
        /\ \A c \in Commit : owner'[c] = id => c \in Of(id)
    BY NamesAre DEF SubmitTypeOK, OwnerInv
  <2>2. owner'[Commits[id][i]] = id
    BY <1>3, <2>1, CompleteWhenCounted
  <2>3. QED
    BY <2>2, NamesAre
<1>4. QED
  BY <1>2, <1>3, ReadyComes

-----------------------------------------------------------------------------
(***************************************************************************)
(* Who works for a placeholder                                             *)
(***************************************************************************)
ByRequest(id)  == \E r \in Requests : request[r].at \in {"placed", "channel"} /\ request[r].id = id
ByAgent(id)    == \/ \E u \in Urls : id \in agent.work[u]
                  \/ id \in agent.ids
                  \/ agent.pc = "show" /\ agent.id = id
OnItsWay(id)   == \E e \in EventsOf(id) : events[e] > 0

\* The three who may work for a placeholder.
LEMMA AwaitedIs ==
  ASSUME NEW id
  PROVE  AwaitedBy(id) <=> ByRequest(id) \/ ByAgent(id) \/ OnItsWay(id)
BY DEF AwaitedBy, ByRequest, ByAgent, OnItsWay

\* An event that is emitted is on its way, and so is what was.
LEMMA EmitKeeps ==
  ASSUME SubmitTypeOK, NEW id \in Ids, NEW es, Emit(es)
  PROVE  /\ OnItsWay(id) => OnItsWay(id)'
         /\ \A e \in EventsOf(id) : e \in es => OnItsWay(id)'
<1>1. events \in [EventSet -> Nat] /\ EventsOf(id) \subseteq EventSet
  BY EventIs DEF SubmitTypeOK
<1>2. QED
  BY <1>1, EmitDoes DEF OnItsWay

\* An event that is taken leaves those of other submissions on their way.
LEMMA TakeKeeps ==
  ASSUME SubmitTypeOK, NEW x \in Ids, NEW y \in EventsOf(x), NEW es, Take(y, es),
         NEW id \in Ids
  PROVE  /\ id # x /\ OnItsWay(id) => OnItsWay(id)'
         /\ \A e \in EventsOf(id) : e \in es /\ e # y => OnItsWay(id)'
<1>1. events \in [EventSet -> Nat] /\ EventsOf(id) \subseteq EventSet /\ y \in EventSet
  BY EventIs DEF SubmitTypeOK
<1>2. \A e \in EventsOf(id) : id # x => e # y
  BY EventIs
<1>3. QED
  BY <1>1, <1>2, TakeDoes DEF OnItsWay

\* A step of the agent hands on what it takes, or it is known to be stranded.
LEMMA AgentHandsOn ==
  ASSUME SubmitTypeOK, AgentInv, AgentStep, NEW id \in Ids, AwaitedBy(id)
  PROVE  AwaitedBy(id)' \/ id \in stranded'
<1> USE DEF SubmitTypeOK
<1>1. ASSUME NEW r \in Requests, ReceiveRequest(r) PROVE AwaitedBy(id)'
  <2>1. /\ events' = events
        /\ request' = [request EXCEPT ![r].at = "over"]
        /\ agent' = [agent EXCEPT !.work[request[r].url] = @ \cup {request[r].id}]
        /\ request[r].url \in Urls
    BY <1>1 DEF ReceiveRequest, Move, Request
  <2>2. /\ agent'.ids = agent.ids /\ agent'.pc = agent.pc /\ agent'.id = agent.id
        /\ \A u \in Urls : agent.work[u] \subseteq agent'.work[u]
        /\ request[r].id \in agent'.work[request[r].url]
    BY <2>1 DEF Agent
  <2>3. ByRequest(id) => ByRequest(id)' \/ request[r].id = id
    BY <2>1 DEF ByRequest, Request
  <2>4. QED
    BY <2>1, <2>2, <2>3, AwaitedIs DEF AwaitedBy, ByAgent, ByRequest, OnItsWay
<1>2. ASSUME NEW u \in Urls, TakeUrl(u) PROVE AwaitedBy(id)'
  <2>1. PICK missing \in SUBSET agent.work[u] :
          agent' = [agent EXCEPT
            !.pc = IF missing = {} \/ u = Local THEN "each" ELSE "remote",
            !.url = u, !.ids = agent.work[u], !.missing = missing, !.work[u] = {}]
    BY <1>2 DEF TakeUrl
  <2>2. /\ agent'.ids = agent.work[u]
        /\ \A v \in Urls : v # u => agent'.work[v] = agent.work[v]
    BY <2>1 DEF Agent
  <2>3. agent.ids = {} /\ agent.pc # "show"
    BY <1>2 DEF TakeUrl, AgentInv
  <2>4. ByAgent(id) => ByAgent(id)'
    BY <2>2, <2>3 DEF ByAgent
  <2>5. UNCHANGED <<request, events>>
    BY <1>2 DEF TakeUrl
  <2>6. QED
    BY <2>4, <2>5, AwaitedIs DEF AwaitedBy, ByAgent, ByRequest, OnItsWay
<1>3. CASE QueueIsDone \/ Fetched \/ UrlIsDone
  <2>1. UNCHANGED <<request, events>> /\ agent.pc # "show"
    BY <1>3 DEF QueueIsDone, Fetched, UrlIsDone
  <2>2. ByAgent(id) => ByAgent(id)'
    <3>1. CASE QueueIsDone
      BY <3>1 DEF QueueIsDone, ByAgent, AgentInv, NoWork
    <3>2. CASE Fetched
      BY <3>2 DEF Fetched, ByAgent, Agent
    <3>3. CASE UrlIsDone
      BY <3>3 DEF UrlIsDone, ByAgent, Agent
    <3>4. QED
      BY <1>3, <3>1, <3>2, <3>3
  <2>3. QED
    BY <2>1, <2>2, AwaitedIs DEF AwaitedBy, ByAgent, ByRequest, OnItsWay
<1>4. CASE RemoteFails
  <2>1. /\ agent.pc = "remote" /\ request' = request
        /\ stranded' = stranded \cup (agent.ids \ agent.missing)
        /\ agent' = [agent EXCEPT !.pc = "next", !.ids = {}, !.missing = {}]
        /\ Emit({<<"failed", x, 0>> : x \in agent.missing})
    BY <1>4 DEF RemoteFails
  <2>2. agent'.work = agent.work
    BY <2>1 DEF Agent
  <2>3. ASSUME id \in agent.missing PROVE OnItsWay(id)'
    <3>1. <<"failed", id, 0>> \in {<<"failed", x, 0>> : x \in agent.missing}
      BY <2>3
    <3>2. <<"failed", id, 0>> \in EventsOf(id)
      BY EventsAre
    <3>3. QED
      BY <2>1, <3>1, <3>2, EmitKeeps
  <2>4. OnItsWay(id) => OnItsWay(id)'
    BY <2>1, EmitKeeps
  <2>5. ByAgent(id) => ByAgent(id)' \/ OnItsWay(id)' \/ id \in stranded'
    BY <2>1, <2>2, <2>3 DEF ByAgent
  <2>6. ByRequest(id) => ByRequest(id)'
    BY <2>1 DEF ByRequest
  <2>7. QED
    BY <2>4, <2>5, <2>6, AwaitedIs DEF AwaitedBy, ByAgent, ByRequest, OnItsWay
<1>5. ASSUME NEW x \in Ids, Resolve(x) PROVE AwaitedBy(id)'
  <2>1. /\ agent.pc = "each" /\ UNCHANGED <<request, events>>
        /\ agent' = [agent EXCEPT !.pc = "show", !.ids = @ \ {x}, !.id = x, !.part = 1]
    BY <1>5 DEF Resolve
  <2>2. /\ agent'.work = agent.work /\ agent'.ids = agent.ids \ {x}
        /\ agent'.pc = "show" /\ agent'.id = x
    BY <2>1 DEF Agent
  <2>3. ByAgent(id) => ByAgent(id)'
    BY <2>1, <2>2 DEF ByAgent
  <2>4. QED
    BY <2>1, <2>3, AwaitedIs DEF AwaitedBy, ByAgent, ByRequest, OnItsWay
<1>6. ASSUME NEW x \in Ids, ResolveFails(x) PROVE AwaitedBy(id)'
  <2>1. /\ agent.pc = "each" /\ request' = request
        /\ agent' = [agent EXCEPT !.ids = @ \ {x}] /\ Emit({<<"failed", x, 0>>})
    BY <1>6 DEF ResolveFails
  <2>2. agent'.work = agent.work /\ agent'.ids = agent.ids \ {x} /\ agent'.pc = "each"
    BY <2>1 DEF Agent
  <2>3. id = x => OnItsWay(id)'
    BY <2>1, EmitKeeps, EventsAre
  <2>4. OnItsWay(id) => OnItsWay(id)'
    BY <2>1, EmitKeeps
  <2>5. ByAgent(id) => ByAgent(id)' \/ OnItsWay(id)'
    BY <2>1, <2>2, <2>3 DEF ByAgent
  <2>6. ByRequest(id) => ByRequest(id)'
    BY <2>1 DEF ByRequest
  <2>7. QED
    BY <2>4, <2>5, <2>6, AwaitedIs DEF AwaitedBy, ByAgent, ByRequest, OnItsWay
<1>7. CASE Show \/ ShowFails
  <2>1. agent.pc = "show" /\ agent' = AfterPart /\ request' = request
    BY <1>7 DEF Show, ShowFails
  <2>2. /\ agent'.ids = agent.ids /\ agent'.work = agent.work
        /\ agent.id \in Ids /\ agent.part \in 1..Size(agent.id) /\ ~Thread(agent.id)
    BY <2>1, AfterPartDoes DEF AgentInv
  <2>3. agent.id = id => OnItsWay(id)' \/ id \in stranded'
    <3>1. CASE Show
      BY <2>2, <3>1, EmitKeeps, EventsAre DEF Show
    <3>2. CASE ShowFails /\ Kind[agent.id] = "single"
      BY <2>2, <3>2, EmitKeeps, EventsAre DEF ShowFails, Reported
    <3>3. CASE ShowFails /\ Kind[agent.id] # "single"
      <4>1. Kind[agent.id] = "range"
        BY <2>2, <3>3, SubmissionsAssumption DEF Thread
      <4>2. QED
        BY <3>3, <4>1 DEF ShowFails
    <3>4. QED
      BY <1>7, <3>1, <3>2, <3>3
  <2>4. OnItsWay(id) => OnItsWay(id)'
    BY <1>7, EmitKeeps DEF Show, ShowFails
  <2>5. ByAgent(id) => ByAgent(id)' \/ OnItsWay(id)' \/ id \in stranded'
    BY <2>2, <2>3 DEF ByAgent
  <2>6. ByRequest(id) => ByRequest(id)'
    BY <2>1 DEF ByRequest
  <2>7. QED
    BY <2>4, <2>5, <2>6, AwaitedIs DEF AwaitedBy, ByAgent, ByRequest, OnItsWay
<1>8. QED
  BY <1>1, <1>2, <1>3, <1>4, <1>5, <1>6, <1>7 DEF AgentStep

\* The worker of the database settles a placeholder, passes its messages on, or it
\* is known to be stranded.
LEMMA WorkerSettles ==
  ASSUME SubmitTypeOK, NEW x \in Ids, StoreOf(x), NEW id \in Ids, row'[id] = "Fetching",
         AwaitedBy(id)
  PROVE  AwaitedBy(id)' \/ id \in stranded'
<1> USE DEF SubmitTypeOK
<1>1. UNCHANGED <<request, agent>>
  BY DEF StoreOf, SplitMbox, FailPlaceholder, AdoptCover, StorePatch, LosePart
<1>2. ByRequest(id) \/ ByAgent(id) => AwaitedBy(id)'
  BY <1>1 DEF ByRequest, ByAgent, AwaitedBy
<1>3. ASSUME OnItsWay(id), id \notin stranded' PROVE OnItsWay(id)'
  <2>1. CASE SplitMbox(x)
    <3> DEFINE mbox == <<"mbox", x, 0>>
    <3>0. PICK got \in SUBSET MessagesOf(x) :
            /\ mbox \in EventsOf(x) /\ Take(mbox, got)
            /\ got # MessagesOf(x) => x \in stranded'
      BY <2>1, EventsAre DEF SplitMbox
    <3> HIDE DEF mbox
    <3>1. CASE id # x
      BY <1>3, <3>1, <3>0, TakeKeeps
    <3>2. CASE id = x
      <4>1. \E i \in 1..Size(x) : <<"patch", x, i>> \in MessagesOf(x)
        <5>1. 1 \in 1..Size(x) /\ 1 \in (IF Size(x) = 1 THEN 1 ELSE 0)..Size(x)
          BY SizeIs
        <5>2. QED
          BY <5>1 DEF MessagesOf
      <4>2. PICK i \in 1..Size(x) : <<"patch", x, i>> \in MessagesOf(x)
        BY <4>1
      <4> DEFINE e == <<"patch", x, i>>
      <4>3. e \in got
        BY <1>3, <3>0, <3>2, <4>2
      <4>4. e # mbox /\ e \in EventsOf(x)
        BY <4>2, SizeIs, EventsAre DEF mbox
      <4> HIDE DEF e
      <4>5. QED
        BY <3>2, <3>0, <4>3, <4>4, TakeKeeps
    <3>3. QED
      BY <3>1, <3>2
  <2>2. CASE FailPlaceholder(x)
    <3>1. id # x
      BY <1>3, <2>2 DEF FailPlaceholder
    <3> DEFINE e == <<"failed", x, 0>>
    <3>2. e \in EventsOf(x) /\ Take(e, {})
      BY <2>2, EventsAre DEF FailPlaceholder
    <3> HIDE DEF e
    <3>3. QED
      BY <1>3, <3>1, <3>2, TakeKeeps
  <2>3. CASE AdoptCover(x)
    <3>1. id # x
      BY <2>3 DEF AdoptCover, Adopts, Adopted
    <3> DEFINE e == <<"patch", x, 0>>
    <3>2. e \in EventsOf(x) /\ Take(e, {})
      BY <2>3, EventsAre DEF AdoptCover
    <3> HIDE DEF e
    <3>3. QED
      BY <1>3, <3>1, <3>2, TakeKeeps
  <2>4. ASSUME NEW i \in 1..Size(x), StorePatch(x, i) PROVE OnItsWay(id)'
    <3>1. id # x
      BY <2>4 DEF StorePatch, Adopts, Adopted
    <3> DEFINE e == <<"patch", x, i>>
    <3>2. e \in EventsOf(x) /\ Take(e, {})
      BY <2>4, SizeIs, EventsAre DEF StorePatch
    <3> HIDE DEF e
    <3>3. QED
      BY <1>3, <3>1, <3>2, TakeKeeps
  <2>5. ASSUME NEW i \in 0..Size(x), LosePart(x, i) PROVE OnItsWay(id)'
    <3>1. id # x
      BY <1>3, <2>5 DEF LosePart
    <3> DEFINE e == <<"patch", x, i>>
    <3>2. e \in EventsOf(x) /\ Take(e, {})
      BY <2>5, EventsAre DEF LosePart
    <3> HIDE DEF e
    <3>3. QED
      BY <1>3, <3>1, <3>2, TakeKeeps
  <2>6. QED
    BY <2>1, <2>2, <2>3, <2>4, <2>5 DEF StoreOf
<1>4. QED
  BY <1>2, <1>3, AwaitedIs DEF AwaitedBy, OnItsWay

\* A placeholder that turns to Fetching has a handler, the others keep theirs.
LEMMA AwaitedNext ==
  ASSUME SubmitTypeOK, AgentInv, FetchingIsAwaited, [SubmitNext]_SubmitVars
  PROVE  FetchingIsAwaited'
<1> SUFFICES ASSUME NEW id \in Ids, row'[id] = "Fetching"
             PROVE  AwaitedBy(id)' \/ id \in stranded'
  BY DEF FetchingIsAwaited
<1> USE DEF SubmitTypeOK
<1>1. row[id] = "Fetching" => AwaitedBy(id) \/ id \in stranded
  BY DEF FetchingIsAwaited
<1>2. ASSUME NEW r \in Requests, NEW x \in Ids, NEW u \in Urls, Submit(r, x, u)
      PROVE  AwaitedBy(id)' \/ id \in stranded'
  <2>1. /\ request[r].at = "new" /\ UNCHANGED <<agent, events>>
        /\ request' = [request EXCEPT ![r] = [at |-> "placed", id |-> x, url |-> u]]
        /\ stranded' = stranded \ {x} /\ row' = [row EXCEPT ![x] = Placeholder(x)]
    BY <1>2 DEF Submit
  <2>2. CASE id = x
    BY <2>1, <2>2 DEF AwaitedBy
  <2>3. CASE id # x
    <3>1. ByRequest(id) => ByRequest(id)'
      BY <2>1 DEF ByRequest
    <3>2. AwaitedBy(id) => AwaitedBy(id)'
      BY <2>1, <3>1, AwaitedIs DEF AwaitedBy, ByAgent, ByRequest, OnItsWay
    <3>3. row[id] = "Fetching"
      BY <2>1, <2>3
    <3>4. QED
      BY <1>1, <2>1, <2>3, <3>2, <3>3
  <2>4. QED
    BY <2>2, <2>3
<1>3. ASSUME NEW r \in Requests, NEW x \in Ids, SubmitUnplaced(r, x)
      PROVE  AwaitedBy(id)' \/ id \in stranded'
  <2>1. /\ request[r].at = "new" /\ UNCHANGED <<agent, events, row, stranded>>
        /\ request' = [request EXCEPT ![r] = [at |-> "placed", id |-> x, url |-> Local]]
    BY <1>3 DEF SubmitUnplaced
  <2>2. ByRequest(id) => ByRequest(id)'
    BY <2>1 DEF ByRequest
  <2>3. QED
    BY <1>1, <2>1, <2>2, AwaitedIs DEF AwaitedBy, ByAgent, ByRequest, OnItsWay
<1>4. ASSUME NEW r \in Requests, HandlerStep(r) PROVE AwaitedBy(id)' \/ id \in stranded'
  <2>1. CASE Enqueue(r)
    <3>1. /\ UNCHANGED <<agent, events, row, stranded>>
          /\ request' = [request EXCEPT ![r].at = "channel"]
      BY <2>1 DEF Enqueue, Move
    <3>2. ByRequest(id) => ByRequest(id)'
      BY <3>1 DEF ByRequest, Request
    <3>3. QED
      BY <1>1, <3>1, <3>2, AwaitedIs DEF AwaitedBy, ByAgent, ByRequest, OnItsWay
  <2>2. CASE FetchThread(r)
    <3>1. PICK what \in {"mbox", "failed"} : Emit({<<what, request[r].id, 0>>})
      BY <2>2 DEF FetchThread
    <3>2. /\ UNCHANGED <<agent, row, stranded>> /\ request[r].id \in Ids
          /\ request' = [request EXCEPT ![r].at = "over"]
      BY <2>2 DEF FetchThread, Move
    <3>3. ByRequest(id) => ByRequest(id)' \/ id = request[r].id
      BY <3>2 DEF ByRequest, Request
    <3>4. id = request[r].id => OnItsWay(id)'
      BY <3>1, <3>2, EmitKeeps, EventsAre
    <3>5. OnItsWay(id) => OnItsWay(id)'
      BY <3>1, EmitKeeps
    <3>6. QED
      BY <1>1, <3>2, <3>3, <3>4, <3>5, AwaitedIs
      DEF AwaitedBy, ByAgent, ByRequest, OnItsWay
  <2>3. QED
    BY <1>4, <2>1, <2>2 DEF HandlerStep
<1>5. CASE AgentStep
  <2>1. row' = row /\ stranded \subseteq stranded'
    BY <1>5 DEF AgentStep, ReceiveRequest, TakeUrl, QueueIsDone, Fetched, RemoteFails,
       UrlIsDone, Show, ShowFails, Resolve, ResolveFails
  <2>2. QED
    BY <1>1, <1>5, <2>1, AgentHandsOn
<1>6. ASSUME NEW x \in Ids, StoreOf(x) PROVE AwaitedBy(id)' \/ id \in stranded'
  <2>1. row[id] = "Fetching" /\ stranded \subseteq stranded'
    BY <1>6 DEF StoreOf, SplitMbox, FailPlaceholder, AdoptCover, Adopts, Adopted, StorePatch,
       LosePart
  <2>2. QED
    BY <1>1, <1>6, <2>1, WorkerSettles
<1>7. ASSUME NEW x \in Ids, Review(x) PROVE AwaitedBy(id)' \/ id \in stranded'
  <2>1. row[id] = "Fetching" /\ UNCHANGED <<request, agent, events, stranded>>
    BY <1>7 DEF Review
  <2>2. QED
    BY <1>1, <2>1 DEF AwaitedBy
<1>8. CASE SubmitCrash
  <2>1. row[id] = "Fetching"
    BY <1>8 DEF SubmitCrash
  <2>2. QED
    BY <1>8, <2>1 DEF SubmitCrash
<1>9. CASE UNCHANGED SubmitVars
  BY <1>1, <1>9 DEF SubmitVars, AwaitedBy
<1>10. QED
  BY <1>2, <1>3, <1>4, <1>5, <1>6, <1>7, <1>8, <1>9 DEF SubmitNext

-----------------------------------------------------------------------------
(***************************************************************************)
(* The theorems                                                            *)
(***************************************************************************)
\* Everything holds at the start, when nothing was submitted.
THEOREM SubmitInvInit == SubmitInit => SubmitInv
<1> SUFFICES ASSUME SubmitInit PROVE SubmitInv
  OBVIOUS
<1> USE NamesAre DEF SubmitInit
<1>1. SubmitTypeOK
  <2>1. agent \in Agent
    BY DEF Idle, NoWork, Agent
  <2>2. QED
    BY <2>1 DEF SubmitTypeOK, Statuses, New, Request
<1>2. AgentInv
  BY DEF AgentInv, Idle, NoWork, New
<1>3. OwnerInv /\ FetchingIsAwaited /\ ReadyIsComplete
  BY DEF OwnerInv, FetchingIsAwaited, ReadyIsComplete
<1>4. QED
  BY <1>1, <1>2, <1>3 DEF SubmitInv

\* Every step keeps the invariant.
THEOREM SubmitInvNext == SubmitInv /\ [SubmitNext]_SubmitVars => SubmitInv'
<1> SUFFICES ASSUME SubmitInv, [SubmitNext]_SubmitVars PROVE SubmitInv'
  OBVIOUS
<1>1. SubmitTypeOK' /\ AgentInv' /\ OwnerInv' /\ FetchingIsAwaited'
  BY TypeNext, AgentInvNext, OwnerInvNext, AwaitedNext DEF SubmitInv
<1>2. ReadyIsComplete'
  BY <1>1, ReadyNext DEF SubmitInv
<1>3. QED
  BY <1>1, <1>2 DEF SubmitInv

\* So it always holds.
THEOREM SubmitInvAlways == SubmitSpec => []SubmitInv
BY SubmitInvInit, SubmitInvNext, PTL DEF SubmitSpec

\* Submissions are type correct.
THEOREM SubmitTypeCorrect == SubmitSpec => []SubmitTypeOK
<1>1. SubmitInv => SubmitTypeOK
  BY DEF SubmitInv
<1>2. QED
  BY <1>1, SubmitInvAlways, PTL

\* A placeholder in Fetching that was not stranded in a known way has somebody
\* who works for it.
THEOREM AwaitedCorrect == SubmitSpec => []FetchingIsAwaited
<1>1. SubmitInv => FetchingIsAwaited
  BY DEF SubmitInv
<1>2. QED
  BY <1>1, SubmitInvAlways, PTL

\* What the reviewer may pick up has all its commits in the database.
THEOREM ReadyCorrect == SubmitSpec => []ReadyIsComplete
<1>1. SubmitInv => ReadyIsComplete
  BY DEF SubmitInv
<1>2. QED
  BY <1>1, SubmitInvAlways, PTL
=============================================================================
