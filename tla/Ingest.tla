------------------------------- MODULE Ingest -------------------------------
(***************************************************************************)
(* From the news server and the git archives to the table of messages: the *)
(* ingestor with its high-water mark per group, the channel of raw events, *)
(* the concurrent parsers with their cutoff, the channel of parsed         *)
(* articles and the worker that stores them in batches.                    *)
(*                                                                         *)
(* An article is a pair of a group and its number there; its date is the   *)
(* start of the daemon before which it was posted (0: before the first).   *)
(* Only the marks and the stored messages outlive a crash.                 *)
(***************************************************************************)
EXTENDS Naturals, Sequences, FiniteSets

CONSTANTS
  Tracked,       \* the groups of the settings, a sequence without repetition
  Earlier,       \* [group -> Nat]: articles posted before the first start
  Latest,        \* [group -> Nat]: bound on the numbers of a group
  Missing,       \* articles the server answers with 423
  Odd,           \* articles whose number contains the digits 423
  Archive,       \* [group -> Seq(SUBSET Nat)]: epochs of the git archive, newest first
  DownloadLimit, \* --download divided by the number of groups, rounded up
  FreshOverlap,  \* window of a group seen for the first time (4000)
  ShortOverlap,  \* the same after a bootstrap from git (100)
  RawCap,        \* capacity of the channel of raw events (1000)
  Parsers,       \* permits of the parser's semaphore (50)
  ParsedCap,     \* capacity of the channel of parsed articles (1000)
  BatchCap,      \* articles the worker takes at once (100)
  MaxFaults,     \* bound on failures of the server, git, the parsers and the database
  MaxBoots,      \* bound on starts of the daemon
  Nobody         \* no article

Groups  == {Tracked[i] : i \in DOMAIN Tracked}
Article == UNION {{g} \X (1..Latest[g]) : g \in Groups}
Elems(s) == {s[i] : i \in DOMAIN s}

ASSUME IngestAssumption ==
  /\ Tracked \in Seq(Groups)
  /\ Earlier \in [Groups -> Nat] /\ Latest \in [Groups -> Nat]
  /\ \A g \in Groups : Earlier[g] <= Latest[g]
  /\ Missing \subseteq Article /\ Odd \subseteq Article
  /\ Archive \in [Groups -> Seq(SUBSET Nat)]
  /\ {DownloadLimit, FreshOverlap, ShortOverlap, MaxFaults, MaxBoots} \subseteq Nat
  /\ {RawCap, ParsedCap, BatchCap} \subseteq Nat \ {0}
  /\ IsFiniteSet(Parsers) /\ Nobody \notin Article

VARIABLES
  dates,     \* [group -> Seq(Nat)]: the articles of the server, by number
  mark,      \* mailing_lists.last_article_num
  first,     \* history: the mark a group was initialised with
  stored,    \* the messages of the database
  ingestor,  \* the task of the ingestor
  online,    \* the connection to the news server works
  download,  \* the daemon was started with --download
  cutoff,    \* the parsers drop what is dated before
  raw,       \* channel of raw events
  held,      \* the event for which the dispatcher waits for a permit
  parsing,   \* [Parsers -> the article being parsed]
  parsed,    \* channel of parsed articles
  batch,     \* what the worker took and has not processed
  lost, dropped, failed,  \* history: by a crash, by the parsers, by the database
  boots, faults           \* starts and failures so far

pipeline   == <<raw, held, parsing, parsed, batch>>
outcomes   == <<stored, lost, dropped, failed>>
IngestVars == <<dates, mark, first, outcomes, ingestor, online, download, cutoff,
                pipeline, boots, faults>>

Asleep == [pc |-> "asleep", todo |-> <<>>, cur |-> 0, high |-> 0,
           sent |-> {}, left |-> 0]
Down   == [Asleep EXCEPT !.pc = "down"]
Empty  == [p \in Parsers |-> Nobody]

IngestInit ==
  /\ dates = [g \in Groups |-> [n \in 1..Earlier[g] |-> 0]]
  /\ mark = [g \in Groups |-> 0] /\ first = mark
  /\ stored = {} /\ lost = {} /\ dropped = {} /\ failed = {}
  /\ ingestor = Down /\ online = FALSE /\ download = FALSE /\ cutoff = 0
  /\ raw = <<>> /\ held = Nobody /\ parsing = Empty /\ parsed = <<>> /\ batch = <<>>
  /\ boots = 0 /\ faults = 0

Dated(a)  == dates[a[1]][a[2]]
Posted(a) == a[2] \in DOMAIN dates[a[1]]
High(g)   == Len(dates[g])
InFlight  == Elems(raw) \cup Elems(parsed) \cup Elems(batch)
             \cup (({held} \cup {parsing[p] : p \in Parsers}) \ {Nobody})

(* One of the things that may fail does. *)
Fault == faults < MaxFaults /\ faults' = faults + 1

-----------------------------------------------------------------------------
(* The start of the daemon. Without --download the cutoff of the parsers is *)
(* the oldest message, or now when there is none or it cannot be read.      *)

OldestStored == CHOOSE d \in {Dated(a) : a \in stored} : \A a \in stored : Dated(a) >= d

IngestBoot(dl) ==
  /\ ingestor.pc = "down" /\ boots < MaxBoots
  /\ boots' = boots + 1 /\ download' = dl
  /\ \/ /\ cutoff' = IF dl THEN 0 ELSE IF stored = {} THEN boots' ELSE OldestStored
        /\ UNCHANGED faults
     \/ ~dl /\ Fault /\ cutoff' = boots'
  /\ ingestor' = IF dl
                 THEN [Asleep EXCEPT !.pc = "git", !.todo = Tracked, !.cur = 1,
                                     !.left = DownloadLimit]
                 ELSE Asleep
  /\ UNCHANGED <<dates, mark, first, outcomes, online, pipeline>>

IngestCrash ==
  /\ ingestor.pc # "down" /\ boots < MaxBoots
  /\ lost' = lost \cup {a \in InFlight : a \notin stored}
  /\ ingestor' = Down /\ online' = FALSE
  /\ raw' = <<>> /\ held' = Nobody /\ parsing' = Empty /\ parsed' = <<>> /\ batch' = <<>>
  /\ UNCHANGED <<dates, mark, first, stored, dropped, failed, download, cutoff, boots, faults>>

-----------------------------------------------------------------------------
(* Bootstrap from the git archives: per group the newest epochs first, until *)
(* the share of the group is used up. A failure is logged and skipped.       *)

InGit == ingestor.pc = "git" /\ ingestor.todo # <<>>
Here  == Head(ingestor.todo)
Epoch == Archive[Here][ingestor.cur]
Unsent == {n \in Epoch : n \in DOMAIN dates[Here]} \ ingestor.sent

NextGroupInGit ==
  [ingestor EXCEPT !.todo = Tail(@), !.cur = 1, !.sent = {}, !.left = DownloadLimit]
NextEpoch(left) == [ingestor EXCEPT !.cur = @ + 1, !.sent = {}, !.left = left]

Left == ingestor.left - Cardinality(ingestor.sent)

SendBlob ==
  /\ InGit /\ ingestor.cur \in DOMAIN Archive[Here]
  /\ Left > 0 /\ Unsent # {} /\ Len(raw) < RawCap
  /\ \E n \in Unsent :
       /\ \A m \in Unsent : m <= n
       /\ raw' = Append(raw, <<Here, n>>)
       /\ ingestor' = [ingestor EXCEPT !.sent = @ \cup {n}]
  /\ UNCHANGED <<dates, mark, first, outcomes, online, download, cutoff, held, parsing,
                 parsed, batch, boots, faults>>

EpochEnds ==
  /\ InGit /\ ingestor.cur \in DOMAIN Archive[Here]
  /\ \/ (Left = 0 \/ Unsent = {}) /\ ingestor' = NextEpoch(Left) /\ UNCHANGED faults
     \/ Left > 0 /\ Fault /\ ingestor' = NextEpoch(ingestor.left)
  /\ UNCHANGED <<dates, mark, first, outcomes, online, download, cutoff, pipeline, boots>>

GroupEndsInGit ==
  /\ InGit /\ ingestor.cur \notin DOMAIN Archive[Here]
  /\ ingestor' = NextGroupInGit
  /\ UNCHANGED <<dates, mark, first, outcomes, online, download, cutoff, pipeline, boots, faults>>

GitEnds ==
  /\ ingestor.pc = "git" /\ ingestor.todo = <<>>
  /\ ingestor' = Asleep
  /\ UNCHANGED <<dates, mark, first, outcomes, online, download, cutoff, pipeline, boots, faults>>

-----------------------------------------------------------------------------
(* The cycle over the news server.                                           *)

At(pc) == ingestor.pc = pc

(* mutant: the group that was left is tried again. *)
NextGroup_Same == [ingestor EXCEPT !.pc = "select"]

NextGroup == [ingestor EXCEPT !.pc = "select", !.todo = Tail(@)]

StartCycle ==
  /\ At("asleep")
  /\ online' = TRUE
  /\ ingestor' = [ingestor EXCEPT !.pc = "select", !.todo = Tracked]
  /\ UNCHANGED <<dates, mark, first, outcomes, download, cutoff, pipeline, boots, faults>>

EndCycle ==
  /\ At("select") /\ ingestor.todo = <<>>
  /\ ingestor' = [ingestor EXCEPT !.pc = "asleep"]
  /\ UNCHANGED <<dates, mark, first, outcomes, online, download, cutoff, pipeline, boots, faults>>

Window == IF download THEN ShortOverlap ELSE FreshOverlap
Begin(g) == IF mark[g] # 0 THEN mark[g]
            ELSE IF High(g) > Window THEN High(g) - Window ELSE 0

SelectGroup ==
  /\ At("select") /\ ingestor.todo # <<>> /\ online
  /\ mark' = [mark EXCEPT ![Here] = Begin(Here)]
  /\ first' = IF mark[Here] = 0 THEN [first EXCEPT ![Here] = Begin(Here)] ELSE first
  /\ ingestor' = [ingestor EXCEPT !.pc = "fetch", !.cur = Begin(Here),
                                  !.high = High(Here)]
  /\ UNCHANGED <<dates, outcomes, online, download, cutoff, pipeline, boots, faults>>

(* GROUP fails, or the connection is gone: the next group is tried. *)
SkipGroup ==
  /\ At("select") /\ ingestor.todo # <<>>
  /\ IF online THEN Fault ELSE UNCHANGED faults
  /\ ingestor' = NextGroup
  /\ UNCHANGED <<dates, mark, first, outcomes, online, download, cutoff, pipeline, boots>>

GroupIsRead ==
  /\ At("fetch") /\ ingestor.cur >= ingestor.high
  /\ ingestor' = NextGroup
  /\ UNCHANGED <<dates, mark, first, outcomes, online, download, cutoff, pipeline, boots, faults>>

Wanted == <<Here, ingestor.cur + 1>>
Reading == At("fetch") /\ ingestor.cur < ingestor.high

(* The article comes; a connection that ends in its body ends the article.   *)
Fetch ==
  /\ Reading /\ online /\ Wanted \notin Missing
  /\ ingestor' = [ingestor EXCEPT !.pc = "send"]
  /\ \/ UNCHANGED <<online, faults>>
     \/ Fault /\ online' = FALSE
  /\ UNCHANGED <<dates, mark, first, outcomes, download, cutoff, pipeline, boots>>

(* The event goes into the channel, when there is room, before the mark is saved. *)
SendArticle ==
  /\ At("send") /\ Len(raw) < RawCap
  /\ raw' = Append(raw, Wanted)
  /\ ingestor' = [ingestor EXCEPT !.pc = "save"]
  /\ UNCHANGED <<dates, mark, first, outcomes, online, download, cutoff, held, parsing,
                 parsed, batch, boots, faults>>

Advance ==
  /\ mark' = [mark EXCEPT ![Here] = ingestor.cur + 1]
  /\ ingestor' = [ingestor EXCEPT !.pc = "fetch", !.cur = @ + 1]

(* An error of the database ends the cycle for all groups. *)
SaveMark ==
  /\ At("save")
  /\ \/ Advance /\ UNCHANGED faults
     \/ /\ Fault /\ UNCHANGED mark
        /\ ingestor' = [ingestor EXCEPT !.pc = "asleep", !.todo = <<>>]
  /\ UNCHANGED <<dates, first, outcomes, online, download, cutoff, pipeline, boots>>

(* No article comes: the server says 423, refuses in another way or closes   *)
(* the connection ("refused"), or there is an I/O error ("broken").          *)
Errors == {"423", "refused", "broken"}

NoArticle(error) ==
  /\ Reading
  /\ \/ online /\ error = "423" /\ Wanted \in Missing /\ UNCHANGED <<online, faults>>
     \/ online /\ error = "refused" /\ Fault /\ online' \in BOOLEAN
     \/ online /\ error = "broken" /\ Fault /\ online' = FALSE
     \/ ~online /\ error # "423" /\ UNCHANGED <<online, faults>>

(* mutant: any error skips the article. *)
Says423_Always(a, error) == TRUE

(* An error whose text contains 423 skips the article.  Unless it is an I/O  *)
(* error its text holds the number asked for, which may contain 423 itself.  *)
Says423(a, error) == error = "423" \/ (error = "refused" /\ a \in Odd)

SkipArticle ==
  /\ \E error \in Errors : NoArticle(error) /\ Says423(Wanted, error)
  /\ Advance
  /\ UNCHANGED <<dates, first, outcomes, download, cutoff, pipeline, boots>>

LeaveGroup ==
  /\ \E error \in Errors : NoArticle(error) /\ ~Says423(Wanted, error)
  /\ ingestor' = NextGroup
  /\ UNCHANGED <<dates, mark, first, outcomes, download, cutoff, pipeline, boots>>

Post(g) ==
  /\ High(g) < Latest[g]
  /\ dates' = [dates EXCEPT ![g] = Append(@, boots)]
  /\ UNCHANGED <<mark, first, outcomes, ingestor, online, download, cutoff, pipeline, boots, faults>>

-----------------------------------------------------------------------------
(* The dispatcher, the parsers and the worker of the database.               *)

Receive ==
  /\ held = Nobody /\ raw # <<>>
  /\ held' = Head(raw) /\ raw' = Tail(raw)
  /\ UNCHANGED <<dates, mark, first, outcomes, ingestor, online, download, cutoff,
                 parsing, parsed, batch, boots, faults>>

SpawnParser(p) ==
  /\ held # Nobody /\ parsing[p] = Nobody
  /\ parsing' = [parsing EXCEPT ![p] = held] /\ held' = Nobody
  /\ UNCHANGED <<dates, mark, first, outcomes, ingestor, online, download, cutoff,
                 raw, parsed, batch, boots, faults>>

TooOld(a) == Dated(a) < cutoff

(* A parser keeps its permit until the parsed article is in the channel. An *)
(* article that does not parse is dropped like one before the cutoff.       *)
Parse(p) ==
  /\ parsing[p] # Nobody
  /\ parsing' = [parsing EXCEPT ![p] = Nobody]
  /\ \/ /\ ~TooOld(parsing[p]) /\ Len(parsed) < ParsedCap
        /\ parsed' = Append(parsed, parsing[p]) /\ UNCHANGED <<dropped, faults>>
     \/ /\ IF TooOld(parsing[p]) THEN UNCHANGED faults ELSE Fault
        /\ dropped' = dropped \cup {parsing[p]} /\ UNCHANGED parsed
  /\ UNCHANGED <<dates, mark, first, stored, lost, failed, ingestor, online, download,
                 cutoff, raw, held, batch, boots>>

Taken == IF Len(parsed) < BatchCap THEN Len(parsed) ELSE BatchCap

TakeBatch ==
  /\ batch = <<>> /\ parsed # <<>>
  /\ batch' = SubSeq(parsed, 1, Taken)
  /\ parsed' = SubSeq(parsed, Taken + 1, Len(parsed))
  /\ UNCHANGED <<dates, mark, first, outcomes, ingestor, online, download, cutoff,
                 raw, held, parsing, boots, faults>>

Store ==
  /\ batch # <<>>
  /\ batch' = Tail(batch)
  /\ \/ stored' = stored \cup {Head(batch)} /\ UNCHANGED <<failed, faults>>
     \/ Fault /\ failed' = failed \cup {Head(batch)} /\ UNCHANGED stored
  /\ UNCHANGED <<dates, mark, first, lost, dropped, ingestor, online, download, cutoff,
                 raw, held, parsing, parsed, boots>>

-----------------------------------------------------------------------------
IngestorStep ==
  \/ SendBlob \/ EpochEnds \/ GroupEndsInGit \/ GitEnds
  \/ StartCycle \/ EndCycle \/ SelectGroup \/ SkipGroup \/ GroupIsRead
  \/ Fetch \/ SendArticle \/ SaveMark \/ SkipArticle \/ LeaveGroup

ParserStep == Receive \/ \E p \in Parsers : SpawnParser(p) \/ Parse(p)
WorkerStep == TakeBatch \/ Store

IngestNext ==
  \/ \E dl \in BOOLEAN : IngestBoot(dl)
  \/ IngestCrash
  \/ IngestorStep
  \/ ParserStep
  \/ WorkerStep
  \/ \E g \in Groups : Post(g)

IngestSpec == IngestInit /\ [][IngestNext]_IngestVars

-----------------------------------------------------------------------------
IngestTypeOK ==
  /\ dates \in [Groups -> Seq(Nat)]
  /\ mark \in [Groups -> Nat] /\ first \in [Groups -> Nat]
  /\ stored \subseteq Article /\ lost \subseteq Article
  /\ dropped \subseteq Article /\ failed \subseteq Article
  /\ ingestor \in [pc : {"down", "git", "asleep", "select", "fetch", "send", "save"},
                   todo : Seq(Groups), cur : Nat, high : Nat,
                   sent : SUBSET Nat, left : Nat]
  /\ online \in BOOLEAN /\ download \in BOOLEAN /\ cutoff \in Nat
  /\ raw \in Seq(Article) /\ parsed \in Seq(Article) /\ batch \in Seq(Article)
  /\ held \in Article \cup {Nobody}
  /\ parsing \in [Parsers -> Article \cup {Nobody}]
  /\ boots \in Nat /\ faults \in Nat

(* The high-water mark may pass an article only when it is stored or on its  *)
(* way to the database, or when a crash, the parsers (its date, its text) or *)
(* the database is to blame: what the server has, none of its errors skips.  *)
Accounted(a) ==
  (Posted(a) /\ a \notin Missing /\ first[a[1]] < a[2] /\ a[2] <= mark[a[1]])
    => a \in stored \cup InFlight \cup lost \cup dropped \cup failed
NothingIsSkipped == \A a \in Article \ Odd : Accounted(a)

(* The same of the articles whose number contains 423. *)
OddIsNotSkipped == \A a \in Odd : Accounted(a)

(* Whatever is posted is settled in the end, in every group, whatever the    *)
(* other groups, the server's failures, full channels and crashes do: it is  *)
(* stored, or one of the named losses, or lies before the window with which  *)
(* its group began.                                                          *)
Settled(a) == \/ a \in stored \cup lost \cup dropped \cup failed \cup Missing \cup Odd
              \/ mark[a[1]] # 0 /\ a[2] <= first[a[1]]
EveryArticleSettles == \A a \in Article : (Posted(a) /\ boots > 0) ~> Settled(a)
=============================================================================
