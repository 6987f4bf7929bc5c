---------------------------- MODULE Submissions -----------------------------
(***************************************************************************)
(* Commits, ranges and threads submitted over the HTTP API: the handler    *)
(* makes a placeholder in Fetching and queues a request, the fetch agent   *)
(* gets the commits from git, the parsers pass its events on in any order  *)
(* and the worker of the database turns the placeholder into a patchset.   *)
(*                                                                         *)
(* Whether git has a commit, reaches a remote or shows a patch may change  *)
(* from one call to the next, so every such call has both outcomes.        *)
(***************************************************************************)
EXTENDS Naturals, Sequences, FiniteSets

CONSTANTS
  Ids,          \* what is submitted: commits, ranges and message ids
  Kind,         \* [Ids -> {"single", "range", "thread"}]
  Commits,      \* [Ids -> Seq(commit)]: what an id stands for
  Urls, Local,  \* repositories; Local: none was named
  Requests,     \* the requests the users make
  FetchCap,     \* capacity of the channel to the agent (100)
  MaxSubmitCrashes, \* bound on crashes
  NoId

Commit == UNION {{Commits[id][i] : i \in DOMAIN Commits[id]} : id \in Ids}
Size(id) == Len(Commits[id])
Thread(id) == Kind[id] = "thread"

ASSUME SubmissionsAssumption ==
  /\ \A id \in Ids : Commits[id] \in Seq(Commit) /\ Commits[id] # <<>>
  /\ \A id \in Ids : \A i, j \in DOMAIN Commits[id] :
       Commits[id][i] = Commits[id][j] => i = j
  /\ Kind \in [Ids -> {"single", "range", "thread"}]
  /\ \A id \in Ids : Kind[id] = "single" => Len(Commits[id]) = 1
  /\ Local \in Urls /\ NoId \notin Ids
  /\ FetchCap \in Nat \ {0} /\ MaxSubmitCrashes \in Nat

(* failed: IngestionFailed; mbox: RawMboxSubmitted; patch i: the i-th patch, *)
(* 0 the cover letter of a thread.                                           *)
EventsOf(id) == {<<"failed", id, 0>>, <<"mbox", id, 0>>}
                \cup {<<"patch", id, i>> : i \in 0..Size(id)}
EventSet == UNION {EventsOf(id) : id \in Ids}

VARIABLES
  row,       \* [Ids -> status of its patchset, or "None"]
  owner,     \* [Commit -> the patchset that holds its patch, or NoId]
  request,   \* [Requests -> what it asks for and where it is]
  agent,     \* the fetch agent
  events,    \* [EventSet -> how many are on their way to the worker]
  stranded,  \* history: placeholders nobody works for any more, and that is known
  submitCrashes

SubmitVars == <<row, owner, request, agent, events, stranded, submitCrashes>>

New    == [at |-> "new", id |-> NoId, url |-> Local]
NoWork == [u \in Urls |-> {}]
Idle   == [pc |-> "idle", work |-> NoWork, url |-> Local, ids |-> {}, missing |-> {},
           id |-> NoId, part |-> 0]

SubmitInit ==
  /\ row = [id \in Ids |-> "None"]
  /\ owner = [c \in Commit |-> NoId]
  /\ request = [r \in Requests |-> New]
  /\ agent = Idle
  /\ events = [e \in EventSet |-> 0]
  /\ stranded = {}
  /\ submitCrashes = 0

Emit(es) == events' = [e \in EventSet |-> IF e \in es THEN events[e] + 1 ELSE events[e]]
Move(r, at) == request' = [request EXCEPT ![r].at = at]

-----------------------------------------------------------------------------
(* The handler of a submission.                                              *)

(* Only a failed placeholder, or one that is being fetched, starts anew. *)
Placeholder(id) == IF row[id] \in {"None", "Failed", "Fetching"} THEN "Fetching" ELSE row[id]

Submit(r, id, url) ==
  /\ request[r].at = "new" /\ (Thread(id) => url = Local)
  /\ request' = [request EXCEPT ![r] = [at |-> "placed", id |-> id, url |-> url]]
  /\ row' = [row EXCEPT ![id] = Placeholder(id)]
  /\ stranded' = stranded \ {id}
  /\ UNCHANGED <<owner, agent, events, submitCrashes>>

(* The placeholder of a thread is not vital: without it the thread is fetched too. *)
SubmitUnplaced(r, id) ==
  /\ request[r].at = "new" /\ Thread(id)
  /\ request' = [request EXCEPT ![r] = [at |-> "placed", id |-> id, url |-> Local]]
  /\ UNCHANGED <<row, owner, agent, events, stranded, submitCrashes>>

Enqueue(r) ==
  /\ request[r].at = "placed" /\ ~Thread(request[r].id)
  /\ Cardinality({q \in Requests : request[q].at = "channel"}) < FetchCap
  /\ Move(r, "channel")
  /\ UNCHANGED <<row, owner, agent, events, stranded, submitCrashes>>

FetchThread(r) ==
  /\ request[r].at = "placed" /\ Thread(request[r].id)
  /\ \E what \in {"mbox", "failed"} : Emit({<<what, request[r].id, 0>>})
  /\ Move(r, "over")
  /\ UNCHANGED <<row, owner, agent, stranded, submitCrashes>>

-----------------------------------------------------------------------------
(* The fetch agent: what it received since the last tick is a set per url;   *)
(* a tick works through all of it before the agent receives again.           *)

ReceiveRequest(r) ==
  /\ agent.pc = "idle" /\ request[r].at = "channel"
  /\ agent' = [agent EXCEPT !.work[request[r].url] = @ \cup {request[r].id}]
  /\ Move(r, "over")
  /\ UNCHANGED <<row, owner, events, stranded, submitCrashes>>

(* The next url, in the order of a hash map; what git does not have is noted. *)
TakeUrl(u) ==
  /\ agent.pc \in {"idle", "next"} /\ agent.work[u] # {}
  /\ \E missing \in SUBSET agent.work[u] :
       agent' = [agent EXCEPT
         !.pc = IF missing = {} \/ u = Local THEN "each" ELSE "remote",
         !.url = u, !.ids = agent.work[u], !.missing = missing, !.work[u] = {}]
  /\ UNCHANGED <<row, owner, request, events, stranded, submitCrashes>>

QueueIsDone ==
  /\ agent.pc = "next" /\ agent.work = NoWork
  /\ agent' = Idle
  /\ UNCHANGED <<row, owner, request, events, stranded, submitCrashes>>

Fetched ==
  /\ agent.pc = "remote"
  /\ agent' = [agent EXCEPT !.pc = "each"]
  /\ UNCHANGED <<row, owner, request, events, stranded, submitCrashes>>

(* The remote cannot be set up, or both fetches fail: the missing commits    *)
(* are reported, the others of the url are forgotten with them.              *)
RemoteFails ==
  /\ agent.pc = "remote"
  /\ Emit({<<"failed", id, 0>> : id \in agent.missing})
  /\ agent' = [agent EXCEPT !.pc = "next", !.ids = {}, !.missing = {}]
  /\ stranded' = stranded \cup (agent.ids \ agent.missing)
  /\ UNCHANGED <<row, owner, request, submitCrashes>>

Resolve(id) ==
  /\ agent.pc = "each" /\ id \in agent.ids
  /\ agent' = [agent EXCEPT !.pc = "show", !.ids = @ \ {id}, !.id = id, !.part = 1]
  /\ UNCHANGED <<row, owner, request, events, stranded, submitCrashes>>

(* git rev-parse or rev-list fails, or the range is empty. *)
ResolveFails(id) ==
  /\ agent.pc = "each" /\ id \in agent.ids
  /\ Emit({<<"failed", id, 0>>})
  /\ agent' = [agent EXCEPT !.ids = @ \ {id}]
  /\ UNCHANGED <<row, owner, request, stranded, submitCrashes>>

AfterPart == IF agent.part < Size(agent.id)
             THEN [agent EXCEPT !.part = @ + 1]
             ELSE [agent EXCEPT !.pc = "each", !.id = NoId, !.part = 0]

Show ==
  /\ agent.pc = "show"
  /\ Emit({<<"patch", agent.id, agent.part>>})
  /\ agent' = AfterPart
  /\ UNCHANGED <<row, owner, request, stranded, submitCrashes>>

(* mutant: it is only logged in both. *)
Reported_Never(id) == {}

(* A commit that cannot be shown fails a submission of one; in a range it is *)
(* only logged.                                                              *)
Reported(id) == IF Kind[id] = "single" THEN {<<"failed", id, 0>>} ELSE {}

ShowFails ==
  /\ agent.pc = "show"
  /\ Emit(Reported(agent.id))
  /\ stranded' = IF Kind[agent.id] = "range" THEN stranded \cup {agent.id} ELSE stranded
  /\ agent' = AfterPart
  /\ UNCHANGED <<row, owner, request, submitCrashes>>

UrlIsDone ==
  /\ agent.pc = "each" /\ agent.ids = {}
  /\ agent' = [agent EXCEPT !.pc = "next", !.missing = {}]
  /\ UNCHANGED <<row, owner, request, events, stranded, submitCrashes>>

-----------------------------------------------------------------------------
(* Parsers and the worker of the database.                                   *)

Take(e, es) ==
  /\ events[e] > 0
  /\ events' = [x \in EventSet |-> IF x = e THEN events[x] - 1
                                   ELSE IF x \in es THEN events[x] + 1 ELSE events[x]]

MessagesOf(id) == {<<"patch", id, i>> : i \in (IF Size(id) = 1 THEN 1 ELSE 0)..Size(id)}

(* A message that does not parse is only logged, more than a hundred are     *)
(* refused, and those of a thread that was asked for by another message than *)
(* its first go to another patchset.                                         *)
SplitMbox(id) ==
  /\ \E kept \in SUBSET MessagesOf(id) :
       /\ Take(<<"mbox", id, 0>>, kept)
       /\ stranded' = IF kept = MessagesOf(id) THEN stranded ELSE stranded \cup {id}
  /\ UNCHANGED <<row, owner, request, agent, submitCrashes>>

(* update_patchset_error: by the cover letter, whatever the status is; its   *)
(* own failure is only logged.                                               *)
FailPlaceholder(id) ==
  /\ Take(<<"failed", id, 0>>, {})
  /\ \/ /\ row' = IF row[id] = "None" THEN row ELSE [row EXCEPT ![id] = "Failed"]
        /\ UNCHANGED stranded
     \/ stranded' = stranded \cup {id} /\ UNCHANGED row
  /\ UNCHANGED <<owner, request, agent, submitCrashes>>

(* mutant: a placeholder that was fetched is not recognised. *)
Adopted_New(id) == IF row[id] = "None" THEN "Incomplete" ELSE row[id]

Adopted(id) == IF row[id] \in {"None", "Fetching"} THEN "Incomplete" ELSE row[id]

(* A patch is stored once: a second submission moves it to its own patchset. *)
Moved(id, i) == [owner EXCEPT ![Commits[id][i]] = id]

(* mutant: counts the patch at hand twice. *)
Received_Twice(id, own) == Cardinality({c \in Commit : own[c] = id}) + 1

Received(id, own) == Cardinality({c \in Commit : own[c] = id})

(* The patchset of a part, which is ready with its last one. *)
Adopts(id, own) ==
  row' = [row EXCEPT ![id] = IF Adopted(id) = "Incomplete" /\ Received(id, own) >= Size(id)
                             THEN "Pending" ELSE Adopted(id)]

(* The count of a patchset that lost a part may be behind its patches. *)
AdoptCover(id) ==
  /\ Thread(id)
  /\ Take(<<"patch", id, 0>>, {})
  /\ \/ Adopts(id, owner)
     \/ id \in stranded /\ row' = [row EXCEPT ![id] = Adopted(id)]
  /\ UNCHANGED <<owner, request, agent, stranded, submitCrashes>>

StorePatch(id, i) ==
  /\ i \in 1..Size(id)
  /\ Take(<<"patch", id, i>>, {})
  /\ owner' = Moved(id, i)
  /\ Adopts(id, owner')
  /\ UNCHANGED <<request, agent, stranded, submitCrashes>>

(* process_parsed_article gives a part up.  Nothing is stored of it when the *)
(* email policy ignores its author and when the database refuses the thread, *)
(* the message or the patchset; refused later, it leaves the patchset        *)
(* adopted, with the patch or without, and not made ready.                   *)
LosePart(id, i) ==
  /\ Thread(id) \/ i # 0
  /\ Take(<<"patch", id, i>>, {})
  /\ stranded' = stranded \cup {id}
  /\ \/ UNCHANGED <<row, owner>>
     \/ /\ row' = [row EXCEPT ![id] = Adopted(id)]
        /\ owner' \in {owner} \cup (IF i = 0 THEN {} ELSE {Moved(id, i)})
  /\ UNCHANGED <<request, agent, submitCrashes>>

(* The reviewer, as far as the placeholder sees it. *)
Review(id) ==
  /\ row[id] \in {"Pending", "In Review"}
  /\ row' = [row EXCEPT ![id] = IF @ = "Pending" THEN "In Review" ELSE "Reviewed"]
  /\ UNCHANGED <<owner, request, agent, events, stranded, submitCrashes>>

(* Nothing of a fetch outlives the process. *)
SubmitCrash ==
  /\ submitCrashes < MaxSubmitCrashes
  /\ submitCrashes' = submitCrashes + 1
  /\ request' = [r \in Requests |->
       IF request[r].at = "new" THEN New ELSE [request[r] EXCEPT !.at = "over"]]
  /\ agent' = Idle
  /\ events' = [e \in EventSet |-> 0]
  /\ stranded' = stranded \cup {id \in Ids : row[id] = "Fetching"}
  /\ row' = [id \in Ids |-> IF row[id] = "In Review" THEN "Pending" ELSE row[id]]
  /\ UNCHANGED owner

-----------------------------------------------------------------------------
HandlerStep(r) == Enqueue(r) \/ FetchThread(r)
AgentStep ==
  \/ \E r \in Requests : ReceiveRequest(r)
  \/ \E u \in Urls : TakeUrl(u)
  \/ QueueIsDone \/ Fetched \/ RemoteFails \/ UrlIsDone \/ Show \/ ShowFails
  \/ \E id \in Ids : Resolve(id) \/ ResolveFails(id)
StoreOf(id) ==
  \/ SplitMbox(id) \/ FailPlaceholder(id) \/ AdoptCover(id)
  \/ \E i \in 1..Size(id) : StorePatch(id, i)
  \/ \E i \in 0..Size(id) : LosePart(id, i)

SubmitNext ==
  \/ \E r \in Requests, id \in Ids, u \in Urls : Submit(r, id, u)
  \/ \E r \in Requests, id \in Ids : SubmitUnplaced(r, id)
  \/ \E r \in Requests : HandlerStep(r)
  \/ AgentStep
  \/ \E id \in Ids : StoreOf(id)
  \/ \E id \in Ids : Review(id)
  \/ SubmitCrash

SubmitSpec == SubmitInit /\ [][SubmitNext]_SubmitVars

-----------------------------------------------------------------------------
Statuses == {"None", "Fetching", "Failed", "Incomplete", "Pending", "In Review", "Reviewed"}

Request == [at : {"new", "placed", "channel", "over"}, id : Ids \cup {NoId}, url : Urls]
Agent == [pc : {"idle", "next", "remote", "each", "show"},
          work : [Urls -> SUBSET Ids], url : Urls, ids : SUBSET Ids,
          missing : SUBSET Ids, id : Ids \cup {NoId}, part : Nat]

SubmitTypeOK ==
  /\ row \in [Ids -> Statuses]
  /\ owner \in [Commit -> Ids \cup {NoId}]
  /\ request \in [Requests -> Request]
  /\ \A r \in Requests : request[r].at # "new" => request[r].id \in Ids
  /\ agent \in Agent
  /\ events \in [EventSet -> Nat]
  /\ stranded \subseteq Ids
  /\ submitCrashes \in Nat

(* A placeholder in Fetching is what the user watches: somebody works for it *)
(* -- a handler, the agent, an event on its way -- unless one of these       *)
(* stranded it: a crash; a remote out of reach; a commit of a range that git *)
(* does not show; a thread of more than a hundred messages, or asked for by  *)
(* another message than its first; a message that does not parse; an author  *)
(* the email policy ignores; an error of the database.                       *)
AwaitedBy(id) ==
  \/ \E r \in Requests : request[r].at \in {"placed", "channel"} /\ request[r].id = id
  \/ \E u \in Urls : id \in agent.work[u]
  \/ id \in agent.ids
  \/ agent.pc = "show" /\ agent.id = id
  \/ \E e \in EventsOf(id) : events[e] > 0
FetchingIsAwaited ==
  \A id \in Ids : row[id] = "Fetching" => AwaitedBy(id) \/ id \in stranded

(* So no placeholder that is not stranded stays in Fetching for ever.        *)
FetchingEnds ==
  \A id \in Ids : row[id] = "Fetching" ~> (row[id] # "Fetching" \/ id \in stranded)

(* What the reviewer may pick up has each of its commits in the database, in *)
(* whatever order the parsers delivered them; another submission may hold a  *)
(* commit by then.                                                           *)
ReadyIsComplete ==
  \A id \in Ids : row[id] \in {"Pending", "In Review", "Reviewed"}
    => \A i \in DOMAIN Commits[id] : owner[Commits[id][i]] # NoId

(* create_fetching_patchset leaves a reviewed patchset alone when it is      *)
(* submitted again; so should the rest of the submission.                    *)
ReviewedIsNotReset ==
  [][\A id \in Ids : row[id] = "Reviewed" => row'[id] = "Reviewed"]_SubmitVars
=============================================================================
