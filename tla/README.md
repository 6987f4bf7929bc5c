# Sashiko: TLA+ models, checks and proofs

Sashiko reads kernel patches from mailing lists and git, lets a language model review
them, and mails what it finds. The repository holds the daemon (`src/`), and beside it the
tools of a fork (`my-src/`). This directory models the parts of it whose correctness
depends on order, concurrency and failure. Paths below are those of the repository; in
`PROJECT.json` the repository is `src/`.

## 1. Inventory

| Component | State | Operations | Talks to | What is hard |
|---|---|---|---|---|
| Ingestor, NNTP client (`src/ingestor.rs`, `nntp.rs`) | high-water mark per list, connection | poll a list, import a git archive or an mbox | parser channel | crash between channel and mark; refetch |
| Parser dispatcher (`src/main.rs`, `patch.rs`) | 50 concurrent parses, cutoff date | parse article, parse submission | database worker (channel) | reorders articles |
| Database worker (`src/main.rs`, `db.rs`) | threads, messages, patchsets, patches | `process_parsed_article` | SQLite | any order, duplicates, crash between writes |
| Fetch agent (`src/fetcher.rs`, `git_ops.rs`) | queue in memory, placeholders `Fetching` | request, fetch, extract | API, parser channel | partial failure, crash |
| Reviewer (`src/reviewer.rs`) | semaphore, tasks; `patchsets.status`, `reviews` | poll, review, retry, release embargo | database, tool runner, outbox | races with requests, crash, embargo, schedule |
| Tool runner, quota manager (`src/reviewer.rs`, `ai/quota.rs`) | child process, deadline, budgets; `blocked_until` | requests of the child, rate limits | review binary, AI providers | timeouts, shared block |
| Review binary (`src/bin/review.rs`, `worker/`) | worktree, conversation, stages | stages, tools, retries | tool runner (pipes) | loops, invalid answers |
| AI providers and cache (`src/ai/`) | response cache | generate | HTTP, command lines | error classes, concurrent misses |
| Email outbox and worker (`src/worker/email.rs`, `db.rs`, `email_router.rs`) | `email_outbox` | queue, claim, send, acknowledge, sweep | SMTP | at-least-once delivery |
| HTTP API (`src/api.rs`) | read caches | submit, cancel, rerun, triage, read | database, fetch agent | requests race with the reviewer; stale caches |
| Aggregation service (`my-src/src/my-server`) | one cached dashboard | aggregate | other daemons | stale cache, slow servers |
| Repository monitor (`my-src/tools/repo_monitor`) | state file per branch | poll, submit | CLI | retries, crash before save |
| clear_patchsets (`my-src/tools/clear_patchsets`) | none | delete a patchset | same database, another process | race with the reviewer |
| Checkouts: baseline registry, git operations (`src/baseline.rs`, `git_ops.rs`, `reviewer.rs`) | remotes, worktrees, their directories, locks per remote | find a baseline, fetch, apply a series, pool, clean up | git, review tasks | several tasks over one repository; crash |
| Settings, CLI, metrics, inspector, web UI, deployment | configuration | – | – | none: no state that outlives a call |

The parts meet in the SQLite database. One connection is shared by the tasks of the
daemon, every statement is atomic, and no two statements of the daemon form a transaction:
between any two of them another task may run, or the process may die. That is the grain of
the models.

What makes each part correct:

* *Database worker*: a series that arrived is one patchset, whole, apart from others, and
  not reviewed before it is whole.
* *Reviewer*: a patchset is reviewed by one task, what is In Review is being reviewed,
  outcomes are true and final, cancelled stays cancelled, no review is lost, nothing is
  left behind by a crash.
* *Tool runner*: every run ends, is charged for its own time only, and stops at its
  budget; the rate limit holds for all runs.
* *Outbox*: a review is mailed once, as far as SMTP allows; not under an embargo; what was
  not to be sent is never sent.
* *Ingest, submissions, monitor*: what is accepted is neither lost nor stuck; what is
  known to be lost has a name.
* *Checkouts and review binary*: the model is shown the series on its baseline, up to the
  patch under review; a patch counts as reviewed only when every required stage answered;
  every review ends and leaves nothing behind.
* *Model requests*: an answer is whole, from a stream or from the cache.
* *Read caches and dashboard*: what is shown is not older than promised.

`PROJECT.json` lists each hazard at its line with the property that covers it, or the
reason why none does yet.

## 2. Modules

| Module | Models | Checked by | Proved in |
|---|---|---|---|
| `ReviewDaemon` | reviewer, requests, restart-failed | `MCReviewDaemon`: `review_once`, `review_rerun`, `review_live`, `found_duplicate`, `found_embargo` | `ReviewDaemonProofs` |
| `ToolRuns` | tool runs, quota manager | `tool_runs`, `found_quota` | `ToolRunsProofs` |
| `Assembly` | threads, patchsets, patches | `MCAssembly`: `assembly` | `AssemblyProofs` |
| `Ingest` | ingestor, marks, channels, parsers, batches | `MCIntake`: `intake`, `found_skipped` | `IntakeProofs` |
| `Submissions` | submissions, fetch agent, placeholders | `MCIntake`: `intake` | `IntakeProofs` |
| `RepoMonitor` | repository monitor | `MCIntake`: `intake`, `found_monitor` | `RepositoryProofs` |
| `Checkouts` | baselines, remotes, worktrees | `MCWorkbench`: `workbench` | `RepositoryProofs` |
| `ReviewTool` | the review binary | `MCWorkbench`: `workbench` | `ReviewToolProofs` |
| `ReviewChild` | contract of the review binary with the daemon | refined by `ReviewTool` | `ReviewToolProofs` |
| `ModelCall` | providers, streams, response cache | `MCWorkbench`: `workbench` | `ServingProofs` |
| `EmailOutbox` | verdict, outbox, email worker | `MCWorkbench`: `workbench` | `EmailOutboxProofs` |
| `ReadCache` | read caches of the API, triage | `MCWorkbench`: `workbench` | `ServingProofs` |
| `Dashboard` | aggregation service | `MCWorkbench`: `workbench` | `ServingProofs` |

`MCIntake` and `MCWorkbench` put several modules that share no state side by side: the
initial state chooses a *subject*, and only the actions of that module are taken from then
on. The states of such a run are the sum of those of its modules, not their product, and
its properties are those each module would have alone.

The modules meet at narrow interfaces:

* `Ingest` ends where an article is stored; `Assembly` is what storing it does to threads
  and patchsets, in every order, as the parsers of `Ingest` reorder articles.
  `Submissions` has the placeholder branches of the same worker.
* `Assembly` and `Submissions` end where a patchset becomes Pending, which is where
  `ReviewDaemon` begins (`LastPartArrives`).
* `ReviewDaemon` takes the checkout and the result of a tool run as choices (`Outcomes`).
  `Checkouts` is the first, `ToolRuns` shows which results there are and that one comes,
  `ReviewTool` is the child of a tool run, `ModelCall` the request that a tool run sends
  for it.
* `ReviewDaemon` counts outbox rows; `EmailOutbox` starts from a row.

### ReviewDaemon

`status`, `target`, `reviews`, `outbox` and `embargo` are columns of the database; `loop`,
`batch` and `rel` are the control state and the locals of `Reviewer::start`; `task[k]` is
the review task that holds permit `k`; `rerunning` stands between the two UPDATEs of
`rerun_patchset`. Each action is the code between two database calls that another actor
can notice.

* `Boot` is `reset_reviewing_status`, `Poll` the snapshot of `get_pending_patchsets(10)`,
  `Dispatch` the wait for a permit and the spawn. `Poll` waits until no spawned task has
  yet to run its first statement: the ten seconds between polls.
* `Begin` … `WriteFinal` follow `review_patchset_task` and `process_patch_review`. The
  patches of a task are reviewed one after the other, in the order of the job queue
  (`Turn`). The additional workers a task hires for a series of ten patches or more, when
  permits are free, are not modelled: they work on other patches of the same set, end
  before its final status is written, and share only the flags that say that one failed or
  was paused.
* `ReleaseScan` … `ReleaseEnd` are `release_embargoed_results`.
* `Cancel`, `RerunStatus`, `RerunTarget`, `RestartFailed`, `LastPartArrives`,
  `CloseWindow`, `OpenWindow`, `EmbargoEnds` and `Crash` are the environment. A
  restart-failed is another process, so it may come at any time.
* `Resubmit`, `FetchArrives` and `FetchFails` are the submission of a commit or a thread
  that is known already: what failed becomes a placeholder again, and whatever the status
  is the fetch is asked for. Its failure is `update_patchset_error`, which writes Failed
  over any status, also over In Review (`src/main.rs:635`, `src/db.rs:3889`); a
  restart-failed or a third submission then makes the patchset Pending under the task
  that holds it, and a second task gets it.

The history variable `disturbed` names the patchsets that one of the two such writers, a
rerun or a failed fetch, wrote over when they were taken; what the code promises of one
task, one outcome and one mail it promises of the others. Second submissions are bounded
by 0 in the runs about reruns and about liveness, for their size; the safety properties of
those runs, which exempt nothing, are proved for any number of them.

Merged into one step, as no other actor can tell: the two UPDATEs of
`reset_reviewing_status`, which run before anything else is started; the row that is
created as Skipped and completed at once; the two tests of the schedule around the claim
of a row; the two SELECTs before the INSERT of the outbox, of which the later one decides.
Left out: findings, texts, token counts, model and baseline columns. The counters of
earlier reviews ignore their baseline argument in the code (`_baseline_id`), so the model
has none.

### EmailOutbox

`mail[p]` is the status of the row of patch `p`, `age[p]` the age of its lock, `worker`
the step of `EmailWorker::run`. `smtp` is what this start of the daemon read from its
settings; each start may read something else. The history variables `delivered` and
`logged` are the truth outside the database. A positive review is queued as Pending
whatever the settings are, as in the code; `Policy` "send positive" stands for a policy
that sends them and a quotable commit message.

### ToolRuns

`run[w]` is one call of `run_review_tool`; `block` is what is left of `blocked_until`.
Time is discrete: `Tick` ages what is left of deadlines, sleeps and the block, and does
not pass while a step that only computes is due. The deadline is extended at each wake
instead of when `wait_for_access` returns, which nothing can observe in between. The two
token budgets are one counter each of the same kind, so one is modelled. `MaxTurns` stands
for the review binary's own limit. A request that does not parse gets no answer; to the
run that is a child that stays silent.

### Assembly

`thread` and `sets` are the tables, `worker` the step of `process_parsed_article`.
`FindByCover`, `FindByLooks` and `CreatePatchset` are the three ways through
`create_patchset`, with its conditions in `Named` and `Fits`. What the parser makes of an
article is the constant `Mail`; a subject is a title, a version, a tag and M/N. All mail
lies within the 24 hours of the search window and comes from mailing lists or submitted
mboxes, for which the author must match. Placeholders of git fetches, git imports,
recipients, subsystems, baselines and embargoes are left out.

What writes is a step per statement, and a crash may fall between any two: the merge of
patchsets moves the patches, deletes the row, then counts (`MoveParts`, `DropMerged`,
`UpdateSet`); `create_patch` inserts or moves the patch, counts both patchsets, then makes
the patchset Pending (`InsertPatch`, `CountParts`, `Settle`). The worker is one task, so
only a crash and the reader of `NoEarlyReview` see between them. The history variable
`torn` names the patchsets whose count a crash left behind their patches: until the next
patch of theirs is counted `PartsAreCounted` exempts them, and that is all it exempts.

### Ingest

`mark` and `stored` are in the database, `raw`, `held`, `parsing`, `parsed` and `batch`
are the path from the ingestor through the dispatcher and the parsers to the worker, each
with its capacity. `IngestBoot` is a start, with or without a bootstrap from the git
archives (`SendBlob`, `EpochEnds`); the actions of the ingestor follow
`process_nntp_cycle`: select a group, fetch the next article, send it into the channel,
save the mark. An error of the server is one of `Errors`, which keeps apart whether its
text carries the number of the article: the code recognises the answer 423 by a search of
that text (`Says423`). History variables `lost`, `dropped` and `failed` name what a crash
took from memory, what the parsers refused and what the database refused.

### Submissions

`row` is the status of the placeholder of a submission, `owner` the patchset that holds a
commit's patch, `request` a handler of the API, `agent` the fetch agent with its work by
repository, `events` the bag of what is on its way to the worker: parsers run
concurrently, so the order is any. `stranded` names the submissions one of these gave
up without telling anybody, so that a placeholder may stay in Fetching for ever:

* a crash, as the queue lives in memory;
* a remote that cannot be reached, as only the missing commits are reported;
* a commit of a range that git does not show, as that is only logged;
* a thread of more than a hundred messages, or asked for by another message than its
  first, and a message of it that does not parse (`SplitMbox` keeps any part of it);
* a part that `process_parsed_article` gives up (`LosePart`): its author is one the email
  policy ignores, or the database refuses the thread, the message, the patchset or the
  patch. Refused late, it leaves the patchset Incomplete instead;
* the report of a failure that the database refuses, which is only logged.

`FetchingIsAwaited` and `FetchingEnds` say that whatever these steps did not touch is
worked for and gets out of Fetching: the interleavings of handlers, agent, parsers and
worker lose nothing by themselves. The list is the one the source has, read exit by exit,
and not something the runs could establish. A placeholder that is submitted again is no
longer stranded.

### RepoMonitor

`memory` and `onDisk` are the state of the monitor; `Poll` and what follows are
`poll_once`: the commits between the last one submitted and the upstream, oldest first,
within `max_history_days`, each submitted with retries; the state is saved when the branch
is done. `Parents` is a history with a merge. The client's exit status is a choice.

### Checkouts

`task[s]` is `prepare_baseline_worktree` and what follows for series `s`; `remotes`,
`heads`, `recent` and `lock` belong to `ensure_remote`, `registered` and `dirs` are the
two places where a worktree exists. Which candidates a series has is a constant: the
mapping from paths of a diff to trees is text. What git does is external: which refs it
resolves, when `am` and `apply` succeed, that `am` refuses a dirty index.

A worktree is made in three steps, as in `GitWorktree::new`: a directory, its metadata
under the lock that other tasks may hold, its files; an error after the first takes the
directory with it, a crash does not. It is removed in two, the directory and the metadata.
A series submitted with a repository of its own has its checkout there (`RepoOf`), while
the binaries of a pool make theirs in the daemon's repository, where the base commit may
be unknown. A candidate is a commit, a local ref, a remote or a commit of such a
repository; a forced baseline makes the first of these a short name or a tag, which is the
only kind that is ever fetched from origin. `left` is what a crash or a killed binary left
on the disk. A checkout belongs to a task only at the points of its program that use it
(`Uses`), so one that is not removed after the reviews, or after a failed candidate, is a
violation: that is the mutant.

Where git applied a raw diff and `git commit` failed, which the code ignores, the commit
recorded for the patch is the one before it (`src/reviewer.rs:997`). `SeriesIsOnBaseline`
exempts those patches (`unsaved`) and says that no other commit is affected.

### ReviewTool and ReviewChild

`pc` follows `main` of `src/bin/review.rs` and `Worker::run` of `src/worker/prompts.rs`;
`tree` is which patches of the series the worktree has. A patch may come with a commit the
daemon recorded (`named`), and what that commit holds is a constant (`holds`): the patches
up to it, or fewer where `git commit` failed. The binary resets to it, alone (`Checkout`)
or on the way through the series (`ApplyNext`, `ApplyAgain`). `TreeIsOfTarget` therefore
does not say that the tree is right whatever was recorded: no later patch is in it, and an
earlier one is missing only if a recorded commit lacks it. `at`, `stage`, `turn`, `round`,
`free` are the exchange in progress; `answered` the stages with a valid answer in this
attempt. The answer is a choice of the daemon: anything. `ReviewChild` is what the daemon
relies on, and `ReviewTool` implements it under `child <- Phase`, `required <-
Selected(input)` (`ChildIsOrderly`).

### ModelCall

`call[c]` is a request from `generate_content` of the cache to the provider and back,
`server[c]` what the server said of a stream, `kept` the rows of the response cache, which
outlive the process. A read of the body gets a few pieces, wherever it is cut (`Receive`);
the loop of `push_bytes` then takes one event a step (`Drain`, `Apply`) until none ends in
the buffer. `given` is the truth: the whole answers that were sent for a key. Errors are
classified as each provider does it.

### ReadCache and Dashboard

`ReadCache` abstracts what a cache holds to the number of triage updates it reflects; the
steps of `get_or_fetch` are those between its awaits, with the lock it holds. `Dashboard`
abstracts statistics to whose they are; `past` measures how long ago the table of servers
was the list that is shown.

## 3. Runs

| Run | Question | Bounds | States |
|---|---|---|---|
| `review_once` | one task per patchset, outcomes final and true, one mail, no review taken back | 1 patchset of 2 patches (one of ignored files only), 2 permits, every outcome of the tool, 1 retry; a cancel, a restart-failed, a second submission, a crash, a closing window, an embargo | 4 900 000 |
| `review_rerun` | what is In Review is owned, nothing mailed under embargo | 1 patch, 2 permits, 1 retry; a cancel, a rerun, a crash, a closing window, an embargo | 8 100 000 |
| `review_live` | every patchset settles, every review is mailed | 2 patchsets, 1 permit, batches of 1; a cancel, a rerun, a crash; one embargoed | 500 000 |
| `tool_runs` | timeouts, budget, block, termination | 2 runs, timeout 2, delays below and above the cap, 2 requests each, 2 rate limits | 850 000 |
| `assembly` | series are assembled, apart, not early | 8 articles of 3 series in every order, 2 duplicates, 1 crash | 1 400 000 |
| `intake` | no article, commit or submission is lost or stuck but in a named way | *lists*: 2 groups of 2 and 1 articles, one missing, one with an odd number, one in an archive, all capacities 1, 1 fault, 2 starts; *submissions*: 2 concurrent requests of a commit, a range that contains it and a thread, 2 repositories, 1 crash; *monitor*: a history of 4 commits with a merge, 2 tries, 2 pushes, 1 crash, 1 failed save | 310 000 |
| `workbench` | the right tree, earned verdicts, whole answers, nothing left behind; mails, caches, dashboard | *checkouts*: 3 pairs of series with 5 kinds of candidate, 2 urls under one name, 2 repositories, 1 pool, 1 crash; *reviews*: 9 kinds of call, 2 turns; *requests*: 2 with one key, 7 kinds of provider, 2 parts, reads of up to 3 pieces; *mail*: 2 mails, 2 crashes, 1 failed UPDATE, all settings; *caches*: 2 caches, 2 readers, 2 writers, 2 updates; *dashboard*: 2 servers, 2 watchers | 1 000 000 |

Two tasks, two patches, one retry and one crash are the least that show each hazard: races
here are between two actors over one row, and everything a crash leaves behind is in the
database, which the next start reads as a whole. The theorems below drop the bounds for
most safety properties. In `tool_runs` a unit of time is as long as the shortest delay;
delays 1 and 3 lie below and above `MaxRetryAfter`, and a timeout of 2 lets a run be timed
out before, during and after a block. The series of `assembly` cover the three ways a
sender threads a series: replies to a cover letter, replies to the first patch, each in
reply to the one before. Capacities of 1 in `intake` make every channel full while others
are at work, which is when the order of sending and saving counts. The turn limit of 2 in
`workbench` is hit before, in and after every kind of exchange, and the number of rounds,
tries and attempts is that of the code.

Deadlock is checked where the system never stops: in the three runs of the reviewer.
`assembly` when all mail has come, `tool_runs` when all runs are over, `intake` when the
last start is used up, and `workbench` when a binary has exited, do stop.

### Disagreements found

Each violates, by what the code does, what a comment, a document or a message of the
program states. The first five are runs of the project.

| Run | Statement | What happens |
|---|---|---|
| `found_duplicate` | "Prevent duplicate emails for the same patch" (`src/db.rs:3999`) | a rerun during a review starts a second task; both see no row and both insert one |
| `found_embargo` | "Hours to wait before sending a review." (`docs/configuration.md:172`) | the embargo ends between two patches of a series; the second is mailed at once, and its row keeps the first from ever being released |
| `found_quota` | "Blocking all LLM requests for {:.2}s" (`src/ai/quota.rs:90`) | an answer to a request sent before the rate limit lifts the block |
| `found_skipped` | "423 is "No such article number in this group"" (`src/ingestor.rs:431`) | a temporary error for article 42317 has 423 in its text: the mark passes the article |
| `found_monitor` | "reached max retries ({}), skipping until new commit or manual fix" (`my-src/tools/repo_monitor/src/poller.rs:70`) | two submissions fail and the branch reaches `max_retries`; a commit is pushed; the count is reset only by a sync, which it prevents, and the monitor polls on without ever trying the branch again |

The configurations below show seven more; they are kept beside the project, to be run by
hand.

| Configuration, property | Statement | What happens |
|---|---|---|
| `found_cancel` of `MCReviewDaemon`, `CancelIsKept` | "was cancelled during review, preserving status" (`src/reviewer.rs:755`) | a patchset is cancelled while it waits for a permit; the task writes In Review over it and reviews it |
| `found_restart` of `MCReviewDaemon`, `OwedIsAttempted` | "Restart failed reviews" (`src/main.rs:69`) | a review that failed before it reached the model counts as a hard failure for ever: the patchset is polled, skipped and Failed again |
| `found_mixed` of `MCAssembly`, `SeriesAreApart` with a lone patch | "we require the subject to be somewhat similar to avoid merging unrelated patches" (`src/db.rs:2041`) | a lone patch pairs with the cover letter of a series whose first patch is missing; the patchset becomes Pending with one part |
| `found_refailed` of `MCIntake`, `ReviewedIsNotReset` | the guard of `create_fetching_patchset` that leaves a reviewed patchset alone | the same commit is submitted again and cannot be fetched: the failure makes the reviewed patchset Failed to Apply |
| `found_retried` of `MCWorkbench`, `LimitIsFinal` | "Typed errors that must not be silently retried" (`src/worker/prompts.rs:23`) | the turn limit fails a stage; the attempt ends, and the whole review is attempted again |
| `found_stale` of `MCWorkbench`, `StaleIsPruned` | the prune at the start (`src/main.rs:556`) | it runs before the reviewer deletes the directories a crash left: git still knows them afterwards |
| `found_unfetched` of `MCWorkbench`, `NamedBaseIsFetched` | the fetch of a missing base commit from origin (`src/reviewer.rs:849`) | `rev-parse` accepts every full object name, so for a base commit given by its full name the test that would lead to the fetch never fails, and the candidate fails at the checkout instead; only a forced baseline that is a tag or a branch gets as far as the fetch |

Met while modelling and not a configuration: in one thread versions need not match
(`versions_compatible || same_thread`), so when the cover letter of v1 is lost, v2 sent in
reply takes over the patches of v1; an embargoed patchset that ends Failed never releases
the reviews of its other patches; `ensure_remote` keeps the first url of a name, so a
second tree of the same name is looked for in the first (`src/git_ops.rs:463`); the key of
the response cache has no model in it (`src/ai/cache.rs:100`); the wait for the headers of
a stream has no limit of its own (`src/ai/openai.rs:379`), and a stream that ends without
its last event is taken for whole (`src/ai/openai.rs:498`; in `ModelCall` a server that
ends a stream in order has said everything); when the list of servers cannot be read an
empty dashboard is cached (`my-src/src/my-server/lib.rs:138`); and
`designs/ai_error_handling.md` would exempt the time of transient retries from the
timeout, which the code does not. If it did, a provider that always fails would keep a run
alive for ever: that is the mutant `Recharged_Exempt`.

## 4. Fairness

* `ReviewDaemon`: weak fairness of the loop and of each task, because the runtime polls
  every spawned future; of `RerunTarget`, because a request that was accepted runs on; of
  `EmbargoEnds` and `OpenWindow`, because the clock moves and the window opens every day.
  (With equal start and end hours it never opens; that configuration is excluded.) A
  task's step includes the end of a tool run, which `EveryRunEnds` of `ToolRuns`
  justifies. Nothing is assumed of cancels, reruns, crashes.
* `EmailOutbox`: weak fairness of the start (a supervisor restarts the daemon), of the
  worker (SMTP exchanges have timeouts) and of time.
* `ToolRuns`: weak fairness of what is due, of time, and of the provider (the clients set
  an HTTP or process timeout). The child need never write a line. The one assumption the
  code does not enforce is that a child whose pipes are closed exits: `child.wait()` after
  a result has no timeout (a hazard of the list).
* `Ingest`: weak fairness of the start, of the ingestor, of the dispatcher, of each parser
  and of the worker, all tasks of one runtime. A server may fail `MaxFaults` times and
  articles may come at any time.
* `Submissions`: weak fairness of each handler, of the agent and of the delivery of each
  submission's events. Users need not submit anything. The crash bound is not a fairness
  assumption: after it the agent goes on.
* `RepoMonitor`: weak fairness of polls and of the monitor's own steps; the client may
  fail for ever. `found_monitor` runs the monitor alone under this fairness
  (`MonitorFairSpec`), so that its counterexample is a monitor that polls.
* `ReviewTool`: weak fairness of its steps, the answer included: the daemon answers a
  request or kills the child (`ToolRuns`).
* `Assembly`, `Checkouts`, `ModelCall`, `ReadCache` and `Dashboard` have no liveness
  property: mail, users and servers need not come, and a read that hangs is ended by its
  client.

## 5. Proofs

TLAPS proves these for all values of the constants, which the runs fix.

| Theorem | Property |
|---|---|
| `ReviewDaemonProofs!TypeCorrect` | `TypeOK` |
| `InReviewCorrect` | `InReviewIsOwned` |
| `EmbargoCorrect` | `NoMailUnderEmbargo` |
| `RunningRowCorrect` | `RunningRowIsOwned` |
| `OneTaskCorrect`, `OutcomeCorrect`, `OneMailCorrect` | `OneTaskPerPatchset`, `OutcomeIsQuiet`, `OneMailPerReview`: all of patchsets that are not `disturbed` |
| `ReviewKept`, `ReviewedCorrect` | `ReviewIsKept`, `ReviewedIsReviewed`: of the same |
| `EmailOutboxProofs!OutboxTypeCorrect` | the types |
| `RedeliveryCorrect`, `SentCorrect`, `VerdictCorrect` | `RedeliveryIsPaidFor`, `SentIsAccepted`, `VerdictIsFinal` |
| `ToolRunsProofs!ToolTypeCorrect` | the types |
| `TimeoutCorrect`, `BudgetCorrect`, `BlockCorrect` | `TimeoutIsActive`, `OverspendsOnce`, `BlockIsNotShortened` |
| `ReviewToolProofs!ReviewTypeCorrect` | the types |
| `CleanCorrect`, `TreeCorrect` | `CleanIsEarned`, `TreeIsOfTarget` |
| `ToolImplementsChild` | `ChildIsOrderly`: `ReviewTool` implements `ReviewChild` |
| `AssemblyProofs!AssemblyTypeCorrect`, `PartsCorrect` | the types, `PartsAreCounted` |
| `ApartCorrect` | `SeriesAreApart`, when series are sent apart (`SentApart`) |
| `AssembledCorrect`, `EarlyCorrect`, `FrozenCorrect` | `SeriesIsAssembled`, `NoEarlyReview`, `ReviewedIsFrozen`, when series are sent with a cover letter (`SentWithLetter`) |
| `IntakeProofs!SkippedCorrect`, `MarkCorrect` | `NothingIsSkipped`; the mark never passes the newest article |
| `IntakeProofs!SubmitTypeCorrect` | the types |
| `AwaitedCorrect`, `ReadyCorrect` | `FetchingIsAwaited`, `ReadyIsComplete` |
| `ServingProofs!CacheTypeCorrect`, `NoStaleReadCorrect` | the types, `NoStaleRead` |
| `DashboardTypeCorrect`, `DashboardCorrect` | the types, `DashboardIsRecent` |
| `ModelTypeCorrect`, `WholeAnswerCorrect` | the types, `AnswerIsWhole` |
| `RepositoryProofs!CheckoutTypeCorrect` | the types |
| `CheckoutsAreOwned`, `SeriesCorrect` | `NothingIsLeftBehind`, `SeriesIsOnBaseline` |
| `MonitorTypeCorrect`, `NoCommitCorrect` | the types, `NoCommitIsSkipped` |

Assumed are the named assumptions on the constants of each module, which TLC evaluates in
the runs, and of the mail of `Assembly` what the table says. The theorems about patchsets
that are not disturbed hold with any number of reruns and failed fetches of others;
`found_duplicate` shows that `OneMailPerPatch`, without the exemption, does not.
`SentApart` means that a series has its own threads, that its Message-IDs begin like those
of no other, and that no patch comes by itself: `found_mixed` shows that the last is
needed. `SentWithLetter` adds what `git send-email` does with a cover letter: all patches
are replies to it, numbered, of one version. `MCAssembly` has TLC evaluate the first on
the mail of the run, and the second on two series of that kind. For series without a cover
letter the three properties are model-checked only, on the mail of the run.

*Reviewer.* `InReviewIsOwned` is inductive with the types: the task that wrote In Review
stays busy until it writes another status. `NoMailUnderEmbargo` is not: it needs that a
task about to insert, and the patches the release loop has in hand, are under no active
embargo (`MailInv`), which stays true as an embargo never becomes active again. Unless a
rerun or a failed fetch wrote over it a patchset is held at most once, by the snapshot or
by a task (`OnceInv`); it is Pending or Cancelled until the task begins and In Review or
Cancelled until it ends, so the poller never reads a held one. Then at most one actor is
about to mail a patch, and found no row for it (`MailOnceInv`). `RunningRowIsOwned` is
inductive with the types, reruns included. That a review is kept is not: it needs that the
row a task claimed is as the task left it, Pending until it is taken and In Review until
its end (`RowInv`), which only another task on the same patchset could break. For
`ReviewedIsReviewed` every patch of a task none of whose patches failed is still to do, in
hand, or has a finished row (`DoneInv`), and what is to do is empty when the final status
is written; a goal is never zero, so that a patch with reviews enough has one.

*Outbox.* A mail that may be delivered again, because its row is Pending or claimed and
not tried, was delivered at most `crashes + dbErrors` times (`PaidInv`): only a failed
acknowledgement leads back there from a delivery. A row in the worker's hand is locked
(`HandInv`), and a mail it is about to mark as sent was accepted (`TriedInv`).

*Tool runs.* The deadline of a run is at least as far away as its timeout leaves active
time, once the time it has slept on the block so far is given back (`DeadlineOK`, with
`SleepOK` bounding that time): a deadline that passed therefore means a full timeout of
active time. A run that goes on is within its budget (`BudgetOK`), so one answer at most
takes it over.

*Review binary.* `TreeInv` says at every point of the program how far the worktree is; in
the middle of a series it is the part applied so far, and when the model is asked it is
the target's, in each case but for what the recorded commits lack. `StageInv` says that
the stages that were chosen and are behind were answered, in order, and that from stage 8
on there is a concern. A result is printed only from there, so it is earned. For the
refinement, each step either keeps the phase or is one of the steps of `ReviewChild`:
asking, answering, starting over, concluding.

*Assembly.* While an article is handled a patchset is counted unless its patches were
changed by a statement whose recount is still to come (`Uncounted`), or a crash left it so
(`torn`); with that excuse `PartsAreCounted` is inductive (`SetsInv`), and it is gone when
the worker is idle. All messages of a thread, the thread, cover letter and patches of a
patchset, and the article in hand are of one series (`HomeInv`): what is found for an
article shares its cover letter, its thread or its Message-ID's beginning. With a cover
letter a series has at most one patchset, which every article of it names, so the search
by looks finds nothing; the patchset only grows (`Grows`), it is Pending just when it is
the series, and a patch that was handled is in one (`LetterInv`).

*Ingest.* While a group is read the ingestor knows its mark and is below the newest
article (`MarkInv`); the article whose mark is about to be saved is already stored, on its
way or lost (`SavedInv`). So the mark only ever moves over an article that is accounted
for, and lemmas on sequences show that the pipe drops none between channel, parser and
batch.

*Submissions.* Each step that takes work from one hand puts it into another, reports it,
changes the status, or strands it, so `FetchingIsAwaited` is inductive with the types; the
steps that strand are those of the list in section 2. The agent holds only ids of git
submissions and, while it shows a patch, a part that exists (`AgentInv`); a patchset holds
its own commits only (`OwnerInv`), so a range and a commit of it may take a patch from
each other without either becoming Pending short of one.

*Read caches.* Who fetches holds the lock of its cache (`LockInv`); while an update walks
through the caches, those behind it hold nothing older and no reader is about to store
anything older (`UpdateInv`), which is so for all of them once it is answered
(`AnswerInv`): the invalidation takes the same lock and waits for the reader.

*Checkouts.* Nothing in the database says which directories belong to whom; it is the
position of a task that does (`Shape`, `Placed`): which positions use its checkout, that
its pool has one directory and only while the patches are reviewed, and that the numbers
in the names keep the directories of tasks, pools and earlier starts apart. That makes
`NothingIsLeftBehind` inductive: every way out of a position that uses the checkout
removes it, or leaves it in `left`, which only a crash and a kill do. For
`SeriesIsOnBaseline` the tree and the commits so recorded are kept equal to the patches
applied so far, except those git refused to commit (`Applied`). A step of one task leaves
what the others rely on alone (`OneMoves`).

*Repository monitor.* `Ancestors(c)` is the least set with `c` that is closed under
`Parents`, so that no induction is needed. A turn submits what is missing of its target
from the oldest commit on, so what is left is closed upward (`TurnInv`): a commit that was
accepted has nothing left among its ancestors, and may be recorded.

*Dashboard.* What a request has in hand is no older than the time it waited, and an
aggregate that is still served ages together with its list (`AgesInv`).

*Requests.* While a stream is read, what the server said is what the parser has and what
the buffer still says, up to a first `[DONE]` or error, and a buffer that waits for more
has no event that ends (`StreamInv`). Taking the first event keeps that: the parts of a
text are the first event, if it is one, and the parts of the rest (`PartsAreLeft`, a
bijection of positions). A row of the cache was an answer given for its key.

Only model-checked: the properties of `Assembly` for other mail than the theorems assume,
and all liveness, which is out of the prover's reach, as is `ENABLED`.

## 6. Not modelled

* *Provider proxy*: a second copy of the loop of `run_review_tool` that nothing calls.
* *clear_patchsets*: `ReviewDaemon` has no deleted patchsets; its hazard is listed.
* *Settings, metrics, logging, inspector, patchwork, command line client, web interface,
  deployment*: they keep no state between calls that another part reads.
* *Texts*: prompts, mails, reports and what the parser makes of an article; the tools of
  the model, which read the worktree; the choice of subsystems, recipients, embargo hours
  and candidates for a baseline, whose results are constants or choices of the models.
* *In part*: the additional workers of long series and baselines in `ReviewDaemon`; a
  second version of a series in `Assembly`; the embargo a worker sets after
  `create_patchset`.

## 7. What could follow

1. A second version of a series in `Assembly`, and the embargo set after
   `create_patchset`: the two hazards of the database worker no property covers.
2. Deleted patchsets in `ReviewDaemon`, for `clear_patchsets`.
3. Pure algorithms against a reference: `parse_subject_index` and `clean_subject`,
   `resolve_recipients`, `calculate_embargo_hours`, `should_process_reviews_now`.
4. Proofs: `Assembly` for series without a cover letter; `ReviewDaemon` implements an
   abstract life of a patchset.
