# Formal models of solvcon-bot

solvcon-bot is one process that polls one GitHub repository, runs a code
reviewer on pull requests that a collaborator approves (the *auto path*) or that
a collaborator's comment mentions the bot on (the *ping path*), and posts the
review as a comment. This directory holds TLA+ models of it, the TLC
configurations that check them, and proofs checked by TLAPS. Source paths are
those of the repository; line numbers refer to the files under `src/src/`.

## 1. Inventory

| Component | State it keeps | Operations | What is hard |
|---|---|---|---|
| main loop, `main.cpp` | `g_stop` | load, first-run cursor, preflight, tick, sleep, save on the way out | a signal at any point of a tick; a fatal status from any depth |
| watcher, `watcher.cpp` | none of its own between ticks; the lists of one tick | `tick`, `run_auto_path`, `run_ping_path`, `dispatch_review`, `collect_context_files` | a dozen calls that each fail in three ways; the process may die between any two; people act meanwhile |
| state store, `state_store.cpp` | `reviewed_prs`, `handled_comments`, cursor; the state file, its `.tmp`, its `.lock` | constructor (flock), `load`, `mark_*`, `advance_cursor`, `save` | a crash, a failed system call or a power loss between two system calls; a second process |
| REST client, `github_client.cpp` | the ETag cache, the cache of collaborators | `request`, `stream_diff`, `get_file_at_ref`, `walk_pages`, `walk_pages_conditional`, `is_collaborator`, `post_comment` | retries, rate limits that look like refusals, lists that change between two pages, cached answers |
| subprocess, `subprocess.cpp` | pipes, buffers, a process group | `run_subprocess` | three pipes at once, a child that forks, closes, ignores SIGTERM, floods; EINTR everywhere; the deadline |
| review input, `reviewer.cpp`, `watcher.cpp:398-527` | none | split a diff, trim it, list its paths, fetch context, fence it all | hunk lines that look like headers, unsigned arithmetic, caps, texts that end in the middle of a line |
| reviewers, `reviewer.cpp`, `reviewer_agent.cpp` | none | run the mock or codexmon, pick its result file or its preview | a failing or killed program, half a status, a missing or long file, two different caps |
| mention matching, `mention.cpp` | none | find `@handle` at word boundaries | overlapping near misses; the text is searched in its JSON form |
| types, `github_types.cpp` | none | decode JSON, undo and apply escapes | adjacent and malformed escapes, halves of surrogate pairs |
| configuration and start-up, `config.cpp`, `main.cpp`, `tools/run_reviewer.cpp` | the environment, once | parse and cross-check, open, preflight | numeric edges, limits that are derived from others |
| logging, `log.cpp` | none | format a line | nothing the rest depends on |

**How they interact.** `main` owns a `Watcher`, a `GithubClient` and a
`StateStore`, and calls `tick()` in a loop on one thread. The watcher calls the
client and the reviewer and waits for each; it marks the store in memory and
calls `save()` after every decision, whose failure is logged and not fatal.
Errors travel as exceptions: a fatal status (401, 422, or 403 that is no rate
limit) is rethrown to `main`, which saves and exits 1; any other ends the work
on one trigger. The reviewer runs through `run_subprocess`. A signal handler
sets `g_stop`. The only other actors are GitHub, the people on it, the operator
and the kernel.

**What makes each correct.** The watcher: one post per trigger, only for
collaborators, no trigger lost, everything answered in the end, a signal ends
it once no reviewer runs. The store: the file is whole and never older than the
last completed save. The client: what it throws is fatal exactly when it should be, a write is sent
once, a list is complete, a cache does not hide anything for long. Subprocess:
nothing lost, nobody left behind, the deadline holds. The reviewers: a review is
posted if and only if one was written, and says when it is cut. Review input:
what is shown, named as omitted or fetched are the files of the pull request, and
the reviewer can tell where each begins and ends. The rest: a mention is seen and
nothing else is taken for one, text survives JSON, a setting is what was written.

`PROJECT.json` lists every hazard at its line with the properties that cover it,
or the reason why none does.

## 2. Modules

| Module | Models | Lines of code it stands for |
|---|---|---|
| `GitHub` | the repository on GitHub as the bot relies on it (external) | - |
| `Watcher` | the process: `main()` and the whole of `tick()` | `main.cpp:44-157`, `watcher.cpp:25-527` |
| `WatcherProperties` | what the bot promises | - |
| `ReviewService` | what the bot is for: requests, answers, notes | - |
| `WatcherProofs`, `WatcherServiceProofs` | proofs about `Watcher`: types, posts, who asked; and the cursor, the file, the refinement | - |
| `StateStore` | `state_store.cpp` by system calls | `state_store.cpp:29-258` |
| `DurableState` | what the rest takes the store for: an atomic durable file | `state_store.hpp` |
| `StateStoreProofs` | proofs about `StateStore` | - |
| `Requests` | one REST call with its attempts; streamed bodies | `github_client.cpp:284-428, 688-755, 809-875` |
| `CachedListing` | `walk_pages_conditional()` over two kinds of list | `github_client.cpp:205-224, 456-606` |
| `CommentStream` | `walk_pages()` over the comments, and the cursor | `github_client.cpp:430-454, 608-618`, `watcher.cpp:246-396` |
| `CollabCache` | `is_collaborator()` and its cache | `github_client.cpp:226-239, 758-788` |
| `Subprocess` | `run_subprocess()` and any child | `subprocess.cpp:86-519` |
| `Reviewer` | the mock and the agent reviewer on top of `Subprocess` | `reviewer.cpp:49-114`, `reviewer_agent.cpp:59-91, 190-265, 324-341` |
| `ReviewInput` | diff splitting, trimming, context | `reviewer.cpp:325-464`, `watcher.cpp:417-527` |
| `Payload` | the text for the reviewer and its fences | `reviewer.cpp:162-311` |
| `Order` | places in a text, the first one first | `reviewer.cpp:383-395` |
| `Mention` | `mention_matches()`, `eq_login()` | `mention.cpp:12-82` |
| `JsonText` | undoing and applying JSON escapes | `github_types.cpp:54-186`, `github_client.cpp:108-140` |
| `CommentText` | a comment on its way to `mention_matches()` | `watcher.cpp:283-297`, `github_types.hpp:70-102` |
| `Startup` | settings and start of the bot and of `run-reviewer` | `config.cpp:40-94, 143-412`, `main.cpp:65-108`, `run_reviewer.cpp:73-203` |
| `RequestsProofs`, `ReviewerProofs` | proofs about `Requests`; about `Subprocess` and `Reviewer` | - |
| `CachedListingProofs`, `CommentStreamProofs` | proofs about the listings | - |
| `DecisionsProofs` | proofs about `Startup`, `Mention`, `CommentText`, `JsonText`, `CollabCache`, `ReviewInput` and `Payload` | - |
| `MC...` | the instances for TLC | - |

**Watcher and GitHub.** `pc` has one value per call that leaves the process
(list pull requests, list reviews, ask about a collaborator, scan for the
marker, fetch the diff, ..., post) and what the code does between two calls is
one step, so people, signals, crashes and restarts interleave exactly where they
can. For each location there is the action of the call that succeeds
(`ListOpenPrs`, `CheckMentioner`, `Scan`, `PostComment`, ...), `CallFails` with
what the catch blocks at that place do, `CallFatal` for what is rethrown, and
for the POST also `PostUnanswered` (applied, but the answer is lost) and
`PostLate` (applied after the client gave up). `mem` is the store's memory and
`disk` its file; `Save` is one step that may fail, which `StateStore` justifies.
A comment's body is the one thing the code asks of it: does it mention the bot
(`mention`), and which marker does it carry (`key`). A login in `AppUsers` stands
for `name[bot]`, which `is_collaborator()` refuses to send
(`github_client.cpp:760-764`). `Faults` is the set of things that may go wrong in
an instance.

**StateStore and DurableState.** A file is an inode plus a name. `platter` is the
set of inodes the state file may name after a power loss: everything it named
since the directory was last synced. A power loss keeps any prefix of an inode
that was not synced. `ImplementsDurableState` is the refinement: `Rename` is the
atomic replacement, `SyncDir` the moment it becomes durable, everything else of
`save()` stutters.

**Requests** starts where the watcher's calls end: `Return` produces the error
whose status and `transient` flag decide between `CallFails` and `CallFatal`.
**CommentStream** refines the one atomic `ListComments` of `Watcher` to pages.
**ReviewInput** chooses its two caps in the initial state (`ContextCaps`), 0 among them:
with either at 0 `Fetching` is never enabled. **CollabCache** stands for the fixed set `Collaborators` of `Watcher`.
**ReviewInput** is what `StreamDiff` to `CollectContext` stand for, **Payload** and
**Reviewer** what `RunReviewer` stands for. `Reviewer` EXTENDS `Subprocess`: its
steps begin where `run_subprocess()` returns, and decide by the deadline, the exit
code and the two captured streams whether there is a review. Where system calls may
fail (`errors` among a child's habits), `broken` holds those of the parent that failed
for good: `PollFails` kills the group and throws, `WaitpidFails` kills it and waits once
more, `WriteFails` and `ReadFails` end a stream; `SetupFails` is what the reviewers make
of the throw. Sizes are bytes;
what is in them is not looked at. The capture has the cap of the reviewer at hand
(`cap`), so both caps of the agent reviewer are in one behaviour.

**ReviewService** is the promise: `asked` only grows, an answer is given to a
request that was made and has none, a note only follows an answer, notes may be
forgotten. `ImplementsReviewService` maps `asked` to the approvals and mentions by
collaborators, `answers` to the bot's posts, `noted` to `reviewed_prs` in memory
and file. Each comment has a history field for this: `asked`, whether it
mentions the bot or did before an edit. `unsure` is the history of POSTs the client gave up
while they travelled.

**Mention**, **JsonText**, **CommentText**, **Payload** and **Startup** translate
pure code, with one step per turn of its loops or per stage, and state what it must
compute as an independent definition: the regular expression of `plan.md:350`,
what the sender meant, the fences as a reader finds them, a number as it is
written. `MCDecisions` runs them, `CollabCache` and `ReviewInput` side by side:
`part` says which one moves, and no step of one touches another.

**Mutants.** Next to some definitions stands a variant with a bug that would be
plausible at that place ("mutant of ..."). No specification uses it; replacing
the definition by it makes TLC report the property named in `PROJECT.json`.

## 3. Runs

| Run | Checks | Instance | Shows |
|---|---|---|---|
| `WatcherSafety` | `TypeOK` `AtMostOnePost` `NoMentionLost` `PostsAnswerCollaborators` `DurableGrows` `ImplementsReviewService` | 1 pull request, 2 people, 2 comments, 1 review, 2 seconds; failing calls, lost answers, failing saves, crashes, edits, closing (2.4 million states) | each trigger is answered at most once and for a collaborator, the cursor passes no unanswered mention, the bot is a `ReviewService` |
| `WatcherFaults` | `ReviewedMeansPosted` `SecondPostWasUnsure` `StopEnds` | 1 pull request, 1 issue, a collaborator and an app, every fault but closing at once, a first run with a cursor in the past (0.4 million) | `reviewed_prs` is honest; only a POST of unknown fate is ever repeated; a signal ends the process, unless a run of the reviewer does not end |
| `WatcherProgress` | `MentionsAnswered` `ApprovalsAnswered` | 2 people, who comment twice, review twice or do each once, in one second or two; failing calls and lost answers (14 thousand) | every request is answered in the end, also behind one of a stranger |
| `AppMentionBlocks` | `MentionsAnswered`, violated | a collaborator and an app comment | see section 6 |
| `StateStore` | `SavedSurvives` `ImplementsDurableState` | 2 processes, 2 marks, 3 inodes, 2 writes, power losses | the file is never torn, lost or too old |
| `Requests` | `FatalIffRefused` `WritesOnce` `StreamIsOneAttempt` `WaitsAsAsked` `CallsReturn` | all statuses, 6 attempts, the real bounds on waits, bodies below, at and above a cap | errors are classified, streams restarted, waits bounded |
| `CachedListing` | `StaleOnlyWhenFull` `WalkIsComplete` `EventuallyListed` | both kinds of list, 5 items, 3 pages, 2 changes | the cache and the walk agree with the list |
| `FullPageHidesReviews` | `CachedIsCurrent`, violated | reviews, 3 items | see section 6 |
| `CommentStream` | `NothingSkipped` `EventuallyDecided` | 4 comments, pages of 2, 1 edit | no page is lost, the order keeps the cursor safe |
| `Reviewer` | `NobodyLeftBehind` `InputDelivered` `OutputCaptured` `CutIsNoted` `ReviewIsEarned` `GoodReviewIsKept` `DeadlineEnds` `FilterEnds` | a filter, a child with signals and failing system calls, and one with all other habits under the mock; codexmon with a stubborn agent and failing calls (1.3 million) | no loss, nobody left alive, no deadlock; a review is posted whenever one was written, and never otherwise |
| `Decisions` | `AnswersAreRecent` `SectionsAreFiles` `TrimIsGreedy` `ContextIsShown` `SectionsAreFenced` `ScanIsRegex` `NoFalseMention` `TextSurvives` `SettingsAreExact` | the cache: 2 people, 5 ticks, 2 changes; every diff of up to 2 files of 5 kinds, budgets 0 to 12, either cap on the context 0 or none; texts for the reviewer with up to 2 context files and 1 omitted one; comments of 4 characters, 4 handles; 3 pieces of JSON; numbers of 4 characters in a small base (1.2 million) | the parts without a protocol compute what they are for |
| `MentionOnLaterLine` | `MentionIsSeen`, violated | comments of 4 characters | see section 6 |

**Why these bounds.** A duplicate or lost trigger needs one trigger, one other
comment around it in the order of the stream, and a restart between two calls:
two comments, a clock that stands still or moves on, and unlimited crashes give
all of them, and the bot's own posts come on top as further comments of the
stream. That a request is answered in the end needs another one of a stranger in front
of it: in `WatcherProgress` people act twice (`MaxActs` bounds comments and reviews
together), so a mention has an undecided comment before it, in its second or in the one
before, and an approval a review. Pages of two items give a first, a middle and a last page and
an exactly full one. Two processes, two marks and one inode more than the two
names give every collision in `save()`. The filter of `Reviewer` has one byte
more than its pipes and itself can hold; the caps are below, at and above what is
written, and the file is below, at and above `MAX_OUTPUT_BYTES`. The widths of
`Startup` are scaled down, with a number of digits that goes over each of them. Comments
have room for an `@` among the characters that the one before it was compared with. The numbers of `Requests` are those of the code, with one `Retry-After`
value for each of the cases of `sleep_backoff()`. The proofs of section 5 do not
depend on any of the bounds.

## 4. Fairness

- `Scheduled`: the process runs, except that nothing is assumed of a run of the
  reviewer (`WF_vars(pc # "review" /\ BotStep)`): the loop of `run_subprocess()` and
  its `waitpid()` may go on for ever (section 6). That is all `StopEnds` needs,
  which therefore says: after a signal the process goes down, or stays in one run of
  the reviewer. A tick is finite, because its lists are fixed when it starts.
- `FairSpec` of `Watcher`: the process is also restarted, by its operator or
  supervisor (`WF_vars(Start)`), and a call that is made again and again does not
  always fail (`SF_vars` of each call that succeeds; for `RunReviewer` and `Start` this
  assumes that the reviewer's runs and its preflight end, as all but the children of
  `"quiet"`, `"flood"` and a failed `read()` do by `DeadlineEnds`). `GetPrInfo` needs none:
  the review goes on without it. Strong fairness is what the
  retries are for: a call is disabled between two ticks. Nothing is assumed of
  people, and calls may fail any finite number of times in between. A call that
  is refused before it is sent is disabled for that login, so fairness does not
  hide the refusal: that is what `AppMentionBlocks` shows.
- `Requests`: every attempt ends, because the client sets connect and read
  timeouts; a time-out is status 0.
- `CachedListing`, `CommentStream`: the bot polls, and no page fails for ever.
- `Reviewer`: the parent runs and its caller goes on, the clock passes the
  deadline; no system call has to fail. The child is under no fairness at all, except the filter, which copies
  when it can.
- `Decisions`: none; its parts may stop anywhere, and it checks safety only.

Crashes and signals are not among the faults of `WatcherProgress`: a process that
is killed again and again before it can do anything answers nobody.

## 5. What is proved

TLAPS checks these for all values of the constants, from the named assumptions
on them and nothing else: every safety invariant, action property and
refinement that a run checks is here. The last column is what a theorem asks for
beyond the range of the numbers.

| Theorem | States | Assumes |
|---|---|---|
| `TypeCorrect` | `Spec => []TypeOK` of `Watcher` | - |
| `AtMostOnce` | `Spec => []AtMostOnePost` | no POST lands late |
| `ReviewedIsPosted` | `Spec => []ReviewedMeansPosted` | - |
| `MentionsAreKept` | `Spec => []NoMentionLost` | no edit shares its second with another comment |
| `FileOnlyGrows` | `Spec => DurableGrows` | nobody removes the state file |
| `OnceUnlessUnsure` | `Spec => []SecondPostWasUnsure` | - |
| `CollaboratorsAsked` | `Spec => []PostsAnswerCollaborators` | - |
| `ServiceTheorem` | `Spec => ImplementsReviewService` | no POST lands late |
| `StoreTypes` | `Spec => []TypeOK` of `StateStore` | - |
| `SavesSurvive` | `Spec => []SavedSurvives` | - |
| `StoreImplements` | `Spec => ImplementsDurableState` | - |
| `FatalTheorem`, `WritesOnceTheorem`, `StreamTheorem`, `WaitsTheorem` | `Spec => []P` of `Requests` for `FatalIffRefused`, `WritesOnce`, `StreamIsOneAttempt`, `WaitsAsAsked` | - |
| `NobodyTheorem`, `InputTheorem`, `CapturedTheorem` | `ReviewerSpec => []P` for `NobodyLeftBehind`, `InputDelivered`, `OutputCaptured` | - |
| `CutTheorem`, `EarnedTheorem`, `KeptTheorem` | `ReviewerSpec => []P` for `CutIsNoted`, `ReviewIsEarned`, `GoodReviewIsKept` | `MAX_OUTPUT_BYTES` is not 0 |
| `ScanTheorem` | `MentionSpec => []ScanIsRegex` | - |
| `NoFalseMentionTheorem` | `CommentSpec => []NoFalseMention` | what is escaped and what is in a name |
| `TextSurvivesTheorem` | `JsonSpec => []TextSurvives` | - |
| `RecentTheorem` | `CacheSpec => []AnswersAreRecent` | - |
| `SettingsTheorem` | `StartSpec => []SettingsAreExact` | the defaults are in their ranges, the grace period fits an `int` |
| `StaleTheorem`, `WalkTheorem` | `Spec => []P` of `CachedListing` for `StaleOnlyWhenFull`, `WalkIsComplete` | - |
| `SkipTheorem` | `Spec => []NothingSkipped` of `CommentStream` | - |
| `SectionsTheorem`, `TrimTheorem`, `ContextTheorem` | `InputSpec => []P` for `SectionsAreFiles`, `TrimIsGreedy`, `ContextIsShown` | no size reaches 2^64 |
| `FencedTheorem` | `PayloadSpec => []SectionsAreFenced` | no text holds a fence of this run |

- *Types.* `TypeInv` adds to `TypeOK` that the clock is ahead of the first run's
  cursor (or the cursor could be negative) and that the key at hand names a real
  issue.
- *At most one post.* `AtMostOnePost` is not inductive: it holds just before a
  second POST as well. `OnceInv` adds that while a review is being dispatched
  nothing with its key is posted, or its key is in `unsure`. The scan establishes
  it, and one process alone can break it, which the lock of `StateStore` ensures.
  `OnceUnlessUnsure` needs no assumption; where no POST lands late, `unsure`
  stays empty, and `AtMostOnce` follows.
- *Reviewed means posted.* `ReviewedInv` adds that at `commit` the post is there.
- *No mention lost.* `CursorInv` has five parts: ids are unique and no time stamp
  is ahead of the clock; every comment behind the cursor is in the batch or
  sorts after all of it; a cursor stands where a comment is or was, and what is
  handled is resolved; the key at hand is that of the next comment in the batch;
  and every wanted comment is answered or ahead of both cursors. The second part
  carries the proof: deciding the next comment moves the cursor over nothing else.
- *The file only grows.* Memory is ahead of the file whenever the process runs.
- *Asked by collaborators.* `AskedInv`: who is found to be entitled stays so while
  the review is made, because reviews are only added, the comments of a batch are
  still there under their ids, and an edit keeps `asked`.
- *The service.* Each step of `Watcher` is an `Ask`, `Answer`, `Note`, `Forget` or a
  stutter: a POST that is applied is an `Answer` (`AskedInv` has the request,
  `OnceInv` that it has none yet), marking or saving `reviewed_prs` is a `Note`
  (`ReviewedInv`) and losing memory or file a `Forget`.
- *The store.* `IInv`: a running process holds the lock; whatever the state file
  may be after a power loss is whole, synced and not the temporary file; how far
  `save()` has got; and the last completed save is in all of these and in the
  memory of whoever may replace them. The refinement takes one step per action,
  most of them stuttering.

- *Requests.* `Inv` adds to the properties that a POST never sleeps and has
  had one attempt (`PostInv`), and that what was received belongs to the attempt
  under way (`BodyInv`).
- *Subprocess and reviewers.* `NobodyLeftBehind` is what is true on every way out: the child
  is dead, and reaped unless `poll()` or `waitpid()` itself failed. `OrderInv` relates
  the place in `run_subprocess()` to who is alive and to what failed (behind SIGKILL
  nobody of the group lives, whichever of the three kills it was), `EndInv` says that an
  end that was seen is one or its `read()` failed, and `CaptureInv`
  that some number of bytes was read of which the buffer holds those below the
  cap. `ReviewInv` carries this through the verdict: how much of the file was read,
  and that it was cut only if there was more. `GoodReviewIsKept` could not be
  proved as it was first stated: with a cap of 0 a good review would be empty and
  become an error. `config.cpp:353` excludes it, hence the assumption.
- *Mention.* Every `@` in front of `from` was no mention (`ScanInv`). The
  characters, the handle and the comment are any.
- *The cache.* `CacheInv`: an entry was true at some moment since its request was
  sent, and expires early enough.

- *Escapes in comments.* `HeardInv` is `ScanInv` for a comment in its escaped form.
  An escape begins with a backslash, which is in no name, and holds no `@`; so an `@`
  with a name behind it stands in the comment as it does in the escaped text, with
  the same boundary behind it, and in front of it an escape can only hide a
  boundary, never make one (`EscapesMentionNobody`). That it may hide one is what
  `MentionOnLaterLine` shows.
- *JSON.* `UnescapeInv`: `json_unescape()` stands between two pieces of what was sent,
  or inside of one that is no escape, and what it has is the beginning of what was
  meant. The pieces are known by their ends (`Laid`, `Agree`); what the bot escaped
  itself is a sequence of such pieces, too.
- *Settings.* `SettingsAreExact` is inductive with the types of `StartType`. The work is
  in the lemmas about the numbers: a text is accepted exactly if it is all digits
  and its value is in range, and five times a limit is the exact product or the
  largest number.
- *Cached lists.* `CacheInv`: what is remembered was the whole list, on one page, and in
  a list that is sorted by update whatever is new since stands in front of what is
  left of it, so that the same first page means the same list. A list that grows
  at its end is one whose ids are its places (`ListInv`, `WalkInv`), which is all
  that a walk needs.
- *The stream of comments.* `WalkInv`: the pages read so far hold every comment that
  has fewer in front of it than were read. It says so by the number of comments in
  front of one (`Before`), because whatever is written meanwhile goes behind all of
  them; during a walk only an edit changes a rank.
- *Review input.* `DiffInv`: the diff is still that of the files, so its sections are
  theirs (`SectionsOf`). `InputInv` says of each file in front of `next` that it is kept,
  or omitted because it did not fit behind those kept in front of it (`Divided`),
  and of the context that its paths are those tried so far (`Fetches`). What is
  kept is itself a diff, of fewer files, so what holds for any diff holds for it.
- *The payload.* It is laid out in blocks, each of which has its fences at its first
  and last but one place (`FencesShow`); no other place holds a fence at the
  beginning of a line, because the instruction names them in the middle of one
  and no text holds any. Sets of places that lie one behind the other are listed
  one behind the other, which gives the sections back.

**The assumptions on the constants** are named where they stand. Most only say that
a bound is a number. Those with a content are: `NonceAssumption` (nobody writes down a
nonce of 128 bits before it is drawn, `reviewer.cpp:162-180`), `EntriesAssumption` (an
entry of `omitted_files` says how long the file is, so it is not empty),
`EscapesAssumption` and `WrittenAssumption` (neither `@` nor the characters of a name
are escaped; two characters that differ only in their case are both in names or
neither), `BoundsAssumption` (no budget reaches 2^64), `WidthsAssumption` (the defaults of `config.hpp` are in their ranges) and
`SizesAssumption` (see `GoodReviewIsKept`).

**Induction over data.** The induction theorems of the library take an operator,
which no installed prover can instantiate. `DecisionsProofs` gets the same from sets:
`LeastNumber` (every set of numbers that is not empty has a least one) follows from
`WFMin`, and `NumbersUpTo` from it. A fact about every prefix of a text is then one
about the set of the lengths for which it holds. This is how folds and
concatenations of any length are dealt with (`FlattenUnfolds`, `Laid`).

**Only model-checked:** liveness (`StopEnds`, `MentionsAnswered`, `ApprovalsAnswered`,
`CallsReturn`, `EventuallyListed`, `EventuallyDecided`, `DeadlineEnds`, `FilterEnds`).
Liveness under fairness and `ENABLED` are out of this prover's reach. The three
violated properties are TLC's alone as well.

## 6. Where code and documents disagree

Three are runs of their own:

- `AppMentionBlocks`. `is_collaborator()` throws for a login such as
  `dependabot[bot]` before it asks GitHub; `run_ping_path()` takes that for a
  failure that passes, ends the tick in front of the comment and never gets past
  it. `plan.md:306` has the comment decided. An approval by an app hides later
  approvals of that pull request in the same way (`watcher.cpp:173`).
- `FullPageHidesReviews`. A cached list of exactly one full page stays valid when
  the next review opens a second page, against the comment at
  `github_client.cpp:564-565`. `StaleOnlyWhenFull` shows that this is the only
  case.

- `MentionOnLaterLine`. The body of a comment is searched as it came, with its
  JSON escapes (`watcher.cpp:288`; `github_types.hpp:72-73` says that the macro keeps
  them, and undoes them for titles and descriptions only). A line feed is then a
  backslash and an `n`, the `n` counts as a part of a name, and an `@bot` at the
  start of any line but the first is no mention; `tests/test_mention.cpp:68` expects
  one. `NoFalseMention` shows that the escapes never make a mention of what is none.
  `Watcher` has `mention` as a field of a comment: it is what the client
  made of the body.

The others are named as exceptions where the models meet them:

- A POST that GitHub applies after the client gave up and after the next scan is
  posted twice (`"late"`; `github_client.cpp:329-333` relies on the scan).
- An edit that adds a mention in a second the cursor has passed is not seen
  (`"tieEdit"`; `watcher.cpp:376-377`).
- An edit between two pages can shift a comment out of the walk (`shifted` in
  `CommentStream`).
- The body of an answer with an error status that is longer than the cap is
  returned as a truncated diff, or as a file that is too long (`CutAtCap` in
  `Requests`; `github_client.cpp:820-841`, against `github_client.hpp:117-120`).
- The preview in the status is posted as the review when there is no result file,
  cut at 600 characters and without a note (`CutIsNoted` has the case);
  `reviewer.hpp:107` says that it is for error messages.
- `run-reviewer` turns its live output off for a `REVIEWER_STREAM_IO` that is set but
  empty (`run_reviewer.cpp:104`), which `config.cpp` reads as not set.
- `collect_context_files()` swallows a fatal status (`watcher.cpp:515`, against
  `watcher.cpp:25-27`).
- After a signal the tick goes on with every call it still has to make, and a
  retry may sleep 600 seconds (`README.md:280-286` promises one call).
- `waitpid()` has no deadline for a child that closed its output and lives on
  (`"quiet"`), and the reading loop does not look at the clock (`"flood"`); against
  `subprocess.hpp:23-24`. A run of the reviewer may so hold up the whole process, also
  after a signal: `StopEnds` has that case.
- When `poll()` fails, `run_subprocess()` kills the group and throws, without
  `waitpid()` (`subprocess.cpp:371-380`): the child stays as a zombie, and the caller gets
  no `RunResult`, against `subprocess.hpp:54-55` ("Throws std::runtime_error only for
  set-up failures (pipe/fork) before the child is reachable. Otherwise it always
  returns a RunResult"). When `waitpid()` fails, the one attempt with `WNOHANG` right
  behind SIGKILL may come too early or fail as well, so that "we do not add a zombie
  either" (`subprocess.cpp:499-501`) need not hold. `NobodyLeftBehind` has both.
- An error of `read()` ends a stream without a note (`subprocess.cpp:471-476`): the
  mock's review may then be cut without saying so (`CutIsNoted` has the case), and
  `waitpid()` is reached while the child lives, as for `"quiet"`.
- The path of a binary file with ` b/` in it is guessed wrong, and its deletion
  is not seen; so is any path with ` b/` in it that git prints in quotes, of which
  the last part is left with the closing quote (`Names`, `"baredelete"` in
  `ReviewInput`; `reviewer.cpp:330-332, 367-378`, `reviewer.hpp:206-208`).
- `handled_comments` holds only comments that mention the bot; `README.md:308-309`
  says every classified one.

## 7. Not modelled

- Reopened pull requests, deleted comments and issues, dismissed reviews (in
  `Watcher`; `CachedListing` has them as changes), comments without a valid issue
  URL.
- How long a connection takes.
- The inheritance of the lock by a forked child, and a child that leaves its
  process group.
- Failures of `pipe()` and `fork()`, the environment and descriptors
  handed to the child, the mirror of its stderr.
- The argument lists of codexmon and the words of prompts and notes: they have no
  state and nothing depends on them in this repository.
- The JSON parser, which is not part of the repository, and the fields that are
  copied from it. `ParsedStatus` takes half a status for one that does not parse.
- Names, lists and switches among the settings (`others` in `Startup`): checked one
  by one against fixed sets. The numbers read at `config.cpp:378` and `398-409` go
  through the same `parse_nonneg()` as the modelled ones and are one choice (`rest`).
- The text around a marker: `body_has_marker_key()` searches the whole body of a post
  for the key (`watcher.cpp:75-78`), so a review that quotes the marker of another
  trigger would count as the answer to that one. `Posts` in `GitHub` has one key per post.
- Collaborators that change while the watcher runs: who loses write access between the
  check and the post still gets the review, and no property of `Watcher` forbids it.
- Logging (`log.cpp`): formatting and output without a state that matters.

## 8. Plan

The order follows what would hurt most: a lost or doubled review first, then the
file it depends on, then the calls, then the data.

1. Done: `Watcher` with its proofs and the refinement of `ReviewService`;
   `StateStore` with its refinement and proofs; `Requests`, `Subprocess` and
   `Reviewer`; the listings; and everything `MCDecisions` runs: all with their safety
   properties proved.
2. Next in the model: collaborators that change while the watcher runs
   (`CollabCache` inside `Watcher`); pull requests that are reopened.
3. Next in the proofs: that `CommentStream` implements the one listing of `Watcher`
   when nothing is edited.

To check everything here: `tlc -config <Run>.cfg MC<Module>.tla` for a run
(the module of each is in `PROJECT.json`) and
`tlapm <Module>Proofs.tla` for a proof module.
