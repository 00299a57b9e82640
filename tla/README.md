# Verification of the grounding engine's backend

The grounding engine (`src/backend/app`) ingests documents into two indexes, answers
questions from them, and verifies the answers it is asked to verify.  This directory
holds TLA+ models of its parts, the TLC runs that check them on small instances, and
TLAPS proofs of what matters most for every value of the constants.  `PROJECT.json`
maps every definition to the lines it stands for, and lists runs, mutants (one
plausible bug per property, which TLC must catch), hazards, findings and theorems.

    tlc -workers 2 -config IngestionUploads.cfg IngestionMC.tla     # one run (Query.cfg: QueryMC, and so on)
    tlapm IngestionProofs.tla                                       # the proofs of a part

Paths below are relative to `src/backend/app` unless they begin with `docs/`.

1. [Inventory](#1-inventory)
2. [Ingestion](#2-ingestion)
3. [Verified queries](#3-verified-queries)
4. [Asynchronous runs, conversations](#4-asynchronous-runs-and-conversations)
5. [From a question to a draft](#5-from-a-question-to-a-draft), [accounts](#accounts), [chunks](#chunk-manifests)
6. [Runs, bounds and fairness](#6-runs-bounds-and-fairness)
7. [Proofs](#7-proofs)
8. [Disagreements with the code](#8-disagreements-with-the-code)
9. [Not modelled](#9-not-modelled)

## 1. Inventory

Two kinds of processes run the program: one FastAPI process (coroutines of one event
loop, each request with a database session of its own) and ARQ workers.  They share
PostgreSQL, an S3 object store, Qdrant and a Redis queue.

| Component | State | Operations | What is hard | Correct when |
|---|---|---|---|---|
| Document API: `services/documents.py`, `api/v1/documents.py` | `documents`, `ingestion_jobs`, source objects | upload, reindex, enqueue | duplicate uploads race; the cleanup after a lost race; enqueue after the commit; stale reads before a write | one document per content, its source kept, every queued job has a message |
| Ingestion workers: `workers/*`, `services/ingestion.py` | job and document statuses | claim, four stages, mark indexed, mark failed | duplicated and repeated messages, crashes, `job_timeout`, several jobs of one document | a job runs once, is published together with its rows, settles |
| Index stages: `services/{extraction,chunking,dense_indexing,sparse_indexing}.py` | text and manifest objects, `document_chunks`, Qdrant points | replace a document's rows and points | delete and insert in two steps, two stores without a common transaction | a searcher never finds a searchable document's rows gone |
| Query execution: `services/{query,verification,external_fallback,internal_model_retrieval,response_shaping,trust}.py`, `core/flags.py` | `query_traces` | routing, retrieval with retry, generation, verification, corrective attempts, recovery, disclosure, normalisation, trace | many paths rewrite one response; verdicts, packages and bundles replaced together; handlers that drop everything; an aborted transaction | what passes was verified against the evidence it cites; what does not says why; it ends |
| Asynchronous runs: `services/{query,runs}.py`, `api/v1/{query,runs}.py` | the run's trace, the trace of its execution, feedback | queue, execute, copy and delete, poll, rate | a task in the memory of the process; two traces for one answer | statuses go forward, no persisted answer is lost |
| Conversations: `services/{agent_chat,messages,conversations}.py`, `api/v1/agents.py` | `conversations`, `messages`, the event queue of a stream | turn, streamed turn, create, edit | a turn is four transactions; turns interleave; the transcript is ordered by transaction start; values loaded long before they are written | contexts, transcript and mode stay consistent; clients are told what happened |
| Query analysis: `core/query_analysis.py` | none | profile, context of a conversation, follow-ups, rewrites | what a follow-up takes from which turn; cuts that depend on each other | the query's own words win; what is added is recent; no rewrite twice |
| Retrieval and evidence: `services/{retrieval,evidence}.py`, `core/reranker.py` | none | searches, fusion, context, orders, selection, package | a chunk found at several ranks; a model that answers with anything; a dozen cuts in a row | fusion counts a chunk once at its best; what was found becomes evidence |
| Model providers: `services/generation.py`, `core/{llm_client,gemini_*,openai_*,provider_retry,embeddings}.py` | none | draft, retry, repair, validate; the local backend | four functions with four notions of a citation; retries within tries | an answer cites the package and nothing else; calls end |
| Accounts: `services/{auth,workspaces,api_keys}.py`, `api/deps.py` | tenants, workspaces, keys | sign-up, sign-in, Google, workspaces, keys and their use | reads followed by commits, several commits a session, few constraints | a session is complete; tenants do not touch each other; revoked is revoked |
| Billing: `services/billing.py` | `billing_subscriptions` | get or create | check, then insert | one row per tenant |
| Chunk manifests: `pipeline/*` | none | blocks, sentences, windows, groups, overlap | borders moved four times | every token is in a chunk, chunks are bounded and add something |
| Team members: `services/team_members.py`, `api/v1/invitations.py` | `workspace_members` | invite, accept, remove, change role | see section 9 | - |
| Rate limiter: `core/rate_limit.py` | one deque per key | admit | - | at most the limit in any window |
| Agents and datasets | `agents`, `agent_datasets`, `namespaces` | create, update, attach, detach, delete | deletion with conversations and traces left behind | - |
| Dashboard, audit log, e-mail, telemetry | - | read-only aggregates and best-effort output | - | - |
| Configuration, migrations, scripts | - | settings and wiring | - | - |

All but the last five are modelled.  They interact as follows.  An upload or a reindex
commits a job and puts a message on the queue (`Documents` to `IngestionWorker`, through
`run` and `reply`); the second stage of a delivery calls the chunk builder (`Chunking`).
Queries read what the workers committed; no property relates the two beyond what ingestion
promises its readers (`JobLifecycle`).  An execution is called by the query route, by the
task of an asynchronous run and by a chat turn; all of them use it through one contract
(`QueryContract`), which `QueryExecution` is shown to implement and which `AsyncRuns` and
`AgentChat` instantiate.  An execution plans the query (`QueryPlanning`), retrieves
(`Retrieval`, which ends in `Evidence`) and drafts (`Generation`); each of the three has
`QueryProfiles` in common and is modelled by itself, with everything it may be given, and
`QueryExecution` takes what they may return as nondeterministic input.  Requests get in
with the keys of `Accounts`.

## 2. Ingestion

| Module | What it is |
|---|---|
| `IngestionState` | the tables, the stores, the collection and the queue |
| `Documents` | the upload and reindex handlers, one action between two awaits that others can observe |
| `IngestionWorker` | `run_standard_ingestion_pipeline`, one delivery per ARQ message |
| `Ingestion` | both interleaved; properties, inductive invariant, fairness |
| `JobLifecycle` | what the jobs table promises its readers |
| `IngestionRefinement` | the refinement mapping |
| `IngestionMC`, `IngestionProofs` | instances and proofs |

A request stands for the identifiers it mints: upload `u` for the document and the job
it may insert, request `r` for the message it may enqueue.  `rpc[r]` is the place of a
request in its handler, `run[m]` the place of a delivery in the pipeline; `reply[m]` is
the job a message names.  What is abstracted, and why:

- A database transaction that reads and commits with no other wait in between is one
  action.  The sparse stage is not: it deletes and inserts in one transaction, which
  `Finalize` commits with the statuses.  `rows` has the committed rows by the delivery that
  inserted them, `deleted` what an open transaction has deleted or its DELETE has seen.
  PostgreSQL's rules are modelled and nothing is concluded from them: a statement sees what
  was committed when it began (`BeginDelete`), waits for a rival's lock and skips what that
  one has deleted (`EndDelete`), and an INSERT waits or fails on
  `uq_document_chunks_tenant_doc_chunk_index` (`Insert`).
- The duplicate lookup is two SELECTs (`Lookup`, `AnswerExisting`).  A commit fails or
  succeeds; one of unknown outcome is outside the model.
- `seen` is the status a session loaded.  SQLAlchemy compares an assignment with it and
  emits no UPDATE when they agree; that is why `CommitReindex` and `Finalize` sometimes
  leave `docStatus` alone.  Whether the weak identity map of the worker's session still
  holds the document at `Finalize` is left open.
- `created_at` is `func.now()`, the start of the transaction, which decides which job
  is the latest.
- The contents of texts, manifests, chunks and vectors are reduced to their presence.
  A content may be unreadable, which fails the extraction.
- An upload that S3 refused leaves no object.  A request that validation rejects changes
  nothing and is left out, as are a second tenant and namespace: constraints and lookups
  are all within one of each.  `ingestion_autorun` is on, and the concurrency limit of a
  worker (`max_jobs`) is not modelled: it only removes interleavings.
- ARQ redelivers a message whose worker dies, at most `max_tries` = 5 times; the bound
  on failures stays below that.

The properties:

The runs check what is set in bold; the other invariants are parts of `IInv`, which
`ingestion_reindexes` checks as a whole.

- **`SourceKept`**, `OneDocumentPerContent`: racing uploads leave one document with its source.
- **`OneRunPerJob`**, `ClaimedOnce`: `claim_ingestion_job` is a mutual exclusion for all
  the duplicated and repeated deliveries, and a job is claimed once in its life.
- `IndexedJobHasRows`, **`RowsReplacedWhole`**, `InsertedAlone`: a published job has its rows,
  and however reindexes race, a commit that changes a document's rows leaves those of one
  delivery, not none, a mixture or two sets.  It holds because one open transaction at most has
  inserted rows, and that one has deleted all there are.
- `SoleJobAgrees`, **`SoleJobSearchable`**: as long as a document has had one job, its
  status is that job's, and *indexed* means that both indexes hold it.
- **`JobSettles`**: with the failures a supervised deployment recovers from, every job
  that was submitted settles.
- **`ImplementsLifecycle`**: a job belongs to one document, is claimed only out of the queue,
  and its document becomes searchable in the very step that publishes it.  The contract
  is honest about what the code allows: neither `indexed` nor `failed` is final.

## 3. Verified queries

| Module | What it is |
|---|---|
| `QueryResponses` | responses and the pure functions that shape, verify and normalise them |
| `QueryExecution` | one execution of `execute_standard_query`, from admission to the trace |
| `QueryContract` | what an execution promises its caller |
| `QueryRefinement` | the refinement mapping: an answer that does not deserve its grade has none of the contract's grades |
| `QueryMC`, `QueryProofs` | instances and proofs |

One execution is modelled, for executions share no state but the tables they read.  Its
environment is nondeterministic: what retrieval finds, the score of a draft, what the
verifier finds in its claims (`Assessments`), whether another source has an answer, and
which call fails.  Texts are reduced to where they come from (a draft of a retrieval
pass, an abstention, an external snippet, the disclosure or resolution of a conflict),
scores are in hundredths, a corrective attempt `k` is retrieval pass `k + 1`, and the
feature flags and the policy of the namespace that a step reads are chosen when it reads
them.  `MaxAttempts` is `max_crag_attempts`, or 1 when several attempts are switched off.
Three details carry weight:

- `Widens`: the verifier measures support by term overlap, so the same answer against a
  package with more evidence loses no supported claim, and keeps a contradiction.
- `aborted`: a failed statement aborts the transaction; nothing rolls it back before the
  commit of the trace, which then fails.  A retried retrieval may still succeed, because
  dense retrieval alone sends no statement.
- A `RetrievalError` inside a corrective attempt is caught by no handler of the
  execution: it ends in `crashed`, which the contract calls lost.

The properties: `PassedMeansVerified` (a CRITICAL answer passes only as drafted, accepted
by the verifier against the very package the trace names, in one consistent shape),
`DegradedSaysWhy`, `CitesOwnEvidence` (citations, package and bundle of one pass),
`CorrectionImproves` (a corrective attempt replaces the first pass only if accepted or
better by the threshold), `Terminates`, and `ImplementsContract`.

## 4. Asynchronous runs and conversations

### Asynchronous runs

`AsyncRuns` has the queued trace (`status`, `result`), the background task (`task`), the
trace of its execution (`inner`) and the feedback on either (`rated`).  The execution is
`QueryContract` per run; `Execute` takes its steps.  `_copy_trace_result` and the delete
of the inner trace are one commit.  The process may die between any two steps, and takes
its tasks along; `abandoned` marks a task that an unhandled exception or a death has
ended.  One API process is modelled: a second one would share nothing but the table.

Properties: `AnswerKept` (a persisted answer can be read in the run or in the trace of its
execution, whatever fails), `RunNeverReverts`, and `RunSettles` (every run whose task
nothing abandons ends); `CompletedIsExecuted` is proved.

### Conversations

`AgentChat` has the turns of one conversation and the edits of its mode.  A turn moves
along `ask`, `execute`, `reply`, `settle`: the question, the trace, the answer and the
mode are separate commits, and `execute_agent_chat_turn` and its streaming twin differ in
the stream only (`Streams`).  A message is a turn and a role; `createdAt` is the start
of its transaction, and `clock` makes the starts of two transactions different.  `past`
is a history variable: what was committed when the turn began.  Left out: titles, what an
agent allows (a turn is rejected nondeterministically), the windows of four questions
and two answers that are cut out of `history`, and the progress events of a stream.

- `AnswersFollow`: in the order of the transcript an answer comes after its question, and
  an execution persisted it.
- `HistoryIsThePast`: the context of a turn has everything the turn found when it began,
  an equal question included; unless another turn has stored something since, it has
  nothing else.  It is the age of the question that makes *drop the last message if it is
  the question* right: the echo can be another turn's, never one of the past.
- `ModeWasAskedFor`: a turn assigns the mode it has resolved to a conversation it loaded
  before the execution.  A turn that asked for no mode nevertheless takes back no edit
  made in the meantime, because its commits do not expire what it loaded and the equal
  assignment emits no UPDATE (`AssignMode`).
- `ToldIsTrue`, `TurnEnds`: the client of an answer finds both messages and the run; an
  outcome is told once; every turn ends and every stream is closed.

## 5. From a question to a draft

| Module | What it is |
|---|---|
| `QueryProfiles` | kind, tests and answer mode of a query, as functions of what was found in its text |
| `Orderings` | the elements of a set in an order, the elements of a sequence at some of its places |
| `QueryPlanning` | the turns of a conversation: context, follow-up, rewrites of both tiers |
| `Retrieval` | searches, deduplication, fusion, context and lead chunks, the three orders, the reranker |
| `Evidence` | the sets of packages that the selection of each kind of query may give |
| `Generation` | tries, retries, a model's draft, repair and validation; the local backend's choice of support and its renderers |
| `...MC`, `SearchProofs`, `GenerationProofs` | instances and proofs; `SearchProofs` is about `QueryPlanning`, `Retrieval` and `Evidence` |

None of them reads text character by character.  A text is a record of what the keyword
tables and patterns find in it; its `marks` are the patterns that match.  The control that
follows, which is most of these files, is kept: the order in which kinds are decided, which
test wins, every limit and cut.

`QueryPlanning` has the query, the fragments a follow-up adds and the rewrites, in order.
After fragments have been added, which of them the patterns take for attributes or contexts,
and which test that looks anywhere in a text now matches, is open (`Readings`); the document is
read off the fragments as `_document_reference_rank` does (`RankRead`: a word of `Named`, or one
of `Bare` before one of `Things`).  A rewrite is a sequence of words, so two rewrites are equal
when their words are.  `ContextIsRecent`: what a follow-up adds was said within the two windows,
or is one of the fixed words.  `OwnRankWins`: a document named by number is never overridden by
the conversation; a query that only refers to a document means that of the last query, if that
named one; any other document a plan means is next to that of the last query or was named within
the windows; and a query that stands alone is planned as if nothing had been said.  It is not
true that a query means a document only if it or the last query names one: a context carried from
an older query, or a phrase of a reply, can hold an ordinal, and then sets the document.
`RewritesAreOrdered`: the query first, nothing twice, and the Enterprise tier takes what the
standard tier searches for, up to its limit, before its own.  The rewrites of a count are
unreachable in the code, for a count is an exact question.

`Retrieval` lets a search return any chunks in any order, and fail.  `BestRank` and `Share`
are the deduplication and the sum of reciprocal ranks, in exact integers (parts of `Whole`, any
common multiple of the denominators: TLC computes with 32 bits).  The
scores of texts and of freshness are left open: an order by score is any order.
`FusionIsConsensus`: a chunk that every search having the other ranks better comes first,
whatever the rewrites and the number of repetitions, and every chunk found is there once.
`RerankerLosesNothing`: whatever a model answers, the result is as long as the limit allows,
begins with what it named, and continues in the old order.  `FoundMeansEvidence`: a query
whose searches found something gets evidence through every order and cut; `EvidenceIsSound`:
the evidence repeats nothing, an exact answer or a list of the standard tiers is from one
document, and a summary has a chunk of as many documents as the limit allows.

`Generation` keeps of a model's draft the kind of its text, its answer mode, the chunks it
cites, where each snippet is from, and whether its content passes the textual checks.  The
backends differ in what they repair and filter; the acceptance (`Acceptable`) is the same.
For the local backend the scan of the ranked support is modelled entry by entry, with any
scores, and each renderer by the citations it may leave.  `AnswerIsGrounded`: an answer that
leaves the call cites the package and nothing else, each chunk with a snippet of its own,
and a refusal cites nothing.  `CitesWithinLimit`: the support limit of each kind of query
with its one exception.  `GenerationEnds`: every call ends.  `TriesAreSpent` is proved only:
no call fails before its retries and tries are used up.

### Accounts

`Accounts` has one action per statement a decision rests on and one per commit.  A row is
named by the request that inserted it; hashes are abstracted to what they are of; the
second organization of a name is called *name 2*.  Different names have different slugs,
except those without an ASCII letter or digit (`Slugless`), which have none, and those that
begin with a word of 120 characters or more (`Long`), whose slugs agree as far as a request's
field holds them; an address of `LongEmails` makes a key's label longer than its column.  Names
with NUL characters, and taken ones of 254 characters and more (section 8), are left out.
`before` is a history variable: the rows there were when a request arrived.  Any one commit may
fail; the one that stamps a key, too, and although the code means to ignore that, the request
ends in a 500.

A request that came with a key holds a copy of the key's row (`chosen`), loaded when it arrived.
A commit writes the columns in which the wanted row differs from the copy (`Written`), and a
revocation finds that copy in its session or, if it has been dropped, the row (`Copies`).

- `AnsweredIsComplete`: a session that is answered has an account with its address and
  password, a workspace of it and a key, whichever of three commits an earlier one failed at.
- `TwinsRaced`: two accounts with one address come from overlapping requests only.
- `FailsForACause`: a session that ends in a 500 without a failed commit has one of seven
  causes, of which five last (twins, a second workspace, an empty slug, a slug or an address too
  long) and two are races.
- `RevocationHolds`: a key whose revocation was answered stays revoked, although requests that
  came with it, and other revocations, still write older copies of its row.
- `OwnTenantOnly`: a request writes rows of its key's tenant, whatever rows it names.

### Chunk manifests

`Chunking` numbers the tokens of a text; where blocks, sentences and headings start is the
input.  Headings are sought in the text as it came, the title of a chunk in its normalised text,
in which runs of spaces have become separators; so `titles`, which chunks open with a heading
once normalised, is an input of its own.  The three passes of the structure-aware strategy take
one block, sentence, window, span or group a step, as `pipeline/orchestrator.py` does, and so does
the other strategy.  `EveryTokenIsChunked`; `EveryChunkAdds` (the last window of an oversized
block may lie within the one before, yet no chunk lies within another); `SizeIsBounded` (maximum
plus overlap, but for a sentence that is too long by itself and one of several in its block; a
block of one sentence is cut up); `SectionOpensChunk` (a heading opens a chunk, if its block fits
or has several sentences, and titles it, if the chunk's normalised text still opens with one).

## 6. Runs, bounds and fairness

| Run | States | Instance | Shows |
|---|---|---|---|
| `ingestion_uploads` | 1,065,708 | two uploads and a reindex, readable and unreadable contents, 3 failures of any kind, with and without the collection | duplicates, claims, documents with one job |
| `ingestion_reindexes` | 414,735 | an upload and two reindexes, 4 failures of any kind | `IInv`, rows of concurrent jobs, `JobLifecycle` |
| `ingestion_recovery` | 121,357 | two uploads of the same bytes and a reindex, 1 recoverable failure | liveness |
| `query` | 426,244 | every tier, mode, minimum and flag, a score on each side of every threshold, answers with a claim of each kind and a mixed one, 2 corrective attempts | the verified path, `QueryContract`, termination |
| `async_runs` | 15,720 | two runs, 3 failures of any kind | `AsyncRuns`, safety and liveness |
| `agent_chat` | 1,158,132 | two turns that ask the same, one streamed, and an edit, 1 failure of any kind | `AgentChat`, safety and liveness |
| `generation` | 105,608 | three backends, a package of up to two items for a provider and four for the local one, any draft with two citations, one stray, 1 retry | `Generation`, safety and liveness |
| `retrieval` | 170,149 | five chunks of three documents, up to 3 hits a search and two rewrites; ten queries and tiers, one without a word to search for | `Retrieval` and `Evidence` |
| `query_planning` | 39,757 | four turns, six texts, one for each kind of follow-up and of rewrite and one of no words | `QueryPlanning` |
| `accounts` | 1,785,068 | ten stories of four requests, 1 failed commit | `Accounts` |
| `chunking` | 501,496 | every text of up to six tokens, four kinds of titles, three sizes, both strategies | `Chunking` |
| `ingestion_duplicate_upload` | | two uploads of the same bytes, no failure | the finding of section 8 |

Why the bounds are enough to be of use.  The hazards of ingestion need at most three
actors on one document: two uploads that race on a content and a third request that adds
a job, or two reindexes beside the first job, so that one writer of rows holds, one waits
and one publishes.  Four failures allow a crash, a failed recovery and two more; the
safety proofs remove the bound.  Queries need one score per side of the thresholds 0.25,
0.45, 0.5 and 0.75; a second corrective attempt is the first whose predecessor was itself
corrective.  Two runs show that one's failure does not touch the other.  Two turns that
ask the same are the hard case for the context, and one failure may hit either at every
step.  A package of two items tells a citation of the package from a stray one and a
repeated one; four items exceed the support limits of all but summaries and lists.  Three of
five chunks exceed `FinalLimit` and the evidence limit, one document has several chunks.  Four
turns and windows of two queries and one reply (four and two in the code): the fourth turn has
three earlier queries and replies, of which the window of queries drops one and that of replies
two.  Sessions race in pairs; the third and fourth request meet what a race or a
failed commit has left.  Six tokens and a maximum of two or three give an oversized block
beside two others, and a last window within another.  Uploads are symmetric, and reindexes;
liveness runs use no symmetry.
`CHECK_DEADLOCK FALSE`: a system whose finitely many requests are over stops.

Retrieval, planning, accounts and chunking have safety runs only: the first two and the last
are loops over data, and a request's client may be gone.

Fairness is weak and per process step.  Ingestion: the API process continues a request it
has begun, and a delivery is continued by its worker or, after a crash, by another
(`DeliveryStep`); nothing makes a request arrive, a failure happen or a timeout fire.
Queries: an execution that can go on does.  Asynchronous runs and turns: the event
loop runs a task on as long as its process lives (`TaskStep`, `TurnStep`), and the
generator of a stream sends what is queued (`Send`).  Generation: a call of a provider
returns, fails or times out, for its client has a timeout.  That an execution, seen through its
contract, goes on is what `Terminates` shows of `QueryExecution`.

## 7. Proofs

| Module | Theorems |
|---|---|
| `IngestionProofs` | `Invariance`, `TypeCorrect`, `SourcesKept`, `UploadsIdempotent`, `MutualExclusion`, `NoSecondAttempt`, `PublishedWithRows`, `RowsWrittenAlone`, `SoleJobsAgree`, `SoleJobsSearchable`, `RowsReplaced`, `Refinement` |
| `QueryProofs` | `Invariance`, `TypeCorrect`, `PassedIsVerified`, `DegradedHasReason`, `OwnEvidence`, `CorrectionsImprove`, `Refinement` |
| `AsyncRunsProofs` | `Invariance`, `TypeCorrect`, `CompletedRunsExecuted`, `AnswersKept`, `RunsNeverRevert` |
| `SearchProofs` | `Invariance`, `FoundGetsEvidence`, `PackagedEvidenceIsSound`, `FusionKeepsConsensus`, `RerankerKeepsHits` (`Retrieval`); `OwnRankAlwaysWins`, `ContextStaysRecent`, `RewritesKeepTheirOrder` (`QueryPlanning`) |
| `GenerationProofs` | `GenerationInvariant`, `AnswersAreGrounded`, `LimitIsKept`, `TriesAreMade` |
| `AccountsProofs` | `Invariance`, `SessionsAreComplete`, `TwinsOnlyByRacing`, `RevocationIsFinal`, `TenantsAreIsolated`, `FailuresHaveACause` |
| `ChunkingProofs` | `Invariance`, `NoTokenIsLost`, `NoChunkRepeats`, `ChunksAreBounded`, `SectionsOpenChunks` |
| `AgentChatProofs` | `Invariance`, `TypeCorrect`, `AnswersInOrder`, `ClientsToldTrue`, `HistoriesComplete`, `ModesAskedFor` |

They hold for any finite sets of requests, runs and turns, any contents, scores and
assessments within their types, any number of failures, any package, draft and number of
retries, any chunks, limits and searches, any vocabulary, texts, windows and number of turns,
any story of requests, and any text, maximum and overlap.  The assumptions are the named
ones next to the constants: finite and disjoint sets of requests, sentinels that are no
value, scores between 0 and 100, 1 to 5 corrective attempts (the range `core/flags.py`
clamps the setting to), known kinds of failures, an overlap less than the maximum (the
validator of `config.py`), and blocks that begin where a text does.  TLC evaluates each of them in
the runs.

No safety property is inductive alone.  The strengthening of each module is its `IInv`;
TLC agreed with each before it was proved, on the instance of the module's run (Ingestion's
stays in a run):

- *Ingestion.*  `Wired` says that what a message, a job and a document name exists and
  that its request is past the commit.  `ProcessingClaimed` is the heart of the mutual
  exclusion: a job in a delivery's hands has left the queue for good, so a second claim is
  refused; with `UnclaimedUnattempted` a job is attempted once.  `SourceStored` carries the
  source from the upload to the commit.  `SoleRun` says that the only job of a document
  finds it as it left it: without it, `Finalize` might leave the status alone, and an
  indexed document might lack points.
  `InsertedAlone`, from which `RowsReplacedWhole` follows, is kept by the constraint: an `Insert`
  finds no rival that has inserted, and no row that it has not deleted.
- *Queries.*  `TraceIsResponse` and `PreparedIsSound` reduce the properties of the trace to
  those of the response about to be persisted; `VerdictAtHand` ties response, verdict,
  package and bundle between generation and normalisation; `FirstPass` keeps the
  baseline that corrective attempts are compared with.  Lemmas about shaping, verifying
  and normalising a response come first and are cited by name.
- *Asynchronous runs.*  `Wired` ties the task to the status, the phase of the execution and
  its trace.
- *Conversations.*  `Wired` ties the handler to its messages; `Dated` says that a question is
  younger than everything its turn found; `Streamed` says what may be queued.
- *Generation.*  `Progress` counts tries, `ScanOK` says that the chosen support is an
  injective part of what has been scanned, within the limit; what renderers may cite then
  follows from lemmas about each of them.
- *Accounts.*  One conjunct per question about a request: what it is at its place for
  (`KindOK`), that it has no rows before their commit (`RowsOK`), what it found on arrival
  (`BeforeOK`), has chosen (`ChosenOK`), and what holds of a session or a keyed request on its
  way (`SessionOK`, `KeyedOK`).  `Frame` is the lemma that makes it work: a step of one request
  leaves the others' progress alone and the rows there are, which only grow.  Isolation is the
  action property that follows: `KeyedOK` ties what a request has found to its key.
  `FailsForACause` needs `Explained` besides: a name or a workspace that was free when the
  request looked for it can only be taken by a row that was not there when it arrived
  (`FreshName`, `FreshPlace`), and a cause, once there, stays (`CausesStay`).  `RevocationHolds`
  (`Held`) rests on `ReadValid`: the copy of a row that a request stamps, or revokes, was read
  while the key was valid, so a stamp differs from it in `last_used_at` only and a revocation
  always in `revoked_at`.
- *Chunking.*  One conjunct per pass.  `EndsBlock` says that each block is left at its end, so
  that a sentence that stays whole (`Bounded`) is known to be one of several.  Spans may lie
  within each other, so `Linked` says when: a span that reaches no further than the one before is
  no heading and fits with it, whence the grouping absorbs it and groups strictly advance
  (`Adds`).  `Kept` carries every token of the spans taken so far into a group or the one under
  construction.  `HeadingsKept`, on top of `IInv`, says that each pass has carried every heading
  that opens a block it is past into a span, a group or a chunk that starts with it.
- *Retrieval.*  Nearly all of it is about data, and little about steps: the invariant
  (`FoundIsKept`) only says that a search that found something leaves hits at every later place.
  `FusionFacts` and `EvidenceFacts` say what a fusion and a selection return, and rest on lemmas
  about orders, cuts and representatives; `SharesInOrder` compares sums of reciprocal ranks.
- *Planning.*  The state is reached by turns from any history, so the invariant is its type
  (`PlanTypes`), and each turn establishes the three properties anew.  The work is in the lemmas
  about a sequence's distinct, picked, joined and recent elements, on which `ContextFacts`
  (the words of a context are of the windows), `ReadingRank` and `EnterpriseFacts` rest.

The library's operators that sort a set, pick from a sequence and join sequences
(`SetToSortSeq`, `SelectSeq`, `FlattenSeq`) take an operator as a parameter or are recursive, and
what they return for every argument needs induction over data.  `Orderings` defines the same by
counting: the place of an element is the number of those not after it, and `SortFacts` shows that
this numbers the set.  TLC evaluates these definitions in the runs.  A smaller limit: the provers
know of no string literal that it is in `STRING`, so sequences of words are typed by their own
elements (`IsSequence`).

The two refinements map every step to a step of the abstract specification or a stutter,
under the invariant.  Every safety property that a run checks is stated by a theorem.  Only
checked by TLC: the liveness properties `JobSettles`, `Terminates`, `RunSettles`, `TurnEnds` and
`GenerationEnds` (fairness and ENABLED are beyond the prover), and the finding.

## 8. Disagreements with the code

One run ends in a violation of what the repository says of itself.
`ingestion_duplicate_upload`: a duplicate upload of a document that waits for its worker
schedules its job again; the second delivery is refused the claim and marks the job, running
or published, as failed.

These were found in the same way, by a property that TLC refuted; no run is kept for them:

1. `services/dense_indexing.py:163`: the dense stage deletes points before anything has created
   the collection; on a fresh Qdrant no document is ever indexed.
2. `workers/ingestion.py:54`: a delivery that `job_timeout` cancels leaves its job running for
   ever, and reindexing refuses while it does.  A Redis that refuses after the commit leaves it
   queued until the same bytes are uploaded again.
3. `services/query.py:394`: with a tier switched off a request for it is answered at Standard;
   `docs/PRODUCT_FLOW.md:387`: "The system must never silently run a weaker tier than what
   safety requires."
4. `services/query.py:1235`: an exception that is no `QueryServiceError`, such as the
   `RetrievalError` of a corrective attempt, leaves a run running for ever.
5. `services/auth.py:221`: a session reads all workspaces of its tenant through
   `scalar_one_or_none`, which raises when there are two: an owner who has opened a second
   workspace can no longer sign in, while `services/workspaces.py:160` lists "all workspaces
   owned by the authenticated tenant".
6. `core/query_analysis.py:1161`: the Enterprise rewrites follow the standard ones and the whole
   is cut at six; a comparison with two attributes and two tags has eight standard rewrites,
   loses two and gains none.
7. `core/query_analysis.py:681`: after "the next document" without a number the conversation has
   no document any more, whereas `tests/unit/test_query_analysis.py:383` says "Reference-only
   follow-ups should inherit a recent document ordinal when available."
8. `services/retrieval.py:941`: for a summary of "the second document" the second *lead row* is
   raised, and there are up to two lead rows per document: it may be the first document's.
9. `pipeline/orchestrator.py:608`: the windows of an oversized block that is one sentence drop
   its `starts_with_heading`, so its heading is merged into the chunk of the section before;
   `tests/unit/test_chunking.py:117` expects chunking to "not merge adjacent headed sections".

Others were met while modelling; the models show them, no document promises otherwise,
and no run claims them:

- Two concurrent reindexes each find the latest job settled and insert an active job each
  (`services/documents.py:448`).  What the two can do to each other is checked.
- A document may be INDEXED while a later job has deleted its points, or has failed.
- `workers/sparse_indexing.py:53` asserts that the refreshed job is INDEXED; a late failure
  of another delivery breaks it, and the pipeline then marks the job failed.
- A chat turn in mode *auto* under an ENTERPRISE minimum is refused with 409 unless its
  question happens to route upwards.
- `Normalize` raises the score of a passed answer to 0.5 and keeps its label.
- The external source replaces the text of a fully supported answer whose confidence is low.
- When the commit of the timings fails, the client gets an error, or the run fails, beside a
  persisted answer; when the commit of the mode fails, beside a stored answer message.
- Feedback given on the trace of an execution goes with it when it is deleted.
- Of two turns that ask the same at the same time, one may have its own question in its
  context; a failed turn leaves its question in the transcript.
- An edit that sets the mode it has loaded changes nothing, also when a turn has set another
  mode in between.
- A read timeout of Gemini is retried but, unlike others, escapes `generate_answer_from_evidence`
  when the retries are over (`core/gemini_generator.py:573`); so do a body that is no JSON and a
  payload that is a list, through `UnboundLocalError` and `AttributeError`.
- The prompt asks Gemini to answer a yes-or-no question in mode *open*, and the check then
  rejects the reply, for the families of the two modes differ.
- A valid refusal has no citations, and `shape_grounded_response` raises on a response without.
- With a field limit of 1 the local backend may return two citations, where a provider's
  exact answer with two is rejected.
- After the Enterprise reranker `fused_score` mixes its scores with reciprocal ranks, and the
  confidence is computed from it; a reply of its model that is a list, or a timeout while reading
  it, is no `RerankerError` and fails the query.  The freshness order discards the order by the
  query.
- Evidence is packaged for the resolved text of a follow-up (`services/query.py:1498`), the draft
  is generated and validated for the raw one (`services/query.py:1529`).
- An action query without attributes of its own gets *responsibilities*, which makes its mode
  list_or_recommendation.
- Two sign-ups that race on an address make two accounts, after which every session of the
  address fails (`services/auth.py:139`).  An account whose later commits failed is completed by a
  sign-in, while a second sign-up is told that it exists.
- A workspace name without an ASCII letter or digit raises a `WorkspaceServiceError` that the
  sign-up route does not handle.  An organization name whose slug has more than 120 characters
  raises a `ValidationError` (`services/auth.py:237`, `schemas/workspaces.py:15`): a 500 after the
  account is committed, and at each of its later sign-ins.  An address of more than 242 characters
  does the same, for the label of its key does not fit the column (`services/auth.py:254`).
- A failed commit of `last_used_at`, which `api/deps.py:97` rolls back and means to ignore, leaves
  the key's row expired, and the next attribute read fails with a 500.  Two revocations that race
  are both answered, and the later `revoked_at` stands.  For a taken organization name of 255 characters
  `_build_unique_tenant_name` cuts off the number it has added, and loops.
- A line such as `ITEM   QTY   PRICE` is a heading as it came and none once its spaces have become
  separators: its chunk says that it starts with a heading, under the title of the section before.
- A chunk whose overlap happens to start within a line, at words that look like a heading, takes
  them as the title of its section and passes it on to the chunks after it.

## 9. Not modelled

- *Team members.*  The service is written, but no state of it can be reached: inviting, changing
  and removing a member need an active member of the workspace (`api/deps.py:123`), only an
  accepted invitation makes one, and no code creates the first.  Every such request is refused,
  and a model would have one state.
- *Rate limiter.*  One process, and a dependency that decides without an `await`: a decision is
  one step.  The registry is per process, so several API processes multiply the limit.
- *Agents and datasets.*  Single rows, each changed in one transaction that constraints protect;
  `AgentChat` refuses turns at will, which covers modes and attachments that change.
- *Embedding providers, prompts, texts.*  Keyword tables, patterns, the scores of sentences, the
  wording of prompts and answers: their outcome is a nondeterministic input wherever control
  depends on it.  What a pattern really finds in a text is a matter for unit tests.
- *Reads* that change nothing, dashboard, audit log, e-mail and telemetry (best effort),
  configuration, migrations and scripts.

What could follow: the composition of `QueryExecution` with `Retrieval` and `Generation` in place
of its nondeterministic inputs (their products are beyond TLC at useful bounds; a contract of each,
like `QueryContract`, would be the way), and agents and datasets beside conversations.
