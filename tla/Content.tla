-------------------------------- MODULE Content --------------------------------
(***************************************************************************)
(* The AI engine's worker (tasks/worker.py) and what becomes of the        *)
(* content it makes.  crawl_news reads the real news feeds, remembers in   *)
(* Redis which articles it has seen and appends the new ones to a list.    *)
(* generate_scenario_batch and generate_social_posts make a batch an item  *)
(* at a time, by the model when a token is there, else from a template,    *)
(* and post it to the gateway (integrations/content_sync.py), which keeps  *)
(* what it does not have yet (api/v1/ai_sync.py).  The worker may die      *)
(* under a job, which is then run again.                                   *)
(***************************************************************************)
EXTENDS TokenBucket, SequencesExt

CONSTANTS
    Jobs,          \* the worker's jobs, coroutines that take tokens
    WorkerBucket,  \* "gemini-flash"
    Articles,      \* the articles of the feeds, by URL
    MaxFetched,    \* bound on the articles one crawl meets
    Titles,        \* what makes two items the same: title or text
    BatchSize,     \* items of a batch
    LatestMax,     \* LATEST_MAX
    MaxDeaths      \* bound on the worker's deaths

ASSUME ContentAssumption ==
    /\ Jobs \subseteq Takers
    /\ WorkerBucket \in Buckets
    /\ MaxFetched \in Nat
    /\ BatchSize \in Nat \ {0}
    /\ LatestMax \in Nat \ {0}
    /\ MaxDeaths \in Nat

VARIABLES
    job,       \* where each job is
    seen,      \* the articles with a news:seen key (kept for 30 days)
    latest,    \* the list news:latest, oldest first
    ingest,    \* the gateway's handling of each job's post
    store,     \* the committed rows of the gateway's table, by title
    past       \* history: trimmed and lost articles, deaths, overlapping posts

contentVars == <<job, seen, latest, ingest, store, past>>

Queued == [at |-> "queued", todo |-> <<>>, new |-> <<>>, made |-> <<>>]

NoPost == [at |-> "none", todo |-> <<>>, rows |-> <<>>]

ContentInit ==
    /\ job = [j \in Jobs |-> Queued]
    /\ seen = {}
    /\ latest = <<>>
    /\ ingest = [j \in Jobs |-> NoPost]
    /\ store = <<>>
    /\ past = [trimmed |-> {}, lost |-> {}, deaths |-> 0, overlapped |-> FALSE]

(***************************************************************************)
(* crawl_news                                                              *)
(***************************************************************************)

(* The feeds, each fetched with retries: what the sources that answered hold,
   in their order.  Two sources may hold the same article. *)
Feeds == SeqOf(Articles, MaxFetched)

Crawl(j) ==
    /\ job[j].at = "queued"
    /\ \E s \in Feeds :
          job' = [job EXCEPT ![j] = [Queued EXCEPT !.at = "crawling", !.todo = s]]
    /\ UNCHANGED <<bucketVars, seen, latest, ingest, store, past>>

(* SET news:seen:<sha1> NX: an article is new to one crawl only. *)
IsNew_Unseen(j, a) == ~Contains(job[j].new, a)
IsNew(j, a) == a \notin seen

Look(j) ==
    LET a == Head(job[j].todo) IN
    /\ job[j].at = "crawling"
    /\ job[j].todo # <<>>
    /\ seen' = seen \cup {a}
    /\ job' = [job EXCEPT ![j].todo = Tail(@),
                          ![j].new = IF IsNew(j, a) THEN Append(@, a) ELSE @]
    /\ UNCHANGED <<bucketVars, latest, ingest, store, past>>

(* RPUSH of the new ones, each once, and LTRIM, in one transaction. *)
Deduped(s) ==
    FoldLeft(LAMBDA kept, a : IF Contains(kept, a) THEN kept ELSE Append(kept, a),
             <<>>, s)

Trimmed(s) == SubSeq(s, Later(1, Len(s) - LatestMax + 1), Len(s))

Push(j) ==
    LET all == latest \o Deduped(job[j].new) IN
    /\ job[j].at = "crawling"
    /\ job[j].todo = <<>>
    /\ latest' = Trimmed(all)
    /\ past' = [past EXCEPT !.trimmed =
                   @ \cup {all[i] : i \in 1..(Len(all) - LatestMax)}]
    /\ job' = [job EXCEPT ![j] = [Queued EXCEPT !.at = "done"]]
    /\ UNCHANGED <<bucketVars, seen, ingest, store>>

(***************************************************************************)
(* generate_scenario_batch, generate_social_posts                          *)
(***************************************************************************)

Start(j) ==
    /\ job[j].at = "queued"
    /\ job' = [job EXCEPT ![j].at = "making"]
    /\ UNCHANGED <<bucketVars, seen, latest, ingest, store, past>>

(* An item asks for a token. *)
TakeToken(j) ==
    /\ job[j].at = "making"
    /\ Len(job[j].made) < BatchSize
    /\ Acquire(j, WorkerBucket)
    /\ UNCHANGED contentVars

Taking(j) ==
    /\ job[j].at = "making"
    /\ Wake(j) \/ Command(j) \/ Failure(j)
    /\ UNCHANGED contentVars

(* The token is there and the model, or its template, gives the item.  The
   templates need no token, but an error of acquire() is not a GeminiError:
   the whole batch fails with it. *)
Make(j) ==
    /\ job[j].at = "making"
    /\ Resume(j)
    /\ \/ /\ taker[j].at = "granted"
          /\ \E title \in Titles : job' = [job EXCEPT ![j].made = Append(@, title)]
       \/ /\ taker[j].at # "granted"
          /\ job' = [job EXCEPT ![j] = [Queued EXCEPT !.at = "failed"]]
    /\ UNCHANGED <<seen, latest, ingest, store, past>>

(* What the templates may give: a batch of any titles. *)
Templates == [1..BatchSize -> Titles]

(* Without a key the items are the templates'. *)
Render(j) ==
    /\ job[j].at = "making"
    /\ job[j].made = <<>>
    /\ taker[j].at = "rest"
    /\ \E titles \in Templates : job' = [job EXCEPT ![j].made = titles]
    /\ UNCHANGED <<bucketVars, seen, latest, ingest, store, past>>

(***************************************************************************)
(* sync_content and ingest_ai_content                                      *)
(***************************************************************************)

Running == {j \in Jobs : ingest[j].at = "running"}

(* The batch is posted: once, whatever comes of it; the post may not reach
   the gateway. *)
Post(j) ==
    /\ job[j].at = "making"
    /\ Len(job[j].made) = BatchSize
    /\ ingest[j].at # "running"
    /\ job' = [job EXCEPT ![j].at = "done"]
    /\ \/ /\ ingest' = [ingest EXCEPT ![j] =
                           [at |-> "running", todo |-> job[j].made, rows |-> <<>>]]
          /\ past' = [past EXCEPT !.overlapped = @ \/ Running # {}]
       \/ UNCHANGED <<ingest, past>>
    /\ UNCHANGED <<bucketVars, seen, latest, store>>

(* _news_title_exists, _social_post_exists: the transaction's query sees the
   committed rows and, the session flushing first, its own. *)
Exists_Committed(j, title) == Contains(store, title)
Exists(j, title) == Contains(store \o ingest[j].rows, title)

Check(j) ==
    LET title == Head(ingest[j].todo) IN
    /\ ingest[j].at = "running"
    /\ ingest[j].todo # <<>>
    /\ ingest' = [ingest EXCEPT ![j].todo = Tail(@),
                                ![j].rows = IF Exists(j, title) THEN @
                                            ELSE Append(@, title)]
    /\ UNCHANGED <<bucketVars, job, seen, latest, store, past>>

Commit(j) ==
    /\ ingest[j].at = "running"
    /\ ingest[j].todo = <<>>
    /\ store' = store \o ingest[j].rows
    /\ ingest' = [ingest EXCEPT ![j] = NoPost]
    /\ UNCHANGED <<bucketVars, job, seen, latest, past>>

(* A query of the ingest fails: the transaction is rolled back. *)
Rollback(j) ==
    /\ ingest[j].at = "running"
    /\ ingest' = [ingest EXCEPT ![j] = NoPost]
    /\ UNCHANGED <<bucketVars, job, seen, latest, store, past>>

(***************************************************************************)
(* The worker's death                                                      *)
(***************************************************************************)

(* The worker dies under a job, which ARQ runs again; or a crawl fails, and is
   not.  What it had marked as seen and not listed stays seen.  (A worker that
   dies between two commands of acquire() is a Failure and then this.) *)
Die(j) ==
    /\ job[j].at \in {"crawling", "making"}
    /\ Abandon(j)
    /\ past.deaths < MaxDeaths
    /\ past' = [past EXCEPT !.deaths = @ + 1, !.lost = @ \cup Range(job[j].new)]
    /\ \E at \in IF job[j].at = "crawling" THEN {"queued", "failed"} ELSE {"queued"} :
          job' = [job EXCEPT ![j] = [Queued EXCEPT !.at = at]]
    /\ UNCHANGED <<seen, latest, ingest, store>>

JobStep(j) ==
    \/ Crawl(j) \/ Look(j) \/ Push(j)
    \/ Start(j) \/ TakeToken(j) \/ Taking(j) \/ Make(j) \/ Render(j)
    \/ Post(j) \/ Check(j) \/ Commit(j) \/ Rollback(j)
    \/ Die(j)

-----------------------------------------------------------------------------
(* Properties *)

ContentTypeOK ==
    /\ \A j \in Jobs :
          /\ job[j].at \in {"queued", "crawling", "making", "failed", "done"}
          /\ ingest[j].at \in {"none", "running"}
    /\ seen \subseteq Articles

(* An article is listed once however many crawls meet it, and one that was
   marked as seen is not passed over: it is in the list, was in it, is in the
   hands of a crawl, or was lost with a worker that died. *)
NewsListedOnce ==
    /\ IsInjective(latest)
    /\ Range(latest) \cap past.trimmed = {}
    /\ seen \subseteq Range(latest) \cup past.trimmed \cup past.lost
                      \cup UNION {Range(job[j].new) : j \in Jobs}

(* The gateway keeps an item once, though a batch may hold it twice and a job
   that died is run and posted again; the one excuse is two posts at a time. *)
StoredOnce == ContentTypeOK /\ (~past.overlapped => IsInjective(store))
================================================================================
