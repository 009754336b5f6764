--------------------------------- MODULE Tasks ---------------------------------
(***************************************************************************)
(* The tasks, the daily check-in and the daily challenges of one account   *)
(* (services/task_service.py, services/challenge_service.py,               *)
(* services/discipline_service.py): progress rows, meta tasks, streaks and *)
(* the rewards that are paid when the user claims them.                    *)
(*                                                                         *)
(* Every request is one READ COMMITTED transaction.  Progress rows carry   *)
(* no version: what a request read may be old when it writes.  What it     *)
(* wrote and has not committed is its draft; the rows of a draft are       *)
(* locked.  A rollback (a crash, an error, a deadlock victim) drops it.    *)
(***************************************************************************)
EXTENDS Naturals, Sequences, FiniteSets, SequencesExt

CONSTANTS
    Request,         \* requests served at the same time
    Task,            \* the active tasks
    Daily,           \* tasks with reset_frequency = "daily"
    Category,        \* the category of every task
    Target,          \* target_count of every task
    Reward,          \* reward_amount of every task and challenge
    Event,           \* the recorded events
    CodesOf,         \* EVENT_TASK_CODES
    OnboardingMeta,  \* the task onboarding_complete
    DailyMeta,       \* the task daily_all_4
    CheckinTask,     \* the task daily_checkin
    RankedTask,      \* the task contest_top10
    Challenge,       \* the active daily challenges
    MaxScore,        \* the discipline score is 0 .. 100
    MaxRequests,     \* bound: requests served
    MaxWrites,       \* bound: writes of the users row by the rest of the system
    MaxDay           \* bound: the days are 1 .. MaxDay

Metas == {OnboardingMeta, DailyMeta}

ASSUME TasksAssumption ==
    /\ IsFiniteSet(Task)
    /\ Daily \subseteq Task /\ CheckinTask \in Daily \ Metas /\ DailyMeta \in Daily
    /\ OnboardingMeta \in Task \ Daily
    /\ RankedTask \in Task \ Metas
    /\ Task \cap Challenge = {}
    /\ Category \in [Task -> {"onboarding", "daily", "streak", "contest", "learning"}]
    /\ \A t \in Task : Category[t] = "daily" <=> t \in Daily
    /\ Category[OnboardingMeta] = "onboarding"
    /\ Target \in [Task -> Nat \ {0}]
    /\ Reward \in [Task \cup Challenge -> Nat \ {0}]
    /\ CodesOf \in [Event -> Seq(Task \ Metas)]
    /\ \A e \in Event : \A i, j \in DOMAIN CodesOf[e] :   \* a session writes a meta row once
          /\ Category[CodesOf[e][i]] = Category[CodesOf[e][j]]
          /\ Category[CodesOf[e][i]] \in {"onboarding", "daily"}
          => i = j
    /\ MaxScore \in Nat /\ MaxRequests \in Nat /\ MaxWrites \in Nat /\ MaxDay \in Nat \ {0}

VARIABLES
    rows,       \* user_task_progress, in the order of the commits
    streak,     \* user_streaks: current, last (0: no row); history: late
    cash,       \* what tasks and challenges have added to cash_balance
    score,      \* users.discipline_score
    completed,  \* user_daily_challenges
    checkins,   \* the days on which a check-in was committed
    request,    \* the local state of every request
    served,     \* requests that arrived
    writes,     \* writes of the users row by the rest of the system
    today       \* _today()

vars == <<rows, streak, cash, score, completed, checkins, request, served, writes, today>>

Forever == 0   \* period_date is NULL

LesserOf(a, b) == IF a <= b THEN a ELSE b

-----------------------------------------------------------------------------
(* Progress rows *)

\* period_date of the row an event of that day counts on.
Period(t, day) == IF t \in Daily THEN day ELSE Forever

\* A write of one row: row 0 inserts it.  A count of 0 and a flag that is FALSE
\* stand for a column the UPDATE leaves alone.
Write(row, t, day, count, done, claimed) ==
    [row |-> row, task |-> t, day |-> day, count |-> count, done |-> done,
     claimed |-> claimed]

RowOf(w) == [task |-> w.task, day |-> w.day, count |-> w.count, done |-> w.done,
             claimed |-> w.claimed]

Merged_WholeRow(row, w) == RowOf(w)

\* The UPDATE sets the columns the session changed.
Merged(row, w) ==
    [row EXCEPT !.count = IF w.count = 0 THEN @ ELSE w.count,
                !.done = @ \/ w.done,
                !.claimed = @ \/ w.claimed]

Applied(table, w) == IF w.row = 0 THEN Append(table, RowOf(w))
                     ELSE [table EXCEPT ![w.row] = Merged(@, w)]

\* The rows _progress_task selects; more than one is an error.
Found(t, day) == {i \in DOMAIN rows : rows[i].task = t /\ rows[i].day = day}

\* Another transaction has written the row, or inserts the same unique key: NULL
\* periods are not equal to each other, so the key does not hold permanent tasks.
Held(r, w) ==
    \E q \in Request \ {r} : \E i \in DOMAIN request[q].draft :
        LET v == request[q].draft[i]
        IN  IF w.row = 0 THEN /\ v.row = 0 /\ v.task = w.task
                              /\ v.day = w.day /\ w.day # Forever
            ELSE v.row = w.row

\* uq_user_task_period refuses an insert of the draft.
Duplicates(draft) ==
    \E i \in DOMAIN draft : /\ draft[i].row = 0 /\ draft[i].day # Forever
                            /\ Found(draft[i].task, draft[i].day) # {}

-----------------------------------------------------------------------------
(* Requests *)

NoRequest == [kind |-> "none", pc |-> "idle", day |-> 0, left |-> <<>>, row |-> 0,
              count |-> 0, draft |-> <<>>, streak |-> [current |-> 0, last |-> 0],
              sql |-> "both", score |-> 0, fresh |-> FALSE]

At(r, kinds, pc) == request[r].kind \in kinds /\ request[r].pc = pc

\* The end of a request that commits nothing, or whose commit is undone.
End(r) == /\ request' = [request EXCEPT ![r] = NoRequest]
          /\ UNCHANGED <<rows, streak, cash, score, completed, checkins, served,
                         writes, today>>

\* r goes on in its transaction.
Go(r, next) == /\ request' = [request EXCEPT ![r] = next]
               /\ UNCHANGED <<rows, streak, cash, score, completed, checkins, served,
                              writes, today>>

\* r has committed a write of the users row: the other sessions' copies are old.
Superseded(r) == [q \in Request |-> IF q = r THEN NoRequest
                                    ELSE [request[q] EXCEPT !.fresh = FALSE]]

\* get_current_user loads the users row; the day is read once, at the start.
Arrive(r) ==
    /\ request[r].pc = "idle" /\ served < MaxRequests
    /\ served' = served + 1
    /\ LET Loaded(kind, pc, left) ==
               [NoRequest EXCEPT !.kind = kind, !.pc = pc, !.left = left,
                                 !.day = today, !.score = score, !.fresh = TRUE]
       IN  request' \in {[request EXCEPT ![r] = next] : next \in
               {Loaded("event", "read", CodesOf[e]) : e \in Event}
               \cup {Loaded("checkin", "streak", <<CheckinTask>>)}
               \cup {Loaded("claim", "read", <<t>>) : t \in Task}
               \cup {Loaded("challenge", "read", <<c>>) : c \in Challenge}}
    /\ UNCHANGED <<rows, streak, cash, score, completed, checkins, writes, today>>

\* An error at any point of the transaction: MultipleResultsFound, StaleDataError,
\* IntegrityError, a deadlock, a crash.
RollBack(r) == request[r].pc # "idle" /\ End(r)

-----------------------------------------------------------------------------
(* record_event *)

\* _progress_task: the row is read without a lock.
ReadProgress(r) ==
    LET q == request[r]
        t == Head(q.left)
        found == Found(t, Period(t, q.day))
    IN  /\ At(r, {"event", "checkin"}, "read") /\ q.left # <<>>
        /\ Cardinality(found) <= 1
        /\ \/ /\ \A i \in found : ~rows[i].done
              /\ Go(r, [q EXCEPT !.pc = "write",
                                 !.row = IF found = {} THEN 0 ELSE CHOOSE i \in found : TRUE,
                                 !.count = IF found = {} THEN 0
                                           ELSE rows[CHOOSE i \in found : TRUE].count])
           \/ /\ \E i \in found : rows[i].done
              /\ Go(r, [q EXCEPT !.left = Tail(@)])

Reaches(t, count) == count >= Target[t]

\* _try_complete and the flush that follows: the count that was read, plus one.
WriteProgress(r) ==
    LET q == request[r]
        t == Head(q.left)
        done == Reaches(t, q.count + 1)
        w == Write(q.row, t, Period(t, q.day), q.count + 1, done, FALSE)
        meta == done /\ Category[t] \in {"onboarding", "daily"}
    IN  /\ At(r, {"event", "checkin"}, "write")
        /\ ~Held(r, w)
        /\ Go(r, [q EXCEPT !.pc = IF meta THEN "meta" ELSE "read",
                           !.left = IF meta THEN @ ELSE Tail(@),
                           !.row = 0, !.count = 0, !.draft = Append(@, w)])

MetaOf(t) == IF Category[t] = "onboarding" THEN OnboardingMeta ELSE DailyMeta

\* The other active tasks of the category of a meta task.
Required(meta) == {t \in Task : Category[t] = Category[meta]} \ {meta}

\* The tasks among them with a completed row of that period: what is committed and
\* what the session has written itself, nothing of another open transaction.
CompletedOf(draft, meta, day) ==
    {t \in Required(meta) :
        \/ \E i \in DOMAIN rows : rows[i].task = t /\ rows[i].day = day /\ rows[i].done
        \/ \E i \in DOMAIN draft : draft[i].task = t /\ draft[i].day = day /\ draft[i].done}

Enough_AllButOne(draft, meta, day) ==
    LET required == Cardinality(Required(meta))
        done == Cardinality(CompletedOf(draft, meta, day))
    IN  required >= 2 /\ done >= required - 1

Enough(draft, meta, day) ==
    LET required == Cardinality(Required(meta))
        done == Cardinality(CompletedOf(draft, meta, day))
    IN  IF meta = OnboardingMeta THEN required > 0 /\ done >= required
        ELSE required >= 2 /\ done >= required - 1

\* _maybe_complete_onboarding and _maybe_complete_daily: the day is read again.
CompleteMeta(r) ==
    LET q == request[r]
        meta == MetaOf(Head(q.left))
        day == Period(meta, today)
        found == Found(meta, day)
        enough == Enough(q.draft, meta, day)
        row == IF found = {} THEN 0 ELSE CHOOSE i \in found : TRUE
        w == Write(row, meta, day, IF enough THEN 1 ELSE 0, enough, FALSE)
        kept == \E i \in found : rows[i].done \/ ~enough   \* a new row is inserted anyway
        next == [q EXCEPT !.pc = "read", !.left = Tail(@)]
    IN  /\ At(r, {"event", "checkin"}, "meta")
        /\ Cardinality(found) <= 1
        /\ \/ kept /\ Go(r, next)
           \/ ~kept /\ ~Held(r, w) /\ Go(r, [next EXCEPT !.draft = Append(@, w)])

\* The commit of record_event; without a change there is none.
CommitEvent(r) ==
    LET q == request[r]
    IN  /\ At(r, {"event"}, "read") /\ q.left = <<>>
        /\ ~Duplicates(q.draft)
        /\ rows' = FoldLeft(Applied, rows, q.draft)
        /\ request' = [request EXCEPT ![r] = NoRequest]
        /\ UNCHANGED <<streak, cash, score, completed, checkins, served, writes, today>>

-----------------------------------------------------------------------------
(* checkin *)

\* The streak of a check-in on that day.
Continued_Never(s, day) == [current |-> s.current + 1, last |-> day]

Continued(s, day) ==
    [current |-> IF s.last = day - 1 /\ s.last # 0 THEN s.current + 1 ELSE 1,
     last    |-> day]

\* What the session writes of the streak row: all of it when it found none, and in an
\* UPDATE only the columns whose value is not the one it read.
Statement(read, next) == IF read.last = 0 THEN "insert"
                         ELSE IF next.current = read.current THEN "last" ELSE "both"

\* The streak row is read without a lock.
ReadStreak(r) ==
    LET q == request[r]
        next == Continued(streak, q.day)
    IN  /\ At(r, {"checkin"}, "streak")
        /\ \/ streak.last = q.day /\ End(r)   \* already_checked_in
           \/ /\ streak.last # q.day
              /\ Go(r, [q EXCEPT !.pc = "flush", !.streak = next,
                                 !.sql = Statement(streak, next)])

\* The flush before the next query locks the streak row, or inserts the only one.
FlushStreak(r) ==
    /\ At(r, {"checkin"}, "flush")
    /\ request[r].sql = "insert" => streak.last = 0
    /\ \A q \in Request \ {r} : ~(/\ request[q].kind = "checkin"
                                  /\ request[q].pc \in {"read", "write", "meta", "rest"})
    /\ Go(r, [request[r] EXCEPT !.pc = "read"])

\* _maybe_complete_streaks: the tasks the streak has reached.
StreakTasks(current) == {t \in Task : Category[t] = "streak" /\ Target[t] <= current}

\* The rows of the streak tasks: a completed one is left alone.
StreakWrites(current) ==
    LET open == {t \in StreakTasks(current) :
                    \A i \in Found(t, Forever) : ~rows[i].done}
    IN  SetToSeq({Write(IF Found(t, Forever) = {} THEN 0
                        ELSE CHOOSE i \in Found(t, Forever) : TRUE,
                        t, Forever, Target[t], TRUE, FALSE) : t \in open})

\* The streak row when q commits.  late: a check-in that left current_streak out was
\* overtaken by the check-ins of other days.
StreakRow(q) ==
    IF q.sql = "last"
    THEN [streak EXCEPT !.last = q.day,
                        !.late = \/ @
                                 \/ /\ streak.current # q.streak.current
                                    /\ streak.last \notin {q.day - 1, q.day}]
    ELSE [current |-> q.streak.current, last |-> q.day, late |-> streak.late]

Gain(s) == LesserOf(s + 1, MaxScore) - s

\* apply_discipline, the streak tasks and the commit.  The users row is written,
\* and its version checked, only when the score changes.
CommitCheckin(r) ==
    LET q == request[r]
        draft == q.draft \o StreakWrites(q.streak.current)
    IN  /\ At(r, {"checkin"}, "read") /\ q.left = <<>>
        /\ ~Duplicates(draft)
        /\ \A t \in StreakTasks(q.streak.current) : Cardinality(Found(t, Forever)) <= 1
        /\ \A i \in DOMAIN draft : ~Held(r, draft[i])
        /\ Gain(q.score) > 0 => q.fresh
        /\ rows' = FoldLeft(Applied, rows, draft)
        /\ streak' = StreakRow(q)
        /\ checkins' = checkins \cup {q.day}
        /\ score' = IF Gain(q.score) > 0 THEN q.score + Gain(q.score) ELSE score
        /\ request' = IF Gain(q.score) > 0 THEN Superseded(r)
                      ELSE [request EXCEPT ![r] = NoRequest]
        /\ UNCHANGED <<cash, completed, served, writes, today>>

-----------------------------------------------------------------------------
(* claim_task *)

\* The row is read without a lock.  A rank among the ten best completes contest_top10
\* on the spot.
ReadClaim(r) ==
    LET q == request[r]
        t == Head(q.left)
        found == Found(t, Period(t, q.day))
        row == IF found = {} THEN 0 ELSE CHOOSE i \in found : TRUE
    IN  /\ At(r, {"claim"}, "read")
        /\ Cardinality(found) <= 1
        /\ \/ /\ t = RankedTask \/ \E i \in found : rows[i].done
              /\ \A i \in found : ~rows[i].claimed
              /\ Go(r, [q EXCEPT !.pc = "pay", !.row = row])
           \/ End(r)   \* not completed, claimed before, or not among the ten best

MayPay_Unversioned(r) == TRUE

\* The users row is still the one the session has loaded.
MayPay(r) == request[r].fresh

\* _credit_reward and the commit.
PayClaim(r) ==
    LET q == request[r]
        t == Head(q.left)
        w == Write(q.row, t, Period(t, q.day), IF t = RankedTask THEN Target[t] ELSE 0,
                   t = RankedTask, TRUE)
    IN  /\ At(r, {"claim"}, "pay")
        /\ MayPay(r)
        /\ ~Held(r, w) /\ ~Duplicates(<<w>>)
        /\ rows' = Applied(rows, w)
        /\ cash' = cash + Reward[t]
        /\ request' = Superseded(r)
        /\ UNCHANGED <<streak, score, completed, checkins, served, writes, today>>

-----------------------------------------------------------------------------
(* complete_challenge *)

ReadChallenge(r) ==
    LET q == request[r]
    IN  /\ At(r, {"challenge"}, "read")
        /\ \/ Head(q.left) \in completed /\ End(r)
           \/ Head(q.left) \notin completed /\ Go(r, [q EXCEPT !.pc = "pay"])

\* The reward, the point and the record; uq_user_challenge refuses a second one.
PayChallenge(r) ==
    LET q == request[r]
        c == Head(q.left)
    IN  /\ At(r, {"challenge"}, "pay")
        /\ MayPay(r) /\ c \notin completed
        /\ completed' = completed \cup {c}
        /\ cash' = cash + Reward[c]
        /\ score' = q.score + Gain(q.score)
        /\ request' = Superseded(r)
        /\ UNCHANGED <<rows, streak, checkins, served, writes, today>>

-----------------------------------------------------------------------------
(* The rest of the system *)

\* A trade, a violation or a reflection writes the users row.
Elsewhere ==
    /\ writes < MaxWrites
    /\ writes' = writes + 1
    /\ score' \in {0, LesserOf(score + 1, MaxScore)}
    /\ request' = [q \in Request |-> [request[q] EXCEPT !.fresh = FALSE]]
    /\ UNCHANGED <<rows, streak, cash, completed, checkins, served, today>>

Midnight ==
    /\ today < MaxDay
    /\ today' = today + 1
    /\ UNCHANGED <<rows, streak, cash, score, completed, checkins, request, served, writes>>

-----------------------------------------------------------------------------
Init ==
    /\ rows = <<>>
    /\ streak = [current |-> 0, last |-> 0, late |-> FALSE]
    /\ cash = 0
    /\ score \in {0, MaxScore}
    /\ completed = {}
    /\ checkins = {}
    /\ request = [r \in Request |-> NoRequest]
    /\ served = 0
    /\ writes = 0
    /\ today = 1

Serve(r) ==
    \/ ReadProgress(r)
    \/ WriteProgress(r)
    \/ CompleteMeta(r)
    \/ CommitEvent(r)
    \/ ReadStreak(r)
    \/ FlushStreak(r)
    \/ CommitCheckin(r)
    \/ ReadClaim(r)
    \/ PayClaim(r)
    \/ ReadChallenge(r)
    \/ PayChallenge(r)
    \/ RollBack(r)

Next ==
    \/ \E r \in Request : Arrive(r) \/ Serve(r)
    \/ Elsewhere
    \/ Midnight

Spec == Init /\ [][Next]_vars

-----------------------------------------------------------------------------
(* What holds of the tasks, the check-in and the rewards. *)

TypeOK ==
    /\ rows \in Seq([task : Task, day : Nat, count : Nat, done : BOOLEAN, claimed : BOOLEAN])
    /\ streak \in [current : Nat, last : 0 .. MaxDay, late : BOOLEAN]
    /\ cash \in Nat
    /\ score \in 0 .. MaxScore
    /\ completed \subseteq Challenge
    /\ checkins \subseteq 1 .. MaxDay
    /\ today \in 1 .. MaxDay

\* A meta task is completed only over completed tasks of its own period: all the
\* others of onboarding, all but one of the day's.
MetaDeserved ==
    /\ TypeOK
    /\ \A i \in DOMAIN rows :
          rows[i].done /\ rows[i].task \in {OnboardingMeta, DailyMeta} =>
              LET meta == rows[i].task
                  missing == Required(meta) \ CompletedOf(<<>>, meta, rows[i].day)
              IN  Cardinality(missing) <= IF meta = DailyMeta THEN 1 ELSE 0

\* A streak of n days ends with n days in a row on which a check-in was committed,
\* whatever check-ins overlap, at midnight too.  The exception, late: a check-in that
\* starts the streak again at 1, the value it read, writes its day alone, and by then
\* check-ins of other days had made the streak longer.
StreakHonest ==
    ~streak.late =>
        /\ streak.current <= streak.last
        /\ streak.last - streak.current + 1 .. streak.last \subseteq checkins

\* No write takes back that a task is completed or claimed: an event that read the
\* row before the task was completed writes its count, and nothing else.
CompletionSticks ==
    [][\A i \in DOMAIN rows :
          /\ i \in DOMAIN rows'
          /\ rows[i].done => rows'[i].done
          /\ rows[i].claimed => rows'[i].claimed]_vars

-----------------------------------------------------------------------------
(* The rewards implement the ledger *)

Items == (Task \X (0 .. MaxDay)) \cup (Challenge \X {Forever})

WorthOf == [item \in Items |-> Reward[item[1]]]

PaidItems == {<<rows[i].task, rows[i].day>> : i \in {j \in DOMAIN rows : rows[j].claimed}}
             \cup {<<c, Forever>> : c \in completed}

Ledger == INSTANCE RewardLedger
          WITH Item <- Items, Worth <- WorthOf, paid <- PaidItems

\* A task of a period, or a challenge, pays its reward once, however many requests
\* claim it at the same time, and the cash is the sum of these rewards.
PaidOnce == Ledger!Spec
=============================================================================
