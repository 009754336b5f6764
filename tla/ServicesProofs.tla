---------------------------- MODULE ServicesProofs ----------------------------
(***************************************************************************)
(* Proofs about the tasks service of the gateway and about the AI engine.  *)
(*                                                                         *)
(* The tasks, the check-in and the challenges, for any number of requests, *)
(* tasks, events, challenges and days: a meta task is completed over what  *)
(* it requires, a streak over the days it counts, nothing that was         *)
(* completed or claimed is taken back, and every reward is paid once,      *)
(* which implements RewardLedger.tla.  The inductive invariant, TasksInv,  *)
(* says what every request knows while others commit: rows only grow, so   *)
(* that the row it read is still there and what it has seen completed      *)
(* stays completed; and as long as no other session has written the users  *)
(* row (fresh), nobody else has claimed.                                   *)
(*                                                                         *)
(* The AI engine, for any number of coroutines, questions, crawls and      *)
(* articles: the limiter keeps its budget, at any burst and any rate, and  *)
(* so implements Budget.tla.  While no lock has lapsed under its holder,   *)
(* the coroutine between the two reads and the two writes is alone there,  *)
(* so that what it read is what the bucket holds; and what the bucket      *)
(* holds, with what was spent, is never more than the burst and the ticks  *)
(* up to the stamp, those refilled twice counted twice.  Every step of the *)
(* questions, of the crawls and of the gateway is a step of the limiter or *)
(* leaves it alone, so that it does so under both its users at once.  What *)
(* was screened stays with the question it was screened for (AnswerInv);   *)
(* what a crawl or an ingest has in its hands is nowhere else              *)
(* (ContentInv).                                                           *)
(***************************************************************************)
EXTENDS Tasks, AiEngine, TokenBucketProperties, SequenceTheorems, SumProofs

ProgressRows ==
    [task : Task, day : Nat, count : Nat, done : BOOLEAN, claimed : BOOLEAN]
Writes ==
    [row : Nat, task : Task, day : 0 .. MaxDay, count : Nat, done : BOOLEAN,
     claimed : BOOLEAN]

-----------------------------------------------------------------------------
(* What a commit does to the rows *)

\* Row and write are of the same task and period.
Same(a, b) == a.task = b.task /\ a.day = b.day

\* The write inserts, or updates a row of its own task and period.
Fits(table, w) == w.row = 0 \/ (w.row \in DOMAIN table /\ Same(table[w.row], w))

\* No row is lost, and none loses what it says is completed or claimed.
Grown(old, new) ==
    /\ Len(old) <= Len(new)
    /\ \A i \in DOMAIN old : /\ Same(new[i], old[i])
                             /\ old[i].done => new[i].done
                             /\ old[i].claimed => new[i].claimed

\* Some row of the table says what the write says.
Recorded(table, w) ==
    \E j \in DOMAIN table : /\ Same(table[j], w)
                            /\ w.done => table[j].done
                            /\ w.claimed => table[j].claimed

\* What the new table says of row j was said before or is in a write of W.
Sourced(old, new, W, j) ==
    /\ new[j].done => \/ j \in DOMAIN old /\ old[j].done
                      \/ \E w \in W : w.done /\ Same(new[j], w)
    /\ new[j].claimed => \/ j \in DOMAIN old /\ old[j].claimed
                         \/ \E w \in W : w.claimed /\ Same(new[j], w)

\* The new table is the old one and the writes of W.
Commits(old, new, W) ==
    /\ new \in Seq(ProgressRows)
    /\ Grown(old, new)
    /\ \A w \in W : Recorded(new, w)
    /\ \A j \in DOMAIN new : Sourced(old, new, W, j)

\* Growing is transitive.
LEMMA GrownTwice ==
    ASSUME NEW a \in Seq(ProgressRows), NEW b \in Seq(ProgressRows),
           NEW c \in Seq(ProgressRows), Grown(a, b), Grown(b, c)
    PROVE  Grown(a, c)
<1>1. /\ DOMAIN a = 1 .. Len(a) /\ DOMAIN b = 1 .. Len(b) /\ DOMAIN c = 1 .. Len(c)
      /\ Len(a) \in Nat /\ Len(b) \in Nat /\ Len(c) \in Nat
  OBVIOUS
<1>2. Len(a) <= Len(b) /\ Len(b) <= Len(c)  BY DEF Grown
<1>3. \A i \in DOMAIN a : i \in DOMAIN b  BY <1>1, <1>2
<1>4. Len(a) <= Len(c)  BY <1>1, <1>2
<1>5. QED  BY <1>3, <1>4 DEF Grown, Same

\* A write that fits still fits when the rows have grown.
LEMMA StillFits ==
    ASSUME NEW a \in Seq(ProgressRows), NEW b \in Seq(ProgressRows), Grown(a, b),
           NEW w, Fits(a, w)
    PROVE  Fits(b, w)
<1>1. DOMAIN a = 1 .. Len(a) /\ DOMAIN b = 1 .. Len(b) /\ Len(a) \in Nat /\ Len(b) \in Nat
  OBVIOUS
<1>2. Len(a) <= Len(b)  BY DEF Grown
<1>3. \A i \in DOMAIN a : i \in DOMAIN b  BY <1>1, <1>2
<1>4. QED  BY <1>3 DEF Fits, Grown, Same

\* One write, inserted or merged into its row.
LEMMA AppliedOne ==
    ASSUME NEW table \in Seq(ProgressRows), NEW w \in Writes, Fits(table, w)
    PROVE  Commits(table, Applied(table, w), {w})
<1> DEFINE new == Applied(table, w)
<1>0. DOMAIN table = 1 .. Len(table) /\ Len(table) \in Nat  OBVIOUS
<1>1. CASE w.row = 0
  <2>1. RowOf(w) \in ProgressRows  BY DEF RowOf, Writes, ProgressRows
  <2>2. new = Append(table, RowOf(w))  BY <1>1 DEF Applied
  <2>3. /\ new \in Seq(ProgressRows) /\ Len(new) = Len(table) + 1
        /\ \A i \in 1 .. Len(table) : new[i] = table[i]
        /\ new[Len(table) + 1] = RowOf(w)
    BY <2>1, <2>2
  <2>4. DOMAIN new = 1 .. Len(table) + 1  BY <2>3
  <2> HIDE DEF new
  <2>5. Grown(table, new)  BY <1>0, <2>3 DEF Grown, Same
  <2>6. Recorded(new, w)
    <3>1. Len(table) + 1 \in DOMAIN new  BY <1>0, <2>4
    <3>2. QED  BY <2>3, <3>1 DEF Recorded, Same, RowOf
  <2>7. ASSUME NEW j \in DOMAIN new PROVE Sourced(table, new, {w}, j)
    <3>1. CASE j \in 1 .. Len(table)  BY <1>0, <2>3, <3>1 DEF Sourced
    <3>2. CASE j = Len(table) + 1  BY <2>3, <3>2 DEF Sourced, Same, RowOf
    <3>3. QED  BY <1>0, <2>4, <2>7, <3>1, <3>2
  <2>8. QED  BY <2>3, <2>5, <2>6, <2>7 DEF Commits, new
<1>2. CASE w.row # 0
  <2>0. w.row \in DOMAIN table /\ Same(table[w.row], w)  BY <1>2 DEF Fits
  <2>1. new = [table EXCEPT ![w.row] = Merged(table[w.row], w)]
    BY <1>2 DEF Applied
  <2> DEFINE row == table[w.row]  m == Merged(row, w)
  <2>2. row \in ProgressRows  BY <1>0, <2>0
  <2>3. /\ m \in ProgressRows /\ Same(m, row)
        /\ m.done <=> row.done \/ w.done
        /\ m.claimed <=> row.claimed \/ w.claimed
    BY <2>2 DEF Merged, ProgressRows, Writes, Same
  <2> HIDE DEF new
  <2>10. new = [table EXCEPT ![w.row] = m]  BY <2>1
  <2> HIDE DEF m
  <2>4. new \in Seq(ProgressRows) /\ Len(new) = Len(table)
    BY <1>0, <2>0, <2>3, <2>10
  <2>5. /\ DOMAIN new = DOMAIN table /\ new[w.row] = m
        /\ \A j \in DOMAIN table \ {w.row} : new[j] = table[j]
    BY <2>0, <2>10
  <2>6. Grown(table, new)
    <3>1. ASSUME NEW i \in DOMAIN table
          PROVE  /\ Same(new[i], table[i])
                 /\ table[i].done => new[i].done
                 /\ table[i].claimed => new[i].claimed
      BY <2>3, <2>5 DEF Same
    <3>2. QED  BY <1>0, <2>4, <3>1 DEF Grown
  <2>7. Recorded(new, w)  BY <2>0, <2>3, <2>5 DEF Recorded, Same
  <2>8. ASSUME NEW j \in DOMAIN new PROVE Sourced(table, new, {w}, j)
    <3>1. CASE j = w.row  BY <2>0, <2>3, <2>5, <3>1 DEF Sourced, Same
    <3>2. CASE j # w.row  BY <2>5, <2>8, <3>2 DEF Sourced
    <3>3. QED  BY <3>1, <3>2
  <2>9. QED  BY <2>4, <2>6, <2>7, <2>8 DEF Commits, new
<1>3. QED  BY <1>1, <1>2

\* A commit after a commit is one of the writes of both.
LEMMA CommitsMore ==
    ASSUME NEW a \in Seq(ProgressRows), NEW b, NEW c, NEW W, NEW w,
           Commits(a, b, W), Commits(b, c, {w})
    PROVE  Commits(a, c, W \cup {w})
<1>1. b \in Seq(ProgressRows) /\ c \in Seq(ProgressRows) /\ Grown(a, b) /\ Grown(b, c)
  BY DEF Commits
<1>2. Grown(a, c)  BY <1>1, GrownTwice
<1>3. ASSUME NEW v \in W \cup {w} PROVE Recorded(c, v)
  <2>1. CASE v = w  BY <2>1 DEF Commits
  <2>2. CASE v \in W
    <3>1. PICK j \in DOMAIN b : /\ Same(b[j], v)
                                /\ v.done => b[j].done
                                /\ v.claimed => b[j].claimed
      BY <2>2 DEF Commits, Recorded
    <3>2. j \in DOMAIN c
      <4>1. DOMAIN b = 1 .. Len(b) /\ DOMAIN c = 1 .. Len(c) /\ Len(b) \in Nat /\ Len(c) \in Nat
        BY <1>1
      <4>2. Len(b) <= Len(c)  BY <1>1 DEF Grown
      <4>3. QED  BY <4>1, <4>2
    <3>3. /\ Same(c[j], b[j])
          /\ b[j].done => c[j].done
          /\ b[j].claimed => c[j].claimed
      BY <1>1 DEF Grown
    <3>4. QED  BY <3>1, <3>2, <3>3 DEF Recorded, Same
  <2>3. QED  BY <2>1, <2>2
<1>4. ASSUME NEW j \in DOMAIN c PROVE Sourced(a, c, W \cup {w}, j)
  <2>1. Sourced(b, c, {w}, j)  BY DEF Commits
  <2>2. j \in DOMAIN b => Sourced(a, b, W, j) /\ Same(c[j], b[j])
    BY <1>1 DEF Commits, Grown
  <2>3. QED  BY <2>1, <2>2 DEF Sourced, Same
<1>5. QED  BY <1>1, <1>2, <1>3, <1>4 DEF Commits

\* A commit of nothing changes nothing.
LEMMA CommitsNone ==
    ASSUME NEW a \in Seq(ProgressRows) PROVE Commits(a, a, {})
  BY DEF Commits, Grown, Same, Sourced

-----------------------------------------------------------------------------
(* The fold over a draft, as a table of what some of its writes make of the rows *)

\* h is the table of what the writes of s at every set of places make of the rows.
Folds(h, rws, s, S) ==
    h = [D \in SUBSET S |-> IF D = {} THEN rws ELSE Applied(h[But(D)], s[Max(D)])]

\* What such a table holds for one set of places.
LEMMA FoldsValue ==
    ASSUME NEW rws, NEW s, NEW S, NEW h, Folds(h, rws, s, S), NEW D \in SUBSET S
    PROVE  h[D] = IF D = {} THEN rws ELSE Applied(h[But(D)], s[Max(D)])
  BY DEF Folds

\* Two tables agree wherever both have an entry.
LEMMA FoldsUnique ==
    ASSUME NEW rws, NEW s, NEW S, PlaceSet(S), NEW T \in SUBSET S,
           NEW h, NEW k, Folds(h, rws, s, S), Folds(k, rws, s, T)
    PROVE  \A D \in SUBSET T : h[D] = k[D]
<1> DEFINE F == {D \in SUBSET T : h[D] # k[D]}
<1> SUFFICES ASSUME F # {} PROVE FALSE  OBVIOUS
<1>1. F \in SUBSET SUBSET S  OBVIOUS
<1>2. IsFiniteSet(S)  BY SomePlaces
<1>3. PICK m \in F : \A t \in F : t \subseteq m => t = m
  <2> HIDE DEF F
  <2> QED  BY <1>1, <1>2, LeastMember
<1>4. m \in SUBSET T /\ m \in SUBSET S /\ PlaceSet(m)
  <2>1. m \in SUBSET T /\ m \in SUBSET S  OBVIOUS
  <2> QED  BY <2>1, SomePlaces
<1>5. h[m] = IF m = {} THEN rws ELSE Applied(h[But(m)], s[Max(m)])
  BY <1>4, FoldsValue
<1>6. k[m] = IF m = {} THEN rws ELSE Applied(k[But(m)], s[Max(m)])
  BY <1>4, FoldsValue
<1>7. m # {}  BY <1>5, <1>6
<1>8. But(m) \in SUBSET T /\ But(m) \subseteq m /\ But(m) # m
  BY <1>4, <1>7, LastPlace
<1>9. h[But(m)] = k[But(m)]  BY <1>3, <1>8
<1>10. QED  BY <1>5, <1>6, <1>7, <1>9

\* Every sequence has its table.
LEMMA FoldsExist ==
    ASSUME NEW rws, NEW s, NEW S, PlaceSet(S)
    PROVE  \E h : Folds(h, rws, s, S)
<1> DEFINE F == {T \in SUBSET S : ~ \E h : Folds(h, rws, s, T)}
<1> SUFFICES ASSUME F # {} PROVE FALSE  OBVIOUS
<1>1. F \in SUBSET SUBSET S  OBVIOUS
<1>2. IsFiniteSet(S)  BY SomePlaces
<1>3. PICK T \in F : \A t \in F : t \subseteq T => t = T
  <2> HIDE DEF F
  <2> QED  BY <1>1, <1>2, LeastMember
<1>4. PlaceSet(T)
  <2>1. T \in SUBSET S  OBVIOUS
  <2> QED  BY <2>1, SomePlaces
<1> DEFINE H(D) == CHOOSE h : Folds(h, rws, s, D)
           g == [D \in SUBSET T |-> IF D = {} THEN rws
                                    ELSE Applied(H(But(D))[But(D)], s[Max(D)])]
<1>5. ASSUME NEW D \in SUBSET T, D # T  PROVE Folds(H(D), rws, s, D)
  <2>1. \E h : Folds(h, rws, s, D)  BY <1>3, <1>5
  <2> QED  BY <2>1
<1>6. ASSUME NEW D \in SUBSET T, D # {}  PROVE g[But(D)] = H(But(D))[But(D)]
  <2> DEFINE r == But(D)
  <2>1. PlaceSet(D)  BY <1>4, <1>6, SomePlaces
  <2>2. r \in SUBSET T /\ r # T  BY <1>6, <2>1, LastPlace
  <2>3. Folds(H(r), rws, s, r)  BY <1>5, <2>2
  <2> HIDE DEF r, H
  <2>4. H(r)[r] = IF r = {} THEN rws ELSE Applied(H(r)[But(r)], s[Max(r)])
    BY <2>3, FoldsValue
  <2>5. CASE r = {}  BY <2>2, <2>4, <2>5 DEF r
  <2>6. CASE r # {}
    <3>1. PlaceSet(r)  BY <1>4, <2>2, SomePlaces
    <3>2. But(r) \in SUBSET r /\ But(r) \in SUBSET T /\ But(r) # T
      BY <2>2, <2>6, <3>1, LastPlace
    <3>3. Folds(H(But(r)), rws, s, But(r))  BY <1>5, <3>2
    <3>4. H(r)[But(r)] = H(But(r))[But(r)]
      BY <2>3, <3>1, <3>2, <3>3, FoldsUnique
    <3>5. g[r] = Applied(H(But(r))[But(r)], s[Max(r)])  BY <2>2, <2>6
    <3>6. QED  BY <2>4, <2>6, <3>4, <3>5 DEF r
  <2>7. QED  BY <2>5, <2>6
<1>7. Folds(g, rws, s, T)
  <2> HIDE DEF H
  <2>1. ASSUME NEW D \in SUBSET T
        PROVE  (IF D = {} THEN rws ELSE Applied(H(But(D))[But(D)], s[Max(D)]))
                 = (IF D = {} THEN rws ELSE Applied(g[But(D)], s[Max(D)]))
    <3> HIDE DEF g
    <3> QED  BY <1>6
  <2>2. g = [D \in SUBSET T |-> IF D = {} THEN rws ELSE Applied(g[But(D)], s[Max(D)])]
    BY <2>1
  <2> QED  BY <2>2 DEF Folds
<1>8. QED  BY <1>7

\* What a commit writes is the entry of all the places of the draft.
LEMMA CommitIsFolds ==
    ASSUME NEW rws, NEW draft
    PROVE  FoldLeft(Applied, rws, draft)
             = (CHOOSE h : Folds(h, rws, draft, DOMAIN draft))[DOMAIN draft]
  BY Zenon DEF FoldLeft, MapThenFoldSet, Folds, But

\* A commit records every write of the draft, and nothing else.
LEMMA CommitOf ==
    ASSUME NEW old \in Seq(ProgressRows), NEW draft \in Seq(Writes),
           \A i \in DOMAIN draft : Fits(old, draft[i])
    PROVE  Commits(old, FoldLeft(Applied, old, draft), Range(draft))
<1> DEFINE S == DOMAIN draft
           h == CHOOSE h : Folds(h, old, draft, S)
           Of(D) == {draft[i] : i \in D}
           Bad == {D \in SUBSET S : ~Commits(old, h[D], Of(D))}
<1>1. S = 1 .. Len(draft) /\ Len(draft) \in Nat /\ \A i \in S : draft[i] \in Writes
  OBVIOUS
<1>2. PlaceSet(S)  BY <1>1 DEF PlaceSet
<1> HIDE DEF S
<1>3. Folds(h, old, draft, S)
  <2>1. \E k : Folds(k, old, draft, S)  BY <1>2, FoldsExist
  <2>2. QED  BY <2>1
<1>4. FoldLeft(Applied, old, draft) = h[S]  BY CommitIsFolds DEF S
<1> HIDE DEF h
<1>5. SUFFICES ASSUME Bad # {} PROVE FALSE
  <2>1. Of(S) = Range(draft)  BY DEF Range, S
  <2>2. S \in SUBSET S  OBVIOUS
  <2>3. Bad = {} => Commits(old, h[S], Of(S))  BY <2>2
  <2> HIDE DEF Bad, Of
  <2>4. QED  BY <1>4, <2>1, <2>3
<1>6. PICK D \in Bad : \A t \in Bad : t \subseteq D => t = D
  <2>1. Bad \in SUBSET SUBSET S /\ IsFiniteSet(S)  BY <1>2, SomePlaces
  <2> HIDE DEF Bad
  <2>2. QED  BY <1>5, <2>1, LeastMember
<1>7. D \in SUBSET S /\ PlaceSet(D)
  <2>1. D \in SUBSET S  OBVIOUS
  <2>2. QED  BY <1>2, <2>1, SomePlaces
<1>8. h[D] = IF D = {} THEN old ELSE Applied(h[But(D)], draft[Max(D)])
  BY <1>3, <1>7, FoldsValue
<1>9. CASE D = {}
  <2>1. Of(D) = {}  BY <1>9
  <2>2. Commits(old, h[D], Of(D))  BY <1>8, <1>9, <2>1, CommitsNone
  <2>3. QED  BY <2>2
<1>10. CASE D # {}
  <2> DEFINE E == But(D)  w == draft[Max(D)]
  <2>1. Max(D) \in D /\ E \subseteq D /\ E # D  BY <1>7, <1>10, LastPlace
  <2>2. Commits(old, h[E], Of(E))  BY <1>6, <1>7, <2>1
  <2>3. w \in Writes /\ Fits(old, w)  BY <1>1, <1>7, <2>1 DEF S
  <2>4. h[D] = Applied(h[E], w)  BY <1>8, <1>10
  <2>5. Of(D) = Of(E) \cup {w}  BY <2>1 DEF But
  <2> HIDE DEF E, w, Of
  <2>6. h[E] \in Seq(ProgressRows) /\ Grown(old, h[E])  BY <2>2 DEF Commits
  <2>7. Fits(h[E], w)  BY <2>3, <2>6, StillFits
  <2>8. Commits(h[E], Applied(h[E], w), {w})  BY <2>3, <2>6, <2>7, AppliedOne
  <2>9. Commits(old, Applied(h[E], w), Of(E) \cup {w})  BY <2>2, <2>8, CommitsMore
  <2>10. Commits(old, h[D], Of(D))  BY <2>4, <2>5, <2>9
  <2>11. QED  BY <2>10 DEF Of
<1>11. QED  BY <1>9, <1>10

-----------------------------------------------------------------------------
(* What a request knows *)

RequestRows ==
    [kind : {"none", "event", "checkin", "claim", "challenge"},
     pc : {"idle", "streak", "flush", "read", "write", "meta", "pay"},
     day : 0 .. MaxDay, left : Seq(Task \cup Challenge), row : Nat, count : Nat,
     draft : Seq(Writes), streak : [current : Nat, last : 0 .. MaxDay],
     sql : {"insert", "last", "both"}, score : 0 .. MaxScore, fresh : BOOLEAN]

\* The tasks a meta task requires and that this session does not see completed.
Missing(draft, meta, day) == Required(meta) \ CompletedOf(draft, meta, day)

\* How many of them may be missing.
Spare(meta) == IF meta = DailyMeta THEN 1 ELSE 0

Deserves(draft, meta, day) == Cardinality(Missing(draft, meta, day)) <= Spare(meta)

\* What a session that records an event has written fits the rows, claims nothing
\* and completes a meta task only over what the session sees completed.
DraftOK(draft) ==
    \A i \in DOMAIN draft :
        /\ Fits(rows, draft[i])
        /\ ~draft[i].claimed
        /\ draft[i].done /\ draft[i].task \in Metas
             => Deserves(draft, draft[i].task, draft[i].day)

\* The row a session has read, of the task at hand.
Read(q, t) == Fits(rows, Write(q.row, t, Period(t, q.day), 0, FALSE, FALSE))

EventOK(q) ==
    /\ q.left \in Seq(Task \ Metas)
    /\ q.pc \in {"write", "meta"} => q.left # <<>>
    /\ q.pc = "write" => Read(q, Head(q.left))
    /\ DraftOK(q.draft)

\* A streak that ends on the day of the check-in, which is not committed yet.
StreakReady(q) ==
    /\ q.streak.last = q.day
    /\ ~streak.late => /\ q.streak.current \in 1 .. q.day
                       /\ q.day - q.streak.current + 1 .. q.day - 1 \subseteq checkins

CheckinOK(q) == /\ q.day \in 1 .. MaxDay
                /\ q.pc # "streak" => StreakReady(q)

Unclaimed(t, day) ==
    \A i \in DOMAIN rows : rows[i].task = t /\ rows[i].day = day => ~rows[i].claimed

\* As long as nobody else has written the users row, nobody else has claimed.
ClaimOK(q) ==
    \E t \in Task : /\ q.left = <<t>>
                    /\ q.pc = "pay" => /\ Read(q, t)
                                       /\ q.fresh => Unclaimed(t, Period(t, q.day))

ChallengeOK(q) == \E c \in Challenge : q.left = <<c>>

RequestOK(q) ==
    /\ q.kind \in {"event", "checkin"} => EventOK(q)
    /\ q.kind = "checkin" => CheckinOK(q)
    /\ q.kind = "claim" => ClaimOK(q)
    /\ q.kind = "challenge" => ChallengeOK(q)

MetasDeserved ==
    \A i \in DOMAIN rows :
        rows[i].done /\ rows[i].task \in Metas => Deserves(<<>>, rows[i].task, rows[i].day)

TasksInv ==
    /\ TypeOK
    /\ request \in [Request -> RequestRows]
    /\ \A r \in Request : RequestOK(request[r])
    /\ MetasDeserved
    /\ StreakHonest

-----------------------------------------------------------------------------
(* What the others' commits leave true *)

\* With more rows completed, no more tasks are missing.
LEMMA MissingLess ==
    ASSUME NEW draft, NEW meta, NEW day, Deserves(draft, meta, day),
           NEW M, M \subseteq Missing(draft, meta, day)
    PROVE  Cardinality(M) <= Spare(meta)
<1> DEFINE N == Missing(draft, meta, day)
<1>1. IsFiniteSet(N)
  <2>1. IsFiniteSet(Task) /\ N \subseteq Task  BY TasksAssumption DEF Missing, Required
  <2>2. QED  BY <2>1, FS_Subset
<1> HIDE DEF N
<1>2. M \subseteq N  BY DEF N
<1>3. Cardinality(M) <= Cardinality(N)  BY <1>1, <1>2, FS_Subset
<1>4. Cardinality(M) \in Nat /\ Cardinality(N) \in Nat
  BY <1>1, <1>2, FS_Subset, FS_CardinalityType
<1>5. Cardinality(N) <= Spare(meta) /\ Spare(meta) \in Nat  BY DEF Deserves, N, Spare
<1>6. QED  BY <1>3, <1>4, <1>5

\* What was seen completed stays so when the rows grow.
LEMMA StillDeserves ==
    ASSUME TypeOK, Grown(rows, rows'), rows' \in Seq(ProgressRows),
           NEW draft, NEW meta, NEW day, Deserves(draft, meta, day)
    PROVE  Deserves(draft, meta, day)'
<1>1. \A i \in DOMAIN rows : i \in DOMAIN rows'
  <2>1. rows \in Seq(ProgressRows)  BY DEF TypeOK, ProgressRows
  <2>2. /\ DOMAIN rows = 1 .. Len(rows) /\ DOMAIN rows' = 1 .. Len(rows')
        /\ Len(rows) \in Nat /\ Len(rows') \in Nat
    BY <2>1
  <2>3. Len(rows) <= Len(rows')  BY DEF Grown
  <2>4. QED  BY <2>2, <2>3
<1>2. CompletedOf(draft, meta, day) \subseteq CompletedOf(draft, meta, day)'
  <2> SUFFICES ASSUME NEW t \in CompletedOf(draft, meta, day)
               PROVE  t \in CompletedOf(draft, meta, day)'
    OBVIOUS
  <2>1. t \in Required(meta)  BY DEF CompletedOf
  <2>2. CASE \E i \in DOMAIN rows :
               rows[i].task = t /\ rows[i].day = day /\ rows[i].done
    BY <1>1, <2>1, <2>2 DEF CompletedOf, Grown, Same
  <2>3. CASE \E i \in DOMAIN draft :
               draft[i].task = t /\ draft[i].day = day /\ draft[i].done
    BY <2>1, <2>3 DEF CompletedOf
  <2>4. QED  BY <2>2, <2>3 DEF CompletedOf
<1>3. Missing(draft, meta, day)' \subseteq Missing(draft, meta, day)
  BY <1>2 DEF Missing
<1>4. QED  BY <1>3, MissingLess DEF Deserves

\* A request that does nothing knows what it knew: rows only grow, check-ins are
\* only added, and who claims supersedes the others.
LEMMA StillOK ==
    ASSUME TypeOK, Grown(rows, rows'), rows' \in Seq(ProgressRows), checkins \subseteq checkins',
           streak.late => streak'.late, NEW q \in RequestRows, RequestOK(q),
           \/ ~q.fresh
           \/ \A j \in DOMAIN rows' : rows'[j].claimed => j \in DOMAIN rows /\ rows[j].claimed
    PROVE  RequestOK(q)'
<1>0. rows \in Seq(ProgressRows)  BY DEF TypeOK, ProgressRows
<1>1. ASSUME NEW w, Fits(rows, w) PROVE Fits(rows', w)
  BY <1>0, <1>1, StillFits
<1>2. ASSUME EventOK(q) PROVE EventOK(q)'
  <2>1. ASSUME NEW i \in DOMAIN q.draft
        PROVE  /\ Fits(rows', q.draft[i])
               /\ ~q.draft[i].claimed
               /\ q.draft[i].done /\ q.draft[i].task \in Metas
                    => Deserves(q.draft, q.draft[i].task, q.draft[i].day)'
    <3>1. Fits(rows, q.draft[i])  BY <1>2 DEF EventOK, DraftOK
    <3>2. Fits(rows', q.draft[i])  BY <1>1, <3>1
    <3>3. QED  BY <1>2, <3>2, StillDeserves DEF EventOK, DraftOK
  <2>2. DraftOK(q.draft)'  BY <2>1 DEF DraftOK
  <2>3. q.pc = "write" => Read(q, Head(q.left))'
    <3>1. q.pc = "write" => Read(q, Head(q.left))  BY <1>2 DEF EventOK
    <3>2. QED  BY <1>1, <3>1 DEF Read
  <2>4. QED  BY <1>2, <2>2, <2>3 DEF EventOK
<1>3. ASSUME CheckinOK(q) PROVE CheckinOK(q)'
  BY <1>3 DEF CheckinOK, StreakReady
<1>4. ASSUME ClaimOK(q) PROVE ClaimOK(q)'
  <2>1. PICK t \in Task : /\ q.left = <<t>>
                          /\ q.pc = "pay" => /\ Read(q, t)
                                             /\ q.fresh => Unclaimed(t, Period(t, q.day))
    BY <1>4 DEF ClaimOK
  <2>2. q.pc = "pay" => Read(q, t)'  BY <1>1, <2>1 DEF Read
  <2>3. q.pc = "pay" /\ q.fresh => Unclaimed(t, Period(t, q.day))'
    <3> SUFFICES ASSUME q.pc = "pay", q.fresh, NEW j \in DOMAIN rows',
                        rows'[j].task = t, rows'[j].day = Period(t, q.day)
                 PROVE  ~rows'[j].claimed
      BY DEF Unclaimed
    <3> SUFFICES ASSUME rows'[j].claimed PROVE FALSE  OBVIOUS
    <3>1. j \in DOMAIN rows /\ rows[j].claimed  OBVIOUS
    <3>2. Same(rows'[j], rows[j])  BY <3>1 DEF Grown
    <3>3. QED  BY <2>1, <3>1, <3>2 DEF Unclaimed, Same
  <2>4. QED  BY <2>1, <2>2, <2>3 DEF ClaimOK
<1>5. QED  BY <1>2, <1>3, <1>4 DEF RequestOK, ChallengeOK

\* So does one that has become stale.
LEMMA StaleOK ==
    ASSUME NEW q \in RequestRows, RequestOK(q)
    PROVE  /\ [q EXCEPT !.fresh = FALSE] \in RequestRows
           /\ RequestOK([q EXCEPT !.fresh = FALSE])
<1> DEFINE n == [q EXCEPT !.fresh = FALSE]
<1>1. /\ n \in RequestRows /\ ~n.fresh
      /\ n.kind = q.kind /\ n.pc = q.pc /\ n.day = q.day /\ n.left = q.left
      /\ n.row = q.row /\ n.draft = q.draft /\ n.streak = q.streak
  BY DEF RequestRows
<1> HIDE DEF n
<1>2. EventOK(q) => EventOK(n)  BY <1>1 DEF EventOK, Read
<1>3. CheckinOK(q) => CheckinOK(n)  BY <1>1 DEF CheckinOK, StreakReady
<1>4. ClaimOK(q) => ClaimOK(n)  BY <1>1 DEF ClaimOK, Read
<1>5. ChallengeOK(q) => ChallengeOK(n)  BY <1>1 DEF ChallengeOK
<1>6. RequestOK(n)  BY <1>1, <1>2, <1>3, <1>4, <1>5 DEF RequestOK
<1>7. QED  BY <1>1, <1>6 DEF n

\* A request that is over knows nothing.
LEMMA NoneOK ==
    ASSUME TasksInv
    PROVE  NoRequest \in RequestRows /\ RequestOK(NoRequest)
<1>1. MaxScore \in Nat /\ MaxDay \in Nat  BY TasksAssumption
<1>2. 0 \in 0 .. MaxDay /\ 0 \in 0 .. MaxScore  BY <1>1
<1>3. <<>> \in Seq(Task \cup Challenge) /\ <<>> \in Seq(Writes)  OBVIOUS
<1>4. QED  BY <1>2, <1>3 DEF NoRequest, RequestRows, RequestOK

-----------------------------------------------------------------------------
(* Steps within a transaction *)

\* A request of a known state is OK wherever it is.
LEMMA OKThere ==
    ASSUME NEW q, RequestOK(q)', NEW x, request'[x] = q
    PROVE  RequestOK(request[x])'
  BY DEF RequestOK

\* Nothing grows when nothing is written.
LEMMA GrownSelf ==
    ASSUME TypeOK
    PROVE  rows \in Seq(ProgressRows) /\ Grown(rows, rows)
<1>1. rows \in Seq(ProgressRows)  BY DEF TypeOK, ProgressRows
<1>2. QED  BY <1>1, CommitsNone DEF Commits

\* The others, whose copy of the users row may have become old, know what they knew.
LEMMA OtherOK ==
    ASSUME TasksInv, Grown(rows, rows'), rows' \in Seq(ProgressRows), checkins \subseteq checkins',
           streak.late => streak'.late, NEW x \in Request,
           \/ request'[x] = [request[x] EXCEPT !.fresh = FALSE]
           \/ /\ request'[x] = request[x]
              /\ \A j \in DOMAIN rows' : rows'[j].claimed => j \in DOMAIN rows /\ rows[j].claimed
    PROVE  request'[x] \in RequestRows /\ RequestOK(request[x])'
<1>1. TypeOK /\ request[x] \in RequestRows /\ RequestOK(request[x])  BY DEF TasksInv
<1>2. PICK q : q = request'[x]  OBVIOUS
<1>3. q \in RequestRows /\ RequestOK(q)
  <2>1. CASE q = request[x]  BY <1>1, <2>1
  <2>2. CASE q = [request[x] EXCEPT !.fresh = FALSE]  BY <1>1, <2>2, StaleOK
  <2>3. QED  BY <1>2, <2>1, <2>2
<1>4. \/ ~q.fresh
      \/ \A j \in DOMAIN rows' : rows'[j].claimed => j \in DOMAIN rows /\ rows[j].claimed
  BY <1>1, <1>2 DEF RequestRows
<1>5. RequestOK(q)'  BY <1>1, <1>3, <1>4, StillOK
<1>6. QED  BY <1>2, <1>3, <1>5, OKThere

\* A request that goes on to a state that is OK leaves the rest as it was.
LEMMA Moved ==
    ASSUME TasksInv, NEW r \in Request, NEW next \in RequestRows, RequestOK(next),
           request' = [request EXCEPT ![r] = next],
           UNCHANGED <<rows, streak, cash, score, completed, checkins, today>>
    PROVE  TasksInv'
<1>1. /\ request' = [request EXCEPT ![r] = next]
      /\ rows' = rows /\ streak' = streak /\ cash' = cash /\ score' = score
      /\ completed' = completed /\ checkins' = checkins /\ today' = today
  OBVIOUS
<1>2. TypeOK /\ request \in [Request -> RequestRows]  BY DEF TasksInv
<1>3. Grown(rows, rows') /\ rows' \in Seq(ProgressRows) /\ checkins \subseteq checkins'
      /\ \A j \in DOMAIN rows' : rows'[j].claimed => j \in DOMAIN rows /\ rows[j].claimed
  BY <1>1, <1>2, GrownSelf
<1>4. ASSUME NEW x \in Request
      PROVE  request'[x] \in RequestRows /\ RequestOK(request[x])'
  <2>1. CASE x = r
    <3>1. request'[x] = next  BY <1>1, <1>2, <2>1
    <3>2. RequestOK(next)'  BY <1>2, <1>3, StillOK
    <3>3. QED  BY <3>1, <3>2, OKThere
  <2>2. CASE x # r
    <3>1. request'[x] = request[x]  BY <1>1, <1>2, <2>2
    <3>2. QED  BY <1>3, <3>1, OtherOK
  <2>3. QED  BY <2>1, <2>2
<1>5. request' \in [Request -> RequestRows]  BY <1>1, <1>2
<1>6. TypeOK'  BY <1>1, <1>2 DEF TypeOK
<1>7. StreakHonest'  BY <1>1 DEF TasksInv, StreakHonest
<1>8. MetasDeserved'
  BY <1>1 DEF TasksInv, MetasDeserved, Deserves, Missing, CompletedOf
<1>9. QED  BY <1>4, <1>5, <1>6, <1>7, <1>8 DEF TasksInv

\* It goes on in its transaction.
LEMMA GoesOn ==
    ASSUME TasksInv, NEW r \in Request, NEW next \in RequestRows, RequestOK(next), Go(r, next)
    PROVE  TasksInv'
  BY Moved DEF Go

\* What a request in a transaction that records an event knows.
LEMMA Recording ==
    ASSUME TasksInv, NEW r \in Request, NEW pc, At(r, {"event", "checkin"}, pc)
    PROVE  /\ request[r] \in RequestRows /\ EventOK(request[r])
           /\ request[r].kind \in {"event", "checkin"} /\ request[r].pc = pc
           /\ request[r].kind = "checkin" => CheckinOK(request[r])
  BY DEF TasksInv, RequestOK, At

\* The row that is found is one of the task and the period.
LEMMA FoundFits ==
    ASSUME NEW t, NEW day, NEW w, w.task = t, w.day = day,
           w.row = IF Found(t, day) = {} THEN 0 ELSE CHOOSE i \in Found(t, day) : TRUE
    PROVE  Fits(rows, w)
<1>1. CASE Found(t, day) = {}  BY <1>1 DEF Fits
<1>2. CASE Found(t, day) # {}
  <2>1. w.row \in Found(t, day)  BY <1>2
  <2>2. QED  BY <2>1 DEF Found, Fits, Same
<1>3. QED  BY <1>1, <1>2

\* The place of a row is a natural number.
LEMMA FoundNat ==
    ASSUME TypeOK, NEW t, NEW day
    PROVE  (IF Found(t, day) = {} THEN 0 ELSE CHOOSE i \in Found(t, day) : TRUE) \in Nat
<1>1. CASE Found(t, day) # {}
  <2>1. DOMAIN rows = 1 .. Len(rows) /\ Len(rows) \in Nat  BY DEF TypeOK
  <2>2. (CHOOSE i \in Found(t, day) : TRUE) \in Found(t, day)  BY <1>1
  <2>3. QED  BY <1>1, <2>1, <2>2 DEF Found
<1>2. QED  BY <1>1

\* The period of a task on a day.
LEMMA PeriodType ==
    ASSUME NEW t, NEW day \in 0 .. MaxDay
    PROVE  Period(t, day) \in 0 .. MaxDay
<1>1. MaxDay \in Nat  BY TasksAssumption
<1>2. QED  BY <1>1 DEF Period, Forever

\* The first task on a list of tasks, and the rest.
LEMMA FirstTask ==
    ASSUME NEW left \in Seq(Task \ Metas), left # <<>>
    PROVE  /\ Head(left) \in Task \ Metas
           /\ Tail(left) \in Seq(Task \ Metas) /\ Tail(left) \in Seq(Task \cup Challenge)
<1>1. Head(left) \in Task \ Metas /\ Tail(left) \in Seq(Task \ Metas)
  BY HeadTailProperties
<1>2. QED  BY <1>1

\* ReadProgress keeps the invariant.
LEMMA ReadProgressInv ==
    ASSUME TasksInv, NEW r \in Request, ReadProgress(r)
    PROVE  TasksInv'
<1> DEFINE q == request[r]
           t == Head(q.left)
           found == Found(t, Period(t, q.day))
           row == IF found = {} THEN 0 ELSE CHOOSE i \in found : TRUE
<1>1. /\ q \in RequestRows /\ EventOK(q) /\ q.kind \in {"event", "checkin"} /\ q.pc = "read"
      /\ q.kind = "checkin" => CheckinOK(q)
  BY Recording DEF ReadProgress
<1>2. q.left # <<>> /\ q.left \in Seq(Task \ Metas)  BY <1>1 DEF ReadProgress, EventOK
<1>3. t \in Task \ Metas /\ Tail(q.left) \in Seq(Task \ Metas)
      /\ Tail(q.left) \in Seq(Task \cup Challenge)
  BY <1>2, FirstTask
<1>4. CASE \E count : Go(r, [q EXCEPT !.pc = "write", !.row = row, !.count = count])
                        /\ count \in Nat
  <2>1. PICK count \in Nat : Go(r, [q EXCEPT !.pc = "write", !.row = row, !.count = count])
    BY <1>4
  <2> DEFINE next == [q EXCEPT !.pc = "write", !.row = row, !.count = count]
  <2>2. row \in Nat  BY FoundNat DEF TasksInv
  <2>3. Fits(rows, Write(row, t, Period(t, q.day), 0, FALSE, FALSE))
    BY FoundFits DEF Write
  <2> HIDE DEF row, found
  <2>4. /\ next \in RequestRows /\ next.kind = q.kind /\ next.pc = "write"
        /\ next.day = q.day /\ next.left = q.left /\ next.row = row
        /\ next.draft = q.draft /\ next.streak = q.streak
    BY <1>1, <2>2 DEF RequestRows
  <2> HIDE DEF next
  <2>5. EventOK(next)  BY <1>1, <1>2, <2>3, <2>4 DEF EventOK, Read
  <2>6. next.kind = "checkin" => CheckinOK(next)
    BY <1>1, <2>4 DEF CheckinOK, StreakReady
  <2>7. RequestOK(next)  BY <1>1, <2>4, <2>5, <2>6 DEF RequestOK
  <2>8. Go(r, next)  BY <2>1 DEF next
  <2>9. QED  BY <2>4, <2>7, <2>8, GoesOn
<1>5. CASE Go(r, [q EXCEPT !.left = Tail(q.left)])
  <2> DEFINE next == [q EXCEPT !.left = Tail(q.left)]
  <2>1. /\ next \in RequestRows /\ next.kind = q.kind /\ next.pc = "read"
        /\ next.day = q.day /\ next.left = Tail(q.left)
        /\ next.draft = q.draft /\ next.streak = q.streak
    BY <1>1, <1>3 DEF RequestRows
  <2> HIDE DEF next
  <2>2. EventOK(next)  BY <1>1, <1>3, <2>1 DEF EventOK
  <2>3. next.kind = "checkin" => CheckinOK(next)
    BY <1>1, <2>1 DEF CheckinOK, StreakReady
  <2>4. RequestOK(next)  BY <1>1, <2>1, <2>2, <2>3 DEF RequestOK
  <2>5. Go(r, next)  BY <1>5 DEF next
  <2>6. QED  BY <2>1, <2>4, <2>5, GoesOn
<1>6. (IF found = {} THEN 0 ELSE rows[CHOOSE i \in found : TRUE].count) \in Nat
  <2>1. CASE found # {}
    <3>1. (CHOOSE i \in found : TRUE) \in found  BY <2>1
    <3>2. (CHOOSE i \in found : TRUE) \in DOMAIN rows  BY <3>1 DEF Found
    <3>3. \A i \in DOMAIN rows : rows[i].count \in Nat
      <4>1. rows \in Seq(ProgressRows)  BY GrownSelf DEF TasksInv
      <4>2. \A i \in DOMAIN rows : rows[i] \in ProgressRows  BY <4>1
      <4>3. QED  BY <4>2 DEF ProgressRows
    <3>4. QED  BY <2>1, <3>2, <3>3
  <2>2. QED  BY <2>1
<1>7. QED  BY <1>4, <1>5, <1>6 DEF ReadProgress

\* What a session has written it sees: more writes leave no more missing.
LEMMA MoreDeserves ==
    ASSUME NEW draft, NEW more, NEW meta, NEW day, Deserves(draft, meta, day),
           \A i \in DOMAIN draft : i \in DOMAIN more /\ more[i] = draft[i]
    PROVE  Deserves(more, meta, day)
<1>1. CompletedOf(draft, meta, day) \subseteq CompletedOf(more, meta, day)
  <2> SUFFICES ASSUME NEW t \in CompletedOf(draft, meta, day)
               PROVE  t \in CompletedOf(more, meta, day)
    OBVIOUS
  <2>1. t \in Required(meta)  BY DEF CompletedOf
  <2>2. CASE \E i \in DOMAIN rows :
               rows[i].task = t /\ rows[i].day = day /\ rows[i].done
    BY <2>1, <2>2 DEF CompletedOf
  <2>3. CASE \E i \in DOMAIN draft :
               draft[i].task = t /\ draft[i].day = day /\ draft[i].done
    BY <2>1, <2>3 DEF CompletedOf
  <2>4. QED  BY <2>2, <2>3 DEF CompletedOf
<1>2. Missing(more, meta, day) \subseteq Missing(draft, meta, day)
  BY <1>1 DEF Missing
<1>3. QED  BY <1>2, MissingLess DEF Deserves

\* One more write of a draft.
LEMMA OneMoreWrite ==
    ASSUME NEW draft \in Seq(Writes), DraftOK(draft), NEW w \in Writes, Fits(rows, w),
           ~w.claimed, w.done /\ w.task \in Metas => Deserves(draft, w.task, w.day)
    PROVE  Append(draft, w) \in Seq(Writes) /\ DraftOK(Append(draft, w))
<1> DEFINE more == Append(draft, w)  n == Len(draft)
<1>1. n \in Nat /\ DOMAIN draft = 1 .. n  OBVIOUS
<1>2. /\ more \in Seq(Writes) /\ DOMAIN more = 1 .. n + 1
      /\ \A i \in 1 .. n : more[i] = draft[i]
      /\ more[n + 1] = w
  OBVIOUS
<1> HIDE DEF more, n
<1>3. \A i \in DOMAIN draft : i \in DOMAIN more /\ more[i] = draft[i]  BY <1>1, <1>2
<1>4. ASSUME NEW i \in DOMAIN more
      PROVE  /\ Fits(rows, more[i])
             /\ ~more[i].claimed
             /\ more[i].done /\ more[i].task \in Metas
                  => Deserves(more, more[i].task, more[i].day)
  <2>1. CASE i \in DOMAIN draft
    <3>1. /\ Fits(rows, draft[i]) /\ ~draft[i].claimed
          /\ draft[i].done /\ draft[i].task \in Metas
               => Deserves(draft, draft[i].task, draft[i].day)
      BY <2>1 DEF DraftOK
    <3>2. QED  BY <1>3, <2>1, <3>1, MoreDeserves
  <2>2. CASE i = n + 1
    <3>1. w.done /\ w.task \in Metas => Deserves(more, w.task, w.day)
      BY <1>3, MoreDeserves
    <3>2. QED  BY <1>2, <2>2, <3>1
  <2>3. i \in DOMAIN draft \/ i = n + 1  BY <1>1, <1>2
  <2>4. QED  BY <2>1, <2>2, <2>3
<1>5. QED  BY <1>2, <1>4 DEF DraftOK, more

\* WriteProgress keeps the invariant.
LEMMA WriteProgressInv ==
    ASSUME TasksInv, NEW r \in Request, WriteProgress(r)
    PROVE  TasksInv'
<1> DEFINE q == request[r]
           t == Head(q.left)
           done == Reaches(t, q.count + 1)
           w == Write(q.row, t, Period(t, q.day), q.count + 1, done, FALSE)
           meta == done /\ Category[t] \in {"onboarding", "daily"}
           next == [q EXCEPT !.pc = IF meta THEN "meta" ELSE "read",
                             !.left = IF meta THEN @ ELSE Tail(@),
                             !.row = 0, !.count = 0, !.draft = Append(@, w)]
<1>1. /\ q \in RequestRows /\ EventOK(q) /\ q.kind \in {"event", "checkin"} /\ q.pc = "write"
      /\ q.kind = "checkin" => CheckinOK(q)
  BY Recording DEF WriteProgress
<1>2. q.left # <<>> /\ q.left \in Seq(Task \ Metas) /\ DraftOK(q.draft) /\ Read(q, t)
  BY <1>1 DEF EventOK
<1>3. /\ t \in Task \ Metas /\ Tail(q.left) \in Seq(Task \ Metas)
      /\ Tail(q.left) \in Seq(Task \cup Challenge)
  BY <1>2, FirstTask
<1>4. /\ q.row \in Nat /\ q.count \in Nat /\ q.day \in 0 .. MaxDay
      /\ q.draft \in Seq(Writes) /\ q.left \in Seq(Task \cup Challenge)
  BY <1>1 DEF RequestRows
<1>5. w \in Writes /\ Fits(rows, w) /\ ~w.claimed /\ w.task = t
  <2>1. Period(t, q.day) \in 0 .. MaxDay  BY <1>4, PeriodType
  <2>2. done \in BOOLEAN  BY DEF Reaches
  <2> HIDE DEF done, t
  <2>3. w \in Writes /\ ~w.claimed /\ w.task = t
    BY <1>3, <1>4, <2>1, <2>2 DEF Write, Writes
  <2>4. Fits(rows, w)  BY <1>2 DEF Read, Write, Fits, Same
  <2>5. QED  BY <2>3, <2>4
<1> HIDE DEF w
<1>6. Append(q.draft, w) \in Seq(Writes) /\ DraftOK(Append(q.draft, w))
  BY <1>2, <1>3, <1>4, <1>5, OneMoreWrite
<1>7. Go(r, next)
  BY DEF WriteProgress, w
<1>8. /\ next \in RequestRows /\ next.kind = q.kind /\ next.day = q.day
      /\ next.streak = q.streak /\ next.draft = Append(q.draft, w)
      /\ next.pc \in {"read", "meta"}
      /\ next.pc = "meta" => next.left = q.left
      /\ next.left \in {q.left, Tail(q.left)}
  <2> HIDE DEF t, done, meta
  <2>1. CASE meta
    <3>1. next = [q EXCEPT !.pc = "meta", !.row = 0, !.count = 0, !.left = q.left,
                           !.draft = Append(q.draft, w)]
      BY <2>1
    <3>2. QED  BY <1>1, <1>4, <1>6, <3>1 DEF RequestRows
  <2>2. CASE ~meta
    <3>1. next = [q EXCEPT !.pc = "read", !.row = 0, !.count = 0, !.left = Tail(q.left),
                           !.draft = Append(q.draft, w)]
      BY <2>2
    <3>2. QED  BY <1>1, <1>3, <1>6, <3>1 DEF RequestRows
  <2>3. QED  BY <2>1, <2>2
<1> HIDE DEF next
<1>9. EventOK(next)
  BY <1>2, <1>3, <1>6, <1>8 DEF EventOK
<1>10. next.kind = "checkin" => CheckinOK(next)
  BY <1>1, <1>8 DEF CheckinOK, StreakReady
<1>11. RequestOK(next)  BY <1>1, <1>8, <1>9, <1>10 DEF RequestOK
<1>12. QED  BY <1>7, <1>8, <1>11, GoesOn

\* A meta task that has enough is completed over what it requires.
LEMMA EnoughDeserves ==
    ASSUME NEW draft, NEW meta \in Metas, NEW day, Enough(draft, meta, day)
    PROVE  Deserves(draft, meta, day)
<1> DEFINE R == Required(meta)  C == CompletedOf(draft, meta, day)
<1>1. IsFiniteSet(R) /\ C \subseteq R
  <2>1. IsFiniteSet(Task) /\ R \subseteq Task  BY TasksAssumption DEF Required
  <2>2. C \subseteq R  BY DEF CompletedOf
  <2>3. QED  BY <2>1, <2>2, FS_Subset
<1> HIDE DEF R, C
<1>2. /\ Cardinality(R \ C) = Cardinality(R) - Cardinality(R \cap C)
      /\ R \cap C = C
  BY <1>1, FS_Difference
<1>3. Cardinality(R) \in Nat /\ Cardinality(C) \in Nat
  BY <1>1, FS_Subset, FS_CardinalityType
<1>4. OnboardingMeta # DailyMeta  BY TasksAssumption
<1>5. IF meta = OnboardingMeta THEN Cardinality(C) >= Cardinality(R)
      ELSE Cardinality(C) >= Cardinality(R) - 1
  BY DEF Enough, R, C
<1>6. Cardinality(R \ C) <= Spare(meta)
  <2>1. CASE meta = OnboardingMeta
    <3>1. Spare(meta) = 0  BY <1>4, <2>1 DEF Spare
    <3>2. QED  BY <1>2, <1>3, <1>5, <2>1, <3>1
  <2>2. CASE meta = DailyMeta
    <3>1. Spare(meta) = 1  BY <2>2 DEF Spare
    <3>2. QED  BY <1>2, <1>3, <1>4, <1>5, <2>2, <3>1
  <2>3. QED  BY <2>1, <2>2 DEF Metas
<1>7. QED  BY <1>6 DEF Deserves, Missing, R, C

\* CompleteMeta keeps the invariant.
LEMMA CompleteMetaInv ==
    ASSUME TasksInv, NEW r \in Request, CompleteMeta(r)
    PROVE  TasksInv'
<1> DEFINE q == request[r]
           meta == MetaOf(Head(q.left))
           day == Period(meta, today)
           found == Found(meta, day)
           row == IF found = {} THEN 0 ELSE CHOOSE i \in found : TRUE
           enough == Enough(q.draft, meta, day)
           w == Write(row, meta, day, IF enough THEN 1 ELSE 0, enough, FALSE)
           next == [q EXCEPT !.pc = "read", !.left = Tail(@)]
           wrote == [next EXCEPT !.draft = Append(@, w)]
<1>1. /\ q \in RequestRows /\ EventOK(q) /\ q.kind \in {"event", "checkin"} /\ q.pc = "meta"
      /\ q.kind = "checkin" => CheckinOK(q)
  BY Recording DEF CompleteMeta
<1>2. q.left # <<>> /\ q.left \in Seq(Task \ Metas) /\ DraftOK(q.draft)
  BY <1>1 DEF EventOK
<1>3. Tail(q.left) \in Seq(Task \ Metas) /\ Tail(q.left) \in Seq(Task \cup Challenge)
  BY <1>2, FirstTask
<1>4. q.draft \in Seq(Writes)  BY <1>1 DEF RequestRows
<1>5. Go(r, next) \/ Go(r, wrote)  BY DEF CompleteMeta
<1>6. /\ next \in RequestRows /\ next.kind = q.kind /\ next.pc = "read"
      /\ next.day = q.day /\ next.left = Tail(q.left) /\ next.draft = q.draft
      /\ next.streak = q.streak
  BY <1>1, <1>3 DEF RequestRows
<1>7. meta \in Metas /\ meta \in Task  BY TasksAssumption DEF MetaOf, Metas
<1>8. /\ w \in Writes /\ w.task = meta /\ w.day = day /\ w.row = row /\ ~w.claimed
      /\ w.done => enough
  <2>1. row \in Nat  BY FoundNat DEF TasksInv
  <2>2. today \in 0 .. MaxDay
    <3>1. today \in 1 .. MaxDay  BY DEF TasksInv, TypeOK
    <3>2. MaxDay \in Nat  BY TasksAssumption
    <3>3. QED  BY <3>1, <3>2
  <2>3. day \in 0 .. MaxDay  BY <2>2, PeriodType
  <2>4. enough \in BOOLEAN  BY DEF Enough
  <2> HIDE DEF row, day, meta, enough
  <2>5. QED  BY <1>7, <2>1, <2>3, <2>4 DEF Write, Writes
<1> HIDE DEF w
<1>9. Fits(rows, w)  BY <1>8, FoundFits
<1> HIDE DEF row, found, day, meta, next
<1>10. CASE Go(r, next)
  <2>1. EventOK(next)  BY <1>2, <1>3, <1>6 DEF EventOK
  <2>2. next.kind = "checkin" => CheckinOK(next)
    BY <1>1, <1>6 DEF CheckinOK, StreakReady
  <2>3. RequestOK(next)  BY <1>1, <1>6, <2>1, <2>2 DEF RequestOK
  <2>4. QED  BY <1>6, <1>10, <2>3, GoesOn
<1>11. CASE Go(r, wrote)
  <2>1. w.done => Deserves(q.draft, w.task, w.day)  BY <1>7, <1>8, EnoughDeserves
  <2>2. Append(q.draft, w) \in Seq(Writes) /\ DraftOK(Append(q.draft, w))
    BY <1>2, <1>4, <1>8, <1>9, <2>1, OneMoreWrite
  <2>3. /\ wrote \in RequestRows /\ wrote.kind = q.kind /\ wrote.pc = "read"
        /\ wrote.day = q.day /\ wrote.left = Tail(q.left)
        /\ wrote.draft = Append(q.draft, w) /\ wrote.streak = q.streak
    BY <1>6, <2>2 DEF RequestRows
  <2> HIDE DEF wrote
  <2>4. EventOK(wrote)  BY <1>3, <2>2, <2>3 DEF EventOK
  <2>5. wrote.kind = "checkin" => CheckinOK(wrote)
    BY <1>1, <2>3 DEF CheckinOK, StreakReady
  <2>6. RequestOK(wrote)  BY <1>1, <2>3, <2>4, <2>5 DEF RequestOK
  <2>7. QED  BY <1>11, <2>3, <2>6, GoesOn
<1>12. QED  BY <1>5, <1>10, <1>11

\* The end of a request keeps the invariant.
LEMMA EndInv ==
    ASSUME TasksInv, NEW r \in Request, End(r)
    PROVE  TasksInv'
  BY NoneOK, Moved DEF End

\* The streak of a check-in, counted from a streak of committed ones.
LEMMA ContinuedReady ==
    ASSUME TypeOK, StreakHonest, NEW day \in 1 .. MaxDay
    PROVE  /\ Continued(streak, day) \in [current : Nat, last : 0 .. MaxDay]
           /\ Continued(streak, day).last = day
           /\ ~streak.late =>
                /\ Continued(streak, day).current \in 1 .. day
                /\ day - Continued(streak, day).current + 1 .. day - 1 \subseteq checkins
<1> DEFINE c == streak.current  l == streak.last  n == Continued(streak, day)
<1>1. c \in Nat /\ l \in 0 .. MaxDay /\ MaxDay \in Nat  BY TasksAssumption DEF TypeOK
<1>2. ~streak.late => c <= l /\ l - c + 1 .. l \subseteq checkins  BY DEF StreakHonest
<1>3. day \in Nat /\ day >= 1 /\ day \in 0 .. MaxDay  BY <1>1
<1>4. /\ n.last = day
      /\ n.current = IF l = day - 1 /\ l # 0 THEN c + 1 ELSE 1
      /\ n = [current |-> n.current, last |-> n.last]
  BY DEF Continued
<1> HIDE DEF c, l, n
<1>5. ASSUME ~streak.late
      PROVE  n.current \in 1 .. day /\ day - n.current + 1 .. day - 1 \subseteq checkins
  <2>1. CASE l = day - 1 /\ l # 0
    <3>1. n.current = c + 1  BY <1>4, <2>1
    <3>2. n.current \in 1 .. day  BY <1>1, <1>2, <1>3, <1>5, <2>1, <3>1
    <3>3. day - n.current + 1 = l - c + 1 /\ day - 1 = l  BY <1>1, <1>3, <2>1, <3>1
    <3>4. QED  BY <1>2, <1>5, <3>2, <3>3
  <2>2. CASE ~(l = day - 1 /\ l # 0)
    <3>1. n.current = 1  BY <1>4, <2>2
    <3>2. day - 1 + 1 .. day - 1 = {}  BY <1>3
    <3>3. 1 \in 1 .. day  BY <1>3
    <3>4. QED  BY <3>1, <3>2, <3>3
  <2>3. QED  BY <2>1, <2>2
<1>6. n \in [current : Nat, last : 0 .. MaxDay]
  <2>1. n.current \in Nat  BY <1>1, <1>4
  <2>2. QED  BY <1>3, <1>4, <2>1
<1>7. QED  BY <1>4, <1>5, <1>6 DEF n

\* ReadStreak keeps the invariant.
LEMMA ReadStreakInv ==
    ASSUME TasksInv, NEW r \in Request, ReadStreak(r)
    PROVE  TasksInv'
<1> DEFINE q == request[r]
           n == Continued(streak, q.day)
           sql == Statement(streak, n)
           next == [q EXCEPT !.pc = "flush", !.streak = n, !.sql = sql]
<1>1. q \in RequestRows /\ EventOK(q) /\ q.kind = "checkin" /\ CheckinOK(q)
  BY DEF TasksInv, RequestOK, ReadStreak, At
<1>2. CASE End(r)  BY <1>2, EndInv
<1>3. CASE Go(r, next)
  <2>1. /\ n \in [current : Nat, last : 0 .. MaxDay] /\ n.last = q.day
        /\ ~streak.late => /\ n.current \in 1 .. q.day
                           /\ q.day - n.current + 1 .. q.day - 1 \subseteq checkins
    BY <1>1, ContinuedReady DEF TasksInv, CheckinOK
  <2>2. sql \in {"insert", "last", "both"}  BY DEF Statement
  <2> HIDE DEF n, sql
  <2>3. /\ next \in RequestRows /\ next.kind = q.kind /\ next.pc = "flush"
        /\ next.day = q.day /\ next.left = q.left /\ next.draft = q.draft
        /\ next.streak = n
    BY <1>1, <2>1, <2>2 DEF RequestRows
  <2> HIDE DEF next
  <2>4. EventOK(next)  BY <1>1, <2>3 DEF EventOK
  <2>5. CheckinOK(next)  BY <1>1, <2>1, <2>3 DEF CheckinOK, StreakReady
  <2>6. RequestOK(next)  BY <1>1, <2>3, <2>4, <2>5 DEF RequestOK
  <2>7. QED  BY <1>3, <2>3, <2>6, GoesOn DEF next
<1>4. QED  BY <1>2, <1>3 DEF ReadStreak

\* FlushStreak keeps the invariant.
LEMMA FlushStreakInv ==
    ASSUME TasksInv, NEW r \in Request, FlushStreak(r)
    PROVE  TasksInv'
<1> DEFINE q == request[r]
           next == [q EXCEPT !.pc = "read"]
<1>1. q \in RequestRows /\ EventOK(q) /\ q.kind = "checkin" /\ CheckinOK(q) /\ q.pc = "flush"
  BY DEF TasksInv, RequestOK, FlushStreak, At
<1>2. /\ next \in RequestRows /\ next.kind = q.kind /\ next.pc = "read"
      /\ next.day = q.day /\ next.left = q.left /\ next.draft = q.draft
      /\ next.streak = q.streak
  BY <1>1 DEF RequestRows
<1>3. Go(r, next)  BY DEF FlushStreak
<1> HIDE DEF next
<1>4. EventOK(next)  BY <1>1, <1>2 DEF EventOK
<1>5. CheckinOK(next)  BY <1>1, <1>2 DEF CheckinOK, StreakReady
<1>6. RequestOK(next)  BY <1>1, <1>2, <1>4, <1>5 DEF RequestOK
<1>7. QED  BY <1>2, <1>3, <1>6, GoesOn

\* ReadClaim keeps the invariant: what it finds is not claimed.
LEMMA ReadClaimInv ==
    ASSUME TasksInv, NEW r \in Request, ReadClaim(r)
    PROVE  TasksInv'
<1> DEFINE q == request[r]
           t == Head(q.left)
           found == Found(t, Period(t, q.day))
           row == IF found = {} THEN 0 ELSE CHOOSE i \in found : TRUE
           next == [q EXCEPT !.pc = "pay", !.row = row]
<1>1. q \in RequestRows /\ ClaimOK(q) /\ q.kind = "claim"
  BY DEF TasksInv, RequestOK, ReadClaim, At
<1>2. t \in Task /\ q.left = <<t>>
  <2>1. PICK u \in Task : q.left = <<u>>  BY <1>1 DEF ClaimOK
  <2>2. QED  BY <2>1
<1>3. CASE End(r)  BY <1>3, EndInv
<1>4. CASE Go(r, next) /\ \A i \in found : ~rows[i].claimed
  <2>1. row \in Nat  BY FoundNat DEF TasksInv
  <2>2. Fits(rows, Write(row, t, Period(t, q.day), 0, FALSE, FALSE))
    BY FoundFits DEF Write
  <2>3. Unclaimed(t, Period(t, q.day))  BY <1>4 DEF Found, Unclaimed
  <2> HIDE DEF row, found
  <2>4. /\ next \in RequestRows /\ next.kind = "claim" /\ next.pc = "pay"
        /\ next.day = q.day /\ next.left = q.left /\ next.row = row
    BY <1>1, <2>1 DEF RequestRows
  <2> HIDE DEF next
  <2>5. ClaimOK(next)
    <3> HIDE DEF t
    <3>1. Read(next, t) /\ Unclaimed(t, Period(t, next.day)) /\ next.left = <<t>>
      BY <1>2, <2>2, <2>3, <2>4 DEF Read
    <3>2. QED  BY <1>2, <3>1 DEF ClaimOK
  <2>6. RequestOK(next)  BY <2>4, <2>5 DEF RequestOK
  <2>7. QED  BY <1>4, <2>4, <2>6, GoesOn
<1>5. QED  BY <1>3, <1>4 DEF ReadClaim

\* ReadChallenge keeps the invariant.
LEMMA ReadChallengeInv ==
    ASSUME TasksInv, NEW r \in Request, ReadChallenge(r)
    PROVE  TasksInv'
<1> DEFINE q == request[r]
           next == [q EXCEPT !.pc = "pay"]
<1>1. q \in RequestRows /\ ChallengeOK(q) /\ q.kind = "challenge"
  BY DEF TasksInv, RequestOK, ReadChallenge, At
<1>2. CASE End(r)  BY <1>2, EndInv
<1>3. CASE Go(r, next)
  <2>1. next \in RequestRows /\ next.kind = "challenge" /\ next.left = q.left
    BY <1>1 DEF RequestRows
  <2> HIDE DEF next
  <2>2. RequestOK(next)  BY <1>1, <2>1 DEF RequestOK, ChallengeOK
  <2>3. QED  BY <1>3, <2>1, <2>2, GoesOn
<1>4. QED  BY <1>2, <1>3 DEF ReadChallenge

\* A request that arrives knows the day and the users row of its arrival.
LEMMA ArriveInv ==
    ASSUME TasksInv, NEW r \in Request, Arrive(r)
    PROVE  TasksInv'
<1> DEFINE Loaded(kind, pc, left) ==
               [NoRequest EXCEPT !.kind = kind, !.pc = pc, !.left = left,
                                 !.day = today, !.score = score, !.fresh = TRUE]
<1>1. today \in 1 .. MaxDay /\ today \in 0 .. MaxDay /\ score \in 0 .. MaxScore
  <2>1. today \in 1 .. MaxDay /\ score \in 0 .. MaxScore  BY DEF TasksInv, TypeOK
  <2>2. MaxDay \in Nat  BY TasksAssumption
  <2>3. QED  BY <2>1, <2>2
<1>2. NoRequest \in RequestRows  BY NoneOK
<1>3. ASSUME NEW kind \in {"event", "checkin", "claim", "challenge"},
             NEW pc \in {"streak", "read"}, NEW left \in Seq(Task \cup Challenge)
      PROVE  /\ Loaded(kind, pc, left) \in RequestRows
             /\ Loaded(kind, pc, left).kind = kind /\ Loaded(kind, pc, left).pc = pc
             /\ Loaded(kind, pc, left).left = left /\ Loaded(kind, pc, left).draft = <<>>
             /\ Loaded(kind, pc, left).day = today
  <2>1. NoRequest.draft = <<>>  BY DEF NoRequest
  <2>2. QED  BY <1>1, <1>2, <2>1 DEF RequestRows
<1>4. ASSUME NEW next, request' = [request EXCEPT ![r] = next],
             next \in RequestRows /\ RequestOK(next)
      PROVE  TasksInv'
  BY <1>4, Moved DEF Arrive
<1>5. CASE \E e \in Event : request' = [request EXCEPT ![r] = Loaded("event", "read", CodesOf[e])]
  <2>1. PICK e \in Event : request' = [request EXCEPT ![r] = Loaded("event", "read", CodesOf[e])]
    BY <1>5
  <2> DEFINE left == CodesOf[e]  next == Loaded("event", "read", left)
  <2>2. left \in Seq(Task \ Metas)  BY TasksAssumption
  <2>3. left \in Seq(Task \cup Challenge)  BY <2>2
  <2> HIDE DEF left, Loaded
  <2>4. next \in RequestRows /\ next.kind = "event" /\ next.pc = "read" /\ next.left = left
        /\ next.draft = <<>>
    BY <1>3, <2>3
  <2> HIDE DEF next
  <2>5. RequestOK(next)  BY <2>2, <2>4 DEF RequestOK, EventOK, DraftOK
  <2>6. QED  BY <1>4, <2>1, <2>4, <2>5 DEF next, left
<1>6. CASE request' = [request EXCEPT ![r] = Loaded("checkin", "streak", <<CheckinTask>>)]
  <2> DEFINE left == <<CheckinTask>>  next == Loaded("checkin", "streak", left)
  <2>1. CheckinTask \in Task \ Metas  BY TasksAssumption
  <2>2. left \in Seq(Task \ Metas) /\ left \in Seq(Task \cup Challenge)  BY <2>1
  <2> HIDE DEF left, Loaded
  <2>3. /\ next \in RequestRows /\ next.kind = "checkin" /\ next.pc = "streak"
        /\ next.left = left /\ next.draft = <<>> /\ next.day = today
    BY <1>3, <2>2
  <2> HIDE DEF next
  <2>4. EventOK(next)  BY <2>2, <2>3 DEF EventOK, DraftOK
  <2>5. CheckinOK(next)  BY <1>1, <2>3 DEF CheckinOK
  <2>6. RequestOK(next)  BY <2>3, <2>4, <2>5 DEF RequestOK
  <2>7. QED  BY <1>4, <1>6, <2>3, <2>6 DEF next, left
<1>7. CASE \E t \in Task : request' = [request EXCEPT ![r] = Loaded("claim", "read", <<t>>)]
  <2>1. PICK t \in Task : request' = [request EXCEPT ![r] = Loaded("claim", "read", <<t>>)]
    BY <1>7
  <2> DEFINE left == <<t>>  next == Loaded("claim", "read", left)
  <2>2. left \in Seq(Task \cup Challenge)  OBVIOUS
  <2> HIDE DEF left, Loaded
  <2>3. next \in RequestRows /\ next.kind = "claim" /\ next.pc = "read" /\ next.left = left
    BY <1>3, <2>2
  <2> HIDE DEF next
  <2>4. ClaimOK(next)  BY <2>3 DEF ClaimOK, left
  <2>5. RequestOK(next)  BY <2>3, <2>4 DEF RequestOK
  <2>6. QED  BY <1>4, <2>1, <2>3, <2>5 DEF next, left
<1>8. CASE \E c \in Challenge :
             request' = [request EXCEPT ![r] = Loaded("challenge", "read", <<c>>)]
  <2>1. PICK c \in Challenge :
          request' = [request EXCEPT ![r] = Loaded("challenge", "read", <<c>>)]
    BY <1>8
  <2> DEFINE left == <<c>>  next == Loaded("challenge", "read", left)
  <2>2. left \in Seq(Task \cup Challenge)  OBVIOUS
  <2> HIDE DEF left, Loaded
  <2>3. next \in RequestRows /\ next.kind = "challenge" /\ next.left = left
    BY <1>3, <2>2
  <2> HIDE DEF next
  <2>4. ChallengeOK(next)  BY <2>3 DEF ChallengeOK, left
  <2>5. RequestOK(next)  BY <2>3, <2>4 DEF RequestOK
  <2>6. QED  BY <1>4, <2>1, <2>3, <2>5 DEF next, left
<1>9. \E next \in {Loaded("event", "read", CodesOf[e]) : e \in Event}
                  \cup {Loaded("checkin", "streak", <<CheckinTask>>)}
                  \cup {Loaded("claim", "read", <<t>>) : t \in Task}
                  \cup {Loaded("challenge", "read", <<c>>) : c \in Challenge} :
         request' = [request EXCEPT ![r] = next]
  BY DEF Arrive
<1> HIDE DEF Loaded
<1>10. QED  BY <1>5, <1>6, <1>7, <1>8, <1>9

-----------------------------------------------------------------------------
(* Commits *)

\* A commit of a request that is over, or a write of somebody else.
LEMMA Settled ==
    ASSUME TasksInv, TypeOK', Grown(rows, rows'), rows' \in Seq(ProgressRows),
           checkins \subseteq checkins', streak.late => streak'.late,
           request' = [x \in Request |-> request'[x]],
           \A x \in Request :
              \/ request'[x] = NoRequest
              \/ request'[x] = [request[x] EXCEPT !.fresh = FALSE]
              \/ /\ request'[x] = request[x]
                 /\ \A j \in DOMAIN rows' :
                       rows'[j].claimed => j \in DOMAIN rows /\ rows[j].claimed,
           MetasDeserved', StreakHonest'
    PROVE  TasksInv'
<1>1. ASSUME NEW x \in Request
      PROVE  request'[x] \in RequestRows /\ RequestOK(request[x])'
  <2>1. CASE request'[x] = NoRequest
    <3>1. NoRequest \in RequestRows  BY NoneOK
    <3>2. RequestOK(NoRequest)'  BY DEF NoRequest, RequestOK
    <3>3. QED  BY <2>1, <3>1, <3>2, OKThere
  <2>2. CASE request'[x] # NoRequest  BY <2>2, OtherOK
  <2>3. QED  BY <2>1, <2>2
<1>2. request' \in [Request -> RequestRows]
  <2>1. \A x \in Request : request'[x] \in RequestRows  BY <1>1
  <2>2. QED  BY <2>1
<1>3. QED  BY <1>1, <1>2 DEF TasksInv

\* A commit whose writes are deserved leaves the meta tasks deserved.
LEMMA CommitDeserves ==
    ASSUME TasksInv, NEW draft, Commits(rows, rows', Range(draft)),
           \A i \in DOMAIN draft :
              draft[i].done /\ draft[i].task \in Metas
                => Deserves(draft, draft[i].task, draft[i].day)
    PROVE  MetasDeserved'
<1>1. Grown(rows, rows') /\ rows' \in Seq(ProgressRows)  BY DEF Commits
<1>2. ASSUME NEW j \in DOMAIN rows', rows'[j].done, rows'[j].task \in Metas
      PROVE  Deserves(<<>>, rows[j].task, rows[j].day)'
  <2>1. \/ j \in DOMAIN rows /\ rows[j].done
        \/ \E w \in Range(draft) : w.done /\ Same(rows'[j], w)
    BY <1>2 DEF Commits, Sourced
  <2>2. CASE j \in DOMAIN rows /\ rows[j].done
    <3>1. Same(rows'[j], rows[j])  BY <1>1, <2>2 DEF Grown
    <3>2. PICK meta, day : meta = rows[j].task /\ day = rows[j].day  OBVIOUS
    <3>3. Deserves(<<>>, meta, day)
      BY <1>2, <2>2, <3>1, <3>2 DEF TasksInv, MetasDeserved, Same
    <3>4. Deserves(<<>>, meta, day)'  BY <1>1, <3>3, StillDeserves DEF TasksInv
    <3>5. rows'[j].task = meta /\ rows'[j].day = day  BY <3>1, <3>2 DEF Same
    <3>6. QED  BY <3>4, <3>5
  <2>3. CASE \E w \in Range(draft) : w.done /\ Same(rows'[j], w)
    <3>1. PICK i \in DOMAIN draft : draft[i].done /\ Same(rows'[j], draft[i])
      BY <2>3 DEF Range
    <3>2. PICK meta, day : meta = draft[i].task /\ day = draft[i].day  OBVIOUS
    <3>3. Deserves(draft, meta, day)  BY <1>2, <3>1, <3>2 DEF Same
    <3>4. CompletedOf(draft, meta, day) \subseteq CompletedOf(<<>>, meta, day)'
      <4> SUFFICES ASSUME NEW t \in CompletedOf(draft, meta, day)
                   PROVE  t \in CompletedOf(<<>>, meta, day)'
        OBVIOUS
      <4>1. t \in Required(meta)  BY DEF CompletedOf
      <4>2. \A k \in DOMAIN rows : k \in DOMAIN rows'
        <5>1. rows \in Seq(ProgressRows)  BY GrownSelf DEF TasksInv
        <5>2. /\ DOMAIN rows = 1 .. Len(rows) /\ DOMAIN rows' = 1 .. Len(rows')
              /\ Len(rows) \in Nat /\ Len(rows') \in Nat
          BY <1>1, <5>1
        <5>3. Len(rows) <= Len(rows')  BY <1>1 DEF Grown
        <5>4. QED  BY <5>2, <5>3
      <4>3. CASE \E k \in DOMAIN rows :
                   rows[k].task = t /\ rows[k].day = day /\ rows[k].done
        BY <1>1, <4>1, <4>2, <4>3 DEF CompletedOf, Grown, Same
      <4>4. CASE \E k \in DOMAIN draft :
                   draft[k].task = t /\ draft[k].day = day /\ draft[k].done
        <5>1. PICK k \in DOMAIN draft :
                draft[k].task = t /\ draft[k].day = day /\ draft[k].done
          BY <4>4
        <5>2. Recorded(rows', draft[k])  BY <5>1 DEF Commits, Range
        <5>3. QED  BY <4>1, <5>1, <5>2 DEF Recorded, Same, CompletedOf
      <4>5. QED  BY <4>3, <4>4 DEF CompletedOf
    <3>5. Missing(<<>>, meta, day)' \subseteq Missing(draft, meta, day)
      BY <3>4 DEF Missing
    <3>6. Deserves(<<>>, meta, day)'  BY <3>3, <3>5, MissingLess DEF Deserves
    <3>7. rows'[j].task = meta /\ rows'[j].day = day  BY <3>1, <3>2 DEF Same
    <3>8. QED  BY <3>6, <3>7
  <2>4. QED  BY <2>1, <2>2, <2>3
<1>3. QED  BY <1>2 DEF MetasDeserved

\* The commit of a draft that claims nothing.
LEMMA DraftCommit ==
    ASSUME TasksInv, NEW draft \in Seq(Writes), DraftOK(draft),
           rows' = FoldLeft(Applied, rows, draft)
    PROVE  /\ Commits(rows, rows', Range(draft))
           /\ rows' \in Seq(ProgressRows) /\ Grown(rows, rows') /\ MetasDeserved'
           /\ \A j \in DOMAIN rows' : rows'[j].claimed => j \in DOMAIN rows /\ rows[j].claimed
<1>1. rows \in Seq(ProgressRows)  BY GrownSelf DEF TasksInv
<1>2. \A i \in DOMAIN draft : Fits(rows, draft[i])  BY DEF DraftOK
<1>3. Commits(rows, rows', Range(draft))  BY <1>1, <1>2, CommitOf
<1>4. MetasDeserved'  BY <1>3, CommitDeserves DEF DraftOK
<1>5. \A j \in DOMAIN rows' : rows'[j].claimed => j \in DOMAIN rows /\ rows[j].claimed
  BY <1>3 DEF Commits, Sourced, DraftOK, Range
<1>6. QED  BY <1>3, <1>4, <1>5 DEF Commits

\* CommitEvent keeps the invariant.
LEMMA CommitEventInv ==
    ASSUME TasksInv, NEW r \in Request, CommitEvent(r)
    PROVE  TasksInv'
<1> DEFINE q == request[r]
<1>1. q \in RequestRows /\ EventOK(q)  BY Recording DEF CommitEvent, TasksInv, RequestOK, At
<1>2. q.draft \in Seq(Writes) /\ DraftOK(q.draft)  BY <1>1 DEF RequestRows, EventOK
<1>3. /\ rows' = FoldLeft(Applied, rows, q.draft)
      /\ request' = [request EXCEPT ![r] = NoRequest]
      /\ UNCHANGED <<streak, cash, score, completed, checkins, served, writes, today>>
  BY DEF CommitEvent
<1>4. /\ rows' \in Seq(ProgressRows) /\ Grown(rows, rows') /\ MetasDeserved'
      /\ \A j \in DOMAIN rows' : rows'[j].claimed => j \in DOMAIN rows /\ rows[j].claimed
  BY <1>2, <1>3, DraftCommit
<1>5. TypeOK'  BY <1>3, <1>4 DEF TasksInv, TypeOK, ProgressRows
<1>6. StreakHonest'  BY <1>3 DEF TasksInv, StreakHonest
<1>7. /\ request' = [x \in Request |-> request'[x]]
      /\ \A x \in Request : request'[x] = NoRequest \/ request'[x] = request[x]
  BY <1>3 DEF TasksInv
<1>8. QED  BY <1>3, <1>4, <1>5, <1>6, <1>7, Settled

\* A finite set has a sequence of its members.
LEMMA SequenceOf ==
    ASSUME NEW S, IsFiniteSet(S)
    PROVE  SetToSeq(S) \in Seq(S)
<1> DEFINE n == Cardinality(S)
<1>1. n \in Nat /\ ExistsBijection(1 .. n, S)  BY FS_CardinalityType
<1>2. \E f \in [1 .. n -> S] : IsInjective(f)
  BY <1>1, Zenon DEF ExistsBijection, Bijection, Injection
<1>3. SetToSeq(S) \in [1 .. n -> S]  BY <1>2, Zenon DEF SetToSeq
<1>4. QED  BY <1>1, <1>3

\* The rows of the streak tasks fit, and none is of a meta task.
LEMMA StreakWritesOK ==
    ASSUME TasksInv, NEW current
    PROVE  /\ StreakWrites(current) \in Seq(Writes)
           /\ \A i \in DOMAIN StreakWrites(current) :
                 /\ Fits(rows, StreakWrites(current)[i])
                 /\ ~StreakWrites(current)[i].claimed
                 /\ StreakWrites(current)[i].task \notin Metas
<1> DEFINE open == {t \in StreakTasks(current) : \A i \in Found(t, Forever) : ~rows[i].done}
           row(t) == IF Found(t, Forever) = {} THEN 0
                     ELSE CHOOSE i \in Found(t, Forever) : TRUE
           W(t) == Write(row(t), t, Forever, Target[t], TRUE, FALSE)
           S == {W(t) : t \in open}
           s == StreakWrites(current)
<1>1. s = SetToSeq(S)  BY DEF StreakWrites
<1>2. open \subseteq Task /\ IsFiniteSet(open)
  BY TasksAssumption, FS_Subset DEF StreakTasks
<1>3. IsFiniteSet(S)
  <2> DEFINE f == [t \in open |-> W(t)]
  <2> HIDE DEF open, W
  <2>1. f \in Surjection(open, S)  BY DEF Surjection
  <2> HIDE DEF f, S
  <2>2. QED  BY <1>2, <2>1, FS_Surjection
<1>4. ASSUME NEW t \in open
      PROVE  W(t) \in Writes /\ Fits(rows, W(t)) /\ ~W(t).claimed /\ W(t).task \notin Metas
  <2>1. t \in Task /\ Category[t] = "streak" /\ Target[t] \in Nat
    BY TasksAssumption DEF StreakTasks
  <2>2. row(t) \in Nat  BY FoundNat DEF TasksInv
  <2>3. Forever \in 0 .. MaxDay  BY TasksAssumption DEF Forever
  <2>4. Fits(rows, W(t))  BY FoundFits DEF Write
  <2>5. t \notin Metas
    <3>1. Category[DailyMeta] = "daily" /\ Category[OnboardingMeta] = "onboarding"
      BY TasksAssumption
    <3>2. QED  BY <2>1, <3>1 DEF Metas
  <2> HIDE DEF row, open
  <2>6. W(t) \in Writes /\ ~W(t).claimed /\ W(t).task = t
    BY <2>1, <2>2, <2>3 DEF Write, Writes
  <2>7. QED  BY <2>4, <2>5, <2>6
<1> HIDE DEF W, open
<1>5. \A w \in S : w \in Writes /\ Fits(rows, w) /\ ~w.claimed /\ w.task \notin Metas
  BY <1>4
<1> HIDE DEF S, s
<1>6. s \in Seq(S)  BY <1>1, <1>3, SequenceOf
<1>7. s \in Seq(Writes) /\ \A i \in DOMAIN s : s[i] \in S  BY <1>5, <1>6
<1>8. QED  BY <1>5, <1>7 DEF s

\* A draft that is OK stays so with writes that complete no meta task.
LEMMA LongerDraft ==
    ASSUME NEW a \in Seq(Writes), DraftOK(a), NEW b \in Seq(Writes),
           \A i \in DOMAIN b : Fits(rows, b[i]) /\ ~b[i].claimed /\ b[i].task \notin Metas
    PROVE  a \o b \in Seq(Writes) /\ DraftOK(a \o b)
<1> DEFINE c == a \o b  n == Len(a)  m == Len(b)
<1>1. n \in Nat /\ m \in Nat /\ DOMAIN a = 1 .. n /\ DOMAIN b = 1 .. m  OBVIOUS
<1>2. /\ c \in Seq(Writes) /\ DOMAIN c = 1 .. n + m
      /\ \A i \in 1 .. n : c[i] = a[i]
      /\ \A i \in 1 .. n + m : i > n => c[i] = b[i - n]
  OBVIOUS
<1> HIDE DEF c, n, m
<1>3. \A i \in DOMAIN a : i \in DOMAIN c /\ c[i] = a[i]  BY <1>1, <1>2
<1>4. ASSUME NEW i \in DOMAIN c
      PROVE  /\ Fits(rows, c[i])
             /\ ~c[i].claimed
             /\ c[i].done /\ c[i].task \in Metas => Deserves(c, c[i].task, c[i].day)
  <2>1. CASE i \in DOMAIN a
    <3>1. /\ Fits(rows, a[i]) /\ ~a[i].claimed
          /\ a[i].done /\ a[i].task \in Metas => Deserves(a, a[i].task, a[i].day)
      BY <2>1 DEF DraftOK
    <3>2. QED  BY <1>3, <2>1, <3>1, MoreDeserves
  <2>2. CASE i \notin DOMAIN a
    <3>1. i > n /\ i - n \in DOMAIN b /\ i \in 1 .. n + m  BY <1>1, <1>2, <2>2
    <3>2. c[i] = b[i - n]  BY <1>2, <3>1
    <3>3. QED  BY <3>1, <3>2
  <2>3. QED  BY <2>1, <2>2
<1>5. QED  BY <1>2, <1>4 DEF DraftOK, c

\* The point of a check-in or a challenge.
LEMMA GainType ==
    ASSUME NEW s \in 0 .. MaxScore
    PROVE  s + Gain(s) \in 0 .. MaxScore /\ Gain(s) \in Nat
<1>1. MaxScore \in Nat  BY TasksAssumption
<1>2. QED  BY <1>1 DEF Gain, LesserOf

\* What a check-in stores is honest: its own streak, or the one it finds, which ends on
\* its day or the day before unless it is late.
LEMMA StoredHonest ==
    ASSUME TypeOK, StreakHonest, NEW q \in RequestRows, q.day \in 1 .. MaxDay, StreakReady(q)
    PROVE  /\ StreakRow(q) \in [current : Nat, last : 0 .. MaxDay, late : BOOLEAN]
           /\ streak.late => StreakRow(q).late
           /\ ~StreakRow(q).late =>
                /\ StreakRow(q).current <= StreakRow(q).last
                /\ StreakRow(q).last - StreakRow(q).current + 1 .. StreakRow(q).last
                     \subseteq checkins \cup {q.day}
<1> DEFINE d == q.day  n == q.streak.current  c == streak.current  l == streak.last
           away == c # n /\ l \notin {d - 1, d}
<1>1. /\ d \in Nat /\ d \in 0 .. MaxDay /\ n \in Nat /\ c \in Nat /\ l \in Nat
      /\ streak.late \in BOOLEAN /\ streak \in [current : Nat, last : 0 .. MaxDay, late : BOOLEAN]
  BY TasksAssumption DEF RequestRows, TypeOK
<1>2. ~streak.late => n <= d /\ d - n + 1 .. d - 1 \subseteq checkins
  BY <1>1 DEF StreakReady
<1>3. ~streak.late => c <= l /\ l - c + 1 .. l \subseteq checkins
  BY DEF StreakHonest
<1>4. CASE q.sql = "last"
  <2>1. /\ StreakRow(q).current = c /\ StreakRow(q).last = d
        /\ StreakRow(q).late <=> streak.late \/ away
        /\ StreakRow(q) \in [current : Nat, last : 0 .. MaxDay, late : BOOLEAN]
    BY <1>1, <1>4 DEF StreakRow
  <2>2. ASSUME ~streak.late, ~away
        PROVE  c <= d /\ d - c + 1 .. d \subseteq checkins \cup {d}
    <3> HIDE DEF d, n, c, l
    <3>1. CASE c = n
      <4>1. \A i \in d - n + 1 .. d : i \in d - n + 1 .. d - 1 \/ i = d  BY <1>1
      <4>2. QED  BY <1>2, <2>2, <3>1, <4>1
    <3>2. CASE l = d  BY <1>3, <2>2, <3>2
    <3>3. CASE l = d - 1
      <4>1. \A i \in d - c + 1 .. d : i \in l - c + 1 .. l \/ i = d  BY <1>1, <3>3
      <4>2. c <= d  BY <1>1, <1>3, <2>2, <3>3
      <4>3. QED  BY <1>3, <2>2, <4>1, <4>2
    <3>4. QED  BY <2>2, <3>1, <3>2, <3>3 DEF away
  <2> HIDE DEF away
  <2>3. QED  BY <1>1, <2>1, <2>2
<1>5. CASE q.sql # "last"
  <2>1. /\ StreakRow(q).current = n /\ StreakRow(q).last = d /\ StreakRow(q).late = streak.late
        /\ StreakRow(q) \in [current : Nat, last : 0 .. MaxDay, late : BOOLEAN]
    BY <1>1, <1>5 DEF StreakRow
  <2> HIDE DEF d, n
  <2>2. \A i \in d - n + 1 .. d : i \in d - n + 1 .. d - 1 \/ i = d  BY <1>1
  <2>3. QED  BY <1>2, <2>1, <2>2 DEF d
<1>6. QED  BY <1>4, <1>5

\* CommitCheckin keeps the invariant: the days of the streak have all been committed,
\* the last one now.
LEMMA CommitCheckinInv ==
    ASSUME TasksInv, NEW r \in Request, CommitCheckin(r)
    PROVE  TasksInv'
<1> DEFINE q == request[r]
           more == StreakWrites(q.streak.current)
           draft == q.draft \o more
<1>1. /\ q \in RequestRows /\ EventOK(q) /\ q.kind = "checkin" /\ q.pc = "read"
      /\ q.day \in 1 .. MaxDay /\ StreakReady(q)
  BY DEF TasksInv, RequestOK, CommitCheckin, At, CheckinOK
<1>2. q.draft \in Seq(Writes) /\ DraftOK(q.draft)  BY <1>1 DEF RequestRows, EventOK
<1>3. /\ more \in Seq(Writes)
      /\ \A i \in DOMAIN more :
            Fits(rows, more[i]) /\ ~more[i].claimed /\ more[i].task \notin Metas
  BY StreakWritesOK
<1>4. /\ rows' = FoldLeft(Applied, rows, draft)
      /\ streak' = StreakRow(q) /\ checkins' = checkins \cup {q.day}
      /\ score' = IF Gain(q.score) > 0 THEN q.score + Gain(q.score) ELSE score
      /\ request' = IF Gain(q.score) > 0 THEN Superseded(r)
                    ELSE [request EXCEPT ![r] = NoRequest]
      /\ cash' = cash /\ completed' = completed /\ today' = today
  BY DEF CommitCheckin
<1> HIDE DEF more
<1>5. draft \in Seq(Writes) /\ DraftOK(draft)  BY <1>2, <1>3, LongerDraft
<1> HIDE DEF draft
<1>6. /\ rows' \in Seq(ProgressRows) /\ Grown(rows, rows') /\ MetasDeserved'
      /\ \A j \in DOMAIN rows' : rows'[j].claimed => j \in DOMAIN rows /\ rows[j].claimed
  BY <1>4, <1>5, DraftCommit
<1>7. /\ streak' \in [current : Nat, last : 0 .. MaxDay, late : BOOLEAN]
      /\ streak.late => streak'.late
      /\ ~streak'.late =>
           /\ streak'.current <= streak'.last
           /\ streak'.last - streak'.current + 1 .. streak'.last \subseteq checkins'
  <2>1. TypeOK /\ StreakHonest  BY DEF TasksInv
  <2>2. QED  BY <1>1, <1>4, <2>1, StoredHonest
<1>8. TypeOK'
  <2>1. TypeOK  BY DEF TasksInv
  <2>2. streak' \in [current : Nat, last : 0 .. MaxDay, late : BOOLEAN]
        /\ q.score \in 0 .. MaxScore
    BY <1>1, <1>7 DEF RequestRows
  <2>3. score' \in 0 .. MaxScore  BY <1>4, <2>1, <2>2, GainType DEF TypeOK
  <2>4. checkins' \subseteq 1 .. MaxDay  BY <1>1, <1>4, <2>1 DEF TypeOK
  <2>5. cash' \in Nat /\ completed' \subseteq Challenge /\ today' \in 1 .. MaxDay
    BY <1>4, <2>1 DEF TypeOK
  <2>6. QED  BY <1>6, <2>2, <2>3, <2>4, <2>5 DEF TypeOK, ProgressRows
<1>9. StreakHonest'  BY <1>7 DEF StreakHonest
<1>10. /\ request' = [x \in Request |-> request'[x]]
       /\ \A x \in Request : \/ request'[x] = NoRequest
                             \/ request'[x] = [request[x] EXCEPT !.fresh = FALSE]
                             \/ request'[x] = request[x]
  <2>1. CASE request' = Superseded(r)
    <3>1. request' = [x \in Request |-> IF x = r THEN NoRequest
                                        ELSE [request[x] EXCEPT !.fresh = FALSE]]
      BY <2>1 DEF Superseded
    <3>2. QED  BY <3>1
  <2>2. CASE request' = [request EXCEPT ![r] = NoRequest]
    BY <2>2 DEF TasksInv
  <2>3. QED  BY <1>4, <2>1, <2>2
<1>11. checkins \subseteq checkins'  BY <1>4
<1>12. QED  BY <1>6, <1>7, <1>8, <1>9, <1>10, <1>11, Settled

\* Everybody else is superseded, or over.
LEMMA SupersededThere ==
    ASSUME TasksInv, NEW r \in Request, request' = Superseded(r)
    PROVE  /\ request' = [x \in Request |-> request'[x]]
           /\ \A x \in Request : \/ request'[x] = NoRequest
                                 \/ request'[x] = [request[x] EXCEPT !.fresh = FALSE]
<1>1. request' = [x \in Request |-> IF x = r THEN NoRequest
                                    ELSE [request[x] EXCEPT !.fresh = FALSE]]
  BY DEF Superseded
<1>2. QED  BY <1>1

\* The write of a claim that is paid.
LEMMA ClaimWrite ==
    ASSUME TasksInv, NEW r \in Request, PayClaim(r)
    PROVE  \E t \in Task, w \in Writes :
              /\ request[r].left = <<t>> /\ request[r].day \in 0 .. MaxDay
              /\ w.task = t /\ w.day = Period(t, request[r].day)
              /\ w.claimed /\ (w.done => t \notin Metas)
              /\ Fits(rows, w) /\ rows' = Applied(rows, w)
              /\ Unclaimed(t, Period(t, request[r].day))
              /\ cash' = cash + Reward[t] /\ Reward[t] \in Nat
<1> DEFINE q == request[r]
           t == Head(q.left)
           w == Write(q.row, t, Period(t, q.day), IF t = RankedTask THEN Target[t] ELSE 0,
                      t = RankedTask, TRUE)
<1>1. q \in RequestRows /\ ClaimOK(q) /\ q.kind = "claim" /\ q.pc = "pay" /\ q.fresh
  BY DEF TasksInv, RequestOK, PayClaim, At, MayPay
<1>2. /\ t \in Task /\ q.left = <<t>> /\ Read(q, t) /\ Unclaimed(t, Period(t, q.day))
  <2>1. PICK u \in Task : q.left = <<u>> /\ Read(q, u) /\ Unclaimed(u, Period(u, q.day))
    BY <1>1 DEF ClaimOK
  <2>2. t = u  BY <2>1
  <2>3. QED  BY <2>1, <2>2
<1>3. rows' = Applied(rows, w) /\ cash' = cash + Reward[t]  BY DEF PayClaim
<1>4. q.row \in Nat /\ q.day \in 0 .. MaxDay  BY <1>1 DEF RequestRows
<1> HIDE DEF t
<1>5. Period(t, q.day) \in 0 .. MaxDay  BY <1>4, PeriodType
<1>6. Target[t] \in Nat /\ Reward[t] \in Nat /\ RankedTask \notin Metas
  BY <1>2, TasksAssumption
<1>7. (IF t = RankedTask THEN Target[t] ELSE 0) \in Nat  BY <1>6
<1>8. /\ w \in Writes /\ w.task = t /\ w.day = Period(t, q.day) /\ w.claimed
      /\ w.done <=> t = RankedTask
  <2> DEFINE count == IF t = RankedTask THEN Target[t] ELSE 0  done == (t = RankedTask)
  <2>1. count \in Nat /\ done \in BOOLEAN  BY <1>7
  <2> HIDE DEF count, done
  <2>2. w = Write(q.row, t, Period(t, q.day), count, done, TRUE)  BY DEF count, done
  <2> HIDE DEF w
  <2>3. w \in Writes /\ w.task = t /\ w.day = Period(t, q.day) /\ w.claimed /\ w.done = done
    BY <1>2, <1>4, <1>5, <2>1, <2>2 DEF Write, Writes
  <2>4. QED  BY <2>3 DEF done
<1>9. Fits(rows, w)  BY <1>2 DEF Read, Write, Fits, Same
<1> HIDE DEF w
<1>10. w.done => t \notin Metas  BY <1>6, <1>8
<1>11. QED  BY <1>2, <1>3, <1>4, <1>6, <1>8, <1>9, <1>10

\* PayClaim keeps the invariant: who has claimed supersedes every other request.
LEMMA PayClaimInv ==
    ASSUME TasksInv, NEW r \in Request, PayClaim(r)
    PROVE  TasksInv'
<1>1. PICK t \in Task, w \in Writes :
         /\ w.task = t /\ w.claimed /\ (w.done => t \notin Metas)
         /\ Fits(rows, w) /\ rows' = Applied(rows, w)
         /\ cash' = cash + Reward[t] /\ Reward[t] \in Nat
  BY ClaimWrite
<1>2. /\ request' = Superseded(r) /\ streak' = streak /\ score' = score
      /\ completed' = completed /\ checkins' = checkins /\ today' = today
  BY DEF PayClaim
<1>3. Commits(rows, rows', {w})  BY <1>1, GrownSelf, AppliedOne DEF TasksInv
<1>4. rows' \in Seq(ProgressRows) /\ Grown(rows, rows')  BY <1>3 DEF Commits
<1>5. MetasDeserved'
  <2> DEFINE draft == <<w>>
  <2>1. Range(draft) = {w} /\ \A i \in DOMAIN draft : draft[i] = w  BY DEF Range
  <2> HIDE DEF draft
  <2>2. Commits(rows, rows', Range(draft))  BY <1>3, <2>1
  <2>3. \A i \in DOMAIN draft : ~(draft[i].done /\ draft[i].task \in Metas)  BY <1>1, <2>1
  <2>4. QED  BY <2>2, <2>3, CommitDeserves
<1>6. TypeOK'  BY <1>1, <1>2, <1>4 DEF TasksInv, TypeOK, ProgressRows
<1>7. StreakHonest'  BY <1>2 DEF TasksInv, StreakHonest
<1>8. QED  BY <1>2, <1>4, <1>5, <1>6, <1>7, SupersededThere, Settled

\* Nothing is written to the rows.
LEMMA RowsUnchanged ==
    ASSUME TasksInv, rows' = rows
    PROVE  rows' \in Seq(ProgressRows) /\ Grown(rows, rows') /\ MetasDeserved'
<1>1. rows' \in Seq(ProgressRows) /\ Grown(rows, rows')  BY GrownSelf DEF TasksInv
<1>2. MetasDeserved'  BY DEF TasksInv, MetasDeserved, Deserves, Missing, CompletedOf
<1>3. QED  BY <1>1, <1>2

\* The challenge that is paid.
LEMMA ChallengePaid ==
    ASSUME TasksInv, NEW r \in Request, PayChallenge(r)
    PROVE  \E c \in Challenge : /\ c \notin completed /\ completed' = completed \cup {c}
                                /\ cash' = cash + Reward[c] /\ Reward[c] \in Nat
<1>1. ChallengeOK(request[r])  BY DEF TasksInv, RequestOK, PayChallenge, At
<1>2. PICK c \in Challenge : request[r].left = <<c>>  BY <1>1 DEF ChallengeOK
<1>3. Head(request[r].left) = c  BY <1>2
<1>4. Reward[c] \in Nat  BY TasksAssumption
<1>5. QED  BY <1>3, <1>4 DEF PayChallenge

\* PayChallenge keeps the invariant.
LEMMA PayChallengeInv ==
    ASSUME TasksInv, NEW r \in Request, PayChallenge(r)
    PROVE  TasksInv'
<1>1. /\ request' = Superseded(r) /\ rows' = rows /\ streak' = streak
      /\ score' = request[r].score + Gain(request[r].score)
      /\ checkins' = checkins /\ today' = today
  BY DEF PayChallenge
<1>2. PICK c \in Challenge : /\ completed' = completed \cup {c}
                             /\ cash' = cash + Reward[c] /\ Reward[c] \in Nat
  BY ChallengePaid
<1>3. score' \in 0 .. MaxScore
  <2>1. request[r].score \in 0 .. MaxScore  BY DEF TasksInv, RequestRows
  <2>2. QED  BY <1>1, <2>1, GainType
<1>4. TypeOK'  BY <1>1, <1>2, <1>3 DEF TasksInv, TypeOK
<1>5. StreakHonest'  BY <1>1 DEF TasksInv, StreakHonest
<1>6. QED  BY <1>1, <1>4, <1>5, RowsUnchanged, SupersededThere, Settled

\* A write of the users row by the rest of the system keeps the invariant.
LEMMA ElsewhereInv ==
    ASSUME TasksInv, Elsewhere
    PROVE  TasksInv'
<1>1. /\ rows' = rows /\ streak' = streak /\ cash' = cash /\ completed' = completed
      /\ checkins' = checkins /\ today' = today
      /\ request' = [q \in Request |-> [request[q] EXCEPT !.fresh = FALSE]]
      /\ score' \in {0, LesserOf(score + 1, MaxScore)}
  BY DEF Elsewhere
<1>2. score' \in 0 .. MaxScore
  <2>1. score \in 0 .. MaxScore /\ MaxScore \in Nat  BY TasksAssumption DEF TasksInv, TypeOK
  <2>2. QED  BY <1>1, <2>1 DEF LesserOf
<1>3. TypeOK'  BY <1>1, <1>2 DEF TasksInv, TypeOK
<1>4. StreakHonest'  BY <1>1 DEF TasksInv, StreakHonest
<1>5. /\ request' = [x \in Request |-> request'[x]]
      /\ \A x \in Request : request'[x] = [request[x] EXCEPT !.fresh = FALSE]
  BY <1>1
<1>6. QED  BY <1>1, <1>3, <1>4, <1>5, RowsUnchanged, Settled

\* So does a day that passes.
LEMMA MidnightInv ==
    ASSUME TasksInv, Midnight
    PROVE  TasksInv'
<1>1. /\ rows' = rows /\ streak' = streak /\ cash' = cash /\ completed' = completed
      /\ checkins' = checkins /\ request' = request /\ score' = score
      /\ today < MaxDay /\ today' = today + 1
  BY DEF Midnight
<1>2. today' \in 1 .. MaxDay
  <2>1. today \in 1 .. MaxDay /\ MaxDay \in Nat  BY TasksAssumption DEF TasksInv, TypeOK
  <2>2. QED  BY <1>1, <2>1
<1>3. TypeOK'  BY <1>1, <1>2 DEF TasksInv, TypeOK
<1>4. StreakHonest'  BY <1>1 DEF TasksInv, StreakHonest
<1>5. request' = [x \in Request |-> request'[x]]  BY <1>1 DEF TasksInv
<1>6. QED  BY <1>1, <1>3, <1>4, <1>5, RowsUnchanged, Settled

-----------------------------------------------------------------------------
(* The invariant *)

\* It holds at the start; MaxDay is at least the first day.
LEMMA TasksInit ==
    ASSUME Init
    PROVE  TasksInv
<1>1. MaxScore \in Nat /\ MaxDay \in Nat \ {0}  BY TasksAssumption
<1>2. 0 \in 0 .. MaxScore /\ MaxScore \in 0 .. MaxScore /\ 1 \in 1 .. MaxDay /\ 0 \in 0 .. MaxDay
  BY <1>1
<1>3. TypeOK
  <2>1. rows \in Seq([task : Task, day : Nat, count : Nat, done : BOOLEAN, claimed : BOOLEAN])
    BY DEF Init
  <2>2. QED  BY <1>2, <2>1 DEF Init, TypeOK
<1>4. StreakHonest
  <2>1. streak.current = 0 /\ streak.last = 0  BY DEF Init
  <2>2. 0 - 0 + 1 .. 0 = {}  OBVIOUS
  <2>3. QED  BY <2>1, <2>2 DEF StreakHonest
<1>5. NoRequest \in RequestRows
  <2>1. <<>> \in Seq(Task \cup Challenge) /\ <<>> \in Seq(Writes)  OBVIOUS
  <2>2. QED  BY <1>2, <2>1 DEF NoRequest, RequestRows
<1>6. RequestOK(NoRequest)  BY DEF NoRequest, RequestOK
<1>7. \A r \in Request : request[r] = NoRequest  BY DEF Init
<1>8. request \in [Request -> RequestRows]  BY <1>5 DEF Init
<1>9. MetasDeserved  BY DEF Init, MetasDeserved
<1>10. QED  BY <1>3, <1>4, <1>6, <1>7, <1>8, <1>9 DEF TasksInv

\* Every step keeps it.
LEMMA TasksNext ==
    ASSUME TasksInv, [Next]_vars
    PROVE  TasksInv'
<1>1. ASSUME NEW r \in Request, Arrive(r) PROVE TasksInv'  BY <1>1, ArriveInv
<1>2. ASSUME NEW r \in Request, Serve(r) PROVE TasksInv'
  <2>1. CASE ReadProgress(r)   BY <2>1, ReadProgressInv
  <2>2. CASE WriteProgress(r)  BY <2>2, WriteProgressInv
  <2>3. CASE CompleteMeta(r)   BY <2>3, CompleteMetaInv
  <2>4. CASE CommitEvent(r)    BY <2>4, CommitEventInv
  <2>5. CASE ReadStreak(r)     BY <2>5, ReadStreakInv
  <2>6. CASE FlushStreak(r)    BY <2>6, FlushStreakInv
  <2>7. CASE CommitCheckin(r)  BY <2>7, CommitCheckinInv
  <2>8. CASE ReadClaim(r)      BY <2>8, ReadClaimInv
  <2>9. CASE PayClaim(r)       BY <2>9, PayClaimInv
  <2>10. CASE ReadChallenge(r) BY <2>10, ReadChallengeInv
  <2>11. CASE PayChallenge(r)  BY <2>11, PayChallengeInv
  <2>12. CASE RollBack(r)      BY <2>12, EndInv DEF RollBack
  <2>13. QED
    BY <1>2, <2>1, <2>2, <2>3, <2>4, <2>5, <2>6, <2>7, <2>8, <2>9, <2>10, <2>11, <2>12
    DEF Serve
<1>3. CASE Elsewhere  BY <1>3, ElsewhereInv
<1>4. CASE Midnight   BY <1>4, MidnightInv
<1>5. CASE UNCHANGED vars
  <2>1. /\ rows' = rows /\ streak' = streak /\ cash' = cash /\ completed' = completed
        /\ checkins' = checkins /\ request' = request /\ score' = score /\ today' = today
    BY <1>5 DEF vars
  <2>2. TypeOK'  BY <2>1 DEF TasksInv, TypeOK
  <2>3. StreakHonest'  BY <2>1 DEF TasksInv, StreakHonest
  <2>4. request' = [x \in Request |-> request'[x]]  BY <2>1 DEF TasksInv
  <2>5. QED  BY <2>1, <2>2, <2>3, <2>4, RowsUnchanged, Settled
<1>6. QED  BY <1>1, <1>2, <1>3, <1>4, <1>5 DEF Next

\* The invariant of the tasks, for every number of requests, tasks and days.
THEOREM TasksInvariant == Spec => []TasksInv
<1>1. Init => TasksInv  BY TasksInit
<1>2. TasksInv /\ [Next]_vars => TasksInv'  BY TasksNext
<1>3. QED  BY <1>1, <1>2, PTL DEF Spec

-----------------------------------------------------------------------------
(* What it says *)

\* A meta task is completed only over completed tasks of its own period, whatever
\* events overlap and at midnight too (task_service.py, _maybe_complete_daily).
THEOREM MetaTasksDeserved == Spec => []MetaDeserved
<1>1. TasksInv => MetaDeserved
  <2> SUFFICES ASSUME TasksInv PROVE MetaDeserved  OBVIOUS
  <2>1. TypeOK  BY DEF TasksInv
  <2>2. ASSUME NEW i \in DOMAIN rows, rows[i].done,
               rows[i].task \in {OnboardingMeta, DailyMeta}
        PROVE  Cardinality(Required(rows[i].task)
                             \ CompletedOf(<<>>, rows[i].task, rows[i].day))
                 <= IF rows[i].task = DailyMeta THEN 1 ELSE 0
    BY <2>2 DEF TasksInv, MetasDeserved, Metas, Deserves, Missing, Spare
  <2>3. QED  BY <2>1, <2>2 DEF MetaDeserved
<1>2. QED  BY <1>1, TasksInvariant, PTL

\* A streak counts days in a row on which a check-in was committed, whatever
\* check-ins overlap, unless one that left current_streak out was overtaken by check-ins
\* of other days (task_service.py, checkin).
THEOREM StreaksHonest == Spec => []StreakHonest
<1>1. TasksInv => StreakHonest  BY DEF TasksInv
<1>2. QED  BY <1>1, TasksInvariant, PTL

\* What a step does to the rows: they grow, and only the write of a claim that is
\* paid, of a task and period that nobody had claimed, says claimed.
LEMMA StepGrows ==
    ASSUME TasksInv, [Next]_vars
    PROVE  /\ rows' \in Seq(ProgressRows) /\ Grown(rows, rows')
           /\ \/ \E r \in Request : PayClaim(r)
              \/ \A j \in DOMAIN rows' : rows'[j].claimed => j \in DOMAIN rows /\ rows[j].claimed
<1>1. rows \in Seq(ProgressRows) /\ Grown(rows, rows)  BY GrownSelf DEF TasksInv
<1>2. CASE rows' = rows  BY <1>1, <1>2
<1>3. ASSUME NEW r \in Request, CommitEvent(r)
      PROVE  /\ rows' \in Seq(ProgressRows) /\ Grown(rows, rows')
             /\ \A j \in DOMAIN rows' : rows'[j].claimed => j \in DOMAIN rows /\ rows[j].claimed
  <2>1. request[r] \in RequestRows /\ EventOK(request[r])
    BY <1>3 DEF CommitEvent, TasksInv, RequestOK, At
  <2>2. request[r].draft \in Seq(Writes) /\ DraftOK(request[r].draft)
    BY <2>1 DEF RequestRows, EventOK
  <2>3. rows' = FoldLeft(Applied, rows, request[r].draft)  BY <1>3 DEF CommitEvent
  <2>4. QED  BY <2>2, <2>3, DraftCommit
<1>4. ASSUME NEW r \in Request, CommitCheckin(r)
      PROVE  /\ rows' \in Seq(ProgressRows) /\ Grown(rows, rows')
             /\ \A j \in DOMAIN rows' : rows'[j].claimed => j \in DOMAIN rows /\ rows[j].claimed
  <2> DEFINE more == StreakWrites(request[r].streak.current)
             draft == request[r].draft \o more
  <2>1. request[r] \in RequestRows /\ EventOK(request[r])
    BY <1>4 DEF CommitCheckin, TasksInv, RequestOK, At
  <2>2. request[r].draft \in Seq(Writes) /\ DraftOK(request[r].draft)
    BY <2>1 DEF RequestRows, EventOK
  <2>3. /\ more \in Seq(Writes)
        /\ \A i \in DOMAIN more :
              Fits(rows, more[i]) /\ ~more[i].claimed /\ more[i].task \notin Metas
    BY StreakWritesOK
  <2>4. rows' = FoldLeft(Applied, rows, draft)  BY <1>4 DEF CommitCheckin
  <2> HIDE DEF more
  <2>5. draft \in Seq(Writes) /\ DraftOK(draft)  BY <2>2, <2>3, LongerDraft
  <2> HIDE DEF draft
  <2>6. QED  BY <2>4, <2>5, DraftCommit
<1>5. ASSUME NEW r \in Request, PayClaim(r)
      PROVE  rows' \in Seq(ProgressRows) /\ Grown(rows, rows')
  <2>1. PICK w \in Writes : Fits(rows, w) /\ rows' = Applied(rows, w)
    BY <1>5, ClaimWrite
  <2>2. QED  BY <1>1, <2>1, AppliedOne DEF Commits
<1>6. \/ rows' = rows
      \/ \E r \in Request : CommitEvent(r) \/ CommitCheckin(r) \/ PayClaim(r)
  BY DEF Next, Serve, Arrive, ReadProgress, WriteProgress, CompleteMeta, ReadStreak,
         FlushStreak, ReadClaim, ReadChallenge, PayChallenge, RollBack, Elsewhere,
         Midnight, Go, End, vars
<1>7. QED  BY <1>2, <1>3, <1>4, <1>5, <1>6

\* No write takes back that a task is completed or claimed, an event's that read the
\* row before it was completed neither (task_service.py, _try_complete).
THEOREM CompletionsStick == Spec => CompletionSticks
<1>1. ASSUME TasksInv, [Next]_vars, NEW i \in DOMAIN rows
      PROVE  /\ i \in DOMAIN rows'
             /\ rows[i].done => rows'[i].done
             /\ rows[i].claimed => rows'[i].claimed
  <2>1. rows' \in Seq(ProgressRows) /\ Grown(rows, rows')  BY <1>1, StepGrows
  <2>2. rows \in Seq(ProgressRows)  BY <1>1, GrownSelf DEF TasksInv
  <2>3. i \in DOMAIN rows'
    <3>1. /\ DOMAIN rows = 1 .. Len(rows) /\ DOMAIN rows' = 1 .. Len(rows')
          /\ Len(rows) \in Nat /\ Len(rows') \in Nat
      BY <2>1, <2>2
    <3>2. Len(rows) <= Len(rows')  BY <2>1 DEF Grown
    <3>3. QED  BY <3>1, <3>2
  <2>4. QED  BY <2>1, <2>3 DEF Grown
<1>2. TasksInv /\ [Next]_vars
        => [\A i \in DOMAIN rows : /\ i \in DOMAIN rows'
                                   /\ rows[i].done => rows'[i].done
                                   /\ rows[i].claimed => rows'[i].claimed]_vars
  BY <1>1
<1>3. QED  BY <1>2, TasksInvariant, PTL DEF Spec, CompletionSticks

-----------------------------------------------------------------------------
(* The rewards implement the ledger *)

Paid(table) ==
    {<<table[i].task, table[i].day>> : i \in {j \in DOMAIN table : table[j].claimed}}

\* Rows that grow and claim nothing new have paid what they had.
LEMMA PaidSame ==
    ASSUME NEW a \in Seq(ProgressRows), NEW b \in Seq(ProgressRows), Grown(a, b),
           \A j \in DOMAIN b : b[j].claimed => j \in DOMAIN a /\ a[j].claimed
    PROVE  Paid(b) = Paid(a)
<1>1. \A i \in DOMAIN a : i \in DOMAIN b
  <2>1. DOMAIN a = 1 .. Len(a) /\ DOMAIN b = 1 .. Len(b) /\ Len(a) \in Nat /\ Len(b) \in Nat
    OBVIOUS
  <2>2. Len(a) <= Len(b)  BY DEF Grown
  <2>3. QED  BY <2>1, <2>2
<1>2. \A i \in DOMAIN a : b[i].task = a[i].task /\ b[i].day = a[i].day
  BY DEF Grown, Same
<1>3. {j \in DOMAIN b : b[j].claimed} = {j \in DOMAIN a : a[j].claimed}
  BY <1>1 DEF Grown
<1>4. QED  BY <1>2, <1>3 DEF Paid

\* A claim adds its own task and period.
LEMMA PaidMore ==
    ASSUME NEW a \in Seq(ProgressRows), NEW b, NEW w, w.claimed, Commits(a, b, {w})
    PROVE  Paid(b) = Paid(a) \cup {<<w.task, w.day>>}
<1>1. b \in Seq(ProgressRows) /\ Grown(a, b) /\ Recorded(b, w)  BY DEF Commits
<1>2. \A i \in DOMAIN a : i \in DOMAIN b
  <2>1. DOMAIN a = 1 .. Len(a) /\ DOMAIN b = 1 .. Len(b) /\ Len(a) \in Nat /\ Len(b) \in Nat
    BY <1>1
  <2>2. Len(a) <= Len(b)  BY <1>1 DEF Grown
  <2>3. QED  BY <2>1, <2>2
<1>3. ASSUME NEW i \in DOMAIN a, a[i].claimed
      PROVE  <<a[i].task, a[i].day>> \in Paid(b)
  <2>1. i \in DOMAIN b /\ b[i].claimed /\ b[i].task = a[i].task /\ b[i].day = a[i].day
    BY <1>1, <1>2, <1>3 DEF Grown, Same
  <2>2. QED  BY <2>1 DEF Paid
<1>4. <<w.task, w.day>> \in Paid(b)
  <2>1. PICK j \in DOMAIN b : b[j].claimed /\ b[j].task = w.task /\ b[j].day = w.day
    BY <1>1 DEF Recorded, Same
  <2>2. QED  BY <2>1 DEF Paid
<1>5. ASSUME NEW j \in DOMAIN b, b[j].claimed
      PROVE  <<b[j].task, b[j].day>> \in Paid(a) \cup {<<w.task, w.day>>}
  <2>1. Sourced(a, b, {w}, j)  BY DEF Commits
  <2>2. CASE j \in DOMAIN a /\ a[j].claimed
    <3>1. b[j].task = a[j].task /\ b[j].day = a[j].day  BY <1>1, <2>2 DEF Grown, Same
    <3>2. QED  BY <2>2, <3>1 DEF Paid
  <2>3. CASE Same(b[j], w)  BY <2>3 DEF Same
  <2>4. QED  BY <1>5, <2>1, <2>2, <2>3 DEF Sourced
<1>6. Paid(a) \cup {<<w.task, w.day>>} \subseteq Paid(b)  BY <1>3, <1>4 DEF Paid
<1>7. Paid(b) \subseteq Paid(a) \cup {<<w.task, w.day>>}
  <2> HIDE DEF Paid
  <2>1. \A p \in Paid(b) : \E j \in DOMAIN b : b[j].claimed /\ p = <<b[j].task, b[j].day>>
    BY DEF Paid
  <2>2. QED  BY <1>5, <2>1
<1>8. QED  BY <1>6, <1>7

\* A claim of a task of a period pays the item once.
LEMMA ClaimPays ==
    ASSUME TasksInv, NEW r \in Request, PayClaim(r)
    PROVE  Ledger!Next
<1>1. PICK t \in Task, w \in Writes :
         /\ request[r].day \in 0 .. MaxDay
         /\ w.task = t /\ w.day = Period(t, request[r].day) /\ w.claimed
         /\ Fits(rows, w) /\ rows' = Applied(rows, w)
         /\ Unclaimed(t, Period(t, request[r].day))
         /\ cash' = cash + Reward[t]
  BY ClaimWrite
<1> DEFINE item == <<t, w.day>>
<1>2. rows \in Seq(ProgressRows) /\ Commits(rows, rows', {w})
  BY <1>1, GrownSelf, AppliedOne DEF TasksInv
<1>3. Paid(rows') = Paid(rows) \cup {item}  BY <1>1, <1>2, PaidMore
<1>4. completed' = completed  BY DEF PayClaim
<1>5. PaidItems = Paid(rows) \cup {<<c, Forever>> : c \in completed}
      /\ PaidItems' = Paid(rows') \cup {<<c, Forever>> : c \in completed}
  BY <1>4 DEF PaidItems, Paid
<1>6. item \notin Paid(rows)  BY <1>1 DEF Unclaimed, Paid
<1>7. item \notin {<<c, Forever>> : c \in completed}
  <2>1. completed \subseteq Challenge /\ Task \cap Challenge = {}
    BY TasksAssumption DEF TasksInv, TypeOK
  <2>2. QED  BY <1>1, <2>1
<1>8. item \in Items  BY <1>1, PeriodType DEF Items
<1>9. WorthOf[item] = Reward[t]
  <2>1. item[1] = t  OBVIOUS
  <2>2. QED  BY <1>8, <2>1 DEF WorthOf
<1> HIDE DEF item
<1>10. Ledger!Pay(item)
  <2>1. item \notin PaidItems  BY <1>5, <1>6, <1>7
  <2>2. PaidItems' = PaidItems \cup {item}  BY <1>3, <1>5
  <2>3. cash' = cash + WorthOf[item]  BY <1>1, <1>9
  <2>4. QED  BY <2>1, <2>2, <2>3 DEF Ledger!Pay
<1>11. QED  BY <1>8, <1>10 DEF Ledger!Next

\* So does a challenge.
LEMMA ChallengePays ==
    ASSUME TasksInv, NEW r \in Request, PayChallenge(r)
    PROVE  Ledger!Next
<1>1. PICK c \in Challenge : /\ c \notin completed /\ completed' = completed \cup {c}
                             /\ cash' = cash + Reward[c]
  BY ChallengePaid
<1> DEFINE item == <<c, Forever>>
<1>2. rows' = rows  BY DEF PayChallenge
<1>3. PaidItems = Paid(rows) \cup {<<d, Forever>> : d \in completed}
      /\ PaidItems' = Paid(rows) \cup {<<d, Forever>> : d \in completed'}
  BY <1>2 DEF PaidItems, Paid
<1>4. item \notin Paid(rows)
  <2>1. \A i \in DOMAIN rows : rows[i].task \in Task
    <3>1. rows \in Seq(ProgressRows)  BY GrownSelf DEF TasksInv
    <3>2. \A i \in DOMAIN rows : rows[i] \in ProgressRows  BY <3>1
    <3>3. QED  BY <3>2 DEF ProgressRows
  <2>2. c \notin Task  BY TasksAssumption
  <2>3. QED  BY <2>1, <2>2 DEF Paid
<1>5. item \notin {<<d, Forever>> : d \in completed}  BY <1>1
<1>6. item \in Items  BY DEF Items
<1>7. WorthOf[item] = Reward[c]
  <2>1. item[1] = c  OBVIOUS
  <2>2. QED  BY <1>6, <2>1 DEF WorthOf
<1>8. {<<d, Forever>> : d \in completed'} = {<<d, Forever>> : d \in completed} \cup {item}
  BY <1>1
<1> HIDE DEF item
<1>9. Ledger!Pay(item)
  <2>1. item \notin PaidItems  BY <1>3, <1>4, <1>5
  <2>2. PaidItems' = PaidItems \cup {item}  BY <1>3, <1>8
  <2>3. cash' = cash + WorthOf[item]  BY <1>1, <1>7
  <2>4. QED  BY <2>1, <2>2, <2>3 DEF Ledger!Pay
<1>10. QED  BY <1>6, <1>9 DEF Ledger!Next

\* However many requests claim at the same time, a task of a period or a challenge
\* pays its reward once (task_service.py, claim_task; challenge_service.py): the tasks
\* implement the ledger of rewards.
THEOREM PaidOnceOnly == Spec => PaidOnce
<1>1. Init => Ledger!Init
  <2> SUFFICES ASSUME Init PROVE Ledger!Init  OBVIOUS
  <2>1. rows = <<>> /\ completed = {} /\ cash = 0  BY DEF Init
  <2>2. PaidItems = {}  BY <2>1 DEF PaidItems
  <2>3. QED  BY <2>1, <2>2 DEF Ledger!Init
<1>2. TasksInv /\ [Next]_vars => [Ledger!Next]_<<PaidItems, cash>>
  <2> SUFFICES ASSUME TasksInv, [Next]_vars PROVE [Ledger!Next]_<<PaidItems, cash>>
    OBVIOUS
  <2>1. ASSUME NEW r \in Request, PayClaim(r) PROVE Ledger!Next  BY <2>1, ClaimPays
  <2>2. ASSUME NEW r \in Request, PayChallenge(r) PROVE Ledger!Next
    BY <2>2, ChallengePays
  <2>3. CASE ~ \E r \in Request : PayClaim(r) \/ PayChallenge(r)
    <3>1. cash' = cash /\ completed' = completed
      BY <2>3 DEF Next, Serve, Arrive, ReadProgress, WriteProgress, CompleteMeta, CommitEvent,
         ReadStreak, FlushStreak, CommitCheckin, ReadClaim, ReadChallenge, RollBack,
         Elsewhere, Midnight, Go, End, vars
    <3>2. rows \in Seq(ProgressRows)  BY GrownSelf DEF TasksInv
    <3>3. Paid(rows') = Paid(rows)  BY <2>3, <3>2, StepGrows, PaidSame
    <3>4. PaidItems' = PaidItems  BY <3>1, <3>3 DEF PaidItems, Paid
    <3>5. QED  BY <3>1, <3>4
  <2>4. QED  BY <2>1, <2>2, <2>3
<1>3. QED  BY <1>1, <1>2, TasksInvariant, PTL DEF Spec, PaidOnce, Ledger!Spec

-----------------------------------------------------------------------------
(* The limiter *)

\* What a bucket holds when full.
LEMMA CapacityType == Capacity \in Nat /\ Refill \in Nat \ {0} /\ Refill =< Capacity
<1>1. Burst \in Nat \ {0} /\ Refill \in Nat \ {0}
  BY TokenBucketAssumption
<1>2. \A m, n \in Nat : m > 0 => m * n \in Nat /\ n =< m * n
  <2>1. \A m, n \in Nat : m * n \in Nat
    BY SMT
  <2>2. \A m, n \in Nat : m > 0 => (m - 1) * n \in Nat /\ m * n = (m - 1) * n + n
    BY SMT
  <2>3. QED
    BY <2>1, <2>2
<1>3. QED
  BY <1>1, <1>2 DEF Capacity

\* A coroutine outside acquire() is one of the coroutines' records.
LEMMA AtRestType == AtRest \in TakerType /\ AtRest.at = "rest" /\ AtRest.now = 0
<1>1. (CHOOSE b \in Buckets : TRUE) \in Buckets
  BY TokenBucketAssumption
<1>2. QED
  BY <1>1, CapacityType DEF AtRest, TakerType, Places, Section

\* What a try that got nothing leaves.
LEMMA WaitingType ==
    ASSUME NEW k \in TakerType, NEW wait \in Nat, clock \in Nat
    PROVE  /\ Waiting(k, wait) \in TakerType
           /\ Waiting(k, wait).at \in {"refused", "asleep"}
           /\ Waiting(k, wait).now = 0
<1>1. CASE Overdue(k)
  BY <1>1, AtRestType DEF Waiting, TakerType, Places, AtRest
<1>2. CASE ~Overdue(k)
  <2>1. k.due \in Nat /\ k.due > clock
    BY <1>2 DEF Overdue, TakerType
  <2>2. clock + Sooner(wait, k.due - clock) \in Nat
    BY <2>1 DEF Sooner
  <2>3. QED
    BY <1>2, <2>1, <2>2, AtRestType DEF Waiting, TakerType, Places, AtRest
<1>3. QED
  BY <1>1, <1>2

\* Records of takers, field by field.
LEMMA SetAt ==
    ASSUME NEW k \in TakerType, NEW at \in Places
    PROVE  [k EXCEPT !.at = at] \in TakerType
BY DEF TakerType

LEMMA SetTokens ==
    ASSUME NEW k \in TakerType, NEW tokens \in 0 .. Capacity
    PROVE  [k EXCEPT !.tokens = tokens] \in TakerType
BY DEF TakerType

LEMMA SetWait ==
    ASSUME NEW k \in TakerType, NEW wait \in Nat
    PROVE  [k EXCEPT !.wait = wait] \in TakerType
BY DEF TakerType

LEMMA SetTries ==
    ASSUME NEW k \in TakerType, NEW tries \in Nat
    PROVE  [k EXCEPT !.tries = tries] \in TakerType
BY DEF TakerType

LEMMA SetOf ==
    ASSUME NEW k \in TakerType, NEW b \in Buckets
    PROVE  [k EXCEPT !.of = b] \in TakerType
BY DEF TakerType

LEMMA SetDue ==
    ASSUME NEW k \in TakerType, NEW due \in Nat
    PROVE  [k EXCEPT !.due = due] \in TakerType
BY DEF TakerType

\* The two ways a ledger grows.
LEMMA LedgerType ==
    ASSUME NEW r \in [spent : Nat, twice : Nat, lapsed : BOOLEAN], NEW n \in Nat
    PROVE  /\ Charged(r) \in [spent : Nat, twice : Nat, lapsed : BOOLEAN]
           /\ Counted(r, n) \in [spent : Nat, twice : Nat, lapsed : BOOLEAN]
BY CapacityType DEF Charged, Counted

\* A coroutine about to try for the lock.
LEMMA TryingType ==
    ASSUME NEW k \in TakerType, clock \in Nat
    PROVE  /\ Trying(k) \in TakerType
           /\ Trying(k).at = "lock"
           /\ Trying(k).now = clock
           /\ Trying(k).of = k.of
BY DEF Trying, TakerType, Places

\* What there is to take is at most the capacity, and at most what was left
\* and the ticks since the stamp.
LEMMA RefilledBound ==
    ASSUME NEW k \in TakerType, NEW stamp \in Nat \cup {NoStamp}
    PROVE  /\ Refilled(k, stamp) \in 0 .. Capacity
           /\ stamp = NoStamp => Refilled(k, stamp) =< k.tokens
           /\ stamp # NoStamp => Refilled(k, stamp) + stamp =< k.tokens + Later(k.now, stamp)
BY CapacityType DEF Refilled, Sooner, Later, TakerType, NoStamp

-----------------------------------------------------------------------------
\* The invariant holds before the first token is taken.
THEOREM InitInv == BucketInit => IInv
<1> SUFFICES ASSUME BucketInit PROVE IInv
  OBVIOUS
<1>1. BucketTypeOK
  <2>1. clock \in 0..MaxTime
    BY TokenBucketAssumption DEF BucketInit
  <2>2. bucket \in [Buckets -> [tokens : 0..Capacity, stamp : Nat \cup {NoStamp}]]
    BY CapacityType DEF BucketInit
  <2>3. lock \in [Buckets -> [owner : Takers \cup {None}, until : Nat]]
    BY DEF BucketInit, Unlocked
  <2>4. taker \in [Takers -> TakerType]
    BY AtRestType DEF BucketInit
  <2>5. ledger \in [Buckets -> [spent : Nat, twice : Nat, lapsed : BOOLEAN]]
    BY DEF BucketInit
  <2>6. QED
    BY <2>1, <2>2, <2>3, <2>4, <2>5 DEF BucketTypeOK
<1>2. \A t \in Takers : taker[t].at = "rest" /\ taker[t].now = 0
  BY AtRestType DEF BucketInit
<1>3. TimesPast
  BY <1>2 DEF BucketInit, TimesPast, NoStamp
<1>4. HolderAlone /\ HandsEarned
  BY <1>2 DEF HolderAlone, HandsEarned, Hands, Section
<1>5. CreditEarned
  BY CapacityType DEF BucketInit, CreditEarned, Credit, Earned, Since, NoStamp
<1>6. QED
  BY <1>1, <1>3, <1>4, <1>5 DEF IInv

-----------------------------------------------------------------------------
\* Types, action by action.
LEMMA TypeStep == BucketTypeOK /\ [BucketNext]_bucketVars => BucketTypeOK'
<1> SUFFICES ASSUME BucketTypeOK, [BucketNext]_bucketVars PROVE BucketTypeOK'
  OBVIOUS
<1>0. /\ clock \in Nat
      /\ Capacity \in Nat /\ Refill \in Nat \ {0} /\ Refill =< Capacity
      /\ \A t \in Takers : taker[t] \in TakerType
      /\ \A b \in Buckets : /\ bucket[b] \in [tokens : 0..Capacity, stamp : Nat \cup {NoStamp}]
                             /\ lock[b] \in [owner : Takers \cup {None}, until : Nat]
                             /\ ledger[b] \in [spent : Nat, twice : Nat, lapsed : BOOLEAN]
  BY TokenBucketAssumption, CapacityType DEF BucketTypeOK
<1>1. CASE UNCHANGED bucketVars
  BY <1>1 DEF BucketTypeOK, bucketVars
<1>2. CASE Tick
  <2>1. clock' \in 0..MaxTime
    BY <1>0, <1>2, TokenBucketAssumption DEF Tick, BucketTypeOK
  <2>2. lock' \in [Buckets -> [owner : Takers \cup {None}, until : Nat]]
    BY <1>0, <1>2 DEF Tick, Unlocked
  <2>3. \A b \in Buckets : \A x \in BOOLEAN :
            [ledger[b] EXCEPT !.lapsed = x] \in [spent : Nat, twice : Nat, lapsed : BOOLEAN]
    BY <1>0
  <2>4. \A b \in Buckets :
            (ledger[b].lapsed \/ (Lapses(b) /\ \E t \in Takers :
                                     lock[b].owner = t /\ InSection(t, b))) \in BOOLEAN
    BY <1>0
  <2>5. ledger' \in [Buckets -> [spent : Nat, twice : Nat, lapsed : BOOLEAN]]
    BY <1>2, <2>3, <2>4 DEF Tick
  <2>6. QED
    BY <1>2, <2>1, <2>2, <2>5 DEF Tick, BucketTypeOK
<1>3. ASSUME NEW t \in Takers, NEW b \in Buckets, Acquire(t, b) PROVE BucketTypeOK'
  <2>1. [AtRest EXCEPT !.of = b, !.due = clock + MaxWait] \in TakerType
    <3>1. [AtRest EXCEPT !.of = b] \in TakerType
      BY AtRestType, SetOf
    <3> DEFINE r == [AtRest EXCEPT !.of = b]
    <3>2. clock + MaxWait \in Nat
      BY <1>0, TokenBucketAssumption
    <3>3. r \in TakerType
      BY <3>1
    <3> HIDE DEF r
    <3>4. [r EXCEPT !.due = clock + MaxWait] \in TakerType
      BY <3>2, <3>3, SetDue
    <3>5. QED
      BY <3>4 DEF r
  <2>2. Trying([AtRest EXCEPT !.of = b, !.due = clock + MaxWait]) \in TakerType
    BY <1>0, <2>1, TryingType
  <2>3. QED
    BY <1>0, <1>3, <2>2 DEF Acquire, BucketTypeOK
<1>4. ASSUME NEW t \in Takers, Wake(t) PROVE BucketTypeOK'
  BY <1>0, <1>4, TryingType DEF Wake, BucketTypeOK
<1>5. ASSUME NEW t \in Takers, Lock(t) PROVE BucketTypeOK'
  <2>1. taker' \in [Takers -> TakerType]
    <3>1. [taker[t] EXCEPT !.at = "tokens"] \in TakerType
      BY <1>0, SetAt DEF Places, Section
    <3>2. [taker[t] EXCEPT !.tries = taker[t].tries + 1] \in TakerType
      BY <1>0, SetTries DEF TakerType
    <3>3. Waiting(taker[t], 1) \in TakerType
      BY <1>0, WaitingType
    <3>4. \E r \in TakerType : taker' = [taker EXCEPT ![t] = r]
      BY <1>5, <3>1, <3>2, <3>3 DEF Lock
    <3>5. QED
      BY <3>4 DEF BucketTypeOK
  <2>2. lock' \in [Buckets -> [owner : Takers \cup {None}, until : Nat]]
    BY <1>0, <1>5, TokenBucketAssumption DEF Lock, BucketTypeOK
  <2>3. QED
    BY <1>5, <2>1, <2>2 DEF Lock, BucketTypeOK
<1>6. ASSUME NEW t \in Takers, GetTokens(t) PROVE BucketTypeOK'
  <2> DEFINE tokens == bucket[taker[t].of].tokens
  <2>1. tokens \in 0 .. Capacity
    BY <1>0 DEF TakerType
  <2>2. [taker[t] EXCEPT !.at = "stamp"] \in TakerType
    BY <1>0, SetAt DEF Places, Section
  <2>3. [[taker[t] EXCEPT !.at = "stamp"] EXCEPT !.tokens = tokens] \in TakerType
    BY <2>1, <2>2, SetTokens
  <2>4. [taker[t] EXCEPT !.at = "stamp", !.tokens = tokens] \in TakerType
    BY <2>3
  <2>5. QED
    BY <1>6, <2>4 DEF GetTokens, BucketTypeOK
<1>7. ASSUME NEW t \in Takers, GetStamp(t) PROVE BucketTypeOK'
  <2> DEFINE have == Refilled(taker[t], bucket[taker[t].of].stamp)
  <2>1. have \in 0 .. Capacity
    BY <1>0, RefilledBound DEF TakerType
  <2>2. taker' \in [Takers -> TakerType]
    <3>1. CASE have >= Refill
      <4> DEFINE r == [taker[t] EXCEPT !.at = "spend"]
                 left == have - Refill
      <4>1. r \in TakerType
        BY <1>0, SetAt DEF Places, Section
      <4>2. left \in 0 .. Capacity
        BY <1>0, <2>1, <3>1
      <4>3. taker' = [taker EXCEPT ![t] = [taker[t] EXCEPT !.at = "spend", !.tokens = left]]
        BY <1>7, <3>1 DEF GetStamp
      <4>4. taker' = [taker EXCEPT ![t] = [r EXCEPT !.tokens = left]]
        BY <4>3
      <4> HIDE DEF r, left
      <4>5. [r EXCEPT !.tokens = left] \in TakerType
        BY <4>1, <4>2, SetTokens
      <4>6. QED
        BY <4>4, <4>5 DEF BucketTypeOK
    <3>2. CASE ~(have >= Refill)
      <4> DEFINE r == [taker[t] EXCEPT !.at = "free"]
                 q == [r EXCEPT !.tokens = 0]
                 short == Refill - have
      <4>1. r \in TakerType
        BY <1>0, SetAt DEF Places, Section
      <4>2. q \in TakerType
        <5> HIDE DEF r
        <5>1. QED
          BY <1>0, <4>1, SetTokens
      <4>3. short \in Nat
        BY <1>0, <2>1, <3>2
      <4>4. taker' = [taker EXCEPT ![t] =
                         [taker[t] EXCEPT !.at = "free", !.tokens = 0, !.wait = short]]
        BY <1>7, <3>2 DEF GetStamp
      <4>5. taker' = [taker EXCEPT ![t] = [q EXCEPT !.wait = short]]
        BY <4>4
      <4> HIDE DEF q, short
      <4>6. [q EXCEPT !.wait = short] \in TakerType
        BY <4>2, <4>3, SetWait
      <4>7. QED
        BY <4>5, <4>6 DEF BucketTypeOK
    <3>3. QED
      BY <3>1, <3>2
  <2>3. QED
    BY <1>7, <2>2 DEF GetStamp, BucketTypeOK
<1>8. ASSUME NEW t \in Takers, Spend(t) PROVE BucketTypeOK'
  <2>1. taker' \in [Takers -> TakerType]
    <3>1. [taker[t] EXCEPT !.at = "mark"] \in TakerType
      BY <1>0, SetAt DEF Places, Section
    <3>2. QED
      BY <1>8, <3>1 DEF Spend, BucketTypeOK
  <2>2. bucket' \in [Buckets -> [tokens : 0..Capacity, stamp : Nat \cup {NoStamp}]]
    BY <1>0, <1>8 DEF Spend, BucketTypeOK, TakerType
  <2>3. ledger' \in [Buckets -> [spent : Nat, twice : Nat, lapsed : BOOLEAN]]
    <3>1. taker[t].of \in Buckets
      BY <1>0 DEF TakerType
    <3>2. ledger' = [ledger EXCEPT ![taker[t].of] = Charged(ledger[taker[t].of])]
      BY <1>8 DEF Spend
    <3>3. QED
      BY <1>0, <3>1, <3>2, LedgerType DEF BucketTypeOK
  <2>4. QED
    BY <1>8, <2>1, <2>2, <2>3 DEF Spend, BucketTypeOK
<1>9. ASSUME NEW t \in Takers, Mark(t) PROVE BucketTypeOK'
  <2>1. taker' \in [Takers -> TakerType]
    <3>1. [[taker[t] EXCEPT !.at = "free"] EXCEPT !.wait = 0] \in TakerType
      BY <1>0, SetAt, SetWait DEF Places, Section
    <3>2. [taker[t] EXCEPT !.at = "free", !.wait = 0] \in TakerType
      BY <3>1
    <3>3. QED
      BY <1>9, <3>2 DEF Mark, BucketTypeOK
  <2>2. bucket' \in [Buckets -> [tokens : 0..Capacity, stamp : Nat \cup {NoStamp}]]
    BY <1>0, <1>9 DEF Mark, BucketTypeOK, TakerType
  <2>3. Later(0, bucket[taker[t].of].stamp - taker[t].now) \in Nat
    BY <1>0 DEF Later, TakerType, NoStamp
  <2>4. ledger' \in [Buckets -> [spent : Nat, twice : Nat, lapsed : BOOLEAN]]
    <3>1. taker[t].of \in Buckets
      BY <1>0 DEF TakerType
    <3>2. ledger' = [ledger EXCEPT ![taker[t].of] =
              Counted(ledger[taker[t].of], Later(0, bucket[taker[t].of].stamp - taker[t].now))]
      BY <1>9 DEF Mark
    <3>3. QED
      BY <1>0, <2>3, <3>1, <3>2, LedgerType DEF BucketTypeOK
  <2>5. QED
    BY <1>9, <2>1, <2>2, <2>4 DEF Mark, BucketTypeOK
<1>10. ASSUME NEW t \in Takers, Free(t) PROVE BucketTypeOK'
  <2>1. [AtRest EXCEPT !.at = "granted", !.of = taker[t].of] \in TakerType
    BY <1>0, AtRestType DEF TakerType, Places
  <2>2. Waiting(taker[t], taker[t].wait) \in TakerType
    BY <1>0, WaitingType DEF TakerType
  <2>3. taker' \in [Takers -> TakerType]
    BY <1>0, <1>10, <2>1, <2>2 DEF Free, BucketTypeOK
  <2>4. QED
    BY <1>0, <1>10, <2>3 DEF Free, BucketTypeOK, Unlocked
<1>11. ASSUME NEW t \in Takers, Failure(t) PROVE BucketTypeOK'
  <2> DEFINE k == taker[t]
             stamped == bucket[k.of].stamp
             again == IF k.at = "mark" /\ stamped # NoStamp THEN Later(0, k.now - stamped) ELSE 0
  <2>1. k \in TakerType /\ k.of \in Buckets /\ k.now \in Nat
    BY <1>0 DEF TakerType
  <2>2. again \in Nat
    BY <1>0, <2>1 DEF Later
  <2>3. [AtRest EXCEPT !.at = "failed", !.of = k.of] \in TakerType
    BY <2>1, AtRestType DEF TakerType, Places
  <2>4. ledger' = [ledger EXCEPT ![k.of] = Counted(@, again)]
    BY <1>11 DEF Failure
  <2>5. taker' = [taker EXCEPT ![t] = [AtRest EXCEPT !.at = "failed", !.of = k.of]]
    BY <1>11 DEF Failure
  <2>6. UNCHANGED <<clock, bucket>> /\ (UNCHANGED lock \/ lock' = [lock EXCEPT ![k.of] = Unlocked])
    BY <1>11 DEF Failure
  <2> HIDE DEF again, k
  <2>7. ledger' \in [Buckets -> [spent : Nat, twice : Nat, lapsed : BOOLEAN]]
    BY <1>0, <2>1, <2>2, <2>4, LedgerType DEF BucketTypeOK
  <2>8. taker' \in [Takers -> TakerType]
    BY <2>3, <2>5 DEF BucketTypeOK
  <2>9. lock' \in [Buckets -> [owner : Takers \cup {None}, until : Nat]]
    BY <2>6 DEF BucketTypeOK, Unlocked
  <2>10. QED
    BY <2>6, <2>7, <2>8, <2>9 DEF BucketTypeOK
<1>12. ASSUME NEW t \in Takers, Resume(t) \/ Abandon(t) PROVE BucketTypeOK'
  BY <1>0, <1>12, AtRestType DEF Resume, Abandon, BucketTypeOK
<1>13. QED
  BY <1>1, <1>2, <1>3, <1>4, <1>5, <1>6, <1>7, <1>8, <1>9, <1>10, <1>11, <1>12
  DEF BucketNext, Command

-----------------------------------------------------------------------------
\* While no lock has lapsed, at most one coroutine is between a bucket's lock
\* and its release.
LEMMA Alone ==
    ASSUME HolderAlone, NEW t \in Takers, NEW u \in Takers,
           taker[t].at \in Section, taker[u].at \in Section,
           taker[t].of = taker[u].of, ~ledger[taker[t].of].lapsed
    PROVE  t = u
BY DEF HolderAlone

\* What a coroutine has in its hands stays earned while its bucket is left
\* alone.
LEMMA HandsFrame ==
    ASSUME BucketTypeOK, BucketTypeOK', NEW u \in Takers, taker'[u] = taker[u], Hands(u),
           bucket'[taker[u].of] = bucket[taker[u].of],
           ledger'[taker[u].of].spent = ledger[taker[u].of].spent,
           ledger'[taker[u].of].twice >= ledger[taker[u].of].twice
    PROVE  Hands(u)'
<1> DEFINE b == taker[u].of
<1>1. /\ b \in Buckets /\ taker[u].tokens \in Nat /\ taker[u].now \in Nat
      /\ bucket[b].tokens \in Nat /\ ledger[b].spent \in Nat /\ Refill \in Nat
      /\ ledger[b].twice \in Nat /\ ledger'[b].twice \in Nat
      /\ bucket[b].stamp \in Nat \cup {NoStamp}
  BY CapacityType DEF BucketTypeOK, TakerType
<1>2. Earned(b) \in Nat /\ Earned(b)' \in Nat /\ Earned(b)' >= Earned(b)
  BY <1>1, CapacityType DEF Earned
<1>3. Horizon(u) \in Nat /\ Horizon(u)' = Horizon(u)
  BY <1>1 DEF Horizon, Later
<1>4. QED
  BY <1>1, <1>2, <1>3 DEF Hands

\* A coroutine goes to where it holds nothing, from where it owed no stamp.
LEMMA LeaveStep ==
    ASSUME IInv, BucketTypeOK', NEW t \in Takers, NEW r \in TakerType,
           taker' = [taker EXCEPT ![t] = r],
           r.at \notin Section, r.now =< clock, taker[t].at # "mark",
           clock' = clock, bucket' = bucket,
           \A b \in Buckets : /\ ledger'[b].spent = ledger[b].spent
                              /\ ledger'[b].twice >= ledger[b].twice
                              /\ ledger'[b].lapsed = ledger[b].lapsed,
           \/ lock' = lock
           \/ taker[t].at \in Section /\ lock' = [lock EXCEPT ![taker[t].of] = Unlocked]
    PROVE  IInv'
<1>1. /\ taker'[t] = r
      /\ \A u \in Takers : u # t => taker'[u] = taker[u]
      /\ \A u \in Takers : taker[u].of \in Buckets /\ taker[u].now \in Nat
      /\ r.of \in Buckets
  BY DEF IInv, BucketTypeOK, TakerType
<1>2. TimesPast'
  BY <1>1 DEF IInv, TimesPast
<1>3. HolderAlone'
  <2> SUFFICES ASSUME NEW u \in Takers, taker'[u].at \in Section,
                      ~ledger'[taker'[u].of].lapsed
               PROVE  lock'[taker'[u].of].owner = u
    BY DEF HolderAlone, Section
  <2>1. u # t /\ taker'[u] = taker[u] /\ ~ledger[taker[u].of].lapsed
    BY <1>1
  <2>2. lock[taker[u].of].owner = u
    BY <2>1 DEF IInv, HolderAlone
  <2>3. CASE lock' = lock
    BY <2>1, <2>2, <2>3
  <2>4. CASE taker[t].at \in Section /\ lock' = [lock EXCEPT ![taker[t].of] = Unlocked]
    <3>1. taker[t].of # taker[u].of
      BY <2>1, <2>4, Alone DEF IInv
    <3>2. QED
      BY <1>1, <2>1, <2>2, <2>4, <3>1 DEF IInv, BucketTypeOK
  <2>5. QED
    BY <2>3, <2>4
<1>4. \A b \in Buckets : /\ Earned(b)' \in Nat /\ Earned(b) \in Nat /\ Earned(b)' >= Earned(b)
                         /\ ledger[b].spent \in Nat
                         /\ bucket[b].tokens \in Nat
                         /\ Since(b)' = Since(b) /\ Since(b) \in Nat
  BY CapacityType DEF IInv, BucketTypeOK, Earned, Since, NoStamp
<1>5. CreditEarned'
  <2> SUFFICES ASSUME NEW b \in Buckets, ~ledger'[b].lapsed,
                      ~(bucket'[b].tokens + ledger'[b].spent =< Earned(b)' + Since(b)')
               PROVE  \E u \in Takers : taker'[u].at = "mark" /\ taker'[u].of = b
    BY DEF CreditEarned, Credit
  <2>1. ~(bucket[b].tokens + ledger[b].spent =< Earned(b) + Since(b))
    BY <1>4
  <2>2. PICK u \in Takers : taker[u].at = "mark" /\ taker[u].of = b
    BY <2>1 DEF IInv, CreditEarned, Credit
  <2>3. QED
    BY <1>1, <2>2
<1>6. HandsEarned'
  <2> SUFFICES ASSUME NEW u \in Takers, taker'[u].at \in Section,
                      ~ledger'[taker'[u].of].lapsed
               PROVE  Hands(u)'
    BY DEF HandsEarned, Hands, Section
  <2>1. u # t /\ taker'[u] = taker[u] /\ ~ledger[taker[u].of].lapsed
    BY <1>1
  <2>2. Hands(u)
    BY <2>1 DEF IInv, HandsEarned
  <2>3. QED
    BY <1>1, <2>1, <2>2, HandsFrame DEF IInv
<1>7. QED
  BY <1>2, <1>3, <1>5, <1>6 DEF IInv

\* And touches nothing but itself.
LEMMA OutsideStep ==
    ASSUME IInv, BucketTypeOK', NEW t \in Takers, NEW r \in TakerType,
           taker' = [taker EXCEPT ![t] = r],
           r.at \notin Section, r.now =< clock, taker[t].at # "mark",
           UNCHANGED <<clock, bucket, lock, ledger>>
    PROVE  IInv'
<1>1. \A b \in Buckets : ledger[b].twice \in Nat
  BY DEF IInv, BucketTypeOK
<1>2. \A b \in Buckets : /\ ledger'[b].spent = ledger[b].spent
                         /\ ledger'[b].twice >= ledger[b].twice
                         /\ ledger'[b].lapsed = ledger[b].lapsed
  BY <1>1
<1>3. QED
  BY <1>2, LeaveStep

\* A coroutine in the section of a bucket moves: the others are untouched, and
\* none of them is in that section.
LEMMA InsideStep ==
    ASSUME IInv, BucketTypeOK', NEW t \in Takers, NEW r \in TakerType, NEW b \in Buckets,
           taker' = [taker EXCEPT ![t] = r],
           taker[t].at \in Section, taker[t].of = b, r.of = b, r.now =< clock,
           clock' = clock,
           \A a \in Buckets : a # b => bucket'[a] = bucket[a] /\ ledger'[a] = ledger[a],
           ledger'[b].lapsed = ledger[b].lapsed,
           bucket'[b].stamp =< clock,
           \/ lock' = lock
           \/ r.at \notin Section /\ lock' = [lock EXCEPT ![b] = Unlocked],
           ~ledger[b].lapsed => Credit(b)' /\ Hands(t)'
    PROVE  IInv'
<1>1. /\ taker'[t] = r
      /\ \A u \in Takers : u # t => taker'[u] = taker[u]
      /\ \A u \in Takers : taker[u].of \in Buckets
      /\ \A a \in Buckets : a # b => lock'[a] = lock[a]
  BY DEF IInv, BucketTypeOK, TakerType
<1>2. \A u \in Takers : u # t /\ taker[u].at \in Section /\ ~ledger'[taker[u].of].lapsed
                           => taker[u].of # b
  BY Alone DEF IInv
<1>3. TimesPast'
  BY <1>1 DEF IInv, TimesPast
<1>4. HolderAlone'
  <2> SUFFICES ASSUME NEW u \in Takers, taker'[u].at \in Section,
                      ~ledger'[taker'[u].of].lapsed
               PROVE  lock'[taker'[u].of].owner = u
    BY DEF HolderAlone
  <2>1. CASE u = t
    BY <1>1, <2>1 DEF IInv, HolderAlone
  <2>2. CASE u # t
    <3>1. taker'[u] = taker[u] /\ taker[u].of # b
      BY <1>1, <1>2, <2>2
    <3>2. lock[taker[u].of].owner = u
      BY <1>1, <3>1 DEF IInv, HolderAlone
    <3>3. QED
      BY <1>1, <3>1, <3>2
  <2>3. QED
    BY <2>1, <2>2
<1>5. CreditEarned'
  <2> SUFFICES ASSUME NEW a \in Buckets, ~ledger'[a].lapsed PROVE Credit(a)'
    BY DEF CreditEarned
  <2>1. CASE a = b
    BY <2>1
  <2>2. CASE a # b
    <3>1. bucket'[a] = bucket[a] /\ ledger'[a] = ledger[a]
      BY <2>2
    <3>2. Credit(a)
      BY <3>1 DEF IInv, CreditEarned
    <3>3. Earned(a)' = Earned(a) /\ Since(a)' = Since(a)
      BY <3>1 DEF Earned, Since
    <3>4. CASE bucket[a].tokens + ledger[a].spent =< Earned(a) + Since(a)
      BY <3>1, <3>3, <3>4 DEF Credit
    <3>5. CASE \E u \in Takers : taker[u].at = "mark" /\ taker[u].of = a
      <4>1. PICK u \in Takers : taker[u].at = "mark" /\ taker[u].of = a
        BY <3>5
      <4>2. taker'[u] = taker[u]
        BY <1>1, <2>2, <4>1
      <4>3. QED
        BY <4>1, <4>2 DEF Credit
    <3>6. QED
      BY <3>2, <3>4, <3>5 DEF Credit
  <2>3. QED
    BY <2>1, <2>2
<1>6. HandsEarned'
  <2> SUFFICES ASSUME NEW u \in Takers, taker'[u].at \in Section,
                      ~ledger'[taker'[u].of].lapsed
               PROVE  Hands(u)'
    BY DEF HandsEarned, Hands, Section
  <2>1. CASE u = t
    BY <1>1, <2>1
  <2>2. CASE u # t
    <3>1. taker'[u] = taker[u] /\ taker[u].of # b
      BY <1>1, <1>2, <2>2
    <3>2. bucket'[taker[u].of] = bucket[taker[u].of] /\ ledger'[taker[u].of] = ledger[taker[u].of]
      BY <1>1, <3>1
    <3>3. Hands(u)
      BY <3>1, <3>2 DEF IInv, HandsEarned
    <3>4. ledger[taker[u].of].twice \in Nat
      BY <1>1 DEF IInv, BucketTypeOK
    <3>5. QED
      BY <3>1, <3>2, <3>3, <3>4, HandsFrame DEF IInv
  <2>3. QED
    BY <2>1, <2>2
<1>7. QED
  BY <1>3, <1>4, <1>5, <1>6 DEF IInv

\* Nobody owes a stamp to a bucket whose section a coroutine is in elsewhere.
LEMMA UnmarkedCredit ==
    ASSUME IInv, NEW t \in Takers, NEW b \in Buckets, NEW r \in TakerType,
           taker' = [taker EXCEPT ![t] = r],
           taker[t].at \in Section \ {"mark"}, taker[t].of = b,
           UNCHANGED <<bucket, ledger>>,
           ~ledger[b].lapsed
    PROVE  Credit(b)'
<1>1. Credit(b) /\ ~\E u \in Takers : taker[u].at = "mark" /\ taker[u].of = b
  BY Alone DEF IInv, CreditEarned, Section
<1>2. Earned(b)' = Earned(b) /\ Since(b)' = Since(b)
  BY DEF Earned, Since
<1>3. QED
  BY <1>1, <1>2 DEF Credit

-----------------------------------------------------------------------------
\* The invariant, action by action.
THEOREM StepInv == IInv /\ [BucketNext]_bucketVars => IInv'
<1> SUFFICES ASSUME IInv, [BucketNext]_bucketVars PROVE IInv'
  OBVIOUS
<1>0. BucketTypeOK /\ BucketTypeOK'
  BY TypeStep DEF IInv
<1>a. /\ clock \in Nat /\ Refill \in Nat \ {0} /\ Capacity \in Nat
      /\ \A t \in Takers : taker[t] \in TakerType /\ taker[t].of \in Buckets
      /\ \A b \in Buckets : /\ bucket[b].tokens \in Nat
                             /\ bucket[b].stamp \in Nat \cup {NoStamp}
                             /\ ledger[b].spent \in Nat /\ ledger[b].twice \in Nat
  BY <1>0, CapacityType DEF BucketTypeOK, TakerType
<1>1. CASE UNCHANGED bucketVars
  BY <1>1, <1>0 DEF bucketVars, IInv, TimesPast, HolderAlone, CreditEarned, Credit,
                    HandsEarned, Hands, Horizon, Since, Earned
<1>2. CASE Tick
  <2>1. /\ taker' = taker /\ bucket' = bucket /\ clock' = clock + 1
        /\ \A b \in Buckets :
              /\ ledger'[b].spent = ledger[b].spent
              /\ ledger'[b].twice = ledger[b].twice
              /\ ~ledger'[b].lapsed =>
                    /\ ~ledger[b].lapsed
                    /\ Lapses(b) => ~\E t \in Takers : lock[b].owner = t /\ InSection(t, b)
              /\ ~Lapses(b) => lock'[b] = lock[b]
    BY <1>0, <1>2 DEF Tick, BucketTypeOK
  <2>2. TimesPast'
    BY <1>a, <2>1 DEF IInv, TimesPast, TakerType, NoStamp
  <2>3. HolderAlone'
    <3> SUFFICES ASSUME NEW t \in Takers, taker[t].at \in Section, ~ledger'[taker[t].of].lapsed
                 PROVE  lock'[taker[t].of].owner = t
      BY <2>1 DEF HolderAlone
    <3>1. lock[taker[t].of].owner = t
      BY <1>a, <2>1 DEF IInv, HolderAlone
    <3>2. ~Lapses(taker[t].of)
      BY <1>a, <2>1, <3>1 DEF InSection
    <3>3. QED
      BY <1>a, <2>1, <3>1, <3>2
  <2>4. \A b \in Buckets : Earned(b)' = Earned(b) /\ Since(b)' = Since(b)
    BY <2>1 DEF Earned, Since
  <2>5. CreditEarned'
    BY <2>1, <2>4 DEF IInv, CreditEarned, Credit
  <2>6. HandsEarned'
    <3> SUFFICES ASSUME NEW t \in Takers, ~ledger'[taker[t].of].lapsed
                 PROVE  Hands(t)'
      BY <2>1 DEF HandsEarned
    <3>1. Hands(t)
      BY <1>a, <2>1 DEF IInv, HandsEarned
    <3>2. QED
      BY <1>0, <1>a, <2>1, <3>1, HandsFrame
  <2>7. QED
    BY <1>0, <2>2, <2>3, <2>5, <2>6 DEF IInv
<1>3. ASSUME NEW t \in Takers, NEW b \in Buckets, Acquire(t, b) PROVE IInv'
  <2> DEFINE r == [AtRest EXCEPT !.of = b, !.due = clock + MaxWait]
             q == Trying(r)
  <2>1. taker' = [taker EXCEPT ![t] = q] /\ taker[t].at = "rest"
    BY <1>3 DEF Acquire
  <2>2. UNCHANGED <<clock, bucket, lock, ledger>>
    BY <1>3 DEF Acquire
  <2>3. q = taker'[t] /\ q \in TakerType
    BY <1>0, <2>1 DEF BucketTypeOK
  <2>4. q.at = "lock" /\ q.now = clock
    <3>1. r \in TakerType
      <4> DEFINE p == [AtRest EXCEPT !.of = b]
      <4>1. p \in TakerType
        BY AtRestType, SetOf
      <4>2. clock + MaxWait \in Nat
        BY <1>a, TokenBucketAssumption
      <4> HIDE DEF p
      <4>3. [p EXCEPT !.due = clock + MaxWait] \in TakerType
        BY <4>1, <4>2, SetDue
      <4>4. QED
        BY <4>3 DEF p
    <3>2. QED
      BY <1>a, <3>1, TryingType
  <2> HIDE DEF q
  <2>5. q.at \notin Section /\ q.now =< clock /\ taker[t].at # "mark"
    BY <1>a, <2>1, <2>4 DEF Section
  <2>6. QED
    BY <1>0, <2>1, <2>2, <2>3, <2>5, OutsideStep
<1>4. ASSUME NEW t \in Takers, Wake(t) PROVE IInv'
  <2> DEFINE q == Trying(taker[t])
  <2>1. taker' = [taker EXCEPT ![t] = q] /\ taker[t].at = "asleep"
    BY <1>4 DEF Wake
  <2>2. UNCHANGED <<clock, bucket, lock, ledger>>
    BY <1>4 DEF Wake
  <2>3. q \in TakerType /\ q.at \notin Section /\ q.now =< clock
    BY <1>a, TryingType DEF Section
  <2> HIDE DEF q
  <2>4. QED
    BY <1>0, <2>1, <2>2, <2>3, OutsideStep
<1>5. ASSUME NEW t \in Takers, Lock(t) PROVE IInv'
  <2> DEFINE k == taker[t]
             b == k.of
             r == [k EXCEPT !.at = "tokens"]
             q == [k EXCEPT !.tries = k.tries + 1]
             w == Waiting(k, 1)
  <2>1. k.at = "lock" /\ UNCHANGED <<clock, bucket, ledger>>
    BY <1>5 DEF Lock
  <2>2. k.now =< clock /\ k \in TakerType /\ b \in Buckets
    BY <1>a DEF IInv, TimesPast
  <2>3. CASE /\ lock[b].owner = None
             /\ lock' = [lock EXCEPT ![b] = [owner |-> t, until |-> clock + LockTtl]]
             /\ taker' = [taker EXCEPT ![t] = r]
    <3>1. /\ \A u \in Takers : u # t => taker'[u] = taker[u]
          /\ taker'[t] = r /\ r.at = "tokens" /\ r.of = b /\ r.now = k.now
          /\ lock'[b].owner = t
          /\ \A a \in Buckets : a # b => lock'[a] = lock[a]
      BY <1>0, <2>2, <2>3 DEF BucketTypeOK, TakerType
    <3> HIDE DEF r
    <3>2. TimesPast'
      BY <2>1, <2>2, <3>1 DEF IInv, TimesPast
    <3>3. HolderAlone'
      <4> SUFFICES ASSUME NEW u \in Takers, taker'[u].at \in Section,
                          ~ledger[taker'[u].of].lapsed
                   PROVE  lock'[taker'[u].of].owner = u
        BY <2>1 DEF HolderAlone
      <4>1. CASE u = t
        BY <3>1, <4>1
      <4>2. CASE u # t
        <5>1. lock[taker[u].of].owner = u
          BY <3>1, <4>2 DEF IInv, HolderAlone
        <5>2. taker[u].of # b
          BY <2>3, <5>1, TokenBucketAssumption
        <5>3. QED
          BY <1>a, <3>1, <4>2, <5>1, <5>2
      <4>3. QED
        BY <4>1, <4>2
    <3>4. \A a \in Buckets : Earned(a)' = Earned(a) /\ Since(a)' = Since(a)
      BY <2>1 DEF Earned, Since
    <3>5. CreditEarned'
      BY <2>1, <3>1, <3>4 DEF IInv, CreditEarned, Credit
    <3>6. HandsEarned'
      <4> SUFFICES ASSUME NEW u \in Takers, ~ledger[taker'[u].of].lapsed
                   PROVE  Hands(u)'
        BY <2>1 DEF HandsEarned
      <4>1. CASE u = t
        BY <3>1, <4>1 DEF Hands
      <4>2. CASE u # t
        <5>1. Hands(u)
          BY <3>1, <4>2 DEF IInv, HandsEarned
        <5>2. QED
          BY <1>0, <1>a, <2>1, <3>1, <4>2, <5>1, HandsFrame
      <4>3. QED
        BY <4>1, <4>2
    <3>7. QED
      BY <1>0, <3>2, <3>3, <3>5, <3>6 DEF IInv
  <2>4. CASE taker' = [taker EXCEPT ![t] = q] /\ lock' = lock
    <3>1. q \in TakerType /\ q.at = "lock" /\ q.now = k.now
      BY <2>1, <2>2, SetTries DEF TakerType
    <3>2. q.at \notin Section /\ q.now =< clock /\ taker[t].at # "mark"
      BY <2>1, <2>2, <3>1 DEF Section
    <3> HIDE DEF q
    <3>3. QED
      BY <1>0, <2>1, <2>4, <3>1, <3>2, OutsideStep
  <2>5. CASE taker' = [taker EXCEPT ![t] = w] /\ lock' = lock
    <3>1. w \in TakerType /\ w.at \in {"refused", "asleep"} /\ w.now = 0
      BY <1>a, <2>2, WaitingType
    <3>2. w.at \notin Section /\ w.now =< clock /\ taker[t].at # "mark"
      BY <1>a, <2>1, <3>1 DEF Section
    <3> HIDE DEF w
    <3>3. QED
      BY <1>0, <2>1, <2>5, <3>1, <3>2, OutsideStep
  <2>6. QED
    BY <1>5, <2>3, <2>4, <2>5 DEF Lock, MaySet
<1>6. ASSUME NEW t \in Takers, GetTokens(t) PROVE IInv'
  <2> DEFINE k == taker[t]
  <2>0. PICK b \in Buckets : b = k.of
    BY <1>a
  <2> DEFINE r == [k EXCEPT !.at = "stamp", !.tokens = bucket[b].tokens]
  <2>1. /\ k.at = "tokens" /\ UNCHANGED <<clock, bucket, lock, ledger>>
        /\ taker' = [taker EXCEPT ![t] = r]
    BY <1>6, <2>0 DEF GetTokens
  <2>2. /\ r \in TakerType /\ r = taker'[t]
        /\ r.at = "stamp" /\ r.of = b /\ r.now = k.now /\ r.tokens = bucket[b].tokens
    <3>1. r = taker'[t] /\ taker'[t] \in TakerType
      BY <1>0, <2>1 DEF BucketTypeOK
    <3>2. r.at = "stamp" /\ r.of = b /\ r.now = k.now /\ r.tokens = bucket[b].tokens
      BY <1>a, <2>0 DEF TakerType
    <3>3. QED
      BY <3>1, <3>2
  <2> HIDE DEF r
  <2>3. ~ledger[b].lapsed => Credit(b)'
    <3>1. k.at \in Section \ {"mark"}
      BY <2>1 DEF Section
    <3>2. QED
      BY <2>0, <2>1, <2>2, <3>1, UnmarkedCredit
  <2>4. Hands(t)'
    BY <2>1, <2>2 DEF Hands
  <2>5. k.at \in Section /\ r.now =< clock /\ bucket'[b].stamp =< clock
    BY <1>a, <2>1, <2>2 DEF Section, IInv, TimesPast
  <2>6. QED
    BY <1>0, <2>0, <2>1, <2>2, <2>3, <2>4, <2>5, InsideStep
<1>7. ASSUME NEW t \in Takers, GetStamp(t) PROVE IInv'
  <2> DEFINE k == taker[t]
  <2>0. PICK b \in Buckets : b = k.of
    BY <1>a
  <2> DEFINE have == Refilled(k, bucket[b].stamp)
             r == IF have >= Refill
                  THEN [k EXCEPT !.at = "spend", !.tokens = have - Refill]
                  ELSE [k EXCEPT !.at = "free", !.tokens = 0, !.wait = Refill - have]
  <2>1. /\ k.at = "stamp" /\ UNCHANGED <<clock, bucket, lock, ledger>>
        /\ taker' = [taker EXCEPT ![t] = r]
    BY <1>7, <2>0 DEF GetStamp
  <2>2. r = taker'[t] /\ r \in TakerType
    BY <1>0, <2>1 DEF BucketTypeOK
  <2>3. /\ r.of = b /\ r.now = k.now /\ r.at \in {"spend", "free"}
        /\ r.at = "spend" => r.tokens = have - Refill
    BY <1>a, <2>0 DEF TakerType
  <2> HIDE DEF r
  <2>4. k \in TakerType /\ bucket[b].stamp \in Nat \cup {NoStamp} /\ b \in Buckets
    BY <1>a
  <2>5. /\ have \in 0 .. Capacity
        /\ bucket[b].stamp = NoStamp => have =< k.tokens
        /\ bucket[b].stamp # NoStamp => have + bucket[b].stamp =< k.tokens + Later(k.now, bucket[b].stamp)
    BY <2>4, RefilledBound
  <2>6. ~ledger[b].lapsed => Credit(b)'
    <3>1. k.at \in Section \ {"mark"}
      BY <2>1 DEF Section
    <3>2. QED
      BY <2>0, <2>1, <2>2, <3>1, UnmarkedCredit
  <2>7. ASSUME ~ledger[b].lapsed PROVE Hands(t)'
    <3>1. k.tokens = bucket[b].tokens
      BY <2>0, <2>1, <2>7 DEF IInv, HandsEarned, Hands
    <3>2. Credit(b) /\ ~\E u \in Takers : taker[u].at = "mark" /\ taker[u].of = b
      BY <2>0, <2>1, <2>7, Alone DEF IInv, CreditEarned, Section
    <3>3. bucket[b].tokens + ledger[b].spent =< Earned(b) + Since(b)
      BY <3>2 DEF Credit
    <3>4. Earned(b) \in Nat /\ Earned(b)' = Earned(b)
      BY <1>a, <2>1 DEF Earned
    <3>5. Horizon(t)' = IF bucket[b].stamp = NoStamp THEN 0 ELSE Later(k.now, bucket[b].stamp)
      BY <2>1, <2>2, <2>3 DEF Horizon
    <3> DEFINE horizon == Later(k.now, bucket[b].stamp)
    <3>6. k.tokens \in Nat /\ k.now \in Nat /\ ledger[b].spent \in Nat
      BY <1>a DEF TakerType
    <3>7. bucket[b].stamp # NoStamp => horizon \in Nat
      BY <2>4, <3>6 DEF Later
    <3>8. have + ledger[b].spent =< Earned(b) + Horizon(t)'
      <4> HIDE DEF horizon, have
      <4>1. CASE bucket[b].stamp = NoStamp
        BY <2>5, <3>1, <3>3, <3>4, <3>5, <3>6, <4>1 DEF Since
      <4>2. CASE bucket[b].stamp # NoStamp
        <5>1. bucket[b].stamp \in Nat /\ Since(b) = bucket[b].stamp /\ Horizon(t)' = horizon
          BY <2>4, <3>5, <4>2 DEF Since, horizon
        <5>2. have + bucket[b].stamp =< k.tokens + horizon
          BY <2>5, <4>2 DEF horizon
        <5>3. QED
          BY <2>5, <3>1, <3>3, <3>4, <3>6, <3>7, <4>2, <5>1, <5>2
      <4>3. QED
        BY <4>1, <4>2
    <3>9. r.at = "spend" => r.tokens + Refill + ledger[b].spent =< Earned(b) + Horizon(t)'
      BY <1>a, <2>3, <2>5, <3>6, <3>8
    <3>10. QED
      BY <2>1, <2>2, <2>3, <3>4, <3>9 DEF Hands
  <2>8. k.at \in Section /\ k.of = b /\ r.now =< clock /\ bucket'[b].stamp =< clock /\ r.at \in Section
    BY <1>a, <2>0, <2>1, <2>3 DEF Section, IInv, TimesPast
  <2>9. QED
    BY <1>0, <2>0, <2>1, <2>2, <2>3, <2>6, <2>7, <2>8, InsideStep
<1>8. ASSUME NEW t \in Takers, Spend(t) PROVE IInv'
  <2> DEFINE k == taker[t]
             r == [k EXCEPT !.at = "mark"]
  <2>0. PICK b \in Buckets : b = k.of
    BY <1>a
  <2>1. /\ k.at = "spend" /\ UNCHANGED <<clock, lock>>
        /\ bucket' = [bucket EXCEPT ![b] = [bucket[b] EXCEPT !.tokens = k.tokens]]
        /\ ledger' = [ledger EXCEPT ![b] = Charged(ledger[b])]
        /\ taker' = [taker EXCEPT ![t] = r]
    BY <1>8, <2>0 DEF Spend
  <2>2. r = taker'[t] /\ r \in TakerType
    BY <1>0, <2>1 DEF BucketTypeOK
  <2>3. r.of = b /\ r.now = k.now /\ r.at = "mark"
    BY <1>a, <2>0 DEF TakerType
  <2> HIDE DEF r
  <2>4. /\ bucket'[b].tokens = k.tokens /\ bucket'[b].stamp = bucket[b].stamp
        /\ ledger'[b].spent = ledger[b].spent + Refill
        /\ ledger'[b].twice = ledger[b].twice /\ ledger'[b].lapsed = ledger[b].lapsed
        /\ \A a \in Buckets : a # b => bucket'[a] = bucket[a] /\ ledger'[a] = ledger[a]
    BY <1>0, <2>1 DEF BucketTypeOK, Charged
  <2>5. Credit(b)'
    BY <2>2, <2>3 DEF Credit
  <2>6. ASSUME ~ledger[b].lapsed PROVE Hands(t)'
    <3>1. k.tokens + Refill + ledger[b].spent =< Earned(b) + Horizon(t)
      BY <2>0, <2>1, <2>6 DEF IInv, HandsEarned, Hands
    <3>2. Earned(b)' = Earned(b) /\ Horizon(t)' = Horizon(t)
      BY <2>0, <2>2, <2>3, <2>4 DEF Earned, Horizon
    <3>3. k.tokens \in Nat /\ Refill \in Nat /\ ledger[b].spent \in Nat
      BY <1>a DEF TakerType
    <3>4. bucket'[b].tokens + ledger'[b].spent =< Earned(b)' + Horizon(t)'
      BY <2>4, <3>1, <3>2, <3>3
    <3>5. QED
      BY <2>2, <2>3, <3>4 DEF Hands
  <2>7. k.at \in Section /\ k.of = b /\ r.now =< clock /\ bucket'[b].stamp =< clock
    BY <2>0, <2>1, <2>3, <2>4 DEF Section, IInv, TimesPast
  <2>8. QED
    BY <1>0, <2>1, <2>2, <2>3, <2>4, <2>5, <2>6, <2>7, InsideStep
<1>9. ASSUME NEW t \in Takers, Mark(t) PROVE IInv'
  <2> DEFINE k == taker[t]
             r == [k EXCEPT !.at = "free", !.wait = 0]
  <2>0. PICK b \in Buckets : b = k.of
    BY <1>a
  <2>1. /\ k.at = "mark" /\ UNCHANGED <<clock, lock>>
        /\ bucket' = [bucket EXCEPT ![b] = [bucket[b] EXCEPT !.stamp = k.now]]
        /\ ledger' = [ledger EXCEPT ![b] = Counted(ledger[b], Later(0, bucket[b].stamp - k.now))]
        /\ taker' = [taker EXCEPT ![t] = r]
    BY <1>9, <2>0 DEF Mark
  <2>2. r = taker'[t] /\ r \in TakerType
    BY <1>0, <2>1 DEF BucketTypeOK
  <2>3. r.of = b /\ r.now = k.now /\ r.at = "free"
    BY <1>a, <2>0 DEF TakerType
  <2> HIDE DEF r
  <2>4. /\ bucket'[b].tokens = bucket[b].tokens /\ bucket'[b].stamp = k.now
        /\ ledger'[b].spent = ledger[b].spent
        /\ ledger'[b].twice = ledger[b].twice + Later(0, bucket[b].stamp - k.now)
        /\ ledger'[b].lapsed = ledger[b].lapsed
        /\ \A a \in Buckets : a # b => bucket'[a] = bucket[a] /\ ledger'[a] = ledger[a]
    BY <1>0, <2>1 DEF BucketTypeOK, Counted
  <2>5. ASSUME ~ledger[b].lapsed PROVE Credit(b)'
    <3>1. bucket[b].tokens + ledger[b].spent =< Earned(b) + Horizon(t)
      BY <2>0, <2>1, <2>5 DEF IInv, HandsEarned, Hands
    <3>2. k.now \in Nat
      BY <1>a DEF TakerType
    <3>3. Since(b)' = k.now
      BY <2>4, <3>2 DEF Since, NoStamp
    <3>4. Earned(b)' = Earned(b) + Later(0, bucket[b].stamp - k.now) /\ Earned(b) \in Nat
      BY <1>a, <2>4, <3>2 DEF Earned, Later, NoStamp
    <3>5. Horizon(t) =< Later(0, bucket[b].stamp - k.now) + k.now
      BY <1>a, <2>0, <3>2 DEF Horizon, Later, NoStamp
    <3>6. Horizon(t) \in Nat /\ Later(0, bucket[b].stamp - k.now) \in Nat
      BY <1>a, <2>0, <3>2 DEF Horizon, Later, NoStamp
    <3>7. bucket'[b].tokens + ledger'[b].spent =< Earned(b)' + Since(b)'
      BY <1>a, <2>4, <3>1, <3>2, <3>3, <3>4, <3>5, <3>6
    <3>8. QED
      BY <3>7 DEF Credit
  <2>6. Hands(t)'
    BY <2>2, <2>3 DEF Hands
  <2>7. /\ k.at \in Section /\ k.of = b /\ r.now =< clock /\ bucket'[b].stamp =< clock
    BY <2>0, <2>1, <2>3, <2>4 DEF Section, IInv, TimesPast
  <2>8. QED
    BY <1>0, <2>1, <2>2, <2>3, <2>4, <2>5, <2>6, <2>7, InsideStep
<1>10. ASSUME NEW t \in Takers, Free(t) PROVE IInv'
  <2> DEFINE k == taker[t]
             r == [AtRest EXCEPT !.at = "granted", !.of = k.of]
             w == Waiting(k, k.wait)
  <2>1. /\ k.at = "free" /\ UNCHANGED <<clock, bucket, ledger>>
        /\ lock' = [lock EXCEPT ![k.of] = Unlocked]
        /\ taker' = [taker EXCEPT ![t] = IF k.wait = 0 THEN r ELSE w]
    BY <1>10 DEF Free
  <2>2. r \in TakerType /\ r.at = "granted" /\ r.now = 0
    BY <1>a, AtRestType DEF TakerType, Places, AtRest
  <2>3. k.wait \in Nat /\ k \in TakerType
    BY <1>a DEF TakerType
  <2>4. w \in TakerType /\ w.at \in {"refused", "asleep"} /\ w.now = 0
    BY <1>a, <2>3, WaitingType
  <2> DEFINE x == IF k.wait = 0 THEN r ELSE w
  <2>5. x \in TakerType /\ x.at \notin Section /\ x.now = 0
    BY <2>2, <2>4 DEF Section
  <2>6. taker' = [taker EXCEPT ![t] = x] /\ k.at \in Section /\ k.at # "mark"
    BY <2>1 DEF Section
  <2> HIDE DEF x
  <2>7. \A b \in Buckets : /\ ledger'[b].spent = ledger[b].spent
                           /\ ledger'[b].twice >= ledger[b].twice
                           /\ ledger'[b].lapsed = ledger[b].lapsed
    BY <1>a, <2>1
  <2>8. x.now =< clock
    BY <1>a, <2>5
  <2>9. QED
    BY <1>0, <2>1, <2>5, <2>6, <2>7, <2>8, LeaveStep
<1>11. ASSUME NEW t \in Takers, Failure(t) PROVE IInv'
  <2> DEFINE k == taker[t]
             stamped == bucket[k.of].stamp
             again == IF k.at = "mark" /\ stamped # NoStamp THEN Later(0, k.now - stamped) ELSE 0
             r == [AtRest EXCEPT !.at = "failed", !.of = k.of]
  <2>0. PICK b \in Buckets : b = k.of
    BY <1>a
  <2>1. /\ k.at \in Section \cup {"lock"} /\ UNCHANGED <<clock, bucket>>
        /\ \/ lock' = lock
           \/ k.at \in Section /\ lock' = [lock EXCEPT ![b] = Unlocked]
        /\ ledger' = [ledger EXCEPT ![b] = Counted(ledger[b], again)]
        /\ taker' = [taker EXCEPT ![t] = r]
    BY <1>11, <2>0 DEF Failure
  <2>2. r = taker'[t] /\ r \in TakerType
    BY <1>0, <2>1 DEF BucketTypeOK
  <2>3. r.of = b /\ r.now = 0 /\ r.at = "failed"
    BY <2>0 DEF AtRest
  <2> HIDE DEF r
  <2>4. again \in Nat /\ k.now \in Nat
    BY <1>a DEF Later, TakerType
  <2>5. /\ ledger'[b].spent = ledger[b].spent
        /\ ledger'[b].twice = ledger[b].twice + again
        /\ ledger'[b].lapsed = ledger[b].lapsed
        /\ \A a \in Buckets : a # b => ledger'[a] = ledger[a]
    BY <1>0, <2>1 DEF BucketTypeOK, Counted
  <2>6. r.at \notin Section /\ r.now =< clock
    BY <1>a, <2>3 DEF Section
  <2>7. CASE k.at = "mark"
    <3>1. ASSUME ~ledger[b].lapsed PROVE Credit(b)'
      <4>1. bucket[b].tokens + ledger[b].spent =< Earned(b) + Horizon(t)
        BY <2>0, <2>7, <3>1 DEF IInv, HandsEarned, Hands
      <4>2. Since(b)' = Since(b) /\ Since(b) \in Nat
        BY <1>a, <2>1 DEF Since, NoStamp
      <4>3. Earned(b)' = Earned(b) + again /\ Earned(b) \in Nat
        BY <1>a, <2>4, <2>5 DEF Earned
      <4>4. Horizon(t) =< Since(b) + again /\ Horizon(t) \in Nat
        BY <1>a, <2>0, <2>4, <2>7 DEF Horizon, Since, Later, NoStamp
      <4>5. bucket'[b].tokens + ledger'[b].spent =< Earned(b)' + Since(b)'
        <5> HIDE DEF again
        <5>1. QED
          BY <1>a, <2>1, <2>4, <2>5, <4>1, <4>2, <4>3, <4>4
      <4>6. QED
        BY <4>5 DEF Credit
    <3>2. Hands(t)'
      BY <2>2, <2>3 DEF Hands
    <3>3. k.at \in Section /\ k.of = b /\ bucket'[b].stamp =< clock
      BY <2>0, <2>1, <2>7 DEF Section, IInv, TimesPast
    <3>4. QED
      BY <1>0, <2>1, <2>2, <2>3, <2>5, <2>6, <3>1, <3>2, <3>3, InsideStep
  <2>8. CASE k.at # "mark"
    <3>1. again = 0
      BY <2>8
    <3>2. \A a \in Buckets : /\ ledger'[a].spent = ledger[a].spent
                             /\ ledger'[a].twice >= ledger[a].twice
                             /\ ledger'[a].lapsed = ledger[a].lapsed
      BY <1>a, <2>5, <3>1
    <3>3. QED
      BY <1>0, <2>0, <2>1, <2>2, <2>6, <2>8, <3>2, LeaveStep
  <2>9. QED
    BY <2>7, <2>8
<1>12. ASSUME NEW t \in Takers, Resume(t) \/ Abandon(t) PROVE IInv'
  <2>1. UNCHANGED <<clock, bucket, lock, ledger>> /\ taker[t].at # "mark"
    BY <1>12 DEF Resume, Ended, Abandon, Section
  <2>2. AtRest \in TakerType /\ AtRest.at \notin Section /\ AtRest.now =< clock
    BY <1>a, AtRestType DEF Section
  <2>3. taker' = [taker EXCEPT ![t] = AtRest]
    BY <1>12 DEF Resume, Abandon
  <2>4. QED
    BY <1>0, <2>1, <2>2, <2>3, OutsideStep
<1>13. QED
  BY <1>1, <1>2, <1>3, <1>4, <1>5, <1>6, <1>7, <1>8, <1>9, <1>10, <1>11, <1>12
  DEF BucketNext, Command

-----------------------------------------------------------------------------
\* No refill counts time that has not passed.
LEMMA HorizonPast ==
    ASSUME IInv, NEW t \in Takers
    PROVE  Horizon(t) =< clock /\ Horizon(t) \in Nat
<1>1. /\ taker[t].of \in Buckets /\ taker[t].now \in Nat /\ taker[t].now =< clock
      /\ bucket[taker[t].of].stamp \in Nat \cup {NoStamp}
      /\ bucket[taker[t].of].stamp =< clock /\ clock \in Nat
  BY DEF IInv, BucketTypeOK, TakerType, TimesPast
<1>2. QED
  BY <1>1 DEF Horizon, Later

\* What the invariant says of the hands and of the bucket is the budget.
LEMMA InvBudget == IInv => BudgetKept
<1> SUFFICES ASSUME IInv, NEW b \in Buckets, ~ledger[b].lapsed
             PROVE  ledger[b].spent =< Capacity + clock + ledger[b].twice
  BY DEF BudgetKept
<1>1. /\ bucket[b].tokens \in Nat /\ ledger[b].spent \in Nat /\ ledger[b].twice \in Nat
      /\ bucket[b].stamp \in Nat \cup {NoStamp} /\ clock \in Nat /\ Capacity \in Nat
  BY CapacityType DEF IInv, BucketTypeOK
<1>2. CASE bucket[b].tokens + ledger[b].spent =< Earned(b) + Since(b)
  BY <1>1, <1>2 DEF IInv, TimesPast, Earned, Since
<1>3. CASE \E t \in Takers : taker[t].at = "mark" /\ taker[t].of = b
  <2>1. PICK t \in Takers : taker[t].at = "mark" /\ taker[t].of = b
    BY <1>3
  <2>2. bucket[b].tokens + ledger[b].spent =< Earned(b) + Horizon(t)
    BY <2>1 DEF IInv, HandsEarned, Hands
  <2>3. QED
    BY <1>1, <2>2, HorizonPast DEF Earned
<1>4. QED
  BY <1>2, <1>3 DEF IInv, CreditEarned, Credit

\* The invariant of the limiter: its types, that past times are past, that the
\* holder of a lock is alone, and that all credit in the bucket or in hand is
\* earned.
THEOREM LimiterInvariant == BucketSpec => []IInv
<1>1. BucketInit => IInv
  BY InitInv
<1>2. IInv /\ [BucketNext]_bucketVars => IInv'
  BY StepInv
<1>3. QED
  BY <1>1, <1>2, PTL DEF BucketSpec

\* RedisRateLimiter spends no more than the burst and the rate allow, for any
\* number of coroutines and any interleaving of their commands, unless a lock
\* lapsed under its holder.
THEOREM BudgetIsKept == BucketSpec => []BudgetKept
BY LimiterInvariant, InvBudget, PTL

-----------------------------------------------------------------------------
\* What a step of the limiter does to the ledgers and the clock.
LEMMA LedgerStep ==
    ASSUME IInv, BucketNext, NEW b \in Buckets
    PROVE  \/ /\ ledger'[b].spent = ledger[b].spent
              /\ ledger'[b].twice >= ledger[b].twice
              /\ ledger'[b].lapsed \in {ledger[b].lapsed, TRUE}
              /\ clock' >= clock
           \/ /\ ledger'[b].spent = ledger[b].spent + Refill
              /\ ledger'[b].twice = ledger[b].twice
              /\ ledger'[b].lapsed = ledger[b].lapsed
              /\ clock' = clock
              /\ ledger[b].lapsed \/
                    ledger[b].spent + Refill =< Capacity + clock + ledger[b].twice
<1> DEFINE Stays == /\ ledger'[b].spent = ledger[b].spent
                    /\ ledger'[b].twice >= ledger[b].twice
                    /\ ledger'[b].lapsed \in {ledger[b].lapsed, TRUE}
                    /\ clock' >= clock
<1>1. /\ ledger \in [Buckets -> [spent : Nat, twice : Nat, lapsed : BOOLEAN]]
      /\ clock \in Nat /\ Capacity \in Nat /\ Refill \in Nat
      /\ ledger[b].spent \in Nat /\ ledger[b].twice \in Nat /\ ledger[b].lapsed \in BOOLEAN
  BY CapacityType DEF IInv, BucketTypeOK
<1>2. CASE Tick
  <2>1. ledger'[b].spent = ledger[b].spent /\ ledger'[b].twice = ledger[b].twice
    BY <1>1, <1>2 DEF Tick
  <2>2. ledger[b].lapsed => ledger'[b].lapsed
    BY <1>1, <1>2 DEF Tick
  <2>3. BucketTypeOK'
    BY TypeStep DEF IInv
  <2>4. ledger'[b].lapsed \in BOOLEAN /\ clock' >= clock
    BY <1>1, <1>2, <2>3 DEF Tick, BucketTypeOK
  <2>5. ledger'[b].lapsed \in {ledger[b].lapsed, TRUE}
    <3>1. CASE ledger'[b].lapsed = TRUE
      BY <3>1
    <3>2. CASE ledger'[b].lapsed = FALSE
      <4>1. ledger[b].lapsed = FALSE
        BY <1>1, <2>2, <3>2
      <4>2. QED
        BY <3>2, <4>1
    <3>3. QED
      BY <2>4, <3>1, <3>2
  <2>6. ledger'[b].twice >= ledger[b].twice
    BY <1>1, <2>1
  <2>7. QED
    BY <2>1, <2>4, <2>5, <2>6
<1>3. CASE ledger' = ledger /\ clock' = clock
  BY <1>1, <1>3
<1>4. ASSUME NEW t \in Takers, Spend(t) PROVE Stays \/
          /\ ledger'[b].spent = ledger[b].spent + Refill
          /\ ledger'[b].twice = ledger[b].twice
          /\ ledger'[b].lapsed = ledger[b].lapsed
          /\ clock' = clock
          /\ ledger[b].lapsed \/
                ledger[b].spent + Refill =< Capacity + clock + ledger[b].twice
  <2>1. /\ ledger' = [ledger EXCEPT ![taker[t].of] = Charged(ledger[taker[t].of])]
        /\ clock' = clock /\ taker[t].at = "spend"
    BY <1>4 DEF Spend
  <2>2. CASE taker[t].of # b
    <3>1. ledger'[b] = ledger[b]
      BY <1>1, <2>1, <2>2
    <3>2. ledger[b].twice >= ledger[b].twice /\ clock >= clock
      BY <1>1
    <3>3. Stays
      BY <2>1, <3>1, <3>2
    <3>4. QED
      BY <3>3
  <2>3. CASE taker[t].of = b
    <3>1. ledger'[b] = Charged(ledger[b])
      BY <1>1, <2>1, <2>3
    <3>2. /\ ledger'[b].spent = ledger[b].spent + Refill
          /\ ledger'[b].twice = ledger[b].twice
          /\ ledger'[b].lapsed = ledger[b].lapsed
      BY <1>1, <3>1 DEF Charged
    <3>3. ASSUME ~ledger[b].lapsed
          PROVE  ledger[b].spent + Refill =< Capacity + clock + ledger[b].twice
      <4>1. taker[t].tokens + Refill + ledger[b].spent =< Earned(b) + Horizon(t)
        BY <2>1, <2>3, <3>3 DEF IInv, HandsEarned, Hands
      <4>2. taker[t].tokens \in Nat
        BY CapacityType DEF IInv, BucketTypeOK, TakerType
      <4>3. QED
        BY <1>1, <4>1, <4>2, HorizonPast DEF Earned
    <3>4. QED
      BY <2>1, <3>2, <3>3
  <2>4. QED
    BY <2>2, <2>3
<1>5. ASSUME NEW t \in Takers, Mark(t) \/ Failure(t) PROVE Stays
  <2>1. PICK n \in Nat : ledger' = [ledger EXCEPT ![taker[t].of] = Counted(ledger[taker[t].of], n)]
    <3>1. /\ taker[t].of \in Buckets /\ taker[t].now \in Nat
          /\ bucket[taker[t].of].stamp \in Nat \cup {NoStamp}
      BY DEF IInv, BucketTypeOK, TakerType
    <3>2. /\ Later(0, bucket[taker[t].of].stamp - taker[t].now) \in Nat
          /\ Later(0, taker[t].now - bucket[taker[t].of].stamp) \in Nat
      BY <3>1 DEF Later, NoStamp
    <3>3. CASE Mark(t)
      BY <3>2, <3>3 DEF Mark
    <3>4. CASE Failure(t)
      BY <3>2, <3>4 DEF Failure
    <3>5. QED
      BY <1>5, <3>3, <3>4
  <2>2. clock' = clock
    BY <1>5 DEF Mark, Failure
  <2>3. ledger'[b] = ledger[b] \/ ledger'[b] = Counted(ledger[b], n)
    BY <1>1, <2>1
  <2>4. CASE ledger'[b] = Counted(ledger[b], n)
    BY <1>1, <2>2, <2>4 DEF Counted
  <2>5. CASE ledger'[b] = ledger[b]
    BY <1>1, <2>2, <2>5
  <2>6. QED
    BY <2>3, <2>4, <2>5
<1>6. ASSUME NEW t \in Takers, NEW a \in Buckets,
             \/ Acquire(t, a) \/ Wake(t) \/ Lock(t) \/ GetTokens(t) \/ GetStamp(t)
             \/ Free(t) \/ Resume(t) \/ Abandon(t)
      PROVE  ledger' = ledger /\ clock' = clock
  BY <1>6 DEF Acquire, Wake, Lock, GetTokens, GetStamp, Free, Resume, Abandon
<1>7. QED
  BY <1>2, <1>3, <1>4, <1>5, <1>6 DEF BucketNext, Command

\* A step of the limiter is, for each bucket, a step of its budget or leaves it alone.
LEMMA BudgetStep ==
    ASSUME IInv, [BucketNext]_bucketVars, NEW b \in Buckets
    PROVE  [AbstractBudget(b)!Next]_(AbstractBudget(b)!vars)
<1>1. /\ ledger[b].spent \in Nat /\ ledger[b].twice \in Nat
      /\ clock \in Nat /\ Capacity \in Nat
  BY CapacityType DEF IInv, BucketTypeOK
<1>2. CASE UNCHANGED bucketVars
  BY <1>2 DEF bucketVars, AbstractBudget!vars
<1>3. CASE BucketNext
  <2>1. BucketTypeOK'
    BY <1>3, TypeStep DEF IInv
  <2>2. ledger'[b].twice \in Nat /\ clock' \in Nat
    BY <2>1 DEF BucketTypeOK
  <2>3. CASE /\ ledger'[b].spent = ledger[b].spent
             /\ ledger'[b].twice >= ledger[b].twice
             /\ ledger'[b].lapsed \in {ledger[b].lapsed, TRUE}
             /\ clock' >= clock
    <3>1. /\ Capacity + clock' + ledger'[b].twice \in Nat
          /\ Capacity + clock' + ledger'[b].twice >= Capacity + clock + ledger[b].twice
      BY <1>1, <2>2, <2>3
    <3>2. AbstractBudget(b)!Earn
      BY <2>3, <3>1 DEF AbstractBudget!Earn
    <3>3. QED
      BY <3>2 DEF AbstractBudget!Next
  <2>4. CASE /\ ledger'[b].spent = ledger[b].spent + Refill
             /\ ledger'[b].twice = ledger[b].twice
             /\ ledger'[b].lapsed = ledger[b].lapsed
             /\ clock' = clock
             /\ ledger[b].lapsed \/
                   ledger[b].spent + Refill =< Capacity + clock + ledger[b].twice
    BY <1>1, <2>4 DEF AbstractBudget!Next, AbstractBudget!Spend
  <2>5. QED
    BY <1>3, <2>3, <2>4, LedgerStep
<1>4. QED
  BY <1>2, <1>3

\* The limiter implements the abstract budget, bucket by bucket: every step of
\* rate_limiter.py earns credit, spends credit that was earned, or does neither.
THEOREM LimiterKeepsBudget == BucketSpec => KeepsBudget
<1> DEFINE Body == \A b \in Buckets :
                      [AbstractBudget(b)!Next]_(AbstractBudget(b)!vars)
<1>1. BucketInit => \A b \in Buckets : AbstractBudget(b)!Init
  BY CapacityType DEF BucketInit, AbstractBudget!Init
<1>2. IInv /\ [BucketNext]_bucketVars => [Body]_bucketVars
  BY BudgetStep
<1>3. BucketSpec => [][Body]_bucketVars
  <2> HIDE DEF Body
  <2>1. QED
    BY <1>2, LimiterInvariant, PTL DEF BucketSpec
<1>4. QED
  BY <1>1, <1>3 DEF KeepsBudget, BucketSpec

-----------------------------------------------------------------------------
(* The limiter and its users *)

\* A step of a question is a step of the limiter, or leaves it alone.
LEMMA AskUsesLimiter ==
    ASSUME NEW a \in Asks, AskStep(a)
    PROVE  [BucketNext]_bucketVars
<1>1. a \in Takers /\ {Pro, Flash} \subseteq Buckets
  BY AnswersAssumption
<1>2. ASSUME NEW mode \in Modes, Ask(a, mode) PROVE UNCHANGED bucketVars
  BY <1>2 DEF Ask
<1>3. ASSUME NEW kind \in {"concept", "strategy"}, Call(a, kind) PROVE UNCHANGED bucketVars
  BY <1>3 DEF Call
<1>4. CASE Reach(a)
  <2>1. BucketOf(engine[a].kind) \in Buckets
    BY <1>1 DEF BucketOf
  <2>2. QED
    BY <1>1, <1>4, <2>1 DEF Reach, BucketNext
<1>5. CASE Acquiring(a)
  BY <1>1, <1>5 DEF Acquiring, BucketNext
<1>6. CASE AcquireFails(a)
  BY <1>1, <1>6 DEF AcquireFails, BucketNext
<1>7. CASE Acquired(a)
  BY <1>1, <1>7 DEF Acquired, BucketNext
<1>8. CASE Generate(a) \/ Judge(a) \/ GatewayStep(a) \/ Lost(a)
  BY <1>8 DEF Generate, Judge, GatewayStep, Tell, TimeOut, Lost, Compose
<1>9. QED
  BY <1>2, <1>3, <1>4, <1>5, <1>6, <1>7, <1>8 DEF AskStep, EngineStep

\* So is a step of a job of the worker.
LEMMA JobUsesLimiter ==
    ASSUME NEW j \in Jobs, JobStep(j)
    PROVE  [BucketNext]_bucketVars
<1>1. j \in Takers /\ WorkerBucket \in Buckets
  BY ContentAssumption
<1>2. CASE TakeToken(j)
  BY <1>1, <1>2 DEF TakeToken, BucketNext
<1>3. CASE Taking(j)
  BY <1>1, <1>3 DEF Taking, BucketNext
<1>4. CASE Make(j)
  BY <1>1, <1>4 DEF Make, BucketNext
<1>5. CASE Die(j)
  BY <1>1, <1>5 DEF Die, BucketNext
<1>6. CASE \/ Crawl(j) \/ Look(j) \/ Push(j) \/ Start(j) \/ Render(j)
           \/ Post(j) \/ Check(j) \/ Commit(j) \/ Rollback(j)
  BY <1>6 DEF Crawl, Look, Push, Start, Render, Post, Check, Commit, Rollback
<1>7. QED
  BY <1>2, <1>3, <1>4, <1>5, <1>6 DEF JobStep

\* The engine, its worker and the gateway together implement the limiter's
\* specification.
THEOREM EngineUsesLimiter == AiSpec => BucketSpec
<1>1. AiInit => BucketInit
  BY DEF AiInit
<1>2. [AiNext]_aiVars => [BucketNext]_bucketVars
  <2> SUFFICES ASSUME [AiNext]_aiVars PROVE [BucketNext]_bucketVars
    OBVIOUS
  <2>1. CASE UNCHANGED aiVars
    BY <2>1 DEF aiVars
  <2>2. CASE TimePasses
    BY <2>2 DEF TimePasses, BucketNext
  <2>3. ASSUME NEW a \in Asks, AskStep(a) PROVE [BucketNext]_bucketVars
    BY <2>3, AskUsesLimiter
  <2>4. ASSUME NEW j \in Jobs, JobStep(j) PROVE [BucketNext]_bucketVars
    BY <2>4, JobUsesLimiter
  <2>5. QED
    BY <2>1, <2>2, <2>3, <2>4 DEF AiNext
<1>3. QED
  BY <1>1, <1>2, PTL DEF AiSpec, BucketSpec

\* Whatever the web process, the worker and the players do, the calls of each
\* model stay within its budget.
THEOREM EngineKeepsBudget == AiSpec => KeepsBudget
BY EngineUsesLimiter, LimiterKeepsBudget

-----------------------------------------------------------------------------
(* Answers *)

EngineRecord ==
    [at : {"idle", "posted", "acquiring", "generating", "judging", "answered"},
     kind : Kinds, attempt : 0..MaxRetries, round : 1..2,
     again : BOOLEAN, draft : Drafts,
     verdict : {"none", "fine", "violation"},
     from : {"nothing", "bank", "llm", "bank and llm"}]

GateRecord ==
    [at : {"idle", "waiting", "composing", "elsewhere", "told"},
     mode : Modes, since : Nat,
     told : {"nothing", "bank", "llm", "bank and llm", "model"}]

\* A Socratic reply that is before the judge, or was given as the answer, has
\* passed the checks, and the answer was not refused.  Before it has answered
\* the engine has no verdict and no source.
Checked(e) ==
    /\ e.at # "answered" => e.from = "nothing" /\ e.verdict = "none"
    /\ e.kind = "socratic" /\ (e.at = "judging" \/ e.from = "llm") =>
          SocraticClean(e.draft) /\ Grounded(e.draft)
    /\ e.kind = "socratic" /\ e.from = "llm" => e.verdict # "violation"

\* What the gateway knows of the engine: that it was not asked yet, that it was
\* asked a Socratic question, and that what is told as the model's is its answer.
Agreed(g, e) ==
    /\ g.at = "idle" => e = NotPosted
    /\ g.at # "elsewhere" => e.kind = "socratic"
    /\ g.told = "llm" => g.at = "told" /\ e.at = "answered" /\ e.from = "llm"

AnswerInv ==
    /\ AnswersTypeOK
    /\ \A a \in Asks : Checked(engine[a]) /\ Agreed(gate[a], engine[a])

\* The records of a question nobody has asked.
LEMMA NotPostedType ==
    NotPosted \in EngineRecord /\ Checked(NotPosted) /\ Agreed(Unasked, NotPosted)
                               /\ Unasked \in GateRecord
<1>1. NoDraft \in Drafts  BY AnswersAssumption DEF NoDraft, NoSentence, Drafts
<1>2. 0 \in 0..MaxRetries  BY AnswersAssumption
<1>3. NotPosted \in EngineRecord  BY <1>1, <1>2 DEF NotPosted, EngineRecord, Kinds
<1>4. Unasked \in GateRecord  BY DEF Unasked, GateRecord, Modes
<1>5. QED  BY <1>3, <1>4 DEF NotPosted, Unasked, Checked, Agreed

\* Where the engine goes from a record, when it neither finishes nor judges.
LEMMA EntryGoesOn ==
    ASSUME NEW e \in EngineRecord, Checked(e), e.at # "answered",
           NEW at \in {"posted", "acquiring", "generating"}
    PROVE  /\ [e EXCEPT !.at = at] \in EngineRecord /\ Checked([e EXCEPT !.at = at])
           /\ [e EXCEPT !.at = at].kind = e.kind
BY DEF EngineRecord, Checked

\* A request asks the model, from its first attempt.
LEMMA GeneratingKept ==
    ASSUME NEW e \in EngineRecord, Checked(e), e.at # "answered"
    PROVE  /\ Generating(e) \in EngineRecord /\ Checked(Generating(e))
           /\ Generating(e).kind = e.kind
<1>1. 0 \in 0..MaxRetries  BY AnswersAssumption
<1>2. QED  BY <1>1 DEF EngineRecord, Checked, Generating

\* An answer of the bank needs no check.
LEMMA BankKept ==
    ASSUME NEW e \in EngineRecord, Checked(e), e.at # "answered"
    PROVE  /\ Answered(e, "bank") \in EngineRecord /\ Checked(Answered(e, "bank"))
           /\ Answered(e, "bank").kind = e.kind
BY DEF EngineRecord, Checked, Answered

\* A handler whose call of the model came to nothing.
LEMMA FellKept ==
    ASSUME NEW e \in EngineRecord, Checked(e), e.at # "answered", NEW f \in FellThrough(e)
    PROVE  f \in EngineRecord /\ Checked(f) /\ f.kind = e.kind
<1> DEFINE k == [e EXCEPT !.again = TRUE]
<1>1. k \in EngineRecord /\ Checked(k) /\ k.at # "answered" /\ k.kind = e.kind
  BY DEF EngineRecord, Checked
<1>2. f = Answered(e, "bank") \/ f = Generating(k)
  <2>1. e.kind \in Kinds  BY DEF EngineRecord
  <2> QED  BY <2>1 DEF FellThrough, Kinds
<1> HIDE DEF k
<1>3. QED  BY <1>1, <1>2, BankKept, GeneratingKept

\* A reply that passed its checks.
LEMMA PassedKept ==
    ASSUME NEW e \in EngineRecord, Checked(e), e.at = "generating",
           NEW d \in Drafts, Valid(e.kind, d)
    PROVE  Passed(e, d) \in EngineRecord /\ Checked(Passed(e, d)) /\ Passed(e, d).kind = e.kind
<1> DEFINE k == [e EXCEPT !.draft = d]
<1>1. /\ k \in EngineRecord /\ k.kind = e.kind /\ k.at = "generating"
      /\ k.draft = d /\ k.from = "nothing" /\ k.verdict = "none"
  BY DEF EngineRecord, Checked
<1>2. k.kind = "socratic" => SocraticClean(k.draft) /\ Grounded(k.draft)
  BY <1>1 DEF Valid
<1>3. [e EXCEPT !.at = "judging", !.draft = d] = [k EXCEPT !.at = "judging"]
  BY DEF EngineRecord
<1>4. \/ Passed(e, d) = [k EXCEPT !.at = "judging"]
      \/ Passed(e, d) = Answered(k, "llm")
      \/ Passed(e, d) = Answered(k, "bank and llm") /\ k.kind = "strategy"
  BY <1>1, <1>3 DEF Passed
<1> HIDE DEF k
<1>5. QED  BY <1>1, <1>2, <1>4 DEF EngineRecord, Checked, Answered

\* A reply the judge has seen.
LEMMA JudgedKept ==
    ASSUME NEW e \in EngineRecord, Checked(e), e.at = "judging",
           NEW verdict \in {"fine", "violation", "none"}
    PROVE  /\ Judged(e, verdict) \in EngineRecord /\ Checked(Judged(e, verdict))
           /\ Judged(e, verdict).kind = e.kind
<1> DEFINE k == [e EXCEPT !.verdict = verdict]
           r == [e EXCEPT !.round = 2]
<1>1. k \in EngineRecord /\ k.kind = e.kind /\ k.at = "judging" /\ k.draft = e.draft
      /\ k.from = "nothing" /\ k.verdict = verdict
  BY DEF EngineRecord, Checked
<1>2. r \in EngineRecord /\ Checked(r) /\ r.at = "judging" /\ r.kind = e.kind
  <2>0. 2 \in 1..2  OBVIOUS
  <2>1. r \in EngineRecord  BY <2>0 DEF EngineRecord
  <2>2. /\ r.at = e.at /\ r.kind = e.kind /\ r.from = e.from
        /\ r.draft = e.draft /\ r.verdict = e.verdict
    BY DEF EngineRecord
  <2> HIDE DEF r
  <2>3. QED  BY <2>1, <2>2 DEF Checked
<1>3. CASE verdict # "violation"
  <2>1. Judged(e, verdict) = Answered(k, "llm")  BY <1>3 DEF Judged
  <2>2. k.kind = "socratic" => SocraticClean(k.draft) /\ Grounded(k.draft)
    BY <1>1 DEF Checked
  <2> HIDE DEF k
  <2>3. QED  BY <1>1, <1>3, <2>1, <2>2 DEF EngineRecord, Checked, Answered
<1>4. CASE verdict = "violation" /\ e.round = 1
  <2>1. Judged(e, verdict) = Generating(r)  BY <1>4 DEF Judged
  <2> HIDE DEF r
  <2>2. QED  BY <1>2, <2>1, GeneratingKept
<1>5. CASE verdict = "violation" /\ e.round # 1
  <2>1. Judged(e, verdict) = Answered(k, "bank")  BY <1>5 DEF Judged
  <2> HIDE DEF k
  <2>2. QED  BY <1>1, <2>1 DEF EngineRecord, Checked, Answered
<1>6. QED  BY <1>3, <1>4, <1>5

\* A step that changes the engine's record of one question, within its own
\* kind, keeps the invariant.
LEMMA OneAnswer ==
    ASSUME AnswerInv, NEW a \in Asks, NEW f \in EngineRecord,
           engine[a].at # "answered", gate[a].at # "idle",
           Checked(f), f.kind = engine[a].kind,
           engine' = [engine EXCEPT ![a] = f], UNCHANGED <<setup, gate>>
    PROVE  AnswerInv'
<1>1. engine' \in [Asks -> EngineRecord]
  BY DEF AnswerInv, AnswersTypeOK, EngineRecord
<1>2. AnswersTypeOK'  BY <1>1 DEF AnswerInv, AnswersTypeOK, EngineRecord
<1>3. ASSUME NEW b \in Asks  PROVE Checked(engine'[b]) /\ Agreed(gate'[b], engine'[b])
  <2>1. CASE b = a
    <3>1. engine'[b] = f  BY <2>1 DEF AnswerInv, AnswersTypeOK
    <3>2. Agreed(gate[a], f)  BY DEF AnswerInv, Agreed
    <3> QED  BY <2>1, <3>1, <3>2
  <2>2. CASE b # a
    <3>1. engine'[b] = engine[b]  BY <2>2 DEF AnswerInv, AnswersTypeOK
    <3> QED  BY <3>1 DEF AnswerInv
  <2>3. QED  BY <2>1, <2>2
<1>4. QED  BY <1>2, <1>3 DEF AnswerInv, Checked, Agreed

\* A step that changes the gateway's record of one question and leaves the
\* engine alone.
LEMMA OneGate ==
    ASSUME AnswerInv, NEW a \in Asks, NEW g \in GateRecord, Agreed(g, engine[a]),
           gate' = [gate EXCEPT ![a] = g], UNCHANGED <<setup, engine>>
    PROVE  AnswerInv'
<1>1. gate' \in [Asks -> GateRecord]
  BY DEF AnswerInv, AnswersTypeOK, GateRecord
<1>2. AnswersTypeOK'  BY <1>1 DEF AnswerInv, AnswersTypeOK, GateRecord
<1>3. ASSUME NEW b \in Asks  PROVE Checked(engine'[b]) /\ Agreed(gate'[b], engine'[b])
  <2>1. CASE b = a
    <3>1. gate'[b] = g  BY <2>1 DEF AnswerInv, AnswersTypeOK
    <3> QED  BY <2>1, <3>1 DEF AnswerInv
  <2>2. CASE b # a
    <3>1. gate'[b] = gate[b]  BY <2>2 DEF AnswerInv, AnswersTypeOK
    <3> QED  BY <3>1 DEF AnswerInv
  <2>3. QED  BY <2>1, <2>2
<1>4. QED  BY <1>2, <1>3 DEF AnswerInv, Checked, Agreed

\* The engine's steps, one by one.
LEMMA EngineKept ==
    ASSUME AnswerInv, NEW a \in Asks, EngineStep(a)
    PROVE  AnswerInv'
<1> DEFINE e == engine[a]
<1>0. /\ e \in EngineRecord /\ Checked(e) /\ Agreed(gate[a], e)
      /\ DOMAIN engine = Asks
  BY DEF AnswerInv, AnswersTypeOK, EngineRecord
<1>1. e.at # "idle" => gate[a].at # "idle"
  BY <1>0 DEF Agreed, NotPosted
<1> HIDE DEF e
<1>2. ASSUME NEW f \in EngineRecord, e.at \notin {"idle", "answered"}, Checked(f), f.kind = e.kind,
             engine' = [engine EXCEPT ![a] = f], UNCHANGED <<setup, gate>>
      PROVE  AnswerInv'
  BY <1>1, <1>2, OneAnswer DEF e
<1>3. CASE Reach(a)
  <2>0. e.at = "posted"  BY <1>3 DEF Reach, e
  <2>1. CASE engine' = [engine EXCEPT ![a].at = "acquiring"]
    <3> DEFINE f == [e EXCEPT !.at = "acquiring"]
    <3>1. f \in EngineRecord /\ Checked(f) /\ f.kind = e.kind  BY <1>0, <2>0, EntryGoesOn
    <3>2. engine' = [engine EXCEPT ![a] = f]  BY <2>1 DEF e
    <3>3. UNCHANGED <<setup, gate>>  BY <1>3 DEF Reach
    <3> HIDE DEF f
    <3> QED  BY <1>2, <2>0, <3>1, <3>2, <3>3
  <2>2. CASE engine' = [engine EXCEPT ![a] = Answered(@, "bank")]
    <3> DEFINE f == Answered(e, "bank")
    <3>1. f \in EngineRecord /\ Checked(f) /\ f.kind = e.kind  BY <1>0, <2>0, BankKept
    <3>2. engine' = [engine EXCEPT ![a] = f]  BY <2>2 DEF e
    <3>3. UNCHANGED <<setup, gate>>  BY <1>3 DEF Reach
    <3> HIDE DEF f
    <3> QED  BY <1>2, <2>0, <3>1, <3>2, <3>3
  <2>3. QED  BY <1>3, <2>1, <2>2 DEF Reach
<1>4. CASE Acquiring(a) \/ AcquireFails(a)
  <2>1. UNCHANGED answerVars  BY <1>4 DEF Acquiring, AcquireFails
  <2>2. QED  BY <2>1 DEF answerVars, AnswerInv, AnswersTypeOK, Checked, Agreed
<1>5. CASE Acquired(a)
  <2>0. e.at = "acquiring"  BY <1>5 DEF Acquired, e
  <2>1. PICK f \in {Generating(e)} \cup FellThrough(e) : engine' = [engine EXCEPT ![a] = f]
    BY <1>5 DEF Acquired, e
  <2>2. f \in EngineRecord /\ Checked(f) /\ f.kind = e.kind
    BY <1>0, <2>0, GeneratingKept, FellKept
  <2>3. UNCHANGED <<setup, gate>>  BY <1>5 DEF Acquired
  <2>4. QED  BY <1>2, <2>0, <2>1, <2>2, <2>3
<1>6. CASE Generate(a)
  <2>0. e.at = "generating"  BY <1>6 DEF Generate, e
  <2>1. PICK f \in {Passed(e, d) : d \in {d \in Drafts : Valid(e.kind, d)}}
                    \cup (IF e.attempt < MaxRetries
                          THEN {[e EXCEPT !.attempt = @ + 1]} ELSE {})
                    \cup FellThrough(e) : engine' = [engine EXCEPT ![a] = f]
    BY <1>6 DEF Generate, e
  <2>2. UNCHANGED <<setup, gate>>  BY <1>6 DEF Generate
  <2>3. f \in EngineRecord /\ Checked(f) /\ f.kind = e.kind
    <3>1. CASE f \in FellThrough(e)  BY <1>0, <2>0, <3>1, FellKept
    <3>2. ASSUME NEW d \in Drafts, Valid(e.kind, d), f = Passed(e, d)
          PROVE  f \in EngineRecord /\ Checked(f) /\ f.kind = e.kind
      BY <1>0, <2>0, <3>2, PassedKept
    <3>3. CASE e.attempt < MaxRetries /\ f = [e EXCEPT !.attempt = @ + 1]
      <4>1. e.attempt + 1 \in 0..MaxRetries
        <5>1. e.attempt \in 0..MaxRetries  BY <1>0 DEF EngineRecord
        <5> QED  BY <3>3, <5>1, AnswersAssumption
      <4>2. f \in EngineRecord  BY <1>0, <3>3, <4>1 DEF EngineRecord
      <4>3. /\ f.at = e.at /\ f.kind = e.kind /\ f.from = e.from
            /\ f.draft = e.draft /\ f.verdict = e.verdict
        BY <1>0, <3>3 DEF EngineRecord
      <4>4. QED  BY <1>0, <4>2, <4>3 DEF Checked
    <3>4. QED  BY <2>1, <3>1, <3>2, <3>3
  <2>4. QED  BY <1>2, <2>0, <2>1, <2>2, <2>3
<1>7. CASE Judge(a)
  <2>0. e.at = "judging"  BY <1>7 DEF Judge, e
  <2>1. PICK verdict \in {"fine", "violation", "none"} :
           engine' = [engine EXCEPT ![a] = Judged(e, verdict)]
    BY <1>7 DEF Judge, e
  <2> DEFINE f == Judged(e, verdict)
  <2>2. f \in EngineRecord /\ Checked(f) /\ f.kind = e.kind  BY <1>0, <2>0, JudgedKept
  <2>3. UNCHANGED <<setup, gate>>  BY <1>7 DEF Judge
  <2>4. engine' = [engine EXCEPT ![a] = f]  BY <2>1
  <2> HIDE DEF f
  <2>5. QED  BY <1>2, <2>0, <2>2, <2>3, <2>4
<1>8. QED  BY <1>3, <1>4, <1>5, <1>6, <1>7 DEF EngineStep

\* The gateway's steps, one by one.
LEMMA GateKept ==
    ASSUME AnswerInv, NEW a \in Asks, GatewayStep(a) \/ Lost(a)
    PROVE  AnswerInv'
<1> DEFINE g == gate[a]
<1>0. /\ g \in GateRecord /\ Agreed(g, engine[a]) /\ DOMAIN gate = Asks
      /\ engine[a].from \in {"nothing", "bank", "llm", "bank and llm"}
  BY DEF AnswerInv, AnswersTypeOK, GateRecord
<1> HIDE DEF g
<1>1. CASE Tell(a)
  <2> DEFINE h == [g EXCEPT !.at = "told", !.told = engine[a].from]
  <2>1. g.at = "waiting" /\ engine[a].at = "answered"  BY <1>1 DEF Tell, g
  <2>2. h \in GateRecord  BY <1>0 DEF GateRecord
  <2>3. Agreed(h, engine[a])  BY <1>0, <2>1 DEF GateRecord, Agreed
  <2>4. gate' = [gate EXCEPT ![a] = h] /\ UNCHANGED <<setup, engine>>
    BY <1>1 DEF Tell, g
  <2> HIDE DEF h
  <2>5. QED  BY <2>2, <2>3, <2>4, OneGate
<1>2. CASE Lost(a)
  <2> DEFINE h == [g EXCEPT !.at = "composing"]
  <2>1. g.at = "waiting"  BY <1>2 DEF Lost, g
  <2>2. h \in GateRecord /\ Agreed(h, engine[a])  BY <1>0, <2>1 DEF GateRecord, Agreed
  <2>3. gate' = [gate EXCEPT ![a] = h] /\ UNCHANGED <<setup, engine>>
    BY <1>2 DEF Lost, g
  <2> HIDE DEF h
  <2>4. QED  BY <2>2, <2>3, OneGate
<1>3. CASE Compose(a)
  <2>1. g.at = "composing" /\ g.mode \in Modes  BY <1>0, <1>3 DEF Compose, g, GateRecord
  <2>2. Composed(g.mode) \subseteq {"bank", "model"}
    BY <2>1 DEF Composed, Explained, Planned, Challenged, Questioned, Modes
  <2>3. PICK text \in {"bank", "model"} :
           gate' = [gate EXCEPT ![a] = [g EXCEPT !.at = "told", !.told = text]]
    BY <1>3, <2>2 DEF Compose, g
  <2> DEFINE h == [g EXCEPT !.at = "told", !.told = text]
  <2>4. h \in GateRecord /\ Agreed(h, engine[a])  BY <1>0, <2>1 DEF GateRecord, Agreed
  <2>5. gate' = [gate EXCEPT ![a] = h] /\ UNCHANGED <<setup, engine>>
    BY <1>3, <2>3 DEF Compose
  <2> HIDE DEF h
  <2>6. QED  BY <2>4, <2>5, OneGate
<1>4. QED  BY <1>1, <1>2, <1>3 DEF GatewayStep, TimeOut

\* A question is asked, of the gateway or of another endpoint.
LEMMA AskKept ==
    ASSUME AnswerInv, clock \in Nat, NEW a \in Asks,
           \/ \E mode \in Modes : Ask(a, mode)
           \/ \E kind \in {"concept", "strategy"} : Call(a, kind)
    PROVE  AnswerInv'
<1>0. /\ gate[a] \in GateRecord /\ engine[a] = NotPosted
      /\ DOMAIN gate = Asks /\ DOMAIN engine = Asks
  BY DEF AnswerInv, AnswersTypeOK, GateRecord, Agreed, Ask, Call
<1>1. PICK g \in GateRecord, f \in EngineRecord :
         /\ gate' = [gate EXCEPT ![a] = g] /\ engine' = [engine EXCEPT ![a] = f]
         /\ Agreed(g, f) /\ Checked(f)
  <2>1. ASSUME NEW mode \in Modes, Ask(a, mode)
        PROVE  \E g \in GateRecord, f \in EngineRecord :
                  /\ gate' = [gate EXCEPT ![a] = g] /\ engine' = [engine EXCEPT ![a] = f]
                  /\ Agreed(g, f) /\ Checked(f)
    <3> DEFINE g == [at |-> IF setup.llm THEN "waiting" ELSE "composing",
                     mode |-> mode, since |-> clock, told |-> "nothing"]
               f == IF setup.llm THEN [NotPosted EXCEPT !.at = "posted"] ELSE NotPosted
    <3>1. g \in GateRecord  BY <2>1 DEF GateRecord
    <3>2. f \in EngineRecord  BY NotPostedType DEF EngineRecord
    <3>3. gate' = [gate EXCEPT ![a] = g]  BY <2>1 DEF Ask
    <3>4. engine' = [engine EXCEPT ![a] = f]
      <4>1. CASE setup.llm  BY <1>0, <2>1, <4>1 DEF Ask
      <4>2. CASE ~setup.llm
        <5>1. engine' = engine /\ f = engine[a]  BY <1>0, <2>1, <4>2 DEF Ask
        <5> QED  BY <1>0, <5>1 DEF AnswerInv, AnswersTypeOK
      <4>3. QED  BY <4>1, <4>2
    <3>5. Agreed(g, f) /\ Checked(f)  BY DEF Agreed, Checked, NotPosted
    <3> HIDE DEF g, f
    <3>6. QED  BY <3>1, <3>2, <3>3, <3>4, <3>5
  <2>2. ASSUME NEW kind \in {"concept", "strategy"}, Call(a, kind)
        PROVE  \E g \in GateRecord, f \in EngineRecord :
                  /\ gate' = [gate EXCEPT ![a] = g] /\ engine' = [engine EXCEPT ![a] = f]
                  /\ Agreed(g, f) /\ Checked(f)
    <3> DEFINE g == [gate[a] EXCEPT !.at = "elsewhere"]
               f == [NotPosted EXCEPT !.at = "posted", !.kind = kind]
    <3>1. g \in GateRecord  BY <1>0 DEF GateRecord
    <3>2. f \in EngineRecord  BY NotPostedType DEF EngineRecord, Kinds
    <3>3. gate' = [gate EXCEPT ![a] = g]  BY <2>2 DEF Call
    <3>4. engine' = [engine EXCEPT ![a] = f]  BY <1>0, <2>2 DEF Call
    <3>5. Agreed(g, f)
      <4>1. gate[a].told # "llm"
        BY <2>2 DEF AnswerInv, Agreed, Call
      <4>2. QED  BY <1>0, <4>1 DEF Agreed, GateRecord
    <3>6. Checked(f)  BY DEF Checked, NotPosted
    <3> HIDE DEF g, f
    <3>7. QED  BY <3>1, <3>2, <3>3, <3>4, <3>5, <3>6
  <2>3. QED  BY <2>1, <2>2
<1>2. gate' \in [Asks -> GateRecord] /\ engine' \in [Asks -> EngineRecord]
  BY <1>1 DEF AnswerInv, AnswersTypeOK, GateRecord, EngineRecord
<1>3. setup' = setup  BY DEF Ask, Call
<1>4. AnswersTypeOK'
  BY <1>2, <1>3 DEF AnswerInv, AnswersTypeOK, GateRecord, EngineRecord
<1>5. ASSUME NEW b \in Asks  PROVE Checked(engine'[b]) /\ Agreed(gate'[b], engine'[b])
  <2>1. CASE b = a  BY <1>0, <1>1, <2>1
  <2>2. CASE b # a
    <3>1. engine'[b] = engine[b] /\ gate'[b] = gate[b]  BY <1>0, <1>1, <2>2
    <3> QED  BY <3>1 DEF AnswerInv
  <2>3. QED  BY <2>1, <2>2
<1>6. QED  BY <1>4, <1>5 DEF AnswerInv, Checked, Agreed

\* What a Socratic answer has passed is what a player must not be told.
LEMMA AnswersScreened == AnswerInv => Screened
<1> SUFFICES ASSUME AnswerInv, NEW a \in Asks, gate[a].told = "llm"
             PROVE  /\ ~Forbidden(engine[a].draft.first)
                    /\ ~Forbidden(engine[a].draft.second)
                    /\ Grounded(engine[a].draft)
                    /\ engine[a].verdict # "violation"
  BY DEF AnswerInv, Screened
<1>1. engine[a].kind = "socratic" /\ engine[a].from = "llm"
  BY DEF AnswerInv, Agreed
<1>2. SocraticClean(engine[a].draft) /\ Grounded(engine[a].draft)
      /\ engine[a].verdict # "violation"
  BY <1>1 DEF AnswerInv, Checked
<1>3. QED  BY <1>2 DEF SocraticClean, Flagged, Forbidden

\* Whatever the model writes, whatever the judge says and whenever the answer
\* comes back: in the questions and the tip told as the model's there is
\* nothing the policy forbids, no number the prompt lacks and nothing the judge
\* refused.  Of the disclaimer below them it says nothing: that is not screened.
THEOREM AnswersAreScreened == AiSpec => []Screened
<1>1. AiInit => AnswerInv
  <2> SUFFICES ASSUME AiInit PROVE AnswerInv  OBVIOUS
  <2>1. engine = [a \in Asks |-> NotPosted] /\ gate = [a \in Asks |-> Unasked]
        /\ setup \in [llm : BOOLEAN, key : BOOLEAN, judge : BOOLEAN]
    BY DEF AiInit, AnswersInit
  <2>2. AnswersTypeOK
    <3>1. engine \in [Asks -> EngineRecord] /\ gate \in [Asks -> GateRecord]
      BY <2>1, NotPostedType
    <3>2. QED  BY <2>1, <3>1 DEF AnswersTypeOK, EngineRecord, GateRecord
  <2>3. QED  BY <2>1, <2>2, NotPostedType DEF AnswerInv
<1>2. AnswerInv /\ clock \in Nat /\ [AiNext]_aiVars => AnswerInv'
  <2> SUFFICES ASSUME AnswerInv, clock \in Nat, [AiNext]_aiVars PROVE AnswerInv'
    OBVIOUS
  <2>1. CASE UNCHANGED answerVars
    BY <2>1 DEF answerVars, AnswerInv, AnswersTypeOK, Checked, Agreed
  <2>2. ASSUME NEW a \in Asks, AskStep(a) PROVE AnswerInv'
    BY <2>2, AskKept, EngineKept, GateKept DEF AskStep
  <2>3. QED  BY <2>1, <2>2 DEF AiNext, TimePasses, aiVars
<1>3. IInv => clock \in Nat
  BY TokenBucketAssumption DEF IInv, BucketTypeOK
<1>4. AiSpec => []IInv
  BY EngineUsesLimiter, LimiterInvariant
<1>5. QED  BY <1>1, <1>2, <1>3, <1>4, AnswersScreened, PTL DEF AiSpec

-----------------------------------------------------------------------------
(* Sequences without repetition *)

\* What a sequence contains is what is in its range.
LEMMA ContainsRange ==
    ASSUME NEW S, NEW s \in Seq(S), NEW x
    PROVE  Contains(s, x) <=> x \in Range(s)
BY DEF Contains, Range

\* A sequence with another entry.
LEMMA OneMore ==
    ASSUME NEW S, NEW s \in Seq(S), NEW x \in S
    PROVE  /\ Append(s, x) \in Seq(S) /\ Range(Append(s, x)) = Range(s) \cup {x}
           /\ IsInjective(s) /\ x \notin Range(s) => IsInjective(Append(s, x))
<1> DEFINE t == Append(s, x)
<1>1. /\ t \in Seq(S) /\ Len(t) = Len(s) + 1 /\ Len(s) \in Nat
      /\ DOMAIN s = 1..Len(s) /\ DOMAIN t = 1..(Len(s) + 1)
      /\ \A i \in 1..Len(s) : t[i] = s[i]
      /\ t[Len(s) + 1] = x
  OBVIOUS
<1> HIDE DEF t
<1>2. Range(t) = Range(s) \cup {x}
  <2>1. \A i \in DOMAIN t : t[i] \in Range(s) \cup {x}  BY <1>1 DEF Range
  <2>2. \A i \in DOMAIN s : s[i] \in Range(t)  BY <1>1 DEF Range
  <2>3. x \in Range(t)  BY <1>1 DEF Range
  <2>4. QED  BY <2>1, <2>2, <2>3 DEF Range
<1>3. ASSUME IsInjective(s), x \notin Range(s)  PROVE IsInjective(t)
  <2>1. \A i \in 1..Len(s) : s[i] # x  BY <1>1, <1>3 DEF Range
  <2>2. \A i, k \in 1..Len(s) : s[i] = s[k] => i = k  BY <1>1, <1>3 DEF IsInjective
  <2>3. QED  BY <1>1, <2>1, <2>2 DEF IsInjective
<1>4. QED  BY <1>1, <1>2, <1>3 DEF t

\* Two sequences one after the other.
LEMMA Joined ==
    ASSUME NEW S, NEW s \in Seq(S), NEW t \in Seq(S)
    PROVE  /\ s \o t \in Seq(S) /\ Range(s \o t) = Range(s) \cup Range(t)
           /\ IsInjective(s) /\ IsInjective(t) /\ Range(s) \cap Range(t) = {}
                 => IsInjective(s \o t)
<1> DEFINE u == s \o t  m == Len(s)  n == Len(t)
<1>1. /\ u \in Seq(S) /\ m \in Nat /\ n \in Nat
      /\ DOMAIN s = 1..m /\ DOMAIN t = 1..n /\ DOMAIN u = 1..(m + n)
      /\ \A i \in 1..(m + n) : u[i] = IF i =< m THEN s[i] ELSE t[i - m]
  OBVIOUS
<1> HIDE DEF u, m, n
<1>2. Range(u) = Range(s) \cup Range(t)
  <2>1. \A i \in 1..(m + n) : u[i] \in Range(s) \cup Range(t)
    <3> SUFFICES ASSUME NEW i \in 1..(m + n) PROVE u[i] \in Range(s) \cup Range(t)
      OBVIOUS
    <3>1. i =< m => i \in DOMAIN s /\ u[i] = s[i]  BY <1>1
    <3>2. ~(i =< m) => (i - m) \in DOMAIN t /\ u[i] = t[i - m]  BY <1>1
    <3>3. QED  BY <3>1, <3>2 DEF Range
  <2>2. \A i \in 1..m : s[i] \in Range(u)
    <3>1. \A i \in 1..m : i \in DOMAIN u /\ u[i] = s[i]  BY <1>1
    <3> QED  BY <3>1 DEF Range
  <2>3. \A i \in 1..n : t[i] \in Range(u)
    <3>1. \A i \in 1..n : (m + i) \in DOMAIN u /\ u[m + i] = t[i]
      <4> SUFFICES ASSUME NEW i \in 1..n PROVE (m + i) \in DOMAIN u /\ u[m + i] = t[i]
        OBVIOUS
      <4>1. (m + i) \in 1..(m + n) /\ ~(m + i =< m) /\ (m + i) - m = i  BY <1>1
      <4> QED  BY <1>1, <4>1
    <3> QED  BY <3>1 DEF Range
  <2>4. QED  BY <1>1, <2>1, <2>2, <2>3 DEF Range
<1>3. ASSUME IsInjective(s), IsInjective(t), Range(s) \cap Range(t) = {}  PROVE IsInjective(u)
  <2>1. \A i \in 1..m, k \in 1..n : s[i] # t[k]
    BY <1>1, <1>3 DEF Range
  <2>2. \A i, k \in 1..m : s[i] = s[k] => i = k  BY <1>1, <1>3 DEF IsInjective
  <2>3. \A i, k \in 1..n : t[i] = t[k] => i = k  BY <1>1, <1>3 DEF IsInjective
  <2>4. ASSUME NEW i \in 1..(m + n), NEW k \in 1..(m + n), u[i] = u[k]  PROVE i = k
    <3>1. CASE i =< m /\ k =< m
      <4>1. i \in 1..m /\ k \in 1..m /\ u[i] = s[i] /\ u[k] = s[k]  BY <1>1, <3>1
      <4> QED  BY <2>2, <2>4, <4>1
    <3>2. CASE ~(i =< m) /\ ~(k =< m)
      <4>1. (i - m) \in 1..n /\ (k - m) \in 1..n /\ u[i] = t[i - m] /\ u[k] = t[k - m]
        BY <1>1, <3>2
      <4>2. i - m = k - m  BY <2>3, <2>4, <4>1
      <4> QED  BY <1>1, <4>2
    <3>3. CASE i =< m /\ ~(k =< m)
      <4>1. i \in 1..m /\ (k - m) \in 1..n /\ u[i] = s[i] /\ u[k] = t[k - m]
        BY <1>1, <3>3
      <4> QED  BY <2>1, <2>4, <4>1
    <3>4. CASE ~(i =< m) /\ k =< m
      <4>1. k \in 1..m /\ (i - m) \in 1..n /\ u[k] = s[k] /\ u[i] = t[i - m]
        BY <1>1, <3>4
      <4> QED  BY <2>1, <2>4, <4>1
    <3>5. QED  BY <3>1, <3>2, <3>3, <3>4
  <2>5. QED  BY <1>1, <2>4 DEF IsInjective
<1>4. QED  BY <1>1, <1>2, <1>3 DEF u

\* The list is cut at its old end: what stays and what goes are all there was,
\* and nothing of a list without repetition does both.
LEMMA TrimmedOf ==
    ASSUME NEW S, NEW s \in Seq(S)
    PROVE  LET gone == {s[i] : i \in 1..(Len(s) - LatestMax)} IN
           /\ Trimmed(s) \in Seq(S)
           /\ Range(Trimmed(s)) \cup gone = Range(s)
           /\ IsInjective(s) => IsInjective(Trimmed(s)) /\ Range(Trimmed(s)) \cap gone = {}
<1> DEFINE n == Len(s)  cut == n - LatestMax  gone == {s[i] : i \in 1..cut}
           first == Later(1, n - LatestMax + 1)  t == Trimmed(s)
<1>1. n \in Nat /\ LatestMax \in Nat /\ LatestMax > 0 /\ cut \in Int /\ cut < n
      /\ DOMAIN s = 1..n
  BY ContentAssumption
<1>2. first \in Nat /\ first >= 1 /\ first =< n + 1
      /\ (cut >= 0 => first = cut + 1) /\ (cut < 0 => first = 1)
  <2>1. first = IF 1 >= cut + 1 THEN 1 ELSE cut + 1
    BY DEF Later
  <2>2. QED  BY <1>1, <2>1
<1>3. t = [i \in 1..(n - first + 1) |-> s[i + first - 1]]
  <2> DEFINE last == Len(s)
  <2>1. t = SubSeq(s, first, last)  BY DEF Trimmed
  <2>2. last = n  OBVIOUS
  <2>3. n \in Nat /\ first \in Nat  BY <1>1, <1>2
  <2> HIDE DEF first, t, last, n
  <2>4. t = SubSeq(s, first, n)  BY <2>1, <2>2
  <2>5. QED  BY <2>3, <2>4
<1> HIDE DEF first, cut, n, t
<1>4. \A i \in 1..(n - first + 1) : (i + first - 1) \in first..n /\ (i + first - 1) \in 1..n
  BY <1>1, <1>2
<1>5. t \in Seq(S)
  <2>1. \A i \in 1..n : s[i] \in S  BY <1>1
  <2>2. t \in [1..(n - first + 1) -> S]  BY <1>3, <1>4, <2>1
  <2>3. (n - first + 1) \in Nat  BY <1>1, <1>2
  <2>4. QED  BY <2>2, <2>3
<1>6. Range(t) = {s[i] : i \in first..n}
  <2>1. \A i \in 1..(n - first + 1) : t[i] \in {s[k] : k \in first..n}
    BY <1>3, <1>4
  <2>2. ASSUME NEW k \in first..n  PROVE s[k] \in Range(t)
    <3>1. (k - first + 1) \in 1..(n - first + 1) /\ (k - first + 1) + first - 1 = k
      BY <1>1, <1>2
    <3>2. t[k - first + 1] = s[k]  BY <1>3, <3>1
    <3>3. QED  BY <1>3, <3>1, <3>2 DEF Range
  <2>3. QED  BY <1>3, <2>1, <2>2 DEF Range
<1>7. first..n \cup 1..cut = 1..n /\ first..n \cap 1..cut = {} /\ first..n \subseteq 1..n
      /\ 1..cut \subseteq 1..n
  <2>1. CASE cut >= 0  BY <1>1, <1>2, <2>1
  <2>2. CASE cut < 0  BY <1>1, <1>2, <2>2
  <2>3. QED  BY <1>1, <2>1, <2>2
<1>8. Range(t) \cup gone = Range(s)
  <2>1. Range(s) = {s[i] : i \in 1..n}  BY <1>1 DEF Range
  <2>2. QED  BY <1>6, <1>7, <2>1
<1>9. ASSUME IsInjective(s)  PROVE IsInjective(t) /\ Range(t) \cap gone = {}
  <2>1. \A i, k \in 1..n : s[i] = s[k] => i = k  BY <1>1, <1>9 DEF IsInjective
  <2>2. \A i \in first..n, k \in 1..cut : s[i] # s[k]
    BY <1>7, <2>1
  <2>3. ASSUME NEW i \in 1..(n - first + 1), NEW k \in 1..(n - first + 1), t[i] = t[k]
        PROVE  i = k
    <3>1. i + first - 1 = k + first - 1  BY <1>3, <1>4, <2>1, <2>3
    <3>2. QED  BY <1>1, <1>2, <3>1
  <2>4. IsInjective(t)  BY <1>3, <2>3 DEF IsInjective
  <2>5. QED  BY <1>6, <2>2, <2>4
<1>10. QED  BY <1>5, <1>8, <1>9 DEF t, cut, n

-----------------------------------------------------------------------------
(* The articles of a crawl, each once *)

\* One more article of what a crawl found.
With(kept, a) == IF Contains(kept, a) THEN kept ELSE Append(kept, a)

\* h is the table of what is kept of s at every set of places.
Kept(h, s, S) ==
    h = [D \in SUBSET S |-> IF D = {} THEN <<>> ELSE With(h[But(D)], s[Max(D)])]

\* What such a table holds for one set of places.
LEMMA KeptValue ==
    ASSUME NEW s, NEW S, NEW h, Kept(h, s, S), NEW D \in SUBSET S
    PROVE  h[D] = IF D = {} THEN <<>> ELSE With(h[But(D)], s[Max(D)])
  BY DEF Kept

\* Two tables agree wherever both have an entry.
LEMMA KeptUnique ==
    ASSUME NEW s, NEW S, PlaceSet(S), NEW T \in SUBSET S,
           NEW h, NEW k, Kept(h, s, S), Kept(k, s, T)
    PROVE  \A D \in SUBSET T : h[D] = k[D]
<1> DEFINE F == {D \in SUBSET T : h[D] # k[D]}
<1> SUFFICES ASSUME F # {} PROVE FALSE  OBVIOUS
<1>1. F \in SUBSET SUBSET S  OBVIOUS
<1>0. IsFiniteSet(S)  BY SomePlaces
<1>2. PICK m \in F : \A t \in F : t \subseteq m => t = m
  <2> HIDE DEF F
  <2> QED  BY <1>0, <1>1, LeastMember
<1>3. m \in SUBSET T /\ m \in SUBSET S /\ PlaceSet(m)
  <2>1. m \in SUBSET T /\ m \in SUBSET S  OBVIOUS
  <2> QED  BY <2>1, SomePlaces
<1>4. h[m] = IF m = {} THEN <<>> ELSE With(h[But(m)], s[Max(m)])  BY <1>3, KeptValue
<1>5. k[m] = IF m = {} THEN <<>> ELSE With(k[But(m)], s[Max(m)])  BY <1>3, KeptValue
<1>6. m # {}  BY <1>4, <1>5
<1>7. But(m) \in SUBSET T /\ But(m) \subseteq m /\ But(m) # m
  BY <1>3, <1>6, LastPlace
<1>8. h[But(m)] = k[But(m)]  BY <1>2, <1>7
<1>9. QED  BY <1>4, <1>5, <1>6, <1>8

\* Every sequence has its table.
LEMMA KeptExist ==
    ASSUME NEW s, NEW S, PlaceSet(S)
    PROVE  \E h : Kept(h, s, S)
<1> DEFINE F == {T \in SUBSET S : ~ \E h : Kept(h, s, T)}
<1> SUFFICES ASSUME F # {} PROVE FALSE  OBVIOUS
<1>1. F \in SUBSET SUBSET S  OBVIOUS
<1>0. IsFiniteSet(S)  BY SomePlaces
<1>2. PICK T \in F : \A t \in F : t \subseteq T => t = T
  <2> HIDE DEF F
  <2> QED  BY <1>0, <1>1, LeastMember
<1>7. PlaceSet(T)
  <2>1. T \in SUBSET S  OBVIOUS
  <2> QED  BY <2>1, SomePlaces
<1> DEFINE H(D) == CHOOSE h : Kept(h, s, D)
           g == [D \in SUBSET T |-> IF D = {} THEN <<>>
                                    ELSE With(H(But(D))[But(D)], s[Max(D)])]
<1>3. ASSUME NEW D \in SUBSET T, D # T  PROVE Kept(H(D), s, D)
  <2>1. \E h : Kept(h, s, D)  BY <1>2, <1>3
  <2> QED  BY <2>1
<1>4. ASSUME NEW D \in SUBSET T, D # {}  PROVE g[But(D)] = H(But(D))[But(D)]
  <2> DEFINE r == But(D)
  <2>0. PlaceSet(D)  BY <1>4, <1>7, SomePlaces
  <2>1. r \in SUBSET T /\ r # T  BY <1>4, <2>0, LastPlace
  <2>2. Kept(H(r), s, r)  BY <1>3, <2>1
  <2> HIDE DEF r, H
  <2>3. H(r)[r] = IF r = {} THEN <<>> ELSE With(H(r)[But(r)], s[Max(r)])
    BY <2>2, KeptValue
  <2>4. CASE r = {}  BY <2>1, <2>3, <2>4 DEF r
  <2>5. CASE r # {}
    <3>0. PlaceSet(r)  BY <1>7, <2>1, SomePlaces
    <3>1. But(r) \in SUBSET r /\ But(r) \in SUBSET T /\ But(r) # T
      BY <2>1, <2>5, <3>0, LastPlace
    <3>2. Kept(H(But(r)), s, But(r))  BY <1>3, <3>1
    <3>3. H(r)[But(r)] = H(But(r))[But(r)]
      BY <2>2, <3>0, <3>1, <3>2, KeptUnique
    <3>4. g[r] = With(H(But(r))[But(r)], s[Max(r)])  BY <2>1, <2>5
    <3>5. QED  BY <2>3, <2>5, <3>3, <3>4 DEF r
  <2>6. QED  BY <2>4, <2>5
<1>5. Kept(g, s, T)
  <2> HIDE DEF H
  <2>1. ASSUME NEW D \in SUBSET T
        PROVE  (IF D = {} THEN <<>> ELSE With(H(But(D))[But(D)], s[Max(D)]))
                 = (IF D = {} THEN <<>> ELSE With(g[But(D)], s[Max(D)]))
    <3> HIDE DEF g
    <3> QED  BY <1>4
  <2>2. g = [D \in SUBSET T |-> IF D = {} THEN <<>> ELSE With(g[But(D)], s[Max(D)])]
    BY <2>1
  <2> QED  BY <2>2 DEF Kept
<1>6. QED  BY <1>5

\* What is kept of a sequence is the entry of all its places.
LEMMA DedupedIsKept ==
    ASSUME NEW s
    PROVE  Deduped(s) = (CHOOSE h : Kept(h, s, DOMAIN s))[DOMAIN s]
  BY Zenon DEF Deduped, FoldLeft, MapThenFoldSet, Kept, With, But

\* Of the articles a crawl found new, each is listed once and none is left out.
LEMMA DedupedOf ==
    ASSUME NEW S, NEW s \in Seq(S)
    PROVE  /\ Deduped(s) \in Seq(S) /\ IsInjective(Deduped(s))
           /\ Range(Deduped(s)) = Range(s)
<1> DEFINE n == Len(s)
           h == CHOOSE h : Kept(h, s, 1..n)
           Good(m) == /\ h[1..m] \in Seq(S) /\ IsInjective(h[1..m])
                      /\ Range(h[1..m]) = {s[i] : i \in 1..m}
           Bad == {m \in 0..n : ~Good(m)}
<1>1. n \in Nat /\ DOMAIN s = 1..n /\ \A i \in 1..n : s[i] \in S  OBVIOUS
<1>2. Kept(h, s, 1..n)
  <2>0. PlaceSet(1..n)  BY <1>1 DEF PlaceSet
  <2>1. \E k : Kept(k, s, 1..n)  BY <2>0, KeptExist
  <2> QED  BY <2>1
<1>3. Deduped(s) = h[1..n]  BY <1>1, DedupedIsKept
<1> HIDE DEF h, n
<1>4. Good(0)
  <2>1. 1..0 = {}  OBVIOUS
  <2>2. h[1..0] = <<>>
    <3>1. 1..0 \in SUBSET (1..n)  BY <2>1
    <3> QED  BY <1>2, <2>1, <3>1, KeptValue
  <2>3. QED  BY <2>1, <2>2 DEF IsInjective, Range
<1>5. ASSUME NEW m \in 1..n, Good(m - 1)  PROVE Good(m)
  <2> DEFINE k == h[1..(m - 1)]  a == s[m]
  <2>1. 1..m # {} /\ (1..m) \ {m} = 1..(m - 1) /\ 1..m = 1..(m - 1) \cup {m} /\ 1..m \in SUBSET (1..n)
    BY <1>1
  <2>2. Max(1..m) = m  BY <1>1 DEF Max
  <2>3. h[1..m] = With(k, a)
    <3> DEFINE D == 1..m  P == 1..n
    <3>0. D \in SUBSET P /\ D # {} /\ Kept(h, s, P)  BY <1>2, <2>1
    <3> HIDE DEF D, P
    <3>1. h[D] = IF D = {} THEN <<>> ELSE With(h[But(D)], s[Max(D)])
      BY <3>0 DEF Kept
    <3>2. But(D) = 1..(m - 1) /\ Max(D) = m  BY <2>1, <2>2 DEF But, D
    <3> QED  BY <3>0, <3>1, <3>2 DEF D
  <2>4. k \in Seq(S) /\ IsInjective(k) /\ Range(k) = {s[i] : i \in 1..(m - 1)} /\ a \in S
    BY <1>1, <1>5
  <2>5. {s[i] : i \in 1..m} = Range(k) \cup {a}  BY <2>1, <2>4
  <2> HIDE DEF k, a
  <2>6. CASE Contains(k, a)
    <3>1. a \in Range(k)  BY <2>4, <2>6, ContainsRange
    <3> QED  BY <2>3, <2>4, <2>5, <2>6, <3>1 DEF With
  <2>7. CASE ~Contains(k, a)
    <3>1. a \notin Range(k)  BY <2>4, <2>7, ContainsRange
    <3>2. h[1..m] = Append(k, a)  BY <2>3, <2>7 DEF With
    <3>3. /\ Append(k, a) \in Seq(S) /\ IsInjective(Append(k, a))
          /\ Range(Append(k, a)) = Range(k) \cup {a}
      BY <2>4, <3>1, OneMore
    <3> QED  BY <2>5, <3>2, <3>3
  <2>8. QED  BY <2>6, <2>7
<1>6. Bad = {}
  <2> SUFFICES ASSUME Bad # {} PROVE FALSE  OBVIOUS
  <2>1. Bad \subseteq Nat  BY <1>1
  <2>2. PICK m \in Bad : \A k \in Bad : m =< k
    <3> HIDE DEF Bad
    <3> QED  BY <2>1, LeastNatural
  <2> HIDE DEF Good
  <2>3. m \in 1..n  BY <1>1, <1>4
  <2>4. m - 1 \in 0..n /\ ~(m =< m - 1)  BY <1>1, <2>3
  <2>5. Good(m - 1)  BY <2>2, <2>4
  <2>6. QED  BY <1>5, <2>3, <2>5
<1>7. Good(n)
  <2>1. n \in 0..n  BY <1>1
  <2> HIDE DEF Good
  <2> QED  BY <1>6, <2>1
<1>8. QED  BY <1>1, <1>3, <1>7 DEF Range

-----------------------------------------------------------------------------
(* Content *)

JobRecord ==
    [at : {"queued", "crawling", "making", "failed", "done"},
     todo : Seq(Articles), new : Seq(Articles), made : Seq(Titles)]

IngestRecord == [at : {"none", "running"}, todo : Seq(Titles), rows : Seq(Titles)]

PastRecord ==
    [trimmed : SUBSET Articles, lost : SUBSET Articles, deaths : Nat, overlapped : BOOLEAN]

ContentTyped ==
    /\ job \in [Jobs -> JobRecord]
    /\ ingest \in [Jobs -> IngestRecord]
    /\ seen \subseteq Articles
    /\ latest \in Seq(Articles)
    /\ store \in Seq(Titles)
    /\ past \in PastRecord

\* An article a crawl has found new is in its hands alone, was seen, and is not
\* in the list nor was trimmed from it; only a crawl has any.
Listed ==
    /\ NewsListedOnce
    /\ Range(latest) \cup past.trimmed \subseteq seen
    /\ \A j \in Jobs :
          /\ job[j].at # "crawling" => job[j].new = <<>>
          /\ IsInjective(job[j].new)
          /\ Range(job[j].new) \subseteq seen
          /\ Range(job[j].new) \cap (Range(latest) \cup past.trimmed) = {}
    /\ \A j, k \in Jobs : j # k => Range(job[j].new) \cap Range(job[k].new) = {}

\* While no two posts have overlapped, one transaction runs at most, and its
\* rows are new to the table and to one another.
Stored ==
    ~past.overlapped =>
       /\ IsInjective(store)
       /\ \A j, k \in Running : j = k
       /\ \A j \in Running : /\ IsInjective(ingest[j].rows)
                              /\ Range(ingest[j].rows) \cap Range(store) = {}

ContentInv == ContentTyped /\ Listed /\ Stored

\* The empty sequence.
LEMMA NothingYet ==
    ASSUME NEW S
    PROVE  <<>> \in Seq(S) /\ IsInjective(<<>>) /\ Range(<<>>) = {}
BY DEF IsInjective, Range

\* The records a job is in when it is not at work.
LEMMA QueuedType ==
    ASSUME NEW at \in {"queued", "crawling", "failed", "done"}
    PROVE  /\ [Queued EXCEPT !.at = at] \in JobRecord
           /\ [Queued EXCEPT !.at = at].new = <<>>
           /\ [Queued EXCEPT !.at = at].at = at
           /\ NoPost \in IngestRecord
BY NothingYet DEF Queued, JobRecord, NoPost, IngestRecord

\* A step that changes one job's record.
LEMMA OneJob ==
    ASSUME ContentTyped, NEW j \in Jobs, NEW f \in JobRecord,
           job' = [job EXCEPT ![j] = f]
    PROVE  /\ job' \in [Jobs -> JobRecord]
           /\ job'[j] = f /\ \A k \in Jobs : k # j => job'[k] = job[k]
BY DEF ContentTyped

\* A step that changes one post's record.
LEMMA OnePost ==
    ASSUME ContentTyped, NEW j \in Jobs, NEW f \in IngestRecord,
           ingest' = [ingest EXCEPT ![j] = f]
    PROVE  /\ ingest' \in [Jobs -> IngestRecord]
           /\ ingest'[j] = f /\ \A k \in Jobs : k # j => ingest'[k] = ingest[k]
BY DEF ContentTyped

\* A step that takes nothing into a crawl's hands, and nothing out of them.
LEMMA NewsAlone ==
    ASSUME Listed, UNCHANGED <<seen, latest>>,
           past'.trimmed = past.trimmed, past'.lost = past.lost,
           \A j \in Jobs : /\ job'[j].new = job[j].new
                           /\ job'[j].at # "crawling" => job'[j].new = <<>>
    PROVE  Listed'
BY DEF Listed, NewsListedOnce

\* A step that leaves the gateway's transactions and table alone.
LEMMA StoreAlone ==
    ASSUME Stored, UNCHANGED <<ingest, store>>, past'.overlapped = past.overlapped
    PROVE  Stored'
BY DEF Stored, Running

\* A step of one job that leaves its articles and the rest alone.
LEMMA JobOnly ==
    ASSUME ContentInv, NEW j \in Jobs, NEW f \in JobRecord,
           job' = [job EXCEPT ![j] = f],
           UNCHANGED <<seen, latest, ingest, store, past>>,
           f.new = job[j].new, f.at # "crawling" => f.new = <<>>
    PROVE  ContentInv'
<1>1. /\ job' \in [Jobs -> JobRecord]
      /\ job'[j] = f /\ \A k \in Jobs : k # j => job'[k] = job[k]
  BY OneJob DEF ContentInv
<1>2. ContentTyped'  BY <1>1 DEF ContentInv, ContentTyped
<1>3. ASSUME NEW k \in Jobs
      PROVE  job'[k].new = job[k].new /\ (job'[k].at # "crawling" => job'[k].new = <<>>)
  <2>1. CASE k = j  BY <1>1, <2>1
  <2>2. CASE k # j  BY <1>1, <2>2 DEF ContentInv, Listed
  <2>3. QED  BY <2>1, <2>2
<1>4. Listed'  BY <1>3, NewsAlone DEF ContentInv
<1>5. Stored'  BY StoreAlone DEF ContentInv
<1>6. QED  BY <1>2, <1>4, <1>5 DEF ContentInv

\* The steps of a job that is neither looking at articles nor posting.
LEMMA JobAtWork ==
    ASSUME ContentInv, NEW j \in Jobs,
           Crawl(j) \/ Start(j) \/ TakeToken(j) \/ Taking(j) \/ Make(j) \/ Render(j)
    PROVE  ContentInv'
<1> DEFINE e == job[j]
<1>0. e \in JobRecord /\ (e.at # "crawling" => e.new = <<>>)
  BY DEF ContentInv, ContentTyped, Listed
<1> HIDE DEF e
<1>1. CASE Crawl(j)
  <2>1. PICK s \in Feeds : job' = [job EXCEPT ![j] = [Queued EXCEPT !.at = "crawling", !.todo = s]]
    BY <1>1 DEF Crawl
  <2> DEFINE f == [Queued EXCEPT !.at = "crawling", !.todo = s]
  <2>2. s \in Seq(Articles)
    <3>1. PICK m \in 0..MaxFetched : s \in [1..m -> Articles]  BY <2>1 DEF Feeds, SeqOf
    <3>2. m \in Nat  BY <3>1, ContentAssumption
    <3> QED  BY <3>1, <3>2
  <2>3. f \in JobRecord /\ f.new = <<>> /\ f.at = "crawling"
    BY <2>2, NothingYet DEF Queued, JobRecord
  <2>4. e.new = <<>>  BY <1>0, <1>1 DEF Crawl, e
  <2>5. UNCHANGED <<seen, latest, ingest, store, past>>  BY <1>1 DEF Crawl
  <2> HIDE DEF f
  <2>6. QED  BY <2>1, <2>3, <2>4, <2>5, JobOnly DEF f, e
<1>2. CASE Start(j)
  <2> DEFINE f == [e EXCEPT !.at = "making"]
  <2>1. f \in JobRecord /\ f.new = e.new /\ f.new = <<>>
    BY <1>0, <1>2 DEF Start, JobRecord, e
  <2>2. job' = [job EXCEPT ![j] = f] /\ UNCHANGED <<seen, latest, ingest, store, past>>
    BY <1>2 DEF Start, e
  <2> HIDE DEF f
  <2>3. QED  BY <2>1, <2>2, JobOnly DEF e
<1>3. CASE TakeToken(j) \/ Taking(j)
  <2>1. UNCHANGED contentVars  BY <1>3 DEF TakeToken, Taking
  <2>2. QED
    BY <2>1 DEF contentVars, ContentInv, ContentTyped, Listed, NewsListedOnce, Stored, Running
<1>4. CASE Make(j)
  <2>0. e.at = "making" /\ e.new = <<>> /\ UNCHANGED <<seen, latest, ingest, store, past>>
    BY <1>0, <1>4 DEF Make, e
  <2>1. ASSUME NEW title \in Titles, job' = [job EXCEPT ![j].made = Append(@, title)]
        PROVE  ContentInv'
    <3> DEFINE f == [e EXCEPT !.made = Append(@, title)]
    <3>1. e.made \in Seq(Titles)  BY <1>0 DEF JobRecord
    <3>2. Append(e.made, title) \in Seq(Titles)  BY <3>1, OneMore
    <3>3. f \in JobRecord /\ f.new = <<>>  BY <1>0, <2>0, <3>2 DEF JobRecord
    <3>4. job' = [job EXCEPT ![j] = f]  BY <2>1 DEF e
    <3> HIDE DEF f
    <3>5. QED  BY <2>0, <3>3, <3>4, JobOnly DEF e
  <2>2. CASE job' = [job EXCEPT ![j] = [Queued EXCEPT !.at = "failed"]]
    <3> DEFINE f == [Queued EXCEPT !.at = "failed"]
    <3>1. f \in JobRecord /\ f.new = <<>>  BY QueuedType
    <3>2. job' = [job EXCEPT ![j] = f]  BY <2>2
    <3> HIDE DEF f
    <3>3. QED  BY <2>0, <3>1, <3>2, JobOnly DEF e
  <2>3. QED  BY <1>4, <2>1, <2>2 DEF Make
<1>5. CASE Render(j)
  <2>1. PICK titles \in Templates : job' = [job EXCEPT ![j].made = titles]
    BY <1>5 DEF Render
  <2> DEFINE f == [e EXCEPT !.made = titles]
  <2>2. titles \in Seq(Titles)  BY <2>1, ContentAssumption DEF Templates
  <2>3. f \in JobRecord /\ f.new = e.new /\ f.new = <<>>
    BY <1>0, <1>5, <2>2 DEF Render, JobRecord, e
  <2>4. job' = [job EXCEPT ![j] = f] /\ UNCHANGED <<seen, latest, ingest, store, past>>
    BY <1>5, <2>1 DEF Render, e
  <2> HIDE DEF f
  <2>5. QED  BY <2>3, <2>4, JobOnly DEF e
<1>6. QED  BY <1>1, <1>2, <1>3, <1>4, <1>5

\* A crawl looks at its next article.
LEMMA LookKept ==
    ASSUME ContentInv, NEW j \in Jobs, Look(j)
    PROVE  ContentInv'
<1> DEFINE e == job[j]  a == Head(e.todo)
           f == [e EXCEPT !.todo = Tail(@), !.new = IF a \in seen THEN @ ELSE Append(@, a)]
<1>0. e \in JobRecord /\ e.at = "crawling" /\ e.todo # <<>>
  BY DEF ContentInv, ContentTyped, Look
<1>1. a \in Articles /\ Tail(e.todo) \in Seq(Articles) /\ e.new \in Seq(Articles)
  <2>1. e.todo \in Seq(Articles) /\ e.todo # <<>> /\ e.new \in Seq(Articles)
    BY <1>0 DEF JobRecord
  <2> QED  BY <2>1
<1>2. /\ Append(e.new, a) \in Seq(Articles) /\ Range(Append(e.new, a)) = Range(e.new) \cup {a}
      /\ IsInjective(e.new) /\ a \notin Range(e.new) => IsInjective(Append(e.new, a))
  BY <1>1, OneMore
<1>3. f \in JobRecord /\ f.at = "crawling"
      /\ f.new = IF a \in seen THEN e.new ELSE Append(e.new, a)
  BY <1>0, <1>1, <1>2 DEF JobRecord
<1>4. job' = [job EXCEPT ![j] = f] /\ seen' = seen \cup {a}
      /\ UNCHANGED <<latest, ingest, store, past>>
  BY DEF Look, IsNew
<1> HIDE DEF e, a, f
<1>5. /\ job' \in [Jobs -> JobRecord]
      /\ job'[j] = f /\ \A k \in Jobs : k # j => job'[k] = job[k]
  BY <1>3, <1>4, OneJob DEF ContentInv
<1>6. ContentTyped'  BY <1>1, <1>4, <1>5 DEF ContentInv, ContentTyped
<1>7. Stored'  BY <1>4, StoreAlone DEF ContentInv
<1>8. Listed
  BY DEF ContentInv
<1>9. /\ IsInjective(f.new)
      /\ Range(f.new) = Range(e.new) \cup ({a} \ seen)
  BY <1>2, <1>3, <1>8 DEF Listed, e
<1>10. /\ \A k \in Jobs : k # j => Range(job'[k].new) = Range(job[k].new)
       /\ Range(job'[j].new) = Range(job[j].new) \cup ({a} \ seen)
  BY <1>5, <1>9 DEF e
<1>11. Listed'
  <2>1. \A k \in Jobs : Range(job[k].new) \subseteq Range(job'[k].new)
    BY <1>10
  <2>2. NewsListedOnce'
    <3>1. IsInjective(latest') /\ Range(latest') \cap past'.trimmed = {}
      BY <1>4, <1>8 DEF Listed, NewsListedOnce
    <3>2. a \in seen \/ a \in Range(job'[j].new)  BY <1>10
    <3>3. \A x \in seen : \/ x \in Range(latest) \cup past.trimmed \cup past.lost
                         \/ \E k \in Jobs : x \in Range(job[k].new)
      BY <1>8 DEF Listed, NewsListedOnce
    <3>4. \A x \in seen' : \/ x \in Range(latest') \cup past'.trimmed \cup past'.lost
                          \/ \E k \in Jobs : x \in Range(job'[k].new)
      BY <1>4, <2>1, <3>2, <3>3
    <3>5. QED  BY <3>1, <3>4 DEF NewsListedOnce
  <2>3. (Range(latest) \cup past.trimmed \subseteq seen)'
    BY <1>4, <1>8 DEF Listed
  <2>4. ASSUME NEW k \in Jobs
        PROVE  /\ job'[k].at # "crawling" => job'[k].new = <<>>
               /\ IsInjective(job'[k].new)
               /\ Range(job'[k].new) \subseteq seen'
               /\ Range(job'[k].new) \cap (Range(latest') \cup past'.trimmed) = {}
    <3>1. CASE k = j
      BY <1>3, <1>4, <1>5, <1>8, <1>9, <1>10, <3>1 DEF Listed
    <3>2. CASE k # j
      BY <1>4, <1>5, <1>8, <3>2 DEF Listed
    <3>3. QED  BY <3>1, <3>2
  <2>5. ASSUME NEW k \in Jobs, NEW m \in Jobs, k # m
        PROVE  Range(job'[k].new) \cap Range(job'[m].new) = {}
    <3>1. /\ Range(job[k].new) \cap Range(job[m].new) = {}
          /\ Range(job[k].new) \subseteq seen /\ Range(job[m].new) \subseteq seen
      BY <1>8, <2>5 DEF Listed
    <3>2. CASE k = j  BY <1>10, <2>5, <3>1, <3>2
    <3>3. CASE m = j  BY <1>10, <2>5, <3>1, <3>3
    <3>4. CASE k # j /\ m # j  BY <1>10, <3>1, <3>4
    <3>5. QED  BY <3>2, <3>3, <3>4
  <2>6. QED  BY <2>2, <2>3, <2>4, <2>5 DEF Listed
<1>12. QED  BY <1>6, <1>7, <1>11 DEF ContentInv

\* A crawl lists what it found new.
LEMMA PushKept ==
    ASSUME ContentInv, NEW j \in Jobs, Push(j)
    PROVE  ContentInv'
<1> DEFINE new == job[j].new
           d == Deduped(new)
           all == latest \o d
           gone == {all[i] : i \in 1..(Len(all) - LatestMax)}
           f == [Queued EXCEPT !.at = "done"]
<1>0. /\ new \in Seq(Articles) /\ latest \in Seq(Articles) /\ past \in PastRecord
      /\ Range(new) \cap (Range(latest) \cup past.trimmed) = {} /\ Range(new) \subseteq seen
      /\ IsInjective(latest) /\ Range(latest) \cap past.trimmed = {}
      /\ Range(latest) \cup past.trimmed \subseteq seen
  BY DEF ContentInv, ContentTyped, JobRecord, Listed, NewsListedOnce
<1>1. /\ f \in JobRecord /\ f.new = <<>> /\ f.at = "done"
  BY QueuedType
<1>2. /\ latest' = Trimmed(all) /\ past' = [past EXCEPT !.trimmed = @ \cup gone]
      /\ job' = [job EXCEPT ![j] = f] /\ UNCHANGED <<seen, ingest, store>>
  BY DEF Push
<1>3. d \in Seq(Articles) /\ IsInjective(d) /\ Range(d) = Range(new)
  <2> HIDE DEF new
  <2> QED  BY <1>0, DedupedOf
<1> HIDE DEF new, d
<1>4. all \in Seq(Articles) /\ Range(all) = Range(latest) \cup Range(new) /\ IsInjective(all)
  BY <1>0, <1>3, Joined
<1> HIDE DEF all
<1>5. /\ Trimmed(all) \in Seq(Articles) /\ Range(Trimmed(all)) \cup gone = Range(all)
      /\ IsInjective(Trimmed(all)) /\ Range(Trimmed(all)) \cap gone = {}
  BY <1>4, TrimmedOf
<1> HIDE DEF gone, f
<1>6. Range(all) \subseteq Articles  BY <1>4 DEF Range
<1>7. /\ job' \in [Jobs -> JobRecord]
      /\ job'[j] = f /\ \A k \in Jobs : k # j => job'[k] = job[k]
  BY <1>1, <1>2, OneJob DEF ContentInv
<1>8. /\ past' \in PastRecord /\ past'.trimmed = past.trimmed \cup gone
      /\ past'.lost = past.lost /\ past'.overlapped = past.overlapped
  BY <1>0, <1>2, <1>5, <1>6 DEF PastRecord
<1>9. ContentTyped'  BY <1>2, <1>5, <1>7, <1>8 DEF ContentInv, ContentTyped
<1>10. Stored'  BY <1>2, <1>8, StoreAlone DEF ContentInv
<1>11. /\ Range(latest') \cup gone = Range(latest) \cup Range(new)
       /\ IsInjective(latest') /\ Range(latest') \cap gone = {}
  BY <1>2, <1>4, <1>5
<1>12. Range(latest') \cap past'.trimmed = {}
  BY <1>0, <1>8, <1>11
<1>13. /\ Range(latest') \cup past'.trimmed = Range(latest) \cup past.trimmed \cup Range(new)
  BY <1>8, <1>11
<1>14. Listed'
  <2>0. Listed  BY DEF ContentInv
  <2>1. NewsListedOnce'
    <3>1. \A x \in seen : \/ x \in Range(latest) \cup past.trimmed \cup past.lost
                         \/ \E k \in Jobs : x \in Range(job[k].new)
      BY <2>0 DEF Listed, NewsListedOnce
    <3>2. ASSUME NEW x \in seen, NEW k \in Jobs, x \in Range(job[k].new)
          PROVE  \/ x \in Range(latest') \cup past'.trimmed
                 \/ x \in Range(job'[k].new)
      <4>1. CASE k = j  BY <1>13, <3>2, <4>1 DEF new
      <4>2. CASE k # j  BY <1>7, <3>2, <4>2
      <4>3. QED  BY <4>1, <4>2
    <3>3. \A x \in seen' : \/ x \in Range(latest') \cup past'.trimmed \cup past'.lost
                          \/ \E k \in Jobs : x \in Range(job'[k].new)
      BY <1>2, <1>8, <1>13, <3>1, <3>2
    <3>4. QED  BY <1>11, <1>12, <3>3 DEF NewsListedOnce
  <2>2. (Range(latest) \cup past.trimmed \subseteq seen)'
    BY <1>0, <1>2, <1>13
  <2>3. ASSUME NEW k \in Jobs
        PROVE  /\ job'[k].at # "crawling" => job'[k].new = <<>>
               /\ IsInjective(job'[k].new)
               /\ Range(job'[k].new) \subseteq seen'
               /\ Range(job'[k].new) \cap (Range(latest') \cup past'.trimmed) = {}
    <3>1. CASE k = j
      BY <1>1, <1>7, <3>1, NothingYet
    <3>2. CASE k # j
      <4>1. Range(job[k].new) \cap Range(new) = {}  BY <2>0, <3>2 DEF Listed, new
      <4>2. QED  BY <1>2, <1>7, <1>13, <2>0, <3>2, <4>1 DEF Listed
    <3>3. QED  BY <3>1, <3>2
  <2>4. ASSUME NEW k \in Jobs, NEW m \in Jobs, k # m
        PROVE  Range(job'[k].new) \cap Range(job'[m].new) = {}
    <3>1. CASE k = j \/ m = j  BY <1>1, <1>7, <3>1, NothingYet
    <3>2. CASE k # j /\ m # j  BY <1>7, <2>0, <2>4, <3>2 DEF Listed
    <3>3. QED  BY <3>1, <3>2
  <2>5. QED  BY <2>1, <2>2, <2>3, <2>4 DEF Listed
<1>15. QED  BY <1>9, <1>10, <1>14 DEF ContentInv

\* The worker dies under a job.
LEMMA DieKept ==
    ASSUME ContentInv, NEW j \in Jobs, Die(j)
    PROVE  ContentInv'
<1>1. PICK at \in {"queued", "failed"} : job' = [job EXCEPT ![j] = [Queued EXCEPT !.at = at]]
  BY DEF Die
<1> DEFINE new == job[j].new  f == [Queued EXCEPT !.at = at]
<1>2. f \in JobRecord /\ f.new = <<>>  BY <1>1, QueuedType
<1>3. /\ new \in Seq(Articles) /\ past \in PastRecord
  BY DEF ContentInv, ContentTyped, JobRecord
<1>4. Range(new) \subseteq Articles  BY <1>3 DEF Range
<1>5. /\ job' = [job EXCEPT ![j] = f] /\ UNCHANGED <<seen, latest, ingest, store>>
      /\ past' = [past EXCEPT !.deaths = @ + 1, !.lost = @ \cup Range(new)]
  BY <1>1 DEF Die
<1> HIDE DEF new, f
<1>6. /\ past' \in PastRecord /\ past'.trimmed = past.trimmed
      /\ past'.lost = past.lost \cup Range(new) /\ past'.overlapped = past.overlapped
  <2>1. past.deaths + 1 \in Nat /\ past.lost \cup Range(new) \in SUBSET Articles
    BY <1>3, <1>4 DEF PastRecord
  <2>2. past' = [past EXCEPT !.deaths = past.deaths + 1, !.lost = past.lost \cup Range(new)]
    BY <1>5
  <2>3. QED  BY <1>3, <2>1, <2>2 DEF PastRecord
<1>7. /\ job' \in [Jobs -> JobRecord]
      /\ job'[j] = f /\ \A k \in Jobs : k # j => job'[k] = job[k]
  BY <1>2, <1>5, OneJob DEF ContentInv
<1>8. ContentTyped'  BY <1>5, <1>6, <1>7 DEF ContentInv, ContentTyped
<1>9. Stored'  BY <1>5, <1>6, StoreAlone DEF ContentInv
<1>10. Listed'
  <2>0. Listed  BY DEF ContentInv
  <2>1. NewsListedOnce'
    <3>1. \A x \in seen : \/ x \in Range(latest) \cup past.trimmed \cup past.lost
                         \/ \E k \in Jobs : x \in Range(job[k].new)
      BY <2>0 DEF Listed, NewsListedOnce
    <3>2. ASSUME NEW x \in seen, NEW k \in Jobs, x \in Range(job[k].new)
          PROVE  x \in past'.lost \/ x \in Range(job'[k].new)
      <4>1. CASE k = j  BY <1>6, <3>2, <4>1 DEF new
      <4>2. CASE k # j  BY <1>7, <3>2, <4>2
      <4>3. QED  BY <4>1, <4>2
    <3>3. \A x \in seen' : \/ x \in Range(latest') \cup past'.trimmed \cup past'.lost
                          \/ \E k \in Jobs : x \in Range(job'[k].new)
      BY <1>5, <1>6, <3>1, <3>2
    <3>4. IsInjective(latest') /\ Range(latest') \cap past'.trimmed = {}
      BY <1>5, <1>6, <2>0 DEF Listed, NewsListedOnce
    <3>5. QED  BY <3>3, <3>4 DEF NewsListedOnce
  <2>2. (Range(latest) \cup past.trimmed \subseteq seen)'
    BY <1>5, <1>6, <2>0 DEF Listed
  <2>3. ASSUME NEW k \in Jobs
        PROVE  /\ job'[k].at # "crawling" => job'[k].new = <<>>
               /\ IsInjective(job'[k].new)
               /\ Range(job'[k].new) \subseteq seen'
               /\ Range(job'[k].new) \cap (Range(latest') \cup past'.trimmed) = {}
    <3>1. CASE k = j  BY <1>2, <1>7, <3>1, NothingYet
    <3>2. CASE k # j  BY <1>5, <1>6, <1>7, <2>0, <3>2 DEF Listed
    <3>3. QED  BY <3>1, <3>2
  <2>4. ASSUME NEW k \in Jobs, NEW m \in Jobs, k # m
        PROVE  Range(job'[k].new) \cap Range(job'[m].new) = {}
    <3>1. CASE k = j \/ m = j  BY <1>2, <1>7, <3>1, NothingYet
    <3>2. CASE k # j /\ m # j  BY <1>7, <2>0, <2>4, <3>2 DEF Listed
    <3>3. QED  BY <3>1, <3>2
  <2>5. QED  BY <2>1, <2>2, <2>3, <2>4 DEF Listed
<1>11. QED  BY <1>8, <1>9, <1>10 DEF ContentInv

\* A batch is posted; the post may be lost.
LEMMA PostKept ==
    ASSUME ContentInv, NEW j \in Jobs, Post(j)
    PROVE  ContentInv'
<1> DEFINE e == job[j]  f == [e EXCEPT !.at = "done"]
           r == [at |-> "running", todo |-> e.made, rows |-> <<>>]
<1>0. /\ e \in JobRecord /\ e.at = "making" /\ e.new = <<>> /\ past \in PastRecord
  BY DEF ContentInv, ContentTyped, Listed, Post
<1>1. f \in JobRecord /\ f.new = <<>> /\ f.at = "done"  BY <1>0 DEF JobRecord
<1>2. r \in IngestRecord  BY <1>0, NothingYet DEF JobRecord, IngestRecord
<1>3. job' = [job EXCEPT ![j] = f] /\ UNCHANGED <<seen, latest, store>>  BY DEF Post
<1> HIDE DEF e, f
<1>4. /\ job' \in [Jobs -> JobRecord]
      /\ job'[j] = f /\ \A k \in Jobs : k # j => job'[k] = job[k]
  BY <1>1, <1>3, OneJob DEF ContentInv
<1>5. ASSUME NEW k \in Jobs
      PROVE  job'[k].new = job[k].new /\ (job'[k].at # "crawling" => job'[k].new = <<>>)
  <2>1. CASE k = j  BY <1>0, <1>1, <1>4, <2>1 DEF e
  <2>2. CASE k # j  BY <1>4, <2>2 DEF ContentInv, Listed
  <2>3. QED  BY <2>1, <2>2
<1>6. CASE UNCHANGED <<ingest, past>>
  <2>1. ContentTyped'  BY <1>3, <1>4, <1>6 DEF ContentInv, ContentTyped
  <2>2. Listed'  BY <1>3, <1>5, <1>6, NewsAlone DEF ContentInv
  <2>3. Stored'  BY <1>3, <1>6, StoreAlone DEF ContentInv
  <2>4. QED  BY <2>1, <2>2, <2>3 DEF ContentInv
<1>7. CASE /\ ingest' = [ingest EXCEPT ![j] = r]
           /\ past' = [past EXCEPT !.overlapped = @ \/ Running # {}]
  <2>1. /\ ingest' \in [Jobs -> IngestRecord]
        /\ ingest'[j] = r /\ \A k \in Jobs : k # j => ingest'[k] = ingest[k]
    <3> HIDE DEF r
    <3> QED  BY <1>2, <1>7, OnePost DEF ContentInv
  <2>2. /\ past' \in PastRecord /\ past'.trimmed = past.trimmed /\ past'.lost = past.lost
        /\ past'.overlapped = (past.overlapped \/ Running # {})
    BY <1>0, <1>7, Zenon DEF PastRecord
  <2>3. ContentTyped'  BY <1>3, <1>4, <2>1, <2>2 DEF ContentInv, ContentTyped
  <2>4. Listed'  BY <1>3, <1>5, <2>2, NewsAlone DEF ContentInv
  <2>5. Stored'
    <3> SUFFICES ASSUME ~past'.overlapped
                 PROVE  /\ IsInjective(store')
                        /\ \A i, k \in Running' : i = k
                        /\ \A i \in Running' : /\ IsInjective(ingest'[i].rows)
                                                /\ Range(ingest'[i].rows) \cap Range(store') = {}
      BY DEF Stored
    <3>1. ~past.overlapped /\ Running = {}  BY <2>2
    <3>2. Running' = {j}  BY <2>1, <3>1 DEF Running
    <3>3. ingest'[j].rows = <<>>  BY <2>1
    <3>4. IsInjective(store')  BY <1>3, <3>1 DEF ContentInv, Stored
    <3>5. QED  BY <3>2, <3>3, <3>4, NothingYet
  <2>6. QED  BY <2>3, <2>4, <2>5 DEF ContentInv
<1>8. QED  BY <1>6, <1>7 DEF Post, e

\* The gateway's transaction goes through the items of a post, and is committed
\* or rolled back.
LEMMA IngestKept ==
    ASSUME ContentInv, NEW j \in Jobs, Check(j) \/ Commit(j) \/ Rollback(j)
    PROVE  ContentInv'
<1> DEFINE r == ingest[j]
<1>0. /\ r \in IngestRecord /\ r.at = "running" /\ j \in Running /\ store \in Seq(Titles)
      /\ r.rows \in Seq(Titles)
  BY DEF ContentInv, ContentTyped, Check, Commit, Rollback, Running, IngestRecord
<1>1. UNCHANGED <<job, seen, latest, past>>  BY DEF Check, Commit, Rollback
<1>2. Listed'  BY <1>1 DEF ContentInv, Listed, NewsListedOnce
<1>3. ASSUME ~past.overlapped
      PROVE  /\ IsInjective(store) /\ Running = {j}
             /\ IsInjective(r.rows) /\ Range(r.rows) \cap Range(store) = {}
  BY <1>0, <1>3 DEF ContentInv, Stored
<1> HIDE DEF r
<1>4. CASE Check(j)
  <2> DEFINE title == Head(r.todo)
             f == [r EXCEPT !.todo = Tail(@),
                            !.rows = IF Exists(j, title) THEN @ ELSE Append(@, title)]
  <2>1. r.todo \in Seq(Titles) /\ r.todo # <<>>  BY <1>0, <1>4 DEF Check, IngestRecord, r
  <2>2. title \in Titles /\ Tail(r.todo) \in Seq(Titles)  BY <2>1
  <2>3. /\ Append(r.rows, title) \in Seq(Titles)
        /\ Range(Append(r.rows, title)) = Range(r.rows) \cup {title}
        /\ IsInjective(r.rows) /\ title \notin Range(r.rows) => IsInjective(Append(r.rows, title))
    BY <1>0, <2>2, OneMore
  <2>4. f \in IngestRecord /\ f.at = "running"
        /\ f.rows = IF Exists(j, title) THEN r.rows ELSE Append(r.rows, title)
    BY <1>0, <2>2, <2>3 DEF IngestRecord
  <2>5. ingest' = [ingest EXCEPT ![j] = f] /\ UNCHANGED store
    BY <1>4 DEF Check, r
  <2>6. Exists(j, title) <=> title \in Range(store) \cup Range(r.rows)
    <3>1. store \o r.rows \in Seq(Titles) /\ Range(store \o r.rows) = Range(store) \cup Range(r.rows)
      BY <1>0, Joined
    <3> HIDE DEF title
    <3>2. QED  BY <3>1, ContainsRange DEF Exists, r
  <2> HIDE DEF title, f
  <2>7. /\ ingest' \in [Jobs -> IngestRecord]
        /\ ingest'[j] = f /\ \A k \in Jobs : k # j => ingest'[k] = ingest[k]
    BY <2>4, <2>5, OnePost DEF ContentInv
  <2>8. ContentTyped'  BY <1>1, <2>5, <2>7 DEF ContentInv, ContentTyped
  <2>9. Stored'
    <3> SUFFICES ASSUME ~past'.overlapped
                 PROVE  /\ IsInjective(store')
                        /\ \A i, k \in Running' : i = k
                        /\ \A i \in Running' : /\ IsInjective(ingest'[i].rows)
                                                /\ Range(ingest'[i].rows) \cap Range(store') = {}
      BY DEF Stored
    <3>1. ~past.overlapped  BY <1>1
    <3>2. Running' = {j}  BY <1>3, <2>4, <2>7, <3>1 DEF Running
    <3>3. IsInjective(f.rows) /\ Range(f.rows) \cap Range(store) = {}
      BY <1>3, <2>3, <2>4, <2>6, <3>1
    <3>4. IsInjective(store')  BY <1>3, <2>5, <3>1
    <3>5. QED  BY <2>5, <2>7, <3>2, <3>3, <3>4
  <2>10. QED  BY <1>2, <2>8, <2>9 DEF ContentInv
<1>5. CASE Commit(j) \/ Rollback(j)
  <2>1. ingest' = [ingest EXCEPT ![j] = NoPost] /\ NoPost \in IngestRecord /\ NoPost.at = "none"
    BY <1>5, QueuedType DEF Commit, Rollback, NoPost
  <2>2. /\ ingest' \in [Jobs -> IngestRecord]
        /\ ingest'[j] = NoPost /\ \A k \in Jobs : k # j => ingest'[k] = ingest[k]
    BY <2>1, OnePost DEF ContentInv
  <2>3. store' = store \o r.rows \/ store' = store
    BY <1>5 DEF Commit, Rollback, r
  <2>4. /\ store \o r.rows \in Seq(Titles)
        /\ IsInjective(store) /\ IsInjective(r.rows) /\ Range(store) \cap Range(r.rows) = {}
              => IsInjective(store \o r.rows)
    BY <1>0, Joined
  <2>5. ContentTyped'  BY <1>0, <1>1, <2>2, <2>3, <2>4 DEF ContentInv, ContentTyped
  <2>6. Stored'
    <3> SUFFICES ASSUME ~past'.overlapped
                 PROVE  IsInjective(store') /\ Running' = {}
      BY DEF Stored
    <3>1. ~past.overlapped  BY <1>1
    <3>2. Running' = {}  BY <1>3, <2>1, <2>2, <3>1 DEF Running
    <3>3. IsInjective(store')  BY <1>3, <2>3, <2>4, <3>1
    <3>4. QED  BY <3>2, <3>3
  <2>7. QED  BY <1>2, <2>5, <2>6 DEF ContentInv
<1>6. QED  BY <1>4, <1>5

\* At the start no job has begun.
LEMMA ContentAtFirst == AiInit => ContentInv
<1> SUFFICES ASSUME AiInit PROVE ContentInv  OBVIOUS
<1>1. /\ job = [j \in Jobs |-> Queued] /\ seen = {} /\ latest = <<>> /\ store = <<>>
      /\ ingest = [j \in Jobs |-> NoPost]
      /\ past = [trimmed |-> {}, lost |-> {}, deaths |-> 0, overlapped |-> FALSE]
  BY DEF AiInit, ContentInit
<1>2. /\ Queued \in JobRecord /\ Queued.new = <<>>
      /\ NoPost \in IngestRecord /\ NoPost.at = "none"
  BY NothingYet DEF Queued, JobRecord, NoPost, IngestRecord
<1>3. ContentTyped  BY <1>1, <1>2, NothingYet DEF ContentTyped, PastRecord
<1>4. Listed  BY <1>1, <1>2, NothingYet DEF Listed, NewsListedOnce
<1>5. Stored  BY <1>1, <1>2, NothingYet DEF Stored, Running
<1>6. QED  BY <1>3, <1>4, <1>5 DEF ContentInv

\* The invariant of the worker's jobs and of what becomes of their content.
THEOREM ContentInvariant == AiSpec => []ContentInv
<1>1. ContentInv /\ [AiNext]_aiVars => ContentInv'
  <2> SUFFICES ASSUME ContentInv, [AiNext]_aiVars PROVE ContentInv'
    OBVIOUS
  <2>1. CASE UNCHANGED contentVars
    BY <2>1 DEF contentVars, ContentInv, ContentTyped, Listed, NewsListedOnce, Stored, Running
  <2>2. ASSUME NEW j \in Jobs, JobStep(j) PROVE ContentInv'
    BY <2>2, JobAtWork, LookKept, PushKept, DieKept, PostKept, IngestKept DEF JobStep
  <2>3. QED  BY <2>1, <2>2 DEF AiNext, TimePasses, aiVars
<1>2. QED  BY <1>1, ContentAtFirst, PTL DEF AiSpec

\* However many crawls meet an article and whenever the worker dies: it is listed
\* once, and one that was marked as seen is not passed over.
THEOREM NewsIsListedOnce == AiSpec => []NewsListedOnce
<1>1. ContentInv => NewsListedOnce  BY DEF ContentInv, Listed
<1>2. QED  BY <1>1, ContentInvariant, PTL

\* However often a job is run and posted again: unless two posts ran at a time,
\* the gateway's table has no item twice.
THEOREM ItemsStoredOnce == AiSpec => []StoredOnce
<1>1. ContentInv => StoredOnce
  BY DEF ContentInv, ContentTyped, Stored, StoredOnce, ContentTypeOK, JobRecord, IngestRecord
<1>2. QED  BY <1>1, ContentInvariant, PTL
=============================================================================
