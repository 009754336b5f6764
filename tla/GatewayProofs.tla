---------------------------- MODULE GatewayProofs ----------------------------
(***************************************************************************)
(* Proofs about the services of the gateway that share no state, for any   *)
(* number of requests, contests, tabs, workers, logins, accounts and       *)
(* addresses, and any limits, windows and times.                           *)
(*                                                                         *)
(* Contests.  What an activation found in its one reading of the row is    *)
(* still true when it commits, if nobody edited the contest meanwhile: the *)
(* options are those of the row, so that a second activation picks the     *)
(* same companies and the unique index refuses it.  An edit writes back    *)
(* the record it read, which is still the record (ContestsInv).            *)
(*                                                                         *)
(* Sessions.  Whatever speaks for an account that is locked, an entry of a *)
(* cache or a query under way, is from before the lock, and whatever       *)
(* speaks against an account that is active is from before it was unlocked *)
(* (SessionsInv).  The rest is adding up: what opens or keeps a socket     *)
(* does so until Spoken after the lock, a check that is due comes within   *)
(* two heartbeats of the last, and takes as long as a query.               *)
(*                                                                         *)
(* The rate limiter.  A login that was let past the peek of a key takes a  *)
(* place there until it records its failure; hits in the window and places *)
(* taken together are never more than the limit and one place for every    *)
(* other login (KeyInv).  In Redis the counter outlives the hits it counts *)
(* (InOne); in memory, where a window does not slide, a hit lies in the    *)
(* open window or in the one before (InTwo).                               *)
(***************************************************************************)
EXTENDS Contests, Sessions, RateLimiter, FiniteSetTheorems, SequenceTheorems, TLAPS

-----------------------------------------------------------------------------
(* Contests *)

\* A row of a contest, and a request, are records of these shapes.
Row(row) == [status |-> row.status, slug |-> row.slug, owner |-> row.owner,
             options |-> row.options, content |-> row.content]

Shaped(q) == [at |-> q.at, op |-> q.op, contest |-> q.contest, row |-> q.row,
              user |-> q.user, options |-> q.options, slug |-> q.slug]

Shapes ==
    /\ contests = [c \in Contest |-> Row(contests[c])]
    /\ companies = [c \in Contest |-> companies[c]]
    /\ articles = [c \in Contest |-> [news |-> articles[c].news, social |-> articles[c].social]]
    /\ request = [r \in Request |-> Shaped(request[r])]

\* What the database and a request hold.
RowTyped(row) ==
    /\ row.status \in Statuses \cup {"none"}
    /\ row.options \in Options
    /\ row.content \in Content

Typed ==
    /\ \A c \in Contest : RowTyped(contests[c]) /\ companies[c] \subseteq Symbol
    /\ \A c \in Contest \ Existing : contests[c] = Vacant
    /\ members \subseteq Existing \X User
    /\ {mixed, forced} \subseteq SUBSET Existing

\* A contest nobody edited during an activation records nothing, or what its
\* options generate.
RecordMade ==
    \A c \in Contest \ mixed :
        contests[c].content \in {Nothing, Generated(contests[c].options)}

\* What a request has read is still so, as far as it will rely on it.
Pending(q) ==
    /\ q.op = "create" => q.options \in Options
    /\ q.op # "create" => q.contest \in Existing
    /\ q.op = "update" =>
         /\ q.options \in Options
         /\ RowTyped(q.row)
         /\ q.contest \notin mixed => q.row.content = contests[q.contest].content
    /\ q.op = "activate" =>
         /\ RowTyped(q.row)
         /\ q.contest \notin mixed => q.row.options = contests[q.contest].options
    /\ q.op = "join" =>
         /\ q.user \in User
         /\ q.contest \notin forced => companies[q.contest] # {}

ContestsInv ==
    /\ Shapes /\ Typed
    /\ RecordMade /\ RecordKept /\ OpenHasContent
    /\ Overlapping(request) \subseteq mixed
    /\ \A r \in Request : request[r].at # "idle" => Pending(request[r])

-----------------------------------------------------------------------------
\* What options generate is typed, and is never nothing.
LEMMA GeneratedFacts ==
    \A o \in Options : /\ Picked(o) \subseteq Symbol /\ Picked(o) # {}
                       /\ Generated(o) \in Content
                       /\ Generated(o) # Nothing
                       /\ Generated(o).generated
                       /\ Generated(o).symbols = Picked(o)
<1> SUFFICES ASSUME NEW o \in Options
             PROVE  /\ Picked(o) \subseteq Symbol /\ Picked(o) # {}
                    /\ Generated(o) \in Content
                    /\ Generated(o) # Nothing
                    /\ Generated(o).generated
                    /\ Generated(o).symbols = Picked(o)
  OBVIOUS
<1> DEFINE seed == Seed[o.industry]
           templates == seed \o Filler
<1>1. seed \in Seq(Symbol) /\ Filler \in Seq(Symbol) /\ o.count \in 1..(Len(seed) + Len(Filler))
  BY ContestsAssumption
<1> HIDE DEF seed
<1>2. templates \in Seq(Symbol) /\ Len(templates) = Len(seed) + Len(Filler)
  BY <1>1
<1> HIDE DEF templates
<1>3. o.count \in Nat /\ o.count >= 1 /\ o.count <= Len(templates)
  BY <1>1, <1>2
<1>4. \A i \in 1..o.count : templates[i] \in Symbol
  BY <1>2, <1>3
<1>5. Picked(o) = {templates[i] : i \in 1..o.count}
  BY DEF Picked, templates, seed
<1>6. Picked(o) \subseteq Symbol /\ Picked(o) # {}
  <2>1. 1 \in 1..o.count
    BY <1>3
  <2>2. QED
    BY <1>4, <1>5, <2>1
<1>7. NewsOf(o) \in Nat /\ PostsOf(o) \in Nat
  BY <1>3 DEF NewsOf, PostsOf
<1>8. QED
  BY <1>6, <1>7 DEF Generated, Content, Nothing

\* No contest and no request at rest is out of type.
LEMMA VacantFacts ==
    /\ RowTyped(Vacant) /\ Row(Vacant) = Vacant /\ Vacant.status = "none"
    /\ Vacant.content = Nothing /\ Nothing \in Content
    /\ Shaped(Idle) = Idle /\ Idle.at = "idle"
<1>1. Vacant.options \in Options
  BY ContestsAssumption DEF Vacant
<1>2. Nothing \in Content
  BY DEF Nothing, Content
<1>3. Vacant.status = "none" /\ Vacant.content = Nothing
  BY DEF Vacant
<1>4. Row(Vacant) = Vacant
  BY DEF Row, Vacant
<1>5. Shaped(Idle) = Idle /\ Idle.at = "idle"
  BY DEF Shaped, Idle
<1>6. QED
  BY <1>1, <1>2, <1>3, <1>4, <1>5 DEF RowTyped

\* Before the first contest nothing is recorded and nothing is promised.
THEOREM ContestsInit == Init => ContestsInv
<1> SUFFICES ASSUME Init PROVE ContestsInv
  OBVIOUS
<1>1. \A c \in Contest : /\ contests[c] = Vacant /\ companies[c] = {}
                         /\ articles[c] = [news |-> 0, social |-> 0]
  BY DEF Init
<1>2. \A r \in Request : request[r] = Idle
  BY DEF Init
<1>3. Shapes
  <2>1. contests = [c \in Contest |-> Row(contests[c])]
    BY <1>1, VacantFacts DEF Init
  <2>2. companies = [c \in Contest |-> companies[c]]
    BY DEF Init
  <2>3. articles = [c \in Contest |-> [news |-> articles[c].news, social |-> articles[c].social]]
    BY DEF Init
  <2>4. request = [r \in Request |-> Shaped(request[r])]
    BY <1>2, VacantFacts DEF Init
  <2>5. QED
    BY <2>1, <2>2, <2>3, <2>4 DEF Shapes
<1>4. Existing = {}
  BY <1>1, VacantFacts DEF Existing
<1>5. Typed
  BY <1>1, <1>4, VacantFacts DEF Typed, Init
<1>6. RecordMade /\ RecordKept /\ OpenHasContent
  BY <1>1, VacantFacts DEF RecordMade, RecordKept, OpenHasContent, Nothing, Init
<1>7. \A r \in Request : request[r].at = "idle"
  BY <1>2, VacantFacts
<1>8. Overlapping(request) = {}
  BY <1>7 DEF Overlapping
<1>9. QED
  BY <1>3, <1>5, <1>6, <1>7, <1>8 DEF ContestsInv

-----------------------------------------------------------------------------
\* What a request has read stays so while the contest keeps its record and its
\* options, or is marked as edited.
LEMMA PendingKept ==
    ASSUME NEW r \in Request, Pending(request[r]),
           request'[r].op = request[r].op, request'[r].contest = request[r].contest,
           request'[r].row = request[r].row, request'[r].user = request[r].user,
           request'[r].options = request[r].options,
           Existing \subseteq Existing', mixed \subseteq mixed', forced \subseteq forced',
           request[r].op = "join" /\ companies[request[r].contest] # {}
               => companies'[request[r].contest] # {},
           request[r].op = "update" /\ request[r].contest \notin mixed'
               => contests'[request[r].contest].content = contests[request[r].contest].content,
           request[r].op = "activate" /\ request[r].contest \notin mixed'
               => contests'[request[r].contest].options = contests[request[r].contest].options
    PROVE  Pending(request[r])'
<1> DEFINE q == request[r]
<1>1. (q.op = "create" => q.options \in Options)'
  BY DEF Pending
<1>2. (q.op # "create" => q.contest \in Existing)'
  BY DEF Pending
<1>3. (q.op = "update" =>
         /\ q.options \in Options
         /\ RowTyped(q.row)
         /\ q.contest \notin mixed => q.row.content = contests[q.contest].content)'
  BY DEF Pending, RowTyped
<1>4. (q.op = "activate" =>
         /\ RowTyped(q.row)
         /\ q.contest \notin mixed => q.row.options = contests[q.contest].options)'
  BY DEF Pending, RowTyped
<1>5. (q.op = "join" =>
         /\ q.user \in User
         /\ q.contest \notin forced => companies[q.contest] # {})'
  BY DEF Pending
<1>6. QED
  BY <1>1, <1>2, <1>3, <1>4, <1>5 DEF Pending

\* Contests are edited during an activation only by requests that were at work.
LEMMA OverlapShrinks ==
    ASSUME NEW old, NEW new,
           \A r \in Request : new[r].at # "idle" =>
               old[r].at # "idle" /\ new[r].op = old[r].op /\ new[r].contest = old[r].contest
    PROVE  Overlapping(new) \subseteq Overlapping(old)
<1> SUFFICES ASSUME NEW c \in Overlapping(new) PROVE c \in Overlapping(old)
  OBVIOUS
<1>1. c \in Contest
  BY DEF Overlapping
<1>2. ASSUME NEW ops \in {Edits, Generates}
      PROVE  \E r \in Request : old[r].at # "idle" /\ old[r].op \in ops /\ old[r].contest = c
  <2>1. PICK r \in Request : new[r].at # "idle" /\ new[r].op \in ops /\ new[r].contest = c
    BY <1>2 DEF Overlapping
  <2>2. QED
    BY <2>1
<1>3. QED
  BY <1>1, <1>2 DEF Overlapping

\* A step that leaves the tables of contests alone.
LEMMA TablesAlone ==
    ASSUME ContestsInv, UNCHANGED <<contests, companies, articles>>,
           mixed \subseteq mixed', forced' = forced,
           mixed' \subseteq Existing, members' \subseteq Existing \X User,
           \A c \in Contest \ forced : (\E u \in User : <<c, u>> \in members') => companies[c] # {}
    PROVE  /\ Existing' = Existing
           /\ Typed' /\ RecordMade' /\ RecordKept' /\ OpenHasContent'
<1>1. Existing' = Existing
  BY DEF Existing
<1>2. Typed'
  BY <1>1 DEF Typed, ContestsInv, RowTyped
<1>3. RecordMade'
  BY DEF RecordMade, ContestsInv
<1>4. RecordKept'
  BY DEF RecordKept, ContestsInv
<1>5. OpenHasContent'
  BY DEF OpenHasContent, ContestsInv
<1>6. QED
  BY <1>1, <1>2, <1>3, <1>4, <1>5

\* A request enters with what it has read.
LEMMA EnterKeeps ==
    ASSUME ContestsInv, NEW r \in Request, NEW new, Enter(r, new),
           Shaped(new) = new, Pending(new)
    PROVE  ContestsInv'
<1>1. request' = [request EXCEPT ![r] = new] /\ mixed' = mixed \cup Overlapping(request')
      /\ UNCHANGED <<contests, companies, articles, members, forced>>
  BY DEF Enter
<1>2. request = [s \in Request |-> Shaped(request[s])]
  BY DEF ContestsInv, Shapes
<1>3. request'[r] = new /\ \A s \in Request \ {r} : request'[s] = request[s]
  BY <1>1, <1>2
<1>4. \A s \in Request : request'[s].at # "idle" /\ request'[s].op \in Edits
                            => request'[s].contest \in Existing
  <2>1. \A s \in Request : request[s].at # "idle" => Pending(request[s])
    BY DEF ContestsInv
  <2>2. QED
    BY <1>3, <2>1 DEF Pending, Edits
<1>5. Overlapping(request') \subseteq Existing
  BY <1>4 DEF Overlapping
<1>6. mixed \subseteq Existing /\ members \subseteq Existing \X User
      /\ \A c \in Contest \ forced : (\E u \in User : <<c, u>> \in members) => companies[c] # {}
  BY DEF ContestsInv, Typed, OpenHasContent
<1>7. /\ Existing' = Existing
      /\ Typed' /\ RecordMade' /\ RecordKept' /\ OpenHasContent'
  BY <1>1, <1>5, <1>6, TablesAlone
<1>8. Shapes'
  <2>1. request' = [s \in Request |-> Shaped(request'[s])]
    BY <1>1, <1>2, <1>3
  <2>2. QED
    BY <1>1, <2>1 DEF Shapes, ContestsInv, Row, Shaped
<1>9. ASSUME NEW s \in Request, request'[s].at # "idle" PROVE Pending(request[s])'
  <2>1. CASE s = r
    BY <1>1, <1>3, <1>7, <2>1 DEF Pending, RowTyped
  <2>2. CASE s # r
    <3>1. request'[s] = request[s] /\ Pending(request[s])
      BY <1>3, <1>9, <2>2 DEF ContestsInv
    <3>2. QED
      BY <1>1, <1>7, <3>1, PendingKept
  <2>3. QED
    BY <2>1, <2>2
<1>10. (Overlapping(request) \subseteq mixed)'
  BY <1>1 DEF Overlapping
<1>11. QED
  BY <1>7, <1>8, <1>9, <1>10 DEF ContestsInv

\* A request that is answered, or rolled back, leaves the others as they are.
LEMMA AnswerFacts ==
    ASSUME ContestsInv, NEW r \in Request, request[r].at # "idle",
           request' = [request EXCEPT ![r] = Idle], mixed' = mixed
    PROVE  /\ Pending(request[r])
           /\ request' = [s \in Request |-> Shaped(request'[s])]
           /\ Overlapping(request') \subseteq mixed
           /\ \A s \in Request : request'[s].at # "idle" =>
                  s # r /\ request'[s] = request[s] /\ Pending(request[s])
<1>1. request = [s \in Request |-> Shaped(request[s])]
  BY DEF ContestsInv, Shapes
<1>2. request'[r] = Idle /\ \A s \in Request \ {r} : request'[s] = request[s]
  BY <1>1
<1>3. request' = [s \in Request |-> Shaped(request'[s])]
  BY <1>1, <1>2, VacantFacts
<1>4. \A s \in Request : request'[s].at # "idle" => s # r /\ request'[s] = request[s]
  BY <1>2, VacantFacts
<1>5. Overlapping(request') \subseteq Overlapping(request)
  BY <1>4, OverlapShrinks
<1>6. Overlapping(request) \subseteq mixed
      /\ \A s \in Request : request[s].at # "idle" => Pending(request[s])
  BY DEF ContestsInv
<1>7. QED
  BY <1>3, <1>4, <1>5, <1>6

\* A row is written that changes neither the record of what was generated nor
\* what it was generated from, unless the contest is marked as edited.
LEMMA RowWritten ==
    ASSUME ContestsInv, NEW c \in Contest, NEW row,
           contests' = [contests EXCEPT ![c] = row],
           Row(row) = row, RowTyped(row), row.status # "none",
           UNCHANGED <<companies, articles, members, mixed>>,
           forced' \in {forced, forced \cup {c}},
           c \notin mixed => /\ row.content = contests[c].content
                             /\ row.content = Nothing \/ row.options = contests[c].options,
           c \notin forced' /\ row.status = "active" => contests[c].status = "active"
    PROVE  /\ contests' = [d \in Contest |-> Row(contests'[d])]
           /\ contests'[c] = row /\ \A d \in Contest \ {c} : contests'[d] = contests[d]
           /\ Existing' = Existing \cup {c}
           /\ Typed' /\ RecordMade' /\ RecordKept' /\ OpenHasContent'
<1>1. contests = [d \in Contest |-> Row(contests[d])]
  BY DEF ContestsInv, Shapes
<1>2. contests'[c] = row /\ \A d \in Contest \ {c} : contests'[d] = contests[d]
  BY <1>1
<1>3. contests' = [d \in Contest |-> Row(contests'[d])]
  BY <1>1, <1>2
<1>4. Existing' = Existing \cup {c}
  BY <1>2 DEF Existing
<1>5. Typed'
  <2>1. \A d \in Contest : RowTyped(contests[d]) /\ companies[d] \subseteq Symbol
    BY DEF ContestsInv, Typed
  <2>2. (\A d \in Contest : RowTyped(contests[d]) /\ companies[d] \subseteq Symbol)'
    <3>1. \A d \in Contest : RowTyped(contests'[d])
      BY <1>2, <2>1
    <3>2. QED
      BY <2>1, <3>1 DEF RowTyped
  <2>3. (\A d \in Contest \ Existing : contests[d] = Vacant)'
    BY <1>2, <1>4 DEF ContestsInv, Typed
  <2>4. (members \subseteq Existing \X User /\ {mixed, forced} \subseteq SUBSET Existing)'
    BY <1>4 DEF ContestsInv, Typed
  <2>5. QED
    BY <2>2, <2>3, <2>4 DEF Typed
<1>6. RecordMade'
  BY <1>2 DEF RecordMade, ContestsInv
<1>7. RecordKept'
  BY <1>2 DEF RecordKept, ContestsInv
<1>8. OpenHasContent'
  BY <1>2 DEF OpenHasContent, ContestsInv
<1>9. QED
  BY <1>2, <1>3, <1>4, <1>5, <1>6, <1>7, <1>8

\* A step that writes one row and answers a request, or none.
LEMMA RequestsKept ==
    ASSUME ContestsInv,
           Typed', RecordMade', RecordKept', OpenHasContent',
           contests' = [c \in Contest |-> Row(contests'[c])],
           companies' = [c \in Contest |-> companies'[c]],
           articles' = [c \in Contest |-> [news |-> articles'[c].news,
                                           social |-> articles'[c].social]],
           request' = [s \in Request |-> Shaped(request'[s])],
           Overlapping(request') \subseteq mixed, mixed' = mixed,
           Existing \subseteq Existing', forced \subseteq forced',
           \A s \in Request : request'[s].at # "idle" =>
               /\ request'[s] = request[s] /\ Pending(request[s])
               /\ LET c == request[s].contest IN
                  /\ request[s].op = "join" /\ companies[c] # {} => companies'[c] # {}
                  /\ request[s].op = "update" /\ c \notin mixed
                        => contests'[c].content = contests[c].content
                  /\ request[s].op = "activate" /\ c \notin mixed
                        => contests'[c].options = contests[c].options
    PROVE  ContestsInv'
<1>1. Shapes'
  BY DEF Shapes, Row, Shaped
<1>2. ASSUME NEW s \in Request, request'[s].at # "idle" PROVE Pending(request[s])'
  BY <1>2, PendingKept
<1>3. (Overlapping(request) \subseteq mixed)'
  BY DEF Overlapping
<1>4. QED
  BY <1>1, <1>2, <1>3 DEF ContestsInv

\* create_contest writes a row that nobody has read yet.
LEMMA CreateStep ==
    ASSUME ContestsInv, NEW r \in Request, Create(r)
    PROVE  ContestsInv'
<1>1. /\ request[r].at # "idle" /\ request[r].op = "create"
      /\ request' = [request EXCEPT ![r] = Idle] /\ mixed' = mixed
      /\ UNCHANGED <<companies, articles, members, forced>>
  BY DEF Create, Answer
<1>2. /\ request[r].options \in Options
      /\ request' = [s \in Request |-> Shaped(request'[s])]
      /\ Overlapping(request') \subseteq mixed
      /\ \A s \in Request : request'[s].at # "idle" =>
             s # r /\ request'[s] = request[s] /\ Pending(request[s])
  BY <1>1, AnswerFacts DEF Pending
<1>3. CASE Taken(request[r].slug)
  <2>1. UNCHANGED contests
    BY <1>3 DEF Create
  <2>2. Existing' = Existing /\ Typed' /\ RecordMade' /\ RecordKept' /\ OpenHasContent'
    <3>1. mixed \subseteq Existing /\ members \subseteq Existing \X User
          /\ \A c \in Contest \ forced : (\E u \in User : <<c, u>> \in members) => companies[c] # {}
      BY DEF ContestsInv, Typed, OpenHasContent
    <3>2. QED
      BY <1>1, <2>1, <3>1, TablesAlone
  <2>3. QED
    BY <1>1, <1>2, <2>1, <2>2, RequestsKept DEF ContestsInv, Shapes
<1>4. CASE ~ Taken(request[r].slug)
  <2> DEFINE row == [status |-> "draft", slug |-> request[r].slug, owner |-> request[r].user,
                     options |-> request[r].options, content |-> Nothing]
  <2>1. PICK c \in Contest \ Existing : contests' = [contests EXCEPT ![c] = row]
    BY <1>4 DEF Create
  <2>2. Row(row) = row /\ RowTyped(row) /\ row.status = "draft" /\ row.content = Nothing
    BY <1>2, VacantFacts DEF Row, RowTyped, Statuses
  <2>3. contests[c].content = Nothing
    BY <2>1, VacantFacts DEF ContestsInv, Typed
  <2> HIDE DEF row
  <2>4. /\ contests' = [d \in Contest |-> Row(contests'[d])]
        /\ \A d \in Contest \ {c} : contests'[d] = contests[d]
        /\ Existing' = Existing \cup {c}
        /\ Typed' /\ RecordMade' /\ RecordKept' /\ OpenHasContent'
    BY <1>1, <2>1, <2>2, <2>3, RowWritten
  <2>5. \A s \in Request : request'[s].at # "idle" =>
            request[s].op = "create" \/ contests'[request[s].contest] = contests[request[s].contest]
    <3>1. \A s \in Request : request'[s].at # "idle" /\ request[s].op # "create"
                                => request[s].contest \in Existing
      BY <1>2 DEF Pending
    <3>2. QED
      BY <2>1, <2>4, <3>1 DEF Existing
  <2>6. QED
    BY <1>1, <1>2, <2>4, <2>5, RequestsKept DEF ContestsInv, Shapes
<1>5. QED
  BY <1>3, <1>4

\* What an UPDATE of one column leaves of a row.
LEMMA SetStatusOf ==
    ASSUME NEW row, Row(row) = row, NEW status
    PROVE  [row EXCEPT !.status = status]
           = [status |-> status, slug |-> row.slug, owner |-> row.owner,
              options |-> row.options, content |-> row.content]
BY DEF Row

LEMMA SetSlugOf ==
    ASSUME NEW row, Row(row) = row, NEW slug
    PROVE  [row EXCEPT !.slug = slug]
           = [status |-> row.status, slug |-> slug, owner |-> row.owner,
              options |-> row.options, content |-> row.content]
BY DEF Row

LEMMA SetOptionsOf ==
    ASSUME NEW row, Row(row) = row, NEW options
    PROVE  [row EXCEPT !.options = options]
           = [status |-> row.status, slug |-> row.slug, owner |-> row.owner,
              options |-> options, content |-> row.content]
BY DEF Row

LEMMA SetContentOf ==
    ASSUME NEW row, Row(row) = row, NEW content
    PROVE  [row EXCEPT !.content = content]
           = [status |-> row.status, slug |-> row.slug, owner |-> row.owner,
              options |-> row.options, content |-> content]
BY DEF Row

LEMMA RowOfRecord ==
    ASSUME NEW status, NEW slug, NEW owner, NEW options, NEW content,
           NEW row, row = [status |-> status, slug |-> slug, owner |-> owner,
                           options |-> options, content |-> content]
    PROVE  /\ Row(row) = row
           /\ row.status = status /\ row.slug = slug /\ row.owner = owner
           /\ row.options = options /\ row.content = content
BY DEF Row

\* update_contest writes back the record it read, which is still the record.
LEMMA UpdateStep ==
    ASSUME ContestsInv, NEW r \in Request, Update(r)
    PROVE  ContestsInv'
<1> DEFINE q == request[r]
           c == q.contest
           config == Edited(contests[c], q.row, q.options)
           slug == IF q.slug = NoSlug THEN contests[c].slug ELSE q.slug
           row == [contests[c] EXCEPT !.slug = slug,
                                      !.options = config[1], !.content = config[2]]
<1>1. /\ q.at # "idle" /\ q.op = "update"
      /\ request' = [request EXCEPT ![r] = Idle] /\ mixed' = mixed
      /\ UNCHANGED <<companies, articles, members, forced>>
  BY DEF Update, Answer
<1>2. /\ Pending(q)
      /\ request' = [s \in Request |-> Shaped(request'[s])]
      /\ Overlapping(request') \subseteq mixed
      /\ \A s \in Request : request'[s].at # "idle" =>
             s # r /\ request'[s] = request[s] /\ Pending(request[s])
  BY <1>1, AnswerFacts
<1>3. /\ c \in Contest /\ contests[c].status # "none"
      /\ q.options \in Options /\ RowTyped(q.row)
      /\ c \notin mixed => q.row.content = contests[c].content
  BY <1>1, <1>2 DEF Pending, Existing
<1>4. CASE UNCHANGED contests
  <2>1. Existing' = Existing /\ Typed' /\ RecordMade' /\ RecordKept' /\ OpenHasContent'
    <3>1. mixed \subseteq Existing /\ members \subseteq Existing \X User
          /\ \A d \in Contest \ forced : (\E u \in User : <<d, u>> \in members) => companies[d] # {}
      BY DEF ContestsInv, Typed, OpenHasContent
    <3>2. QED
      BY <1>1, <1>4, <3>1, TablesAlone
  <2>2. QED
    BY <1>1, <1>2, <1>4, <2>1, RequestsKept DEF ContestsInv, Shapes
<1>5. CASE ~ UNCHANGED contests
  <2>1. contests' = [contests EXCEPT ![c] = row]
    BY <1>5 DEF Update
  <2>2. RowTyped(contests[c]) /\ contests[c] = Row(contests[c])
    BY <1>3 DEF ContestsInv, Typed, Shapes
  <2>3. config[1] \in Options /\ config[2] \in Content
    <3>1. config \in {Config(contests[c]), <<q.options, q.row.content>>}
      BY DEF Edited, Column
    <3>2. Config(contests[c])[1] = contests[c].options
          /\ Config(contests[c])[2] = contests[c].content
      BY DEF Config
    <3>3. QED
      BY <1>3, <2>2, <3>1, <3>2 DEF RowTyped
  <2>4. c \notin mixed => /\ config[2] = contests[c].content
                          /\ config[2] = Nothing \/ config[1] = contests[c].options
    <3>1. HAVE c \notin mixed
    <3>2. contests[c].content \in {Nothing, Generated(contests[c].options)}
      BY <1>3, <3>1 DEF ContestsInv, RecordMade
    <3>3. Config(contests[c])[1] = contests[c].options
          /\ Config(contests[c])[2] = contests[c].content
      BY DEF Config
    <3>4. CASE q.row.content.generated
      BY <3>3, <3>4 DEF Edited
    <3>5. CASE ~ q.row.content.generated
      <4>1. contests[c].content = Nothing
        BY <1>3, <2>2, <3>1, <3>2, <3>5, GeneratedFacts DEF RowTyped
      <4>2. config \in {Config(contests[c]), <<q.options, q.row.content>>}
        BY DEF Edited, Column
      <4>3. QED
        BY <1>3, <3>1, <3>3, <4>1, <4>2
    <3>6. QED
      BY <3>4, <3>5
  <2> DEFINE options == config[1]
             content == config[2]
  <2> HIDE DEF slug, options, content
  <2>5. /\ row.status = contests[c].status /\ row.options = options /\ row.content = content
        /\ Row(row) = row
    <3> DEFINE old == contests[c]
    <3>1. Row(old) = old
      BY <2>2
    <3> HIDE DEF old
    <3> DEFINE one == [old EXCEPT !.slug = slug]
               two == [one EXCEPT !.options = options]
               three == [two EXCEPT !.content = content]
    <3>2. row = [old EXCEPT !.slug = slug, !.options = options, !.content = content]
      BY DEF old, options, content, slug
    <3> HIDE DEF row
    <3>3. row = three
      BY <3>2
    <3>4. one = [status |-> old.status, slug |-> slug, owner |-> old.owner,
                 options |-> old.options, content |-> old.content]
      BY <3>1, SetSlugOf
    <3> HIDE DEF one
    <3>5. two = [status |-> old.status, slug |-> slug, owner |-> old.owner,
                 options |-> options, content |-> old.content]
      <4>1. /\ Row(one) = one /\ one.status = old.status /\ one.slug = slug
            /\ one.owner = old.owner /\ one.content = old.content
        BY <3>4, RowOfRecord
      <4>2. QED
        BY <4>1, SetOptionsOf
    <3> HIDE DEF two
    <3>6. three = [status |-> old.status, slug |-> slug, owner |-> old.owner,
                   options |-> options, content |-> content]
      <4>1. /\ Row(two) = two /\ two.status = old.status /\ two.slug = slug
            /\ two.owner = old.owner /\ two.options = options
        BY <3>5, RowOfRecord
      <4>2. QED
        BY <4>1, SetContentOf
    <3> HIDE DEF three
    <3>7. QED
      BY <3>3, <3>6, RowOfRecord DEF old
  <2>6. RowTyped(row)
    BY <2>2, <2>3, <2>5 DEF RowTyped, options, content
  <2> HIDE DEF row
  <2>7. /\ contests' = [d \in Contest |-> Row(contests'[d])]
        /\ contests'[c] = row /\ \A d \in Contest \ {c} : contests'[d] = contests[d]
        /\ Existing' = Existing \cup {c}
        /\ Typed' /\ RecordMade' /\ RecordKept' /\ OpenHasContent'
    <3>1. c \notin mixed => /\ row.content = contests[c].content
                            /\ row.content = Nothing \/ row.options = contests[c].options
      BY <2>4, <2>5 DEF options, content
    <3>2. QED
      BY <1>1, <1>3, <2>1, <2>5, <2>6, <3>1, RowWritten
  <2>8. ASSUME NEW s \in Request, request'[s].at # "idle"
        PROVE  LET d == request[s].contest IN
               /\ request[s].op = "update" /\ d \notin mixed
                     => contests'[d].content = contests[d].content
               /\ request[s].op = "activate" /\ d \notin mixed
                     => contests'[d].options = contests[d].options
    <3>1. request'[s] = request[s] /\ Pending(request[s])
      BY <1>2, <2>8
    <3>2. CASE request[s].contest # c \/ c \in mixed
      <4>1. request[s].op # "create" => request[s].contest \in Contest
        BY <3>1 DEF Pending, Existing
      <4>2. QED
        BY <2>7, <3>2, <4>1
    <3>3. CASE request[s].contest = c /\ c \notin mixed
      <4>1. request[s].op = "activate" => c \in Overlapping(request)
        BY <1>1, <1>3, <2>8, <3>1, <3>3 DEF Overlapping, Edits, Generates
      <4>2. request[s].op # "activate"
        BY <3>3, <4>1 DEF ContestsInv
      <4>3. contests'[c].content = contests[c].content
        BY <2>4, <2>5, <2>7, <3>3 DEF content
      <4>4. QED
        BY <3>3, <4>2, <4>3
    <3>4. QED
      BY <3>2, <3>3
  <2>9. QED
    BY <1>1, <1>2, <2>7, <2>8, RequestsKept DEF ContestsInv, Shapes
<1>6. QED
  BY <1>4, <1>5

\* soft_delete_contest ends a contest and leaves its record.
LEMMA DeleteStep ==
    ASSUME ContestsInv, NEW r \in Request, Delete(r)
    PROVE  ContestsInv'
<1> DEFINE c == request[r].contest
           status == Column(contests[c].status, request[r].row.status, "ended")
           row == [contests[c] EXCEPT !.status = status]
<1>1. /\ request[r].at # "idle" /\ request[r].op = "delete"
      /\ request' = [request EXCEPT ![r] = Idle] /\ mixed' = mixed
      /\ UNCHANGED <<companies, articles, members, forced>>
      /\ contests' = [contests EXCEPT ![c] = row]
  BY DEF Delete, Answer
<1>2. /\ Pending(request[r])
      /\ request' = [s \in Request |-> Shaped(request'[s])]
      /\ Overlapping(request') \subseteq mixed
      /\ \A s \in Request : request'[s].at # "idle" =>
             s # r /\ request'[s] = request[s] /\ Pending(request[s])
  BY <1>1, AnswerFacts
<1>3. c \in Contest /\ contests[c].status # "none"
  BY <1>1, <1>2 DEF Pending, Existing
<1>4. RowTyped(contests[c]) /\ contests[c] = Row(contests[c])
  BY <1>3 DEF ContestsInv, Typed, Shapes
<1>5. status \in {contests[c].status, "ended"}
  BY DEF Column
<1> HIDE DEF status
<1>6. /\ row.status = status /\ row.options = contests[c].options
      /\ row.content = contests[c].content /\ Row(row) = row
  <2>1. row = [status |-> status, slug |-> contests[c].slug, owner |-> contests[c].owner,
               options |-> contests[c].options, content |-> contests[c].content]
    BY <1>4, SetStatusOf
  <2> HIDE DEF row
  <2>2. QED
    BY <2>1, RowOfRecord
<1>7. RowTyped(row) /\ row.status # "none" /\ (row.status = "active" => contests[c].status = "active")
  BY <1>3, <1>4, <1>5, <1>6 DEF RowTyped, Statuses
<1> HIDE DEF row
<1>8. /\ contests' = [d \in Contest |-> Row(contests'[d])]
      /\ contests'[c] = row /\ \A d \in Contest \ {c} : contests'[d] = contests[d]
      /\ Existing' = Existing \cup {c}
      /\ Typed' /\ RecordMade' /\ RecordKept' /\ OpenHasContent'
  BY <1>1, <1>3, <1>6, <1>7, RowWritten
<1>9. \A d \in Contest : /\ contests'[d].content = contests[d].content
                         /\ contests'[d].options = contests[d].options
  BY <1>6, <1>8
<1>10. \A s \in Request : request'[s].at # "idle" /\ request[s].op # "create"
                            => request[s].contest \in Contest
  BY <1>2 DEF Pending, Existing
<1>11. QED
  BY <1>1, <1>2, <1>8, <1>9, <1>10, RequestsKept DEF ContestsInv, Shapes

\* An administrator opens or closes a contest by hand.
LEMMA SetStatusStep ==
    ASSUME ContestsInv, SetStatus
    PROVE  ContestsInv'
<1>1. PICK c \in Existing \ forced, status \in Statuses :
        /\ contests' = [contests EXCEPT ![c].status = status]
        /\ forced' = forced \cup {c}
        /\ UNCHANGED <<companies, articles, members, request, arrived, mixed>>
  BY DEF SetStatus
<1> DEFINE row == [contests[c] EXCEPT !.status = status]
<1>2. c \in Contest /\ RowTyped(contests[c]) /\ contests[c] = Row(contests[c])
  BY DEF ContestsInv, Typed, Shapes, Existing
<1>3. /\ row.status = status /\ row.options = contests[c].options
      /\ row.content = contests[c].content /\ Row(row) = row
  <2>1. row = [status |-> status, slug |-> contests[c].slug, owner |-> contests[c].owner,
               options |-> contests[c].options, content |-> contests[c].content]
    BY <1>2, SetStatusOf
  <2> HIDE DEF row
  <2>2. QED
    BY <2>1, RowOfRecord
<1>4. RowTyped(row) /\ row.status # "none"
  BY <1>2, <1>3 DEF RowTyped, Statuses
<1>5. contests' = [contests EXCEPT ![c] = row]
  BY <1>1
<1> HIDE DEF row
<1>6. /\ contests' = [d \in Contest |-> Row(contests'[d])]
      /\ contests'[c] = row /\ \A d \in Contest \ {c} : contests'[d] = contests[d]
      /\ Existing' = Existing \cup {c}
      /\ Typed' /\ RecordMade' /\ RecordKept' /\ OpenHasContent'
  BY <1>1, <1>2, <1>3, <1>4, <1>5, RowWritten
<1>7. \A d \in Contest : /\ contests'[d].content = contests[d].content
                         /\ contests'[d].options = contests[d].options
  BY <1>3, <1>6
<1>8. \A s \in Request : request[s].at # "idle" =>
          Pending(request[s]) /\ (request[s].op # "create" => request[s].contest \in Contest)
  BY DEF ContestsInv, Pending, Existing
<1>9. Overlapping(request') \subseteq mixed
  BY <1>1 DEF ContestsInv
<1>10. QED
  BY <1>1, <1>6, <1>7, <1>8, <1>9, RequestsKept DEF ContestsInv, Shapes

\* join_contest adds a member to a contest that had companies when it looked.
LEMMA JoinStep ==
    ASSUME ContestsInv, NEW r \in Request, Join(r)
    PROVE  ContestsInv'
<1>1. /\ request[r].at # "idle" /\ request[r].op = "join"
      /\ request' = [request EXCEPT ![r] = Idle] /\ mixed' = mixed
      /\ UNCHANGED <<contests, companies, articles, forced>>
      /\ members' = members \cup {<<request[r].contest, request[r].user>>}
  BY DEF Join, Answer
<1>2. /\ Pending(request[r])
      /\ request' = [s \in Request |-> Shaped(request'[s])]
      /\ Overlapping(request') \subseteq mixed
      /\ \A s \in Request : request'[s].at # "idle" =>
             s # r /\ request'[s] = request[s] /\ Pending(request[s])
  BY <1>1, AnswerFacts
<1>3. /\ request[r].contest \in Existing /\ request[r].user \in User
      /\ request[r].contest \notin forced => companies[request[r].contest] # {}
  BY <1>1, <1>2 DEF Pending
<1>4. mixed \subseteq Existing /\ members \subseteq Existing \X User
      /\ \A c \in Contest \ forced : (\E u \in User : <<c, u>> \in members) => companies[c] # {}
  BY DEF ContestsInv, Typed, OpenHasContent
<1>5. members' \subseteq Existing \X User
  BY <1>1, <1>3, <1>4
<1>6. ASSUME NEW c \in Contest \ forced, NEW u \in User, <<c, u>> \in members'
      PROVE  companies[c] # {}
  <2>1. CASE <<c, u>> \in members
    BY <1>4, <2>1
  <2>2. CASE <<c, u>> = <<request[r].contest, request[r].user>>
    BY <1>3, <2>2
  <2>3. QED
    BY <1>1, <1>6, <2>1, <2>2
<1>7. Existing' = Existing /\ Typed' /\ RecordMade' /\ RecordKept' /\ OpenHasContent'
  BY <1>1, <1>4, <1>5, <1>6, TablesAlone
<1>8. QED
  BY <1>1, <1>2, <1>7, RequestsKept DEF ContestsInv, Shapes

\* What an activation adds to the counts of articles.
LEMMA SetNewsOf ==
    ASSUME NEW counts, counts = [news |-> counts.news, social |-> counts.social], NEW news
    PROVE  [counts EXCEPT !.news = news] = [news |-> news, social |-> counts.social]
OBVIOUS

LEMMA SetSocialOf ==
    ASSUME NEW counts, counts = [news |-> counts.news, social |-> counts.social], NEW social
    PROVE  [counts EXCEPT !.social = social] = [news |-> counts.news, social |-> social]
OBVIOUS

\* generate_content: a contest nobody edited meanwhile had no companies, for the
\* options that were read are its options, which would pick the same again.
LEMMA ActivateStep ==
    ASSUME ContestsInv, NEW r \in Request, Activate(r)
    PROVE  ContestsInv'
<1> DEFINE q == request[r]
           c == q.contest
           content == Generated(q.row.options)
           status == Column(contests[c].status, q.row.status, "active")
           row == [contests[c] EXCEPT !.status = status, !.options = q.row.options,
                                      !.content = content]
           counts == [articles[c] EXCEPT !.news = @ + content.news,
                                         !.social = @ + content.social]
<1>1. /\ q.at # "idle" /\ q.op = "activate"
      /\ request' = [request EXCEPT ![r] = Idle] /\ mixed' = mixed
      /\ UNCHANGED <<members, forced>>
  BY DEF Activate, Answer
<1>2. /\ Pending(q)
      /\ request' = [s \in Request |-> Shaped(request'[s])]
      /\ Overlapping(request') \subseteq mixed
      /\ \A s \in Request : request'[s].at # "idle" =>
             s # r /\ request'[s] = request[s] /\ Pending(request[s])
  BY <1>1, AnswerFacts
<1>3. /\ c \in Contest /\ contests[c].status # "none" /\ c \in Existing
      /\ RowTyped(q.row)
      /\ c \notin mixed => q.row.options = contests[c].options
  BY <1>1, <1>2 DEF Pending, Existing
<1>4. CASE UNCHANGED <<contests, companies, articles>>
  <2>1. Existing' = Existing /\ Typed' /\ RecordMade' /\ RecordKept' /\ OpenHasContent'
    <3>1. mixed \subseteq Existing /\ members \subseteq Existing \X User
          /\ \A d \in Contest \ forced : (\E u \in User : <<d, u>> \in members) => companies[d] # {}
      BY DEF ContestsInv, Typed, OpenHasContent
    <3>2. QED
      BY <1>1, <1>4, <3>1, TablesAlone
  <2>2. QED
    BY <1>1, <1>2, <1>4, <2>1, RequestsKept DEF ContestsInv, Shapes
<1>5. CASE ~ UNCHANGED <<contests, companies, articles>>
  <2>1. /\ contests' = [contests EXCEPT ![c] = row]
        /\ companies' = [companies EXCEPT ![c] = @ \cup content.symbols]
        /\ articles' = [articles EXCEPT ![c] = counts]
        /\ ~ Collides(c, content.symbols)
    BY <1>5 DEF Activate
  <2>2. /\ content \in Content /\ content.symbols # {} /\ content.symbols \subseteq Symbol
        /\ content.news \in Nat /\ content.social \in Nat
    BY <1>3, GeneratedFacts DEF RowTyped, Content
  <2>3. /\ RowTyped(contests[c]) /\ Row(contests[c]) = contests[c]
        /\ articles[c] = [news |-> articles[c].news, social |-> articles[c].social]
        /\ contests = [d \in Contest |-> Row(contests[d])]
        /\ companies = [d \in Contest |-> companies[d]]
        /\ articles = [d \in Contest |-> [news |-> articles[d].news, social |-> articles[d].social]]
    BY <1>3 DEF ContestsInv, Typed, Shapes
  <2>4. c \notin mixed => companies[c] = {} /\ articles[c] = [news |-> 0, social |-> 0]
    <3>1. HAVE c \notin mixed
    <3>2. /\ contests[c].content \in {Nothing, content}
          /\ companies[c] = contests[c].content.symbols
          /\ articles[c] = [news |-> contests[c].content.news, social |-> contests[c].content.social]
      BY <1>3, <3>1 DEF ContestsInv, RecordMade, RecordKept
    <3>3. contests[c].content # content
      BY <2>1, <2>2, <3>2 DEF Collides
    <3>4. QED
      BY <3>2, <3>3 DEF Nothing
  <2>5. /\ status \in {contests[c].status, "active"} /\ status \in Statuses
    BY <1>3, <2>3 DEF Column, RowTyped, Statuses
  <2> DEFINE options == q.row.options
             old == contests[c]
  <2> HIDE DEF status, content, options
  <2>6. /\ Row(row) = row /\ row.status = status /\ row.options = options
        /\ row.content = content
    <3>1. Row(old) = old
      BY <2>3
    <3> HIDE DEF old
    <3> DEFINE one == [old EXCEPT !.status = status]
               two == [one EXCEPT !.options = options]
               three == [two EXCEPT !.content = content]
    <3>2. row = [old EXCEPT !.status = status, !.options = options, !.content = content]
      BY DEF old, options
    <3> HIDE DEF row
    <3>3. row = three
      BY <3>2
    <3>4. one = [status |-> status, slug |-> old.slug, owner |-> old.owner,
                 options |-> old.options, content |-> old.content]
      BY <3>1, SetStatusOf
    <3> HIDE DEF one
    <3>5. two = [status |-> status, slug |-> old.slug, owner |-> old.owner,
                 options |-> options, content |-> old.content]
      <4>1. /\ Row(one) = one /\ one.status = status /\ one.slug = old.slug
            /\ one.owner = old.owner /\ one.content = old.content
        BY <3>4, RowOfRecord
      <4>2. QED
        BY <4>1, SetOptionsOf
    <3> HIDE DEF two
    <3>6. three = [status |-> status, slug |-> old.slug, owner |-> old.owner,
                   options |-> options, content |-> content]
      <4>1. /\ Row(two) = two /\ two.status = status /\ two.slug = old.slug
            /\ two.owner = old.owner /\ two.options = options
        BY <3>5, RowOfRecord
      <4>2. QED
        BY <4>1, SetContentOf
    <3> HIDE DEF three
    <3>7. QED
      BY <3>3, <3>6, RowOfRecord
  <2>7. counts = [news |-> articles[c].news + content.news,
                  social |-> articles[c].social + content.social]
    <3> DEFINE held == articles[c]
               news == held.news + content.news
               social == held.social + content.social
               one == [held EXCEPT !.news = news]
               two == [one EXCEPT !.social = social]
    <3>1. held = [news |-> held.news, social |-> held.social]
      BY <2>3
    <3>2. counts = [held EXCEPT !.news = news, !.social = social]
      OBVIOUS
    <3> HIDE DEF held, news, social
    <3> HIDE DEF counts
    <3>3. counts = two
      BY <3>2
    <3>4. one = [news |-> news, social |-> held.social]
      BY <3>1, SetNewsOf
    <3> HIDE DEF one
    <3>5. one.news = news /\ one = [news |-> one.news, social |-> one.social]
      BY <3>4
    <3>6. two = [news |-> news, social |-> social]
      BY <3>5, SetSocialOf
    <3>7. QED
      BY <3>3, <3>6 DEF news, social, held
  <2>8. c \notin mixed => counts = [news |-> content.news, social |-> content.social]
    BY <2>2, <2>4, <2>7
  <2>9. counts = [news |-> counts.news, social |-> counts.social]
    BY <2>7
  <2> HIDE DEF row, counts
  <2>10. /\ contests'[c] = row /\ \A d \in Contest \ {c} : contests'[d] = contests[d]
         /\ companies'[c] = companies[c] \cup content.symbols
         /\ \A d \in Contest \ {c} : companies'[d] = companies[d]
         /\ articles'[c] = counts /\ \A d \in Contest \ {c} : articles'[d] = articles[d]
    BY <1>3, <2>1, <2>3
  <2>11. Existing' = Existing
    BY <1>3, <2>5, <2>6, <2>10 DEF Existing, Statuses
  <2>12. contests' = [d \in Contest |-> Row(contests'[d])]
    BY <2>1, <2>3, <2>6, <2>10
  <2>13. companies' = [d \in Contest |-> companies'[d]]
    BY <2>1, <2>3
  <2>14. articles' = [d \in Contest |-> [news |-> articles'[d].news, social |-> articles'[d].social]]
    <3>1. \A d \in Contest : articles'[d] = [news |-> articles'[d].news,
                                              social |-> articles'[d].social]
      <4> SUFFICES ASSUME NEW d \in Contest
                   PROVE  articles'[d] = [news |-> articles'[d].news,
                                          social |-> articles'[d].social]
        OBVIOUS
      <4>1. CASE d = c
        BY <2>9, <2>10, <4>1
      <4>2. CASE d # c
        <5>1. articles[d] = [news |-> articles[d].news, social |-> articles[d].social]
          BY <2>3
        <5>2. QED
          BY <2>10, <4>2, <5>1
      <4>3. QED
        BY <4>1, <4>2
    <3>2. articles' = [d \in Contest |-> articles'[d]]
      BY <2>1, <2>3
    <3> DEFINE now2 == articles'
    <3> HIDE DEF now2
    <3>3. now2 = [d \in Contest |-> now2[d]]
          /\ \A d \in Contest : now2[d] = [news |-> now2[d].news, social |-> now2[d].social]
      BY <3>1, <3>2 DEF now2
    <3>4. now2 = [d \in Contest |-> [news |-> now2[d].news, social |-> now2[d].social]]
      BY <3>3
    <3>5. QED
      BY <3>4 DEF now2
  <2>15. Typed'
    <3>1. \A d \in Contest : RowTyped(contests[d]) /\ companies[d] \subseteq Symbol
      BY DEF ContestsInv, Typed
    <3>2. RowTyped(row)
      BY <1>3, <2>2, <2>5, <2>6 DEF RowTyped, options
    <3>3. \A d \in Contest : RowTyped(contests'[d]) /\ companies'[d] \subseteq Symbol
      BY <2>2, <2>10, <3>1, <3>2
    <3>4. (\A d \in Contest : RowTyped(contests[d]) /\ companies[d] \subseteq Symbol)'
      BY <3>3 DEF RowTyped
    <3>5. (\A d \in Contest \ Existing : contests[d] = Vacant)'
      BY <1>3, <2>10, <2>11 DEF ContestsInv, Typed
    <3>6. (members \subseteq Existing \X User /\ {mixed, forced} \subseteq SUBSET Existing)'
      BY <1>1, <2>11 DEF ContestsInv, Typed
    <3>7. QED
      BY <3>4, <3>5, <3>6 DEF Typed
  <2>16. RecordMade'
    BY <1>1, <2>6, <2>10 DEF RecordMade, ContestsInv, content, options
  <2>17. RecordKept'
    <3>1. ASSUME NEW d \in Contest \ mixed
          PROVE  /\ companies'[d] = contests'[d].content.symbols
                 /\ articles'[d] = [news |-> contests'[d].content.news,
                                    social |-> contests'[d].content.social]
      <4>1. CASE d = c
        <5>1. contests'[d].content = row.content /\ companies'[d] = companies[c] \cup content.symbols
              /\ articles'[d] = counts
          BY <2>10, <4>1
        <5>2. companies[c] = {}
          BY <2>4, <4>1
        <5>3. row.content = content
          BY <2>6
        <5>4. counts = [news |-> content.news, social |-> content.social]
          BY <2>8, <4>1
        <5> HIDE DEF content
        <5>5. companies[c] \cup content.symbols = content.symbols
          BY <5>2
        <5>6. QED
          BY <5>1, <5>3, <5>4, <5>5
      <4>2. CASE d # c
        <5>1. /\ companies[d] = contests[d].content.symbols
              /\ articles[d] = [news |-> contests[d].content.news,
                                social |-> contests[d].content.social]
          BY DEF RecordKept, ContestsInv
        <5>2. QED
          BY <2>10, <4>2, <5>1
      <4>3. QED
        BY <4>1, <4>2
    <3>2. mixed' = mixed
      BY <1>1
    <3>3. QED
      BY <3>1, <3>2 DEF RecordKept
  <2>18. OpenHasContent'
    BY <1>1, <2>2, <2>10 DEF OpenHasContent, ContestsInv
  <2>19. ASSUME NEW s \in Request, request'[s].at # "idle"
         PROVE  LET d == request[s].contest IN
                /\ request[s].op = "join" /\ companies[d] # {} => companies'[d] # {}
                /\ request[s].op = "update" /\ d \notin mixed
                      => contests'[d].content = contests[d].content
                /\ request[s].op = "activate" /\ d \notin mixed
                      => contests'[d].options = contests[d].options
    <3>1. request'[s] = request[s] /\ Pending(request[s])
      BY <1>2, <2>19
    <3>2. \A d \in Contest : companies[d] # {} => companies'[d] # {}
      BY <2>10
    <3>3. CASE request[s].contest # c \/ c \in mixed
      <4>1. request[s].op # "create" => request[s].contest \in Contest
        BY <3>1 DEF Pending, Existing
      <4>2. QED
        BY <2>10, <3>2, <3>3, <4>1
    <3>4. CASE request[s].contest = c /\ c \notin mixed
      <4>1. request[s].op = "update" => c \in Overlapping(request)
        BY <1>1, <1>3, <2>19, <3>1, <3>4 DEF Overlapping, Edits, Generates
      <4>2. request[s].op # "update"
        BY <3>4, <4>1 DEF ContestsInv
      <4>3. contests'[c].options = contests[c].options
        BY <1>3, <2>6, <2>10, <3>4 DEF options
      <4>4. companies[c] # {} => companies'[c] # {}
        BY <1>3, <3>2
      <4>5. QED
        BY <3>4, <4>2, <4>3, <4>4
    <3>5. QED
      BY <3>3, <3>4
  <2>20. QED
    BY <1>1, <1>2, <2>11, <2>12, <2>13, <2>14, <2>15, <2>16, <2>17, <2>18, <2>19, RequestsKept
<1>6. QED
  BY <1>4, <1>5

\* A transaction that fails leaves the tables as they were.
LEMMA RollBackStep ==
    ASSUME ContestsInv, NEW r \in Request, RollBack(r)
    PROVE  ContestsInv'
<1>1. /\ request[r].at # "idle"
      /\ request' = [request EXCEPT ![r] = Idle] /\ mixed' = mixed
      /\ UNCHANGED <<contests, companies, articles, members, forced>>
  BY DEF RollBack
<1>2. /\ request' = [s \in Request |-> Shaped(request'[s])]
      /\ Overlapping(request') \subseteq mixed
      /\ \A s \in Request : request'[s].at # "idle" =>
             s # r /\ request'[s] = request[s] /\ Pending(request[s])
  BY <1>1, AnswerFacts
<1>3. mixed \subseteq Existing /\ members \subseteq Existing \X User
      /\ \A c \in Contest \ forced : (\E u \in User : <<c, u>> \in members) => companies[c] # {}
  BY DEF ContestsInv, Typed, OpenHasContent
<1>4. Existing' = Existing /\ Typed' /\ RecordMade' /\ RecordKept' /\ OpenHasContent'
  BY <1>1, <1>3, TablesAlone
<1>5. QED
  BY <1>1, <1>2, <1>4, RequestsKept DEF ContestsInv, Shapes

\* What a request becomes when one of its fields is set.
LEMMA RequestAt ==
    ASSUME NEW q, Shaped(q) = q, NEW v, NEW new, new = [q EXCEPT !.at = v]
    PROVE  /\ Shaped(new) = new
           /\ new.at = v
           /\ new.op = q.op /\ new.contest = q.contest /\ new.row = q.row
           /\ new.user = q.user /\ new.options = q.options /\ new.slug = q.slug
BY DEF Shaped

LEMMA RequestOp ==
    ASSUME NEW q, Shaped(q) = q, NEW v, NEW new, new = [q EXCEPT !.op = v]
    PROVE  /\ Shaped(new) = new
           /\ new.op = v
           /\ new.at = q.at /\ new.contest = q.contest /\ new.row = q.row
           /\ new.user = q.user /\ new.options = q.options /\ new.slug = q.slug
BY DEF Shaped

LEMMA RequestContest ==
    ASSUME NEW q, Shaped(q) = q, NEW v, NEW new, new = [q EXCEPT !.contest = v]
    PROVE  /\ Shaped(new) = new
           /\ new.contest = v
           /\ new.at = q.at /\ new.op = q.op /\ new.row = q.row
           /\ new.user = q.user /\ new.options = q.options /\ new.slug = q.slug
BY DEF Shaped

LEMMA RequestRow ==
    ASSUME NEW q, Shaped(q) = q, NEW v, NEW new, new = [q EXCEPT !.row = v]
    PROVE  /\ Shaped(new) = new
           /\ new.row = v
           /\ new.at = q.at /\ new.op = q.op /\ new.contest = q.contest
           /\ new.user = q.user /\ new.options = q.options /\ new.slug = q.slug
BY DEF Shaped

LEMMA RequestUser ==
    ASSUME NEW q, Shaped(q) = q, NEW v, NEW new, new = [q EXCEPT !.user = v]
    PROVE  /\ Shaped(new) = new
           /\ new.user = v
           /\ new.at = q.at /\ new.op = q.op /\ new.contest = q.contest
           /\ new.row = q.row /\ new.options = q.options /\ new.slug = q.slug
BY DEF Shaped

LEMMA RequestOptions ==
    ASSUME NEW q, Shaped(q) = q, NEW v, NEW new, new = [q EXCEPT !.options = v]
    PROVE  /\ Shaped(new) = new
           /\ new.options = v
           /\ new.at = q.at /\ new.op = q.op /\ new.contest = q.contest
           /\ new.row = q.row /\ new.user = q.user /\ new.slug = q.slug
BY DEF Shaped

LEMMA RequestSlug ==
    ASSUME NEW q, Shaped(q) = q, NEW v, NEW new, new = [q EXCEPT !.slug = v]
    PROVE  /\ Shaped(new) = new
           /\ new.slug = v
           /\ new.at = q.at /\ new.op = q.op /\ new.contest = q.contest
           /\ new.row = q.row /\ new.user = q.user /\ new.options = q.options
BY DEF Shaped

\* unique_slug tries one candidate after the other.
LEMMA TrySlugStep ==
    ASSUME ContestsInv, NEW r \in Request, TrySlug(r)
    PROVE  ContestsInv'
<1> DEFINE q == request[r]
           slug == [q.slug EXCEPT ![2] = @ + 1]
           new == IF Taken(q.slug) THEN [q EXCEPT !.slug = slug] ELSE [q EXCEPT !.at = "write"]
<1>1. /\ q.at = "slug"
      /\ request' = [request EXCEPT ![r] = new]
      /\ UNCHANGED <<contests, companies, articles, members, mixed, forced>>
  <2>1. /\ q.at = "slug"
        /\ request' = [request EXCEPT
               ![r] = IF Taken(q.slug) THEN [q EXCEPT !.slug[2] = @ + 1]
                                       ELSE [q EXCEPT !.at = "write"]]
        /\ UNCHANGED <<contests, companies, articles, members, mixed, forced>>
    BY DEF TrySlug
  <2>2. new = IF Taken(q.slug) THEN [q EXCEPT !.slug[2] = @ + 1] ELSE [q EXCEPT !.at = "write"]
    OBVIOUS
  <2>3. QED
    BY <2>1, <2>2
<1>2. request = [s \in Request |-> Shaped(request[s])] /\ Shaped(q) = q
  BY DEF ContestsInv, Shapes
<1>3. new = [q EXCEPT !.slug = slug] \/ new = [q EXCEPT !.at = "write"]
  OBVIOUS
<1> HIDE DEF new, slug
<1>4. /\ Shaped(new) = new /\ new.op = q.op /\ new.contest = q.contest /\ new.row = q.row
      /\ new.user = q.user /\ new.options = q.options
  <2>1. CASE new = [q EXCEPT !.slug = slug]
    BY <1>2, <2>1 DEF Shaped
  <2>2. CASE new = [q EXCEPT !.at = "write"]
    BY <1>2, <2>2 DEF Shaped
  <2>3. QED
    BY <1>3, <2>1, <2>2
<1>5. request'[r] = new /\ \A s \in Request \ {r} : request'[s] = request[s]
  BY <1>1, <1>2
<1>6. request' = [s \in Request |-> Shaped(request'[s])]
  BY <1>1, <1>2, <1>4, <1>5
<1>7. \A s \in Request : request'[s].at # "idle" =>
          /\ request[s].at # "idle" /\ Pending(request[s])
          /\ request'[s].op = request[s].op /\ request'[s].contest = request[s].contest
          /\ request'[s].row = request[s].row /\ request'[s].user = request[s].user
          /\ request'[s].options = request[s].options
  BY <1>1, <1>4, <1>5 DEF ContestsInv
<1>8. Overlapping(request') \subseteq mixed
  <2>1. Overlapping(request') \subseteq Overlapping(request)
    BY <1>7, OverlapShrinks
  <2>2. QED
    BY <2>1 DEF ContestsInv
<1>9. mixed \subseteq Existing /\ members \subseteq Existing \X User
      /\ \A c \in Contest \ forced : (\E u \in User : <<c, u>> \in members) => companies[c] # {}
  BY DEF ContestsInv, Typed, OpenHasContent
<1>10. Existing' = Existing /\ Typed' /\ RecordMade' /\ RecordKept' /\ OpenHasContent'
  BY <1>1, <1>9, TablesAlone
<1>11. Shapes'
  BY <1>1, <1>6 DEF Shapes, ContestsInv, Row, Shaped
<1>12. ASSUME NEW s \in Request, request'[s].at # "idle" PROVE Pending(request[s])'
  BY <1>1, <1>7, <1>10, <1>12, PendingKept
<1>13. (Overlapping(request) \subseteq mixed)'
  BY <1>1, <1>8 DEF Overlapping
<1>14. QED
  BY <1>10, <1>11, <1>12, <1>13 DEF ContestsInv

\* A request about a contest, as its endpoint has loaded it.
LEMMA AsksFacts ==
    ASSUME NEW op, NEW c
    PROVE  /\ Shaped(Asks(op, c)) = Asks(op, c)
           /\ Asks(op, c).op = op /\ Asks(op, c).contest = c /\ Asks(op, c).row = contests[c]
<1> DEFINE one == [Idle EXCEPT !.at = "write"]
           two == [one EXCEPT !.op = op]
           three == [two EXCEPT !.contest = c]
           four == [three EXCEPT !.row = contests[c]]
<1>1. Asks(op, c) = four
  BY DEF Asks
<1>2. Shaped(one) = one
  BY VacantFacts, RequestAt
<1> HIDE DEF one
<1>3. Shaped(two) = two /\ two.op = op
  BY <1>2, RequestOp
<1> HIDE DEF two
<1>4. Shaped(three) = three /\ three.op = op /\ three.contest = c
  BY <1>3, RequestContest
<1> HIDE DEF three
<1>5. Shaped(four) = four /\ four.op = op /\ four.contest = c /\ four.row = contests[c]
  BY <1>4, RequestRow
<1> HIDE DEF four
<1>6. QED
  BY <1>1, <1>5

\* What an edit relies on is what it has read, unless it meets an activation.
LEMMA UpdateReads ==
    ASSUME ContestsInv, NEW c \in Existing, NEW q,
           q.op = "update", q.contest = c, q.row = contests[c], q.options \in Options
    PROVE  Pending(q)
<1>1. c \in Contest
  BY DEF Existing
<1>2. RowTyped(contests[c])
  BY <1>1 DEF ContestsInv, Typed
<1>3. QED
  BY <1>2 DEF Pending

\* What the endpoints load is what the row holds.
LEMMA AskStep ==
    ASSUME ContestsInv, NEW r \in Request, Ask(r)
    PROVE  ContestsInv'
<1>1. CASE AskCreate(r)
  <2>1. PICK user \in Hosting, base \in Base, o \in Options :
          Enter(r, [Idle EXCEPT !.at = "slug", !.op = "create", !.user = user,
                                !.options = o, !.slug = <<base, 1>>])
    BY <1>1 DEF AskCreate
  <2> DEFINE one == [Idle EXCEPT !.at = "slug"]
             two == [one EXCEPT !.op = "create"]
             three == [two EXCEPT !.user = user]
             four == [three EXCEPT !.options = o]
             five == [four EXCEPT !.slug = <<base, 1>>]
  <2>2. Enter(r, five)
    BY <2>1
  <2>3. Shaped(one) = one
    BY VacantFacts, RequestAt
  <2> HIDE DEF one
  <2>4. Shaped(two) = two /\ two.op = "create"
    BY <2>3, RequestOp
  <2> HIDE DEF two
  <2>5. Shaped(three) = three /\ three.op = "create"
    BY <2>4, RequestUser
  <2> HIDE DEF three
  <2>6. Shaped(four) = four /\ four.op = "create" /\ four.options = o
    BY <2>5, RequestOptions
  <2> HIDE DEF four
  <2>7. Shaped(five) = five /\ five.op = "create" /\ five.options = o
    BY <2>6, RequestSlug
  <2> HIDE DEF five
  <2>8. Pending(five)
    BY <2>7 DEF Pending
  <2>9. QED
    BY <2>2, <2>7, <2>8, EnterKeeps
<1>2. CASE AskUpdate(r)
  <2>1. PICK c \in Existing, o \in Options :
          \/ Enter(r, [Asks("update", c) EXCEPT !.options = o])
          \/ \E base \in Base :
                Enter(r, [Asks("update", c) EXCEPT !.at = "slug", !.options = o,
                                                   !.slug = <<base, 1>>])
    BY <1>2 DEF AskUpdate
  <2> DEFINE q == Asks("update", c)
  <2>2. Shaped(q) = q /\ q.op = "update" /\ q.contest = c /\ q.row = contests[c]
    BY AsksFacts
  <2> HIDE DEF q
  <2>3. CASE Enter(r, [Asks("update", c) EXCEPT !.options = o])
    <3> DEFINE new == [q EXCEPT !.options = o]
    <3>1. Enter(r, new)
      BY <2>3 DEF q
    <3>2. /\ Shaped(new) = new /\ new.op = "update" /\ new.contest = c
          /\ new.row = contests[c] /\ new.options = o
      BY <2>2, RequestOptions
    <3> HIDE DEF new
    <3>3. Pending(new)
      BY <3>2, UpdateReads
    <3>4. QED
      BY <3>1, <3>2, <3>3, EnterKeeps
  <2>4. ASSUME NEW base \in Base,
               Enter(r, [Asks("update", c) EXCEPT !.at = "slug", !.options = o,
                                                  !.slug = <<base, 1>>])
        PROVE  ContestsInv'
    <3> DEFINE one == [q EXCEPT !.at = "slug"]
               two == [one EXCEPT !.options = o]
               new == [two EXCEPT !.slug = <<base, 1>>]
    <3>1. Enter(r, new)
      BY <2>4 DEF q
    <3>2. /\ Shaped(one) = one /\ one.op = "update" /\ one.contest = c
          /\ one.row = contests[c]
      BY <2>2, RequestAt
    <3> HIDE DEF one
    <3>3. /\ Shaped(two) = two /\ two.op = "update" /\ two.contest = c
          /\ two.row = contests[c] /\ two.options = o
      BY <3>2, RequestOptions
    <3> HIDE DEF two
    <3>4. /\ Shaped(new) = new /\ new.op = "update" /\ new.contest = c
          /\ new.row = contests[c] /\ new.options = o
      BY <3>3, RequestSlug
    <3> HIDE DEF new
    <3>5. Pending(new)
      BY <3>4, UpdateReads
    <3>6. QED
      BY <3>1, <3>4, <3>5, EnterKeeps
  <2>5. QED
    BY <2>1, <2>3, <2>4
<1>3. CASE AskManager(r)
  <2>1. PICK c \in Existing, op \in {"delete", "activate"} : Enter(r, Asks(op, c))
    BY <1>3 DEF AskManager
  <2> DEFINE q == Asks(op, c)
  <2>2. Shaped(q) = q /\ q.op = op /\ q.contest = c /\ q.row = contests[c]
    BY AsksFacts
  <2>3. RowTyped(contests[c])
    BY DEF ContestsInv, Typed, Existing
  <2> HIDE DEF q
  <2>4. Pending(q)
    BY <2>2, <2>3 DEF Pending
  <2>5. QED
    BY <2>1, <2>2, <2>4, EnterKeeps DEF q
<1>4. CASE AskJoin(r)
  <2>1. PICK c \in Existing, user \in User :
          MayJoin(contests[c]) /\ Enter(r, [Asks("join", c) EXCEPT !.user = user])
    BY <1>4 DEF AskJoin
  <2> DEFINE q == Asks("join", c)
             new == [q EXCEPT !.user = user]
  <2>2. Enter(r, new)
    BY <2>1
  <2>3. Shaped(q) = q /\ q.op = "join" /\ q.contest = c
    BY AsksFacts
  <2> HIDE DEF q
  <2>4. Shaped(new) = new /\ new.op = "join" /\ new.contest = c /\ new.user = user
    BY <2>3, RequestUser
  <2> HIDE DEF new
  <2>5. c \notin forced => companies[c] # {}
    BY <2>1 DEF ContestsInv, OpenHasContent, MayJoin, Existing
  <2>6. Pending(new)
    BY <2>4, <2>5 DEF Pending
  <2>7. QED
    BY <2>2, <2>4, <2>6, EnterKeeps
<1>5. QED
  BY <1>1, <1>2, <1>3, <1>4 DEF Ask

\* Every step of the requests and of the administrator keeps the invariant.
THEOREM ContestsStep == ContestsInv /\ [Next]_vars => ContestsInv'
<1> SUFFICES ASSUME ContestsInv, [Next]_vars PROVE ContestsInv'
  OBVIOUS
<1>1. CASE \E r \in Request : Ask(r)
  BY <1>1, AskStep
<1>2. CASE \E r \in Request : TrySlug(r) \/ RollBack(r)
  BY <1>2, TrySlugStep, RollBackStep
<1>3. CASE \E r \in Request : Create(r) \/ Update(r) \/ Delete(r) \/ Join(r) \/ Activate(r)
  BY <1>3, CreateStep, UpdateStep, DeleteStep, JoinStep, ActivateStep
<1>4. CASE SetStatus
  BY <1>4, SetStatusStep
<1>5. CASE UNCHANGED vars
  <2>1. UNCHANGED <<contests, companies, articles, members, request, mixed, forced>>
    BY <1>5 DEF vars
  <2>2. Existing' = Existing
    BY <2>1 DEF Existing
  <2>3. \A r \in Request : request[r].at # "idle" => Pending(request[r])'
    BY <2>1, <2>2 DEF ContestsInv, Pending, RowTyped
  <2>4. Shapes'
    BY <2>1 DEF ContestsInv, Shapes, Row, Shaped
  <2>5. Typed' /\ RecordMade' /\ RecordKept' /\ OpenHasContent'
    BY <2>1, <2>2 DEF ContestsInv, Typed, RowTyped, RecordMade, RecordKept, OpenHasContent
  <2>6. (Overlapping(request) \subseteq mixed)'
    BY <2>1 DEF ContestsInv, Overlapping
  <2>7. QED
    BY <2>1, <2>3, <2>4, <2>5, <2>6 DEF ContestsInv
<1>6. QED
  BY <1>1, <1>2, <1>3, <1>4, <1>5 DEF Next, Serve

\* A contest and its content stay together: what the config says was generated
\* is what the contest has, however often it is activated, deleted and activated
\* again, unless somebody edited it meanwhile; and nobody enters a contest
\* without companies that no administrator opened by hand.
THEOREM ContentStaysRecorded == Spec => []ContentRecorded
<1>1. ContestsInv => ContentRecorded
  BY DEF ContestsInv, ContentRecorded, TypeOK, Typed, RowTyped, Existing
<1>2. QED
  BY <1>1, ContestsInit, ContestsStep, PTL DEF Spec

-----------------------------------------------------------------------------
(* Sessions *)

TabType == [at : {"new", "ready", "loading", "open", "checking", "stopped"},
            worker : Worker \cup {"none"}, retries : Nat, asked : Nat,
            seen : {"unread", "active", "locked"}, validated : Nat, wakes : Nat]

SessionsType ==
    /\ now \in Nat
    /\ active \in [Account -> BOOLEAN]
    /\ ticket \in [Tab -> Nat]
    /\ known \in [Worker -> [Account -> Nat]]
    /\ checked \in [Worker -> [Account -> [until : Nat, active : BOOLEAN]]]
    /\ tab \in [Tab -> TabType]
    /\ switched \in [Account -> [at : Nat, times : Nat]]
    /\ issued \in [Tab -> Nat]
    /\ opened \in [Tab -> Nat]

\* A loop never waits longer than a heartbeat, nor a query longer than it takes.
Timely(t) ==
    LET s == tab[t] IN
    /\ s.at \in Querying \cup {"open"} => s.worker \in Worker
    /\ s.at \notin Querying => s.seen = "unread"
    /\ s.at = "open" => now <= s.wakes /\ s.wakes <= now + HeartBeat /\ s.validated <= now
    /\ s.at \in Querying => s.asked <= now /\ now <= s.asked + QueryTime
    /\ s.at = "checking" => s.validated = s.asked

\* A ticket opens nothing before it is issued and nothing after it was used.
Single(t) ==
    LET s == tab[t] IN
    /\ s.at = "new" => ticket[t] = 0 /\ opened[t] = 0
    /\ ticket[t] # 0 => opened[t] = 0 /\ ticket[t] = issued[t] + TicketTTL
    /\ s.at = "loading" => /\ ticket[t] = 0 /\ opened[t] = 0
                           /\ s.asked < issued[t] + TicketTTL

\* What a query has found against the account's present state is older than it.
Overtaken(t) ==
    LET s == tab[t]
        a == OwnerOf[t] IN
    /\ s.seen = "active" /\ ~ active[a] => s.asked <= switched[a].at
    /\ s.seen = "locked" /\ active[a] => switched[a].times > 0 /\ s.asked <= switched[a].at

\* How long a locked account's loop goes on before its next check.
Lingering(t) ==
    LET s == tab[t]
        a == OwnerOf[t]
        till == switched[a].at + Spoken IN
    t \notin unsure /\ ~ active[a] =>
        /\ s.at = "open" => s.validated <= till /\ s.wakes <= till + 2 * HeartBeat - 1
        /\ s.at = "checking" => s.asked <= till + 2 * HeartBeat - 1

Session(t) == Timely(t) /\ Single(t) /\ Overtaken(t) /\ Lingering(t)

\* The entries of a worker's caches for an account: none outlives its time, and
\* what one says against the present state is from before it.
Entries(w, a) ==
    LET entry == checked[w][a] IN
    /\ known[w][a] <= now + UserTTL
    /\ entry.until <= now + CheckTTL
    /\ ~ active[a] => /\ known[w][a] <= switched[a].at + UserTTL
                      /\ entry.active => entry.until <= switched[a].at + CheckTTL
    /\ active[a] /\ ~ entry.active /\ entry.until > 0
         => switched[a].times > 0 /\ entry.until <= switched[a].at + CheckTTL

SessionsInv ==
    /\ SessionsType
    /\ \A a \in Account : switched[a].at <= now
    /\ \A t \in Tab : Session(t)
    /\ \A w \in Worker, a \in Account : Entries(w, a)

-----------------------------------------------------------------------------
LEMMA SessionConstants ==
    /\ HeartBeat \in Nat /\ HeartBeat >= 1 /\ TicketTTL \in Nat /\ TicketTTL >= 1
    /\ UserTTL \in Nat /\ UserTTL >= 1 /\ CheckTTL \in Nat /\ CheckTTL >= 1
    /\ QueryTime \in Nat /\ MaxRetries \in Nat
    /\ OwnerOf \in [Tab -> Account]
BY SessionsAssumption

\* Nothing speaks for a locked account longer than Spoken.
LEMMA SpokenFacts ==
    /\ Spoken \in Nat /\ Spoken >= UserTTL - 1 /\ Spoken >= CheckTTL - 1 /\ Spoken >= QueryTime
    /\ Grace = Spoken + 2 * HeartBeat - 1 + QueryTime
BY SessionConstants DEF Spoken, Later, Grace

\* What the steps of a tab make of it.
LEMMA TabAt ==
    ASSUME NEW s \in TabType, NEW v \in {"new", "ready", "loading", "open", "checking", "stopped"},
           NEW new, new = [s EXCEPT !.at = v]
    PROVE  /\ new \in TabType
           /\ new.at = v
           /\ new.worker = s.worker /\ new.retries = s.retries /\ new.asked = s.asked
           /\ new.seen = s.seen /\ new.validated = s.validated /\ new.wakes = s.wakes
BY DEF TabType

LEMMA TabWorker ==
    ASSUME NEW s \in TabType, NEW v \in Worker,
           NEW new, new = [s EXCEPT !.worker = v]
    PROVE  /\ new \in TabType
           /\ new.worker = v
           /\ new.at = s.at /\ new.retries = s.retries /\ new.asked = s.asked
           /\ new.seen = s.seen /\ new.validated = s.validated /\ new.wakes = s.wakes
BY DEF TabType

LEMMA TabRetries ==
    ASSUME NEW s \in TabType, NEW v \in Nat,
           NEW new, new = [s EXCEPT !.retries = v]
    PROVE  /\ new \in TabType
           /\ new.retries = v
           /\ new.at = s.at /\ new.worker = s.worker /\ new.asked = s.asked
           /\ new.seen = s.seen /\ new.validated = s.validated /\ new.wakes = s.wakes
BY DEF TabType

LEMMA TabAsked ==
    ASSUME NEW s \in TabType, NEW v \in Nat,
           NEW new, new = [s EXCEPT !.asked = v]
    PROVE  /\ new \in TabType
           /\ new.asked = v
           /\ new.at = s.at /\ new.worker = s.worker /\ new.retries = s.retries
           /\ new.seen = s.seen /\ new.validated = s.validated /\ new.wakes = s.wakes
BY DEF TabType

LEMMA TabSeen ==
    ASSUME NEW s \in TabType, NEW v \in {"unread", "active", "locked"},
           NEW new, new = [s EXCEPT !.seen = v]
    PROVE  /\ new \in TabType
           /\ new.seen = v
           /\ new.at = s.at /\ new.worker = s.worker /\ new.retries = s.retries
           /\ new.asked = s.asked /\ new.validated = s.validated /\ new.wakes = s.wakes
BY DEF TabType

LEMMA TabValidated ==
    ASSUME NEW s \in TabType, NEW v \in Nat,
           NEW new, new = [s EXCEPT !.validated = v]
    PROVE  /\ new \in TabType
           /\ new.validated = v
           /\ new.at = s.at /\ new.worker = s.worker /\ new.retries = s.retries
           /\ new.asked = s.asked /\ new.seen = s.seen /\ new.wakes = s.wakes
BY DEF TabType

LEMMA TabWakes ==
    ASSUME NEW s \in TabType, NEW v \in Nat,
           NEW new, new = [s EXCEPT !.wakes = v]
    PROVE  /\ new \in TabType
           /\ new.wakes = v
           /\ new.at = s.at /\ new.worker = s.worker /\ new.retries = s.retries
           /\ new.asked = s.asked /\ new.seen = s.seen /\ new.validated = s.validated
BY DEF TabType

LEMMA OpenedFacts ==
    ASSUME NEW s \in TabType, now \in Nat
    PROVE  /\ Opened(s) \in TabType
           /\ Opened(s).at = "open" /\ Opened(s).worker = s.worker /\ Opened(s).seen = "unread"
           /\ Opened(s).validated = now /\ Opened(s).wakes = now + HeartBeat
<1> DEFINE one == [s EXCEPT !.at = "open"]
           two == [one EXCEPT !.retries = 0]
           three == [two EXCEPT !.asked = 0]
           four == [three EXCEPT !.seen = "unread"]
           five == [four EXCEPT !.validated = now]
           six == [five EXCEPT !.wakes = now + HeartBeat]
<1>1. Opened(s) = six
  BY DEF Opened
<1>0. now + HeartBeat \in Nat
  BY SessionConstants
<1>2. /\ one \in TabType /\ one.worker = s.worker /\ one.at = "open"
  BY TabAt
<1> HIDE DEF one
<1>3. /\ two \in TabType /\ two.worker = s.worker /\ two.at = "open"
      /\ two.retries = 0
  BY <1>2, <1>0, TabRetries
<1> HIDE DEF two
<1>4. /\ three \in TabType /\ three.worker = s.worker /\ three.at = "open"
      /\ three.retries = 0 /\ three.asked = 0
  <2>1. three = [two EXCEPT !.asked = 0]
    OBVIOUS
  <2> HIDE DEF three
  <2>2. QED
    BY <1>3, <2>1, TabAsked
<1> HIDE DEF three
<1>5. /\ four \in TabType /\ four.worker = s.worker /\ four.at = "open"
      /\ four.retries = 0 /\ four.asked = 0 /\ four.seen = "unread"
  BY <1>4, <1>0, TabSeen
<1> HIDE DEF four
<1>6. /\ five \in TabType /\ five.worker = s.worker /\ five.at = "open"
      /\ five.retries = 0 /\ five.asked = 0 /\ five.seen = "unread"
      /\ five.validated = now
  BY <1>5, <1>0, TabValidated
<1> HIDE DEF five
<1>7. /\ six \in TabType /\ six.worker = s.worker /\ six.at = "open"
      /\ six.retries = 0 /\ six.asked = 0 /\ six.seen = "unread"
      /\ six.validated = now /\ six.wakes = now + HeartBeat
  BY <1>6, <1>0, TabWakes
<1> HIDE DEF six
<1>8. QED
  BY <1>1, <1>7

LEMMA ListeningFacts ==
    ASSUME NEW s \in TabType, now \in Nat
    PROVE  /\ Listening(s) \in TabType
           /\ Listening(s).at = "open" /\ Listening(s).worker = s.worker
           /\ Listening(s).seen = "unread"
           /\ Listening(s).validated = s.validated /\ Listening(s).wakes = now + HeartBeat
<1> DEFINE one == [s EXCEPT !.at = "open"]
           two == [one EXCEPT !.asked = 0]
           three == [two EXCEPT !.seen = "unread"]
           four == [three EXCEPT !.wakes = now + HeartBeat]
<1>1. Listening(s) = four
  BY DEF Listening
<1>0. now + HeartBeat \in Nat
  BY SessionConstants
<1>2. /\ one \in TabType /\ one.worker = s.worker /\ one.validated = s.validated
      /\ one.at = "open"
  BY TabAt
<1> HIDE DEF one
<1>3. /\ two \in TabType /\ two.worker = s.worker /\ two.validated = s.validated
      /\ two.at = "open" /\ two.asked = 0
  BY <1>2, <1>0, TabAsked
<1> HIDE DEF two
<1>4. /\ three \in TabType /\ three.worker = s.worker /\ three.validated = s.validated
      /\ three.at = "open" /\ three.asked = 0 /\ three.seen = "unread"
  BY <1>3, <1>0, TabSeen
<1> HIDE DEF three
<1>5. /\ four \in TabType /\ four.worker = s.worker /\ four.validated = s.validated
      /\ four.at = "open" /\ four.asked = 0 /\ four.seen = "unread"
      /\ four.wakes = now + HeartBeat
  BY <1>4, <1>0, TabWakes
<1> HIDE DEF four
<1>6. QED
  BY <1>1, <1>5

LEMMA NoTabFacts == NoTab \in TabType /\ NoTab.at = "new" /\ NoTab.seen = "unread"
BY DEF NoTab, TabType

LEMMA ReconnectedFacts ==
    ASSUME NEW s \in TabType
    PROVE  /\ Reconnected(s) \in TabType
           /\ Reconnected(s).at \in {"ready", "stopped"} /\ Reconnected(s).seen = "unread"
           /\ Reconnected(s).retries = s.retries + 1
<1> DEFINE at == IF s.retries >= MaxRetries THEN "stopped" ELSE "ready"
           next == s.retries + 1
           one == [NoTab EXCEPT !.at = at]
           two == [one EXCEPT !.retries = next]
<1>1. Reconnected(s) = two
  BY DEF Reconnected
<1>2. at \in {"ready", "stopped"} /\ next \in Nat
  BY DEF TabType
<1> HIDE DEF at, next
<1>3. one \in TabType /\ one.at = at /\ one.seen = "unread"
  BY <1>2, NoTabFacts, TabAt
<1> HIDE DEF one
<1>4. two \in TabType /\ two.at = at /\ two.seen = "unread" /\ two.retries = next
  BY <1>2, <1>3, TabRetries
<1> HIDE DEF two
<1>5. QED
  BY <1>1, <1>2, <1>4 DEF next

LEMMA StoppedFacts ==
    ASSUME NEW s \in TabType
    PROVE  /\ Stopped(s) \in TabType
           /\ Stopped(s).at = "stopped" /\ Stopped(s).seen = "unread"
           /\ Stopped(s).retries = s.retries
BY DEF Stopped, NoTab, TabType

\* With no socket, no query and empty caches nothing speaks for any account.
THEOREM SessionsInitInv == SessionsInit => SessionsInv
<1> SUFFICES ASSUME SessionsInit PROVE SessionsInv
  OBVIOUS
<1>1. SessionsType
  BY NoTabFacts DEF SessionsInit, SessionsType
<1>2. \A a \in Account : switched[a].at <= now
  BY DEF SessionsInit
<1>3. ASSUME NEW t \in Tab PROVE Session(t)
  <2>1. tab[t].at = "new" /\ tab[t].seen = "unread" /\ ticket[t] = 0 /\ opened[t] = 0
    BY NoTabFacts DEF SessionsInit
  <2>2. QED
    BY <2>1 DEF Session, Timely, Single, Overtaken, Lingering, Querying
<1>4. ASSUME NEW w \in Worker, NEW a \in Account PROVE Entries(w, a)
  BY SessionConstants DEF SessionsInit, Entries
<1>5. QED
  BY <1>1, <1>2, <1>3, <1>4 DEF SessionsInv

\* What the invariant says of a tab that is about to step.
LEMMA TabFacts ==
    ASSUME SessionsInv, NEW t \in Tab
    PROVE  /\ tab[t] \in TabType /\ Session(t) /\ OwnerOf[t] \in Account
           /\ now \in Nat /\ ticket[t] \in Nat /\ issued[t] \in Nat /\ opened[t] \in Nat
           /\ tab[t].retries \in Nat /\ tab[t].asked \in Nat
           /\ tab[t].validated \in Nat /\ tab[t].wakes \in Nat
           /\ switched[OwnerOf[t]].at \in Nat /\ switched[OwnerOf[t]].times \in Nat
           /\ switched[OwnerOf[t]].at <= now
BY SessionConstants DEF SessionsInv, SessionsType, TabType

\* A step of one tab, at one time, keeps what it says of the others.
LEMMA TabWritten ==
    ASSUME SessionsInv, NEW t \in Tab, NEW s \in TabType,
           tab' = [tab EXCEPT ![t] = s],
           UNCHANGED <<now, active, switched>>, unsure \subseteq unsure',
           ticket' \in [Tab -> Nat], issued' \in [Tab -> Nat], opened' \in [Tab -> Nat],
           known' \in [Worker -> [Account -> Nat]],
           checked' \in [Worker -> [Account -> [until : Nat, active : BOOLEAN]]],
           \A u \in Tab \ {t} : /\ ticket'[u] = ticket[u] /\ issued'[u] = issued[u]
                                /\ opened'[u] = opened[u],
           Session(t)',
           \A w \in Worker, a \in Account : Entries(w, a)'
    PROVE  SessionsInv'
<1>1. tab \in [Tab -> TabType]
  BY DEF SessionsInv, SessionsType
<1>2. tab' \in [Tab -> TabType] /\ \A u \in Tab \ {t} : tab'[u] = tab[u]
  BY <1>1
<1>3. SessionsType'
  BY <1>2 DEF SessionsInv, SessionsType, TabType
<1>4. ASSUME NEW u \in Tab PROVE Session(u)'
  <2>1. CASE u = t
    BY <2>1
  <2>2. CASE u # t
    <3>1. Session(u) /\ tab'[u] = tab[u] /\ ticket'[u] = ticket[u] /\ issued'[u] = issued[u]
          /\ opened'[u] = opened[u]
      BY <1>2, <2>2 DEF SessionsInv
    <3>2. Timely(u)'
      BY <3>1 DEF Session, Timely
    <3>3. Single(u)'
      BY <3>1 DEF Session, Single
    <3>4. Overtaken(u)'
      BY <3>1 DEF Session, Overtaken
    <3>5. Lingering(u)'
      BY <3>1 DEF Session, Lingering, Spoken
    <3>6. QED
      BY <3>2, <3>3, <3>4, <3>5 DEF Session
  <2>3. QED
    BY <2>1, <2>2
<1>5. (\A a \in Account : switched[a].at <= now)'
  BY DEF SessionsInv
<1>6. QED
  BY <1>3, <1>4, <1>5 DEF SessionsInv

\* A step that leaves the caches alone.
LEMMA CachesKept ==
    ASSUME SessionsInv, UNCHANGED <<now, active, switched, known, checked>>
    PROVE  /\ known' \in [Worker -> [Account -> Nat]]
           /\ checked' \in [Worker -> [Account -> [until : Nat, active : BOOLEAN]]]
           /\ \A w \in Worker, a \in Account : Entries(w, a)'
<1>1. ASSUME NEW w \in Worker, NEW a \in Account PROVE Entries(w, a)'
  <2>1. Entries(w, a)
    BY DEF SessionsInv
  <2>2. QED
    BY <2>1 DEF Entries
<1>2. QED
  BY <1>1 DEF SessionsInv, SessionsType

LEMMA TicketsKept ==
    ASSUME SessionsInv, UNCHANGED <<ticket, issued, opened>>, NEW t \in Tab
    PROVE  /\ ticket' \in [Tab -> Nat] /\ issued' \in [Tab -> Nat] /\ opened' \in [Tab -> Nat]
           /\ \A u \in Tab \ {t} : /\ ticket'[u] = ticket[u] /\ issued'[u] = issued[u]
                                   /\ opened'[u] = opened[u]
BY DEF SessionsInv, SessionsType

\* A tab that leaves its socket, or stops, is bound by nothing but its ticket.
LEMMA AwayKeeps ==
    ASSUME SessionsInv, NEW t \in Tab, NEW s \in TabType,
           s.at \in {"ready", "stopped"}, s.seen = "unread",
           tab' = [tab EXCEPT ![t] = s],
           UNCHANGED <<now, active, switched, ticket, issued, opened>>, unsure \subseteq unsure',
           known' \in [Worker -> [Account -> Nat]],
           checked' \in [Worker -> [Account -> [until : Nat, active : BOOLEAN]]],
           \A w \in Worker, a \in Account : Entries(w, a)'
    PROVE  SessionsInv'
<1>1. tab'[t] = s
  BY DEF SessionsInv, SessionsType
<1>2. Timely(t)' /\ Overtaken(t)' /\ Lingering(t)'
  BY <1>1 DEF Timely, Overtaken, Lingering, Querying
<1>3. Single(t)'
  <2>1. Single(t)
    BY DEF SessionsInv, Session
  <2>2. QED
    BY <1>1, <2>1 DEF Single
<1>4. Session(t)'
  BY <1>2, <1>3 DEF Session
<1>5. QED
  BY <1>4, TicketsKept, TabWritten

-----------------------------------------------------------------------------
\* POST /auth/ws-ticket
LEMMA IssueStep ==
    ASSUME SessionsInv, NEW t \in Tab, Issue(t)
    PROVE  SessionsInv'
<1> DEFINE s == [tab[t] EXCEPT !.at = "ready"]
<1>1. /\ tab[t].at = "new"
      /\ ticket' = [ticket EXCEPT ![t] = now + TicketTTL]
      /\ issued' = [issued EXCEPT ![t] = now]
      /\ tab' = [tab EXCEPT ![t] = s]
      /\ UNCHANGED <<now, active, switched, known, checked, opened, unsure>>
  BY DEF Issue, Switches, Caches
<1>2. tab[t] \in TabType /\ Session(t) /\ now \in Nat
  BY TabFacts
<1>3. s \in TabType /\ s.at = "ready" /\ s.seen = "unread"
  BY <1>1, <1>2 DEF TabType, Session, Timely, Querying
<1> HIDE DEF s
<1>4. /\ ticket' \in [Tab -> Nat] /\ issued' \in [Tab -> Nat] /\ opened' \in [Tab -> Nat]
      /\ ticket'[t] = now + TicketTTL /\ issued'[t] = now /\ opened'[t] = opened[t]
      /\ \A u \in Tab \ {t} : /\ ticket'[u] = ticket[u] /\ issued'[u] = issued[u]
                              /\ opened'[u] = opened[u]
      /\ tab'[t] = s
  BY <1>1, <1>2, SessionConstants DEF SessionsInv, SessionsType
<1>5. opened[t] = 0
  BY <1>1, <1>2 DEF Session, Single
<1>6. Session(t)'
  BY <1>3, <1>4, <1>5 DEF Session, Timely, Single, Overtaken, Lingering, Querying
<1>7. QED
  BY <1>1, <1>3, <1>4, <1>6, CachesKept, TabWritten

\* A tab that opens a socket has used up its ticket and, if its account is locked,
\* relies on something older than the lock.
LEMMA OpensSession ==
    ASSUME SessionsInv, NEW t \in Tab, NEW s \in TabType, s.worker \in Worker,
           tab'[t] = Opened(s), UNCHANGED <<now, active, switched, issued>>,
           unsure \subseteq unsure', ticket'[t] = 0,
           ~ active[OwnerOf[t]] => now <= switched[OwnerOf[t]].at + Spoken
    PROVE  Session(t)'
<1> DEFINE new == Opened(s)
<1>1. now \in Nat /\ switched[OwnerOf[t]].at \in Nat
  BY TabFacts
<1>2. /\ new.at = "open" /\ new.worker = s.worker /\ new.seen = "unread"
      /\ new.validated = now /\ new.wakes = now + HeartBeat
  BY <1>1, OpenedFacts
<1> HIDE DEF new
<1>3. tab'[t] = new
  BY DEF new
<1>4. Timely(t)'
  BY <1>1, <1>2, <1>3, SessionConstants DEF Timely, Querying
<1>5. Single(t)' /\ Overtaken(t)'
  BY <1>2, <1>3 DEF Single, Overtaken
<1>6. Lingering(t)'
  <2> DEFINE till == switched[OwnerOf[t]].at + Spoken
  <2>1. ~ active[OwnerOf[t]] => new.validated <= till /\ new.wakes <= till + 2 * HeartBeat - 1
    <3>1. till \in Nat
      BY <1>1, SpokenFacts
    <3> HIDE DEF till
    <3>2. now <= till => now + HeartBeat <= till + 2 * HeartBeat - 1
      BY <1>1, <3>1, SessionConstants
    <3>3. QED
      BY <1>2, <3>2 DEF till
  <2>2. QED
    BY <1>2, <1>3, <2>1 DEF Lingering, Spoken
<1>7. QED
  BY <1>4, <1>5, <1>6 DEF Session

\* get_ws_user
LEMMA HandshakeStep ==
    ASSUME SessionsInv, NEW t \in Tab, NEW w \in Worker, Handshake(t, w)
    PROVE  SessionsInv'
<1> DEFINE s == [tab[t] EXCEPT !.worker = w]
           a == OwnerOf[t]
<1>1. /\ tab[t].at = "ready"
      /\ UNCHANGED <<now, active, switched, known, checked, issued, unsure>>
  BY DEF Handshake, Switches, Caches
<1>2. /\ tab[t] \in TabType /\ Session(t) /\ a \in Account /\ now \in Nat
      /\ ticket[t] \in Nat /\ issued[t] \in Nat /\ opened[t] \in Nat
      /\ switched[a].at \in Nat
  BY TabFacts
<1>3. s \in TabType /\ s.worker = w /\ s.seen = "unread"
  <2>1. tab[t].seen = "unread"
    BY <1>1, <1>2 DEF Session, Timely, Querying
  <2>2. QED
    BY <1>2, <2>1, TabWorker
<1>4. CASE ~ Held(t)
  <2>1. /\ tab' = [tab EXCEPT ![t] = Reconnected(tab[t])]
        /\ UNCHANGED <<ticket, opened>>
    BY <1>4 DEF Handshake
  <2>2. QED
    BY <1>1, <1>2, <2>1, ReconnectedFacts, CachesKept, AwayKeeps
<1>5. CASE Held(t)
  <2>1. ticket[t] > now /\ opened[t] = 0 /\ ticket[t] = issued[t] + TicketTTL
    BY <1>2, <1>5 DEF Held, Session, Single
  <2>2. ticket' = [ticket EXCEPT ![t] = 0]
    BY <1>5 DEF Handshake, Consumed
  <2>3. CASE known[w][a] > now
    <3>1. tab' = [tab EXCEPT ![t] = Opened(s)] /\ opened' = [opened EXCEPT ![t] = @ + 1]
      BY <1>5, <2>3 DEF Handshake
    <3>2. ~ active[a] => now <= switched[a].at + Spoken
      <4>1. known[w][a] \in Nat /\ Entries(w, a)
        BY <1>2 DEF SessionsInv, SessionsType
      <4>2. ~ active[a] => known[w][a] <= switched[a].at + UserTTL
        BY <4>1 DEF Entries
      <4>3. QED
        BY <1>2, <2>3, <4>1, <4>2, SpokenFacts, SessionConstants
    <3> HIDE DEF s
    <3>3. tab'[t] = Opened(s) /\ ticket'[t] = 0
      BY <2>2, <3>1 DEF SessionsInv, SessionsType
    <3>4. Session(t)'
      BY <1>1, <1>3, <3>2, <3>3, OpensSession
    <3>5. /\ ticket' \in [Tab -> Nat] /\ issued' \in [Tab -> Nat] /\ opened' \in [Tab -> Nat]
          /\ \A u \in Tab \ {t} : /\ ticket'[u] = ticket[u] /\ issued'[u] = issued[u]
                                  /\ opened'[u] = opened[u]
      BY <1>1, <1>2, <2>2, <3>1 DEF SessionsInv, SessionsType
    <3>6. Opened(s) \in TabType
      BY <1>2, <1>3, OpenedFacts
    <3>7. QED
      BY <1>1, <3>1, <3>4, <3>5, <3>6, CachesKept, TabWritten
  <2>4. CASE ~ (known[w][a] > now)
    <3> DEFINE one == [s EXCEPT !.at = "loading"]
               new == [one EXCEPT !.asked = now]
    <3>1. tab' = [tab EXCEPT ![t] = new] /\ opened' = opened
      BY <1>5, <2>4 DEF Handshake
    <3> HIDE DEF s
    <3>2. one \in TabType /\ one.at = "loading" /\ one.worker = w /\ one.seen = "unread"
      BY <1>3, TabAt
    <3> HIDE DEF one
    <3>3. new \in TabType /\ new.at = "loading" /\ new.worker = w /\ new.seen = "unread"
          /\ new.asked = now
      BY <1>2, <3>2, TabAsked
    <3> HIDE DEF new
    <3>4. /\ ticket' \in [Tab -> Nat] /\ issued' \in [Tab -> Nat] /\ opened' \in [Tab -> Nat]
          /\ \A u \in Tab \ {t} : /\ ticket'[u] = ticket[u] /\ issued'[u] = issued[u]
                                  /\ opened'[u] = opened[u]
          /\ tab'[t] = new /\ ticket'[t] = 0
      BY <1>1, <1>2, <2>2, <3>1 DEF SessionsInv, SessionsType
    <3>5. Timely(t)'
      BY <1>1, <1>2, <3>3, <3>4, SessionConstants DEF Timely, Querying
    <3>6. Single(t)'
      BY <1>1, <1>2, <2>1, <3>1, <3>3, <3>4, SessionConstants DEF Single
    <3>7. Overtaken(t)' /\ Lingering(t)'
      BY <3>3, <3>4 DEF Overtaken, Lingering
    <3>8. Session(t)'
      BY <3>5, <3>6, <3>7 DEF Session
    <3>9. QED
      BY <1>1, <3>1, <3>3, <3>4, <3>8, CachesKept, TabWritten
  <2>5. QED
    BY <2>3, <2>4
<1>6. QED
  BY <1>4, <1>5

\* A refused handshake and a dropped socket lead back to the tab.
LEMMA LeavesStep ==
    ASSUME SessionsInv, NEW t \in Tab, HandshakeFails(t) \/ Drop(t)
    PROVE  SessionsInv'
<1>1. /\ tab' = [tab EXCEPT ![t] = Reconnected(tab[t])]
      /\ UNCHANGED <<now, active, switched, known, checked, ticket, issued, opened, unsure>>
  BY DEF HandshakeFails, Drop, Switches, Caches, Ticketing
<1>2. QED
  BY <1>1, TabFacts, ReconnectedFacts, CachesKept, AwayKeeps

\* A query finds what the row holds.
LEMMA ReadStep ==
    ASSUME SessionsInv, NEW t \in Tab, Read(t)
    PROVE  SessionsInv'
<1> DEFINE seen == IF active[OwnerOf[t]] THEN "active" ELSE "locked"
           s == [tab[t] EXCEPT !.seen = seen]
<1>1. /\ tab[t].at \in Querying /\ tab' = [tab EXCEPT ![t] = s]
      /\ UNCHANGED <<now, active, switched, known, checked, ticket, issued, opened, unsure>>
  BY DEF Read, Switches, Caches, Ticketing
<1>2. tab[t] \in TabType /\ Session(t)
  BY TabFacts
<1>3. /\ seen \in {"active", "locked"}
      /\ seen = "active" => active[OwnerOf[t]]
      /\ seen = "locked" => ~ active[OwnerOf[t]]
  OBVIOUS
<1> HIDE DEF seen
<1>4. /\ s \in TabType /\ s.seen = seen /\ s.at = tab[t].at /\ s.worker = tab[t].worker
      /\ s.asked = tab[t].asked /\ s.validated = tab[t].validated /\ s.wakes = tab[t].wakes
  BY <1>2, <1>3, TabSeen
<1> HIDE DEF s
<1>5. tab'[t] = s
  BY <1>1 DEF SessionsInv, SessionsType
<1>6. Timely(t)'
  BY <1>1, <1>2, <1>4, <1>5 DEF Session, Timely, Querying
<1>7. Single(t)'
  BY <1>1, <1>2, <1>4, <1>5 DEF Session, Single
<1>8. Overtaken(t)'
  BY <1>1, <1>3, <1>4, <1>5 DEF Overtaken
<1>9. Lingering(t)'
  BY <1>1, <1>2, <1>4, <1>5 DEF Session, Lingering, Spoken
<1>10. Session(t)'
  BY <1>6, <1>7, <1>8, <1>9 DEF Session
<1>11. QED
  BY <1>1, <1>4, <1>10, CachesKept, TicketsKept, TabWritten

\* _load_active_user: what is kept and what opens is as old as the question.
LEMMA LoadedStep ==
    ASSUME SessionsInv, NEW t \in Tab, Loaded(t)
    PROVE  SessionsInv'
<1> DEFINE s == tab[t]
           a == OwnerOf[t]
           w == s.worker
           until == s.asked + UserTTL
<1>1. /\ s.at = "loading" /\ s.seen # "unread"
      /\ UNCHANGED <<now, active, switched, ticket, issued, checked, unsure>>
  BY DEF Loaded, Switches
<1>2. /\ s \in TabType /\ Session(t) /\ a \in Account /\ now \in Nat /\ s.asked \in Nat
      /\ switched[a].at \in Nat /\ opened[t] \in Nat
  BY TabFacts
<1>3. w \in Worker /\ s.asked <= now /\ now <= s.asked + QueryTime
  BY <1>1, <1>2 DEF Session, Timely, Querying
<1>4. CASE s.seen = "active"
  <2>1. /\ known' = [known EXCEPT ![w][a] = until]
        /\ tab' = [tab EXCEPT ![t] = Opened(s)]
        /\ opened' = [opened EXCEPT ![t] = @ + 1]
    BY <1>4 DEF Loaded, Until
  <2>2. ~ active[a] => s.asked <= switched[a].at
    BY <1>2, <1>4 DEF Session, Overtaken
  <2>3. until \in Nat /\ until <= now + UserTTL
        /\ (~ active[a] => until <= switched[a].at + UserTTL)
    BY <1>2, <1>3, <2>2, SessionConstants
  <2>4. ~ active[a] => now <= switched[a].at + Spoken
    BY <1>2, <1>3, <2>2, SpokenFacts, SessionConstants
  <2> HIDE DEF until, s, a
  <2>5. known' \in [Worker -> [Account -> Nat]]
        /\ \A v \in Worker, b \in Account :
              known'[v][b] = IF v = w /\ b = a THEN until ELSE known[v][b]
    BY <1>2, <1>3, <2>1, <2>3 DEF SessionsInv, SessionsType
  <2>6. ASSUME NEW v \in Worker, NEW b \in Account PROVE Entries(v, b)'
    <3>1. Entries(v, b)
      BY DEF SessionsInv
    <3>2. (known'[v][b] = until /\ b = a) \/ known'[v][b] = known[v][b]
      BY <2>5
    <3>3. QED
      BY <1>1, <2>3, <3>1, <3>2 DEF Entries
  <2>7. checked' \in [Worker -> [Account -> [until : Nat, active : BOOLEAN]]]
    BY <1>1 DEF SessionsInv, SessionsType
  <2>8. tab'[t] = Opened(s) /\ ticket'[t] = 0
    <3>1. ticket[t] = 0
      BY <1>1, <1>2 DEF Session, Single, s
    <3>2. QED
      BY <1>1, <2>1, <3>1 DEF SessionsInv, SessionsType
  <2>9. Session(t)'
    BY <1>1, <1>2, <1>3, <2>4, <2>8, OpensSession DEF a
  <2>10. /\ ticket' \in [Tab -> Nat] /\ issued' \in [Tab -> Nat] /\ opened' \in [Tab -> Nat]
         /\ \A u \in Tab \ {t} : /\ ticket'[u] = ticket[u] /\ issued'[u] = issued[u]
                                 /\ opened'[u] = opened[u]
    BY <1>1, <1>2, <2>1 DEF SessionsInv, SessionsType
  <2>11. Opened(s) \in TabType
    BY <1>2, OpenedFacts
  <2>12. QED
    BY <1>1, <2>1, <2>5, <2>6, <2>7, <2>9, <2>10, <2>11, TabWritten
<1>5. CASE s.seen # "active"
  <2>1. tab' = [tab EXCEPT ![t] = Reconnected(s)] /\ UNCHANGED <<known, opened>>
    BY <1>5 DEF Loaded
  <2>2. QED
    BY <1>1, <1>2, <2>1, ReconnectedFacts, CachesKept, AwayKeeps
<1>6. QED
  BY <1>4, <1>5

\* revalidate_user: either answer is kept, and is as old as the question.
LEMMA RevalidatedStep ==
    ASSUME SessionsInv, NEW t \in Tab, Revalidated(t)
    PROVE  SessionsInv'
<1> DEFINE s == tab[t]
           a == OwnerOf[t]
           w == s.worker
           entry == [until |-> s.asked + CheckTTL, active |-> s.seen = "active"]
<1>1. /\ s.at = "checking" /\ s.seen # "unread"
      /\ checked' = [checked EXCEPT ![w][a] = entry]
      /\ UNCHANGED <<now, active, switched, ticket, issued, opened, known, unsure>>
  BY DEF Revalidated, Switches, Ticketing, Until
<1>2. /\ s \in TabType /\ Session(t) /\ a \in Account /\ now \in Nat /\ s.asked \in Nat
      /\ switched[a].at \in Nat
  BY TabFacts
<1>3. /\ w \in Worker /\ s.asked <= now /\ now <= s.asked + QueryTime
      /\ s.validated = s.asked
  BY <1>1, <1>2 DEF Session, Timely, Querying
<1>4. /\ s.seen = "active" /\ ~ active[a] => s.asked <= switched[a].at
      /\ s.seen # "active" /\ active[a] => switched[a].times > 0 /\ s.asked <= switched[a].at
  <2>1. s.seen \in {"active", "locked"}
    BY <1>1, <1>2 DEF TabType
  <2>2. QED
    BY <1>2, <2>1 DEF Session, Overtaken
<1>5. /\ entry \in [until : Nat, active : BOOLEAN]
      /\ entry.until <= now + CheckTTL
      /\ entry.active /\ ~ active[a] => entry.until <= switched[a].at + CheckTTL
      /\ ~ entry.active /\ active[a]
           => switched[a].times > 0 /\ entry.until <= switched[a].at + CheckTTL
  <2>1. entry.until = s.asked + CheckTTL /\ (entry.active <=> s.seen = "active")
    OBVIOUS
  <2>2. s.asked + CheckTTL \in Nat
    BY <1>2, SessionConstants
  <2>3. entry \in [until : Nat, active : BOOLEAN]
    BY <2>2
  <2> HIDE DEF entry
  <2>4. QED
    BY <1>2, <1>3, <1>4, <2>1, <2>3, SessionConstants
<1> HIDE DEF entry
<1>6. /\ checked' \in [Worker -> [Account -> [until : Nat, active : BOOLEAN]]]
      /\ \A v \in Worker, b \in Account :
            checked'[v][b] = IF v = w /\ b = a THEN entry ELSE checked[v][b]
  BY <1>1, <1>2, <1>3, <1>5 DEF SessionsInv, SessionsType
<1>7. ASSUME NEW v \in Worker, NEW b \in Account PROVE Entries(v, b)'
  <2>1. Entries(v, b)
    BY DEF SessionsInv
  <2>2. CASE v = w /\ b = a
    <3>1. checked'[v][b] = entry
      BY <1>6, <2>2
    <3>2. QED
      BY <1>1, <1>5, <2>1, <2>2, <3>1 DEF Entries
  <2>3. CASE ~ (v = w /\ b = a)
    <3>1. checked'[v][b] = checked[v][b]
      BY <1>6, <2>3
    <3>2. QED
      BY <1>1, <2>1, <3>1 DEF Entries
  <2>4. QED
    BY <2>2, <2>3
<1>8. known' \in [Worker -> [Account -> Nat]]
  BY <1>1 DEF SessionsInv, SessionsType
<1>9. CASE s.seen = "active"
  <2> DEFINE new == Listening(s)
  <2>1. tab' = [tab EXCEPT ![t] = new]
    BY <1>9 DEF Revalidated
  <2>2. /\ new \in TabType /\ new.at = "open" /\ new.worker = w /\ new.seen = "unread"
        /\ new.validated = s.asked /\ new.wakes = now + HeartBeat
    BY <1>2, <1>3, ListeningFacts
  <2> HIDE DEF new
  <2>3. tab'[t] = new
    BY <2>1 DEF SessionsInv, SessionsType
  <2>4. Timely(t)'
    BY <1>1, <1>2, <1>3, <2>2, <2>3, SessionConstants DEF Timely, Querying
  <2>5. Single(t)' /\ Overtaken(t)'
    BY <1>1, <1>2, <2>2, <2>3 DEF Session, Single, Overtaken
  <2>6. Lingering(t)'
    <3> DEFINE till == switched[a].at + Spoken
    <3>1. ~ active[a] => s.asked <= till /\ now + HeartBeat <= till + 2 * HeartBeat - 1
      BY <1>2, <1>3, <1>4, <1>9, SpokenFacts, SessionConstants
    <3>2. QED
      BY <1>1, <2>2, <2>3, <3>1 DEF Lingering, Spoken
  <2>7. Session(t)'
    BY <2>4, <2>5, <2>6 DEF Session
  <2>8. QED
    BY <1>1, <1>6, <1>7, <1>8, <2>1, <2>2, <2>7, TicketsKept, TabWritten
<1>10. CASE s.seen # "active"
  <2>1. tab' = [tab EXCEPT ![t] = Stopped(s)]
    BY <1>10 DEF Revalidated
  <2>2. QED
    BY <1>1, <1>2, <1>6, <1>7, <1>8, <2>1, StoppedFacts, AwayKeeps
<1>11. QED
  BY <1>9, <1>10

\* A query that fails refuses a handshake and leaves a session going on, unchecked.
LEMMA QueryFailsStep ==
    ASSUME SessionsInv, NEW t \in Tab, QueryFails(t)
    PROVE  SessionsInv'
<1> DEFINE s == tab[t]
<1>1. /\ s.at \in Querying
      /\ UNCHANGED <<now, active, switched, ticket, issued, opened, known, checked>>
      /\ unsure \subseteq unsure'
  BY DEF QueryFails, Switches, Ticketing, Remembered
<1>2. /\ s \in TabType /\ Session(t) /\ now \in Nat /\ s.asked \in Nat
  BY TabFacts
<1>3. CASE s.at = "loading"
  <2>1. tab' = [tab EXCEPT ![t] = Reconnected(s)]
    BY <1>3 DEF QueryFails
  <2>2. QED
    BY <1>1, <1>2, <2>1, ReconnectedFacts, CachesKept, AwayKeeps
<1>4. CASE s.at # "loading"
  <2> DEFINE new == Listening(s)
  <2>1. tab' = [tab EXCEPT ![t] = new] /\ t \in unsure'
    BY <1>4 DEF QueryFails
  <2>2. s.worker \in Worker /\ s.asked <= now /\ s.validated = s.asked
    BY <1>1, <1>2, <1>4 DEF Session, Timely, Querying
  <2>3. /\ new \in TabType /\ new.at = "open" /\ new.worker = s.worker /\ new.seen = "unread"
        /\ new.validated = s.asked /\ new.wakes = now + HeartBeat
    BY <1>2, <2>2, ListeningFacts
  <2> HIDE DEF new
  <2>4. tab'[t] = new
    BY <2>1 DEF SessionsInv, SessionsType
  <2>5. Timely(t)'
    BY <1>1, <1>2, <2>2, <2>3, <2>4, SessionConstants DEF Timely, Querying
  <2>6. Single(t)' /\ Overtaken(t)' /\ Lingering(t)'
    BY <1>1, <1>2, <2>1, <2>3, <2>4 DEF Session, Single, Overtaken, Lingering
  <2>7. Session(t)'
    BY <2>5, <2>6 DEF Session
  <2>8. QED
    BY <1>1, <2>1, <2>3, <2>7, CachesKept, TicketsKept, TabWritten
<1>5. QED
  BY <1>3, <1>4

\* The loop: it listens on, or is told by the cache, or asks.
LEMMA TurnStep ==
    ASSUME SessionsInv, NEW t \in Tab, Turn(t)
    PROVE  SessionsInv'
<1> DEFINE s == tab[t]
           a == OwnerOf[t]
           c == checked[s.worker][a]
           till == switched[a].at + Spoken
<1>1. /\ s.at = "open"
      /\ UNCHANGED <<now, active, switched, ticket, issued, opened, known, checked, unsure>>
  BY DEF Turn, Switches, Caches, Ticketing
<1>2. /\ s \in TabType /\ Session(t) /\ a \in Account /\ now \in Nat
      /\ s.validated \in Nat /\ s.wakes \in Nat /\ switched[a].at \in Nat
  BY TabFacts
<1>3. /\ s.worker \in Worker /\ s.seen = "unread" /\ now <= s.wakes /\ s.validated <= now
      /\ t \notin unsure /\ ~ active[a] =>
            s.validated <= till /\ s.wakes <= till + 2 * HeartBeat - 1
  BY <1>1, <1>2 DEF Session, Timely, Lingering, Querying
<1>4. till \in Nat
  BY <1>2, SpokenFacts
<1>5. ASSUME NEW new \in TabType, tab' = [tab EXCEPT ![t] = new],
             new.at = "open", new.worker = s.worker, new.seen = "unread",
             new.validated \in Nat, new.validated <= now, new.wakes = now + HeartBeat,
             t \notin unsure /\ ~ active[a] =>
                 new.validated <= till /\ now + HeartBeat <= till + 2 * HeartBeat - 1
      PROVE  SessionsInv'
  <2>1. tab'[t] = new
    BY <1>5 DEF SessionsInv, SessionsType
  <2>2. Timely(t)'
    BY <1>1, <1>2, <1>3, <1>5, <2>1, SessionConstants DEF Timely, Querying
  <2>3. Single(t)' /\ Overtaken(t)'
    BY <1>1, <1>2, <1>5, <2>1 DEF Session, Single, Overtaken
  <2>4. Lingering(t)'
    BY <1>1, <1>5, <2>1 DEF Lingering, Spoken
  <2>5. Session(t)'
    BY <2>2, <2>3, <2>4 DEF Session
  <2>6. QED
    BY <1>1, <1>5, <2>5, CachesKept, TicketsKept, TabWritten
<1>6. CASE ~ Due(s)
  <2> DEFINE new == Listening(s)
  <2>1. tab' = [tab EXCEPT ![t] = new]
    BY <1>6 DEF Turn
  <2>2. /\ new \in TabType /\ new.at = "open" /\ new.worker = s.worker /\ new.seen = "unread"
        /\ new.validated = s.validated /\ new.wakes = now + HeartBeat
    BY <1>2, ListeningFacts
  <2>3. now < s.validated + HeartBeat
    BY <1>2, <1>6, SessionConstants DEF Due
  <2>4. s.validated <= till => now + HeartBeat <= till + 2 * HeartBeat - 1
    <3> HIDE DEF till
    <3>1. QED
      BY <1>2, <1>4, <2>3, SessionConstants
  <2> HIDE DEF new, till
  <2>5. QED
    BY <1>2, <1>3, <1>5, <2>1, <2>2, <2>4
<1>7. CASE Due(s) /\ c.until > now
  <2>1. CASE c.active
    <3> DEFINE one == Listening(s)
               new == [one EXCEPT !.validated = now]
    <3>1. tab' = [tab EXCEPT ![t] = new]
      BY <1>7, <2>1 DEF Turn
    <3>2. /\ one \in TabType /\ one.at = "open" /\ one.worker = s.worker /\ one.seen = "unread"
          /\ one.wakes = now + HeartBeat
      BY <1>2, ListeningFacts
    <3> HIDE DEF one
    <3>3. /\ new \in TabType /\ new.at = "open" /\ new.worker = s.worker /\ new.seen = "unread"
          /\ new.wakes = now + HeartBeat /\ new.validated = now
      BY <1>2, <3>2, TabValidated
    <3>4. ~ active[a] => now <= till /\ now + HeartBeat <= till + 2 * HeartBeat - 1
      <4>1. Entries(s.worker, a) /\ c \in [until : Nat, active : BOOLEAN]
        BY <1>2, <1>3 DEF SessionsInv, SessionsType
      <4>2. ~ active[a] => c.until <= switched[a].at + CheckTTL
        BY <2>1, <4>1 DEF Entries
      <4>3. c.until \in Nat
        BY <4>1
      <4> DEFINE until == c.until
      <4> HIDE DEF until
      <4>4. ~ active[a] => until <= switched[a].at + CheckTTL
        BY <4>2 DEF until
      <4>5. until \in Nat /\ until > now
        BY <1>7, <4>3 DEF until
      <4>6. QED
        BY <1>2, <4>4, <4>5, SpokenFacts, SessionConstants
    <3> HIDE DEF new, till, a, s
    <3>5. new.validated \in Nat /\ new.validated <= now
      BY <1>2, <3>3
    <3>6. ~ active[a] => new.validated <= till
      BY <3>3, <3>4
    <3>7. QED
      BY <1>5, <3>1, <3>3, <3>4, <3>5, <3>6
  <2>2. CASE ~ c.active
    <3>1. tab' = [tab EXCEPT ![t] = Stopped(s)]
      BY <1>7, <2>2 DEF Turn
    <3>2. QED
      BY <1>1, <1>2, <3>1, StoppedFacts, CachesKept, AwayKeeps
  <2>3. QED
    BY <2>1, <2>2
<1>8. CASE Due(s) /\ ~ (c.until > now)
  <2> DEFINE one == [s EXCEPT !.at = "checking"]
             two == [one EXCEPT !.asked = now]
             new == [two EXCEPT !.validated = now]
  <2>1. tab' = [tab EXCEPT ![t] = new]
    BY <1>8 DEF Turn
  <2>2. one \in TabType /\ one.at = "checking" /\ one.worker = s.worker /\ one.seen = "unread"
    BY <1>2, <1>3, TabAt
  <2> HIDE DEF one
  <2>3. /\ two \in TabType /\ two.at = "checking" /\ two.worker = s.worker /\ two.seen = "unread"
        /\ two.asked = now
    BY <1>2, <2>2, TabAsked
  <2> HIDE DEF two
  <2>4. /\ new \in TabType /\ new.at = "checking" /\ new.worker = s.worker /\ new.seen = "unread"
        /\ new.asked = now /\ new.validated = now
    BY <1>2, <2>3, TabValidated
  <2> HIDE DEF new
  <2>5. tab'[t] = new
    BY <2>1 DEF SessionsInv, SessionsType
  <2>6. Timely(t)'
    BY <1>1, <1>2, <1>3, <2>4, <2>5, SessionConstants DEF Timely, Querying
  <2>7. Single(t)' /\ Overtaken(t)'
    BY <1>1, <1>2, <2>4, <2>5 DEF Session, Single, Overtaken
  <2>8. Lingering(t)'
    <3>1. t \notin unsure /\ ~ active[a] => now <= till + 2 * HeartBeat - 1
      <4> HIDE DEF till
      <4>1. QED
        BY <1>2, <1>3, <1>4, SessionConstants
    <3>2. QED
      BY <1>1, <2>4, <2>5, <3>1 DEF Lingering, Spoken
  <2>9. Session(t)'
    BY <2>6, <2>7, <2>8 DEF Session
  <2>10. QED
    BY <1>1, <2>1, <2>4, <2>9, CachesKept, TicketsKept, TabWritten
<1>9. QED
  BY <1>6, <1>7, <1>8

\* A worker that restarts closes its sockets and forgets its caches.
LEMMA RestartStep ==
    ASSUME SessionsInv, NEW w \in Worker, Restart(w)
    PROVE  SessionsInv'
<1>1. /\ tab' = [t \in Tab |-> IF tab[t].worker = w THEN Reconnected(tab[t]) ELSE tab[t]]
      /\ known' = [known EXCEPT ![w] = [a \in Account |-> 0]]
      /\ checked' = [checked EXCEPT ![w] = [a \in Account |-> [until |-> 0, active |-> FALSE]]]
      /\ UNCHANGED <<now, active, switched, ticket, issued, opened, unsure>>
  BY DEF Restart, Switches, Ticketing
<1>2. \A t \in Tab : tab[t] \in TabType /\ Reconnected(tab[t]) \in TabType
  BY ReconnectedFacts DEF SessionsInv, SessionsType
<1>3. /\ known' \in [Worker -> [Account -> Nat]]
      /\ \A v \in Worker, a \in Account : known'[v][a] \in {0, known[v][a]}
  BY <1>1 DEF SessionsInv, SessionsType
<1>4. /\ checked' \in [Worker -> [Account -> [until : Nat, active : BOOLEAN]]]
      /\ \A v \in Worker, a \in Account :
            checked'[v][a] \in {[until |-> 0, active |-> FALSE], checked[v][a]}
  BY <1>1 DEF SessionsInv, SessionsType
<1>5. SessionsType'
  BY <1>1, <1>2, <1>3, <1>4 DEF SessionsInv, SessionsType, TabType
<1>6. ASSUME NEW t \in Tab PROVE Session(t)'
  <2>1. Session(t)
    BY DEF SessionsInv
  <2>2. CASE tab'[t] = tab[t]
    BY <1>1, <2>1, <2>2 DEF Session, Timely, Single, Overtaken, Lingering, Spoken
  <2>3. CASE tab'[t] = Reconnected(tab[t])
    <3>1. tab'[t].at \in {"ready", "stopped"} /\ tab'[t].seen = "unread"
      BY <1>2, <2>3, ReconnectedFacts
    <3>2. Timely(t)' /\ Overtaken(t)' /\ Lingering(t)'
      BY <3>1 DEF Timely, Overtaken, Lingering, Querying
    <3>3. Single(t)'
      BY <1>1, <2>1, <3>1 DEF Session, Single
    <3>4. QED
      BY <3>2, <3>3 DEF Session
  <2>4. QED
    BY <1>1, <2>2, <2>3
<1>7. ASSUME NEW v \in Worker, NEW a \in Account PROVE Entries(v, a)'
  <2>1. Entries(v, a) /\ now \in Nat /\ switched[a].at \in Nat
    BY DEF SessionsInv, SessionsType
  <2>2. known'[v][a] \in {0, known[v][a]}
    BY <1>3
  <2>3. CASE checked'[v][a] = checked[v][a]
    BY <1>1, <2>1, <2>2, <2>3, SessionConstants DEF Entries
  <2>4. CASE checked'[v][a] = [until |-> 0, active |-> FALSE]
    <3>1. checked'[v][a].until = 0 /\ ~ checked'[v][a].active
      BY <2>4
    <3>2. QED
      BY <1>1, <2>1, <2>2, <3>1, SessionConstants DEF Entries
  <2>5. QED
    BY <1>4, <2>3, <2>4
<1>8. (\A a \in Account : switched[a].at <= now)'
  BY <1>1 DEF SessionsInv
<1>9. QED
  BY <1>5, <1>6, <1>7, <1>8 DEF SessionsInv

\* Whatever speaks of an account when it is locked or unlocked is from before.
LEMMA SwitchStep ==
    ASSUME SessionsInv, NEW a \in Account, Switch(a)
    PROVE  SessionsInv'
<1>1. /\ active' = [active EXCEPT ![a] = ~ @]
      /\ switched' = [switched EXCEPT ![a] = [at |-> now, times |-> @.times + 1]]
      /\ unsure' = {t \in unsure : OwnerOf[t] # a}
      /\ UNCHANGED <<now, tab, known, checked, ticket, issued, opened>>
  BY DEF Switch, Caches, Ticketing
<1>2. /\ now \in Nat /\ switched[a].times \in Nat
      /\ switched \in [Account -> [at : Nat, times : Nat]]
      /\ active \in [Account -> BOOLEAN]
  BY DEF SessionsInv, SessionsType
<1>3. /\ switched' \in [Account -> [at : Nat, times : Nat]]
      /\ switched'[a].at = now /\ switched'[a].times > 0
      /\ \A b \in Account \ {a} : switched'[b] = switched[b]
  BY <1>1, <1>2
<1>4. /\ active' \in [Account -> BOOLEAN]
      /\ \A b \in Account \ {a} : active'[b] = active[b]
  BY <1>1, <1>2
<1>5. SessionsType'
  BY <1>1, <1>3, <1>4 DEF SessionsInv, SessionsType, TabType
<1>6. ASSUME NEW t \in Tab PROVE Session(t)'
  <2>1. Session(t) /\ OwnerOf[t] \in Account
    BY SessionConstants DEF SessionsInv
  <2>2. Timely(t)' /\ Single(t)'
    BY <1>1, <2>1 DEF Session, Timely, Single
  <2>3. CASE OwnerOf[t] # a
    <3>1. switched'[OwnerOf[t]] = switched[OwnerOf[t]] /\ active'[OwnerOf[t]] = active[OwnerOf[t]]
      BY <1>3, <1>4, <2>1, <2>3
    <3>2. Overtaken(t)'
      BY <1>1, <2>1, <3>1 DEF Session, Overtaken
    <3>3. t \notin unsure' => t \notin unsure
      BY <1>1, <2>3
    <3>4. Lingering(t)'
      BY <1>1, <2>1, <3>1, <3>3 DEF Session, Lingering, Spoken
    <3>5. QED
      BY <2>2, <3>2, <3>4 DEF Session
  <2>4. CASE OwnerOf[t] = a
    <3>1. tab[t].seen # "unread" => tab[t].asked <= now
      BY <2>1 DEF Session, Timely
    <3>2. Overtaken(t)'
      BY <1>1, <1>3, <2>4, <3>1 DEF Overtaken
    <3> DEFINE till == now + Spoken
    <3>3. /\ tab[t].at = "open" =>
                tab[t].validated <= till /\ tab[t].wakes <= till + 2 * HeartBeat - 1
          /\ tab[t].at = "checking" => tab[t].asked <= till + 2 * HeartBeat - 1
      <4>1. /\ tab[t].asked \in Nat /\ tab[t].validated \in Nat /\ tab[t].wakes \in Nat
        BY TabFacts
      <4>2. /\ tab[t].at = "open" =>
                  tab[t].validated <= now /\ tab[t].wakes <= now + HeartBeat
            /\ tab[t].at = "checking" => tab[t].asked <= now
        BY <2>1 DEF Session, Timely, Querying
      <4>3. QED
        BY <1>2, <4>1, <4>2, SpokenFacts, SessionConstants
    <3>4. Lingering(t)'
      BY <1>1, <1>3, <2>4, <3>3 DEF Lingering, Spoken
    <3>5. QED
      BY <2>2, <3>2, <3>4 DEF Session
  <2>5. QED
    BY <2>3, <2>4
<1>7. ASSUME NEW w \in Worker, NEW b \in Account PROVE Entries(w, b)'
  <2>1. Entries(w, b)
    BY DEF SessionsInv
  <2>2. CASE b # a
    <3>1. switched'[b] = switched[b] /\ active'[b] = active[b]
      BY <1>3, <1>4, <2>2
    <3>2. QED
      BY <1>1, <2>1, <3>1 DEF Entries
  <2>3. CASE b = a
    BY <1>1, <1>3, <2>1, <2>3 DEF Entries
  <2>4. QED
    BY <2>2, <2>3
<1>8. (\A b \in Account : switched[b].at <= now)'
  BY <1>1, <1>2, <1>3 DEF SessionsInv
<1>9. QED
  BY <1>5, <1>6, <1>7, <1>8 DEF SessionsInv

\* Time passes up to what loops wait and queries take.
LEMMA TickStep ==
    ASSUME SessionsInv, Tick
    PROVE  SessionsInv'
<1>1. /\ now' = now + 1
      /\ \A t \in Tab : /\ tab[t].at = "open" => now < tab[t].wakes
                        /\ tab[t].at \in Querying => now < tab[t].asked + QueryTime
      /\ UNCHANGED <<active, switched, known, checked, ticket, issued, opened, tab, unsure>>
  BY DEF Tick, Switches, Caches, Ticketing
<1>2. now \in Nat /\ now + 1 \in Nat
  BY DEF SessionsInv, SessionsType
<1>3. SessionsType'
  BY <1>1, <1>2 DEF SessionsInv, SessionsType, TabType
<1>4. ASSUME NEW t \in Tab PROVE Session(t)'
  <2>1. Session(t)
    BY DEF SessionsInv
  <2>2. tab[t].asked \in Nat /\ tab[t].validated \in Nat /\ tab[t].wakes \in Nat
    BY TabFacts
  <2>3. Timely(t)'
    <3>1. /\ tab[t].at = "open" => now + 1 <= tab[t].wakes
          /\ tab[t].at \in Querying => now + 1 <= tab[t].asked + QueryTime
      BY <1>1, <1>2, <2>2, SessionConstants
    <3>2. QED
      BY <1>1, <1>2, <2>1, <2>2, <3>1, SessionConstants DEF Session, Timely
  <2>4. Single(t)' /\ Overtaken(t)' /\ Lingering(t)'
    BY <1>1, <2>1 DEF Session, Single, Overtaken, Lingering, Spoken
  <2>5. QED
    BY <2>3, <2>4 DEF Session
<1>5. ASSUME NEW w \in Worker, NEW a \in Account PROVE Entries(w, a)'
  <2>1. Entries(w, a) /\ known[w][a] \in Nat /\ checked[w][a].until \in Nat
    BY DEF SessionsInv, SessionsType
  <2>2. QED
    BY <1>1, <1>2, <2>1, SessionConstants DEF Entries
<1>6. (\A a \in Account : switched[a].at <= now)'
  <2>1. \A a \in Account : switched[a].at \in Nat /\ switched[a].at <= now
    BY DEF SessionsInv, SessionsType
  <2>2. QED
    BY <1>1, <1>2, <2>1
<1>7. QED
  BY <1>3, <1>4, <1>5, <1>6 DEF SessionsInv

\* Every step of the tabs, the workers and the administrator keeps the invariant.
THEOREM SessionsStep == SessionsInv /\ [SessionsNext]_sessionVars => SessionsInv'
<1> SUFFICES ASSUME SessionsInv, [SessionsNext]_sessionVars PROVE SessionsInv'
  OBVIOUS
<1>1. ASSUME NEW t \in Tab, TabStep(t) PROVE SessionsInv'
  BY <1>1, IssueStep, HandshakeStep, LeavesStep, ReadStep, LoadedStep, RevalidatedStep,
     QueryFailsStep, TurnStep DEF TabStep
<1>2. CASE \E w \in Worker : Restart(w)
  BY <1>2, RestartStep
<1>3. CASE \E a \in Account : Switch(a)
  BY <1>3, SwitchStep
<1>4. CASE Tick
  BY <1>4, TickStep
<1>5. CASE UNCHANGED sessionVars
  <2>1. UNCHANGED <<now, active, ticket, known, checked, tab, switched, issued, opened, unsure>>
    BY <1>5 DEF sessionVars
  <2>2. SessionsType'
    BY <2>1 DEF SessionsInv, SessionsType, TabType
  <2>3. ASSUME NEW t \in Tab PROVE Session(t)'
    <3>1. Session(t)
      BY DEF SessionsInv
    <3>2. QED
      BY <2>1, <3>1 DEF Session, Timely, Single, Overtaken, Lingering, Spoken
  <2>4. ASSUME NEW w \in Worker, NEW a \in Account PROVE Entries(w, a)'
    <3>1. Entries(w, a)
      BY DEF SessionsInv
    <3>2. QED
      BY <2>1, <3>1 DEF Entries
  <2>5. QED
    BY <2>1, <2>2, <2>3, <2>4 DEF SessionsInv
<1>6. QED
  BY <1>1, <1>2, <1>3, <1>4, <1>5 DEF SessionsNext

\* The invariant bounds how long a locked account stays connected.
LEMMA InvLockedOut == SessionsInv => LockedOut
<1> SUFFICES ASSUME SessionsInv, NEW t \in Tab \ unsure, Connected(t), ~ active[OwnerOf[t]]
             PROVE  now <= switched[OwnerOf[t]].at + Grace
  BY DEF LockedOut
<1>1. /\ Session(t) /\ now \in Nat /\ tab[t].asked \in Nat /\ tab[t].wakes \in Nat
      /\ switched[OwnerOf[t]].at \in Nat
  BY TabFacts
<1>2. CASE tab[t].at = "open"
  <2>1. now <= tab[t].wakes /\ tab[t].wakes <= switched[OwnerOf[t]].at + Spoken + 2 * HeartBeat - 1
    BY <1>1, <1>2 DEF Session, Timely, Lingering
  <2>2. QED
    BY <1>1, <2>1, SpokenFacts, SessionConstants
<1>3. CASE tab[t].at = "checking"
  <2>1. /\ now <= tab[t].asked + QueryTime
        /\ tab[t].asked <= switched[OwnerOf[t]].at + Spoken + 2 * HeartBeat - 1
    BY <1>1, <1>3 DEF Session, Timely, Lingering, Querying
  <2>2. QED
    BY <1>1, <2>1, SpokenFacts, SessionConstants
<1>4. QED
  BY <1>2, <1>3 DEF Connected

\* A locked account loses its sockets within Grace: what its caches and queries
\* still say for it, two heartbeats and a query, unless a check failed.
THEOREM LockedAccountsLeave == SessionsSpec => []LockedOut
BY SessionsInitInv, SessionsStep, InvLockedOut, PTL DEF SessionsSpec

-----------------------------------------------------------------------------
\* What a step of a tab does to it, in the words of ForCause.
Because(t) ==
    /\ opened'[t] # opened[t] => MayOpen(t)
    /\ Connected(t) /\ tab'[t] = Stopped(tab[t]) => MayClose(t)

\* A tab that opens nothing and is neither connected nor stopped needs no cause.
LEMMA NoCause ==
    ASSUME SessionsInv, NEW t \in Tab, opened'[t] = opened[t],
           \/ ~ Connected(t)
           \/ tab'[t].at # "stopped"
           \/ tab'[t] = Reconnected(tab[t])
    PROVE  Because(t)
<1>1. tab[t] \in TabType /\ tab[t].retries \in Nat
  BY TabFacts
<1>2. Stopped(tab[t]).at = "stopped" /\ Stopped(tab[t]).retries = tab[t].retries
      /\ Reconnected(tab[t]).retries = tab[t].retries + 1
  BY <1>1, StoppedFacts, ReconnectedFacts
<1>3. Connected(t) => tab'[t] # Stopped(tab[t])
  BY <1>1, <1>2
<1>4. QED
  BY <1>3 DEF Because

\* A socket opens with a ticket that was held, and on the word of a cache or a
\* query that is not older than they may be.
LEMMA OpensForCause ==
    ASSUME SessionsInv, NEW t \in Tab, Loaded(t) \/ (\E w \in Worker : Handshake(t, w))
    PROVE  Because(t)
<1> DEFINE s == tab[t]
           a == OwnerOf[t]
<1>1. /\ s \in TabType /\ Session(t) /\ a \in Account /\ now \in Nat /\ s.asked \in Nat
      /\ ticket[t] \in Nat /\ issued[t] \in Nat /\ switched[a].at \in Nat
  BY TabFacts
<1>2. ~ Connected(t)
  BY DEF Loaded, Handshake, Connected
<1>3. UserTTL - 1 <= Later(UserTTL - 1, QueryTime) /\ QueryTime <= Later(UserTTL - 1, QueryTime)
      /\ Later(UserTTL - 1, QueryTime) \in Nat
  BY SessionConstants DEF Later
<1>4. ASSUME Loaded(t) PROVE MayOpen(t) \/ opened' = opened
  <2>1. CASE s.seen = "active"
    <3>1. /\ opened[t] = 0 /\ s.asked < issued[t] + TicketTTL /\ now <= s.asked + QueryTime
          /\ ~ active[a] => s.asked <= switched[a].at
      BY <1>1, <1>4, <2>1 DEF Loaded, Session, Timely, Single, Overtaken, Querying
    <3>2. now < issued[t] + TicketTTL + QueryTime
      BY <1>1, <3>1, SessionConstants
    <3>3. ~ active[a] => now <= switched[a].at + Later(UserTTL - 1, QueryTime)
      BY <1>1, <1>3, <3>1, SessionConstants
    <3>4. QED
      BY <3>1, <3>2, <3>3 DEF MayOpen
  <2>2. CASE s.seen # "active"
    BY <1>4, <2>2 DEF Loaded
  <2>3. QED
    BY <2>1, <2>2
<1>5. ASSUME NEW w \in Worker, Handshake(t, w) PROVE MayOpen(t) \/ opened' = opened
  <2>1. CASE Held(t) /\ known[w][a] > now
    <3>1. ticket[t] > now /\ opened[t] = 0 /\ ticket[t] = issued[t] + TicketTTL
      BY <1>1, <2>1 DEF Held, Session, Single
    <3>2. now < issued[t] + TicketTTL + QueryTime
      BY <1>1, <3>1, SessionConstants
    <3>3. known[w][a] \in Nat /\ (~ active[a] => known[w][a] <= switched[a].at + UserTTL)
      BY <1>1 DEF SessionsInv, SessionsType, Entries
    <3>4. ~ active[a] => now <= switched[a].at + Later(UserTTL - 1, QueryTime)
      BY <1>1, <1>3, <2>1, <3>3, SessionConstants
    <3>5. QED
      BY <3>1, <3>2, <3>4 DEF MayOpen
  <2>2. CASE ~ (Held(t) /\ known[w][a] > now)
    BY <1>5, <2>2 DEF Handshake
  <2>3. QED
    BY <2>1, <2>2
<1>6. QED
  BY <1>2, <1>4, <1>5 DEF Because

\* A session is ended on the word of a cache or of a query that found it locked.
LEMMA ClosesForCause ==
    ASSUME SessionsInv, NEW t \in Tab, Revalidated(t) \/ Turn(t)
    PROVE  Because(t)
<1> DEFINE s == tab[t]
           a == OwnerOf[t]
           c == checked[s.worker][a]
<1>1. /\ s \in TabType /\ Session(t) /\ a \in Account /\ now \in Nat /\ s.asked \in Nat
      /\ switched[a].at \in Nat /\ switched[a].times \in Nat
  BY TabFacts
<1>2. CheckTTL - 1 <= Later(CheckTTL - 1, QueryTime) /\ QueryTime <= Later(CheckTTL - 1, QueryTime)
      /\ Later(CheckTTL - 1, QueryTime) \in Nat
  BY SessionConstants DEF Later
<1>3. opened' = opened
  BY DEF Revalidated, Turn, Ticketing
<1>4. tab \in [Tab -> TabType]
  BY DEF SessionsInv, SessionsType
<1>5. ASSUME Revalidated(t) PROVE MayClose(t) \/ tab'[t].at # "stopped"
  <2>1. CASE s.seen = "active"
    <3>1. tab'[t] = Listening(s)
      BY <1>4, <1>5, <2>1 DEF Revalidated
    <3>2. QED
      BY <1>1, <3>1, ListeningFacts
  <2>2. CASE s.seen # "active"
    <3>1. s.seen = "locked"
      BY <1>1, <1>5, <2>2 DEF Revalidated, TabType
    <3>2. /\ now <= s.asked + QueryTime
          /\ active[a] => switched[a].times > 0 /\ s.asked <= switched[a].at
      BY <1>1, <1>5, <3>1 DEF Revalidated, Session, Timely, Overtaken, Querying
    <3>3. active[a] => switched[a].times > 0
                       /\ now <= switched[a].at + Later(CheckTTL - 1, QueryTime)
      BY <1>1, <1>2, <3>2, SessionConstants
    <3>4. QED
      BY <3>3 DEF MayClose
  <2>3. QED
    BY <2>1, <2>2
<1>6. ASSUME Turn(t) PROVE MayClose(t) \/ tab'[t].at # "stopped"
  <2>1. s.at = "open" /\ s.worker \in Worker
    BY <1>1, <1>6 DEF Turn, Session, Timely
  <2>2. CASE ~ Due(s)
    <3>1. tab'[t] = Listening(s)
      BY <1>4, <1>6, <2>2 DEF Turn
    <3>2. QED
      BY <1>1, <3>1, ListeningFacts
  <2>3. CASE Due(s) /\ c.until > now /\ c.active
    <3> DEFINE one == Listening(s)
               new == [one EXCEPT !.validated = now]
    <3>1. tab'[t] = new
      BY <1>4, <1>6, <2>3 DEF Turn
    <3>2. one \in TabType /\ one.at = "open"
      BY <1>1, ListeningFacts
    <3> HIDE DEF one
    <3>3. new.at = "open"
      BY <1>1, <3>2, TabValidated
    <3>4. QED
      BY <3>1, <3>3
  <2>4. CASE Due(s) /\ c.until > now /\ ~ c.active
    <3>1. Entries(s.worker, a) /\ c \in [until : Nat, active : BOOLEAN]
      BY <1>1, <2>1 DEF SessionsInv, SessionsType
    <3>2. c.until \in Nat /\ c.until > 0
      BY <1>1, <2>4, <3>1
    <3>3. active[a] => switched[a].times > 0 /\ c.until <= switched[a].at + CheckTTL
      BY <2>4, <3>1, <3>2 DEF Entries
    <3> DEFINE until == c.until
    <3>4. until \in Nat /\ until > now
          /\ (active[a] => switched[a].times > 0 /\ until <= switched[a].at + CheckTTL)
      BY <2>4, <3>2, <3>3
    <3> HIDE DEF until
    <3>5. active[a] => switched[a].times > 0
                       /\ now <= switched[a].at + Later(CheckTTL - 1, QueryTime)
      BY <1>1, <1>2, <3>4, SessionConstants
    <3>6. QED
      BY <3>5 DEF MayClose
  <2>5. CASE Due(s) /\ ~ (c.until > now)
    <3> DEFINE one == [s EXCEPT !.at = "checking"]
               two == [one EXCEPT !.asked = now]
               new == [two EXCEPT !.validated = now]
    <3>1. tab'[t] = new
      BY <1>4, <1>6, <2>5 DEF Turn
    <3>2. one \in TabType /\ one.at = "checking"
      BY <1>1, TabAt
    <3> HIDE DEF one
    <3>3. two \in TabType /\ two.at = "checking"
      BY <1>1, <3>2, TabAsked
    <3> HIDE DEF two
    <3>4. new.at = "checking"
      BY <1>1, <3>3, TabValidated
    <3>5. QED
      BY <3>1, <3>4
  <2>6. QED
    BY <2>2, <2>3, <2>4, <2>5
<1>7. CASE MayClose(t)
  BY <1>3, <1>7 DEF Because
<1>8. CASE tab'[t].at # "stopped"
  BY <1>3, <1>8, NoCause
<1>9. QED
  BY <1>5, <1>6, <1>7, <1>8

\* Whatever else a tab does needs no cause.
LEMMA OthersNeedNone ==
    ASSUME SessionsInv, NEW t \in Tab,
           Issue(t) \/ HandshakeFails(t) \/ Read(t) \/ QueryFails(t) \/ Drop(t)
    PROVE  Because(t)
<1>1. tab[t] \in TabType /\ now \in Nat /\ tab \in [Tab -> TabType]
  BY TabFacts DEF SessionsInv, SessionsType
<1>2. opened' = opened
  BY DEF Issue, HandshakeFails, Read, QueryFails, Drop, Ticketing
<1>3. CASE Issue(t) \/ HandshakeFails(t)
  <2>1. ~ Connected(t)
    BY <1>3 DEF Issue, HandshakeFails, Connected
  <2>2. QED
    BY <1>2, <2>1, NoCause
<1>4. CASE Read(t)
  <2> DEFINE seen == IF active[OwnerOf[t]] THEN "active" ELSE "locked"
             s == [tab[t] EXCEPT !.seen = seen]
  <2>1. tab'[t] = s /\ tab[t].at \in Querying
    BY <1>1, <1>4 DEF Read
  <2>2. seen \in {"unread", "active", "locked"}
    OBVIOUS
  <2> HIDE DEF seen
  <2>3. s.at = tab[t].at
    BY <1>1, <2>2, TabSeen
  <2>4. tab'[t].at # "stopped"
    BY <2>1, <2>3 DEF Querying
  <2>5. QED
    BY <1>2, <2>4, NoCause
<1>5. CASE QueryFails(t)
  <2>1. tab'[t] = Reconnected(tab[t]) \/ tab'[t] = Listening(tab[t])
    BY <1>1, <1>5 DEF QueryFails
  <2>2. Listening(tab[t]).at = "open"
    BY <1>1, ListeningFacts
  <2>3. QED
    BY <1>2, <2>1, <2>2, NoCause
<1>6. CASE Drop(t)
  <2>1. tab'[t] = Reconnected(tab[t])
    BY <1>1, <1>6 DEF Drop
  <2>2. QED
    BY <1>2, <2>1, NoCause
<1>7. QED
  BY <1>3, <1>4, <1>5, <1>6

\* No step of a tab opens or closes the socket of another.
LEMMA AnotherStands ==
    ASSUME SessionsInv, NEW t \in Tab, NEW u \in Tab, t # u, TabStep(u)
    PROVE  tab'[t] = tab[t] /\ opened'[t] = opened[t]
<1>1. \E s : tab' = [tab EXCEPT ![u] = s]
  <2>1. CASE Issue(u)
    BY <2>1 DEF Issue
  <2>2. CASE HandshakeFails(u) \/ Drop(u)
    BY <2>2 DEF HandshakeFails, Drop
  <2>3. CASE Read(u)
    BY <2>3 DEF Read
  <2>4. CASE Loaded(u)
    BY <2>4 DEF Loaded
  <2>5. CASE Revalidated(u)
    BY <2>5 DEF Revalidated
  <2>6. CASE QueryFails(u)
    BY <2>6 DEF QueryFails
  <2>7. CASE Turn(u)
    BY <2>7 DEF Turn
  <2>8. ASSUME NEW w \in Worker, Handshake(u, w) PROVE \E s : tab' = [tab EXCEPT ![u] = s]
    BY <2>8 DEF Handshake
  <2>9. QED
    BY <2>1, <2>2, <2>3, <2>4, <2>5, <2>6, <2>7, <2>8 DEF TabStep
<1>2. opened' = opened \/ opened' = [opened EXCEPT ![u] = @ + 1]
  BY DEF TabStep, Issue, HandshakeFails, Drop, Read, Loaded, Revalidated, QueryFails, Turn,
         Handshake, Ticketing
<1>3. QED
  BY <1>1, <1>2 DEF SessionsInv, SessionsType

\* Every step has its cause.
LEMMA StepsForCause ==
    ASSUME SessionsInv, SessionsNext, NEW t \in Tab
    PROVE  Because(t)
<1>1. ASSUME NEW u \in Tab, TabStep(u) PROVE Because(t)
  <2>1. CASE u = t
    BY <1>1, <2>1, OpensForCause, ClosesForCause, OthersNeedNone DEF TabStep
  <2>2. CASE u # t
    <3>1. tab'[t] = tab[t] /\ opened'[t] = opened[t]
      BY <1>1, <2>2, AnotherStands
    <3>2. QED
      BY <3>1, NoCause DEF Connected
  <2>3. QED
    BY <2>1, <2>2
<1>2. ASSUME NEW w \in Worker, Restart(w) PROVE Because(t)
  <2>1. opened' = opened /\ tab'[t] \in {tab[t], Reconnected(tab[t])}
    BY <1>2 DEF Restart, Ticketing
  <2>2. QED
    BY <2>1, NoCause DEF Connected
<1>3. ASSUME NEW a \in Account, Switch(a) PROVE Because(t)
  <2>1. opened' = opened /\ tab' = tab
    BY <1>3 DEF Switch, Ticketing
  <2>2. QED
    BY <2>1, NoCause DEF Connected
<1>4. CASE Tick
  <2>1. opened' = opened /\ tab' = tab
    BY <1>4 DEF Tick, Ticketing
  <2>2. QED
    BY <2>1, NoCause DEF Connected
<1>5. QED
  BY <1>1, <1>2, <1>3, <1>4 DEF SessionsNext

\* No socket opens but once per ticket, soon after it was issued and for an account
\* that is, or just was, active; and none is closed for good but because its account
\* is, or just was, locked.
THEOREM SessionsEndForCause == SessionsSpec => ForCause
<1>1. SessionsInv /\ [SessionsNext]_sessionVars =>
      [\A t \in Tab :
          /\ opened'[t] # opened[t] => MayOpen(t)
          /\ Connected(t) /\ tab'[t] = Stopped(tab[t]) => MayClose(t)]_sessionVars
  BY StepsForCause DEF Because
<1>2. QED
  BY <1>1, SessionsInitInv, SessionsStep, PTL DEF SessionsSpec, ForCause

-----------------------------------------------------------------------------
(* The rate limiter *)

LoginType == [at : {"idle", "name", "address", "verify", "record", "recorded"},
              name : Name \cup {"none"}, address : Address \cup {"none"}, allowed : BOOLEAN]

CounterType == [count : Nat, until : Nat]
EntryType == [count : Nat, until : Nat \cup {-1}]
HitType == Nat \X Nat

LimiterType ==
    /\ clock \in Nat
    /\ redis \in [Key -> CounterType]
    /\ memory \in [Key -> EntryType]
    /\ up \in BOOLEAN
    /\ login \in [Caller -> LoginType]
    /\ \A c \in Caller : login[c].at # "idle" => /\ login[c].name \in Name
                                                 /\ login[c].address \in Address
    /\ granted \in [Key -> SUBSET HitType]
    /\ last \in [Key -> Nat \cup {-1}]

\* The logins that were let past the peek of a key and may still record there.
Under(l, k) ==
    \/ /\ l.name = k
       /\ l.at \in {"verify", "record"} \/ (l.at = "address" /\ l.allowed)
    \/ /\ l.address = k
       /\ l.at \in {"verify", "record", "recorded"}

Passed(logins, k) == {c \in Caller : Under(logins[c], k)}

\* What WithinLimit allows of a key in one window.
Room(k) == Limit[k].max + (IF k \in {Minute, Day} THEN 0 ELSE InFlight)

\* The hits G of a key that are within its window at time t, those of the window
\* of memory that ends at `until`, and those before it.
Fresh(G, t, k) == {h \in G : h[1] + Limit[k].window > t}
Present(G, t, k, until) == {h \in Fresh(G, t, k) : h[1] >= until - Limit[k].window}
Former(G, t, k, until) == {h \in Fresh(G, t, k) : h[1] < until - Limit[k].window}

\* Hits are told apart by their time and their number.
AtTime(G, t) == {h \in G : h[1] = t}

Numbered(G, t) ==
    /\ IsFiniteSet(G) /\ G \in SUBSET HitType
    /\ \A h \in G : h[1] <= t
    /\ \A h \in AtTime(G, t) : h[2] < Cardinality(AtTime(G, t))

\* In Redis a counter counts every hit of its window, and outlives them.  The
\* number of logins that are past the peek is p.
InOne(G, p, counter, t, k) ==
    /\ \A h \in G : h[1] + Limit[k].window <= counter.until
    /\ counter.until > t => Cardinality(Fresh(G, t, k)) <= counter.count
    /\ Cardinality(Fresh(G, t, k)) + p <= Room(k)

\* In memory it counts those of the window that is open; those before it are of
\* the window before.
InTwo(G, p, entry, t, k) ==
    /\ \A h \in G : h[1] <= entry.until
    /\ entry.until >= t =>
         /\ Cardinality(Present(G, t, k, entry.until)) <= entry.count
         /\ Cardinality(Present(G, t, k, entry.until)) + p <= Room(k)
         /\ Cardinality(Former(G, t, k, entry.until)) <= Room(k)
    /\ entry.until < t => Cardinality(Fresh(G, t, k)) <= Room(k)

\* No counter outlives a window since its key was last hit, at time x.
Renews(x, counter, entry, t, k) ==
    /\ x <= t
    /\ counter.until > 0 => x # -1 /\ counter.until <= x + Limit[k].window
    /\ entry.until >= 0 => x # -1 /\ entry.until <= x + Limit[k].window

KeyInv(k) ==
    /\ Numbered(granted[k], clock)
    /\ Renews(last[k], redis[k], memory[k], clock, k)
    /\ up => InOne(granted[k], Cardinality(Passed(login, k)), redis[k], clock, k)
    /\ ~ up => InTwo(granted[k], Cardinality(Passed(login, k)), memory[k], clock, k)

LimiterInv == LimiterType /\ \A k \in Key : KeyInv(k)

-----------------------------------------------------------------------------
LEMMA LimitFacts ==
    \A k \in Key : /\ Limit[k].max \in Nat /\ Limit[k].max >= 1
                   /\ Limit[k].window \in Nat /\ Limit[k].window >= 1
BY RateLimiterAssumption

LEMMA CallerFacts == Cardinality(Caller) \in Nat
BY RateLimiterAssumption, FS_CardinalityType

\* There is room for every login, and none of them passes under a question's key.
LEMMA PassedFacts ==
    ASSUME NEW logins, NEW k \in Key,
           \A c \in Caller : logins[c].at # "idle" => logins[c].name \in Name
                                                      /\ logins[c].address \in Address
    PROVE  /\ IsFiniteSet(Passed(logins, k))
           /\ Cardinality(Passed(logins, k)) \in Nat
           /\ Cardinality(Passed(logins, k)) <= Cardinality(Caller)
           /\ k \in {Minute, Day} => Passed(logins, k) = {} /\ Cardinality(Passed(logins, k)) = 0
           /\ Cardinality(Passed(logins, k)) <= Room(k) /\ Room(k) \in Int
<1>1. Passed(logins, k) \in SUBSET Caller
  BY DEF Passed
<1>2. /\ IsFiniteSet(Passed(logins, k))
      /\ Cardinality(Passed(logins, k)) <= Cardinality(Caller)
  BY <1>1, RateLimiterAssumption, FS_Subset
<1>3. Cardinality(Passed(logins, k)) \in Nat
  BY <1>2, FS_CardinalityType
<1>4. k \in {Minute, Day} => Passed(logins, k) = {}
  BY RateLimiterAssumption DEF Passed, Under
<1>5. k \in {Minute, Day} => Cardinality(Passed(logins, k)) = 0
  BY <1>4, FS_EmptySet
<1>6. Cardinality(Passed(logins, k)) <= Room(k) /\ Room(k) \in Int
  BY <1>2, <1>3, <1>5, LimitFacts, CallerFacts DEF Room, InFlight
<1>7. QED
  BY <1>2, <1>3, <1>4, <1>5, <1>6

\* The parts of a finite set of hits are finite.
LEMMA FreshFacts ==
    ASSUME NEW G, IsFiniteSet(G), NEW t, NEW k, NEW until
    PROVE  /\ IsFiniteSet(Fresh(G, t, k)) /\ Cardinality(Fresh(G, t, k)) \in Nat
           /\ IsFiniteSet(Present(G, t, k, until)) /\ Cardinality(Present(G, t, k, until)) \in Nat
           /\ IsFiniteSet(Former(G, t, k, until)) /\ Cardinality(Former(G, t, k, until)) \in Nat
           /\ IsFiniteSet(AtTime(G, t)) /\ Cardinality(AtTime(G, t)) \in Nat
<1>1. /\ Fresh(G, t, k) \in SUBSET G
      /\ Present(G, t, k, until) \in SUBSET G
      /\ Former(G, t, k, until) \in SUBSET G
      /\ AtTime(G, t) \in SUBSET G
  BY DEF Fresh, Present, Former, AtTime
<1>2. QED
  BY <1>1, FS_Subset, FS_CardinalityType

\* Hits that are out of the window may be forgotten.
LEMMA FreshOfFresh ==
    ASSUME NEW G, NEW t \in Nat, NEW k \in Key, G \in SUBSET HitType, NEW until
    PROVE  /\ Fresh(Fresh(G, t, k), t, k) = Fresh(G, t, k)
           /\ Present(Fresh(G, t, k), t, k, until) = Present(G, t, k, until)
           /\ Former(Fresh(G, t, k), t, k, until) = Former(G, t, k, until)
           /\ AtTime(Fresh(G, t, k), t) = AtTime(G, t)
<1>1. Fresh(Fresh(G, t, k), t, k) = Fresh(G, t, k)
  BY DEF Fresh
<1>2. AtTime(Fresh(G, t, k), t) = AtTime(G, t)
  BY LimitFacts DEF Fresh, AtTime
<1>3. QED
  BY <1>1, <1>2 DEF Present, Former

LEMMA TrimNumbered ==
    ASSUME NEW G, NEW t \in Nat, NEW k \in Key, Numbered(G, t)
    PROVE  Numbered(Fresh(G, t, k), t)
<1>1. G \in SUBSET HitType /\ IsFiniteSet(G)
  BY DEF Numbered
<1>2. AtTime(Fresh(G, t, k), t) = AtTime(G, t) /\ IsFiniteSet(Fresh(G, t, k))
  BY <1>1, FreshOfFresh, FreshFacts
<1>3. Fresh(G, t, k) \subseteq G
  BY DEF Fresh
<1>4. QED
  BY <1>1, <1>2, <1>3 DEF Numbered

\* The next hit is a new one.
LEMMA NextHit ==
    ASSUME NEW G, NEW t \in Nat, NEW k \in Key, Numbered(G, t),
           NEW h, h = <<t, Cardinality(AtTime(G, t))>>,
           NEW H, H = Fresh(G, t, k) \cup {h}
    PROVE  /\ Numbered(H, t)
           /\ Fresh(H, t, k) = H
           /\ Cardinality(H) = Cardinality(Fresh(G, t, k)) + 1
           /\ h \notin G
<1> DEFINE n == Cardinality(AtTime(G, t))
           F == Fresh(G, t, k)
<1>1. G \in SUBSET HitType /\ IsFiniteSet(G) /\ n \in Nat /\ IsFiniteSet(AtTime(G, t))
  BY FreshFacts DEF Numbered
<1>2. IsFiniteSet(F) /\ F \subseteq G /\ AtTime(F, t) = AtTime(G, t) /\ Fresh(F, t, k) = F
  <2>1. IsFiniteSet(F)
    BY <1>1, FreshFacts
  <2>2. F \subseteq G
    BY DEF Fresh
  <2>3. AtTime(F, t) = AtTime(G, t) /\ Fresh(F, t, k) = F
    BY <1>1, FreshOfFresh
  <2>4. QED
    BY <2>1, <2>2, <2>3
<1>3. \A g \in AtTime(G, t) : g[2] < n
  BY DEF Numbered
<1> HIDE DEF F
<1>4. h[1] = t /\ h[2] = n /\ h \in HitType
  BY <1>1 DEF HitType
<1> HIDE DEF n
<1>5. h \notin G
  BY <1>1, <1>3, <1>4 DEF AtTime
<1>6. H = F \cup {h}
  BY DEF F
<1>7. IsFiniteSet(H) /\ Cardinality(H) = Cardinality(F) + 1
  <2>1. h \notin F /\ IsFiniteSet(F)
    BY <1>2, <1>5
  <2>2. QED
    BY <1>6, <2>1, FS_AddElement
<1>8. AtTime(H, t) = AtTime(G, t) \cup {h}
  BY <1>2, <1>4, <1>6 DEF AtTime
<1>9. Cardinality(AtTime(H, t)) = n + 1
  <2>1. h \notin AtTime(G, t)
    BY <1>5 DEF AtTime
  <2>2. QED
    BY <1>1, <1>8, <2>1, FS_AddElement DEF n
<1>10. \A g \in AtTime(H, t) : g[2] < n + 1
  <2>1. \A g \in AtTime(G, t) : g[2] \in Nat
    BY <1>1 DEF AtTime, HitType
  <2>2. QED
    BY <1>1, <1>3, <1>4, <1>8, <2>1
<1>11. Numbered(H, t)
  <2>1. H \in SUBSET HitType /\ \A g \in H : g[1] <= t
    BY <1>1, <1>2, <1>4, <1>6 DEF Numbered
  <2>2. QED
    BY <1>7, <1>9, <1>10, <2>1 DEF Numbered
<1>12. Fresh(H, t, k) = H
  <2>1. h[1] + Limit[k].window > t
    BY <1>4, LimitFacts
  <2>2. \A g \in F : g[1] + Limit[k].window > t
    BY <1>2 DEF Fresh
  <2>3. QED
    BY <1>6, <2>1, <2>2 DEF Fresh
<1>13. QED
  BY <1>5, <1>7, <1>11, <1>12 DEF F

LEMMA FreshCount ==
    ASSUME NEW G, NEW t \in Nat, NEW k \in Key, Numbered(G, t), NEW until
    PROVE  /\ Cardinality(Fresh(G, t, k)) \in Nat
           /\ Cardinality(Present(G, t, k, until)) \in Nat
           /\ Cardinality(Former(G, t, k, until)) \in Nat
BY FreshFacts DEF Numbered

\* An expired counter has no hits left in its window.
LEMMA ExpiredOne ==
    ASSUME NEW G, NEW p, NEW counter \in CounterType, NEW t \in Nat, NEW k \in Key,
           Numbered(G, t), InOne(G, p, counter, t, k), ~ (counter.until > t)
    PROVE  Fresh(G, t, k) = {} /\ Cardinality(Fresh(G, t, k)) = 0
<1>1. G \in SUBSET HitType /\ \A h \in G : h[1] + Limit[k].window <= counter.until
  BY DEF Numbered, InOne
<1>2. \A h \in G : ~ (h[1] + Limit[k].window > t)
  BY <1>1, LimitFacts DEF HitType, CounterType
<1>3. Fresh(G, t, k) = {}
  BY <1>2 DEF Fresh
<1>4. QED
  BY <1>3, FS_EmptySet

\* Redis: a hit that is granted, one that is not, and no hit.
LEMMA HitOne ==
    ASSUME NEW G, NEW p, NEW counter \in CounterType, NEW t \in Nat, NEW k \in Key,
           Numbered(G, t), InOne(G, p, counter, t, k),
           NEW q \in Nat, Cardinality(Fresh(G, t, k)) + 1 + q <= Room(k),
           NEW h, h = <<t, Cardinality(AtTime(G, t))>>,
           NEW H, H = Fresh(G, t, k) \cup {h},
           NEW new \in CounterType, new.until = t + Limit[k].window,
           new.count = (IF counter.until > t THEN counter.count ELSE 0) + 1
    PROVE  InOne(H, q, new, t, k)
<1>1. Numbered(H, t) /\ Cardinality(Fresh(H, t, k)) = Cardinality(Fresh(G, t, k)) + 1
  BY NextHit
<1>2. \A g \in H : g[1] + Limit[k].window <= new.until
  BY <1>1, LimitFacts DEF Numbered, HitType
<1> DEFINE n == Cardinality(Fresh(G, t, k))
<1>3. n \in Nat
  BY FreshCount
<1>4. n <= (IF counter.until > t THEN counter.count ELSE 0)
  <2>1. CASE counter.until > t
    BY <2>1 DEF InOne
  <2>2. CASE ~ (counter.until > t)
    BY <2>2, ExpiredOne
  <2>3. QED
    BY <2>1, <2>2
<1> DEFINE m == Cardinality(Fresh(H, t, k))
<1>5. m = n + 1
  BY <1>1
<1> HIDE DEF n, m
<1>6. m <= new.count
  BY <1>3, <1>4, <1>5 DEF CounterType
<1>7. m + q <= Room(k)
  <2>1. n + 1 + q <= Room(k)
    BY DEF n
  <2>2. QED
    BY <2>1, <1>5
<1>8. QED
  BY <1>2, <1>6, <1>7 DEF InOne, m

LEMMA CountOne ==
    ASSUME NEW G, NEW p, NEW counter \in CounterType, NEW t \in Nat, NEW k \in Key,
           Numbered(G, t), InOne(G, p, counter, t, k),
           NEW q \in Nat, Cardinality(Fresh(G, t, k)) + q <= Room(k),
           NEW H, H = Fresh(G, t, k),
           NEW new \in CounterType, new.until = t + Limit[k].window,
           new.count = (IF counter.until > t THEN counter.count ELSE 0) + 1
    PROVE  InOne(H, q, new, t, k)
<1>1. Numbered(H, t)
  BY TrimNumbered
<1>2. \A h \in H : h[1] + Limit[k].window <= new.until
  BY <1>1, LimitFacts DEF Numbered, HitType
<1> DEFINE n == Cardinality(Fresh(G, t, k))
<1>3. n \in Nat
  BY FreshCount
<1>4. n <= (IF counter.until > t THEN counter.count ELSE 0)
  <2>1. CASE counter.until > t
    BY <2>1 DEF InOne
  <2>2. CASE ~ (counter.until > t)
    BY <2>2, ExpiredOne
  <2>3. QED
    BY <2>1, <2>2
<1>5. Fresh(H, t, k) = Fresh(G, t, k)
  BY FreshOfFresh DEF Numbered
<1> HIDE DEF n
<1>6. n <= new.count
  BY <1>3, <1>4 DEF CounterType
<1>7. QED
  BY <1>2, <1>5, <1>6 DEF InOne, n

LEMMA QuietOne ==
    ASSUME NEW G, NEW p, NEW counter, NEW t \in Nat, NEW k \in Key,
           Numbered(G, t), InOne(G, p, counter, t, k),
           NEW q, Cardinality(Fresh(G, t, k)) + q <= Room(k),
           NEW H, H = G \/ H = Fresh(G, t, k)
    PROVE  InOne(H, q, counter, t, k)
<1>1. Fresh(H, t, k) = Fresh(G, t, k) /\ H \subseteq G
  BY FreshOfFresh DEF Numbered, Fresh
<1>2. QED
  BY <1>1 DEF InOne

\* Memory: the same.
LEMMA HitTwo ==
    ASSUME NEW G, NEW p, NEW entry \in EntryType, NEW t \in Nat, NEW k \in Key,
           Numbered(G, t), InTwo(G, p, entry, t, k), entry.until <= t + Limit[k].window,
           NEW q \in Nat, 1 + q <= Room(k),
           entry.until >= t => Cardinality(Present(G, t, k, entry.until)) + 1 + q <= Room(k),
           NEW h, h = <<t, Cardinality(AtTime(G, t))>>,
           NEW H, H = Fresh(G, t, k) \cup {h},
           NEW new, new = IF entry.until < t
                          THEN [count |-> 1, until |-> t + Limit[k].window]
                          ELSE [entry EXCEPT !.count = @ + 1]
    PROVE  InTwo(H, q, new, t, k)
<1> DEFINE w == Limit[k].window
           u == entry.until
<1>1. Numbered(H, t) /\ Fresh(H, t, k) = H /\ h \notin G
  BY NextHit
<1>2. H = Fresh(G, t, k) \cup {h} /\ h[1] = t
  OBVIOUS
<1>3. w \in Nat /\ w >= 1 /\ u \in Int /\ G \in SUBSET HitType /\ H \in SUBSET HitType
  BY <1>1, LimitFacts DEF EntryType, Numbered
<1>4. IsFiniteSet(G) /\ Fresh(G, t, k) \subseteq G
  BY DEF Numbered, Fresh
<1>5. \A g \in H : g \in HitType /\ g[1] \in Nat /\ g[1] <= t
  BY <1>1 DEF Numbered, HitType
<1>6. CASE ~ (u < t)
  <2>1. new.until = u /\ new.count = entry.count + 1 /\ u >= t
    BY <1>3, <1>6 DEF EntryType
  <2>2. h[1] >= u - w /\ ~ (h[1] < u - w)
    BY <1>2, <1>3
  <2>3. Present(H, t, k, u) = Present(G, t, k, u) \cup {h}
    BY <1>1, <1>2, <2>2 DEF Present
  <2>4. Former(H, t, k, u) = Former(G, t, k, u)
    BY <1>1, <1>2, <2>2 DEF Former
  <2> DEFINE P == Present(G, t, k, u)
  <2>5. IsFiniteSet(P) /\ Cardinality(P) \in Nat /\ h \notin P
    <3>1. P \subseteq G
      BY <1>4 DEF Present
    <3>2. QED
      BY <1>1, <1>4, <3>1, FreshFacts
  <2>6. Cardinality(P) <= entry.count /\ Cardinality(P) + 1 + q <= Room(k)
    BY <2>1 DEF InTwo
  <2>7. Cardinality(Former(G, t, k, u)) <= Room(k)
    BY <2>1 DEF InTwo
  <2> HIDE DEF P
  <2>8. Cardinality(P \cup {h}) = Cardinality(P) + 1
    BY <2>5, FS_AddElement
  <2>9. Cardinality(P \cup {h}) <= new.count
    BY <2>1, <2>5, <2>6, <2>8 DEF EntryType
  <2>10. Cardinality(P \cup {h}) + q <= Room(k)
    BY <2>5, <2>6, <2>8
  <2>11. \A g \in H : g[1] <= new.until
    BY <1>3, <1>5, <2>1
  <2>12. ~ (new.until < t)
    BY <1>6, <2>1
  <2>13. QED
    BY <2>1, <2>3, <2>4, <2>7, <2>9, <2>10, <2>11, <2>12 DEF InTwo, P
<1>7. CASE u < t
  <2>1. new.until = t + w /\ new.count = 1
    BY <1>7
  <2>2. \A g \in Fresh(G, t, k) : g[1] <= u
    BY <1>4 DEF InTwo
  <2>3. \A g \in Fresh(G, t, k) : g[1] \in Nat /\ g[1] < t
    BY <1>3, <1>4, <1>5, <1>2, <1>7, <2>2
  <2>4. \A g \in Fresh(G, t, k) : g[1] < (t + w) - w /\ ~ (g[1] >= (t + w) - w)
    BY <1>3, <2>3
  <2>5. h[1] >= (t + w) - w /\ ~ (h[1] < (t + w) - w)
    BY <1>2, <1>3
  <2>6. Present(H, t, k, t + w) = {h}
    BY <1>1, <1>2, <2>4, <2>5 DEF Present
  <2>7. Former(H, t, k, t + w) = Fresh(G, t, k)
    BY <1>1, <1>2, <2>4, <2>5 DEF Former
  <2>8. Cardinality({h}) = 1
    BY FS_Singleton
  <2>9. Cardinality(Fresh(G, t, k)) <= Room(k)
    BY <1>7 DEF InTwo
  <2>10. \A g \in H : g[1] <= new.until
    BY <1>3, <1>5, <2>1
  <2>11. ~ (new.until < t)
    BY <1>3, <2>1
  <2>12. Cardinality(Present(H, t, k, new.until)) = 1
    BY <2>1, <2>6, <2>8
  <2>13. Cardinality(Former(H, t, k, new.until)) <= Room(k)
    BY <2>1, <2>7, <2>9
  <2>14. QED
    BY <2>1, <2>10, <2>11, <2>12, <2>13 DEF InTwo
<1>8. QED
  BY <1>6, <1>7

LEMMA CountTwo ==
    ASSUME NEW G, NEW p, NEW entry \in EntryType, NEW t \in Nat, NEW k \in Key,
           Numbered(G, t), InTwo(G, p, entry, t, k),
           NEW q \in Nat, q <= Room(k),
           entry.until >= t => Cardinality(Present(G, t, k, entry.until)) + q <= Room(k),
           NEW H, H = Fresh(G, t, k),
           NEW new, new = IF entry.until < t
                          THEN [count |-> 1, until |-> t + Limit[k].window]
                          ELSE [entry EXCEPT !.count = @ + 1]
    PROVE  InTwo(H, q, new, t, k)
<1> DEFINE w == Limit[k].window
           u == entry.until
<1>1. Numbered(H, t) /\ Fresh(H, t, k) = H
  BY TrimNumbered, FreshOfFresh DEF Numbered
<1>2. w \in Nat /\ w >= 1 /\ u \in Int /\ G \in SUBSET HitType
  BY LimitFacts DEF EntryType, Numbered
<1>3. \A h \in H : h \in G /\ h[1] \in Nat /\ h[1] <= t /\ h[1] <= u
  BY <1>1, <1>2 DEF Numbered, HitType, Fresh, InTwo
<1>4. CASE ~ (u < t)
  <2>1. new.until = u /\ new.count = entry.count + 1 /\ u >= t
    BY <1>2, <1>4 DEF EntryType
  <2>2. /\ Present(H, t, k, u) = Present(G, t, k, u)
        /\ Former(H, t, k, u) = Former(G, t, k, u)
    BY <1>2, FreshOfFresh
  <2>3. Cardinality(Present(G, t, k, u)) \in Nat
    BY FreshCount
  <2> DEFINE m == Cardinality(Present(G, t, k, u))
  <2>4. m <= entry.count
    BY <2>1 DEF InTwo
  <2>5. m + q <= Room(k) /\ Cardinality(Former(G, t, k, u)) <= Room(k)
    BY <2>1 DEF InTwo
  <2>6. ~ (new.until < t)
    BY <1>4, <2>1
  <2> HIDE DEF m
  <2>7. m <= new.count
    BY <2>1, <2>3, <2>4 DEF EntryType, m
  <2>8. QED
    BY <1>3, <2>1, <2>2, <2>5, <2>6, <2>7 DEF InTwo, m
<1>5. CASE u < t
  <2>1. new.until = t + w /\ new.count = 1
    BY <1>5
  <2>2. \A h \in H : h[1] < (t + w) - w /\ ~ (h[1] >= (t + w) - w) /\ h[1] <= t + w
    BY <1>2, <1>3, <1>5
  <2>3. Present(H, t, k, t + w) = {} /\ Former(H, t, k, t + w) = H
    BY <1>1, <2>2 DEF Present, Former
  <2>4. Cardinality(Present(H, t, k, new.until)) = 0
    BY <2>1, <2>3, FS_EmptySet
  <2>5. Cardinality(H) <= Room(k)
    BY <1>5 DEF InTwo
  <2>6. ~ (new.until < t)
    BY <1>2, <2>1
  <2>7. \A h \in H : h[1] <= new.until
    BY <2>1, <2>2
  <2>8. QED
    BY <2>1, <2>3, <2>4, <2>5, <2>6, <2>7 DEF InTwo
<1>6. QED
  BY <1>4, <1>5

LEMMA QuietTwo ==
    ASSUME NEW G, NEW p, NEW entry, NEW t \in Nat, NEW k \in Key,
           Numbered(G, t), InTwo(G, p, entry, t, k),
           NEW q,
           entry.until >= t => Cardinality(Present(G, t, k, entry.until)) + q <= Room(k),
           NEW H, H = G \/ H = Fresh(G, t, k)
    PROVE  InTwo(H, q, entry, t, k)
<1>1. /\ H \subseteq G
      /\ Fresh(H, t, k) = Fresh(G, t, k)
      /\ Present(H, t, k, entry.until) = Present(G, t, k, entry.until)
      /\ Former(H, t, k, entry.until) = Former(G, t, k, entry.until)
  BY FreshOfFresh DEF Numbered, Fresh
<1>2. QED
  BY <1>1 DEF InTwo

\* The clock moves on: hits leave the window.
LEMMA TickFacts ==
    ASSUME NEW G, NEW t \in Nat, NEW k \in Key, Numbered(G, t), NEW until
    PROVE  /\ Numbered(G, t + 1)
           /\ Cardinality(Fresh(G, t + 1, k)) <= Cardinality(Fresh(G, t, k))
           /\ Cardinality(Present(G, t + 1, k, until)) <= Cardinality(Present(G, t, k, until))
           /\ Cardinality(Former(G, t + 1, k, until)) <= Cardinality(Former(G, t, k, until))
           /\ Fresh(G, t + 1, k) \subseteq Fresh(G, t, k)
<1>1. G \in SUBSET HitType /\ IsFiniteSet(G) /\ \A h \in G : h[1] \in Nat /\ h[1] <= t
  BY DEF Numbered, HitType
<1>2. \A h \in G : h[1] <= t + 1 /\ h[1] # t + 1
  BY <1>1
<1>3. AtTime(G, t + 1) = {}
  BY <1>2 DEF AtTime
<1>4. Numbered(G, t + 1)
  BY <1>1, <1>2, <1>3 DEF Numbered
<1>5. Fresh(G, t + 1, k) \subseteq Fresh(G, t, k)
  BY <1>1, LimitFacts DEF Fresh
<1>6. /\ Present(G, t + 1, k, until) \subseteq Present(G, t, k, until)
      /\ Former(G, t + 1, k, until) \subseteq Former(G, t, k, until)
  BY <1>5 DEF Present, Former
<1>7. /\ IsFiniteSet(Fresh(G, t, k)) /\ IsFiniteSet(Present(G, t, k, until))
      /\ IsFiniteSet(Former(G, t, k, until))
  BY <1>1, FreshFacts
<1>8. QED
  BY <1>4, <1>5, <1>6, <1>7, FS_Subset

LEMMA TickOne ==
    ASSUME NEW G, NEW p \in Nat, NEW counter \in CounterType, NEW t \in Nat, NEW k \in Key,
           Numbered(G, t), InOne(G, p, counter, t, k)
    PROVE  InOne(G, p, counter, t + 1, k)
<1> DEFINE m == Cardinality(Fresh(G, t, k))
           n == Cardinality(Fresh(G, t + 1, k))
<1>1. m \in Nat /\ n \in Nat /\ n <= m
  BY TickFacts, FreshFacts DEF Numbered
<1>2. Room(k) \in Int
  BY LimitFacts, CallerFacts DEF Room, InFlight
<1>3. /\ counter.until > t => m <= counter.count
      /\ m + p <= Room(k)
  BY DEF InOne
<1> HIDE DEF m, n
<1>4. counter.until > t + 1 => n <= counter.count
  BY <1>1, <1>3 DEF CounterType
<1>5. n + p <= Room(k)
  BY <1>1, <1>2, <1>3
<1>6. QED
  BY <1>4, <1>5 DEF InOne, n

LEMMA TickTwo ==
    ASSUME NEW G, NEW p \in Nat, NEW entry \in EntryType, NEW t \in Nat, NEW k \in Key,
           Numbered(G, t), InTwo(G, p, entry, t, k)
    PROVE  InTwo(G, p, entry, t + 1, k)
<1> DEFINE u == entry.until
           m == Cardinality(Present(G, t, k, u))
           n == Cardinality(Present(G, t + 1, k, u))
           f == Cardinality(Former(G, t, k, u))
           g == Cardinality(Former(G, t + 1, k, u))
           a == Cardinality(Fresh(G, t, k))
           b == Cardinality(Fresh(G, t + 1, k))
<1>1. /\ m \in Nat /\ n \in Nat /\ n <= m /\ f \in Nat /\ g \in Nat /\ g <= f
      /\ a \in Nat /\ b \in Nat /\ b <= a
  BY TickFacts, FreshFacts DEF Numbered
<1>2. Room(k) \in Int /\ u \in Int /\ entry.count \in Nat
  BY LimitFacts, CallerFacts DEF Room, InFlight, EntryType
<1>3. /\ u >= t => m <= entry.count /\ m + p <= Room(k) /\ f <= Room(k)
      /\ u < t => a <= Room(k)
  BY DEF InTwo
<1>4. u = t => b <= m
  <2> SUFFICES ASSUME u = t PROVE b <= m
    OBVIOUS
  <2>1. G \in SUBSET HitType /\ IsFiniteSet(G)
    BY DEF Numbered
  <2>2. \A h \in Fresh(G, t + 1, k) : h \in Fresh(G, t, k) /\ h[1] >= u - Limit[k].window
    BY <2>1, LimitFacts DEF Fresh, HitType
  <2>3. Fresh(G, t + 1, k) \subseteq Present(G, t, k, u)
    BY <2>2 DEF Present
  <2>4. IsFiniteSet(Present(G, t, k, u))
    BY <2>1, FreshFacts
  <2>5. QED
    BY <2>3, <2>4, FS_Subset
<1>5. \A h \in G : h[1] <= u
  BY DEF InTwo
<1> HIDE DEF m, n, f, g, a, b
<1>6. u >= t + 1 => n <= entry.count /\ n + p <= Room(k) /\ g <= Room(k)
  BY <1>1, <1>2, <1>3
<1>7. u < t + 1 => b <= Room(k)
  BY <1>1, <1>2, <1>3, <1>4
<1>8. QED
  BY <1>5, <1>6, <1>7 DEF InTwo, n, g, b

\* Nothing granted: nothing to count.
LEMMA NoHits ==
    ASSUME NEW p \in Nat, NEW counter, NEW t \in Nat, NEW k \in Key, p <= Room(k),
           counter.count \in Nat, NEW G, G = {}
    PROVE  Numbered(G, t) /\ InOne(G, p, counter, t, k) /\ InTwo(G, p, counter, t, k)
<1>1. /\ AtTime(G, t) = {} /\ Fresh(G, t, k) = {} /\ Present(G, t, k, counter.until) = {}
      /\ Former(G, t, k, counter.until) = {}
  BY DEF AtTime, Fresh, Present, Former
<1>2. IsFiniteSet({}) /\ Cardinality({}) = 0
  BY FS_EmptySet
<1>3. Room(k) \in Int /\ 0 <= Room(k) /\ 0 + p <= Room(k) /\ 0 <= counter.count
  BY LimitFacts, CallerFacts DEF Room, InFlight
<1>4. Numbered(G, t)
  BY <1>1, <1>2 DEF Numbered
<1>5. InOne(G, p, counter, t, k)
  BY <1>1, <1>2, <1>3 DEF InOne
<1>6. InTwo(G, p, counter, t, k)
  BY <1>1, <1>2, <1>3 DEF InTwo
<1>7. QED
  BY <1>4, <1>5, <1>6

-----------------------------------------------------------------------------
(* The steps of the rate limiter *)

Places(k) == Cardinality(Passed(login, k))
\* A key that a peek lets through has room for every login.
LEMMA PeekLeavesRoom ==
    ASSUME LimiterType, NEW k \in Key, KeyInv(k), Allowed(k), k \notin {Minute, Day},
           NEW q \in Nat, q <= Cardinality(Caller)
    PROVE  /\ up => Cardinality(Fresh(granted[k], clock, k)) + q <= Room(k)
           /\ ~ up /\ memory[k].until >= clock =>
                Cardinality(Present(granted[k], clock, k, memory[k].until)) + q <= Room(k)
<1> DEFINE G == granted[k]
           a == Cardinality(Fresh(G, clock, k))
           m == Cardinality(Present(G, clock, k, memory[k].until))
<1>1. /\ clock \in Nat /\ redis[k] \in CounterType /\ memory[k] \in EntryType
      /\ Numbered(G, clock)
  BY DEF LimiterType, KeyInv
<1>2. a \in Nat /\ m \in Nat
  BY <1>1, FreshCount
<1>3. Room(k) = Limit[k].max + Cardinality(Caller) - 1 /\ Limit[k].max \in Nat
  BY LimitFacts, CallerFacts DEF Room, InFlight
<1>4. ASSUME up PROVE a < Limit[k].max
  <2>1. InRedis(k) < Limit[k].max /\ InOne(G, Places(k), redis[k], clock, k)
    BY <1>4 DEF Allowed, Count, KeyInv, Places
  <2>2. CASE redis[k].until > clock
    <3>1. a <= redis[k].count /\ redis[k].count < Limit[k].max
      BY <2>1, <2>2 DEF InRedis, InOne
    <3> HIDE DEF a
    <3>2. QED
      BY <1>1, <1>2, <1>3, <3>1 DEF CounterType
  <2>3. CASE ~ (redis[k].until > clock)
    <3>1. a = 0
      BY <1>1, <2>1, <2>3, ExpiredOne
    <3> HIDE DEF a
    <3>2. QED
      BY <3>1, LimitFacts
  <2>4. QED
    BY <2>2, <2>3
<1>5. ASSUME ~ up, memory[k].until >= clock PROVE m < Limit[k].max
  <2>1. InMemory(k) < Limit[k].max /\ InTwo(G, Places(k), memory[k], clock, k)
    BY <1>5 DEF Allowed, Count, KeyInv, Places
  <2>2. m <= memory[k].count
    BY <1>5, <2>1 DEF InTwo
  <2>3. memory[k].count < Limit[k].max
    BY <1>1, <1>5, <2>1 DEF InMemory, EntryType
  <2> HIDE DEF m
  <2>4. QED
    BY <1>1, <1>2, <1>3, <2>2, <2>3 DEF EntryType
<1> HIDE DEF a, m
<1>6. up => a + q <= Room(k)
  BY <1>2, <1>3, <1>4, CallerFacts
<1>7. ~ up /\ memory[k].until >= clock => m + q <= Room(k)
  BY <1>2, <1>3, <1>5, CallerFacts
<1>8. QED
  BY <1>6, <1>7 DEF a, m

\* The same for a question whose own count still fits.
LEMMA QuestionFits ==
    ASSUME LimiterType, NEW k \in Key, KeyInv(k), Fits(k), k \in {Minute, Day}
    PROVE  /\ up => Cardinality(Fresh(granted[k], clock, k)) + 1 + 0 <= Room(k)
           /\ ~ up /\ memory[k].until >= clock =>
                Cardinality(Present(granted[k], clock, k, memory[k].until)) + 1 + 0 <= Room(k)
           /\ 1 + 0 <= Room(k)
<1> DEFINE G == granted[k]
           a == Cardinality(Fresh(G, clock, k))
           m == Cardinality(Present(G, clock, k, memory[k].until))
<1>1. /\ clock \in Nat /\ redis[k] \in CounterType /\ memory[k] \in EntryType
      /\ Numbered(G, clock)
  BY DEF LimiterType, KeyInv
<1>2. a \in Nat /\ m \in Nat
  BY <1>1, FreshCount
<1>3. Room(k) = Limit[k].max /\ Limit[k].max \in Nat /\ Limit[k].max >= 1
  BY LimitFacts, CallerFacts DEF Room, InFlight
<1>4. ASSUME up PROVE a + 1 <= Limit[k].max
  <2>1. InRedis(k) + 1 <= Limit[k].max /\ InOne(G, Places(k), redis[k], clock, k)
    BY <1>4 DEF Fits, Count, KeyInv, Places
  <2>2. CASE redis[k].until > clock
    <3>1. a <= redis[k].count /\ redis[k].count + 1 <= Limit[k].max
      BY <2>1, <2>2 DEF InRedis, InOne
    <3> HIDE DEF a
    <3>2. QED
      BY <1>1, <1>2, <1>3, <3>1 DEF CounterType
  <2>3. CASE ~ (redis[k].until > clock)
    <3>1. a = 0
      BY <1>1, <2>1, <2>3, ExpiredOne
    <3> HIDE DEF a
    <3>2. QED
      BY <3>1, LimitFacts
  <2>4. QED
    BY <2>2, <2>3
<1>5. ASSUME ~ up, memory[k].until >= clock PROVE m + 1 <= Limit[k].max
  <2>1. InMemory(k) + 1 <= Limit[k].max /\ InTwo(G, Places(k), memory[k], clock, k)
    BY <1>5 DEF Fits, Count, KeyInv, Places
  <2>2. m <= memory[k].count
    BY <1>5, <2>1 DEF InTwo
  <2>3. memory[k].count + 1 <= Limit[k].max
    BY <1>1, <1>5, <2>1 DEF InMemory, EntryType
  <2> HIDE DEF m
  <2>4. QED
    BY <1>1, <1>2, <1>3, <2>2, <2>3 DEF EntryType
<1> HIDE DEF a, m
<1>6. up => a + 1 + 0 <= Room(k)
  BY <1>2, <1>3, <1>4
<1>7. ~ up /\ memory[k].until >= clock => m + 1 + 0 <= Room(k)
  BY <1>2, <1>3, <1>5
<1>8. QED
  BY <1>3, <1>6, <1>7 DEF a, m

\* What a key's hits leave free, before a step.
LEMMA KeyRoom ==
    ASSUME LimiterType, NEW k \in Key, KeyInv(k), NEW q \in Nat, q <= Places(k)
    PROVE  /\ up => Cardinality(Fresh(granted[k], clock, k)) + q <= Room(k)
           /\ ~ up /\ memory[k].until >= clock =>
                Cardinality(Present(granted[k], clock, k, memory[k].until)) + q <= Room(k)
           /\ Places(k) <= Room(k)
<1>1. Places(k) \in Nat /\ Places(k) <= Room(k) /\ Room(k) \in Int
  BY PassedFacts DEF LimiterType, Places
<1>2. clock \in Nat /\ Numbered(granted[k], clock)
  BY DEF LimiterType, KeyInv
<1> DEFINE a == Cardinality(Fresh(granted[k], clock, k))
           m == Cardinality(Present(granted[k], clock, k, memory[k].until))
<1>3. a \in Nat /\ m \in Nat
  BY <1>2, FreshCount
<1>4. /\ up => a + Places(k) <= Room(k)
      /\ ~ up /\ memory[k].until >= clock => m + Places(k) <= Room(k)
  BY DEF KeyInv, Places, InOne, InTwo
<1> HIDE DEF a, m
<1>5. /\ up => a + q <= Room(k)
      /\ ~ up /\ memory[k].until >= clock => m + q <= Room(k)
  BY <1>1, <1>3, <1>4
<1>6. QED
  BY <1>1, <1>5 DEF a, m

\* A step that leaves a key's counters alone.
LEMMA QuietKey ==
    ASSUME LimiterType, NEW k \in Key, KeyInv(k), UNCHANGED <<clock, up>>,
           redis'[k] = redis[k], memory'[k] = memory[k], last'[k] = last[k],
           granted'[k] = granted[k] \/ granted'[k] = Fresh(granted[k], clock, k),
           up => Cardinality(Fresh(granted[k], clock, k)) + Places(k)' <= Room(k),
           ~ up /\ memory[k].until >= clock =>
                Cardinality(Present(granted[k], clock, k, memory[k].until)) + Places(k)' <= Room(k)
    PROVE  KeyInv(k)'
<1> DEFINE G == granted[k]
           H == granted'[k]
           q == Cardinality(Passed(login', k))
<1>1. clock \in Nat /\ Numbered(G, clock)
  BY DEF LimiterType, KeyInv
<1>2. Numbered(H, clock) /\ (H = G \/ H = Fresh(G, clock, k))
  BY <1>1, TrimNumbered
<1>3. Places(k)' = q
  BY DEF Places
<1> HIDE DEF G, H, q
<1>4. up => InOne(H, q, redis[k], clock, k)
  <2> SUFFICES ASSUME up PROVE InOne(H, q, redis[k], clock, k)
    OBVIOUS
  <2>1. InOne(G, Places(k), redis[k], clock, k)
    BY DEF KeyInv, Places, G
  <2>2. Cardinality(Fresh(G, clock, k)) + q <= Room(k)
    BY <1>3 DEF G
  <2>3. QED
    BY <1>1, <1>2, <2>1, <2>2, QuietOne
<1>5. ~ up => InTwo(H, q, memory[k], clock, k)
  <2> SUFFICES ASSUME ~ up PROVE InTwo(H, q, memory[k], clock, k)
    OBVIOUS
  <2>1. InTwo(G, Places(k), memory[k], clock, k)
    BY DEF KeyInv, Places, G
  <2>2. memory[k].until >= clock =>
            Cardinality(Present(G, clock, k, memory[k].until)) + q <= Room(k)
    BY <1>3 DEF G
  <2>3. QED
    BY <1>1, <1>2, <2>1, <2>2, QuietTwo
<1>6. Renews(last[k], redis[k], memory[k], clock, k)
  BY DEF KeyInv
<1>7. QED
  BY <1>2, <1>4, <1>5, <1>6 DEF KeyInv, H, q

\* A step that hits a key: granted or only counted.
LEMMA HitKey ==
    ASSUME LimiterType, NEW k \in Key, KeyInv(k), UNCHANGED <<clock, up>>, Places(k)' \in Nat,
           last'[k] = clock,
           up => redis'[k] = Incremented(k) /\ memory'[k] = memory[k],
           ~ up => memory'[k] = Recorded(k) /\ redis'[k] = redis[k],
           Places(k)' <= Room(k),
           \/ /\ granted'[k] = Fresh(granted[k], clock, k) \cup {ThisHit(k)}
              /\ up => Cardinality(Fresh(granted[k], clock, k)) + 1 + Places(k)' <= Room(k)
              /\ ~ up /\ memory[k].until >= clock =>
                    Cardinality(Present(granted[k], clock, k, memory[k].until)) + 1 + Places(k)' <= Room(k)
              /\ 1 + Places(k)' <= Room(k)
           \/ /\ granted'[k] = Fresh(granted[k], clock, k)
              /\ up => Cardinality(Fresh(granted[k], clock, k)) + Places(k)' <= Room(k)
              /\ ~ up /\ memory[k].until >= clock =>
                    Cardinality(Present(granted[k], clock, k, memory[k].until)) + Places(k)' <= Room(k)
    PROVE  KeyInv(k)'
<1> DEFINE G == granted[k]
           H == granted'[k]
           q == Cardinality(Passed(login', k))
           w == Limit[k].window
           h == <<clock, Cardinality(AtTime(G, clock))>>
<1>1. clock \in Nat /\ Numbered(G, clock) /\ q \in Nat /\ Places(k)' = q
  BY DEF LimiterType, KeyInv, Places
<1>2. redis[k] \in CounterType /\ memory[k] \in EntryType /\ w \in Nat /\ w >= 1
  BY LimitFacts DEF LimiterType
<1>3. Renews(last[k], redis[k], memory[k], clock, k)
  BY DEF KeyInv
<1>4. ThisHit(k) = h
  BY DEF ThisHit, AtTime
<1>5. last[k] \in Int
  BY DEF LimiterType
<1>6. redis[k].until <= clock + w /\ memory[k].until <= clock + w
  BY <1>1, <1>2, <1>3, <1>5 DEF Renews, CounterType, EntryType
<1>7. h = <<clock, Cardinality(AtTime(G, clock))>>
  OBVIOUS
<1> HIDE DEF h
<1>8. Numbered(H, clock)
  <2> HIDE DEF H, G
  <2>1. H = Fresh(G, clock, k) \/ H = Fresh(G, clock, k) \cup {h}
    BY <1>4 DEF H, G
  <2>2. CASE H = Fresh(G, clock, k) \cup {h}
    BY <1>1, <1>7, <2>2, NextHit
  <2>3. QED
    BY <1>1, <2>1, <2>2, TrimNumbered
<1>9. Renews(clock, redis'[k], memory'[k], clock, k)
  <2>1. redis'[k].until <= clock + w
    BY <1>6, <1>1, <1>2 DEF Incremented, Renewed
  <2>2. memory'[k].until <= clock + w
    BY <1>6, <1>1, <1>2 DEF Recorded, EntryType
  <2>3. QED
    BY <1>1, <2>1, <2>2 DEF Renews
<1>10. up => InOne(H, q, redis'[k], clock, k)
  <2> SUFFICES ASSUME up PROVE InOne(H, q, redis'[k], clock, k)
    OBVIOUS
  <2>1. InOne(G, Places(k), redis[k], clock, k)
    BY DEF KeyInv, Places
  <2> DEFINE new == redis'[k]
  <2>2. /\ new \in CounterType /\ new.until = clock + w
        /\ new.count = (IF redis[k].until > clock THEN redis[k].count ELSE 0) + 1
    BY <1>1, <1>2 DEF Incremented, Renewed, InRedis, CounterType
  <2>3. \/ H = Fresh(G, clock, k) \cup {h} /\ Cardinality(Fresh(G, clock, k)) + 1 + q <= Room(k)
        \/ H = Fresh(G, clock, k) /\ Cardinality(Fresh(G, clock, k)) + q <= Room(k)
    BY <1>1, <1>4
  <2> HIDE DEF new, q, G, H
  <2>4. CASE H = Fresh(G, clock, k) \cup {h} /\ Cardinality(Fresh(G, clock, k)) + 1 + q <= Room(k)
    BY <1>1, <1>2, <1>7, <2>1, <2>2, <2>4, HitOne DEF new
  <2>5. CASE H = Fresh(G, clock, k) /\ Cardinality(Fresh(G, clock, k)) + q <= Room(k)
    BY <1>1, <1>2, <2>1, <2>2, <2>5, CountOne DEF new
  <2>6. QED
    BY <2>3, <2>4, <2>5
<1>11. ~ up => InTwo(H, q, memory'[k], clock, k)
  <2> SUFFICES ASSUME ~ up PROVE InTwo(H, q, memory'[k], clock, k)
    OBVIOUS
  <2>1. InTwo(G, Places(k), memory[k], clock, k)
    BY DEF KeyInv, Places
  <2> DEFINE new == memory'[k]
             entry == memory[k]
  <2>2. new = IF entry.until < clock THEN [count |-> 1, until |-> clock + w]
                                     ELSE [entry EXCEPT !.count = @ + 1]
    BY DEF Recorded
  <2>3. \/ /\ H = Fresh(G, clock, k) \cup {h}
           /\ 1 + q <= Room(k)
           /\ entry.until >= clock =>
                Cardinality(Present(G, clock, k, entry.until)) + 1 + q <= Room(k)
        \/ /\ H = Fresh(G, clock, k)
           /\ q <= Room(k)
           /\ entry.until >= clock => Cardinality(Present(G, clock, k, entry.until)) + q <= Room(k)
    BY <1>1, <1>4
  <2>4. entry \in EntryType /\ entry.until <= clock + w
    BY <1>2, <1>6
  <2> HIDE DEF new, entry, q, G, H
  <2>5. CASE /\ H = Fresh(G, clock, k) \cup {h}
             /\ 1 + q <= Room(k)
             /\ entry.until >= clock =>
                  Cardinality(Present(G, clock, k, entry.until)) + 1 + q <= Room(k)
    <3> DEFINE p == Places(k)
    <3>1. InTwo(G, p, entry, clock, k)
      BY <2>1 DEF entry
    <3> HIDE DEF p
    <3>2. /\ new = IF entry.until < clock THEN [count |-> 1, until |-> clock + Limit[k].window]
                                          ELSE [entry EXCEPT !.count = @ + 1]
          /\ entry.until <= clock + Limit[k].window
      BY <2>2, <2>4
    <3>3. 1 + q <= Room(k) /\ H = Fresh(G, clock, k) \cup {h}
      BY <2>5
    <3>4. clock \in Nat /\ Numbered(G, clock) /\ q \in Nat /\ entry \in EntryType
      BY <1>1, <2>4
    <3>5. entry.until >= clock => Cardinality(Present(G, clock, k, entry.until)) + 1 + q <= Room(k)
      BY <2>5
    <3> HIDE DEF w
    <3>6. InTwo(H, q, new, clock, k)
      BY <1>7, <3>1, <3>2, <3>3, <3>4, <3>5, HitTwo
    <3>7. QED
      BY <3>6 DEF new
  <2>6. CASE /\ H = Fresh(G, clock, k)
             /\ q <= Room(k)
             /\ entry.until >= clock => Cardinality(Present(G, clock, k, entry.until)) + q <= Room(k)
    BY <1>1, <2>1, <2>2, <2>4, <2>6, CountTwo DEF new, entry
  <2>7. QED
    BY <2>3, <2>5, <2>6
<1>12. QED
  BY <1>8, <1>9, <1>10, <1>11 DEF KeyInv

\* The logins past a peek, when one login changes.
LEMMA LoginFacts ==
    ASSUME LimiterType, NEW c \in Caller, NEW new \in LoginType,
           new.at # "idle" => new.name \in Name /\ new.address \in Address,
           login' = [login EXCEPT ![c] = new]
    PROVE  /\ login' \in [Caller -> LoginType]
           /\ \A d \in Caller : login'[d].at # "idle" => /\ login'[d].name \in Name
                                                         /\ login'[d].address \in Address
           /\ \A k \in Key : /\ Places(k)' \in Nat
                             /\ Places(k)' <= Cardinality(Caller)
                             /\ Places(k)' <= Room(k)
           /\ \A k \in Key : (Under(new, k) => Under(login[c], k)) => Places(k)' <= Places(k)
           /\ \A k \in Key : Under(login[c], k) /\ ~ Under(new, k) => Places(k)' + 1 <= Places(k)
<1>1. login \in [Caller -> LoginType]
  BY DEF LimiterType
<1>2. /\ login' \in [Caller -> LoginType]
      /\ login'[c] = new
      /\ \A d \in Caller : d # c => login'[d] = login[d]
  BY <1>1
<1>3. \A d \in Caller : login'[d].at # "idle" => /\ login'[d].name \in Name
                                                 /\ login'[d].address \in Address
  BY <1>2 DEF LimiterType
<1>4. ASSUME NEW k \in Key
      PROVE  Places(k)' \in Nat /\ Places(k)' <= Cardinality(Caller) /\ Places(k)' <= Room(k)
  <2> DEFINE logins == login'
  <2>1. \A d \in Caller : logins[d].at # "idle" => logins[d].name \in Name
                                                   /\ logins[d].address \in Address
    BY <1>3
  <2>2. Places(k)' = Cardinality(Passed(logins, k))
    BY DEF Places
  <2> HIDE DEF logins
  <2>3. QED
    BY <2>1, <2>2, PassedFacts
<1>5. ASSUME NEW k \in Key
      PROVE  /\ IsFiniteSet(Passed(login, k)) /\ Places(k) \in Nat
             /\ Places(k) = Cardinality(Passed(login, k))
             /\ Places(k)' = Cardinality(Passed(login', k))
  BY PassedFacts DEF LimiterType, Places
<1>6. ASSUME NEW k \in Key, Under(new, k) => Under(login[c], k)
      PROVE  Places(k)' <= Places(k)
  <2>1. Passed(login', k) \subseteq Passed(login, k)
    BY <1>2, <1>6 DEF Passed
  <2>2. QED
    BY <1>5, <2>1, FS_Subset
<1>7. ASSUME NEW k \in Key, Under(login[c], k), ~ Under(new, k)
      PROVE  Places(k)' + 1 <= Places(k)
  <2> DEFINE P == Passed(login, k)
  <2>1. c \in P
    BY <1>7 DEF Passed
  <2>2. Passed(login', k) = P \ {c}
    BY <1>2, <1>7 DEF Passed
  <2>3. IsFiniteSet(P) /\ Places(k) = Cardinality(P) /\ Places(k) \in Nat
    BY <1>5
  <2> HIDE DEF P
  <2>4. Cardinality(P \ {c}) = Cardinality(P) - 1
    BY <2>1, <2>3, FS_RemoveElement
  <2>5. Places(k)' = Cardinality(P \ {c})
    BY <1>5, <2>2
  <2>6. QED
    BY <2>3, <2>4, <2>5
<1>8. QED
  BY <1>2, <1>3, <1>4, <1>6, <1>7

\* A login goes on, and no counter changes.
LEMMA LoginOnly ==
    ASSUME LimiterInv, NEW c \in Caller, NEW new \in LoginType,
           new.at # "idle" => new.name \in Name /\ new.address \in Address,
           login' = [login EXCEPT ![c] = new],
           UNCHANGED <<clock, up, redis, memory, last, granted>>,
           \A k \in Key : \/ Under(new, k) => Under(login[c], k)
                          \/ Allowed(k) /\ k \notin {Minute, Day}
    PROVE  LimiterInv'
<1>1. LimiterType /\ \A k \in Key : KeyInv(k)
  BY DEF LimiterInv
<1>2. LimiterType'
  BY <1>1, LoginFacts DEF LimiterType
<1>3. ASSUME NEW k \in Key PROVE KeyInv(k)'
  <2>1. KeyInv(k) /\ Places(k)' \in Nat /\ Places(k)' <= Cardinality(Caller)
    BY <1>1, LoginFacts
  <2>2. /\ up => Cardinality(Fresh(granted[k], clock, k)) + Places(k)' <= Room(k)
        /\ ~ up /\ memory[k].until >= clock =>
             Cardinality(Present(granted[k], clock, k, memory[k].until)) + Places(k)' <= Room(k)
    <3> DEFINE q == Places(k)'
    <3>1. CASE Under(new, k) => Under(login[c], k)
      <4>1. q \in Nat /\ q <= Places(k)
        BY <1>1, <2>1, <3>1, LoginFacts
      <4> HIDE DEF q
      <4>2. QED
        BY <1>1, <2>1, <4>1, KeyRoom DEF q
    <3>2. CASE Allowed(k) /\ k \notin {Minute, Day}
      <4>1. q \in Nat /\ q <= Cardinality(Caller)
        BY <2>1
      <4> HIDE DEF q
      <4>2. QED
        BY <1>1, <2>1, <3>2, <4>1, PeekLeavesRoom DEF q
    <3>3. QED
      BY <3>1, <3>2
  <2>3. QED
    BY <1>1, <2>1, <2>2, QuietKey
<1>4. QED
  BY <1>2, <1>3 DEF LimiterInv

LEMMA NoLoginFacts ==
    /\ NoLogin \in LoginType /\ NoLogin.at = "idle"
    /\ \A k \in Key : ~ Under(NoLogin, k)
BY DEF NoLogin, LoginType, Under

LEMMA BeginLimits ==
    ASSUME LimiterInv, NEW c \in Caller, Begin(c)
    PROVE  LimiterInv'
<1>1. PICK n \in Name, a \in Address :
         login' = [login EXCEPT ![c] = [at |-> "name", name |-> n, address |-> a,
                                        allowed |-> TRUE]]
  BY DEF Begin
<1> DEFINE new == [at |-> "name", name |-> n, address |-> a, allowed |-> TRUE]
<1>2. /\ new \in LoginType /\ new.name \in Name /\ new.address \in Address
      /\ \A k \in Key : ~ Under(new, k)
  BY DEF LoginType, Under
<1>3. login' = [login EXCEPT ![c] = new]
  BY <1>1
<1>4. UNCHANGED <<clock, up, redis, memory, last, granted>>
  BY DEF Begin, Same, Counters
<1> HIDE DEF new
<1>5. QED
  BY <1>2, <1>3, <1>4, LoginOnly

LEMMA PeekNameLimits ==
    ASSUME LimiterInv, NEW c \in Caller, PeekName(c)
    PROVE  LimiterInv'
<1> DEFINE l == login[c]
           b == Allowed(l.name)
           one == [l EXCEPT !.at = "address"]
           new == [one EXCEPT !.allowed = b]
<1>1. /\ login \in [Caller -> LoginType] /\ l.at = "name"
      /\ l \in LoginType /\ l.name \in Name /\ l.address \in Address
  BY DEF LimiterInv, LimiterType, PeekName
<1>2. b \in BOOLEAN
  BY DEF Allowed
<1>3. login' = [login EXCEPT ![c] = new]
  BY <1>1 DEF PeekName
<1>4. /\ one \in LoginType /\ one.at = "address" /\ one.name = l.name
      /\ one.address = l.address
  BY <1>1 DEF LoginType
<1> HIDE DEF one
<1>5. b <=> Allowed(l.name)
  OBVIOUS
<1> HIDE DEF b
<1>6. /\ new \in LoginType /\ new.at = "address" /\ new.name = l.name
      /\ new.address = l.address /\ new.allowed = b
  BY <1>2, <1>4 DEF LoginType
<1> HIDE DEF new
<1>7. ASSUME NEW k \in Key
      PROVE  (Under(new, k) => Under(l, k)) \/ (Allowed(k) /\ k \notin {Minute, Day})
  BY <1>1, <1>2, <1>5, <1>6, RateLimiterAssumption DEF Under
<1>8. UNCHANGED <<clock, up, redis, memory, last, granted>>
  BY DEF PeekName, Same, Counters
<1>9. QED
  BY <1>1, <1>3, <1>6, <1>7, <1>8, LoginOnly

LEMMA PeekAddressLimits ==
    ASSUME LimiterInv, NEW c \in Caller, PeekAddress(c)
    PROVE  LimiterInv'
<1> DEFINE l == login[c]
           new == IF l.allowed /\ Allowed(l.address) THEN [l EXCEPT !.at = "verify"] ELSE NoLogin
<1>1. /\ login \in [Caller -> LoginType] /\ l.at = "address"
      /\ l \in LoginType /\ l.name \in Name /\ l.address \in Address
  BY DEF LimiterInv, LimiterType, PeekAddress
<1>2. login' = [login EXCEPT ![c] = new]
  BY DEF PeekAddress
<1>3. UNCHANGED <<clock, up, redis, memory, last, granted>>
  BY DEF PeekAddress, Same, Counters
<1>4. CASE l.allowed /\ Allowed(l.address)
  <2>1. /\ new \in LoginType /\ new.at = "verify" /\ new.name = l.name
        /\ new.address = l.address
    BY <1>1, <1>4 DEF LoginType
  <2> HIDE DEF new
  <2>2. ASSUME NEW k \in Key
        PROVE  (Under(new, k) => Under(l, k)) \/ (Allowed(k) /\ k \notin {Minute, Day})
    BY <1>1, <1>4, <2>1, RateLimiterAssumption DEF Under
  <2>3. QED
    BY <1>1, <1>2, <1>3, <2>1, <2>2, LoginOnly
<1>5. CASE ~ (l.allowed /\ Allowed(l.address))
  BY <1>2, <1>3, <1>5, NoLoginFacts, LoginOnly
<1>6. QED
  BY <1>4, <1>5

LEMMA FailsLimits ==
    ASSUME LimiterInv, NEW c \in Caller, Fails(c)
    PROVE  LimiterInv'
<1> DEFINE l == login[c]
           new == [l EXCEPT !.at = "record"]
<1>1. /\ login \in [Caller -> LoginType] /\ l.at = "verify"
      /\ l \in LoginType /\ l.name \in Name /\ l.address \in Address
  BY DEF LimiterInv, LimiterType, Fails
<1>2. login' = [login EXCEPT ![c] = new]
  BY <1>1 DEF Fails
<1>3. UNCHANGED <<clock, up, redis, memory, last, granted>>
  BY DEF Fails, Same, Counters
<1>4. /\ new \in LoginType /\ new.at = "record" /\ new.name = l.name
      /\ new.address = l.address
  BY <1>1 DEF LoginType
<1> HIDE DEF new
<1>5. \A k \in Key : Under(new, k) => Under(l, k)
  BY <1>1, <1>4 DEF Under
<1>6. QED
  BY <1>1, <1>2, <1>3, <1>4, <1>5, LoginOnly

\* A hit leaves counters and hits.
LEMMA HitTypes ==
    ASSUME LimiterInv, NEW K, NEW J, Hit(K), Granted(J), Same
    PROVE  /\ clock' \in Nat /\ up' \in BOOLEAN
           /\ redis' \in [Key -> CounterType]
           /\ memory' \in [Key -> EntryType]
           /\ granted' \in [Key -> SUBSET HitType]
           /\ last' \in [Key -> Nat \cup {-1}]
<1>1. /\ clock \in Nat /\ up \in BOOLEAN /\ UNCHANGED <<clock, up>>
      /\ redis \in [Key -> CounterType] /\ memory \in [Key -> EntryType]
      /\ granted \in [Key -> SUBSET HitType] /\ last \in [Key -> Nat \cup {-1}]
  BY DEF LimiterInv, LimiterType, Same
<1>2. last' \in [Key -> Nat \cup {-1}]
  BY <1>1 DEF Hit
<1>3. ASSUME NEW k \in Key PROVE Incremented(k) \in CounterType
  BY <1>1, LimitFacts DEF Incremented, InRedis, Renewed, CounterType
<1>4. ASSUME NEW k \in Key PROVE Recorded(k) \in EntryType
  <2>1. memory[k] \in EntryType /\ clock + Limit[k].window \in Nat
    BY <1>1, LimitFacts
  <2>2. QED
    BY <2>1 DEF Recorded, EntryType
<1>5. redis' \in [Key -> CounterType]
  <2>1. CASE up
    BY <1>1, <1>3, <2>1 DEF Hit
  <2>2. CASE ~ up
    BY <1>1, <2>2 DEF Hit
  <2>3. QED
    BY <2>1, <2>2
<1>6. memory' \in [Key -> EntryType]
  <2>1. CASE up
    BY <1>1, <2>1 DEF Hit
  <2>2. CASE ~ up
    BY <1>1, <1>4, <2>2 DEF Hit
  <2>3. QED
    BY <2>1, <2>2
<1>7. ASSUME NEW k \in Key PROVE ThisHit(k) \in HitType /\ Recent(k) \in SUBSET HitType
  <2>1. Numbered(granted[k], clock)
    BY DEF LimiterInv, KeyInv
  <2>2. ThisHit(k) = <<clock, Cardinality(AtTime(granted[k], clock))>>
    BY DEF ThisHit, AtTime
  <2>3. Cardinality(AtTime(granted[k], clock)) \in Nat
    BY <2>1, FreshFacts DEF Numbered
  <2>4. QED
    BY <1>1, <2>2, <2>3 DEF HitType, Recent
<1>8. granted' \in [Key -> SUBSET HitType]
  BY <1>7 DEF Granted
<1>9. QED
  BY <1>1, <1>2, <1>5, <1>6, <1>8

\* What a hit of the keys K, of which it grants J, leaves of one key.
LEMMA HitFacts ==
    ASSUME LimiterInv, NEW K, NEW J, Hit(K), Granted(J), Same, NEW k \in Key
    PROVE  /\ UNCHANGED <<clock, up>>
           /\ k \in K => /\ last'[k] = clock
                         /\ up => redis'[k] = Incremented(k) /\ memory'[k] = memory[k]
                         /\ ~ up => memory'[k] = Recorded(k) /\ redis'[k] = redis[k]
           /\ k \notin K => /\ last'[k] = last[k]
                            /\ redis'[k] = redis[k] /\ memory'[k] = memory[k]
           /\ k \in J => granted'[k] = Fresh(granted[k], clock, k) \cup {ThisHit(k)}
           /\ k \notin J => granted'[k] = Fresh(granted[k], clock, k)
<1>1. UNCHANGED <<clock, up>>
  BY DEF Same
<1>2. Recent(k) = Fresh(granted[k], clock, k)
  BY DEF Recent, Fresh
<1>3. /\ k \in J => granted'[k] = Fresh(granted[k], clock, k) \cup {ThisHit(k)}
      /\ k \notin J => granted'[k] = Fresh(granted[k], clock, k)
  BY <1>2 DEF Granted
<1>4. /\ k \in K => last'[k] = clock
      /\ k \notin K => last'[k] = last[k]
  BY DEF Hit
<1>5. /\ k \in K => /\ up => redis'[k] = Incremented(k) /\ memory'[k] = memory[k]
                    /\ ~ up => memory'[k] = Recorded(k) /\ redis'[k] = redis[k]
      /\ k \notin K => redis'[k] = redis[k] /\ memory'[k] = memory[k]
  BY DEF Hit
<1>6. QED
  BY <1>1, <1>3, <1>4, <1>5

\* A login that failed leaves its place at a key to the hit it records.
LEMMA RecordLimits ==
    ASSUME LimiterInv, NEW c \in Caller, NEW new \in LoginType,
           new.at # "idle" => new.name \in Name /\ new.address \in Address,
           login' = [login EXCEPT ![c] = new],
           NEW key \in Key, Hit({key}), Granted({key}), Same,
           Under(login[c], key), ~ Under(new, key),
           \A k \in Key : Under(new, k) => Under(login[c], k)
    PROVE  LimiterInv'
<1>1. LimiterType /\ \A k \in Key : KeyInv(k)
  BY DEF LimiterInv
<1>2. LimiterType'
  BY <1>1, LoginFacts, HitTypes DEF LimiterType
<1>3. ASSUME NEW k \in Key PROVE KeyInv(k)'
  <2> DEFINE q == Places(k)'
             p == Places(k)
             a == Cardinality(Fresh(granted[k], clock, k))
             m == Cardinality(Present(granted[k], clock, k, memory[k].until))
  <2>1. q \in Nat /\ q <= p /\ KeyInv(k)
    BY <1>1, LoginFacts
  <2>2. p \in Nat /\ p <= Room(k) /\ Room(k) \in Int
    BY <1>1, PassedFacts DEF LimiterType, Places
  <2>3. UNCHANGED <<clock, up>>
    BY DEF Same
  <2>4. CASE k = key
    <3>1. q + 1 <= p
      BY <1>1, <2>4, LoginFacts
    <3>2. a \in Nat /\ m \in Nat
      BY <1>1, <2>1, FreshCount DEF KeyInv, LimiterType
    <3>3. /\ up => a + p <= Room(k)
          /\ ~ up /\ memory[k].until >= clock => m + p <= Room(k)
      BY <2>1 DEF KeyInv, InOne, InTwo, Places
    <3>4. /\ last'[k] = clock
          /\ up => redis'[k] = Incremented(k) /\ memory'[k] = memory[k]
          /\ ~ up => memory'[k] = Recorded(k) /\ redis'[k] = redis[k]
          /\ granted'[k] = Fresh(granted[k], clock, k) \cup {ThisHit(k)}
      BY <2>4, HitFacts
    <3> HIDE DEF a, m, p, q
    <3>5. /\ up => a + 1 + q <= Room(k)
          /\ ~ up /\ memory[k].until >= clock => m + 1 + q <= Room(k)
          /\ 1 + q <= Room(k) /\ q <= Room(k)
      BY <2>1, <2>2, <3>1, <3>2, <3>3
    <3>6. QED
      BY <1>1, <2>1, <2>3, <3>4, <3>5, HitKey DEF a, m, q
  <2>5. CASE k # key
    <3>1. /\ last'[k] = last[k] /\ redis'[k] = redis[k] /\ memory'[k] = memory[k]
          /\ granted'[k] = Fresh(granted[k], clock, k)
      BY <2>5, HitFacts
    <3> HIDE DEF q, a, m
    <3>2. /\ up => a + q <= Room(k)
          /\ ~ up /\ memory[k].until >= clock => m + q <= Room(k)
      BY <1>1, <2>1, KeyRoom DEF a, m
    <3>3. QED
      BY <1>1, <2>1, <2>3, <3>1, <3>2, QuietKey DEF a, m, q
  <2>6. QED
    BY <2>4, <2>5
<1>4. QED
  BY <1>2, <1>3 DEF LimiterInv

LEMMA RecordNameLimits ==
    ASSUME LimiterInv, NEW c \in Caller, RecordName(c)
    PROVE  LimiterInv'
<1> DEFINE l == login[c]
           new == [l EXCEPT !.at = "recorded"]
           key == l.name
<1>1. /\ login \in [Caller -> LoginType] /\ l.at = "record"
      /\ l \in LoginType /\ l.name \in Name /\ l.address \in Address
  BY DEF LimiterInv, LimiterType, RecordName
<1>2. login' = [login EXCEPT ![c] = new]
  BY <1>1 DEF RecordName
<1>3. Hit({key}) /\ Granted({key}) /\ Same
  BY DEF RecordName
<1>4. /\ new \in LoginType /\ new.at = "recorded" /\ new.name = l.name
      /\ new.address = l.address
  BY <1>1 DEF LoginType
<1>5. key \in Key /\ key = l.name /\ l.address # l.name
  BY <1>1, RateLimiterAssumption DEF Key
<1> HIDE DEF new, key
<1>6. /\ \A k \in Key : Under(new, k) => Under(l, k)
      /\ Under(l, key) /\ ~ Under(new, key)
  BY <1>1, <1>4, <1>5 DEF Under
<1>7. QED
  BY <1>1, <1>2, <1>3, <1>4, <1>5, <1>6, RecordLimits

LEMMA RecordAddressLimits ==
    ASSUME LimiterInv, NEW c \in Caller, RecordAddress(c)
    PROVE  LimiterInv'
<1> DEFINE l == login[c]
           key == l.address
<1>1. l.at = "recorded" /\ l.name \in Name /\ l.address \in Address
  BY DEF LimiterInv, LimiterType, RecordAddress
<1>2. login' = [login EXCEPT ![c] = NoLogin]
  BY DEF RecordAddress
<1>3. Hit({key}) /\ Granted({key}) /\ Same
  BY DEF RecordAddress
<1>4. key \in Key /\ key = l.address
  BY <1>1 DEF Key
<1> HIDE DEF key
<1>5. Under(l, key)
  BY <1>1, <1>4 DEF Under
<1>6. QED
  BY <1>2, <1>3, <1>4, <1>5, NoLoginFacts, RecordLimits

\* Resetting an account forgets its hits with its counters.
LEMMA SucceedsLimits ==
    ASSUME LimiterInv, NEW c \in Caller, Succeeds(c)
    PROVE  LimiterInv'
<1> DEFINE l == login[c]
           n == l.name
<1>1. LimiterType /\ \A k \in Key : KeyInv(k)
  BY DEF LimiterInv
<1>2. /\ n \in Name /\ n \in Key
      /\ login' = [login EXCEPT ![c] = NoLogin]
      /\ UNCHANGED <<clock, up, last>>
  BY <1>1 DEF LimiterType, Succeeds, Same, Key
<1>3. /\ redis' = IF up THEN [redis EXCEPT ![n] = Empty] ELSE redis
      /\ memory' = [memory EXCEPT ![n] = Forgotten]
      /\ granted' = [granted EXCEPT ![n] = {}]
  BY DEF Succeeds
<1>4. /\ login' \in [Caller -> LoginType]
      /\ \A d \in Caller : login'[d].at # "idle" => /\ login'[d].name \in Name
                                                    /\ login'[d].address \in Address
  BY <1>1, <1>2, NoLoginFacts, LoginFacts
<1>5. ASSUME NEW k \in Key
      PROVE  Places(k)' \in Nat /\ Places(k)' <= Places(k) /\ Places(k)' <= Room(k)
  BY <1>1, <1>2, NoLoginFacts, LoginFacts
<1>6. Empty \in CounterType /\ Forgotten \in EntryType
  BY DEF Empty, Forgotten, CounterType, EntryType
<1>7. /\ redis \in [Key -> CounterType] /\ memory \in [Key -> EntryType]
      /\ granted \in [Key -> SUBSET HitType] /\ clock \in Nat
  BY <1>1 DEF LimiterType
<1>8. /\ redis' \in [Key -> CounterType] /\ memory' \in [Key -> EntryType]
      /\ granted' \in [Key -> SUBSET HitType]
  BY <1>3, <1>6, <1>7
<1> HIDE DEF n
<1>9. LimiterType'
  BY <1>1, <1>2, <1>4, <1>8 DEF LimiterType
<1>10. ASSUME NEW k \in Key PROVE KeyInv(k)'
  <2>1. CASE k = n
    <3> DEFINE G == granted'[k]
               q == Places(k)'
               r == redis'[k]
               e == memory'[k]
    <3>1. G = {} /\ q \in Nat /\ q <= Room(k) /\ r.count \in Nat /\ e.count \in Nat
      BY <1>2, <1>3, <1>5, <1>7, <1>8, <2>1 DEF CounterType, EntryType
    <3>2. Renews(last[k], redis[k], memory[k], clock, k)
      BY <1>1 DEF KeyInv
    <3>3. e = Forgotten /\ (r = Empty \/ r = redis[k])
      BY <1>2, <1>3, <1>7, <2>1
    <3> HIDE DEF G, q, r, e
    <3>4. Numbered(G, clock) /\ InOne(G, q, r, clock, k) /\ InTwo(G, q, e, clock, k)
      BY <1>7, <3>1, NoHits
    <3>5. Renews(last[k], r, e, clock, k)
      BY <3>2, <3>3 DEF Renews, Empty, Forgotten
    <3>6. QED
      BY <1>2, <3>4, <3>5 DEF KeyInv, Places, G, q, r, e
  <2>2. CASE k # n
    <3>1. /\ redis'[k] = redis[k] /\ memory'[k] = memory[k] /\ last'[k] = last[k]
          /\ granted'[k] = granted[k]
      BY <1>2, <1>3, <1>7, <2>2
    <3> DEFINE q == Places(k)'
               a == Cardinality(Fresh(granted[k], clock, k))
               m == Cardinality(Present(granted[k], clock, k, memory[k].until))
    <3>2. q \in Nat /\ q <= Places(k)
      BY <1>5
    <3> HIDE DEF q, a, m
    <3>3. /\ up => a + q <= Room(k)
          /\ ~ up /\ memory[k].until >= clock => m + q <= Room(k)
      BY <1>1, <3>2, KeyRoom DEF a, m
    <3>4. QED
      BY <1>1, <1>2, <3>1, <3>3, QuietKey DEF a, m, q
  <2>3. QED
    BY <2>1, <2>2
<1>11. QED
  BY <1>9, <1>10 DEF LimiterInv

LEMMA QuestionLimits ==
    ASSUME LimiterInv, Question
    PROVE  LimiterInv'
<1> DEFINE K == IF Fits(Minute) THEN {Minute, Day} ELSE {Minute}
           J == IF Fits(Minute) /\ Fits(Day) THEN {Minute, Day} ELSE {}
<1>1. LimiterType /\ \A k \in Key : KeyInv(k)
  BY DEF LimiterInv
<1>2. Hit(K) /\ Granted(J) /\ Same /\ UNCHANGED login /\ UNCHANGED <<clock, up>>
  BY DEF Question, Same
<1>3. /\ J \subseteq K /\ K \subseteq {Minute, Day}
      /\ \A k \in J : Fits(k)
  OBVIOUS
<1> HIDE DEF K, J
<1>4. LimiterType'
  BY <1>1, <1>2, HitTypes DEF LimiterType
<1>5. ASSUME NEW k \in Key PROVE KeyInv(k)'
  <2> DEFINE q == Places(k)'
             a == Cardinality(Fresh(granted[k], clock, k))
             m == Cardinality(Present(granted[k], clock, k, memory[k].until))
  <2>1. q = Places(k) /\ q \in Nat /\ KeyInv(k) /\ q <= Places(k)
    BY <1>1, <1>2, PassedFacts DEF LimiterType, Places
  <2> HIDE DEF q, a, m
  <2>2. /\ up => a + q <= Room(k)
        /\ ~ up /\ memory[k].until >= clock => m + q <= Room(k)
        /\ q <= Room(k)
    BY <1>1, <2>1, KeyRoom DEF a, m
  <2>3. CASE k \notin K
    <3>1. /\ last'[k] = last[k] /\ redis'[k] = redis[k] /\ memory'[k] = memory[k]
          /\ granted'[k] = Fresh(granted[k], clock, k)
      BY <1>2, <1>3, <2>3, HitFacts
    <3>2. QED
      BY <1>1, <1>2, <2>1, <2>2, <3>1, QuietKey DEF a, m, q
  <2>4. CASE k \in K \ J
    <3>1. /\ last'[k] = clock
          /\ up => redis'[k] = Incremented(k) /\ memory'[k] = memory[k]
          /\ ~ up => memory'[k] = Recorded(k) /\ redis'[k] = redis[k]
          /\ granted'[k] = Fresh(granted[k], clock, k)
      BY <1>2, <2>4, HitFacts
    <3>2. QED
      BY <1>1, <1>2, <2>1, <2>2, <3>1, HitKey DEF a, m, q
  <2>5. CASE k \in J
    <3>1. /\ last'[k] = clock
          /\ up => redis'[k] = Incremented(k) /\ memory'[k] = memory[k]
          /\ ~ up => memory'[k] = Recorded(k) /\ redis'[k] = redis[k]
          /\ granted'[k] = Fresh(granted[k], clock, k) \cup {ThisHit(k)}
      BY <1>2, <1>3, <2>5, HitFacts
    <3>2. k \in {Minute, Day} /\ Fits(k)
      BY <1>3, <2>5
    <3>3. q = 0
      BY <1>1, <2>1, <3>2, PassedFacts DEF LimiterType, Places
    <3>4. /\ up => a + 1 + q <= Room(k)
          /\ ~ up /\ memory[k].until >= clock => m + 1 + q <= Room(k)
          /\ 1 + q <= Room(k)
      BY <1>1, <2>1, <3>2, <3>3, QuestionFits DEF a, m
    <3>5. QED
      BY <1>1, <1>2, <2>1, <2>2, <3>1, <3>4, HitKey DEF a, m, q
  <2>6. QED
    BY <2>3, <2>4, <2>5
<1>6. QED
  BY <1>4, <1>5 DEF LimiterInv

LEMMA OutageLimits ==
    ASSUME LimiterInv, Outage
    PROVE  LimiterInv'
<1>1. LimiterType /\ \A k \in Key : KeyInv(k)
  BY DEF LimiterInv
<1>2. /\ up' = ~ up /\ granted' = [k \in Key |-> {}]
      /\ UNCHANGED <<clock, redis, memory, login, last>>
  BY DEF Outage
<1>3. LimiterType'
  BY <1>1, <1>2 DEF LimiterType
<1>4. ASSUME NEW k \in Key PROVE KeyInv(k)'
  <2> DEFINE G == granted'[k]
             p == Places(k)
             r == redis[k]
             e == memory[k]
  <2>1. G = {} /\ clock \in Nat
    BY <1>1, <1>2 DEF LimiterType
  <2>2. p \in Nat /\ p <= Room(k)
    BY <1>1, PassedFacts DEF LimiterType, Places
  <2>3. r.count \in Nat /\ e.count \in Nat
    BY <1>1 DEF LimiterType, CounterType, EntryType
  <2>4. Renews(last[k], r, e, clock, k)
    BY <1>1 DEF KeyInv
  <2> HIDE DEF G, p, r, e
  <2>5. Numbered(G, clock) /\ InOne(G, p, r, clock, k) /\ InTwo(G, p, e, clock, k)
    BY <2>1, <2>2, <2>3, NoHits
  <2>6. QED
    BY <1>2, <2>4, <2>5 DEF KeyInv, Places, G, p, r, e
<1>5. QED
  BY <1>3, <1>4 DEF LimiterInv

LEMMA TimePassesLimits ==
    ASSUME LimiterInv, TimePasses
    PROVE  LimiterInv'
<1>1. LimiterType /\ \A k \in Key : KeyInv(k)
  BY DEF LimiterInv
<1>2. clock' = clock + 1 /\ UNCHANGED <<redis, memory, up, login, granted, last>>
  BY DEF TimePasses
<1>3. LimiterType'
  BY <1>1, <1>2 DEF LimiterType
<1>4. ASSUME NEW k \in Key PROVE KeyInv(k)'
  <2> DEFINE G == granted[k]
             p == Cardinality(Passed(login, k))
             r == redis[k]
             e == memory[k]
             t == clock + 1
  <2>1. clock \in Nat /\ r \in CounterType /\ e \in EntryType /\ last[k] \in Int
    BY <1>1 DEF LimiterType
  <2>2. p \in Nat
    BY <1>1, PassedFacts DEF LimiterType
  <2>3. /\ Numbered(G, clock) /\ Renews(last[k], r, e, clock, k)
        /\ up => InOne(G, p, r, clock, k)
        /\ ~ up => InTwo(G, p, e, clock, k)
    BY <1>1 DEF KeyInv
  <2> HIDE DEF G, p, r, e
  <2>4. Numbered(G, t) /\ (up => InOne(G, p, r, t, k)) /\ (~ up => InTwo(G, p, e, t, k))
    BY <2>1, <2>2, <2>3, TickFacts, TickOne, TickTwo
  <2>5. Renews(last[k], r, e, t, k)
    BY <2>1, <2>3 DEF Renews
  <2>6. QED
    BY <1>2, <2>4, <2>5 DEF KeyInv, G, p, r, e
<1>5. QED
  BY <1>3, <1>4 DEF LimiterInv

-----------------------------------------------------------------------------
\* The limiter starts with no hit, and keeps counting what it grants.
THEOREM LimiterStarts == LimiterInit => LimiterInv
<1> SUFFICES ASSUME LimiterInit PROVE LimiterInv
  OBVIOUS
<1>1. LimiterType
  BY NoLoginFacts DEF LimiterInit, LimiterType, Empty, Forgotten, CounterType, EntryType
<1>2. ASSUME NEW k \in Key PROVE KeyInv(k)
  <2> DEFINE G == granted[k]
             p == Places(k)
             r == redis[k]
             e == memory[k]
  <2>1. G = {} /\ clock \in Nat
    BY DEF LimiterInit
  <2>2. p \in Nat /\ p <= Room(k)
    BY <1>1, PassedFacts DEF LimiterType, Places
  <2>3. r = Empty /\ e = Forgotten /\ last[k] = -1 /\ clock = 0
    BY DEF LimiterInit
  <2> HIDE DEF G, p, r, e
  <2>4. r.count \in Nat /\ e.count \in Nat
    BY <2>3 DEF Empty, Forgotten
  <2>5. Numbered(G, clock) /\ InOne(G, p, r, clock, k) /\ InTwo(G, p, e, clock, k)
    BY <2>1, <2>2, <2>4, NoHits
  <2>6. Renews(last[k], r, e, clock, k)
    BY <2>3 DEF Renews, Empty, Forgotten
  <2>7. QED
    BY <2>5, <2>6 DEF KeyInv, Places, G, p, r, e
<1>3. QED
  BY <1>1, <1>2 DEF LimiterInv

\* One step per action of a login, a question, an outage and the clock.
THEOREM LimiterSteps == LimiterInv /\ [LimiterNext]_limiterVars => LimiterInv'
<1> SUFFICES ASSUME LimiterInv, [LimiterNext]_limiterVars PROVE LimiterInv'
  OBVIOUS
<1>1. ASSUME NEW c \in Caller, Begin(c) PROVE LimiterInv'
  BY <1>1, BeginLimits
<1>2. ASSUME NEW c \in Caller, PeekName(c) PROVE LimiterInv'
  BY <1>2, PeekNameLimits
<1>3. ASSUME NEW c \in Caller, PeekAddress(c) PROVE LimiterInv'
  BY <1>3, PeekAddressLimits
<1>4. ASSUME NEW c \in Caller, Fails(c) PROVE LimiterInv'
  BY <1>4, FailsLimits
<1>5. ASSUME NEW c \in Caller, RecordName(c) PROVE LimiterInv'
  BY <1>5, RecordNameLimits
<1>6. ASSUME NEW c \in Caller, RecordAddress(c) PROVE LimiterInv'
  BY <1>6, RecordAddressLimits
<1>7. ASSUME NEW c \in Caller, Succeeds(c) PROVE LimiterInv'
  BY <1>7, SucceedsLimits
<1>8. CASE Question
  BY <1>8, QuestionLimits
<1>9. CASE Outage
  BY <1>9, OutageLimits
<1>10. CASE TimePasses
  BY <1>10, TimePassesLimits
<1>11. CASE UNCHANGED limiterVars
  BY <1>11 DEF LimiterInv, LimiterType, KeyInv, limiterVars
<1>12. QED
  BY <1>1, <1>2, <1>3, <1>4, <1>5, <1>6, <1>7, <1>8, <1>9, <1>10, <1>11 DEF LimiterNext

LEMMA LimiterBounds ==
    ASSUME LimiterInv
    PROVE  WithinLimit
<1> SUFFICES ASSUME NEW k \in Key
             PROVE  Cardinality(Recent(k)) <= IF up THEN Room(k) ELSE 2 * Room(k)
  BY DEF WithinLimit, Room
<1> DEFINE G == granted[k]
           p == Cardinality(Passed(login, k))
           F == Fresh(G, clock, k)
           P == Present(G, clock, k, memory[k].until)
           O == Former(G, clock, k, memory[k].until)
<1>1. LimiterType /\ KeyInv(k)
  BY DEF LimiterInv
<1>2. Recent(k) = F
  BY DEF Recent, Fresh
<1>3. p \in Nat /\ p <= Room(k) /\ Room(k) \in Int
  BY <1>1, PassedFacts DEF LimiterType
<1>4. /\ IsFiniteSet(F) /\ IsFiniteSet(P) /\ IsFiniteSet(O)
      /\ Cardinality(F) \in Nat /\ Cardinality(P) \in Nat /\ Cardinality(O) \in Nat
  BY <1>1, FreshFacts DEF KeyInv, Numbered
<1>5. up => Cardinality(F) + p <= Room(k)
  BY <1>1 DEF KeyInv, InOne
<1>6. ~ up /\ memory[k].until >= clock =>
        Cardinality(P) + p <= Room(k) /\ Cardinality(O) <= Room(k)
  BY <1>1 DEF KeyInv, InTwo
<1>7. ~ up /\ memory[k].until < clock => Cardinality(F) <= Room(k)
  BY <1>1 DEF KeyInv, InTwo
<1>8. Cardinality(F) <= Cardinality(P) + Cardinality(O)
  <2>1. F = P \cup O
    <3>1. \A h \in F : h[1] \in Nat
      BY <1>1 DEF LimiterType, HitType, Fresh
    <3>2. memory[k].until - Limit[k].window \in Int
      BY <1>1, LimitFacts DEF LimiterType, EntryType
    <3>3. \A h \in F : \/ h[1] >= memory[k].until - Limit[k].window
                       \/ h[1] < memory[k].until - Limit[k].window
      BY <3>1, <3>2
    <3>4. QED
      BY <3>3 DEF Present, Former
  <2> HIDE DEF F, P, O
  <2>2. Cardinality(P \cup O) = Cardinality(P) + Cardinality(O) - Cardinality(P \cap O)
    BY <1>4, FS_Union
  <2>3. Cardinality(P \cap O) \in Nat
    BY <1>4, FS_Intersection, FS_CardinalityType
  <2>4. QED
    BY <1>4, <2>1, <2>2, <2>3
<1>9. memory[k].until \in Int /\ clock \in Int
  BY <1>1 DEF LimiterType, EntryType
<1> HIDE DEF F, P, O, p
<1>10. CASE up
  BY <1>2, <1>3, <1>4, <1>5, <1>10
<1>11. CASE ~ up
  BY <1>2, <1>3, <1>4, <1>6, <1>7, <1>8, <1>9, <1>11
<1>12. QED
  BY <1>10, <1>11

LEMMA LimiterAdmits ==
    ASSUME LimiterInv
    PROVE  AdmittedAgain
<1> SUFFICES ASSUME NEW k \in Key, ~ Allowed(k)
             PROVE  last[k] # -1 /\ clock <= last[k] + Limit[k].window
  BY DEF AdmittedAgain
<1>1. /\ clock \in Nat /\ redis[k] \in CounterType /\ memory[k] \in EntryType
      /\ last[k] \in Nat \cup {-1}
      /\ Renews(last[k], redis[k], memory[k], clock, k)
  BY DEF LimiterInv, LimiterType, KeyInv
<1>2. Limit[k].max >= 1 /\ Limit[k].max \in Nat /\ Limit[k].window \in Nat
  BY LimitFacts
<1>3. CASE up
  <2>1. redis[k].until > clock
    BY <1>1, <1>2, <1>3 DEF Allowed, Count, InRedis
  <2>2. QED
    BY <1>1, <1>2, <2>1 DEF Renews, CounterType
<1>4. CASE ~ up
  <2>1. memory[k].until >= clock
    BY <1>1, <1>2, <1>4 DEF Allowed, Count, InMemory, EntryType
  <2>2. QED
    BY <1>1, <1>2, <2>1 DEF Renews, EntryType
<1>5. QED
  BY <1>3, <1>4

\* Whatever the limits, the windows and the number of logins: no window lets
\* through more than its limit and the logins already past the peek (two windows'
\* worth while Redis is down), and nobody who kept still for a window is refused.
THEOREM LimitsAreExact == LimiterSpec => []LimitExact
<1>1. LimiterInit => LimiterInv
  BY LimiterStarts
<1>2. LimiterInv /\ [LimiterNext]_limiterVars => LimiterInv'
  BY LimiterSteps
<1>3. LimiterInv => LimitExact
  BY LimiterBounds, LimiterAdmits DEF LimitExact
<1>4. QED
  BY <1>1, <1>2, <1>3, PTL DEF LimiterSpec
=============================================================================
