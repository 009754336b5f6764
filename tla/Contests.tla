------------------------------ MODULE Contests ------------------------------
(***************************************************************************)
(* Contests: the requests of contest_service.py behind api/v1/contests.py, *)
(* and the administrator's change of a status (api/v1/admin.py).           *)
(*                                                                         *)
(* A request reads the contest's row once, decides, and commits one        *)
(* transaction.  Rows of contests carry no version: an UPDATE writes the   *)
(* columns that differ from what the request read, and the options and the *)
(* record of the generated content are one JSON column, written whole.     *)
(* What serialises two activations is the unique index on (contest,        *)
(* symbol) of the companies they insert.                                   *)
(*                                                                         *)
(* A template of a company is its symbol, a news article or a post is one  *)
(* unit of a count, and the resolved trading rules are left out.  The      *)
(* reward of joining (record_event) is the subject of Tasks.               *)
(***************************************************************************)
EXTENDS Integers, Sequences, FiniteSets

CONSTANTS
    Request,       \* requests the API can be serving at the same time
    Host, Admin, Player,   \* users by role
    Base,          \* slugs as hosts choose them
    Symbol,        \* symbols of companies
    Seed,          \* Seed[i]: the templates of an industry, in seed order
    Filler,        \* SCEN001, SCEN002, ...: made up when templates run out
    Options,       \* what a host may choose
    MaxContests,   \* bound: contests
    MaxRequests    \* bound: requests altogether

User == Host \cup Admin \cup Player
Contest == 1..MaxContests
Statuses == {"draft", "active", "ended"}

ASSUME ContestsAssumption ==
    /\ \A i \in DOMAIN Seed : Seed[i] \in Seq(Symbol)
    /\ Filler \in Seq(Symbol)
    /\ Options # {}
    /\ \A o \in Options : /\ o.industry \in DOMAIN Seed
                          /\ o.count \in 1..(Len(Seed[o.industry]) + Len(Filler))
                          /\ {o.emphasis, o.news, o.social} \subseteq BOOLEAN
    /\ {MaxContests, MaxRequests} \subseteq Nat

VARIABLES
    contests,      \* the rows of contests
    companies,     \* companies[c]: the symbols of a contest's companies
    articles,      \* articles[c]: number of its news articles and of its posts
    members,       \* contest_members: pairs of a contest and a user
    request,       \* what each request has read and means to do
    arrived,       \* number of requests so far
    mixed,         \* contests edited while an activation was under way
    forced         \* contests whose status an administrator has set

vars == <<contests, companies, articles, members, request, arrived, mixed, forced>>

-----------------------------------------------------------------------------
(* Rows and requests *)

Nothing == [generated |-> FALSE, symbols |-> {}, news |-> 0, social |-> 0]

(* A slug is a base and the suffix unique_slug added; 1 stands for none. *)
NoSlug == <<"", 0>>

Vacant == [status |-> "none", slug |-> NoSlug, owner |-> "none",
           options |-> CHOOSE o \in Options : TRUE, content |-> Nothing]

Idle == [at |-> "idle", op |-> "none", contest |-> 0, row |-> Vacant,
         user |-> "none", options |-> Vacant.options, slug |-> NoSlug]

Existing == {c \in Contest : contests[c].status # "none"}

Taken(slug) == \E c \in Existing : contests[c].slug = slug

(* HostDep: require_roles("host", "admin") *)
Hosting == Host \cup Admin

(* is_owner_or_admin *)
Manages(user, row) == user \in Admin \/ row.owner = user

-----------------------------------------------------------------------------
(* Arrival: the endpoint loads the contest and checks who asks *)

Edits == {"update"}
Generates == {"activate"}

(* History: contests on which an edit and an activation are both at work. *)
Overlapping(reqs) ==
    {c \in Contest : \A ops \in {Edits, Generates} :
        \E r \in Request : reqs[r].at # "idle" /\ reqs[r].op \in ops /\ reqs[r].contest = c}

Enter(r, new) ==
    /\ request[r].at = "idle"
    /\ arrived < MaxRequests
    /\ arrived' = arrived + 1
    /\ request' = [request EXCEPT ![r] = new]
    /\ mixed' = mixed \cup Overlapping(request')
    /\ UNCHANGED <<contests, companies, articles, members, forced>>

Asks(op, c) == [Idle EXCEPT !.at = "write", !.op = op, !.contest = c,
                            !.row = contests[c]]

(* POST /contests *)
AskCreate(r) ==
    \E user \in Hosting, base \in Base, o \in Options :
        Enter(r, [Idle EXCEPT !.at = "slug", !.op = "create", !.user = user,
                              !.options = o, !.slug = <<base, 1>>])

(* PATCH /contests/{slug}: options that stay and options that change, and   *)
(* possibly another slug. *)
AskUpdate(r) ==
    \E c \in Existing, user \in Hosting, o \in Options :
        /\ Manages(user, contests[c])
        /\ \/ Enter(r, [Asks("update", c) EXCEPT !.options = o])
           \/ \E base \in Base :
                /\ <<base, 1>> # contests[c].slug
                /\ Enter(r, [Asks("update", c) EXCEPT !.at = "slug",
                                !.options = o, !.slug = <<base, 1>>])

(* DELETE /contests/{slug} and POST /contests/{slug}/activate *)
AskManager(r) ==
    \E c \in Existing, user \in Hosting, op \in {"delete", "activate"} :
        /\ Manages(user, contests[c])
        /\ Enter(r, Asks(op, c))

(* POST /contests/{slug}/join *)
MayJoin(row) == row.status = "active"

AskJoin(r) ==
    \E c \in Existing, user \in User :
        /\ MayJoin(contests[c])
        /\ ~ Manages(user, contests[c])
        /\ Enter(r, [Asks("join", c) EXCEPT !.user = user])

-----------------------------------------------------------------------------
(* Slugs: unique_slug asks for one candidate after the other *)

TrySlug(r) ==
    LET q == request[r] IN
    /\ q.at = "slug"
    /\ request' = [request EXCEPT
           ![r] = IF Taken(q.slug) THEN [q EXCEPT !.slug[2] = @ + 1]
                                   ELSE [q EXCEPT !.at = "write"]]
    /\ UNCHANGED <<contests, companies, articles, members, arrived, mixed, forced>>

-----------------------------------------------------------------------------
(* Commits.  A transaction that violates a unique index leaves nothing.    *)

Answer(r, op) ==
    /\ request[r].at = "write"
    /\ request[r].op = op
    /\ request' = [request EXCEPT ![r] = Idle]
    /\ UNCHANGED <<arrived, mixed>>

(* create_contest *)
Create(r) ==
    /\ Answer(r, "create")
    /\ IF Taken(request[r].slug)
       THEN UNCHANGED contests
       ELSE \E c \in Contest \ Existing :
              /\ \A d \in Contest \ Existing : c <= d
              /\ contests' = [contests EXCEPT ![c] =
                     [status |-> "draft", slug |-> request[r].slug,
                      owner |-> request[r].user, options |-> request[r].options,
                      content |-> Nothing]]
    /\ UNCHANGED <<companies, articles, members, forced>>

(* What a column holds after the UPDATE of a request that read `old` and    *)
(* assigned `new`. *)
Column(current, old, new) == IF new = old THEN current ELSE new

Config(row) == <<row.options, row.content>>

(* update_contest: the config is written back whole, with the content as    *)
(* it was read, unless it recorded content. *)
Edited(current, read, options) ==
    IF read.content.generated
    THEN Config(current)
    ELSE Column(Config(current), Config(read), <<options, read.content>>)

Update(r) ==
    LET q == request[r]
        c == q.contest
        config == Edited(contests[c], q.row, q.options) IN
    /\ Answer(r, "update")
    /\ IF q.slug # NoSlug /\ Taken(q.slug)
       THEN UNCHANGED contests
       ELSE contests' = [contests EXCEPT
                ![c].slug = IF q.slug = NoSlug THEN @ ELSE q.slug,
                ![c].options = config[1],
                ![c].content = config[2]]
    /\ UNCHANGED <<companies, articles, members, forced>>

(* soft_delete_contest *)
Delete(r) ==
    LET c == request[r].contest IN
    /\ Answer(r, "delete")
    /\ contests' = [contests EXCEPT ![c].status = Column(@, request[r].row.status, "ended")]
    /\ UNCHANGED <<companies, articles, members, forced>>

(* update_contest_status of the administrator *)
SetStatus ==
    \E c \in Existing \ forced, status \in Statuses :
        /\ contests' = [contests EXCEPT ![c].status = status]
        /\ forced' = forced \cup {c}
        /\ UNCHANGED <<companies, articles, members, request, arrived, mixed>>

(* join_contest *)
Join(r) ==
    /\ Answer(r, "join")
    /\ members' = members \cup {<<request[r].contest, request[r].user>>}
    /\ UNCHANGED <<contests, companies, articles, forced>>

-----------------------------------------------------------------------------
(* Activation: generate_content *)

(* _match_company_templates and _ensure_company_count *)
Picked(o) ==
    LET templates == Seed[o.industry] \o Filler IN
    {templates[i] : i \in 1..o.count}

(* _news_rows_for_contest and _social_rows_for_contest *)
NewsOf(o) == IF o.news THEN (IF o.emphasis THEN 2 ELSE 1) * o.count + 1 ELSE 0
PostsOf(o) == IF o.social THEN o.count ELSE 0

Generated(o) == [generated |-> TRUE, symbols |-> Picked(o),
                 news |-> NewsOf(o), social |-> PostsOf(o)]

Collides_Never(c, symbols) == FALSE

(* uq_companies_contest_symbol *)
Collides(c, symbols) == companies[c] \cap symbols # {}

(* The guard of activate_contest and generate_content. *)
Activate(r) ==
    LET q == request[r]
        c == q.contest
        content == Generated(q.row.options) IN
    /\ Answer(r, "activate")
    /\ IF q.row.content.generated \/ Collides(c, content.symbols)
       THEN UNCHANGED <<contests, companies, articles>>
       ELSE /\ companies' = [companies EXCEPT ![c] = @ \cup content.symbols]
            /\ articles' = [articles EXCEPT ![c].news = @ + content.news,
                                            ![c].social = @ + content.social]
            /\ contests' = [contests EXCEPT
                   ![c].status = Column(@, q.row.status, "active"),
                   ![c].options = q.row.options,
                   ![c].content = content]
    /\ UNCHANGED <<members, forced>>

-----------------------------------------------------------------------------
(* A database that fails takes the transaction with it. *)
RollBack(r) ==
    /\ request[r].at # "idle"
    /\ request' = [request EXCEPT ![r] = Idle]
    /\ UNCHANGED <<contests, companies, articles, members, arrived, mixed, forced>>

Init ==
    /\ contests = [c \in Contest |-> Vacant]
    /\ companies = [c \in Contest |-> {}]
    /\ articles = [c \in Contest |-> [news |-> 0, social |-> 0]]
    /\ members = {}
    /\ request = [r \in Request |-> Idle]
    /\ arrived = 0
    /\ mixed = {}
    /\ forced = {}

Ask(r) == AskCreate(r) \/ AskUpdate(r) \/ AskManager(r) \/ AskJoin(r)

Serve(r) ==
    \/ TrySlug(r) \/ Create(r) \/ Update(r) \/ Delete(r) \/ Join(r)
    \/ Activate(r) \/ RollBack(r)

Next ==
    \/ \E r \in Request : Ask(r) \/ Serve(r)
    \/ SetStatus

Spec == Init /\ [][Next]_vars

-----------------------------------------------------------------------------
(* Properties *)

Content == [generated : BOOLEAN, symbols : SUBSET Symbol, news : Nat, social : Nat]

(* What a contest can hold: one row, one config and one status each, and   *)
(* members only of contests that exist. *)
TypeOK ==
    /\ \A c \in Contest : /\ contests[c].status \in Statuses \cup {"none"}
                          /\ contests[c].options \in Options
                          /\ contests[c].content \in Content
                          /\ companies[c] \subseteq Symbol
    /\ members \subseteq Existing \X User
    /\ {mixed, forced} \subseteq SUBSET Contest

(* What the config of a contest says was generated is what the contest has, *)
(* companies, news and posts, however often it is activated, deleted and    *)
(* activated again, unless somebody edited it while an activation was       *)
(* under way (update_contest writes the whole config back). *)
RecordKept ==
    \A c \in Contest \ mixed :
        /\ companies[c] = contests[c].content.symbols
        /\ articles[c] = [news |-> contests[c].content.news,
                          social |-> contests[c].content.social]

(* Nobody enters or has joined a contest without companies to trade, unless *)
(* an administrator opened it by hand: not even when an edit overwrote the  *)
(* record of its content. *)
OpenHasContent ==
    \A c \in Contest \ forced :
        contests[c].status = "active" \/ (\E u \in User : <<c, u>> \in members)
            => companies[c] # {}

(* A contest and its content stay together. *)
ContentRecorded == TypeOK /\ RecordKept /\ OpenHasContent
=============================================================================
