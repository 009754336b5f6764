------------------------------ MODULE Sessions ------------------------------
(***************************************************************************)
(* Sessions over WebSockets: the single-use ticket of POST /auth/ws-ticket *)
(* and of the handshake (realtime/auth.py), the two caches of users every  *)
(* gateway process keeps, the periodic revalidation in the loop of         *)
(* ConnectionManager.handle_connection, and the hook useWebSocket that     *)
(* reconnects.                                                             *)
(*                                                                         *)
(* Time is discrete.  A query of the database takes up to QueryTime, and   *)
(* what it returns is what the row held at some moment in between; the     *)
(* time an entry of a cache is counted from is read before the query.      *)
(* A tab fetches one ticket (useTrade, useSocraticMentor) and presents it  *)
(* again at every reconnect.  Evictions of the caches are left out.        *)
(***************************************************************************)
EXTENDS Integers

CONSTANTS
    Account,       \* users
    Tab,           \* tabs of browsers
    OwnerOf,       \* OwnerOf[t]: the account a tab is logged in with
    Worker,        \* processes of the gateway
    HeartBeat,     \* ws_heartbeat_seconds
    TicketTTL,     \* ws_ticket_ttl_seconds
    UserTTL,       \* ws_user_cache_ttl_seconds
    CheckTTL,      \* ws_revalidate_cache_ttl_seconds
    QueryTime,     \* how long a query takes at most
    MaxRetries,    \* maxRetries of useWebSocket
    MaxTime,       \* bound: the clock
    MaxSwitches,   \* bound: accounts locked or unlocked
    MaxFailures    \* bound: failures of Redis, of the database, of a worker

ASSUME SessionsAssumption ==
    /\ OwnerOf \in [Tab -> Account]
    /\ {HeartBeat, TicketTTL, UserTTL, CheckTTL, MaxTime} \subseteq Nat \ {0}
    /\ {QueryTime, MaxRetries, MaxSwitches, MaxFailures} \subseteq Nat

VARIABLES
    now,           \* the clock
    active,        \* users.is_active
    ticket,        \* ticket[t]: until when Redis holds the tab's ticket; 0: not
    known,         \* known[w][a]: until when _user_cache holds the user; 0: not
    checked,       \* checked[w][a]: entry of _revalidate_cache
    tab,           \* what each tab and its socket are doing
    switched,      \* switched[a]: when an account was last locked or unlocked
    issued,        \* issued[t]: when the tab's ticket was issued; 0: not yet
    opened,        \* opened[t]: sockets the tab's ticket has opened
    unsure,        \* tabs kept by a check that failed since the last switch
    failures       \* number of failures so far

sessionVars == <<now, active, ticket, known, checked, tab, switched, issued,
                 opened, unsure, failures>>

-----------------------------------------------------------------------------
(* A tab: without ticket, about to connect, loading the user, open, being   *)
(* revalidated, or stopped for good.  asked is the time read before a query *)
(* and seen what the query found; validated and wakes belong to the loop.   *)

NoTab == [at |-> "new", worker |-> "none", retries |-> 0, asked |-> 0,
          seen |-> "unread", validated |-> 0, wakes |-> 0]

Querying == {"loading", "checking"}

Switches == UNCHANGED <<active, switched>>
Caches == UNCHANGED <<known, checked>>
Ticketing == UNCHANGED <<ticket, issued, opened>>

(* scheduleReconnect: a close code other than 1008 is retried. *)
Reconnected(s) ==
    [NoTab EXCEPT !.at = IF s.retries >= MaxRetries THEN "stopped" ELSE "ready",
                  !.retries = s.retries + 1]

Stopped(s) == [NoTab EXCEPT !.at = "stopped", !.retries = s.retries]

(* onopen; handle_connection reads last_validate and enters its loop. *)
Opened(s) == [s EXCEPT !.at = "open", !.retries = 0, !.asked = 0, !.seen = "unread",
                       !.validated = now, !.wakes = now + HeartBeat]

Listening_AsIfChecked(s) == [s EXCEPT !.at = "open", !.asked = 0, !.seen = "unread",
                                      !.validated = now, !.wakes = now + HeartBeat]

(* The loop goes on waiting for the client. *)
Listening(s) == [s EXCEPT !.at = "open", !.asked = 0, !.seen = "unread",
                          !.wakes = now + HeartBeat]

-----------------------------------------------------------------------------
(* Tickets *)

(* get_current_user reads the row at every request, with no cache. *)
Admitted(t) == active[OwnerOf[t]]

(* POST /auth/ws-ticket *)
Issue(t) ==
    /\ tab[t].at = "new"
    /\ Admitted(t)
    /\ ticket' = [ticket EXCEPT ![t] = now + TicketTTL]
    /\ issued' = [issued EXCEPT ![t] = now]
    /\ tab' = [tab EXCEPT ![t].at = "ready"]
    /\ Switches /\ Caches
    /\ UNCHANGED <<now, opened, unsure, failures>>

(* A ticket's key expires by itself. *)
Held(t) == ticket[t] > now

Consumed_Kept(t) == ticket[t]

(* GETDEL *)
Consumed(t) == 0

(* get_ws_user: the ticket first, then _load_active_user from the cache or  *)
(* by a query. *)
Handshake(t, w) ==
    LET s == [tab[t] EXCEPT !.worker = w] IN
    /\ tab[t].at = "ready"
    /\ IF ~ Held(t)
       THEN /\ tab' = [tab EXCEPT ![t] = Reconnected(tab[t])]
            /\ UNCHANGED <<ticket, opened>>
       ELSE /\ ticket' = [ticket EXCEPT ![t] = Consumed(t)]
            /\ IF known[w][OwnerOf[t]] > now
               THEN /\ tab' = [tab EXCEPT ![t] = Opened(s)]
                    /\ opened' = [opened EXCEPT ![t] = @ + 1]
               ELSE /\ tab' = [tab EXCEPT ![t] =
                                 [s EXCEPT !.at = "loading", !.asked = now]]
                    /\ UNCHANGED opened
    /\ Switches /\ Caches
    /\ UNCHANGED <<now, issued, unsure, failures>>

(* Redis does not answer: the handshake is refused, the ticket stays. *)
HandshakeFails(t) ==
    /\ tab[t].at = "ready"
    /\ failures < MaxFailures
    /\ failures' = failures + 1
    /\ tab' = [tab EXCEPT ![t] = Reconnected(@)]
    /\ Switches /\ Caches /\ Ticketing
    /\ UNCHANGED <<now, unsure>>

-----------------------------------------------------------------------------
(* Queries: the row is read at some moment between asking and the answer.  *)

Read(t) ==
    /\ tab[t].at \in Querying
    /\ tab[t].seen = "unread"
    /\ tab' = [tab EXCEPT ![t].seen = IF active[OwnerOf[t]] THEN "active" ELSE "locked"]
    /\ Switches /\ Caches /\ Ticketing
    /\ UNCHANGED <<now, unsure, failures>>

Until(asked, ttl) == asked + ttl

(* _load_active_user returns: only an active user is kept. *)
Loaded(t) ==
    LET s == tab[t] IN
    /\ s.at = "loading"
    /\ s.seen # "unread"
    /\ IF s.seen = "active"
       THEN /\ known' = [known EXCEPT ![s.worker][OwnerOf[t]] = Until(s.asked, UserTTL)]
            /\ tab' = [tab EXCEPT ![t] = Opened(s)]
            /\ opened' = [opened EXCEPT ![t] = @ + 1]
       ELSE /\ tab' = [tab EXCEPT ![t] = Reconnected(s)]
            /\ UNCHANGED <<known, opened>>
    /\ Switches
    /\ UNCHANGED <<now, ticket, issued, checked, unsure, failures>>

(* revalidate_user returns; either answer is kept, and a user who is not    *)
(* active is closed with 1008, which the client never retries. *)
Revalidated(t) ==
    LET s == tab[t] IN
    /\ s.at = "checking"
    /\ s.seen # "unread"
    /\ checked' = [checked EXCEPT ![s.worker][OwnerOf[t]] =
                     [until |-> Until(s.asked, CheckTTL), active |-> s.seen = "active"]]
    /\ tab' = [tab EXCEPT ![t] = IF s.seen = "active" THEN Listening(s) ELSE Stopped(s)]
    /\ Switches /\ Ticketing
    /\ UNCHANGED <<now, known, unsure, failures>>

(* A check that failed is not remembered. *)
Remembered(s, a) == checked

(* The query fails: a handshake is refused, a session goes on. *)
QueryFails(t) ==
    LET s == tab[t] IN
    /\ s.at \in Querying
    /\ failures < MaxFailures
    /\ failures' = failures + 1
    /\ tab' = [tab EXCEPT ![t] = IF s.at = "loading" THEN Reconnected(s) ELSE Listening(s)]
    /\ checked' = IF s.at = "loading" THEN checked ELSE Remembered(s, OwnerOf[t])
    /\ unsure' = IF s.at = "loading" THEN unsure ELSE unsure \cup {t}
    /\ Switches /\ Ticketing
    /\ UNCHANGED <<now, known>>

-----------------------------------------------------------------------------
(* The loop of handle_connection: a message, or the timeout of receive,     *)
(* and once per heartbeat the validation. *)

Due(s) == now - s.validated >= HeartBeat

Turn(t) ==
    LET s == tab[t]
        c == checked[s.worker][OwnerOf[t]] IN
    /\ s.at = "open"
    /\ IF ~ Due(s)
       THEN tab' = [tab EXCEPT ![t] = Listening(s)]
       ELSE IF c.until > now
       THEN tab' = [tab EXCEPT ![t] =
              IF c.active THEN [Listening(s) EXCEPT !.validated = now] ELSE Stopped(s)]
       ELSE tab' = [tab EXCEPT ![t] = [s EXCEPT !.at = "checking", !.asked = now,
                                                !.validated = now]]
    /\ Switches /\ Caches /\ Ticketing
    /\ UNCHANGED <<now, unsure, failures>>

(* A network that fails, or the page closes and the user comes back. *)
Drop(t) ==
    /\ tab[t].at = "open"
    /\ failures < MaxFailures
    /\ failures' = failures + 1
    /\ tab' = [tab EXCEPT ![t] = Reconnected(@)]
    /\ Switches /\ Caches /\ Ticketing
    /\ UNCHANGED <<now, unsure>>

(* stop_ws_background closes every socket with 1012; the caches are gone.   *)
Restart(w) ==
    /\ failures < MaxFailures
    /\ failures' = failures + 1
    /\ tab' = [t \in Tab |-> IF tab[t].worker = w THEN Reconnected(tab[t]) ELSE tab[t]]
    /\ known' = [known EXCEPT ![w] = [a \in Account |-> 0]]
    /\ checked' = [checked EXCEPT ![w] = [a \in Account |-> [until |-> 0, active |-> FALSE]]]
    /\ Switches /\ Ticketing
    /\ UNCHANGED <<now, unsure>>

-----------------------------------------------------------------------------
(* update_user_status of the administrator. *)
Switch(a) ==
    /\ switched[a].times < MaxSwitches
    /\ active' = [active EXCEPT ![a] = ~ @]
    /\ switched' = [switched EXCEPT ![a] = [at |-> now, times |-> @.times + 1]]
    /\ unsure' = {t \in unsure : OwnerOf[t] # a}
    /\ Caches /\ Ticketing
    /\ UNCHANGED <<now, tab, failures>>

(* Time passes while queries run and loops wait. *)
Tick ==
    /\ now < MaxTime
    /\ \A t \in Tab : /\ tab[t].at = "open" => now < tab[t].wakes
                      /\ tab[t].at \in Querying => now < tab[t].asked + QueryTime
    /\ now' = now + 1
    /\ Switches /\ Caches /\ Ticketing
    /\ UNCHANGED <<tab, unsure, failures>>

SessionsInit ==
    /\ now = 1
    /\ active = [a \in Account |-> TRUE]
    /\ ticket = [t \in Tab |-> 0]
    /\ known = [w \in Worker |-> [a \in Account |-> 0]]
    /\ checked = [w \in Worker |-> [a \in Account |-> [until |-> 0, active |-> FALSE]]]
    /\ tab = [t \in Tab |-> NoTab]
    /\ switched = [a \in Account |-> [at |-> 0, times |-> 0]]
    /\ issued = [t \in Tab |-> 0]
    /\ opened = [t \in Tab |-> 0]
    /\ unsure = {}
    /\ failures = 0

TabStep(t) ==
    \/ Issue(t) \/ HandshakeFails(t) \/ Read(t) \/ Loaded(t) \/ Revalidated(t)
    \/ QueryFails(t) \/ Turn(t) \/ Drop(t)
    \/ \E w \in Worker : Handshake(t, w)

SessionsNext ==
    \/ \E t \in Tab : TabStep(t)
    \/ \E w \in Worker : Restart(w)
    \/ \E a \in Account : Switch(a)
    \/ Tick

SessionsSpec == SessionsInit /\ [][SessionsNext]_sessionVars

-----------------------------------------------------------------------------
(* Properties *)

Later(m, n) == IF m >= n THEN m ELSE n

Connected(t) == tab[t].at \in {"open", "checking"}

(* A ticket opens one socket at most, however often its tab presents it,   *)
(* soon after it was issued, and for a locked account only while an entry  *)
(* of the cache or a query from before the lock still speaks for it. *)
MayOpen(t) ==
    LET a == OwnerOf[t] IN
    /\ opened[t] = 0
    /\ now < issued[t] + TicketTTL + QueryTime
    /\ active[a] \/ now <= switched[a].at + Later(UserTTL - 1, QueryTime)

(* How long a locked account may keep a socket: as long as a stale entry,  *)
(* or a query under way, lets a socket open or pass a check, then two      *)
(* heartbeats until the next check, and the check. *)
Spoken == Later(Later(UserTTL - 1, CheckTTL - 1), QueryTime)
Grace == Spoken + 2 * HeartBeat - 1 + QueryTime

(* realtime/auth.py: an account that is locked loses its sockets within a  *)
(* bounded time, unless the database failed to answer a check. *)
LockedOut ==
    \A t \in Tab \ unsure :
        Connected(t) /\ ~ active[OwnerOf[t]] => now <= switched[OwnerOf[t]].at + Grace

(* A session is ended with 1008, which its client never retries, only when *)
(* the account is locked, or was when the cached entry or the query that   *)
(* speaks against it began: a failing database closes nobody. *)
MayClose(t) ==
    LET a == OwnerOf[t] IN
    \/ ~ active[a]
    \/ (switched[a].times > 0 /\ now <= switched[a].at + Later(CheckTTL - 1, QueryTime))

(* No socket opens and no session is ended but for its cause. *)
ForCause ==
    [][\A t \in Tab :
          /\ opened'[t] # opened[t] => MayOpen(t)
          /\ Connected(t) /\ tab'[t] = Stopped(tab[t]) => MayClose(t)]_sessionVars
=============================================================================
