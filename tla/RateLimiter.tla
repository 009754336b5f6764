---------------------------- MODULE RateLimiter -----------------------------
(***************************************************************************)
(* The rate limiter of core/ratelimit.py and its two users: the login of   *)
(* api/v1/auth.py, which reads the counters of the account and of the      *)
(* address first and records only failures, and the chat with the mentor,  *)
(* whose every question is recorded (realtime/mentor_ws.py).               *)
(*                                                                         *)
(* A counter lives in Redis, where every hit renews its expiry, or, while  *)
(* Redis does not answer, in the memory of the process, where the first    *)
(* hit fixes the end of the window.  Time is discrete; a login takes as    *)
(* long as it takes between its steps.                                     *)
(***************************************************************************)
EXTENDS Integers, FiniteSets

CONSTANTS
    Caller,        \* logins a process can be serving at the same time
    Name,          \* login:identifier: keys, one per account
    Address,       \* login:ip: keys, one per address
    Minute, Day,   \* mentor: keys, of a user who asks and of the same user's day
    Limit,         \* Limit[k]: a key's max_attempts and window_seconds
    MaxClock,      \* bound: the clock
    MaxCount,      \* bound: how far questions drive their counter
    MaxOutages     \* bound: times Redis goes down or comes back

Key == Name \cup Address \cup {Minute, Day}

ASSUME RateLimiterAssumption ==
    /\ \A k \in Key : {Limit[k].max, Limit[k].window} \subseteq Nat \ {0}
    /\ {MaxClock, MaxCount, MaxOutages} \subseteq Nat
    /\ IsFiniteSet(Caller)
    /\ Name \cap Address = {}
    /\ Minute # Day /\ {Minute, Day} \cap (Name \cup Address) = {}

VARIABLES
    clock,         \* the clock
    redis,         \* redis[k]: a counter and when its key expires
    memory,        \* memory[k]: a counter and the end of its window
    up,            \* does Redis answer
    login,         \* what each login has done so far
    granted,       \* granted[k]: the logins that failed, or questions that were let
                   \* through, since the last reset or outage: when, and the
                   \* how-manieth at that time
    last,          \* last[k]: when the key was last hit; -1: never
    outages        \* number of times Redis went down or came back

limiterVars == <<clock, redis, memory, up, login, granted, last, outages>>

Empty == [count |-> 0, until |-> 0]
Forgotten == [count |-> 0, until |-> -1]   \* no entry of _memory
NoLogin == [at |-> "idle", name |-> "none", address |-> "none", allowed |-> TRUE]

-----------------------------------------------------------------------------
(* Counters *)

(* A key of Redis exists until it expires. *)
InRedis(k) == IF redis[k].until > clock THEN redis[k].count ELSE 0

(* _mem_count *)
InMemory(k) == IF memory[k].until < clock THEN 0 ELSE memory[k].count

Count(k) == IF up THEN InRedis(k) ELSE InMemory(k)

Renewed_AtFirst(k) ==
    IF InRedis(k) = 0 THEN clock + Limit[k].window ELSE redis[k].until

(* EXPIRE goes with every INCR. *)
Renewed(k) == clock + Limit[k].window

(* INCR and EXPIRE in one pipeline. *)
Incremented(k) == [count |-> InRedis(k) + 1, until |-> Renewed(k)]

(* _mem_record: the first hit fixes the window. *)
Recorded(k) ==
    IF memory[k].until < clock
    THEN [count |-> 1, until |-> clock + Limit[k].window]
    ELSE [memory[k] EXCEPT !.count = @ + 1]

(* record_rate, or check_rate, of each key of K *)
Hit(K) ==
    /\ last' = [k \in Key |-> IF k \in K THEN clock ELSE last[k]]
    /\ IF up
       THEN /\ redis' = [k \in Key |-> IF k \in K THEN Incremented(k) ELSE redis[k]]
            /\ UNCHANGED memory
       ELSE /\ memory' = [k \in Key |-> IF k \in K THEN Recorded(k) ELSE memory[k]]
            /\ UNCHANGED redis

(* History: hits that are still within the key's window, and the next one. *)
Recent(k) == {h \in granted[k] : h[1] + Limit[k].window > clock}

ThisHit(k) == <<clock, Cardinality({h \in granted[k] : h[1] = clock})>>

Granted(K) ==
    granted' = [k \in Key |-> IF k \in K THEN Recent(k) \cup {ThisHit(k)} ELSE Recent(k)]

Same == UNCHANGED <<clock, up, outages>>
Counters == UNCHANGED <<redis, memory, last, granted>>

-----------------------------------------------------------------------------
(* Login *)

Begin(c) ==
    /\ login[c].at = "idle"
    /\ \E n \in Name, a \in Address :
          login' = [login EXCEPT ![c] = [at |-> "name", name |-> n, address |-> a,
                                         allowed |-> TRUE]]
    /\ Same /\ Counters

(* peek_rate *)
Allowed(k) == Count(k) < Limit[k].max

(* _rate_limit_or_429 reads both counters before it decides. *)
PeekName(c) ==
    /\ login[c].at = "name"
    /\ login' = [login EXCEPT ![c].at = "address", ![c].allowed = Allowed(login[c].name)]
    /\ Same /\ Counters

PeekAddress(c) ==
    /\ login[c].at = "address"
    /\ login' = [login EXCEPT
           ![c] = IF @.allowed /\ Allowed(@.address) THEN [@ EXCEPT !.at = "verify"]
                                                      ELSE NoLogin]
    /\ Same /\ Counters

(* verify_password *)
Fails(c) ==
    /\ login[c].at = "verify"
    /\ login' = [login EXCEPT ![c].at = "record"]
    /\ Same /\ Counters

(* _record_login_failure: the account, then the address *)
RecordName(c) ==
    /\ login[c].at = "record"
    /\ Hit({login[c].name}) /\ Granted({login[c].name})
    /\ login' = [login EXCEPT ![c].at = "recorded"]
    /\ Same

RecordAddress(c) ==
    /\ login[c].at = "recorded"
    /\ Hit({login[c].address}) /\ Granted({login[c].address})
    /\ login' = [login EXCEPT ![c] = NoLogin]
    /\ Same

(* The password is right: reset_rate of the account, not of the address. *)
Succeeds(c) ==
    LET n == login[c].name IN
    /\ login[c].at = "verify"
    /\ redis' = IF up THEN [redis EXCEPT ![n] = Empty] ELSE redis
    /\ memory' = [memory EXCEPT ![n] = Forgotten]
    /\ granted' = [granted EXCEPT ![n] = {}]
    /\ login' = [login EXCEPT ![c] = NoLogin]
    /\ Same /\ UNCHANGED last

-----------------------------------------------------------------------------
(* A question to the mentor: the minute's counter and, when it has room,    *)
(* the day's.  A refused question counts as well. *)

(* check_rate *)
Fits(k) == Count(k) + 1 <= Limit[k].max

Question ==
    /\ Count(Minute) < MaxCount
    /\ Hit(IF Fits(Minute) THEN {Minute, Day} ELSE {Minute})
    /\ Granted(IF Fits(Minute) /\ Fits(Day) THEN {Minute, Day} ELSE {})
    /\ Same /\ UNCHANGED login

-----------------------------------------------------------------------------
(* Redis stops answering, or answers again; a counter of Redis outlives it. *)
Outage ==
    /\ outages < MaxOutages
    /\ outages' = outages + 1
    /\ up' = ~ up
    /\ granted' = [k \in Key |-> {}]
    /\ UNCHANGED <<clock, redis, memory, login, last>>

TimePasses ==
    /\ clock < MaxClock
    /\ clock' = clock + 1
    /\ UNCHANGED <<redis, memory, up, login, granted, last, outages>>

LimiterInit ==
    /\ clock = 0
    /\ redis = [k \in Key |-> Empty]
    /\ memory = [k \in Key |-> Forgotten]
    /\ up = TRUE
    /\ login = [c \in Caller |-> NoLogin]
    /\ granted = [k \in Key |-> {}]
    /\ last = [k \in Key |-> -1]
    /\ outages = 0

LimiterNext ==
    \/ \E c \in Caller : \/ Begin(c) \/ PeekName(c) \/ PeekAddress(c) \/ Fails(c)
                          \/ RecordName(c) \/ RecordAddress(c) \/ Succeeds(c)
    \/ Question
    \/ Outage
    \/ TimePasses

LimiterSpec == LimiterInit /\ [][LimiterNext]_limiterVars

-----------------------------------------------------------------------------
(* Properties *)

(* Logins that can have passed both peeks when a counter reaches its limit. *)
InFlight == Cardinality(Caller) - 1

(* core/ratelimit.py: while Redis answers, no more failed logins per        *)
(* account and per address fit in any window than the limit and the logins *)
(* already under way, and no more questions than their limit; in memory,    *)
(* where windows do not slide, up to two windows meet. *)
WithinLimit ==
    \A k \in Key :
        LET slack == IF k \in {Minute, Day} THEN 0 ELSE InFlight
            most == Limit[k].max + slack IN
        Cardinality(Recent(k)) <= IF up THEN most ELSE 2 * most

(* core/ratelimit.py: nobody is refused who kept still for a whole window,  *)
(* even when the counters were split between Redis and the memory. *)
AdmittedAgain ==
    \A k \in Key : ~ Allowed(k) => last[k] # -1 /\ clock <= last[k] + Limit[k].window

(* The limit counts what lies in the window, no more and no less. *)
LimitExact == WithinLimit /\ AdmittedAgain
=============================================================================
