------------------------------ MODULE Sessions ------------------------------
(***************************************************************************)
(* Signing in, authenticating a request and signing out: the sessions      *)
(* table, the Redis cache in front of it and the requests that use both.   *)
(*                                                                         *)
(* A step is one call to the database or to Redis.  Sessions of different  *)
(* accounts meet nowhere, so the model follows one account: every token is *)
(* one of its sessions.  Nothing in the code deactivates an account: it is *)
(* done by hand in the database, and here by Deactivate.                   *)
(*                                                                         *)
(* A definition named Buggy... is the one after it with a plausible slip.  *)
(* Nothing uses it: it shows that some property would catch the slip.      *)
(***************************************************************************)
EXTENDS Integers

CONSTANTS
    Tokens,          \* the tokens Login will hand out, one per session
    Requests,        \* requests being authenticated at once
    Logouts,         \* DELETE /sessions requests at once
    SessionTTL,      \* sessionTTL, seven days
    CacheTTL,        \* sessionCacheTTL, ten minutes
    RequestTimeout,  \* middleware.Timeout, thirty seconds
    MaxTime,         \* bound on the clock
    CanFail,         \* whether Redis and the database may fail
    NoToken

ASSUME NoTokenAssumption == NoToken \notin Tokens
ASSUME SessionTimeAssumption ==
    /\ SessionTTL \in Nat \ {0}
    /\ CacheTTL \in Nat \ {0}
    /\ RequestTimeout \in Nat \ {0}
    /\ MaxTime \in Nat
ASSUME CanFailAssumption == CanFail \in BOOLEAN

VARIABLES
    now,       \* the clock
    session,   \* table sessions: each token's row
    gone,      \* history: when each token's row was deleted
    inactive,  \* users.is_active: Never while active, else since when not
    cache,     \* Redis: each token's entry
    auth,      \* each request's Authenticate call
    logout     \* each Logout call

vars == <<now, session, gone, inactive, cache, auth, logout>>

Never == -1
Times == Nat \cup {Never}

Row == [live: BOOLEAN, expires: Times]
\* What one session and user were when they were read; dies is Redis's TTL.
Entry == [dies: Times, expires: Times, active: BOOLEAN]
NoEntry == [dies |-> Never, expires |-> Never, active |-> FALSE]

AuthSteps ==
    {"idle", "looking", "missed", "fetched", "filling", "checking", "granted"}
\* A TTL of 0 would keep an entry for ever.
Auth == [pc: AuthSteps, token: Tokens \cup {NoToken}, start: Times,
         expires: Times, active: BOOLEAN, ttl: Times \ {0}]
IdleAuth == [pc |-> "idle", token |-> NoToken, start |-> Never,
             expires |-> Never, active |-> FALSE, ttl |-> Never]
Logout == [pc: {"idle", "evicting", "deleting"}, token: Tokens \cup {NoToken}, start: Times]
IdleLogout == [pc |-> "idle", token |-> NoToken, start |-> Never]

\* Redis drops an entry when its TTL is up.
Cached(t) == now < cache[t].dies

ContextDone(call) == now >= call.start + RequestTimeout

-----------------------------------------------------------------------------
(* Login: POST /sessions.                                                  *)

\* A correct password gets a new token and a row for it.
Login(t) ==
    /\ ~session[t].live /\ gone[t] = Never
    /\ session' = [session EXCEPT ![t] = [live |-> TRUE, expires |-> now + SessionTTL]]
    /\ UNCHANGED <<now, gone, inactive, cache, auth, logout>>

-----------------------------------------------------------------------------
(* Authenticate: what requireAuth does with the token of a request.        *)

Goto(r, pc) == auth' = [auth EXCEPT ![r].pc = pc]
Refuse(r) == auth' = [auth EXCEPT ![r] = IdleAuth]

StartRequest(r, t) ==
    /\ auth[r].pc = "idle"
    /\ session[t].live \/ gone[t] # Never
    /\ auth' = [auth EXCEPT ![r].pc = "looking", ![r].token = t, ![r].start = now]
    /\ UNCHANGED <<now, session, gone, inactive, cache, logout>>

\* The found session and user are judged as they were when read.
Found(r, expires, active, pc) ==
    auth' = [auth EXCEPT ![r].pc = pc, ![r].expires = expires, ![r].active = active]

\* Every hit pushes the entry's TTL out again.
BuggyGetSessionUser(r) ==
    LET t == auth[r].token
    IN  /\ auth[r].pc = "looking"
        /\ \/ /\ Cached(t)
              /\ cache' = [cache EXCEPT ![t].dies = now + CacheTTL]
              /\ Found(r, cache[t].expires, cache[t].active, "checking")
           \/ /\ ~Cached(t) \/ CanFail \/ ContextDone(auth[r])
              /\ Goto(r, "missed")
              /\ UNCHANGED cache
        /\ UNCHANGED <<now, session, gone, inactive, logout>>

\* The cache's GetSessionUser: any failure is a miss.
GetSessionUser(r) ==
    LET t == auth[r].token
    IN  /\ auth[r].pc = "looking"
        /\ \/ /\ Cached(t)
              /\ Found(r, cache[t].expires, cache[t].active, "checking")
           \/ /\ ~Cached(t) \/ CanFail \/ ContextDone(auth[r])
              /\ Goto(r, "missed")
        /\ UNCHANGED <<now, session, gone, inactive, cache, logout>>

\* The store's GetSessionUser; a session that is not there is refused.
FetchSessionUser(r) ==
    LET t == auth[r].token
    IN  /\ auth[r].pc = "missed"
        /\ \/ /\ session[t].live /\ ~ContextDone(auth[r])
              /\ Found(r, session[t].expires, inactive = Never, "fetched")
           \/ /\ ~session[t].live \/ ContextDone(auth[r]) \/ CanFail
              /\ Refuse(r)
        /\ UNCHANGED <<now, session, gone, inactive, cache, logout>>

\* The entry kept as long as its session.
BuggyEntryTTL(expires) == expires - now

\* The entry kept for its ten minutes whatever the session has left.
BuggyEntryTTLUncut(expires) == CacheTTL

\* How long PutSessionUser would keep an entry: no longer than its session.
EntryTTL(expires) ==
    IF expires - now < CacheTTL THEN expires - now ELSE CacheTTL

\* An expired session cached too.
BuggyTimeEntry(r) ==
    /\ auth[r].pc = "fetched"
    /\ auth' = [auth EXCEPT ![r].pc = "filling", ![r].ttl = EntryTTL(auth[r].expires)]
    /\ UNCHANGED <<now, session, gone, inactive, cache, logout>>

\* PutSessionUser reads the clock to work the TTL out...
TimeEntry(r) ==
    LET ttl == EntryTTL(auth[r].expires)
    IN  /\ auth[r].pc = "fetched"
        /\ \/ /\ ttl > 0
              /\ auth' = [auth EXCEPT ![r].pc = "filling", ![r].ttl = ttl]
           \/ ttl <= 0 /\ Goto(r, "checking")
        /\ UNCHANGED <<now, session, gone, inactive, cache, logout>>

\* ... and writes what was fetched, whatever has happened to the row or the
\* entry since.  A failure is logged and the request goes on.
PutSessionUser(r) ==
    LET t == auth[r].token
    IN  /\ auth[r].pc = "filling"
        /\ auth' = [auth EXCEPT ![r].pc = "checking", ![r].ttl = Never]
        /\ \/ /\ ~ContextDone(auth[r])
              /\ cache' = [cache EXCEPT ![t] =
                    [dies |-> now + auth[r].ttl, expires |-> auth[r].expires,
                     active |-> auth[r].active]]
           \/ (ContextDone(auth[r]) \/ CanFail) /\ UNCHANGED cache
        /\ UNCHANGED <<now, session, gone, inactive, logout>>

\* Expiry left to the database and the cache.
BuggyCheckSession(r) ==
    /\ auth[r].pc = "checking"
    /\ \/ auth[r].active /\ Goto(r, "granted")
       \/ ~auth[r].active /\ Refuse(r)
    /\ UNCHANGED <<now, session, gone, inactive, cache, logout>>

\* Expiry and the account being active are checked after the lookup.
CheckSession(r) ==
    /\ auth[r].pc = "checking"
    /\ \/ now < auth[r].expires /\ auth[r].active /\ Goto(r, "granted")
       \/ (now >= auth[r].expires \/ ~auth[r].active) /\ Refuse(r)
    /\ UNCHANGED <<now, session, gone, inactive, cache, logout>>

EndRequest(r) ==
    /\ auth[r].pc = "granted"
    /\ auth' = [auth EXCEPT ![r] = IdleAuth]
    /\ UNCHANGED <<now, session, gone, inactive, cache, logout>>

-----------------------------------------------------------------------------
(* Logout: DELETE /sessions.                                               *)

StartLogout(l, t) ==
    /\ logout[l].pc = "idle"
    /\ session[t].live
    /\ logout' = [logout EXCEPT ![l] = [pc |-> "evicting", token |-> t, start |-> now]]
    /\ UNCHANGED <<now, session, gone, inactive, cache, auth>>

\* The entry goes first; a failed eviction is logged and Logout goes on.
EvictSession(l) ==
    LET t == logout[l].token
    IN  /\ logout[l].pc = "evicting"
        /\ \/ ~ContextDone(logout[l]) /\ cache' = [cache EXCEPT ![t] = NoEntry]
           \/ (ContextDone(logout[l]) \/ CanFail) /\ UNCHANGED cache
        /\ logout' = [logout EXCEPT ![l].pc = "deleting"]
        /\ UNCHANGED <<now, session, gone, inactive, auth>>

\* The row goes second, and on success the answer is 204.
DeleteSession(l) ==
    LET t == logout[l].token
    IN  /\ logout[l].pc = "deleting"
        /\ \/ /\ ~ContextDone(logout[l]) /\ session[t].live
              /\ session' = [session EXCEPT ![t].live = FALSE]
              /\ gone' = [gone EXCEPT ![t] = now]
           \/ /\ ContextDone(logout[l]) \/ ~session[t].live \/ CanFail
              /\ UNCHANGED <<session, gone>>
        /\ logout' = [logout EXCEPT ![l] = IdleLogout]
        /\ UNCHANGED <<now, inactive, cache, auth>>

-----------------------------------------------------------------------------
(* Around the code.                                                        *)

Deactivate ==
    /\ inactive = Never
    /\ inactive' = now
    /\ UNCHANGED <<now, session, gone, cache, auth, logout>>

\* Redis is emptied, or short of memory.
LoseEntry(t) ==
    /\ CanFail /\ cache[t] # NoEntry
    /\ cache' = [cache EXCEPT ![t] = NoEntry]
    /\ UNCHANGED <<now, session, gone, inactive, auth, logout>>

Tick ==
    /\ now < MaxTime
    /\ now' = now + 1
    /\ UNCHANGED <<session, gone, inactive, cache, auth, logout>>

-----------------------------------------------------------------------------
Init ==
    /\ now = 0
    /\ session = [t \in Tokens |-> [live |-> FALSE, expires |-> Never]]
    /\ gone = [t \in Tokens |-> Never]
    /\ inactive = Never
    /\ cache = [t \in Tokens |-> NoEntry]
    /\ auth = [r \in Requests |-> IdleAuth]
    /\ logout = [l \in Logouts |-> IdleLogout]

Authenticate(r) ==
    \/ \E t \in Tokens : StartRequest(r, t)
    \/ GetSessionUser(r) \/ FetchSessionUser(r) \/ TimeEntry(r)
    \/ PutSessionUser(r) \/ CheckSession(r) \/ EndRequest(r)

LogOut(l) ==
    (\E t \in Tokens : StartLogout(l, t)) \/ EvictSession(l) \/ DeleteSession(l)

Next ==
    \/ \E t \in Tokens : Login(t) \/ LoseEntry(t)
    \/ \E r \in Requests : Authenticate(r)
    \/ \E l \in Logouts : LogOut(l)
    \/ Deactivate \/ Tick

Spec == Init /\ [][Next]_vars

-----------------------------------------------------------------------------
(* What sessions promise.                                                  *)

\* Every variable keeps its type.
SessionsTypeOK ==
    /\ now \in Nat
    /\ session \in [Tokens -> Row]
    /\ gone \in [Tokens -> Times]
    /\ inactive \in Times
    /\ cache \in [Tokens -> Entry]
    /\ auth \in [Requests -> Auth]
    /\ logout \in [Logouts -> Logout]

\* "An entry must not outlive the session, or expiry would go unenforced"
\* (session_cache.go:68): by no more than the write took to arrive, and that
\* less than a request lives.
EntryWithinSession ==
    \A t \in Tokens :
        Cached(t) => cache[t].dies < session[t].expires + RequestTimeout

\* How long a request may still be let in on what another one read before the
\* row or the account changed: that other request's life and its entry's.
Grace == RequestTimeout + CacheTTL

\* A session that was logged out is not accepted for ever: a request that
\* comes Grace after its row went is refused, whatever fills, failed evictions
\* and repeated hits there were.
LogoutTakesHold ==
    \A r \in Requests :
        auth[r].pc = "granted" /\ gone[auth[r].token] # Never
            => auth[r].start < gone[auth[r].token] + Grace

\* Nor is an account that has been deactivated for that long (main.go:35).
DeactivationTakesHold ==
    \A r \in Requests :
        auth[r].pc = "granted" /\ inactive # Never
            => auth[r].start < inactive + Grace

\* A request is never let in on a session past its expiry, cached or not.
NeverPastExpiry ==
    \A r \in Requests :
        auth[r].pc = "granted" => auth[r].start < session[auth[r].token].expires

-----------------------------------------------------------------------------
(* What a comment says and the code does not keep.                         *)

\* "Evicted before the row goes, or a failure here would leave the session
\* usable from the cache" (auth.go:121): a request that comes after the row
\* went is refused.
LogoutIsFinal ==
    \A r \in Requests :
        auth[r].pc = "granted" /\ gone[auth[r].token] # Never
            => auth[r].start <= gone[auth[r].token]
=============================================================================
